------------------------------ MODULE LiveInbox ------------------------------
(***************************************************************************)
(* An operator's browser and how it learns what happens: the tasks that    *)
(* commit and then publish (webhook, worker, console routes), Redis, the   *)
(* hub and the connection of the API process (realtime/, ws_inbox.py), and *)
(* the cached queries and requests of the page (frontend/src/hooks).       *)
(*                                                                         *)
(* What the turn and the console's routes do to a Talk among themselves is *)
(* TalkHandling's; here each is one commit.  Of the page's queries, the    *)
(* model keeps the messages of the conversation that is open: the others   *)
(* are fetched and made stale in the same way, and the operators' buttons  *)
(* are those of any view, the routes check again.  A message is named by   *)
(* its place in its lead's stream.  fetch, WebSocket and the query cache   *)
(* are external and do what the hooks expect of them.                      *)
(***************************************************************************)
EXTENDS InboxRepository

CONSTANTS
  Lead,        \* the contacts of the instance that the page has selected
  Task,        \* coroutines that have committed and publish
  Start,       \* what a lead's Talks may be when the page is loaded
  Pending,     \* the optimistic bubble of a message being sent
  QueueMax,    \* maxsize of a connection's queue (100)
  MaxMsgs,     \* bound on the messages of a lead since the page was loaded
  MaxChanges,  \* bound on the changes of Talks and windows
  MaxDrops,    \* bound on lost connections
  MaxFaults    \* bound on requests and publications that fail

ASSUME BoundAssumption == {QueueMax, MaxMsgs, MaxChanges, MaxDrops, MaxFaults} \subseteq Nat

\* The rows of talks: a Talk that is over has one of the closed statuses.
TalkRow == [status : ActiveStatuses \cup {"closed_completed", "closed_inactivity"}, mode : {"ai", "human"}]

ASSUME StartAssumption == Start \subseteq Seq(TalkRow)

ASSUME NilAssumption == Nil \notin TalkRow \cup Lead

VARIABLES
  talks,       \* the Talks of each lead, as InboxRepository reads them
  past,        \* history: what they have been, for a request that reads twice
  stream,      \* how many messages each lead has, inbound and outbound
  task,        \* the envelope a task has to publish, or Nil; seq 0 before its INCR
  seq,         \* the counter of the instance, in Redis
  socket,      \* the browser's WebSocket: [open, hub, seen, queue]
  reader,      \* the hub's reader of Redis runs
  lead,        \* the contact that the page has opened, Nil at first
  lastSeq,     \* lastSeqRef
  connectedBefore,
  query,       \* useMessages: [phase, tries, data, loaded, shown]
  send,        \* the mutation under way: [phase, previous]
  want,        \* history: the messages that events and reconnections announced
  joined,      \* history: of these, those announced to a first answer on its way
  changes, drops, faults

db == <<talks, past, stream>>
page == <<lead, lastSeq, connectedBefore, query, send, want, joined>>
bounds == <<changes, drops, faults>>
vars == <<db, task, seq, socket, reader, page, bounds>>

-----------------------------------------------------------------------------
(* Committed changes and their events *)

Change == changes < MaxChanges /\ changes' = changes + 1

\* publish_inbox_event's envelope; upTo is a history: the lead's messages when
\* the task committed.
Envelope(l, type, upTo) == [seq |-> 0, type |-> type, lead |-> l, upTo |-> upTo]

\* publish_message_created; the contact.updated that follows makes stale only
\* queries that are left out.
MessageCreated == "message.created"
TalkUpdated == "talk.updated"

Announce(t, l, type, upTo) ==
  /\ task[t] = Nil
  /\ task' = [task EXCEPT ![t] = Envelope(l, type, upTo)]

Write(l) == stream[l] < MaxMsgs /\ stream' = [stream EXCEPT ![l] = @ + 1]

\* The webhook's transaction, for one message.
InboundArrives(t, l) ==
  /\ Write(l)
  /\ Announce(t, l, MessageCreated, stream[l] + 1)
  /\ UNCHANGED <<talks, past, seq, socket, reader, page, bounds>>

AiHolds(l) ==
  ActiveTalk(talks[l]) # Nil /\ ActiveTalk(talks[l]).mode = "ai" /\ ActiveTalk(talks[l]).status = "active"

Remember == past' = past \cup {talks}

SetTalk(l, talk) == talks' = [talks EXCEPT ![l][Len(talks[l])] = talk] /\ Remember

\* A turn that is sent, in a new Talk or in the one at hand, which may close.
AiTurn(t, l) ==
  /\ Write(l)
  /\ \/ ActiveTalk(talks[l]) = Nil
        /\ talks' = [talks EXCEPT ![l] = Append(@, [status |-> "active", mode |-> "ai"])] /\ Remember
     \/ AiHolds(l) /\ UNCHANGED <<talks, past>>
     \/ AiHolds(l) /\ SetTalk(l, [status |-> "closed_completed", mode |-> "ai"])
  /\ Announce(t, l, MessageCreated, stream[l] + 1)
  /\ UNCHANGED <<seq, socket, reader, page, bounds>>

\* A turn that escalates and the scan job that closes publish nothing.
SilentChange(l) ==
  /\ AiHolds(l) /\ Change
  /\ \E status \in {"requires_review", "closed_inactivity"} :
       SetTalk(l, [status |-> status, mode |-> "ai"])
  /\ UNCHANGED <<stream, task, seq, socket, reader, page, drops, faults>>

\* takeover_talk and release_talk: a check-and-set of handling_mode.
CanFlip(l, from) == ActiveTalk(talks[l]) # Nil /\ ActiveTalk(talks[l]).mode = from

Flip(t, l, from, to) ==
  /\ CanFlip(l, from)
  /\ SetTalk(l, [ActiveTalk(talks[l]) EXCEPT !.mode = to])
  /\ Announce(t, l, TalkUpdated, stream[l])

\* Takeover and release, by this operator or another.
Takeover(t, l) ==
  /\ Change /\ Flip(t, l, "ai", "human")
  /\ UNCHANGED <<stream, seq, socket, reader, page, drops, faults>>

Release(t, l) ==
  /\ Change /\ Flip(t, l, "human", "ai")
  /\ UNCHANGED <<stream, seq, socket, reader, page, drops, faults>>

-----------------------------------------------------------------------------
(* Redis, the hub and the socket *)

Incr(t) ==
  /\ task[t] # Nil /\ task[t].seq = 0
  /\ seq' = seq + 1
  /\ task' = [task EXCEPT ![t].seq = seq + 1]
  /\ UNCHANGED <<db, socket, reader, page, bounds>>

\* Mutant: the queue has no limit.
OfferAlways(s, env) == [s EXCEPT !.queue = Append(@, env)]

\* WSConnection.offer; the hub unregisters a connection that is full.
Offer(s, env) ==
  IF Len(s.queue) < QueueMax THEN [s EXCEPT !.queue = Append(@, env)]
  ELSE [s EXCEPT !.hub = "dropped"]

\* redis.publish and the hub's reader, which hands out what it gets in order
\* as long as it runs.
Publish(t) ==
  /\ task[t] # Nil /\ task[t].seq # 0
  /\ socket' = IF reader /\ socket.hub = "registered" THEN Offer(socket, task[t]) ELSE socket
  /\ task' = [task EXCEPT ![t] = Nil]
  /\ UNCHANGED <<db, seq, reader, page, bounds>>

\* pubsub.listen raises: the reader logs it and ends, for this process and all
\* its connections, which stay registered.
ReaderCrashes ==
  /\ reader /\ faults < MaxFaults /\ faults' = faults + 1
  /\ reader' = FALSE
  /\ UNCHANGED <<db, task, seq, socket, page, changes, drops>>

\* The exception is logged and the event is gone.
PublishFails(t) ==
  /\ task[t] # Nil /\ faults < MaxFaults /\ faults' = faults + 1
  /\ task' = [task EXCEPT ![t] = Nil]
  /\ UNCHANGED <<db, seq, socket, reader, page, changes, drops>>

Closed == [open |-> FALSE, hub |-> "none", seen |-> FALSE, queue |-> <<>>]

\* The reconnection timer, or the effect; ws_inbox accepts.
Connect ==
  /\ ~socket.open
  /\ socket' = [Closed EXCEPT !.open = TRUE]
  /\ UNCHANGED <<db, task, seq, reader, page, bounds>>

Register ==
  /\ socket.open /\ socket.hub = "none"
  /\ socket' = [socket EXCEPT !.hub = "registered"]
  /\ UNCHANGED <<db, task, seq, reader, page, bounds>>

SocketCloses ==
  /\ socket.open /\ drops < MaxDrops /\ drops' = drops + 1
  /\ socket' = Closed
  /\ UNCHANGED <<db, task, seq, reader, page, changes, faults>>

-----------------------------------------------------------------------------
(* The page's queries *)

\* invalidateQueries: a query in use is fetched anew, whatever is under way,
\* except that one that has no data yet goes on with the fetch it has.
Joins == query.phase \in {"asked", "answered"} /\ ~query.loaded

\* Mutant: a fetch that is under way goes on.
InvalidatedIdle ==
  IF lead = Nil \/ query.phase \in {"asked", "answered"} THEN query
  ELSE [query EXCEPT !.phase = "asked", !.tries = 0, !.data = {}]

Invalidated ==
  IF lead = Nil \/ Joins THEN query ELSE [query EXCEPT !.phase = "asked", !.tries = 0, !.data = {}]

\* The messages are announced; a first answer that has left the server is not
\* asked for again.
Announced(messages) ==
  /\ want' = want \cup messages
  /\ joined' = IF Joins /\ query.phase = "answered" THEN joined \cup messages ELSE joined \ messages

\* list_contact_messages
Respond ==
  /\ query.phase = "asked"
  /\ query' = [query EXCEPT !.phase = "answered", !.data = MessageRows(stream[lead])]
  /\ UNCHANGED <<db, task, seq, socket, reader, lead, lastSeq, connectedBefore, send, want, joined, bounds>>

Land ==
  /\ query.phase = "answered"
  /\ query' = [phase |-> "idle", tries |-> 0, data |-> {}, loaded |-> TRUE, shown |-> query.data]
  /\ UNCHANGED <<db, task, seq, socket, reader, lead, lastSeq, connectedBefore, send, want, joined, bounds>>

\* retry: 1, then the query keeps what it had.
FetchFails ==
  /\ query.phase = "asked" /\ faults < MaxFaults /\ faults' = faults + 1
  /\ query' = IF query.tries = 0 THEN [query EXCEPT !.tries = 1]
              ELSE [query EXCEPT !.phase = "error", !.tries = 0]
  /\ UNCHANGED <<db, task, seq, socket, reader, lead, lastSeq, connectedBefore, send, want, joined,
                 changes, drops>>

SelectLead(l) ==
  /\ lead = Nil /\ lead' = l
  /\ query' = [query EXCEPT !.phase = "asked"]
  /\ UNCHANGED <<db, task, seq, socket, reader, lastSeq, connectedBefore, send, want, joined, bounds>>

\* onopen: the list, and the conversation too after an interruption.
Refetch == connectedBefore

OnOpen ==
  /\ socket.open /\ ~socket.seen
  /\ socket' = [socket EXCEPT !.seen = TRUE]
  /\ query' = IF Refetch THEN Invalidated ELSE query
  /\ IF connectedBefore /\ lead # Nil THEN Announced(MessageRows(stream[lead]))
     ELSE UNCHANGED <<want, joined>>
  /\ connectedBefore' = TRUE
  /\ UNCHANGED <<db, task, seq, reader, lead, lastSeq, send, bounds>>

\* applyInboxEvent: whether an event makes the conversation stale.
Stale(env) == env.lead = lead /\ env.type = "message.created"

\* onmessage: an event that is not newer than the last one is dropped.
OnMessage ==
  /\ socket.seen /\ socket.queue # <<>>
  /\ socket' = [socket EXCEPT !.queue = Tail(@)]
  /\ LET env == Head(socket.queue) IN
       IF env.seq <= lastSeq THEN UNCHANGED <<lastSeq, query, want, joined>>
       ELSE /\ lastSeq' = env.seq
            /\ query' = IF Stale(env) THEN Invalidated ELSE query
            /\ IF Stale(env) THEN Announced(1..env.upTo) ELSE UNCHANGED <<want, joined>>
  /\ UNCHANGED <<db, task, seq, reader, lead, connectedBefore, send, bounds>>

-----------------------------------------------------------------------------
(* The composer *)

NoSend == [phase |-> "none", previous |-> {}]

\* Composer: enabled by the detail of the contact.
Composable(detail) == detail.state = "human" /\ detail.window

\* useSend.onMutate: a fetch under way is cancelled, the bubble is shown.  The
\* detail that enables the composer may be older than the Talk.
Compose ==
  /\ send = NoSend /\ lead # Nil /\ talks[lead] # <<>> /\ Change
  /\ send' = [phase |-> "asked", previous |-> query.shown]
  /\ query' = [phase |-> "idle", tries |-> 0, data |-> {}, loaded |-> TRUE,
               shown |-> query.shown \cup {Pending}]
  /\ UNCHANGED <<db, task, seq, socket, reader, lead, lastSeq, connectedBefore, want, joined, drops, faults>>

Served(ok) == send' = [send EXCEPT !.phase = IF ok THEN "ok" ELSE "failed"]

\* send_operator_message: outside the window, or if WhatsApp refuses, 422.
Serve(t) ==
  /\ send.phase = "asked"
  /\ \/ /\ CanFlip(lead, "human") /\ Write(lead)
        /\ Announce(t, lead, MessageCreated, stream[lead] + 1) /\ Served(TRUE)
     \/ Served(FALSE) /\ UNCHANGED <<stream, task>>
  /\ UNCHANGED <<talks, past, seq, socket, reader, lead, lastSeq, connectedBefore, query,
                 want, joined, bounds>>

\* The connection fails after the route has done its work.
AnswerLost ==
  /\ send.phase = "ok" /\ faults < MaxFaults /\ faults' = faults + 1
  /\ Served(FALSE)
  /\ UNCHANGED <<db, task, seq, socket, reader, lead, lastSeq, connectedBefore, query, want, joined,
                 changes, drops>>

\* Mutant: a send that succeeded leaves the bubble for the message it became.
SettledIfFailed(q) == IF send.phase = "failed" THEN [q EXCEPT !.phase = "asked"] ELSE q

\* onSettled
Settled(q) == [q EXCEPT !.phase = "asked", !.tries = 0, !.data = {}]

\* A send that failed puts back what was shown before it.
Settle ==
  /\ send.phase \in {"ok", "failed"} /\ send' = NoSend
  /\ query' = Settled(IF send.phase = "ok" THEN query ELSE [query EXCEPT !.shown = send.previous])
  /\ UNCHANGED <<db, task, seq, socket, reader, lead, lastSeq, connectedBefore, want, joined, bounds>>

-----------------------------------------------------------------------------
Init ==
  /\ talks \in [Lead -> Start] /\ past = {} /\ stream = [l \in Lead |-> 0]
  /\ task = [t \in Task |-> Nil] /\ seq = 0
  /\ socket = Closed /\ reader = TRUE
  /\ lead = Nil /\ lastSeq = 0 /\ connectedBefore = FALSE
  /\ query = [phase |-> "idle", tries |-> 0, data |-> {}, loaded |-> FALSE, shown |-> {}]
  /\ send = NoSend /\ want = {} /\ joined = {} /\ changes = 0 /\ drops = 0 /\ faults = 0

Commits(t) ==
  \E l \in Lead : InboundArrives(t, l) \/ AiTurn(t, l) \/ Takeover(t, l) \/ Release(t, l)

Publisher(t) == Incr(t) \/ Publish(t)
Link == Connect \/ Register \/ OnOpen \/ OnMessage
Fetch == Respond \/ Land

Next ==
  \/ \E t \in Task : Commits(t) \/ Publisher(t) \/ PublishFails(t) \/ Serve(t)
  \/ \E l \in Lead : SilentChange(l) \/ SelectLead(l)
  \/ Link \/ SocketCloses \/ ReaderCrashes
  \/ Fetch \/ FetchFails \/ Compose \/ AnswerLost \/ Settle

\* The event loops run what is ready; the operator and the lead owe nothing.  As
\* they and the failures are bounded, it is enough that something ready runs.
Progress ==
  (\E t \in Task : Publisher(t) \/ Serve(t)) \/ Settle \/ Link \/ Fetch

Fairness == WF_vars(Progress)

Spec == Init /\ [][Next]_vars
FairSpec == Spec /\ Fairness

-----------------------------------------------------------------------------
(* Properties *)

TypeOK ==
  /\ \A l \in Lead : talks[l] \in Seq(TalkRow) /\ stream[l] \in Nat
  /\ seq \in Nat /\ \A t \in Task : task[t] = Nil \/ task[t].seq \in 0..seq
  /\ socket.hub \in {"none", "registered", "dropped"} /\ Len(socket.queue) <= QueueMax
  /\ socket.hub # "none" => socket.open
  /\ lead \in Lead \cup {Nil} /\ lastSeq \in Nat
  /\ query.phase \in {"idle", "asked", "answered", "error"} /\ query.tries \in 0..1
  /\ query.shown \subseteq 1..MaxMsgs \cup {Pending}
  /\ joined \subseteq want /\ want \subseteq 1..MaxMsgs
  /\ send.phase \in {"none", "asked", "ok", "failed"}

\* Each contact is under a tab.  A row's badge names its tab, or a review that an
\* operator holds, whatever was committed between the two reads of the list,
\* unless it was to the row's own Talk: another Talk of the lead changes nothing.
TabsMatchBadges ==
  /\ \A l \in Lead : \E f \in Filters : l \in DOMAIN ListContacts(f, talks, talks)
  /\ \A was \in past \cup {talks}, f \in Filters : LET list == ListContacts(f, was, talks) IN
       \A l \in DOMAIN list :
         \/ list[l] = f \/ (f = "human" /\ list[l] = "requires_review")
         \/ /\ f \in {"ai", "human", "requires_review"}
            /\ talks[l][ActiveId(was[l])] # was[l][ActiveId(was[l])]

\* What an event has announced, or what was written by the time a connection
\* came back, is shown, whatever fetches it races and whatever the operator
\* sends meanwhile, unless two fetches in a row have failed, or the answer of the
\* conversation's first fetch was already on its way.
EventIsShown == []<>(want \ joined \subseteq query.shown \/ query.phase = "error")

\* An optimistic bubble does not stay: it gives way to the message or goes.
BubbleSettles == []<>(Pending \notin query.shown \/ query.phase = "error")

\* "an operator can take over a conversation (pausing the AI) and send ... This
\* closes the escalation gap": who holds the Talk and sees it as it is can write.
HeldIsAnswerable ==
  \A l \in Lead : CanFlip(l, "human") => Composable(ContactDetail(talks[l], TRUE))

\* The same for every announcement: one that comes in while the first answer is
\* on its way joins that fetch.
NewsIsShown == []<>(want \subseteq query.shown \/ query.phase = "error")

\* "fans each published event out to every registered connection" (hub.py:4-5).
EachEventIsOffered ==
  [][\A t \in Task : Publish(t) /\ socket.hub = "registered" => socket' = Offer(socket, task[t])]_vars

\* The badge of a row is its tab: not if the Talk changes between the two reads.
BadgeIsTab ==
  \A was \in past, f \in {"ai", "human"} : LET list == ListContacts(f, was, talks) IN
    \A l \in DOMAIN list : list[l] \in {f, "requires_review"}

\* "seq is used only to dedup": an event that announces a message which is not
\* shown and is not being fetched has a number the page has not passed.
NewsIsTaken ==
  (socket.seen /\ socket.queue # <<>> /\ query.phase = "idle" /\ send = NoSend) =>
    LET env == Head(socket.queue)
    IN Stale(env) /\ ~(1..env.upTo \subseteq query.shown) => env.seq > lastSeq
=============================================================================
