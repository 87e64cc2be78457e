-------------------------- MODULE LiveInbox_proofs --------------------------
(***************************************************************************)
(* Theorems about LiveInbox, for any number of leads, tasks, messages,     *)
(* failures and lost connections: types, and that a contact is under the   *)
(* tab its badge names, whatever is committed while the list is read.      *)
(***************************************************************************)
EXTENDS LiveInbox, SequenceTheorems, WellFoundedInduction, TLAPS

-----------------------------------------------------------------------------
(* The inductive invariant *)

EnvelopeType == [seq : Nat, type : {MessageCreated, TalkUpdated}, lead : Lead, upTo : 0..MaxMsgs]

Shown == SUBSET (1..MaxMsgs \cup {Pending})

Query == [phase : {"idle", "asked", "answered", "error"}, tries : 0..1, data : SUBSET (1..MaxMsgs),
          loaded : BOOLEAN, shown : Shown]

Types ==
  /\ talks \in [Lead -> Seq(TalkRow)] /\ past \subseteq [Lead -> Seq(TalkRow)]
  /\ stream \in [Lead -> 0..MaxMsgs]
  /\ task \in [Task -> EnvelopeType \cup {Nil}] /\ seq \in Nat
  /\ socket \in [open : BOOLEAN, hub : {"none", "registered", "dropped"}, seen : BOOLEAN,
                 queue : Seq(EnvelopeType)]
  /\ reader \in BOOLEAN
  /\ lead \in Lead \cup {Nil} /\ lastSeq \in Nat /\ connectedBefore \in BOOLEAN
  /\ query \in Query
  /\ send \in [phase : {"none", "asked", "ok", "failed"}, previous : Shown]
  /\ joined \subseteq want /\ want \subseteq 1..MaxMsgs

\* An envelope's number comes from the counter.
Numbered == \A t \in Task : task[t] # Nil => task[t].seq <= seq

\* What a connection has and what the hub knows of it.
Linked == /\ Len(socket.queue) <= QueueMax
          /\ socket.hub # "none" => socket.open

\* The page asks and sends for the contact that it has opened.
Opened == query.phase \in {"asked", "answered"} \/ send.phase # "none" => lead # Nil

LiveInv == Types /\ Numbered /\ Linked /\ Opened

-----------------------------------------------------------------------------
(* The operators *)

\* Indices that are bounded have a greatest one.
LEMMA Greatest ==
  ASSUME NEW n \in Nat, NEW S \in SUBSET (1..n), S # {}
  PROVE  \E i \in S : \A k \in S : k <= i
<1> DEFINE T == {n - i : i \in S}
<1>1. T \subseteq Nat
  OBVIOUS
<1>2. T # {}
  OBVIOUS
<1> HIDE DEF T
<1>3. PICK x \in T : \A y \in T : ~(<<y, x>> \in OpToRel(<, Nat))
  BY <1>1, <1>2, NatLessThanWellFounded, WFMin
<1>4. \A y \in T : ~(y < x)
  BY <1>1, <1>3 DEF OpToRel
<1>5. PICK i \in S : x = n - i
  BY DEF T
<1>6. \A k \in S : n - k \in T
  BY DEF T
<1>7. ASSUME NEW k \in S PROVE k <= i
  <2>1. ~(n - k < n - i)
    BY <1>4, <1>5, <1>6
  <2> QED
    BY <2>1
<1> QED
  BY <1>7

\* active_talk_sq finds a row that is open, if there is one.
LEMMA ActiveIdFacts ==
  ASSUME NEW ts \in Seq(TalkRow), ActiveId(ts) # 0
  PROVE  /\ ActiveId(ts) \in 1..Len(ts) /\ ts[ActiveId(ts)] \in TalkRow
         /\ ts[ActiveId(ts)].status \in ActiveStatuses /\ Len(ts) \in 1..Len(ts)
<1> DEFINE open == {i \in DOMAIN ts : ts[i].status \in ActiveStatuses}
<1>1. Len(ts) \in Nat /\ open \in SUBSET (1..Len(ts))
  BY LenProperties
<1>2. open # {} /\ ActiveId(ts) = CHOOSE i \in open : \A k \in open : k <= i
  BY DEF ActiveId
<1>3. \A i \in open : ts[i].status \in ActiveStatuses
  OBVIOUS
<1> HIDE DEF open
<1>4. \E i \in open : \A k \in open : k <= i
  BY <1>1, <1>2, Greatest
<1>5. ActiveId(ts) \in open
  BY <1>2, <1>4
<1>6. ActiveId(ts) \in 1..Len(ts)
  BY <1>1, <1>5
<1>7. ts[ActiveId(ts)] \in TalkRow
  BY <1>6, ElementOfSeq
<1>8. Len(ts) \in 1..Len(ts)
  BY <1>1, <1>6
<1> QED
  BY <1>3, <1>5, <1>6, <1>7, <1>8

LEMMA ActiveTalkFacts ==
  ASSUME NEW ts \in Seq(TalkRow)
  PROVE  /\ ActiveTalk(ts) = Nil <=> ActiveId(ts) = 0
         /\ ActiveTalk(ts) # Nil =>
              /\ ActiveTalk(ts) = ts[ActiveId(ts)] /\ ActiveTalk(ts) \in TalkRow
              /\ ActiveTalk(ts).status \in ActiveStatuses /\ Len(ts) \in 1..Len(ts)
<1>1. CASE ActiveId(ts) = 0
  BY <1>1 DEF ActiveTalk
<1>2. CASE ActiveId(ts) # 0
  <2>1. ActiveTalk(ts) = ts[ActiveId(ts)]
    BY <1>2 DEF ActiveTalk
  <2> QED
    BY <1>2, <2>1, ActiveIdFacts, NilAssumption
<1> QED
  BY <1>1, <1>2

LEMMA SetTalkTypes ==
  ASSUME talks \in [Lead -> Seq(TalkRow)], NEW l \in Lead, ActiveTalk(talks[l]) # Nil,
         NEW r \in TalkRow, SetTalk(l, r)
  PROVE  talks' \in [Lead -> Seq(TalkRow)]
<1>1. talks[l] \in Seq(TalkRow) /\ Len(talks[l]) \in 1..Len(talks[l])
  BY ActiveTalkFacts
<1>2. [talks[l] EXCEPT ![Len(talks[l])] = r] \in Seq(TalkRow)
  BY <1>1, ExceptSeq
<1>3. talks' = [talks EXCEPT ![l] = [talks[l] EXCEPT ![Len(talks[l])] = r]]
  BY DEF SetTalk
<1> QED
  BY <1>2, <1>3

-----------------------------------------------------------------------------
(* A contact is under the tab that its badge names.                        *)

\* A lead's rows are under some tab.
LEMMA SomeTab ==
  ASSUME NEW ts \in Seq(TalkRow) PROVE \E f \in Filters : Under(f, ts)
<1> DEFINE t == ActiveTalk(ts)
<1>1. CASE t = Nil
  <2> HIDE DEF t
  <2>1. Under("closed", ts) \/ Under("awaiting", ts)
    BY <1>1 DEF Under, t
  <2> QED
    BY <2>1 DEF Filters
<1>2. CASE t # Nil
  <2>1. t.status \in {"active", "requires_review"} /\ t.mode \in {"ai", "human"}
    BY <1>2, ActiveTalkFacts DEF TalkRow, ActiveStatuses
  <2> HIDE DEF t
  <2>2. Under("human", ts) \/ Under("ai", ts) \/ Under("requires_review", ts)
    BY <1>2, <2>1 DEF Under, t
  <2> QED
    BY <2>2 DEF Filters
<1> QED
  BY <1>1, <1>2

\* The badge of a row of the list, when its Talk is what the filter saw.
LEMMA BadgeOfTab ==
  ASSUME NEW ts \in Seq(TalkRow), NEW now, NEW f \in Filters, Under(f, ts)
  PROVE  \/ RowState(ts, now) = f \/ (f = "human" /\ RowState(ts, now) = "requires_review")
         \/ f \in {"ai", "human", "requires_review"} /\ now[ActiveId(ts)] # ts[ActiveId(ts)]
<1> DEFINE t == ActiveTalk(ts)
<1>1. CASE t = Nil
  <2>1. RowState(ts, now) = IF HasClosed(ts) THEN "closed" ELSE "awaiting"
    BY <1>1, ActiveTalkFacts DEF RowState
  <2> HIDE DEF t
  <2> QED
    BY <1>1, <2>1 DEF t, Under, Filters
<1>2. CASE t # Nil
  <2>1. t = ts[ActiveId(ts)] /\ ActiveId(ts) # 0
    BY <1>2, ActiveTalkFacts
  <2>2. t.status \in {"active", "requires_review"} /\ t.mode \in {"ai", "human"}
    BY <1>2, ActiveTalkFacts DEF TalkRow, ActiveStatuses
  <2>3. RowState(ts, now) = DeriveState(now[ActiveId(ts)])
    BY <2>1 DEF RowState
  <2> HIDE DEF t
  <2>4. f \in {"ai", "human", "requires_review"}
    BY <1>2 DEF t, Under, Filters
  <2>5. ASSUME now[ActiveId(ts)] = ts[ActiveId(ts)]
        PROVE  RowState(ts, now) = f \/ (f = "human" /\ RowState(ts, now) = "requires_review")
    <3>1. RowState(ts, now) = DeriveState(t)
      BY <2>1, <2>3, <2>5
    <3>2. DeriveState(t) = IF t.status = "requires_review" THEN "requires_review"
                           ELSE IF t.mode = "human" THEN "human" ELSE "ai"
      BY <1>2, <2>2 DEF DeriveState
    <3> QED
      BY <1>2, <2>2, <2>4, <3>1, <3>2 DEF t, Under
  <2> QED
    BY <2>4, <2>5
<1> QED
  BY <1>1, <1>2

\* The rows that the two reads find are all that it depends on.
LEMMA TabsOfTalks ==
  ASSUME talks \in [Lead -> Seq(TalkRow)], past \subseteq [Lead -> Seq(TalkRow)] PROVE TabsMatchBadges
<1>1. \A was \in [Lead -> Seq(TalkRow)], f \in Filters :
        /\ DOMAIN ListContacts(f, was, talks) = {l \in Lead : Under(f, was[l])}
        /\ \A l \in Lead : Under(f, was[l]) => ListContacts(f, was, talks)[l] = RowState(was[l], talks[l])
  BY DEF ListContacts
<1>2. ASSUME NEW l \in Lead PROVE \E f \in Filters : l \in DOMAIN ListContacts(f, talks, talks)
  <2>1. PICK f \in Filters : Under(f, talks[l])
    BY SomeTab
  <2>2. DOMAIN ListContacts(f, talks, talks) = {c \in Lead : Under(f, talks[c])}
    BY <1>1
  <2> QED
    BY <2>1, <2>2, Zenon
<1>3. ASSUME NEW was \in past \cup {talks}, NEW f \in Filters, NEW l \in DOMAIN ListContacts(f, was, talks)
      PROVE  LET list == ListContacts(f, was, talks) IN
               \/ list[l] = f \/ (f = "human" /\ list[l] = "requires_review")
               \/ /\ f \in {"ai", "human", "requires_review"}
                  /\ talks[l][ActiveId(was[l])] # was[l][ActiveId(was[l])]
  <2>1. was \in [Lead -> Seq(TalkRow)]
    OBVIOUS
  <2>2. l \in Lead /\ Under(f, was[l]) /\ ListContacts(f, was, talks)[l] = RowState(was[l], talks[l])
    <3>1. DOMAIN ListContacts(f, was, talks) = {c \in Lead : Under(f, was[c])}
      BY <1>1, <2>1, Zenon
    <3>2. l \in Lead /\ Under(f, was[l])
      BY <1>3, <3>1, Zenon
    <3> QED
      BY <1>1, <2>1, <3>2, Zenon
  <2>3. was[l] \in Seq(TalkRow)
    BY <2>1, <2>2
  <2> QED
    BY <2>2, <2>3, BadgeOfTab
<1> QED
  BY <1>2, <1>3 DEF TabsMatchBadges

-----------------------------------------------------------------------------
(* The inductive invariant holds in every step.                            *)

LEMMA InitInv == Init => LiveInv
<1> SUFFICES ASSUME Init PROVE LiveInv
  OBVIOUS
<1>1. \A l \in Lead : talks[l] \in Seq(TalkRow)
  BY StartAssumption DEF Init
<1>2. talks \in [Lead -> Seq(TalkRow)] /\ stream \in [Lead -> 0..MaxMsgs]
  BY <1>1, BoundAssumption DEF Init
<1>3. socket = Closed /\ Closed.queue = <<>> /\ Closed.hub = "none"
  BY DEF Init, Closed
<1>4. Closed \in [open : BOOLEAN, hub : {"none", "registered", "dropped"}, seen : BOOLEAN,
                  queue : Seq(EnvelopeType)]
  BY EmptySeq, Zenon DEF Closed
<1>5. /\ task = [t \in Task |-> Nil] /\ seq = 0 /\ reader = TRUE /\ past = {}
      /\ lead = Nil /\ lastSeq = 0 /\ connectedBefore = FALSE
      /\ query = [phase |-> "idle", tries |-> 0, data |-> {}, loaded |-> FALSE, shown |-> {}]
      /\ send = NoSend /\ want = {} /\ joined = {}
  BY DEF Init
<1>6. reader \in BOOLEAN /\ connectedBefore \in BOOLEAN
  BY <1>5, Zenon
<1>7. query \in Query /\ query.phase = "idle"
  BY <1>5 DEF Query, Shown
<1>8. send \in [phase : {"none", "asked", "ok", "failed"}, previous : Shown] /\ send.phase = "none"
  BY <1>5 DEF NoSend, Shown
<1>9. task \in [Task -> EnvelopeType \cup {Nil}] /\ seq \in Nat /\ Numbered
  BY <1>5 DEF Numbered
<1>10. Types
  BY <1>2, <1>3, <1>4, <1>5, <1>6, <1>7, <1>8, <1>9 DEF Types
<1>11. Linked
  BY <1>3, EmptySeq, BoundAssumption DEF Linked
<1>12. Opened
  BY <1>7, <1>8 DEF Opened
<1> QED
  BY <1>9, <1>10, <1>11, <1>12 DEF LiveInv

\* A task that has committed has an envelope without a number.
LEMMA Announces ==
  ASSUME LiveInv, NEW t \in Task, NEW l \in Lead, NEW type \in {MessageCreated, TalkUpdated},
         NEW upTo \in 0..MaxMsgs, Announce(t, l, type, upTo), seq' = seq
  PROVE  task' \in [Task -> EnvelopeType \cup {Nil}] /\ Numbered'
<1> DEFINE env == Envelope(l, type, upTo)
<1>1. env \in EnvelopeType /\ env.seq = 0
  BY DEF Envelope, EnvelopeType
<1>2. task' = [task EXCEPT ![t] = env] /\ task \in [Task -> EnvelopeType \cup {Nil}] /\ seq \in Nat
  BY DEF Announce, LiveInv, Types
<1> HIDE DEF env
<1>3. task' \in [Task -> EnvelopeType \cup {Nil}]
  BY <1>1, <1>2
<1>4. \A u \in Task : task'[u] # Nil => task'[u].seq <= seq'
  BY <1>1, <1>2 DEF LiveInv, Numbered
<1> QED
  BY <1>3, <1>4 DEF Numbered

LEMMA Writes ==
  ASSUME LiveInv, NEW l \in Lead, Write(l)
  PROVE  stream' \in [Lead -> 0..MaxMsgs] /\ stream[l] + 1 \in 1..MaxMsgs /\ stream[l] \in 0..MaxMsgs
<1>1. stream \in [Lead -> 0..MaxMsgs] /\ MaxMsgs \in Nat
  BY BoundAssumption DEF LiveInv, Types
<1>2. stream[l] \in 0..MaxMsgs /\ stream[l] < MaxMsgs
  BY <1>1 DEF Write
<1>3. stream[l] + 1 \in 1..MaxMsgs
  BY <1>1, <1>2
<1> QED
  BY <1>1, <1>2, <1>3 DEF Write

\* Steps that change rows and tasks alone.
LEMMA RowsInv ==
  ASSUME LiveInv, UNCHANGED <<seq, socket, reader, page>>, talks' \in [Lead -> Seq(TalkRow)],
         past' = past \/ past' = past \cup {talks}, stream' \in [Lead -> 0..MaxMsgs],
         task' \in [Task -> EnvelopeType \cup {Nil}], Numbered'
  PROVE  LiveInv'
<1> USE DEF page
<1>1. Types'
  BY DEF LiveInv, Types
<1>2. Linked'
  BY DEF LiveInv, Linked
<1>3. Opened'
  BY DEF LiveInv, Opened
<1> QED
  BY <1>1, <1>2, <1>3 DEF LiveInv

LEMMA RowTypes ==
  /\ [status |-> "active", mode |-> "ai"] \in TalkRow
  /\ [status |-> "closed_completed", mode |-> "ai"] \in TalkRow
  /\ [status |-> "requires_review", mode |-> "ai"] \in TalkRow
  /\ [status |-> "closed_inactivity", mode |-> "ai"] \in TalkRow
  /\ \A r \in TalkRow, m \in {"ai", "human"} : [r EXCEPT !.mode = m] \in TalkRow
BY DEF TalkRow, ActiveStatuses

LEMMA CommitsInv ==
  ASSUME LiveInv, NEW t \in Task, Commits(t) PROVE LiveInv'
<1>1. PICK l \in Lead : InboundArrives(t, l) \/ AiTurn(t, l) \/ Takeover(t, l) \/ Release(t, l)
  BY DEF Commits
<1>2. talks \in [Lead -> Seq(TalkRow)] /\ stream \in [Lead -> 0..MaxMsgs] /\ talks[l] \in Seq(TalkRow)
      /\ stream[l] \in 0..MaxMsgs /\ MaxMsgs \in Nat
  BY BoundAssumption DEF LiveInv, Types
<1>3. CASE InboundArrives(t, l) \/ AiTurn(t, l)
  <2>1. /\ Write(l) /\ Announce(t, l, MessageCreated, stream[l] + 1)
        /\ UNCHANGED <<seq, socket, reader, page, bounds>>
        /\ past' = past \/ past' = past \cup {talks}
    BY <1>3 DEF InboundArrives, AiTurn, SetTalk, Remember
  <2>2. stream[l] + 1 \in 0..MaxMsgs /\ stream' \in [Lead -> 0..MaxMsgs]
    BY <1>2, <2>1, Writes
  <2>3. task' \in [Task -> EnvelopeType \cup {Nil}] /\ Numbered'
    BY <2>1, <2>2, Announces
  <2>4. talks' \in [Lead -> Seq(TalkRow)]
    <3>1. CASE talks' = talks
      BY <1>2, <3>1
    <3>2. CASE talks' = [talks EXCEPT ![l] = Append(@, [status |-> "active", mode |-> "ai"])]
      <4>1. Append(talks[l], [status |-> "active", mode |-> "ai"]) \in Seq(TalkRow)
        BY <1>2, RowTypes, AppendProperties
      <4> QED
        BY <1>2, <3>2, <4>1
    <3>3. CASE AiHolds(l) /\ SetTalk(l, [status |-> "closed_completed", mode |-> "ai"])
      BY <1>2, <3>3, RowTypes, SetTalkTypes DEF AiHolds
    <3> QED
      BY <1>3, <3>1, <3>2, <3>3 DEF InboundArrives, AiTurn
  <2> QED
    BY <2>1, <2>2, <2>3, <2>4, RowsInv
<1>4. ASSUME NEW from, NEW to \in {"ai", "human"}, Flip(t, l, from, to),
             UNCHANGED <<stream, seq, socket, reader, page>>
      PROVE  LiveInv'
  <2>1. /\ ActiveTalk(talks[l]) # Nil /\ SetTalk(l, [ActiveTalk(talks[l]) EXCEPT !.mode = to])
        /\ Announce(t, l, TalkUpdated, stream[l]) /\ past' = past \cup {talks}
    BY <1>4 DEF Flip, CanFlip, SetTalk, Remember
  <2>2. [ActiveTalk(talks[l]) EXCEPT !.mode = to] \in TalkRow
    BY <1>2, <2>1, ActiveTalkFacts, RowTypes
  <2>3. talks' \in [Lead -> Seq(TalkRow)]
    BY <1>2, <2>1, <2>2, SetTalkTypes
  <2>4. task' \in [Task -> EnvelopeType \cup {Nil}] /\ Numbered'
    BY <1>2, <1>4, <2>1, Announces
  <2> QED
    BY <1>2, <1>4, <2>1, <2>3, <2>4, RowsInv
<1>5. CASE Takeover(t, l)
  BY <1>4, <1>5 DEF Takeover
<1>6. CASE Release(t, l)
  BY <1>4, <1>6 DEF Release
<1> QED
  BY <1>1, <1>3, <1>5, <1>6

LEMMA SilentChangeInv ==
  ASSUME LiveInv, NEW l \in Lead, SilentChange(l) PROVE LiveInv'
<1>1. PICK status \in {"requires_review", "closed_inactivity"} : SetTalk(l, [status |-> status, mode |-> "ai"])
  BY DEF SilentChange
<1>2. AiHolds(l) /\ UNCHANGED <<stream, task, seq, socket, reader, page>>
  BY DEF SilentChange
<1>3. talks' \in [Lead -> Seq(TalkRow)]
  BY <1>1, <1>2, RowTypes, SetTalkTypes DEF AiHolds, LiveInv, Types
<1>4. Numbered' /\ past' = past \cup {talks}
  BY <1>1, <1>2 DEF LiveInv, Numbered, SetTalk, Remember
<1> QED
  BY <1>2, <1>3, <1>4, RowsInv DEF LiveInv, Types

LEMMA PublishingInv ==
  ASSUME LiveInv, NEW t \in Task, Incr(t) \/ PublishFails(t) PROVE LiveInv'
<1> USE DEF db, page
<1>1. /\ task \in [Task -> EnvelopeType \cup {Nil}] /\ task[t] # Nil /\ task[t] \in EnvelopeType /\ seq \in Nat
      /\ UNCHANGED <<db, socket, reader, page>>
  BY DEF LiveInv, Types, Incr, PublishFails
<1>2. /\ seq' \in Nat /\ task' \in [Task -> EnvelopeType \cup {Nil}] /\ Numbered'
  <2>1. CASE Incr(t)
    <3>1. seq' = seq + 1 /\ task' = [task EXCEPT ![t].seq = seq + 1]
      BY <2>1 DEF Incr
    <3>2. /\ [task[t] EXCEPT !.seq = seq + 1] \in EnvelopeType
          /\ [task[t] EXCEPT !.seq = seq + 1].seq = seq + 1
      BY <1>1 DEF EnvelopeType
    <3>3. task' = [task EXCEPT ![t] = [task[t] EXCEPT !.seq = seq + 1]]
      BY <1>1, <3>1
    <3>4. task' \in [Task -> EnvelopeType \cup {Nil}]
      BY <1>1, <3>2, <3>3
    <3>5. ASSUME NEW u \in Task, task'[u] # Nil PROVE task'[u].seq <= seq'
      <4>1. CASE u = t
        BY <1>1, <3>1, <3>2, <3>3, <4>1
      <4>2. CASE u # t
        <5>1. task'[u] = task[u] /\ task[u] \in EnvelopeType
          BY <1>1, <3>3, <3>5, <4>2
        <5>2. task[u].seq \in Nat /\ task[u].seq <= seq
          BY <3>5, <5>1 DEF LiveInv, Numbered, EnvelopeType
        <5> QED
          BY <1>1, <3>1, <5>1, <5>2
      <4> QED
        BY <4>1, <4>2
    <3> QED
      BY <1>1, <3>1, <3>4, <3>5 DEF Numbered
  <2>2. CASE PublishFails(t)
    BY <1>1, <2>2 DEF PublishFails, LiveInv, Numbered
  <2> QED
    BY <2>1, <2>2
<1>3. Types'
  BY <1>1, <1>2 DEF LiveInv, Types
<1>4. Linked' /\ Opened'
  BY <1>1 DEF LiveInv, Linked, Opened
<1> QED
  BY <1>2, <1>3, <1>4 DEF LiveInv

\* The hub hands an envelope to a connection, or drops the connection.
LEMMA PublishInv ==
  ASSUME LiveInv, NEW t \in Task, Publish(t) PROVE LiveInv'
<1> USE DEF db, page
<1>1. /\ task \in [Task -> EnvelopeType \cup {Nil}] /\ task[t] \in EnvelopeType
      /\ task' = [task EXCEPT ![t] = Nil] /\ UNCHANGED <<db, seq, page>>
      /\ socket.queue \in Seq(EnvelopeType) /\ Len(socket.queue) \in Nat /\ Len(socket.queue) <= QueueMax
      /\ QueueMax \in Nat
  BY LenProperties, BoundAssumption DEF LiveInv, Types, Linked, Publish
<1>2. task' \in [Task -> EnvelopeType \cup {Nil}] /\ Numbered'
  BY <1>1 DEF LiveInv, Numbered
<1>3. /\ socket' \in [open : BOOLEAN, hub : {"none", "registered", "dropped"}, seen : BOOLEAN,
                      queue : Seq(EnvelopeType)]
      /\ reader' = reader /\ Linked'
  <2>1. CASE ~(reader /\ socket.hub = "registered")
    <3>1. socket' = socket /\ reader' = reader
      BY <2>1 DEF Publish
    <3> QED
      BY <3>1 DEF LiveInv, Types, Linked
  <2>2. CASE reader /\ socket.hub = "registered" /\ Len(socket.queue) < QueueMax
    <3> DEFINE q == Append(socket.queue, task[t])
    <3>1. q \in Seq(EnvelopeType) /\ Len(q) = Len(socket.queue) + 1
      BY <1>1, AppendProperties
    <3> HIDE DEF q
    <3>2. socket' = [socket EXCEPT !.queue = q] /\ reader' = reader
      BY <2>2 DEF Publish, Offer, q
    <3>3. /\ socket' \in [open : BOOLEAN, hub : {"none", "registered", "dropped"}, seen : BOOLEAN,
                          queue : Seq(EnvelopeType)]
          /\ socket'.queue = q /\ socket'.hub = "registered" /\ socket'.open = socket.open
      BY <2>2, <3>1, <3>2 DEF LiveInv, Types
    <3>4. Len(q) <= QueueMax
      BY <1>1, <2>2, <3>1
    <3> QED
      BY <2>2, <3>2, <3>3, <3>4 DEF LiveInv, Linked
  <2>3. CASE reader /\ socket.hub = "registered" /\ ~(Len(socket.queue) < QueueMax)
    <3>1. socket' = [socket EXCEPT !.hub = "dropped"] /\ reader' = reader
      BY <2>3 DEF Publish, Offer
    <3>2. /\ socket' \in [open : BOOLEAN, hub : {"none", "registered", "dropped"}, seen : BOOLEAN,
                          queue : Seq(EnvelopeType)]
          /\ socket'.queue = socket.queue /\ socket'.hub = "dropped" /\ socket'.open = socket.open
      BY <3>1 DEF LiveInv, Types
    <3> QED
      BY <1>1, <2>3, <3>1, <3>2 DEF LiveInv, Linked
  <2> QED
    BY <2>1, <2>2, <2>3
<1>4. Types'
  BY <1>1, <1>2, <1>3 DEF LiveInv, Types
<1>5. Opened'
  BY <1>1 DEF LiveInv, Opened
<1> QED
  BY <1>2, <1>3, <1>4, <1>5 DEF LiveInv

LEMMA SocketInv ==
  ASSUME LiveInv, Connect \/ Register \/ SocketCloses \/ ReaderCrashes PROVE LiveInv'
<1> USE DEF db, page
<1>1. UNCHANGED <<db, task, seq, page>>
  BY DEF Connect, Register, SocketCloses, ReaderCrashes
<1>2. \/ socket' = [Closed EXCEPT !.open = TRUE]
      \/ socket.open /\ socket' = [socket EXCEPT !.hub = "registered"]
      \/ socket' = Closed
      \/ socket' = socket
  BY DEF Connect, Register, SocketCloses, ReaderCrashes
<1>3. /\ Closed \in [open : BOOLEAN, hub : {"none", "registered", "dropped"}, seen : BOOLEAN,
                     queue : Seq(EnvelopeType)]
      /\ Closed.queue = <<>> /\ Closed.hub = "none" /\ Len(<<>>) = 0 /\ 0 <= QueueMax
  <2>1. <<>> \in Seq(EnvelopeType)
    BY EmptySeq
  <2>2. 0 <= QueueMax
    BY BoundAssumption
  <2> QED
    BY <2>1, <2>2 DEF Closed
<1>4. /\ socket' \in [open : BOOLEAN, hub : {"none", "registered", "dropped"}, seen : BOOLEAN,
                      queue : Seq(EnvelopeType)]
      /\ Linked'
  <2>1. CASE socket' = [Closed EXCEPT !.open = TRUE]
    <3>1. /\ socket' \in [open : BOOLEAN, hub : {"none", "registered", "dropped"}, seen : BOOLEAN,
                          queue : Seq(EnvelopeType)]
          /\ socket'.queue = <<>> /\ socket'.hub = "none"
      BY <1>3, <2>1
    <3> QED
      BY <1>3, <2>1, <3>1 DEF Linked
  <2>2. CASE socket.open /\ socket' = [socket EXCEPT !.hub = "registered"]
    <3>1. /\ socket' \in [open : BOOLEAN, hub : {"none", "registered", "dropped"}, seen : BOOLEAN,
                          queue : Seq(EnvelopeType)]
          /\ socket'.queue = socket.queue /\ socket'.open = socket.open
      BY <2>2 DEF LiveInv, Types
    <3> QED
      BY <2>2, <3>1 DEF LiveInv, Linked
  <2>3. CASE socket' = Closed
    BY <1>3, <2>3 DEF LiveInv, Types, Linked
  <2>4. CASE socket' = socket
    BY <2>4 DEF LiveInv, Types, Linked
  <2> QED
    BY <1>2, <2>1, <2>2, <2>3, <2>4
<1>5. reader' \in BOOLEAN
  <2>1. reader' = reader \/ reader' = FALSE
    BY DEF Connect, Register, SocketCloses, ReaderCrashes
  <2> QED
    BY <2>1 DEF LiveInv, Types
<1>6. Types'
  BY <1>1, <1>4, <1>5 DEF LiveInv, Types
<1>7. Numbered' /\ Opened'
  BY <1>1 DEF LiveInv, Numbered, Opened
<1> QED
  BY <1>4, <1>6, <1>7 DEF LiveInv

SocketType == [open : BOOLEAN, hub : {"none", "registered", "dropped"}, seen : BOOLEAN,
               queue : Seq(EnvelopeType)]

SendType == [phase : {"none", "asked", "ok", "failed"}, previous : Shown]

\* Steps of the page.
LEMMA PageInv ==
  ASSUME LiveInv, UNCHANGED <<db, task, seq, reader>>,
         socket' \in SocketType, Linked', query' \in Query, send' \in SendType, Opened',
         joined' \subseteq want', want' \subseteq 1..MaxMsgs,
         lead' \in Lead \cup {Nil}, lastSeq' \in Nat, connectedBefore' \in BOOLEAN
  PROVE  LiveInv'
<1> USE DEF db
<1>1. Types'
  BY DEF LiveInv, Types, SocketType, SendType
<1>2. Numbered'
  BY DEF LiveInv, Numbered
<1> QED
  BY <1>1, <1>2 DEF LiveInv

LEMMA PageTypes ==
  ASSUME LiveInv
  PROVE  /\ socket \in SocketType /\ query \in Query /\ send \in SendType
         /\ joined \subseteq want /\ want \subseteq 1..MaxMsgs
         /\ lead \in Lead \cup {Nil} /\ lastSeq \in Nat /\ connectedBefore \in BOOLEAN
         /\ UNCHANGED socket => Linked'
         /\ stream \in [Lead -> 0..MaxMsgs] /\ MaxMsgs \in Nat
BY BoundAssumption DEF LiveInv, Types, SocketType, SendType, Linked

\* The messages of the contact that is open.
LEMMA RowsOfLead ==
  ASSUME LiveInv, lead # Nil PROVE MessageRows(stream[lead]) \subseteq 1..MaxMsgs
<1>1. stream[lead] \in 0..MaxMsgs /\ MaxMsgs \in Nat
  BY PageTypes
<1> QED
  BY <1>1 DEF MessageRows

\* A query that is asked anew.
LEMMA AskedAnew ==
  ASSUME NEW q \in Query, NEW n \in 0..1, NEW d \in SUBSET (1..MaxMsgs)
  PROVE  LET a == [q EXCEPT !.phase = "asked", !.tries = n, !.data = d] IN a \in Query /\ a.phase = "asked"
<1> DEFINE a == [q EXCEPT !.phase = "asked", !.tries = n, !.data = d]
<1>1. a \in Query
  BY DEF Query
<1>2. a.phase = "asked"
  BY DEF Query
<1> QED
  BY <1>1, <1>2

LEMMA InvalidatedFacts ==
  ASSUME LiveInv
  PROVE  /\ Invalidated \in Query
         /\ Invalidated.phase \in {"asked", "answered"} => lead # Nil
<1>1. query \in Query
  BY PageTypes
<1>2. CASE lead = Nil
  BY <1>1, <1>2 DEF Invalidated, LiveInv, Opened
<1>3. CASE lead # Nil
  <2>1. 0 \in 0..1 /\ {} \in SUBSET (1..MaxMsgs)
    OBVIOUS
  <2> QED
    BY <1>1, <1>3, <2>1, AskedAnew DEF Invalidated
<1> QED
  BY <1>2, <1>3

\* What is announced joins what was.
LEMMA AnnouncedFacts ==
  ASSUME LiveInv, NEW m \in SUBSET (1..MaxMsgs), Announced(m)
  PROVE  joined' \subseteq want' /\ want' \subseteq 1..MaxMsgs
BY DEF Announced, LiveInv, Types

LEMMA FetchInv ==
  ASSUME LiveInv, Respond \/ Land \/ FetchFails PROVE LiveInv'
<1>1. UNCHANGED <<db, task, seq, socket, reader, lead, lastSeq, connectedBefore, send, want, joined>>
  BY DEF Respond, Land, FetchFails
<1>2. query.phase \in {"asked", "answered"} /\ lead # Nil
  BY DEF Respond, Land, FetchFails, LiveInv, Opened
<1>3. query' \in Query
  <2>1. CASE Respond
    <3>1. query' = [query EXCEPT !.phase = "answered", !.data = MessageRows(stream[lead])]
      BY <2>1 DEF Respond
    <3>2. MessageRows(stream[lead]) \in SUBSET (1..MaxMsgs)
      BY <1>2, RowsOfLead
    <3> QED
      BY <3>1, <3>2, PageTypes DEF Query
  <2>2. CASE Land
    <3>1. query' = [phase |-> "idle", tries |-> 0, data |-> {}, loaded |-> TRUE, shown |-> query.data]
      BY <2>2 DEF Land
    <3>2. query.data \in Shown
      BY PageTypes DEF Query, Shown
    <3> QED
      BY <3>1, <3>2 DEF Query
  <2>3. CASE FetchFails
    <3>1. query' = IF query.tries = 0 THEN [query EXCEPT !.tries = 1]
                   ELSE [query EXCEPT !.phase = "error", !.tries = 0]
      BY <2>3 DEF FetchFails
    <3>2. 0 \in 0..1 /\ 1 \in 0..1 /\ {} \in SUBSET (1..MaxMsgs) /\ query \in Query
      BY PageTypes
    <3>3. [query EXCEPT !.tries = 1] \in Query
      BY <3>2 DEF Query
    <3>4. [query EXCEPT !.phase = "error", !.tries = 0] \in Query
      BY <3>2 DEF Query
    <3> QED
      BY <3>1, <3>3, <3>4
  <2> QED
    BY <2>1, <2>2, <2>3
<1>4. Opened'
  BY <1>1, <1>2 DEF Opened
<1>5. /\ socket' \in SocketType /\ send' \in SendType /\ Linked'
      /\ joined' \subseteq want' /\ want' \subseteq 1..MaxMsgs
      /\ lead' \in Lead \cup {Nil} /\ lastSeq' \in Nat /\ connectedBefore' \in BOOLEAN
  BY <1>1, PageTypes
<1> QED
  BY <1>1, <1>3, <1>4, <1>5, PageInv

LEMMA SelectLeadInv ==
  ASSUME LiveInv, NEW l \in Lead, SelectLead(l) PROVE LiveInv'
<1>1. /\ UNCHANGED <<db, task, seq, socket, reader, lastSeq, connectedBefore, send, want, joined>>
      /\ lead' = l /\ query' = [query EXCEPT !.phase = "asked"]
  BY DEF SelectLead
<1>2. query' \in Query
  BY <1>1, PageTypes DEF Query
<1>3. Opened'
  BY <1>1, NilAssumption DEF Opened
<1>4. /\ socket' \in SocketType /\ send' \in SendType /\ Linked'
      /\ joined' \subseteq want' /\ want' \subseteq 1..MaxMsgs
      /\ lead' \in Lead \cup {Nil} /\ lastSeq' \in Nat /\ connectedBefore' \in BOOLEAN
  BY <1>1, PageTypes
<1> QED
  BY <1>1, <1>2, <1>3, <1>4, PageInv

LEMMA OnOpenInv ==
  ASSUME LiveInv, OnOpen PROVE LiveInv'
<1>1. /\ socket' = [socket EXCEPT !.seen = TRUE]
      /\ query' = (IF Refetch THEN Invalidated ELSE query)
      /\ \/ lead # Nil /\ Announced(MessageRows(stream[lead]))
         \/ UNCHANGED <<want, joined>>
      /\ connectedBefore' = TRUE
      /\ UNCHANGED <<db, task, seq, reader, lead, lastSeq, send>>
  BY DEF OnOpen
<1>2. /\ socket' \in SocketType /\ socket'.hub = socket.hub /\ socket'.open = socket.open
      /\ socket'.queue = socket.queue
  BY <1>1, PageTypes DEF SocketType
<1>3. Linked'
  BY <1>1, <1>2 DEF LiveInv, Linked
<1>4. query' \in Query /\ (query'.phase \in {"asked", "answered"} => lead # Nil)
  BY <1>1, PageTypes, InvalidatedFacts DEF LiveInv, Opened
<1>5. Opened'
  BY <1>1, <1>4 DEF LiveInv, Opened
<1>6. joined' \subseteq want' /\ want' \subseteq 1..MaxMsgs
  BY <1>1, PageTypes, RowsOfLead, AnnouncedFacts
<1>7. send' \in SendType /\ lead' \in Lead \cup {Nil} /\ lastSeq' \in Nat /\ connectedBefore' \in BOOLEAN
  BY <1>1, PageTypes
<1> QED
  BY <1>1, <1>2, <1>3, <1>4, <1>5, <1>6, <1>7, PageInv

LEMMA OnMessageInv ==
  ASSUME LiveInv, OnMessage PROVE LiveInv'
<1> DEFINE env == Head(socket.queue)
<1>1. /\ socket.queue # <<>> /\ socket' = [socket EXCEPT !.queue = Tail(@)]
      /\ UNCHANGED <<db, task, seq, reader, lead, connectedBefore, send>>
      /\ \/ UNCHANGED <<lastSeq, query, want, joined>>
         \/ /\ lastSeq' = env.seq /\ query' = (IF Stale(env) THEN Invalidated ELSE query)
            /\ Announced(1..env.upTo) \/ UNCHANGED <<want, joined>>
  BY DEF OnMessage
<1>2. /\ socket \in SocketType /\ socket.queue \in Seq(EnvelopeType) /\ Len(socket.queue) \in Nat
      /\ Len(socket.queue) <= QueueMax /\ QueueMax \in Nat
  BY PageTypes, LenProperties, BoundAssumption DEF SocketType, LiveInv, Linked
<1>3. /\ env \in EnvelopeType /\ Tail(socket.queue) \in Seq(EnvelopeType)
      /\ Len(Tail(socket.queue)) = Len(socket.queue) - 1
  BY <1>1, <1>2, HeadTailProperties
<1> HIDE DEF env
<1>4. env.seq \in Nat /\ env.upTo \in 0..MaxMsgs
  BY <1>3 DEF EnvelopeType
<1>5. /\ socket' \in SocketType /\ socket'.hub = socket.hub /\ socket'.open = socket.open
      /\ socket'.queue = Tail(socket.queue)
  BY <1>1, <1>2, <1>3 DEF SocketType
<1>6. Linked'
  <2>1. Len(socket'.queue) <= QueueMax
    BY <1>2, <1>3, <1>5
  <2> QED
    BY <1>1, <1>5, <2>1 DEF LiveInv, Linked
<1>7. query' \in Query /\ (query'.phase \in {"asked", "answered"} => lead # Nil)
  BY <1>1, PageTypes, InvalidatedFacts DEF LiveInv, Opened
<1>8. Opened'
  BY <1>1, <1>7 DEF LiveInv, Opened
<1>9. joined' \subseteq want' /\ want' \subseteq 1..MaxMsgs
  <2>1. 1..env.upTo \subseteq 1..MaxMsgs
    BY <1>4, PageTypes
  <2> QED
    BY <1>1, <2>1, PageTypes, AnnouncedFacts
<1>10. send' \in SendType /\ lead' \in Lead \cup {Nil} /\ lastSeq' \in Nat /\ connectedBefore' \in BOOLEAN
  BY <1>1, <1>4, PageTypes
<1> QED
  BY <1>1, <1>5, <1>6, <1>7, <1>8, <1>9, <1>10, PageInv

LEMMA ComposeInv ==
  ASSUME LiveInv, Compose PROVE LiveInv'
<1>1. /\ lead # Nil /\ send' = [phase |-> "asked", previous |-> query.shown]
      /\ query' = [phase |-> "idle", tries |-> 0, data |-> {}, loaded |-> TRUE,
                   shown |-> query.shown \cup {Pending}]
      /\ UNCHANGED <<db, task, seq, socket, reader, lead, lastSeq, connectedBefore, want, joined>>
  BY DEF Compose
<1>2. query.shown \in Shown /\ query.shown \cup {Pending} \in Shown
  BY PageTypes DEF Query, Shown
<1>3. query' \in Query /\ send' \in SendType
  BY <1>1, <1>2 DEF Query, SendType
<1>4. Opened'
  BY <1>1 DEF Opened
<1>5. /\ socket' \in SocketType /\ joined' \subseteq want' /\ want' \subseteq 1..MaxMsgs /\ Linked'
      /\ lead' \in Lead \cup {Nil} /\ lastSeq' \in Nat /\ connectedBefore' \in BOOLEAN
  BY <1>1, PageTypes
<1> QED
  BY <1>1, <1>3, <1>4, <1>5, PageInv

LEMMA AnsweredInv ==
  ASSUME LiveInv, AnswerLost \/ Settle PROVE LiveInv'
<1>1. /\ send.phase # "none" /\ lead # Nil
      /\ UNCHANGED <<db, task, seq, socket, reader, lead, lastSeq, connectedBefore, want, joined>>
  BY DEF AnswerLost, Settle, LiveInv, Opened
<1>2. query' \in Query /\ send' \in SendType
  <2>1. CASE AnswerLost
    BY <2>1, PageTypes DEF AnswerLost, Served, SendType
  <2>2. CASE Settle
    <3>1. send' = NoSend /\ NoSend \in SendType
      BY <2>2 DEF Settle, NoSend, SendType, Shown
    <3> DEFINE q == IF send.phase = "ok" THEN query ELSE [query EXCEPT !.shown = send.previous]
    <3>2. send.previous \in Shown
      BY PageTypes DEF SendType
    <3>3. q \in Query
      BY <3>2, PageTypes DEF Query
    <3>4. query' = Settled(q)
      BY <2>2 DEF Settle
    <3> HIDE DEF q
    <3>5. query' \in Query
      <4>1. 0 \in 0..1 /\ {} \in SUBSET (1..MaxMsgs)
        OBVIOUS
      <4> QED
        BY <3>3, <3>4, <4>1, AskedAnew DEF Settled
    <3> QED
      BY <3>1, <3>5
  <2> QED
    BY <2>1, <2>2
<1>3. Opened'
  BY <1>1 DEF Opened
<1>4. /\ socket' \in SocketType /\ joined' \subseteq want' /\ want' \subseteq 1..MaxMsgs /\ Linked'
      /\ lead' \in Lead \cup {Nil} /\ lastSeq' \in Nat /\ connectedBefore' \in BOOLEAN
  BY <1>1, PageTypes
<1> QED
  BY <1>1, <1>2, <1>3, <1>4, PageInv

LEMMA ServeInv ==
  ASSUME LiveInv, NEW t \in Task, Serve(t) PROVE LiveInv'
<1>1. /\ send.phase = "asked" /\ lead # Nil /\ lead \in Lead
      /\ UNCHANGED <<talks, past, seq, socket, reader, lead, lastSeq, connectedBefore, query, want, joined>>
  BY PageTypes DEF Serve, LiveInv, Opened
<1>2. send' \in SendType
  BY PageTypes DEF Serve, Served, SendType
<1>3. stream' \in [Lead -> 0..MaxMsgs] /\ task' \in [Task -> EnvelopeType \cup {Nil}] /\ Numbered'
  <2>1. CASE Write(lead) /\ Announce(t, lead, MessageCreated, stream[lead] + 1)
    <3>1. stream' \in [Lead -> 0..MaxMsgs] /\ stream[lead] + 1 \in 0..MaxMsgs
      BY <1>1, <2>1, Writes
    <3> QED
      BY <1>1, <2>1, <3>1, Announces
  <2>2. CASE UNCHANGED <<stream, task>>
    BY <1>1, <2>2 DEF LiveInv, Types, Numbered
  <2> QED
    BY <2>1, <2>2 DEF Serve
<1>4. Types'
  BY <1>1, <1>2, <1>3 DEF LiveInv, Types, SendType
<1>5. Linked' /\ Opened'
  BY <1>1 DEF LiveInv, Linked, Opened
<1> QED
  BY <1>3, <1>4, <1>5 DEF LiveInv

LEMMA StutterInv ==
  ASSUME LiveInv, UNCHANGED vars PROVE LiveInv'
<1> USE DEF vars, db, page
<1>1. Types'
  BY DEF LiveInv, Types
<1>2. Numbered' /\ Linked' /\ Opened'
  BY DEF LiveInv, Numbered, Linked, Opened
<1> QED
  BY <1>1, <1>2 DEF LiveInv

\* The inductive invariant holds throughout every behaviour.
THEOREM Invariant == Spec => []LiveInv
<1>1. LiveInv /\ [Next]_vars => LiveInv'
  <2> SUFFICES ASSUME LiveInv, [Next]_vars PROVE LiveInv'
    OBVIOUS
  <2>1. CASE \E t \in Task : Commits(t) \/ Publisher(t) \/ PublishFails(t) \/ Serve(t)
    BY <2>1, CommitsInv, PublishingInv, PublishInv, ServeInv DEF Publisher
  <2>2. CASE \E l \in Lead : SilentChange(l) \/ SelectLead(l)
    BY <2>2, SilentChangeInv, SelectLeadInv
  <2>3. CASE Link \/ SocketCloses \/ ReaderCrashes
    BY <2>3, SocketInv, OnOpenInv, OnMessageInv DEF Link
  <2>4. CASE Fetch \/ FetchFails \/ Compose \/ AnswerLost \/ Settle
    BY <2>4, FetchInv, ComposeInv, AnsweredInv DEF Fetch
  <2> QED
    BY <2>1, <2>2, <2>3, <2>4, StutterInv DEF Next
<1> QED
  BY InitInv, <1>1, PTL DEF Spec

-----------------------------------------------------------------------------
(* The theorems *)

\* Every value has its type, the queue of a connection keeps its limit, and
\* what is shown or announced are messages that exist.
THEOREM TypeCorrect == Spec => []TypeOK
<1>1. LiveInv => TypeOK
  <2> SUFFICES ASSUME LiveInv PROVE TypeOK
    OBVIOUS
  <2>1. \A l \in Lead : talks[l] \in Seq(TalkRow) /\ stream[l] \in Nat
    BY BoundAssumption DEF LiveInv, Types
  <2>2. \A t \in Task : task[t] = Nil \/ task[t].seq \in 0..seq
    BY DEF LiveInv, Types, Numbered, EnvelopeType
  <2>3. /\ query.phase \in {"idle", "asked", "answered", "error"} /\ query.tries \in 0..1
        /\ query.shown \subseteq 1..MaxMsgs \cup {Pending}
    BY DEF LiveInv, Types, Query, Shown
  <2> QED
    BY <2>1, <2>2, <2>3 DEF LiveInv, Types, Linked, TypeOK
<1> QED
  BY Invariant, <1>1, PTL

\* For any number of leads and Talks, every contact is under one tab at least,
\* and its badge names the tab that shows it, or a review that a human holds,
\* unless the row's own Talk has changed between the two reads of the list.
THEOREM BadgesNameTabs == Spec => []TabsMatchBadges
<1>1. LiveInv => TabsMatchBadges
  BY TabsOfTalks DEF LiveInv, Types
<1> QED
  BY Invariant, <1>1, PTL
=============================================================================
