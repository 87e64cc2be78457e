---------------------------- MODULE TalkHandling ----------------------------
(***************************************************************************)
(* The Talks of one lead and the three parties that write them, each in    *)
(* transactions of its own:                                                *)
(*   - run_turn (flowengine/pipeline.py), under the lead's advisory lock;  *)
(*   - the operators' console (api/routes/console_inbox.py): takeover      *)
(*     takes that lock, release and send do not;                           *)
(*   - the scan job (worker/jobs/scan_talks.py), which reads candidates    *)
(*     first and locks and closes each Talk's row later.                   *)
(*                                                                         *)
(* A turn writes the columns its own session changed, whatever the others  *)
(* committed since it read the row.  Talks are named in the order of their *)
(* created_at.  What the model decides is a choice.                        *)
(***************************************************************************)
EXTENDS Naturals, FiniteSets

CONSTANTS
  MaxTalks,    \* bound on the Talks of the lead
  Drain,       \* the coroutines that drain the lead's queue
  NoDrain,
  Client,      \* requests of the operators' console
  ClientMsg,   \* client_message_id of what operators send
  Inactivity,  \* talk_lifecycle.close_after_inactivity
  Duration,    \* talk_lifecycle.close_after_duration
  MaxClock,    \* bound on the clock
  MaxTurns,    \* bound on the inbound messages
  MaxFaults    \* bound on the number of injected faults

Talk == 1..MaxTalks
NoTalk == 0

ASSUME TalkAssumption == MaxTalks \in Nat
ASSUME DrainAssumption == NoDrain \notin Drain
ASSUME ConsoleAssumption == IsFiniteSet(Client)
ASSUME ClockAssumption == {Inactivity, Duration, MaxClock, MaxTurns, MaxFaults} \subseteq Nat

VARIABLES
  clock,
  status,       \* talks.status ("absent": no row yet)
  mode,         \* talks.handling_mode
  createdAt,    \* talks.created_at
  lastMessage,  \* talks.last_message_at
  lock,         \* the turn that holds the lead's transaction-level lock
  turnPc,       \* where each turn is
  turnTalk,     \* ctx.talk
  turnNow,      \* `now`, read as the turn starts
  seen,         \* ctx.talk.status as refreshed under the lock
  write,        \* the status the turn's session will flush ("keep": none)
  touch,        \* turns whose session will flush last_message_at
  pinned,       \* turns that hold FOR KEY SHARE on their Talk's row
  scan,         \* the scan job's candidates: <<Talk, close_status>>
  opPc,         \* where each console request is
  opTalk,       \* active_talk of the request
  opMsg,        \* client_message_id of the request
  recorded,     \* outbound_messages of operators: <<Talk, client_message_id>>
  delivered,    \* history: how often each of them was delivered to the lead
  overlapped,   \* history: those that a request sent while another was at it
  handsOn,      \* history: the last takeover or release that was granted
  turns, faults

talks == <<status, mode, createdAt, lastMessage>>
turn == <<turnPc, turnTalk, turnNow, seen, write, touch, pinned>>
console == <<opPc, opTalk, opMsg, recorded, delivered, overlapped, handsOn>>
vars == <<clock, talks, lock, turn, scan, console, turns, faults>>

\* Mutant: find_active_for_lead forgets the Talks that wait for a review.
OpenActiveOnly == {"active"}

\* ACTIVE_STATUSES; nothing writes its third member, "paused".
OpenStatus == {"active", "requires_review"}
ScanStatus == {"closed_inactivity", "closed_duration"}
TalkStatus == {"absent", "closed_completed"} \cup OpenStatus \cup ScanStatus

Open == {t \in Talk : status[t] \in OpenStatus}
Newest(t) == t \in Open /\ \A u \in Open : u <= t

TypeOK ==
  /\ {clock, turns, faults} \subseteq Nat
  /\ status \in [Talk -> {"absent", "active", "requires_review", "closed_completed",
                          "closed_inactivity", "closed_duration"}]
  /\ mode \in [Talk -> {"ai", "human"}]
  /\ createdAt \in [Talk -> Nat] /\ lastMessage \in [Talk -> Nat]
  /\ lock \in Drain \cup {NoDrain}
  /\ turnPc \in [Drain -> {"idle", "resolved", "await", "llm", "send", "commit"}]
  /\ turnTalk \in [Drain -> Talk \cup {NoTalk}]
  /\ turnNow \in [Drain -> Nat]
  /\ seen \in [Drain -> TalkStatus]
  /\ write \in [Drain -> {"keep", "requires_review", "closed_completed"}]
  /\ touch \subseteq Drain /\ pinned \subseteq Drain
  /\ scan \subseteq Talk \X ScanStatus
  /\ opPc \in [Client -> {"idle", "takeover", "release", "send", "record"}]
  /\ opTalk \in [Client -> Talk \cup {NoTalk}]
  /\ opMsg \in [Client -> ClientMsg]
  /\ recorded \subseteq Talk \X ClientMsg
  /\ delivered \in [Talk \X ClientMsg -> Nat]
  /\ overlapped \subseteq Talk \X ClientMsg
  /\ handsOn \in BOOLEAN

Init ==
  /\ clock = 0 /\ turns = 0 /\ faults = 0
  /\ status = [t \in Talk |-> "absent"]
  /\ mode = [t \in Talk |-> "ai"]
  /\ createdAt = [t \in Talk |-> 0] /\ lastMessage = [t \in Talk |-> 0]
  /\ lock = NoDrain
  /\ turnPc = [d \in Drain |-> "idle"]
  /\ turnTalk = [d \in Drain |-> NoTalk]
  /\ turnNow = [d \in Drain |-> 0]
  /\ seen = [d \in Drain |-> "absent"]
  /\ write = [d \in Drain |-> "keep"]
  /\ touch = {} /\ pinned = {}
  /\ scan = {}
  /\ opPc = [o \in Client |-> "idle"]
  /\ opTalk = [o \in Client |-> NoTalk]
  /\ opMsg \in [Client -> ClientMsg]
  /\ recorded = {}
  /\ delivered = [p \in Talk \X ClientMsg |-> 0] /\ overlapped = {}
  /\ handsOn = FALSE

Tick ==
  /\ clock < MaxClock
  /\ clock' = clock + 1
  /\ UNCHANGED <<talks, lock, turn, scan, console, turns, faults>>

Inject == faults < MaxFaults /\ faults' = faults + 1

-----------------------------------------------------------------------------
(* run_turn *)

Goto(d, from, to) == turnPc[d] = from /\ turnPc' = [turnPc EXCEPT ![d] = to]

\* The transaction ends and its session's objects go.
EndTurn(d) ==
  /\ lock' = NoDrain
  /\ turnTalk' = [turnTalk EXCEPT ![d] = NoTalk]
  /\ turnNow' = [turnNow EXCEPT ![d] = 0]
  /\ seen' = [seen EXCEPT ![d] = "absent"]
  /\ write' = [write EXCEPT ![d] = "keep"]
  /\ touch' = touch \ {d}
  /\ pinned' = pinned \ {d}

\* find_active_for_lead, before the lock: the newest open Talk, or none.
ResolveTalk(d) ==
  /\ turns < MaxTurns
  /\ Goto(d, "idle", "resolved")
  /\ \E t \in Talk \cup {NoTalk} :
       /\ Newest(t) \/ (t = NoTalk /\ Open = {})
       /\ turnTalk' = [turnTalk EXCEPT ![d] = t]
  /\ turnNow' = [turnNow EXCEPT ![d] = clock]
  /\ turns' = turns + 1
  /\ UNCHANGED <<clock, talks, lock, seen, write, touch, pinned, scan, console, faults>>

\* The commit before the turn's own transaction makes a new Talk visible.
CommitContext(d) ==
  /\ Goto(d, "resolved", "await")
  /\ IF turnTalk[d] # NoTalk THEN UNCHANGED <<talks, turnTalk>>
     ELSE \E t \in Talk :
       /\ status[t] = "absent"
       /\ \A u \in Talk : u < t => status[u] # "absent"
       /\ turnTalk' = [turnTalk EXCEPT ![d] = t]
       /\ status' = [status EXCEPT ![t] = "active"]
       /\ mode' = [mode EXCEPT ![t] = "ai"]
       /\ createdAt' = [createdAt EXCEPT ![t] = clock]
       /\ lastMessage' = [lastMessage EXCEPT ![t] = clock]
  /\ UNCHANGED <<clock, lock, turnNow, seen, write, touch, pinned, scan, console, turns, faults>>

\* The lock, the refresh of the Talk and the HITL gate.  The gate looks at the
\* mode only: a Talk that was closed meanwhile goes on.
Gate(d) ==
  /\ turnPc[d] = "await"
  /\ lock = NoDrain
  /\ IF mode[turnTalk[d]] = "human"
     THEN Goto(d, "await", "idle") /\ EndTurn(d)
     ELSE /\ Goto(d, "await", "llm")
          /\ lock' = d
          /\ seen' = [seen EXCEPT ![d] = status[turnTalk[d]]]
          /\ UNCHANGED <<turnTalk, turnNow, write, touch, pinned>>
  /\ UNCHANGED <<clock, talks, scan, console, turns, faults>>

\* The decision and what it leaves in the session.  A dispatched action is
\* flushed at once, and its foreign key shares the Talk's row; the Talk's own
\* columns are not.  A status equal to the one that was read is no change.
Decide(d) ==
  LET review == IF seen[d] = "requires_review" THEN "keep" ELSE "requires_review" IN
  /\ Goto(d, "llm", "send")
  /\ \/ \* apply_decision: a reply, an escalation, a completion rule, or a voice
        \* that could not be synthesised
        /\ \E w \in {"keep", review, "closed_completed"} :
              write' = [write EXCEPT ![d] = w]
        /\ touch' = touch \cup {d}
        /\ pinned' \in {pinned, pinned \cup {d}}
     \/ \* the guardrails are exhausted: the tenant's fallback text
        /\ write' = [write EXCEPT ![d] = review]
        /\ UNCHANGED <<touch, pinned>>
  /\ UNCHANGED <<clock, talks, lock, turnTalk, turnNow, seen, scan, console, turns, faults>>

SendReply(d) ==
  /\ Goto(d, "send", "commit")
  /\ UNCHANGED <<clock, talks, lock, turnTalk, turnNow, seen, write, touch, pinned, scan,
                 console, turns, faults>>

\* Mutant: the flush writes the column whether or not the session changed it.
CommitTurnBlindly(d) ==
  LET t == turnTalk[d] IN
  /\ Goto(d, "commit", "idle")
  /\ status' = [status EXCEPT ![t] = write[d]]
  /\ lastMessage' = [lastMessage EXCEPT ![t] = IF d \in touch THEN turnNow[d] ELSE @]
  /\ EndTurn(d)
  /\ UNCHANGED <<clock, mode, createdAt, scan, console, turns, faults>>

CommitTurn(d) ==
  LET t == turnTalk[d] IN
  /\ Goto(d, "commit", "idle")
  /\ status' = [status EXCEPT ![t] = IF write[d] = "keep" THEN @ ELSE write[d]]
  /\ lastMessage' = [lastMessage EXCEPT ![t] = IF d \in touch THEN turnNow[d] ELSE @]
  /\ EndTurn(d)
  /\ UNCHANGED <<clock, mode, createdAt, scan, console, turns, faults>>

\* The model, the adapter or the commit raises: the transaction rolls back.
Fail(d) ==
  /\ Inject
  /\ Goto(d, "llm", "idle") \/ Goto(d, "send", "idle") \/ Goto(d, "commit", "idle")
  /\ EndTurn(d)
  /\ UNCHANGED <<clock, talks, scan, console, turns>>

-----------------------------------------------------------------------------
(* The operators' console *)

GotoOp(o, from, to) == opPc[o] = from /\ opPc' = [opPc EXCEPT ![o] = to]

\* The request is answered.
Finish(o, from) ==
  /\ GotoOp(o, from, "idle")
  /\ opTalk' = [opTalk EXCEPT ![o] = NoTalk]

\* The first statements of takeover and release; without an open Talk, 404.
ReadTalk(o, request) ==
  /\ GotoOp(o, "idle", request)
  /\ \E t \in Talk : Newest(t) /\ opTalk' = [opTalk EXCEPT ![o] = t]
  /\ UNCHANGED <<clock, talks, lock, turn, scan, opMsg, recorded, delivered, overlapped,
                 handsOn, turns, faults>>

\* The message a request sends in its Talk, and the requests between reading the
\* Talk and the insert of one.
Sends(o) == <<opTalk[o], opMsg[o]>>
At(p) == {o \in Client : opPc[o] \in {"send", "record"} /\ Sends(o) = p}

\* Those of send: 409 unless the Talk is in a human's hands, and the recorded
\* message is returned if there is one.
ReadForSend(o) ==
  /\ GotoOp(o, "idle", "send")
  /\ \E t \in Talk, m \in ClientMsg :
       /\ Newest(t) /\ mode[t] = "human" /\ <<t, m>> \notin recorded
       /\ opTalk' = [opTalk EXCEPT ![o] = t]
       /\ opMsg' = [opMsg EXCEPT ![o] = m]
       /\ overlapped' = IF At(<<t, m>>) = {} THEN overlapped ELSE overlapped \cup {<<t, m>>}
  /\ UNCHANGED <<clock, talks, lock, turn, scan, recorded, delivered, handsOn, turns, faults>>

\* The check-and-set of the handling mode; it does not look at the status.
Flip(o, from, to) ==
  IF mode[opTalk[o]] = from
  THEN /\ mode' = [mode EXCEPT ![opTalk[o]] = to]
       /\ handsOn' = (to = "human")
  ELSE UNCHANGED <<mode, handsOn>>

\* Mutant: takeover does not wait for the turn.
TakeoverAtOnce(o) ==
  /\ Finish(o, "takeover")
  /\ Flip(o, "ai", "human")
  /\ UNCHANGED <<clock, status, createdAt, lastMessage, lock, turn, scan, opMsg,
                 recorded, delivered, overlapped, turns, faults>>

Takeover(o) ==
  /\ lock = NoDrain
  /\ Finish(o, "takeover")
  /\ Flip(o, "ai", "human")
  /\ UNCHANGED <<clock, status, createdAt, lastMessage, lock, turn, scan, opMsg,
                 recorded, delivered, overlapped, turns, faults>>

Release(o) ==
  /\ Finish(o, "release")
  /\ Flip(o, "human", "ai")
  /\ UNCHANGED <<clock, status, createdAt, lastMessage, lock, turn, scan, opMsg,
                 recorded, delivered, overlapped, turns, faults>>

\* The provider's call: it delivers, or refuses with 422; it may also deliver and
\* the request never get to its insert.
CallProvider(o) ==
  /\ \/ /\ GotoOp(o, "send", "record")
        /\ delivered' = [delivered EXCEPT ![Sends(o)] = @ + 1]
        /\ UNCHANGED <<opTalk, faults>>
     \/ /\ Finish(o, "send")
        /\ UNCHANGED <<delivered, faults>>
     \/ /\ Inject
        /\ Finish(o, "send")
        /\ delivered' = [delivered EXCEPT ![Sends(o)] = @ + 1]
  /\ UNCHANGED <<clock, talks, lock, turn, scan, opMsg, recorded, overlapped, handsOn, turns>>

\* Mutant: the insert is not committed.
RecordNothing(o) ==
  /\ Finish(o, "record")
  /\ UNCHANGED <<clock, talks, lock, turn, scan, opMsg, recorded, delivered, overlapped,
                 handsOn, turns, faults>>

\* The insert; the unique index turns a second one into the answer of the first.
RecordSend(o) ==
  /\ Finish(o, "record")
  /\ recorded' = recorded \cup {Sends(o)}
  /\ UNCHANGED <<clock, talks, lock, turn, scan, opMsg, delivered, overlapped, handsOn, turns,
                 faults>>

-----------------------------------------------------------------------------
(* The scan job *)

\* Mutant: a Talk is only closed for its duration.
DurationOnly(t) == IF createdAt[t] + Duration < clock THEN {"closed_duration"} ELSE {}

\* The limit the Talk is over, inactivity first.
CloseStatus(t) ==
  IF lastMessage[t] + Inactivity < clock THEN {"closed_inactivity"}
  ELSE IF createdAt[t] + Duration < clock THEN {"closed_duration"} ELSE {}

Scannable(t) == status[t] = "active" /\ mode[t] = "ai"

\* Phase A, without locks.
ScanRead ==
  /\ scan = {}
  /\ scan' = UNION {{t} \X CloseStatus(t) : t \in {u \in Talk : Scannable(u)}}
  /\ UNCHANGED <<clock, talks, lock, turn, console, turns, faults>>

RowPinned(t) == \E d \in pinned : turnTalk[d] = t

\* Mutant: phase B trusts what phase A read of the handling mode.
ScanCloseUnchecked(t, why) ==
  /\ <<t, why>> \in scan
  /\ scan' = scan \ {<<t, why>>}
  /\ status' = [status EXCEPT ![t] = IF @ = "active" /\ ~RowPinned(t) THEN why ELSE @]
  /\ UNCHANGED <<clock, mode, createdAt, lastMessage, lock, turn, console, turns, faults>>

\* Phase B: the row is locked and its status and mode are read again, or it is
\* skipped.
ScanClose(t, why) ==
  /\ <<t, why>> \in scan
  /\ scan' = scan \ {<<t, why>>}
  /\ status' = [status EXCEPT ![t] = IF Scannable(t) /\ ~RowPinned(t) THEN why ELSE @]
  /\ UNCHANGED <<clock, mode, createdAt, lastMessage, lock, turn, console, turns, faults>>

\* The worker dies between two Talks.
ScanDies ==
  /\ scan # {}
  /\ Inject
  /\ scan' = {}
  /\ UNCHANGED <<clock, talks, lock, turn, console, turns>>

-----------------------------------------------------------------------------
TurnStep(d) ==
  CommitContext(d) \/ Gate(d) \/ Decide(d) \/ SendReply(d) \/ CommitTurn(d) \/ Fail(d)

OpStep(o) == Takeover(o) \/ Release(o) \/ CallProvider(o) \/ RecordSend(o)

ScanStep == ScanRead \/ \E t \in Talk, why \in ScanStatus : ScanClose(t, why)

Next ==
  \/ Tick
  \/ \E d \in Drain : ResolveTalk(d) \/ TurnStep(d)
  \/ \E o \in Client : \/ \E request \in {"takeover", "release"} : ReadTalk(o, request)
                       \/ ReadForSend(o) \/ OpStep(o)
  \/ ScanStep \/ ScanDies

\* A turn that began ends, a request is served, and the cron job runs for ever.
Fairness ==
  /\ \A d \in Drain : WF_vars(TurnStep(d))
  /\ \A o \in Client : WF_vars(OpStep(o))
  /\ WF_vars(ScanStep)

Spec == Init /\ [][Next]_vars
FairSpec == Spec /\ Fairness
-----------------------------------------------------------------------------
(* Properties *)

\* While one coroutine drains the queue, the lead has at most one open Talk,
\* whatever the scan job closes and a late turn reopens ("at most one active
\* Talk per (tenant, lead)", which no constraint of the table enforces).
OneOpenTalk ==
  Cardinality({t \in Talk : status[t] \in {"active", "requires_review"}}) <= 1

\* The AI writes to the lead only while the Talk it answers in is in the AI's
\* hands: the lock, the refresh and the gate of run_turn against takeover.
AiSpeaksInItsOwnTalk ==
  [][\A d \in Drain : turnPc[d] = "send" /\ turnPc'[d] = "commit"
        => mode[turnTalk[d]] = "ai"]_vars

\* Nothing closes an open Talk that a human holds: neither the scan job, whose
\* candidates are older than the takeover, nor a turn that is still under way.
HeldStaysOpen ==
  [][\A t \in Talk : status[t] \in {"active", "requires_review"} /\ mode[t] = "human"
        => status'[t] = status[t]]_vars

\* A Talk of the AI that stays silent beyond the limit does not stay so: the scan
\* job closes it, unless a turn answers or a human takes it first.
Silent(t) == Scannable(t) /\ lastMessage[t] + Inactivity < clock
SilentTalkEnds == \A t \in Talk : Silent(t) ~> ~Silent(t)

\* A Talk closed for inactivity was inactive when it was closed ("the actual Talk
\* row will be re-checked under FOR UPDATE before close").
ClosedWhileSilent ==
  [][\A t \in Talk : status'[t] = "closed_inactivity" /\ status[t] # "closed_inactivity"
        => lastMessage[t] + Inactivity < clock]_vars

\* After a takeover that was granted the AI does not write to the lead until a
\* release ("ensuring no AI message is sent after the flip to 'human'").
HandsOff ==
  [][\A d \in Drain : turnPc[d] = "send" /\ turnPc'[d] = "commit" => ~handsOn]_vars

\* A client_message_id is delivered once per Talk unless two requests with it
\* overlap ("a duplicate client_message_id returns the existing OutboundMessage
\* without re-sending"), and however they overlap and are repeated, at most once per
\* request that can be under way; what was delivered is recorded, or about to be.
DeliveriesRecorded ==
  faults = 0 =>
    \A p \in Talk \X ClientMsg :
      /\ delivered[p] <= IF p \in overlapped THEN Cardinality(Client) ELSE 1
      /\ delivered[p] > 0 => p \in recorded \/ \E o \in At(p) : opPc[o] = "record"
      /\ p \in recorded => delivered[p] > 0
=============================================================================
