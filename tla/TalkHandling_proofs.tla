------------------------ MODULE TalkHandling_proofs ------------------------
(***************************************************************************)
(* What TLAPS proves of TalkHandling, for any number of Talks, turns,      *)
(* requests and faults.  The AI and the human never hold a Talk at once:   *)
(* that rests on the lock naming the only turn that has passed its gate,   *)
(* and on that turn's Talk having stayed in the AI's hands since.  With    *)
(* one coroutine that drains the lead's queue (OneDrain) the lead has one  *)
(* open Talk at most.  What operators send is delivered once per Talk, or  *)
(* once per request where requests overlap: that rests on counting, before *)
(* the first insert, the requests that have called the provider and, after *)
(* it, the ones that may still do so.                                      *)
(***************************************************************************)
EXTENDS TalkHandling, FiniteSetTheorems, TLAPS

PassedGate == {"llm", "send", "commit"}

\* The turn beyond its gate is the one that holds the lock.
LockInv == \A d \in Drain : turnPc[d] \in PassedGate => lock = d

\* A turn that waits at its gate or has passed it has a Talk, and the AI keeps
\* the Talk of a turn that has passed.
TalkInv ==
  \A d \in Drain :
    /\ turnPc[d] \in PassedGate \cup {"await"} => turnTalk[d] \in Talk
    /\ turnPc[d] \in PassedGate => mode[turnTalk[d]] = "ai"

\* A request that has read its Talk has one.
OpInv == \A o \in Client : opPc[o] # "idle" => opTalk[o] \in Talk

HandsInv == TypeOK /\ LockInv /\ TalkInv /\ OpInv

\* The initial states satisfy the invariant.
LEMMA HandsInvInit == Init => HandsInv
<1> SUFFICES ASSUME Init PROVE HandsInv
  OBVIOUS
<1>1. TypeOK
  <2> USE DEF Init
  <2>1. {clock, turns, faults} \subseteq Nat /\ lock \in Drain \cup {NoDrain}
    OBVIOUS
  <2>2. /\ status \in [Talk -> {"absent", "active", "requires_review", "closed_completed",
                                "closed_inactivity", "closed_duration"}]
        /\ mode \in [Talk -> {"ai", "human"}]
        /\ createdAt \in [Talk -> Nat] /\ lastMessage \in [Talk -> Nat]
    OBVIOUS
  <2>3. /\ turnPc \in [Drain -> {"idle", "resolved", "await", "llm", "send", "commit"}]
        /\ turnTalk \in [Drain -> Talk \cup {NoTalk}]
        /\ turnNow \in [Drain -> Nat]
        /\ seen \in [Drain -> TalkStatus]
        /\ write \in [Drain -> {"keep", "requires_review", "closed_completed"}]
    BY DEF TalkStatus
  <2>4. /\ opPc \in [Client -> {"idle", "takeover", "release", "send", "record"}]
        /\ opTalk \in [Client -> Talk \cup {NoTalk}]
        /\ opMsg \in [Client -> ClientMsg]
        /\ delivered \in [Talk \X ClientMsg -> Nat]
        /\ overlapped \subseteq Talk \X ClientMsg
    OBVIOUS
  <2> QED
    BY <2>1, <2>2, <2>3, <2>4 DEF TypeOK
<1>2. LockInv /\ TalkInv
  BY DEF Init, LockInv, TalkInv, PassedGate
<1>3. OpInv
  BY DEF Init, OpInv
<1> QED
  BY <1>1, <1>2, <1>3 DEF HandsInv

\* Every step keeps the type invariant.
LEMMA HandsTyped ==
  ASSUME HandsInv, [Next]_vars
  PROVE  TypeOK'
<1> USE DEF HandsInv, TypeOK, talks, turn, console
<1>1. CASE Tick
  BY <1>1 DEF Tick
<1>2. ASSUME NEW d \in Drain, ResolveTalk(d) PROVE TypeOK'
  BY <1>2 DEF ResolveTalk, Goto
<1>3. ASSUME NEW d \in Drain, CommitContext(d) PROVE TypeOK'
  BY <1>3 DEF CommitContext, Goto
<1>4. ASSUME NEW d \in Drain, Gate(d) PROVE TypeOK'
  <2>1. turnTalk[d] \in Talk /\ status[turnTalk[d]] \in TalkStatus
    BY <1>4 DEF Gate, TalkInv, TalkStatus, OpenStatus, ScanStatus, PassedGate
  <2>2. "absent" \in TalkStatus
    BY DEF TalkStatus
  <2>3. CASE Goto(d, "await", "idle") /\ EndTurn(d)
    BY <1>4, <2>2, <2>3 DEF Gate, Goto, EndTurn
  <2>4. CASE /\ Goto(d, "await", "llm") /\ lock' = d /\ seen' = [seen EXCEPT ![d] = status[turnTalk[d]]]
             /\ UNCHANGED <<turnTalk, turnNow, write, touch, pinned>>
    BY <1>4, <2>1, <2>4 DEF Gate, Goto
  <2> QED
    BY <1>4, <2>3, <2>4 DEF Gate
<1>5. ASSUME NEW d \in Drain, Decide(d) PROVE TypeOK'
  BY <1>5 DEF Decide, Goto
<1>6. ASSUME NEW d \in Drain, SendReply(d) PROVE TypeOK'
  BY <1>6 DEF SendReply, Goto
<1>7. ASSUME NEW d \in Drain, CommitTurn(d) PROVE TypeOK'
  BY <1>7 DEF CommitTurn, Goto, EndTurn, TalkInv, TalkStatus, OpenStatus, ScanStatus, PassedGate
<1>8. ASSUME NEW d \in Drain, Fail(d) PROVE TypeOK'
  BY <1>8 DEF Fail, Inject, Goto, EndTurn, TalkStatus
<1>9. ASSUME NEW o \in Client, NEW request \in {"takeover", "release"}, ReadTalk(o, request)
      PROVE TypeOK'
  BY <1>9 DEF ReadTalk, GotoOp
<1>10. ASSUME NEW o \in Client, ReadForSend(o) PROVE TypeOK'
  BY <1>10 DEF ReadForSend, GotoOp
<1>11. ASSUME NEW o \in Client, Takeover(o) PROVE TypeOK'
  <2>1. mode' \in [Talk -> {"ai", "human"}]
    BY <1>11 DEF Takeover, Flip
  <2>0. handsOn' \in BOOLEAN
    BY <1>11, Zenon DEF Takeover, Flip
  <2>2. /\ opPc' \in [Client -> {"idle", "takeover", "release", "send", "record"}]
        /\ opTalk' \in [Client -> Talk \cup {NoTalk}]
    BY <1>11 DEF Takeover, Finish, GotoOp
  <2> QED
    BY <1>11, <2>0, <2>1, <2>2 DEF Takeover
<1>12. ASSUME NEW o \in Client, Release(o) PROVE TypeOK'
  <2>1. mode' \in [Talk -> {"ai", "human"}]
    BY <1>12 DEF Release, Flip
  <2>0. handsOn' \in BOOLEAN
    BY <1>12, Zenon DEF Release, Flip
  <2>2. /\ opPc' \in [Client -> {"idle", "takeover", "release", "send", "record"}]
        /\ opTalk' \in [Client -> Talk \cup {NoTalk}]
    BY <1>12 DEF Release, Finish, GotoOp
  <2> QED
    BY <1>12, <2>0, <2>1, <2>2 DEF Release
<1>13. ASSUME NEW o \in Client, CallProvider(o) PROVE TypeOK'
  BY <1>13 DEF CallProvider, Inject, Finish, GotoOp
<1>14. ASSUME NEW o \in Client, RecordSend(o) PROVE TypeOK'
  <2>1. Sends(o) \in Talk \X ClientMsg
    BY <1>14 DEF RecordSend, Finish, GotoOp, OpInv, Sends
  <2> QED
    BY <1>14, <2>1 DEF RecordSend, Finish, GotoOp
<1>15. CASE ScanRead
  BY <1>15 DEF ScanRead, CloseStatus, ScanStatus
<1>16. ASSUME NEW t \in Talk, NEW why \in ScanStatus, ScanClose(t, why) PROVE TypeOK'
  BY <1>16 DEF ScanClose, ScanStatus
<1>17. CASE ScanDies
  BY <1>17 DEF ScanDies, Inject
<1>18. CASE UNCHANGED vars
  BY <1>18 DEF vars
<1> QED
  BY <1>1, <1>2, <1>3, <1>4, <1>5, <1>6, <1>7, <1>8, <1>9, <1>10, <1>11, <1>12, <1>13, <1>14,
     <1>15, <1>16, <1>17, <1>18 DEF Next, TurnStep, OpStep, ScanStep

\* Every step keeps the lock with the turn that passed its gate.
LEMMA LockStep ==
  ASSUME HandsInv, [Next]_vars
  PROVE  LockInv'
<1> USE DrainAssumption DEF HandsInv, TypeOK, LockInv, PassedGate, turn
<1>1. ASSUME NEW d \in Drain, TurnStep(d) \/ ResolveTalk(d) PROVE LockInv'
  <2>1. CASE Gate(d)
    <3>1. CASE mode[turnTalk[d]] = "human"
      BY <2>1, <3>1 DEF Gate, Goto, EndTurn
    <3>2. CASE mode[turnTalk[d]] # "human"
      BY <2>1, <3>2 DEF Gate, Goto
    <3> QED
      BY <3>1, <3>2
  <2>2. CASE CommitTurn(d)
    BY <2>2 DEF CommitTurn, Goto, EndTurn
  <2>3. CASE Fail(d)
    <3>1. turnPc[d] \in PassedGate /\ turnPc' = [turnPc EXCEPT ![d] = "idle"]
      BY <2>3 DEF Fail, Goto
    <3> QED
      BY <2>3, <3>1 DEF Fail, EndTurn
  <2>4. CASE Decide(d)
    BY <2>4 DEF Decide, Goto
  <2>5. CASE SendReply(d)
    BY <2>5 DEF SendReply, Goto
  <2>6. CASE CommitContext(d)
    BY <2>6 DEF CommitContext, Goto
  <2>7. CASE ResolveTalk(d)
    BY <2>7 DEF ResolveTalk, Goto
  <2> QED
    BY <1>1, <2>1, <2>2, <2>3, <2>4, <2>5, <2>6, <2>7 DEF TurnStep
<1>2. CASE UNCHANGED <<turnPc, lock>>
  BY <1>2
<1>3. [Next]_vars => \/ \E d \in Drain : TurnStep(d) \/ ResolveTalk(d)
                    \/ UNCHANGED <<turnPc, lock>>
  BY DEF Next, OpStep, ScanStep, Tick, ReadTalk, ReadForSend, Takeover, Release, CallProvider,
         RecordSend, ScanRead, ScanClose, ScanDies, vars
<1> QED
  BY <1>1, <1>2, <1>3

\* Every step keeps the Talk of a turn that passed its gate in the AI's hands:
\* only a takeover changes it, and a takeover needs the lock.
LEMMA TalkStep ==
  ASSUME HandsInv, [Next]_vars
  PROVE  TalkInv'
<1>5. \/ \E d \in Drain : TurnStep(d) \/ ResolveTalk(d)
      \/ \E o \in Client : Takeover(o) \/ Release(o)
      \/ UNCHANGED <<turnPc, turnTalk, mode>>
  <2> USE DEF talks, turn
  <2>1. ASSUME NEW o \in Client, OpStep(o), ~Takeover(o), ~Release(o)
        PROVE  UNCHANGED <<turnPc, turnTalk, mode>>
    BY <2>1 DEF OpStep, CallProvider, RecordSend
  <2>2. ASSUME NEW o \in Client, NEW request \in {"takeover", "release"}, ReadTalk(o, request)
        PROVE  UNCHANGED <<turnPc, turnTalk, mode>>
    BY <2>2 DEF ReadTalk
  <2>3. ASSUME NEW o \in Client, ReadForSend(o) PROVE UNCHANGED <<turnPc, turnTalk, mode>>
    BY <2>3 DEF ReadForSend
  <2>4. CASE ScanStep \/ ScanDies
    BY <2>4 DEF ScanStep, ScanRead, ScanClose, ScanDies
  <2>5. CASE Tick \/ UNCHANGED vars
    BY <2>5 DEF Tick, vars
  <2> QED
    BY <2>1, <2>2, <2>3, <2>4, <2>5 DEF Next
<1> USE DrainAssumption DEF HandsInv, TypeOK, LockInv, TalkInv, PassedGate, turn, talks
<1>1. ASSUME NEW d \in Drain, TurnStep(d) \/ ResolveTalk(d) PROVE TalkInv'
  <2>1. CASE Gate(d)
    <3>1. CASE mode[turnTalk[d]] = "human"
      BY <2>1, <3>1 DEF Gate, Goto, EndTurn
    <3>2. CASE mode[turnTalk[d]] # "human"
      BY <2>1, <3>2 DEF Gate, Goto
    <3> QED
      BY <3>1, <3>2
  <2>2. CASE CommitTurn(d)
    BY <2>2 DEF CommitTurn, Goto, EndTurn
  <2>3. CASE Fail(d)
    BY <2>3 DEF Fail, Goto, EndTurn
  <2>4. CASE Decide(d)
    BY <2>4 DEF Decide, Goto
  <2>5. CASE SendReply(d)
    BY <2>5 DEF SendReply, Goto
  <2>6. CASE CommitContext(d)
    BY <2>6 DEF CommitContext, Goto, NoTalk
  <2>7. CASE ResolveTalk(d)
    BY <2>7 DEF ResolveTalk, Goto
  <2> QED
    BY <1>1, <2>1, <2>2, <2>3, <2>4, <2>5, <2>6, <2>7 DEF TurnStep
<1>2. ASSUME NEW o \in Client, Takeover(o) PROVE TalkInv'
  BY <1>2 DEF Takeover, Flip
<1>3. ASSUME NEW o \in Client, Release(o) PROVE TalkInv'
  BY <1>3 DEF Release, Flip
<1>4. CASE UNCHANGED <<turnPc, turnTalk, mode>>
  BY <1>4
<1> QED
  BY <1>1, <1>2, <1>3, <1>4, <1>5

\* Every step keeps each request's Talk until the request is answered.
LEMMA OpStepInv ==
  ASSUME HandsInv, [Next]_vars
  PROVE  OpInv'
<1> USE DEF HandsInv, TypeOK, OpInv, console
<1>1. ASSUME NEW o \in Client, NEW request \in {"takeover", "release"}, ReadTalk(o, request)
      PROVE OpInv'
  BY <1>1 DEF ReadTalk, GotoOp
<1>2. ASSUME NEW o \in Client, ReadForSend(o) PROVE OpInv'
  BY <1>2 DEF ReadForSend, GotoOp
<1>3. ASSUME NEW o \in Client, OpStep(o) PROVE OpInv'
  BY <1>3 DEF OpStep, Takeover, Release, CallProvider, RecordSend, Finish, GotoOp
<1>4. CASE UNCHANGED <<opPc, opTalk>>
  BY <1>4
<1>5. [Next]_vars =>
        \/ \E o \in Client : \/ \E request \in {"takeover", "release"} : ReadTalk(o, request)
                             \/ ReadForSend(o) \/ OpStep(o)
        \/ UNCHANGED <<opPc, opTalk>>
  BY DEF Next, TurnStep, ScanStep, Tick, ResolveTalk, CommitContext, Gate, Decide, SendReply,
         CommitTurn, Fail, ScanRead, ScanClose, ScanDies, vars
<1> QED
  BY <1>1, <1>2, <1>3, <1>4, <1>5

\* The invariant holds in every reachable state.
LEMMA HandsInvariant == Spec => []HandsInv
<1>1. HandsInv /\ [Next]_vars => HandsInv'
  BY HandsTyped, LockStep, TalkStep, OpStepInv DEF HandsInv
<1> QED
  BY HandsInvInit, <1>1, PTL DEF Spec

\* Every reachable state is well typed, whatever the number of Talks and turns.
THEOREM TalkTypes == Spec => []TypeOK
<1>1. HandsInv => TypeOK
  BY DEF HandsInv
<1> QED
  BY HandsInvariant, <1>1, PTL

\* run_turn sends only in a Talk that is in the AI's hands.
THEOREM AiSpeaksInItsOwn == Spec => AiSpeaksInItsOwnTalk
<1>1. HandsInv => \A d \in Drain : turnPc[d] = "send" /\ turnPc'[d] = "commit"
                                  => mode[turnTalk[d]] = "ai"
  BY DEF HandsInv, TalkInv, PassedGate
<1> QED
  BY HandsInvariant, <1>1, PTL DEF AiSpeaksInItsOwnTalk

\* No step changes the status of an open Talk that a human holds.
LEMMA HeldStep ==
  ASSUME HandsInv, [Next]_vars, NEW t \in Talk,
         status[t] \in {"active", "requires_review"}, mode[t] = "human"
  PROVE  status'[t] = status[t]
<1>4. \/ \E d \in Drain : CommitTurn(d) \/ CommitContext(d)
      \/ \E u \in Talk, why \in ScanStatus : ScanClose(u, why)
      \/ UNCHANGED status
  <2> USE DEF talks
  <2>1. ASSUME NEW d \in Drain, ResolveTalk(d) \/ TurnStep(d), ~CommitTurn(d), ~CommitContext(d)
        PROVE  UNCHANGED status
    BY <2>1 DEF TurnStep, ResolveTalk, Gate, Decide, SendReply, Fail
  <2>2. ASSUME NEW o \in Client, OpStep(o) \/ ReadForSend(o) PROVE UNCHANGED status
    BY <2>2 DEF OpStep, ReadForSend, Takeover, Release, CallProvider, RecordSend
  <2>3. ASSUME NEW o \in Client, NEW request \in {"takeover", "release"}, ReadTalk(o, request)
        PROVE  UNCHANGED status
    BY <2>3 DEF ReadTalk
  <2>4. CASE ScanRead \/ ScanDies \/ Tick \/ UNCHANGED vars
    BY <2>4 DEF ScanRead, ScanDies, Tick, vars
  <2> QED
    BY <2>1, <2>2, <2>3, <2>4 DEF Next, ScanStep
<1> USE DEF HandsInv, TypeOK
<1>1. ASSUME NEW d \in Drain, CommitTurn(d) PROVE status'[t] = status[t]
  BY <1>1 DEF CommitTurn, Goto, TalkInv, PassedGate
<1>2. ASSUME NEW d \in Drain, CommitContext(d) PROVE status'[t] = status[t]
  BY <1>2 DEF CommitContext, talks
<1>3. ASSUME NEW u \in Talk, NEW why \in ScanStatus, ScanClose(u, why) PROVE status'[t] = status[t]
  BY <1>3 DEF ScanClose, Scannable
<1> QED
  BY <1>1, <1>2, <1>3, <1>4

\* Nothing closes an open Talk that a human holds.
THEOREM HeldStays == Spec => HeldStaysOpen
<1>1. HandsInv /\ [Next]_vars =>
        [\A t \in Talk : status[t] \in {"active", "requires_review"} /\ mode[t] = "human"
            => status'[t] = status[t]]_vars
  BY HeldStep
<1> QED
  BY HandsInvariant, <1>1, PTL DEF HeldStaysOpen, Spec


-----------------------------------------------------------------------------
(* One coroutine drains the lead's queue: one open Talk.                   *)

OneDrain == \A d, e \in Drain : d = e

\* The open Talk, if there is one, is the one that the turn under way works on: a
\* turn that resolved none found none open, and none was opened since.
OneOpen == \A t, u \in Open : t = u
TurnHasOpen == \A d \in Drain : turnPc[d] # "idle" => Open \subseteq {turnTalk[d]}

OpenInv == HandsInv /\ OneOpen /\ TurnHasOpen

LEMMA OpenStep ==
  ASSUME OneDrain, OpenInv, [Next]_vars
  PROVE  OneOpen' /\ TurnHasOpen'
<1>0. HandsInv /\ OneOpen /\ TurnHasOpen
  BY DEF OpenInv
<1>1. /\ status \in [Talk -> {"absent", "active", "requires_review", "closed_completed",
                              "closed_inactivity", "closed_duration"}]
      /\ turnPc \in [Drain -> {"idle", "resolved", "await", "llm", "send", "commit"}]
      /\ turnTalk \in [Drain -> Talk \cup {NoTalk}]
  BY <1>0 DEF HandsInv, TypeOK
\* A step that opens no Talk and moves no turn.
<1>2. ASSUME UNCHANGED <<turnPc, turnTalk>>, Open' \subseteq Open PROVE OneOpen' /\ TurnHasOpen'
  BY <1>0, <1>2 DEF OneOpen, TurnHasOpen
\* A step of the turn after which all that is open is the turn's Talk.
<1>3. ASSUME NEW d \in Drain, Open' \subseteq {turnTalk'[d]} PROVE OneOpen' /\ TurnHasOpen'
  BY <1>3 DEF OneDrain, OneOpen, TurnHasOpen
\* A step that ends the turn.
<1>4. ASSUME NEW d \in Drain, turnPc'[d] = "idle", NEW t, Open' \subseteq {t}
      PROVE  OneOpen' /\ TurnHasOpen'
  BY <1>4 DEF OneDrain, OneOpen, TurnHasOpen
<1>5. ASSUME NEW d \in Drain, ResolveTalk(d) PROVE OneOpen' /\ TurnHasOpen'
  <2>1. Open' = Open
    BY <1>5 DEF ResolveTalk, talks, Open
  <2>2. PICK t \in Talk \cup {NoTalk} : /\ Newest(t) \/ (t = NoTalk /\ Open = {})
                                        /\ turnTalk' = [turnTalk EXCEPT ![d] = t]
    BY <1>5 DEF ResolveTalk
  <2>3. Open \subseteq {t}
    BY <1>0, <2>2 DEF OneOpen, Newest
  <2>4. turnTalk'[d] = t
    BY <1>1, <2>2
  <2> QED
    BY <1>3, <2>1, <2>3, <2>4
<1>6. ASSUME NEW d \in Drain, CommitContext(d) PROVE OneOpen' /\ TurnHasOpen'
  <2>1. Open \subseteq {turnTalk[d]}
    BY <1>0, <1>6 DEF CommitContext, Goto, TurnHasOpen
  <2>2. CASE turnTalk[d] # NoTalk
    <3>1. Open' = Open /\ turnTalk' = turnTalk
      BY <1>6, <2>2 DEF CommitContext, talks, Open
    <3> QED
      BY <1>3, <2>1, <3>1
  <2>3. CASE turnTalk[d] = NoTalk
    <3>1. PICK t \in Talk : /\ turnTalk' = [turnTalk EXCEPT ![d] = t]
                            /\ status' = [status EXCEPT ![t] = "active"]
      BY <1>6, <2>3 DEF CommitContext
    <3>2. Open = {}
      BY <2>1, <2>3 DEF Open, NoTalk, Talk
    <3>3. Open' \subseteq {t}
      BY <1>1, <3>1, <3>2 DEF Open
    <3>4. turnTalk'[d] = t
      BY <1>1, <3>1
    <3> QED
      BY <1>3, <3>3, <3>4
  <2> QED
    BY <2>2, <2>3
<1>7. ASSUME NEW d \in Drain, Gate(d) PROVE OneOpen' /\ TurnHasOpen'
  <2>1. Open' = Open /\ Open \subseteq {turnTalk[d]}
    BY <1>0, <1>7 DEF Gate, talks, Open, TurnHasOpen
  <2>2. turnPc'[d] = "idle" \/ turnTalk' = turnTalk
    BY <1>1, <1>7 DEF Gate, Goto
  <2> QED
    BY <1>3, <1>4, <2>1, <2>2
<1>8. ASSUME NEW d \in Drain, Decide(d) \/ SendReply(d) PROVE OneOpen' /\ TurnHasOpen'
  <2>1. Open' = Open /\ Open \subseteq {turnTalk[d]} /\ turnTalk' = turnTalk
    BY <1>0, <1>8 DEF Decide, SendReply, Goto, talks, Open, TurnHasOpen
  <2> QED
    BY <1>3, <2>1
<1>9. ASSUME NEW d \in Drain, CommitTurn(d) PROVE OneOpen' /\ TurnHasOpen'
  <2>1. Open \subseteq {turnTalk[d]} /\ turnPc'[d] = "idle"
    BY <1>0, <1>1, <1>9 DEF CommitTurn, Goto, TurnHasOpen
  <2>2. \A t \in Talk : t # turnTalk[d] => status'[t] = status[t]
    BY <1>1, <1>9 DEF CommitTurn
  <2>3. Open' \subseteq {turnTalk[d]}
    BY <2>1, <2>2 DEF Open
  <2> QED
    BY <1>4, <2>1, <2>3
<1>10. ASSUME NEW d \in Drain, Fail(d) PROVE OneOpen' /\ TurnHasOpen'
  <2>1. Open' = Open /\ Open \subseteq {turnTalk[d]} /\ turnPc'[d] = "idle"
    BY <1>0, <1>1, <1>10 DEF Fail, Goto, talks, Open, TurnHasOpen
  <2> QED
    BY <1>4, <2>1
<1>11. ASSUME NEW t \in Talk, NEW why \in ScanStatus, ScanClose(t, why) PROVE OneOpen' /\ TurnHasOpen'
  <2>1. Open' \subseteq Open
    BY <1>1, <1>11 DEF ScanClose, ScanStatus, OpenStatus, Open
  <2> QED
    BY <1>2, <1>11, <2>1 DEF ScanClose, turn
<1>12. ASSUME NEW o \in Client, OpStep(o) \/ ReadForSend(o) PROVE OneOpen' /\ TurnHasOpen'
  BY <1>2, <1>12 DEF OpStep, Takeover, Release, CallProvider, RecordSend, ReadForSend, talks, turn, Open
<1>13. ASSUME NEW o \in Client, NEW request \in {"takeover", "release"}, ReadTalk(o, request)
       PROVE  OneOpen' /\ TurnHasOpen'
  BY <1>2, <1>13 DEF ReadTalk, talks, turn, Open
<1>14. CASE Tick \/ ScanRead \/ ScanDies \/ UNCHANGED vars
  BY <1>2, <1>14 DEF Tick, ScanRead, ScanDies, vars, talks, turn, Open
<1> QED
  BY <1>5, <1>6, <1>7, <1>8, <1>9, <1>10, <1>11, <1>12, <1>13, <1>14 DEF Next, TurnStep, ScanStep

\* While one coroutine drains the lead's queue it has one open Talk at most,
\* whatever the scan job closes and a late turn reopens.
THEOREM OneTalkAtATime == ASSUME OneDrain PROVE Spec => []OneOpenTalk
<1>1. Init => OneOpen /\ TurnHasOpen
  BY DEF Init, OneOpen, TurnHasOpen, Open, OpenStatus
<1>2. HandsInv /\ OneOpen /\ TurnHasOpen /\ [Next]_vars => OneOpen' /\ TurnHasOpen'
  BY OpenStep DEF OpenInv
<1>3. OneOpen => OneOpenTalk
  <2> SUFFICES ASSUME OneOpen PROVE OneOpenTalk
    OBVIOUS
  <2>1. Open = {t \in Talk : status[t] \in {"active", "requires_review"}}
    BY DEF Open, OpenStatus
  <2>2. CASE Open = {}
    BY <2>1, <2>2, FS_EmptySet DEF OneOpenTalk
  <2>3. CASE Open # {}
    <3>1. PICK t : t \in Open
      BY <2>3
    <3>2. Open = {t}
      BY <3>1 DEF OneOpen
    <3>3. Cardinality({t}) = 1
      BY FS_Singleton
    <3> QED
      BY <2>1, <3>2, <3>3 DEF OneOpenTalk
  <2> QED
    BY <2>2, <2>3
<1> QED
  BY <1>1, <1>2, <1>3, HandsInvariant, PTL DEF Spec

-----------------------------------------------------------------------------
(* What operators send.                                                    *)

\* The requests before and after the provider's call for a message.
Sending(p) == {o \in Client : opPc[o] = "send" /\ Sends(o) = p}
Recording(p) == {o \in Client : opPc[o] = "record" /\ Sends(o) = p}

\* Before the first insert every delivery has its request; after it, each request
\* that may still call the provider leaves room for its delivery.
Counted(p) ==
  IF p \in recorded
  THEN delivered[p] >= 1 /\ delivered[p] + Cardinality(Sending(p)) <= Cardinality(Client)
  ELSE delivered[p] = Cardinality(Recording(p))

\* Requests that never overlapped are one at a time, and none is left after the insert.
InTurns(p) ==
  p \notin overlapped =>
    /\ \A o, q \in At(p) : o = q
    /\ p \in recorded => At(p) = {} /\ delivered[p] = 1

SentInv == faults = 0 => \A p \in Talk \X ClientMsg : Counted(p) /\ InTurns(p)

LEMMA Counts ==
  ASSUME NEW p
  PROVE  /\ IsFiniteSet(Sending(p)) /\ IsFiniteSet(Recording(p))
         /\ {Cardinality(Sending(p)), Cardinality(Recording(p)), Cardinality(Client)} \subseteq Nat
         /\ Cardinality(Sending(p)) + Cardinality(Recording(p)) <= Cardinality(Client)
         /\ At(p) = Sending(p) \cup Recording(p)
<1>1. Sending(p) \subseteq Client /\ Recording(p) \subseteq Client /\ Sending(p) \cap Recording(p) = {}
  BY DEF Sending, Recording
<1>2. IsFiniteSet(Client) /\ IsFiniteSet(Sending(p)) /\ IsFiniteSet(Recording(p))
  BY <1>1, ConsoleAssumption, FS_Subset
<1>3. {Cardinality(Sending(p)), Cardinality(Recording(p)), Cardinality(Client)} \subseteq Nat
  BY <1>2, FS_CardinalityType
<1>4. Cardinality(Sending(p) \cup Recording(p)) <= Cardinality(Client)
  <2>1. Sending(p) \cup Recording(p) \subseteq Client BY <1>1
  <2> QED BY <1>2, <2>1, FS_Subset
<1>5. Cardinality(Sending(p) \cup Recording(p)) = Cardinality(Sending(p)) + Cardinality(Recording(p))
  <2>1. Cardinality(Sending(p) \cup Recording(p))
          = Cardinality(Sending(p)) + Cardinality(Recording(p)) - Cardinality({})
    BY <1>1, <1>2, FS_Union
  <2> QED BY <1>3, <2>1, FS_EmptySet
<1>6. At(p) = Sending(p) \cup Recording(p) BY DEF At, Sending, Recording
<1> QED BY <1>2, <1>3, <1>4, <1>5, <1>6

\* A message that a step does not concern.
LEMMA NotConcerned ==
  ASSUME NEW p \in Talk \X ClientMsg, Counted(p), InTurns(p),
         Sending(p)' = Sending(p), Recording(p)' = Recording(p), delivered'[p] = delivered[p],
         p \in recorded' <=> p \in recorded, p \in overlapped => p \in overlapped'
  PROVE  Counted(p)' /\ InTurns(p)'
<1>1. At(p)' = At(p) BY DEF At, Sending, Recording
<1>2. Counted(p)' BY DEF Counted
<1>3. InTurns(p)' BY <1>1 DEF InTurns
<1> QED BY <1>2, <1>3

\* A request comes to its provider's call.
LEMMA OneMoreSends ==
  ASSUME NEW p \in Talk \X ClientMsg, Counted(p), InTurns(p), NEW o \in Client,
         p \notin recorded, p \notin recorded',
         Sending(p)' = Sending(p) \cup {o}, Recording(p)' = Recording(p), delivered'[p] = delivered[p],
         overlapped' = IF At(p) = {} THEN overlapped ELSE overlapped \cup {p}
  PROVE  Counted(p)' /\ InTurns(p)'
<1>1. At(p)' = At(p) \cup {o} BY Counts DEF At, Sending, Recording
<1>2. Counted(p)' BY DEF Counted
<1>3. InTurns(p)' BY <1>1 DEF InTurns
<1> QED BY <1>2, <1>3

\* It delivers.
LEMMA OneDelivers ==
  ASSUME NEW p \in Talk \X ClientMsg, Counted(p), InTurns(p), NEW o \in Sending(p),
         Sending(p)' = Sending(p) \ {o}, Recording(p)' = Recording(p) \cup {o},
         delivered[p] \in Nat, delivered'[p] = delivered[p] + 1,
         recorded' = recorded, overlapped' = overlapped
  PROVE  Counted(p)' /\ InTurns(p)'
<1>1. o \notin Recording(p) /\ o \in At(p) BY DEF At, Sending, Recording
<1>2. At(p)' = At(p) BY <1>1, Counts DEF At, Sending, Recording
<1>3. /\ Cardinality(Sending(p)') = Cardinality(Sending(p)) - 1
      /\ Cardinality(Recording(p)') = Cardinality(Recording(p)) + 1
  <2>1. IsFiniteSet(Sending(p)) /\ IsFiniteSet(Recording(p)) BY Counts
  <2>2. Cardinality(Sending(p) \ {o}) = Cardinality(Sending(p)) - 1 BY <2>1, FS_RemoveElement
  <2>3. Cardinality(Recording(p) \cup {o}) = Cardinality(Recording(p)) + 1 BY <1>1, <2>1, FS_AddElement
  <2> QED BY <2>2, <2>3
<1>4. Counted(p)'
  <2>1. CASE p \in recorded BY <1>3, <2>1, Counts DEF Counted
  <2>2. CASE p \notin recorded BY <1>3, <2>2 DEF Counted
  <2> QED BY <2>1, <2>2
<1>5. InTurns(p)' BY <1>1, <1>2 DEF InTurns
<1> QED BY <1>4, <1>5

\* Or it is refused.
LEMMA OneRefused ==
  ASSUME NEW p \in Talk \X ClientMsg, Counted(p), InTurns(p), NEW o \in Sending(p),
         Sending(p)' = Sending(p) \ {o}, Recording(p)' = Recording(p),
         delivered[p] \in Nat, delivered'[p] = delivered[p], recorded' = recorded, overlapped' = overlapped
  PROVE  Counted(p)' /\ InTurns(p)'
<1>1. At(p)' \subseteq At(p) BY Counts DEF At, Sending, Recording
<1>2. Cardinality(Sending(p)') = Cardinality(Sending(p)) - 1 BY Counts, FS_RemoveElement
<1>3. Counted(p)'
  <2>1. CASE p \in recorded BY <1>2, <2>1, Counts DEF Counted
  <2>2. CASE p \notin recorded BY <2>2 DEF Counted
  <2> QED BY <2>1, <2>2
<1>4. InTurns(p)' BY <1>1 DEF InTurns
<1> QED BY <1>3, <1>4

\* The insert.
LEMMA OneRecords ==
  ASSUME NEW p \in Talk \X ClientMsg, Counted(p), InTurns(p), NEW o \in Recording(p),
         Sending(p)' = Sending(p), Recording(p)' = Recording(p) \ {o},
         delivered[p] \in Nat, delivered'[p] = delivered[p],
         recorded' = recorded \cup {p}, overlapped' = overlapped
  PROVE  Counted(p)' /\ InTurns(p)'
<1>1. o \in At(p) BY Counts
<1>2. At(p)' = Sending(p) \cup (Recording(p) \ {o}) BY Counts DEF At, Sending, Recording
<1>3. Counted(p)'
  <2>1. CASE p \in recorded BY <2>1 DEF Counted
  <2>2. CASE p \notin recorded
    <3>1. delivered[p] = Cardinality(Recording(p)) BY <2>2 DEF Counted
    <3>2. Cardinality(Recording(p)) # 0 BY Counts, FS_EmptySet
    <3>3. delivered[p] >= 1 /\ delivered[p] + Cardinality(Sending(p)) <= Cardinality(Client)
      BY <3>1, <3>2, Counts
    <3> QED BY <3>3 DEF Counted
  <2> QED BY <2>1, <2>2
<1>4. ASSUME p \notin overlapped PROVE At(p)' = {} /\ delivered[p] = 1
  <2>1. p \notin recorded BY <1>1, <1>4 DEF InTurns
  <2>2. \A q \in At(p) : q = o BY <1>1, <1>4 DEF InTurns
  <2>3. Recording(p) = {o} /\ At(p)' = {} BY <1>2, <2>2 DEF At, Sending, Recording
  <2>4. delivered[p] = 1 BY <2>1, <2>3, FS_Singleton DEF Counted
  <2> QED BY <2>3, <2>4
<1>5. InTurns(p)' BY <1>4 DEF InTurns
<1> QED BY <1>3, <1>5

\* What a request's step changes of the requests at a message.
LEMMA Moves ==
  ASSUME HandsInv, NEW o \in Client, NEW p,
         \A q \in Client \ {o} : opPc'[q] = opPc[q] /\ Sends(q)' = Sends(q)
  PROVE  /\ Sending(p)' = IF opPc'[o] = "send" /\ Sends(o)' = p
                          THEN Sending(p) \cup {o} ELSE Sending(p) \ {o}
         /\ Recording(p)' = IF opPc'[o] = "record" /\ Sends(o)' = p
                            THEN Recording(p) \cup {o} ELSE Recording(p) \ {o}
         /\ o \in Sending(p) <=> opPc[o] = "send" /\ Sends(o) = p
         /\ o \in Recording(p) <=> opPc[o] = "record" /\ Sends(o) = p
BY DEF Sending, Recording

LEMMA SentStep ==
  ASSUME HandsInv, SentInv, [Next]_vars
  PROVE  SentInv'
<1>1. /\ opPc \in [Client -> {"idle", "takeover", "release", "send", "record"}]
      /\ opTalk \in [Client -> Talk \cup {NoTalk}] /\ opMsg \in [Client -> ClientMsg]
      /\ delivered \in [Talk \X ClientMsg -> Nat] /\ faults \in Nat
  BY DEF HandsInv, TypeOK
<1>2. SUFFICES ASSUME faults' = 0, NEW p \in Talk \X ClientMsg PROVE Counted(p)' /\ InTurns(p)'
  BY DEF SentInv
<1>3. faults' = faults \/ faults' = faults + 1
  BY DEF Next, Tick, ResolveTalk, TurnStep, CommitContext, Gate, Decide, SendReply, CommitTurn, Fail,
         ReadTalk, ReadForSend, OpStep, Takeover, Release, CallProvider, RecordSend, ScanStep, ScanRead,
         ScanClose, ScanDies, Inject, vars
<1>4. faults = 0 /\ faults' = faults /\ Counted(p) /\ InTurns(p) BY <1>1, <1>2, <1>3 DEF SentInv
<1>5. ASSUME UNCHANGED console PROVE Counted(p)' /\ InTurns(p)'
  BY <1>4, <1>5, NotConcerned DEF console, Sending, Recording, Sends
<1>6. ASSUME NEW o \in Client, UNCHANGED <<opMsg, recorded, delivered, overlapped>>,
             opPc[o] \notin {"send", "record"}, opPc'[o] \notin {"send", "record"},
             \A q \in Client \ {o} : opPc'[q] = opPc[q] /\ opTalk'[q] = opTalk[q]
      PROVE  Counted(p)' /\ InTurns(p)'
  <2>1. Sending(p)' = Sending(p) /\ Recording(p)' = Recording(p) BY <1>6 DEF Sending, Recording, Sends
  <2> QED BY <1>4, <1>6, <2>1, NotConcerned
<1>7. ASSUME NEW o \in Client, NEW request \in {"takeover", "release"}, ReadTalk(o, request)
      PROVE  Counted(p)' /\ InTurns(p)'
  BY <1>1, <1>6, <1>7 DEF ReadTalk, GotoOp
<1>8. ASSUME NEW o \in Client, Takeover(o) \/ Release(o) PROVE Counted(p)' /\ InTurns(p)'
  BY <1>1, <1>6, <1>8 DEF Takeover, Release, Finish, GotoOp
<1>9. ASSUME NEW o \in Client, ReadForSend(o) PROVE Counted(p)' /\ InTurns(p)'
  <2>1. PICK t \in Talk, m \in ClientMsg :
          /\ <<t, m>> \notin recorded
          /\ opTalk' = [opTalk EXCEPT ![o] = t] /\ opMsg' = [opMsg EXCEPT ![o] = m]
          /\ overlapped' = IF At(<<t, m>>) = {} THEN overlapped ELSE overlapped \cup {<<t, m>>}
    BY <1>9 DEF ReadForSend
  <2>2. /\ opPc[o] = "idle" /\ opPc' = [opPc EXCEPT ![o] = "send"]
        /\ UNCHANGED <<recorded, delivered>>
    BY <1>9 DEF ReadForSend, GotoOp
  <2>3. \A q \in Client \ {o} : opPc'[q] = opPc[q] /\ Sends(q)' = Sends(q)
    BY <1>1, <2>1, <2>2 DEF Sends
  <2>4. opPc'[o] = "send" /\ Sends(o)' = <<t, m>> BY <1>1, <2>1, <2>2 DEF Sends
  <2>5. /\ Sending(p)' = IF <<t, m>> = p THEN Sending(p) \cup {o} ELSE Sending(p)
        /\ Recording(p)' = Recording(p)
    BY <2>2, <2>3, <2>4, Moves
  <2>6. CASE <<t, m>> = p BY <1>4, <2>1, <2>2, <2>5, <2>6, OneMoreSends
  <2>7. CASE <<t, m>> # p BY <1>4, <2>1, <2>2, <2>5, <2>7, NotConcerned
  <2> QED BY <2>6, <2>7
<1>10. ASSUME NEW o \in Client, CallProvider(o) PROVE Counted(p)' /\ InTurns(p)'
  <2>1. opPc[o] = "send" /\ opTalk[o] \in Talk /\ Sends(o) \in Talk \X ClientMsg
    BY <1>1, <1>10 DEF CallProvider, Finish, GotoOp, HandsInv, OpInv, Sends
  <2>2. /\ \A q \in Client \ {o} : opPc'[q] = opPc[q] /\ Sends(q)' = Sends(q)
        /\ UNCHANGED <<recorded, overlapped>>
    BY <1>1, <1>10 DEF CallProvider, Finish, GotoOp, Sends
  <2>3. \/ /\ opPc'[o] = "record" /\ Sends(o)' = Sends(o)
           /\ delivered' = [delivered EXCEPT ![Sends(o)] = @ + 1]
        \/ opPc'[o] = "idle" /\ delivered' = delivered
    BY <1>1, <1>4, <1>10 DEF CallProvider, Inject, Finish, GotoOp, Sends
  <2>4. CASE Sends(o) # p
    <3>0. o \notin Sending(p) /\ o \notin Recording(p) /\ (opPc'[o] = "record" => Sends(o)' # p) /\ opPc'[o] # "send"
      BY <2>1, <2>3, <2>4 DEF Sending, Recording
    <3>1. Sending(p)' = Sending(p) /\ Recording(p)' = Recording(p) BY <2>2, <3>0, Moves
    <3>2. delivered'[p] = delivered[p] BY <1>1, <2>3, <2>4
    <3> QED BY <1>4, <2>2, <3>1, <3>2, NotConcerned
  <2>5. CASE Sends(o) = p
    <3>1. o \in Sending(p) /\ o \notin Recording(p) BY <2>1, <2>5 DEF Sending, Recording
    <3>2. delivered[p] \in Nat BY <1>1
    <3>3. CASE opPc'[o] = "idle" /\ delivered' = delivered
      <4>1. Sending(p)' = Sending(p) \ {o} /\ Recording(p)' = Recording(p) BY <2>2, <3>1, <3>3, Moves
      <4> QED BY <1>4, <2>2, <3>1, <3>2, <3>3, <4>1, OneRefused
    <3>4. CASE /\ opPc'[o] = "record" /\ Sends(o)' = Sends(o)
               /\ delivered' = [delivered EXCEPT ![Sends(o)] = @ + 1]
      <4>1. Sending(p)' = Sending(p) \ {o} /\ Recording(p)' = Recording(p) \cup {o}
        BY <2>2, <2>5, <3>4, Moves
      <4>2. delivered'[p] = delivered[p] + 1 BY <1>1, <2>5, <3>4
      <4> QED BY <1>4, <2>2, <3>1, <3>2, <4>1, <4>2, OneDelivers
    <3> QED BY <2>3, <3>3, <3>4
  <2> QED BY <2>4, <2>5
<1>11. ASSUME NEW o \in Client, RecordSend(o) PROVE Counted(p)' /\ InTurns(p)'
  <2>1. /\ opPc[o] = "record" /\ opPc'[o] = "idle"
        /\ recorded' = recorded \cup {Sends(o)} /\ UNCHANGED <<delivered, overlapped>>
        /\ \A q \in Client \ {o} : opPc'[q] = opPc[q] /\ Sends(q)' = Sends(q)
    BY <1>1, <1>11 DEF RecordSend, Finish, GotoOp, Sends
  <2>2. CASE Sends(o) # p
    <3>1. Sending(p)' = Sending(p) /\ Recording(p)' = Recording(p) BY <2>1, <2>2, Moves
    <3> QED BY <1>4, <2>1, <2>2, <3>1, NotConcerned
  <2>3. CASE Sends(o) = p
    <3>1. o \in Recording(p) /\ o \notin Sending(p) BY <2>1, <2>3 DEF Sending, Recording
    <3>2. Sending(p)' = Sending(p) \ {o} /\ Recording(p)' = Recording(p) \ {o} BY <2>1, Moves
    <3>4. Sending(p)' = Sending(p) BY <3>1, <3>2
    <3>3. delivered[p] \in Nat BY <1>1
    <3> QED BY <1>4, <2>1, <2>3, <3>1, <3>2, <3>3, <3>4, OneRecords
  <2> QED BY <2>2, <2>3
<1>12. ASSUME NEW d \in Drain, ResolveTalk(d) \/ TurnStep(d) PROVE Counted(p)' /\ InTurns(p)'
  BY <1>5, <1>12 DEF ResolveTalk, TurnStep, CommitContext, Gate, Decide, SendReply, CommitTurn, Fail
<1>13. ASSUME Tick \/ ScanStep \/ ScanDies \/ UNCHANGED vars PROVE Counted(p)' /\ InTurns(p)'
  BY <1>5, <1>13 DEF Tick, ScanStep, ScanRead, ScanClose, ScanDies, vars
<1> QED
  BY <1>7, <1>8, <1>9, <1>10, <1>11, <1>12, <1>13 DEF Next, OpStep

LEMMA SentInvInit == Init => SentInv
<1> SUFFICES ASSUME Init, NEW p \in Talk \X ClientMsg PROVE Counted(p) /\ InTurns(p)
  BY DEF SentInv
<1>1. delivered[p] = 0 /\ p \notin recorded /\ Recording(p) = {} /\ At(p) = {}
  BY DEF Init, Recording, At
<1> QED BY <1>1, FS_EmptySet DEF Counted, InTurns

\* Without faults a client_message_id is delivered once per Talk if its requests do
\* not overlap, at most once per request if they do, and what is delivered is
\* recorded or about to be, for every number of requests.
THEOREM SendsOncePerTalk == Spec => []DeliveriesRecorded
<1>1. Init => SentInv BY SentInvInit
<1>2. HandsInv /\ SentInv /\ [Next]_vars => SentInv' BY SentStep
<1>3. HandsInv /\ SentInv => DeliveriesRecorded
  <2> SUFFICES ASSUME HandsInv, SentInv, faults = 0, NEW p \in Talk \X ClientMsg
               PROVE  /\ delivered[p] <= IF p \in overlapped THEN Cardinality(Client) ELSE 1
                      /\ delivered[p] > 0 => p \in recorded \/ \E o \in At(p) : opPc[o] = "record"
                      /\ p \in recorded => delivered[p] > 0
    BY DEF DeliveriesRecorded
  <2>1. Counted(p) /\ InTurns(p) /\ delivered[p] \in Nat BY DEF SentInv, HandsInv, TypeOK
  <2>2. CASE p \in recorded BY <2>1, <2>2, Counts DEF Counted, InTurns
  <2>3. CASE p \notin recorded
    <3>1. delivered[p] = Cardinality(Recording(p)) BY <2>1, <2>3 DEF Counted
    <3>2. p \notin overlapped => delivered[p] <= 1
      <4>1. ASSUME p \notin overlapped, NEW o \in Recording(p) PROVE Recording(p) = {o}
        BY <2>1, <4>1, Counts DEF InTurns
      <4> QED BY <3>1, <4>1, FS_EmptySet, FS_Singleton
    <3>3. delivered[p] > 0 => \E o \in At(p) : opPc[o] = "record"
      <4>1. delivered[p] > 0 => Recording(p) # {} BY <3>1, FS_EmptySet
      <4> QED BY <4>1, Counts DEF Recording
    <3> QED BY <2>1, <2>3, <3>1, <3>2, <3>3, Counts
  <2> QED BY <2>2, <2>3
<1> QED
  BY <1>1, <1>2, <1>3, HandsInvariant, PTL DEF Spec
=============================================================================
