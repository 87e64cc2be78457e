----------------------- MODULE ActionExecution_proofs -----------------------
(***************************************************************************)
(* An action takes effect only for a turn that committed, and at most once *)
(* per collected value while nothing fails, for any number of entries,     *)
(* rows, workers and turns.  The argument follows a row's job: it is in    *)
(* Redis or with one coroutine, never both, and until the adapter's call   *)
(* the row has had no effect.                                              *)
(***************************************************************************)
EXTENDS ActionExecution, TLAPS

\* Ids from nextId on have never been used.
Fresh ==
  \A i \in Id : i >= nextId =>
    /\ status[i] = "absent" /\ effects[i] = 0
    /\ i \notin tx /\ i \notin jobs
    /\ \A r \in Runner : runId[r] # i

\* A job is in one place.
Places ==
  \A r \in Runner :
    /\ runPc[r] = "idle" <=> runId[r] = NoId
    /\ runId[r] \notin jobs
    /\ \A q \in Runner : runId[q] = runId[r] /\ runId[r] # NoId => q = r

\* A coroutine beyond mark_executing has seen its row committed.
Seen == \A r \in Runner : runPc[r] \in {"call", "raised", "done"} => Visible(runId[r])

\* Two rows of the table differ in their key.
UniqueKeys ==
  \A i, j \in Id : status[i] # "absent" /\ status[j] # "absent" /\ key[i] = key[j] => i = j

\* Until a job's call its row has had no effect.
NoEffectYet ==
  faults = 0 =>
    /\ \A i \in jobs : effects[i] = 0
    /\ \A r \in Runner : runPc[r] \in {"mark", "call"} => effects[runId[r]] = 0
    /\ \A i \in Id : effects[i] \in {0, 1}

ActInv ==
  TypeOK /\ Fresh /\ Places /\ Seen /\ UniqueKeys /\ NoEffectYet /\ EffectOfCommittedTurn

\* The initial states satisfy the invariant.
LEMMA ActInvInit == Init => ActInv
<1> SUFFICES ASSUME Init PROVE ActInv
  OBVIOUS
<1> USE ActionBounds, NoIdAssumption DEF Init, Id
<1>1. TypeOK
  BY DEF TypeOK
<1>2. Fresh /\ Places /\ Seen
  BY DEF Fresh, Places, Seen
<1>3. UniqueKeys /\ NoEffectYet /\ EffectOfCommittedTurn
  BY DEF UniqueKeys, NoEffectYet, EffectOfCommittedTurn
<1> QED
  BY <1>1, <1>2, <1>3 DEF ActInv

\* What one step of the turn does to the invariant.
LEMMA TurnActStep ==
  ASSUME ActInv, Collect \/ TurnStep \/ RollBackTurn
  PROVE  ActInv'
<1> USE ActionBounds, NoIdAssumption DEF ActInv, TypeOK, turn, run
<1>1. CASE Collect \/ CommitTurn
  <2>1. TypeOK'
    <3>1. CASE Collect
      BY <3>1, EntryAssumption DEF Collect, Field
    <3>2. CASE CommitTurn
      BY <3>2 DEF CommitTurn
    <3> QED
      BY <1>1, <3>1, <3>2
  <2>2. (Fresh /\ Places /\ Seen)'
    BY <1>1 DEF Collect, CommitTurn, Fresh, Places, Seen, Visible
  <2>3. (UniqueKeys /\ NoEffectYet /\ EffectOfCommittedTurn)'
    BY <1>1 DEF Collect, CommitTurn, UniqueKeys, NoEffectYet, EffectOfCommittedTurn
  <2> QED
    BY <2>1, <2>2, <2>3
<1>2. ASSUME NEW due \in todo, Skip(due) PROVE ActInv'
  BY <1>2 DEF Skip, Fresh, Places, Seen, Visible, UniqueKeys, NoEffectYet, EffectOfCommittedTurn
<1>3. ASSUME NEW due \in todo, Insert(due), <<FieldOf[due[1]], due[2]>> \notin Taken PROVE ActInv'
  <2>1. TypeOK'
    <3>1. <<FieldOf[due[1]], due[2]>> \in Field \X Value
      BY EntryAssumption DEF Field
    <3>2. key' \in [Id -> (Field \X Value) \cup {<<>>}]
      BY <1>3, <3>1 DEF Insert
    <3>3. status' \in [Id -> ActionStatus \cup {"absent"}]
      BY <1>3 DEF Insert, ActionStatus
    <3> QED
      BY <1>3, <3>2, <3>3 DEF Insert
  <2>2. Fresh'
    BY <1>3 DEF Insert, Fresh, Id
  <2>3. Places'
    BY <1>3 DEF Insert, Fresh, Places
  <2>4. Seen' /\ EffectOfCommittedTurn'
    BY <1>3 DEF Insert, Fresh, Seen, Visible, EffectOfCommittedTurn, Id
  <2>5. UniqueKeys'
    <3> SUFFICES ASSUME NEW i \in Id, NEW j \in Id,
                        status'[i] # "absent", status'[j] # "absent", key'[i] = key'[j]
                 PROVE  i = j
      BY DEF UniqueKeys
    <3>1. \A k \in Id : k # nextId /\ status'[k] # "absent" =>
            key'[k] = key[k] /\ status[k] # "absent" /\ key[k] # key'[nextId]
      BY <1>3 DEF Insert, Taken
    <3>2. CASE i = nextId \/ j = nextId
      BY <3>1, <3>2
    <3>3. CASE i # nextId /\ j # nextId
      BY <3>1, <3>3 DEF UniqueKeys
    <3> QED
      BY <3>2, <3>3
  <2>6. NoEffectYet'
    BY <1>3 DEF Insert, Fresh, NoEffectYet
  <2> QED
    BY <2>1, <2>2, <2>3, <2>4, <2>5, <2>6
<1>4. CASE RollBackTurn
  BY <1>4 DEF RollBackTurn, Inject, Fresh, Places, Seen, Visible, UniqueKeys, NoEffectYet,
              EffectOfCommittedTurn
<1> QED
  BY <1>1, <1>2, <1>3, <1>4 DEF TurnStep, Dispatch

\* What one step of a job does to the invariant.
LEMMA RunActStep ==
  ASSUME ActInv, NEW r \in Runner,
         (\E i \in Id : StartJob(r, i)) \/ RunStep(r) \/ Crash(r)
  PROVE  ActInv'
<1> USE ActionBounds, NoIdAssumption DEF ActInv, TypeOK, turn, run, Goto
<1>1. ASSUME NEW i \in Id, StartJob(r, i) PROVE ActInv'
  <2>11. TypeOK'
    <3>1. status' \in [Id -> ActionStatus \cup {"absent"}] /\ jobs' \subseteq Id
      BY <1>1 DEF StartJob, ActionStatus
    <3>2. CASE tries[i] < MaxTries
      <4>1. /\ runPc' = [runPc EXCEPT ![r] = "mark"] /\ runId' = [runId EXCEPT ![r] = i]
            /\ tries' = [tries EXCEPT ![i] = @ + 1]
            /\ UNCHANGED <<turnPc, todo, tx, key, nextId, turns, attempts, effects, faults>>
        BY <1>1, <3>2 DEF StartJob
      <4>2. /\ runPc' \in [Runner -> {"idle", "mark", "call", "raised", "done", "returned"}]
            /\ runId' \in [Runner -> Id \cup {NoId}]
        BY <4>1
      <4>3. tries' \in [Id -> Nat]
        BY <4>1
      <4> QED
        BY <3>1, <4>1, <4>2, <4>3
    <3>3. CASE ~(tries[i] < MaxTries)
      BY <1>1, <3>1, <3>3 DEF StartJob
    <3> QED
      BY <3>2, <3>3
  <2>12. Fresh'
    BY <1>1 DEF StartJob, Fresh, Visible
  <2>13. Places'
    <3>1. CASE tries[i] < MaxTries
      <4>1. /\ jobs' = jobs \ {i} /\ i \in jobs
            /\ runPc' = [runPc EXCEPT ![r] = "mark"] /\ runId' = [runId EXCEPT ![r] = i]
        BY <1>1, <3>1 DEF StartJob
      <4> QED
        BY <4>1 DEF Places
    <3>2. CASE ~(tries[i] < MaxTries)
      BY <1>1, <3>2 DEF StartJob, Places
    <3> QED
      BY <3>1, <3>2
  <2>14. Seen'
    <3> SUFFICES ASSUME NEW q \in Runner, runPc'[q] \in {"call", "raised", "done"}
                 PROVE  Visible(runId[q])'
      BY DEF Seen
    <3>1. runPc'[q] = runPc[q] /\ runId'[q] = runId[q]
      BY <1>1 DEF StartJob
    <3>2. UNCHANGED <<status, tx>>
      BY <1>1 DEF StartJob
    <3> QED
      BY <3>1, <3>2 DEF Seen, Visible
  <2>15. UniqueKeys'
    BY <1>1 DEF StartJob, UniqueKeys, Visible
  <2>16. NoEffectYet'
    BY <1>1 DEF StartJob, NoEffectYet, Places
  <2>17. EffectOfCommittedTurn'
    BY <1>1 DEF StartJob, EffectOfCommittedTurn, Visible
  <2> QED
    BY <2>11, <2>12, <2>13, <2>14, <2>15, <2>16, <2>17
<1>2. CASE MarkExecuting(r)
  <2>1. runId[r] \in Id
    BY <1>2 DEF MarkExecuting, Places
  <2>2. CASE Visible(runId[r])
    <3>11. TypeOK'
      <4>1. status' \in [Id -> ActionStatus \cup {"absent"}] /\ jobs' \subseteq Id
        BY <1>2, <2>1, <2>2 DEF MarkExecuting, ActionStatus
      <4>2. /\ runPc' \in [Runner -> {"idle", "mark", "call", "raised", "done", "returned"}]
           /\ runId' \in [Runner -> Id \cup {NoId}]
        BY <1>2, <2>1, <2>2 DEF MarkExecuting
      <4>3. /\ attempts' \in [Id -> Nat] /\ tries' \in [Id -> Nat] /\ effects' \in [Id -> Nat]
           /\ faults' \in Nat
        <5>1. /\ attempts' = [attempts EXCEPT ![runId[r]] = @ + 1]
              /\ UNCHANGED <<tries, effects, faults>>
          BY <1>2, <2>2 DEF MarkExecuting
        <5>2. attempts[runId[r]] + 1 \in Nat
          BY <2>1
        <5> QED
          BY <5>1, <5>2
      <4>4. UNCHANGED <<turnPc, todo, key, tx, nextId, turns>>
        BY <1>2, <2>1, <2>2 DEF MarkExecuting
      <4> QED
        BY <4>1, <4>2, <4>3, <4>4
    <3>12. Fresh'
      BY <1>2, <2>1, <2>2 DEF MarkExecuting, Fresh, Visible
    <3>13. Places'
      BY <1>2, <2>1, <2>2 DEF MarkExecuting, Places
    <3>1. \A k \in Id : status'[k] = "absent" <=> status[k] = "absent"
      BY <1>2, <2>1, <2>2 DEF MarkExecuting, Visible
    <3>2. UNCHANGED <<runId, tx, key>> /\ \A q \in Runner : q # r => runPc'[q] = runPc[q]
      BY <1>2, <2>1, <2>2 DEF MarkExecuting
    <3>14. Seen'
      <4> SUFFICES ASSUME NEW q \in Runner, runPc'[q] \in {"call", "raised", "done"}
                   PROVE  Visible(runId[q])'
        BY DEF Seen
      <4>1. CASE q = r
        BY <2>1, <2>2, <3>1, <3>2, <4>1 DEF Visible
      <4>2. CASE q # r
        <5>1. Visible(runId[q]) /\ runId[q] # NoId
          BY <3>2, <4>2 DEF Seen, Places
        <5> QED
          BY <3>1, <3>2, <5>1 DEF Visible
      <4> QED
        BY <4>1, <4>2
    <3>15. UniqueKeys'
      BY <3>1, <3>2 DEF UniqueKeys
    <3>16. NoEffectYet'
      BY <1>2, <2>1, <2>2 DEF MarkExecuting, NoEffectYet, Places
    <3>17. EffectOfCommittedTurn'
      BY <1>2, <2>1, <2>2 DEF MarkExecuting, EffectOfCommittedTurn, Visible
    <3> QED
      BY <3>11, <3>12, <3>13, <3>14, <3>15, <3>16, <3>17
  <2>3. CASE ~Visible(runId[r])
    <3>11. TypeOK'
      BY <1>2, <2>1, <2>3 DEF MarkExecuting, ActionStatus
    <3>12. Fresh'
      BY <1>2, <2>1, <2>3 DEF MarkExecuting, Fresh, Visible
    <3>13. Places'
      BY <1>2, <2>1, <2>3 DEF MarkExecuting, Places
    <3>14. Seen'
      BY <1>2, <2>1, <2>3 DEF MarkExecuting, Seen, Visible
    <3>15. UniqueKeys'
      BY <1>2, <2>1, <2>3 DEF MarkExecuting, UniqueKeys, Visible
    <3>16. NoEffectYet'
      BY <1>2, <2>1, <2>3 DEF MarkExecuting, NoEffectYet, Places
    <3>17. EffectOfCommittedTurn'
      BY <1>2, <2>1, <2>3 DEF MarkExecuting, EffectOfCommittedTurn, Visible
    <3> QED
      BY <3>11, <3>12, <3>13, <3>14, <3>15, <3>16, <3>17
  <2> QED
    BY <2>2, <2>3
<1>3. CASE CallAdapter(r)
  <2>1. runId[r] \in Id /\ Visible(runId[r])
    BY <1>3 DEF CallAdapter, Places, Seen
  <2>11. TypeOK'
    <3>1. status' \in [Id -> ActionStatus \cup {"absent"}] /\ jobs' \subseteq Id
      BY <1>3, <2>1 DEF CallAdapter, Inject, ActionStatus
    <3>2. /\ runPc' \in [Runner -> {"idle", "mark", "call", "raised", "done", "returned"}]
         /\ runId' \in [Runner -> Id \cup {NoId}]
      BY <1>3, <2>1 DEF CallAdapter, Inject
    <3>3. /\ attempts' \in [Id -> Nat] /\ tries' \in [Id -> Nat] /\ faults' \in Nat
      BY <1>3, <2>1 DEF CallAdapter, Inject
    <3>5. effects' \in [Id -> Nat]
      <4>1. effects \in [Id -> Nat] /\ effects[runId[r]] + 1 \in Nat
        BY <2>1
      <4>2. CASE effects' = [effects EXCEPT ![runId[r]] = @ + 1]
        BY <4>1, <4>2
      <4>3. CASE UNCHANGED effects
        BY <4>1, <4>3
      <4> QED
        BY <1>3, <4>2, <4>3 DEF CallAdapter
    <3>4. UNCHANGED <<turnPc, todo, key, tx, nextId, turns>>
      BY <1>3, <2>1 DEF CallAdapter, Inject
    <3> QED
      BY <3>1, <3>2, <3>3, <3>4, <3>5
  <2>12. Fresh'
    BY <1>3, <2>1 DEF CallAdapter, Inject, Fresh, Visible
  <2>13. Places'
    BY <1>3, <2>1 DEF CallAdapter, Inject, Places
  <2>14. Seen'
    BY <1>3, <2>1 DEF CallAdapter, Inject, Seen, Visible
  <2>15. UniqueKeys'
    BY <1>3, <2>1 DEF CallAdapter, Inject, UniqueKeys, Visible
  <2>16. NoEffectYet'
    <3>1. CASE runPc'[r] = "raised"
      BY <1>3, <2>1, <3>1 DEF CallAdapter, Inject, NoEffectYet
    <3>2. CASE runPc'[r] = "done"
      <4>1. effects' = [effects EXCEPT ![runId[r]] = @ + 1] /\ UNCHANGED <<runId, jobs, faults>>
        BY <1>3, <3>2 DEF CallAdapter
      <4>2. faults = 0 => effects[runId[r]] = 0
        BY <1>3 DEF CallAdapter, NoEffectYet
      <4>3. \A q \in Runner : q # r => runPc'[q] = runPc[q] /\ (runPc[q] # "idle" => runId[q] # runId[r])
        BY <1>3, <2>1 DEF CallAdapter, Places
      <4> QED
        BY <2>1, <3>2, <4>1, <4>2, <4>3 DEF NoEffectYet, Places
    <3> QED
      BY <1>3, <3>1, <3>2 DEF CallAdapter
  <2>17. EffectOfCommittedTurn'
    BY <1>3, <2>1 DEF CallAdapter, Inject, EffectOfCommittedTurn, Visible
  <2> QED
    BY <2>11, <2>12, <2>13, <2>14, <2>15, <2>16, <2>17
<1>4. CASE RecordSuccess(r) \/ RecordFailure(r)
  <2>1. runId[r] \in Id /\ Visible(runId[r])
    <3>1. runPc[r] \in {"raised", "done"}
      BY <1>4 DEF RecordSuccess, RecordFailure
    <3>2. runId[r] # NoId /\ runId[r] \in Id \cup {NoId}
      BY <3>1 DEF Places
    <3> QED
      BY <3>1, <3>2 DEF Seen
  <2>11. TypeOK'
    <3>1. status' \in [Id -> ActionStatus \cup {"absent"}]
      BY <1>4, <2>1 DEF RecordSuccess, RecordFailure, ActionStatus
    <3>2. runPc' \in [Runner -> {"idle", "mark", "call", "raised", "done", "returned"}]
      BY <1>4 DEF RecordSuccess, RecordFailure
    <3>3. UNCHANGED <<turn, runId, tries, attempts, effects, jobs, faults>>
      BY <1>4 DEF RecordSuccess, RecordFailure
    <3> QED
      BY <3>1, <3>2, <3>3
  <2>12. Fresh'
    BY <1>4, <2>1 DEF RecordSuccess, RecordFailure, Fresh, Visible
  <2>13. Places'
    BY <1>4, <2>1 DEF RecordSuccess, RecordFailure, Places
  <2>14. Seen'
    <3>1. \A k \in Id : status'[k] = "absent" <=> status[k] = "absent"
      BY <1>4, <2>1 DEF RecordSuccess, RecordFailure, Visible
    <3>2. UNCHANGED <<runId, tx>> /\ \A q \in Runner : q # r => runPc'[q] = runPc[q]
      BY <1>4 DEF RecordSuccess, RecordFailure
    <3>3. runPc'[r] = "returned"
      BY <1>4 DEF RecordSuccess, RecordFailure
    <3> SUFFICES ASSUME NEW q \in Runner, runPc'[q] \in {"call", "raised", "done"}
                 PROVE  Visible(runId[q])'
      BY DEF Seen
    <3>4. Visible(runId[q]) /\ runId[q] # NoId
      BY <3>2, <3>3 DEF Seen, Places
    <3> QED
      BY <3>1, <3>2, <3>4 DEF Visible
  <2>15. UniqueKeys'
    <3>1. \A k \in Id : status'[k] = "absent" <=> status[k] = "absent"
      BY <1>4, <2>1 DEF RecordSuccess, RecordFailure, Visible
    <3>2. key' = key
      BY <1>4 DEF RecordSuccess, RecordFailure
    <3> QED
      BY <3>1, <3>2 DEF UniqueKeys
  <2>16. NoEffectYet'
    <3>1. /\ UNCHANGED <<runId, effects, jobs, faults>>
          /\ runPc' = [runPc EXCEPT ![r] = "returned"]
      BY <1>4 DEF RecordSuccess, RecordFailure
    <3> QED
      BY <3>1 DEF NoEffectYet
  <2>17. EffectOfCommittedTurn'
    BY <1>4, <2>1 DEF RecordSuccess, RecordFailure, EffectOfCommittedTurn, Visible
  <2> QED
    BY <2>11, <2>12, <2>13, <2>14, <2>15, <2>16, <2>17
<1>5. CASE FinishJob(r)
  <2>11. TypeOK'
    BY <1>5 DEF FinishJob, ActionStatus
  <2>12. Fresh'
    BY <1>5 DEF FinishJob, Fresh, Visible
  <2>13. Places'
    BY <1>5 DEF FinishJob, Places
  <2>14. Seen'
    BY <1>5 DEF FinishJob, Seen, Visible
  <2>15. UniqueKeys'
    BY <1>5 DEF FinishJob, UniqueKeys, Visible
  <2>16. NoEffectYet'
    BY <1>5 DEF FinishJob, NoEffectYet, Places
  <2>17. EffectOfCommittedTurn'
    BY <1>5 DEF FinishJob, EffectOfCommittedTurn, Visible
  <2> QED
    BY <2>11, <2>12, <2>13, <2>14, <2>15, <2>16, <2>17
<1>6. CASE Crash(r)
  <2>1. runId[r] \in Id
    BY <1>6 DEF Crash, Places
  <2>11. TypeOK'
    <3>1. status' \in [Id -> ActionStatus \cup {"absent"}] /\ jobs' \subseteq Id
      BY <1>6, <2>1 DEF Crash, Inject, ActionStatus
    <3>2. /\ runPc' \in [Runner -> {"idle", "mark", "call", "raised", "done", "returned"}]
         /\ runId' \in [Runner -> Id \cup {NoId}]
      BY <1>6, <2>1 DEF Crash, Inject
    <3>3. /\ attempts' \in [Id -> Nat] /\ tries' \in [Id -> Nat] /\ effects' \in [Id -> Nat]
         /\ faults' \in Nat
      BY <1>6, <2>1 DEF Crash, Inject
    <3>4. UNCHANGED <<turnPc, todo, key, tx, nextId, turns>>
      BY <1>6, <2>1 DEF Crash, Inject
    <3> QED
      BY <3>1, <3>2, <3>3, <3>4
  <2>12. Fresh'
    BY <1>6 DEF Crash, Inject, Fresh, Visible
  <2>13. Places'
    BY <1>6 DEF Crash, Inject, Places
  <2>14. Seen'
    BY <1>6 DEF Crash, Inject, Seen, Visible
  <2>15. UniqueKeys'
    BY <1>6 DEF Crash, Inject, UniqueKeys, Visible
  <2>16. NoEffectYet'
    BY <1>6 DEF Crash, Inject, NoEffectYet, Places
  <2>17. EffectOfCommittedTurn'
    BY <1>6 DEF Crash, Inject, EffectOfCommittedTurn, Visible
  <2> QED
    BY <2>11, <2>12, <2>13, <2>14, <2>15, <2>16, <2>17
<1> QED
  BY <1>1, <1>2, <1>3, <1>4, <1>5, <1>6 DEF RunStep

\* The invariant holds in every reachable state.
LEMMA ActInvariant == Spec => []ActInv
<1>1. ActInv /\ UNCHANGED vars => ActInv'
  BY DEF ActInv, TypeOK, Fresh, Places, Seen, Visible, UniqueKeys, NoEffectYet,
         EffectOfCommittedTurn, vars, turn, run
<1>2. ActInv /\ [Next]_vars => ActInv'
  BY <1>1, TurnActStep, RunActStep DEF Next
<1> QED
  BY ActInvInit, <1>2, PTL DEF Spec

\* Every reachable state is well typed.
THEOREM ActionTypes == Spec => []TypeOK
<1>1. ActInv => TypeOK
  BY DEF ActInv
<1> QED
  BY ActInvariant, <1>1, PTL

\* No action takes effect for a turn that rolled back or is still open.
THEOREM EffectsCommitted == Spec => []EffectOfCommittedTurn
<1>1. ActInv => EffectOfCommittedTurn
  BY DEF ActInv
<1> QED
  BY ActInvariant, <1>1, PTL

\* While nothing fails, a collected value has its effect at most once.
THEOREM EffectsOnce == Spec => []EffectOnce
<1>1. ActInv => EffectOnce
  BY DEF ActInv, TypeOK, UniqueKeys, NoEffectYet, EffectOfCommittedTurn, EffectOnce
<1> QED
  BY ActInvariant, <1>1, PTL
=============================================================================
