--------------------------- MODULE ActionExecution ---------------------------
(***************************************************************************)
(* The external actions of one Talk: run_turn dispatches a row and an arq  *)
(* job for every on_collected entry whose field the model collected        *)
(* (flowengine/actions/dispatcher.py, called by apply_decision), inside    *)
(* the turn's transaction; the job execute_action marks the row, calls the *)
(* adapter and marks the row again, in three transactions of its own       *)
(* (worker/jobs/execute_action.py).                                        *)
(*                                                                         *)
(* The rows of one turn become visible together, when it commits; the jobs *)
(* are in Redis from the moment they are enqueued.  arq runs a job again   *)
(* when its worker died, not when it raised, and at most max_tries times.  *)
(***************************************************************************)
EXTENDS Naturals, FiniteSets

CONSTANTS
  Entry,         \* the on_collected entries of the TreeFlow's nodes
  FieldOf,       \* the field each of them names
  Value,         \* values a field may take
  Runner,        \* the worker's coroutines
  NoId,
  MaxIds,        \* bound on the rows ever inserted
  MAX_ATTEMPTS,  \* of execute_action
  MaxTries,      \* max_tries of the worker
  MaxTurns,      \* bound on the turns of the Talk
  MaxFaults      \* bound on the number of injected faults

Id == 1..MaxIds
Field == {FieldOf[e] : e \in Entry}

ASSUME EntryAssumption == DOMAIN FieldOf = Entry
ASSUME ActionBounds ==
  /\ {MaxIds, MaxTurns, MaxFaults} \subseteq Nat
  /\ {MAX_ATTEMPTS, MaxTries} \subseteq Nat \ {0}
ASSUME NoIdAssumption == NoId \notin Id

VARIABLES
  turnPc,    \* the turn: "idle" or dispatching
  todo,      \* the entries the dispatcher has not looked at yet, with their value
  status,    \* action_executions.status; "absent": no such row
  key,       \* the row's (field, value_hash)
  attempts,  \* action_executions.attempts
  tx,        \* rows of the turn that is not committed
  jobs,      \* ids with a job in Redis that no coroutine runs
  tries,     \* how often arq started the job of each id
  runPc,     \* where each coroutine is
  runId,     \* the id its job was given
  effects,   \* history: calls of the adapter that took effect, per row
  nextId, turns, faults

turn == <<turnPc, todo, tx, key, nextId, turns>>
run == <<runPc, runId, tries, attempts, effects>>
vars == <<turn, run, status, jobs, faults>>

ActionStatus == {"pending", "executing", "success", "failed"}

TypeOK ==
  /\ turnPc \in {"idle", "dispatch"}
  /\ todo \subseteq Entry \X Value
  /\ status \in [Id -> ActionStatus \cup {"absent"}]
  /\ key \in [Id -> (Field \X Value) \cup {<<>>}]
  /\ attempts \in [Id -> Nat]
  /\ tx \subseteq Id /\ jobs \subseteq Id
  /\ tries \in [Id -> Nat]
  /\ runPc \in [Runner -> {"idle", "mark", "call", "raised", "done", "returned"}]
  /\ runId \in [Runner -> Id \cup {NoId}]
  /\ effects \in [Id -> Nat]
  /\ {nextId, turns, faults} \subseteq Nat

Init ==
  /\ turnPc = "idle" /\ todo = {}
  /\ status = [i \in Id |-> "absent"]
  /\ key = [i \in Id |-> <<>>]
  /\ attempts = [i \in Id |-> 0]
  /\ tx = {} /\ jobs = {}
  /\ tries = [i \in Id |-> 0]
  /\ runPc = [r \in Runner |-> "idle"]
  /\ runId = [r \in Runner |-> NoId]
  /\ effects = [i \in Id |-> 0]
  /\ nextId = 1 /\ turns = 0 /\ faults = 0

Inject == faults < MaxFaults /\ faults' = faults + 1

-----------------------------------------------------------------------------
(* The turn *)

\* The decision collects some fields; every node's entries for them are due.
Collect ==
  /\ turnPc = "idle" /\ turns < MaxTurns
  /\ \E F \in (SUBSET Field) \ {{}} : \E collected \in [F -> Value] :
       todo' = {<<e, collected[FieldOf[e]]>> : e \in {x \in Entry : FieldOf[x] \in F}}
  /\ turnPc' = "dispatch"
  /\ turns' = turns + 1
  /\ UNCHANGED <<tx, key, nextId, run, status, jobs, faults>>

\* The rows the turn's own INSERT conflicts with: all but those rolled back.
Taken == {key[i] : i \in {j \in Id : status[j] # "absent"}}

Skip(due) ==
  /\ todo' = todo \ {due}
  /\ UNCHANGED <<turnPc, key, tx, nextId, turns, run, status, jobs, faults>>

\* insert_pending, then the enqueue: the job is in Redis before the commit.
Insert(due) ==
  /\ nextId \in Id
  /\ todo' = todo \ {due}
  /\ key' = [key EXCEPT ![nextId] = <<FieldOf[due[1]], due[2]>>]
  /\ status' = [status EXCEPT ![nextId] = "pending"]
  /\ tx' = tx \cup {nextId}
  /\ jobs' = jobs \cup {nextId}
  /\ nextId' = nextId + 1
  /\ UNCHANGED <<turnPc, turns, run, faults>>

\* Mutant: a plain INSERT, without the dedup constraint.
DispatchPlain(due) == due \in todo /\ Insert(due)

\* A template that does not render skips its entry, and so does a conflict.
Dispatch(due) ==
  /\ due \in todo
  /\ \/ Skip(due)
     \/ <<FieldOf[due[1]], due[2]>> \notin Taken /\ Insert(due)

\* The turn's transaction commits, after the reply was sent.
CommitTurn ==
  /\ turnPc = "dispatch" /\ todo = {}
  /\ turnPc' = "idle"
  /\ tx' = {}
  /\ UNCHANGED <<todo, key, nextId, turns, run, status, jobs, faults>>

\* The adapter, a later dispatch or the commit raises, or the worker dies: the rows
\* go, their jobs stay.
RollBackTurn ==
  /\ turnPc = "dispatch" /\ Inject
  /\ turnPc' = "idle" /\ todo' = {} /\ tx' = {}
  /\ status' = [i \in Id |-> IF i \in tx THEN "absent" ELSE status[i]]
  /\ UNCHANGED <<key, nextId, turns, run, jobs>>

-----------------------------------------------------------------------------
(* execute_action, under arq *)

Goto(r, from, to) == runPc[r] = from /\ runPc' = [runPc EXCEPT ![r] = to]

\* arq starts the job, or gives it up after max_tries.
StartJob(r, i) ==
  /\ i \in jobs
  /\ jobs' = jobs \ {i}
  /\ IF tries[i] < MaxTries
     THEN /\ Goto(r, "idle", "mark")
          /\ runId' = [runId EXCEPT ![r] = i]
          /\ tries' = [tries EXCEPT ![i] = @ + 1]
     ELSE UNCHANGED <<runPc, runId, tries>>
  /\ UNCHANGED <<turn, attempts, effects, status, faults>>

Visible(i) == status[i] # "absent" /\ i \notin tx

\* Mutant: the row is looked for outside of the committed ones.
MarkExecutingDirty(r) ==
  LET i == runId[r] IN
  /\ Goto(r, "mark", "call")
  /\ status' = [status EXCEPT ![i] = "executing"]
  /\ attempts' = [attempts EXCEPT ![i] = @ + 1]
  /\ UNCHANGED <<turn, runId, tries, effects, jobs, faults>>

\* mark_executing and its commit, whatever the row's status was; a row it does not
\* see ends the job.
MarkExecuting(r) ==
  LET i == runId[r] IN
  /\ runPc[r] = "mark"
  /\ IF Visible(i)
     THEN /\ Goto(r, "mark", "call")
          /\ status' = [status EXCEPT ![i] = "executing"]
          /\ attempts' = [attempts EXCEPT ![i] = @ + 1]
     ELSE Goto(r, "mark", "returned") /\ UNCHANGED <<status, attempts>>
  /\ UNCHANGED <<turn, runId, tries, effects, jobs, faults>>

\* The adapter answers, or raises before or after it took effect.
CallAdapter(r) ==
  /\ \/ Goto(r, "call", "done") /\ UNCHANGED faults
     \/ Goto(r, "call", "raised") /\ Inject
  /\ \/ effects' = [effects EXCEPT ![runId[r]] = @ + 1]
     \/ runPc'[r] = "raised" /\ UNCHANGED effects
  /\ UNCHANGED <<turn, runId, tries, attempts, status, jobs>>

\* Mutant: the last commit is forgotten.
RecordNothing(r) ==
  /\ Goto(r, "done", "returned")
  /\ UNCHANGED <<turn, runId, tries, attempts, effects, status, jobs, faults>>

RecordSuccess(r) ==
  /\ Goto(r, "done", "returned")
  /\ status' = [status EXCEPT ![runId[r]] = "success"]
  /\ UNCHANGED <<turn, runId, tries, attempts, effects, jobs, faults>>

\* Mutant: the row gets a status that the table's check constraint does not know.
RecordFailureRetrying(r) ==
  /\ Goto(r, "raised", "returned")
  /\ status' = [status EXCEPT ![runId[r]] =
                  IF attempts[runId[r]] >= MAX_ATTEMPTS THEN "failed" ELSE "retrying"]
  /\ UNCHANGED <<turn, runId, tries, attempts, effects, jobs, faults>>

\* The last attempt fails the row; any other leaves it "executing" and raises, which
\* ends the job: arq does not retry an exception.
RecordFailure(r) ==
  /\ Goto(r, "raised", "returned")
  /\ status' = IF attempts[runId[r]] >= MAX_ATTEMPTS
               THEN [status EXCEPT ![runId[r]] = "failed"] ELSE status
  /\ UNCHANGED <<turn, runId, tries, attempts, effects, jobs, faults>>

\* arq forgets the job.
FinishJob(r) ==
  /\ Goto(r, "returned", "idle")
  /\ runId' = [runId EXCEPT ![r] = NoId]
  /\ UNCHANGED <<turn, tries, attempts, effects, status, jobs, faults>>

\* The worker dies under a job, up to arq's own record that it ended.
Crash(r) ==
  /\ runPc[r] # "idle" /\ Inject
  /\ runPc' = [runPc EXCEPT ![r] = "idle"]
  /\ runId' = [runId EXCEPT ![r] = NoId]
  /\ jobs' = jobs \cup {runId[r]}
  /\ UNCHANGED <<turn, tries, attempts, effects, status>>

-----------------------------------------------------------------------------
TurnStep == (\E due \in todo : Dispatch(due)) \/ CommitTurn

RunStep(r) ==
  \/ MarkExecuting(r) \/ CallAdapter(r) \/ RecordSuccess(r) \/ RecordFailure(r) \/ FinishJob(r)

Next ==
  \/ Collect \/ TurnStep \/ RollBackTurn
  \/ \E r \in Runner : (\E i \in Id : StartJob(r, i)) \/ RunStep(r) \/ Crash(r)

\* The turn ends, arq starts what waits and runs what it started.
Fairness ==
  /\ WF_vars(TurnStep)
  /\ \A r \in Runner : WF_vars(\E i \in Id : StartJob(r, i)) /\ WF_vars(RunStep(r))

Spec == Init /\ [][Next]_vars
FairSpec == Spec /\ Fairness
-----------------------------------------------------------------------------
(* Properties *)

\* While no call fails and nothing dies, a collected value has its external effect
\* at most once, over all turns and entries: the second entry on a field that
\* collected the same value is skipped, whatever its adapter.
EffectOnce ==
  faults = 0 =>
    \A k \in Field \X Value : \A i, j \in Id :
      key[i] = k /\ key[j] = k /\ effects[i] > 0 /\ effects[j] > 0 => i = j /\ effects[i] = 1

\* No action is executed for a turn that rolled back or is still open, although
\* its job is in Redis all along.
EffectOfCommittedTurn ==
  \A i \in Id : effects[i] > 0 => status[i] # "absent" /\ i \notin tx

\* A row never counts more attempts than arq started its job, and a row that failed
\* for good has used them all.
AttemptsCounted ==
  \A i \in Id : /\ attempts[i] <= tries[i] /\ tries[i] <= MaxTries
                /\ status[i] = "failed" => attempts[i] = MAX_ATTEMPTS

\* A row that a job marked as executing gets out of it, as long as no call fails and
\* no worker dies.
ExecutingEnds ==
  \A i \in Id : (status[i] = "executing") ~> (status[i] # "executing" \/ faults > 0)

\* Every action that was enqueued is executed if nothing fails ("the UNIQUE
\* constraint already guarantees exactly-once").
PendingExecutes ==
  \A i \in Id : (status[i] = "pending") ~> (status[i] # "pending")

\* A failed attempt is followed by another one, until the third ("exception
\* (attempts < 3) --> raise (arq retries)").
FailureRetried ==
  \A i \in Id : (\E r \in Runner : runPc[r] = "raised" /\ runId[r] = i)
                  ~> (status[i] \in {"success", "failed"})
=============================================================================
