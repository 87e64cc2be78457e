----------------------------- MODULE LeadInbox -----------------------------
(***************************************************************************)
(* The inbound path of one lead, architecture version 2: the webhook that  *)
(* stores the lead's messages, the arq jobs it enqueues and the worker     *)
(* coroutines that drain the queue (worker/jobs/inbound.py).               *)
(*                                                                         *)
(* Two advisory locks on the same key guard the lead.  process_lead_inbox  *)
(* takes a SESSION-level lock: it belongs to the Postgres connection that  *)
(* asked for it.  run_turn takes a TRANSACTION-level one.  A SQLAlchemy    *)
(* session gives its connection back to the engine's pool at every commit  *)
(* or rollback and takes the pool's oldest idle one at its next statement, *)
(* so the module keeps the pool: which connection a coroutine holds        *)
(* decides which locks it holds.                                           *)
(*                                                                         *)
(* A message is named by the rank of its received_at.  The text of a row   *)
(* is the set of messages whose words it carries.  What the language model *)
(* answers is a choice; the rules that constrain it are in TurnDecision.   *)
(***************************************************************************)
EXTENDS Naturals, Sequences, FiniteSets

CONSTANTS
  Msg,              \* the lead's messages, named by the rank of received_at
  Window,           \* WORKER_INBOUND_CONCAT_WINDOW_SECONDS, in ranks
  OptOut,           \* messages that match an opt-out keyword
  Audio,            \* audio messages: their words come from the transcriber
  Worker,           \* worker processes, each with an engine and its pool
  Slot,             \* job coroutines
  Guest,            \* coroutines of other leads and cron jobs: pool users only
  WorkerOf,         \* the process a coroutine runs in
  Conn,             \* Postgres connections
  NoConn,
  NoMsg,
  FirstStatus,      \* leads.status as the instance starts
  AfterRollback,    \* where a job goes on after the rollback of a failed send: see SendFails
  Faults,           \* the kinds of fault this instance injects
  MaxFaults         \* bound on the number of injected faults

Coroutine == Slot \cup Guest
FaultKind == {"llm", "unreachable", "messaging", "snapshot", "crash", "web_crash"}

ASSUME MsgAssumption == Msg \subseteq Nat /\ OptOut \cup Audio \subseteq Msg
ASSUME BoundAssumption == Window \in Nat /\ MaxFaults \in Nat
ASSUME PoolAssumption ==
  /\ WorkerOf \in [Coroutine -> Worker]
  /\ IsFiniteSet(Slot) /\ Slot \cap Guest = {}
  /\ NoConn \notin Conn
  /\ NoMsg \notin Msg
ASSUME FaultAssumption ==
  Faults \subseteq FaultKind /\ AfterRollback \subseteq {"unlock", "handle"}
ASSUME LeadAssumption == FirstStatus \subseteq {"pending_assignment", "active"}

VARIABLES
  status,      \* inbound_messages.status ("absent": no row yet)
  detail,      \* inbound_messages.error_detail
  text,        \* inbound_messages.text, as committed
  heard,       \* rows with a committed inbound_messages.transcription
  rowLock,     \* the coroutine whose transaction holds the row FOR UPDATE
  leadStatus,  \* leads.status
  toEnqueue,   \* requests that committed and have not enqueued their job yet
  jobs,        \* arq jobs of this lead waiting to run
  pc,          \* where each coroutine is
  conn,        \* the connection its SQLAlchemy session holds
  idle,        \* per process, the pool's idle connections, oldest first
  sess,        \* how often each connection holds the session-level lock
  xact,        \* the connection that holds the transaction-level lock
  head,        \* `msg` of the drain loop
  extras,      \* `extras`: the rows folded into the head
  body,        \* msg.text in memory, what run_turn reads
  orig,        \* `original_text`
  result,      \* outcome of run_turn, or the error being handled
  read,        \* history: messages whose words were in the text a turn read
  faults       \* faults injected so far

rows == <<status, detail, text, heard, rowLock>>
locks == <<conn, idle, sess, xact>>
turn == <<head, extras, body, orig, result>>
queue == <<leadStatus, toEnqueue, jobs>>
vars == <<rows, queue, pc, locks, turn, read, faults>>

RowStatus == {"absent", "queued", "processed", "error"}
Detail == {"none", "opt_out", "escalated", "skipped_human", "folded", "audio",
           "unreachable", "messaging", "skipped"}
Stage == {"idle", "lock", "load", "fetch", "window", "turn", "await", "llm",
          "send", "commit", "settle", "handle", "unlock", "close"}
Result == {"none", "sent", "escalated", "skipped_human", "opt_out", "unreachable", "messaging"}

TypeOK ==
  /\ status \in [Msg -> RowStatus]
  /\ detail \in [Msg -> Detail]
  /\ text \in [Msg -> SUBSET Msg]
  /\ heard \subseteq Audio
  /\ rowLock \in [Msg -> Slot \cup {NoConn}]
  /\ leadStatus \in {"pending_assignment", "active", "unreachable"}
  /\ toEnqueue \in Nat /\ jobs \in Nat /\ faults \in Nat
  /\ pc \in [Coroutine -> Stage]
  /\ conn \in [Coroutine -> Conn \cup {NoConn}]
  /\ idle \in [Worker -> Seq(Conn)]
  /\ sess \in [Conn -> Nat]
  /\ xact \in Conn \cup {NoConn}
  /\ head \in [Slot -> Msg \cup {NoMsg}]
  /\ extras \in [Slot -> SUBSET Msg]
  /\ body \in [Slot -> SUBSET Msg]
  /\ orig \in [Slot -> SUBSET Msg]
  /\ result \in [Slot -> Result]
  /\ read \subseteq Msg

Init ==
  /\ status = [m \in Msg |-> "absent"]
  /\ detail = [m \in Msg |-> "none"]
  /\ text = [m \in Msg |-> {}]
  /\ heard = {}
  /\ rowLock = [m \in Msg |-> NoConn]
  /\ leadStatus \in FirstStatus
  /\ toEnqueue = 0 /\ jobs = 0 /\ faults = 0
  /\ pc = [c \in Coroutine |-> "idle"]
  /\ conn = [c \in Coroutine |-> NoConn]
  /\ idle = [w \in Worker |-> <<>>]
  /\ sess = [c \in Conn |-> 0]
  /\ xact = NoConn
  /\ head = [s \in Slot |-> NoMsg]
  /\ extras = [s \in Slot |-> {}]
  /\ body = [s \in Slot |-> {}]
  /\ orig = [s \in Slot |-> {}]
  /\ result = [s \in Slot |-> "none"]
  /\ read = {}

-----------------------------------------------------------------------------
(* The parts actions are built from. *)

Queued == {m \in Msg : status[m] = "queued"}

Goto(s, from, to) == pc[s] = from /\ pc' = [pc EXCEPT ![s] = to]

Inject(kind) == kind \in Faults /\ faults < MaxFaults /\ faults' = faults + 1

\* A connection no pool has opened, or whose process died.
Unopened == {c \in Conn : /\ \A k \in Coroutine : conn[k] # c
                          /\ \A w \in Worker : \A i \in DOMAIN idle[w] : idle[w][i] # c}

\* The pool's FIFO checkout: its oldest idle connection, a new one if none is idle.
Checkout(k) ==
  LET w == WorkerOf[k] IN
  /\ conn[k] = NoConn
  /\ IF idle[w] # <<>>
     THEN /\ conn' = [conn EXCEPT ![k] = Head(idle[w])]
          /\ idle' = [idle EXCEPT ![w] = Tail(@)]
     ELSE /\ \E c \in Unopened : conn' = [conn EXCEPT ![k] = c]
          /\ UNCHANGED idle

\* The session's close gives the connection back to the pool.
GiveBack(k) ==
  /\ conn' = [conn EXCEPT ![k] = NoConn]
  /\ idle' = [idle EXCEPT ![WorkerOf[k]] = Append(@, conn[k])]

\* So does a commit or a rollback; the session's next statement checks one out
\* again, and no await stands between the two.
Recycle(k) ==
  LET w == WorkerOf[k] IN
  IF idle[w] = <<>> THEN UNCHANGED <<conn, idle>>
  ELSE /\ conn' = [conn EXCEPT ![k] = Head(idle[w])]
       /\ idle' = [idle EXCEPT ![w] = Append(Tail(@), conn[k])]

\* Postgres grants either advisory lock to a connection that already holds the key.
Grantable(c) == /\ \A d \in Conn \ {c} : sess[d] = 0
                /\ xact \in {NoConn, c}

FreeRows(s) == rowLock' = [m \in Msg |-> IF rowLock[m] = s THEN NoConn ELSE rowLock[m]]

RowsFreeFor(s, S) == \A m \in S : rowLock[m] \in {NoConn, s}

EndTurn(s) == xact' = IF xact = conn[s] THEN NoConn ELSE xact

-----------------------------------------------------------------------------
(* The API: webhook deliveries (the provider redelivers at will) and the   *)
(* operator's assignment of a new lead.  Both commit, then enqueue.        *)

Ingest(S) ==
  LET new == {m \in S : status[m] = "absent"} IN
  /\ status' = [m \in Msg |-> IF m \in new THEN "queued" ELSE status[m]]
  /\ text' = [m \in Msg |-> IF m \in new THEN {m} \ Audio ELSE text[m]]
  /\ toEnqueue' = IF new = {} THEN toEnqueue ELSE toEnqueue + 1
  /\ UNCHANGED <<detail, heard, rowLock, leadStatus, jobs, pc, locks, turn, read, faults>>

AssignLead ==
  /\ leadStatus = "pending_assignment"
  /\ leadStatus' = "active"
  /\ toEnqueue' = toEnqueue + 1
  /\ UNCHANGED <<rows, jobs, pc, locks, turn, read, faults>>

\* Mutant: the enqueue is not tied to a stored message.
EnqueueAlways ==
  /\ toEnqueue' = toEnqueue - 1
  /\ jobs' = jobs + 1
  /\ UNCHANGED <<rows, leadStatus, pc, locks, turn, read, faults>>

EnqueueJob ==
  /\ toEnqueue > 0
  /\ toEnqueue' = toEnqueue - 1
  /\ jobs' = jobs + 1
  /\ UNCHANGED <<rows, leadStatus, pc, locks, turn, read, faults>>

\* The API process dies, or Redis refuses, between the commit and the enqueue.
LoseEnqueue ==
  /\ toEnqueue > 0
  /\ Inject("web_crash")
  /\ toEnqueue' = toEnqueue - 1
  /\ UNCHANGED <<rows, leadStatus, jobs, pc, locks, turn, read>>

-----------------------------------------------------------------------------
(* process_lead_inbox *)

\* arq starts a job; its session's first statement takes a connection.
StartJob(s) ==
  /\ jobs > 0
  /\ Goto(s, "idle", "lock")
  /\ Checkout(s)
  /\ jobs' = jobs - 1
  /\ UNCHANGED <<rows, leadStatus, toEnqueue, sess, xact, turn, read, faults>>

\* pg_try_advisory_lock; on contention the job returns.
TryLock(s) ==
  /\ IF Grantable(conn[s])
     THEN /\ Goto(s, "lock", "load")
          /\ sess' = [sess EXCEPT ![conn[s]] = @ + 1]
     ELSE /\ Goto(s, "lock", "close")
          /\ UNCHANGED sess
  /\ UNCHANGED <<rows, queue, conn, idle, xact, turn, read, faults>>

\* A lead nobody assigned yet keeps its messages; an active one is drained.
LoadLead(s) ==
  /\ \/ leadStatus = "pending_assignment" /\ Goto(s, "load", "unlock") /\ Recycle(s)
     \/ leadStatus = "active" /\ Goto(s, "load", "fetch") /\ UNCHANGED <<conn, idle>>
  /\ UNCHANGED <<rows, queue, sess, xact, turn, read, faults>>

\* _mark_queued_as_skipped: the lead is unreachable, or the Talk's TreeFlow
\* snapshot is gone or no longer parses.
SkipQueued(s) ==
  /\ \/ leadStatus = "unreachable" /\ UNCHANGED faults
     \/ leadStatus = "active" /\ Inject("snapshot")
  /\ Goto(s, "load", "unlock")
  /\ RowsFreeFor(s, Queued)
  /\ status' = [m \in Msg |-> IF m \in Queued THEN "error" ELSE status[m]]
  /\ detail' = [m \in Msg |-> IF m \in Queued THEN "skipped" ELSE detail[m]]
  /\ Recycle(s)
  /\ UNCHANGED <<text, heard, rowLock, queue, sess, xact, turn, read>>

\* The finally block: every exit has rolled back or committed, and unlocks on
\* whatever connection it then gets; unlocking a key that connection does not
\* hold only warns.
Unlock(s) ==
  /\ Goto(s, "unlock", "close")
  /\ sess' = [sess EXCEPT ![conn[s]] = IF @ = 0 THEN 0 ELSE @ - 1]
  /\ UNCHANGED <<rows, queue, conn, idle, xact, turn, read, faults>>

CloseSession(s) ==
  /\ Goto(s, "close", "idle")
  /\ GiveBack(s)
  /\ head' = [head EXCEPT ![s] = NoMsg]
  /\ extras' = [extras EXCEPT ![s] = {}]
  /\ body' = [body EXCEPT ![s] = {}]
  /\ orig' = [orig EXCEPT ![s] = {}]
  /\ result' = [result EXCEPT ![s] = "none"]
  /\ UNCHANGED <<rows, queue, sess, xact, read, faults>>

-----------------------------------------------------------------------------
(* _run_v2_inbox: the drain loop *)

\* The flush of msg.text: the head's row takes the text in memory, if that differs
\* from what the session loaded.
FlushText(s) ==
  text' = IF body[s] = orig[s] THEN text ELSE [text EXCEPT ![head[s]] = body[s]]

FetchNext(s) ==
  /\ \/ /\ Queued = {}
        /\ Goto(s, "fetch", "unlock")
        /\ Recycle(s)
        /\ UNCHANGED <<head, body, orig>>
     \/ \E h \in Queued :
        /\ \A m \in Queued : h <= m
        /\ Goto(s, "fetch", "window")
        /\ head' = [head EXCEPT ![s] = h]
        /\ body' = [body EXCEPT ![s] = text[h]]
        /\ orig' = [orig EXCEPT ![s] = text[h]]
        /\ UNCHANGED <<conn, idle>>
  /\ UNCHANGED <<rows, queue, sess, xact, extras, result, read, faults>>

\* SELECT ... FOR UPDATE of the burst, then the in-memory consolidation.
Companions(h) == {m \in Queued : h <= m /\ m <= h + Window}

\* A row's words: its text or, if it has none, its transcription.
Words(m) == IF text[m] # {} THEN text[m] ELSE {m} \cap heard

\* Mutant: the companions are marked, their words are not joined to the head's.
HeadTextOnly(s, burst) == body[s]

Consolidated(s, burst) ==
  IF burst \subseteq {head[s]} THEN body[s] ELSE UNION {Words(m) : m \in burst}

LockWindow(s) ==
  LET burst == Companions(head[s]) IN
  /\ Goto(s, "window", "turn")
  /\ RowsFreeFor(s, burst)
  /\ rowLock' = [m \in Msg |-> IF m \in burst THEN s ELSE rowLock[m]]
  /\ extras' = [extras EXCEPT ![s] = burst \ {head[s]}]
  /\ body' = [body EXCEPT ![s] = Consolidated(s, burst)]
  /\ UNCHANGED <<status, detail, text, heard, queue, locks, head, orig, result, read, faults>>

\* An audio head the transcriber gives up on (it may still have stored what it
\* heard) is settled alone, in the same transaction; its companions stay queued.
RejectAudio(s) ==
  /\ head[s] \in Audio
  /\ Goto(s, "turn", "fetch")
  /\ RowsFreeFor(s, {head[s]})
  /\ status' = [status EXCEPT ![head[s]] = "processed"]
  /\ detail' = [detail EXCEPT ![head[s]] = "audio"]
  /\ FlushText(s)
  /\ heard' \in {heard, heard \cup {head[s]}}
  /\ FreeRows(s) /\ Recycle(s)
  /\ UNCHANGED <<queue, sess, xact, turn, read, faults>>

\* What run_turn reads: the in-memory text or, if it is empty, the head's fresh
\* transcription.
Inbound(s) == IF body[s] # {} THEN body[s] ELSE {head[s]} \cap Audio

\* resolve_pipeline_context: one opt-out word anywhere in the burst ends the
\* turn; otherwise the session commits before the turn's own transaction, and
\* with it the consolidated text.
Preprocess(s) ==
  /\ read' = read \cup Inbound(s)
  /\ IF Inbound(s) \cap OptOut # {}
     THEN /\ Goto(s, "turn", "settle")
          /\ result' = [result EXCEPT ![s] = "opt_out"]
          /\ UNCHANGED <<text, heard, rowLock, conn, idle>>
     ELSE /\ Goto(s, "turn", "await")
          /\ RowsFreeFor(s, {head[s]})
          /\ FlushText(s)
          /\ heard' = heard \cup ({head[s]} \cap Audio)
          /\ FreeRows(s) /\ Recycle(s)
          /\ UNCHANGED result
  /\ UNCHANGED <<status, detail, queue, sess, xact, head, extras, body, orig, faults>>

\* Mutant: the turn does not wait for the lock.
TurnWithoutLock(s) ==
  /\ Goto(s, "await", "llm")
  /\ xact' = conn[s]
  /\ UNCHANGED <<rows, queue, conn, idle, sess, turn, read, faults>>

\* pg_advisory_xact_lock
AcquireTurnLock(s) ==
  /\ Grantable(conn[s])
  /\ Goto(s, "await", "llm")
  /\ xact' = conn[s]
  /\ UNCHANGED <<rows, queue, conn, idle, sess, turn, read, faults>>

\* Mutant: jobs without a timeout.
WaitForEver(s) == FALSE

\* arq cancels a job that waits longer than job_timeout.
Timeout(s) ==
  /\ ~Grantable(conn[s])
  /\ Goto(s, "await", "unlock")
  /\ Recycle(s)
  /\ UNCHANGED <<rows, queue, sess, xact, turn, read, faults>>

\* The HITL gate, or the model's decision and the guardrails' verdict on it.
Decide(s) ==
  /\ \/ Goto(s, "llm", "commit") /\ result' = [result EXCEPT ![s] = "skipped_human"]
     \/ \E r \in {"sent", "escalated"} :
          Goto(s, "llm", "send") /\ result' = [result EXCEPT ![s] = r]
  /\ UNCHANGED <<rows, queue, locks, head, extras, body, orig, read, faults>>

\* An exception nobody catches (the transcriber's or the model's API is down):
\* the job ends and arq, which re-runs only on Retry and cancellation, drops it.
Fail(s) ==
  /\ Inject("llm")
  /\ Goto(s, "turn", "unlock") \/ Goto(s, "llm", "unlock")
  /\ FreeRows(s) /\ EndTurn(s) /\ Recycle(s)
  /\ UNCHANGED <<status, detail, text, heard, queue, sess, turn, read>>

SendReply(s) ==
  /\ Goto(s, "send", "commit")
  /\ UNCHANGED <<rows, queue, locks, turn, read, faults>>

\* The adapter raises.  The rollback expires every instance of the session, so
\* the handler's read of lead.id needs a refresh outside the greenlet and raises
\* MissingGreenlet: it goes to the finally block.  A session whose instances
\* stayed readable would reach the handler's commit.
SendFails(s) ==
  /\ \E e \in {"unreachable", "messaging"} :
       Inject(e) /\ result' = [result EXCEPT ![s] = e]
  /\ \E stage \in AfterRollback : Goto(s, "send", stage)
  /\ EndTurn(s) /\ Recycle(s)
  /\ UNCHANGED <<rows, queue, sess, head, extras, body, orig, read>>

\* The except clauses: the head keeps the error and its own words back; its
\* companions stay queued and the drain ends.
HandleError(s) ==
  /\ Goto(s, "handle", "unlock")
  /\ RowsFreeFor(s, {head[s]})
  /\ text' = IF body[s] = orig[s] THEN text ELSE [text EXCEPT ![head[s]] = orig[s]]
  /\ status' = [status EXCEPT ![head[s]] = "error"]
  /\ detail' = [detail EXCEPT ![head[s]] = result[s]]
  /\ leadStatus' = IF result[s] = "unreachable" THEN "unreachable" ELSE leadStatus
  /\ Recycle(s)
  /\ UNCHANGED <<heard, rowLock, toEnqueue, jobs, sess, xact, turn, read, faults>>

CommitTurn(s) ==
  /\ Goto(s, "commit", "settle")
  /\ EndTurn(s) /\ Recycle(s)
  /\ UNCHANGED <<rows, queue, sess, turn, read, faults>>

\* The head takes the outcome, its companions are marked folded, commit.
SettleRows(s, settled) ==
  LET outcome(m) == IF m # head[s] THEN "folded"
                    ELSE IF result[s] = "sent" THEN "none" ELSE result[s]
  IN
  /\ Goto(s, "settle", "fetch")
  /\ RowsFreeFor(s, settled)
  /\ status' = [m \in Msg |->
        IF m \notin settled THEN status[m]
        ELSE IF m = head[s] /\ result[s] = "skipped_human" THEN "error" ELSE "processed"]
  /\ detail' = [m \in Msg |-> IF m \in settled THEN outcome(m) ELSE detail[m]]
  /\ IF result[s] = "opt_out" THEN FlushText(s) ELSE UNCHANGED text
  /\ heard' = heard \cup ({head[s]} \cap Audio)
  /\ FreeRows(s) /\ Recycle(s)
  /\ result' = [result EXCEPT ![s] = "none"]
  /\ UNCHANGED <<queue, sess, xact, head, extras, body, orig, read, faults>>

\* Mutant: the whole queue is settled.
SettleWholeQueue(s) == SettleRows(s, Queued)

Settle(s) == SettleRows(s, extras[s] \cup {head[s]})

-----------------------------------------------------------------------------
(* Other users of the pool, and the death of a worker process. *)

GuestBegins(g) ==
  /\ Checkout(g)
  /\ UNCHANGED <<rows, queue, pc, sess, xact, turn, read, faults>>

GuestEnds(g) ==
  /\ conn[g] # NoConn
  /\ GiveBack(g)
  /\ UNCHANGED <<rows, queue, pc, sess, xact, turn, read, faults>>

\* Its connections close: Postgres rolls back and drops their locks.  arq hands
\* the jobs it was running to a worker again.
Crash(w) ==
  LET dead == {k \in Coroutine : WorkerOf[k] = w}
      closed == {conn[k] : k \in dead} \cup {idle[w][i] : i \in DOMAIN idle[w]}
      reset(f, v) == [s \in Slot |-> IF s \in dead THEN v ELSE f[s]]
  IN
  /\ Inject("crash")
  /\ pc' = [k \in Coroutine |-> IF k \in dead THEN "idle" ELSE pc[k]]
  /\ conn' = [k \in Coroutine |-> IF k \in dead THEN NoConn ELSE conn[k]]
  /\ idle' = [idle EXCEPT ![w] = <<>>]
  /\ sess' = [c \in Conn |-> IF c \in closed THEN 0 ELSE sess[c]]
  /\ xact' = IF xact \in closed THEN NoConn ELSE xact
  /\ rowLock' = [m \in Msg |-> IF rowLock[m] \in dead THEN NoConn ELSE rowLock[m]]
  /\ jobs' = jobs + Cardinality({s \in Slot \cap dead : pc[s] # "idle"})
  /\ head' = reset(head, NoMsg) /\ result' = reset(result, "none")
  /\ extras' = reset(extras, {}) /\ body' = reset(body, {}) /\ orig' = reset(orig, {})
  /\ UNCHANGED <<status, detail, text, heard, leadStatus, toEnqueue, read>>

-----------------------------------------------------------------------------
JobStep(s) ==
  \/ TryLock(s) \/ LoadLead(s) \/ SkipQueued(s) \/ Unlock(s) \/ CloseSession(s)
  \/ FetchNext(s) \/ LockWindow(s) \/ RejectAudio(s) \/ Preprocess(s)
  \/ AcquireTurnLock(s) \/ Timeout(s) \/ Decide(s) \/ Fail(s)
  \/ SendReply(s) \/ SendFails(s) \/ HandleError(s) \/ CommitTurn(s) \/ Settle(s)

Next ==
  \/ \E S \in (SUBSET Msg) \ {{}} : Ingest(S)
  \/ AssignLead \/ EnqueueJob \/ LoseEnqueue
  \/ \E s \in Slot : StartJob(s) \/ JobStep(s)
  \/ \E g \in Guest : GuestBegins(g) \/ GuestEnds(g)
  \/ \E w \in Worker : Crash(w)

\* arq picks up waiting jobs and runs every coroutine it started; the API gets to
\* its enqueue; other coroutines give their connections back.
Fairness ==
  /\ WF_vars(EnqueueJob)
  /\ \A s \in Slot : WF_vars(StartJob(s)) /\ WF_vars(JobStep(s))
  /\ \A g \in Guest : WF_vars(GuestEnds(g))

Spec == Init /\ [][Next]_vars
FairSpec == Spec /\ Fairness
-----------------------------------------------------------------------------
(* Properties *)

InTurn(s) == pc[s] \in {"llm", "send", "commit"}

Draining(s) == pc[s] \in Stage \ {"idle", "lock", "unlock", "close"}

\* Two turns of one lead never overlap, whichever connections the pool hands
\* out: run_turn's transaction-level lock ("two concurrent inbound jobs for the
\* same Lead serialize").
TurnMutex == \A s, t \in Slot : InTurn(s) /\ InTurn(t) => s = t

\* The same lead's queue is drained by one job at a time, as the docstring of
\* process_lead_inbox says of its session-level lock.  Refuted: the lock stays on
\* a connection that the session gave back, and a second job may be given it.
SerialDrain == \A s, t \in Slot : Draining(s) /\ Draining(t) => s = t

\* A row marked as folded into another message was read with it ("their content
\* was merged into the run_turn call that just executed"), whatever failed and
\* whichever jobs overlapped.  It is stated of texts: nobody transcribes an audio
\* companion.
FoldedWasRead == \A m \in Msg \ Audio : detail[m] = "folded" => m \in read

\* A job that met a RecipientUnreachable leaves the lead marked unreachable.
UnreachableRecorded ==
  [][\A s \in Slot : pc[s] = "close" /\ result[s] = "unreachable" /\ pc'[s] = "idle"
        => leadStatus = "unreachable"]_vars

\* Every job ends: no job waits for ever on a lock that a connection of its own
\* pool holds.
JobsEnd == \A s \in Slot : (pc[s] # "idle") ~> (pc[s] = "idle")

\* Every stored message of an assigned lead leaves the queue ("the first's loop
\* will pick up new messages on its next iteration").
MessagesServed ==
  \A m \in Msg : (status[m] = "queued" /\ leadStatus = "active") ~> (status[m] # "queued")

\* Each job's burst and reply, as InboxPromise names them.
WithEngine(s) == pc[s] \in {"turn", "await", "llm", "send", "commit", "settle", "handle"}

Promise == INSTANCE InboxPromise WITH
  Job <- Slot,
  burst <- [s \in Slot |-> IF WithEngine(s) THEN extras[s] \cup {head[s]} ELSE {}],
  replied <- {s \in Slot : /\ pc[s] \in {"commit", "settle"}
                           /\ result[s] \in {"sent", "escalated"}}

\* The inbound path implements its promise.
KeepsPromise == Promise!Spec
=============================================================================
