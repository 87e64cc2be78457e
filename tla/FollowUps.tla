------------------------------ MODULE FollowUps ------------------------------
(***************************************************************************)
(* Follow-ups of a tenant of architecture 1: the inbox job that answers a  *)
(* lead and schedules the first one (worker/jobs/inbound.py after the v2   *)
(* branch), the cron job that fires what is due                            *)
(* (worker/jobs/follow_up_scanner.py), the helpers of follow_up/, and the  *)
(* operator who cancels (cli/follow_ups.py).                               *)
(*                                                                         *)
(* One lead, assigned.  Runs of the cron job may overlap.  Both jobs take  *)
(* the advisory lock of the lead with the connection their session has     *)
(* then, and every commit or rollback gives that connection back to the    *)
(* pool: the unlock may reach another one, and the lock stays.  The inbox  *)
(* jobs of the lead do not overlap here; what happens when they do is      *)
(* LeadInbox's subject.                                                    *)
(***************************************************************************)
EXTENDS WhatsAppCloud, SequencesExt

CONSTANTS
  Config,       \* FollowUpConfigs, with what their tenant has configured
  Run,          \* overlapping runs of the cron job
  SendResult,   \* what a call of the adapter may come to
  MaxMsgs,      \* bound on the messages of the lead
  MaxJobs,      \* bound on the rows of follow_up_jobs
  MaxTime,      \* bound on the clock
  MaxHolds,     \* bound on how often one connection takes the lock
  MaxFaults     \* bound on crashes, exceptions and doubtful answers

ASSUME SendAssumption == SendResult \subseteq Outcomes

\* FollowUpConfig, its bounds and _check_sequence_length.
ASSUME ConfigAssumption ==
  \A c \in Config :
    /\ c \in [enabled : BOOLEAN, max : 1..10, after : Seq(Nat), plain : BOOLEAN, reengage : BOOLEAN]
    /\ c.enabled => Len(c.after) >= c.max

ASSUME BoundAssumption ==
  {MaxMsgs, MaxJobs, MaxTime, MaxFaults} \subseteq Nat /\ MaxHolds \in Nat \ {0}

\* The CHECK constraints on the status columns.
JobStatus == {"pending", "completed", "cancelled", "error"}
FlowStatus == {"active", "cold", "completed"}

\* Where the lock is when it is not with a run.
ASSUME LockAssumption == {"free", "idle", "inbox"} \cap Run = {}

VARIABLES
  config,      \* the pinned version's: [enabled, max, after, plain, reengage]
  now,
  msgs,        \* inbound_messages: [at, status], in the order of received_at
  wakes,       \* process_lead_inbox jobs that wait in Redis
  lead,        \* leads.status
  flow,        \* the talkflow: [status, attempt, lastLead]
  jobs,        \* follow_up_jobs: [attempt, at, status, drain]
  lock,        \* the lead's advisory lock: [at, holds], the job whose session
               \*   has the connection that holds it, and how many times it does
  inbox,       \* the inbox job: [pc, msg], and what its transaction has not
  tx,          \*   committed: [cancel, completed]
  scan,        \* per run: [pc, batch]
  audit,       \* outbound_messages: per job, the rows with status sent
  copies,      \* history: per job, the templates that reached the lead
  answered,    \* history: drains that have committed something
  faults

rows == <<msgs, lead, flow, jobs, audit>>
history == <<copies, answered>>
vars == <<config, now, wakes, rows, lock, inbox, tx, scan, history, faults>>

Clean == [cancel |-> FALSE, completed |-> FALSE]

Pending(j) == jobs[j].status = "pending"

-----------------------------------------------------------------------------
(* The advisory lock *)

Contended == lock.at # "free"

\* pg_try_advisory_lock by x: on a free lock, or with the idle connection that
\* has it already.
TryLock(x) ==
  /\ lock.at \in {"free", "idle"} /\ lock.holds < MaxHolds
  /\ lock' = [at |-> x, holds |-> lock.holds + 1]

\* A commit of x: its connection goes to the pool, and what it gets next is that
\* one again or another idle one.
Recycle(x) ==
  \E at \in (IF lock.at \in {x, "idle"} THEN {x, "idle"} ELSE {lock.at}) :
    lock' = [lock EXCEPT !.at = at]

\* The commit or rollback that ends the body of a job, and pg_advisory_unlock in
\* its finally clause: with another connection than the lock's it does nothing,
\* and nobody looks at what it returns.
Unlock(x) ==
  \/ /\ lock.at \in {x, "idle"}
     /\ lock' = [at |-> IF lock.holds = 1 THEN "free" ELSE "idle", holds |-> lock.holds - 1]
  \/ lock' = [lock EXCEPT !.at = IF @ = x THEN "idle" ELSE @]

\* A job that takes the lock and comes to its finally clause at once.
LockBriefly ==
  /\ lock.at \in {"free", "idle"}
  /\ \/ UNCHANGED lock
     \/ lock.holds < MaxHolds /\ lock' = [at |-> "idle", holds |-> lock.holds + 1]

-----------------------------------------------------------------------------
Tick ==
  /\ now < MaxTime /\ now' = now + 1
  /\ UNCHANGED <<config, wakes, rows, lock, inbox, tx, scan, history, faults>>

\* The webhook stores the message and enqueues a job.
Ingest ==
  /\ Len(msgs) < MaxMsgs
  /\ msgs' = Append(msgs, [at |-> now, status |-> "queued"])
  /\ wakes' = wakes + 1
  /\ UNCHANGED <<config, now, lead, flow, jobs, audit, lock, inbox, tx, scan, history, faults>>

-----------------------------------------------------------------------------
(* Helpers of follow_up/scheduler.py *)

\* Mutant: only what is due is cancelled.
CancelDue(all) ==
  [j \in DOMAIN all |-> IF all[j].status = "pending" /\ all[j].at <= now
                        THEN [all[j] EXCEPT !.status = "cancelled"] ELSE all[j]]

\* cancel_pending_for_lead, and the UPDATEs like it.
CancelPending(all) ==
  [j \in DOMAIN all |-> IF all[j].status = "pending"
                        THEN [all[j] EXCEPT !.status = "cancelled"] ELSE all[j]]

\* schedule_next_followup: now() + parse_duration(sequence[n - 1].after).
ScheduleNext(all, n, d) ==
  Append(all, [attempt |-> n, at |-> now + config.after[n], status |-> "pending", drain |-> d])

\* Mutants: cold one attempt early, or late.
MarkColdEarly(n) == n + 1 >= config.max
MarkColdLate(n) == n > config.max

\* mark_cold_if_exhausted
MarkCold(n) == n >= config.max

-----------------------------------------------------------------------------
(* process_lead_inbox *)

NextQueued == {i \in DOMAIN msgs : msgs[i].status = "queued"}

\* The job ends, and its transaction with it.
EndInbox == inbox' = [pc |-> "idle", msg |-> 0] /\ tx' = Clean /\ Unlock("inbox")

\* What the drain's transaction leaves in the rows when it commits; of the
\* talkflow only the columns it has set.
CommittedJobs == IF tx.cancel THEN CancelPending(jobs) ELSE jobs
Answered == IF tx.cancel THEN answered + 1 ELSE answered
CommittedFlow ==
  [flow EXCEPT !.attempt = IF tx.cancel THEN 0 ELSE @,
               !.status = IF tx.completed THEN "completed"
                          ELSE IF tx.cancel /\ @ = "cold" THEN "active" ELSE @]

\* A lead that answers: pending follow-ups are cancelled, the counter starts
\* over, a cold talkflow is active again; none of it is committed yet.
StartInbox ==
  /\ wakes > 0 /\ wakes' = wakes - 1
  /\ \/ Contended /\ UNCHANGED <<msgs, lock, inbox, tx>>
     \/ /\ inbox.pc = "idle" /\ lead = "unreachable" /\ LockBriefly
        /\ msgs' = [i \in DOMAIN msgs |->
                      IF i \in NextQueued THEN [msgs[i] EXCEPT !.status = "skipped"] ELSE msgs[i]]
        /\ UNCHANGED <<inbox, tx>>
     \/ /\ inbox.pc = "idle" /\ lead # "unreachable" /\ TryLock("inbox")
        /\ inbox' = [pc |-> "fetch", msg |-> 0] /\ tx' = [Clean EXCEPT !.cancel = TRUE]
        /\ UNCHANGED msgs
  /\ UNCHANGED <<config, now, lead, flow, jobs, audit, scan, copies, answered, faults>>

FetchNextQueued ==
  /\ inbox.pc = "fetch"
  /\ IF NextQueued = {} THEN EndInbox
     ELSE inbox' = [pc |-> "step", msg |-> Min(NextQueued)] /\ UNCHANGED <<tx, lock>>
  /\ UNCHANGED <<config, now, wakes, rows, scan, history, faults>>

\* runtime.step, which may complete the talkflow.
Step ==
  /\ inbox.pc = "step"
  /\ inbox' = [inbox EXCEPT !.pc = "send"]
  /\ \E completed \in BOOLEAN :
       tx' = [tx EXCEPT !.completed = @ \/ completed]
  /\ UNCHANGED <<config, now, wakes, rows, lock, scan, history, faults>>

\* The model, the checkpointer or the commit fails; the message stays queued
\* and no job is enqueued for it.  sent: the reply is out already.
InboxRaises ==
  /\ inbox.pc \in {"step", "send"}
  /\ faults < MaxFaults /\ faults' = faults + 1
  /\ EndInbox
  /\ UNCHANGED <<config, now, wakes, rows, scan, history>>

Note(o) == faults' = faults + (IF o.doubt THEN 1 ELSE 0) /\ faults' <= MaxFaults

Commit(status, newJobs, newFlow) ==
  /\ msgs' = [msgs EXCEPT ![inbox.msg].status = status]
  /\ jobs' = newJobs /\ flow' = newFlow

\* The reply is sent: the message is processed and the first follow-up
\* scheduled, once for every message of the drain.
Replied ==
  LET schedule == config.enabled /\ config.after # <<>>
      all == CommittedJobs
  IN /\ inbox.pc = "send"
     /\ \E o \in SendResult : o.result = "sent" /\ Note(o)
     /\ schedule => Len(all) < MaxJobs
     /\ answered' = Answered
     /\ Commit("processed", IF schedule THEN ScheduleNext(all, 1, answered') ELSE all,
               [CommittedFlow EXCEPT !.lastLead = msgs[inbox.msg].at])
     /\ audit' = IF schedule THEN Append(audit, 0) ELSE audit
     /\ copies' = IF schedule THEN Append(copies, 0) ELSE copies
     /\ inbox' = [pc |-> "fetch", msg |-> 0] /\ tx' = Clean /\ Recycle("inbox")
     /\ UNCHANGED <<config, now, wakes, lead, scan>>

\* The typed errors are committed and end the drain; a lead that cannot be
\* reached keeps the follow-ups of the drain's earlier messages.  Outside of
\* the 24 hours the tenant's template is tried, if there is one, and any
\* failure of it is caught.  Everything else leaves the job.
NotReplied ==
  /\ inbox.pc = "send"
  /\ \E o \in SendResult :
       /\ o.result # "sent" /\ Note(o)
       /\ IF o.result = "raised" THEN UNCHANGED <<msgs, lead, flow, jobs, answered>>
          ELSE /\ answered' = Answered
               /\ \E template \in BOOLEAN :
                    /\ template => o.result = "WindowExpiredError" /\ config.reengage
                    /\ Commit(IF template THEN "processed" ELSE "error", CommittedJobs, CommittedFlow)
               /\ lead' = IF o.result = "RecipientUnreachable" THEN "unreachable" ELSE lead
  /\ EndInbox
  /\ UNCHANGED <<config, now, wakes, audit, scan, copies>>

-----------------------------------------------------------------------------
(* follow_up_scanner *)

Due == {j \in DOMAIN jobs : Pending(j) /\ jobs[j].at <= now}

Earlier(i, j) == jobs[i].at < jobs[j].at \/ (jobs[i].at = jobs[j].at /\ i < j)

\* What is due, the oldest first.
Batches ==
  {s \in [1..Cardinality(Due) -> Due] : \A i, k \in DOMAIN s : i < k => Earlier(s[i], s[k])}

\* The batch is read without a lock.
Scan(r) ==
  /\ scan[r].pc = "idle" /\ Due # {}
  /\ \E batch \in Batches : scan' = [scan EXCEPT ![r] = [pc |-> "fire", batch |-> batch]]
  /\ UNCHANGED <<config, now, wakes, rows, lock, inbox, tx, history, faults>>

\* The run goes on with the next job of its batch.
NextJob(r) ==
  LET rest == Tail(scan[r].batch) IN
  scan' = [scan EXCEPT ![r] = [pc |-> IF rest = <<>> THEN "idle" ELSE "fire", batch |-> rest]]

\* Mutant: the status is not read again.
RefusalUnread(j) ==
  IF flow.lastLead > jobs[j].at \/ flow.status \in {"cold", "completed"} THEN "cancelled"
  ELSE IF jobs[j].attempt > Len(config.after) THEN "error"
  ELSE IF config.plain THEN "none" ELSE "ignored"

\* Mutant: the cancellation is not committed, and the rollback undoes it.
RefusalUncommitted(j) ==
  IF ~Pending(j) \/ flow.lastLead > jobs[j].at \/ flow.status \in {"cold", "completed"} \/ ~config.enabled
  THEN "ignored"
  ELSE IF jobs[j].attempt > Len(config.after) THEN "error"
  ELSE IF config.plain THEN "none" ELSE "ignored"

\* What _fire_follow_up makes of a job without sending it.  render_params
\* knows nothing of `collected': a parameter that uses it (not plain) raises,
\* and the job stays pending.
Refusal(j) ==
  IF ~Pending(j) THEN "ignored"
  ELSE IF flow.lastLead > jobs[j].at \/ flow.status \in {"cold", "completed"} \/ ~config.enabled
  THEN "cancelled"
  ELSE IF jobs[j].attempt > Len(config.after) THEN "error"
  ELSE IF config.plain THEN "none" ELSE "ignored"

\* The lock is tried, the job and the talkflow are read under it.
Fire(r) ==
  LET j == Head(scan[r].batch) IN
  /\ scan[r].pc = "fire"
  /\ \/ Contended /\ NextJob(r) /\ UNCHANGED <<jobs, lock>>
     \/ /\ Refusal(j) = "none" /\ TryLock(r)
        /\ scan' = [scan EXCEPT ![r].pc = "send"] /\ UNCHANGED jobs
     \/ /\ Refusal(j) # "none" /\ LockBriefly /\ NextJob(r)
        /\ jobs' = IF Refusal(j) = "ignored" THEN jobs
                   ELSE [jobs EXCEPT ![j].status = Refusal(j)]
  /\ UNCHANGED <<config, now, wakes, msgs, lead, flow, audit, inbox, tx, history, faults>>

SendEnds(r) == scan[r].pc = "send" /\ NextJob(r) /\ Unlock(r)

\* The attempt is recorded; the sequence ends in "cold" or in its next job.
\* The row is written whatever the operator has made of it in the meantime.
TemplateSent(r) ==
  LET j == Head(scan[r].batch)
      n == jobs[j].attempt
      done == [jobs EXCEPT ![j].status = "completed"]
  IN /\ SendEnds(r)
     /\ MarkCold(n) \/ Len(jobs) < MaxJobs
     /\ jobs' = IF MarkCold(n) THEN done ELSE ScheduleNext(done, n + 1, jobs[j].drain)
     /\ flow' = [flow EXCEPT !.attempt = n, !.status = IF MarkCold(n) THEN "cold" ELSE @]
     /\ \E o \in SendResult :
          /\ o.result = "sent" /\ Note(o)
          /\ audit' = [audit EXCEPT ![j] = @ + 1] \o (IF MarkCold(n) THEN <<>> ELSE <<0>>)
          /\ copies' = [copies EXCEPT ![j] = @ + o.copies] \o (IF MarkCold(n) THEN <<>> ELSE <<0>>)
     /\ UNCHANGED <<config, now, wakes, msgs, lead, inbox, tx, answered>>

\* A typed error ends the job, and a lead that cannot be reached all of them;
\* after any other exception the job stays pending.
TemplateFails(r) ==
  LET j == Head(scan[r].batch) IN
  /\ SendEnds(r)
  /\ \E o \in SendResult :
       /\ o.result # "sent" /\ Note(o)
       /\ copies' = [copies EXCEPT ![j] = @ + o.copies]
       /\ lead' = IF o.result = "RecipientUnreachable" THEN "unreachable" ELSE lead
       /\ jobs' = CASE o.result = "raised" -> jobs
                    [] o.result = "RecipientUnreachable" ->
                         [CancelPending(jobs) EXCEPT ![j].status = "error"]
                    [] OTHER -> [jobs EXCEPT ![j].status = "error"]
  /\ UNCHANGED <<config, now, wakes, msgs, flow, audit, inbox, tx, answered>>

-----------------------------------------------------------------------------
\* cli follow-ups cancel: no advisory lock; the rows that an open transaction
\* of the inbox has cancelled make it wait.
CliCancel ==
  /\ ~tx.cancel
  /\ jobs' = CancelPending(jobs) /\ jobs' # jobs
  /\ UNCHANGED <<config, now, wakes, msgs, lead, flow, audit, lock, inbox, tx, scan, history, faults>>

\* The worker dies after a template went out, or a reply did, and before the
\* commit.  Its sessions end, arq runs the inbox job again.
Crash ==
  /\ faults < MaxFaults /\ faults' = faults + 1
  /\ wakes' = wakes + (IF inbox.pc = "idle" THEN 0 ELSE 1)
  /\ copies' = [j \in DOMAIN copies |-> copies[j] +
                  Cardinality({r \in Run : scan[r].pc = "send" /\ Head(scan[r].batch) = j})]
  /\ inbox' = [pc |-> "idle", msg |-> 0] /\ tx' = Clean
  /\ lock' = [at |-> "free", holds |-> 0]
  /\ scan' = [r \in Run |-> [pc |-> "idle", batch |-> <<>>]]
  /\ UNCHANGED <<config, now, rows, answered>>

-----------------------------------------------------------------------------
Init ==
  /\ config \in Config
  /\ now = 0 /\ msgs = <<>> /\ wakes = 0 /\ lead = "active"
  /\ flow = [status |-> "active", attempt |-> 0, lastLead |-> 0]
  /\ jobs = <<>> /\ audit = <<>> /\ copies = <<>>
  /\ lock = [at |-> "free", holds |-> 0] /\ inbox = [pc |-> "idle", msg |-> 0] /\ tx = Clean
  /\ scan = [r \in Run |-> [pc |-> "idle", batch |-> <<>>]]
  /\ answered = 0 /\ faults = 0

Inbox == StartInbox \/ FetchNextQueued \/ Step \/ Replied \/ NotReplied
Scanner(r) == Scan(r) \/ Fire(r) \/ TemplateSent(r) \/ TemplateFails(r)

Next ==
  \/ Tick \/ Ingest \/ Inbox \/ InboxRaises \/ CliCancel \/ Crash
  \/ \E r \in Run : Scanner(r)

\* arq runs the jobs it has, and the cron job every minute.
Fairness == WF_vars(Inbox) /\ \A r \in Run : WF_vars(Scanner(r))

Spec == Init /\ [][Next]_vars
FairSpec == Spec /\ Fairness

-----------------------------------------------------------------------------
(* Properties *)

TypeOK ==
  /\ config \in Config /\ now \in 0..MaxTime /\ wakes \in Nat
  /\ \A i \in DOMAIN msgs : msgs[i].status \in {"queued", "processed", "error", "skipped"}
  /\ lead \in {"active", "unreachable"}
  /\ flow.status \in FlowStatus /\ flow.attempt \in 0..config.max /\ flow.lastLead \in 0..now
  /\ \A j \in DOMAIN jobs : /\ jobs[j].attempt \in 1..config.max /\ jobs[j].status \in JobStatus
                            /\ jobs[j].drain \in 1..answered
  /\ DOMAIN audit = DOMAIN jobs /\ DOMAIN copies = DOMAIN jobs
  /\ lock.at \in {"free", "idle", "inbox"} \cup Run /\ lock.holds \in 0..MaxHolds
  /\ inbox.pc \in {"idle", "fetch", "step", "send"} /\ inbox.msg \in 0..Len(msgs)
  /\ \A r \in Run : scan[r].pc \in {"idle", "fire", "send"} /\ Range(scan[r].batch) \subseteq DOMAIN jobs
  /\ answered \in Nat /\ faults \in 0..MaxFaults

\* Overlapping runs of the cron job, and the chains of several messages, never
\* send the template of one job twice, unless a send failed in a way that left
\* its fate unknown; and outbound_messages never shows it sent twice.
TemplateOnce ==
  \A j \in DOMAIN jobs : audit[j] <= 1 /\ (faults = 0 => copies[j] <= 1)

\* A template that reaches the lead belongs to the last drain that answered: a
\* chain the lead has broken never goes on, neither by a job that a run had in
\* its batch nor by the successor of one that was being sent.
StaleChainsDie ==
  [][\A j \in DOMAIN copies : copies'[j] > copies[j] => jobs[j].drain = answered']_vars

\* A talkflow is cold only if every attempt of the sequence was sent since the
\* lead's last answer.
ColdIsEarned ==
  flow.status = "cold" =>
    \A n \in 1..config.max : \E j \in DOMAIN jobs :
      jobs[j].attempt = n /\ jobs[j].drain = answered /\ audit[j] = 1

\* The jobs that have taken the lock and not come to their unlock.
Owed ==
  Cardinality({r \in Run : scan[r].pc = "send"}) + (IF inbox.pc = "idle" THEN 0 ELSE 1)

\* An unlock has missed the lock's connection, which holds it for nobody.
Leaked == lock.holds > Owed

\* Whatever the contention for the lead's lock, all that is due gets sent,
\* cancelled or given up, again and again, if the parameters of its templates
\* can be rendered and the lock has not leaked.
EveryDueJobEnds == []<>(config.plain => Due = {} \/ Leaked)

\* The same of a lock that has leaked.
DueEndsAnyway == []<>(config.plain => Due = {})

\* "Schedule-one-at-a-time": a lead has one follow-up to come at most.
OneAtATime == Cardinality({j \in DOMAIN jobs : Pending(j)}) <= 1

\* "once fired (or cancelled), they are terminal".
TerminalRows == [][\A j \in DOMAIN jobs : ~Pending(j) => jobs'[j].status = jobs[j].status]_vars

\* "protege contra lead-respondeu-entre-scheduling-e-scan": no template is sent
\* to a lead who has written since it was scheduled.
AnswerStopsTemplates ==
  [][\A r \in Run : scan[r].pc = "fire" /\ scan'[r].pc = "send"
       => \A i \in NextQueued : msgs[i].at <= jobs[Head(scan[r].batch)].at]_vars
=============================================================================
