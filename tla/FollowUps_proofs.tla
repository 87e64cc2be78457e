-------------------------- MODULE FollowUps_proofs --------------------------
(***************************************************************************)
(* Theorems about FollowUps, for any number of runs, messages and jobs and *)
(* every follow-up sequence that its schema accepts: types, one template   *)
(* per job, the chains that an answer ends, and how a lead gets cold.      *)
(***************************************************************************)
EXTENDS FollowUps, FiniteSetTheorems, SequenceTheorems, WellFoundedInduction, TLAPS

-----------------------------------------------------------------------------
(* The inductive invariant *)

MsgStatus == {"queued", "processed", "error", "skipped"}
Msg == [at : Nat, status : MsgStatus]
FlowRow == [status : FlowStatus, attempt : Nat, lastLead : Nat]
Job == [attempt : Nat, at : Nat, status : JobStatus, drain : Nat]

Locks == [at : {"free", "idle", "inbox"} \cup Run, holds : 0..MaxHolds]

Types ==
  /\ config \in Config /\ now \in 0..MaxTime /\ wakes \in Nat
  /\ msgs \in Seq(Msg)
  /\ lead \in {"active", "unreachable"}
  /\ flow \in FlowRow
  /\ jobs \in Seq(Job)
  /\ lock \in Locks
  /\ inbox \in [pc : {"idle", "fetch", "step", "send"}, msg : Nat]
  /\ tx \in [cancel : BOOLEAN, completed : BOOLEAN]
  /\ scan \in [Run -> [pc : {"idle", "fire", "send"}, batch : Seq(Nat)]]
  /\ audit \in Seq(Nat) /\ copies \in Seq(Nat)
  /\ answered \in Nat /\ faults \in 0..MaxFaults

\* Nothing comes from the future; a talkflow counts no more attempts than the
\* sequence has.
FlowInRange(f) == f.lastLead <= now /\ f.attempt <= config.max

Ranges ==
  /\ \A i \in DOMAIN msgs : msgs[i].at <= now
  /\ FlowInRange(flow)
  /\ \A j \in DOMAIN jobs : /\ config.enabled
                            /\ jobs[j].attempt \in 1..config.max /\ jobs[j].drain \in 1..answered
  /\ Len(audit) = Len(jobs) /\ Len(copies) = Len(jobs)

\* A run that sends has the lock; the inbox job may have lost it to the pool.
Locked ==
  /\ lock.at = "free" <=> lock.holds = 0
  /\ lock.at = "inbox" => inbox.pc # "idle"
  /\ inbox.msg <= Len(msgs) /\ (inbox.pc \in {"step", "send"} => inbox.msg \in DOMAIN msgs)
  /\ \A r \in Run : /\ scan[r].pc = "send" <=> lock.at = r
                    /\ scan[r].pc # "idle" => scan[r].batch # <<>>
                    /\ \A i \in DOMAIN scan[r].batch : scan[r].batch[i] \in DOMAIN jobs

\* What a drain has in its transaction: the answer, until the first commit, and
\* until then it has the lock.
Drains ==
  /\ inbox.pc = "idle" => tx = Clean
  /\ tx.cancel => lock.at = "inbox"
  /\ inbox.pc # "idle" /\ ~tx.cancel => answered > 0

\* outbound_messages has a row for each completed job; without a fault the lead
\* has got no other template.
Recorded ==
  \A j \in DOMAIN jobs :
    /\ audit[j] = (IF jobs[j].status = "completed" THEN 1 ELSE 0)
    /\ faults = 0 => copies[j] <= audit[j]

\* The attempts before n of a drain's sequence have been sent.
Earned(n, d) ==
  \A k \in 1..(n - 1) : \E i \in DOMAIN jobs :
    jobs[i].attempt = k /\ jobs[i].drain = d /\ jobs[i].status = "completed"

\* A pending job belongs to the last drain that answered; so does one that is
\* being sent, though the operator may have cancelled it.
Chains ==
  /\ \A j \in DOMAIN jobs : /\ Pending(j) => jobs[j].drain = answered
                            /\ Earned(jobs[j].attempt, jobs[j].drain)
  /\ \A r \in Run : scan[r].pc = "send" =>
       LET j == Head(scan[r].batch)
       IN jobs[j].status \in {"pending", "cancelled"} /\ jobs[j].drain = answered

Cold == flow.status = "cold" => Earned(config.max + 1, answered)

FollowUpsInv == Types /\ Ranges /\ Locked /\ Drains /\ Recorded /\ Chains /\ Cold

-----------------------------------------------------------------------------
(* Operators *)

\* An outcome that leaves no doubt is at most one copy, and none when it fails.
LEMMA OutcomeOf ==
  ASSUME NEW o \in Outcomes
  PROVE  /\ o.copies \in Nat /\ o.doubt \in BOOLEAN
         /\ ~o.doubt => o.copies <= (IF o.result = "sent" THEN 1 ELSE 0)
  <1>1. PICK replies \in [1..MaxAttempts -> Reply] : o = Outcome(replies)
    BY DEF Outcomes
  <1> DEFINE made == {k \in 1..MaxAttempts : \A i \in 1..(k - 1) : Answer(replies[i]) \in Retried}
             got == {k \in made : replies[k].received}
             result == Answer(replies[Max(made)])
  <1>2. Cardinality(got) \in Nat
    <2>1. got \in SUBSET Nat /\ \A k \in got : k <= 3
      BY DEF MaxAttempts
    <2> HIDE DEF got
    <2> QED  BY <2>1, FS_BoundedSetOfNaturals, FS_CardinalityType
  <1>3. o = [result |-> result, copies |-> Cardinality(got),
             doubt |-> result = "raised" \/ Cardinality(got) > (IF result = "sent" THEN 1 ELSE 0)]
    BY <1>1 DEF Outcome
  <1> DEFINE doubt == result = "raised" \/ Cardinality(got) > (IF result = "sent" THEN 1 ELSE 0)
  <1>4. doubt \in BOOLEAN /\ (~doubt => Cardinality(got) <= (IF result = "sent" THEN 1 ELSE 0))
    <2> HIDE DEF result, got
    <2> QED  BY <1>2
  <1>5. o.copies = Cardinality(got) /\ o.result = result /\ o.doubt = doubt
    <2> HIDE DEF result, got
    <2> QED  BY <1>3
  <1> HIDE DEF result, got, doubt
  <1> QED  BY <1>2, <1>4, <1>5

LEMMA FirstOf ==
  ASSUME NEW S \in SUBSET Nat, S # {}
  PROVE  \E i \in S : \A k \in S : i <= k
  <1>1. PICK i \in S : \A k \in S : ~(<<k, i>> \in OpToRel(<, Nat))
    BY NatLessThanWellFounded, WFMin
  <1>2. ASSUME NEW k \in S, ~(i <= k) PROVE FALSE
    <2>1. k \in Nat /\ i \in Nat /\ k < i
      BY <1>2
    <2>2. <<k, i>> \in OpToRel(<, Nat)
      BY <2>1 DEF OpToRel
    <2> QED  BY <1>1, <2>2
  <1> QED  BY <1>2

LEMMA MinOf ==
  ASSUME NEW S \in SUBSET Nat, S # {}
  PROVE  Min(S) \in S
  BY FirstOf DEF Min

LEMMA Configs ==
  ASSUME config \in Config
  PROVE  /\ config \in [enabled : BOOLEAN, max : 1..10, after : Seq(Nat), plain : BOOLEAN, reengage : BOOLEAN]
         /\ config.max \in Nat /\ config.after \in Seq(Nat)
         /\ config.enabled => Len(config.after) >= config.max
  BY ConfigAssumption

\* Cancelling keeps the rows, their attempts, drains and completions.
LEMMA Cancelled ==
  ASSUME NEW all \in Seq(Job)
  PROVE  /\ CancelPending(all) \in Seq(Job) /\ Len(CancelPending(all)) = Len(all)
         /\ \A j \in DOMAIN all :
              /\ CancelPending(all)[j].attempt = all[j].attempt
              /\ CancelPending(all)[j].drain = all[j].drain
              /\ CancelPending(all)[j].status =
                   IF all[j].status = "pending" THEN "cancelled" ELSE all[j].status
  <1> DEFINE row(j) == IF all[j].status = "pending" THEN [all[j] EXCEPT !.status = "cancelled"] ELSE all[j]
  <1>1. CancelPending(all) = [j \in 1..Len(all) |-> row(j)]
    BY DEF CancelPending
  <1>2. ASSUME NEW j \in 1..Len(all)
        PROVE  /\ row(j) \in Job
               /\ row(j).attempt = all[j].attempt /\ row(j).drain = all[j].drain
               /\ row(j).status = IF all[j].status = "pending" THEN "cancelled" ELSE all[j].status
    <2>1. all[j] \in Job
      BY ElementOfSeq
    <2> QED  BY <2>1 DEF Job, JobStatus
  <1> HIDE DEF row
  <1>3. CancelPending(all) \in Seq(Job)
    BY <1>1, <1>2, IsASeq
  <1>4. Len(CancelPending(all)) = Len(all)
    BY <1>1
  <1>5. \A j \in DOMAIN all : CancelPending(all)[j] = row(j)
    BY <1>1
  <1> QED  BY <1>2, <1>3, <1>4, <1>5

\* The next job is a row more.
LEMMA Scheduled ==
  ASSUME NEW all \in Seq(Job), NEW row \in Job
  PROVE  /\ Append(all, row) \in Seq(Job) /\ Len(Append(all, row)) = Len(all) + 1
         /\ \A j \in DOMAIN all : Append(all, row)[j] = all[j]
         /\ Append(all, row)[Len(all) + 1] = row
  BY AppendProperties

\* A change of the status of one row.
LEMMA Marked ==
  ASSUME NEW all \in Seq(Job), NEW j \in DOMAIN all, NEW status \in JobStatus
  PROVE  /\ [all EXCEPT ![j].status = status] \in Seq(Job)
         /\ Len([all EXCEPT ![j].status = status]) = Len(all)
         /\ \A i \in DOMAIN all :
              /\ [all EXCEPT ![j].status = status][i].attempt = all[i].attempt
              /\ [all EXCEPT ![j].status = status][i].drain = all[i].drain
              /\ [all EXCEPT ![j].status = status][i].status = IF i = j THEN status ELSE all[i].status
  <1> DEFINE new == [all EXCEPT ![j].status = status]
  <1>1. new = [all EXCEPT ![j] = [all[j] EXCEPT !.status = status]]
    OBVIOUS
  <1>2. all[j] \in Job /\ [all[j] EXCEPT !.status = status] \in Job
    <2>1. all[j] \in Job
      BY ElementOfSeq
    <2> QED  BY <2>1 DEF Job
  <1>3. new \in Seq(Job) /\ Len(new) = Len(all)
    BY <1>1, <1>2, ExceptSeq
  <1>4. \A i \in DOMAIN all : new[i] = IF i = j THEN [all[j] EXCEPT !.status = status] ELSE all[i]
    BY <1>1
  <1> HIDE DEF new
  <1>5. [all[j] EXCEPT !.status = status].attempt = all[j].attempt
        /\ [all[j] EXCEPT !.status = status].drain = all[j].drain
        /\ [all[j] EXCEPT !.status = status].status = status
    BY <1>2 DEF Job
  <1>6. \A i \in DOMAIN all : /\ new[i].attempt = all[i].attempt
                              /\ new[i].drain = all[i].drain
                              /\ new[i].status = IF i = j THEN status ELSE all[i].status
    BY <1>4, <1>5
  <1> QED  BY <1>3, <1>6 DEF new

\* Rows may be added and may end, but a completed one stays, with its attempt
\* and its drain: what has been earned stays so.
Kept(old, new) ==
  /\ Len(old) <= Len(new)
  /\ \A j \in DOMAIN old : /\ new[j].attempt = old[j].attempt /\ new[j].drain = old[j].drain
                           /\ old[j].status = "completed" => new[j].status = "completed"

LEMMA EarnedStays ==
  ASSUME jobs \in Seq(Job), jobs' \in Seq(Job), Kept(jobs, jobs'), NEW n \in Nat, NEW d, Earned(n, d)
  PROVE  Earned(n, d)'
  <1> SUFFICES ASSUME NEW k \in 1..(n - 1)
               PROVE  \E i \in DOMAIN jobs' :
                        jobs'[i].attempt = k /\ jobs'[i].drain = d /\ jobs'[i].status = "completed"
    BY DEF Earned
  <1>1. PICK i \in DOMAIN jobs :
               jobs[i].attempt = k /\ jobs[i].drain = d /\ jobs[i].status = "completed"
    BY DEF Earned
  <1>2. i \in DOMAIN jobs'
    BY DEF Kept
  <1> QED  BY <1>1, <1>2 DEF Kept

-----------------------------------------------------------------------------
(* Steps: the clock, the webhook, the inbox before it commits *)

LEMMA Starts == Init => FollowUpsInv
  <1> SUFFICES ASSUME Init PROVE FollowUpsInv
    OBVIOUS
  <1>1. now = 0 /\ wakes = 0 /\ answered = 0 /\ faults = 0 /\ 0 \in 0..MaxTime /\ 0 \in 0..MaxFaults
    BY BoundAssumption DEF Init
  <1>2. flow \in FlowRow
    BY DEF Init, FlowRow, FlowStatus
  <1>3. tx = Clean /\ Clean \in [cancel : BOOLEAN, completed : BOOLEAN]
    BY DEF Init, Clean
  <1>4. inbox \in [pc : {"idle", "fetch", "step", "send"}, msg : Nat]
    BY DEF Init
  <1>5. scan \in [Run -> [pc : {"idle", "fire", "send"}, batch : Seq(Nat)]]
    BY EmptySeq DEF Init
  <1>6. Types
    <2>1. config \in Config /\ lead = "active" /\ lock \in Locks
      BY BoundAssumption DEF Init, Locks
    <2>2. msgs \in Seq(Msg) /\ jobs \in Seq(Job) /\ audit \in Seq(Nat) /\ copies \in Seq(Nat)
      BY EmptySeq DEF Init
    <2> QED  BY <1>1, <1>2, <1>3, <1>4, <1>5, <2>1, <2>2 DEF Types
  <1>7. Ranges
    <2>1. DOMAIN jobs = {} /\ DOMAIN msgs = {} /\ Len(audit) = Len(jobs) /\ Len(copies) = Len(jobs)
      BY DEF Init
    <2>2. flow.lastLead = 0 /\ flow.attempt = 0 /\ config.max \in Nat
      BY Configs DEF Init
    <2> QED  BY <1>1, <2>1, <2>2 DEF Ranges, FlowInRange
  <1>8. Locked
    BY LockAssumption DEF Init, Locked
  <1>9. Drains
    BY DEF Init, Drains, Clean
  <1>10. Recorded /\ Chains /\ Cold
    <2>1. DOMAIN jobs = {} /\ flow.status = "active" /\ \A r \in Run : scan[r].pc = "idle"
      BY DEF Init
    <2> QED  BY <2>1 DEF Recorded, Chains, Cold
  <1> QED  BY <1>6, <1>7, <1>8, <1>9, <1>10 DEF FollowUpsInv

\* What no step of the clock, the webhook or an open transaction touches.
LEMMA Untouched ==
  ASSUME UNCHANGED <<config, flow, jobs, audit, copies, answered, scan>>, FollowUpsInv,
         faults' \in Nat, faults' >= faults
  PROVE  (Recorded /\ Chains /\ Cold)'
  <1> USE DEF FollowUpsInv
  <1>1. Recorded'
    BY DEF Recorded, Types
  <1>2. Chains'
    BY DEF Chains, Pending, Earned
  <1>3. Cold'
    BY DEF Cold, Earned
  <1> QED  BY <1>1, <1>2, <1>3

LEMMA TickKeeps == FollowUpsInv /\ Tick => FollowUpsInv'
  <1> SUFFICES ASSUME FollowUpsInv, Tick PROVE FollowUpsInv'
    OBVIOUS
  <1>1. UNCHANGED <<config, flow, jobs, audit, copies, answered, scan>>
        /\ UNCHANGED <<wakes, msgs, lead, lock, inbox, tx, faults>>
    BY DEF Tick, rows, history
  <1>2. now \in Nat /\ now' = now + 1 /\ now' \in 0..MaxTime
    BY BoundAssumption DEF FollowUpsInv, Types, Tick
  <1>3. Types'
    BY <1>1, <1>2 DEF FollowUpsInv, Types
  <1>4. Ranges'
    <2>1. \A i \in DOMAIN msgs : msgs[i].at \in Nat
      <3>1. \A i \in DOMAIN msgs : msgs[i] \in Msg
        BY ElementOfSeq DEF FollowUpsInv, Types
      <3> QED  BY <3>1 DEF Msg
    <2>2. \A i \in DOMAIN msgs' : msgs'[i].at <= now'
      BY <1>1, <1>2, <2>1 DEF FollowUpsInv, Ranges
    <2>3. flow.lastLead \in Nat
      BY DEF FollowUpsInv, Types, FlowRow
    <2>4. FlowInRange(flow)'
      BY <1>1, <1>2, <2>3 DEF FollowUpsInv, Ranges, FlowInRange
    <2> QED  BY <1>1, <2>2, <2>4 DEF FollowUpsInv, Ranges
  <1>5. Locked' /\ Drains'
    BY <1>1 DEF FollowUpsInv, Locked, Drains
  <1>6. (Recorded /\ Chains /\ Cold)'
    BY <1>1, Untouched DEF FollowUpsInv, Types
  <1> QED  BY <1>3, <1>4, <1>5, <1>6 DEF FollowUpsInv

LEMMA IngestKeeps == FollowUpsInv /\ Ingest => FollowUpsInv'
  <1> SUFFICES ASSUME FollowUpsInv, Ingest PROVE FollowUpsInv'
    OBVIOUS
  <1> DEFINE new == [at |-> now, status |-> "queued"]
  <1>1. UNCHANGED <<config, flow, jobs, audit, copies, answered, scan>>
        /\ UNCHANGED <<now, lead, lock, inbox, tx, faults>>
    BY DEF Ingest, history
  <1>2. now \in Nat /\ new \in Msg /\ new.at = now
    BY DEF FollowUpsInv, Types, Msg, MsgStatus
  <1>3. msgs' = Append(msgs, new) /\ wakes' = wakes + 1
    BY DEF Ingest
  <1> HIDE DEF new
  <1>4. /\ msgs \in Seq(Msg) /\ msgs' \in Seq(Msg) /\ Len(msgs') = Len(msgs) + 1
        /\ \A i \in 1..Len(msgs) : msgs'[i] = msgs[i]
        /\ msgs'[Len(msgs) + 1] = new
    BY <1>2, <1>3, AppendProperties DEF FollowUpsInv, Types
  <1>5. Types'
    BY <1>1, <1>3, <1>4 DEF FollowUpsInv, Types
  <1>6. Ranges'
    <2>1. \A i \in DOMAIN msgs' : msgs'[i].at <= now'
      BY <1>1, <1>2, <1>4 DEF FollowUpsInv, Ranges
    <2> QED  BY <1>1, <2>1 DEF FollowUpsInv, Ranges, FlowInRange
  <1>7. Locked'
    BY <1>1, <1>4 DEF FollowUpsInv, Locked, Types
  <1>8. Drains'
    BY <1>1 DEF FollowUpsInv, Drains
  <1>9. (Recorded /\ Chains /\ Cold)'
    BY <1>1, Untouched DEF FollowUpsInv, Types
  <1> QED  BY <1>5, <1>6, <1>7, <1>8, <1>9 DEF FollowUpsInv

\* The pieces of the invariant that speak of messages, and those of a drain.
LEMMA MessagesOf ==
  ASSUME msgs \in Seq(Msg), NEW i \in DOMAIN msgs
  PROVE  msgs[i] \in Msg /\ msgs[i].at \in Nat /\ msgs[i].status \in MsgStatus
  <1>1. msgs[i] \in Msg
    BY ElementOfSeq
  <1> QED  BY <1>1 DEF Msg

\* The operations on the lock, of the inbox job or a run.
Other(x) == ({"inbox"} \cup Run) \ {x}

LEMMA Holders ==
  ASSUME NEW x \in {"inbox"} \cup Run
  PROVE  x \notin {"free", "idle"} /\ \A y \in Other(x) : y # x /\ y \notin {"free", "idle"}
  BY LockAssumption DEF Other

LEMMA TryLockOf ==
  ASSUME FollowUpsInv, NEW x \in {"inbox"} \cup Run, TryLock(x)
  PROVE  /\ lock' \in Locks /\ lock'.at = x /\ lock'.holds # 0
         /\ lock.at \in {"free", "idle"}
  <1>1. lock.holds \in Nat /\ lock.holds < MaxHolds /\ MaxHolds \in Nat
    BY BoundAssumption DEF FollowUpsInv, Types, Locks, TryLock
  <1>2. \A n \in Nat : n < MaxHolds => n + 1 \in 0..MaxHolds /\ n + 1 # 0
    BY <1>1
  <1>3. lock' = [at |-> x, holds |-> lock.holds + 1] /\ lock.at \in {"free", "idle"}
    BY DEF TryLock
  <1> QED  BY <1>1, <1>2, <1>3 DEF Locks

LEMMA RecycleOf ==
  ASSUME FollowUpsInv, NEW x \in {"inbox"} \cup Run, Recycle(x)
  PROVE  /\ lock' \in Locks /\ (lock'.at = "free" <=> lock'.holds = 0)
         /\ \A y \in Other(x) : lock'.at = y <=> lock.at = y
  <1>1. PICK at \in (IF lock.at \in {x, "idle"} THEN {x, "idle"} ELSE {lock.at}) : lock' = [lock EXCEPT !.at = at]
    BY DEF Recycle
  <1>2. lock \in Locks /\ (lock.at = "free" <=> lock.holds = 0)
    BY DEF FollowUpsInv, Types, Locked
  <1>3. x \notin {"free", "idle"} /\ \A y \in Other(x) : y # x /\ y \notin {"free", "idle"}
    BY Holders
  <1>4. lock' = [at |-> at, holds |-> lock.holds]
    BY <1>1, <1>2 DEF Locks
  <1> QED  BY <1>1, <1>2, <1>3, <1>4 DEF Locks

LEMMA UnlockOf ==
  ASSUME FollowUpsInv, NEW x \in {"inbox"} \cup Run, Unlock(x)
  PROVE  /\ lock' \in Locks /\ (lock'.at = "free" <=> lock'.holds = 0) /\ lock'.at # x
         /\ \A y \in Other(x) : lock'.at = y <=> lock.at = y
  <1>1. lock \in Locks /\ lock.holds \in 0..MaxHolds /\ MaxHolds \in Nat /\ (lock.at = "free" <=> lock.holds = 0)
    BY BoundAssumption DEF FollowUpsInv, Types, Locked, Locks
  <1>2. x \notin {"free", "idle"} /\ \A y \in Other(x) : y # x /\ y \notin {"free", "idle"}
    BY Holders
  <1>3. CASE /\ lock.at \in {x, "idle"}
             /\ lock' = [at |-> IF lock.holds = 1 THEN "free" ELSE "idle", holds |-> lock.holds - 1]
    <2>1. lock.holds # 0
      BY <1>1, <1>2, <1>3
    <2>2. \A n \in 0..MaxHolds : n # 0 => n - 1 \in 0..MaxHolds /\ (n = 1 <=> n - 1 = 0)
      BY <1>1
    <2>3. lock.holds - 1 \in 0..MaxHolds /\ (lock.holds = 1 <=> lock.holds - 1 = 0)
      BY <1>1, <2>1, <2>2
    <2>4. lock'.at = (IF lock.holds = 1 THEN "free" ELSE "idle") /\ lock'.holds = lock.holds - 1
      BY <1>3
    <2>5. lock' \in Locks
      BY <1>3, <2>3 DEF Locks
    <2> QED  BY <1>2, <1>3, <2>3, <2>4, <2>5
  <1>4. CASE lock' = [lock EXCEPT !.at = IF @ = x THEN "idle" ELSE @]
    <2>1. lock' = [at |-> IF lock.at = x THEN "idle" ELSE lock.at, holds |-> lock.holds]
      BY <1>1, <1>4 DEF Locks
    <2>2. lock' \in Locks
      BY <1>1, <2>1 DEF Locks
    <2> QED  BY <1>1, <1>2, <2>1, <2>2
  <1> QED  BY <1>3, <1>4 DEF Unlock

LEMMA LockBrieflyOf ==
  ASSUME FollowUpsInv, LockBriefly
  PROVE  /\ lock' \in Locks /\ (lock'.at = "free" <=> lock'.holds = 0)
         /\ lock.at \in {"free", "idle"} /\ lock'.at \in {"free", "idle"}
         /\ \A y \in {"inbox"} \cup Run : lock'.at # y /\ lock.at # y
  <1>1. lock \in Locks /\ lock.holds \in Nat /\ MaxHolds \in Nat /\ (lock.at = "free" <=> lock.holds = 0)
    BY BoundAssumption DEF FollowUpsInv, Types, Locked, Locks
  <1>2. \A y \in {"inbox"} \cup Run : y \notin {"free", "idle"}
    BY Holders
  <1>3. lock.at \in {"free", "idle"}
    BY DEF LockBriefly
  <1>4. CASE lock' = lock
    BY <1>1, <1>2, <1>3, <1>4
  <1>5. CASE lock.holds < MaxHolds /\ lock' = [at |-> "idle", holds |-> lock.holds + 1]
    <2>1. \A n \in Nat : n < MaxHolds => n + 1 \in 0..MaxHolds /\ n + 1 # 0
      BY <1>1
    <2> QED  BY <1>1, <1>2, <1>3, <1>5, <2>1 DEF Locks
  <1> QED  BY <1>4, <1>5 DEF LockBriefly

LEMMA StartInboxKeeps == FollowUpsInv /\ StartInbox => FollowUpsInv'
  <1> SUFFICES ASSUME FollowUpsInv, StartInbox PROVE FollowUpsInv'
    OBVIOUS
  <1> DEFINE skipped(i) == IF i \in NextQueued THEN [msgs[i] EXCEPT !.status = "skipped"] ELSE msgs[i]
             skips == /\ inbox.pc = "idle" /\ LockBriefly
                      /\ msgs' = [i \in DOMAIN msgs |-> skipped(i)] /\ UNCHANGED <<inbox, tx>>
             begun == /\ inbox.pc = "idle" /\ TryLock("inbox")
                      /\ inbox' = [pc |-> "fetch", msg |-> 0] /\ tx' = [Clean EXCEPT !.cancel = TRUE]
                      /\ msgs' = msgs
             stays == UNCHANGED <<msgs, lock, inbox, tx>>
  <1>1. UNCHANGED <<config, flow, jobs, audit, copies, answered, scan>> /\ UNCHANGED <<now, lead, faults>>
    BY DEF StartInbox
  <1>2. begun \/ skips \/ stays
    BY DEF StartInbox
  <1>3. wakes' \in Nat
    BY DEF FollowUpsInv, Types, StartInbox
  <1>4. msgs' \in Seq(Msg) /\ Len(msgs') = Len(msgs) /\ \A i \in DOMAIN msgs : msgs'[i].at = msgs[i].at
    <2>1. ASSUME skips, NEW i \in DOMAIN msgs PROVE skipped(i) \in Msg /\ skipped(i).at = msgs[i].at
      <3>1. msgs[i] \in Msg
        BY MessagesOf DEF FollowUpsInv, Types
      <3> QED  BY <3>1 DEF Msg, MsgStatus
    <2> HIDE DEF skipped
    <2>2. ASSUME skips PROVE msgs' \in Seq(Msg)
      <3>1. msgs' = [i \in 1..Len(msgs) |-> skipped(i)] /\ Len(msgs) \in Nat
        BY <2>2 DEF FollowUpsInv, Types
      <3> QED  BY <2>1, <2>2, <3>1, IsASeq DEF FollowUpsInv, Types
    <2>3. ASSUME skips PROVE Len(msgs') = Len(msgs) /\ \A i \in DOMAIN msgs : msgs'[i] = skipped(i)
      BY <2>3 DEF FollowUpsInv, Types
    <2>4. CASE skips
      BY <2>1, <2>2, <2>3, <2>4
    <2>5. CASE msgs' = msgs
      BY <2>5 DEF FollowUpsInv, Types
    <2> QED  BY <1>2, <2>4, <2>5
  <1> HIDE DEF skipped
  <1>5. Ranges'
    <2>1. \A i \in DOMAIN msgs' : msgs'[i].at <= now'
      <3>1. DOMAIN msgs' = DOMAIN msgs
        BY <1>4 DEF FollowUpsInv, Types
      <3> QED  BY <1>1, <1>4, <3>1 DEF FollowUpsInv, Ranges
    <2> QED  BY <1>1, <2>1 DEF FollowUpsInv, Ranges, FlowInRange
  <1>6. (Recorded /\ Chains /\ Cold)'
    BY <1>1, Untouched DEF FollowUpsInv, Types
  <1>7. /\ lock' \in Locks /\ (lock'.at = "free" <=> lock'.holds = 0)
        /\ \A r \in Run : lock'.at = r <=> lock.at = r
    <2>1. CASE begun
      <3>1. lock' \in Locks /\ lock'.at = "inbox" /\ lock'.holds # 0 /\ lock.at \in {"free", "idle"}
        BY <2>1, TryLockOf
      <3> QED  BY <3>1, LockAssumption
    <2>2. CASE skips
      BY <2>2, LockBrieflyOf
    <2>3. CASE stays
      BY <2>3 DEF FollowUpsInv, Types, Locked
    <2> QED  BY <1>2, <2>1, <2>2, <2>3
  <1>8. inbox' \in [pc : {"idle", "fetch", "step", "send"}, msg : Nat]
         /\ tx' \in [cancel : BOOLEAN, completed : BOOLEAN]
    <2>1. inbox' = inbox \/ inbox' = [pc |-> "fetch", msg |-> 0]
      BY <1>2
    <2>2. tx' = tx \/ tx' = [cancel |-> TRUE, completed |-> FALSE]
      BY <1>2 DEF Clean
    <2>3. /\ inbox \in [pc : {"idle", "fetch", "step", "send"}, msg : Nat]
          /\ tx \in [cancel : BOOLEAN, completed : BOOLEAN]
      BY DEF FollowUpsInv, Types
    <2>4. inbox' \in [pc : {"idle", "fetch", "step", "send"}, msg : Nat]
      BY <2>1, <2>3
    <2>5. tx' \in [cancel : BOOLEAN, completed : BOOLEAN]
      <3>1. [cancel |-> TRUE, completed |-> FALSE] \in [cancel : BOOLEAN, completed : BOOLEAN]
        BY ZenonT(20)
      <3> QED  BY <2>2, <2>3, <3>1
    <2> QED  BY <2>4, <2>5
  <1>9. Types'
    BY <1>1, <1>3, <1>4, <1>7, <1>8 DEF FollowUpsInv, Types
  <1>10. Locked' /\ Drains'
    <2>1. CASE begun
      <3>1. lock'.at = "inbox"
        BY <2>1, TryLockOf
      <3>2. inbox'.pc = "fetch" /\ inbox'.msg = 0 /\ tx'.cancel
        BY <2>1 DEF Clean
      <3> QED  BY <1>1, <1>4, <1>7, <3>1, <3>2 DEF FollowUpsInv, Types, Locked, Drains
    <2>2. CASE skips
      <3>1. lock'.at # "inbox" /\ inbox' = inbox /\ tx' = tx /\ inbox.pc = "idle" /\ lock.at # "inbox"
        BY <2>2, LockBrieflyOf
      <3> QED  BY <1>1, <1>4, <1>7, <3>1 DEF FollowUpsInv, Types, Locked, Drains
    <2>3. CASE stays
      BY <1>1, <2>3 DEF FollowUpsInv, Locked, Drains
    <2> QED  BY <1>2, <2>1, <2>2, <2>3
  <1> QED  BY <1>5, <1>6, <1>9, <1>10 DEF FollowUpsInv

\* What the end of the inbox job leaves.
LEMMA EndInboxKeeps ==
  ASSUME FollowUpsInv, EndInbox,
         UNCHANGED <<config, now, msgs, flow, jobs, audit, scan, copies, answered>>
  PROVE  (Ranges /\ Locked /\ Drains)'
  <1>1. inbox' = [pc |-> "idle", msg |-> 0] /\ tx' = Clean
    BY DEF EndInbox
  <1>2. Ranges'
    BY DEF FollowUpsInv, Ranges, FlowInRange
  <1>3. /\ lock'.at = "free" <=> lock'.holds = 0
        /\ lock'.at # "inbox" /\ \A r \in Run : lock'.at = r <=> lock.at = r
    BY UnlockOf, LockAssumption DEF EndInbox, Other
  <1>4. Locked'
    <2>1. Len(msgs') \in Nat
      BY DEF FollowUpsInv, Types
    <2> QED  BY <1>1, <1>3, <2>1 DEF FollowUpsInv, Locked
  <1>5. Drains'
    BY <1>1 DEF Drains, Clean
  <1> QED  BY <1>2, <1>4, <1>5

LEMMA EndInboxTypes ==
  ASSUME FollowUpsInv, EndInbox
  PROVE  /\ inbox' \in [pc : {"idle", "fetch", "step", "send"}, msg : Nat]
         /\ tx' \in [cancel : BOOLEAN, completed : BOOLEAN]
         /\ lock' \in Locks
  BY UnlockOf DEF EndInbox, Clean

LEMMA FetchNextQueuedKeeps == FollowUpsInv /\ FetchNextQueued => FollowUpsInv'
  <1> SUFFICES ASSUME FollowUpsInv, FetchNextQueued PROVE FollowUpsInv'
    OBVIOUS
  <1>1. UNCHANGED <<config, flow, jobs, audit, copies, answered, scan>>
        /\ UNCHANGED <<now, wakes, msgs, lead, faults>>
    BY DEF FetchNextQueued, rows, history
  <1>2. inbox.pc = "fetch"
    BY DEF FetchNextQueued
  <1>3. (Recorded /\ Chains /\ Cold)'
    BY <1>1, Untouched DEF FollowUpsInv, Types
  <1>4. CASE NextQueued = {}
    <2>1. EndInbox
      BY <1>4 DEF FetchNextQueued
    <2>2. Types'
      BY <1>1, <2>1, EndInboxTypes DEF FollowUpsInv, Types
    <2> QED  BY <1>1, <1>2, <1>3, <2>1, <2>2, EndInboxKeeps DEF FollowUpsInv
  <1>5. CASE NextQueued # {}
    <2>1. Min(NextQueued) \in NextQueued
      <3>1. NextQueued \in SUBSET Nat
        BY DEF NextQueued, FollowUpsInv, Types
      <3> QED  BY <1>5, <3>1, MinOf
    <2> DEFINE i == Min(NextQueued)
    <2>2. i \in DOMAIN msgs /\ i \in Nat /\ i <= Len(msgs)
      BY <2>1 DEF NextQueued, FollowUpsInv, Types
    <2>3. inbox' = [pc |-> "step", msg |-> i] /\ UNCHANGED <<tx, lock>>
      BY <1>5 DEF FetchNextQueued
    <2> HIDE DEF i
    <2>4. Types'
      BY <1>1, <2>2, <2>3 DEF FollowUpsInv, Types
    <2>5. Ranges'
      BY <1>1, <2>3 DEF FollowUpsInv, Ranges, FlowInRange
    <2>6. Locked'
      BY <1>1, <2>2, <2>3 DEF FollowUpsInv, Locked
    <2>7. Drains'
      BY <1>1, <1>2, <2>3 DEF FollowUpsInv, Drains
    <2> QED  BY <1>3, <2>4, <2>5, <2>6, <2>7 DEF FollowUpsInv
  <1> QED  BY <1>4, <1>5

\* The talkflow that a commit of the drain leaves.
LEMMA Committed ==
  ASSUME FollowUpsInv
  PROVE  /\ CommittedFlow \in FlowRow /\ FlowInRange(CommittedFlow)
         /\ CommittedFlow.status = "cold" => flow.status = "cold" /\ ~tx.cancel
  <1>1. flow \in FlowRow /\ FlowInRange(flow) /\ tx.cancel \in BOOLEAN /\ tx.completed \in BOOLEAN
    BY DEF FollowUpsInv, Types, Ranges
  <1>2. config.max \in Nat
    BY Configs DEF FollowUpsInv, Types
  <1> DEFINE n == IF tx.cancel THEN 0 ELSE flow.attempt
             s == IF tx.completed THEN "completed"
                  ELSE IF tx.cancel /\ flow.status = "cold" THEN "active" ELSE flow.status
  <1>3. n \in Nat /\ n <= config.max /\ s \in FlowStatus /\ (s = "cold" => flow.status = "cold" /\ ~tx.cancel)
    BY <1>1, <1>2 DEF FlowRow, FlowStatus, FlowInRange
  <1>4. CommittedFlow = [status |-> s, attempt |-> n, lastLead |-> flow.lastLead]
    <2>1. CommittedFlow = [flow EXCEPT !.attempt = n, !.status = s]
      <3>1. CommittedFlow = [[flow EXCEPT !.attempt = n] EXCEPT !.status =
              IF tx.completed THEN "completed" ELSE IF tx.cancel /\ @ = "cold" THEN "active" ELSE @]
        BY DEF CommittedFlow
      <3>2. [flow EXCEPT !.attempt = n].status = flow.status
        BY <1>1 DEF FlowRow
      <3> QED  BY <3>1, <3>2
    <2> HIDE DEF n, s
    <2> QED  BY <1>1, <2>1 DEF FlowRow
  <1> HIDE DEF n, s
  <1> QED  BY <1>1, <1>3, <1>4 DEF FlowRow, FlowInRange

LEMMA StepKeeps == FollowUpsInv /\ Step => FollowUpsInv'
  <1> SUFFICES ASSUME FollowUpsInv, Step PROVE FollowUpsInv'
    OBVIOUS
  <1>1. UNCHANGED <<config, flow, jobs, audit, copies, answered, scan>>
        /\ UNCHANGED <<now, wakes, msgs, lead, lock, faults>>
    BY DEF Step, rows, history
  <1>2. inbox.pc = "step" /\ inbox' = [inbox EXCEPT !.pc = "send"]
    BY DEF Step
  <1>3. PICK completed \in BOOLEAN : tx' = [tx EXCEPT !.completed = @ \/ completed]
    BY DEF Step
  <1>4. inbox' \in [pc : {"idle", "fetch", "step", "send"}, msg : Nat]
        /\ inbox'.pc = "send" /\ inbox'.msg = inbox.msg
    BY <1>2 DEF FollowUpsInv, Types
  <1>5. tx' \in [cancel : BOOLEAN, completed : BOOLEAN] /\ tx'.cancel = tx.cancel
    <2>1. tx \in [cancel : BOOLEAN, completed : BOOLEAN]
      BY DEF FollowUpsInv, Types
    <2>2. (tx.completed \/ completed) \in BOOLEAN
      OBVIOUS
    <2> QED  BY <1>3, <2>1, <2>2
  <1>6. Types'
    BY <1>1, <1>4, <1>5 DEF FollowUpsInv, Types
  <1>7. Ranges'
    BY <1>1 DEF FollowUpsInv, Ranges, FlowInRange
  <1>8. Locked'
    BY <1>1, <1>2, <1>4 DEF FollowUpsInv, Locked
  <1>9. Drains'
    BY <1>1, <1>2, <1>4, <1>5 DEF FollowUpsInv, Drains
  <1>10. (Recorded /\ Chains /\ Cold)'
    BY <1>1, Untouched DEF FollowUpsInv, Types
  <1> QED  BY <1>6, <1>7, <1>8, <1>9, <1>10 DEF FollowUpsInv

LEMMA InboxRaisesKeeps == FollowUpsInv /\ InboxRaises => FollowUpsInv'
  <1> SUFFICES ASSUME FollowUpsInv, InboxRaises PROVE FollowUpsInv'
    OBVIOUS
  <1>1. UNCHANGED <<config, flow, jobs, audit, copies, answered, scan>>
        /\ UNCHANGED <<now, wakes, msgs, lead>>
    BY DEF InboxRaises, rows, history
  <1>2. EndInbox
    BY DEF InboxRaises
  <1>3. faults' \in 0..MaxFaults /\ faults' \in Nat /\ faults' >= faults
    BY BoundAssumption DEF FollowUpsInv, Types, InboxRaises
  <1>4. Types'
    BY <1>1, <1>2, <1>3, EndInboxTypes DEF FollowUpsInv, Types
  <1>5. (Recorded /\ Chains /\ Cold)'
    BY <1>1, <1>3, Untouched
  <1> QED  BY <1>1, <1>2, <1>4, <1>5, EndInboxKeeps DEF FollowUpsInv

-----------------------------------------------------------------------------
(* Steps: the rows of follow_up_jobs change *)

\* Rows that keep their attempts, drains and completions keep their chains.
LEMMA ChainsStay ==
  ASSUME FollowUpsInv, jobs' \in Seq(Job), Kept(jobs, jobs'), NEW j \in DOMAIN jobs
  PROVE  Earned(jobs[j].attempt, jobs[j].drain)'
  <1>1. jobs \in Seq(Job) /\ jobs[j].attempt \in Nat
    <2>1. jobs \in Seq(Job)
      BY DEF FollowUpsInv, Types
    <2>2. jobs[j] \in Job
      BY <2>1, ElementOfSeq
    <2> QED  BY <2>1, <2>2 DEF Job
  <1>2. Earned(jobs[j].attempt, jobs[j].drain)
    BY DEF FollowUpsInv, Chains
  <1> SUFFICES ASSUME NEW n \in Nat, n = jobs[j].attempt, NEW d, d = jobs[j].drain
               PROVE  Earned(jobs[j].attempt, jobs[j].drain)'
    BY <1>1
  <1>3. Earned(n, d)
    BY <1>2
  <1>4. Earned(n, d)'
    BY <1>1, <1>3, EarnedStays
  <1>5. jobs'[j].attempt = n /\ jobs'[j].drain = d
    BY DEF Kept
  <1> QED  BY <1>4, <1>5 DEF Earned

\* A talkflow that stays cold has been answered by nobody since.
LEMMA ColdStays ==
  ASSUME FollowUpsInv, jobs' \in Seq(Job), Kept(jobs, jobs'), config' = config,
         flow'.status = "cold" => flow.status = "cold" /\ answered' = answered
  PROVE  Cold'
  <1> SUFFICES ASSUME flow'.status = "cold" PROVE Earned(config.max + 1, answered)'
    BY DEF Cold
  <1>1. jobs \in Seq(Job) /\ config.max + 1 \in Nat
    BY Configs DEF FollowUpsInv, Types
  <1>2. Earned(config.max + 1, answered)
    BY DEF FollowUpsInv, Cold
  <1> SUFFICES ASSUME NEW n \in Nat, n = config.max + 1, NEW d, d = answered
               PROVE  Earned(config.max + 1, answered)'
    BY <1>1
  <1>3. Earned(n, d)
    BY <1>2
  <1>4. Earned(n, d)'
    BY <1>1, <1>3, EarnedStays
  <1>5. config'.max + 1 = n /\ answered' = d
    OBVIOUS
  <1> QED  BY <1>4, <1>5 DEF Earned

LEMMA BatchOf ==
  ASSUME jobs \in Seq(Job), Due # {}, NEW batch \in Batches
  PROVE  batch \in Seq(Nat) /\ batch # <<>> /\ \A i \in DOMAIN batch : batch[i] \in DOMAIN jobs
  <1>1. Due \in SUBSET Nat /\ \A j \in Due : j <= Len(jobs) /\ j \in DOMAIN jobs
    BY DEF Due
  <1>2. IsFiniteSet(Due)
    <2> DEFINE S == Due
    <2>1. S \in SUBSET Nat /\ Len(jobs) \in Nat /\ \A j \in S : j <= Len(jobs)
      BY <1>1
    <2> HIDE DEF S
    <2>2. IsFiniteSet(S)
      BY <2>1, FS_BoundedSetOfNaturals
    <2> QED  BY <2>2 DEF S
  <1>3. Cardinality(Due) \in Nat /\ Cardinality(Due) # 0
    BY <1>2, FS_CardinalityType, FS_EmptySet
  <1>4. batch \in [1..Cardinality(Due) -> Due]
    BY DEF Batches
  <1> DEFINE n == Cardinality(Due)
  <1> HIDE DEF n
  <1>5. batch \in [1..n -> Due] /\ n \in Nat /\ n # 0
    BY <1>3, <1>4 DEF n
  <1>6. batch \in Seq(Nat)
    <2>1. batch \in [1..n -> Nat]
      BY <1>1, <1>5
    <2> QED  BY <1>5, <2>1, SeqDef
  <1>7. DOMAIN batch = 1..n /\ 1 \in DOMAIN batch
    BY <1>5
  <1> QED  BY <1>1, <1>5, <1>6, <1>7

LEMMA ScanKeeps == ASSUME NEW r \in Run, FollowUpsInv, Scan(r) PROVE FollowUpsInv'
  <1>1. UNCHANGED <<config, flow, jobs, audit, copies, answered>>
        /\ UNCHANGED <<now, wakes, msgs, lead, lock, inbox, tx, faults>>
    BY DEF Scan, rows, history
  <1>2. PICK batch \in Batches : scan' = [scan EXCEPT ![r] = [pc |-> "fire", batch |-> batch]]
    BY DEF Scan
  <1>3. batch \in Seq(Nat) /\ batch # <<>> /\ \A i \in DOMAIN batch : batch[i] \in DOMAIN jobs
    BY BatchOf DEF Scan, FollowUpsInv, Types
  <1>4. /\ scan[r].pc = "idle" /\ scan'[r].pc = "fire" /\ scan'[r].batch = batch
        /\ \A q \in Run \ {r} : scan'[q] = scan[q]
    BY <1>2 DEF Scan, FollowUpsInv, Types
  <1>5. Types'
    <2>1. scan' \in [Run -> [pc : {"idle", "fire", "send"}, batch : Seq(Nat)]]
      BY <1>2, <1>3 DEF FollowUpsInv, Types
    <2> QED  BY <1>1, <2>1 DEF FollowUpsInv, Types
  <1>6. Ranges'
    BY <1>1 DEF FollowUpsInv, Ranges, FlowInRange
  <1>7. Locked'
    <2>1. \A q \in Run : /\ scan'[q].pc = "send" <=> lock.at = q
                         /\ scan'[q].pc # "idle" => scan'[q].batch # <<>>
                         /\ \A i \in DOMAIN scan'[q].batch : scan'[q].batch[i] \in DOMAIN jobs
      BY <1>3, <1>4 DEF FollowUpsInv, Locked
    <2> QED  BY <1>1, <2>1 DEF FollowUpsInv, Locked
  <1>8. Drains'
    BY <1>1 DEF FollowUpsInv, Drains
  <1>9. Recorded' /\ Cold'
    BY <1>1 DEF FollowUpsInv, Recorded, Cold, Earned
  <1>10. Chains'
    <2>1. \A q \in Run : scan'[q].pc = "send" => scan[q] = scan'[q]
      BY <1>4
    <2>2. \A j \in DOMAIN jobs' : /\ Pending(j)' => jobs'[j].drain = answered'
                                  /\ Earned(jobs[j].attempt, jobs[j].drain)'
      BY <1>1 DEF FollowUpsInv, Chains, Pending, Earned
    <2> QED  BY <1>1, <2>1, <2>2 DEF FollowUpsInv, Chains
  <1> QED  BY <1>5, <1>6, <1>7, <1>8, <1>9, <1>10 DEF FollowUpsInv

LEMMA CliCancelKeeps == FollowUpsInv /\ CliCancel => FollowUpsInv'
  <1> SUFFICES ASSUME FollowUpsInv, CliCancel PROVE FollowUpsInv'
    OBVIOUS
  <1>1. UNCHANGED <<config, flow, audit, copies, answered, scan>>
        /\ UNCHANGED <<now, wakes, msgs, lead, lock, inbox, tx, faults>>
    BY DEF CliCancel, history
  <1>2. jobs' = CancelPending(jobs) /\ jobs \in Seq(Job)
    BY DEF CliCancel, FollowUpsInv, Types
  <1>3. /\ jobs' \in Seq(Job) /\ Len(jobs') = Len(jobs)
        /\ \A j \in DOMAIN jobs :
             /\ jobs'[j].attempt = jobs[j].attempt /\ jobs'[j].drain = jobs[j].drain
             /\ jobs'[j].status = IF jobs[j].status = "pending" THEN "cancelled" ELSE jobs[j].status
    BY <1>2, Cancelled
  <1>4. DOMAIN jobs' = DOMAIN jobs /\ Kept(jobs, jobs')
    BY <1>2, <1>3 DEF Kept
  <1>5. Types'
    BY <1>1, <1>3 DEF FollowUpsInv, Types
  <1>6. Ranges'
    BY <1>1, <1>3, <1>4 DEF FollowUpsInv, Ranges, FlowInRange
  <1>7. Locked'
    BY <1>1, <1>4 DEF FollowUpsInv, Locked
  <1>8. Drains'
    BY <1>1 DEF FollowUpsInv, Drains
  <1>9. Recorded'
    BY <1>1, <1>3, <1>4 DEF FollowUpsInv, Recorded
  <1>10. Chains'
    <2>1. \A j \in DOMAIN jobs' : Earned(jobs[j].attempt, jobs[j].drain)'
      BY <1>3, <1>4, ChainsStay
    <2>2. \A j \in DOMAIN jobs' : Pending(j)' => jobs'[j].drain = answered'
      BY <1>1, <1>3, <1>4 DEF FollowUpsInv, Chains, Pending
    <2>3. ASSUME NEW r \in Run, scan[r].pc = "send"
          PROVE  LET j == Head(scan[r].batch)
                 IN jobs'[j].status \in {"pending", "cancelled"} /\ jobs'[j].drain = answered
      <3> DEFINE j == Head(scan[r].batch)
      <3>1. scan[r].batch # <<>> /\ scan[r].batch \in Seq(Nat)
            /\ \A i \in DOMAIN scan[r].batch : scan[r].batch[i] \in DOMAIN jobs
        BY <2>3 DEF FollowUpsInv, Locked, Types
      <3>2. j \in DOMAIN jobs
        BY <3>1
      <3>3. jobs[j].status \in {"pending", "cancelled"} /\ jobs[j].drain = answered
        BY <2>3 DEF FollowUpsInv, Chains
      <3> QED  BY <1>3, <3>2, <3>3
    <2> QED  BY <1>1, <2>1, <2>2, <2>3 DEF Chains
  <1>11. Cold'
    BY <1>1, <1>3, <1>4, ColdStays
  <1> QED  BY <1>5, <1>6, <1>7, <1>8, <1>9, <1>10, <1>11 DEF FollowUpsInv

\* The head of the batch of a run that sends is a job that it may send.
LEMMA HeadOf ==
  ASSUME FollowUpsInv, NEW r \in Run, scan[r].pc # "idle"
  PROVE  Head(scan[r].batch) \in DOMAIN jobs
  <1>1. scan[r].batch # <<>> /\ scan[r].batch \in Seq(Nat)
        /\ \A i \in DOMAIN scan[r].batch : scan[r].batch[i] \in DOMAIN jobs
    BY DEF FollowUpsInv, Locked, Types
  <1> QED  BY <1>1

\* The templates that a crash may have let out: those of the lock's holder.
LEMMA CrashCopies ==
  ASSUME FollowUpsInv, NEW j
  PROVE  Cardinality({r \in Run : scan[r].pc = "send" /\ Head(scan[r].batch) = j}) \in Nat
  <1> DEFINE S == {r \in Run : scan[r].pc = "send" /\ Head(scan[r].batch) = j}
  <1>1. S \subseteq {lock.at}
    BY DEF FollowUpsInv, Locked
  <1> HIDE DEF S
  <1> QED  BY <1>1, FS_Singleton, FS_Subset, FS_CardinalityType DEF S

LEMMA CrashKeeps == FollowUpsInv /\ Crash => FollowUpsInv'
  <1> SUFFICES ASSUME FollowUpsInv, Crash PROVE FollowUpsInv'
    OBVIOUS
  <1> DEFINE lost(j) == Cardinality({r \in Run : scan[r].pc = "send" /\ Head(scan[r].batch) = j})
  <1>1. UNCHANGED <<config, flow, jobs, audit, answered>> /\ UNCHANGED <<now, msgs, lead>>
    BY DEF Crash, rows
  <1>2. /\ inbox' = [pc |-> "idle", msg |-> 0] /\ tx' = Clean
        /\ lock' = [at |-> "free", holds |-> 0]
        /\ scan' = [r \in Run |-> [pc |-> "idle", batch |-> <<>>]]
    BY DEF Crash
  <1>3. copies' = [j \in DOMAIN copies |-> copies[j] + lost(j)]
    BY DEF Crash
  <1>4. wakes' \in Nat
    BY DEF FollowUpsInv, Types, Crash
  <1>5. faults' \in 0..MaxFaults /\ faults' # 0
    BY BoundAssumption DEF FollowUpsInv, Types, Crash
  <1>6. \A j : lost(j) \in Nat
    BY CrashCopies
  <1> HIDE DEF lost
  <1>7. copies' \in Seq(Nat) /\ Len(copies') = Len(copies)
    <2>1. copies \in Seq(Nat) /\ copies' = [j \in 1..Len(copies) |-> copies[j] + lost(j)]
      BY <1>3 DEF FollowUpsInv, Types
    <2>2. \A j \in 1..Len(copies) : copies[j] + lost(j) \in Nat
      BY <1>6, <2>1
    <2> QED  BY <2>1, <2>2, IsASeq
  <1>8. Types'
    <2>1. lock' \in Locks /\ tx' \in [cancel : BOOLEAN, completed : BOOLEAN]
          /\ inbox' \in [pc : {"idle", "fetch", "step", "send"}, msg : Nat]
      BY <1>2, BoundAssumption DEF Locks, Clean
    <2>2. scan' \in [Run -> [pc : {"idle", "fire", "send"}, batch : Seq(Nat)]]
      BY <1>2, EmptySeq
    <2> QED  BY <1>1, <1>4, <1>5, <1>7, <2>1, <2>2 DEF FollowUpsInv, Types
  <1>9. Ranges'
    BY <1>1, <1>7 DEF FollowUpsInv, Ranges, FlowInRange
  <1>10. Locked'
    <2>1. Len(msgs') \in Nat
      BY <1>1 DEF FollowUpsInv, Types
    <2> QED  BY <1>2, <2>1, LockAssumption DEF Locked
  <1>11. Drains'
    BY <1>2 DEF Drains, Clean
  <1>12. Recorded' /\ Cold'
    BY <1>1, <1>5 DEF FollowUpsInv, Recorded, Cold, Earned
  <1>13. Chains'
    <2>1. \A r \in Run : scan'[r].pc = "idle"
      BY <1>2
    <2>2. \A j \in DOMAIN jobs' : /\ Pending(j)' => jobs'[j].drain = answered'
                                  /\ Earned(jobs[j].attempt, jobs[j].drain)'
      BY <1>1 DEF FollowUpsInv, Chains, Pending, Earned
    <2> QED  BY <2>1, <2>2 DEF Chains
  <1> QED  BY <1>8, <1>9, <1>10, <1>11, <1>12, <1>13 DEF FollowUpsInv

-----------------------------------------------------------------------------
(* Steps: the inbox commits *)

\* What a commit makes of the rows, of the talkflow and of the count of
\* answers, a first commit of the drain or a later one.
LEMMA CommittedRows ==
  ASSUME FollowUpsInv
  PROVE  /\ CommittedJobs \in Seq(Job) /\ Len(CommittedJobs) = Len(jobs)
         /\ Kept(jobs, CommittedJobs)
         /\ \A j \in DOMAIN jobs :
              /\ CommittedJobs[j].status = "completed" <=> jobs[j].status = "completed"
              /\ CommittedJobs[j].status = "pending" => CommittedJobs[j].drain = Answered
  <1>1. jobs \in Seq(Job) /\ tx.cancel \in BOOLEAN
    BY DEF FollowUpsInv, Types
  <1>2. CASE tx.cancel
    <2>1. CommittedJobs = CancelPending(jobs)
      BY <1>2 DEF CommittedJobs
    <2> QED  BY <1>1, <2>1, Cancelled DEF Kept
  <1>3. CASE ~tx.cancel
    <2>1. CommittedJobs = jobs /\ Answered = answered
      BY <1>3 DEF CommittedJobs, Answered
    <2> QED  BY <1>1, <2>1 DEF Kept, FollowUpsInv, Chains, Pending
  <1> QED  BY <1>2, <1>3

LEMMA AnsweredOf ==
  ASSUME FollowUpsInv
  PROVE  /\ Answered \in Nat /\ Answered >= answered /\ (inbox.pc # "idle" => Answered > 0)
         /\ CommittedFlow.status = "cold" => flow.status = "cold" /\ Answered = answered
  <1>1. answered \in Nat /\ tx.cancel \in BOOLEAN
    BY DEF FollowUpsInv, Types
  <1>2. Answered \in Nat /\ Answered >= answered /\ (inbox.pc # "idle" => Answered > 0)
    BY <1>1 DEF Answered, FollowUpsInv, Drains
  <1>3. CommittedFlow.status = "cold" => flow.status = "cold" /\ Answered = answered
    BY Committed DEF Answered
  <1> QED  BY <1>2, <1>3

\* The rows after a commit: those of the drain, and perhaps the first job of a
\* new chain.
LEMMA CommitKeeps ==
  ASSUME FollowUpsInv, UNCHANGED <<config, scan>>, answered' = Answered,
         faults' \in Nat, faults' >= faults,
         flow'.status = "cold" => CommittedFlow.status = "cold",
         jobs' \in Seq(Job), Len(jobs) <= Len(jobs'),
         \A j \in DOMAIN jobs : /\ jobs'[j] = CommittedJobs[j]
                                /\ audit'[j] = audit[j] /\ copies'[j] = copies[j],
         \A j \in DOMAIN jobs' \ DOMAIN jobs :
           /\ jobs'[j].attempt = 1 /\ jobs'[j].drain = Answered /\ jobs'[j].status = "pending"
           /\ audit'[j] = 0 /\ copies'[j] = 0
  PROVE  (Recorded /\ Chains /\ Cold)'
  <1>1. Kept(jobs, jobs')
    BY CommittedRows DEF Kept
  <1>2. \A j \in DOMAIN jobs : jobs'[j].status = "completed" <=> jobs[j].status = "completed"
    BY CommittedRows
  <1>3. Recorded'
    <2>1. ASSUME NEW j \in DOMAIN jobs
          PROVE  /\ audit'[j] = (IF jobs'[j].status = "completed" THEN 1 ELSE 0)
                 /\ faults' = 0 => copies'[j] <= audit'[j]
      <3>1. faults' = 0 => faults = 0
        BY DEF FollowUpsInv, Types
      <3>2. audit[j] = (IF jobs[j].status = "completed" THEN 1 ELSE 0)
            /\ (faults = 0 => copies[j] <= audit[j])
        BY DEF FollowUpsInv, Recorded
      <3>3. audit'[j] = audit[j] /\ copies'[j] = copies[j]
        OBVIOUS
      <3>4. jobs'[j].status = "completed" <=> jobs[j].status = "completed"
        BY <1>2
      <3> QED  BY <3>1, <3>2, <3>3, <3>4
    <2>2. ASSUME NEW j \in DOMAIN jobs' \ DOMAIN jobs
          PROVE  /\ audit'[j] = (IF jobs'[j].status = "completed" THEN 1 ELSE 0)
                 /\ faults' = 0 => copies'[j] <= audit'[j]
      <3>1. jobs'[j].status = "pending" /\ audit'[j] = 0 /\ copies'[j] = 0
        OBVIOUS
      <3> QED  BY <3>1
    <2> QED  BY <2>1, <2>2 DEF Recorded
  <1>4. Chains'
    <2>1. ASSUME NEW j \in DOMAIN jobs
          PROVE  /\ Pending(j)' => jobs'[j].drain = answered'
                 /\ Earned(jobs[j].attempt, jobs[j].drain)'
      <3>1. Earned(jobs[j].attempt, jobs[j].drain)'
        BY <1>1, ChainsStay
      <3>2. jobs'[j] = CommittedJobs[j] /\ answered' = Answered
        OBVIOUS
      <3>3. Pending(j)' => jobs'[j].drain = answered'
        BY <3>2, CommittedRows DEF Pending
      <3> QED  BY <3>1, <3>3
    <2>2. ASSUME NEW j \in DOMAIN jobs' \ DOMAIN jobs
          PROVE  /\ Pending(j)' => jobs'[j].drain = answered'
                 /\ Earned(jobs[j].attempt, jobs[j].drain)'
      <3>1. jobs'[j].attempt = 1 /\ jobs'[j].drain = answered'
        OBVIOUS
      <3> QED  BY <3>1 DEF Earned
    <2>3. ASSUME NEW r \in Run, scan'[r].pc = "send"
          PROVE  LET j == Head(scan'[r].batch)
                 IN jobs'[j].status \in {"pending", "cancelled"} /\ jobs'[j].drain = answered'
      <3> DEFINE j == Head(scan[r].batch)
      <3>1. lock.at = r
        BY <2>3 DEF FollowUpsInv, Locked
      <3>2. ~tx.cancel
        BY <3>1, LockAssumption DEF FollowUpsInv, Drains
      <3>3. CommittedJobs = jobs /\ Answered = answered
        BY <3>2 DEF CommittedJobs, Answered
      <3>4. j \in DOMAIN jobs
        BY <2>3, HeadOf
      <3>5. jobs[j].status \in {"pending", "cancelled"} /\ jobs[j].drain = answered
        BY <2>3 DEF FollowUpsInv, Chains
      <3> QED  BY <3>3, <3>4, <3>5
    <2> QED  BY <2>1, <2>2, <2>3 DEF Chains
  <1>5. Cold'
    BY <1>1, AnsweredOf, ColdStays
  <1> QED  BY <1>3, <1>4, <1>5

\* The faults that an outcome adds.
LEMMA NoteOf ==
  ASSUME NEW o \in SendResult, Note(o), faults \in 0..MaxFaults
  PROVE  /\ faults' \in 0..MaxFaults /\ faults' \in Nat /\ faults' >= faults
         /\ o.copies \in Nat
         /\ faults' = 0 => o.copies <= (IF o.result = "sent" THEN 1 ELSE 0)
  BY OutcomeOf, SendAssumption, BoundAssumption DEF Note

\* A message gets its status.
LEMMA MessageEnds ==
  ASSUME msgs \in Seq(Msg), NEW i \in DOMAIN msgs, NEW status \in MsgStatus
  PROVE  /\ [msgs EXCEPT ![i].status = status] \in Seq(Msg)
         /\ Len([msgs EXCEPT ![i].status = status]) = Len(msgs)
         /\ \A k \in DOMAIN msgs : [msgs EXCEPT ![i].status = status][k].at = msgs[k].at
  <1> DEFINE new == [msgs EXCEPT ![i].status = status]
  <1>1. new = [msgs EXCEPT ![i] = [msgs[i] EXCEPT !.status = status]]
    OBVIOUS
  <1>2. [msgs[i] EXCEPT !.status = status] \in Msg /\ [msgs[i] EXCEPT !.status = status].at = msgs[i].at
    <2>1. msgs[i] \in Msg
      BY MessagesOf
    <2> QED  BY <2>1 DEF Msg
  <1>3. new \in Seq(Msg) /\ Len(new) = Len(msgs)
    BY <1>1, <1>2, ExceptSeq
  <1>4. \A k \in DOMAIN msgs : new[k].at = msgs[k].at
    BY <1>1, <1>2
  <1> QED  BY <1>3, <1>4 DEF new

LEMMA RepliedKeeps == FollowUpsInv /\ Replied => FollowUpsInv'
  <1> SUFFICES ASSUME FollowUpsInv, Replied PROVE FollowUpsInv'
    OBVIOUS
  <1> DEFINE schedule == config.enabled /\ config.after # <<>>
             all == CommittedJobs
             i == inbox.msg
  <1>1. UNCHANGED <<config, now, wakes, lead, scan>> /\ Recycle("inbox")
    BY DEF Replied
  <1>2. PICK o \in SendResult : o.result = "sent" /\ Note(o)
    BY DEF Replied
  <1>3. faults' \in 0..MaxFaults /\ faults' \in Nat /\ faults' >= faults
    BY <1>2, NoteOf DEF FollowUpsInv, Types
  <1>4. inbox.pc = "send" /\ i \in DOMAIN msgs
    BY DEF Replied, FollowUpsInv, Locked
  <1>5. /\ inbox' = [pc |-> "fetch", msg |-> 0] /\ tx' = Clean
        /\ msgs' = [msgs EXCEPT ![i].status = "processed"]
        /\ flow' = [CommittedFlow EXCEPT !.lastLead = msgs[i].at]
        /\ answered' = Answered
        /\ jobs' = IF schedule THEN ScheduleNext(all, 1, answered') ELSE all
        /\ audit' = IF schedule THEN Append(audit, 0) ELSE audit
        /\ copies' = IF schedule THEN Append(copies, 0) ELSE copies
    BY DEF Replied, Commit
  <1>6. msgs' \in Seq(Msg) /\ Len(msgs') = Len(msgs) /\ \A k \in DOMAIN msgs : msgs'[k].at = msgs[k].at
    <2>1. msgs \in Seq(Msg) /\ "processed" \in MsgStatus
      BY DEF FollowUpsInv, Types, MsgStatus
    <2> QED  BY <1>4, <1>5, <2>1, MessageEnds
  <1>7. /\ flow' \in FlowRow /\ flow'.lastLead <= now /\ flow'.attempt <= config.max
        /\ flow'.status = CommittedFlow.status
    <2>1. CommittedFlow \in FlowRow /\ CommittedFlow.attempt <= config.max
      BY Committed DEF FlowInRange
    <2>2. msgs[i].at \in Nat /\ msgs[i].at <= now
      BY <1>4, MessagesOf DEF FollowUpsInv, Types, Ranges
    <2> QED  BY <1>5, <2>1, <2>2 DEF FlowRow
  <1>8. answered' \in Nat /\ answered' >= answered /\ answered' > 0
    BY <1>4, <1>5, AnsweredOf
  <1>9. audit \in Seq(Nat) /\ copies \in Seq(Nat) /\ jobs \in Seq(Job) /\ Len(audit) = Len(jobs) /\ Len(copies) = Len(jobs)
    BY DEF FollowUpsInv, Types, Ranges
  <1> DEFINE added == DOMAIN jobs' \ DOMAIN jobs
  <1>10. /\ jobs' \in Seq(Job) /\ Len(jobs) <= Len(jobs')
         /\ \A j \in DOMAIN jobs : jobs'[j] = all[j]
         /\ \A j \in added : /\ jobs'[j].attempt = 1 /\ jobs'[j].drain = answered'
                             /\ jobs'[j].status = "pending" /\ config.enabled
         /\ Len(jobs') = IF schedule THEN Len(jobs) + 1 ELSE Len(jobs)
    <2>1. all \in Seq(Job) /\ Len(all) = Len(jobs)
      BY CommittedRows
    <2>2. CASE schedule
      <3> DEFINE row == [attempt |-> 1, at |-> now + config.after[1], status |-> "pending", drain |-> answered']
      <3>1. row \in Job
        <4>1. config.after[1] \in Nat /\ now \in Nat
          BY <2>2, Configs DEF FollowUpsInv, Types
        <4> QED  BY <1>8, <4>1 DEF Job, JobStatus
      <3>2. row.attempt = 1 /\ row.drain = answered' /\ row.status = "pending"
        OBVIOUS
      <3>3. jobs' = Append(all, row)
        BY <1>5, <2>2 DEF ScheduleNext
      <3> HIDE DEF all, row
      <3>4. /\ jobs' \in Seq(Job) /\ Len(jobs') = Len(all) + 1
            /\ \A j \in DOMAIN all : jobs'[j] = all[j]
            /\ jobs'[Len(all) + 1] = row
        BY <2>1, <3>1, <3>3, Scheduled
      <3>5. \A j \in added : j = Len(all) + 1
        BY <1>9, <2>1, <3>4
      <3>6. DOMAIN all = DOMAIN jobs
        BY <1>9, <2>1
      <3> QED  BY <1>9, <2>1, <2>2, <3>2, <3>5, <3>6, <3>4
    <2>3. CASE ~schedule
      <3>1. jobs' = all /\ DOMAIN all = DOMAIN jobs
        BY <1>5, <1>9, <2>1, <2>3
      <3> QED  BY <1>9, <2>1, <2>3, <3>1
    <2> QED  BY <2>2, <2>3
  <1>11. /\ audit' \in Seq(Nat) /\ copies' \in Seq(Nat)
         /\ Len(audit') = Len(jobs') /\ Len(copies') = Len(jobs')
         /\ \A j \in DOMAIN jobs : audit'[j] = audit[j] /\ copies'[j] = copies[j]
         /\ \A j \in added : audit'[j] = 0 /\ copies'[j] = 0
    <2>1. CASE schedule
      <3>1. audit' = Append(audit, 0) /\ copies' = Append(copies, 0) /\ Len(jobs') = Len(jobs) + 1
        BY <1>5, <1>10, <2>1
      <3>2. /\ audit' \in Seq(Nat) /\ Len(audit') = Len(audit) + 1
            /\ \A j \in 1..Len(audit) : audit'[j] = audit[j]
            /\ audit'[Len(audit) + 1] = 0
        BY <1>9, <3>1, AppendProperties
      <3>3. /\ copies' \in Seq(Nat) /\ Len(copies') = Len(copies) + 1
            /\ \A j \in 1..Len(copies) : copies'[j] = copies[j]
            /\ copies'[Len(copies) + 1] = 0
        BY <1>9, <3>1, AppendProperties
      <3>4. \A j \in added : j = Len(jobs) + 1
        BY <1>9, <1>10, <3>1
      <3>5. DOMAIN jobs = 1..Len(jobs)
        BY <1>9
      <3> QED  BY <1>9, <3>1, <3>2, <3>3, <3>4, <3>5
    <2>2. CASE ~schedule
      <3>1. audit' = audit /\ copies' = copies /\ Len(jobs') = Len(jobs)
        BY <1>5, <1>10, <2>2
      <3>2. added = {}
        BY <1>9, <1>10, <3>1
      <3> QED  BY <1>9, <3>1, <3>2
    <2> QED  BY <2>1, <2>2
  <1>12. (Recorded /\ Chains /\ Cold)'
    BY <1>1, <1>3, <1>4, <1>5, <1>7, <1>10, <1>11, CommitKeeps
  <1>13. Types'
    <2>1. tx' \in [cancel : BOOLEAN, completed : BOOLEAN] /\ lock' \in Locks
      BY <1>1, <1>5, RecycleOf DEF Clean
    <2>2. inbox' \in [pc : {"idle", "fetch", "step", "send"}, msg : Nat]
      BY <1>5
    <2> QED  BY <1>1, <1>3, <1>6, <1>7, <1>8, <1>10, <1>11, <2>1, <2>2 DEF FollowUpsInv, Types
  <1>14. Ranges'
    <2>1. \A k \in DOMAIN msgs' : msgs'[k].at <= now'
      <3>1. DOMAIN msgs' = DOMAIN msgs
        BY <1>6 DEF FollowUpsInv, Types
      <3> QED  BY <1>1, <1>6, <3>1 DEF FollowUpsInv, Ranges
    <2>2. FlowInRange(flow)'
      BY <1>1, <1>7 DEF FlowInRange
    <2>3. ASSUME NEW j \in DOMAIN jobs
          PROVE  config.enabled /\ jobs'[j].attempt \in 1..config.max /\ jobs'[j].drain \in 1..answered'
      <3>1. jobs'[j].attempt = jobs[j].attempt /\ jobs'[j].drain = jobs[j].drain
        BY <1>10, CommittedRows DEF Kept
      <3>2. config.enabled /\ jobs[j].attempt \in 1..config.max /\ jobs[j].drain \in 1..answered
        BY DEF FollowUpsInv, Ranges
      <3>3. answered \in Nat
        BY DEF FollowUpsInv, Types
      <3> QED  BY <1>8, <3>1, <3>2, <3>3
    <2>4. ASSUME NEW j \in added
          PROVE  config.enabled /\ jobs'[j].attempt \in 1..config.max /\ jobs'[j].drain \in 1..answered'
      <3>1. config.max \in 1..10
        BY Configs DEF FollowUpsInv, Types
      <3> HIDE DEF added
      <3> QED  BY <1>8, <1>10, <3>1
    <2> QED  BY <1>1, <1>11, <2>1, <2>2, <2>3, <2>4 DEF Ranges
  <1>15. Locked'
    <2>1. DOMAIN jobs \subseteq DOMAIN jobs'
      BY <1>9, <1>10
    <2>2. Len(msgs') \in Nat
      BY <1>6 DEF FollowUpsInv, Types
    <2>3. \A r \in Run : /\ scan[r].pc = "send" <=> lock.at = r
                         /\ scan[r].pc # "idle" => scan[r].batch # <<>>
                         /\ \A k \in DOMAIN scan[r].batch : scan[r].batch[k] \in DOMAIN jobs'
      BY <2>1 DEF FollowUpsInv, Locked
    <2>4. (lock'.at = "free" <=> lock'.holds = 0) /\ \A r \in Run : lock'.at = r <=> lock.at = r
      BY <1>1, RecycleOf, LockAssumption DEF Other
    <2> QED  BY <1>1, <1>5, <2>2, <2>3, <2>4 DEF Locked
  <1>16. Drains'
    BY <1>5, <1>8 DEF Drains, Clean
  <1> QED  BY <1>12, <1>13, <1>14, <1>15, <1>16 DEF FollowUpsInv

LEMMA NotRepliedKeeps == FollowUpsInv /\ NotReplied => FollowUpsInv'
  <1> SUFFICES ASSUME FollowUpsInv, NotReplied PROVE FollowUpsInv'
    OBVIOUS
  <1> DEFINE i == inbox.msg
             raises == UNCHANGED <<msgs, lead, flow, jobs, answered>>
             commits == /\ answered' = Answered /\ jobs' = CommittedJobs /\ flow' = CommittedFlow
                        /\ \E status \in MsgStatus : msgs' = [msgs EXCEPT ![i].status = status]
                        /\ lead' \in {lead, "unreachable"}
  <1>1. UNCHANGED <<config, now, wakes, audit, scan, copies>> /\ EndInbox
    BY DEF NotReplied
  <1>2. PICK o \in SendResult : Note(o) /\ (raises \/ commits)
    <2>1. PICK o \in SendResult :
            /\ Note(o)
            /\ IF o.result = "raised" THEN raises
               ELSE /\ answered' = Answered
                    /\ \E template \in BOOLEAN :
                         Commit(IF template THEN "processed" ELSE "error", CommittedJobs, CommittedFlow)
                    /\ lead' = IF o.result = "RecipientUnreachable" THEN "unreachable" ELSE lead
      BY DEF NotReplied
    <2>2. "processed" \in MsgStatus /\ "error" \in MsgStatus
      BY DEF MsgStatus
    <2>3. CASE o.result = "raised"
      BY <2>1, <2>3
    <2>4. CASE o.result # "raised"
      <3>1. \E template \in BOOLEAN : Commit(IF template THEN "processed" ELSE "error", CommittedJobs, CommittedFlow)
        BY <2>1, <2>4
      <3>2. jobs' = CommittedJobs /\ flow' = CommittedFlow
            /\ \E status \in MsgStatus : msgs' = [msgs EXCEPT ![i].status = status]
        BY <2>2, <3>1 DEF Commit
      <3>3. answered' = Answered /\ lead' \in {lead, "unreachable"}
        BY <2>1, <2>4
      <3> QED  BY <2>1, <3>2, <3>3
    <2> QED  BY <2>3, <2>4
  <1>3. faults' \in 0..MaxFaults /\ faults' \in Nat /\ faults' >= faults
    BY <1>2, NoteOf DEF FollowUpsInv, Types
  <1>4. i \in DOMAIN msgs
    BY DEF NotReplied, FollowUpsInv, Locked
  <1>5. jobs \in Seq(Job) /\ msgs \in Seq(Msg) /\ answered \in Nat
    BY DEF FollowUpsInv, Types
  <1>6. CASE raises
    <2>1. (Ranges /\ Locked /\ Drains)'
      BY <1>1, <1>6, EndInboxKeeps
    <2>2. (Recorded /\ Chains /\ Cold)'
      BY <1>1, <1>3, <1>6, Untouched
    <2>3. Types'
      BY <1>1, <1>3, <1>6, EndInboxTypes DEF FollowUpsInv, Types
    <2> QED  BY <2>1, <2>2, <2>3 DEF FollowUpsInv
  <1>7. CASE commits
    <2>1. msgs' \in Seq(Msg) /\ Len(msgs') = Len(msgs) /\ \A k \in DOMAIN msgs : msgs'[k].at = msgs[k].at
      <3>1. PICK status \in MsgStatus : msgs' = [msgs EXCEPT ![i].status = status]
        BY <1>7
      <3> HIDE DEF i
      <3> QED  BY <1>4, <1>5, <3>1, MessageEnds
    <2>2. /\ jobs' \in Seq(Job) /\ Len(jobs') = Len(jobs) /\ DOMAIN jobs' = DOMAIN jobs
          /\ \A j \in DOMAIN jobs : jobs'[j] = CommittedJobs[j]
                                    /\ jobs'[j].attempt = jobs[j].attempt /\ jobs'[j].drain = jobs[j].drain
      <3>1. jobs' = CommittedJobs
        BY <1>7
      <3> QED  BY <1>5, <3>1, CommittedRows DEF Kept
    <2>3. flow' \in FlowRow /\ flow'.lastLead <= now /\ flow'.attempt <= config.max
      BY <1>7, Committed DEF FlowInRange
    <2>4. answered' \in Nat /\ answered' >= answered
      BY <1>7, AnsweredOf
    <2>5. (Recorded /\ Chains /\ Cold)'
      <3>1. flow' = CommittedFlow /\ answered' = Answered
        BY <1>7
      <3> QED  BY <1>1, <1>3, <2>2, <3>1, CommitKeeps
    <2>6. Types'
      <3>1. lead' \in {"active", "unreachable"}
        BY <1>7 DEF FollowUpsInv, Types
      <3> QED  BY <1>1, <1>3, <2>1, <2>2, <2>3, <2>4, <3>1, EndInboxTypes DEF FollowUpsInv, Types
    <2>7. /\ inbox' = [pc |-> "idle", msg |-> 0] /\ tx' = Clean
          /\ lock'.at = "free" <=> lock'.holds = 0
          /\ lock'.at # "inbox" /\ \A r \in Run : lock'.at = r <=> lock.at = r
      BY <1>1, UnlockOf, LockAssumption DEF EndInbox, Other
    <2>8. Ranges'
      <3>1. \A k \in DOMAIN msgs' : msgs'[k].at <= now'
        <4>1. DOMAIN msgs' = DOMAIN msgs
          BY <1>5, <2>1
        <4> QED  BY <1>1, <2>1, <4>1 DEF FollowUpsInv, Ranges
      <3>2. FlowInRange(flow)'
        BY <1>1, <2>3 DEF FlowInRange
      <3>3. ASSUME NEW j \in DOMAIN jobs
            PROVE  config.enabled /\ jobs'[j].attempt \in 1..config.max /\ jobs'[j].drain \in 1..answered'
        <4>1. config.enabled /\ jobs[j].attempt \in 1..config.max /\ jobs[j].drain \in 1..answered
          BY DEF FollowUpsInv, Ranges
        <4> QED  BY <1>5, <2>2, <2>4, <4>1
      <3>4. Len(audit') = Len(jobs') /\ Len(copies') = Len(jobs')
        BY <1>1, <2>2 DEF FollowUpsInv, Ranges
      <3> QED  BY <1>1, <2>2, <3>1, <3>2, <3>3, <3>4 DEF Ranges
    <2>9. Locked'
      <3>1. Len(msgs') \in Nat
        BY <1>5, <2>1
      <3> QED  BY <1>1, <2>2, <2>7, <3>1 DEF FollowUpsInv, Locked
    <2>10. Drains'
      BY <2>7 DEF Drains, Clean
    <2> QED  BY <2>5, <2>6, <2>8, <2>9, <2>10 DEF FollowUpsInv
  <1> QED  BY <1>2, <1>6, <1>7

-----------------------------------------------------------------------------
(* Steps: the scanner *)

\* The batch without its head; a run that is done with a job is without the
\* lock, though the lock may have stayed behind.
LEMMA RunGoesOn ==
  ASSUME FollowUpsInv, NEW r \in Run, NextJob(r), scan[r].pc # "idle",
         UNCHANGED <<msgs, inbox, tx, answered>>, DOMAIN jobs \subseteq DOMAIN jobs',
         lock' \in Locks, lock'.at = "free" <=> lock'.holds = 0, lock'.at # r,
         \A y \in Other(r) : lock'.at = y <=> lock.at = y
  PROVE  /\ scan' \in [Run -> [pc : {"idle", "fire", "send"}, batch : Seq(Nat)]]
         /\ \A q \in Run : scan'[q].pc = "send" => lock.at = q /\ scan'[q] = scan[q]
         /\ Locked' /\ Drains'
  <1> DEFINE rest == Tail(scan[r].batch)
             next == [pc |-> IF rest = <<>> THEN "idle" ELSE "fire", batch |-> rest]
  <1>1. /\ scan \in [Run -> [pc : {"idle", "fire", "send"}, batch : Seq(Nat)]]
        /\ scan[r].batch \in Seq(Nat) /\ scan[r].batch # <<>>
        /\ \A i \in DOMAIN scan[r].batch : scan[r].batch[i] \in DOMAIN jobs
    BY DEF FollowUpsInv, Types, Locked
  <1>2. rest \in Seq(Nat) /\ \A i \in DOMAIN rest : rest[i] \in DOMAIN jobs
    <2>1. /\ rest \in Seq(Nat) /\ Len(rest) = Len(scan[r].batch) - 1
          /\ \A i \in 1..Len(rest) : rest[i] = scan[r].batch[i + 1]
      BY <1>1, HeadTailProperties
    <2>2. \A i \in DOMAIN rest : i + 1 \in DOMAIN scan[r].batch /\ rest[i] = scan[r].batch[i + 1]
      BY <1>1, <2>1
    <2> QED  BY <1>1, <2>1, <2>2
  <1>3. scan' = [scan EXCEPT ![r] = next]
    BY DEF NextJob
  <1>4. next \in [pc : {"idle", "fire", "send"}, batch : Seq(Nat)]
    BY <1>2
  <1>5. next.pc # "send" /\ (next.pc # "idle" => next.batch # <<>>) /\ next.batch = rest
    OBVIOUS
  <1> HIDE DEF next, rest
  <1>6. scan'[r] = next /\ \A q \in Run \ {r} : scan'[q] = scan[q]
    BY <1>1, <1>3
  <1>7. scan' \in [Run -> [pc : {"idle", "fire", "send"}, batch : Seq(Nat)]]
    BY <1>1, <1>3, <1>4
  <1>8. \A q \in Run : scan'[q].pc = "send" => lock.at = q /\ scan'[q] = scan[q]
    BY <1>5, <1>6 DEF FollowUpsInv, Locked
  <1>9. (lock'.at = "inbox" <=> lock.at = "inbox") /\ \A q \in Run \ {r} : lock'.at = q <=> lock.at = q
    BY LockAssumption DEF Other
  <1>10. Locked'
    <2>1. ASSUME NEW q \in Run
          PROVE  /\ scan'[q].pc = "send" <=> lock'.at = q
                 /\ scan'[q].pc # "idle" => scan'[q].batch # <<>>
                 /\ \A i \in DOMAIN scan'[q].batch : scan'[q].batch[i] \in DOMAIN jobs'
      <3>1. CASE q = r
        BY <1>2, <1>5, <1>6, <1>9, <3>1
      <3>2. CASE q # r
        <4>1. /\ scan[q].pc = "send" <=> lock.at = q
              /\ scan[q].pc # "idle" => scan[q].batch # <<>>
              /\ \A i \in DOMAIN scan[q].batch : scan[q].batch[i] \in DOMAIN jobs
          BY DEF FollowUpsInv, Locked
        <4> QED  BY <1>6, <1>9, <3>2, <4>1
      <3> QED  BY <3>1, <3>2
    <2>2. (lock.at = "inbox" => inbox.pc # "idle")'
      BY <1>9 DEF FollowUpsInv, Locked
    <2> QED  BY <2>1, <2>2 DEF FollowUpsInv, Locked
  <1>11. Drains'
    BY <1>9 DEF FollowUpsInv, Drains
  <1> QED  BY <1>7, <1>8, <1>10, <1>11

\* Rows may end without having been completed, and templates go out in doubt.
LEMMA RowsEnd ==
  ASSUME FollowUpsInv, UNCHANGED <<config, now, msgs, tx, flow, audit, answered>>,
         jobs' \in Seq(Job), Len(jobs') = Len(jobs), copies' \in Seq(Nat), Len(copies') = Len(copies),
         \A j \in DOMAIN jobs : /\ jobs'[j].attempt = jobs[j].attempt /\ jobs'[j].drain = jobs[j].drain
                                /\ jobs'[j].status = "completed" <=> jobs[j].status = "completed"
                                /\ jobs'[j].status = "pending" => jobs[j].status = "pending",
         faults' = 0 => faults = 0 /\ \A j \in DOMAIN jobs : copies'[j] = copies[j],
         \A r \in Run : scan'[r].pc = "send" =>
           LET j == Head(scan'[r].batch)
           IN jobs'[j].status \in {"pending", "cancelled"} /\ jobs'[j].drain = answered
  PROVE  (Ranges /\ Recorded /\ Chains /\ Cold)'
  <1>1. DOMAIN jobs' = DOMAIN jobs
    BY DEF FollowUpsInv, Types
  <1>2. Kept(jobs, jobs')
    <2>1. Len(jobs) \in Nat
      BY DEF FollowUpsInv, Types
    <2> QED  BY <2>1 DEF Kept
  <1>3. Ranges'
    <2>1. Len(audit') = Len(jobs') /\ Len(copies') = Len(jobs')
      BY DEF FollowUpsInv, Ranges
    <2> QED  BY <1>1, <2>1 DEF FollowUpsInv, Ranges, FlowInRange
  <1>4. Recorded'
    BY <1>1 DEF FollowUpsInv, Recorded
  <1>5. Chains'
    <2>1. \A j \in DOMAIN jobs' : Earned(jobs[j].attempt, jobs[j].drain)'
      BY <1>1, <1>2, ChainsStay
    <2>2. \A j \in DOMAIN jobs' : Pending(j)' => jobs'[j].drain = answered'
      BY <1>1 DEF FollowUpsInv, Chains, Pending
    <2> QED  BY <2>1, <2>2 DEF Chains
  <1>6. Cold'
    BY <1>2, ColdStays
  <1> QED  BY <1>3, <1>4, <1>5, <1>6

\* What a refusal says of its job.
LEMMA RefusalOf ==
  ASSUME NEW j, Refusal(j) # "ignored"
  PROVE  Refusal(j) \in {"none", "cancelled", "error"} /\ Pending(j)
  BY DEF Refusal

LEMMA FireKeeps == ASSUME NEW r \in Run, FollowUpsInv, Fire(r) PROVE FollowUpsInv'
  <1> DEFINE j == Head(scan[r].batch)
  <1>1. UNCHANGED <<config, now, wakes, msgs, lead, flow, audit, inbox, tx, copies, answered, faults>>
    BY DEF Fire, history
  <1>2. scan[r].pc = "fire" /\ lock.at # r
    BY DEF Fire, FollowUpsInv, Locked
  <1>3. j \in DOMAIN jobs /\ jobs \in Seq(Job) /\ copies \in Seq(Nat)
    BY <1>2, HeadOf DEF FollowUpsInv, Types
  <1> DEFINE ends == jobs' = jobs \/ (Pending(j) /\ \E s \in {"cancelled", "error"} : jobs' = [jobs EXCEPT ![j].status = s])
             goes == NextJob(r) /\ ((lock' = lock /\ jobs' = jobs) \/ (LockBriefly /\ ends))
             sends == TryLock(r) /\ jobs' = jobs /\ Pending(j) /\ scan' = [scan EXCEPT ![r].pc = "send"]
  <1>4. goes \/ sends
    <2>1. CASE NextJob(r) /\ UNCHANGED <<jobs, lock>>
      BY <2>1
    <2>2. CASE Refusal(j) = "none" /\ TryLock(r) /\ scan' = [scan EXCEPT ![r].pc = "send"] /\ UNCHANGED jobs
      <3>1. Pending(j)
        BY <2>2, RefusalOf
      <3> QED  BY <2>2, <3>1
    <2>3. CASE /\ Refusal(j) # "none" /\ LockBriefly /\ NextJob(r)
               /\ jobs' = IF Refusal(j) = "ignored" THEN jobs ELSE [jobs EXCEPT ![j].status = Refusal(j)]
      <3>1. ends
        BY <2>3, RefusalOf
      <3> QED  BY <2>3, <3>1
    <2> QED  BY <2>1, <2>2, <2>3 DEF Fire
  <1>5. CASE goes
    <2>0. /\ lock' \in Locks /\ (lock'.at = "free" <=> lock'.holds = 0) /\ lock'.at # r
          /\ \A y \in Other(r) : lock'.at = y <=> lock.at = y
          /\ \A q \in Run : lock.at = q => jobs' = jobs
      <3>1. CASE lock' = lock /\ jobs' = jobs
        BY <1>2, <3>1 DEF FollowUpsInv, Types, Locked
      <3>2. CASE LockBriefly /\ ends
        BY <3>2, LockBrieflyOf DEF Other
      <3> QED  BY <1>5, <3>1, <3>2
    <2>1. /\ jobs' \in Seq(Job) /\ Len(jobs') = Len(jobs)
          /\ \A i \in DOMAIN jobs : /\ jobs'[i].attempt = jobs[i].attempt /\ jobs'[i].drain = jobs[i].drain
                                    /\ jobs'[i].status = "completed" <=> jobs[i].status = "completed"
                                    /\ jobs'[i].status = "pending" => jobs[i].status = "pending"
      <3>1. CASE jobs' = jobs
        BY <1>3, <3>1
      <3>2. CASE jobs' # jobs
        <4>1. PICK s \in {"cancelled", "error"} : jobs' = [jobs EXCEPT ![j].status = s]
          BY <1>5, <3>2
        <4>2. s \in JobStatus /\ jobs[j].status = "pending"
          BY <1>5, <3>2 DEF JobStatus, Pending
        <4> HIDE DEF j
        <4>3. /\ jobs' \in Seq(Job) /\ Len(jobs') = Len(jobs)
              /\ \A i \in DOMAIN jobs : /\ jobs'[i].attempt = jobs[i].attempt /\ jobs'[i].drain = jobs[i].drain
                                        /\ jobs'[i].status = IF i = j THEN s ELSE jobs[i].status
          BY <1>3, <4>1, <4>2, Marked
        <4> QED  BY <4>2, <4>3
      <3> QED  BY <3>1, <3>2
    <2>2. DOMAIN jobs \subseteq DOMAIN jobs'
      BY <1>3, <2>1
    <2>3. /\ scan' \in [Run -> [pc : {"idle", "fire", "send"}, batch : Seq(Nat)]]
          /\ \A q \in Run : scan'[q].pc = "send" => lock.at = q /\ scan'[q] = scan[q]
          /\ Locked' /\ Drains'
      BY <1>1, <1>2, <1>5, <2>0, <2>2, RunGoesOn
    <2>4. Types'
      BY <1>1, <2>0, <2>1, <2>3 DEF FollowUpsInv, Types
    <2>5. ASSUME NEW q \in Run, scan'[q].pc = "send"
          PROVE  LET i == Head(scan'[q].batch)
                 IN jobs'[i].status \in {"pending", "cancelled"} /\ jobs'[i].drain = answered
      <3>1. lock.at = q /\ scan'[q] = scan[q]
        BY <2>3, <2>5
      <3>2. jobs' = jobs
        BY <2>0, <3>1
      <3>3. LET i == Head(scan[q].batch)
            IN jobs[i].status \in {"pending", "cancelled"} /\ jobs[i].drain = answered
        BY <2>5, <3>1 DEF FollowUpsInv, Chains
      <3> QED  BY <3>1, <3>2, <3>3
    <2>6. (Ranges /\ Recorded /\ Chains /\ Cold)'
      BY <1>1, <1>3, <2>1, <2>5, RowsEnd
    <2> QED  BY <2>3, <2>4, <2>6 DEF FollowUpsInv
  <1>6. CASE sends
    <2>0. /\ lock' \in Locks /\ lock'.at = r /\ lock'.holds # 0 /\ lock.at \in {"free", "idle"}
      BY <1>6, TryLockOf
    <2>1. /\ scan' \in [Run -> [pc : {"idle", "fire", "send"}, batch : Seq(Nat)]]
          /\ scan'[r].pc = "send" /\ scan'[r].batch = scan[r].batch
          /\ \A q \in Run \ {r} : scan'[q] = scan[q]
      BY <1>6 DEF FollowUpsInv, Types
    <2>2. Types'
      BY <1>1, <1>6, <2>0, <2>1 DEF FollowUpsInv, Types
    <2>3. Locked'
      <3>1. /\ lock'.at # "inbox" /\ lock'.at # "free" /\ lock.at # "inbox"
            /\ \A q \in Run : lock.at # q
        BY <2>0, LockAssumption
      <3>2. ASSUME NEW q \in Run
            PROVE  /\ scan'[q].pc = "send" <=> lock'.at = q
                   /\ scan'[q].pc # "idle" => scan'[q].batch # <<>>
                   /\ \A i \in DOMAIN scan'[q].batch : scan'[q].batch[i] \in DOMAIN jobs
        <4>1. /\ scan[q].pc # "send"
              /\ scan[q].pc # "idle" => scan[q].batch # <<>>
              /\ \A i \in DOMAIN scan[q].batch : scan[q].batch[i] \in DOMAIN jobs
          BY <3>1 DEF FollowUpsInv, Locked
        <4> QED  BY <1>2, <2>0, <2>1, <4>1
      <3> QED  BY <1>1, <1>6, <2>0, <3>1, <3>2 DEF FollowUpsInv, Locked
    <2>4. Drains'
      <3>1. lock.at # "inbox"
        BY <2>0
      <3> QED  BY <1>1, <3>1 DEF FollowUpsInv, Drains
    <2>5. ASSUME NEW q \in Run, scan'[q].pc = "send"
          PROVE  LET i == Head(scan'[q].batch)
                 IN jobs'[i].status \in {"pending", "cancelled"} /\ jobs'[i].drain = answered
      <3>1. q = r
        BY <2>0, <2>1, <2>5, LockAssumption DEF FollowUpsInv, Locked
      <3>2. jobs[j].status = "pending" /\ jobs[j].drain = answered
        BY <1>3, <1>6 DEF FollowUpsInv, Chains, Pending
      <3> QED  BY <1>6, <2>1, <3>1, <3>2
    <2>6. (Ranges /\ Recorded /\ Chains /\ Cold)'
      BY <1>1, <1>3, <1>6, <2>5, RowsEnd
    <2> QED  BY <2>2, <2>3, <2>4, <2>6 DEF FollowUpsInv
  <1> QED  BY <1>4, <1>5, <1>6

\* A run that ends a send had the lock, and its job was there to be sent.
LEMMA SendOf ==
  ASSUME FollowUpsInv, NEW r \in Run, SendEnds(r)
  PROVE  LET j == Head(scan[r].batch) IN
         /\ scan[r].pc = "send" /\ NextJob(r) /\ lock.at = r /\ Unlock(r)
         /\ j \in DOMAIN jobs /\ jobs \in Seq(Job) /\ audit \in Seq(Nat) /\ copies \in Seq(Nat)
         /\ DOMAIN audit = DOMAIN jobs /\ DOMAIN copies = DOMAIN jobs
         /\ jobs[j].status # "completed" /\ jobs[j].drain = answered
         /\ audit[j] = 0 /\ (faults = 0 => copies[j] <= 0)
  <1> DEFINE j == Head(scan[r].batch)
  <1>1. scan[r].pc = "send" /\ NextJob(r) /\ lock.at = r /\ Unlock(r)
    BY DEF SendEnds, FollowUpsInv, Locked
  <1>2. j \in DOMAIN jobs
    BY <1>1, HeadOf
  <1>3. jobs \in Seq(Job) /\ audit \in Seq(Nat) /\ copies \in Seq(Nat)
        /\ DOMAIN audit = DOMAIN jobs /\ DOMAIN copies = DOMAIN jobs
    BY DEF FollowUpsInv, Types, Ranges
  <1>4. jobs[j].status \in {"pending", "cancelled"} /\ jobs[j].drain = answered
    BY <1>1 DEF FollowUpsInv, Chains
  <1>5. audit[j] = 0 /\ (faults = 0 => copies[j] <= 0)
    BY <1>2, <1>4 DEF FollowUpsInv, Recorded
  <1> QED  BY <1>1, <1>2, <1>3, <1>4, <1>5

LEMMA TemplateFailsKeeps == ASSUME NEW r \in Run, FollowUpsInv, TemplateFails(r) PROVE FollowUpsInv'
  <1> DEFINE j == Head(scan[r].batch)
  <1>1. UNCHANGED <<config, now, wakes, msgs, flow, audit, inbox, tx, answered>>
    BY DEF TemplateFails
  <1>2. /\ scan[r].pc = "send" /\ NextJob(r) /\ lock.at = r /\ Unlock(r)
        /\ j \in DOMAIN jobs /\ jobs \in Seq(Job) /\ copies \in Seq(Nat)
        /\ DOMAIN copies = DOMAIN jobs /\ jobs[j].status # "completed"
    BY SendOf DEF TemplateFails
  <1>3. PICK o \in SendResult :
          /\ o.result # "sent" /\ Note(o)
          /\ copies' = [copies EXCEPT ![j] = @ + o.copies]
          /\ lead' \in {lead, "unreachable"}
          /\ \/ jobs' = jobs
             \/ jobs' = [CancelPending(jobs) EXCEPT ![j].status = "error"]
             \/ jobs' = [jobs EXCEPT ![j].status = "error"]
    BY DEF TemplateFails
  <1>4. /\ faults' \in 0..MaxFaults /\ faults' \in Nat /\ faults' >= faults
        /\ o.copies \in Nat /\ (faults' = 0 => o.copies <= 0)
    BY <1>3, NoteOf DEF FollowUpsInv, Types
  <1> HIDE DEF j
  <1>5. /\ jobs' \in Seq(Job) /\ Len(jobs') = Len(jobs)
        /\ \A i \in DOMAIN jobs : /\ jobs'[i].attempt = jobs[i].attempt /\ jobs'[i].drain = jobs[i].drain
                                  /\ jobs'[i].status = "completed" <=> jobs[i].status = "completed"
                                  /\ jobs'[i].status = "pending" => jobs[i].status = "pending"
    <2>1. "error" \in JobStatus
      BY DEF JobStatus
    <2>2. CASE jobs' = jobs
      BY <1>2, <2>2
    <2>3. CASE jobs' = [jobs EXCEPT ![j].status = "error"]
      <3>1. /\ jobs' \in Seq(Job) /\ Len(jobs') = Len(jobs)
            /\ \A i \in DOMAIN jobs : /\ jobs'[i].attempt = jobs[i].attempt /\ jobs'[i].drain = jobs[i].drain
                                      /\ jobs'[i].status = IF i = j THEN "error" ELSE jobs[i].status
        BY <1>2, <2>1, <2>3, Marked
      <3> QED  BY <1>2, <3>1
    <2>4. CASE jobs' = [CancelPending(jobs) EXCEPT ![j].status = "error"]
      <3> DEFINE all == CancelPending(jobs)
      <3>1. /\ all \in Seq(Job) /\ Len(all) = Len(jobs) /\ DOMAIN all = DOMAIN jobs
            /\ \A i \in DOMAIN jobs : /\ all[i].attempt = jobs[i].attempt /\ all[i].drain = jobs[i].drain
                                      /\ all[i].status = IF jobs[i].status = "pending" THEN "cancelled" ELSE jobs[i].status
        BY <1>2, Cancelled
      <3> HIDE DEF all
      <3>2. jobs' = [all EXCEPT ![j].status = "error"]
        BY <2>4 DEF all
      <3>3. /\ jobs' \in Seq(Job) /\ Len(jobs') = Len(all)
            /\ \A i \in DOMAIN all : /\ jobs'[i].attempt = all[i].attempt /\ jobs'[i].drain = all[i].drain
                                     /\ jobs'[i].status = IF i = j THEN "error" ELSE all[i].status
        BY <1>2, <2>1, <3>1, <3>2, Marked
      <3> QED  BY <1>2, <3>1, <3>3
    <2> QED  BY <1>3, <2>2, <2>3, <2>4
  <1>6. copies' \in Seq(Nat) /\ Len(copies') = Len(copies)
        /\ \A i \in DOMAIN copies : copies'[i] = copies[i] + (IF i = j THEN o.copies ELSE 0)
    <2>1. copies[j] \in Nat /\ copies[j] + o.copies \in Nat /\ \A i \in DOMAIN copies : copies[i] \in Nat
      <3>1. \A i \in DOMAIN copies : copies[i] \in Nat
        BY <1>2, ElementOfSeq
      <3> QED  BY <1>2, <1>4, <3>1
    <2>2. copies' \in Seq(Nat) /\ Len(copies') = Len(copies)
      BY <1>2, <1>3, <2>1, ExceptSeq
    <2> QED  BY <1>2, <1>3, <2>1, <2>2
  <1>7. faults' = 0 => faults = 0 /\ \A i \in DOMAIN jobs : copies'[i] = copies[i]
    <2>1. \A i \in DOMAIN copies : copies[i] \in Nat
      BY <1>2, ElementOfSeq
    <2>2. faults' = 0 => faults = 0 /\ o.copies = 0
      BY <1>4 DEF FollowUpsInv, Types
    <2>3. ASSUME faults' = 0, NEW i \in DOMAIN copies PROVE copies'[i] = copies[i]
      BY <1>6, <2>1, <2>2, <2>3
    <2> QED  BY <1>2, <2>2, <2>3
  <1>8. DOMAIN jobs \subseteq DOMAIN jobs'
    BY <1>2, <1>5
  <1>9. /\ scan' \in [Run -> [pc : {"idle", "fire", "send"}, batch : Seq(Nat)]]
        /\ \A q \in Run : scan'[q].pc = "send" => lock.at = q /\ scan'[q] = scan[q]
        /\ Locked' /\ Drains'
    BY <1>1, <1>2, <1>8, UnlockOf, RunGoesOn
  <1>10. lock' \in Locks /\ \A q \in Run : scan'[q].pc # "send"
    <2>1. lock' \in Locks /\ lock'.at # r /\ \A y \in Other(r) : lock'.at = y <=> lock.at = y
      BY <1>2, UnlockOf
    <2> QED  BY <1>2, <1>9, <2>1 DEF Locked, Other
  <1>11. Types'
    <2>1. lead' \in {"active", "unreachable"}
      BY <1>3 DEF FollowUpsInv, Types
    <2> QED  BY <1>1, <1>4, <1>5, <1>6, <1>9, <1>10, <2>1 DEF FollowUpsInv, Types
  <1>12. (Ranges /\ Recorded /\ Chains /\ Cold)'
    BY <1>1, <1>5, <1>6, <1>7, <1>10, RowsEnd
  <1> QED  BY <1>9, <1>11, <1>12 DEF FollowUpsInv

LEMMA TemplateSentKeeps == ASSUME NEW r \in Run, FollowUpsInv, TemplateSent(r) PROVE FollowUpsInv'
  <1> DEFINE j == Head(scan[r].batch)
             n == jobs[j].attempt
             done == [jobs EXCEPT ![j].status = "completed"]
  <1>1. UNCHANGED <<config, now, wakes, msgs, lead, inbox, tx, answered>>
    BY DEF TemplateSent
  <1>2. /\ scan[r].pc = "send" /\ NextJob(r) /\ lock.at = r /\ Unlock(r)
        /\ j \in DOMAIN jobs /\ jobs \in Seq(Job) /\ audit \in Seq(Nat) /\ copies \in Seq(Nat)
        /\ DOMAIN audit = DOMAIN jobs /\ DOMAIN copies = DOMAIN jobs
        /\ jobs[j].status # "completed" /\ jobs[j].drain = answered
        /\ audit[j] = 0 /\ (faults = 0 => copies[j] <= 0)
    BY SendOf DEF TemplateSent
  <1>3. PICK o \in SendResult :
          /\ o.result = "sent" /\ Note(o)
          /\ audit' = [audit EXCEPT ![j] = @ + 1] \o (IF MarkCold(n) THEN <<>> ELSE <<0>>)
          /\ copies' = [copies EXCEPT ![j] = @ + o.copies] \o (IF MarkCold(n) THEN <<>> ELSE <<0>>)
    BY DEF TemplateSent
  <1>4. /\ jobs' = IF MarkCold(n) THEN done ELSE ScheduleNext(done, n + 1, jobs[j].drain)
        /\ flow' = [flow EXCEPT !.attempt = n, !.status = IF MarkCold(n) THEN "cold" ELSE @]
    BY DEF TemplateSent
  <1>5. /\ faults' \in 0..MaxFaults /\ faults' \in Nat /\ faults' >= faults
        /\ o.copies \in Nat /\ (faults' = 0 => o.copies <= 1)
    BY <1>3, NoteOf DEF FollowUpsInv, Types
  <1>6. /\ n \in 1..config.max /\ n \in Nat /\ config.max \in Nat /\ config.enabled
        /\ config.after \in Seq(Nat) /\ config.max <= Len(config.after)
        /\ answered \in Nat /\ answered > 0 /\ now \in Nat
    <2>1. config.enabled /\ n \in 1..config.max /\ jobs[j].drain \in 1..answered
      BY <1>2 DEF FollowUpsInv, Ranges
    <2>2. answered \in Nat /\ now \in Nat /\ config \in Config
      BY DEF FollowUpsInv, Types
    <2> HIDE DEF n
    <2> QED  BY <1>2, <2>1, <2>2, Configs
  <1> DEFINE cold == MarkCold(n)
             more == IF cold THEN 0 ELSE 1
  <1>7. cold \in BOOLEAN /\ (cold => n = config.max) /\ (~cold => n + 1 <= config.max)
    <2> HIDE DEF n
    <2> QED  BY <1>6 DEF MarkCold
  <1> HIDE DEF j
  <1>8. /\ done \in Seq(Job) /\ Len(done) = Len(jobs) /\ DOMAIN done = DOMAIN jobs
        /\ \A i \in DOMAIN jobs : /\ done[i].attempt = jobs[i].attempt /\ done[i].drain = jobs[i].drain
                                  /\ done[i].status = IF i = j THEN "completed" ELSE jobs[i].status
    <2>1. "completed" \in JobStatus
      BY DEF JobStatus
    <2>2. /\ done \in Seq(Job) /\ Len(done) = Len(jobs)
          /\ \A i \in DOMAIN jobs : /\ done[i].attempt = jobs[i].attempt /\ done[i].drain = jobs[i].drain
                                    /\ done[i].status = IF i = j THEN "completed" ELSE jobs[i].status
      BY <1>2, <2>1, Marked
    <2> HIDE DEF done
    <2> QED  BY <1>2, <2>2
  <1> HIDE DEF done, n, cold
  <1>9. /\ jobs' \in Seq(Job) /\ Len(jobs') = Len(jobs) + more
        /\ \A i \in DOMAIN jobs : jobs'[i] = done[i]
        /\ ~cold => /\ jobs'[Len(jobs) + 1].attempt = n + 1 /\ jobs'[Len(jobs) + 1].drain = answered
                    /\ jobs'[Len(jobs) + 1].status = "pending"
    <2>1. CASE cold
      <3>1. jobs' = done
        BY <1>4, <2>1 DEF cold
      <3> QED  BY <1>2, <1>8, <2>1, <3>1
    <2>2. CASE ~cold
      <3> DEFINE row == [attempt |-> n + 1, at |-> now + config.after[n + 1], status |-> "pending",
                         drain |-> jobs[j].drain]
      <3>1. row \in Job
        <4>1. n + 1 \in 1..Len(config.after)
          BY <1>6, <1>7, <2>2
        <4>2. config.after[n + 1] \in Nat
          BY <1>6, <4>1, ElementOfSeq
        <4>3. jobs[j].drain \in Nat /\ n + 1 \in Nat /\ now + config.after[n + 1] \in Nat
          <5>1. jobs[j].drain \in Nat
            BY <1>2, <1>6
          <5>2. n + 1 \in Nat
            BY <1>6
          <5>3. now + config.after[n + 1] \in Nat
            <6> DEFINE after == config.after[n + 1]
            <6>1. after \in Nat /\ now \in Nat
              BY <1>6, <4>2
            <6> HIDE DEF after
            <6>2. now + after \in Nat
              BY <6>1
            <6> QED  BY <6>2 DEF after
          <5> QED  BY <5>1, <5>2, <5>3
        <4> QED  BY <4>3 DEF Job, JobStatus
      <3>2. row.attempt = n + 1 /\ row.drain = answered /\ row.status = "pending"
        BY <1>2
      <3>3. jobs' = Append(done, row)
        BY <1>4, <2>2 DEF cold, ScheduleNext
      <3> HIDE DEF row
      <3>4. /\ jobs' \in Seq(Job) /\ Len(jobs') = Len(done) + 1
            /\ \A i \in DOMAIN done : jobs'[i] = done[i]
            /\ jobs'[Len(done) + 1] = row
        BY <1>8, <3>1, <3>3, Scheduled
      <3> QED  BY <1>8, <2>2, <3>2, <3>4
    <2> QED  BY <1>7, <2>1, <2>2
  <1>10. DOMAIN jobs' = DOMAIN jobs \cup (IF cold THEN {} ELSE {Len(jobs) + 1})
         /\ Len(jobs) + 1 \notin DOMAIN jobs
    <2>1. DOMAIN jobs = 1..Len(jobs) /\ Len(jobs) \in Nat
      BY <1>2
    <2>2. DOMAIN jobs' = 1..(Len(jobs) + more)
      BY <1>9
    <2>3. CASE cold
      BY <2>1, <2>2, <2>3
    <2>4. CASE ~cold
      BY <2>1, <2>2, <2>4
    <2> QED  BY <1>7, <2>3, <2>4
  <1>11. /\ \A i \in DOMAIN jobs : /\ jobs'[i].attempt = jobs[i].attempt /\ jobs'[i].drain = jobs[i].drain
                                   /\ jobs'[i].status = IF i = j THEN "completed" ELSE jobs[i].status
    BY <1>8, <1>9
  <1>12. Kept(jobs, jobs')
    BY <1>2, <1>9, <1>11 DEF Kept
  <1>13. /\ audit' \in Seq(Nat) /\ Len(audit') = Len(jobs')
         /\ \A i \in DOMAIN jobs : audit'[i] = audit[i] + (IF i = j THEN 1 ELSE 0)
         /\ ~cold => audit'[Len(jobs) + 1] = 0
    <2> DEFINE new == [audit EXCEPT ![j] = @ + 1]
    <2>1. \A i \in DOMAIN audit : audit[i] \in Nat
      BY <1>2, ElementOfSeq
    <2>2. new \in Seq(Nat) /\ Len(new) = Len(audit) /\ \A i \in DOMAIN audit : new[i] = audit[i] + (IF i = j THEN 1 ELSE 0)
      <3>1. audit[j] + 1 \in Nat
        BY <1>2, <2>1
      <3>2. new \in Seq(Nat) /\ Len(new) = Len(audit)
        BY <1>2, <3>1, ExceptSeq
      <3> QED  BY <1>2, <2>1, <3>2
    <2>3. audit' = new \o (IF cold THEN <<>> ELSE <<0>>)
      BY <1>3 DEF cold
    <2>4. Len(audit) = Len(jobs)
      BY DEF FollowUpsInv, Ranges
    <2> HIDE DEF new
    <2>5. CASE cold
      <3>1. audit' = new
        BY <2>2, <2>3, <2>5, ConcatEmptySeq
      <3> QED  BY <1>2, <1>9, <2>2, <2>4, <2>5, <3>1
    <2>6. CASE ~cold
      <3>1. audit' = Append(new, 0)
        BY <2>2, <2>3, <2>6, AppendIsConcat
      <3>2. /\ audit' \in Seq(Nat) /\ Len(audit') = Len(new) + 1
            /\ \A i \in 1..Len(new) : audit'[i] = new[i]
            /\ audit'[Len(new) + 1] = 0
        BY <2>2, <3>1, AppendProperties
      <3>3. Len(new) = Len(jobs) /\ DOMAIN jobs = 1..Len(new)
        BY <1>2, <2>2, <2>4
      <3>4. Len(jobs') = Len(jobs) + 1
        BY <1>9, <2>6
      <3> QED  BY <1>2, <2>2, <2>6, <3>2, <3>3, <3>4
    <2> QED  BY <1>7, <2>5, <2>6
  <1>14. /\ copies' \in Seq(Nat) /\ Len(copies') = Len(jobs')
         /\ \A i \in DOMAIN jobs : copies'[i] = copies[i] + (IF i = j THEN o.copies ELSE 0)
         /\ ~cold => copies'[Len(jobs) + 1] = 0
    <2> DEFINE new == [copies EXCEPT ![j] = @ + o.copies]
    <2>1. \A i \in DOMAIN copies : copies[i] \in Nat
      BY <1>2, ElementOfSeq
    <2>2. new \in Seq(Nat) /\ Len(new) = Len(copies)
          /\ \A i \in DOMAIN copies : new[i] = copies[i] + (IF i = j THEN o.copies ELSE 0)
      <3>1. copies[j] + o.copies \in Nat
        BY <1>2, <1>5, <2>1
      <3>2. new \in Seq(Nat) /\ Len(new) = Len(copies)
        BY <1>2, <3>1, ExceptSeq
      <3> QED  BY <1>2, <2>1, <3>2
    <2>3. copies' = new \o (IF cold THEN <<>> ELSE <<0>>)
      BY <1>3 DEF cold
    <2>4. Len(copies) = Len(jobs)
      BY DEF FollowUpsInv, Ranges
    <2> HIDE DEF new
    <2>5. CASE cold
      <3>1. copies' = new
        BY <2>2, <2>3, <2>5, ConcatEmptySeq
      <3> QED  BY <1>2, <1>9, <2>2, <2>4, <2>5, <3>1
    <2>6. CASE ~cold
      <3>1. copies' = Append(new, 0)
        BY <2>2, <2>3, <2>6, AppendIsConcat
      <3>2. /\ copies' \in Seq(Nat) /\ Len(copies') = Len(new) + 1
            /\ \A i \in 1..Len(new) : copies'[i] = new[i]
            /\ copies'[Len(new) + 1] = 0
        BY <2>2, <3>1, AppendProperties
      <3>3. Len(new) = Len(jobs) /\ DOMAIN jobs = 1..Len(new)
        BY <1>2, <2>2, <2>4
      <3>4. Len(jobs') = Len(jobs) + 1
        BY <1>9, <2>6
      <3> QED  BY <1>2, <2>2, <2>6, <3>2, <3>3, <3>4
    <2> QED  BY <1>7, <2>5, <2>6
  <1>15. /\ flow' \in FlowRow /\ flow'.attempt = n /\ flow'.lastLead = flow.lastLead
         /\ flow'.status = IF cold THEN "cold" ELSE flow.status
    <2>1. flow \in FlowRow
      BY DEF FollowUpsInv, Types
    <2> QED  BY <1>4, <1>6, <2>1 DEF cold, FlowRow, FlowStatus
  <1>16. /\ scan' \in [Run -> [pc : {"idle", "fire", "send"}, batch : Seq(Nat)]]
         /\ \A q \in Run : scan'[q].pc = "send" => lock.at = q /\ scan'[q] = scan[q]
         /\ Locked' /\ Drains'
    <2>1. DOMAIN jobs \subseteq DOMAIN jobs'
      BY <1>10
    <2> QED  BY <1>1, <1>2, <2>1, UnlockOf, RunGoesOn
  <1>17. Types'
    <2>1. lock' \in Locks
      BY <1>2, UnlockOf
    <2> QED  BY <2>1, <1>1, <1>5, <1>9, <1>13, <1>14, <1>15, <1>16 DEF FollowUpsInv, Types
  <1>18. Ranges'
    <2>1. FlowInRange(flow)'
      BY <1>1, <1>6, <1>15 DEF FollowUpsInv, Ranges, FlowInRange
    <2>2. ASSUME NEW i \in DOMAIN jobs
          PROVE  jobs'[i].attempt \in 1..config.max /\ jobs'[i].drain \in 1..answered
      BY <1>11 DEF FollowUpsInv, Ranges
    <2>3. ~cold => /\ jobs'[Len(jobs) + 1].attempt \in 1..config.max
                   /\ jobs'[Len(jobs) + 1].drain \in 1..answered
      <3>1. ~cold => n + 1 \in 1..config.max
        BY <1>6, <1>7
      <3>2. answered \in 1..answered
        BY <1>6
      <3> QED  BY <1>9, <3>1, <3>2
    <2>4. \A i \in DOMAIN jobs' : config.enabled /\ jobs'[i].attempt \in 1..config.max /\ jobs'[i].drain \in 1..answered
      BY <1>6, <1>10, <2>2, <2>3
    <2>5. \A i \in DOMAIN msgs' : msgs'[i].at <= now'
      BY <1>1 DEF FollowUpsInv, Ranges
    <2> QED  BY <1>1, <1>13, <1>14, <2>1, <2>4, <2>5 DEF Ranges
  <1>19. Recorded'
    <2>1. ASSUME NEW i \in DOMAIN jobs
          PROVE  /\ audit'[i] = (IF jobs'[i].status = "completed" THEN 1 ELSE 0)
                 /\ faults' = 0 => copies'[i] <= audit'[i]
      <3>1. /\ audit[i] = (IF jobs[i].status = "completed" THEN 1 ELSE 0)
            /\ faults = 0 => copies[i] <= audit[i]
        BY DEF FollowUpsInv, Recorded
      <3>2. audit[i] \in Nat /\ copies[i] \in Nat
        BY <1>2, ElementOfSeq
      <3>3. faults' = 0 => faults = 0 /\ o.copies <= 1
        BY <1>5 DEF FollowUpsInv, Types
      <3>4. CASE i = j
        <4>1. audit'[i] = 1 /\ jobs'[i].status = "completed" /\ copies'[i] = copies[i] + o.copies
          BY <1>2, <1>11, <1>13, <1>14, <3>4
        <4>2. faults = 0 => copies[i] <= 0
          BY <1>2, <3>4
        <4> QED  BY <1>5, <3>2, <3>3, <4>1, <4>2
      <3>5. CASE i # j
        <4>1. audit'[i] = audit[i] /\ jobs'[i].status = jobs[i].status /\ copies'[i] = copies[i]
          BY <1>11, <1>13, <1>14, <3>2, <3>5
        <4> QED  BY <3>1, <3>3, <4>1
      <3> QED  BY <3>4, <3>5
    <2>2. ~cold => /\ audit'[Len(jobs) + 1] = (IF jobs'[Len(jobs) + 1].status = "completed" THEN 1 ELSE 0)
                   /\ faults' = 0 => copies'[Len(jobs) + 1] <= audit'[Len(jobs) + 1]
      BY <1>9, <1>13, <1>14
    <2> QED  BY <1>10, <2>1, <2>2 DEF Recorded
  <1>20. \A k \in 1..n : \E i \in DOMAIN jobs' :
           jobs'[i].attempt = k /\ jobs'[i].drain = answered /\ jobs'[i].status = "completed"
    <2>1. ASSUME NEW k \in 1..n, k # n
          PROVE  \E i \in DOMAIN jobs' :
                   jobs'[i].attempt = k /\ jobs'[i].drain = answered /\ jobs'[i].status = "completed"
      <3>1. Earned(n, answered)
        BY <1>2 DEF FollowUpsInv, Chains, n
      <3>2. k \in 1..(n - 1)
        BY <1>6, <2>1
      <3>3. PICK i \in DOMAIN jobs :
                   jobs[i].attempt = k /\ jobs[i].drain = answered /\ jobs[i].status = "completed"
        BY <3>1, <3>2 DEF Earned
      <3> QED  BY <1>10, <1>11, <3>3
    <2>2. j \in DOMAIN jobs' /\ jobs'[j].attempt = n /\ jobs'[j].drain = answered /\ jobs'[j].status = "completed"
      BY <1>2, <1>10, <1>11 DEF n
    <2> QED  BY <2>1, <2>2
  <1>21. Chains'
    <2>1. ASSUME NEW i \in DOMAIN jobs
          PROVE  (Pending(i) => jobs[i].drain = answered)' /\ Earned(jobs[i].attempt, jobs[i].drain)'
      <3>1. Earned(jobs[i].attempt, jobs[i].drain)'
        BY <1>9, <1>12, ChainsStay
      <3>2. Pending(i)' => Pending(i)
        BY <1>11 DEF Pending
      <3>3. Pending(i) => jobs[i].drain = answered
        BY DEF FollowUpsInv, Chains
      <3> QED  BY <1>1, <1>11, <3>1, <3>2, <3>3
    <2>2. ASSUME ~cold, NEW i, i = Len(jobs) + 1
          PROVE  jobs'[i].drain = answered' /\ Earned(jobs[i].attempt, jobs[i].drain)'
      <3>1. jobs'[i].attempt = n + 1 /\ jobs'[i].drain = answered
        BY <1>9, <2>2
      <3>2. 1..((n + 1) - 1) = 1..n
        BY <1>6
      <3> QED  BY <1>1, <1>20, <3>1, <3>2 DEF Earned
    <2>3. \A q \in Run : scan'[q].pc # "send"
      <3>1. lock'.at # r /\ \A y \in Other(r) : lock'.at = y <=> lock.at = y
        BY <1>2, UnlockOf
      <3> QED  BY <1>2, <1>16, <3>1 DEF Locked, Other
    <2>4. \A i \in DOMAIN jobs' : i \in DOMAIN jobs \/ (~cold /\ i = Len(jobs) + 1)
      BY <1>10
    <2> QED  BY <2>1, <2>2, <2>3, <2>4 DEF Chains
  <1>22. Cold'
    <2>1. CASE cold
      <3>1. 1..((config'.max + 1) - 1) = 1..n /\ answered' = answered
        BY <1>1, <1>6, <1>7, <2>1
      <3> QED  BY <1>20, <3>1 DEF Cold, Earned
    <2>2. CASE ~cold
      <3>1. flow'.status = flow.status
        BY <1>15, <2>2
      <3> QED  BY <1>1, <1>9, <1>12, <3>1, ColdStays
    <2> QED  BY <1>7, <2>1, <2>2
  <1> QED  BY <1>16, <1>17, <1>18, <1>19, <1>21, <1>22 DEF FollowUpsInv

-----------------------------------------------------------------------------
(* Theorems *)

LEMMA StutterKeeps == FollowUpsInv /\ UNCHANGED vars => FollowUpsInv'
  <1> SUFFICES ASSUME FollowUpsInv, UNCHANGED vars PROVE FollowUpsInv'
    OBVIOUS
  <1>1. UNCHANGED <<config, flow, jobs, audit, copies, answered, scan>>
        /\ UNCHANGED <<now, wakes, msgs, lead, lock, inbox, tx, faults>>
    BY DEF vars, rows, history
  <1>2. Types'
    BY <1>1 DEF FollowUpsInv, Types
  <1>3. (Ranges /\ Locked /\ Drains)'
    BY <1>1 DEF FollowUpsInv, Ranges, FlowInRange, Locked, Drains
  <1>4. (Recorded /\ Chains /\ Cold)'
    BY <1>1, Untouched DEF FollowUpsInv, Types
  <1> QED  BY <1>2, <1>3, <1>4 DEF FollowUpsInv

LEMMA StepKeepsInv == FollowUpsInv /\ [Next]_vars => FollowUpsInv'
  <1> SUFFICES ASSUME FollowUpsInv, [Next]_vars PROVE FollowUpsInv'
    OBVIOUS
  <1>1. CASE Tick
    BY <1>1, TickKeeps
  <1>2. CASE Ingest
    BY <1>2, IngestKeeps
  <1>3. CASE Inbox
    BY <1>3, StartInboxKeeps, FetchNextQueuedKeeps, StepKeeps, RepliedKeeps, NotRepliedKeeps DEF Inbox
  <1>4. CASE InboxRaises
    BY <1>4, InboxRaisesKeeps
  <1>5. CASE CliCancel
    BY <1>5, CliCancelKeeps
  <1>6. CASE Crash
    BY <1>6, CrashKeeps
  <1>7. ASSUME NEW r \in Run, Scanner(r) PROVE FollowUpsInv'
    BY <1>7, ScanKeeps, FireKeeps, TemplateSentKeeps, TemplateFailsKeeps DEF Scanner
  <1>8. CASE UNCHANGED vars
    BY <1>8, StutterKeeps
  <1> QED  BY <1>1, <1>2, <1>3, <1>4, <1>5, <1>6, <1>7, <1>8 DEF Next

LEMMA AlwaysInv == Spec => []FollowUpsInv
  BY Starts, StepKeepsInv, PTL DEF Spec

\* Types and ranges of every variable: no message or job from the future, no
\* attempt beyond the sequence, no drain that has not been answered, a batch of
\* rows that exist.
THEOREM TypeCorrect == Spec => []TypeOK
  <1>1. FollowUpsInv => TypeOK
    <2> SUFFICES ASSUME FollowUpsInv PROVE TypeOK
      OBVIOUS
    <2>1. \A i \in DOMAIN msgs : msgs[i].status \in {"queued", "processed", "error", "skipped"}
      BY MessagesOf DEF FollowUpsInv, Types, MsgStatus
    <2>2. flow.status \in FlowStatus /\ flow.attempt \in 0..config.max /\ flow.lastLead \in 0..now
      <3>1. flow.status \in FlowStatus /\ flow.attempt \in Nat /\ flow.lastLead \in Nat
        BY DEF FollowUpsInv, Types, FlowRow
      <3>2. config.max \in Nat /\ now \in Nat
        BY Configs DEF FollowUpsInv, Types
      <3> QED  BY <3>1, <3>2 DEF FollowUpsInv, Ranges, FlowInRange
    <2>3. \A j \in DOMAIN jobs : /\ jobs[j].attempt \in 1..config.max /\ jobs[j].status \in JobStatus
                                 /\ jobs[j].drain \in 1..answered
      <3>1. \A j \in DOMAIN jobs : jobs[j] \in Job
        BY ElementOfSeq DEF FollowUpsInv, Types
      <3> QED  BY <3>1 DEF FollowUpsInv, Ranges, Job
    <2>4. DOMAIN audit = DOMAIN jobs /\ DOMAIN copies = DOMAIN jobs
      BY DEF FollowUpsInv, Types, Ranges
    <2>5. inbox.pc \in {"idle", "fetch", "step", "send"} /\ inbox.msg \in 0..Len(msgs)
      BY DEF FollowUpsInv, Types, Locked
    <2>6. ASSUME NEW r \in Run
          PROVE  scan[r].pc \in {"idle", "fire", "send"} /\ Range(scan[r].batch) \subseteq DOMAIN jobs
      BY DEF FollowUpsInv, Types, Locked, Range
    <2>7. config \in Config /\ now \in 0..MaxTime /\ wakes \in Nat /\ lead \in {"active", "unreachable"}
          /\ lock.at \in {"free", "idle", "inbox"} \cup Run /\ lock.holds \in 0..MaxHolds /\ answered \in Nat /\ faults \in 0..MaxFaults
      BY DEF FollowUpsInv, Types, Locks
    <2> QED  BY <2>1, <2>2, <2>3, <2>4, <2>5, <2>6, <2>7 DEF TypeOK
  <1> QED  BY <1>1, AlwaysInv, PTL

\* The template of a job is recorded as sent once at most, whatever runs of the
\* scanner overlap (worker/jobs/follow_up_scanner.py:85-154); without a crash or
\* a doubtful answer the lead has got it once at most.
THEOREM OncePerJob == Spec => []TemplateOnce
  <1>1. FollowUpsInv => TemplateOnce
    <2> SUFFICES ASSUME FollowUpsInv, NEW j \in DOMAIN jobs
                 PROVE  audit[j] <= 1 /\ (faults = 0 => copies[j] <= 1)
      BY DEF TemplateOnce
    <2>1. audit[j] = (IF jobs[j].status = "completed" THEN 1 ELSE 0) /\ (faults = 0 => copies[j] <= audit[j])
      BY DEF FollowUpsInv, Recorded
    <2>2. copies[j] \in Nat
      <3>1. copies \in Seq(Nat) /\ j \in DOMAIN copies
        BY DEF FollowUpsInv, Types, Ranges
      <3> QED  BY <3>1, ElementOfSeq
    <2> QED  BY <2>1, <2>2
  <1> QED  BY <1>1, AlwaysInv, PTL

\* mark_cold_if_exhausted (follow_up/scheduler.py:70-81) marks no talkflow whose
\* sequence has not been sent in full since the lead's last answer.
THEOREM ColdAfterAll == Spec => []ColdIsEarned
  <1>1. FollowUpsInv => ColdIsEarned
    <2> SUFFICES ASSUME FollowUpsInv, flow.status = "cold", NEW n \in 1..config.max
                 PROVE  \E j \in DOMAIN jobs : jobs[j].attempt = n /\ jobs[j].drain = answered /\ audit[j] = 1
      BY DEF ColdIsEarned
    <2>1. n \in 1..((config.max + 1) - 1)
      BY Configs DEF FollowUpsInv, Types
    <2>2. PICK j \in DOMAIN jobs : jobs[j].attempt = n /\ jobs[j].drain = answered /\ jobs[j].status = "completed"
      BY <2>1 DEF FollowUpsInv, Cold, Earned
    <2>3. audit[j] = 1
      BY <2>2 DEF FollowUpsInv, Recorded
    <2> QED  BY <2>2, <2>3
  <1> QED  BY <1>1, AlwaysInv, PTL

\* A template reaches the lead only for the last drain that answered: the chain
\* that an answer has ended (cancel_pending_for_lead) never goes on.
THEOREM ChainsDie == Spec => StaleChainsDie
  <1> DEFINE A == \A j \in DOMAIN copies : copies'[j] > copies[j] => jobs[j].drain = answered'
  <1>1. FollowUpsInv /\ [Next]_vars => [A]_vars
    <2> SUFFICES ASSUME FollowUpsInv, Next, NEW j \in DOMAIN copies, copies'[j] > copies[j]
                 PROVE  jobs[j].drain = answered'
      OBVIOUS
    <2>1. copies[j] \in Nat /\ j \in 1..Len(copies) /\ copies \in Seq(Nat) /\ DOMAIN copies = DOMAIN jobs
      <3>1. copies \in Seq(Nat) /\ DOMAIN copies = DOMAIN jobs
        BY DEF FollowUpsInv, Types, Ranges
      <3> QED  BY <3>1, ElementOfSeq
    <2>2. copies' # copies
      BY <2>1
    <2>3. CASE Replied
      <3>1. copies' = Append(copies, 0)
        BY <2>2, <2>3 DEF Replied
      <3> QED  BY <2>1, <3>1, AppendProperties
    <2>4. ASSUME NEW r \in Run, SendEnds(r), answered' = answered,
                 copies'[j] > copies[j] => j = Head(scan[r].batch)
          PROVE  jobs[j].drain = answered'
      BY <2>4, SendOf
    <2>5. ASSUME NEW r \in Run, TemplateSent(r) PROVE jobs[j].drain = answered'
      <3> DEFINE h == Head(scan[r].batch)
                 cold == MarkCold(jobs[h].attempt)
      <3>1. SendEnds(r) /\ answered' = answered
        BY <2>5 DEF TemplateSent
      <3>2. PICK o \in SendResult :
              copies' = [copies EXCEPT ![h] = @ + o.copies] \o (IF cold THEN <<>> ELSE <<0>>)
        BY <2>5 DEF TemplateSent
      <3>3. h \in DOMAIN copies /\ o.copies \in Nat
        <4>1. h \in DOMAIN copies
          BY <3>1, SendOf
        <4>2. o.copies \in Nat
          BY SendAssumption, OutcomeOf
        <4> QED  BY <4>1, <4>2
      <3> HIDE DEF h, cold
      <3> DEFINE new == [copies EXCEPT ![h] = @ + o.copies]
                 rest == IF cold THEN <<>> ELSE <<0>>
      <3>4. rest \in Seq(Nat)
        OBVIOUS
      <3>5. new \in Seq(Nat) /\ Len(new) = Len(copies) /\ (j # h => new[j] = copies[j])
        <4>1. copies[h] + o.copies \in Nat
          BY <2>1, <3>3, ElementOfSeq
        <4>2. new \in Seq(Nat) /\ Len(new) = Len(copies)
          BY <2>1, <3>3, <4>1, ExceptSeq
        <4> QED  BY <2>1, <4>2
      <3>6. copies' = new \o rest
        BY <3>2
      <3> HIDE DEF new, rest
      <3>7. j # h => copies'[j] = copies[j]
        BY <2>1, <3>4, <3>5, <3>6, ConcatProperties
      <3>8. j = h
        BY <2>1, <3>7
      <3> QED  BY <2>4, <3>1, <3>8 DEF h
    <2>6. ASSUME NEW r \in Run, TemplateFails(r) PROVE jobs[j].drain = answered'
      <3> DEFINE h == Head(scan[r].batch)
      <3>1. SendEnds(r) /\ answered' = answered
        BY <2>6 DEF TemplateFails
      <3>2. PICK o \in SendResult : copies' = [copies EXCEPT ![h] = @ + o.copies]
        BY <2>6 DEF TemplateFails
      <3>3. j = h
        BY <2>1, <3>2
      <3> QED  BY <2>4, <3>1, <3>3
    <2>7. CASE Crash
      <3> DEFINE lost == {r \in Run : scan[r].pc = "send" /\ Head(scan[r].batch) = j}
      <3>1. copies'[j] = copies[j] + Cardinality(lost) /\ answered' = answered
        BY <2>7 DEF Crash
      <3>2. lost # {}
        <4> SUFFICES ASSUME lost = {} PROVE FALSE
          OBVIOUS
        <4>1. Cardinality(lost) = 0
          BY FS_EmptySet
        <4> HIDE DEF lost
        <4> QED  BY <2>1, <3>1, <4>1
      <3>3. PICK r \in Run : scan[r].pc = "send" /\ Head(scan[r].batch) = j
        BY <3>2
      <3>4. jobs[j].drain = answered
        BY <3>3 DEF FollowUpsInv, Chains
      <3> QED  BY <3>1, <3>4
    <2>8. Replied \/ Crash \/ \E r \in Run : TemplateSent(r) \/ TemplateFails(r)
      BY <2>2 DEF Next, Inbox, Scanner, Tick, Ingest, StartInbox, FetchNextQueued, Step, NotReplied,
                  InboxRaises, CliCancel, Scan, Fire, rows, history
    <2> QED  BY <2>3, <2>5, <2>6, <2>7, <2>8
  <1>2. [][A]_vars <=> StaleChainsDie
    BY PTL DEF StaleChainsDie
  <1> QED  BY <1>1, <1>2, AlwaysInv, PTL DEF Spec
=============================================================================
