---------------------------- MODULE InboxPromise ----------------------------
(***************************************************************************)
(* What the inbound path promises about one lead, with no lock, connection *)
(* or session in sight (worker/jobs/inbound.py), however many jobs drain   *)
(* its queue at once: a message that was stored waits until the burst of a *)
(* job that took it is settled, or until the whole queue is skipped, and   *)
(* never waits again after that; a job has one burst at a time, of waiting *)
(* messages but for its head, which another job may have settled since it  *)
(* was fetched; a burst is answered at most once, and is settled or given  *)
(* up before the job takes another.                                        *)
(***************************************************************************)
EXTENDS Naturals

CONSTANTS Msg, Job

VARIABLES
  status,   \* "absent", "queued", "processed" or "error"
  burst,    \* per job, the messages that are with its engine
  replied   \* the jobs that have answered the lead for their burst

vars == <<status, burst, replied>>

Waiting == {m \in Msg : status[m] = "queued"}
Settled == {"processed", "error"}
SettledMsg == {m \in Msg : status[m] \in Settled}

Init ==
  /\ status = [m \in Msg |-> "absent"]
  /\ burst = [j \in Job |-> {}]
  /\ replied = {}

Receive ==
  /\ \E S \in SUBSET {m \in Msg : status[m] = "absent"} :
       status' = [m \in Msg |-> IF m \in S THEN "queued" ELSE status[m]]
  /\ UNCHANGED <<burst, replied>>

Begin(j) ==
  /\ burst[j] = {}
  /\ \E h \in Waiting \cup SettledMsg : \E S \in SUBSET Waiting :
       burst' = [burst EXCEPT ![j] = S \cup {h}]
  /\ UNCHANGED <<status, replied>>

Reply(j) ==
  /\ burst[j] # {}
  /\ j \notin replied
  /\ replied' = replied \cup {j}
  /\ UNCHANGED <<status, burst>>

Done(j) ==
  /\ burst' = [burst EXCEPT ![j] = {}]
  /\ replied' = replied \ {j}

Settle(j) ==
  /\ \E S \in (SUBSET burst[j]) \ {{}} : \E new \in [S -> Settled] :
       status' = [m \in Msg |-> IF m \in S THEN new[m] ELSE status[m]]
  /\ Done(j)

\* Jobs that failed, or whose process died: their messages wait on.
Abandon ==
  /\ \E J \in (SUBSET Job) \ {{}} :
       /\ burst' = [j \in Job |-> IF j \in J THEN {} ELSE burst[j]]
       /\ replied' = replied \ J
  /\ UNCHANGED status

Skip ==
  /\ status' = [m \in Msg |-> IF m \in Waiting THEN "error" ELSE status[m]]
  /\ UNCHANGED <<burst, replied>>

Next == \/ Receive \/ Abandon \/ Skip
        \/ \E j \in Job : Begin(j) \/ Reply(j) \/ Settle(j)

Spec == Init /\ [][Next]_vars
=============================================================================
