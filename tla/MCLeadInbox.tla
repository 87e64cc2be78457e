---------------------------- MODULE MCLeadInbox ----------------------------
(* Instances of LeadInbox: which coroutine runs in which process. *)
EXTENDS LeadInbox, TLC

CONSTANTS s1, s2, g1, w1, w2

\* Two worker processes, one job of this lead at a time in each.
OneJobPerProcess == s1 :> w1 @@ s2 :> w2

\* One worker process, both jobs in it.
OneProcess == [k \in Coroutine |-> w1]
=============================================================================
