---------------------------- MODULE MCFollowUps ----------------------------
(***************************************************************************)
(* Instances of FollowUps for TLC.                                         *)
(***************************************************************************)
EXTENDS FollowUps, TLC

Two == [enabled |-> TRUE, max |-> 2, after |-> <<1, 1>>, plain |-> TRUE, reengage |-> TRUE]

MCConfig ==
  {Two,
   [Two EXCEPT !.max = 1, !.reengage = FALSE],
   [Two EXCEPT !.max = 1, !.plain = FALSE],
   [Two EXCEPT !.enabled = FALSE]}

Ended(r, n, d) == [result |-> r, copies |-> n, doubt |-> d]

\* Sent; sent twice, the first request having failed with a 5xx; the errors;
\* an exception after the template went out.
MCSendResult ==
  {Ended("sent", 1, FALSE), Ended("sent", 2, TRUE), Ended("raised", 1, TRUE)}
  \cup {Ended(e, 0, FALSE) : e \in {"RecipientUnreachable", "WindowExpiredError", "TransientError"}}
=============================================================================
