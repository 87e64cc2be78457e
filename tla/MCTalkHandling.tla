--------------------------- MODULE MCTalkHandling ---------------------------
(* Instances of TalkHandling. *)
EXTENDS TalkHandling, TLC

\* Requests of the console are interchangeable.
ClientSymmetry == Permutations(Client)
=============================================================================
