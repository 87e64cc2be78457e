------------------------------ MODULE MCKbIndex ------------------------------
(***************************************************************************)
(* Instances of KbIndex for TLC: two documents of two KBs.                 *)
(***************************************************************************)
EXTENDS KbIndex

MCKbOf == [d \in Doc |-> IF d = 1 THEN "faq" ELSE "prices"]

\* An earlier run found one document, or both.
MCIndexed == {<<2, Nil>>, <<2, 0>>}
=============================================================================
