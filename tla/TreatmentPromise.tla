-------------------------- MODULE TreatmentPromise --------------------------
(***************************************************************************)
(* What the objection state machine promises of a Talk: idle or in one     *)
(* treatment, which starts at turn 1, advances one turn at a time up to    *)
(* its own limit, and ends with one entry in the history.  Only a new Talk *)
(* forgets.  TurnDecision implements it (KeepsPromise there).              *)
(***************************************************************************)
EXTENDS Naturals, Sequences

CONSTANTS Objection, Nil, MaxTreatmentTurns

VARIABLES
  open,     \* the Talk is not closed
  active,   \* Nil, or [id, turn, max]
  handled   \* the history: <<[id, resolution], ...>>

Init == open = FALSE /\ active = Nil /\ handled = <<>>

Starts(o) == \E max \in 1..MaxTreatmentTurns : active' = [id |-> o, turn |-> 1, max |-> max]

Ends(resolution) == handled' = Append(handled, [id |-> active.id, resolution |-> resolution])

Enter == /\ active = Nil
         /\ \E o \in Objection : Starts(o)
         /\ UNCHANGED handled

Continue == /\ active # Nil /\ active.turn < active.max
            /\ active' = [active EXCEPT !.turn = @ + 1]
            /\ UNCHANGED handled

Resolve == /\ active # Nil /\ active.turn < active.max
           /\ \E r \in {"accepted", "deferred"} : Ends(r)
           /\ active' = Nil

Exhaust == /\ active # Nil /\ active.turn = active.max
           /\ Ends("exhausted")
           /\ active' = Nil

\* Another objection takes the place of the treatment, which is deferred.
Swap == /\ active # Nil
        /\ \E o \in Objection \ {active.id} : Starts(o)
        /\ Ends("deferred")

\* The Talk may close in any of these steps, and without one.
Turn == /\ open
        /\ Enter \/ Continue \/ Resolve \/ Exhaust \/ Swap \/ UNCHANGED <<active, handled>>
        /\ open' \in BOOLEAN

Begin == ~open /\ open' /\ active' = Nil /\ handled' = <<>>

Next == Turn \/ Begin

Spec == Init /\ [][Next]_<<open, active, handled>>
=============================================================================
