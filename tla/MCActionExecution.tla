------------------------- MODULE MCActionExecution -------------------------
(* Instances of ActionExecution: the fields of the on_collected entries. *)
EXTENDS ActionExecution, TLC

CONSTANTS e1, e2, e3

\* Two entries share a field, a third has its own.
SharedField == e1 :> "email" @@ e2 :> "email" @@ e3 :> "phone"

\* One entry.
OneEntry == e1 :> "email"

=============================================================================
