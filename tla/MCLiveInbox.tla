----------------------------- MODULE MCLiveInbox -----------------------------
(***************************************************************************)
(* Instances of LiveInbox for TLC.                                         *)
(***************************************************************************)
EXTENDS LiveInbox

Talk(status, mode) == [status |-> status, mode |-> mode]

MCStart == {<<Talk("active", "ai")>>, <<Talk("requires_review", "human")>>}
=============================================================================
