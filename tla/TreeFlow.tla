------------------------------ MODULE TreeFlow ------------------------------
(***************************************************************************)
(* A TreeFlow of version 2 as the loader accepts it                        *)
(* (flowengine/treeflow_loader.py) and the pure functions that read it in  *)
(* a turn: routing.py, objection_runtime.py, close_lifecycle.py.           *)
(*                                                                         *)
(* What has been collected is the set of the fields that hold a value.  An *)
(* expression of the YAML is the set of alternatives under which it holds, *)
(* each a set of fields that must be filled: {{}} is "true", {} is an      *)
(* expression that is missing, false or fails to evaluate.  A target or an *)
(* objection declared twice stands for its first declaration, which is the *)
(* one the code finds.                                                     *)
(***************************************************************************)
EXTENDS Naturals, FiniteSets

CONSTANTS
  Node,         \* ids a TreeFlow may use for nodes
  Field,        \* fields it may collect
  Objection,    \* ids of objections
  Nil           \* Python's None

ASSUME NilAssumption == Nil \notin Node \cup Objection

Holds(expression, filled) == \E c \in expression : c \subseteq filled

-----------------------------------------------------------------------------
(* The loader *)

\* _parse_objection.  The payload's texts (at least ten characters each) have
\* no part in what follows.
ObjectionAccepted(o) ==
  /\ o.mode \in {"tool", "inline"}
  /\ o.mode = "tool" => /\ o.max \in 1..10
                        /\ o.onMax \in {"gracefully_continue", "escalate_to_human"}

\* _parse_on_collected: an action hangs on a field that its own node collects.
ActionsAccepted(node) == node.actions \subseteq node.collects

\* _parse_node.  The type of the exit condition is not looked at.
NodeAccepted(node) ==
  /\ ActionsAccepted(node)
  /\ \A o \in DOMAIN node.objections : ObjectionAccepted(node.objections[o])

\* _parse_talk_lifecycle, in hours; 0 is an absent limit.
LifecycleAccepted(l) ==
  /\ l.inactivity \in {0} \cup 1..(365 * 24)
  /\ l.duration = 0 \/ l.duration \in 24..(730 * 24)
  /\ \A r \in l.rules : r.outcome \in {"success", "failure", "no_interest"}

\* Mutant: the loop over the transitions is dropped.
AcceptedDangling(doc) ==
  /\ doc.entry \in DOMAIN doc.nodes
  /\ \A n \in DOMAIN doc.nodes : NodeAccepted(doc.nodes[n])
  /\ \A o \in DOMAIN doc.global : ObjectionAccepted(doc.global[o])
  /\ LifecycleAccepted(doc.lifecycle)

\* load_treeflow_v2 raises TreeflowLoadError unless all of this holds.
Accepted(doc) ==
  /\ doc.entry \in DOMAIN doc.nodes
  /\ \A n \in DOMAIN doc.nodes :
       /\ NodeAccepted(doc.nodes[n])
       /\ DOMAIN doc.nodes[n].next \subseteq DOMAIN doc.nodes
  /\ \A o \in DOMAIN doc.global : ObjectionAccepted(doc.global[o])
  /\ LifecycleAccepted(doc.lifecycle)

-----------------------------------------------------------------------------
(* Routing *)

\* _exit_satisfied.  The judge is reserved: it never lets a lead leave.
ExitSatisfied(node, filled) ==
  LET complete == node.required \subseteq filled
      rule     == Holds(node.exit.rule, filled)
  IN \/ node.exit.type = "all_fields_filled" /\ complete
     \/ node.exit.type = "rule_expression" /\ rule
     \/ node.exit.type = "combined" /\ complete /\ rule

\* validate_transition: "ok", or the reason the Talk stays where it is.
TransitionVerdict(g, current, suggestion, filled, treatment) ==
  LET next == g.nodes[current].next IN
  CASE suggestion \in {Nil, current} -> "ok"
    [] suggestion \notin DOMAIN next \cup {Nil, current} -> "invalid_target"
    [] OTHER ->
       IF ~Holds(next[suggestion], filled) THEN "condition_false"
       ELSE IF treatment # Nil THEN "transition_blocked_by_treatment"
       ELSE IF ~ExitSatisfied(g.nodes[current], filled) THEN "exit_not_satisfied"
       ELSE "ok"

-----------------------------------------------------------------------------
(* Objections *)

\* _find_objection: what the node declares comes before what is global.
FindObjection(id, g, node) ==
  IF id \in DOMAIN g.nodes[node].objections THEN g.nodes[node].objections[id]
  ELSE IF id \in DOMAIN g.global THEN g.global[id]
  ELSE Nil

IsToolMode(id, g, node) ==
  FindObjection(id, g, node) # Nil /\ FindObjection(id, g, node).mode = "tool"

EnterTreatment(id, g, node) ==
  [id |-> id, turn |-> 1, max |-> FindObjection(id, g, node).max]

\* One outcome of objection_runtime.apply: the treatment that follows, the
\* entry appended to the history (Nil: none) and the reason for a review.
Delta(treatment, entry, review) ==
  [treatment |-> treatment, entry |-> entry, review |-> review]

Closed(treatment, resolution) == [id |-> treatment.id, resolution |-> resolution]

\* IDLE: only a detected objection in tool mode starts a treatment.
IdleDelta(d, g, node) ==
  IF d.detected # Nil /\ IsToolMode(d.detected, g, node)
  THEN Delta(EnterTreatment(d.detected, g, node), Nil, Nil)
  ELSE Delta(Nil, Nil, Nil)

\* Priority 2.  An objection that the node does not know is not escalated.
ExhaustedDelta(t, g, node) ==
  LET o == FindObjection(t.id, g, node) IN
  Delta(Nil, Closed(t, "exhausted"),
        IF o # Nil /\ o.mode = "tool" /\ o.onMax = "escalate_to_human"
        THEN "objection_treatment_exhausted" ELSE Nil)

\* Mutant: the objection in treatment, detected again, starts over.
ActiveDeltaRestarts(t, d, g, node) ==
  IF d.detected # Nil /\ IsToolMode(d.detected, g, node)
  THEN Delta(EnterTreatment(d.detected, g, node), Closed(t, "deferred"), Nil)
  ELSE IF t.turn >= t.max THEN ExhaustedDelta(t, g, node)
  ELSE IF d.treatment = "resolved_accepted" THEN Delta(Nil, Closed(t, "accepted"), Nil)
  ELSE IF d.treatment = "resolved_deferred" THEN Delta(Nil, Closed(t, "deferred"), Nil)
  ELSE Delta([t EXCEPT !.turn = @ + 1], Nil, Nil)

\* ACTIVE, in the order of the priorities: another objection, the limit, a
\* resolution, one more turn.
ActiveDelta(t, d, g, node) ==
  IF d.detected \notin {Nil, t.id} /\ IsToolMode(d.detected, g, node)
  THEN Delta(EnterTreatment(d.detected, g, node), Closed(t, "deferred"), Nil)
  ELSE IF t.turn >= t.max THEN ExhaustedDelta(t, g, node)
  ELSE IF d.treatment = "resolved_accepted" THEN Delta(Nil, Closed(t, "accepted"), Nil)
  ELSE IF d.treatment = "resolved_deferred" THEN Delta(Nil, Closed(t, "deferred"), Nil)
  ELSE Delta([t EXCEPT !.turn = @ + 1], Nil, Nil)

ObjectionDelta(t, d, g, node) ==
  IF t = Nil THEN IdleDelta(d, g, node) ELSE ActiveDelta(t, d, g, node)

-----------------------------------------------------------------------------
(* Completion *)

\* TalkFlowState has no turn_index: evaluate_completion_rule reads its default.
RuleTurnIndex == 0

\* evaluate_completion_rule: some rule of the lifecycle fires.
Completes(g, filled) ==
  \E r \in g.lifecycle.rules : Holds(r.when, filled) /\ RuleTurnIndex >= r.turn
=============================================================================
