--------------------------- MODULE MCTurnDecision ---------------------------
(***************************************************************************)
(* Instances of TurnDecision for TLC: two nodes, one field, an objection   *)
(* that is known everywhere and one that only the first node knows.        *)
(***************************************************************************)
EXTENDS TurnDecision, TLC

Always == {{}}
Never == {}
Filled == {{"name"}}

Tool(max, onMax) == [mode |-> "tool", max |-> max, onMax |-> onMax]
Inline == [mode |-> "inline", max |-> 1, onMax |-> "gracefully_continue"]

First == [collects |-> {"name"}, required |-> {"name"}, actions |-> {"name"},
          exit |-> [type |-> "all_fields_filled", rule |-> Never],
          next |-> "b" :> Always,
          objections |-> "here" :> Tool(1, "escalate_to_human")]

Second == [collects |-> {}, required |-> {}, actions |-> {},
           exit |-> [type |-> "rule_expression", rule |-> Always],
           next |-> "a" :> Filled, objections |-> <<>>]

Lifecycle == [inactivity |-> 24, duration |-> 0, rules |-> {}]

Sales == [entry |-> "a", nodes |-> "a" :> First @@ "b" :> Second,
          global |-> "anywhere" :> Tool(2, "escalate_to_human"), lifecycle |-> Lifecycle]

\* The first node alone, with an objection answered in passing and a rule that
\* closes the Talk once the name is known.
Short == [entry |-> "a", nodes |-> "a" :> [First EXCEPT !.next = <<>>],
          global |-> "anywhere" :> Inline,
          lifecycle |-> [Lifecycle EXCEPT !.rules =
                           {[when |-> Filled, turn |-> 0, outcome |-> "success"],
                            [when |-> Always, turn |-> 1, outcome |-> "no_interest"]}]]

\* Only the second node.
Other == [Sales EXCEPT !.entry = "b", !.nodes = "b" :> [Second EXCEPT !.next = <<>>]]

\* A transition leads nowhere.
Dangling == [Sales EXCEPT !.nodes = "a" :> First]

MCDocument == {Sales, Short, Other, Dangling}

Plain == [detected |-> Nil, treatment |-> "in_progress", hedges |-> FALSE, mentions |-> {},
          fills |-> {}, clears |-> {}, next |-> Nil, escalate |-> FALSE, offTopic |-> FALSE]

MCDecision ==
  {Plain, [Plain EXCEPT !.mentions = {"R$ 5"}], [Plain EXCEPT !.next = "b"],
   [Plain EXCEPT !.fills = {"name"}], [Plain EXCEPT !.fills = {"name"}, !.next = "b"],
   [Plain EXCEPT !.clears = {"name"}, !.next = "b", !.mentions = {"R$ 5"}],
   [Plain EXCEPT !.detected = "here"], [Plain EXCEPT !.detected = "anywhere"],
   [Plain EXCEPT !.detected = "here", !.fills = {"name"}, !.next = "b"],
   [Plain EXCEPT !.treatment = "resolved_accepted", !.hedges = TRUE],
   [Plain EXCEPT !.treatment = "resolved_accepted"],
   [Plain EXCEPT !.escalate = TRUE], [Plain EXCEPT !.offTopic = TRUE]}

MCVoice == {[mode |-> "off", fallback |-> TRUE], [mode |-> "always", fallback |-> FALSE]}
=============================================================================
