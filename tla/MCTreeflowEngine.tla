-------------------------- MODULE MCTreeflowEngine --------------------------
(***************************************************************************)
(* Instances of TreeflowEngine for TLC.                                    *)
(***************************************************************************)
EXTENDS TreeflowEngine, TLC

Always == {{}}
Filled == {{"name"}}

Step(to) == [when |-> Always, to |-> to]

Ask == [collects |-> {"name"}, required |-> {"name"}, critical |-> TRUE,
        exit |-> [type |-> "all_fields_filled", rule |-> Always],
        next |-> <<Step("offer")>>, objections |-> <<>>]

Offer == [collects |-> {}, required |-> {}, critical |-> FALSE,
          exit |-> [type |-> "rule_expression", rule |-> Filled],
          next |-> <<[when |-> {{"hot"}}, to |-> "ask"], Step("END")>>,
          objections |-> "price" :> Nil]

Price == [collects |-> {"hot"}, required |-> {}, critical |-> FALSE,
          exit |-> [type |-> "combined", rule |-> {{"hot"}}],
          next |-> <<Step("BACK_TO_ORIGIN")>>, objections |-> <<>>]

\* A price objection has its own node, except in the offer.
Funnel == [entry |-> "ask", global |-> "price" :> "price",
           nodes |-> "ask" :> Ask @@ "offer" :> Offer @@ "price" :> Price]

\* A condition that raises once the name is known, no objections.
Raising == [Funnel EXCEPT !.global = <<>>,
             !.nodes = "ask" :> [Ask EXCEPT !.next = <<[when |-> Broken, to |-> "END"]>>]]

\* A transition to a node that is not there.
Dangling == [Funnel EXCEPT !.nodes = "ask" :> Ask, !.global = <<>>]

MCDocument == {Funnel, Raising, Dangling}

\* Everything on; a critic without its classifier; no guardrails.
MCGuardrails ==
  {[enabled |-> TRUE, critic |-> TRUE, classifier |-> TRUE, retries |-> 2],
   [enabled |-> TRUE, critic |-> TRUE, classifier |-> FALSE, retries |-> 0],
   [enabled |-> FALSE, critic |-> TRUE, classifier |-> TRUE, retries |-> 1]}
=============================================================================
