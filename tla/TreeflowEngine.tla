--------------------------- MODULE TreeflowEngine ---------------------------
(***************************************************************************)
(* The engine of architecture 1: a TreeFlow as its schema accepts it       *)
(* (schemas/treeflow_yaml.py), the graph it is compiled into               *)
(* (treeflow/compiler.py), run_with_guardrails (guardrails/runner.py), and *)
(* the turn that the inbox job runs on it (TalkFlowRuntime.step).          *)
(*                                                                         *)
(* The graph's state is saved after every step of the graph, on a          *)
(* connection of its own (treeflow/checkpointer.py): a turn that fails     *)
(* leaves there what its steps have done, while its message stays queued.  *)
(* Expressions and collected fields are those of TreeFlow; one that raises *)
(* when it is evaluated is Broken.                                         *)
(***************************************************************************)
EXTENDS Naturals, Sequences, SequencesExt

CONSTANTS
  Document,       \* TreeFlows of architecture 1 that are published
  Guardrails,     \* tenant.yaml > guardrails: [enabled, critic, classifier, retries]
  Node, Objection, Field, Nil,
  Broken,         \* an expression whose evaluation raises
  MaxMsgs,        \* bound on the lead's messages
  MaxSupersteps,  \* recursion_limit of LangGraph (25), the router's step counted
  MaxFaults       \* bound on failures of a model or of the reply

End == "END"
BackToOrigin == "BACK_TO_ORIGIN"

ASSUME SentinelAssumption ==
  /\ {End, BackToOrigin, Nil} \cap Node = {}
  /\ Nil \notin Objection

\* What the parser of the YAML gives: names of the tenant's file, lists of
\* transitions, counts.
ASSUME DocumentAssumption ==
  \A doc \in Document :
    /\ DOMAIN doc.nodes \subseteq Node /\ DOMAIN doc.global \subseteq Objection
    /\ \A n \in DOMAIN doc.nodes :
         /\ DOMAIN doc.nodes[n].objections \subseteq Objection
         /\ doc.nodes[n].collects \subseteq Field
         /\ DOMAIN doc.nodes[n].next \subseteq Nat

ASSUME BoundAssumption ==
  /\ \A g \in Guardrails : g.retries \in Nat /\ {g.enabled, g.critic, g.classifier} \subseteq BOOLEAN
  /\ MaxSupersteps \in Nat \ {0} /\ {MaxMsgs, MaxFaults} \subseteq Nat

VARIABLES
  graph,      \* the TreeFlow of the pinned version
  rails,      \* the tenant's guardrails
  ckpt,       \* the thread's checkpoint: TalkFlowState
  status,     \* talkflow.status
  queue,      \* messages that wait, the one at hand first
  arrived,    \* number of messages so far
  jobs,       \* inbox jobs that have not ended (their lock is LeadInbox's)
  done,       \* messages processed, in order
  pc,         \* the step of the graph that runs next, or "idle", "reply"
  at,         \* the node it belongs to
  steps,      \* steps of the graph in this run
  tries,      \* answers the guardrails have refused in this step
  active,     \* _active_objection
  home,       \* history: where the lead was when an objection's node took over
  stale,      \* history: this turn's graph has no step
  undelivered,\* history: a turn failed after its answer had been saved
  faults

run == <<pc, at, steps, tries, active>>
vars == <<graph, rails, ckpt, status, queue, arrived, jobs, done, run, home, stale, undelivered, faults>>

-----------------------------------------------------------------------------
(* The schema *)

\* Mutant: a transition may lead anywhere.
TargetsLoose(doc) == TRUE

Targets(doc) ==
  \A n \in DOMAIN doc.nodes : \A i \in DOMAIN doc.nodes[n].next :
    doc.nodes[n].next[i].to \in DOMAIN doc.nodes \cup {End, BackToOrigin}

\* A node's own objections lead to other nodes; a global one may lead to the
\* node it is raised in.
SubnodesExist(doc) ==
  /\ \A o \in DOMAIN doc.global : doc.global[o] \in DOMAIN doc.nodes \cup {Nil}
  /\ \A n \in DOMAIN doc.nodes : \A o \in DOMAIN doc.nodes[n].objections :
       doc.nodes[n].objections[o] \in (DOMAIN doc.nodes \cup {Nil}) \ {n}

\* NodeSpec: at least one transition, an expression where the exit needs one.
NodeValid(node) ==
  /\ node.next # <<>>
  /\ node.exit.type \in {"all_fields_filled", "rule_expression", "combined"}

\* TreeFlow.model_validate
Valid(doc) ==
  /\ doc.entry \in DOMAIN doc.nodes
  /\ \A n \in DOMAIN doc.nodes : NodeValid(doc.nodes[n])
  /\ Targets(doc) /\ SubnodesExist(doc)

-----------------------------------------------------------------------------
(* Routing *)

\* eval_bool: a name that is not collected makes the expression false.
EvalBool(expression, collected) ==
  IF expression = Broken THEN "raises"
  ELSE IF \E c \in expression : c \subseteq collected THEN "true" ELSE "false"

\* _exit_satisfied
ExitSatisfied(node, collected) ==
  LET filled == node.required \subseteq collected IN
  CASE node.exit.type = "all_fields_filled" -> IF filled THEN "true" ELSE "false"
    [] node.exit.type = "rule_expression"   -> EvalBool(node.exit.rule, collected)
    [] OTHER -> IF filled THEN EvalBool(node.exit.rule, collected) ELSE "false"

\* The first transition whose condition is not false; 0 if there is none.
Chosen(node, collected) ==
  LET open == {i \in DOMAIN node.next : EvalBool(node.next[i].when, collected) # "false"} IN
  IF open = {} THEN 0 ELSE CHOOSE i \in open : \A k \in open : i <= k

\* _route: the node that follows and the origin that is left; Nil if a
\* condition raises.
Route(n, collected, origin) ==
  LET node == graph.nodes[n]
      i    == Chosen(node, collected)
      stay == [node |-> n, origin |-> origin]
      to   == node.next[i].to
  IN CASE ExitSatisfied(node, collected) = "false" -> stay
       [] ExitSatisfied(node, collected) = "raises" -> Nil
       [] OTHER ->
            IF i = 0 THEN stay
            ELSE IF EvalBool(node.next[i].when, collected) = "raises" THEN Nil
            ELSE IF to # BackToOrigin THEN [stay EXCEPT !.node = to]
            ELSE IF origin = Nil THEN [stay EXCEPT !.node = graph.entry]
            ELSE [node |-> origin, origin |-> Nil]

-----------------------------------------------------------------------------
\* _applicable_objections: the node's own and the global ones.
Applicable(n) == DOMAIN graph.nodes[n].objections \cup DOMAIN graph.global

Ingest ==
  /\ arrived < MaxMsgs
  /\ arrived' = arrived + 1 /\ queue' = Append(queue, arrived') /\ jobs' = jobs + 1
  /\ UNCHANGED <<graph, rails, ckpt, status, done, run, home, stale, undelivered, faults>>

Enter(step, n, count) ==
  /\ pc' = step /\ at' = n /\ steps' = count /\ tries' = 0

\* step: the checkpoint gets the message as its input, and the first step of the
\* graph, _start_router, looks at the node.  At END no other step runs and the
\* last response stands.
StartTurn ==
  /\ pc = "idle" /\ queue # <<>> /\ jobs > 0
  /\ stale' = (ckpt.node = End)
  /\ IF stale' THEN Enter("reply", Nil, 0) ELSE Enter("classify", ckpt.node, 2)
  /\ UNCHANGED <<graph, rails, ckpt, status, queue, arrived, jobs, done, active, home, undelivered, faults>>

\* An exception leaves step: the transaction rolls back, the job is over, and
\* the message waits for the next one.
Raise ==
  /\ Enter("idle", Nil, 0) /\ jobs' = jobs - 1
  /\ UNCHANGED <<ckpt, status, queue, done, active, home, stale>>

\* The step at hand is saved; LangGraph goes on, unless it is the one after the
\* limit: GraphRecursionError leaves step.
GoOn(step, n) ==
  IF steps > MaxSupersteps THEN Enter("idle", Nil, 0) /\ jobs' = jobs - 1
  ELSE Enter(step, n, IF step = "reply" THEN 0 ELSE steps + 1) /\ UNCHANGED jobs

\* A model cannot be built or called; calls of the classifier's are caught.
ModelFails ==
  /\ pc \in {"node", "inline"} \/ (pc = "classify" /\ Applicable(at) # {})
  /\ faults < MaxFaults /\ faults' = faults + 1
  /\ Raise
  /\ UNCHANGED <<graph, rails, arrived, undelivered>>

-----------------------------------------------------------------------------
(* The classifier's step *)

\* A node's own declaration comes before the global one.
Subnode(n, o) ==
  IF o \in DOMAIN graph.nodes[n].objections THEN graph.nodes[n].objections[o] ELSE graph.global[o]

\* Nothing to look for, no match, too little confidence, an id that is not
\* applicable, or any failure of the classifier: the node goes on.
NoObjection ==
  /\ pc = "classify"
  /\ GoOn("node", at)
  /\ UNCHANGED <<graph, rails, ckpt, status, queue, arrived, done, active, home, stale, undelivered, faults>>

DetectInline ==
  /\ pc = "classify"
  /\ \E o \in Applicable(at) : Subnode(at, o) = Nil /\ active' = o
  /\ GoOn("inline", at)
  /\ UNCHANGED <<graph, rails, ckpt, status, queue, arrived, done, home, stale, undelivered, faults>>

\* Mutant: the objection's node becomes the lead's node at once.
RaisedAndMoved(o) ==
  [ckpt EXCEPT !.origin = at, !.node = Subnode(at, o), !.handled = Append(@, <<o, Head(queue)>>)]

Raised(o) == [ckpt EXCEPT !.origin = at, !.handled = Append(@, <<o, Head(queue)>>)]

\* The record is written and the objection's node takes over, with its own
\* classifier first.
DetectSubnode ==
  /\ pc = "classify"
  /\ \E o \in Applicable(at) :
       /\ Subnode(at, o) # Nil
       /\ ckpt' = Raised(o)
       /\ GoOn("classify", Subnode(at, o))
  /\ home' = IF home = Nil THEN at ELSE home
  /\ UNCHANGED <<graph, rails, status, queue, arrived, done, active, stale, undelivered, faults>>

-----------------------------------------------------------------------------
(* run_with_guardrails, in the step of a node or of an inline response *)

\* What the model returns: whether the prices and products it says it mentions
\* are listed, whether the critic likes its text, and the fields it fills.
Draft == [listed : BOOLEAN, liked : BOOLEAN, fills : SUBSET graph.nodes[at].collects]

\* validate_whitelist
Listed(draft) == rails.enabled => draft.listed

CriticActive == graph.nodes[at].critical /\ rails.enabled /\ rails.critic

\* Mutant: the critic only sees the first draft.
RefusedAtFirst(draft) == ~Listed(draft) \/ (CriticActive /\ ~draft.liked /\ tries = 0)

Refused(draft) == ~Listed(draft) \/ (CriticActive /\ ~draft.liked)

\* critic_pass needs the classifier of tenant.yaml.
CriticRaises(draft) == Listed(draft) /\ CriticActive /\ ~rails.classifier

CriticFails ==
  /\ pc \in {"node", "inline"}
  /\ \E draft \in Draft : CriticRaises(draft)
  /\ Raise
  /\ UNCHANGED <<graph, rails, arrived, undelivered, faults>>

\* Mutant: every other refusal starts the count over.
NextTryAnew == IF tries = 0 THEN 1 ELSE 0

NextTry == tries + 1

AskAgain ==
  /\ pc \in {"node", "inline"} /\ tries < rails.retries
  /\ \E draft \in Draft : Refused(draft) /\ ~CriticRaises(draft)
  /\ tries' = NextTry
  /\ UNCHANGED <<graph, rails, ckpt, status, queue, arrived, jobs, done, pc, at, steps, active, home,
                 stale, undelivered, faults>>

\* _handle_exhausted: the fallback text has no words of a draft, and no fields.
HandleExhausted == [words |-> {}, collected |-> {}, attempts |-> rails.retries + 1]

\* The results that end the loop (GuardrailsRunResult).
Results ==
  {[words |-> {draft}, collected |-> draft.fills, attempts |-> tries] :
     draft \in {d \in Draft : ~Refused(d) /\ ~CriticRaises(d)}}
    \cup {HandleExhausted : draft \in {d \in Draft : Refused(d) /\ ~CriticRaises(d) /\ tries = rails.retries}}

\* Mutant: a retried answer appends the message with each attempt.
RecordTwice(messages) == messages \o [i \in 1..(tries + 1) |-> Head(queue)]

\* new_msgs: the message at hand, with the answer.
Record(messages) == Append(messages, Head(queue))

\* last_agent_response, with the node that gave it.
Response(result) == [node |-> at, words |-> result.words, attempts |-> result.attempts]

\* The graph has ended.  At LangGraph's limit its last step is saved too.
EndGraph == GoOn("reply", Nil) /\ undelivered' = (undelivered \/ pc' = "idle")

\* node_fn: what was collected, the route, the end of the run.
RunNode ==
  /\ pc = "node"
  /\ \E result \in Results :
       LET collected == ckpt.collected \cup result.collected
           next      == Route(at, collected, ckpt.origin)
       IN IF next = Nil THEN Raise /\ UNCHANGED undelivered
          ELSE /\ ckpt' = [ckpt EXCEPT !.collected = collected, !.messages = Record(@),
                                       !.response = Response(result), !.node = next.node,
                                       !.origin = next.origin, !.completed = (next.node = End)]
               /\ home' = IF next.node = at THEN home ELSE Nil
               /\ EndGraph
               /\ UNCHANGED <<status, queue, done, active, stale>>
  /\ UNCHANGED <<graph, rails, arrived, faults>>

\* inline_fn: the node and what was collected stay.
RunInline ==
  /\ pc = "inline"
  /\ \E result \in Results :
       ckpt' = [ckpt EXCEPT !.messages = Record(@), !.response = Response(result),
                            !.handled = Append(@, <<active, Head(queue)>>)]
  /\ active' = Nil
  /\ home' = IF ckpt.node = home THEN Nil ELSE home
  /\ EndGraph
  /\ UNCHANGED <<graph, rails, status, queue, arrived, done, stale, faults>>

-----------------------------------------------------------------------------
\* The reply goes out and the job commits; the jobs of messages it has drained
\* find nothing.
Reply ==
  /\ pc = "reply"
  /\ status' = IF ckpt.completed THEN "completed" ELSE status
  /\ done' = Append(done, Head(queue)) /\ queue' = Tail(queue)
  /\ jobs' = IF queue' = <<>> THEN 0 ELSE jobs
  /\ Enter("idle", Nil, 0)
  /\ UNCHANGED <<graph, rails, ckpt, arrived, active, home, stale, undelivered, faults>>

\* The adapter or the commit raises: the message is still queued, the
\* checkpoint has it already.
ReplyFails ==
  /\ pc = "reply"
  /\ faults < MaxFaults /\ faults' = faults + 1
  /\ undelivered' = TRUE
  /\ Raise
  /\ UNCHANGED <<graph, rails, arrived>>

-----------------------------------------------------------------------------
Init ==
  /\ graph \in {doc \in Document : Valid(doc)} /\ rails \in Guardrails
  /\ ckpt = [node |-> graph.entry, origin |-> Nil, collected |-> {}, messages |-> <<>>,
             handled |-> <<>>, response |-> Nil, completed |-> FALSE]
  /\ status = "active" /\ queue = <<>> /\ arrived = 0 /\ jobs = 0 /\ done = <<>>
  /\ pc = "idle" /\ at = Nil /\ steps = 0 /\ tries = 0 /\ active = Nil
  /\ home = Nil /\ stale = FALSE /\ undelivered = FALSE /\ faults = 0

GraphStep ==
  NoObjection \/ DetectInline \/ DetectSubnode \/ CriticFails \/ AskAgain \/ RunNode \/ RunInline

Next == Ingest \/ StartTurn \/ ModelFails \/ GraphStep \/ Reply \/ ReplyFails

\* The event loop runs what it has begun.
Spec == Init /\ [][Next]_vars
FairSpec == Spec /\ WF_vars(GraphStep) /\ WF_vars(Reply)

-----------------------------------------------------------------------------
(* Properties *)

\* _start_router never raises: whatever failed before, a checkpoint stands in a
\* node of its TreeFlow or at the end, and so does the place it is to return to.
StartsInGraph ==
  /\ ckpt.node \in DOMAIN graph.nodes \cup {End}
  /\ ckpt.origin \in DOMAIN graph.nodes \cup {Nil}
  /\ pc \in {"classify", "node", "inline"} => at \in DOMAIN graph.nodes

\* Types, and a position in the graph.
TypeOK ==
  /\ graph \in Document /\ rails \in Guardrails
  /\ ckpt.collected \subseteq Field /\ ckpt.completed \in BOOLEAN
  /\ ckpt.messages \in Seq(1..arrived) /\ ckpt.handled \in Seq(Objection \X (1..arrived))
  /\ status \in {"active", "completed"}
  /\ queue \in Seq(1..arrived) /\ done \in Seq(1..arrived) /\ arrived \in 0..MaxMsgs /\ jobs \in 0..MaxMsgs
  /\ pc \in {"idle", "classify", "node", "inline", "reply"}
  /\ at \in Node \cup {Nil} /\ home \in Node \cup {Nil} /\ active \in Objection \cup {Nil}
  /\ steps \in 0..(MaxSupersteps + 1) /\ tries \in 0..rails.retries
  /\ ckpt.response # Nil =>
       ckpt.response.node \in Node /\ ckpt.response.attempts \in 0..(rails.retries + 1)
  /\ stale \in BOOLEAN /\ undelivered \in BOOLEAN /\ faults \in 0..MaxFaults
  /\ StartsInGraph

\* The conversation the model is shown is the one the lead had: every message
\* processed before the end once, in order, as long as no turn has failed
\* after its answer was saved; a failure of a model repeats nothing.
HistoryIsFaithful ==
  LET seen == done \o (IF pc = "reply" THEN <<Head(queue)>> ELSE <<>>) IN
  ~undelivered => /\ IsPrefix(ckpt.messages, seen)
                  /\ ckpt.node # End => ckpt.messages = seen

\* Whether a draft may leave as the answer of node n.
Fit(draft, n) ==
  rails.enabled => draft.listed /\ (graph.nodes[n].critical /\ rails.critic => rails.classifier /\ draft.liked)

\* What stands in the checkpoint to be sent, now or again at the end: a draft
\* that is fit or, once the drafts are used up, the fallback.
ResponseAllowed ==
  LET r == ckpt.response IN
  r # Nil => \/ r.words = {} /\ rails.enabled /\ r.attempts = rails.retries + 1
             \/ /\ r.words # {} /\ r.attempts <= rails.retries
                /\ \A draft \in r.words : Fit(draft, r.node)

\* No draft that the whitelist or the critic refuses reaches the lead or the
\* checkpoint, with its words or its fields, after any number of retries and in
\* an objection's answer as in a node's own.
AnswersAllowed ==
  [][/\ ResponseAllowed'
     /\ \A field \in ckpt'.collected \ ckpt.collected :
          \E draft \in ckpt'.response.words : field \in draft.fills /\ Fit(draft, at)]_vars

\* A message is answered from where the lead stands: what was collected and the
\* node only change in a step of the node that was to answer, so a turn that
\* fails, or deals with an objection inline, moves nobody.
OnlyNodesMove ==
  [][ckpt'.node # ckpt.node \/ ckpt'.collected # ckpt.collected
       => pc = "node" /\ Len(ckpt'.messages) = Len(ckpt.messages) + 1
          /\ (at = ckpt.node \/ ckpt.origin # Nil)]_vars

\* A turn comes to its end: whatever the classifier finds in an objection's
\* node, and however often the guardrails refuse.
TurnEnds == (pc # "idle") ~> (pc = "idle")

\* "a conversa retorna ao Node original": BACK_TO_ORIGIN leads to the node
\* where the lead was when the objection's node took over.
ReturnsHome == [][ckpt.origin # Nil /\ ckpt'.origin = Nil => ckpt'.node = home]_vars

\* "set/clear estritamente na transição subnode ... sem leak entre turns".
OriginIsShort == pc = "idle" => ckpt.origin = Nil \/ ckpt.origin # ckpt.node

\* Every reply answers its message.
RepliesAreNew == ~stale

\* A message enters the conversation once.
MessagesOnce == \A i, k \in DOMAIN ckpt.messages : ckpt.messages[i] = ckpt.messages[k] => i = k
=============================================================================
