------------------------ MODULE TreeflowEngine_proofs ------------------------
(***************************************************************************)
(* Theorems about TreeflowEngine, for every TreeFlow that its schema       *)
(* accepts and any number of messages: types and the position in the       *)
(* graph, the faithful history, and the moves.                             *)
(***************************************************************************)
EXTENDS TreeflowEngine, SequenceTheorems, WellFoundedInduction, TLAPS

-----------------------------------------------------------------------------
(* The inductive invariant *)

AnyDraft == [listed : BOOLEAN, liked : BOOLEAN, fills : SUBSET Field]

AnyResponse == [node : Node, words : SUBSET AnyDraft, attempts : Nat]

Checkpoint ==
  [node : Node \cup {End}, origin : Node \cup {Nil}, collected : SUBSET Field,
   messages : Seq(Nat), handled : Seq(Objection \X Nat), response : AnyResponse \cup {Nil},
   completed : BOOLEAN]

Types ==
  /\ graph \in Document /\ Valid(graph) /\ rails \in Guardrails
  /\ ckpt \in Checkpoint /\ status \in {"active", "completed"}
  /\ queue \in Seq(Nat) /\ done \in Seq(Nat) /\ arrived \in 0..MaxMsgs /\ jobs \in 0..arrived
  /\ pc \in {"idle", "classify", "node", "inline", "reply"}
  /\ at \in Node \cup {Nil} /\ home \in Node \cup {Nil} /\ active \in Objection \cup {Nil}
  /\ steps \in 0..(MaxSupersteps + 1) /\ tries \in 0..rails.retries
  /\ stale \in BOOLEAN /\ undelivered \in BOOLEAN /\ faults \in 0..MaxFaults

Answering == pc \in {"classify", "node", "inline"}

\* The messages that are waiting, done or in the conversation have arrived.
Arrived ==
  /\ \A i \in DOMAIN queue : queue[i] \in 1..arrived
  /\ \A i \in DOMAIN done : done[i] \in 1..arrived
  /\ \A i \in DOMAIN ckpt.messages : ckpt.messages[i] \in 1..arrived
  /\ \A i \in DOMAIN ckpt.handled : ckpt.handled[i][2] \in 1..arrived

\* A turn has its message and its job; a step that answers has its node, which
\* is the lead's own unless an objection's has taken over.
Busy ==
  /\ pc # "idle" => queue # <<>> /\ jobs > 0
  /\ Answering => /\ at \in DOMAIN graph.nodes /\ ckpt.node # End
                  /\ at = ckpt.node \/ ckpt.origin # Nil
  /\ pc = "inline" => active # Nil

\* The messages that the turn at hand will have answered.
Seen == IF pc = "reply" THEN Append(done, Head(queue)) ELSE done

Begins(s, t) == Len(s) <= Len(t) /\ \A i \in DOMAIN s : s[i] = t[i]

Faithful ==
  ~undelivered => /\ Begins(ckpt.messages, Seen)
                  /\ ckpt.node # End => ckpt.messages = Seen

EngineInv == Types /\ StartsInGraph /\ Arrived /\ Busy /\ Faithful /\ ResponseAllowed

-----------------------------------------------------------------------------
(* Operators *)

\* Of the transitions whose condition is not false there is a first one.
LEMMA FirstOf ==
  ASSUME NEW S \in SUBSET Nat, S # {}
  PROVE  \E i \in S : \A k \in S : i <= k
  <1>1. PICK i \in S : \A k \in S : ~(<<k, i>> \in OpToRel(<, Nat))
    BY NatLessThanWellFounded, WFMin
  <1>2. ASSUME NEW k \in S, ~(i <= k) PROVE FALSE
    <2>1. k \in Nat /\ i \in Nat /\ k < i
      BY <1>2
    <2>2. <<k, i>> \in OpToRel(<, Nat)
      BY <2>1 DEF OpToRel
    <2> QED  BY <1>1, <2>2
  <1> QED  BY <1>2

LEMMA ChosenFirst ==
  ASSUME NEW node, NEW collected, DOMAIN node.next \subseteq Nat, Chosen(node, collected) # 0
  PROVE  Chosen(node, collected) \in DOMAIN node.next
  <1> DEFINE open == {i \in DOMAIN node.next : EvalBool(node.next[i].when, collected) # "false"}
  <1>1. Chosen(node, collected) = IF open = {} THEN 0 ELSE CHOOSE i \in open : \A k \in open : i <= k
    BY DEF Chosen
  <1>2. open \in SUBSET Nat /\ open # {}
    BY <1>1
  <1>3. \E i \in open : \A k \in open : i <= k
    BY <1>2, FirstOf
  <1>4. Chosen(node, collected) \in open
    BY <1>1, <1>2, <1>3
  <1> QED  BY <1>4

\* A route leads to a node of the graph or to the end, and leaves an origin
\* that is a node or none (treeflow/compiler.py:417-470).
LEMMA RouteInGraph ==
  ASSUME graph \in Document, Valid(graph), NEW n \in DOMAIN graph.nodes, NEW collected,
         NEW origin \in DOMAIN graph.nodes \cup {Nil}, Route(n, collected, origin) # Nil
  PROVE  /\ Route(n, collected, origin).node \in DOMAIN graph.nodes \cup {End}
         /\ Route(n, collected, origin).origin \in DOMAIN graph.nodes \cup {Nil}
  <1> DEFINE node == graph.nodes[n]
             i == Chosen(node, collected)
             stay == [node |-> n, origin |-> origin]
             to == node.next[i].to
  <1>1. DOMAIN node.next \subseteq Nat
    BY DocumentAssumption
  <1>2. i # 0 => i \in DOMAIN node.next
    BY <1>1, ChosenFirst
  <1>3. i # 0 => to \in DOMAIN graph.nodes \cup {End, BackToOrigin}
    BY <1>2 DEF Valid, Targets
  <1>4. graph.entry \in DOMAIN graph.nodes
    BY DEF Valid
  <1>5. \/ Route(n, collected, origin) = stay
        \/ i # 0 /\ to # BackToOrigin /\ Route(n, collected, origin) = [stay EXCEPT !.node = to]
        \/ i # 0 /\ Route(n, collected, origin) = [stay EXCEPT !.node = graph.entry]
        \/ origin # Nil /\ Route(n, collected, origin) = [node |-> origin, origin |-> Nil]
    BY DEF Route
  <1> QED  BY <1>3, <1>4, <1>5

\* Where an objection's own node is.
LEMMA SubnodeInGraph ==
  ASSUME graph \in Document, Valid(graph), NEW n \in DOMAIN graph.nodes, NEW o \in Applicable(n),
         Subnode(n, o) # Nil
  PROVE  Subnode(n, o) \in DOMAIN graph.nodes /\ o \in Objection
  BY DocumentAssumption DEF Valid, SubnodesExist, Applicable, Subnode

-----------------------------------------------------------------------------
(* Steps *)

LEMMA Starts == Init => EngineInv
  <1> SUFFICES ASSUME Init PROVE EngineInv
    OBVIOUS
  <1>1. graph \in Document /\ Valid(graph) /\ rails \in Guardrails
    BY DEF Init
  <1>2. graph.entry \in DOMAIN graph.nodes /\ graph.entry \in Node
    BY <1>1, DocumentAssumption DEF Valid
  <1>3. Types
    <2>1. ckpt \in Checkpoint
      BY <1>2 DEF Init, Checkpoint
    <2>2. rails.retries \in Nat /\ MaxMsgs \in Nat /\ MaxFaults \in Nat /\ MaxSupersteps \in Nat
      BY <1>1, BoundAssumption
    <2>3. steps \in 0..(MaxSupersteps + 1) /\ tries \in 0..rails.retries /\ faults \in 0..MaxFaults
          /\ arrived \in 0..MaxMsgs /\ jobs \in 0..arrived
      BY <2>2 DEF Init
    <2>4. queue = <<>> /\ done = <<>> /\ status = "active" /\ pc = "idle"
          /\ at = Nil /\ home = Nil /\ active = Nil
      BY DEF Init
    <2>5. stale \in BOOLEAN /\ undelivered \in BOOLEAN
      BY Zenon DEF Init
    <2> QED  BY <1>1, <2>1, <2>3, <2>4, <2>5 DEF Types
  <1>4. StartsInGraph /\ Arrived /\ Busy
    BY <1>2 DEF Init, StartsInGraph, Arrived, Busy, Answering
  <1>5. Faithful
    BY DEF Init, Faithful, Seen, Begins
  <1>6. ResponseAllowed
    BY DEF Init, ResponseAllowed
  <1> QED  BY <1>3, <1>4, <1>5, <1>6 DEF EngineInv

\* What stands to be sent stays allowed where the checkpoint's response stays.
LEMMA ResponseStays ==
  ASSUME ResponseAllowed, ckpt'.response = ckpt.response, UNCHANGED <<graph, rails>>
  PROVE  ResponseAllowed'
  BY DEF ResponseAllowed, Fit

LEMMA StepIngest ==
  ASSUME EngineInv, Ingest
  PROVE  EngineInv'
  <1>1. /\ arrived < MaxMsgs /\ arrived' = arrived + 1 /\ queue' = Append(queue, arrived + 1) /\ jobs' = jobs + 1
        /\ UNCHANGED <<graph, rails, ckpt, status, done, pc, at, steps, tries, active, home, stale,
                       undelivered, faults>>
    BY DEF Ingest, run
  <1>2. Types /\ Arrived
    BY DEF EngineInv
  <1>3. Types'
    BY <1>1, <1>2, BoundAssumption DEF Types
  <1>4. Arrived'
    <2>1. \A i : i \in 1..arrived => i \in 1..arrived'
      BY <1>1, <1>2 DEF Types
    <2>2. \A i \in DOMAIN queue' : queue'[i] \in 1..arrived'
      <3> SUFFICES ASSUME NEW i \in DOMAIN queue' PROVE queue'[i] \in 1..arrived'
        OBVIOUS
      <3>1. queue \in Seq(Nat) /\ arrived \in Nat
        BY <1>2, BoundAssumption DEF Types
      <3>2. CASE i \in DOMAIN queue
        BY <1>1, <1>2, <2>1, <3>1, <3>2 DEF Arrived
      <3>3. CASE i = Len(queue) + 1
        BY <1>1, <3>1, <3>3
      <3> QED  BY <1>1, <3>1, <3>2, <3>3
    <2>3. \A i \in DOMAIN done' : done'[i] \in 1..arrived'
      BY <1>1, <1>2, <2>1 DEF Arrived
    <2>4. /\ \A i \in DOMAIN ckpt'.messages : ckpt'.messages[i] \in 1..arrived'
          /\ \A i \in DOMAIN ckpt'.handled : ckpt'.handled[i][2] \in 1..arrived'
      BY <1>1, <1>2, <2>1 DEF Arrived
    <2> QED  BY <2>2, <2>3, <2>4 DEF Arrived
  <1>5. queue # <<>> => queue' # <<>> /\ Head(queue') = Head(queue)
    BY <1>1, <1>2 DEF Types
  <1>6. StartsInGraph' /\ Busy'
    BY <1>1, <1>2, <1>5 DEF EngineInv, StartsInGraph, Busy, Answering, Types
  <1>7. Seen' = Seen
    BY <1>1, <1>5 DEF EngineInv, Busy, Seen
  <1>8. Faithful'
    BY <1>1, <1>7 DEF EngineInv, Faithful, Begins
  <1>9. ResponseAllowed'
    BY <1>1, ResponseStays DEF EngineInv
  <1> QED  BY <1>3, <1>4, <1>6, <1>8, <1>9 DEF EngineInv

\* At the end the last response stands for the turn's own: the message enters
\* the conversation of no checkpoint.
LEMMA StepStartTurn ==
  ASSUME EngineInv, StartTurn
  PROVE  EngineInv'
  <1>1. /\ pc = "idle" /\ queue # <<>> /\ jobs > 0 /\ tries' = 0
        /\ UNCHANGED <<graph, rails, ckpt, status, queue, arrived, jobs, done, active, home, undelivered, faults>>
    BY DEF StartTurn, Enter
  <1>2. \/ ckpt.node = End /\ pc' = "reply" /\ at' = Nil /\ steps' = 0
        \/ ckpt.node # End /\ pc' = "classify" /\ at' = ckpt.node /\ steps' = 2
    <2>1. stale' = (ckpt.node = End)
      BY DEF StartTurn
    <2> QED  BY <2>1 DEF StartTurn, Enter
  <1>8. stale' \in BOOLEAN
    <2>1. stale' = (ckpt.node = End)
      BY DEF StartTurn
    <2> QED  BY <2>1
  <1>3. Types /\ StartsInGraph /\ Arrived /\ Faithful
    BY DEF EngineInv
  <1>4. Types'
    <2>1. /\ steps' \in 0..(MaxSupersteps + 1) /\ tries' \in 0..rails.retries
          /\ at' \in Node \cup {Nil} /\ pc' \in {"classify", "reply"}
      BY <1>1, <1>2, <1>3, BoundAssumption DEF Types, Checkpoint
    <2> QED  BY <1>1, <1>3, <1>8, <2>1 DEF Types, Valid, Targets, SubnodesExist
  <1>5. Arrived'
    BY <1>1, <1>3 DEF Arrived
  <1>6. StartsInGraph' /\ Busy'
    BY <1>1, <1>2, <1>3, BoundAssumption DEF StartsInGraph, Busy, Answering, Types
  <1>7. Faithful'
    <2>1. CASE pc' = "classify"
      BY <1>1, <1>3, <2>1 DEF Faithful, Seen, Begins
    <2>2. CASE pc' = "reply"
      <3>1. ckpt.node = End /\ Seen = done /\ Seen' = Append(done, Head(queue))
        BY <1>1, <1>2, <2>2 DEF Seen
      <3>2. done \in Seq(Nat) /\ Head(queue) \in Nat /\ ckpt.messages \in Seq(Nat)
        BY <1>1, <1>3 DEF Types, Checkpoint
      <3>3. Begins(ckpt.messages, done) => Begins(ckpt.messages, Append(done, Head(queue)))
        BY <3>2 DEF Begins
      <3> QED  BY <1>1, <1>3, <3>1, <3>3 DEF Faithful, Begins
    <2> QED  BY <1>2, <2>1, <2>2
  <1>9. ResponseAllowed'
    BY <1>1, ResponseStays DEF EngineInv
  <1> QED  BY <1>4, <1>5, <1>6, <1>7, <1>9 DEF EngineInv

\* A turn that raises leaves the conversation as it is: only one whose graph had
\* ended leaves a message there that is still to be answered.
LEMMA StepStops ==
  ASSUME EngineInv, pc # "idle", pc' = "idle", at' = Nil, steps' = 0, tries' = 0, jobs' = jobs - 1,
         active' \in Objection \cup {Nil}, faults' \in 0..MaxFaults, undelivered' \in BOOLEAN,
         (pc # "reply" /\ undelivered' = undelivered) \/ undelivered',
         UNCHANGED <<graph, rails, ckpt, status, queue, arrived, done, home, stale>>
  PROVE  EngineInv'
  <1>1. Types /\ jobs > 0
    BY DEF EngineInv, Busy
  <1>2. Types'
    BY <1>1, BoundAssumption DEF Types, Valid, Targets, SubnodesExist
  <1>3. Arrived' /\ StartsInGraph' /\ Busy'
    BY DEF EngineInv, Arrived, StartsInGraph, Busy, Answering
  <1>4. Faithful'
    BY DEF EngineInv, Faithful, Seen, Begins
  <1>5. ResponseAllowed'
    BY ResponseStays DEF EngineInv
  <1> QED  BY <1>2, <1>3, <1>4, <1>5 DEF EngineInv

LEMMA StepRaise ==
  ASSUME EngineInv, Raise, pc # "idle", UNCHANGED <<graph, rails, arrived>>,
         faults' \in 0..MaxFaults, undelivered' \in BOOLEAN,
         (pc # "reply" /\ undelivered' = undelivered) \/ undelivered'
  PROVE  EngineInv'
  <1>1. active' \in Objection \cup {Nil}
    BY DEF Raise, EngineInv, Types
  <1> QED  BY <1>1, StepStops DEF Raise, Enter

LEMMA StepFails ==
  ASSUME EngineInv, ModelFails \/ CriticFails \/ ReplyFails
  PROVE  EngineInv'
  <1>1. Raise /\ pc # "idle" /\ UNCHANGED <<graph, rails, arrived>>
        /\ (faults' = faults \/ (faults < MaxFaults /\ faults' = faults + 1))
    <2>1. CASE ModelFails
      <3>1. Raise /\ UNCHANGED <<graph, rails, arrived>> /\ faults < MaxFaults /\ faults' = faults + 1
        BY <2>1, Zenon DEF ModelFails
      <3>2. pc # "idle"
        BY <2>1 DEF ModelFails
      <3> QED  BY <3>1, <3>2
    <2>2. CASE CriticFails
      <3>1. Raise /\ UNCHANGED <<graph, rails, arrived>> /\ faults' = faults
        BY <2>2, Zenon DEF CriticFails
      <3>2. pc # "idle"
        BY <2>2 DEF CriticFails
      <3> QED  BY <3>1, <3>2
    <2>3. CASE ReplyFails
      BY <2>3 DEF ReplyFails
    <2> QED  BY <2>1, <2>2, <2>3
  <1>3. faults' \in 0..MaxFaults
    BY <1>1, BoundAssumption DEF EngineInv, Types
  <1>2. undelivered' \in BOOLEAN /\ ((pc # "reply" /\ undelivered' = undelivered) \/ undelivered')
    BY DEF ModelFails, CriticFails, ReplyFails, EngineInv, Types
  <1> QED  BY <1>1, <1>2, <1>3, StepRaise

\* The next step of the same turn, with the checkpoint's node, origin and
\* messages as they are.
LEMMA StepOn ==
  ASSUME EngineInv, pc \in {"classify", "node", "inline"}, pc' \in {"node", "inline"},
         at' = at, steps' \in 0..(MaxSupersteps + 1), tries' \in 0..rails.retries,
         active' \in Objection \cup {Nil}, pc' = "inline" => active' # Nil,
         UNCHANGED <<graph, rails, ckpt, status, queue, arrived, jobs, done, home, stale,
                     undelivered, faults>>
  PROVE  EngineInv'
  <1>1. Types'
    BY DEF EngineInv, Types
  <1>2. Arrived' /\ StartsInGraph' /\ Busy'
    BY DEF EngineInv, Arrived, StartsInGraph, Busy, Answering
  <1>3. Faithful'
    BY DEF EngineInv, Faithful, Seen, Begins
  <1>4. ResponseAllowed'
    BY ResponseStays DEF EngineInv
  <1> QED  BY <1>1, <1>2, <1>3, <1>4 DEF EngineInv

LEMMA StepClassify ==
  ASSUME EngineInv, NoObjection \/ DetectInline
  PROVE  EngineInv'
  <1>1. Types /\ at \in DOMAIN graph.nodes /\ pc = "classify"
    BY DEF EngineInv, Busy, Answering, NoObjection, DetectInline
  <1>2. active' \in Objection \cup {Nil} /\ (DetectInline => active' # Nil)
    <2>1. ASSUME DetectInline PROVE active' \in Objection
      <3>1. PICK o \in Applicable(at) : active' = o
        BY <2>1 DEF DetectInline
      <3> QED  BY <1>1, <3>1, DocumentAssumption DEF Applicable, Types
    <2>2. NoObjection => active' = active
      BY DEF NoObjection
    <2> QED  BY <1>1, <2>1, <2>2, SentinelAssumption DEF Types
  <1>3. PICK step \in {"node", "inline"} : GoOn(step, at) /\ (step = "inline" => DetectInline)
    BY DEF NoObjection, DetectInline
  <1>4. UNCHANGED <<graph, rails, ckpt, status, queue, arrived, done, home, stale, undelivered, faults>>
    BY DEF NoObjection, DetectInline
  <1>5. undelivered' \in BOOLEAN /\ faults' \in 0..MaxFaults /\ 0 \in 0..rails.retries
    BY <1>1, <1>4, BoundAssumption DEF Types
  <1>6. CASE steps > MaxSupersteps
    <2>1. pc' = "idle" /\ at' = Nil /\ steps' = 0 /\ tries' = 0 /\ jobs' = jobs - 1
      BY <1>3, <1>6 DEF GoOn, Enter
    <2> QED  BY <1>1, <1>2, <1>4, <1>5, <2>1, StepStops
  <1>7. CASE ~(steps > MaxSupersteps)
    <2>1. pc' = step /\ at' = at /\ steps' = steps + 1 /\ tries' = 0 /\ jobs' = jobs
      BY <1>3, <1>7 DEF GoOn, Enter
    <2>2. steps' \in 0..(MaxSupersteps + 1)
      BY <1>1, <1>7, <2>1, BoundAssumption DEF Types
    <2> QED  BY <1>1, <1>2, <1>3, <1>4, <1>5, <2>1, <2>2, StepOn
  <1> QED  BY <1>6, <1>7

LEMMA StepAskAgain ==
  ASSUME EngineInv, AskAgain
  PROVE  EngineInv'
  <1>1. tries' \in 0..rails.retries
    BY BoundAssumption DEF AskAgain, NextTry, EngineInv, Types
  <1> QED  BY <1>1, StepOn DEF AskAgain, EngineInv, Types, Busy

\* The record of an objection is written: the node does not change.
LEMMA StepDetectSubnode ==
  ASSUME EngineInv, DetectSubnode
  PROVE  EngineInv'
  <1>1. PICK o \in Applicable(at) :
          /\ Subnode(at, o) # Nil /\ ckpt' = Raised(o)
          /\ GoOn("classify", Subnode(at, o))
    BY DEF DetectSubnode
  <1>2. /\ pc = "classify" /\ home' \in {home, at}
        /\ UNCHANGED <<graph, rails, status, queue, arrived, done, active, stale, undelivered, faults>>
    BY DEF DetectSubnode
  <1>3. Types /\ Arrived /\ at \in DOMAIN graph.nodes /\ at \in Node /\ queue # <<>> /\ jobs > 0
        /\ ckpt.node # End
    BY <1>2, DocumentAssumption DEF EngineInv, Busy, Answering, Types
  <1>4. Subnode(at, o) \in DOMAIN graph.nodes /\ Subnode(at, o) \in Node /\ o \in Objection
    BY <1>1, <1>3, SubnodeInGraph, DocumentAssumption DEF Types
  <1>5. Head(queue) \in Nat /\ Head(queue) \in 1..arrived
    BY <1>3 DEF Types, Arrived
  <1>6. /\ ckpt' \in Checkpoint /\ ckpt'.node = ckpt.node /\ ckpt'.origin = at
        /\ ckpt'.messages = ckpt.messages /\ ckpt'.handled = Append(ckpt.handled, <<o, Head(queue)>>)
        /\ ckpt'.response = ckpt.response
    <2>1. ckpt' = [ckpt EXCEPT !.origin = at, !.handled = Append(@, <<o, Head(queue)>>)]
      BY <1>1 DEF Raised
    <2>2. ckpt \in Checkpoint
      BY <1>3 DEF Types
    <2>3. Append(ckpt.handled, <<o, Head(queue)>>) \in Seq(Objection \X Nat)
      BY <1>4, <1>5, <2>2 DEF Checkpoint
    <2> QED  BY <1>3, <2>1, <2>2, <2>3 DEF Checkpoint
  <1>7. \/ pc' = "idle" /\ at' = Nil /\ steps' = 0 /\ jobs' = jobs - 1 /\ tries' = 0
        \/ /\ pc' = "classify" /\ at' = Subnode(at, o) /\ steps' = steps + 1 /\ tries' = 0
           /\ ~(steps > MaxSupersteps) /\ jobs' = jobs
    BY <1>1 DEF GoOn, Enter
  <1>8. Types'
    <2>0. /\ jobs \in 0..arrived /\ steps \in 0..(MaxSupersteps + 1) /\ rails.retries \in Nat
          /\ MaxSupersteps \in Nat /\ arrived \in Nat
      BY <1>3, BoundAssumption DEF Types
    <2>1. jobs' \in 0..arrived /\ steps' \in 0..(MaxSupersteps + 1) /\ tries' \in 0..rails.retries
      <3>1. CASE pc' = "idle"
        BY <1>3, <1>7, <2>0, <3>1
      <3>2. CASE pc' = "classify"
        BY <1>7, <2>0, <3>2
      <3> QED  BY <1>7, <3>1, <3>2
    <2>2. pc' \in {"idle", "classify", "node", "inline", "reply"} /\ at' \in Node \cup {Nil}
          /\ home' \in Node \cup {Nil}
      BY <1>2, <1>3, <1>4, <1>7 DEF Types
    <2> QED  BY <1>2, <1>3, <1>6, <2>1, <2>2 DEF Types, Valid, Targets, SubnodesExist
  <1>9. Arrived'
    <2>1. ckpt.handled \in Seq(Objection \X Nat)
      BY <1>3 DEF Types, Checkpoint
    <2>2. \A i \in DOMAIN ckpt'.handled : ckpt'.handled[i][2] \in 1..arrived
      BY <1>3, <1>5, <1>6, <2>1 DEF Arrived
    <2> QED  BY <1>2, <1>3, <1>6, <2>2 DEF Arrived
  <1>10. StartsInGraph' /\ Busy'
    <2>1. ckpt.node \in DOMAIN graph.nodes \cup {End} /\ at # Nil
      BY <1>3, SentinelAssumption DEF EngineInv, StartsInGraph
    <2>2. CASE pc' = "idle"
      BY <1>2, <1>3, <1>6, <2>1, <2>2 DEF StartsInGraph, Busy, Answering
    <2>3. CASE pc' = "classify"
      <3>1. at' = Subnode(at, o) /\ jobs' = jobs
        BY <1>7, <2>3
      <3> QED  BY <1>2, <1>3, <1>4, <1>6, <2>1, <2>3, <3>1 DEF StartsInGraph, Busy, Answering
    <2> QED  BY <1>7, <2>2, <2>3
  <1>11. Faithful'
    BY <1>2, <1>6, <1>7 DEF EngineInv, Faithful, Seen, Begins
  <1>12. ResponseAllowed'
    BY <1>2, <1>6, ResponseStays DEF EngineInv
  <1> QED  BY <1>8, <1>9, <1>10, <1>11, <1>12 DEF EngineInv

\* A step that answers: the message is in the conversation, and the reply is
\* what is left of the turn, or nothing is at the limit of LangGraph.
LEMMA StepAnswers ==
  ASSUME EngineInv, pc \in {"node", "inline"}, EndGraph,
         ckpt' \in Checkpoint, ckpt'.messages = Record(ckpt.messages),
         ckpt'.node \in DOMAIN graph.nodes \cup {End}, ckpt'.origin \in DOMAIN graph.nodes \cup {Nil},
         \A i \in DOMAIN ckpt'.handled : ckpt'.handled[i][2] \in 1..arrived, ResponseAllowed',
         home' \in {home, Nil}, active' \in {active, Nil},
         UNCHANGED <<graph, rails, status, queue, arrived, done, stale, faults>>
  PROVE  EngineInv'
  <1>1. Types /\ Arrived /\ Faithful /\ queue # <<>> /\ jobs > 0 /\ ckpt.node # End
    BY DEF EngineInv, Busy, Answering
  <1>2. Head(queue) \in Nat /\ Head(queue) \in 1..arrived /\ ckpt.messages \in Seq(Nat) /\ done \in Seq(Nat)
    BY <1>1 DEF Types, Arrived, Checkpoint
  <1>3. at' = Nil /\ steps' = 0 /\ tries' = 0
        /\ \/ pc' = "reply" /\ jobs' = jobs
           \/ pc' = "idle" /\ jobs' = jobs - 1
    BY DEF EndGraph, GoOn, Enter
  <1>4. undelivered' \in BOOLEAN /\ (undelivered' = undelivered \/ undelivered')
        /\ (pc' = "idle" => undelivered')
    <2>1. undelivered' = (undelivered \/ pc' = "idle") /\ undelivered \in BOOLEAN
      BY <1>1 DEF EndGraph, Types
    <2> QED  BY <2>1
  <1>5. Types'
    <2>1. jobs' \in 0..arrived /\ steps' \in 0..(MaxSupersteps + 1) /\ tries' \in 0..rails.retries
      BY <1>1, <1>3, BoundAssumption DEF Types
    <2> QED  BY <1>1, <1>3, <1>4, <2>1 DEF Types, Valid, Targets, SubnodesExist
  <1>6. \A i \in DOMAIN ckpt'.messages : ckpt'.messages[i] \in 1..arrived
    BY <1>1, <1>2 DEF Record, Arrived
  <1>7. Arrived'
    BY <1>1, <1>6 DEF Arrived
  <1>8. StartsInGraph' /\ Busy'
    BY <1>1, <1>3 DEF StartsInGraph, Busy, Answering
  <1>9. Faithful'
    <2>1. CASE pc' = "idle"
      BY <1>4, <2>1 DEF Faithful
    <2>2. CASE pc' = "reply"
      <3>1. Seen = done /\ Seen' = Append(done, Head(queue))
        BY <2>2 DEF Seen
      <3>2. ~undelivered' => ckpt'.messages = Seen'
        BY <1>1, <1>4, <3>1 DEF Faithful, Record
      <3>3. Seen' \in Seq(Nat)
        BY <1>2, <3>1
      <3> QED  BY <3>2, <3>3 DEF Faithful, Begins
    <2> QED  BY <1>3, <2>1, <2>2
  <1> QED  BY <1>5, <1>7, <1>8, <1>9 DEF EngineInv

\* The loop ends with a draft that is fit, within the retries, or, when the last
\* draft is refused, with the fallback and no fields (guardrails/runner.py:103-176).
LEMMA ResultsAre ==
  ASSUME Types, at \in DOMAIN graph.nodes, NEW result \in Results
  PROVE  /\ result.collected \subseteq Field
         /\ Response(result) \in AnyResponse /\ Response(result).node = at
         /\ \/ /\ Response(result).words = {} /\ result.collected = {} /\ rails.enabled
               /\ Response(result).attempts = rails.retries + 1
            \/ \E draft : /\ Response(result).words = {draft} /\ result.collected = draft.fills
                          /\ Fit(draft, at) /\ Response(result).attempts <= rails.retries
  <1>1. /\ at \in Node /\ Draft \subseteq AnyDraft
        /\ rails.retries \in Nat /\ tries \in Nat /\ tries <= rails.retries
    <2>1. at \in Node /\ graph.nodes[at].collects \subseteq Field
      BY DocumentAssumption DEF Types
    <2>2. rails.retries \in Nat /\ tries \in Nat /\ tries <= rails.retries
      BY BoundAssumption DEF Types
    <2> QED  BY <2>1, <2>2 DEF Draft, AnyDraft
  <1>2. CASE \E draft \in Draft :
               /\ ~Refused(draft) /\ ~CriticRaises(draft)
               /\ result = [words |-> {draft}, collected |-> draft.fills, attempts |-> tries]
    <2>1. PICK draft \in Draft :
            /\ ~Refused(draft) /\ ~CriticRaises(draft)
            /\ result = [words |-> {draft}, collected |-> draft.fills, attempts |-> tries]
      BY <1>2
    <2>2. Fit(draft, at)
      BY <2>1, Zenon DEF Fit, Refused, CriticRaises, CriticActive, Listed
    <2>3. Response(result) = [node |-> at, words |-> {draft}, attempts |-> tries]
      BY <2>1 DEF Response
    <2>4. draft \in AnyDraft /\ draft.fills \subseteq Field
      BY <1>1, <2>1 DEF AnyDraft
    <2> QED  BY <1>1, <2>1, <2>2, <2>3, <2>4 DEF AnyResponse
  <1>3. CASE result = HandleExhausted /\ \E draft \in Draft : Refused(draft)
    <2>1. rails.enabled
      BY <1>3, Zenon DEF Refused, Listed, CriticActive
    <2>2. Response(result) = [node |-> at, words |-> {}, attempts |-> rails.retries + 1]
      BY <1>3 DEF Response, HandleExhausted
    <2>3. result.collected = {}
      BY <1>3 DEF HandleExhausted
    <2> QED  BY <1>1, <2>1, <2>2, <2>3 DEF AnyResponse
  <1> QED  BY <1>2, <1>3 DEF Results

LEMMA ResponseFits ==
  ASSUME Types, at \in DOMAIN graph.nodes, NEW result \in Results, UNCHANGED <<graph, rails>>,
         ckpt'.response = Response(result)
  PROVE  ResponseAllowed'
  <1>1. \/ /\ Response(result).words = {} /\ rails.enabled
           /\ Response(result).attempts = rails.retries + 1
        \/ \E draft : /\ Response(result).words = {draft} /\ Fit(draft, Response(result).node)
                      /\ Response(result).attempts <= rails.retries
    BY ResultsAre
  <1> QED  BY <1>1 DEF ResponseAllowed, Fit

LEMMA StepRunNode ==
  ASSUME EngineInv, RunNode
  PROVE  EngineInv'
  <1>1. PICK result \in Results :
          LET collected == ckpt.collected \cup result.collected
              next      == Route(at, collected, ckpt.origin)
          IN IF next = Nil THEN Raise /\ UNCHANGED undelivered
             ELSE /\ ckpt' = [ckpt EXCEPT !.collected = collected, !.messages = Record(@),
                                          !.response = Response(result), !.node = next.node,
                                          !.origin = next.origin, !.completed = (next.node = End)]
                  /\ home' = IF next.node = at THEN home ELSE Nil
                  /\ EndGraph
                  /\ UNCHANGED <<status, queue, done, active, stale>>
    BY DEF RunNode
  <1> DEFINE collected == ckpt.collected \cup result.collected
             next == Route(at, collected, ckpt.origin)
  <1>2. pc = "node" /\ UNCHANGED <<graph, rails, arrived, faults>>
    BY DEF RunNode
  <1>3. Types /\ Arrived /\ at \in DOMAIN graph.nodes /\ queue # <<>>
        /\ ckpt.origin \in DOMAIN graph.nodes \cup {Nil}
    BY <1>2 DEF EngineInv, Busy, Answering, StartsInGraph
  <1>4. DOMAIN graph.nodes \subseteq Node
    BY <1>3, DocumentAssumption DEF Types
  <1>5. CASE next = Nil
    <2>1. Raise /\ UNCHANGED undelivered
      BY <1>1, <1>5
    <2>2. faults' \in 0..MaxFaults /\ undelivered' \in BOOLEAN
      BY <1>2, <1>3, <2>1 DEF Types
    <2> QED  BY <1>2, <2>1, <2>2, StepRaise
  <1>6. CASE next # Nil
    <2>1. result.collected \subseteq Field /\ Response(result) \in AnyResponse
      BY <1>3, ResultsAre
    <2>2. /\ next.node \in DOMAIN graph.nodes \cup {End}
          /\ next.origin \in DOMAIN graph.nodes \cup {Nil}
      <3> HIDE DEF collected
      <3> QED  BY <1>3, <1>6, RouteInGraph DEF Types
    <2>3. /\ ckpt' = [ckpt EXCEPT !.collected = collected, !.messages = Record(@),
                                  !.response = Response(result), !.node = next.node,
                                  !.origin = next.origin, !.completed = (next.node = End)]
          /\ home' = (IF next.node = at THEN home ELSE Nil)
          /\ EndGraph
          /\ UNCHANGED <<status, queue, done, active, stale>>
      BY <1>1, <1>6
    <2>4. Head(queue) \in Nat /\ ckpt \in Checkpoint /\ collected \subseteq Field
      BY <1>3, <2>1 DEF Types, Checkpoint
    <2> HIDE DEF collected, next
    <2>5. /\ ckpt'.messages = Record(ckpt.messages) /\ ckpt'.node = next.node
          /\ ckpt'.origin = next.origin /\ ckpt'.handled = ckpt.handled
          /\ ckpt'.response = Response(result)
      BY <2>3, <2>4 DEF Checkpoint
    <2>6. ckpt' \in Checkpoint
      <3>1. next.node \in Node \cup {End} /\ next.origin \in Node \cup {Nil}
        BY <1>4, <2>2
      <3>2. Record(ckpt.messages) \in Seq(Nat) /\ (next.node = End) \in BOOLEAN
        BY <2>4 DEF Record, Checkpoint
      <3> QED  BY <2>1, <2>3, <2>4, <3>1, <3>2 DEF Checkpoint
    <2>7. \A i \in DOMAIN ckpt'.handled : ckpt'.handled[i][2] \in 1..arrived
      BY <1>3, <2>5 DEF Arrived
    <2>8. ResponseAllowed'
      BY <1>2, <1>3, <2>5, ResponseFits
    <2>9. home' \in {home, Nil}
      BY <2>3
    <2> QED  BY <1>2, <2>2, <2>3, <2>5, <2>6, <2>7, <2>8, <2>9, StepAnswers
  <1> QED  BY <1>5, <1>6

LEMMA StepRunInline ==
  ASSUME EngineInv, RunInline
  PROVE  EngineInv'
  <1>1. /\ pc = "inline" /\ active' = Nil /\ home' \in {home, Nil} /\ EndGraph
        /\ UNCHANGED <<graph, rails, status, queue, arrived, done, stale, faults>>
    BY DEF RunInline
  <1>2. PICK result \in Results :
          ckpt' = [ckpt EXCEPT !.messages = Record(@), !.response = Response(result),
                               !.handled = Append(@, <<active, Head(queue)>>)]
    BY DEF RunInline
  <1>3. Types /\ Arrived /\ queue # <<>> /\ active \in Objection /\ at \in DOMAIN graph.nodes
        /\ ckpt.node \in DOMAIN graph.nodes \cup {End} /\ ckpt.origin \in DOMAIN graph.nodes \cup {Nil}
    BY <1>1 DEF EngineInv, Busy, Answering, StartsInGraph, Types
  <1>4. /\ Head(queue) \in Nat /\ Head(queue) \in 1..arrived /\ ckpt \in Checkpoint
        /\ Response(result) \in AnyResponse
    BY <1>3, ResultsAre DEF Types, Arrived
  <1>5. /\ ckpt'.messages = Record(ckpt.messages) /\ ckpt'.node = ckpt.node
        /\ ckpt'.origin = ckpt.origin /\ ckpt'.handled = Append(ckpt.handled, <<active, Head(queue)>>)
        /\ ckpt'.response = Response(result)
    BY <1>2, <1>4 DEF Checkpoint
  <1>6. ckpt' \in Checkpoint
    <2>1. /\ Record(ckpt.messages) \in Seq(Nat)
          /\ Append(ckpt.handled, <<active, Head(queue)>>) \in Seq(Objection \X Nat)
      BY <1>3, <1>4 DEF Checkpoint, Record
    <2> QED  BY <1>2, <1>4, <2>1 DEF Checkpoint
  <1>7. \A i \in DOMAIN ckpt'.handled : ckpt'.handled[i][2] \in 1..arrived
    <2>1. ckpt.handled \in Seq(Objection \X Nat)
      BY <1>4 DEF Checkpoint
    <2> QED  BY <1>3, <1>4, <1>5, <2>1 DEF Arrived
  <1>8. ResponseAllowed'
    BY <1>1, <1>3, <1>5, ResponseFits
  <1> QED  BY <1>1, <1>3, <1>5, <1>6, <1>7, <1>8, StepAnswers

LEMMA StepReply ==
  ASSUME EngineInv, Reply
  PROVE  EngineInv'
  <1>1. /\ pc = "reply" /\ status' \in {status, "completed"}
        /\ done' = Append(done, Head(queue)) /\ queue' = Tail(queue) /\ jobs' \in {0, jobs}
        /\ pc' = "idle" /\ at' = Nil /\ steps' = 0 /\ tries' = 0
        /\ UNCHANGED <<graph, rails, ckpt, arrived, active, home, stale, undelivered, faults>>
    BY DEF Reply, Enter
  <1>2. Types /\ Arrived /\ Faithful /\ StartsInGraph /\ queue # <<>>
    BY <1>1 DEF EngineInv, Busy
  <1>3. queue \in Seq(Nat) /\ done \in Seq(Nat) /\ Head(queue) \in Nat /\ Head(queue) \in 1..arrived
    BY <1>2 DEF Types, Arrived
  <1>4. queue' \in Seq(Nat) /\ done' \in Seq(Nat)
    BY <1>1, <1>2, <1>3
  <1>5. jobs' \in 0..arrived /\ steps' \in 0..(MaxSupersteps + 1) /\ tries' \in 0..rails.retries
    BY <1>1, <1>2, BoundAssumption DEF Types
  <1>6. Types'
    BY <1>1, <1>2, <1>4, <1>5 DEF Types, Valid, Targets, SubnodesExist
  <1>7. Arrived'
    <2>1. \A i \in DOMAIN queue' : queue'[i] = queue[i + 1] /\ i + 1 \in DOMAIN queue
      BY <1>1, <1>2, <1>3
    <2>2. \A i \in DOMAIN done' : done'[i] \in 1..arrived
      BY <1>1, <1>2, <1>3 DEF Arrived
    <2> QED  BY <1>1, <1>2, <2>1, <2>2 DEF Arrived
  <1>8. StartsInGraph' /\ Busy'
    BY <1>1, <1>2 DEF StartsInGraph, Busy, Answering
  <1>9. Seen' = Seen
    BY <1>1 DEF Seen
  <1>10. Faithful'
    BY <1>1, <1>2, <1>9 DEF Faithful, Begins
  <1>11. ResponseAllowed'
    BY <1>1, ResponseStays DEF EngineInv
  <1> QED  BY <1>6, <1>7, <1>8, <1>10, <1>11 DEF EngineInv

LEMMA StepKeeps == EngineInv /\ [Next]_vars => EngineInv'
  <1> SUFFICES ASSUME EngineInv, [Next]_vars PROVE EngineInv'
    OBVIOUS
  <1>1. CASE Ingest
    BY <1>1, StepIngest
  <1>2. CASE StartTurn
    BY <1>2, StepStartTurn
  <1>3. CASE ModelFails \/ CriticFails \/ ReplyFails
    BY <1>3, StepFails
  <1>4. CASE NoObjection \/ DetectInline
    BY <1>4, StepClassify
  <1>5. CASE DetectSubnode
    BY <1>5, StepDetectSubnode
  <1>6. CASE AskAgain
    BY <1>6, StepAskAgain
  <1>7. CASE RunNode
    BY <1>7, StepRunNode
  <1>8. CASE RunInline
    BY <1>8, StepRunInline
  <1>9. CASE Reply
    BY <1>9, StepReply
  <1>10. CASE UNCHANGED vars
    <2> USE <1>10 DEF vars, run
    <2>1. Types'
      BY DEF EngineInv, Types, Valid, Targets, SubnodesExist
    <2>2. Arrived' /\ StartsInGraph'
      BY DEF EngineInv, Arrived, StartsInGraph
    <2>3. Busy'
      BY DEF EngineInv, Busy, Answering
    <2>4. Faithful'
      BY DEF EngineInv, Faithful, Seen, Begins
    <2>5. ResponseAllowed'
      BY ResponseStays DEF EngineInv
    <2> QED  BY <2>1, <2>2, <2>3, <2>4, <2>5 DEF EngineInv
  <1> QED  BY <1>1, <1>2, <1>3, <1>4, <1>5, <1>6, <1>7, <1>8, <1>9, <1>10 DEF Next, GraphStep

-----------------------------------------------------------------------------
(* Theorems *)

\* The invariant holds of every reachable state.
LEMMA EngineHolds == Spec => []EngineInv
  BY Starts, StepKeeps, PTL DEF Spec

\* Whatever failed before, the checkpoint stands in a node of its TreeFlow or at
\* the end: _start_router and the routes never raise.
THEOREM EngineTypes == Spec => []TypeOK
  <1>1. EngineInv => TypeOK
    <2> SUFFICES ASSUME EngineInv PROVE TypeOK
      OBVIOUS
    <2>1. Types /\ Arrived /\ StartsInGraph
      BY DEF EngineInv
    <2>2. queue \in Seq(1..arrived) /\ done \in Seq(1..arrived) /\ ckpt.messages \in Seq(1..arrived)
      <3>1. queue \in Seq(Nat) /\ done \in Seq(Nat) /\ ckpt.messages \in Seq(Nat)
        BY <2>1 DEF Types, Checkpoint
      <3>2. /\ \A i \in DOMAIN queue : queue[i] \in 1..arrived
            /\ \A i \in DOMAIN done : done[i] \in 1..arrived
            /\ \A i \in DOMAIN ckpt.messages : ckpt.messages[i] \in 1..arrived
        BY <2>1 DEF Arrived
      <3>3. ASSUME NEW s \in Seq(Nat), \A i \in DOMAIN s : s[i] \in 1..arrived
            PROVE  s \in Seq(1..arrived)
        <4>1. s \in [1..Len(s) -> 1..arrived] /\ Len(s) \in Nat
          BY <3>3
        <4>2. s \in UNION {[1..n -> 1..arrived] : n \in Nat}
          BY <4>1
        <4>3. Seq(1..arrived) = UNION {[1..n -> 1..arrived] : n \in Nat}
          BY SeqDef, Zenon
        <4> QED  BY <4>2, <4>3, Zenon
      <3> QED  BY <3>1, <3>2, <3>3
    <2>3. ckpt.handled \in Seq(Objection \X (1..arrived))
      <3>1. ckpt.handled \in Seq(Objection \X Nat)
        BY <2>1 DEF Types, Checkpoint
      <3>2. \A i \in DOMAIN ckpt.handled : ckpt.handled[i] \in Objection \X (1..arrived)
        BY <2>1, <3>1 DEF Arrived
      <3> QED  BY <3>1, <3>2
    <2>4. jobs \in 0..MaxMsgs
      BY <2>1, BoundAssumption DEF Types
    <2>5. ckpt.response # Nil =>
            ckpt.response.node \in Node /\ ckpt.response.attempts \in 0..(rails.retries + 1)
      <3>1. ckpt.response \in AnyResponse \cup {Nil} /\ rails.retries \in Nat /\ ResponseAllowed
        BY <2>1, BoundAssumption DEF EngineInv, Types, Checkpoint
      <3>2. ckpt.response # Nil => ckpt.response.node \in Node /\ ckpt.response.attempts \in Nat
        BY <3>1 DEF AnyResponse
      <3>3. ckpt.response # Nil =>
              ckpt.response.attempts = rails.retries + 1 \/ ckpt.response.attempts <= rails.retries
        BY <3>1 DEF ResponseAllowed
      <3>4. \A k, n \in Nat : k = n + 1 \/ k <= n => k \in 0..(n + 1)
        OBVIOUS
      <3> QED  BY <3>1, <3>2, <3>3, <3>4
    <2> QED  BY <2>1, <2>2, <2>3, <2>4, <2>5 DEF Types, TypeOK, Checkpoint
  <1> QED  BY <1>1, EngineHolds, PTL

\* The conversation the model is shown is the one the lead had, whatever a model
\* or a critic did, until a reply fails after its graph has ended.
THEOREM HistoryFaithful == Spec => []HistoryIsFaithful
  <1>1. EngineInv => HistoryIsFaithful
    <2> SUFFICES ASSUME EngineInv, ~undelivered
                 PROVE  /\ IsPrefix(ckpt.messages, Seen)
                        /\ ckpt.node # End => ckpt.messages = Seen
                        /\ Seen = done \o (IF pc = "reply" THEN <<Head(queue)>> ELSE <<>>)
      BY DEF HistoryIsFaithful
    <2>1. Types /\ Busy /\ Faithful
      BY DEF EngineInv
    <2>2. ckpt.messages \in Seq(Nat) /\ done \in Seq(Nat) /\ (pc = "reply" => Head(queue) \in Nat)
      BY <2>1 DEF Types, Checkpoint, Busy
    <2>3. Seen = done \o (IF pc = "reply" THEN <<Head(queue)>> ELSE <<>>) /\ Seen \in Seq(Nat)
      BY <2>2 DEF Seen
    <2>4. Begins(ckpt.messages, Seen) /\ (ckpt.node # End => ckpt.messages = Seen)
      BY <2>1 DEF Faithful
    <2>5. IsPrefix(ckpt.messages, Seen)
      <3> DEFINE s == ckpt.messages
                 t == Seen
      <3>1. s \in Seq(Nat) /\ t \in Seq(Nat) /\ Len(s) <= Len(t) /\ \A i \in DOMAIN s : s[i] = t[i]
        BY <2>2, <2>3, <2>4 DEF Begins
      <3> HIDE DEF s, t
      <3>2. SubSeq(s, 1, Len(s)) = s
        BY <3>1
      <3>3. SubSeq(t, 1, Len(s)) = s
        BY <3>1
      <3>4. IsPrefix(s, t)
        BY <3>1, <3>2, <3>3 DEF IsPrefix
      <3> QED  BY <3>4 DEF s, t
    <2> QED  BY <2>3, <2>4, <2>5
  <1> QED  BY <1>1, EngineHolds, PTL

\* No draft that the whitelist or the critic refuses reaches the lead or the
\* checkpoint, with its words or its fields, for any number of retries.
THEOREM OnlyAllowed == Spec => AnswersAllowed
  <1> DEFINE Granted == \A field \in ckpt'.collected \ ckpt.collected :
                          \E draft \in ckpt'.response.words : field \in draft.fills /\ Fit(draft, at)
  <1>1. EngineInv /\ [Next]_vars => [Granted]_vars
    <2> SUFFICES ASSUME EngineInv, Next PROVE Granted
      OBVIOUS
    <2>1. ckpt \in Checkpoint
      BY DEF EngineInv, Types
    <2>2. CASE ~RunNode
      <3>1. ckpt'.collected = ckpt.collected
        BY <2>1, <2>2 DEF Next, GraphStep, Ingest, StartTurn, ModelFails, NoObjection, DetectInline,
                    DetectSubnode, Raised, CriticFails, AskAgain, RunInline, Reply, ReplyFails, Raise, Checkpoint
      <3> QED  BY <3>1
    <2>3. CASE RunNode
      <3>1. PICK result \in Results :
              LET collected == ckpt.collected \cup result.collected
                  next      == Route(at, collected, ckpt.origin)
              IN IF next = Nil THEN Raise /\ UNCHANGED undelivered
                 ELSE /\ ckpt' = [ckpt EXCEPT !.collected = collected, !.messages = Record(@),
                                              !.response = Response(result), !.node = next.node,
                                              !.origin = next.origin, !.completed = (next.node = End)]
                      /\ home' = IF next.node = at THEN home ELSE Nil
                      /\ EndGraph
                      /\ UNCHANGED <<status, queue, done, active, stale>>
        BY <2>3 DEF RunNode
      <3>2. Types /\ at \in DOMAIN graph.nodes
        BY <2>3 DEF RunNode, EngineInv, Busy, Answering
      <3>3. \/ result.collected = {}
            \/ \E draft : /\ Response(result).words = {draft} /\ result.collected = draft.fills
                          /\ Fit(draft, at)
        BY <3>2, ResultsAre
      <3>4. \/ ckpt' = ckpt
            \/ /\ ckpt'.collected = ckpt.collected \cup result.collected
               /\ ckpt'.response = Response(result)
        BY <2>1, <3>1 DEF Checkpoint, Raise
      <3> QED  BY <3>3, <3>4
    <2> QED  BY <2>2, <2>3
  <1>2. EngineInv /\ EngineInv' /\ [Granted]_vars => [ResponseAllowed' /\ Granted]_vars
    BY DEF EngineInv
  <1> QED  BY <1>1, <1>2, EngineHolds, PTL DEF Spec, AnswersAllowed

\* The lead moves, and fields are collected, only in the step of the node that
\* was to answer.
THEOREM NodesMove == Spec => OnlyNodesMove
  <1> DEFINE Moves == ckpt'.node # ckpt.node \/ ckpt'.collected # ckpt.collected
             Answered == /\ pc = "node" /\ Len(ckpt'.messages) = Len(ckpt.messages) + 1
                         /\ at = ckpt.node \/ ckpt.origin # Nil
  <1>1. EngineInv /\ [Next]_vars => [Moves => Answered]_vars
    <2> SUFFICES ASSUME EngineInv, Next, Moves PROVE Answered
      OBVIOUS
    <2>1. ckpt \in Checkpoint
      BY DEF EngineInv, Types
    <2>2. CASE Ingest \/ StartTurn \/ ModelFails \/ NoObjection \/ DetectInline \/ CriticFails
               \/ AskAgain \/ Reply \/ ReplyFails
      <3>1. ckpt' = ckpt
        BY <2>2 DEF Ingest, StartTurn, ModelFails, NoObjection, DetectInline, CriticFails, AskAgain,
                    Reply, ReplyFails, Raise
      <3> QED  BY <3>1
    <2>3. CASE DetectSubnode
      <3>1. PICK o \in Applicable(at) : ckpt' = Raised(o)
        BY <2>3 DEF DetectSubnode
      <3>2. ckpt'.node = ckpt.node /\ ckpt'.collected = ckpt.collected
        BY <2>1, <3>1 DEF Raised, Checkpoint
      <3> QED  BY <3>2
    <2>4. CASE RunInline
      <3>1. ckpt'.node = ckpt.node /\ ckpt'.collected = ckpt.collected
        BY <2>1, <2>4 DEF RunInline, Checkpoint
      <3> QED  BY <3>1
    <2>5. CASE RunNode
      <3>1. PICK result \in Results :
              LET collected == ckpt.collected \cup result.collected
                  next      == Route(at, collected, ckpt.origin)
              IN IF next = Nil THEN Raise /\ UNCHANGED undelivered
                 ELSE /\ ckpt' = [ckpt EXCEPT !.collected = collected, !.messages = Record(@),
                                              !.response = Response(result), !.node = next.node,
                                              !.origin = next.origin, !.completed = (next.node = End)]
                      /\ home' = IF next.node = at THEN home ELSE Nil
                      /\ EndGraph
                      /\ UNCHANGED <<status, queue, done, active, stale>>
        BY <2>5 DEF RunNode
      <3>2. ~Raise
        BY DEF Raise
      <3>3. ckpt'.messages = Append(ckpt.messages, Head(queue))
        BY <2>1, <3>1, <3>2 DEF Checkpoint, Record
      <3>4. Len(ckpt'.messages) = Len(ckpt.messages) + 1
        BY <2>1, <3>3 DEF Checkpoint
      <3>5. pc = "node" /\ (at = ckpt.node \/ ckpt.origin # Nil)
        BY <2>5 DEF RunNode, EngineInv, Busy, Answering
      <3> QED  BY <3>4, <3>5
    <2> QED  BY <2>2, <2>3, <2>4, <2>5 DEF Next, GraphStep
  <1> QED  BY <1>1, EngineHolds, PTL DEF Spec, OnlyNodesMove
=============================================================================
