------------------------ MODULE TurnDecision_proofs ------------------------
(***************************************************************************)
(* Theorems about TurnDecision, for every TreeFlow, every decision of the  *)
(* model and any number of turns: types and the window of messages, the    *)
(* position in the graph, the moves, the off-topic limit, and that the     *)
(* treatments of objections keep TreatmentPromise.                         *)
(***************************************************************************)
EXTENDS TurnDecision, SequenceTheorems, TLAPS

-----------------------------------------------------------------------------
(* The inductive invariant *)

Talk == [status : {"none", "active", "requires_review", "closed"}, version : Nat, turns : Nat,
         closedAt : BOOLEAN,
         reason : {Nil, "treeflow_version_missing", "validator_exhausted", "voice_synthesis_failed",
                   "objection_treatment_exhausted", "escalation_requested", "off_topic_exhausted"}]

Message == {"user", "assistant"} \X Nat

FlowState == [node : Node \cup {Nil}, filled : SUBSET Field, treatment : Treatments \cup {Nil},
              handled : Seq(Resolutions), offTopic : Nat, messages : Seq(Message)]

Pc == {"idle", "queue", "llm", "correct", "route", "reroute", "apply", "send"}

Types ==
  /\ versions \in Seq(Document) /\ versions # <<>> /\ rewritten \in BOOLEAN
  /\ talk \in Talk /\ state \in FlowState
  /\ tx \in [talk : Talk, state : FlowState, owes : BOOLEAN]
  /\ pc \in Pc /\ graph \in Document \cup {NoGraph} /\ pinned \in 0..Len(versions)
  /\ decision \in Decision \cup {NoDecision}
  /\ owes \in BOOLEAN /\ unchecked \in BOOLEAN
  /\ turns \in Nat /\ faults \in Nat

\* A treatment stays within its limit, the window within its own.
Bounded(s) == /\ s.treatment # Nil => s.treatment.turn <= s.treatment.max
              /\ Len(s.messages) <= MaxWindow

Limits == /\ Bounded(state) /\ Bounded(tx.state)
          /\ talk.version <= Len(versions) /\ tx.talk.version <= Len(versions)
          /\ talk.status = "none" <=> talk.version = 0
          /\ tx.talk.status = "none" <=> tx.talk.version = 0

\* The window ends with the turn that the Talk counts, without a gap; a Talk
\* without a turn has the message that opened it.
Recent(t, m) ==
  IF t.status = "none" THEN t.turns = 0
  ELSE /\ m # <<>>
       /\ IF t.turns = 0 THEN m = <<<<"user", 1>>>> ELSE m[Len(m)] = <<"assistant", t.turns>>
       /\ \A i \in 1..(Len(m) - 1) : m[i + 1][2] = m[i][2] + IF m[i][1] = "user" THEN 0 ELSE 1

Windows == Recent(talk, state.messages) /\ Recent(tx.talk, tx.state.messages)

InTurn == pc \in Pc \ {"idle", "queue"}

\* A drain runs with a TreeFlow that the loader accepts, the one that the open
\* Talk was created with as long as rows keep their content.
Resolved ==
  /\ pc # "idle" => /\ graph \in Document /\ Accepted(graph) /\ pinned > 0
                    /\ ~rewritten => graph = versions[pinned]
                    /\ talk.status \in OpenStatus => talk.version = pinned
  /\ ~rewritten /\ talk.status \in OpenStatus => state.node \in DOMAIN versions[talk.version].nodes

\* What the steps of a turn have left of its transaction.
Working ==
  /\ InTurn => /\ talk.status \in OpenStatus /\ tx.talk.version = talk.version
               /\ state.node \in DOMAIN graph.nodes /\ tx.state.node \in DOMAIN graph.nodes
  /\ InTurn /\ pc # "send" => tx = [talk |-> talk, state |-> state, owes |-> owes]
  /\ pc \in {"route", "reroute", "apply", "send"} => decision \in Decision
  /\ pc = "apply" /\ verdict = "ok" => Verdict(decision) = "ok"
  /\ pc = "reroute" => verdict # "ok"

\* How the treatment and the history of t follow those of s (TreatmentPromise).
Treats(s, t) ==
  \/ t.treatment = s.treatment /\ t.handled = s.handled
  \/ /\ s.treatment = Nil /\ t.handled = s.handled
     /\ \E o \in Objection, max \in 1..10 : t.treatment = [id |-> o, turn |-> 1, max |-> max]
  \/ /\ s.treatment # Nil
     /\ \/ /\ s.treatment.turn < s.treatment.max /\ t.handled = s.handled
           /\ t.treatment = [s.treatment EXCEPT !.turn = @ + 1]
        \/ /\ s.treatment.turn < s.treatment.max /\ t.treatment = Nil
           /\ \E r \in {"accepted", "deferred"} : t.handled = Append(s.handled, Closed(s.treatment, r))
        \/ /\ s.treatment.turn = s.treatment.max /\ t.treatment = Nil
           /\ t.handled = Append(s.handled, Closed(s.treatment, "exhausted"))
        \/ /\ \E o \in Objection \ {s.treatment.id}, max \in 1..10 :
                t.treatment = [id |-> o, turn |-> 1, max |-> max]
           /\ t.handled = Append(s.handled, Closed(s.treatment, "deferred"))

\* A turn that is to be sent: it has moved by the rules, it escalates what the
\* limit says, and it treats objections as promised.
Decided ==
  pc = "send" =>
    /\ tx.state.node # state.node =>
         /\ tx.state.node \in DOMAIN graph.nodes[state.node].next
         /\ ExitSatisfied(graph.nodes[state.node], tx.state.filled)
         /\ state.treatment = Nil
    /\ tx.state.offTopic > state.offTopic /\ tx.state.offTopic >= Threshold => tx.talk.status # "active"
    /\ Treats(state, tx.state)

DecisionInv == Types /\ Limits /\ Windows /\ Resolved /\ Working /\ Decided
-----------------------------------------------------------------------------
(* The operators *)

\* The message that enters is the last one; what stays keeps its order.
LEMMA WindowEntry ==
  ASSUME NEW m \in Seq(Message), NEW x \in Message, Len(m) <= MaxWindow
  PROVE  LET w == AppendMessage(m, x) IN
         /\ w \in Seq(Message) /\ Len(w) \in 1..MaxWindow /\ w[Len(w)] = x
         /\ \E k \in {0, 1} : /\ Len(w) - 1 + k = Len(m)
                              /\ \A i \in 1..(Len(w) - 1) : w[i] = m[i + k]
<1> DEFINE all == Append(m, x)
<1>1. /\ all \in Seq(Message) /\ Len(all) = Len(m) + 1 /\ Len(m) \in Nat
      /\ \A i \in 1..Len(m) : all[i] = m[i]
      /\ all[Len(m) + 1] = x
  BY AppendProperties, LenProperties
<1>2. MaxWindow \in Nat /\ MaxWindow > 0
  BY BoundAssumption
<1> HIDE DEF all
<1>3. CASE Len(all) > MaxWindow
  <2> DEFINE w == SubSeq(all, 2, Len(m) + 1)
  <2>1. Len(m) = MaxWindow
    BY <1>1, <1>2, <1>3
  <2>2. \A i \in 2..(Len(m) + 1) : all[i] \in Message
    <3> SUFFICES ASSUME NEW i \in 2..(Len(m) + 1) PROVE all[i] \in Message
      OBVIOUS
    <3>1. i \in 1..Len(all)
      BY <1>1
    <3> QED
      BY <1>1, <3>1, ElementOfSeq
  <2>3. /\ w \in Seq(Message) /\ Len(w) = Len(m)
        /\ \A i \in 1..Len(m) : w[i] = all[i + 1]
    <3>1. Len(m) + 1 \in Int /\ 2 \in Int /\ (2 <= Len(m) + 1) /\ Len(m) + 1 - 2 + 1 = Len(m)
      BY <1>1, <1>2, <2>1
    <3>2. /\ w \in Seq(Message) /\ Len(w) = IF 2 <= Len(m) + 1 THEN Len(m) + 1 - 2 + 1 ELSE 0
          /\ \A i \in 1..(Len(m) + 1 - 2 + 1) : w[i] = all[2 + i - 1]
      <4> HIDE DEF w
      <4> QED
        BY <2>2, <3>1, SubSeqProperties DEF w
    <3>3. \A i \in 1..Len(m) : w[i] = all[i + 1]
      <4> HIDE DEF w
      <4> SUFFICES ASSUME NEW i \in 1..Len(m) PROVE w[i] = all[i + 1]
        OBVIOUS
      <4>1. 2 + i - 1 = i + 1 /\ i \in 1..(Len(m) + 1 - 2 + 1)
        BY <1>1
      <4> QED
        BY <3>2, <4>1
    <3> HIDE DEF w
    <3> QED
      BY <3>1, <3>2, <3>3
  <2>4. AppendMessage(m, x) = w
    BY <1>1, <1>3, <2>1 DEF AppendMessage, all
  <2> HIDE DEF w
  <2>5. w[Len(w)] = x /\ Len(w) \in 1..MaxWindow
    BY <1>1, <1>2, <2>1, <2>3
  <2>6. /\ Len(w) - 1 + 1 = Len(m)
        /\ \A i \in 1..(Len(w) - 1) : w[i] = m[i + 1]
    BY <1>1, <2>3
  <2> QED
    BY <2>3, <2>4, <2>5, <2>6
<1>4. CASE ~(Len(all) > MaxWindow)
  <2>1. AppendMessage(m, x) = all
    BY <1>4 DEF AppendMessage, all
  <2>2. Len(all) \in 1..MaxWindow /\ Len(all) - 1 + 0 = Len(m)
    BY <1>1, <1>2, <1>4
  <2>3. \A i \in 1..(Len(all) - 1) : all[i] = m[i + 0]
    BY <1>1
  <2> QED
    BY <1>1, <2>1, <2>2, <2>3
<1> QED
  BY <1>3, <1>4

\* The window of a Talk that has answered once more.
LEMMA WindowGoesOn ==
  ASSUME NEW t \in Talk, NEW u \in Talk, NEW m \in Seq(Message),
         t.status # "none", Recent(t, m), Len(m) <= MaxWindow, u.turns = t.turns + 1,
         u.status # "none"
  PROVE  /\ Recent(u, AppendMessage(m, <<"assistant", t.turns + 1>>))
         /\ AppendMessage(m, <<"assistant", t.turns + 1>>) \in Seq(Message)
         /\ Len(AppendMessage(m, <<"assistant", t.turns + 1>>)) <= MaxWindow
<1> DEFINE x == <<"assistant", t.turns + 1>>
           w == AppendMessage(m, x)
<1>1. t.turns \in Nat /\ x \in Message /\ x[1] = "assistant" /\ x[2] = t.turns + 1
  BY DEF Talk, Message
<1> HIDE DEF x
<1>2. /\ w \in Seq(Message) /\ Len(w) \in 1..MaxWindow /\ w[Len(w)] = x
      /\ \E k \in {0, 1} : /\ Len(w) - 1 + k = Len(m)
                           /\ \A i \in 1..(Len(w) - 1) : w[i] = m[i + k]
  BY <1>1, WindowEntry
<1> HIDE DEF w
<1>3. PICK k \in {0, 1} : /\ Len(w) - 1 + k = Len(m)
                          /\ \A i \in 1..(Len(w) - 1) : w[i] = m[i + k]
  BY <1>2
<1>4. Len(m) \in Nat /\ Len(w) \in Nat /\ MaxWindow \in Nat
  BY <1>2, LenProperties, BoundAssumption
<1>5. m[Len(m)] = IF t.turns = 0 THEN <<"user", 1>> ELSE <<"assistant", t.turns>>
  <2>1. CASE t.turns = 0
    <3>1. m = <<<<"user", 1>>>>
      BY <2>1 DEF Recent
    <3> QED
      BY <2>1, <3>1
  <2>2. CASE t.turns # 0
    BY <2>2 DEF Recent
  <2> QED
    BY <2>1, <2>2
<1>6. ASSUME NEW i \in 1..(Len(w) - 1)
      PROVE  w[i + 1][2] = w[i][2] + IF w[i][1] = "user" THEN 0 ELSE 1
  <2>1. w[i] = m[i + k]
    BY <1>3
  <2>2. CASE i + 1 \in 1..(Len(w) - 1)
    <3>1. i + k \in 1..(Len(m) - 1) /\ (i + 1) + k = (i + k) + 1
      BY <1>3, <1>4, <2>2
    <3>2. w[i + 1] = m[(i + k) + 1]
      BY <1>3, <2>2, <3>1
    <3> QED
      BY <2>1, <3>1, <3>2 DEF Recent
  <2>3. CASE i + 1 = Len(w)
    <3>1. i + k = Len(m)
      BY <1>3, <1>4, <2>3
    <3>2. w[i + 1] = x /\ w[i] = m[Len(m)]
      BY <1>2, <2>1, <2>3, <3>1
    <3> QED
      BY <1>1, <1>5, <3>2
  <2> QED
    BY <1>4, <2>2, <2>3
<1>7. w # <<>>
  BY <1>2, <1>4, EmptySeq
<1>8. u.turns # 0 /\ <<"assistant", u.turns>> = x
  BY <1>1 DEF x
<1>9. Recent(u, w)
  BY <1>2, <1>6, <1>7, <1>8 DEF Recent
<1> QED
  BY <1>2, <1>4, <1>9 DEF w, x

\* What the loader guarantees of a document, and of an objection in tool mode.
LEMMA DocumentFacts ==
  ASSUME NEW g \in Document, Accepted(g)
  PROVE  /\ g.entry \in DOMAIN g.nodes /\ DOMAIN g.nodes \subseteq Node
         /\ \A n \in DOMAIN g.nodes : DOMAIN g.nodes[n].next \subseteq DOMAIN g.nodes
BY DocumentAssumption DEF Accepted

LEMMA ToolLimit ==
  ASSUME NEW g, Accepted(g), NEW n \in DOMAIN g.nodes, NEW id, IsToolMode(id, g, n)
  PROVE  FindObjection(id, g, n).max \in 1..10
<1>1. CASE id \in DOMAIN g.nodes[n].objections
  BY <1>1 DEF Accepted, NodeAccepted, ObjectionAccepted, IsToolMode, FindObjection
<1>2. CASE id \notin DOMAIN g.nodes[n].objections /\ id \in DOMAIN g.global
  BY <1>2 DEF Accepted, ObjectionAccepted, IsToolMode, FindObjection
<1>3. CASE id \notin DOMAIN g.nodes[n].objections /\ id \notin DOMAIN g.global
  BY <1>3 DEF IsToolMode, FindObjection
<1> QED
  BY <1>1, <1>2, <1>3

\* The outcome of an objection's step: u follows the treatment t, and e is the
\* entry of the history, if any.
Outcome(t, u, e) ==
  \/ u = t /\ e = Nil
  \/ t = Nil /\ e = Nil /\ \E o \in Objection, max \in 1..10 : u = [id |-> o, turn |-> 1, max |-> max]
  \/ t # Nil /\ t.turn < t.max /\ u = [t EXCEPT !.turn = @ + 1] /\ e = Nil
  \/ t # Nil /\ t.turn < t.max /\ u = Nil /\ \E r \in {"accepted", "deferred"} : e = Closed(t, r)
  \/ t # Nil /\ t.turn = t.max /\ u = Nil /\ e = Closed(t, "exhausted")
  \/ /\ t # Nil /\ e = Closed(t, "deferred")
     /\ \E o \in Objection \ {t.id}, max \in 1..10 : u = [id |-> o, turn |-> 1, max |-> max]

LEMMA Outcomes ==
  ASSUME NEW g, Accepted(g), NEW n \in DOMAIN g.nodes,
         NEW t \in Treatments \cup {Nil}, t # Nil => t.turn <= t.max,
         NEW d, d.detected \in Objection \cup {Nil}
  PROVE  LET delta == ObjectionDelta(t, d, g, n) IN
         /\ Outcome(t, delta.treatment, delta.entry)
         /\ delta.review \in {Nil, "objection_treatment_exhausted"}
<1> DEFINE delta == ObjectionDelta(t, d, g, n)
           id == d.detected
<1>1. ASSUME id # Nil, IsToolMode(id, g, n)
      PROVE  \E max \in 1..10 : EnterTreatment(id, g, n) = [id |-> id, turn |-> 1, max |-> max]
  BY <1>1, ToolLimit DEF EnterTreatment
<1>2. CASE t = Nil
  <2>1. CASE id # Nil /\ IsToolMode(id, g, n)
    <3>1. delta = Delta(EnterTreatment(id, g, n), Nil, Nil)
      BY <1>2, <2>1 DEF ObjectionDelta, IdleDelta
    <3>2. id \in Objection
      BY <2>1
    <3> QED
      BY <1>1, <1>2, <2>1, <3>1, <3>2 DEF Delta, Outcome
  <2>2. CASE ~(id # Nil /\ IsToolMode(id, g, n))
    <3>1. delta = Delta(Nil, Nil, Nil)
      BY <1>2, <2>2 DEF ObjectionDelta, IdleDelta
    <3> QED
      BY <1>2, <3>1 DEF Delta, Outcome
  <2> QED
    BY <2>1, <2>2
<1>3. CASE t # Nil
  <2> USE <1>3
  <2>1. t \in Treatments /\ t.turn \in Nat /\ t.max \in Nat
    BY DEF Treatments
  <2>2. CASE id \notin {Nil, t.id} /\ IsToolMode(id, g, n)
    <3>1. delta = Delta(EnterTreatment(id, g, n), Closed(t, "deferred"), Nil)
      BY <2>2 DEF ObjectionDelta, ActiveDelta
    <3>2. id \in Objection \ {t.id}
      BY <2>2
    <3> QED
      BY <1>1, <2>2, <3>1, <3>2 DEF Delta, Outcome
  <2>3. CASE ~(id \notin {Nil, t.id} /\ IsToolMode(id, g, n)) /\ t.turn >= t.max
    <3>1. delta = ExhaustedDelta(t, g, n)
      BY <2>3 DEF ObjectionDelta, ActiveDelta
    <3>2. /\ delta.treatment = Nil /\ delta.entry = Closed(t, "exhausted")
          /\ delta.review \in {Nil, "objection_treatment_exhausted"}
      BY <3>1 DEF ExhaustedDelta, Delta
    <3>3. t.turn = t.max
      BY <2>1, <2>3
    <3> QED
      BY <3>2, <3>3 DEF Outcome
  <2>4. CASE ~(id \notin {Nil, t.id} /\ IsToolMode(id, g, n)) /\ ~(t.turn >= t.max)
    <3>1. t.turn < t.max
      BY <2>1, <2>4
    <3>2. delta = IF d.treatment = "resolved_accepted" THEN Delta(Nil, Closed(t, "accepted"), Nil)
                  ELSE IF d.treatment = "resolved_deferred" THEN Delta(Nil, Closed(t, "deferred"), Nil)
                  ELSE Delta([t EXCEPT !.turn = @ + 1], Nil, Nil)
      BY <2>4 DEF ObjectionDelta, ActiveDelta
    <3> QED
      BY <3>1, <3>2 DEF Delta, Outcome
  <2> QED
    BY <2>2, <2>3, <2>4
<1> QED
  BY <1>2, <1>3

LEMMA OutcomeTypes ==
  ASSUME NEW t \in Treatments \cup {Nil}, NEW u, NEW e, Outcome(t, u, e)
  PROVE  /\ u \in Treatments \cup {Nil}
         /\ u # Nil /\ u # t => u.turn <= u.max
         /\ e \in Resolutions \cup {Nil}
<1>1. ASSUME NEW o \in Objection, NEW max \in 1..10, u = [id |-> o, turn |-> 1, max |-> max]
      PROVE  u \in Treatments /\ u.turn <= u.max
  BY <1>1 DEF Treatments
<1>2. ASSUME t # Nil, NEW r \in {"accepted", "deferred", "exhausted"}, e = Closed(t, r)
      PROVE  e \in Resolutions
  BY <1>2 DEF Treatments, Resolutions, Closed
<1>3. ASSUME t # Nil, t.turn < t.max, u = [t EXCEPT !.turn = @ + 1]
      PROVE  u \in Treatments /\ u.turn <= u.max
  BY <1>3 DEF Treatments
<1>4. /\ u \in Treatments \cup {Nil}
      /\ u # Nil /\ u # t => u.turn <= u.max
  BY <1>1, <1>3 DEF Outcome
<1>5. e \in Resolutions \cup {Nil}
  BY <1>2 DEF Outcome
<1> QED
  BY <1>4, <1>5

\* A state whose treatment and history take an outcome follows the promise.
LEMMA OutcomeTreats ==
  ASSUME NEW s, NEW v, NEW e, s.treatment \in Treatments \cup {Nil},
         Outcome(s.treatment, v.treatment, e),
         v.handled = IF e = Nil THEN s.handled ELSE Append(s.handled, e)
  PROVE  Treats(s, v)
<1> DEFINE t == s.treatment
<1>1. ASSUME t # Nil, NEW r \in {"accepted", "deferred", "exhausted"}, e = Closed(t, r)
      PROVE  v.handled = Append(s.handled, Closed(t, r))
  <2>1. Closed(t, r) \in Resolutions
    BY <1>1 DEF Treatments, Resolutions, Closed
  <2> QED
    BY <1>1, <2>1, NoneAssumption
<1>2. CASE v.treatment = t /\ e = Nil
  BY <1>2 DEF Treats
<1>3. CASE /\ t = Nil /\ e = Nil
           /\ \E o \in Objection, max \in 1..10 : v.treatment = [id |-> o, turn |-> 1, max |-> max]
  BY <1>3 DEF Treats
<1>4. CASE t # Nil /\ t.turn < t.max /\ v.treatment = [t EXCEPT !.turn = @ + 1] /\ e = Nil
  BY <1>4 DEF Treats
<1>5. CASE t # Nil /\ t.turn < t.max /\ v.treatment = Nil /\ \E r \in {"accepted", "deferred"} : e = Closed(t, r)
  BY <1>1, <1>5 DEF Treats
<1>6. CASE t # Nil /\ t.turn = t.max /\ v.treatment = Nil /\ e = Closed(t, "exhausted")
  BY <1>1, <1>6 DEF Treats
<1>7. CASE /\ t # Nil /\ e = Closed(t, "deferred")
           /\ \E o \in Objection \ {t.id}, max \in 1..10 : v.treatment = [id |-> o, turn |-> 1, max |-> max]
  BY <1>1, <1>7 DEF Treats
<1> QED
  BY <1>2, <1>3, <1>4, <1>5, <1>6, <1>7 DEF Outcome

\* A transition that the rules allow.
LEMMA Moves ==
  ASSUME NEW g, NEW current, NEW next, NEW filled, NEW treatment,
         TransitionVerdict(g, current, next, filled, treatment) = "ok",
         next # Nil, next # current
  PROVE  /\ next \in DOMAIN g.nodes[current].next
         /\ ExitSatisfied(g.nodes[current], filled) /\ treatment = Nil
<1> DEFINE edges == g.nodes[current].next
<1>1. CASE next \notin DOMAIN edges
  BY <1>1 DEF TransitionVerdict
<1>2. CASE next \in DOMAIN edges
  BY <1>2 DEF TransitionVerdict
<1> QED
  BY <1>1, <1>2

-----------------------------------------------------------------------------
(* The inductive invariant holds in every step.                            *)

LEMMA Blank ==
  /\ NoTalk \in Talk /\ NoState \in FlowState
  /\ [talk |-> NoTalk, state |-> NoState, owes |-> FALSE]
       \in [talk : Talk, state : FlowState, owes : BOOLEAN]
  /\ Bounded(NoState)
  /\ NoTalk.version = 0 /\ NoTalk.status = "none" /\ NoTalk.turns = 0
  /\ \A m : Recent(NoTalk, m)
<1>1. NoTalk \in Talk /\ NoTalk.version = 0 /\ NoTalk.status = "none" /\ NoTalk.turns = 0
  BY DEF NoTalk, Talk
<1>2. NoState.handled \in Seq(Resolutions) /\ NoState.messages \in Seq(Message)
  BY EmptySeq DEF NoState
<1>3. NoState \in FlowState
  BY <1>2 DEF NoState, FlowState
<1>4. Bounded(NoState)
  BY EmptySeq, BoundAssumption DEF NoState, Bounded
<1> QED
  BY <1>1, <1>3, <1>4 DEF Recent

LEMMA InitInv == Init => DecisionInv
<1> SUFFICES ASSUME Init PROVE DecisionInv
  OBVIOUS
<1>1. versions \in Seq(Document) /\ versions # <<>> /\ Len(versions) = 1
  <2>1. {1} = 1..1
    OBVIOUS
  <2>2. versions \in [1..1 -> Document]
    BY <2>1 DEF Init
  <2>3. versions \in Seq(Document)
    BY <2>2, SeqDef
  <2>4. Len(versions) = 1
    BY <2>2, <2>3, LenProperties
  <2>5. Len(<<>>) = 0
    OBVIOUS
  <2>6. versions # <<>>
    BY <2>4, <2>5
  <2> QED
    BY <2>3, <2>4, <2>6
<1>2. /\ talk = NoTalk /\ state = NoState /\ rewritten = FALSE /\ pc = "idle" /\ graph = NoGraph
      /\ pinned = 0 /\ decision = NoDecision /\ verdict = "ok"
      /\ tx = [talk |-> NoTalk, state |-> NoState, owes |-> FALSE]
      /\ owes = FALSE /\ unchecked = FALSE /\ turns = 0 /\ faults = 0
  BY DEF Init
<1>3. tx \in [talk : Talk, state : FlowState, owes : BOOLEAN]
  BY <1>2, Blank
<1>4. Types
  <2>1. rewritten \in BOOLEAN /\ owes \in BOOLEAN /\ unchecked \in BOOLEAN
    BY <1>2, Zenon
  <2>2. pc \in Pc /\ pinned \in 0..Len(versions) /\ turns \in Nat /\ faults \in Nat
    BY <1>1, <1>2 DEF Pc
  <2>3. talk \in Talk /\ state \in FlowState /\ graph \in Document \cup {NoGraph}
        /\ decision \in Decision \cup {NoDecision}
    BY <1>2, Blank
  <2> QED
    BY <1>1, <1>3, <2>1, <2>2, <2>3 DEF Types
<1>5. tx.talk = NoTalk /\ tx.state = NoState
  BY <1>2
<1>6. Limits /\ Windows
  BY <1>1, <1>2, <1>5, Blank DEF Limits, Windows
<1>7. Resolved /\ Working /\ Decided
  BY <1>2, Blank DEF Resolved, Working, Decided, InTurn, OpenStatus
<1> QED
  BY <1>4, <1>6, <1>7 DEF DecisionInv

\* The version of an open Talk is a row.
LEMMA OpenVersion ==
  ASSUME DecisionInv
  PROVE  /\ Len(versions) \in Nat /\ DOMAIN versions = 1..Len(versions) /\ Len(versions) > 0
         /\ talk.status \in OpenStatus => talk.version \in 1..Len(versions)
         /\ pc # "idle" => pinned \in 1..Len(versions)
         /\ \A i \in 1..Len(versions) : versions[i] \in Document
<1>1. Len(versions) \in Nat /\ DOMAIN versions = 1..Len(versions) /\ Len(versions) > 0
  BY LenProperties, EmptySeq DEF DecisionInv, Types
<1>2. \A i \in 1..Len(versions) : versions[i] \in Document
  BY ElementOfSeq DEF DecisionInv, Types
<1>3. talk.status \in OpenStatus => talk.version \in 1..Len(versions)
  <2> SUFFICES ASSUME talk.status \in OpenStatus PROVE talk.version \in 1..Len(versions)
    OBVIOUS
  <2>1. talk.status # "none"
    BY DEF OpenStatus
  <2>2. talk.version \in Nat
    BY DEF DecisionInv, Types, Talk
  <2> QED
    BY <1>1, <2>1, <2>2 DEF DecisionInv, Limits
<1>4. pc # "idle" => pinned \in 1..Len(versions)
  BY <1>1 DEF DecisionInv, Types, Resolved
<1> QED
  BY <1>1, <1>2, <1>3, <1>4

LEMMA PublishInv ==
  ASSUME DecisionInv, Publish PROVE DecisionInv'
<1> USE DEF Publish, row, turn, history
<1>1. PICK d \in Document : versions' = Append(versions, d)
  OBVIOUS
<1>2. /\ versions' \in Seq(Document) /\ Len(versions') = Len(versions) + 1
      /\ \A i \in 1..Len(versions) : versions'[i] = versions[i]
  BY <1>1, AppendProperties DEF DecisionInv, Types
<1>3. Len(versions) \in Nat /\ versions' # <<>>
  BY <1>1, AppendProperties, OpenVersion DEF DecisionInv, Types
<1>4. Types'
  BY <1>2, <1>3 DEF DecisionInv, Types, Pc
<1>5. Limits'
  <2>1. talk.version \in Nat /\ tx.talk.version \in Nat
    BY DEF DecisionInv, Types, Talk
  <2> QED
    BY <1>2, <1>3, <2>1 DEF DecisionInv, Limits
<1>6. Windows'
  BY DEF DecisionInv, Windows
<1>7. Resolved'
  BY <1>2, OpenVersion DEF DecisionInv, Resolved
<1>8. Working' /\ Decided'
  BY DEF Working, Decided, InTurn
<1> QED
  BY <1>4, <1>5, <1>6, <1>7, <1>8 DEF DecisionInv

LEMMA ReseedInv ==
  ASSUME DecisionInv, Reseed PROVE DecisionInv'
<1> USE DEF Reseed, row, turn, history
<1>1. PICK v \in DOMAIN versions, d \in Document : versions' = [versions EXCEPT ![v] = d]
  OBVIOUS
<1>2. versions' \in Seq(Document) /\ Len(versions') = Len(versions) /\ versions' # <<>>
  <2>1. v \in 1..Len(versions)
    BY OpenVersion
  <2>2. versions' \in Seq(Document) /\ Len(versions') = Len(versions)
    BY <1>1, <2>1, ExceptSeq DEF DecisionInv, Types
  <2> QED
    BY <2>2, OpenVersion, EmptySeq
<1>3. Types'
  BY <1>2 DEF DecisionInv, Types, Pc
<1>4. Limits' /\ Windows'
  BY <1>2 DEF DecisionInv, Limits, Windows
<1>5. Resolved'
  BY DEF DecisionInv, Resolved
<1>6. Working' /\ Decided'
  BY DEF Working, Decided, InTurn
<1> QED
  BY <1>3, <1>4, <1>5, <1>6 DEF DecisionInv

LEMMA ScanClosesInv ==
  ASSUME DecisionInv, ScanCloses PROVE DecisionInv'
<1> USE DEF ScanCloses, row, turn, history
<1>1. /\ talk' \in Talk /\ talk'.status = "closed" /\ talk'.version = talk.version
      /\ talk'.turns = talk.turns /\ talk.status = "active"
  BY DEF DecisionInv, Types, Talk
<1>2. Types'
  BY <1>1 DEF DecisionInv, Types, Pc
<1>3. Limits'
  BY <1>1 DEF DecisionInv, Limits
<1>4. Windows'
  BY <1>1 DEF DecisionInv, Windows, Recent
<1>5. Resolved'
  BY <1>1 DEF DecisionInv, Resolved, OpenStatus
<1>6. Working' /\ Decided'
  BY DEF Working, Decided, InTurn
<1> QED
  BY <1>2, <1>3, <1>4, <1>5, <1>6 DEF DecisionInv

LEMMA StartDrainInv ==
  ASSUME DecisionInv, StartDrain PROVE DecisionInv'
<1> USE DEF StartDrain, row, turn, history
<1> DEFINE v == ResolveVersion
<1>1. v \in 1..Len(versions) /\ versions[v] \in Document
  BY OpenVersion DEF ResolveVersion
<1>2. talk.status \in OpenStatus => talk.version = v
  BY DEF ResolveVersion
<1>3. CASE Accepted(versions[v])
  <2>1. /\ pc' = "queue" /\ graph' = versions[v] /\ pinned' = v
        /\ UNCHANGED <<versions, rewritten, talk, state, decision, verdict, tx, owes, unchecked, turns, faults>>
    BY <1>3
  <2> HIDE DEF StartDrain, v
  <2>2. Types'
    <3>1. v \in 0..Len(versions)
      BY <1>1, OpenVersion
    <3> QED
      BY <1>1, <2>1, <3>1 DEF DecisionInv, Types, Pc
  <2>3. Limits' /\ Windows'
    BY <2>1 DEF DecisionInv, Limits, Windows
  <2>4. Resolved'
    <3>1. v > 0
      BY <1>1, OpenVersion
    <3> QED
      BY <1>1, <1>2, <1>3, <2>1, <3>1 DEF DecisionInv, Resolved
  <2>5. Working' /\ Decided'
    BY <2>1 DEF Working, Decided, InTurn
  <2> QED
    BY <2>2, <2>3, <2>4, <2>5 DEF DecisionInv
<1>4. CASE ~Accepted(versions[v])
  <2>1. /\ talk' = IF talk.status \notin OpenStatus THEN talk
                   ELSE [talk EXCEPT !.status = "requires_review", !.reason = "treeflow_version_missing"]
        /\ turns' = turns + 1 /\ pc = "idle"
        /\ UNCHANGED <<versions, rewritten, pc, graph, pinned, state, decision, verdict, tx, owes, unchecked, faults>>
    BY <1>4
  <2> HIDE DEF StartDrain, v
  <2>2. /\ talk' \in Talk /\ talk'.version = talk.version /\ talk'.turns = talk.turns
        /\ talk'.status = "none" <=> talk.status = "none"
        /\ talk'.status \in OpenStatus <=> talk.status \in OpenStatus
    BY <2>1 DEF DecisionInv, Types, Talk, OpenStatus
  <2>3. Types'
    BY <2>1, <2>2 DEF DecisionInv, Types, Pc
  <2>4. Limits'
    BY <2>1, <2>2 DEF DecisionInv, Limits
  <2>5. Windows'
    BY <2>1, <2>2 DEF DecisionInv, Windows, Recent
  <2>6. Resolved'
    BY <2>1, <2>2 DEF DecisionInv, Resolved
  <2>7. Working' /\ Decided'
    BY <2>1 DEF Working, Decided, InTurn
  <2> QED
    BY <2>3, <2>4, <2>5, <2>6, <2>7 DEF DecisionInv
<1> QED
  BY <1>3, <1>4

LEMMA EndDrainInv ==
  ASSUME DecisionInv, EndDrain PROVE DecisionInv'
<1> USE DEF EndDrain, row, turn, history
<1>1. Types'
  BY OpenVersion DEF DecisionInv, Types, Pc
<1>2. Limits' /\ Windows'
  BY DEF DecisionInv, Limits, Windows
<1>3. Resolved'
  BY DEF DecisionInv, Resolved
<1>4. Working' /\ Decided'
  BY DEF Working, Decided, InTurn
<1> QED
  BY <1>1, <1>2, <1>3, <1>4 DEF DecisionInv

\* The message a new Talk opens with.
LEMMA FirstMessage ==
  AppendMessage(<<>>, <<"user", 1>>) = <<<<"user", 1>>>>
<1> DEFINE all == Append(<<>>, <<"user", 1>>)
<1>1. all = <<<<"user", 1>>>> /\ Len(all) = 1
  OBVIOUS
<1>2. ~(Len(all) > MaxWindow)
  BY <1>1, BoundAssumption
<1> HIDE DEF all
<1>3. AppendMessage(<<>>, <<"user", 1>>) = all
  BY <1>2 DEF AppendMessage, all
<1> QED
  BY <1>1, <1>3

LEMMA PreprocessInv ==
  ASSUME DecisionInv, Preprocess PROVE DecisionInv'
<1> DEFINE fresh == talk.status \notin OpenStatus
           opened == [NoTalk EXCEPT !.status = "active", !.version = pinned]
           start == [NoState EXCEPT !.node = graph.entry,
                                    !.messages = AppendMessage(<<>>, <<"user", 1>>)]
<1>1. /\ talk' = (IF fresh THEN opened ELSE talk) /\ state' = (IF fresh THEN start ELSE state)
      /\ owes' = (IF fresh THEN FALSE ELSE owes) /\ turns' = turns + 1 /\ pc = "queue"
      /\ UNCHANGED <<versions, rewritten, decision, verdict, unchecked, faults>>
      /\ \/ /\ state'.node \in DOMAIN graph.nodes /\ pc' = "llm" /\ UNCHANGED <<graph, pinned>>
            /\ tx' = [talk |-> talk', state |-> state', owes |-> owes']
         \/ pc' = "idle" /\ graph' = NoGraph /\ pinned' = 0 /\ tx' = tx
  BY DEF Preprocess, row
<1>2. /\ opened \in Talk /\ opened.status = "active" /\ opened.version = pinned /\ opened.turns = 0
      /\ pinned \in 1..Len(versions)
  <2>1. pinned \in 1..Len(versions)
    BY <1>1, OpenVersion
  <2>2. pinned \in Nat
    BY <2>1
  <2> QED
    BY <2>1, <2>2 DEF NoTalk, Talk
<1>3. Accepted(graph) /\ graph \in Document /\ graph.entry \in DOMAIN graph.nodes /\ graph.entry \in Node
  BY <1>1, DocumentFacts DEF DecisionInv, Resolved
<1>4. /\ start \in FlowState /\ start.node = graph.entry /\ start.messages = <<<<"user", 1>>>>
      /\ Bounded(start)
  <2>1. start.messages = <<<<"user", 1>>>> /\ start.node = graph.entry /\ start.treatment = Nil
    BY FirstMessage DEF NoState
  <2>2. <<<<"user", 1>>>> \in Seq(Message) /\ Len(<<<<"user", 1>>>>) = 1
    BY DEF Message
  <2>3. start = [NoState EXCEPT !.node = graph.entry, !.messages = <<<<"user", 1>>>>]
    BY FirstMessage
  <2>4. start \in FlowState
    BY <1>3, <2>2, <2>3, Blank DEF FlowState
  <2> HIDE DEF start
  <2>5. Bounded(start)
    BY <2>1, <2>2, BoundAssumption DEF Bounded
  <2> QED
    BY <2>1, <2>4, <2>5
<1> HIDE DEF opened, start
<1>5. Recent(opened, start.messages)
  <2> DEFINE m == <<<<"user", 1>>>>
  <2>1. m # <<>> /\ Len(m) = 1
    OBVIOUS
  <2> HIDE DEF m
  <2>2. \A i \in 1..(Len(m) - 1) : FALSE
    BY <2>1
  <2>3. opened.turns = 0 => m = <<<<"user", 1>>>>
    BY DEF m
  <2>4. start.messages = m
    BY <1>4 DEF m
  <2> QED
    BY <1>2, <2>1, <2>2, <2>3, <2>4 DEF Recent
<1>6. /\ talk' \in Talk /\ state' \in FlowState /\ Bounded(state') /\ Recent(talk', state'.messages)
      /\ talk'.version <= Len(versions) /\ (talk'.status = "none" <=> talk'.version = 0)
      /\ talk'.status \in OpenStatus /\ talk'.version = pinned
      /\ ~rewritten => state'.node \in DOMAIN versions[talk'.version].nodes
  <2>1. CASE fresh
    <3>1. talk' = opened /\ state' = start
      BY <1>1, <2>1
    <3>2. ~rewritten => graph = versions[pinned]
      BY <1>1 DEF DecisionInv, Resolved
    <3>3. talk'.version <= Len(versions) /\ (talk'.status = "none" <=> talk'.version = 0)
      BY <1>2, <3>1, OpenVersion
    <3> QED
      BY <1>2, <1>3, <1>4, <1>5, <3>1, <3>2, <3>3 DEF OpenStatus
  <2>2. CASE ~fresh
    <3>1. talk' = talk /\ state' = state
      BY <1>1, <2>2
    <3> QED
      BY <1>1, <2>2, <3>1 DEF DecisionInv, Types, Limits, Windows, Resolved
  <2> QED
    BY <2>1, <2>2
<1>7. owes' \in BOOLEAN /\ turns' \in Nat
  <2>1. owes' \in BOOLEAN
    BY <1>1, Zenon DEF DecisionInv, Types
  <2>2. turns' \in Nat
    BY <1>1 DEF DecisionInv, Types
  <2> QED
    BY <2>1, <2>2
<1>8. CASE /\ state'.node \in DOMAIN graph.nodes /\ pc' = "llm" /\ UNCHANGED <<graph, pinned>>
           /\ tx' = [talk |-> talk', state |-> state', owes |-> owes']
  <2>1. tx'.talk = talk' /\ tx'.state = state' /\ tx' \in [talk : Talk, state : FlowState, owes : BOOLEAN]
    BY <1>6, <1>7, <1>8
  <2>2. Types'
    BY <1>1, <1>6, <1>7, <1>8, <2>1 DEF DecisionInv, Types, Pc
  <2>3. Limits' /\ Windows'
    BY <1>1, <1>6, <2>1 DEF Limits, Windows
  <2>4. Resolved'
    BY <1>1, <1>6, <1>8 DEF DecisionInv, Resolved
  <2>5. Working'
    BY <1>6, <1>8, <2>1 DEF Working, InTurn, Pc
  <2>6. Decided'
    BY <1>8 DEF Decided
  <2> QED
    BY <2>2, <2>3, <2>4, <2>5, <2>6 DEF DecisionInv
<1>9. CASE pc' = "idle" /\ graph' = NoGraph /\ pinned' = 0 /\ tx' = tx
  <2>1. Types'
    <3>1. 0 \in 0..Len(versions)
      BY OpenVersion
    <3> QED
      BY <1>1, <1>6, <1>7, <1>9, <3>1 DEF DecisionInv, Types, Pc
  <2>2. Limits' /\ Windows'
    BY <1>1, <1>6, <1>9 DEF DecisionInv, Limits, Windows
  <2>3. Resolved'
    BY <1>1, <1>6, <1>9 DEF DecisionInv, Resolved
  <2>4. Working' /\ Decided'
    BY <1>9 DEF Working, Decided, InTurn
  <2> QED
    BY <2>1, <2>2, <2>3, <2>4 DEF DecisionInv
<1> QED
  BY <1>1, <1>8, <1>9

\* The transaction of a turn, with the Talk it began with: the same row, open.
LEMMA InTransaction ==
  ASSUME DecisionInv, InTurn
  PROVE  /\ tx.talk \in Talk /\ tx.state \in FlowState /\ tx.owes \in BOOLEAN
         /\ talk.status \in OpenStatus /\ tx.talk.version = talk.version /\ talk.version = pinned
         /\ pinned \in 1..Len(versions)
         /\ graph \in Document /\ Accepted(graph) /\ (~rewritten => graph = versions[pinned])
         /\ state.node \in DOMAIN graph.nodes /\ tx.state.node \in DOMAIN graph.nodes
         /\ pc # "idle" /\ tx.talk.status # "none"
<1>1. pc # "idle"
  BY DEF InTurn
<1>2. tx.talk \in Talk /\ tx.state \in FlowState /\ tx.owes \in BOOLEAN
  BY DEF DecisionInv, Types
<1>3. talk.status \in OpenStatus /\ tx.talk.version = talk.version
  BY DEF DecisionInv, Working
<1>4. pinned \in 1..Len(versions) /\ talk.version = pinned
  BY <1>1, <1>3, OpenVersion DEF DecisionInv, Resolved
<1>5. tx.talk.status # "none"
  <2>1. tx.talk.version # 0
    BY <1>3, <1>4, OpenVersion
  <2> QED
    BY <2>1 DEF DecisionInv, Limits
<1>6. graph \in Document /\ Accepted(graph) /\ (~rewritten => graph = versions[pinned])
  BY <1>1 DEF DecisionInv, Resolved
<1> QED
  BY <1>1, <1>2, <1>3, <1>4, <1>5, <1>6 DEF DecisionInv, Working

LEMMA CommitInv ==
  ASSUME DecisionInv, InTurn, NEW t \in Talk, Commit(t),
         t.version = tx.talk.version, t.turns = tx.talk.turns, t.status # "none",
         UNCHANGED <<versions, rewritten, turns>>, unchecked' \in BOOLEAN
  PROVE  DecisionInv'
<1> DEFINE none == [talk |-> NoTalk, state |-> NoState, owes |-> FALSE]
<1>1. /\ talk' = t /\ state' = tx.state /\ owes' = tx.owes /\ pc' = "queue"
      /\ decision' = NoDecision /\ verdict' = "ok" /\ tx' = none
      /\ UNCHANGED <<graph, pinned, faults>>
  BY DEF Commit, Clear
<1>2. tx'.talk = NoTalk /\ tx'.state = NoState /\ tx' \in [talk : Talk, state : FlowState, owes : BOOLEAN]
  BY <1>1, Blank
<1>3. Types'
  BY <1>1, <1>2, InTransaction DEF DecisionInv, Types, Pc
<1>4. t.version \in 1..Len(versions)
  BY InTransaction
<1>5. Limits'
  <2>1. Bounded(state') /\ Bounded(tx'.state)
    BY <1>1, <1>2, Blank DEF DecisionInv, Limits
  <2>2. talk'.version <= Len(versions) /\ talk'.version # 0 /\ tx'.talk.version <= Len(versions)
    BY <1>1, <1>2, <1>4, Blank, OpenVersion
  <2> QED
    BY <1>1, <1>2, <2>1, <2>2, Blank DEF Limits
<1>6. Windows'
  <2>1. Recent(t, tx.state.messages)
    BY InTransaction DEF DecisionInv, Windows, Recent
  <2> QED
    BY <1>1, <1>2, <2>1, Blank DEF Windows
<1>7. Resolved'
  BY <1>1, InTransaction DEF Resolved
<1>8. Working' /\ Decided'
  BY <1>1 DEF Working, Decided, InTurn
<1> QED
  BY <1>3, <1>5, <1>6, <1>7, <1>8 DEF DecisionInv

LEMMA RollbackInv ==
  ASSUME DecisionInv, InTurn, Rollback, UNCHANGED <<versions, rewritten, unchecked, turns>>
  PROVE  DecisionInv'
<1> DEFINE none == [talk |-> NoTalk, state |-> NoState, owes |-> FALSE]
<1>1. /\ faults' = faults + 1 /\ pc' = "idle" /\ graph' = NoGraph /\ pinned' = 0
      /\ decision' = NoDecision /\ verdict' = "ok" /\ tx' = none
      /\ UNCHANGED <<talk, state, owes>>
  BY DEF Rollback, Clear
<1>2. tx'.talk = NoTalk /\ tx'.state = NoState /\ tx' \in [talk : Talk, state : FlowState, owes : BOOLEAN]
  BY <1>1, Blank
<1>3. Types'
  <2>1. 0 \in 0..Len(versions) /\ faults' \in Nat
    BY <1>1, OpenVersion DEF DecisionInv, Types
  <2> QED
    BY <1>1, <1>2, <2>1 DEF DecisionInv, Types, Pc
<1>4. Limits'
  <2>1. tx'.talk.version <= Len(versions)
    BY <1>2, Blank, OpenVersion
  <2> QED
    BY <1>1, <1>2, <2>1, Blank DEF DecisionInv, Limits
<1>5. Windows'
  BY <1>1, <1>2, Blank DEF DecisionInv, Windows
<1>6. Resolved'
  BY <1>1 DEF DecisionInv, Resolved
<1>7. Working' /\ Decided'
  BY <1>1 DEF Working, Decided, InTurn
<1> QED
  BY <1>3, <1>4, <1>5, <1>6, <1>7 DEF DecisionInv

LEMMA ModelFailsInv ==
  ASSUME DecisionInv, ModelFails PROVE DecisionInv'
<1>1. InTurn
  BY DEF ModelFails, InTurn, Pc
<1> QED
  BY <1>1, RollbackInv DEF ModelFails, row

\* Actions that only take the next decision or verdict.
LEMMA DecidingInv ==
  ASSUME DecisionInv, InTurn, pc # "send", pc' \in {"route", "correct", "reroute", "apply"},
         UNCHANGED <<row, talk, state, graph, pinned, tx, history, turns, faults>>,
         decision' \in Decision \cup {NoDecision},
         pc' # "correct" => decision' \in Decision,
         pc' = "apply" /\ verdict' = "ok" => Verdict(decision)' = "ok",
         pc' = "reroute" => verdict' # "ok"
  PROVE  DecisionInv'
<1> USE DEF row, history
<1>1. Types'
  BY DEF DecisionInv, Types, Pc
<1>2. Limits' /\ Windows'
  BY DEF DecisionInv, Limits, Windows
<1>3. Resolved'
  BY InTransaction DEF DecisionInv, Resolved
<1>4. Working'
  <2>1. /\ talk'.status \in OpenStatus /\ tx'.talk.version = talk'.version
        /\ state'.node \in DOMAIN graph'.nodes /\ tx'.state.node \in DOMAIN graph'.nodes
    BY InTransaction
  <2>2. tx' = [talk |-> talk', state |-> state', owes |-> owes']
    BY DEF DecisionInv, Working
  <2>3. pc' \in {"route", "reroute", "apply", "send"} => decision' \in Decision
    OBVIOUS
  <2> QED
    BY <2>1, <2>2, <2>3 DEF Working
<1>5. Decided'
  BY DEF Decided
<1> QED
  BY <1>1, <1>2, <1>3, <1>4, <1>5 DEF DecisionInv

LEMMA AskInv ==
  ASSUME DecisionInv, Ask PROVE DecisionInv'
<1>1. PICK d \in Decision : decision' = d /\ pc' = IF ValidateResponseText(d) THEN "route" ELSE "correct"
  BY DEF Ask
<1>2. pc = "llm" /\ UNCHANGED <<row, talk, state, graph, pinned, tx, history, turns, faults>>
  BY DEF Ask
<1>3. InTurn /\ pc # "send"
  BY <1>2 DEF InTurn, Pc
<1>4. pc' \in {"route", "correct"} /\ pc' # "reroute" /\ decision' \in Decision
  BY <1>1
<1> QED
  BY <1>2, <1>3, <1>4, DecidingInv

LEMMA RouteInv ==
  ASSUME DecisionInv, Route PROVE DecisionInv'
<1>1. /\ pc = "route" /\ verdict' = Verdict(decision)
      /\ pc' = (IF verdict' = "ok" THEN "apply" ELSE "reroute")
      /\ UNCHANGED <<row, talk, state, graph, pinned, decision, tx, history, turns, faults>>
  BY DEF Route
<1>2. InTurn /\ pc # "send" /\ decision \in Decision
  BY <1>1 DEF InTurn, Pc, DecisionInv, Working
<1>3. pc' \in {"apply", "reroute"}
  BY <1>1
<1>4. Verdict(decision)' = Verdict(decision)
  BY <1>1 DEF Verdict, Merged
<1> QED
  BY <1>1, <1>2, <1>3, <1>4, DecidingInv

LEMMA RunTransitionRetryInv ==
  ASSUME DecisionInv, RunTransitionRetry PROVE DecisionInv'
<1>1. PICK d \in Decision :
        IF Verdict(d) = "ok" THEN decision' = d /\ verdict' = "ok" ELSE UNCHANGED <<decision, verdict>>
  BY DEF RunTransitionRetry
<1>2. /\ pc = "reroute" /\ pc' = "apply"
      /\ UNCHANGED <<row, talk, state, graph, pinned, tx, history, turns, faults>>
  BY DEF RunTransitionRetry
<1>3. InTurn /\ pc # "send" /\ decision \in Decision /\ decision' \in Decision
  BY <1>1, <1>2 DEF InTurn, Pc, DecisionInv, Working
<1>4. verdict' = "ok" => Verdict(decision)' = "ok"
  <2>1. Verdict(decision)' = Verdict(decision')
    BY <1>2 DEF Verdict, Merged
  <2>2. CASE Verdict(d) = "ok"
    BY <1>1, <2>1, <2>2
  <2>3. CASE Verdict(d) # "ok"
    BY <1>1, <1>2, <2>1, <2>3 DEF DecisionInv, Working
  <2> QED
    BY <2>2, <2>3
<1> QED
  BY <1>2, <1>3, <1>4, DecidingInv

LEMMA ReviewFacts ==
  ASSUME NEW t \in Talk,
         NEW reason \in {"validator_exhausted", "voice_synthesis_failed", "objection_treatment_exhausted",
                         "escalation_requested", "off_topic_exhausted"}
  PROVE  /\ Review(t, reason) \in Talk /\ Review(t, reason).status = "requires_review"
         /\ Review(t, reason).version = t.version /\ Review(t, reason).turns = t.turns
BY DEF Review, Talk

LEMMA RunGuardrailsRetryInv ==
  ASSUME DecisionInv, RunGuardrailsRetry PROVE DecisionInv'
<1>1. PICK d \in Decision :
        \/ /\ ValidateResponseText(d)
           /\ decision' = d /\ pc' = "route"
           /\ UNCHANGED <<talk, state, owes, verdict, tx, graph, pinned, faults>>
        \/ /\ ~ValidateResponseText(d)
           /\ Commit(Review(tx.talk, "validator_exhausted")) \/ Rollback
  BY DEF RunGuardrailsRetry
<1>2. pc = "correct" /\ UNCHANGED <<row, unchecked, turns>>
  BY DEF RunGuardrailsRetry
<1>3. InTurn /\ pc # "send"
  BY <1>2 DEF InTurn, Pc
<1>4. CASE decision' = d /\ pc' = "route" /\ UNCHANGED <<talk, state, owes, verdict, tx, graph, pinned, faults>>
  BY <1>2, <1>3, <1>4, DecidingInv DEF history
<1>5. CASE Commit(Review(tx.talk, "validator_exhausted"))
  <2>1. tx.talk \in Talk
    BY <1>3, InTransaction
  <2>2. unchecked' \in BOOLEAN
    BY <1>2 DEF DecisionInv, Types
  <2>3. UNCHANGED <<versions, rewritten, turns>>
    BY <1>2 DEF row
  <2>4. Review(tx.talk, "validator_exhausted").status # "none"
    BY <2>1, ReviewFacts
  <2> QED
    BY <1>3, <1>5, <2>1, <2>2, <2>3, <2>4, ReviewFacts, CommitInv
<1>6. CASE Rollback
  BY <1>2, <1>3, <1>6, RollbackInv DEF row
<1> QED
  BY <1>1, <1>4, <1>5, <1>6

LEMMA SendInv ==
  ASSUME DecisionInv, Send PROVE DecisionInv'
<1>1. pc = "send" /\ UNCHANGED <<versions, rewritten, turns>>
  BY DEF Send, row
<1>2. InTurn /\ tx.talk \in Talk /\ tx.talk.status # "none"
  BY <1>1, InTransaction DEF InTurn, Pc
<1>3. \/ Commit(tx.talk) /\ unchecked' = (unchecked \/ ~ValidateResponseText(decision))
      \/ Commit(Review(tx.talk, "voice_synthesis_failed")) /\ UNCHANGED unchecked
      \/ Rollback /\ UNCHANGED unchecked
  BY DEF Send
<1>4. CASE Commit(tx.talk) /\ unchecked' = (unchecked \/ ~ValidateResponseText(decision))
  <2>1. unchecked' \in BOOLEAN
    BY <1>4, Zenon
  <2> QED
    BY <1>1, <1>2, <1>4, <2>1, CommitInv
<1>5. CASE Commit(Review(tx.talk, "voice_synthesis_failed")) /\ UNCHANGED unchecked
  <2>1. unchecked' \in BOOLEAN
    BY <1>5 DEF DecisionInv, Types
  <2>2. Review(tx.talk, "voice_synthesis_failed").status # "none"
    BY <1>2, ReviewFacts
  <2> QED
    BY <1>1, <1>2, <1>5, <2>1, <2>2, ReviewFacts, CommitInv
<1>6. CASE Rollback /\ UNCHANGED unchecked
  BY <1>1, <1>2, <1>6, RollbackInv
<1> QED
  BY <1>3, <1>4, <1>5, <1>6

\* The decision as it is applied.
LEMMA CorrectedFacts ==
  ASSUME NEW d \in Decision
  PROVE  LET c == Corrected(d) IN
         /\ c.detected \in Objection \cup {Nil} /\ c.next \in Node \cup {Nil} /\ c.offTopic \in BOOLEAN
         /\ c.fills \subseteq Field /\ c.clears \subseteq Field
         /\ c.next = d.next /\ c.fills = d.fills /\ c.clears = d.clears
<1>1. /\ d.detected \in Objection \cup {Nil} /\ d.next \in Node \cup {Nil} /\ d.offTopic \in BOOLEAN
      /\ d.fills \subseteq Field /\ d.clears \subseteq Field
      /\ Corrected(d).detected = d.detected /\ Corrected(d).offTopic = d.offTopic
      /\ Corrected(d).next = d.next /\ Corrected(d).fills = d.fills /\ Corrected(d).clears = d.clears
  BY DecisionAssumption DEF Corrected
<1> QED
  BY <1>1

LEMMA TargetFacts ==
  ASSUME DecisionInv, pc = "apply", NEW d, d.next = decision.next,
         d.fills = decision.fills, d.clears = decision.clears
  PROVE  /\ Target(d) \in DOMAIN graph.nodes
         /\ Target(d) # state.node =>
              /\ Target(d) \in DOMAIN graph.nodes[state.node].next
              /\ ExitSatisfied(graph.nodes[state.node], (state.filled \ d.clears) \cup d.fills)
              /\ state.treatment = Nil
<1>1. InTurn
  BY DEF InTurn, Pc
<1>2. /\ tx.state = state /\ state.node \in DOMAIN graph.nodes
      /\ graph \in Document /\ Accepted(graph)
  BY <1>1, InTransaction DEF DecisionInv, Working
<1>3. CASE verdict = "ok" /\ d.next # Nil /\ d.next # state.node
  <2>1. Verdict(decision) = "ok"
    BY <1>3 DEF DecisionInv, Working
  <2>2. TransitionVerdict(graph, state.node, d.next, (state.filled \ d.clears) \cup d.fills,
                          state.treatment) = "ok"
    BY <1>2, <2>1 DEF Verdict, Merged
  <2>3. /\ d.next \in DOMAIN graph.nodes[state.node].next
        /\ ExitSatisfied(graph.nodes[state.node], (state.filled \ d.clears) \cup d.fills)
        /\ state.treatment = Nil
    BY <1>3, <2>2, Moves
  <2>4. Target(d) = d.next
    BY <1>3 DEF Target
  <2> QED
    BY <1>2, <2>3, <2>4, DocumentFacts
<1>4. CASE ~(verdict = "ok" /\ d.next # Nil /\ d.next # state.node)
  <2>1. Target(d) = state.node
    BY <1>2, <1>4 DEF Target
  <2> QED
    BY <1>2, <2>1
<1> QED
  BY <1>3, <1>4

\* The state that apply_decision leaves.
LEMMA AppliedFacts ==
  ASSUME DecisionInv, pc = "apply",
         NEW d, d.detected \in Objection \cup {Nil}, d.fills \subseteq Field, d.clears \subseteq Field,
         d.next = decision.next, d.fills = decision.fills, d.clears = decision.clears,
         NEW u \in Talk, u.turns = talk.turns + 1, u.status # "none",
         NEW s, s = AppliedState(state, d, ObjectionDelta(state.treatment, d, graph, state.node), talk.turns + 1)
  PROVE  /\ s \in FlowState /\ Bounded(s) /\ Recent(u, s.messages) /\ Treats(state, s)
         /\ s.node = Target(d) /\ s.filled = (state.filled \ d.clears) \cup d.fills
         /\ s.offTopic = state.offTopic
<1> DEFINE delta == ObjectionDelta(state.treatment, d, graph, state.node)
           m == AppendMessage(state.messages, <<"assistant", talk.turns + 1>>)
           h == IF delta.entry = Nil THEN state.handled ELSE Append(state.handled, delta.entry)
           f == (state.filled \ d.clears) \cup d.fills
<1>1. InTurn
  BY DEF InTurn, Pc
<1>2. /\ talk \in Talk /\ talk.status # "none" /\ state \in FlowState /\ Bounded(state)
      /\ Recent(talk, state.messages) /\ state.node \in DOMAIN graph.nodes
      /\ graph \in Document /\ Accepted(graph)
  BY <1>1, InTransaction DEF DecisionInv, Types, Limits, Windows, OpenStatus
<1>3. /\ state.messages \in Seq(Message) /\ Len(state.messages) <= MaxWindow
      /\ state.handled \in Seq(Resolutions) /\ state.treatment \in Treatments \cup {Nil}
      /\ (state.treatment # Nil => state.treatment.turn <= state.treatment.max)
      /\ state.filled \subseteq Field
  BY <1>2 DEF FlowState, Bounded
<1>4. Recent(u, m) /\ m \in Seq(Message) /\ Len(m) <= MaxWindow
  BY <1>2, <1>3, WindowGoesOn
<1>5. Outcome(state.treatment, delta.treatment, delta.entry)
  BY <1>2, <1>3, Outcomes
<1> HIDE DEF delta
<1>6. /\ delta.treatment \in Treatments \cup {Nil} /\ delta.entry \in Resolutions \cup {Nil}
      /\ (delta.treatment # Nil => delta.treatment.turn <= delta.treatment.max)
  BY <1>3, <1>5, OutcomeTypes
<1>7. h \in Seq(Resolutions)
  BY <1>3, <1>6, AppendProperties
<1>8. Target(d) \in Node
  BY <1>2, TargetFacts, DocumentFacts
<1>9. f \subseteq Field
  BY <1>3
<1> HIDE DEF m, h, f
<1>10. s = [state EXCEPT !.filled = f, !.treatment = delta.treatment, !.handled = h,
                         !.node = Target(d), !.messages = m]
  BY DEF AppliedState, delta, m, h, f
<1>11. /\ s.filled = f /\ s.treatment = delta.treatment /\ s.handled = h
       /\ s.node = Target(d) /\ s.messages = m /\ s.offTopic = state.offTopic
  BY <1>2, <1>10 DEF FlowState
<1>12. s \in FlowState
  BY <1>2, <1>4, <1>6, <1>7, <1>8, <1>9, <1>10 DEF FlowState
<1>13. Bounded(s)
  BY <1>4, <1>6, <1>11 DEF Bounded
<1>14. Treats(state, s)
  BY <1>3, <1>5, <1>11, OutcomeTreats DEF h
<1> QED
  BY <1>4, <1>11, <1>12, <1>13, <1>14 DEF f

LEMMA ApplyDecisionInv ==
  ASSUME DecisionInv, ApplyDecision PROVE DecisionInv'
<1> DEFINE d == Corrected(decision)
           delta == ObjectionDelta(tx.state.treatment, d, graph, tx.state.node)
           s == AppliedState(tx.state, d, delta, tx.talk.turns + 1)
           t == [tx.talk EXCEPT !.turns = @ + 1]
           count == s.offTopic + (IF d.offTopic THEN 1 ELSE 0)
           offTopic == IF d.offTopic THEN OfftopicReason(count) ELSE Nil
           asked == IF d.escalate THEN "escalation_requested" ELSE Nil
           reason == FirstOf(FirstOf(delta.review, asked), offTopic)
           T == IF Completes(graph, s.filled) THEN [t EXCEPT !.status = "closed", !.closedAt = TRUE]
                ELSE IF reason # Nil /\ t.status # "requires_review" THEN Review(t, reason) ELSE t
           S == IF Completes(graph, s.filled) THEN s ELSE [s EXCEPT !.offTopic = count]
           O == Owes(delta, d)
<1>1. /\ pc = "apply" /\ pc' = "send" /\ tx' = [talk |-> T, state |-> S, owes |-> O]
      /\ UNCHANGED <<versions, rewritten, talk, state, graph, pinned, decision, verdict, owes, unchecked, turns, faults>>
  BY DEF ApplyDecision, row, history
<1>2. InTurn /\ decision \in Decision /\ tx.talk = talk /\ tx.state = state /\ talk \in Talk /\ state \in FlowState
  BY <1>1 DEF InTurn, Pc, DecisionInv, Working, Types
<1>3. /\ d.detected \in Objection \cup {Nil} /\ d.offTopic \in BOOLEAN
      /\ d.fills \subseteq Field /\ d.clears \subseteq Field
      /\ d.next = decision.next /\ d.fills = decision.fills /\ d.clears = decision.clears
  BY <1>2, CorrectedFacts
<1>4. /\ t \in Talk /\ t.turns = talk.turns + 1 /\ t.status = talk.status /\ t.version = talk.version
  BY <1>2 DEF Talk
<1>5. /\ s \in FlowState /\ Bounded(s) /\ Recent(t, s.messages) /\ Treats(state, s)
      /\ s.node = Target(d) /\ s.filled = (state.filled \ d.clears) \cup d.fills
      /\ s.offTopic = state.offTopic
  <2> HIDE DEF t, d
  <2>1. s = AppliedState(state, d, ObjectionDelta(state.treatment, d, graph, state.node), talk.turns + 1)
    BY <1>2
  <2>2. talk.status # "none"
    BY <1>2, InTransaction
  <2> QED
    BY <1>1, <1>3, <1>4, <2>1, <2>2, AppliedFacts
<1>6. /\ Target(d) \in DOMAIN graph.nodes
      /\ Target(d) # state.node =>
           /\ Target(d) \in DOMAIN graph.nodes[state.node].next
           /\ ExitSatisfied(graph.nodes[state.node], (state.filled \ d.clears) \cup d.fills)
           /\ state.treatment = Nil
  BY <1>1, <1>3, TargetFacts
<1>7. delta.review \in {Nil, "objection_treatment_exhausted"}
  <2>1. /\ graph \in Document /\ Accepted(graph) /\ state.node \in DOMAIN graph.nodes
    BY <1>2, InTransaction
  <2>2. /\ state.treatment \in Treatments \cup {Nil}
        /\ (state.treatment # Nil => state.treatment.turn <= state.treatment.max)
    BY <1>2 DEF FlowState, DecisionInv, Limits, Bounded
  <2> HIDE DEF d
  <2> QED
    BY <1>2, <1>3, <2>1, <2>2, Outcomes
<1>8. O \in BOOLEAN
  <2>1. tx.owes \in BOOLEAN
    BY <1>2, InTransaction
  <2> QED
    BY <2>1 DEF Owes
<1> HIDE DEF d, delta, s, t, O
<1>9. count \in Nat /\ count <= state.offTopic + 1 /\ (count > state.offTopic => d.offTopic)
  BY <1>2, <1>5 DEF FlowState
<1> HIDE DEF count
<1>10. /\ reason \in {Nil, "objection_treatment_exhausted", "escalation_requested", "off_topic_exhausted"}
       /\ d.offTopic /\ count >= Threshold => reason # Nil
  <2>1. "objection_treatment_exhausted" # Nil /\ "escalation_requested" # Nil /\ "off_topic_exhausted" # Nil
    BY NoneAssumption
  <2> QED
    BY <1>7, <2>1 DEF FirstOf, OfftopicReason
<1> HIDE DEF reason
<1>11. /\ T \in Talk /\ T.version = talk.version /\ T.turns = talk.turns + 1
       /\ T.status = "none" <=> talk.status = "none"
       /\ ~Completes(graph, s.filled) /\ reason # Nil => T.status # "active"
  <2>1. CASE Completes(graph, s.filled)
    <3>1. talk.status # "none"
      BY <1>2, InTransaction DEF OpenStatus
    <3> QED
      BY <1>4, <2>1, <3>1 DEF Talk
  <2>2. CASE ~Completes(graph, s.filled) /\ reason # Nil /\ t.status # "requires_review"
    <3>1. talk.status # "none"
      BY <1>2, InTransaction DEF OpenStatus
    <3> QED
      BY <1>4, <1>10, <2>2, <3>1, ReviewFacts
  <2>3. CASE ~Completes(graph, s.filled) /\ ~(reason # Nil /\ t.status # "requires_review")
    BY <1>4, <2>3
  <2> QED
    BY <2>1, <2>2, <2>3
<1>12. /\ S \in FlowState /\ S.treatment = s.treatment /\ S.handled = s.handled /\ S.messages = s.messages
       /\ S.node = s.node /\ S.filled = s.filled
       /\ S.offTopic = IF Completes(graph, s.filled) THEN state.offTopic ELSE count
  BY <1>5, <1>9 DEF FlowState
<1> HIDE DEF T, S
<1>13. tx'.talk = T /\ tx'.state = S /\ tx' \in [talk : Talk, state : FlowState, owes : BOOLEAN]
  BY <1>1, <1>8, <1>11, <1>12
<1>14. Types'
  BY <1>1, <1>13 DEF DecisionInv, Types, Pc
<1>15. Limits'
  BY <1>1, <1>5, <1>11, <1>12, <1>13 DEF DecisionInv, Limits, Bounded
<1>16. Windows'
  <2>1. Recent(T, S.messages)
    BY <1>4, <1>5, <1>11, <1>12 DEF Recent
  <2> QED
    BY <1>1, <1>13, <2>1 DEF DecisionInv, Windows
<1>17. Resolved'
  BY <1>1 DEF DecisionInv, Resolved
<1>18. Working'
  <2>1. talk.status \in OpenStatus /\ state.node \in DOMAIN graph.nodes
    BY <1>2, InTransaction
  <2>2. tx'.state.node \in DOMAIN graph.nodes
    BY <1>5, <1>6, <1>12, <1>13
  <2> QED
    BY <1>1, <1>2, <1>11, <1>13, <2>1, <2>2 DEF Working
<1>19. Decided'
  <2>1. tx'.state.offTopic > state.offTopic /\ tx'.state.offTopic >= Threshold => tx'.talk.status # "active"
    BY <1>2, <1>9, <1>10, <1>11, <1>12, <1>13 DEF FlowState
  <2>2. Treats(state, tx'.state)
    BY <1>5, <1>12, <1>13 DEF Treats
  <2>3. tx'.state.node # state.node =>
          /\ tx'.state.node \in DOMAIN graph.nodes[state.node].next
          /\ ExitSatisfied(graph.nodes[state.node], tx'.state.filled)
          /\ state.treatment = Nil
    BY <1>5, <1>6, <1>12, <1>13
  <2>4. state' = state /\ graph' = graph
    BY <1>1
  <2> QED
    BY <2>1, <2>2, <2>3, <2>4 DEF Decided
<1> QED
  BY <1>14, <1>15, <1>16, <1>17, <1>18, <1>19 DEF DecisionInv

LEMMA StutterInv ==
  ASSUME DecisionInv, UNCHANGED vars PROVE DecisionInv'
<1> USE DEF vars, row, turn, history
<1>1. Types' /\ Limits' /\ Windows'
  BY DEF DecisionInv, Types, Limits, Windows
<1>2. Resolved'
  BY DEF DecisionInv, Resolved
<1>3. Working'
  BY DEF DecisionInv, Working, InTurn, Verdict, Merged
<1>4. Decided'
  BY DEF DecisionInv, Decided
<1> QED
  BY <1>1, <1>2, <1>3, <1>4 DEF DecisionInv

\* The inductive invariant holds throughout every behaviour.
THEOREM Invariant == Spec => []DecisionInv
<1>1. DecisionInv /\ [Next]_vars => DecisionInv'
  BY PublishInv, ReseedInv, ScanClosesInv, StartDrainInv, EndDrainInv, PreprocessInv, ModelFailsInv,
     AskInv, RunGuardrailsRetryInv, RouteInv, RunTransitionRetryInv, ApplyDecisionInv, SendInv,
     StutterInv DEF Next
<1> QED
  BY InitInv, <1>1, PTL DEF Spec

-----------------------------------------------------------------------------
(* The theorems *)

LEMMA TypesTypeOK == DecisionInv => TypeOK
<1> SUFFICES ASSUME DecisionInv PROVE TypeOK
  OBVIOUS
<1>1. Types /\ Limits /\ Windows
  BY DEF DecisionInv
<1>2. Len(versions) \in Nat
  BY OpenVersion
<1>3. ASSUME NEW t \in Talk, t.version <= Len(versions), t.status = "none" <=> t.version = 0
      PROVE  TalkOK(t)
  BY <1>2, <1>3 DEF TalkOK, Talk
<1>4. TalkOK(talk) /\ TalkOK(tx.talk)
  BY <1>1, <1>3 DEF Types, Limits
<1>5. ASSUME NEW s \in FlowState, Bounded(s) PROVE StateOK(s)
  BY <1>5 DEF StateOK, FlowState, Bounded
<1>6. StateOK(state) /\ StateOK(tx.state)
  BY <1>1, <1>5 DEF Types, Limits
<1>7. WindowIsRecent
  <2> SUFFICES ASSUME talk.turns > 0
               PROVE  LET m == state.messages IN
                      /\ m # <<>> /\ m[Len(m)] = <<"assistant", talk.turns>>
                      /\ \A i \in 1..(Len(m) - 1) : m[i + 1][2] = m[i][2] + IF m[i][1] = "user" THEN 0 ELSE 1
    BY DEF WindowIsRecent
  <2>1. talk.status # "none" /\ talk.turns # 0
    BY <1>1 DEF Types, Talk, Windows, Recent
  <2> QED
    BY <1>1, <2>1 DEF Windows, Recent
<1> QED
  BY <1>1, <1>4, <1>6, <1>7 DEF Types, TypeOK, Pc

\* Every value the model keeps has its type, and the window of messages holds
\* the last ones without a gap, whatever the limit is.
THEOREM TypeCorrect == Spec => []TypeOK
  BY Invariant, TypesTypeOK, PTL

\* While rows keep their content, a turn finds the Talk in a node of the
\* TreeFlow it runs with: the KeyError of run_turn is out of reach.
THEOREM NodeStaysInGraph == Spec => []NodeInGraph
<1>1. DecisionInv => NodeInGraph
  BY DEF DecisionInv, Resolved, NodeInGraph
<1> QED
  BY Invariant, <1>1, PTL

-----------------------------------------------------------------------------
(* What a step does to the state of the Talk: nothing, a new Talk, or what *)
(* the turn that is sent has made of it.                                   *)

Stays == state' = state /\ (talk'.status \in OpenStatus => talk.status \in OpenStatus)

Opens == /\ talk.status \notin OpenStatus /\ talk'.status \in OpenStatus
         /\ state'.treatment = Nil /\ state'.handled = <<>> /\ state'.offTopic = 0

Sends == /\ pc = "send" /\ talk.status \in OpenStatus /\ state' = tx.state
         /\ talk'.status \in {tx.talk.status, "requires_review"}

LEMMA CommitSteps ==
  ASSUME DecisionInv, InTurn, NEW t, Commit(t), t.status \in {tx.talk.status, "requires_review"}
  PROVE  Stays \/ Sends
<1>1. talk.status \in OpenStatus /\ state' = tx.state /\ talk' = t
  BY InTransaction DEF Commit
<1>2. CASE pc = "send"
  BY <1>1, <1>2 DEF Sends
<1>3. CASE pc # "send"
  BY <1>1, <1>3 DEF DecisionInv, Working, Stays
<1> QED
  BY <1>2, <1>3

LEMMA Steps ==
  ASSUME DecisionInv, [Next]_vars PROVE Stays \/ Opens \/ Sends
<1>1. CASE \/ Publish \/ Reseed \/ EndDrain \/ Ask \/ Route \/ RunTransitionRetry \/ ApplyDecision
           \/ UNCHANGED vars
  BY <1>1 DEF Publish, Reseed, EndDrain, Ask, Route, RunTransitionRetry, ApplyDecision, vars, Stays
<1>2. CASE ScanCloses
  BY <1>2 DEF ScanCloses, Stays, OpenStatus
<1>3. CASE StartDrain
  <2>1. talk \in Talk /\ state' = state
    BY <1>3 DEF DecisionInv, Types, StartDrain
  <2>2. talk' = talk \/ talk.status \in OpenStatus
    BY <1>3 DEF StartDrain
  <2> QED
    BY <2>1, <2>2 DEF Stays
<1>4. CASE Preprocess
  <2>1. CASE talk.status \in OpenStatus
    BY <1>4, <2>1 DEF Preprocess, Stays
  <2>2. CASE talk.status \notin OpenStatus
    <3>1. /\ talk' = [NoTalk EXCEPT !.status = "active", !.version = pinned]
          /\ state' = [NoState EXCEPT !.node = graph.entry,
                                      !.messages = AppendMessage(<<>>, <<"user", 1>>)]
      BY <1>4, <2>2 DEF Preprocess
    <3>2. talk'.status = "active"
      BY <3>1 DEF NoTalk
    <3>3. state'.treatment = Nil /\ state'.handled = <<>> /\ state'.offTopic = 0
      BY <3>1 DEF NoState
    <3> QED
      BY <2>2, <3>2, <3>3 DEF Opens, OpenStatus
  <2> QED
    BY <2>1, <2>2
<1>5. CASE ModelFails
  BY <1>5 DEF ModelFails, Rollback, Stays
<1>6. CASE RunGuardrailsRetry
  <2>1. InTurn /\ pc # "send"
    BY <1>6 DEF RunGuardrailsRetry, InTurn, Pc
  <2>2. \/ UNCHANGED <<talk, state>>
        \/ Commit(Review(tx.talk, "validator_exhausted"))
    BY <1>6 DEF RunGuardrailsRetry, Rollback
  <2>3. Review(tx.talk, "validator_exhausted").status = "requires_review"
    BY <2>1, InTransaction, ReviewFacts
  <2> QED
    BY <2>1, <2>2, <2>3, CommitSteps DEF Stays
<1>7. CASE Send
  <2>1. InTurn
    BY <1>7 DEF Send, InTurn, Pc
  <2>2. \/ Commit(tx.talk) \/ Commit(Review(tx.talk, "voice_synthesis_failed"))
        \/ UNCHANGED <<talk, state>>
    BY <1>7 DEF Send, Rollback
  <2>3. Review(tx.talk, "voice_synthesis_failed").status = "requires_review"
    BY <2>1, InTransaction, ReviewFacts
  <2> QED
    BY <2>1, <2>2, <2>3, CommitSteps DEF Stays
<1> QED
  BY <1>1, <1>2, <1>3, <1>4, <1>5, <1>6, <1>7 DEF Next

\* Whichever of the model's answers is applied, a Talk leaves a node only by a
\* transition whose conditions hold with what the turn leaves collected.
THEOREM MovesByTheRules == Spec => MovesWhenSatisfied
<1> DEFINE A == LET from == state.node IN
                talk.status \in OpenStatus /\ state'.node # from
                  => /\ state'.node \in DOMAIN graph.nodes[from].next
                     /\ ExitSatisfied(graph.nodes[from], state'.filled)
                     /\ state.treatment = Nil
<1>1. DecisionInv /\ [Next]_vars => [A]_vars
  <2> SUFFICES ASSUME DecisionInv, [Next]_vars PROVE A
    OBVIOUS
  <2>1. CASE Stays \/ Opens
    BY <2>1 DEF Stays, Opens
  <2>2. CASE Sends
    BY <2>2 DEF Sends, DecisionInv, Decided
  <2> QED
    BY <2>1, <2>2, Steps
<1>2. [][A]_vars <=> MovesWhenSatisfied
  BY PTL DEF MovesWhenSatisfied
<1> QED
  BY <1>1, <1>2, Invariant, PTL DEF Spec

\* The off-topic message that reaches the threshold takes the Talk from the
\* machine, in the turn it is counted.
THEOREM OffTopicReachesHumans == Spec => OffTopicEscalates
<1> DEFINE A == state'.offTopic > state.offTopic /\ state'.offTopic >= Threshold => talk'.status # "active"
<1>1. DecisionInv /\ [Next]_vars => [A]_vars
  <2> SUFFICES ASSUME DecisionInv, [Next]_vars, state'.offTopic > state.offTopic,
                      state'.offTopic >= Threshold
               PROVE  talk'.status # "active"
    OBVIOUS
  <2>1. state.offTopic \in Nat
    BY DEF DecisionInv, Types, FlowState
  <2>2. ~Stays
    BY <2>1 DEF Stays
  <2>3. ~Opens
    BY <2>1 DEF Opens
  <2>4. Sends
    BY <2>2, <2>3, Steps
  <2> QED
    BY <2>4 DEF Sends, DecisionInv, Decided
<1>2. [][A]_vars <=> OffTopicEscalates
  BY PTL DEF OffTopicEscalates
<1> QED
  BY <1>1, <1>2, Invariant, PTL DEF Spec

-----------------------------------------------------------------------------
(* TurnDecision implements TreatmentPromise.                               *)

LEMMA PromiseInit == Init => Promise!Init
<1> SUFFICES ASSUME Init PROVE Promise!Init
  OBVIOUS
<1>1. talk = NoTalk /\ state = NoState
  BY DEF Init
<1>2. talk.status \notin OpenStatus
  BY <1>1 DEF NoTalk, OpenStatus
<1>3. state.treatment = Nil /\ state.handled = <<>>
  BY <1>1 DEF NoState
<1>4. (talk.status \in OpenStatus) = FALSE
  BY <1>2
<1> QED
  BY <1>3, <1>4, Zenon DEF Promise!Init

\* A turn that treats an objection takes the step of the same name.
LEMMA PromiseTreats ==
  ASSUME Treats(state, state')
  PROVE  \/ Promise!Enter \/ Promise!Continue \/ Promise!Resolve \/ Promise!Exhaust \/ Promise!Swap
         \/ (state.treatment)' = state.treatment /\ (state.handled)' = state.handled
BY DEF Treats, Closed, Promise!Enter, Promise!Continue, Promise!Resolve, Promise!Exhaust, Promise!Swap,
       Promise!Starts, Promise!Ends

LEMMA PromiseStep ==
  ASSUME DecisionInv, [Next]_vars
  PROVE  [Promise!Next]_<<talk.status \in OpenStatus, state.treatment, state.handled>>
<1>1. CASE Stays
  <2>1. CASE talk.status \in OpenStatus
    <3>1. (talk.status \in OpenStatus)' \in BOOLEAN
      OBVIOUS
    <3>2. Promise!Turn
      BY <1>1, <2>1, <3>1 DEF Stays, Promise!Turn
    <3> QED
      BY <3>2 DEF Promise!Next
  <2>2. CASE talk.status \notin OpenStatus
    BY <1>1, <2>2 DEF Stays
  <2> QED
    BY <2>1, <2>2
<1>2. CASE Opens
  BY <1>2 DEF Opens, Promise!Begin, Promise!Next
<1>3. CASE Sends
  <2>1. Treats(state, state')
    BY <1>3 DEF Sends, DecisionInv, Decided
  <2>2. (talk.status \in OpenStatus)' \in BOOLEAN
    OBVIOUS
  <2>3. Promise!Turn
    BY <1>3, <2>1, <2>2, PromiseTreats DEF Sends, Promise!Turn
  <2> QED
    BY <2>3 DEF Promise!Next
<1> QED
  BY <1>1, <1>2, <1>3, Steps

\* Every treatment of an objection starts at turn 1, goes on one turn at a time
\* within its limit, and leaves exactly one entry in the history.
THEOREM PromiseKept == Spec => KeepsPromise
<1>1. DecisionInv /\ [Next]_vars
        => [Promise!Next]_<<talk.status \in OpenStatus, state.treatment, state.handled>>
  BY PromiseStep
<1> QED
  BY <1>1, PromiseInit, Invariant, PTL DEF Spec, KeepsPromise, Promise!Spec

=============================================================================
