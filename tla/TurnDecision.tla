---------------------------- MODULE TurnDecision ----------------------------
(***************************************************************************)
(* What run_turn (flowengine/pipeline.py) makes of the model's answers:    *)
(* the guardrails and their retry (correction.py), the transition and its  *)
(* retry, apply_decision (post_processing.py), the send and its voice, and *)
(* the TreeFlow version the turn runs with (worker/jobs/inbound.py).       *)
(*                                                                         *)
(* One lead, one drain at a time; who may hold the Talk and which lock     *)
(* keeps turns apart is TalkHandling's and LeadInbox's subject, the actions*)
(* a decision dispatches are ActionExecution's.  The columns of a turn are *)
(* in `tx' until its transaction commits.                                  *)
(***************************************************************************)
EXTENDS TreeFlow, Sequences, FiniteSetsExt

CONSTANTS
  Document,     \* the YAML documents operators publish
  Decision,     \* the TurnDecisions the model may return
  Whitelisted,  \* prices and products the tenant allows in a text
  Voice,        \* tenant.yaml > voice: [mode, fallback], or Nil
  MaxWindow,    \* messages kept in the state (15 in the code)
  Threshold,    \* OFFTOPIC_THRESHOLD (3 in the code)
  MaxVersions,  \* bound on the published versions
  MaxTurns,     \* bound on the turns
  MaxFaults     \* bound on failures of the model and the adapter

ASSUME BoundAssumption ==
  /\ {MaxWindow, Threshold} \subseteq Nat \ {0}
  /\ {MaxVersions, MaxTurns, MaxFaults} \subseteq Nat

ASSUME DocumentAssumption == \A d \in Document : DOMAIN d.nodes \subseteq Node

\* The fields of flowengine/decision.py's TurnDecision, and what its text does.
ASSUME DecisionAssumption ==
  Decision \subseteq
    [detected : Objection \cup {Nil},
     treatment : {"in_progress", "resolved_accepted", "resolved_deferred", Nil},
     fills : SUBSET Field, clears : SUBSET Field, next : Node \cup {Nil},
     escalate : BOOLEAN, offTopic : BOOLEAN, hedges : BOOLEAN,
     mentions : {d.mentions : d \in Decision}]

Resolutions == [id : Objection, resolution : {"accepted", "deferred", "exhausted"}]

\* None is neither an entry of the history nor the reason of a review.
ASSUME NoneAssumption ==
  Nil \notin Resolutions \cup {"objection_treatment_exhausted", "escalation_requested", "off_topic_exhausted"}

VARIABLES
  versions,   \* treeflow_versions.content_yaml, in the order of created_at
  rewritten,  \* a row has been given another content
  talk,       \* the newest Talk of the lead: status, version, reason, ...
  state,      \* its TalkFlowState
  pc,         \* where the drain is
  graph,      \* the TreeFlow the drain has loaded
  pinned,     \* tfv.id of that TreeFlow
  decision,   \* the decision at hand
  verdict,    \* validate_transition's verdict on it
  tx,         \* [talk, state, owes] as the turn will leave them
  owes,       \* history: the active treatment was declared to escalate
  unchecked,  \* history: a text that the guardrails reject was sent
  turns, faults

row == <<versions, rewritten>>
turn == <<graph, pinned, decision, verdict, tx>>
history == <<owes, unchecked>>
vars == <<row, talk, state, pc, turn, history, turns, faults>>

NoGraph == [entry |-> Nil]
NoDecision == [detected |-> Nil]

NoTalk == [status |-> "none", version |-> 0, reason |-> Nil, closedAt |-> FALSE, turns |-> 0]
NoState == [node |-> Nil, filled |-> {}, treatment |-> Nil, handled |-> <<>>,
            offTopic |-> 0, messages |-> <<>>]

OpenStatus == {"active", "requires_review"}

-----------------------------------------------------------------------------
(* Operators: publish_version adds a row; the seed scripts rewrite one.    *)

Publish ==
  /\ pc \in {"idle", "queue"}
  /\ Len(versions) < MaxVersions
  /\ \E d \in Document : versions' = Append(versions, d)
  /\ UNCHANGED <<rewritten, talk, state, pc, turn, history, turns, faults>>

Reseed ==
  /\ pc \in {"idle", "queue"}
  /\ \E v \in DOMAIN versions, d \in Document :
       /\ d # versions[v]
       /\ versions' = [versions EXCEPT ![v] = d]
  /\ ~rewritten /\ rewritten' = TRUE
  /\ UNCHANGED <<talk, state, pc, turn, history, turns, faults>>

\* The scan job closes a silent Talk whose TreeFlow it can read.
ScanCloses ==
  /\ pc \in {"idle", "queue"}
  /\ talk.status = "active"
  /\ Accepted(versions[talk.version])
  /\ versions[talk.version].lifecycle.inactivity + versions[talk.version].lifecycle.duration > 0
  /\ talk' = [talk EXCEPT !.status = "closed", !.closedAt = TRUE]
  /\ UNCHANGED <<row, state, pc, turn, history, turns, faults>>

-----------------------------------------------------------------------------
(* The drain: the version is resolved once, before its first message.      *)

\* The version the open Talk was created with, or the newest one.
ResolveVersion ==
  IF talk.status \in OpenStatus THEN talk.version ELSE Len(versions)

\* A row the loader refuses sends the open Talk to a review; the queued
\* messages are marked as errors.
StartDrain ==
  /\ pc = "idle" /\ turns < MaxTurns
  /\ LET v == ResolveVersion IN
     IF Accepted(versions[v])
     THEN /\ pc' = "queue" /\ graph' = versions[v] /\ pinned' = v
          /\ UNCHANGED <<talk, turns>>
     ELSE /\ talk' = IF talk.status \notin OpenStatus THEN talk
                     ELSE [talk EXCEPT !.status = "requires_review",
                                       !.reason = "treeflow_version_missing"]
          /\ turns' = turns + 1
          /\ UNCHANGED <<pc, graph, pinned>>
  /\ UNCHANGED <<row, state, decision, verdict, tx, history, faults>>

EndDrain ==
  /\ pc = "queue"
  /\ pc' = "idle" /\ graph' = NoGraph /\ pinned' = 0
  /\ UNCHANGED <<row, talk, state, decision, verdict, tx, history, turns, faults>>

\* Mutant: the window is cut at its newest end.
AppendNewestFalls(messages, m) ==
  IF Len(messages) >= MaxWindow THEN messages ELSE Append(messages, m)

\* append_message: the oldest messages leave the window.
AppendMessage(messages, m) ==
  LET all == Append(messages, m) IN
  IF Len(all) > MaxWindow THEN SubSeq(all, Len(all) - MaxWindow + 1, Len(all)) ELSE all

\* resolve_pipeline_context, its commit, and the reads under the lock.  A new
\* Talk starts in the entry node with the lead's message; an open one that
\* stands in a node the graph has not (KeyError) ends the drain.
Preprocess ==
  LET fresh == talk.status \notin OpenStatus
      t == IF fresh THEN [NoTalk EXCEPT !.status = "active", !.version = pinned] ELSE talk
      s == IF fresh THEN [NoState EXCEPT !.node = graph.entry,
                                         !.messages = AppendMessage(<<>>, <<"user", 1>>)]
           ELSE state
  IN /\ pc = "queue" /\ turns < MaxTurns
     /\ turns' = turns + 1
     /\ talk' = t /\ state' = s
     /\ owes' = IF fresh THEN FALSE ELSE owes
     /\ IF s.node \in DOMAIN graph.nodes
        THEN /\ pc' = "llm"
             /\ tx' = [talk |-> t, state |-> s, owes |-> owes']
             /\ UNCHANGED <<graph, pinned>>
        ELSE /\ pc' = "idle" /\ graph' = NoGraph /\ pinned' = 0
             /\ UNCHANGED tx
     /\ UNCHANGED <<row, decision, verdict, unchecked, faults>>

-----------------------------------------------------------------------------
(* The end of a turn *)

Clear ==
  /\ decision' = NoDecision /\ verdict' = "ok"
  /\ tx' = [talk |-> NoTalk, state |-> NoState, owes |-> FALSE]

\* The transaction commits and the drain goes on.
Commit(t) ==
  /\ talk' = t /\ state' = tx.state /\ owes' = tx.owes
  /\ pc' = "queue"
  /\ Clear
  /\ UNCHANGED <<graph, pinned, faults>>

\* An exception leaves run_turn: the transaction rolls back, the drain ends.
Rollback ==
  /\ faults < MaxFaults /\ faults' = faults + 1
  /\ pc' = "idle" /\ graph' = NoGraph /\ pinned' = 0
  /\ Clear
  /\ UNCHANGED <<talk, state, owes>>

ModelFails ==
  /\ pc \in {"llm", "correct", "reroute"}
  /\ Rollback
  /\ UNCHANGED <<row, unchecked, turns>>

Review(t, reason) == [t EXCEPT !.status = "requires_review", !.reason = reason]

-----------------------------------------------------------------------------
(* Guardrails *)

\* validate_response_text: what an answer mentions (a price, or the word that
\* speaks of products in a text that names none that is listed) must be allowed.
ValidateResponseText(d) == d.mentions \subseteq Whitelisted

\* The main call.
Ask ==
  /\ pc = "llm"
  /\ \E d \in Decision :
       /\ decision' = d
       /\ pc' = IF ValidateResponseText(d) THEN "route" ELSE "correct"
  /\ UNCHANGED <<row, talk, state, graph, pinned, verdict, tx, history, turns, faults>>

\* run_guardrails_retry: one more call, with the reason of the rejection.  A
\* second violation escalates; the tenant's fallback text is sent inside the
\* transaction, and may fail.
RunGuardrailsRetry ==
  /\ pc = "correct"
  /\ \E d \in Decision :
       \/ /\ ValidateResponseText(d)
          /\ decision' = d /\ pc' = "route"
          /\ UNCHANGED <<talk, state, owes, verdict, tx, graph, pinned, faults>>
       \/ /\ ~ValidateResponseText(d)
          /\ Commit(Review(tx.talk, "validator_exhausted")) \/ Rollback
  /\ UNCHANGED <<row, unchecked, turns>>

-----------------------------------------------------------------------------
(* Routing *)

Merged(d) == (tx.state.filled \ d.clears) \cup d.fills

Verdict(d) ==
  TransitionVerdict(graph, tx.state.node, d.next, Merged(d), tx.state.treatment)

Route ==
  /\ pc = "route"
  /\ verdict' = Verdict(decision)
  /\ pc' = IF verdict' = "ok" THEN "apply" ELSE "reroute"
  /\ UNCHANGED <<row, talk, state, graph, pinned, decision, tx, history, turns, faults>>

\* Mutant: the retry's target with the first decision's fields.
MixTransitionRetry ==
  /\ pc = "reroute"
  /\ \E d \in Decision :
       IF Verdict(d) = "ok"
       THEN decision' = [decision EXCEPT !.next = d.next] /\ verdict' = "ok"
       ELSE UNCHANGED <<decision, verdict>>
  /\ pc' = "apply"
  /\ UNCHANGED <<row, talk, state, graph, pinned, tx, history, turns, faults>>

\* run_transition_retry: the retry's decision replaces the first one when its
\* transition is valid; else the first one is applied without a transition.
RunTransitionRetry ==
  /\ pc = "reroute"
  /\ \E d \in Decision :
       IF Verdict(d) = "ok" THEN decision' = d /\ verdict' = "ok"
       ELSE UNCHANGED <<decision, verdict>>
  /\ pc' = "apply"
  /\ UNCHANGED <<row, talk, state, graph, pinned, tx, history, turns, faults>>

Target(d) == IF verdict = "ok" /\ d.next # Nil THEN d.next ELSE tx.state.node

-----------------------------------------------------------------------------
(* Post-processing *)

\* apply_contradiction_heuristic: an acceptance whose text hedges is a deferral.
Corrected(d) ==
  IF d.treatment = "resolved_accepted" /\ d.hedges
  THEN [d EXCEPT !.treatment = "resolved_deferred"] ELSE d

\* Mutant: escalates one off-topic message late.
OfftopicReasonLate(count) == IF count > Threshold THEN "off_topic_exhausted" ELSE Nil

\* handle_offtopic, for the count that includes the message at hand.
OfftopicReason(count) == IF count >= Threshold THEN "off_topic_exhausted" ELSE Nil

FirstOf(a, b) == IF a # Nil THEN a ELSE b

\* Steps 3 to 7 of apply_decision: what the decision leaves in the state.
AppliedState(s, d, delta, next) ==
  [s EXCEPT !.filled = (@ \ d.clears) \cup d.fills,
            !.treatment = delta.treatment,
            !.handled = IF delta.entry = Nil THEN @ ELSE Append(@, delta.entry),
            !.node = Target(d),
            !.messages = AppendMessage(@, <<"assistant", next>>)]

\* The treatment that follows was declared to end in an escalation.
Owes(delta, d) ==
  CASE delta.treatment = Nil -> FALSE
    [] delta.treatment # Nil /\ delta.treatment.turn = 1 ->
         FindObjection(d.detected, graph, tx.state.node).onMax = "escalate_to_human"
    [] OTHER -> tx.owes

\* apply_decision.  A completion rule that fires closes the Talk, and neither
\* the counter nor the reasons for a review are looked at.
ApplyDecision ==
  LET d == Corrected(decision)
      delta == ObjectionDelta(tx.state.treatment, d, graph, tx.state.node)
      s == AppliedState(tx.state, d, delta, tx.talk.turns + 1)
      t == [tx.talk EXCEPT !.turns = @ + 1]
      count == s.offTopic + IF d.offTopic THEN 1 ELSE 0
      offTopic == IF d.offTopic THEN OfftopicReason(count) ELSE Nil
      asked == IF d.escalate THEN "escalation_requested" ELSE Nil
      reason == FirstOf(FirstOf(delta.review, asked), offTopic)
  IN /\ pc = "apply" /\ pc' = "send"
     /\ tx' = [talk |-> IF Completes(graph, s.filled)
                        THEN [t EXCEPT !.status = "closed", !.closedAt = TRUE]
                        ELSE IF reason # Nil /\ t.status # "requires_review"
                             THEN Review(t, reason) ELSE t,
               state |-> IF Completes(graph, s.filled) THEN s ELSE [s EXCEPT !.offTopic = count],
               owes |-> Owes(delta, d)]
     /\ UNCHANGED <<row, talk, state, graph, pinned, decision, verdict, history, turns, faults>>

-----------------------------------------------------------------------------
(* Sending *)

\* decide_modality; without a voice block the reply is a text.
DecideModality(cfg, format, media) ==
  IF \/ cfg.mode = "always"
     \/ cfg.mode = "match_lead" /\ media = "audio"
     \/ cfg.mode = "context_driven" /\ format \in {"voice", "both"}
  THEN "voice" ELSE "text"

\* render_and_send and record_outbound_audit.  The voice block is the one the
\* job read, the format the decision's, the medium the message's.  A voice
\* that fails is sent as a text if the tenant says so; else the Talk goes to a
\* review and the fallback text is sent, whatever apply_decision made of it.
\* A text has one or more chunks and any of them may fail.
Send ==
  /\ pc = "send"
  /\ \E cfg \in Voice, format \in {"text", "voice", "both"}, media \in {"text", "audio"} :
       \/ /\ Commit(tx.talk)
          /\ unchecked' = (unchecked \/ ~ValidateResponseText(decision))
       \/ /\ DecideModality(cfg, format, media) = "voice" /\ ~cfg.fallback
          /\ Commit(Review(tx.talk, "voice_synthesis_failed"))
          /\ UNCHANGED unchecked
       \/ Rollback /\ UNCHANGED unchecked
  /\ UNCHANGED <<row, turns>>

-----------------------------------------------------------------------------
Init ==
  /\ versions \in [{1} -> Document] /\ rewritten = FALSE
  /\ talk = NoTalk /\ state = NoState
  /\ pc = "idle" /\ graph = NoGraph /\ pinned = 0
  /\ decision = NoDecision /\ verdict = "ok"
  /\ tx = [talk |-> NoTalk, state |-> NoState, owes |-> FALSE]
  /\ owes = FALSE /\ unchecked = FALSE
  /\ turns = 0 /\ faults = 0

Next ==
  \/ Publish \/ Reseed \/ ScanCloses
  \/ StartDrain \/ EndDrain \/ Preprocess \/ ModelFails
  \/ Ask \/ RunGuardrailsRetry \/ Route \/ RunTransitionRetry
  \/ ApplyDecision \/ Send

Spec == Init /\ [][Next]_vars

-----------------------------------------------------------------------------
(* Properties *)

Treatments == [id : Objection, turn : 1..10, max : 1..10]

TalkOK(t) ==
  /\ t.status \in {"none", "active", "requires_review", "closed"}
  /\ t.version \in 0..Len(versions) /\ t.turns \in Nat /\ t.closedAt \in BOOLEAN
  /\ t.status = "none" <=> t.version = 0

StateOK(s) ==
  /\ s.node \in Node \cup {Nil} /\ s.filled \subseteq Field
  /\ s.treatment \in Treatments \cup {Nil}
  /\ s.handled \in Seq(Resolutions)
  /\ s.offTopic \in Nat
  /\ Len(s.messages) <= MaxWindow

\* The messages kept are the last ones: the window ends with the turn the Talk
\* counts, and no turn between two kept ones is missing.
WindowIsRecent ==
  LET m == state.messages IN
  talk.turns > 0 =>
    /\ m # <<>> /\ m[Len(m)] = <<"assistant", talk.turns>>
    /\ \A i \in 1..(Len(m) - 1) : m[i + 1][2] = m[i][2] + IF m[i][1] = "user" THEN 0 ELSE 1

\* Types, the limit of the window and what it holds.
TypeOK ==
  /\ versions \in Seq(Document) /\ rewritten \in BOOLEAN
  /\ TalkOK(talk) /\ TalkOK(tx.talk) /\ StateOK(state) /\ StateOK(tx.state)
  /\ pc \in {"idle", "queue", "llm", "correct", "route", "reroute", "apply", "send"}
  /\ graph \in Document \cup {NoGraph} /\ pinned \in 0..Len(versions)
  /\ decision \in Decision \cup {NoDecision}
  /\ {owes, unchecked, tx.owes} \subseteq BOOLEAN
  /\ turns \in Nat /\ faults \in Nat
  /\ WindowIsRecent

\* As long as published rows keep their content, a Talk stands in a node of the
\* TreeFlow its turns run with, whatever was published since and whatever the
\* model suggested: run_turn's treeflow.nodes[state.current_node] never raises.
NodeInGraph ==
  ~rewritten /\ pc # "idle" /\ talk.status \in OpenStatus => state.node \in DOMAIN graph.nodes

\* An off-topic message that takes the counter to the threshold, or beyond it,
\* never leaves the Talk to the machine alone (offtopic.py).
OffTopicEscalates ==
  [][state'.offTopic > state.offTopic /\ state'.offTopic >= Threshold
       => talk'.status # "active"]_vars

\* A Talk leaves a node only by a transition that node declares, with what the
\* same turn leaves collected satisfying its exit, and never while a treatment
\* was in progress, whichever of the model's two answers was applied.
MovesWhenSatisfied ==
  [][LET from == state.node IN
     talk.status \in OpenStatus /\ state'.node # from
       => /\ state'.node \in DOMAIN graph.nodes[from].next
          /\ ExitSatisfied(graph.nodes[from], state'.filled)
          /\ state.treatment = Nil]_vars

\* objection_runtime.py's states: a treatment starts at turn 1, goes on one turn
\* at a time, and leaves exactly one entry in the history (TreatmentPromise).
Promise == INSTANCE TreatmentPromise WITH
  open <- talk.status \in OpenStatus, active <- state.treatment, handled <- state.handled, MaxTreatmentTurns <- 10
KeepsPromise == Promise!Spec

\* "if action=escalate_to_human: Talk.status=requires_review": a treatment whose
\* objection was declared so when it was entered puts the Talk in front of a
\* human when it is exhausted, unless the same turn closes the Talk.
ExhaustionEscalates ==
  [][LET closed == state'.handled[Len(state'.handled)] IN
     owes /\ Len(state'.handled) > Len(state.handled) /\ closed.resolution = "exhausted"
       => talk'.status # "active"]_vars

\* "Return a TurnDecision that has passed guardrails": no text that they reject
\* is sent to the lead.
SentIsValidated == ~unchecked

\* "when a rule fires, the Talk closes and the review chain is SKIPPED": only a
\* closed Talk has a closed_at.
ClosedAtMeansClosed == talk.closedAt => talk.status = "closed"
=============================================================================
