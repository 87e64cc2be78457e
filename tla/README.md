# TLA+ models of PeSDR

PeSDR is a multi-tenant sales agent on WhatsApp: a FastAPI process receives
messages and serves the operators' console, arq workers run the conversation
engine, Postgres holds the state, Redis the job queue and the live events. This
directory models the parts whose correctness depends on how those processes
interleave and fail, and on the order in which one turn does its steps. Paths
below are relative to `src/ai_sdr/`; `frontend/` is the repository's.

## Inventory

| Part | State | Operations | Interacts with | What is hard | What makes it correct |
|---|---|---|---|---|---|
| Webhook ingest (`messaging/ingest.py`, `api/routes/webhooks.py`) and assignment (`api/routes/leads.py`) | `inbound_messages`, `leads.status` | ingest with dedup, commit, enqueue; assign | enqueues `process_lead_inbox` | crash between commit and enqueue, redelivery | a stored message is served |
| Inbound worker (`worker/jobs/inbound.py`) | rows' status, text, detail; the drain's local variables | lock, drain, burst, audio, settle, errors, unlock | calls `run_turn`; shares the engine's pool with every other job | two jobs of one lead, locks that belong to pooled connections, rollbacks, crash | a message waits until the burst that took it is settled; what is folded was read |
| Locks and pool (`db/`) | advisory locks, connections | try-lock, unlock, transaction lock, commit's release | used by all of the above | session-level lock against connection reuse | turns exclude one another, no wait for ever |
| Turn pipeline (`flowengine/pipeline.py`, `preprocessing.py`, `post_processing.py`) | `talks`, `talkflow_states` | resolve Talk, lock, gate, decide, send, audit, commit | LLM, adapter, action dispatcher | a commit in the middle, a send inside the transaction, columns read before others wrote them | the AI speaks only where it may; one open Talk |
| Scan job (`worker/jobs/scan_talks.py`), completion rules (`close_lifecycle.py`) | `talks.status` | phase A reads, phase B locks and closes | the turn, the console | candidates older than the close | closes what is silent, and nothing else |
| Operators' console (`api/routes/console_inbox.py`) | `talks.handling_mode`, `outbound_messages` | takeover, release, send | the lead's lock, the adapter | read, wait, then write; repeated requests | a human's Talk stays the human's; one delivery per client message |
| Actions (`flowengine/actions/`, `worker/jobs/execute_action.py`) | `action_executions`, arq jobs | dispatch, mark, call, mark again | the turn's transaction, arq | enqueue before commit, retries, crash around the call | one effect per collected value |
| TreeFlows (`flowengine/treeflow_loader.py`) and decision (`objection_runtime.py`, `offtopic.py`, `correction.py`, `routing.py`, `post_processing.py`) | `treeflow_versions`; node, collected fields, treatment, counters, window of messages | load, publish, rewrite; corrective retries, state machine of objections, routing, escalation, completion | called by the pipeline; versions by scripts | boundaries of attempts, order of the retries, a version that changes under an open Talk | escalates exactly at the limit, never leaves the graph |
| Follow-ups (`follow_up/`, `worker/jobs/follow_up_scanner.py`, `cli/follow_ups.py`) | `follow_up_jobs`, `talkflows.status` | schedule, cancel, fire, mark cold, unlock | the lead's lock, the v1 inbox, the adapter | a batch read without a lock, a send before its commit, several chains | no template twice, cold only when earned |
| WhatsApp adapter (`messaging/whatsapp_cloud.py`, `errors.py`) | none | send text, send template, classify, retry | Meta | answers that are lost or doubtful | a result the caller can act on |
| v1 engine (`treeflow/`, `guardrails/`) | the thread's checkpoint, `talkflows` | compile, classify, answer, guardrails, route, checkpoint | LangGraph, models, the v1 inbox | a turn that dies between two checkpoints, objections within objections | the conversation is what was said, a refused draft never leaves |
| Realtime (`realtime/`, `api/routes/ws_inbox.py`) | a counter per instance, connections' queues | number, publish, fan out, drop | Redis, the browser | order of two producers, slow clients, a reader that ends | what reaches the page is acted on |
| Console reads (`repositories/inbox_repository.py`) and the page (`frontend/src/hooks/`) | cached queries, an optimistic bubble, the socket | list by tab (two reads), detail, thread; refetch, compose, roll back | realtime, the console's routes | a fetch, an event and a rollback in any order | what was announced is shown |
| Knowledge base (`kb/`, `cli/reindex_kb.py`) | `kb_documents`, `kb_chunks`, files | list, compare, replace, prune; retrieve | turns, other runs, people who edit files | overlapping runs, rollbacks, prune | a reader finds whole documents |
| Prompts, models, voice and storage, tenants, secrets, web login, simulator, scripts, the rest of the frontend | | | | | not modelled, see the end |

## Modules

| Module | Models | Notes |
|---|---|---|
| `LeadInbox` | ingest, assignment, the arq job and its drain loop, both locks, the pool | one lead, architecture version 2 |
| `InboxPromise` | the abstract inbound path: queue, burst, reply, settle | `LeadInbox!KeepsPromise` maps onto it |
| `TalkHandling` | `run_turn`'s effect on a Talk, takeover/release/send, the scan job | one lead |
| `ActionExecution` | dispatch inside the turn, `execute_action`, arq's tries | one Talk |
| `TreeFlow` | what the v2 loader accepts; routing, objections and completion as operators | no state |
| `TurnDecision` | what `run_turn` makes of the model's answers, over the versions operators publish | EXTENDS `TreeFlow` |
| `TreatmentPromise` | the abstract life of an objection's treatment | `TurnDecision!KeepsPromise` maps onto it |
| `WhatsAppCloud` | what one call of the adapter comes to | no state |
| `FollowUps` | the v1 inbox of one lead, the scanner's runs, the operator's cancel | EXTENDS `WhatsAppCloud` |
| `TreeflowEngine` | the v1 schema, compiled graph, guardrails and turn | one thread |
| `InboxRepository` | the console's queries as functions of a lead's rows | no state |
| `LiveInbox` | committed changes, events, hub, one connection, the page | EXTENDS `InboxRepository` |
| `KbIndex` | runs of the indexer as transactions, files, readers | one tenant |
| `MC...` | instances for TLC | constants only |
| `..._proofs` | theorems, checked by TLAPS | |

### LeadInbox

A message is the rank of its `received_at`; the text of a row is the set of
messages whose words it carries, so a consolidated head carries its whole burst.
Every suspension point of the coroutine that can matter (a wait for a lock, the
model, the send, a commit) separates two actions; `pc` names the next one:

| `pc` | next action | code |
|---|---|---|
| `lock` | `TryLock` | `inbound.py:548-555` |
| `load` | `LoadLead`, `SkipQueued` | `557-593`, `219-358` |
| `fetch` | `FetchNext` | `65-76`, `375-378` |
| `window` | `LockWindow` | `79-130`, `380-408` |
| `turn` | `RejectAudio`, `Preprocess`, `Fail` | `410-428`, `pipeline.py:104-136` |
| `await` | `AcquireTurnLock`, `Timeout` | `db/advisory_lock.py:30-41` |
| `llm` | `Decide`, `Fail` | `pipeline.py:142-265` |
| `send` | `SendReply`, `SendFails` | `pipeline.py:282-325` |
| `commit` | `CommitTurn` | `pipeline.py:327-353` |
| `settle` | `Settle` | `inbound.py:470-493` |
| `handle` | `HandleError` | `inbound.py:446-468` |
| `unlock`, `close` | `Unlock`, `CloseSession` | `inbound.py:841-852` |

The pool is explicit because it decides who holds the locks. A SQLAlchemy session
returns its connection at every commit or rollback and takes the pool's oldest
idle one at its next statement (`Recycle`); a session-level advisory lock stays
with the connection. `Recycle` is one step: no await of the code stands between a
commit and the session's next statement, and a rollback is followed by the
statement that unlocks.

One process may run any number of the lead's jobs, other leads' jobs and the crons on
one pool, as `worker/main.py:74-93` does: `WorkerOf` says who runs where and no
theorem restricts it. The second job of the lead may then be given the
connection that holds the first one's lock, the unlock may go to a connection that
does not hold it, and both are in the model.

`AfterRollback` holds the places where a job may go on after the rollback of a
failed send. SQLAlchemy's rollback expires the session's objects, so the handlers
of `inbound.py:446-468` fail before their commit: `unlock`. `handle` is what the
code means to do. The passing run has both. A banned lead
(`pipeline.py:121-123`) takes the path of an opt-out.

`InboxPromise` gives each job a burst of its own; bursts of two jobs may have rows
in common, and the head of one may have been settled by the other since it was
fetched. It promises what is left: a stored message leaves the queue only when a
burst that has it is settled or when the queue is skipped, and never returns.

### TalkHandling

A turn keeps in `seen` the status it read under the lock, and in `write` and
`touch` the columns its session will flush: SQLAlchemy writes only what the
session changed, so a Talk the scan job closed under a running turn keeps its
close unless the turn itself writes the status. `pinned` is the share lock that
the foreign key of a dispatched action takes on the Talk's row; it makes phase B
of the scan skip the row. `handsOn` records the last takeover or release that was
granted. The three completion statuses are one (`closed_completed`).

The console's read of the Talk and its check-and-set are two actions, so anything
may happen between them. `Release` and send take no lock, as in the code. Takeover
waits here for the turn's lock only; the worker's session-level lock has the same key
and makes the real one wait for the whole drain, so the model has every order the
program has, and more.

### ActionExecution

Rows of a turn are in `tx` until `CommitTurn`; jobs are in Redis at once. A job is
run again after a crash, at most `MaxTries` times (`worker/main.py:91`), and not
after an exception: `arq` 0.28 re-runs on `Retry`, `RetryJob` and cancellation.
A template that does not render and a duplicate both skip the entry.

### TreeFlow, TurnDecision and TreatmentPromise

Collected data are the set of fields that hold a value. An expression is the set
of alternatives under which it holds, each a set of fields: what an expression
can tell apart, and no more. `Accepted` is the loader: one conjunct per check that
raises `TreeflowLoadError`. `TransitionVerdict`, `ObjectionDelta` and `Completes`
are `validate_transition`, `objection_runtime.apply` and the completion rules.

A model's answer is any member of `Decision`; `pc` walks the turn:

| `pc` | next action | code |
|---|---|---|
| `idle` | `StartDrain` | `inbound.py:205-358` |
| `queue` | `Preprocess`, `EndDrain` | `preprocessing.py:80-123`, `inbound.py:375-378` |
| `llm` | `Ask`, `ModelFails` | `pipeline.py:164-198` |
| `correct` | `RunGuardrailsRetry` | `correction.py:37-78`, `pipeline.py:199-233` |
| `route` | `Route` | `pipeline.py:234-249`, `routing.py` |
| `reroute` | `RunTransitionRetry` | `correction.py:81-119`, `pipeline.py:250-265` |
| `apply` | `ApplyDecision` | `post_processing.py:82-234` |
| `send` | `Send` | `pipeline.py:282-353`, `voice/renderer.py` |

`ApplyDecision` is one action because nothing in it awaits anything but the
session. What the turn leaves is in `tx` until it commits; `Rollback` drops it.
`Publish`, `Reseed` and `ScanCloses` happen between turns: a drain has loaded its
TreeFlow by then. A reseed rewrites a published row, as `scripts/seed_avelum_v2.py`
does, and is there to show what `NodeInGraph` depends on.

### WhatsAppCloud and FollowUps

`Outcomes` is computed from the adapter's rules: up to three requests, each with
one of Meta's answers, retried while the error is transient. A request that got no
answer or a 5xx may have been carried out; `doubt` marks the calls whose caller
takes for unsent, or sent once, what the lead may have. Every instance's `SendResult` is a
subset of `Outcomes`, which an assumption checks.

The inbox job's transaction is `tx`; what it has not committed (the cancelled
follow-ups, the talkflow) is seen by nobody else. A job of the scanner is sent with
the lead's lock held and recorded after it (`TemplateSent`), as in the code.

`lock` says where the connection is that has the lead's advisory lock: with a job's
session, idle in the pool, or nowhere (`free`); `holds` counts how often it has
taken the lock. The pool is not listed as in `LeadInbox`: a commit may leave the
job with that connection or with another (`Recycle`), an unlock may reach it or miss
it (`Unlock`, `follow_up_scanner.py:263-268`), and who tries the lock may be
handed it. So the lock leaks whenever the pool makes it leak. One inbox job of the
lead drains at a time. A
`drain` number on each job (history) says which answer of the lead started its
chain.

### TreeflowEngine

The checkpoint is written after each step of the graph, on a connection of its
own: `ckpt` changes at once and a turn that raises leaves it. `Route` is the
compiled `_route`, with the sentinels of the schema; an expression that raises is
`Broken`. A model's
`Draft` says whether what it claims to mention is listed, whether the critic likes
its text, and which fields it fills; `Refused` computes the verdict from it, the
tenant's guardrails and the node, and `Results` are the answers that
end the loop of `runner.py`: a draft that passes, or the fallback text, which nobody
validates, when the retries are used up. The checkpoint keeps the words' origin
(`response`), so that what is sent can be compared with the drafts. The step after
the recursion limit raises, as LangGraph does (`GoOn`). The history
variable `home` remembers where the lead was when an objection's node took over.

### InboxRepository and LiveInbox

What a turn, a route or the scan does to a Talk is one commit here. `ListContacts` takes two
arguments: the lead's Talks when the SQL filter ran and when the Talk of each row was read
by its id (`inbox_repository.py:367`, `388`, two statements); `past` (history) keeps what the first
may have been. A task that
has committed takes a number (`Incr`) and publishes (`Publish`), two commands that
another task may separate. The hub hands an event to a connection's queue or, if the
queue is full, forgets the connection, whose socket stays open. Its reader may end on an
exception (`ReaderCrashes`, `hub.py:106-109`): connections stay registered and get nothing
more. The page keeps one query, the messages of the open conversation, with the retry and
the invalidation of its library: a fetch under way is cancelled and made anew, except
the conversation's first one, which an invalidation joins (`Joins`: TanStack Query cancels only when
there are data). A send shows a bubble, cancels the fetch under way, and rolls back if it fails.

### KbIndex

A run lists the files once and works through them in the order of `sorted`. What it
has written is in its record until it commits; a row it has written, or the key
of a row it has inserted, is locked for the others, and a statement that needs the
lock waits. Each SELECT reads what is committed at that moment. A text is named by
its number of chunks, so that two versions differ in digest and in chunks.
`fresh` (history) holds the runs under which nothing else has changed.

## Runs

| Run | Instance | Checks | Result |
|---|---|---|---|
| `inbox_shared` | 2 messages (one audio, one an opt-out), window 1, one process with two jobs of the lead and a job of another on 2 connections, 1 fault of 6 kinds; 363k states | `TurnMutex`, `FoldedWasRead`, `KeepsPromise`, `JobsEnd` | hold |
| `talk_races` | 2 Talks, 1 drain, 2 requests that may overlap, clock to 2; 5.0M states | `OneOpenTalk`, `AiSpeaksInItsOwnTalk`, `HeldStaysOpen`, `DeliveriesRecorded` | hold |
| `talk_silence` | 2 Talks, 1 request, 1 fault; 191k states | `SilentTalkEnds` | hold |
| `action_dedup` | 3 entries on 2 fields, 2 turns, 2 coroutines, 3 faults; 471k states | `EffectOnce`, `EffectOfCommittedTurn`, `ExecutingEnds` | hold |
| `decision_turns` | 4 documents (one dangling, one that completes), 13 decisions, 3 turns, 2 versions, 1 rewrite, 1 failure, threshold 2, window 3; 814k states | `NodeInGraph`, `OffTopicEscalates`, `MovesWhenSatisfied`, `KeepsPromise` | hold |
| `follow_ups` | 2 overlapping runs of the scanner, 2 messages, 4 jobs, clock to 2, 4 configurations, a lock that may be held twice by one connection, 1 fault; 849k states | `TemplateOnce`, `ColdIsEarned`, `StaleChainsDie`, `EveryDueJobEnds` | hold |
| `engine_turns` | 3 TreeFlows (one that raises), 3 guardrail settings, 3 messages, 3 steps of the graph, 1 failure; 113k states | `HistoryIsFaithful`, `AnswersAllowed`, `OnlyNodesMove`, `TurnEnds` | hold |
| `console_view` | 1 contact, 2 tasks that publish, a queue of 1, 2 messages, 1 lost connection, 1 fault; 1.5M states | `TabsMatchBadges`, `EventIsShown`, `BubbleSettles` | hold |
| `kb_reindex` | 2 documents of 2 KBs, 3 texts and a file that is not UTF-8, 2 runs, 1 edit, 1 fault; 799k states | `ReadsAreWhole`, `SortedRunsPass`, `FreshRunSettles` | hold |
| `inbox_serial` | 2 messages, one process with two jobs of the lead and a job of another, no fault | `SerialDrain` | violated |
| `inbox_lost_wakeup` | 2 messages, no fault | `MessagesServed` | violated |
| `action_lost` | 1 entry, no fault | `PendingExecutes` | violated |

The type invariant of each module is checked in its first passing run, with what belongs
to the shape of its state: the window of messages (`WindowIsRecent`) in
`TurnDecision`, the position in the graph (`StartsInGraph`) in `TreeflowEngine`;
that of `KbIndex` is proved instead.

### What the three violations show

* **The queue of one lead is drained by two jobs at once.** The session-level lock stays
  on the connection that the first job's commit gave back; the second job is handed that
  connection and is granted the lock again. `inbound.py:3-5` says the lead's queue is processed
  serially. Both may answer the same rows; turns still exclude one another, and
  `KeepsPromise` and `FoldedWasRead` hold.
* **A message can be left in the queue.** The holder of the lock reads an empty
  queue and is about to unlock; a message arrives, its job finds the lock taken and
  returns. `inbound.py:5-8` says the first job's loop will see it.
* **An action may never run**: its job was started before the row was committed.

PROJECT.json's findings quote the lines.

## Refuted formulas

These say what a comment, a docstring or a design document of the repository says,
and the models refute them. They are kept in their modules; those with a `.cfg` can
be run with it.

| Formula | Source of the claim | What the code does | cfg |
|---|---|---|---|
| `LeadInbox!UnreachableRecorded` | `inbound.py:11`, the lead is marked | the handler reads an attribute that the rollback has expired, before its commit | `LeadInbox_unreachable.cfg` |
| `TalkHandling!ClosedWhileSilent` | `scan_talks.py:88-90`, the row is checked again | status and mode are, `last_message_at` is not | `Talk_scan_stale.cfg` |
| `TalkHandling!HandsOff` | `console_inbox.py:382-383`, no AI message after the flip | a takeover that waited for a closing turn is granted on the closed Talk; the next message opens another | `Talk_hands_off.cfg` |
| `ActionExecution!FailureRetried` | `execute_action.py:7-11`, arq retries | arq 0.28 does not re-run after an exception | `Action_retry.cfg` |
| `TurnDecision!ExhaustionEscalates` | the objection runtime's design (`docs/superpowers/specs/2026-06-09-fe03a-objection-runtime-design.md:131-136`) | `objection_runtime.py:171-183` looks the objection up in the node at hand; one that only another node declares ends without a review | `Decision_exhaustion.cfg` |
| `TurnDecision!SentIsValidated` | `correction.py:47`, a decision has passed the guardrails | true of the guardrails' own retry; the decision of a transition retry, which may replace it, is not validated again (`pipeline.py:250`) | |
| `TurnDecision!ClosedAtMeansClosed` | `post_processing.py:178-179`, a rule that fires closes the Talk and skips the review | a voice that fails afterwards writes `requires_review` over the close | |
| `FollowUps!TerminalRows` | `models/follow_up_job.py:5`, fired or cancelled rows are terminal | the operator's cancel takes no lock and `follow_up_scanner.py:240` then writes `completed` over it | `FollowUps_terminal.cfg` |
| `FollowUps!OneAtATime` | `follow_up_job.py:7`, one at a time | each message of a drain schedules its own chain | |
| `FollowUps!AnswerStopsTemplates` | `docs/superpowers/specs/2026-05-27-followup-and-hsm-design.md:106`, an answer between scheduling and scan stops it | a message that is ingested and not yet served is not seen by it | |
| `FollowUps!DueEndsAnyway` | `worker/jobs/follow_up_scanner.py:3-4`, all due jobs are dispatched | the commit of line 263 gives the locked connection to the pool, the unlock may run on another one, and later scans find the lock taken | |
| `LiveInbox!EachEventIsOffered` | `realtime/hub.py:4-5`, each event goes to every registered connection | a reader that crashed leaves them registered (`hub.py:106-109`) | |
| `LiveInbox!NewsIsShown` | `useInboxSocket.ts:14-31`, an event makes the conversation stale | during its first fetch the invalidation joins that fetch, whose answer may be older than the event | |
| `LiveInbox!BadgeIsTab` | `inbox_repository.py:316-317`, the filter translates `derive_state` | the filter and the badge are two reads; a Talk that changes in between shows its new state under the old tab | |
| `LiveInbox!NewsIsTaken` | `docs/superpowers/plans/2026-06-28-chat-frontend-3c-realtime-client.md:18`, the number only deduplicates | INCR and PUBLISH of two tasks interleave (`realtime/events.py:22`), and `useInboxSocket.ts:66-69` drops what comes late | `Live_news.cfg` |
| `LiveInbox!HeldIsAnswerable` | `docs/superpowers/plans/2026-06-26-chat-backend-hitl.md:5`, who takes over can write | the detail of a Talk that waits for a review never says `human`, and the composer stays closed | |
| `TreeflowEngine!ReturnsHome` | the specification of objections' nodes (2026-05-24, plan 4a, line 14): back to the original node | with an objection inside an objection the origin is overwritten; without an origin it is the entry node (`compiler.py:461-467`) | |
| `TreeflowEngine!OriginIsShort`, `RepliesAreNew`, `MessagesOnce` | the same, on leaks between turns | a turn that dies leaves the origin set, its message in the history or its answer for the next one | |

The three runs that TLC keeps as findings are a promise of a docstring that fails without any
fault, and two losses that are silent and for ever; the others gave way to passing runs.

## Bounds, and why they are enough

* Messages: 2 within one window give a burst, a head on its own, and a head that another
  job settles while it is being fetched; one is audio and one an opt-out, so a text
  follows a head without text.
* Processes and coroutines: every property speaks of two jobs of one lead, in one process;
  the third party of its pool is one guest, which suffices to move a connection from one
  job to the other. `inbox_shared` has 2 connections for the 3 coroutines, so a coroutine
  may also wait for a connection (the shipped pool has 15; the time limit of 30 s on that
  wait is not modelled); `inbox_serial` has 3.
* Talks: 2, the one that is closed and the one that follows. `MaxTurns` 3 lets a
  turn close, a second reopen or follow and a third answer. The clock reaches 2
  so that both limits (0 and 1) are passed in either order.
* Actions: 3 entries give a shared and an unshared field; 2 turns give the repeated
  value; 3 faults exhaust `MAX_ATTEMPTS`.
* Decisions: the limits of the two objections are 1 and 2, so both boundaries of a
  treatment are met; 3 turns give a treatment, its exhaustion and a swap. The
  off-topic threshold is 2 instead of 3 and the window 3 instead of 15, so that both
  are passed within 3 turns. Two versions give an open Talk of an older one.
* Follow-ups: a sequence of 2 attempts has a middle and a last one; 2 messages give an
  answer and a second chain; 4 rows hold two chains. Two overlapping runs are as many
  as any property names. A connection takes the lock at most twice (`MaxHolds`), which is a lock
  that leaked and is taken and given back once more. A fault is a crash, an exception or a doubtful answer.
* The v1 graph: 3 nodes, one of them an objection's, with an objection in the
  objection's own node; the limit of 3 steps (25 in LangGraph) is passed by it. 3
  messages give a turn that dies, the one that follows and one after it.
* The page: one contact, since events of another leave the open conversation alone; a
  queue of 1 overflows at the second event. With one fault two fetches in a row do
  not both fail, so the `error` phase, the exception that `EventIsShown` and
  `BubbleSettles` make, is not reached: here they hold without it.
* The index: 2 documents are enough for two runs to wait for each other in a circle;
  a text without chunks, one with one and one with two tell a missing chunk from a
  foreign one. What is checked for two documents and two runs is proved for any
  number.
* `MaxFaults` bounds injected faults; properties that need fault-free behaviour say
  `faults = 0` and the runs also explore what faults do to the others.
* Deadlock is checked where the system does not stop; the instances whose last
  turn, message or chain ends the work say `CHECK_DEADLOCK FALSE`. Symmetry is used
  over console requests, in a run that checks invariants and step properties only.

## Fairness

Weak fairness of each coroutine's own steps: asyncio runs every ready coroutine,
and awaited services answer or fail. Of `EnqueueJob`: the API goes on after its
commit. Of `StartJob`, and of `Inbox` in `FollowUps`: arq polls Redis. Of the guests' ends: other
jobs finish. Of `ScanStep` and each `Scanner`: the cron entries of `worker/main.py:74-81`.
Of `GraphStep` and `Reply`: the event loop runs the graph it has begun; that a message
starts a turn is not assumed. Of the page's `Link` and `Fetch`: the browser
reconnects (`useInboxSocket.ts`) and its requests end; of `Publisher`, `Serve` and `Settle`: a
coroutine that has committed goes on, and so does a mutation. Nothing is assumed of
the lead, the operators, the clock or the faults. `JobsEnd` rests on arq's `job_timeout`
(`Timeout`), without which a turn can wait for ever for a lock that an idle connection
of its own pool holds. `MessagesServed` and `PendingExecutes` are violated under these
assumptions.

## Assumptions

* An active lead has a TalkFlow and its tenant a published TreeFlow version; the
  early returns for their absence (`inbound.py:573-579`) are not modelled. A version that
  the loader refuses is (`StartDrain`).
* The application's role bypasses row-level security (`db-init/01-create-app-role.sql:28`);
  a lost tenant context then hides no rows.
* The pools are FIFO queues (SQLAlchemy's default) and `pool_pre_ping` replaces no
  connection.
* `OneOpenTalk` is checked and proved with one drain at a time (`OneDrain`), which the inbound lock is meant
  to give and, as `inbox_serial` shows, does not always give; so are the
  properties of `TurnDecision`, `TreeflowEngine` and `FollowUps`. `LeadInbox` assumes nothing of the kind.
* `EveryDueJobEnds` excuses a leaked lock (`Leaked`), which keeps later scans out until its
  connection closes. `DeliveriesRecorded`, `TemplateOnce` and `EffectOnce` speak of executions without
  faults.
* `EventIsShown` leaves out what was announced while the conversation's first answer was already on
  its way (`joined`).
* `NodeInGraph` is stated for tenants whose published rows keep their content. A row that
  is rewritten under an open Talk can end its turns in a `KeyError`.
* Adapters, models and transcribers are external: they answer, refuse or raise.
  LangGraph, Redis, Postgres' locks, the browser's socket and its query library do what
  the code expects of them.

## Proofs

TLAPS proves, for every value of the constants:

| Module | Theorem | Property | Inductive invariant |
|---|---|---|---|
| `LeadInbox` | `Types`, `TurnsExclude` | `TypeOK`, `TurnMutex` | `TurnInv` |
| | `PromiseKept` | `KeepsPromise`: implements `InboxPromise` | `PathInv` |
| | `FoldedTextRead` | `FoldedWasRead` | `TextInv` |
| `TalkHandling` | `TalkTypes`, `AiSpeaksInItsOwn`, `HeldStays` | `TypeOK`, `AiSpeaksInItsOwnTalk`, `HeldStaysOpen` | `HandsInv` |
| | `OneTalkAtATime` (if `OneDrain`) | `OneOpenTalk` | `OpenInv` |
| | `SendsOncePerTalk` | `DeliveriesRecorded` | `SentInv` |
| `ActionExecution` | `ActionTypes`, `EffectsCommitted`, `EffectsOnce` | `TypeOK`, `EffectOfCommittedTurn`, `EffectOnce` | `ActInv` |
| `TurnDecision` | `TypeCorrect`, `NodeStaysInGraph` | `TypeOK`, `NodeInGraph` | `DecisionInv` |
| | `MovesByTheRules`, `OffTopicReachesHumans` | `MovesWhenSatisfied`, `OffTopicEscalates` | `DecisionInv` |
| | `PromiseKept` | `KeepsPromise`: implements `TreatmentPromise` | `DecisionInv` |
| `FollowUps` | `TypeCorrect`, `OncePerJob`, `ColdAfterAll`, `ChainsDie` | `TypeOK`, `TemplateOnce`, `ColdIsEarned`, `StaleChainsDie` | `FollowUpsInv` |
| `TreeflowEngine` | `EngineTypes`, `HistoryFaithful`, `OnlyAllowed`, `NodesMove` | `TypeOK`, `HistoryIsFaithful`, `AnswersAllowed`, `OnlyNodesMove` | `EngineInv` |
| `LiveInbox` | `TypeCorrect`, `BadgesNameTabs` | `TypeOK`, `TabsMatchBadges` | `LiveInv` |
| `KbIndex` | `KbTypes`, `ReadsWhole`, `RunsPass` | `TypeOK`, `ReadsAreWhole`, `SortedRunsPass` | `KbInv` |
| | `FreshRunsSettle` | `FreshRunSettles` | `KbInv`, `FreshInv` |

Every invariant and action property of the passing runs is among them. TLC finds
each inductive invariant true on the instance of the run as well.

**Turns exclude one another.** `TurnMutex` is not inductive: two turns might hold the
lock through one connection. `TurnInv` adds that a job in a turn holds the
transaction-level lock (`TurnHoldsLock`) and that no connection has two holders, or
a holder and a place in a pool, or two places (`Exclusive`). The three pool
operations keep `Exclusive` by a lemma each; the turn that acquires the lock finds
it free or held by its own connection, which no other turn can hold.

**The inbound path keeps its promise, with or without a lock.** No assumption is made on who
shares a process, a pool or a connection, so two jobs may drain at once and locks may
leak. Of `InboxPromise` the abstract burst is what a job with the engine holds, and the reply is what
a job between its send and its settling has sent. `PathInv` adds to the types that the row a job
works on is stored (`HeadStored`) and which results a send may have (`Sends`); rows never leave the
settled states (`JobRows`), so a burst of waiting rows and a head that another job may have
settled is all that `Begin` allows. A rejected audio settles the head alone and a failed send too; a crash
gives up the bursts of all jobs of the process at once (`Abandon`).

**What is folded was read.** `FoldedWasRead` compares a row's mark with what some turn read. `TextInv` says
what the texts are while several jobs write them: a text that waits still has its own words
(`WaitingText`), a job about to read has the words of the texts it took along
(`TurnText`), and one that has read has read them (`TurnRead`). Another job may rewrite the
text of a head in between, but only with its own memory, which has that head's words
(`TextMoves`). Audio companions are left out: nobody transcribes them.

**The AI and the human never hold a Talk at once.** A turn past its gate is the one
that has the lock (`LockInv`), and its Talk is in the AI's hands (`TalkInv`):
takeover needs the lock, and release only gives Talks to the AI. `HeldStays` follows:
the scan job reads the mode again, and the turn that flushes a status owns a Talk
of the AI.

**One open Talk, one delivery.** `OneOpenTalk` is not inductive, because a turn writes at its
commit what it resolved long before. `TurnHasOpen` closes the gap: the one Talk that may be
open while a turn runs is the turn's own, so what it reopens or creates is not a second one. A
second drain would break it between the two reads, hence `OneDrain`. `DeliveriesRecorded` has
requests that overlap: `Counted` bounds the deliveries of a recorded message and the requests that are
about to send by the number of requests, and equates those of an unrecorded one with the requests that are about
to insert. `InTurns` says that where no two requests have overlapped there is at most one between its
read and its insert, and none after the insert.

**Effects.** `Fresh` keeps unused ids clean, `Places` says that a job is in Redis or
with one coroutine, `Seen` that a coroutine past `MarkExecuting` saw its row
committed, `UniqueKeys` that two rows of the table differ in (field, value), and
`NoEffectYet` that without faults a job that has not called yet leaves its row without
an effect. `EffectOnce` follows from the last two.

**A decision moves by the rules, and a node is never lost.** `Resolved` ties the drain to
the version its Talk began with: the loader accepted it, and `Accepted` makes every route
lead to one of its nodes, so the node stays in the graph whatever versions are published;
only a rewritten row breaks this. `Windows` gives the shape of the message window that `TypeOK` asks
for. `Working` says what the steps of a turn have left in its transaction, and which verdict
the corrective retries have reached on the decision at hand; `Decided` says of a turn that is to
be sent that it has moved along an allowed transition, escalates at the threshold and treats
objections as promised. The action properties are read off `Decided` when `Send` commits, since
no other step writes the state except that a new Talk begins empty.
The refinement maps a step to one of `Enter`, `Continue`, `Resolve`, `Exhaust`, `Swap` or
`Begin`; that a treatment never passes its limit is `Limits`.

**Templates.** Who sends a template holds the connection that has the lead's lock until it has
recorded it, and so does a drain until its first commit (`Locked`, `Drains`): a lock that leaks
is idle, or with somebody else, only afterwards, so leaks cost progress and not safety. the status is read
again under the lock, so a job in two batches is completed by one run, and `Recorded` says that
`outbound_messages` has a row exactly for each completed job and that, until something fails,
the lead got no other template. The chain of a job is the drain that scheduled it:
`Chains` says that a pending job belongs to the last drain that answered, so does one that is
being sent, and the attempts before it were sent (`Earned`). A cold talkflow then has
all of them (`Cold`), which is `ColdIsEarned`. That an answer, in its transaction, hides the cancellation
from the scanner does no harm because it holds the lock until it commits.

**The graph of version 1 keeps the conversation.** `RouteInGraph` is what the schema is for:
a route from a node leads to a node or to the end, whichever transition is chosen, and
leaves an origin that is a node (`StartsInGraph`). `HistoryIsFaithful` speaks of a turn that
waits for its reply; `Busy` adds what the earlier steps of a turn know: it has its message
and its job, and a step that answers belongs to a graph that has not ended, at the lead's
own node or with an origin set. A turn that raises before its answer then leaves a
conversation equal to the messages done, and one whose graph had ended can only append
to `done` what the checkpoint stays a prefix of. `Arrived` gives the ranges that `TypeOK`
states. `OnlyNodesMove` follows from `Busy`. `ResponseAllowed` is part of the invariant: a
response in the checkpoint is a draft that passes at the node that gave it, within the retries, or the
fallback after the last one, and since a graph at its end sends that response again, it must stay so.

**A badge names its tab.** `BadgesNameTabs` is a statement about the SQL of the tabs and the Python of the
badge, for every pair of Talk sequences that the two reads of the list may see; that such
sequences are all there are, now and in the past, is `Types`. `Numbered`, `Linked` and `Opened` give the
ranges of `TypeOK`.

**Readers find whole documents.** `ReadsAreWhole` says of the committed tables what
`Match` says chunk by chunk. It is not inductive, since a commit installs what a run has
gathered long before: `WholeWrites` says what that is. Of a document whose row a run
has not written it means to do nothing; of one whose row it has written it removes every
committed chunk and puts exactly those of the new row, except between the two statements
(`Half`), when it has done nothing yet. That a chunk committed in the meantime escapes
neither set needs `LocksExclude`: another run cannot commit a document that this one has
locked. `Place` and `Ahead` say where a run is in its list and that a prune does not
touch what was listed. The row is locked before the chunks are deleted
(`RowThenChunks`); in the other order `WholeWrites` fails, and so does the property.

**Runs pass each other.** `Passed`: what a run has written comes, in the order of `sorted`,
before what it has yet to read. A run that waits for a path holds only smaller ones;
two that wait for each other would each be waiting for the smaller of the two.

**A run that nothing changes under settles its scope.** `FreshInv` says of such a run that its
listing is what the disk still has (`ListingWhole`: the sequence has every file in the scope,
since it is increasing and as long as their number), that each listed document is still to be
read or `Handled`, that what was written is `Due`, and that the victims of a prune are
the rows in scope without a file that it has not deleted yet. At the commit nothing is left to read. An edit of a file and a
commit of another run empty `fresh`, so the invariant need not survive them.

The proofs use the assumptions on constants that the modules name, and the library's
facts about sequences, functions and finite sets. What the assumptions say comes from the code:
bounds are natural numbers, model values differ from what they stand beside (`NilAssumption`,
`NoneAssumption`, `LockAssumption`), configurations are within their schema (`ConfigAssumption`:
`FollowUpConfig`), documents name nodes of their own (`DocumentAssumption`), decisions have
the fields of `TurnDecision` in the code (`DecisionAssumption`), Talks have the statuses of their
model (`StartAssumption`). TLC evaluates each on every run of its module. `OneDrain` is the
only hypothesis of a theorem (`OneTalkAtATime`), and holds in the instance of the run that checks the
same property.

Only model-checked, on the instances above: the liveness properties (`JobsEnd`,
`SilentTalkEnds`, `ExecutingEnds`, `EveryDueJobEnds`, `TurnEnds`, `EventIsShown`,
`BubbleSettles`), which rest on fairness and are out of the prover's reach, and the three
violations and the refuted formulas, which are counterexamples.

## Plan

1. Done: `LeadInbox` with `InboxPromise`, `TalkHandling`, `ActionExecution`; `TreeFlow` and
   `TurnDecision` with `TreatmentPromise`; `FollowUps`, `TreeflowEngine`, `LiveInbox`,
   `KbIndex`; their runs and the theorems above.
2. Done: theorems for every invariant, action property and refinement that a run checks.
   Left: what the refuted formulas become when their cause is taken away, as theorems with that
   hypothesis (`HandsOff` without a closing turn, `TerminalRows` without the operator's cancel,
   `NewsIsTaken` with one task); safety lemmas behind the liveness properties (a job that waits
   for a lock has a holder that is not waiting for it, which `JobsEnd` rests on).
3. Models: a composition of `TalkHandling` and `ActionExecution` through the turn's
   transaction; abstract specifications `TalkPromise` (who may speak and when a Talk ends)
   and `ActionPromise` (each value's effect at most once, after its commit).

The number of runs and of properties is kept small: a run that shows a known violation
gives way when a new module needs one, and its formula stays in its module and above.

## Not modelled

Prompt assembly and the language models turn text into text; what they answer is a choice
in the models. Speech synthesis, transcription and storage are I/O whose outcomes are
choices. Tenants, secrets and settings are configuration read at start; row-level security
is a filter on queries of one tenant. Web login keeps accounts and cookies, the simulator
drives a turn in one process, scripts and migrations run once; none has a protocol of its
own. Of the parts that are modelled, these are left out: the reading of YAML and of
expressions (TreeFlows are graphs), the registry and the fake adapter, search, previews and
read markers of the console, the ranking of chunks a query finds, and the text of
everything. PROJECT.json lists every part with its sources, and the hazards with
the properties that cover them or the reason none does.
