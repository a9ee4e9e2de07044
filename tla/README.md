# Agent platform: TLA+ models, checks and proofs

This directory models the agent platform in `src/agent-repository`: a control
plane that compiles work orders (SPOCs) into run manifests, an execution plane
that takes a run through a fixed sequence of fourteen steps with policy, quality
and human gates, and the tools, stores and indexes around them. The models follow
the Python code, statement by statement where it changes state; `PROJECT.json`
maps every definition to the lines it models, lists the runs, the hazards of the
code and the theorems.

Paths below are relative to `src/agent-repository/src/agent_platform/` (tools to
`src/agent-repository/`).

## 1. The system

### Components, their state and their operations

| Component | Code | State it keeps | Operations | Modelled in |
|---|---|---|---|---|
| Project execution flow | `execution_plane/project_flow.py` | one `ProjectRunState` object per call; everything durable is in the ports | `start`, `resume`, `start_new_attempt`, 14 steps, checkpoint after each | `ProjectFlow`, `RunTypes`, abstractly `RunLifecycle` |
| QA gate | `execution_plane/qa_gate.py` | none | `qa_validation_against_test_cases` | `ProjectFlow` |
| Approval gateway (in memory) | `adapters/approval.py` | requests by id | `request_approval`, `get_status`, `resolve` | `ProjectFlow`, `SpocCompiler` |
| Run-state store, event ledger | `adapters/persistence.py` | snapshots by (run, attempt), order of attempts; events | `save`, `delete`, `append`, reads | `MemoryPersistence`; as atomic variables in the models of its users |
| SQL stores, id generators | `adapters/sqlite.py`, `repositories/postgres/stores.py`, `adapters/clock_and_ids.py` | tables; a counter per process | the same, `new_id` | `SqlPersistence` |
| Event projection | `telemetry/event_writer.py` | `events.jsonl` | `project_events_to_jsonl` | `SqlPersistence` |
| Lease worker | `execution_plane/worker.py` | one lease per run | `run_once`, `_reconcile`, `acquire`, `release` (no lock) | `LeaseWorker` |
| Control-plane API | `api/app.py` | idempotency results; the stores | start, get, cancel, resume on threads of a pool; chat | `ControlApi`, `KnowledgeBase`; its cancel also in `ProjectFlow` |
| Approval service | `control_plane/approval_service.py` | requests with expiry | `request`, `resolve`, `get_status`, `is_approved` | `ApprovalService` |
| Change requests, closure | `execution_plane/flows/change_request.py`, `project_closure.py` | none | `evaluate_change_request`, `run_project_closure` | `Governance` |
| Policy engine, budget enforcer, escalation | `control_plane/policy_engine.py`, `budget_enforcer.py`, `execution_plane/flows/risk_escalation.py` | decision log; counters and events they share | `evaluate`, `enforce`, `evaluate_risk` | `Governance` |
| Registries | `registries/` | immutable after loading | loaders, `resolve`, `expand_dependencies`, `evaluate_health` | `Registries` |
| Capability matcher | `control_plane/capability_matcher.py` | none | `match` | `CapabilityMatcher` |
| SPOC compiler, inference | `control_plane/spoc_compiler.py`, `capability_inference.py` | none of its own; the gateway | `compile` | `SpocCompiler` |
| File tools, provenance stamp | `tools/file_tools/`, `tools/validation_tools/checksum_manifest.py` | files, temporary files, locks | `read_bytes`, `write_bytes`, `stamp_okf_file` | `ScopedFiles` |
| OKF schemas, knowledge graph | `schemas/`, `knowledge_graph/graph_generator.py`, `cli/main.py` | `graph_index.json` | lint, cross-reference check, graph rebuild | `KnowledgeGraph`, `KnowledgeBase` |
| Project-manager chat | `execution_plane/pm_query_flow.py` | sessions in memory | `create_session`, `ask` | `KnowledgeBase` |
| Metrics registry | `telemetry/metrics.py` | counters | `inc` | in `ProjectFlow`, `Governance` |
| Server wiring | `api/main.py` | what it constructed | `build_app` | `SpocCompiler` (registries), `KnowledgeBase` (graph) |
| Others | auth, model router, retrying tool executor, `index.md` files, git tools, migrations, evaluation, docs analyzer, injection scanner, web UI | none, or files of their own | | not modelled, section 6 |

### How they interact

The API's handlers are synchronous functions that a server runs on a thread
pool. They call the flow directly, on the same stores, as does the worker. The
flow holds its state object in memory, and reaches the store, the ledger, the
gateway, the policy and the tool executor through ports; nothing in the code
takes a lock around a load, the steps and the saves. Humans answer approval
requests through the gateway at any time. Cancellation is a token a caller
*may* pass into a call; the API passes none and edits the snapshot instead.

The compiler reads registries that were loaded once, asks an inference adapter and
the gateway, and answers a manifest that names the agents. Change requests and
closures ask the approval service, whose requests run out with the clock. The
policy engine, the budget enforcer and the escalation of risks append to one event
ledger and count in one metrics registry. Ledgers are projected into `events.jsonl`
files beside the documents of a run; command-line processes rebuild the graph from
the documents; the server reads the graph when it starts, and the chat
answers from what was read.

### What is hard about it

* Re-entry. A call may end at any of the gates, by cancellation, by a port that
  raises or by the death of the process, and may be made again. What the next
  call does depends only on the list of completed steps and the status.
* A step leaves its effects before its checkpoint is saved; whatever dies in
  between repeats them.
* Several threads: two calls on one attempt, a cancel against a running call, a
  retry of a request that is still being handled, a lease that expires under a
  worker that is still executing, two questions in one chat session.
* Decisions on a look that is no longer true: If-Match and then a second load,
  a lease looked at and then written or deleted, the expiry of a request looked at and
  its status written later, a key looked up and stored later, an approval checked and a
  change applied later, a hash taken before the lock.
* Processes that share files: writers, stamps, projectors, graph rebuilds.
* Ids that start over with a process, aliases of capabilities, names of evidence
  files that are not unique: two things under one name.
* The same rule written more than once: linter, cross-reference validator and graph
  generator; hard filters, coverage and delegation of the matcher.

### What makes each part correct

* Flow: checkpoints follow the canonical order and never go back; completed
  steps are not repeated; every status that ends or suspends a run has its cause on
  record; a first call honours each gate; counters count once.
* Worker: two workers work inside their terms only after a race of looks and writes at
  the lease; completed work is taken back or repeated only by who works outside a term
  of its own; a lease never blocks the run for good.
* API: a completed step, a confirmed cancel and an answered key are lost only in
  ways that can be named; answers agree with the store.
* Approvals: what was marked expired never counts; what was applied or promoted was
  approved for that very subject.
* Records: each answer has an event of its own, counters agree with what they
  summarise.
* Compiler and matcher: a manifest names agents that can and may do the work;
  inferred risk was approved; one key means one piece of work.
* Stores: the SQL adapters can replace the dictionaries; nothing appended is lost
  or repeated but for reasons that can be named.
* Files: whole under their name, in scope, audited with the contents they had.
* Knowledge: a valid tree builds, edges join nodes, citations were readable once,
  questions get their own answers.

## 2. Modules

| Module | What it is |
|---|---|
| `RunTypes` | the fourteen steps, the statuses, which statuses end a call, what re-entering does to a cancelled one |
| `RunLifecycle` | abstract specification: status and progress of each attempt, with `Create`, `Advance`, `Cancel`, `Rework` |
| `ProjectFlow` | the flow with its QA gate, gateway, stores, metrics, deaths, cancellation by token and by the API; refines `RunLifecycle` |
| `LeaseWorker` | workers and the lease of one run, with time |
| `ControlApi` | the run endpoints, concurrent handlers; the flow inside is stepped by `RunLifecycle`'s `Outcome` |
| `Registries` | what a registry directory loads as; aliases, dependency closure, health (operators only) |
| `CapabilityMatcher` | `match`, on top of `Registries` (operators only) |
| `SpocCompiler` | server start, compilations, approvals of inferred capabilities, humans, library calls of `match` |
| `ApprovalService` | requests, resolutions, expiry (variables and actions, composed by `Governance`) |
| `Governance` | `ApprovalService` with change requests, closure, policy, budget and escalation |
| `MemoryPersistence` | abstract specification of both persistence ports: the in-memory adapters |
| `SqlPersistence` | the SQL adapters, id generators and the projection; refines `MemoryPersistence` |
| `ScopedFiles` | path guard, scoped reads and writes, the stamp that goes round them |
| `KnowledgeGraph` | linter, validator and graph as functions of a tree (operators only) |
| `KnowledgeBase` | people, rebuilds, server and chat over a tree, on top of `KnowledgeGraph` |
| `MC*` | small instances |
| `*_proofs` | the theorems about the module of that name, with their inductive invariants |

Definitions marked `Slip:` are the definition after them with a programmer's
mistake. They belong to no specification; each is used to confirm that a property
notices the mistake. Variables marked "history" are read by properties only.

### ProjectFlow

`store`, `ledger`, `gateway`, `metrics` are the ports; `pc`, `cur`, `step`, `live`,
`qa`, `token`, `wasTerminal` are the locals of each call. One action per thing
another thread could see happen: `StartNew` and `Continue` load what there is and enter
a call, `SaveNew` saves a new run (two callers may both find none), one action per step function with its event, `SaveStep` is
`record_step_complete` and the save and the early exit, `ObserveCancellation` and
`SaveCancelled` are the cancellation branch, `Return` the metrics.
The plan approval asks the gateway (`RequestPlanApproval`), resolves it or leaves it
pending (`DecidePlanApproval`) and records it (`RecordPlanApproval`). The QA gate takes
one action per test case; the limit on QA attempts is an option of each call and is
chosen from `QaLimits` where the verdict reads it. `Abort` is a port that raises or the
death of the process: the locals vanish, what was saved stays. `HumanResolve` and
`RequestCancel` belong to the environment. `LoadToCancel` and `SaveApiCancel` are the
cancel endpoint of the API, which loads a checkpoint, marks its copy cancelled and saves
it, with no event: under `SingleWriter` between calls, otherwise also over them.
`cancels` remembers how often that was confirmed. The options of a call and the verdict of
the policy are read in one place each, and are chosen there.

A state keeps the fields a decision or a property depends on. The content of
events, hashes, costs and the index files are left out.

### LeaseWorker

`lease.left` counts the ticks a lease still has, and `left[w]` those of the term
the worker was granted; `Tick` lets both run down. The lease store takes no lock, and
the model makes a look and the write after it two actions: `CheckLease` or `Refuse`,
then `SetLease`; `CheckOwner` or `PassBy`, then `DeleteLease`. Around them `run_once` is
`Look`, `Reconcile` and the flow (`Load`, `ExecuteStep`, `SaveStep`). `raced` remembers
for each worker whether it was granted its term while another one was between a look and
a write; who is past its term or was granted it in a race is `Outside`. `trespass`
remembers for each worker whether somebody outside has saved since it loaded.

### ControlApi

A handler holds `obj`, its copy of the snapshot; an ETag is a hash of the
snapshot, and two snapshots with the same status and progress are taken as equal.
`PostRun`, `PostCancel`, `PostResume` are the part of a handler up to its next store
access, `StartFlow`, `CreateRun`, `ResumeFlow`, `FlowStep`, `SaveCancel` and `Reply`
the rest. A request that is refused or answered from the idempotency store changes
nothing. `Sequence` is the list of steps that the instance keeps of the fourteen.
`stale` holds the handlers whose copy somebody has overwritten since they took it;
a handler leaves it when it saves. Raising is modelled inside
the flow, where the ports are.

### Registries, CapabilityMatcher, SpocCompiler

A registry file is a record with a field `valid` for everything its JSON schema and
validators say. `load_*` yields the registry or `NoRegistry`; `Startup` is the part
of `build_app` that loads all of them or ends. `match` is one operator; scores are
integers, scaled so that ties are those of the code for the small numbers the
instance uses. A compilation is cut where it leaves a request at the gateway
(`RequestReview`) and where it reads the answer (`ReadReview`), because a human may
act in between; `Compile` is everything before, `FinishCompile` everything after. The
policy's verdict on `compile_spoc` and the proposals of the inference adapter are
free choices. Proposals may hold several candidates, known or not, low or high in
risk, under ids or aliases.

### ApprovalService, Governance

Requests are numbered in the order they are made and carry the time they run out.
`Resolve` may come at any time and again, `GetStatus` finds expiry; both look at the
clock and leave what they decided in `writes`, which `WriteStatus` puts into the request
later. `marked` remembers the requests somebody has marked as expired. `EvaluateChange`
and `ApplyChange` are separate because the code that asks and the code that applies
are. A closure looks at its lessons one action at a time, and remembers for each which
approvals were valid then. `wired` says whether the deployment has a ledger and metrics
(`main.py` has no metrics). `EvaluatePolicy`, `Enforce` and `EscalateRisk` are one action
each with an input `broken` that says whether the ledger raises; what is left behind
then follows the order of the statements. `answers` keeps what callers were told, one
by one.

### MemoryPersistence, SqlPersistence

`MemoryPersistence` is what the ports promise. `SqlPersistence` keeps rows: `seq` is
the `saved_seq` by which the latest attempt is found, `rows` the event table by rowid.
One initial choice selects backend and id generator. The refinement maps rows to
dictionaries; of the ledger it speaks only for SQLite with random ids, because the
other combinations do not implement the port (section 5). A projector gets its events
(`StartProjection`), reads the file (`ReadFile`) and writes line by line (`WriteLine`);
`Die` may leave half a line.

### ScopedFiles

Names have a resolved path and the targets of the links on the way. `Begin` is
permission, secret scan and first hash; `Lock`, `Open`, `Fill`, `Replace`, `Finish` are
the rest, one per system call another process could notice: a temporary file exists
before it is whole. The lock file is where `LockDir` says for the process, or beside the
target; in the run the two processes lock in different places and do not exclude each
other. A target may be new. `Raise` is an exception anywhere after the first hash,
`Kill` stops the threads of a process; both drop the locks and leave the temporary file.
The stamp reads, empties and fills a document without guard or lock; where a writer has
replaced the file meanwhile, it goes on writing to the old one.
`deranged` remembers writers between whose two hashes somebody else changed the file.

### KnowledgeGraph, KnowledgeBase

A document is its front matter. `Drafts` are what people may write into the editable
files, including documents that fail one or another check. A walk over the tree is one
step; a graph build makes two (`StartBuild`, `LinkBuild`) and writes in place
(`OpenGraph`, `FillGraph`), and may be killed between. Evidence is named by base name:
the code resolves a relative path first, which for an events file beside its summary is
the same. A question is a set of words that are compared with the fields of a node.
`LogQuestion` and `LogAnswer` append the two messages of `_log`. A session identifier that
is used again gets a new session, and who is still asking in the old one logs to that.

## 3. Runs

| Run | Shows | Bounds | States |
|---|---|---|---|
| `flow_reentry` | one attempt that is entered up to three times, with every answer of every gate | 1 caller, 3 calls, 1 death, 1 API cancel, 1 test case, QA limits 1 and 2 | 367,154 |
| `flow_rework` | two attempts: what rework keeps, counts and drops; the refinement of `RunLifecycle`; checkpoints grow | 1 caller, 2 attempts, 1 call each, 1 death, QA limits 1 and 2 | 413,773 |
| `flow_two_writers` | what is left of checkpoints and counters without the single-writer discipline | 2 callers, 2 calls, 1 API cancel, no approval gates | 836,601 |
| `flow_gate_bypass` | **violated**: `PlanGateIsNotBypassed` | 1 caller | – |
| `lease` | who can break exclusion or repeat effects; leases end | 2 workers, terms of 1 tick, 2 steps, 1 death, 1 exception | 838,616 |
| `api` | what concurrent handlers can and cannot spoil | 2 handlers, 1 key, 4 requests, 3 steps, 1 exception | 1,004,305 |
| `compiler` | manifests and matches are staffed, inferred risk was approved, one key means one piece of work | 2 compilations, 1 human act, 48 match requests, registries that load and that do not | 577,124 |
| `compiler_unblocked` | **violated**: `ApprovalUnblocksCompilation` | as `compiler` | – |
| `governance` | what is marked expired never counts, changes and closures are backed by approvals; or else: answers and their events, counters and what they count | 1 subject, 2 lessons, 4 operations, expiry after 1 of 2 ticks; 3 calls, 3 actions, the ledger may raise each time; 3 deployments | 3,611,963 |
| `persistence` | the refinement of `MemoryPersistence`; what ids and races lose or repeat | 2 backends, 2 generators, 2 projectors, 4 operations, 3 events, 1 restart, 1 death | 1,240,955 |
| `files` | whole files, scope, true audits | 3 threads in 2 processes with lock directories of their own, old and new files, 2 writes, 1 death | 444,370 |
| `knowledge` | the checks agree, graphs are consistent, citations and answers are in order | 5 files, 2 rebuilds, 2 handlers, 1 session identifier, 4 operations | 545,199 |

### What the properties say

Each is stated in a comment where it is defined. In short, beyond the flow, worker and
API properties of section 1:

* `ManifestsAreStaffed`, `MatchesAreStaffed`: the required set is closed, each
  capability is held well enough by a member, each member passes every filter, and a
  second member only joins where no single one suffices. The reference is written
  from the promise, not from the algorithm, so filters, scores, aliases and
  delegation cannot drift apart unnoticed.
* `InferredRiskWasApproved`, `SameKeySameWork`: what inference adds was granted by a
  request of that very compilation; equal execution keys need equal capabilities,
  except for SPOCs with a declared hash or inference.
* `ExclusiveUnlessRaced`, `RollbackComesFromOutside`, `CompletedEffectsStay`: every way in
  which two workers meet, a checkpoint goes back or a completed effect is repeated has a
  worker who is past the term it was granted, or who was granted it between another one's
  look at the lease and the write that follows. Without such a worker, none of it happens,
  whoever dies or raises.
* `PersistedStatusIsExplained`: each status that ends or suspends a run, with its cause: the
  pending request or acceptance behind a wait, the recorded denial behind a block, the
  verdict, the used-up limit and the call for a human behind a dead letter, the grant behind
  an acceptance, the event or a confirmed API cancel behind a cancellation.
* `ProgressIsLostOnlyToStaleSaves`: a step in which completed steps are lost is the save of a
  handler whose own copy had been saved over. One stale save excuses one loss, its own.
* `ExpiredNeverCountsAgain`: `is_approved` looks at the clock itself, so that it does not
  matter that a status may be wrong (section 5).
  `AppliedChangesWereApproved` and `CompleteClosureIsEarned` tie what was decided to an
  approval of that very subject, valid at the look for it.
* `AnswersAreOnRecord`, `CountersMatchRecords`: as many events as equal answers, where there
  is a ledger; counters equal to what they count, where there are metrics.
* `ImplementsMemoryAdapters`, `OnlyReusedIdsAreLost`, `LinesRepeatOnlyAfterARace`.
* `FilesAreWhole`, `WritesStayInScope`, `AuditsAreTrueUnlessDeranged`.
* `ValidTreesBuild`, `EdgesJoinNodes`, `CitationsWereReadable`,
  `AnswersFollowQuestions`.

A property whose name ends in "Unless..." or "OnlyAfter..." is true only with the
exception it names, and the exception happens in the run: without it the run fails.

### Why the bounds are enough

* Three calls on one attempt allow: stop at a gate, be cancelled or die, and finish,
  in each order, with an API cancel between them; two attempts allow one rework, and a
  third would start from the same five planning steps. QA rejects, and exhausts its
  attempts, with limits 1 and 2. `flow_rework` leaves the API cancel to the other runs
  and to the theorems, which have any number of them.
* Two callers, workers, handlers, projectors or rebuilds are enough for every race
  named under "hazards": each is between one that holds a copy and one that writes.
* A lease term of one tick lets a lease be in its term, in its last instant and expired at
  each point of `run_once`; two steps let a takeover find none, some and all of the work
  done.
* Four requests are a start, a cancel, a resume and another start, or two starts with one
  key, a cancel and a resume. The three steps kept are the one that sets `running`, the acceptance gate
  (goes on, accepts or waits) and the one that closes; the others keep the status or
  end the call as waiting does.
* Two compilations are what `SameKeySameWork` compares, and what a repeated
  compilation after an approval takes. The registries hold an alias of an alias, a
  dependency cycle, a duplicate id and a dangling claim; the requests vary one
  input of each filter.
* Four operations of governance are a request and resolutions that overtake each other and
  the clock, or the two requests of a closure with two lessons and their answers. Three
  calls on the record are two equal answers with a failure before, between or after them.
  The approvals and the record share no variable, and a behaviour of the run has one or
  the other (`Apart`). A deployment with neither ledger nor metrics has no record to check.
* Three events and one restart let an id be used again, before and after one that is
  not; a projector that died is followed by another that appends to the half line.
* Three threads, two of one process, are the least for which a lock that excluded
  processes only would fail while another process writes too.
* Four operations over the tree are an edit during a build, a build, a server start and
  a question.

### Fairness

`LeaseWorker.FairSpec` is the only specification with fairness: time passes, and a worker
inside `run_once` runs; nobody has to call it, nothing has to fail. The other modules
state safety only. What they do is started by people and bounded, and the code in them
neither waits nor retries: a call of the flow is one pass over a fixed list, and a pending
approval ends it.

### What the violated runs mean

Each refutes a sentence of the documentation, which PROJECT.json quotes under "findings".
Further sentences that the code does not keep, without a run of their own, are in section 5.

* A pending plan approval does not stop the next `resume`: the step is recorded
  complete before the loop looks at the status (`project_flow.py:219`).
  `FirstCallHonoursGates` states what is true.
* A compilation that stopped for the approval of an inferred capability stops again
  after a human approved it: every compilation makes a request of its own
  (`spoc_compiler.py:228`) and looks at no other.
  `InferredRiskWasApproved` states what is true.

## 4. Proofs

TLAPS checks every proof to the last leaf. What is proved holds for every number of
callers, attempts, workers, handlers, writers, documents, sessions, steps and deaths,
and for every registry, tree, request or path the constants may stand for, under the
assumptions on constants that each module names (`...Assumption`, `...Bounds`; section
6 lists those that say more than a type). The runs check the same properties on small
instances first, and refute their mutants; 37 of the 38 properties of the passing runs
are theorems, all but the one about liveness. All of them are about `Spec`, without fairness.

| Module | Theorems |
|---|---|
| `ProjectFlow_proofs` | `TypeCorrect`, `TypesHold`, `CheckpointsArePrefixes`, `FlowImplementsLifecycle`\*, `CheckpointsNeverShrink`\*, `CompletedWorkIsNotRepeated`\*, `CompletionsAreLogged`, `StatusesAreExplained`, `ReworkIsBacked`, `VerdictsSeeOutputs`, `ApprovalsAreBacked`, `DeadLettersAreCounted`, `FirstCallsHonourGates` |
| `LeaseWorker_proofs` | `TypesHold`, `ExclusionWithoutRaces`†, `SavesGoForward`†, `CompletedEffectsAreLeftAlone`† |
| `ControlApi_proofs` | `TypesHold`, `RepliesMatch`, `ProgressIsKept`, `CancelsStand`, `KeysStartOnce` |
| `Governance_proofs` | `RequestsAreTyped`, `MarkedNeverCounts`, `ChangesWereApproved`, `ClosureIsEarned`, `RecordIsKept`, `AnswersOnRecord`, `CountersAreExact` |
| `SpocCompiler_proofs` | `InferredRiskIsApproved`, `KeysStandForWork`, `ExpansionIsClosed`, `MatchesStaffed`, `ManifestsStaffed` |
| `ScopedFiles_proofs` | `LocksAreHeld`, `FilesStayWhole`, `AuditsAreTrue`, `WritesAreInScope` |
| `KnowledgeBase_proofs` | `ValidatedTreesBuild`, `EdgesAreJoined`, `CitationsStayReadable`, `QuestionsAreAnswered` |
| `SqlPersistence_proofs` | `LostIdsWereReused`, `LinesRepeatAfterARace`, `SqlImplementsMemory` |

\* under `SingleWriter`: one call at a time per attempt. This is the assumption of the
flow's own document. The code does not enforce it: `ControlApi` shows calls that
overlap, and the other theorems about the flow, and `flow_two_writers`, say what is
left then.
† under `DistinctOwners`: no two workers use one owner name. The default name of
`run_once` is the same for all (section 6); with it the properties are false.

### The arguments

Hardly any of the properties is inductive. What had to be added tells why the code
keeps them.

**ProjectFlow.** `TypeInv` adds to the types that a call inside a step function is at a
position of the sequence and holds an approval id the gateway knows. `PrefixInv`: every
stored state completed a prefix, and a call at step *k* holds a state that completed
exactly the steps before *k*, or, while it skips, at least those; a save by any call
therefore stores a prefix, whatever the others stored meanwhile. `CallsInv` adds where a
call is when it asks for approval, runs a test case or escalates, and that attempts
appear one after the other. `SoundInv` says of every checkpoint, *and of every state
object that may become the next one*, that ledger and gateway bear it out: events for
the steps done, an approval that was requested, a status with its reasons, a rework
count below the rejections. As ledgers only grow (`RecordsGrow`), overwriting one sound
state by another is harmless; this is why five properties survive two writers.
A cancelled status without an event is borne out by a cancel of the API on that attempt,
confirmed (`Overruled`) or about to be saved (`Excused`).
`CountInv` counts the calls that hold a dead letter they have not yet counted as if they
had. `FirstInv` follows the only call of an attempt through its gates (`OnlyCall`): the
order acceptance after QA after crews is where the first call differs from the second.
`CopyKept` covers the save of an API cancel over it: a copy that is held at a gate is only
saved over a call that is held there too and has not run its crews.
`SyncInv`, which needs `SingleWriter`, adds that callers on one attempt exclude each
other and that the object of a call agrees with the snapshot but for the step in
progress. From it every step of the system is a step of `RunLifecycle` or a stutter
(`StoreStep` collects what actions may do to the store), and checkpoints never shrink.

**LeaseWorker.** `LeaseInv` is about workers that are `Inside`: executing, not past their
term, and granted it without a race. Such a worker holds the lease with exactly the rest of
its term, and nobody else is between a look at the lease and the write that follows; so
nobody can take the lease from it or delete it. `ProgressInv`: a worker that is not
`Strayed`, that is neither outside a term nor saved over by somebody who was, starts from
the checkpoint there is. Hence only a strayed worker takes the checkpoint back
(`OnlyStrayedRollBack`) or leaves the effect of a completed step (`OnlyStrayedRepeat`).

**ControlApi.** `CopiesInv`: a handler that is not marked stale holds what is stored, or
what was stored before it was reopened. So a save that loses progress is that of a stale
handler, which the save takes off the list (`SavesStale`): the next loss needs another
one. `CancelInv`: who could save anything over a cancelled run is stale. `KeyInv` counts a
start that was let in before it executes, and says that a key nobody answered and nobody
works on has executed only as often as it failed or was duplicated.

**Governance.** `RequestsKept`: subject, scope and expiry of a request never change.
`ExpiryInv`: requests marked as expired, and those that somebody is about to mark, have run
out, which they stay whatever is written over their status. `ChangesInv` and `ClosureInv`
keep for every evaluated change, and for every lesson of a closure by itself, a request
that was valid when it was looked up. `RecordInv` compares, for each answer, how often it
was given and how often it is on the ledger, in every order in which the ledger may raise;
the counters follow in every deployment that has them.

**SpocCompiler.** `ReviewInv` (with `JobInv`): for each inferred capability of the job in
progress, the high-risk ones either wait for their review or have been granted by a
request this compilation made, and requests keep their subjects. `WorkInv`: a manifest
requires what its SPOC and its inferred capabilities expand to in the loaded registries,
and its key is that of the SPOC; what closure `expand_dependencies` computes does not
matter for it. For the teams it does matter. `ExpansionIsClosed`: as long as a round adds
something, after *n* rounds more than *n* registered capabilities are in the set, and
there are no more than the registry has; so the round the code stops at is closed, with
cycles and all. Then `FirstIsRanked`: a finite set of agents with distinct ids has a
first in the order "higher score, then lower id", so what `match` chooses is one of
those that passed the filters. No property of the score is used but that it is a number
(`ScoreTyped`), so that the theorems do not rest on the scaling the model gives it.
`TeamOfOne` and `TeamOfTwo` say who the members are and what they leave
uncovered; `TeamInv` carries the outcome over the compilations, whose registries never
change after the start.

**SqlPersistence.** `LedgerInv`: row ids are unique, every row is an event with the id it was
given, and the sequential counter is not below any id of the running process; so an event
that was dropped met an id of an earlier process, and random ids drop nothing.
`FileInv`: while no two projections have overlapped (`Alone`), at most one is at work, the
file has no line twice, and nothing that is still to be written is in it.
For the refinement, `Ascending` is shown to exist and to be unique for every
finite set of numbers, and `OrderedBy` to be the table in that order. A new row has the
highest `saved_seq`, so it is appended; an updated one keeps its place; a deleted one is
removed from its place and the others close up, which is what the in-memory list does.
Each SQL operation is then the same operation of `MemoryPersistence`, and projections,
restarts and deaths are stutters. Of the ledger the mapping speaks for SQLite with random
ids only; of the run states for every combination.

**ScopedFiles.** `LockInv`: from opening the temporary file to replacing the target a
thread holds the lock of the path, and what it is about to move there is its whole
content; so threads that share the name of a temporary file do not share its contents.
`AuditInv`: an undisturbed writer finds what it hashed. `ScopeInv` follows a path from
the guard to the audit.

**Counting and choosing.** What one would show by induction over data is shown by the least
counterexample (`Least` in each module that needs it): existence of recursive functions
and of their values, sums (`Sums`, with which the counters of the flow and of governance
are compared), the rounds of the closure, the order of a table.

**KnowledgeBase.** `ValidatedTreesBuild` is about the three places where the rules are
written: whatever linter and cross-reference validator accept, the generator joins.
`EdgesInv`: a build whose tree held still has a node for every document its second walk
meets. `ReadableInv` takes what is readable from the tree over builds, file, server and
answers to the messages. `SessionsInv`: who is about to answer has asked last.

Assumptions on constants that the proofs brought to light were added where they were
missing, and each run evaluates them: stand-ins for "nothing" (`NoLease`, `NoKey`,
`NoAnswer`, `Gone`, `None`) are not among what they stand for, paths are sequences.

### What is only model-checked

* Liveness (`LeaseFreesItself`): fairness and ENABLED are out of the prover's reach.
* Mutants, and the violated runs: each is a behaviour, which TLC finds.
* That the flow's `Outcome`, as `ControlApi` uses it, stands for the steps of
  `ProjectFlow` rests on `FlowImplementsLifecycle` for single calls, and on nothing for
  overlapping ones, where `flow_two_writers` looks.

## 5. What else the models show

Sentences of the documentation that the code does not keep, beside those that the violated
runs refute. The models do what the code does here, and properties are stated so as to be
true of it:

* `docs/implementation/agent_platform/execution_plane/Worker.md:59` says "A worker never takes over a still-active lease". `acquire` looks at
  the lease and writes it without a lock (`worker.py:51`, `worker.py:56`): two workers that
  look before either writes both have it. `ExclusiveUnlessRaced` names this race and the
  one in `release` (`worker.py:68`) as the only ways.
* `worker.py:8-9` says that a worker "resumes from the last completed step instead of
  re-executing prior side effects", and `Worker.md:39` "so no irreversible action is
  duplicated". The effect of a step comes before its checkpoint (`project_flow.py:218`,
  `:220`), so that a recovery repeats a step that was executed and not saved.
  `CompletedEffectsStay` is about the steps that were saved.
* `worker.py:4-5` promises "heartbeat renewal". Nothing calls `renew`, and the lease of a
  live worker runs out while it executes (`worker.py:113`).
* The masterplan (`src/plan/crewai_multi_agent_project_masterplan.md:1144`) lists the
  cancellation of a run among its mandatory events. The API saves `cancelled` and appends
  none (`app.py:243-244`); `PersistedStatusIsExplained` therefore accepts a confirmed API
  cancel in place of the event.
* `approval_service.py:8-9` says that "an expired request blocks progress and cannot later
  be approved". `resolve` looks at the clock and writes the decision later
  (`approval_service.py:70`, `:73`), possibly over an `expired` that a reader wrote in
  between. `ExpiredNeverCountsAgain` says why this does no harm.
* `approval_service.py:47-48` says that "a duplicate request resolves to the same record".
  Every request draws a new id (`approval_service.py:49`); rejecting the later of two
  leaves the earlier in force.

The rest are facts about the code that were met as counterexamples or while translating;
where a property has an exception, it names one of them.

Flow, worker, API:

* A rejected QA does not stop the next acceptance after re-entry
  (`project_flow.py:362`). A cancelled run that is resumed becomes `running` whatever it
  was, so that an accepted run may end `running` with all steps done
  (`project_flow.py:137`).
* A lease stays until its term when `_reconcile` raises (`worker.py:110`); a lease that
  expires between look and acquisition is taken over without the reconciliation event
  (`worker.py:98`).
* The API's cancel does not reach an executing call, which saves over it (`app.py:243`);
  two starts that both find no run both create it, the second over the first; a duplicate start in flight is not recognised (`app.py:200`); a run
  cancelled after its last step and resumed answers `running` and saves nothing.

Approvals and records:

* A change may be applied after its approval ran out or was rejected.
* A policy decision whose event could not be appended is kept and counted. Without a
  ledger, decisions and budget errors have no event at all (`policy_engine.py:62`,
  `budget_enforcer.py:99`). An actor
  with an empty list of classifications is not checked (`policy_engine.py:97`).
* The server constructs an `ApprovalService` but gives its flow and compiler the
  in-memory gateway, whose requests never run out (`main.py:57-58`); it wires no
  inference adapter and no tool executor.

Compiler and matcher:

* An agent's claim may name a capability by an alias: it loads, and never matches. An
  alias equal to an id shadows the id. An explicit capability named by an alias is
  reviewed as if it were inferred when a model proposes it again.
* A low-risk inferred capability may bring a high-risk dependency in without review;
  `InferredRiskWasApproved` is about what was inferred.
* One greedy delegate is tried: a pair that covers everything can be missed when the
  agent that covers most is not part of it.
* The execution key leaves out inferred capabilities and the state of the registries,
  and trusts a declared content hash. Blocking dependencies are looked at only when
  compilation starts.

Stores:

* With sequential ids, events after a restart are dropped silently; a server that uses
  them with SQLite loses its ledger's continuation. PostgreSQL orders a ledger by event
  id, which for random ids is not the order of appending.
* Half a line in `events.jsonl` makes every later projection raise; a line appended to
  it is lost as well. Two projections at once repeat lines.

Files:

* With two writers the audit may name contents a write neither replaced nor left. The
  stamp goes round lock, guard and temporary file, and one that dies leaves half a
  document under its name.

Knowledge:

* `project validate` rejects the run summary the platform writes (mandatory fields are
  missing); the graph accepts it. A second run's `events.jsonl` makes a bare reference
  from elsewhere ambiguous, and the build fails.
* Two documents with one id give two nodes.
* `graph_index.json` is emptied before it is filled; a server started in between does
  not start. The server's graph is read once: what is reclassified later is still
  cited. A session of class `public` may be answered from internal documents, and the
  events of a run are internal whatever the run was.
* Questions that overlap in one session interleave. Creating a session again drops its
  messages (`pm_query_flow.py:82`).

## 6. Assumptions and what is not modelled

* One run in the flow, worker and API; runs share only counters. One project.
* `save`, `load` and `append` of the in-memory stores are atomic: each copies first and
  then makes one access to a dictionary or list. The lease store and the approval service,
  which look and then write, are not taken as atomic. SQL statements commit one by one and
  are atomic.
* A walk over a directory tree is one step, where the code reads file by file.
* Worker owner names differ (`Owner` is one-to-one in the run, `DistinctOwners` in the
  theorems). The default is the same name for all; `ExclusiveUnlessRaced` then fails, as
  a worker can release the lease of another.
* The clock reading of `acquire` is that of its look. An older reading could only refuse
  more often, or shorten the term, as a tick after the look does.
* Links, roots and rules of the path guard do not change, and each process has one lock
  directory: nothing in the repository changes the former while a write is on its way, or
  passes `lock_dir`. With two directories in one process, two threads would share a
  temporary file (`repository_write_scoped.py:103`).
* `ContentIsHashed`: SPOCs with one content list the same capabilities. The key hashes
  the content as a whole (`spoc_compiler.py:61`), and a collision of hashes is left out.
* `FilesAreTyped`, `RequestsAreTyped`: registry files that pass their schema have finitely
  many entries, with numbers for ids, proficiencies and pass rates; a match request names
  finitely many tools, and costs, rates and budgets that are numbers. Pydantic and the JSON
  schemas see to it. Fractions are left out: the instance takes tenths and whole costs.
* Ids that the random generator draws are new. Two UUIDs that are equal are left out.
* A dead projector is followed by others, but half a line is all it leaves: a line that
  reached the file is whole.
* Subjects are always given to `is_approved`, as both callers do.
* `InMemoryLeaseStore.renew` has no caller, so no action renews a lease.
* `time.monotonic` durations, event payloads, Markdown layout, hashes as byte strings.

Not modelled:

* Authentication, model router, `LocalDevPolicyDecisionPoint`, prompt-injection
  scanner: pure predicates of one input, without state.
* Retrying tool executor: a loop inside one call; its callers see a result or an
  exception, which is what `ProjectFlow` has.
* Migrations: one migration, which writes a marker and nothing else.
* Git tools, evaluation harness, docs analyzer, most CLI commands, status reports,
  `requirement_to_delivery`: wrappers and formatting.
* `index.md` files and the event that the chat appends after its messages: nothing reads
  them back.
* Histograms and rendering of metrics; API endpoints that only read.

## 7. Status

The model is as wide as the stateful code, and the safety properties of its runs are
proved. What could be added:

1. The ledger of PostgreSQL with random ids against a weaker abstract specification, a
   bag of events instead of a sequence: the port promises an order that this adapter does
   not keep.
2. `ControlApi` on top of `ProjectFlow` itself instead of `Outcome`.
3. Walks over a directory tree file by file.
