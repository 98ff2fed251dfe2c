# Verification of the autonomous agent

TLA+ specifications of the agent in `src/autonomous_agent/`, the TLC runs that
check them on small instances, and TLAPS proofs of what they promise for every
instance. Python files without a directory are in `src/autonomous_agent/`, other files in `src/`.

The agent is a local Python program: an operator submits work through a small
HTTP server or a command line, work waits in durable JSON files, a background
worker and a handful of executors carry it out, and everything that touches the
outside world needs an approval, a single-use token or an idempotency key.
There is no database and no transaction: the state is a set of files, each with
its own lock (or none), shared by threads of one process and by separately
started processes. The specifications are about what that makes possible:
a file read now and written later, a call refused halfway, a process killed
between two files, the same command given twice.

Contents: 1 inventory; 2 modules and how they correspond to the code; 3 runs;
4 fairness; 5 proofs; 6 where code and documents disagree; 7 what is not
modelled; 8 plan.


## 1. Inventory

### 1.1 Parts that are modelled

| part | state it keeps | operations | talks to |
|---|---|---|---|
| **Task queue** `task_queue.py` | one JSON list of items (state, attempts, available_at) under a thread lock and a file lock | enqueue, cancel, recover_inflight, confirm_recovery, claim_next, complete, get | worker, mission control, triggers |
| **Background worker** `background_worker.py` | a thread, the claim in its hands | start, run_once, run_until_empty, run_forever, stop | task queue, leases, handler |
| **Leases** `concurrency.py` | a JSON map of task to owner and expiry | acquire, release, active | worker |
| **Approval queue** `action_queue.py`, `approval.py`, `approval_audit.py`, `approval_store.py` | queue file, hash-chained audit log, one record with a token per action | enqueue_proposal, set_decision, create_approval, reject_action, append_decision | executor, mission control, coding bridge |
| **Lifecycle ledger** `action_lifecycle.py`, `lifecycle_ledger.py`, `lifecycle_integration.py`, `lifecycle_recovery.py`, `startup_reconciliation.py` | append-only, hash-chained list of transitions | append_transition, require_state, record_transition, recover, reconcile_startup | executor, coding bridge |
| **Approved executor** `approved_executor.py` | `.claimed` markers, one per token | execute_approved_action | approval files, ledger, sandbox |
| **Execution engine** `execution_engine.py`, `execution_checkpoint.py`, `execution_audit.py`, `budget.py` | a checkpoint and its temporary file, an audit log per execution | execute_plan; save, load; append, verify | sandbox, budgets |
| **Mission control** `mission_control.py`, `server.py`, `mission_orchestrator.py` | mission records in one JSON file | submit, approve, reject, cancel, resume, sync; the handler that executes a DAG; recover at start | task queue, worker, approval queue |
| **Trigger dispatch** `triggers.py`, `trigger_dispatch.py` | registry of triggers with last_fired_at | register, disable, ready, fire; dispatch | task queue |
| **Side-effect ledger** `external_side_effects.py`, `rest_connector.py`, `gmail_connector.py`, `calendar_connector.py` | one JSON map of idempotency key to record; the keys a process remembers | claim, mark executed, failed, unknown; post, send, create | remote systems |
| **Adaptive execution** `adaptive_execution.py` | children (executions of one step) on disk, an audit chain | execute_adaptive_plan: attempt, retry, replan | execution engine |
| **Task graphs** `task_dag.py`, `workflow_engine.py` | none: the run lives in the process | plan, execute_dag, build_workflow_plan | execution engine |
| **Digital runtime** `digital/` | checkpoint, audit of an execution | route, plan, authorize, run, resume | tools, sandbox |
| **Browser, application, document and desktop sessions** `browser/`, `application/`, `documents/`, `computer/` | a session with its budget, a backend, a record of completed mutations | open, navigate, act, transform, checkpoint, restore; the model-driven controller | web sites, workspace, desktop, a model |
| **Cross-domain workflows** `workflow/` | pipeline, session, artifacts, replay keys; the workspace file | validate, approve, execute_step, handoff, create_draft, snapshot, restore | in-memory and workspace backends |
| **Post-change verification** `post_change_*.py`, `release_boundary.py` | evidence and reports | collect four kinds of evidence, judge, release | GitHub |
| **Monitoring and memory** `github_post_change_observer.py`, `post_change_monitoring.py`, `cross_project_memory.py` | one bounded list of entries under a lock | observe, has, learn, record | GitHub |
| **Self-improvement** `self_improvement.py`, `provider_router.py`, `coding_provider.py`, `patch_review.py`, `sandbox_runner.py` | the loop's candidate, then the stored run | inspect, ask, review, test, store, prepare, commit | coding models, run store, GitHub |
| **Coding runs** `coding_run_store.py`, `approved_coding_bridge.py`, `coding_cli.py`, `approval_cli.py`, `github_worker.py`, `draft_pr_automation.py` | a JSON file and an `.executing` marker per run; approval files; the ledger; a GitHub branch and draft | start a run, approve, reject, execute | approval queue, ledger, GitHub |

What is hard in each, and what makes it correct:

- **Task queue and worker.** Two processes may serve one queue; a lease may run
  out while its handler still works; a worker that dies leaves a running item;
  any store call may give up on its lock. Correct means: a task is never
  replayed unless somebody confirmed it, success is recorded only for a handler
  that succeeded, finished tasks stay finished, due tasks are served.
- **Approval queue and executor.** A decision, a proposal of another action, two
  executors and a start-up reconciliation meet in four files; a claim is
  recorded in the ledger and then in a marker, and the process may die between.
  Correct means: an action runs once, under a token of its own that an audited
  approval gave, and a crash is never an excuse to run it again.
- **Execution engine.** A step's effect, its audit record and the checkpoint are
  three writes. Correct means: a resumed plan neither skips a step without
  evidence nor repeats one with evidence, and ends only once.
- **Mission control.** A handler reads a mission, talks to two other stores and
  then replaces the whole record; a store call may give up on its lock at any of
  these places. Correct means: an approval queues its mission once, verified steps
  are never lost, a cancelled mission does not run, a running one is really run.
- **Triggers.** A dispatch enqueues, then fires, then maybe takes back, with the
  queue's worker in between. Correct means: one firing per cooldown, and work in
  the queue exactly for what fired.
- **Side effects.** The remote call is made outside the ledger's lock and its
  answer may be lost. Correct means: one call per key, and records that do not
  say more than happened.
- **Adaptive execution and graphs.** A call is cut off and made again under the
  same id; a replanner answers anything; a graph may be cyclic, doubled or
  incomplete. Correct means: what is reported verified rests on every step of the
  plan as it was adapted, an order has every node after those it depends on, and
  a failure reaches all that depend on it.
- **Digital runtime.** Routing, approval and resume meet in one call. Correct
  means: a verified run was earned under this plan and these arguments, nothing
  is written that was not asked for, an interruption needs a human.
- **Sessions and workflows.** The page, document, desktop or file changes under
  the agent; sessions are reopened and restored from older checkpoints; budgets
  and records must survive that. Correct means: no budget overdrawn, no recorded
  mutation repeated, a mutation hits what it was resolved on, taint never lost.
- **Post-change verification, monitoring.** Evidence is put together from several
  reads while others push and rerun, and answers arrive out of order. Correct
  means: what passed was green and is of one commit; the memory never goes back.
- **Self-improvement.** The model sees a redacted and possibly outdated file, its
  answer is repaired, and the result is committed elsewhere. Correct means: what
  is committed is what was reviewed, applied to the approved commit.
- **Coding runs.** The run store has no lock, a command can be given twice and
  GitHub can fail after it did its work. Correct means: a run begins once,
  nothing is written to GitHub without every authority, nobody else's work is
  overwritten.

`PROJECT.json` lists these exposures line by line under `hazards`, each with the
properties that would notice it.

### 1.2 Parts that are not modelled

| part | why not |
|---|---|
| Digital tool layer (`digital_tool.py`, `tool_router.py`) | a pure ranking of texts in front of execute_plan |
| Browser workflow and registration (`browser_workflow.py`, `browser_tooling.py`) | a loop over at most twelve actions, no state between calls |
| Run journal and runtime command | appends lines that no decision reads |
| Credential broker (`auth_broker.py`) | leases in memory, each method one critical section; only an example and tests use it |
| Connector registry and adapter, Gmail and calendar tooling | construction and registration tables |
| Task core and orchestrator (`task_core.py`, `task_orchestrator.py`, ...) | sequential loops over the engine, classification of texts |
| Failure classification (`resilience.py`) | a pure function no loop calls |
| Start-up checks, continuous improvement, hourly scout | reports and one sequential batch job; their shared writes, `reconcile_startup` and `enqueue_proposal`, are modelled |
| Tests, examples, release tools | read as references for what the program promises |

Section 7 says what is left out within the modelled parts.


## 2. Modules and how they correspond to the code

```
TaskQueueStore ---+--> BackgroundWorker --INSTANCE--> TaskLifecycle   (abstract)
 (queue as value) +--> MissionControl
                  +--> TriggerDispatch
LifecycleLedger --+--> ApprovedExecution --EXTENDS--> ApprovalQueue
 (ledger as value)+--> CodingRun
ExecutionEngine --INSTANCE--> PlanProgress                            (abstract)
BrowserSession, ApplicationSession, DocumentSession, ComputerControl,
CrossDomainWorkflow -----INSTANCE--> GuardedSession                   (abstract)
AdaptiveExecution  TaskGraphs  DigitalRuntime  ExternalSideEffects
PostChange  ChangeMonitoring  ImprovementLoop
```

Every `*Proofs` module holds the theorems about one module, or about those that
one `MC*` module drives; every `MC*` module gives small values to the constants of
one or several. Where an `MC*` module has several parts that share nothing, a
variable `driven` names the one that moves in a behaviour: the parts are checked
in one run without multiplying their states. The `map` of `PROJECT.json` names the lines of every definition.

**Atomicity.** This is the choice that everything rests on. A call that reads,
checks and replaces one file under that file's lock is one step: other processes
see it before or after, since the file is replaced with `os.replace`. Everything
else is cut: between two store calls, between a remote call and its record, and
between the pieces of an operation that does not take the lock its siblings take
(`enqueue_proposal`, the checkpoint's write and rename, the coding run store).
Wherever it is cut, other processes may act and the process may die. Sessions
are objects of one thread, so a whole call of theirs is a step; what is
concurrent with them (pages, files, windows, the process dying between a call
and its checkpoint) is a step of its own.

- **TaskQueueStore** is the queue file as a sequence and every store call as a
  pair of operators: is it accepted, and what list does it leave. Timestamps are
  "due or not". The limit of 1000 attempts, which `_validate_item` checks at
  every load, is the constant `MaxAttempts`.
- **BackgroundWorker** adds workers with a program counter (`pc`), the claim they
  hold, the lease file and a clock. Start (with `recover_inflight`), claim_next,
  lease acquisition, the handler's return or exception, complete, release, the
  lock timeouts of each and a death at each place are actions. `WorkersOverlap`
  says whether a second worker may be started beside a live one: the program means
  to have one, but nothing prevents two processes from sharing the files. `confirms`
  and `earned` are history variables (confirmations given, handler returns). It is
  driven by two MC modules: with overlapping workers by MCApprovedExecution, with
  one worker and fairness by MCMissionControl.
- **TaskLifecycle** is what a client of the queue may rely on: a task is listed,
  handed out at most as often as it was authorised, and ends once.
- **ApprovalQueue** keeps the queue file as one list per action id, in file
  order, beside the audit log, the records and the lock. A proposer loads,
  truncates and writes without a lock; a decider works under it and replaces.
- **LifecycleLedger** is the transition table and `append_transition` as
  operators on a list of events per action.
- **ApprovedExecution** extends the queue with executors (validate, advance the
  ledger, make the marker, run the steps, report), other components that advance
  or block the ledger, and the reconciliation of every process start.
- **ExecutionEngine** is `execute_plan` with one action per piece of code between
  two file operations: admission, load, decide (resume or fresh), the four steps
  of a save, and in the loop authorise, attempt, run, record, checkpoint, finish.
  The audit log is kept as what its readers compute from it.
- **PlanProgress** is what a caller may rely on: verified steps grow in order, a
  result belongs to one identity, an end is final.
- **AdaptiveExecution** is `execute_adaptive_plan`. Its only memory between calls
  are the child executions (`children`), whose names are made of replan count,
  step and attempt; a call that is cut off leaves a child in any state that the
  files of an execution can be in. `run` holds the locals of the call.
- **TaskGraphs** is the planner's ordering (`dag`), `execute_dag` (`execution`)
  and the recursive `visit` of `build_workflow_plan`, whose call stack is kept in
  `visit`, over any submission: cyclic, doubled, incomplete. The two planners have
  limits of their own (`DagLimit`, `WorkflowLimit`), and so are their permissions:
  `grants.plans` are the nodes whose own plan is executable (`plan_task`),
  `grants.capabilities` those whose capability the caller of
  `build_workflow_plan` holds.
- **MissionControl** has handler threads (`Client`), the worker and the three
  stores; every handler is cut at each store call and carries the mission it
  read. `Steps[m] = 0` is a plain task, otherwise a DAG whose verified nodes are
  `done`. The approval queue is reduced to proposals and tokens of one action. With
  `Faults` any store call of a handler or of the worker may raise. What the worker
  does then depends on the place: in the execution itself the outcome is stored as
  failed, before or after it (outside the `try` of `_handle_queue_item`) only the
  queue item fails, and if that write raises as well the thread ends
  (`wpc = "dead"`) until the process is started again.
- **TriggerDispatch** has dispatches (ready, enqueue, fire, withdraw) and a
  worker that claims and completes tasks at any moment.
- **ExternalSideEffects** has callers, the ledger, and a remote system which
  accepts or rejects a request and whose answer may be lost; `calls` is the
  history of what really happened. `KeysOf` and `Memory` distinguish the REST
  connector (any key, no memory) from mail and calendar (digest, memory).
- **CodingRun** has coding commands (enqueue, create, register, record the gate)
  and approval commands (approve, reject, execute), which die anywhere and are
  repeated, and a GitHub that refuses, loses answers and is pushed to by others.
  All runs are about one action id, which is where they can conflict.
- **GuardedSession** is what the connectors under `browser/`, `application/`,
  `documents/`, `computer/` and `workflow/` have in common: a budget that is only
  spent, a record of completed mutations that only grows and stops repetitions,
  and a checkpoint from which both come back after a restart.
- **BrowserSession** models navigation with its redirects, observation, and
  elements resolved on one observation and acted on later; `refused` is a ghost
  that marks a page the backend landed on and the session did not accept.
  **ApplicationSession**
  models the desk of applications with focus, text and epochs;
  **DocumentSession** reading, combining and writing files that others change;
  **ComputerControl** the backend's input, windows and launches with the
  controller that asks a model, retries and posts outcomes back. All keep what
  was performed as a history variable beside the code's own record.
- **CrossDomainWorkflow** is validation, approval, execution, handoff, drafts and
  restore of a declared pipeline with the trust of every artifact; the workspace
  adapters read and write a file that others write as well. `wfInputs` is the
  history of how each input had come to the step that used it.
- **DigitalRuntime** routes a goal, plans, authorises, runs with retries and
  resumes: `audit` is the record list with the validity of its chain,
  `checkpoint` the file, `run` the run in progress, `interruptions` the history
  of steps a crash cut off.
- **PostChange** collects commit, pull request, files and tests in separate reads
  while others push, change the pull request and run workflows (`ciRuns`), then
  judges (`reports`) and asks the release boundary (`released`). The live verifier
  has a policy of its own (`Policies`), among others whether unexpected checks may be
  reported; the request says so for the gate before it, independently. `green` is
  what the checks really were when they were read.
- **ChangeMonitoring** is one observer that asks GitHub several times (an answer
  may be from any moment of the timeline since it asked) and the memory file with its
  bounds, which other parts fill as well.
- **ImprovementLoop** is inspect, ask the providers in order, parse, review,
  test, revise, store, and what the approval command does with the stored run
  later. A file is a set of regions with texts and says how its lines end, which the
  patch check does not compare beyond the last line; a checkout that somebody edits
  and redaction make what the model sees different from the approved commit.


## 3. Runs

| run | instance | distinct states | what it checks |
|---|---|---|---|
| `approved_execution` | 1 action proposed twice and decided twice, 2 executors, 2 tokens; or 2 timelines of a pull request, 3 observations, memory of 4; or the models' answers to a proposal, 1 edit, 1 revision; or 2 overlapping workers, 1 task, leases of one tick, clock to 2, 3 attempts, lock timeouts | 676 K | an action runs once; reports are backed by the ledger; tokens come from their own audited approval; no older state of a pull request is remembered after a newer one; committed lines are reviewed; a task is handed out once per authorisation; two handlers of a task only after a lease ran out; refinement of `TaskLifecycle` |
| `lost_decision` | 2 actions, a proposer and a decider | fails | section 6 |
| `resumed_execution` | 1 caller, 3 steps, 2 identities, 1 retry, budget of 4, 4 calls; or 2 adaptive calls; or every graph of 3 nodes and some of 4 and 5, limits of 4 (DAG) and 3 (workflow), 3 grantings | 1.28 M | verified steps are not replayed; refinement of `PlanProgress`; a verified adapted plan has every step; orders are topological and the planners differ only by limit and permission; a failure reaches its dependents |
| `missions` | 1 mission (DAG of 2, DAG of 2 with approvals, or plain with approvals), 1 handler, 2 tasks, raising store calls, fair; or 1 worker with restarts, 2 tasks, 2 attempts, lock timeouts, fair | 154 K | progress is stored; withdrawn missions are not queued; running missions end; success belongs to its attempt; due tasks are served, claimed tasks end |
| `cancelled_mission` | 1 mission, 2 handlers, 2 tasks | fails | section 6 |
| `lost_step` | 1 mission, a DAG of 2, 2 handlers, 2 tasks | fails | section 6 |
| `racing_callers` | 2 coding and 2 approval commands that come again, faults; or 2 handlers on 1 mission with an overtaking worker; or 2 callers of one execution id, 2 steps | 1.45 M | a run begins once; a branch has every authority; executed means a draft exists; foreign work is kept; one queue item per approval; steps in order |
| `sessions` | the five connectors, one at a time, budgets of 1 to 6, 1 restart, redirect bounds of 0 and 2 | 553 K | refinement of `GuardedSession`; an action hits the page it was resolved on, unless the session refused the one after; outcomes are posted once; taint is kept; a verified step rests on verified ones |
| `other_page` | the browser of `sessions` | fails | section 6 |
| `skipped_handoff` | the workflow of `sessions` | fails | section 6 |
| `operations` | 2 triggers, 2 dispatches, 2 tasks; or 2 callers, 2 keys, a ledger of 1 record; or digital runs, 2 fresh calls, 1 crash; or verifications under 2 policies, 1 push, 2 CI runs | 1.11 M | one firing per cooldown; what waits was fired; one call per key; executed means it happened; verified runs are earned; writes were asked for; an interruption needs a fresh call; passed was green, and passed the gate but for unexpected checks |
| `mixed_snapshot` | the verification of `operations` | fails | section 6 |

**Bounds.** Each is a constant of the specification, named where it is declared,
and only cuts how often something may happen again. `MaxTime` allows a lease of
one tick to run out and one more to be taken. `MaxAttempts` 3 allows a claim, a
confirmed recovery and another. `MaxProposals` and `MaxDecisions` 2 give a
proposal, a decision and one of each that overlaps them. Four calls of
`execute_plan` are a start, a crash, a resume and a call after the end; `Steps`
3 has a first, a middle and a last step, `MaxRetries` 1 a retry and its
exhaustion, `Budget` 4 an allowance that ends in the middle of the plan.
`MaxRecords` 1 with two keys is a ledger that passes its limit. Two of each kind
of process is what the hazards need (each is a race of two); one trigger has a
cooldown as long as two ticks so that firings of different age meet.

Two adaptive calls are one that is cut off and one that finds its children.
Three nodes are enough for a cycle through others, a diamond's half and a
failure with a dependent and an independent successor; all graphs of three are
tried. A diamond and a cycle of four and a plan of five are added so that a DAG is
longer than a workflow may be and a submission than a DAG may be: `DagLimit` 4 and
`WorkflowLimit` 3 keep the order of the code's 16 and 12.
A session is reopened or restored once (`MaxSessions`, `Max...Lives`): the second
life has less budget, a record and an older checkpoint, and a third adds no new
relation between them. `RedirectBounds` are the policy's default (2) and one below
it (0), under which the session refuses what the backend has done. The two
`Policies` are a strict one and one that lets unexpected checks be reported, and a
request may be of either kind.
Seven calls of the workflow are validate, approve, three steps with a handoff
and a call too many. Two fresh digital calls are the one that crashes and the
one that somebody makes after it. A push and two CI runs (one may be of a
workflow or event that the policy does not accept) are what a collection of four
reads can be confused by. Three observations are two that meet and a repetition.

The bound of the code is used where it is small and an own one where it is large
(1000 attempts, 50 pending actions, 10000 records). For most safety properties
of section 5 the bound is immaterial, because they are proved for all values.
Store calls of mission control raise in `missions` only; that `OneItemPerApproval`,
which `racing_callers` checks, holds with them as well is part of its theorem.
Symmetry is used in runs without liveness only, over processes and ids that no
definition distinguishes.

`CHECK_DEADLOCK FALSE` is in every configuration: the programs stop legitimately
when nothing is submitted, and the bounds above make the models stop.

Each property of a passing run has a mutant: a change of one mapped definition
as a slip of the programmer would make it, under which TLC finds the property
violated. Properties without such a change were dropped, and so were the ones
that repeated a guard. Some properties that are proved for all values (section
5) are no longer run: their place is used for parts without proofs.


## 4. Fairness

- `BackgroundWorker!FairWorkerSpec`: weak fairness of `Step(w)`, the worker thread's
  own progress. The thread is scheduled by the operating system, its handler is
  bounded by the sandbox timeout, and `run_forever` polls. There is none for
  `StartWorker` (nothing restarts a worker), deaths, lock timeouts, the clock or the
  clients; hence both liveness properties end in "or every worker is down".
  A lock timeout is an alternative to a step and not part of it.
- `MissionControl!FairSpec`: weak fairness of the worker (`Works`), of the
  process being started again (`Starts`) and of every handler thread going on
  with the request it has (`Proceeds(c)`). None for requests, expiries, crashes
  or raising store calls: `RunningMissionsEnd` is conditional on crashes having
  stopped, and a store call that raised leaves a failed item or a dead worker
  behind, which the property names (section 6).
- `MCMissionControl!ControlSpec` drives either of the two and has the fairness of
  both, each for the part that moves.
- The other specifications are checked for safety only. Their operations run
  when somebody calls them, and nothing in the code calls them again.


## 5. Proofs

Checked by `tlapm` to the last leaf. None of the theorems depends on the bounds of
section 3. What they assume of the constants are the named `ASSUME`s, which TLC
evaluates in the runs: finite bounds are naturals, `None` is not an id, a cooldown
is not longer than the time since 1970, flags are Booleans, the callers that are
counted are finitely many, and the inputs a component is given have their types
(`GraphAssumption`, `AdaptiveAssumption`, `ImprovementAssumption`,
`MonitorAssumption`, `DigitalAssumption`, `AppAssumption`, `DocAssumption`,
`ComputerAssumption`, `BrowserAssumption`, `WfAssumption`). Where a theorem needs
more, it is a hypothesis of that theorem and is named below: `~Overlap`,
`OneCaller`, `OneHandler` with `~Overtake`, and `~WorkersOverlap`. Each holds in the
run that checks the property, but for the two theorems about properties that section
6 shows to be violated: there the run takes the case the hypothesis excludes.

The proof modules follow the MC modules: the parts that one run drives side by side
are proved in one module. The execution engine and mission control have one each,
since MCRacingCallers instantiates those two modules, theorems included, to drive
them with two callers.

- **BackgroundWorkerProofs.** `TypeCorrect` from `TypeInv`. Every step is first
  shown to be one of seven moves of the queue (`QueueMove`), so that the later
  invariants need seven cases and not one per program counter. `LedgerInv`
  (`UniqueIds`, `UnlistedIsFresh`, `AllAccounted`) relates attempts to
  confirmations: it gives `IdsStayUnique`, `ReplayNeedsConfirmation`,
  `FinalStatesStay`. `NoAutomaticReplay` alone is not inductive, since a
  confirmation for an unlisted task would count for a later one. `EarnedInv`
  (claims are of listed items; a returned True is in the history) gives
  `SuccessesAreEarned`. `LeaseInv` (`ClaimsDistinct`, `LeasesKept`,
  `LeasesExclusive`) gives `LeasesExclude`: exclusion needs that an unexpired
  lease in the hands of a worker is still in the file. `AloneInv` gives
  `ClaimsAreCurrent` and `SuccessesMatchAttempts` under the hypothesis
  `~WorkersOverlap`, one worker at a time; with overlap both are false.
  `QueueImplementsLifecycle` is the refinement, step by step.
- **ApprovedExecutionProofs**, execution. `Inv` = types, `LedgerInv` (every ledger
  verifies), `ClaimInv` (who has taken up an action holds its only claim in the
  ledger, and every run has one), `ReportedIsExecuted`, `TokenInv` (who runs has a
  marker for its token). `RunsOnce`, `TokensConsumedOnce`, `ClaimedIsNotReplayed`,
  `ReportsAreBacked`, `LedgerStaysSound`. `OneRunPerAction` follows from the
  ledger, not from the markers: a second approval has another token.
- **ApprovedExecutionProofs**, audit and tokens. `PaidFor`: the tokens issued for an
  action and the deciders that have logged its approval and will draw one are
  together at most its approvals in the log. `TokensAreAudited` alone is not
  inductive, as it says nothing of deciders between the two files; a crash there
  only loses a decider. Hence `TokensHaveApprovals`.
- **ApprovedExecutionProofs**, decisions. `DecidedOncePerProposal` under `~Overlap`
  (no proposal between a load of the queue file and the write that follows):
  `OneDecisionPerProposal`, which is false with the overlap. `LoneInv`: who has
  loaded or replaced the file holds the lock (`Held`), at most one list is under way
  and it fits the file as it is (`Alone`, `DraftsFit`, `PlansFit`), and the
  undecided items of an action, a decision that is written and not yet logged and
  the decisions in the log are together at most its proposals (`Balanced`). What the
  lists of `enqueue_proposal` keep of the items, expiring, ordering and dropping
  them, is a lemma per operator (`ChosenIs`, `PendingFirstIs`, `AfterProposalIs`).
  `ExecutionTypes` is the type invariant.
- **ApprovedExecutionProofs**, improvement loop. `ReviewInv`: what is stored passed
  the review, and between the comparison with the approved commit and the commit
  nothing the comparison read is changed. `CommitsAreReviewed`, whatever the
  providers answer and however the checkout is edited in between. It is about the
  lines of the files, as the check in the code is; how they end is not promised
  (section 6).
- **ApprovedExecutionProofs**, memory of observations. `MonitorInv`: the memory is
  in order, and the entry the observer is about to record fits behind it (`Fits`).
  An eviction takes entries out anywhere: a bounded memory is shown to keep, of
  the observations, the latest (`LatestOf`, by a map from the kept places to the
  old ones), which is what keeps both the order and the entry under way in place.
  `ObservationsGoForward`; the recovery after a regression needs that the last
  observation kept is the last one made.
- **ExecutionEngineProofs.** For any number of concurrent callers,
  `EngineInv` (types; what callers believe verified is; results are backed; the
  checkpoint and the temporary file are backed) gives `StepsRunInOrder`,
  `VerifiedHasEvidence`, `CheckpointHasEvidence`. For one caller at a time
  (`OneCaller`), `SoleInv` relates checkpoint, audit log and locals in every
  place of the code and gives `VerifiedIsNotReplayed`, `TheEndIsFinal`,
  `ReportsAreDurable`, `OneIdentityRuns` and the refinement
  `EngineImplementsPlan`. With concurrent callers these five are false.
- **PlanningProofs**, adaptive executor. `Progressed`: all steps before the
  index are proved, and a child that was observed as verified proves the step it
  was made for; `PlanAccounted`: each step of the caller's plan is still among the
  steps or was taken out by a replan. `AdaptedIsVerified`; a splice moves what is
  behind the index and nothing before it.
- **PlanningProofs**, graphs. `GraphInv`: each answer says what it should of
  the submission (`AnswerIsRight`, `WorkflowIsRight`), what ran is the front of the
  order, what is blocked is the least closed set, and of the depth-first visit the
  invariant of its stack (`Frames`): a dependency of a node under way is visited,
  still to look at, or under way just above it. The recursive functions are proved
  about through the table of their values: a least number, or a least size of a
  remainder, for which the claim failed would have a smaller one. So the layers
  list every node once exactly when the graph has no cycle (`LayersList`,
  `OrderIs`), and the passes of `Affected`, each of which adds a node or changes
  nothing, are done after as many as there are nodes (`AffectedIsDependents`).
  `PlansAreTopological` and `FailuresBlockDependents`, for submissions of any size;
  that a cycle is refused by the visit, and only a cycle, comes from `Frames`: a
  dependency that is under way closes a set in which each node depends on another
  (`RefusedRightly`). Of the two planners it says that a workflow that is accepted
  is an acyclic DAG in order (`WorkflowAccepted`), and that a DAG in order is refused
  as a workflow for its length or a capability only, for any two limits and any two
  grants.
- **OperationsProofs**, triggers. `Typed`, `DistinctIds`, `PlacedIsListed`,
  `WaitingHasReason`: `CooldownIsKept`, `WaitingIsFired`, `FiredStaysListed`.
- **OperationsProofs**, external side effects. `LedgerTyped`, `HoldersExclude`,
  `RecordIsOfCall`, `OneCallPerKey`, and for the outcome `AnswersTrue`:
  `AtMostOneCallPerKey`, `RecordsBelong`, `ExecutedIsTrue`. They hold whatever the
  record limit, because the code evicts no record: a ledger past its limit refuses
  every call.
- **OperationsProofs**, digital runtime. `RunSound` (the run works on its plan under
  the digest of its own request, at the first step that is not done), `WorkEarned`
  (every step taken for done, by the run or by the checkpoint, has its verified
  attempt under the same execution, plan and arguments) and `CutsStand` (until
  somebody calls anew an interrupted execution is unfinished in the audit and no
  run of it goes on): `VerifiedRunsAreEarned`, `WritesWereAskedFor`,
  `InterruptionsWait`. `VerifiedRunIsEarned` alone is not inductive, as it says
  nothing of a checkpoint; the equality of the digests is what carries the evidence
  from one call to the next.
- **OperationsProofs**, post-change verification. `TestsTellGreen`: while a
  collection waits to be judged, checks that satisfy the gate stand for runs that
  had all succeeded; it is kept because the checks are read last and a rerun does
  not change what was read. That the live verifier is as strict as the gate is a
  lemma about the two decisions (`PassedGate`), for any policy and any request, with
  the one exception that the property names: an unexpected check that the request
  forbids and the policy does not. Hence `PassedIsGreen` and
  `PassedIsGated`.
- **CodingRunProofs.** `Typed`, `MarkersExclude`, `Authorities`: `ExecutedOnce`,
  `AuthorizedBranch`, `ForeignKept`. `Drafted` (a command that aims at an executed
  run, or a run stored as executed, has its draft) gives `DraftBehindExecuted`. It
  also holds the theorems of MCRacingCallers: its specification implements the
  server's and the engine's (`RacingServer`, `RacingEngine`), the constants it gives
  them satisfy their assumptions, and so `QueuedPerApproval` and `StepsRunInOrder`
  of the instances yield `RacingHandlersQueueOnce` and `RacingCallsKeepTheOrder`.
  The hypothesis is that the model value that stands for "none" is not the mission
  and not the number 1.
- **MissionControlProofs**, any number of handlers. `Typed` says of every record that
  is stored, read by a handler or held by the worker that it is a real one and that
  a guarded mission keeps its action (`Kept`); without it a resumption could take
  the way of a mission that needs no approval. `Accounted` counts: the queue items
  of a guarded mission and the handlers on their way to make one (`Pending`) are
  together at most its tokens. `OneItemPerApproval` alone is not inductive, as it
  says nothing of a handler that has approved and not yet enqueued; with
  `Pending` an approval adds a token and a handler, an activation turns the
  handler into an item, and everything else, a crash included, only loses
  handlers. `QueuedPerApproval` holds for any number of handlers and with a
  worker that overtakes them; the handlers are assumed to be finitely many.
- **MissionControlProofs**, one handler at a time and no worker that overtakes it
  (`OneHandler`, `~Overtake`; `Missions.cfg` runs this case, and with two handlers
  the read of one may be behind the write of the other). `Steady` = `StoreS` (the
  item a mission names is its own, and waits only while the mission does), `WorkS`
  (what the worker has read of the mission it executes is what the store holds),
  `ServerS` (the items to recover) and `CallS` (what a handler read, or is about to
  store, is what the store holds, but for a cancellation that the queue will
  refuse). `WithdrawnStayOut`, `SkippedStepsAreStored`, and
  `CancelledAreNotExecuted`, the property `cancelled_mission` violates with two
  handlers. All of them hold with and without store calls that raise.
- **SessionsProofs.** The refinement of GuardedSession, connector by connector:
  `ApplicationsAreGuarded`, `DocumentsAreGuarded`, `DesktopIsGuarded`,
  `BrowserIsGuarded`, `WorkflowsAreGuarded`. Each has an invariant of its own
  (budgets are not overdrawn, a checkpoint holds nothing that is not on record; for
  the desktop, that launches and texts have keys of different kinds), and each
  operation is shown to be one of `Work`, `Renew`, `Resume`, `Narrow` or a stutter.
  `SessionsCompose` and `SessionsAreGuarded` put the five together, as MCSessions
  does. `OutcomesAreFinal` from `PostsInv` (a request that carries an outcome is not
  posted before its only attempt). `ActionsSeeTheirPage` from `PageInv` (what the
  connector shows is the page the backend is on, unless the session refused the
  last landing), for any redirect bounds. `VerificationIsGrounded` from `WfInv`, in which each verified step
  rests on verified ones, in the session and in the checkpoint; that what comes
  before a step is verified is by the table of the closure, as for graphs.
  `TaintStays` from `TaintInv`: trust is the least of what an artifact was made
  from, and a handoff is of what a verified step made, which is executed no more.

Every invariant, action property and refinement that a passing run checks is stated
by a theorem. Every module that states a type invariant has it proved.

Only model-checked: the liveness properties `DueTasksAreServed`, `ClaimedTasksEnd`
and `RunningMissionsEnd` (liveness under fairness and `ENABLED` are out of the
prover's reach). Of the six properties that section 6 shows to be violated two are
proved under the hypothesis that excludes the cause, and a third
(`StaleTargetsFailClosed`) with the exception that names it. No RECURSIVE operator is used.


## 6. Where code and documents disagree

Six disagreements are shown by a run each:

- `lost_decision`. `enqueue_proposal` (`action_queue.py:140`) loads the queue and
  rewrites it without the queue's lock, so a decision that falls in between is
  undone and the proposal can be decided again, even the other way. `approval.py:19`
  and `FINAL_AUDIT_20260928.md:111` say that these paths share one lock. The overlap
  is the only cause: without it the property is a theorem
  (`DecidedOncePerProposal`).
- `cancelled_mission`. `cancel` (`mission_control.py:567`) decides from a record it
  read before the mission was activated; its `put` marks a mission cancelled that
  the worker executes. `README.md:311`: "queued mission was cancelled before
  execution". With one handler at a time it is a theorem
  (`CancelledAreNotExecuted`).
- `lost_step`. Of two requests that resume one failed mission, on two threads of the
  server, the later `put` (`mission_control.py:740`) stores the steps it read before
  the run of the earlier one verified more of them, and these are executed again.
  `README.md:163`: resume works "while preserving already-verified DAG steps". With
  one handler and no raising store calls TLC finds no lost step.
- `other_page`. `navigate` lets the backend follow redirects up to the bound of the
  policy, and only then `record_navigation` (`browser/connector.py:171`) refuses a
  chain longer than the session allows. The connector keeps the page it showed, so
  a target resolved there is taken for current and the click lands on the page the
  backend is on. `browser/models.py:257`: "using it after the page changed is a
  stale target and fails closed". Nothing else leads there
  (`ActionsSeeTheirPage`).
- `skipped_handoff`. A step is executed once its producers are verified; that the
  declared artifact was handed to it is not asked.
- `mixed_snapshot`. The list of changed files is the pull request's as it is now,
  their contents are the expected commit's, so that a push between the two reads
  lets a commit pass that changes a file outside the manifest.

The findings of `PROJECT.json` quote the lines. Others were met while modelling;
the models behave as the code does in them, and no property is stated that would
hide them.

Queue, approvals, execution:

- `task_queue.py:215` increments `attempts` unchecked, and `:92` refuses every
  file with more than 1000, so that one item could stop the whole queue.
- `execution_engine.py:168` resumes an execution that was interrupted in the
  middle of a step; `docs/phase-n2-web-research.md:21` says "interrupted
  executions are never automatically replayed". `NoReplay` is therefore about
  steps with a verified result.
- `mission_control.py:551` keeps the last item with an id when the queue has
  several, where the rest of the code takes the first.
- `mission_control.py:595`: the recovery at start can overwrite a mission that is
  already verified, but takes no step back; `StepsStayVerified` is about steps.
- `mission_control.py:886` and `:888`, like everything before the `try` of
  `_handle_queue_item`, are outside it: when one of these store calls raises (a
  `FileLockTimeout`, `file_lock.py:60`), `background_worker.py:56` completes the
  queue item as failed and the mission stays "running" until the process is started
  again, though nothing executes it; if that write raises too, the worker's thread
  ends. `README.md:305` says of `running`: "currently executing".
  `RunningMissionsEnd` names these two cases and excludes every other.
- `mission_control.py:371`: the worker may finish a mission before the request
  that queued it stores it as queued. `missions` excludes this (`Overtake`),
  `racing_callers` includes it.
- `trigger_dispatch.py:60` and `:63`: a process that dies between enqueue and fire
  leaves a task whose trigger may fire again, and a dispatch that lost cancels a
  task that another dispatch with the same task id has reported as queued;
  `N31-N46_BOUNDED_AUTONOMY_CONTROLS.md:30` says that cooldowns "prevent
  duplicate trigger-driven work across restarts". The properties are
  `FiredIsListed` (proved) and `WaitingWasFired`, which name these cases.
- `connector_registry.py:170` builds the REST connector without the ledger, for
  which nothing of ExternalSideEffects is promised.
- `coding_run_store.py:573` changes a run without a lock, so a late command can
  overwrite a terminal state. `BegunOnce` rests on the marker, not on the state.
- `approval_cli.py:67` approves before the run is stored, and `approval_cli.py:120`
  calls `runs.list_all()`, which the store does not define.

Adaptive execution and graphs:

- A call repeated under the same id gets VERIFIED without results from a child
  that is already verified, takes that for a failure, and the retry, which is a
  child with a new name, runs the tool again. A child that failed or lost its
  evidence ends the repeated call in RECOVERY_REQUIRED.
  `N18_OBSERVE_VERIFY_RETRY_ADAPT.md:91` defers durable reconstruction. The
  property is about what one call reports as verified.
- A replanner that answers None makes `tuple(replanner(...))` raise.
- A DAG may have 16 nodes (`task_dag.py:13`) and a workflow 12 steps
  (`workflow_engine.py:12`), so one of 13 to 16 nodes is planned and ordered by the
  first and refused by the second; the first asks whether each node's own plan is
  executable (`task_dag.py:144`), the second whether its capability is granted
  (`workflow_engine.py:112`), so that either may refuse what the other permits.
  `OrdersAreTopological` names both differences.
- A refused DAG has no nodes, and `execute_dag` of it reports success; after a
  failure, later nodes that do not depend on it are in no list of the result;
  the branches for blocked dependencies cannot be reached in a sorted order.

Sessions and workflows:

- `computer/policy.py:181`: a key press is refused only for exactly a blocked
  combination, a hotkey for any combination that contains one.
- `computer/observer.py:80`: the verification of a launch may rest on the process
  id of a window that is closed by now.
- The workspace backend compares the declared outputs with what it produced
  after the write has landed; its read and its write of the file are two
  operations. After a restore the payloads of artifacts are gone. The action
  budget of a pipeline counts the steps and not handoffs or drafts.

Digital runtime:

- The capability contract says that only idempotent capabilities may have more
  than one attempt; nothing enforces it.
- After an interruption, a new call that ends blocked or failed makes its own
  ending the last record, so that a resume after it no longer sees the
  interruption and repeats the step. The checkpoint of another plan is
  overwritten. A resumed run may repeat a verified step if the process died
  between its record and the checkpoint, against the docstring of
  `_resumable_steps`. `InterruptionsNeedAFreshCall` is stated accordingly.
- The branches for an approval after an executable plan and for a refusal of a
  step that was authorised before are unreachable.

Verification, monitoring, improvement:

- The fingerprint of an observation does not include when it was made and a
  workflow that is run again keeps its id, so of success, failure, success the
  recovery is not recorded, which `tests/test_github_post_change_observer.py`
  calls meaningful. A pending run is reported as a regression. A finding and its
  evidence are two records, and a process that dies between them records the
  finding again. Two concurrent observers could record out of order; only tests
  call the observer, and one is modelled.
- `post_change_final.py:191` asks the live policy whether unexpected checks may be
  reported, `post_change_verification.py:1091` asks the request. With the first
  lenient and the second strict, `verify_phase6` passes what `evaluate_verification`
  calls malformed; the policy's default is strict. `PassedPassesTheGate` names the
  case and shows that it is the only one.
- `validate_patch_applies_to_base` announces to "compare exact resulting content"
  (`patch_review.py:165`) and compares `splitlines()` and whether the last line is
  ended (`patch_review.py:176-203`), while the result is joined with line feeds
  (`:156`) and the base comes with the line ends it has (`github_api.py:277`). A
  commit to a file with other line ends rewrites every line of it outside the
  reviewed hunks. `CommittedIsReviewed` is therefore about lines.
- Without a command of its own a proposal's commands are those of the model, if
  the sandbox allows them. The sandbox tests the checkout with the new contents,
  not the approved commit. Context that was redacted or cut survives to READY and
  is only caught when the patch is applied to the base: `CommittedIsReviewed`
  includes that check.


## 7. What is not modelled, and why

Within the modelled parts: texts, redaction of anything but a region, timestamps
other than leases, cooldowns and due, hash values (a flag says whether a chain
verifies), logging, views that only read, and file systems that lose a replaced
file. The file lock is its effect: a call is atomic or times out with nothing done
or, in MissionControl, raises at that place. The sandbox operation behind a step
succeeds or fails. URL, path and selector rules are classes of a few pages, paths
and elements (blocked, confined, consequential), one of each class that the code
tells apart. Session snapshots of the browser have no caller and are left out. The
back ends for a real desktop (Windows) are I/O; the in-memory one and the contract
it implements are modelled.

Assumed of the environment: a remote call that is answered with any code from 200
to 399 has had its effect (`rest_connector.py:313` records such a call as executed;
a redirect that is not followed, or an answer that only accepts the request, counts as
well); of any other answer, or of none, nothing is assumed. Assumed of the tables:
the default capabilities of the digital domains only read (`DigitalAssumption`),
which is what keeps a plan for a goal without signal words from writing, and
`WritesWereAskedFor` rests on it. A trigger's cooldown is a constant: `register`
of a known trigger enables it again, which is modelled, and may give it another
cooldown (`triggers.py:109`), which is not: `CooldownKept` is about triggers that
are registered again with the cooldown they had.

Whole parts: 1.2. The tool registry, capabilities and policies are pure
decisions over tables; ExecutionEngine takes each decision as a choice of the
environment, DigitalRuntime computes it from a small table. Parsing of provider
answers, HTTP and MIME is string processing.


## 8. Plan

Order: most important first. Everything in this list is written, checked and, but
for liveness, proved; eight modules hold the proofs.

1. BackgroundWorker on TaskQueueStore, refinement of TaskLifecycle.
2. ApprovedExecution on ApprovalQueue and LifecycleLedger.
3. ExecutionEngine, refinement of PlanProgress.
4. MissionControl on TaskQueueStore.
5. TriggerDispatch on TaskQueueStore, ExternalSideEffects.
6. CodingRun on LifecycleLedger.
7. BrowserSession, ApplicationSession, DocumentSession, ComputerControl and
   CrossDomainWorkflow, refinements of GuardedSession.
8. DigitalRuntime.
9. PostChange, ChangeMonitoring, ImprovementLoop.
10. AdaptiveExecution, TaskGraphs.

Left: the liveness properties stay with TLC. For `skipped_handoff`,
`mixed_snapshot` and `lost_step` no theorem yet names the cause: that every declared
handoff is made before its consumer runs, that no push falls between the two reads,
and that one request at a time resumes a mission and no store call raises.
