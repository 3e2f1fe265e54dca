# Codepilot: a verification project

TLA+ models of Codepilot, checked with TLC and proved with TLAPS. Codepilot is a
coding agent in Python: a model is called in a loop, it calls tools, the state of
the conversation is kept in files of the workspace, and command line, web and
DingTalk front ends drive it through one runtime gateway. All source paths below are relative to
`src/src/codepilot/`, and document paths to `src/docs/`.

Contents: [1 The system](#1-the-system), [2 Plan](#2-plan),
[3 The modules and the code](#3-the-modules-and-the-code), [4 Runs](#4-runs),
[5 Bounds](#5-bounds), [6 Fairness](#6-fairness), [7 Proofs](#7-proofs),
[8 Where code and documents differ](#8-where-code-and-documents-differ),
[9 Known limits](#9-known-limits), [10 Not modelled](#10-not-modelled).

## 1 The system

Layers, lowest first: `protocols` (data), `llm` and `tools`, `core` (the agent
loop), `sessions` and `observability`, `extensions` (MCP, skills), `runtime`
(composition and lifecycle), `interfaces` (CLI, web, DingTalk). `evaluation` is
an offline harness. Everything runs in one asyncio process; several sessions can
be open at once, each with at most one run executing.

| Component | State it keeps | Operations | Hard part | What makes it correct |
|---|---|---|---|---|
| Session state store (`sessions/service.py`, `repository.py`, `filesystem.py`) | `session.json`, `runs/<id>/run.json`, `messages.jsonl`, two `events.jsonl` | begin_run, commit_run_boundary, resume_run, inspect_recovery, update_session_mode | each call is several file writes; crash or OSError between any two; repeated calls; half a line | one active run; finished runs frozen; cursors name stored messages; a repetition never conflicts; interrupted calls are repaired |
| Session coordinator, commit adapter (`runtime/session_coordinator.py`, `session_state_adapter.py`) | cached session record, cached run record of the executing run | prepare_run, prepare continuation/resume/plan command, commit_run | caches that may be stale after a failed call; retry with a cancellation in between | cache current between boundaries; the next commit is never refused for its revision |
| Gateway, active runs (`runtime/gateway.py`, `registry.py`, `executor.py`, `lifecycle.py`, `environment.py`) | one registry entry per session, one lock per session, resource scope per run, RunLifecycle | dispatch, cancel, open_session, close, close_all | cancellation racing completion, commit and release; a consumer that goes away; closing while a run executes or prepares | one execution per session; resources always released; accepted cancellation honoured; terminal only after commit |
| Commands, configuration (`runtime/commands.py`, `builder.py`, `actions.py`) | the registered controller of a session, its mode and plan | new, open, resume, fork, mode, plan, continue | several commits per command; controllers derived while a run executes or waits | the session takes the user's next step and is in the mode he chose |
| Core loop (`core/driver.py`, `reducer.py`, `policy.py`) | CoreState: task, failures, counters, plan | model step, tool step, boundary commits, control policy | limits, cancellation between steps, waiting for approval, resuming a half executed batch | every tool call gets one result; limits hold; completion is verified |
| Plan (`core/plan.py`, `commands.py`) | steps, evidence, pending revision, close request | submit, progress, revise, close, approve, reject, abandon | a revision that waits while the work goes on | completed work is kept |
| Tool runtime (`tools/runtime.py`, `state_store.py`, `state.py`) | attempts, approvals, prepared resumes | prepare, execute, decide, resume, checkpoint, restore | crash between execution and result; answers stored apart from attempts | nothing unapproved starts; a handler starts once; every question can be answered |
| Tool execution, registry (`tools/execution.py`, `registry.py`) | semaphores, serial locks, running calls; tools by name | schedule, timeout, cancel; register, look up | several permits with one deadline; a tool that is replaced while its call waits | limits held, leases returned; a call runs the tool that was shown |
| Security, sandbox, builtin tools (`tools/security.py`, `sandbox.py`, `builtins/`) | files, processes | write, edit, patch, run a command | I/O errors half way; a process that outlives its call; chains of commands | a tool reports what it did |
| Context (`sessions/context`) | summary and its cursor, artifacts, working set | prepare, thin, compact, observe | a summarizer that fails; restarts; evidence that ages | nothing is out of the model's reach; what is called fresh is |
| Memory (`sessions/memory`) | one file of records per scope | remember, propose, approve, edit, withdraw, recall | commands of several replacements | what is recalled is the user's last word |
| Rollback (`sessions/rollback`, `workspace.py`) | baseline, `rollback.json` | capture, record, plan, revert | edits, staging and commits in between, crashes | the user's later edits are spared, the run's changes reverted |
| Subagents (`runtime/subagents`) | registered agents, their reports | dispatch, run in parallel, store | children that fail, are cancelled, or report nonsense | every task is accounted for |
| Model port, providers (`runtime/model.py`, `llm/`) | stream assembly, retry counter | call, stream, retry | failure after output was shown | Core sees one attempt |
| MCP client (`extensions/mcp`) | servers, transports, registered tools | discover, call, close | servers that fail half way | every server and connection is accounted for |
| Web (`interfaces/web`) | event hub, queues, pending decisions | submit, decide, cancel, subscribe | slow or disconnected browser, restart | no gap without notice |
| DingTalk (`interfaces/dingtalk`) | remembered ids, one handler | receive, reply, approve, cancel | duplicate delivery | a message is acted on once |
| Evaluation (`evaluation`) | workspaces, artifacts, summary | run suite, case, variant, step | steps and preparations that fail | verdicts, summary and kept copies agree |
| CLI, protocols, observability, serialisation | none shared | parsing, rendering, formatting | none concurrent | - |

Interactions. An interface calls `RuntimeGateway.dispatch` and reads the frames
it yields. The gateway asks the session coordinator to *prepare* the action
(store calls), builds a `RunEnvironment`, and runs the core driver as a task. The
driver calls the context service, the model port and the tool runtime and, at each boundary, the
commit adapter, a callback into the session store. When the driver returns, the
gateway commits the outcome through the coordinator and releases the run's
resources. Cancellation enters at the gateway, past the session's lock.

PROJECT.json lists the hazards of this code at the lines where they bite, with
the properties that watch them.

## 2 Plan

Done, in the order of importance:

1. **SessionStore** with the abstract specification **SessionLedger**, **SessionLogs** for torn lines;
   theorems: types, one active run, frozen finished runs, implementation of the ledger, and every
   safety property of the files.
2. **RunGateway**, with theorems for every safety property of its runs; **CoreState** and **CoreLoop**, with
   theorems for their budget, ends, cancellations, answers, verification and effects.
3. **ToolAttempts** and **ToolScheduler**, with theorems for every safety property of their run; **PlanSteps**,
   with its theorem.
4. The files: **RunRollback**, **FileEdits**, **ShellCommands**, **ContextWindow**, **WorkingSet**,
   **MemoryRecords**; their theorems.
5. The services: **SessionCommands**, **ToolCatalog**, **ModelCalls**, **Exploration**, **McpClients**,
   **WebEvents**, **RemoteBridge**, **EvaluationRuns**; a theorem for every property.

Left, in this order:

1. To prove: of `CoreLoop`, what is left of TranscriptSound.
2. Abstract specifications: the outcome protocol of a run (running, waiting, one terminal outcome) for
   `CoreLoop` and `RunGateway`.
3. Composition: `ToolAttempts` with the boundary commits of `SessionStore` as single writes.
4. `close_all` in `RunGateway`; rename and deletion of sessions.

Every module declares its parameters as CONSTANTS, has
one action per operation, and uses no RECURSIVE operator, so that it can be
proved about as it stands.

## 3 The modules and the code

| Module | What it is |
|---|---|
| `SessionStore` | the persistence protocol of one session, one action per file write |
| `SessionProperties`, `SessionLedger` | its properties; the abstract lifecycle of the runs of a session |
| `SessionLifecycle`, `SessionFiles` | the inductive invariants of the proofs about the store |
| `RunGateway`, `RunGatewayProperties`, `RunGatewayOrder` | admission, execution, cancellation, commit and release of runs; its properties; the inductive invariant of its proofs |
| `CoreState`, `CoreLoop`, `CoreProperties` | the pure half of Core; the driver, its boundary commits and the entries of a run; its properties |
| `ToolAttempts`, `ToolScheduler` | the attempts of tool calls; their scheduling |
| `SessionLogs`, `RunRollback`, `FileEdits`, `ShellCommands`, `ContextWindow`, `WorkingSet`, `MemoryRecords` | the files of session and workspace, and what is derived from them |
| `PlanSteps`, `ModelCalls`, `Exploration`, `McpClients`, `WebEvents`, `RemoteBridge`, `ToolCatalog`, `SessionCommands`, `EvaluationRuns` | the services around Core |
| `Services` | what plan, model calls, MCP clients, web backend, chat bridge, rollback, evaluation and session commands promise, with their bounds as constants; ServicesProofs and MCServices extend it |
| `Workspace` | the same for logs, file tools, command tools, memories, exploration and the tool catalog; WorkspaceProofs and MCWorkspace extend it |
| `Contexts` | the same for the two modules about what the model is shown; ContextProofs and MCWorkspace extend it |
| `SessionStoreProofs`, `RunGatewayProofs`, `CoreProofs`, `CoreEffectsProofs`, `ToolProofs`, `ServicesProofs`, `WorkspaceProofs`, `ContextProofs` | the theorems and their proofs (section 7) |
| `MCSessionStore`, `MCRunGateway`, `MCCoreLoop` | what TLC instantiates of the first three groups; symmetry for the first two |
| `MCTools`, `MCWorkspace`, `MCServices` | the other modules. Modules that share no state are checked in one run: the first state chooses the `part` that the behaviour runs. `MCTools` extends both tool modules. `MCWorkspace` has the parts of `Workspace` and `Contexts` and rollback, `MCServices`, which extends it, the other parts of `Services`. The variables of the parts that do not run stay as they begin, which the properties allow |

### SessionStore

State: `session` is `session.json` (revision, `current_run_id`, leaf message),
`runs` the `run.json` files, `log` is `messages.jsonl`, `sessionEvents` and
`runEvents` the two event files. `view` is `RuntimeSessionCoordinator.session_state`
and `port` the `RuntimeSessionStateAdapter` of the executing run, both lost in a
crash. `call` is the service call in progress: the records it computed from the
files when it began, its commit request, and a program counter over its file writes.

A *handler* action (`Begin`, `Reuse`, `Decide`, `Continue`, `CommitBoundary`,
`CommitTerminal`, `PlanCommand`, `SetMode`) is a runtime operation up to the
first write: its guard is the checks of the coordinator and the service, and it
fills `call`. `Write` does the next write in the code's order: messages, `run.json`,
`session.json`, the session's event file, the run's. `Return` is what the
caller does with the result; some handlers make several calls (a reply is a
resume, then a commit of the text; rejecting a plan is a commit, a terminal
commit and a mode change). `Fault` is an OSError before or after the write took
effect; the adapter and `_commit_run` repeat the request once (`Retry`), and a
cancellation can arrive at the `await asyncio.sleep(0)` before that
(`CancelRetry`). `Crash` and `Reopen` reload the files.

A commit id is the record of what the code formats into it (run, phase, revision),
a message id the commit id with an index, as in the code. A digest is the request
itself. The checkpoint of a run is reduced to what recovery asks of it: whether
it waits, and for what, whether it has a prepared tool resume, and whether it
has the rollback baseline. `drift` says whether the workspace differs from what that
checkpoint recorded of it: tools and users change it (`ChangeWorkspace`), a begin and the
adapter's boundary commits record it anew, and `_ensure_workspace_recovery` then refuses an
approval (`Decide`) and every continuation (`Continue`), but not an answer to a question.

`SessionLedger` knows a phase and a revision per run and two actions: `Admit` a
run when no other is active, and `Advance` the active one along `_RUN_TRANSITIONS`
with the next revision. `Ledger` in `SessionProperties` maps `runs` to it.

### RunGateway

One opened session and its dispatches. `task` is the coroutine of each
dispatch, at one of its awaits (`Places`); `attempt` is its `RunEnvironment`:
the lifecycle phase, the cancellation token, the resource scope, Core's task and
the outcome. `entry` is the session's entry in `ActiveRunRegistry`, `lock` the
object in `_session_locks` (`close` drops it, the next dispatch makes another), `view`
the state that each opening's controller holds. `store` reduces the session's
files to a revision, the unfinished run and the attempt that resumed it last, which
decides whether a commit is a revision conflict; `SessionStore` has the rest. `attempt.accepted`,
`saved` and `wrote` record what happened, for the properties.

`Arrive`, `Acquire`, `Prepare`, `GiveUp`, `Start` are `dispatch` and
`_execute_prepared_run` up to the stream; `CoreEnds`, `Consume` the executor;
`CommitWrites`, `CommitFails`, `CommitReturns`, `Released`, `Finished` the way out.
`Interrupt` is a `CancelledError` in the reader's task and does at each
await what the code does there: `_complete_critical` holds the first one
(`Hold`), the second escapes it (`Escape`), and the handler of a cancelled stream has awaits of its own
(`quiesce`, `stopCommit`, `stopRelease`). `Abandon` is `GeneratorExit`. `UserCancels`,
`DeadlinePasses`, `GraceEnds` set and enforce the token. `Close` and `Open` are
`close` and `open_session`. A `ValueError` of `RuntimeLifecycle.transition` is the phase `invalid`.

`CloseBusy` says whether `close` is called while a dispatch is under way. The
front ends of the repository close idle sessions only; the API permits the
other (and `test/` closes an active session), so both are checked.

### CoreState and CoreLoop

`CoreState` is the part of Core without effects. `core` is the `CoreState` record of
`core/state.py`: the task's status, the plan, failures by code and the recovery
attempts on them, blockers, the turn and iteration counters, the workspace revision
and the last verification. `Reduce...` are the functions of `core/reducer.py`, `Decide` is
`CorePolicy.decide`, whose cascade of early returns is the sequence `Rules` (the first
rule that applies decides), and `ApplyDecision` is `apply_decision`. A tool result is
its *kind* (ok, change, passed, error, denied, approval, input, a plan command, ...),
which is what reducer and policy tell apart; a failure is its code.

`CoreLoop` is `run_core` with the coordinator around it. `pc` is the place of the
process between two awaits, `disk` what the last boundary commit stored, `journal` the
driver's messages, `obs` the observation the next decision is about, `entry` the
`CoreRunInput.entry`, `decision` and `batch` the move being carried out. `ws` and `ran` are the
world: changes to the workspace, and how often each call's handler has run.

| Code | Actions |
|---|---|
| `RunExecutor._execute_core`, the entry of `run_core` | RefuseCancelled, EnterWithUserInput, EnterWithMessage, EnterWithResults |
| one turn of `run_core`'s loop: cancellation, decision, settling of open calls | DecideNext |
| waits and ends, and `_commit_run` after them | CommitWait, CommitTerminal, Finish |
| `call_model_once` between its two boundaries | StartModel, ModelReplies, ModelFails |
| `prepare_batch`, `_execute_prepared_items` between their boundaries | Refuse, Admit, RunHandler, FinishBatch |
| token, unexpected exceptions and forced cancellation, a stopped process | Cancel, Interrupt, Crash |
| `_prepare_continuation`, `_continuation_entry` | Recover, ContinueRun, Prompt, CommitPrompt |
| `_prepare_resume`, `ToolRuntime.resume` | Answer, ExecuteResume |
| plan commands of the user | ApprovePlan, ResolveRevision, RejectPlan, AbandonPlan, SwitchToBuild, StartApproved, CloseRun |

A commit is one step here; `SessionStore` has its writes and failures. The comparison made before a
recovery (`Unchanged`) is the code's: HEAD and the hashes of the files that Core knew to have changed at the
last boundary. So a crash in a batch loses changes in two ways (`LoseChanges`): a change of such a file shows and keeps the
run from going on; a change of any other file shows nowhere, and `lost` is all that remembers it. The user's own edits are in
`SessionStore` (`drift`). What is assumed: tools of category interaction, the only ones that suspend while they run, never
need an approval; a verification that is structurally unavailable counts like one that
passed, as in `_reduce_verification`. Which tools a mode offers is not modelled:
the model may call any of them in any mode, which is a superset of what it can do.

### ToolAttempts and ToolScheduler

`ToolAttempts` is `ToolRuntime` and its `CheckpointToolStateStore`. `attempt` and `resumes` are the memory of the
process (attempts by call, answers that were stored before they are executed), `disk` the run's status, its wait and
the "tools" component of its checkpoint. `Prepare` admits a batch: a call that is refused, needs an approval or is
invalid is a barrier that interrupts the others. `StartNext`, `EndInBatch`, `Observe`, `Decide` are the batch between
its boundary commits. `Answer` is `prepare_resume`, `resume_run` and `execute_prepared_resume`, where `resume_run` may refuse or
fail before or after its write; `Continue` executes a stored answer. `Crash` restores the component, as `build_runtime_session` does.

`ToolScheduler` is `ExecutionController`: `at[j]` is the await of the call's task, `held[j]` what it has acquired in the order
slot, group or lock. Cancellations are those of the call's own task (`CancelWaiting` ... `CancelCleanup`), one
action for each await with what is given back, or not, there.

### Files of the session and the workspace

| Module | State and actions |
|---|---|
| `SessionLogs` | a log is its lines, each empty, a whole record or bad, and the last has no end yet; `WriteCut` stops an append after a part of it, `SaveCut` a replacement of the state file before its rename. Readers do what `read_jsonl` does: forgive the last line if it has no end, raise on any other that is broken |
| `RunRollback` | a file in `head`, `index`, `work`; the run's `baseline`, the `affected` paths of its effects and `rollback.json` (`meta`). `Prepare`, `Record`, `Plan`, `Apply` are the service, `Edit`, `Add`, `GitCommit` the user, `Crash` may come anywhere. `mine` remembers the user's part, and `start` the files and the commit the run began with, for the property |
| `FileEdits` | `WriteFile` and `EditFile` are one call each, with the I/O error that may truncate the file; `BeginPatch`, `WriteTemps`, `ReplaceNext`, `ReplaceFails`, `RestoreLast`, `EndPatch` are `_replace_files_atomically` |
| `ShellCommands` | a shell text is a chain of segments with the class the prefix tables give each; a newline joins a segment to the one before it (`PartClass`), since the classifier takes newlines away before it splits. `Handle` assesses and permits; `ThreadStarts`, `Register`, `Collect`, `Deadline`, `Terminate`, `Kill`, `Stopped`, `Cancel` are the process and its cleanup |
| `ContextWindow` | the message groups of a session; `Prepare` is one `ContextService.prepare` with the outcome of its summarizer; `Restart` reloads what the files and the checkpoint name, and the leaf may lag behind |
| `WorkingSet` | `Prepare` observes the tool results since the last one and refreshes; tools, commands that do not say what they did, and the user change files, and the user commits. `head` of a file is its text in HEAD, `Gone` (git shows it as untracked) or `Unlisted` (ignored, or below an untracked directory). Evidence is aged by name, and the name of a read is a path, that of an edit a URI (`Invalid`) |
| `MemoryRecords` | a command is the list of replacements `todo` it has still to make; `Continue` makes the next one, `CutShort` is a crash or a failing write |

### Services

| Module | State and actions |
|---|---|
| `PlanSteps` | `PlanState` with its steps; one action per plan command of the model (`SubmitPlan`, `UpdatePlanProgress`, `ProposePlanRevision`, `RequestPlanClose`) and of the user. A command whose record refuses itself sets `raised` |
| `SessionCommands` | `disk` is what the store keeps of a session, `ctl` the copy of its controller, `exec` the run being executed. A command is the commits it makes (`todo`) and the continuation it asks for (`follow`); between two commits, or in the middle of one, a crash may come (`Crash`) or a write fail (`CommitFails`), and a controller whose copy is not the stored one is refused (`CommitRefused`). The controller has a new mode before the store has it (`ModeAfter`). The failing writes of a run's own commits, and of those that begin or resume it, are SessionStore's |
| `ToolCatalog` | files of extensions and skills that change between openings, MCP tools that are discovered at the first prompt, the registry with its counted registrations, the catalog the model saw, a call that waits |
| `ModelCalls` | the provider's task, its queue of events, the adapter and the retrying port; a block is appended (`ReadBlock`) and may be told later or never (`TellBlock`); `Cancel` at any await, after which the provider may go on until the generators are closed (`CloseGenerators`) |
| `Exploration` | a batch of tasks with a slot limit, the store of agents and reports with the versions of the files they cite; a call that was cancelled or timed out (`Stop`) leaves its handler a grace period, in which the batch may still end and be stored (`Gather`, `Cancel`) |
| `McpClients` | servers one after the other in the discovery, each with a second attempt after a retryable error; transports that are open |
| `WebEvents` | the hub keeps the last events, a queue per browser; an overflow puts the barrier in its place; `Drop` and `Restart` cut the connection, `Connect` resumes after the last event id or from a snapshot |
| `RemoteBridge` | remembered ids with their states, the one task that holds the run lock; the run of a lost reply or a failed frame winds up after the lock is free (`Left`, `WindUp`), and the gateway refuses a message meanwhile |
| `EvaluationRuns` | `run_suite`: cases, variants, steps with their failures, artifacts, kept and removed workspaces, the summary |

## 4 Runs

| Run | Module, specification | Checks | Shows |
|---|---|---|---|
| `session_two_runs` | MCSessionStore, `Spec` | SingleActive, HistoryKept, TerminalFrozen, ImplementsLedger | two prompts and one fault: no second active run, the history of finished runs stays, the file protocol implements the ledger |
| `session_one_run` | MCSessionStore, `FairSpec` | FilesConsistent, RetrySafe, SessionInvariant, RunsOnlyExtend, RunsRecover | one run, a fault at any write and the repetition, two contents: files consistent at every crash point, repeated commits safe; the inductive invariants of the proofs; an interrupted admission is repaired, and an active run executes again or ends once its workspace stays as recorded |
| `gateway_runs` | MCRunGateway, `Spec` | OneCore, CancelStopsCore, NothingLeftBehind, GatewayOrder | two dispatches, two interrupts each, a deadline: one Core, it can be found and cancelled, nothing is left behind; the inductive invariant of the proofs |
| `gateway_close` | MCRunGateway, `FairSpec`, `CloseBusy` | FrameIsDurable, CancelledRunEnds | what still holds when a busy session is closed and opened: the last frame is true, a cancelled run ends and frees its session |
| `core_runs` | MCCoreLoop, `Spec` | TranscriptSound, CompletedIsVerified, PlansEndWithTheRun, OneTurnOverBudget | every answer of the model, the tools and the user to a run, with and without a plan |
| `core_recovery` | MCCoreLoop, `Spec` | CallsSettledWhenOver, EffectsAreRecorded, CancelledStartsNothing | the same with a crash, a cancellation and an exception at every step: no execution is forgotten, and no change but of files that a batch cut off by the crash was the first to write |
| `tools` | MCTools, `MCSpec` | StartsApprovedOnce, QuestionAnswerable, LimitsRespected, EveryJobEnds | approvals, single starts, answerable questions; limits of the scheduler, and an end for every call |
| `parts` | MCServices, `Spec` | StoredIsRead, RollbackRestores, ToolsAreHonest, ContextIsTrue, RecallIsTheUsersWord | the seven modules about files |
| `parts` | MCServices, `Spec` | WorkIsKept, OneAttemptShown, BatchesAreAccounted, ServersAreAccounted, NothingMissed, ActedOnOnce, CallsRunWhatWasShown, SessionsGoOn, SuiteIsHonest | the nine modules about services |
| `doc_slots_returned`, `doc_logs_stay_readable`, `doc_commands_answered`, `doc_calls_answered_once` | MCTools, MCServices, MCCoreLoop | one property each | section 8; TLC finds each violated |

Every module's type invariant is checked as a conjunct of one of its properties (`HistoryKept`, `GatewayOrder`,
`TranscriptSound`, `StartsApprovedOnce`, `LimitsRespected`, and the ones of the parts). Every property of a passing run has a mutant: a plausible bug
in one definition (the "Plausible bugs" of each module) with which TLC finds it violated.

## 5 Bounds

- `RunIds`, `Requests`: two in `session_two_runs`, one in `session_one_run`. Two are what a second
  active run, a repair and a prompt after a finished run need. Request ids are per
  prompt, so more of either only adds finished runs, which nothing changes (FinishedRunsFrozen
  is proved for any number).
- `MaxFaults`: one OSError or crash, at any write, before or after it took effect; the code repeats a commit
  once after an OSError. The inductive invariant is proved for any number of faults.
- `MaxRev`: a run may advance to this revision (then only terminal commits); 4 admits begin, the prompt's
  commit, a wait and its answer, 3 (in `session_two_runs`) what leads to the wait. `MaxSession`: mode
  changes by the user stop there; `session_one_run` has only the one that rejects a plan,
  `session_two_runs` the user's too. `MaxNew`: messages in one commit; 1 has both the empty and the
  message-writing commit, and a commit with two messages is the same write twice.
- `Bodies`: two, so that a retry can meet other content.
- `Dispatches`: two. `MaxInterrupts`: two in `gateway_runs`, since `_complete_critical` behaves differently at the first
  and the second. `MaxOpens`: how often the session is opened, two in `gateway_runs`, one in `gateway_close`
  (opening a busy session is refused, so a second opening follows a close).
- `MaxCalls` of Core: three in `core_runs`, two in `core_recovery`, `MaxBatch` two: a batch of two, and one of one. The calls that
  are refused, deferred (`PerTurn`), open and answered at one moment need no more.
  `MaxEntries` three: a run is started and resumed twice, `MaxCrashes` one.
  `Qualified`, `MaxRecoveries`, `BaseTurns`, `BaseIterations`, `BaseRepeats` are the limits of the code, made
  small so that each is reached. `AdmissionKinds`, `HandlerKinds` and `Events` choose the results and events of a run:
  `core_runs` has all of the plan and of verification, `core_recovery` what cuts a run off.
  `CountCap`: failures of one code are counted no further than policy compares.
- `tools`: two calls over two runs with one crash and one fault; three jobs over two slots, a group of one and a
  serial lock, a queue of two (so that one job meets a full queue), one cancellation of each. `Mixes` are the policies of the jobs,
  up to their order.
- `parts`, the files: two records and one cut per log (a second append follows the cut); two files and one edit of each kind in a rollback;
  two paths and two words in a patch; chains of two segments, every pair of classes and every connector; five message groups with a
  budget that the fourth exceeds; one file and two evidence items in the working set; four memory records, of which a replaced one, a
  candidate and two keys.
- `parts`, the services: two steps of a plan and four revisions; two blocks and one retry of a model call; two tasks on one slot; two
  servers; hub and queue of two with five events (both overflow); one remembered id for three messages; two openings of a catalog; two sessions,
  one run and one crash or failing write for the commands (modes plan and build: `read` behaves as build but cannot plan); three evaluation cases, the last with two variants.

The cfgs other than those of Core switch deadlock checking off: a closed session, a command that is over, and a session whose
bounds are used up, stop. Core's runs check it: between two entries a run may rest (`Rest`), and in every
other state the driver has a next step.

## 6 Fairness

Sessions: the event loop continues a call that has begun (`Service`), the client
repeats a prompt whose admission was interrupted (`Reuse`), decides or
continues a run that is shown as recoverable, and reopens a session that
reports stale revisions. These are weak fairness of single user-visible
operations; new prompts, commits, faults and mode changes have none.
Nobody is assumed to put a changed workspace back: `RunsRecover` asks for that.
It stops at the bound `MaxRev`.

Gateway: asyncio runs a task whose await is complete (`Acquire` ... `Finished`),
timers fire (`GraceEnds`), and a task that was cancelled ends
(`forced /\ CoreEnds`: `environment.py` cancels the tasks of the scope, and Core reraises).
Nothing says that Core ends by itself, that the user cancels or that the
deadline passes: `CancelledRunEnds` is about runs that have been cancelled.

Scheduler (`tools`): a task whose await is complete goes on, time passes so that deadlines do, and a handler ends once its own
task has been cancelled. Nothing says that a handler ends by itself, nor that a waiting task gets a permit (asyncio's
semaphores are fair, but `Acquire` has no fairness): `EveryJobEnds` follows from the deadlines.

The other modules have no liveness property: what they promise is about what is there when something has ended, or they wait for
users and servers that owe them nothing. That an entry of Core ends follows from two checked facts, that the driver is never stuck
(deadlock) and that its turns are bounded (OneTurnOverBudget), given that every model call and every handler returns.

## 7 Proofs

Every theorem holds for every value of the constants, under the ASSUMEs of its module: bounds are natural numbers, and the values that
stand for "none" are not values of the set they are added to. Modules that are instantiated have such conditions as a named hypothesis of the
theorem (`PlanLimits`, `EditLimits`, ...). Except for liveness, every property of the passing runs is proved, but for what is said below of
TranscriptSound. Each proof has the same form: an inductive invariant, in a module of its
own or at the head of the proofs, which TLC has checked on the runs; one lemma per action that says which of its parts the action can disturb; and the
property as a consequence.

### Session store

- `TypeCorrect`: `Spec => []TypeOK`, with the strengthening `Typed` (a call at a
  given program counter has the operation and the request that its next write reads).
  One lemma per action; `CommitCallType` is the common part of all commits.
- `LifecycleInvariant`: `Spec => [](Typed /\ Lifecycle)`. "One active run"
  is not inductive: a call that was accepted when it began writes `run.json`
  some steps later. `Lifecycle` adds
  *RunsInOrder* (an absent run has revision 0, and a run is past the revision of its last commit, so that
  the next one is not taken for a repetition),
  *CallWritesSuccessor* (what a call is about to write is a legal successor of what
  is on disk, and for an admission no run is active),
  *CallOfHandler* (which call serves which handler), and
  *PortFollowsRun* (the adapter's copy is the run on disk or, when the outcome of a
  commit is unknown, one revision behind). The last part is what makes a
  repetition or a cancellation after an OSError safe.
- `OneActiveRun` follows; `FinishedRunsFrozen` and `FilesImplementLedger` use it with
  the lemma `RunsChangeByWriteRun`: only `WriteRun`, in a write or a fault that took effect, changes `runs`.
- `FilesStayInAgreement`: `Agreement` (`SessionFiles`; `SessionInvariant` with what it needs) has three groups. *FilesAgree* is about the files alone; *ProcessAgrees* says
  that a run with leftovers of a cut-off commit is one that the coordinator shows; *CallAgrees* keeps, for every write that a call has still to
  make, what it computed from the files it loaded. `FilesAlwaysConsistent`, `HistoryIsKept`, `RetriesAreSafe` and
  the action property `TranscriptsOnlyExtend` follow from it and `Lifecycle`. `Chain`, the messages from one back to the root, is
  defined without recursion, as the smallest set that contains the message and the parents of its members: that an append changes no chain is then
  a statement about sets and not an induction. `NullsAssumption` and `ScopesAssumption` say that
  the ids of prompts and of commits differ, which their formats in the code make true.

### Gateway

- `GatewayIsInOrder`: `GatewayOrder` has three parts. `TypeOK`; *DispatchOrder*, what the await at which a dispatch stands says of
  its own attempt (phase, outcome, token, what was stored, how it ends); and, if sessions are closed between dispatches only
  (`~CloseBusy`), *SessionOrder*: who waits for the lock or holds it has the lock of the session as it is open, the holder is alone, the registry
  entry follows it, the stored run belongs to it, and what has ended has released all it had.
- `AcceptedCancellationsHold` and `LastFramesAreDurable` need only the first two and hold with `CloseBusy`. `CoreRunsOnce`, `AttemptsStayInOrder`
  and `DispatchesLeaveNothing` assume `~CloseBusy` and are false without it: a `close` drops the lock object of a busy session, and the next dispatch gets another
  one (section 8). `TransitionsAreLegal`: no call of `RuntimeLifecycle.transition` is ever refused.

### Tools

- `HandlersStartApprovedOnce`, `QuestionsStayAnswerable`: the invariant says which call of a batch a step is at (*Numbered*, *BatchInOrder*), that one
  handler runs at a time and the attempts before it are over (*OneRuns*), that an approval belongs to the attempt that asked (*ApprovalsHold*), that
  a start is recorded in memory before the handler and in the checkpoint with the next boundary (*StartsHold*), and that the wait on disk names
  an attempt that the checkpoint has (*QuestionHolds*).
- `SchedulerKeepsLimits`: for any finite set of calls, any limits and any number of cancellations (`Limits`: the limits are
  numbers, the policies those of tools), the scheduler keeps TypeOK, LimitsRespected and LeaseReturned, the conjuncts of
  the property that the run `tools` checks with three calls. The run's `MCSpec` interleaves both tool modules, which share no
  variable; the theorem is about `SchedulerSpec`, its half. `LimitsRespected` counts running handlers and is not inductive: the
  invariant `JobsInv` says what a task holds at each of its awaits (*Stages*: a running handler's call holds all it needs, an
  ended call that was not cancelled holds nothing) and that nothing is held more often than it exists (*WithinCapacity*). The
  running handlers are then a subset of the holders of what they need (`RunningWithin`).

### Core

- `CoreInvAlways`: *Shapes* (state, transcript and record have their fields, and no more calls are said than there are), *TurnsPaid* (the turns of an entry, counted with the
  one under way, are within the budget or were paid by the decision that allowed them), *SettledAtEnd* (from a decision to end on, no call is open),
  *CancellationEnds* (a token that was seen leads to an end). `TurnsStayInBudget`, `EndsSettleCalls` and the action property
  `CancellationStartsNothing` follow.
- `CallsAnsweredOnce`: until the process crashes, no call is answered twice. `OnceInv` follows the calls that may still be
  answered from the observation to the batch: they are said, different from each other, and open. After a crash it is
  false (section 8), so the theorem is about `crashes = 0`.
- `PlansDoNotOutliveRuns`, `DecidedEndsEndPlans`, `CompletedRunsAreVerified`: `EndInv` says that a task is satisfied only when its plan
  has ended (*Satisfied*), that a decided end is committed before the run is (*EndsOnce*), and that without a decision only a cancellation
  ends a run (*OnlyCancelled*); until a crash it adds that a satisfied task was checked (*Checked*). `PlansDoNotOutliveRuns` assumes that nobody
  cancels: a run that is cancelled before Core sees its entry is stored with its plan as it was. `DecidedEndsEndPlans` has no such assumption.
- `ChangesDoNotEscape`, `EffectsDoNotEscape` (`CoreEffectsProofs`): `EffectInv` says at every place of the program what Core, its transcript and the files
  know of the world. A changed workspace shows in the revision, or the change is one of a batch that was cut off (*Recorded*); what ran is
  answered (*Answered*), except while it waits for its place in the results (*AtExecution*, *AtDecision*, *AtMove*), in a
  resumed approval (*AtEntry*) and, in the files, behind `before_tools` or the prepared resume (*Stored*). `ReadOnly` is the same for a
  run that may only read. `KnownShows` says that a run whose checkpoint shows a change which a crash kept from Core is with the user; what
  a cut-off batch did to files new to Core is in neither theorem. The first theorem has no hypothesis. Of EffectsAreRecorded as a whole one part needs `Careful`, that
  there is no crash or no plan command: after a crash in the middle of a batch a plan command stores `after_tools` over calls that
  have run (section 8), and ExecutionIsRecorded is false then.
- Three operators are written for these proofs. `Unsettled` chooses the increasing sequence of the open calls instead of filtering, `ApplyCommands`
  leaves the state alone when there is no command and otherwise takes the fields of the plan, and nothing else, from the fold over the commands,
  and `Decide` takes the first rule that holds by the least index. What the fold computes would need an induction over the
  batch; that it touches only the plan's fields does not. Where a first element is needed (the first rule, the first open call), the proofs use that every non-empty set of
  numbers has a least one (`WFMin`), instead of induction.

### Services

The theorems are about the eight instances in `Services`, each with its own specification. In the run `parts`
they are parts of MCServices and MCWorkspace, which give the constants their values.

- `PlansKeepWork` (completed work stays completed and keeps its evidence, which only another completion of the step by the model replaces): the invariant is hardly more than the types; the work is in `KeptFacts`, which says that a replacement keeps its
  definitions, and that a step of the plan that is alone with its definition is taken over as it is wherever that definition is in the
  replacement. `MaxSteps` and `MaxRevision` are any numbers (`PlanLimits`).
- `MessagesAreActedOnOnce`: that a message was sent at most once more often than it was excused is not inductive, since a message is remembered
  before it is sent and may be forgotten while it waits. `BridgeInv` counts: times sent, and one if it is about to be sent, are at most times
  excused, and one if it is remembered. A run that no task reads is one of *Unread*. `BridgeLimits` says that the id that stands for no message is not one.
- `BrowsersMissNothing`: `WebInv` says that the events the hub keeps are consecutive and end with the last one published; that those on a connection and those in its
  queue are consecutive too, and the queue begins where the connection ends; that the queue ends with the last event published unless the
  barrier heads it. What is on the connection is known or starts with a snapshot. `WebLimits` says that the hub and the queue hold at least one event, as
  their constructors require.

- `CallsShowOneAttempt`: while a reasoning call streams, what Core was shown or waits in the queue are the blocks that were told (*MessageTold*), so
  that taking an event moves nothing; the end of the stream is the last in the queue (*QueueEnds*), so that nothing waits any more when the message is taken.
  All blocks shown are of the current attempt (*ShownLast*), since a reasoning call is not repeated once a block was shown.
- `ServersStayAccounted`: *Connections* says which transports are open while nothing was cut short, that a server which was not
  looked at has none (a discovery would lose it), and that two attempts per server bound their number; *Discovery* says where the
  discovery stands, and every server before it is *Settled*. `McpLimits` is that there is a server: a manager without one has nothing to discover.
- `RollbacksRestore` has no hypothesis: any files, contents, commits and edits. `RollbackInv` says that a file the user has made since the run was recorded differs from what was recorded
  and is not in the plan (*UsersFile*), that an eligible baseline means files as in the commit the run began with (*CleanStart*), and that, while the plan is
  applied, a file the user leaves alone is not staged, and is as in the index once nothing is to be done to it any more (*FileReverts*).
- `SuitesAreHonest`: *SuitePlace* says at which case, variant and step a suite is, *VariantInv* what the steps of a variant so far make of its verdict and
  what is kept of its workspaces, *CasesInv* the same for the cases that are over. `SuiteLimits` says that a case has a variant and that numbers are numbers.
- `SessionsAlwaysGoOn`: *RowInv* relates, per session, the run on disk, the controller's copy and the run that is executed, and says why a copy or a mode may be
  another one than the stored: the controller was derived too late, or a write has failed. *PlanAtHome* (a plan is carried out outside plan mode) fails between the
  approval of a plan and the change of the mode; *TodoInv* says which commits a command has still to make then, so that the next one leaves plan mode, and
  `CutOffStays` that a command which is cut off there leaves its run astray. `CommandLimits` says that the first session is one, and that its modes include build and plan and are those of the code.

### Workspace

The theorems are about the instances in `Workspace`, like those of Services. Several models have recursive functions over lists (the statuses of a
chain, duplicates in a batch, registrations in order). What they compute is found without the library's induction: a list for which the claim fails at some
index has a least such index, and the step up to it contradicts that; that the function exists is shown in the same way.

- `StoredIsAlwaysRead`: for any numbered records. `LogInv` says that among the lines that have an end every stored record is whole or one line is bad for ever,
  that no message is stored twice, and that the state that is being saved is newer than the one in the file.
- `ToolsStayHonest`: `EditInv` says what a patch has changed at each of its steps (*PatchAccounted*: the files replaced so far, and that the restoration goes
  back through them), `ShellInv` that there is no process before the call was permitted (*Permitted*) and that a report of success rests on the segments that
  ran (*Verified*): those at the heads of the chain, where the classifier splits (*ShellHeads*). `EditLimits`: texts of two words at least, so that an edit can be told from none.
- `RecallStaysTheUsersWord`: a command replaces memories one after the other, so that the word of the user is in force, or is about to be, or was cut off.
  `MemoryInv` says so for every scope and key (*OneOfAKey*, *WordInForce*) and what the replacement that waits will write (*StillToWrite*).
- `BatchesStayAccounted`: agents of a batch are their own, and every task has the finding or the report its state promises (*TaskTold*, *TaskStored*). Two
  tasks of one batch may be duplicates, or resume one agent; that the running ones stay within the slots is then a statement about cardinalities. While the handler
  is at work, its call cancelled or not, the store is as the batch found it (*BatchPlace*).
- `CallsRunTheToolShown`: registrations have ids of their own, and an id tells the tool (*InRegistry*); what the model was shown and what waits for an approval
  carries such an id (*Told*), so that a tool that was replaced has another one. No two skills share a name or a command (*SkillsApart*). `CatalogLimits`: finitely many built-in
  tools with different names; nothing else says that it is built in, as the sources of the code's registrations are constants.

### Context

`ContextStaysTrue` is about the two instances in `Contexts`: what the model reads of a session is whole, and what is called fresh is current.

- Of the messages, `WindowInv` says that every summary (in memory, in the files, in the checkpoint) holds all groups up to its cursor, all of them closed and
  read by the model (*HoldsTo*), and that a restart loses none of these groups (*Lasting*: the last commit may be missing, but a summary is made from messages
  before it). The lemmas about `Prepare` say that a projection or thinning shows a group in full, thinned to an artifact file, or as a repeat of a newer group
  (*ShownOf*), that the largest of the newer repeats is in full or in a file (*ViewReaches*), and that compaction takes a prefix that ends before the
  results nobody has read (*CompactedHolds*). That the sizes are numbers is the one induction over sums; which groups are kept,
  thinned or dropped for their size does not matter to the property, but that the whole fits the budget does.
  `WindowLimits`: bounds and sizes are numbers, and an answer calls tools of the three kinds.
- Of the files, `SetInv` says of every piece of evidence what is true of it given the last look at the repository (*TrueOf*: its print is the one git gives of the tree it was observed in, as long
  as HEAD is the same; while a read is fresh and git lists its file as changed from HEAD, the text is the one git last told of; while an edit or a check is fresh no
  later result reported a change of its file, or any change) and that a new look leaves fresh only what is true with respect to what is
  found then, whoever made the change (*ChangesAreSeen*). `SetLimits` is that the number of pieces of evidence that are kept is a number, and that no file has the name "none" of no file.

### Only model-checked

- Liveness, which the prover does not do: `RunsRecover`, `CancelledRunEnds`, `EveryJobEnds`.
- Of `TranscriptSound`: `OpenOnlyForTheUser`, which is about the constants of `core_runs` (a prompt that passes over a question leaves its call open, section 9),
  `AnswersTellTheTruth`, and the plan's fields in `TypeOK`, which need the induction over commands.

## 8 Where code and documents differ

Each is a run that TLC answers with a counterexample, and a finding in PROJECT.json with the quoted text.

| Run | The code |
|---|---|
| `doc_slots_returned` | a cancellation that arrives while the cleanup callbacks of a tool run skips the release of its lease: slot, permit and lock stay taken (`tools/execution.py:380`) |
| `doc_logs_stay_readable` | an append continues the incomplete line a crash has left, and the whole log cannot be read any more (`sessions/filesystem.py:150`) |
| `doc_calls_answered_once` | a run that waited is resumed, and the process crashes before its first commit: the call it waited for is answered twice (`runtime/session_coordinator.py:1656`) |
| `doc_commands_answered` | a plan command that passes every check makes a record that refuses itself, and the exception ends the run (`core/reducer.py:668`) |

Others met while modelling, without a run of their own:

- A crash after the user message of a prompt was stored makes every retry of it a conflict (`sessions/service.py:333`).
- The commit of a reply drops the rollback baseline and the other components of the checkpoint (`runtime/session_coordinator.py:452`).
- `finish()` pops whatever entry a run has, so a late one frees the entry of the run's next attempt and two Cores may execute one run, when a
  session is closed while its run is being prepared (`runtime/registry.py:216`).
- A run that failed before its change was verified, and crashed before its terminal commit, is recovered as completed
  (`core/policy.py`, `_continuation_entry`); after a crash in the middle of a batch the model goes on without the user having checked: policy waits for
  a code that nothing produces.
- A crash in the middle of a batch leaves the run at `before_tools`, so that its calls are known to be ambiguous. A plan command of the user
  (abandon, approve a revision) that comes before the recovery commits `after_tools`: calls whose handlers may have run
  are forgotten (`runtime/session_coordinator.py:1042`). `core_recovery`, which checks EffectsAreRecorded, has no plan commands.
- A cancellation between an approved tool call and Core leaves the executed call without a result (`runtime/executor.py:92`).
- A repeated commit does not append its receipt to the run's event file when the session's already has it
  (`service.py:875`); a failed terminal commit makes the lifecycle `terminal` (`gateway.py:586`); when the commit fails after a held
  cancellation, the reader gets a FailedFrame and its CancelledError is lost (`gateway.py:790`).
- Design 2, 12.2 says that the current user message is never compacted; `keep_tokens` may compact it.
- `rollback/service.py:8` says that only new files are removed; an untracked affected file need not be new.
- Memory: `Purge` works on any status though its text speaks of deleted memories.

## 9 Known limits

Behaviours of the code that its documents do not promise otherwise, or only in
passing, and that the properties above exclude or do not cover.

Sessions and Core:

- A crash between `run.json` and `session.json` of a boundary commit leaves the session's leaf
  behind the checkpoint: a continuation gives Core the last state without its last messages
  (`runtime/session_coordinator.py:482`). A crash between the same two files of a terminal commit leaves the session
  naming a finished run (`sessions/service.py:484`).
- A record whose line was left without an end is acknowledged by the idempotent path of `append_message`, and a second
  cut append can lose it.
- A second cancellation of the reader ends the dispatch before its commit or release has ended (`runtime/gateway.py:790`).
  `close_all` waits five seconds for every scope and then releases resources of runs that may still be committing (`gateway.py:308`).
- A batch with a question to the user is committed at `after_tools` with that call open; a crash before
  the waiting commit resumes the run there (`core/driver.py:330`), and so does a run whose question the user passes over with a
  prompt. The context service then refuses the transcript: every later prompt fails. TranscriptSound is checked for runs that nothing cuts off.
- An exception or a forced cancellation in the middle of a batch settles executed calls as "not executed", and
  their changes to the workspace are not recorded (`core/driver.py:445`). `CutOff` in
  `CoreProperties` excludes it from EffectsAreRecorded.
- A crash in the middle of a batch hides what the batch did to files that Core had not changed before: `_git_status_paths` calls
  `git status --relative`, which git refuses, so that `dirty_paths` is always empty, and only HEAD and the hashes of known files
  are compared (`sessions/workspace.py:298`). The run goes on as if nothing had changed, may complete unchecked, and in a
  read-only run too. EffectsAreRecorded excludes such changes; a new file of a command (`.`) is never known.
- PlansEndWithTheRun is about ends that Core decides: a run that is cancelled before Core sees its entry keeps its plan.
- A prepared tool resume is executed again after a crash, although its handler may have run
  (`runtime/session_coordinator.py:437`). EffectsAreRecorded says that the run does not forget it.
- Two processes on one session can both pass the comparison of revisions (`sessions/repository.py:236`).

Commands (excluded from SessionsGoOn): `/resume` to a session that waits for an approval does not restore its tools, so the approval is
not found until the session is opened again; `/resume` to one that is executing leaves a copy that every later commit refuses; a fork
of a waiting session copies an open call without a run, and a crash in the middle of a fork leaves a session whose chain is cut;
passing over a pending question or approval with a prompt, a mode change, a plan approval or `/plan clear` leaves its call open for ever; the
mode given with a prompt is forgotten after a pause; `/mode plan` with an active plan ends the run but reports a continuation; a
`/mode` that is refused, or whose write fails, has changed the mode in memory, so that the two differ and repeating it does nothing
(`runtime/session_coordinator.py:931`); a plan command whose write fails behind the end of the run leaves the controller's copy behind, so that its
later commits are refused, or the session naming a finished run (`sessions/service.py:484`), which no prompt replaces; a crash or a failing write between the approval of a
plan and the change of the mode leaves an approved plan in plan mode; an interrupted run whose workspace has changed can be
neither continued nor given up until the user puts the files back, which RunsRecover therefore asks for; `rpc.py` sends `/fork <id>`, whose argument is ignored, and `/switch`, which is no command.

Tools and files:

- A cancelled call that waits for its second permit keeps the first (`tools/execution.py:446`), and a cancellation in the grace period
  leaves the handler running without a lease; LimitsRespected excludes the second, EveryJobEnds covers what the first does to others.
- Attempts of an ended run stay in memory; an answer whose `resume_run` failed stays there too, and the next one makes two, which no
  continuation accepts. QuestionAnswerable is about memory that agrees with the files.
- write and edit are not atomic; a hash of bytes never matches the expected hash of a file with CRLF, and an edit writes LF.
- A process may outlive a call that is cancelled while it is spawned; descendants survive; a chain with `;` or `||` may report a passed check
  although one failed; `_classify_shell_syntax` joins lines with blanks before it splits (`tools/sandbox.py:572`, though :559 names newlines among its
  separators) and never splits at `&` or `$( )`, so what stands there gets the class, the permission and the verification report of the command in
  front of it: CommandsAreHonest speaks of the commands where the classifier splits; a command that times out reports no write.
- Rollback reports "reverted" after the user has committed the run's changes, although nothing changes; edits between the end of a run and
  its record are taken as the run's.
- Context: at the critical level without an old summary, with fewer than four groups or a failing summarizer, `prepare` refuses although the
  input still fits; evidence of a check is stamped with the tree at the next prepare; evidence is aged by name, and a read's is a path and an edit's the
  URI in `affected_paths` (`tools/results.py:427`, `sessions/context/state.py:341`): the agent's own edit ages the evidence of a read only through git's status, so
  not in a file that is untracked or ignored, nor when the file is again as in HEAD; evidence of an edit is aged by later reported edits alone, not by the user's; the URI
  is kept as an active file that is always "missing". FreshIsCurrent says what is left;
  `context_usage.json` is read and replaced without a lock. The cap of 40 active files is out of the model's reach.
- Memory: edit and approve are two replacements, a crash between them leaves no memory in force (RecallIsTheUsersWord says so: `cut`);
  the user's file is shared by all workspaces without a lock; an edit checks for secrets but not the limit of length; a "remember" that equals a candidate or a
  disabled memory is acknowledged and not put in force.

Services:

- Of two steps with one definition the last one is kept by a revision.
- Core need not be shown all of a message: an empty or redacted block is never told (`anthropic.py:163`), a model without streaming shows nothing
  (`adapter.py:128`), and OpenAI's tool calls are told at the end of the response, after later text (`openai.py:242`). The provider of a call that is
  cancelled while Core handles an event reads on until its generators are closed, and without streaming until it ends. OneAttemptShown says what is left.
- An Anthropic stream that ends in the middle of a tool block gives empty arguments; a protocol error is "unknown" and not retried.
- Exploration: automatic reuse takes failed reports and those of other instructions; evidence is hashed when it is stored, not when it was read; a
  path outside the workspace makes the dispatch fail and loses the reports after it; the tool's timeout equals the child's; a call that was
  cancelled or timed out may still store its reports, as its handler looks at the token only before and after the batch (`execution.py:361`, `tools.py:313`).
- MCP: malformed JSON in an event stream escapes the discovery, a cancelled discovery leaves transports open, `aclose` does not take the lock,
  `list_tools` follows a repeated cursor for ever, an expired session is not initialised again. Servers are only asked before a prompt or by `/tools`,
  so after a restart an approved MCP call is refused as not found.
- Catalog: a registration's id has the count of registrations in it, so a change of one extension makes waiting approvals of later tools stale; it covers
  declared versions and not the code of the handler; skill instructions are read at the call, their digest at loading.
- Web: a decision is noted before the dispatch may be refused. Bridge: the run's own changes make the tree dirty, so that the answer to its
  question is refused; a lost reply leaves its message "processing", and the next message may find the lock free and the run still active
  (`bridge.py:260`, `gateway.py:611`): it is refused, and remembered as handled.
- Evaluation: a preparation error ends the suite without a summary and leaves the workspaces; cases whose ids give one directory overwrite
  each other's artifacts; a paused or cancelled run is no error, so that a case without checks passes; `timeout_seconds` is not used.

## 10 Not modelled

- *Formatting and text*: serialisation of records, rendering of the command line, wire formats of providers and JSON-RPC framing,
  token estimation and prices, the tables that class commands and detect secrets, prompt layers, scores and experiments of the evaluation, traces. They hold no shared
  state whose interleavings or crashes a model could explore; where their result decides something, the models take every result.
- *Operations*: rename and deletion of sessions, `close_all`, the queue of live events of a dispatch (only that its end is
  read), a second dispatch of explorations beside the handler that a twice cancelled call left behind, deletion of web sessions, reusable grants (the runtime only grants once), progress events.
- *Environment*: two processes on one session directory, operating-system sandboxes, network file systems.
- *Composition*: `SessionStore` has a boundary commit where `CoreLoop`, `ToolAttempts` and `SessionCommands` have its
  effect in one step, and `RunGateway` an end of Core where `CoreLoop` has the run. What the modules assume of each other is what the
  properties of the other state: a commit is all or nothing up to the lag of the leaf (FilesConsistent), one Core executes a session
  (OneCore), a call is answered once (TranscriptSound).
- In Core: texts, attempt statistics, parallel execution inside a batch.
