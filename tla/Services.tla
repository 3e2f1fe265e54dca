------------------------------ MODULE Services ------------------------------
(***************************************************************************)
(* The services around Core that ServicesProofs is about: the Task Plan,   *)
(* the calls of the model, the MCP servers, the web backend, the chat      *)
(* bridge, the rollback of a run, the evaluation of a suite and the        *)
(* commands of a user's sessions, with what each of them promises. They    *)
(* share no state.                                                         *)
(***************************************************************************)

CONSTANTS Definitions, MaxSteps, MaxRevision,              \* of PlanSteps
          MaxRetries, MaxBlocks,                           \* of ModelCalls
          NServers, MaxCuts,                               \* of McpClients
          Capacity, QueueSize, MaxEvents, MaxDrops,        \* of WebEvents
          Prompts, Approvals, MaxTracked, MaxCopies, AllowDirty,  \* of RemoteBridge
          RunFiles, MaxEdits, MaxWrites, MaxStops,         \* of RunRollback
          Suite,                                           \* of EvaluationRuns
          Sessions, First, Modes, MaxRuns, MaxCrashes      \* of SessionCommands

VARIABLES plan, evidence, raised,
          purpose, streaming, attempt, provider, message, modelQueue, result, modelClosed, buffer, seen,
          proposals, outcome,
          server, opened, open, discovery, ready, registry, said, call, closed, cuts,
          task, pending, resolution, published, kept, queue, wire, link, have, last, drops,
          tracked, state, holder, session, dirty, copies, sent, excused,
          rollbackHead, index, work, ignored, rollbackPc, baseline, affected, meta,
          rollbackTodo, rollbackResult, start, mine, count,
          policy, pc, at, evaluationSession, checks, verdicts, spaces, stuck, rows,
          summary, wrong,
          commandsDisk, ctl, exec, todo, follow, runs, commandsCrashes

Plans == INSTANCE PlanSteps
Models == INSTANCE ModelCalls WITH queue <- modelQueue, closed <- modelClosed
Mcp == INSTANCE McpClients
Web == INSTANCE WebEvents
Bridge == INSTANCE RemoteBridge
Rollback == INSTANCE RunRollback WITH
    head <- rollbackHead, result <- rollbackResult, pc <- rollbackPc, todo <- rollbackTodo,
    Files <- RunFiles, MaxCrashes <- MaxStops
Evaluations == INSTANCE EvaluationRuns WITH session <- evaluationSession
Commands == INSTANCE SessionCommands WITH disk <- commandsDisk, crashes <- commandsCrashes

(* Work on a plan is kept by every command (PlanSteps).                      *)
WorkIsKept == [][Plans!StepKeepsWork]_plan

(* Core sees one attempt of a model call (ModelCalls).                       *)
OneAttemptShown == Models!TypeOK /\ Models!OneAttemptShown

(* Every MCP server and its connections are accounted for (McpClients).      *)
ServersAreAccounted == Mcp!TypeOK /\ Mcp!ServersAreAccounted

(* A browser misses no event without being told (WebEvents).                 *)
NothingMissed == Web!TypeOK /\ Web!NothingMissed

(* A chat message is acted on once (RemoteBridge).                           *)
ActedOnOnce == Bridge!TypeOK /\ Bridge!ActedOnOnce

(* A rollback restores the run's files and spares the user's (RunRollback).  *)
RollbackRestores == Rollback!TypeOK /\ Rollback!RollbackRestores

(* Verdicts, summary and workspaces of a suite (EvaluationRuns).             *)
SuiteIsHonest == Evaluations!TypeOK /\ Evaluations!SuiteIsHonest

(* A session takes the user's next step (SessionCommands).                   *)
SessionsGoOn == Commands!TypeOK /\ Commands!SessionsGoOn

=============================================================================
