-------------------------- MODULE SessionLifecycle --------------------------
(***************************************************************************)
(* The inductive invariant behind the run lifecycle: why no interleaving   *)
(* of writes, faults, retries and crashes makes a second run active,       *)
(* changes a finished run, or takes a step that the lifecycle forbids.     *)
(***************************************************************************)
EXTENDS SessionProperties

CommitOps == {"commit", "repeat"}
Unwritten == {"message", "run"}
Written   == {"session", "event", "runEvent", "return"}

(* run.json starts at revision 1.                                          *)
AbsentIsNew == \A r \in RunIds : runs[r].status = "absent" => runs[r].rev = 0

(* A run is past the revision that its last commit was made from, so the   *)
(* next commit is never taken for a repetition of the last one.            *)
LastIsOlder(run) == run.last # NoReq => run.last.req.id.rev < run.rev

RunsInOrder ==
  /\ SingleActive
  /\ AbsentIsNew
  /\ \A r \in RunIds : LastIsOlder(runs[r])

(* What a call is about to write is the successor of what run.json holds,  *)
(* and what it has written is still there when it returns.                 *)
CallWritesSuccessor ==
  /\ call.op = "begin" /\ call.pc \in Unwritten =>
       /\ \A r \in RunIds : ~IsLive(runs[r])
       /\ runs[call.id].status = "absent"
       /\ call.run.status = "created" /\ call.run.rev = 1
       /\ LastIsOlder(call.run)
  /\ call.op \in {"commit", "resume"} /\ call.pc \in Unwritten =>
       /\ IsLive(runs[call.id])
       /\ call.run.status \in Ledger!Successors(runs[call.id].status)
       /\ call.run.rev = runs[call.id].rev + 1
       /\ LastIsOlder(call.run)
  /\ call.op \notin {"none", "mode"} /\ call.pc \in Written => runs[call.id] = call.run

(* Which handler a call serves, and what that handler knows of the run.    *)
CallOfHandler ==
  /\ call.pc = "idle" => call = Idle
  /\ call.op \in {"begin", "repair", "resume", "mode"} => port = NoPort
  /\ call.op \in CommitOps => call.id = call.req.id.run
  /\ call.op \in CommitOps => (call.req.id.tag \in Kinds <=> port # NoPort)
  /\ call.op \in CommitOps /\ port # NoPort => call.id = port.id
  /\ call.op = "resume" => call.run.status = "running"
  /\ call.op = "commit" /\ call.req.id.tag = "core_command" => call.run.status = "running"
  /\ "plan_terminal" \in call.agenda /\ call.op = "commit" => call.req.id.tag = "core_command"

(* The adapter's copy of the run is run.json, or one commit behind it      *)
(* while the outcome of that commit is unknown.                            *)
PortFollowsRun ==
  /\ port # NoPort /\ (call.pc = "idle" \/ (call.op = "commit" /\ call.pc \in Unwritten))
       => runs[port.id] = port.run
  /\ call.pc = "retry" =>
       /\ port # NoPort /\ call.req.id.run = port.id /\ call.req.id.tag \in Kinds
       /\ call.req.id.rev = port.run.rev
       /\ call.req.status \in Ledger!Successors(port.run.status)
  /\ call.retry =>
       /\ call.op \in CommitOps /\ port # NoPort
       /\ call.req.id.rev = port.run.rev
       /\ call.req.status \in Ledger!Successors(port.run.status)
  /\ call.retry \/ call.pc = "retry" =>
       runs[port.id] = port.run \/ runs[port.id].rev = port.run.rev + 1

Lifecycle ==
  /\ RunsInOrder
  /\ CallWritesSuccessor
  /\ CallOfHandler
  /\ PortFollowsRun
=============================================================================
