---------------------------- MODULE SessionStore ----------------------------
(***************************************************************************)
(* The persistence protocol of one session: SessionStateService and        *)
(* FileSessionRepository (sessions/service.py, sessions/repository.py)     *)
(* driven by the runtime's RuntimeSessionStateAdapter and                  *)
(* RuntimeSessionCoordinator.                                              *)
(*                                                                         *)
(* One Python process owns the session.  A service call is synchronous, so *)
(* calls do not interleave; but each call makes several file writes        *)
(* (messages.jsonl, run.json, session.json, two events.jsonl), and between *)
(* two writes the process can crash or an OSError can be raised, before or *)
(* after the write took effect.  One action below is one file write.       *)
(*                                                                         *)
(* A JSONL append is all or nothing here; SessionLogs has torn lines.      *)
(* The durable domain events of a commit, which append_event treats like   *)
(* the receipt that follows them, are represented by the receipt.          *)
(***************************************************************************)
EXTENDS Naturals, FiniteSets

CONSTANTS RunIds,     \* the run ids that new_run_id() hands out
          Requests,   \* client request ids of prompts
          Bodies,     \* what a message can say
          MaxNew,     \* bound: messages in one boundary commit
          MaxRev,     \* bound: revision of a run that may still advance
          MaxSession, \* bound: revision of a session whose mode may change
          MaxFaults,  \* bound: OSErrors and crashes
          NoRun, NoMsg, NoReq

ASSUME BoundsAssumption == MaxNew \in Nat /\ MaxRev \in Nat
                             /\ MaxSession \in Nat /\ MaxFaults \in Nat
ASSUME NoneAssumption == NoRun \notin RunIds
ASSUME BodiesAssumption == Bodies # {}

VARIABLES
  session,       \* session.json
  runs,          \* runs/<id>/run.json
  log,           \* messages.jsonl
  sessionEvents, \* events.jsonl of the session
  runEvents,     \* events.jsonl of the runs
  drift,         \* the workspace is not as the unfinished run's checkpoint has it
  view,          \* RuntimeSessionCoordinator.session_state
  port,          \* the RuntimeSessionStateAdapter of the executing run
  call,          \* the service call in progress
  faults         \* OSErrors and crashes so far

disk     == <<session, runs, log, sessionEvents, runEvents, drift>>
volatile == <<view, port>>
vars     == <<session, runs, log, sessionEvents, runEvents, drift, view, port, call,
              faults>>

-----------------------------------------------------------------------------
(* Data *)

Outcomes   == {"completed", "failed", "cancelled"}
Live       == {"created", "running", "waiting"}
Status     == {"absent"} \cup Live \cup Outcomes
Waits      == {"no", "tool_approval", "user_input"}
Kinds      == {"progress", "waiting", "terminal"}
CommitTags == {"progress", "waiting", "terminal",
               "continuation_input", "core_command", "plan_terminal"}
EventTags  == CommitTags \cup {"begin", "repair", "resume", "mode"}

CommitIds == [run : RunIds, tag : CommitTags, rev : Nat]
EventIds  == [run : RunIds \cup {NoRun}, tag : EventTags, rev : Nat]
MsgIds    == (Requests \cup CommitIds) \X Nat
Messages  == [id : MsgIds, parent : MsgIds \cup {NoMsg}, body : Bodies]

SessionRecs == [rev : Nat, current : RunIds \cup {NoRun}, leaf : MsgIds \cup {NoMsg}]

(* CommitRunBoundaryRequest; its digest is the record itself, and          *)
(* expected_run_revision is the revision in the commit id.                 *)
CommitReqs == [id : CommitIds, kind : Kinds, status : Status, wait : Waits,
               n : Nat, body : Bodies, prepared : BOOLEAN, rollback : BOOLEAN,
               expected : Nat]

(* RunState.  "prepared" and "rollback" say whether the checkpoint carries *)
(* a prepared tool resume and a rollback baseline; "last" groups the       *)
(* last_commit_* fields.                                                   *)
RunRecs == [status : Status, request : Requests \cup {NoReq}, rev : Nat,
            cursor : MsgIds \cup {NoMsg}, wait : Waits, prepared : BOOLEAN,
            rollback : BOOLEAN, last : {NoReq} \cup [req : CommitReqs, target : Nat]]

AbsentRun == [status |-> "absent", request |-> NoReq, rev |-> 0, cursor |-> NoMsg,
              wait |-> "no", prepared |-> FALSE, rollback |-> FALSE, last |-> NoReq]

NewSession == [rev |-> 1, current |-> NoRun, leaf |-> NoMsg]

(* The adapter of an executing run: the states it got from its last call,  *)
(* and whether Core was given the whole transcript up to the cursor.       *)
Ports == [id : RunIds \cup {NoRun}, run : RunRecs, ses : SessionRecs, complete : BOOLEAN]

NoPort == [id |-> NoRun, run |-> AbsentRun, ses |-> NewSession, complete |-> TRUE]

Ops == {"none", "begin", "repair", "commit", "repeat", "resume", "mode"}
Pcs == {"idle", "message", "run", "session", "event", "runEvent", "return", "retry"}
Agenda == {"input", "plan_terminal", "mode"}

(* A service call: the run and session states it computed and will write,  *)
(* the commit request, and what its handler does after it returned.        *)
Calls == [op : Ops, pc : Pcs, k : Nat, id : RunIds \cup {NoRun}, run : RunRecs,
          ses : SessionRecs, req : {NoReq} \cup CommitReqs, retry : BOOLEAN,
          agenda : SUBSET Agenda]

Idle == [op |-> "none", pc |-> "idle", k |-> 0, id |-> NoRun, run |-> AbsentRun,
         ses |-> NewSession, req |-> NoReq, retry |-> FALSE, agenda |-> {}]

Input(q)    == <<q, 0>>
Child(c, i) == <<c, i>>

IsLive(run)     == run.status \in Live
IsTerminal(run) == run.status \in Outcomes
LoggedIds       == {m.id : m \in log}

(* The "no message" and "no commit" of the files are neither, and a        *)
(* message id derived from a prompt is not one derived from a commit       *)
(* (_request_scoped_id, _commit_child_id).                                 *)
ASSUME NullsAssumption == NoMsg \notin MsgIds /\ NoReq \notin [req : CommitReqs, target : Nat]
ASSUME ScopesAssumption == \A q \in Requests : q \notin CommitIds

TypeOK ==
  /\ session \in SessionRecs
  /\ runs \in [RunIds -> RunRecs]
  /\ log \subseteq Messages
  /\ sessionEvents \subseteq EventIds
  /\ runEvents \subseteq EventIds
  /\ drift \in BOOLEAN
  /\ view \in SessionRecs
  /\ port \in Ports
  /\ call \in Calls
  /\ faults \in Nat

Init ==
  /\ session = NewSession
  /\ runs = [r \in RunIds |-> AbsentRun]
  /\ log = {}
  /\ sessionEvents = {}
  /\ runEvents = {}
  /\ drift = FALSE
  /\ view = NewSession
  /\ port = NoPort
  /\ call = Idle
  /\ faults = 0

-----------------------------------------------------------------------------
(* Plausible bugs.  Each operator of this section is a wrong version of a  *)
(* rule defined further down; none is used by the specification.           *)

TargetRevisionNotMoved(req) == req.expected

RecoveredSessionNotRepaired(req) == session

InputMessageAtRoot(q) ==
  [id |-> Input(q), parent |-> NoMsg, body |-> CHOOSE b \in Bodies : TRUE]

BeginWithoutOrphanCheck(q) ==
  /\ {r \in RunIds : runs[r].request = q} = {}
  /\ session.rev = view.rev /\ session.current = NoRun
  /\ Input(q) \notin LoggedIds

RecoverableWhenNamed(r) == session.current = r

RecoverableWhenWaiting(r) == session.current = r /\ runs[r].status = "waiting"

ResumedRunSameRevision(r, prepared) ==
  [runs[r] EXCEPT !.status = "running", !.wait = "no", !.prepared = @ \/ prepared]

NextMessageFromLeaf ==
  IF call.op = "begin"
  THEN [id |-> Input(call.run.request), parent |-> session.leaf,
        body |-> CHOOSE b \in Bodies : TRUE]
  ELSE [id     |-> Child(call.req.id, call.k),
        parent |-> IF call.k = 0 THEN session.leaf ELSE Child(call.req.id, call.k - 1),
        body   |-> call.req.body]

-----------------------------------------------------------------------------
(* What the service computes on entry, from the files it loads *)

Orphans(ses) == {r \in RunIds : IsLive(runs[r]) /\ r # ses.current}

CommitCursor(req) ==
  IF req.n = 0 THEN runs[req.id.run].cursor ELSE Child(req.id, req.n - 1)

MovesSession(req) ==
  req.kind = "terminal" \/ CommitCursor(req) # session.leaf

TargetRevision(req) ==
  IF MovesSession(req) THEN req.expected + 1 ELSE req.expected

NextCurrent(req) == IF req.kind = "terminal" THEN NoRun ELSE req.id.run

(* _checkpoint_run_state and _terminal_run_state *)
CommittedRun(req) ==
  [runs[req.id.run] EXCEPT
     !.status   = req.status,
     !.rev      = @ + 1,
     !.cursor   = CommitCursor(req),
     !.wait     = req.wait,
     !.prepared = req.prepared,
     !.rollback = req.rollback,
     !.last     = [req |-> req, target |-> TargetRevision(req)]]

(* _commit_run_session: unchanged when nothing of the session moves *)
CommittedSession(req) ==
  IF MovesSession(req)
  THEN [rev |-> session.rev + 1, current |-> NextCurrent(req), leaf |-> CommitCursor(req)]
  ELSE session

IsRepeat(req) ==
  LET last == runs[req.id.run].last IN last # NoReq /\ last.req.id = req.id

(* _repeat_commit_receipt: bring a lagging session.json up to the run *)
RecoveredSession(req) ==
  LET run == runs[req.id.run]
  IN  IF session.rev < run.last.target
      THEN [rev |-> run.last.target, current |-> NextCurrent(req), leaf |-> run.cursor]
      ELSE session

RepeatAccepted(req) ==
  LET last == runs[req.id.run].last IN last.req = req /\ session.rev <= last.target

CommitAccepted(req) ==
  /\ IsLive(runs[req.id.run])
  /\ session.current = req.id.run
  /\ runs[req.id.run].rev = req.id.rev
  /\ session.rev = req.expected

Accepted(req) == IF IsRepeat(req) THEN RepeatAccepted(req) ELSE CommitAccepted(req)

(* Where a commit goes when its messages are in the log *)
AfterMessages(k, req) == IF k < req.n THEN "message" ELSE "run"

SessionOrEvents(ses) == IF ses = session THEN "event" ELSE "session"

CommitCall(req, retry, agenda) ==
  IF IsRepeat(req)
  THEN [op |-> "repeat", pc |-> SessionOrEvents(RecoveredSession(req)), k |-> 0,
        id |-> req.id.run, run |-> runs[req.id.run], ses |-> RecoveredSession(req),
        req |-> req, retry |-> retry, agenda |-> agenda]
  ELSE [op |-> "commit", pc |-> AfterMessages(0, req), k |-> 0, id |-> req.id.run,
        run |-> CommittedRun(req), ses |-> CommittedSession(req),
        req |-> req, retry |-> retry, agenda |-> agenda]

(* A request made by a caller that read the run as "run" and the session  *)
(* as "ses".                                                              *)
Request(r, run, ses, tag, kind, status, wait, n, body, prepared, rollback) ==
  [id |-> [run |-> r, tag |-> tag, rev |-> run.rev], kind |-> kind, status |-> status,
   wait |-> wait, n |-> n, body |-> body, prepared |-> prepared,
   rollback |-> rollback, expected |-> ses.rev]

AnyBody == CHOOSE b \in Bodies : TRUE

TerminalRequest(r, run, ses, tag, status, n, body) ==
  Request(r, run, ses, tag, "terminal", status, "no", n, body, FALSE, FALSE)

-----------------------------------------------------------------------------
(* Handlers: each starts a service call when none is in progress *)

Quiet == call.pc = "idle" /\ port = NoPort

(* RuntimeSessionCoordinator.runtime_checkpoint *)
HasCheckpoint == view.current # NoRun /\ IsLive(runs[view.current])

InputMessage(q) == [id |-> Input(q), parent |-> session.leaf, body |-> AnyBody]

CreatedRun(q) ==
  [AbsentRun EXCEPT !.status = "created", !.request = q, !.rev = 1,
                    !.cursor = Input(q), !.rollback = TRUE]

RunsOf(q) == {r \in RunIds : runs[r].request = q}

BoundSession(r, cursor) == [rev |-> session.rev + 1, current |-> r, leaf |-> cursor]

(* begin_run with a request id that no run has *)
BeginAccepted(q) ==
  /\ RunsOf(q) = {}
  /\ Orphans(session) = {}
  /\ session.rev = view.rev
  /\ session.current = NoRun
  /\ Input(q) \notin LoggedIds  \* a record made now never equals an older one

Begin(q, r) ==
  /\ Quiet /\ ~HasCheckpoint
  /\ BeginAccepted(q)
  /\ runs[r].status = "absent"
  /\ call' = [Idle EXCEPT !.op = "begin", !.pc = "message", !.id = r,
                          !.run = CreatedRun(q), !.ses = BoundSession(r, Input(q))]
  /\ UNCHANGED <<disk, volatile, faults>>

(* _reuse_begin_run: the run exists; session.json may not name it yet *)
Reuse(q, r) ==
  /\ Quiet /\ ~HasCheckpoint
  /\ r \in RunsOf(q) /\ IsLive(runs[r])
  /\ \/ /\ session.current = r
        /\ view' = session
        /\ port' = [id |-> r, run |-> runs[r], ses |-> session, complete |-> TRUE]
        /\ UNCHANGED call
     \/ /\ session.current = NoRun
        /\ session.rev = view.rev
        /\ call' = [Idle EXCEPT !.op = "repair", !.pc = "session", !.id = r,
                                !.run = runs[r], !.ses = BoundSession(r, runs[r].cursor)]
        /\ UNCHANGED volatile
  /\ UNCHANGED <<disk, faults>>

(* inspect_recovery and the checks of resume_run, made on what it loaded *)
Recoverable(r) == session.current = r /\ IsLive(runs[r])

ResumedRun(r, prepared) ==
  [runs[r] EXCEPT !.status = "running", !.wait = "no", !.rev = @ + 1,
                  !.prepared = @ \/ prepared]

ResumeCall(r, prepared, agenda) ==
  [Idle EXCEPT !.op = "resume", !.pc = "run", !.id = r, !.run = ResumedRun(r, prepared),
               !.ses = session, !.agenda = agenda]

(* _ensure_workspace_recovery: what compare_workspace_checkpoint finds is  *)
(* nothing but "unchanged".                                                *)
WorkspaceAsRecorded == ~drift

(* _prepare_resume and _prepare_interaction_resume: the user's decision is *)
(* prepared by the tools and stored in the checkpoint by the resume.  An   *)
(* approval is refused when the workspace changed, an answer is not.       *)
Decide(r) ==
  /\ Quiet /\ view.current = r
  /\ Recoverable(r) /\ runs[r].wait # "no"
  /\ runs[r].wait = "tool_approval" => WorkspaceAsRecorded
  /\ runs[r].rev < MaxRev
  /\ call' = ResumeCall(r, TRUE, {})
  /\ UNCHANGED <<disk, volatile, faults>>

(* _prepare_continuation, in an unchanged workspace only.  A prepared tool *)
(* resume is picked up again without resuming the run; otherwise the run   *)
(* is resumed, and the text of a reply to a question is committed next.    *)
Continue(r) ==
  /\ Quiet /\ view.current = r
  /\ Recoverable(r) /\ runs[r].wait # "tool_approval"
  /\ WorkspaceAsRecorded
  /\ \/ /\ runs[r].prepared
        /\ view' = session
        /\ port' = [id |-> r, run |-> runs[r], ses |-> session,
                    complete |-> session.leaf = runs[r].cursor]
        /\ UNCHANGED call
     \/ /\ ~runs[r].prepared
        /\ runs[r].rev < MaxRev
        /\ \/ call' = ResumeCall(r, FALSE, {})
           \/ runs[r].wait = "user_input" /\ call' = ResumeCall(r, FALSE, {"input"})
        /\ UNCHANGED volatile
  /\ UNCHANGED <<disk, faults>>

(* RuntimeSessionStateAdapter.commit at a progress or a waiting boundary *)
CommitBoundary(n, body) ==
  /\ call.pc = "idle" /\ port # NoPort
  /\ port.run.rev < MaxRev
  /\ n = 0 => body = AnyBody
  /\ \E step \in {[kind |-> "progress", status |-> "running", wait |-> "no"]}
                 \cup [kind : {"waiting"}, status : {"waiting"}, wait : Waits \ {"no"}] :
       /\ step.kind = "waiting" => port.run.status = "running"
       /\ LET req == Request(port.id, port.run, port.ses, step.kind, step.kind,
                             step.status, step.wait, n, body, FALSE, port.run.rollback)
          IN  Accepted(req) /\ call' = CommitCall(req, TRUE, {})
  /\ UNCHANGED <<disk, volatile, faults>>

(* RuntimeSessionCoordinator._commit_run of a terminal outcome *)
CommitTerminal(status, n, body) ==
  /\ call.pc = "idle" /\ port # NoPort
  /\ status = "cancelled" \/ port.run.status = "running"
  /\ n = 0 => body = AnyBody
  /\ LET req == TerminalRequest(port.id, port.run, port.ses, "terminal", status, n, body)
     IN  Accepted(req) /\ call' = CommitCall(req, TRUE, {})
  /\ UNCHANGED <<disk, volatile, faults>>

(* _apply_plan_command on a run that is not executing.  Approving a plan   *)
(* leaves the run to be continued; rejecting or abandoning it cancels the  *)
(* run next; either may end by changing the mode.                          *)
PlanCommand(agenda) ==
  /\ Quiet /\ HasCheckpoint
  /\ agenda \subseteq {"plan_terminal", "mode"}
  /\ LET r == view.current
         run == runs[r]
         req == Request(r, run, view, "core_command", "progress", "running", "no", 0,
                        AnyBody, run.prepared, run.rollback)
     IN  /\ run.rev < MaxRev
         /\ Accepted(req)
         /\ call' = CommitCall(req, FALSE, agenda)
  /\ UNCHANGED <<disk, volatile, faults>>

ModeCall ==
  [Idle EXCEPT !.op = "mode", !.pc = "session",
               !.ses = [session EXCEPT !.rev = @ + 1]]

(* RuntimeSessionCoordinator.set_current_mode *)
SetMode ==
  /\ Quiet
  /\ view.rev = session.rev /\ session.rev < MaxSession
  /\ call' = ModeCall
  /\ UNCHANGED <<disk, volatile, faults>>

-----------------------------------------------------------------------------
(* File writes of the call in progress *)

(* The k-th message of a commit hangs below the one before it, the first   *)
(* below the run's cursor.                                                 *)
NextMessage ==
  IF call.op = "begin"
  THEN InputMessage(call.run.request)
  ELSE [id     |-> Child(call.req.id, call.k),
        parent |-> IF call.k = 0 THEN runs[call.id].cursor
                                 ELSE Child(call.req.id, call.k - 1),
        body   |-> call.req.body]

(* repository.append_message: the same record again is accepted, a record  *)
(* with the id of another one is refused.                                  *)
Clashes(m) == m \notin log /\ m.id \in LoggedIds

WriteMessage ==
  /\ call.pc = "message" /\ ~Clashes(NextMessage)
  /\ log' = log \cup {NextMessage}
  /\ UNCHANGED <<session, runs, sessionEvents, runEvents, drift>>

(* A begin and the adapter's commits record the workspace as it is; the    *)
(* other writers of run.json keep the checkpoint's record of it.           *)
RecordsWorkspace ==
  call.op = "begin" \/ (call.op = "commit" /\ call.req.id.tag \in Kinds)

WriteRun ==
  /\ call.pc = "run"
  /\ runs' = [runs EXCEPT ![call.id] = call.run]
  /\ drift' = (drift /\ ~RecordsWorkspace)
  /\ UNCHANGED <<session, log, sessionEvents, runEvents>>

WriteSession ==
  /\ call.pc = "session"
  /\ session' = call.ses
  /\ UNCHANGED <<runs, log, sessionEvents, runEvents, drift>>

(* A commit's receipt has an id of its own; the other events have fresh    *)
(* ids, one per call.                                                      *)
Event ==
  IF call.op \in {"commit", "repeat"}
  THEN call.req.id
  ELSE [run |-> call.id, tag |-> call.op,
        rev |-> IF call.op = "mode" THEN call.ses.rev ELSE call.run.rev]

(* append_event looks the id up in the session's file only *)
KnownEvent == Event \in sessionEvents

WriteEvent ==
  /\ call.pc = "event"
  /\ sessionEvents' = sessionEvents \cup {Event}
  /\ UNCHANGED <<session, runs, log, runEvents, drift>>

WriteRunEvent ==
  /\ call.pc = "runEvent"
  /\ runEvents' = runEvents \cup {Event}
  /\ UNCHANGED <<session, runs, log, sessionEvents, drift>>

FileWrite ==
  WriteMessage \/ WriteRun \/ WriteSession \/ WriteEvent \/ WriteRunEvent

NextPc ==
  CASE call.pc = "message"  -> IF call.op = "begin" THEN "run"
                               ELSE AfterMessages(call.k + 1, call.req)
    [] call.pc = "run"      -> SessionOrEvents(call.ses)
    [] call.pc = "session"  -> "event"
    [] call.pc = "event"    -> IF KnownEvent \/ call.op = "mode" THEN "return"
                               ELSE "runEvent"
    [] call.pc = "runEvent" -> "return"

Write ==
  /\ FileWrite
  /\ call' = [call EXCEPT !.pc = NextPc, !.k = IF call.pc = "message" THEN @ + 1 ELSE @]
  /\ UNCHANGED <<volatile, faults>>

(* The call raised: its handler ends, and with it the executing run.       *)
Abandon == call' = Idle /\ port' = NoPort /\ UNCHANGED view

(* An OSError, before or after the write took effect.  The adapter and     *)
(* _commit_run try the same request once more; every other caller gives up.*)
Fault ==
  /\ faults < MaxFaults
  /\ faults' = faults + 1
  /\ \/ FileWrite
     \/ call.pc \in {"message", "run", "session", "event", "runEvent"} /\ UNCHANGED disk
  /\ IF call.retry
     THEN /\ call' = [Idle EXCEPT !.pc = "retry", !.req = call.req]
          /\ UNCHANGED volatile
     ELSE Abandon

Retry ==
  /\ call.pc = "retry" /\ Accepted(call.req)
  /\ call' = CommitCall(call.req, FALSE, {})
  /\ UNCHANGED <<disk, volatile, faults>>

(* The task is cancelled in the "await asyncio.sleep(0)" before the retry: *)
(* the gateway commits a cancelled outcome with what the adapter last knew.*)
CancelRetry ==
  /\ call.pc = "retry" /\ call.req.kind # "terminal"
  /\ LET req == TerminalRequest(port.id, port.run, port.ses, "terminal", "cancelled", 0, AnyBody)
     IN  IF Accepted(req)
         THEN call' = CommitCall(req, TRUE, {}) /\ UNCHANGED volatile
         ELSE Abandon
  /\ UNCHANGED <<disk, faults>>

(* SessionStateConflictError out of append_message is not retried.         *)
MessageConflict ==
  /\ call.pc = "message" /\ Clashes(NextMessage)
  /\ Abandon
  /\ UNCHANGED <<disk, faults>>

-----------------------------------------------------------------------------
(* Returns: what the caller does with the result *)

PlanTerminal ==
  TerminalRequest(call.id, call.run, call.ses, "plan_terminal", "cancelled", 0, AnyBody)

(* continuation_input passes no component checkpoints *)
InputRequest(body) ==
  Request(call.id, call.run, call.ses, "continuation_input", "progress", "running", "no",
          1, body, FALSE, FALSE)

Attached ==
  [id |-> call.id, run |-> call.run, ses |-> call.ses,
   complete |-> call.op # "resume" \/ call.run.prepared \/ call.ses.leaf = call.run.cursor]

ReturnAdmission ==
  /\ call.op \in {"begin", "repair"}
  /\ view' = call.ses /\ port' = Attached /\ call' = Idle

ReturnResume ==
  /\ call.op = "resume"
  /\ view' = call.ses
  /\ IF "input" \in call.agenda
     THEN /\ \E body \in Bodies : call' = CommitCall(InputRequest(body), FALSE, {})
          /\ UNCHANGED port
     ELSE port' = Attached /\ call' = Idle

ReturnBoundary ==
  /\ call.op \in {"commit", "repeat"} /\ call.req.id.tag = "progress"
  /\ port' = [port EXCEPT !.run = call.run, !.ses = call.ses]
  /\ call' = Idle
  /\ UNCHANGED view

(* After a waiting or a terminal commit the run leaves the process.        *)
ReturnPaused ==
  /\ call.op \in {"commit", "repeat"} /\ call.req.id.tag \in {"waiting", "terminal"}
  /\ view' = call.ses /\ port' = NoPort /\ call' = Idle

ReturnInput ==
  /\ call.op = "commit" /\ call.req.id.tag = "continuation_input"
  /\ view' = call.ses /\ port' = Attached /\ call' = Idle

ReturnPlan ==
  /\ call.op = "commit" /\ call.req.id.tag \in {"core_command", "plan_terminal"}
  /\ view' = call.ses
  /\ UNCHANGED port
  /\ call' = IF "plan_terminal" \in call.agenda
             THEN CommitCall(PlanTerminal, FALSE, call.agenda \ {"plan_terminal"})
             ELSE IF "mode" \in call.agenda THEN ModeCall ELSE Idle

ReturnMode ==
  /\ call.op = "mode"
  /\ view' = call.ses /\ call' = Idle
  /\ UNCHANGED port

Return ==
  /\ call.pc = "return"
  /\ \/ ReturnAdmission \/ ReturnResume \/ ReturnBoundary \/ ReturnPaused
     \/ ReturnInput \/ ReturnPlan \/ ReturnMode
  /\ UNCHANGED <<disk, faults>>

(* The process dies and the session is opened again from its files.        *)
Crash ==
  /\ faults < MaxFaults
  /\ faults' = faults + 1
  /\ view' = session /\ port' = NoPort /\ call' = Idle
  /\ UNCHANGED disk

(* The session is closed and opened again in the same process.             *)
Reopen ==
  /\ Quiet /\ view # session
  /\ view' = session
  /\ UNCHANGED <<disk, port, call, faults>>

(* The run's tools or the user change the workspace, or put back what was  *)
(* recorded.  A change while a run executes shows once it left the process *)
(* before its next boundary recorded it, and nothing reads it until then.  *)
ChangeWorkspace ==
  /\ Quiet
  /\ \E r \in RunIds : IsLive(runs[r])
  /\ drift' = ~drift
  /\ UNCHANGED <<session, runs, log, sessionEvents, runEvents, volatile, call, faults>>

Handler ==
  \/ \E q \in Requests, r \in RunIds : Begin(q, r) \/ Reuse(q, r)
  \/ \E r \in RunIds : Decide(r) \/ Continue(r)
  \/ \E n \in 0..MaxNew, body \in Bodies :
       \/ CommitBoundary(n, body)
       \/ \E status \in Outcomes : CommitTerminal(status, n, body)
  \/ \E agenda \in SUBSET {"plan_terminal", "mode"} : PlanCommand(agenda)
  \/ SetMode
  \/ Reopen
  \/ ChangeWorkspace

Service == Write \/ Retry \/ CancelRetry \/ MessageConflict \/ Return

Next == Handler \/ Service \/ Fault \/ Crash

Spec == Init /\ [][Next]_vars

(* The event loop keeps serving a call that has begun, and the client acts *)
(* on what it is shown: it repeats a prompt with its request id, answers or *)
(* recovers an interrupted run, and reopens a session that reports stale    *)
(* revisions.                                                              *)
Fairness ==
  /\ WF_vars(Service)
  /\ WF_vars(Reopen)
  /\ \A q \in Requests : WF_vars(\E r \in RunIds : Reuse(q, r))
  /\ \A r \in RunIds : WF_vars(Decide(r) \/ Continue(r))

FairSpec == Spec /\ Fairness
=============================================================================
