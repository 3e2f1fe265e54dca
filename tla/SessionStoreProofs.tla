------------------------- MODULE SessionStoreProofs -------------------------
(***************************************************************************)
(* Proofs about SessionStore for every set of runs, requests and message   *)
(* contents, every number of messages in a commit and any number of faults:*)
(* the types; that Lifecycle is inductive, and what follows from it: one   *)
(* active run, finished runs never change, and the file protocol           *)
(* implements SessionLedger; that Agreement is inductive, and what follows *)
(* from it: the files of a session agree with each other at every crash    *)
(* point, a commit may be repeated after any error, and no transcript is   *)
(* lost.                                                                   *)
(***************************************************************************)
EXTENDS SessionFiles, TLAPS

(* What a service call carries at each of its stages.                      *)
CallShape ==
  /\ call.pc \notin {"idle", "retry"} => call.op # "none"
  /\ call.pc = "message" => call.op \in {"begin", "commit"}
  /\ call.pc = "run" => call.op \in {"begin", "commit", "resume"}
  /\ call.op \notin {"none", "mode"} => call.id \in RunIds
  /\ call.op = "begin" => call.run.request \in Requests
  /\ call.op \in {"commit", "repeat"} => call.req \in CommitReqs
  /\ call.retry \/ call.pc = "retry" => call.req \in CommitReqs /\ port.id \in RunIds
  /\ port # NoPort => port.id \in RunIds
  /\ call.op \in {"commit", "repeat"} /\ call.req.id.tag = "progress" => port.id \in RunIds

Typed == TypeOK /\ CallShape

-----------------------------------------------------------------------------
(* Types of what the service computes *)

(* The chosen message content is one of the contents.                      *)
LEMMA AnyBodyType == AnyBody \in Bodies
  BY BodiesAssumption DEF AnyBody

(* The initial records are well-typed.                                     *)
LEMMA AbsentTypes ==
  /\ AbsentRun \in RunRecs
  /\ NewSession \in SessionRecs
  /\ Idle \in Calls
  /\ NoPort \in Ports
<1>1. AbsentRun \in RunRecs
  BY DEF AbsentRun, RunRecs, Status, Waits, Live
<1>2. NewSession \in SessionRecs
  BY DEF NewSession, SessionRecs
<1>3. Idle \in Calls
  BY <1>1, <1>2 DEF Idle, Calls, Ops, Pcs
<1> QED
  BY <1>1, <1>2, <1>3 DEF NoPort, Ports

(* A request made from a run and a session record is a commit request.     *)
LEMMA RequestType ==
  ASSUME NEW r \in RunIds, NEW run \in RunRecs, NEW ses \in SessionRecs,
         NEW tag \in CommitTags, NEW kind \in Kinds, NEW status \in Status,
         NEW wait \in Waits, NEW n \in Nat, NEW body \in Bodies,
         NEW prepared \in BOOLEAN, NEW rollback \in BOOLEAN
  PROVE  Request(r, run, ses, tag, kind, status, wait, n, body, prepared, rollback)
           \in CommitReqs
  BY DEF Request, CommitReqs, CommitIds, RunRecs, SessionRecs

(* So is the request of a terminal commit (_commit_run).                   *)
LEMMA TerminalRequestType ==
  ASSUME NEW r \in RunIds, NEW run \in RunRecs, NEW ses \in SessionRecs,
         NEW tag \in CommitTags, NEW status \in Status, NEW n \in Nat, NEW body \in Bodies
  PROVE  TerminalRequest(r, run, ses, tag, status, n, body) \in CommitReqs
<1>1. "terminal" \in Kinds /\ "no" \in Waits /\ FALSE \in BOOLEAN
  BY DEF Kinds, Waits
<1> QED
  BY <1>1, RequestType DEF TerminalRequest

(* The id of a message of a commit is a message id (_commit_child_id).     *)
LEMMA ChildType ==
  ASSUME NEW c \in CommitIds, NEW i \in Nat PROVE Child(c, i) \in MsgIds
  BY DEF Child, MsgIds

(* The id of a prompt's message is a message id (_request_scoped_id).      *)
LEMMA InputType ==
  ASSUME NEW q \in Requests PROVE Input(q) \in MsgIds
  BY DEF Input, MsgIds

(* The run and the session that a commit computes are well-typed.          *)
LEMMA CommittedTypes ==
  ASSUME TypeOK, NEW req \in CommitReqs
  PROVE  /\ req.id.run \in RunIds
         /\ CommitCursor(req) \in MsgIds \cup {NoMsg}
         /\ TargetRevision(req) \in Nat
         /\ CommittedRun(req) \in RunRecs
         /\ CommittedSession(req) \in SessionRecs
         /\ IsRepeat(req) => RecoveredSession(req) \in SessionRecs
<1>1. req.id \in CommitIds /\ req.id.run \in RunIds /\ req.n \in Nat /\ req.expected \in Nat
  BY DEF CommitReqs, CommitIds
<1>2. runs[req.id.run] \in RunRecs
  BY <1>1 DEF TypeOK
<1>3. CommitCursor(req) \in MsgIds \cup {NoMsg}
  <2>1. CASE req.n = 0
    BY <1>2, <2>1 DEF CommitCursor, RunRecs
  <2>2. CASE req.n # 0
    <3>1. req.n - 1 \in Nat
      BY <1>1, <2>2
    <3> QED
      BY <1>1, <2>2, <3>1, ChildType DEF CommitCursor
  <2> QED
    BY <2>1, <2>2
<1>4. TargetRevision(req) \in Nat
  BY <1>1 DEF TargetRevision
<1>5. CommittedRun(req) \in RunRecs
  <2>1. [req |-> req, target |-> TargetRevision(req)] \in [req : CommitReqs, target : Nat]
    BY <1>4
  <2>2. /\ req.status \in Status /\ req.wait \in Waits
        /\ req.prepared \in BOOLEAN /\ req.rollback \in BOOLEAN
    BY DEF CommitReqs
  <2>3. runs[req.id.run].rev + 1 \in Nat
    BY <1>2 DEF RunRecs
  <2> HIDE DEF CommitCursor, TargetRevision
  <2> QED
    BY <1>2, <1>3, <2>1, <2>2, <2>3 DEF CommittedRun, RunRecs
<1>6. NextCurrent(req) \in RunIds \cup {NoRun}
  BY <1>1 DEF NextCurrent
<1>7. CommittedSession(req) \in SessionRecs
  BY <1>3, <1>6 DEF CommittedSession, SessionRecs, TypeOK
<1>8. ASSUME IsRepeat(req) PROVE RecoveredSession(req) \in SessionRecs
  <2>1. runs[req.id.run].last.target \in Nat
    BY <1>2, <1>8 DEF IsRepeat, RunRecs
  <2> QED
    BY <1>2, <1>6, <2>1 DEF RecoveredSession, SessionRecs, RunRecs, TypeOK
<1> QED
  BY <1>1, <1>3, <1>4, <1>5, <1>7, <1>8

(* Entering commit_run_boundary yields a well-formed call.                 *)
LEMMA CommitCallType ==
  ASSUME TypeOK, NEW req \in CommitReqs, NEW retry \in BOOLEAN,
         NEW agenda \in SUBSET Agenda
  PROVE  LET c == CommitCall(req, retry, agenda)
         IN  /\ c \in Calls
             /\ c.op \in {"commit", "repeat"}
             /\ c.pc \in {"message", "run", "session", "event"}
             /\ c.pc \in {"message", "run"} => c.op = "commit"
             /\ c.id = req.id.run /\ c.id \in RunIds
             /\ c.req = req
             /\ c.retry = retry
<1>1. req.id.run \in RunIds /\ runs[req.id.run] \in RunRecs
  BY CommittedTypes DEF TypeOK
<1>2. CASE IsRepeat(req)
  <2>1. SessionOrEvents(RecoveredSession(req)) \in {"session", "event"}
    BY DEF SessionOrEvents
  <2>2. RecoveredSession(req) \in SessionRecs
    BY <1>2, CommittedTypes
  <2> QED
    BY <1>1, <1>2, <2>1, <2>2 DEF CommitCall, Calls, Ops, Pcs
<1>3. CASE ~IsRepeat(req)
  <2>1. AfterMessages(0, req) \in {"message", "run"}
    BY DEF AfterMessages
  <2>2. CommittedRun(req) \in RunRecs /\ CommittedSession(req) \in SessionRecs
    BY CommittedTypes
  <2> QED
    BY <1>1, <1>3, <2>1, <2>2 DEF CommitCall, Calls, Ops, Pcs
<1> QED
  BY <1>2, <1>3

-----------------------------------------------------------------------------
(* Type correctness *)

(* The initial state is well-typed.                                        *)
LEMMA TypedInit == Init => Typed
<1> SUFFICES ASSUME Init PROVE Typed
  OBVIOUS
<1>1. TypeOK
  BY AbsentTypes DEF Init, TypeOK
<1>2. CallShape
  BY DEF Init, CallShape, Idle, NoPort
<1> QED
  BY <1>1, <1>2 DEF Typed

(* A call that is over, or that starts with a record, is well-formed.      *)
LEMMA NewSessionTypes ==
  ASSUME TypeOK, NEW r \in RunIds
  PROVE  /\ \A cursor \in MsgIds \cup {NoMsg} : BoundSession(r, cursor) \in SessionRecs
         /\ \A q \in Requests : CreatedRun(q) \in RunRecs /\ CreatedRun(q).request = q
         /\ \A prepared \in BOOLEAN : ResumedRun(r, prepared) \in RunRecs
         /\ runs[r] \in RunRecs /\ runs[r].cursor \in MsgIds \cup {NoMsg}
<1>1. \A cursor \in MsgIds \cup {NoMsg} : BoundSession(r, cursor) \in SessionRecs
  BY DEF BoundSession, SessionRecs, TypeOK
<1>2. ASSUME NEW q \in Requests
      PROVE  CreatedRun(q) \in RunRecs /\ CreatedRun(q).request = q
  BY InputType, AbsentTypes DEF CreatedRun, AbsentRun, RunRecs, Status, Live, Waits
<1>3. runs[r] \in RunRecs /\ runs[r].cursor \in MsgIds \cup {NoMsg}
  BY DEF TypeOK, RunRecs
<1>4. ASSUME NEW prepared \in BOOLEAN PROVE ResumedRun(r, prepared) \in RunRecs
  <2>1. /\ "running" \in Status /\ "no" \in Waits
        /\ runs[r].rev + 1 \in Nat
        /\ (runs[r].prepared \/ prepared) \in BOOLEAN
    BY <1>3 DEF Status, Live, Waits, RunRecs
  <2> QED
    BY <1>3, <2>1 DEF ResumedRun, RunRecs
<1> QED
  BY <1>1, <1>2, <1>3, <1>4

(* Admitting a run keeps well-typed states (begin_run).                    *)
LEMMA TypedBegin ==
  ASSUME Typed, NEW q \in Requests, NEW r \in RunIds, Begin(q, r)
  PROVE  Typed'
<1>1. CreatedRun(q) \in RunRecs /\ CreatedRun(q).request = q
  BY NewSessionTypes DEF Typed
<1>2. BoundSession(r, Input(q)) \in SessionRecs
  BY NewSessionTypes, InputType DEF Typed
<1>3. call' \in Calls
  BY <1>1, <1>2, AbsentTypes DEF Begin, Calls, Ops, Pcs, Idle
<1>4. TypeOK'
  BY <1>3 DEF Begin, Typed, TypeOK, disk, volatile
<1>5. CallShape'
  BY <1>1 DEF Begin, Typed, CallShape, Quiet, Idle, volatile
<1> QED
  BY <1>4, <1>5 DEF Typed

(* Repeating or repairing an admission keeps well-typed states             *)
(* (_reuse_begin_run).                                                     *)
LEMMA TypedReuse ==
  ASSUME Typed, NEW q \in Requests, NEW r \in RunIds, Reuse(q, r)
  PROVE  Typed'
<1>1. runs[r] \in RunRecs /\ BoundSession(r, runs[r].cursor) \in SessionRecs
  BY NewSessionTypes DEF Typed
<1>2. CASE UNCHANGED call
  <2>1. /\ session' = session /\ runs' = runs /\ log' = log
        /\ sessionEvents' = sessionEvents /\ runEvents' = runEvents
        /\ drift' = drift /\ faults' = faults /\ call.pc = "idle"
    BY DEF Reuse, disk, Quiet
  <2>2. \/ view' = session /\ port' = [id |-> r, run |-> runs[r], ses |-> session,
                                      complete |-> TRUE]
        \/ UNCHANGED volatile
    BY DEF Reuse
  <2>3. view' \in SessionRecs /\ port' \in Ports
    <3>1. CASE view' = session /\ port' = [id |-> r, run |-> runs[r], ses |-> session,
                                           complete |-> TRUE]
      BY <1>1, <3>1 DEF Typed, TypeOK, Ports
    <3>2. CASE UNCHANGED volatile
      BY <3>2 DEF Typed, TypeOK, volatile
    <3> QED
      BY <2>2, <3>1, <3>2
  <2>5. TypeOK'
    BY <1>2, <2>1, <2>3 DEF Typed, TypeOK
  <2>4. CallShape'
    BY <1>2, <2>1, <2>2 DEF Typed, CallShape, volatile
  <2> QED
    BY <2>4, <2>5 DEF Typed
<1>3. CASE /\ UNCHANGED volatile
           /\ call' = [Idle EXCEPT !.op = "repair", !.pc = "session", !.id = r,
                                   !.run = runs[r], !.ses = BoundSession(r, runs[r].cursor)]
  <2>1. call' \in Calls
    BY <1>1, <1>3, AbsentTypes DEF Calls, Ops, Pcs, Idle
  <2>2. TypeOK'
    BY <1>3, <2>1 DEF Reuse, Typed, TypeOK, disk, volatile
  <2>3. CallShape'
    BY <1>3 DEF Typed, CallShape, Idle, volatile
  <2> QED
    BY <2>2, <2>3 DEF Typed
<1> QED
  BY <1>2, <1>3 DEF Reuse

(* Entering resume_run yields a well-formed call.                          *)
LEMMA ResumeCallType ==
  ASSUME TypeOK, NEW r \in RunIds, NEW prepared \in BOOLEAN, NEW agenda \in SUBSET Agenda
  PROVE  LET c == ResumeCall(r, prepared, agenda)
         IN  /\ c \in Calls
             /\ c.op = "resume" /\ c.pc = "run" /\ c.id = r /\ ~c.retry
<1>1. ResumedRun(r, prepared) \in RunRecs
  BY NewSessionTypes
<1>2. session \in SessionRecs
  BY DEF TypeOK
<1> QED
  BY <1>1, <1>2, AbsentTypes DEF ResumeCall, Calls, Ops, Pcs, Idle

(* Resuming with a prepared decision keeps well-typed states               *)
(* (_prepare_resume).                                                      *)
LEMMA TypedDecide ==
  ASSUME Typed, NEW r \in RunIds, Decide(r)
  PROVE  Typed'
<1>1. {} \in SUBSET Agenda /\ TRUE \in BOOLEAN
  OBVIOUS
<1>2. /\ call' \in Calls
      /\ call'.op = "resume" /\ call'.pc = "run" /\ call'.id = r /\ ~call'.retry
  <2>1. TypeOK /\ call' = ResumeCall(r, TRUE, {})
    BY DEF Decide, Typed
  <2> HIDE DEF TypeOK
  <2> QED
    BY <1>1, <2>1, ResumeCallType
<1>3. TypeOK'
  BY <1>2 DEF Decide, Typed, TypeOK, disk, volatile
<1>4. CallShape'
  BY <1>2 DEF Decide, Typed, CallShape, volatile
<1> QED
  BY <1>3, <1>4 DEF Typed

(* Continuing a run keeps well-typed states (_prepare_continuation).       *)
LEMMA TypedContinue ==
  ASSUME Typed, NEW r \in RunIds, Continue(r)
  PROVE  Typed'
<1>1. runs[r] \in RunRecs /\ session \in SessionRecs
  BY NewSessionTypes DEF Typed, TypeOK
<1>2. CASE /\ view' = session /\ UNCHANGED call
           /\ port' = [id |-> r, run |-> runs[r], ses |-> session,
                       complete |-> session.leaf = runs[r].cursor]
  <2>1. TypeOK'
    BY <1>1, <1>2 DEF Continue, Typed, TypeOK, disk, Ports
  <2>2. CallShape'
    BY <1>2 DEF Continue, Quiet, Typed, CallShape
  <2> QED
    BY <2>1, <2>2 DEF Typed
<1>3. CASE /\ UNCHANGED volatile
           /\ \/ call' = ResumeCall(r, FALSE, {})
              \/ call' = ResumeCall(r, FALSE, {"input"})
  <2>1. {} \in SUBSET Agenda /\ {"input"} \in SUBSET Agenda /\ FALSE \in BOOLEAN
    BY DEF Agenda
  <2>2. /\ call' \in Calls
        /\ call'.op = "resume" /\ call'.pc = "run" /\ call'.id = r /\ ~call'.retry
    <3>0. TypeOK
      BY DEF Typed
    <3> HIDE DEF TypeOK
    <3>1. \A agenda \in SUBSET Agenda :
            LET c == ResumeCall(r, FALSE, agenda)
            IN  c \in Calls /\ c.op = "resume" /\ c.pc = "run" /\ c.id = r /\ ~c.retry
      BY <3>0, ResumeCallType
    <3>2. PICK agenda \in SUBSET Agenda : call' = ResumeCall(r, FALSE, agenda)
      BY <1>3, <2>1
    <3> QED
      BY <3>1, <3>2
  <2>3. TypeOK'
    BY <1>3, <2>2 DEF Continue, Typed, TypeOK, disk, volatile
  <2>4. CallShape'
    BY <1>3, <2>2 DEF Typed, CallShape, volatile
  <2> QED
    BY <2>3, <2>4 DEF Typed
<1> QED
  BY <1>2, <1>3 DEF Continue

(* A step that only enters commit_run_boundary.                            *)
LEMMA TypedCommitCall ==
  ASSUME Typed, NEW req \in CommitReqs, NEW retry \in BOOLEAN, NEW agenda \in SUBSET Agenda,
         call' = CommitCall(req, retry, agenda), view' \in SessionRecs, port' \in Ports,
         port' # NoPort => port'.id \in RunIds,
         retry \/ req.id.tag = "progress" => port'.id \in RunIds,
         UNCHANGED disk, faults' \in Nat
  PROVE  Typed'
<1>1. /\ call' \in Calls
      /\ call'.op \in {"commit", "repeat"}
      /\ call'.pc \in {"message", "run", "session", "event"}
      /\ call'.pc \in {"message", "run"} => call'.op = "commit"
      /\ call'.id \in RunIds
      /\ call'.req = req
      /\ call'.retry = retry
  BY CommitCallType DEF Typed
<1>2. TypeOK'
  BY <1>1 DEF Typed, TypeOK, disk
<1>3. CallShape'
  BY <1>1 DEF CallShape
<1> QED
  BY <1>2, <1>3 DEF Typed

(* Starting a boundary commit keeps well-typed states                      *)
(* (RuntimeSessionStateAdapter.commit).                                    *)
LEMMA TypedCommitBoundary ==
  ASSUME Typed, NEW n \in 0..MaxNew, NEW body \in Bodies, CommitBoundary(n, body)
  PROVE  Typed'
<1>1. PICK step \in {[kind |-> "progress", status |-> "running", wait |-> "no"]}
                      \cup [kind : {"waiting"}, status : {"waiting"}, wait : Waits \ {"no"}] :
        call' = CommitCall(Request(port.id, port.run, port.ses, step.kind, step.kind,
                                   step.status, step.wait, n, body, FALSE, port.run.rollback),
                           TRUE, {})
  BY DEF CommitBoundary
<1>2. /\ step.kind \in Kinds /\ step.kind \in CommitTags
      /\ step.status \in Status /\ step.wait \in Waits
  BY DEF Kinds, CommitTags, Status, Live, Waits
<1>3. /\ port.id \in RunIds /\ port.run \in RunRecs /\ port.ses \in SessionRecs
      /\ port.run.rollback \in BOOLEAN /\ n \in Nat
  BY BoundsAssumption DEF CommitBoundary, Typed, TypeOK, CallShape, Ports, RunRecs
<1>4. Request(port.id, port.run, port.ses, step.kind, step.kind,
              step.status, step.wait, n, body, FALSE, port.run.rollback) \in CommitReqs
  BY <1>2, <1>3, RequestType
<1>5. /\ UNCHANGED disk /\ faults' = faults /\ view' = view /\ port' = port
      /\ view' \in SessionRecs /\ port' \in Ports /\ faults' \in Nat
  BY DEF CommitBoundary, volatile, Typed, TypeOK
<1>6. {} \in SUBSET Agenda /\ TRUE \in BOOLEAN
  OBVIOUS
<1> QED
  BY <1>1, <1>3, <1>4, <1>5, <1>6, TypedCommitCall

(* Starting a terminal commit keeps well-typed states (_commit_run).       *)
LEMMA TypedCommitTerminal ==
  ASSUME Typed, NEW n \in 0..MaxNew, NEW body \in Bodies, NEW status \in Outcomes,
         CommitTerminal(status, n, body)
  PROVE  Typed'
<1> DEFINE req == TerminalRequest(port.id, port.run, port.ses, "terminal", status, n, body)
<1>1. call' = CommitCall(req, TRUE, {})
  BY DEF CommitTerminal
<1>2. /\ port.id \in RunIds /\ port.run \in RunRecs /\ port.ses \in SessionRecs
      /\ n \in Nat /\ status \in Status /\ "terminal" \in CommitTags
  BY BoundsAssumption DEF CommitTerminal, Typed, TypeOK, CallShape, Ports, Status, CommitTags
<1>3. req \in CommitReqs
  BY <1>2, TerminalRequestType
<1>4. /\ UNCHANGED disk /\ faults' = faults /\ view' = view /\ port' = port
      /\ view' \in SessionRecs /\ port' \in Ports /\ faults' \in Nat
  BY DEF CommitTerminal, volatile, Typed, TypeOK
<1>5. {} \in SUBSET Agenda /\ TRUE \in BOOLEAN
  OBVIOUS
<1> HIDE DEF req
<1> QED
  BY <1>1, <1>2, <1>3, <1>4, <1>5, TypedCommitCall

(* Starting a plan command keeps well-typed states (_apply_plan_command).  *)
LEMMA TypedPlanCommand ==
  ASSUME Typed, NEW agenda \in SUBSET {"plan_terminal", "mode"}, PlanCommand(agenda)
  PROVE  Typed'
<1> DEFINE r == view.current
           req == Request(r, runs[r], view, "core_command", "progress", "running", "no", 0,
                          AnyBody, runs[r].prepared, runs[r].rollback)
<1>1. call' = CommitCall(req, FALSE, agenda)
  BY DEF PlanCommand
<1>2. r \in RunIds /\ view \in SessionRecs
  BY DEF PlanCommand, HasCheckpoint, Typed, TypeOK, SessionRecs
<1>3. runs[r] \in RunRecs /\ runs[r].prepared \in BOOLEAN /\ runs[r].rollback \in BOOLEAN
  BY <1>2 DEF Typed, TypeOK, RunRecs
<1>4. /\ "core_command" \in CommitTags /\ "progress" \in Kinds
      /\ "running" \in Status /\ "no" \in Waits
  BY DEF CommitTags, Kinds, Status, Live, Waits
<1>5. req \in CommitReqs /\ req.id.tag # "progress"
  BY <1>2, <1>3, <1>4, RequestType, AnyBodyType DEF Request
<1>6. /\ UNCHANGED disk /\ faults' = faults /\ view' = view /\ port' = port
      /\ view' \in SessionRecs /\ port' \in Ports /\ faults' \in Nat
  BY DEF PlanCommand, volatile, Typed, TypeOK
<1>7. agenda \in SUBSET Agenda /\ FALSE \in BOOLEAN
  BY DEF Agenda
<1>8. port' # NoPort => port'.id \in RunIds
  BY <1>6 DEF Typed, CallShape
<1> HIDE DEF req, r
<1> QED
  BY <1>1, <1>5, <1>6, <1>7, <1>8, TypedCommitCall

(* Entering update_session_mode yields a well-formed call.                 *)
LEMMA ModeCallType ==
  ASSUME TypeOK
  PROVE  /\ ModeCall \in Calls /\ ModeCall.op = "mode" /\ ModeCall.pc = "session"
         /\ ~ModeCall.retry
<1>1. [session EXCEPT !.rev = @ + 1] \in SessionRecs
  BY DEF TypeOK, SessionRecs
<1> QED
  BY <1>1, AbsentTypes DEF ModeCall, Idle, Calls, Ops, Pcs

(* Starting a mode change keeps well-typed states (set_current_mode).      *)
LEMMA TypedSetMode ==
  ASSUME Typed, SetMode
  PROVE  Typed'
<1>1. /\ call' \in Calls /\ call'.op = "mode" /\ call'.pc = "session" /\ ~call'.retry
  BY ModeCallType DEF SetMode, Typed
<1>2. TypeOK'
  BY <1>1 DEF SetMode, Typed, TypeOK, disk, volatile
<1>3. CallShape'
  BY <1>1 DEF SetMode, Typed, CallShape, volatile
<1> QED
  BY <1>2, <1>3 DEF Typed

(* Reopening, or a crash keeps well-typed states (__init__).               *)
LEMMA TypedReopenOrCrash ==
  ASSUME Typed, Reopen \/ Crash
  PROVE  Typed'
<1>1. CASE Reopen
  <2>1. TypeOK'
    BY <1>1 DEF Reopen, Typed, TypeOK, disk
  <2>2. CallShape'
    BY <1>1 DEF Reopen, Typed, CallShape
  <2> QED
    BY <2>1, <2>2 DEF Typed
<1>2. CASE Crash
  <2>1. TypeOK'
    BY <1>2, AbsentTypes DEF Crash, Typed, TypeOK, disk
  <2>2. CallShape'
    BY <1>2 DEF Crash, CallShape, Idle
  <2> QED
    BY <2>1, <2>2 DEF Typed
<1> QED
  BY <1>1, <1>2

(* The event of a call is one of the event ids.                            *)
LEMMA EventType ==
  ASSUME Typed, call.pc \notin {"idle", "retry"}
  PROVE  Event \in EventIds
<1>1. call.op # "none" /\ call.op \in Ops /\ call.id \in RunIds \cup {NoRun}
  BY DEF Typed, TypeOK, CallShape, Calls
<1>2. call.ses.rev \in Nat /\ call.run.rev \in Nat
  BY DEF Typed, TypeOK, Calls, RunRecs, SessionRecs
<1>3. CASE call.op \in {"commit", "repeat"}
  <2>1. call.req.id \in CommitIds
    BY <1>3 DEF Typed, CallShape, CommitReqs
  <2> QED
    BY <1>3, <2>1 DEF Event, CommitIds, EventIds, EventTags
<1>4. CASE call.op \notin {"commit", "repeat"}
  <2>1. call.op \in EventTags
    BY <1>1, <1>4 DEF Ops, EventTags
  <2> QED
    BY <1>1, <1>2, <1>4, <2>1 DEF Event, EventIds
<1> QED
  BY <1>3, <1>4

(* The message a call is about to append is one of the messages.           *)
LEMMA NextMessageType ==
  ASSUME Typed, call.pc = "message"
  PROVE  NextMessage \in Messages
<1>1. call.op \in {"begin", "commit"} /\ call.k \in Nat
  BY DEF Typed, TypeOK, CallShape, Calls
<1>2. CASE call.op = "begin"
  <2>1. call.run.request \in Requests /\ session.leaf \in MsgIds \cup {NoMsg}
    BY <1>2 DEF Typed, TypeOK, CallShape, SessionRecs
  <2> QED
    BY <1>2, <2>1, InputType, AnyBodyType DEF NextMessage, InputMessage, Messages
<1>3. CASE call.op = "commit"
  <2>1. call.req.id \in CommitIds /\ call.req.body \in Bodies /\ call.id \in RunIds
    BY <1>3 DEF Typed, CallShape, CommitReqs
  <2>2. runs[call.id].cursor \in MsgIds \cup {NoMsg}
    BY <2>1 DEF Typed, TypeOK, RunRecs
  <2>3. Child(call.req.id, call.k) \in MsgIds
    BY <1>1, <2>1, ChildType
  <2>4. call.k # 0 => Child(call.req.id, call.k - 1) \in MsgIds
    <3>1. call.k # 0 => call.k - 1 \in Nat
      BY <1>1
    <3> QED
      BY <2>1, <3>1, ChildType
  <2> QED
    BY <1>3, <2>1, <2>2, <2>3, <2>4 DEF NextMessage, Messages
<1> QED
  BY <1>1, <1>2, <1>3

(* A file write leaves well-formed files.                                  *)
LEMMA TypedFileWrite ==
  ASSUME Typed, FileWrite
  PROVE  /\ session' \in SessionRecs /\ runs' \in [RunIds -> RunRecs]
         /\ log' \subseteq Messages
         /\ sessionEvents' \subseteq EventIds /\ runEvents' \subseteq EventIds
         /\ drift' \in BOOLEAN
<1> USE DEF Typed, TypeOK
<1>1. CASE WriteMessage
  <2>1. NextMessage \in Messages
    BY <1>1, NextMessageType DEF WriteMessage
  <2> QED
    BY <1>1, <2>1 DEF WriteMessage
<1>2. CASE WriteRun
  <2>1. call.run \in RunRecs
    BY DEF Calls
  <2> QED
    BY <1>2, <2>1 DEF WriteRun
<1>3. CASE WriteSession
  BY <1>3 DEF WriteSession, Calls
<1>4. CASE WriteEvent
  <2>1. Event \in EventIds
    BY <1>4, EventType DEF WriteEvent
  <2> QED
    BY <1>4, <2>1 DEF WriteEvent
<1>5. CASE WriteRunEvent
  <2>1. Event \in EventIds
    BY <1>5, EventType DEF WriteRunEvent
  <2> QED
    BY <1>5, <2>1 DEF WriteRunEvent
<1> QED
  BY <1>1, <1>2, <1>3, <1>4, <1>5 DEF FileWrite

(* A file write that succeeds keeps well-typed states                      *)
(* (commit_run_boundary).                                                  *)
LEMMA TypedWrite ==
  ASSUME Typed, Write
  PROVE  Typed'
<1>1. /\ call.pc \in {"message", "run", "session", "event", "runEvent"}
      /\ call.pc = "message" => call.op \in {"begin", "commit"}
      /\ call.op # "none"
  BY DEF Write, FileWrite, WriteMessage, WriteRun, WriteSession, WriteEvent, WriteRunEvent,
         Typed, CallShape
<1>2. /\ NextPc \in {"message", "run", "session", "event", "runEvent", "return"}
      /\ NextPc = "message" => call.op = "commit"
      /\ NextPc = "run" => call.op \in {"begin", "commit"}
  <2>1. CASE call.pc = "message"
    BY <1>1, <2>1 DEF NextPc, AfterMessages
  <2>2. CASE call.pc # "message"
    BY <1>1, <2>2 DEF NextPc, SessionOrEvents
  <2> QED
    BY <2>1, <2>2
<1>3. PICK k \in Nat : call' = [call EXCEPT !.pc = NextPc, !.k = k]
  <2>1. call.k \in Nat /\ call.k + 1 \in Nat
    BY DEF Typed, TypeOK, Calls
  <2> QED
    BY <2>1 DEF Write
<1>4. call \in Calls
  BY DEF Typed, TypeOK
<1>5. /\ call' \in Calls
      /\ call'.pc = NextPc /\ call'.op = call.op /\ call'.id = call.id
      /\ call'.run = call.run /\ call'.req = call.req /\ call'.retry = call.retry
  <2> HIDE DEF NextPc
  <2>1. NextPc \in Pcs
    BY <1>2 DEF Pcs
  <2> QED
    BY <1>3, <1>4, <2>1 DEF Calls
<1>6. view' = view /\ port' = port /\ faults' = faults
  BY DEF Write, volatile
<1>7. TypeOK'
  BY <1>5, <1>6, TypedFileWrite DEF Write, Typed, TypeOK
<1>8. CallShape'
  <2> HIDE DEF NextPc
  <2> QED
    BY <1>1, <1>2, <1>5, <1>6 DEF Typed, CallShape
<1> QED
  BY <1>7, <1>8 DEF Typed

(* An OSError keeps well-typed states (RuntimeSessionStateAdapter.commit). *)
LEMMA TypedFault ==
  ASSUME Typed, Fault
  PROVE  Typed'
<1>1. faults' \in Nat /\ view' = view
  BY DEF Fault, Abandon, volatile, Typed, TypeOK
<1>2. /\ session' \in SessionRecs /\ runs' \in [RunIds -> RunRecs]
      /\ log' \subseteq Messages
      /\ sessionEvents' \subseteq EventIds /\ runEvents' \subseteq EventIds
      /\ drift' \in BOOLEAN
  <2>1. CASE FileWrite
    BY <2>1, TypedFileWrite
  <2>2. CASE UNCHANGED disk
    BY <2>2 DEF disk, Typed, TypeOK
  <2> QED
    BY <2>1, <2>2 DEF Fault
<1>3. CASE call.retry
  <2>1. call.req \in CommitReqs /\ port.id \in RunIds
    BY <1>3 DEF Typed, CallShape
  <2>2. call' = [Idle EXCEPT !.pc = "retry", !.req = call.req] /\ port' = port
    BY <1>3 DEF Fault, volatile
  <2>3. call' \in Calls
    BY <2>1, <2>2, AbsentTypes DEF Idle, Calls, Pcs
  <2>4. TypeOK'
    BY <1>1, <1>2, <2>2, <2>3 DEF Typed, TypeOK
  <2>5. CallShape'
    BY <2>1, <2>2 DEF CallShape, Idle
  <2> QED
    BY <2>4, <2>5 DEF Typed
<1>4. CASE ~call.retry
  <2>1. call' = Idle /\ port' = NoPort
    BY <1>4 DEF Fault, Abandon
  <2>2. TypeOK'
    BY <1>1, <1>2, <2>1, AbsentTypes DEF Typed, TypeOK
  <2>3. CallShape'
    BY <2>1 DEF CallShape, Idle
  <2> QED
    BY <2>2, <2>3 DEF Typed
<1> QED
  BY <1>3, <1>4

(* Giving a call up keeps well-typed states (_execute_prepared_run).       *)
LEMMA TypedAbandon ==
  ASSUME Typed, Abandon, UNCHANGED disk, UNCHANGED faults
  PROVE  Typed'
<1>1. TypeOK'
  BY AbsentTypes DEF Abandon, Typed, TypeOK, disk
<1>2. CallShape'
  BY DEF Abandon, CallShape, Idle
<1> QED
  BY <1>1, <1>2 DEF Typed

(* Repeating a commit keeps well-typed states                              *)
(* (RuntimeSessionStateAdapter.commit).                                    *)
LEMMA TypedRetry ==
  ASSUME Typed, Retry
  PROVE  Typed'
<1>1. call.req \in CommitReqs /\ call' = CommitCall(call.req, FALSE, {})
  BY DEF Retry, Typed, CallShape
<1>2. /\ UNCHANGED disk /\ faults' = faults /\ view' = view /\ port' = port
      /\ view' \in SessionRecs /\ port' \in Ports /\ faults' \in Nat
      /\ port'.id \in RunIds
  BY DEF Retry, volatile, Typed, TypeOK, CallShape
<1>3. {} \in SUBSET Agenda /\ FALSE \in BOOLEAN
  OBVIOUS
<1> QED
  BY <1>1, <1>2, <1>3, TypedCommitCall

(* A cancellation before the repetition keeps well-typed states            *)
(* (_execute_prepared_run).                                                *)
LEMMA TypedCancelRetry ==
  ASSUME Typed, CancelRetry
  PROVE  Typed'
<1> DEFINE req == TerminalRequest(port.id, port.run, port.ses, "terminal", "cancelled", 0,
                                  AnyBody)
<1>1. port.id \in RunIds /\ port.run \in RunRecs /\ port.ses \in SessionRecs
  BY DEF CancelRetry, Typed, TypeOK, CallShape, Ports
<1>2. "terminal" \in CommitTags /\ "cancelled" \in Status /\ 0 \in Nat
  BY DEF CommitTags, Status, Outcomes
<1>3. req \in CommitReqs
  BY <1>1, <1>2, TerminalRequestType, AnyBodyType
<1>4. UNCHANGED disk /\ faults' = faults
  BY DEF CancelRetry
<1>5. CASE call' = CommitCall(req, TRUE, {}) /\ UNCHANGED volatile
  <2>1. /\ view' = view /\ port' = port
        /\ view' \in SessionRecs /\ port' \in Ports /\ faults' \in Nat
    BY <1>4, <1>5 DEF volatile, Typed, TypeOK
  <2>2. {} \in SUBSET Agenda /\ TRUE \in BOOLEAN
    OBVIOUS
  <2> HIDE DEF req
  <2> QED
    BY <1>1, <1>3, <1>4, <1>5, <2>1, <2>2, TypedCommitCall
<1>6. CASE Abandon
  BY <1>4, <1>6, TypedAbandon
<1> QED
  BY <1>5, <1>6 DEF CancelRetry

(* The adapter that a returning call attaches is well-formed.              *)
LEMMA AttachedType ==
  ASSUME Typed, call.op \notin {"none", "mode"}
  PROVE  Attached \in Ports /\ Attached.id \in RunIds
<1>1. call.id \in RunIds /\ call.run \in RunRecs /\ call.ses \in SessionRecs
  BY DEF Typed, TypeOK, CallShape, Calls
<1>2. call.run.prepared \in BOOLEAN
  BY <1>1 DEF RunRecs
<1> QED
  BY <1>1, <1>2 DEF Attached, Ports

(* A return that ends the call leaves everything else typed.               *)
LEMMA TypedReturned ==
  ASSUME Typed, call' = Idle, view' \in SessionRecs, port' \in Ports,
         port' # NoPort => port'.id \in RunIds, UNCHANGED disk, UNCHANGED faults
  PROVE  Typed'
<1>1. TypeOK'
  BY AbsentTypes DEF Typed, TypeOK, disk
<1>2. CallShape'
  BY DEF CallShape, Idle
<1> QED
  BY <1>1, <1>2 DEF Typed

(* The return of a call keeps well-typed states (_commit_run,              *)
(* _prepare_run, _prepare_continuation).                                   *)
LEMMA TypedReturn ==
  ASSUME Typed, Return
  PROVE  Typed'
<1>1. /\ UNCHANGED disk /\ faults' = faults /\ faults' \in Nat
      /\ call.ses \in SessionRecs /\ call.run \in RunRecs
      /\ view \in SessionRecs /\ port \in Ports
      /\ port # NoPort => port.id \in RunIds
  BY DEF Return, Typed, TypeOK, CallShape, Calls
<1>2. ASSUME ReturnAdmission \/ ReturnInput PROVE Typed'
  <2>1. call.op \notin {"none", "mode"}
    BY <1>2 DEF ReturnAdmission, ReturnInput
  <2>2. view' = call.ses /\ port' = Attached /\ call' = Idle
    BY <1>2 DEF ReturnAdmission, ReturnInput
  <2> QED
    BY <1>1, <2>1, <2>2, AttachedType, TypedReturned
<1>3. ASSUME ReturnResume PROVE Typed'
  <2>1. call.op \notin {"none", "mode"} /\ call.id \in RunIds
    BY <1>3 DEF ReturnResume, Typed, CallShape
  <2>2. CASE port' = Attached /\ call' = Idle
    <3>1. view' = call.ses
      BY <1>3 DEF ReturnResume
    <3> QED
      BY <1>1, <2>1, <2>2, <3>1, AttachedType, TypedReturned
  <2>3. CASE /\ \E body \in Bodies : call' = CommitCall(InputRequest(body), FALSE, {})
             /\ UNCHANGED port
    <3>1. PICK body \in Bodies : call' = CommitCall(InputRequest(body), FALSE, {})
      BY <2>3
    <3>2. /\ "continuation_input" \in CommitTags /\ "progress" \in Kinds
          /\ "running" \in Status /\ "no" \in Waits /\ 1 \in Nat /\ FALSE \in BOOLEAN
      BY DEF CommitTags, Kinds, Status, Live, Waits
    <3>3. InputRequest(body) \in CommitReqs /\ InputRequest(body).id.tag # "progress"
      BY <1>1, <2>1, <3>2, RequestType DEF InputRequest, Request
    <3>4. view' \in SessionRecs /\ port' \in Ports /\ (port' # NoPort => port'.id \in RunIds)
      BY <1>1, <1>3, <2>3 DEF ReturnResume
    <3>5. {} \in SUBSET Agenda
      OBVIOUS
    <3> QED
      BY <1>1, <3>1, <3>2, <3>3, <3>4, <3>5, TypedCommitCall
  <2> QED
    BY <1>3, <2>2, <2>3 DEF ReturnResume
<1>4. ASSUME ReturnBoundary PROVE Typed'
  <2>1. call' = Idle /\ view' = view
    BY <1>4 DEF ReturnBoundary
  <2>2. port' \in Ports /\ port'.id = port.id
    BY <1>1, <1>4 DEF ReturnBoundary, Ports
  <2>3. port'.id \in RunIds
    BY <1>4, <2>2 DEF ReturnBoundary, Typed, CallShape
  <2> QED
    BY <1>1, <2>1, <2>2, <2>3, TypedReturned
<1>5. ASSUME ReturnPaused PROVE Typed'
  <2>1. view' = call.ses /\ port' = NoPort /\ call' = Idle
    BY <1>5 DEF ReturnPaused
  <2> QED
    BY <1>1, <2>1, AbsentTypes, TypedReturned
<1>6. ASSUME ReturnPlan PROVE Typed'
  <2>1. call.id \in RunIds /\ call.agenda \in SUBSET Agenda
    BY <1>6 DEF ReturnPlan, Typed, TypeOK, CallShape, Calls
  <2>2. /\ view' = call.ses /\ port' = port
        /\ view' \in SessionRecs /\ port' \in Ports /\ (port' # NoPort => port'.id \in RunIds)
    BY <1>1, <1>6 DEF ReturnPlan
  <2>3. CASE call' = CommitCall(PlanTerminal, FALSE, call.agenda \ {"plan_terminal"})
    <3>1. "plan_terminal" \in CommitTags /\ "cancelled" \in Status /\ 0 \in Nat
      BY DEF CommitTags, Status, Outcomes
    <3>2. PlanTerminal \in CommitReqs /\ PlanTerminal.id.tag # "progress"
      BY <1>1, <2>1, <3>1, TerminalRequestType, AnyBodyType
         DEF PlanTerminal, TerminalRequest, Request
    <3>3. call.agenda \ {"plan_terminal"} \in SUBSET Agenda /\ FALSE \in BOOLEAN
      BY <2>1
    <3> QED
      BY <1>1, <2>2, <2>3, <3>2, <3>3, TypedCommitCall
  <2>4. CASE call' = ModeCall
    <3>1. ModeCall \in Calls /\ ModeCall.op = "mode" /\ ModeCall.pc = "session"
          /\ ~ModeCall.retry
      BY ModeCallType DEF Typed
    <3>2. TypeOK'
      BY <1>1, <2>2, <2>4, <3>1 DEF Typed, TypeOK, disk
    <3>3. CallShape'
      BY <2>2, <2>4, <3>1 DEF CallShape
    <3> QED
      BY <3>2, <3>3 DEF Typed
  <2>5. CASE call' = Idle
    BY <1>1, <2>2, <2>5, TypedReturned
  <2> QED
    BY <1>6, <2>3, <2>4, <2>5 DEF ReturnPlan
<1>7. ASSUME ReturnMode PROVE Typed'
  <2>1. view' = call.ses /\ port' = port /\ call' = Idle
    BY <1>7 DEF ReturnMode
  <2> QED
    BY <1>1, <2>1, TypedReturned
<1> QED
  BY <1>2, <1>3, <1>4, <1>5, <1>6, <1>7 DEF Return

(* Every step keeps well-typed states.                                     *)
LEMMA TypedNext == Typed /\ [Next]_vars => Typed'
<1> SUFFICES ASSUME Typed, [Next]_vars PROVE Typed'
  OBVIOUS
<1>0. ASSUME ChangeWorkspace PROVE Typed'
  BY <1>0 DEF ChangeWorkspace, volatile, Typed, TypeOK, CallShape
<1>1. ASSUME Handler PROVE Typed'
  BY <1>0, <1>1, TypedBegin, TypedReuse, TypedDecide, TypedContinue, TypedCommitBoundary,
     TypedCommitTerminal, TypedPlanCommand, TypedSetMode, TypedReopenOrCrash DEF Handler
<1>2. ASSUME Service PROVE Typed'
  <2>1. ASSUME MessageConflict PROVE Typed'
    BY <2>1, TypedAbandon DEF MessageConflict
  <2> QED
    BY <1>2, <2>1, TypedWrite, TypedRetry, TypedCancelRetry, TypedReturn DEF Service
<1>3. CASE UNCHANGED vars
  BY <1>3 DEF vars, Typed, TypeOK, CallShape
<1> QED
  BY <1>1, <1>2, <1>3, TypedFault, TypedReopenOrCrash DEF Next

(* Every state of the session store is well-typed, whatever the number of  *)
(* runs, messages, faults and retries (sessions/service.py).               *)
THEOREM TypeCorrect == Spec => []TypeOK
<1>1. Spec => []Typed
  BY TypedInit, TypedNext, PTL DEF Spec
<1>2. Typed => TypeOK
  BY DEF Typed
<1> QED
  BY <1>1, <1>2, PTL

-----------------------------------------------------------------------------
(* The lifecycle of runs *)

(* The run lifecycle: any active run may be resumed or cancelled, and no   *)
(* successor is "absent".                                                  *)
LEMMA SuccessorFacts ==
  ASSUME NEW p
  PROVE  /\ p \in Live => "running" \in Ledger!Successors(p)
         /\ p \in Live => "cancelled" \in Ledger!Successors(p)
         /\ p = "running" => Outcomes \cup {"waiting"} \subseteq Ledger!Successors(p)
         /\ "absent" \notin Ledger!Successors(p)
         /\ Ledger!Successors(p) # {} => p \in Live
         /\ Ledger!Successors(p) \subseteq Status
<1>1. CASE p = "created"
  BY <1>1 DEF Ledger!Successors, Live, Outcomes, Status
<1>2. CASE p = "running"
  BY <1>2 DEF Ledger!Successors, Ledger!Final, Live, Outcomes, Status
<1>3. CASE p = "waiting"
  BY <1>3 DEF Ledger!Successors, Live, Outcomes, Status
<1>4. CASE p \notin {"created", "running", "waiting"}
  BY <1>4 DEF Ledger!Successors, Live, Outcomes, Status
<1> QED
  BY <1>1, <1>2, <1>3, <1>4

(* The initial state satisfies Lifecycle.                                  *)
LEMMA LifecycleInit == Init => Lifecycle
  BY DEF Init, Lifecycle, RunsInOrder, LastIsOlder, SingleActive, AbsentIsNew, CallWritesSuccessor, CallOfHandler,
         PortFollowsRun, Idle, NoPort, AbsentRun, IsLive, Live, CommitOps, Unwritten, Written

(* A step that leaves the runs alone keeps them in order.                  *)
LEMMA RunsKept ==
  ASSUME RunsInOrder, UNCHANGED runs
  PROVE  RunsInOrder'
  BY DEF RunsInOrder, SingleActive, AbsentIsNew, LastIsOlder, IsLive

(* A step that leaves the runs alone and ends or drops the call.           *)
LEMMA LifecycleIdle ==
  ASSUME Lifecycle, UNCHANGED runs, call' = Idle,
         port' # NoPort => runs[port'.id] = port'.run
  PROVE  Lifecycle'
<1>1. RunsInOrder'
  BY RunsKept DEF Lifecycle
<1>2. CallWritesSuccessor' /\ CallOfHandler' /\ PortFollowsRun'
  BY DEF CallWritesSuccessor, CallOfHandler, PortFollowsRun, Idle, CommitOps, Unwritten, Written
<1> QED
  BY <1>1, <1>2 DEF Lifecycle

(* A step that only enters commit_run_boundary.                            *)
LEMMA LifecycleCommitCall ==
  ASSUME Typed, Lifecycle, NEW req \in CommitReqs, NEW retry \in BOOLEAN,
         NEW agenda \in SUBSET Agenda,
         call' = CommitCall(req, retry, agenda), UNCHANGED runs, UNCHANGED port,
         req.id.tag \in Kinds <=> port # NoPort,
         port # NoPort => req.id.run = port.id,
         req.id.tag = "core_command" => req.status = "running",
         "plan_terminal" \in agenda => req.id.tag = "core_command",
         ~IsRepeat(req) =>
           /\ IsLive(runs[req.id.run])
           /\ req.id.rev = runs[req.id.run].rev
           /\ req.status \in Ledger!Successors(runs[req.id.run].status)
           /\ port # NoPort => runs[port.id] = port.run,
         retry =>
           /\ port # NoPort
           /\ req.id.rev = port.run.rev
           /\ req.status \in Ledger!Successors(port.run.status)
           /\ runs[port.id] = port.run \/ runs[port.id].rev = port.run.rev + 1
  PROVE  Lifecycle'
<1> DEFINE c == CommitCall(req, retry, agenda)
<1>1. /\ c \in Calls
      /\ c.op \in {"commit", "repeat"}
      /\ c.pc \in {"message", "run", "session", "event"}
      /\ c.pc \in {"message", "run"} => c.op = "commit"
      /\ c.id = req.id.run /\ c.id \in RunIds
      /\ c.req = req
      /\ c.retry = retry
  BY CommitCallType DEF Typed
<1>2. c.agenda = agenda
  BY DEF CommitCall
<1>3. c.op = "commit" =>
        /\ ~IsRepeat(req) /\ c.pc \in {"message", "run"}
        /\ c.run.status = req.status /\ c.run.rev = runs[req.id.run].rev + 1
        /\ LastIsOlder(c.run)
  <2>1. CASE IsRepeat(req)
    BY <2>1 DEF CommitCall
  <2>2. CASE ~IsRepeat(req)
    <3>1. runs[req.id.run] \in RunRecs
      BY <1>1 DEF Typed, TypeOK
    <3>2. /\ CommittedRun(req).status = req.status
          /\ CommittedRun(req).rev = runs[req.id.run].rev + 1
          /\ CommittedRun(req).last = [req |-> req, target |-> TargetRevision(req)]
      BY <3>1 DEF CommittedRun, RunRecs
    <3>3. LastIsOlder(CommittedRun(req))
      BY <2>2, <3>1, <3>2 DEF LastIsOlder, RunRecs
    <3> HIDE DEF CommittedRun
    <3> QED
      BY <2>2, <3>2, <3>3 DEF CommitCall, AfterMessages
  <2> QED
    BY <2>1, <2>2
<1>4. c.op = "repeat" => c.run = runs[req.id.run] /\ c.pc \in {"session", "event"}
  BY DEF CommitCall, SessionOrEvents
<1>5. call' = c
  OBVIOUS
<1> HIDE DEF c
<1>6. RunsInOrder'
  BY RunsKept DEF Lifecycle
<1>7. CallWritesSuccessor'
  BY <1>1, <1>3, <1>4, <1>5 DEF CallWritesSuccessor, Unwritten, Written, IsLive
<1>8. CallOfHandler'
  BY <1>1, <1>2, <1>3, <1>5 DEF CallOfHandler, CommitOps
<1>9. PortFollowsRun'
  BY <1>1, <1>3, <1>5 DEF PortFollowsRun, CommitOps
<1> QED
  BY <1>6, <1>7, <1>8, <1>9 DEF Lifecycle

-----------------------------------------------------------------------------
(* Handlers *)

(* A request that CommitAccepted takes is for an active run at the         *)
(* revision the request was made from.                                     *)
LEMMA AcceptedFacts ==
  ASSUME NEW req, Accepted(req), ~IsRepeat(req)
  PROVE  IsLive(runs[req.id.run]) /\ runs[req.id.run].rev = req.id.rev
  BY DEF Accepted, CommitAccepted

(* A commit made from the run's revision is not a repetition.              *)
LEMMA NotRepeated ==
  ASSUME Typed, Lifecycle, NEW req, req.id.run \in RunIds,
         req.id.rev = runs[req.id.run].rev
  PROVE  ~IsRepeat(req)
<1>1. LastIsOlder(runs[req.id.run]) /\ runs[req.id.run].rev \in Nat
  BY DEF Lifecycle, RunsInOrder, Typed, TypeOK, RunRecs
<1> QED
  BY <1>1 DEF IsRepeat, LastIsOlder

(* Admitting a run keeps Lifecycle (begin_run).                            *)
LEMMA LifecycleBegin ==
  ASSUME Typed, Lifecycle, NEW q \in Requests, NEW r \in RunIds, Begin(q, r)
  PROVE  Lifecycle'
<1>1. /\ call'.op = "begin" /\ call'.pc = "message" /\ call'.id = r /\ ~call'.retry
      /\ call'.run = CreatedRun(q) /\ call'.agenda = {}
  BY DEF Begin, Idle
<1>2. CreatedRun(q).status = "created" /\ CreatedRun(q).rev = 1 /\ LastIsOlder(CreatedRun(q))
  BY DEF CreatedRun, AbsentRun, LastIsOlder
<1>3. \A other \in RunIds : ~IsLive(runs[other])
  BY NoneAssumption DEF Begin, BeginAccepted, Orphans
<1>4. runs' = runs /\ port' = NoPort /\ runs[r].status = "absent"
  BY DEF Begin, disk, volatile, Quiet
<1>5. RunsInOrder'
  BY <1>4, RunsKept DEF Lifecycle
<1> HIDE DEF CreatedRun
<1>6. CallWritesSuccessor' /\ CallOfHandler' /\ PortFollowsRun'
  BY <1>1, <1>2, <1>3, <1>4
     DEF CallWritesSuccessor, CallOfHandler, PortFollowsRun, CommitOps, Unwritten, Written, IsLive
<1> QED
  BY <1>5, <1>6 DEF Lifecycle

(* Repeating or repairing an admission keeps Lifecycle (_reuse_begin_run). *)
LEMMA LifecycleReuse ==
  ASSUME Typed, Lifecycle, NEW q \in Requests, NEW r \in RunIds, Reuse(q, r)
  PROVE  Lifecycle'
<1>1. runs' = runs /\ call.pc = "idle" /\ call = Idle /\ port = NoPort
  BY DEF Reuse, disk, Quiet, Lifecycle, CallOfHandler
<1>2. CASE /\ UNCHANGED call
           /\ port' = [id |-> r, run |-> runs[r], ses |-> session, complete |-> TRUE]
  BY <1>1, <1>2, LifecycleIdle
<1>3. CASE /\ UNCHANGED volatile
           /\ call' = [Idle EXCEPT !.op = "repair", !.pc = "session", !.id = r,
                                   !.run = runs[r], !.ses = BoundSession(r, runs[r].cursor)]
  <2>1. /\ call'.op = "repair" /\ call'.pc = "session" /\ call'.id = r /\ ~call'.retry
        /\ call'.run = runs[r] /\ call'.agenda = {} /\ port' = NoPort
    BY <1>1, <1>3 DEF Idle, volatile
  <2>2. RunsInOrder'
    BY <1>1, RunsKept DEF Lifecycle
  <2>3. CallWritesSuccessor' /\ CallOfHandler' /\ PortFollowsRun'
    BY <1>1, <2>1
       DEF CallWritesSuccessor, CallOfHandler, PortFollowsRun, CommitOps, Unwritten, Written
  <2> QED
    BY <2>2, <2>3 DEF Lifecycle
<1> QED
  BY <1>2, <1>3 DEF Reuse

(* Resuming a run that was found recoverable.                              *)
LEMMA LifecycleResumeCall ==
  ASSUME Typed, Lifecycle, NEW r \in RunIds, NEW prepared \in BOOLEAN,
         NEW agenda \in SUBSET Agenda, "plan_terminal" \notin agenda,
         Recoverable(r), Quiet, UNCHANGED runs, UNCHANGED volatile,
         call' = ResumeCall(r, prepared, agenda)
  PROVE  Lifecycle'
<1>1. /\ call'.op = "resume" /\ call'.pc = "run" /\ call'.id = r /\ ~call'.retry
      /\ call'.run = ResumedRun(r, prepared) /\ call'.agenda = agenda
  BY DEF ResumeCall, Idle
<1>2. /\ ResumedRun(r, prepared).status = "running"
      /\ ResumedRun(r, prepared).rev = runs[r].rev + 1
      /\ LastIsOlder(ResumedRun(r, prepared))
  <2>1. /\ ResumedRun(r, prepared).status = "running"
        /\ ResumedRun(r, prepared).rev = runs[r].rev + 1
        /\ ResumedRun(r, prepared).last = runs[r].last
        /\ runs[r].rev \in Nat
        /\ runs[r].last # NoReq => runs[r].last.req.id.rev \in Nat
    BY DEF ResumedRun, Typed, TypeOK, RunRecs, CommitReqs, CommitIds
  <2>2. LastIsOlder(runs[r])
    BY DEF Lifecycle, RunsInOrder
  <2> QED
    BY <2>1, <2>2 DEF LastIsOlder
<1>3. IsLive(runs[r]) /\ "running" \in Ledger!Successors(runs[r].status)
  BY SuccessorFacts DEF Recoverable, IsLive
<1>4. RunsInOrder'
  BY RunsKept DEF Lifecycle
<1>5. port' = NoPort
  BY DEF volatile, Quiet
<1> HIDE DEF ResumedRun
<1>6. CallWritesSuccessor' /\ CallOfHandler' /\ PortFollowsRun'
  BY <1>1, <1>2, <1>3, <1>5
     DEF CallWritesSuccessor, CallOfHandler, PortFollowsRun, CommitOps, Unwritten, Written, IsLive
<1> QED
  BY <1>4, <1>6 DEF Lifecycle

(* Resuming with a prepared decision keeps Lifecycle (_prepare_resume).    *)
LEMMA LifecycleDecide ==
  ASSUME Typed, Lifecycle, NEW r \in RunIds, Decide(r)
  PROVE  Lifecycle'
<1>1. {} \in SUBSET Agenda /\ "plan_terminal" \notin {} /\ TRUE \in BOOLEAN
  OBVIOUS
<1>2. /\ Recoverable(r) /\ Quiet /\ UNCHANGED runs /\ UNCHANGED volatile
      /\ call' = ResumeCall(r, TRUE, {})
  BY DEF Decide, disk
<1> QED
  BY <1>1, <1>2, LifecycleResumeCall

(* Continuing a run keeps Lifecycle (_prepare_continuation).               *)
LEMMA LifecycleContinue ==
  ASSUME Typed, Lifecycle, NEW r \in RunIds, Continue(r)
  PROVE  Lifecycle'
<1>1. Recoverable(r) /\ Quiet /\ UNCHANGED runs
  BY DEF Continue, disk
<1>2. CASE /\ UNCHANGED call
           /\ port' = [id |-> r, run |-> runs[r], ses |-> session,
                       complete |-> session.leaf = runs[r].cursor]
  <2>1. call' = Idle
    BY <1>1, <1>2 DEF Quiet, Lifecycle, CallOfHandler
  <2> QED
    BY <1>1, <1>2, <2>1, LifecycleIdle
<1>3. CASE UNCHANGED volatile /\ call' = ResumeCall(r, FALSE, {})
  <2>1. {} \in SUBSET Agenda /\ "plan_terminal" \notin {} /\ FALSE \in BOOLEAN
    OBVIOUS
  <2> QED
    BY <1>1, <1>3, <2>1, LifecycleResumeCall
<1>4. CASE UNCHANGED volatile /\ call' = ResumeCall(r, FALSE, {"input"})
  <2>1. {"input"} \in SUBSET Agenda /\ "plan_terminal" \notin {"input"} /\ FALSE \in BOOLEAN
    BY DEF Agenda
  <2> QED
    BY <1>1, <1>4, <2>1, LifecycleResumeCall
<1> QED
  BY <1>2, <1>3, <1>4 DEF Continue

(* A commit of the adapter, made from its copy of the run: the copy is     *)
(* run.json as long as no outcome is unknown.                              *)
LEMMA LifecyclePortCommit ==
  ASSUME Typed, Lifecycle, port # NoPort,
         NEW req \in CommitReqs, req.id.run = port.id, req.id.rev = port.run.rev,
         req.id.tag \in Kinds, Accepted(req),
         req.status \in Ledger!Successors(port.run.status),
         runs[port.id] = port.run \/ runs[port.id].rev = port.run.rev + 1,
         call' = CommitCall(req, TRUE, {}), UNCHANGED disk, UNCHANGED volatile
  PROVE  Lifecycle'
<1>1. port.run.rev \in Nat
  BY DEF Typed, TypeOK, Ports, RunRecs
<1>2. ~IsRepeat(req) => IsLive(runs[port.id]) /\ runs[port.id] = port.run
  BY <1>1, AcceptedFacts
<1>3. /\ req.id.tag # "core_command" /\ UNCHANGED runs /\ UNCHANGED port
      /\ {} \in SUBSET Agenda /\ TRUE \in BOOLEAN /\ "plan_terminal" \notin {}
  BY DEF Kinds, disk, volatile
<1> QED
  BY <1>2, <1>3, LifecycleCommitCall

(* Starting a boundary commit keeps Lifecycle                              *)
(* (RuntimeSessionStateAdapter.commit).                                    *)
LEMMA LifecycleCommitBoundary ==
  ASSUME Typed, Lifecycle, NEW n \in 0..MaxNew, NEW body \in Bodies, CommitBoundary(n, body)
  PROVE  Lifecycle'
<1>1. PICK step \in {[kind |-> "progress", status |-> "running", wait |-> "no"]}
                      \cup [kind : {"waiting"}, status : {"waiting"}, wait : Waits \ {"no"}] :
        LET req == Request(port.id, port.run, port.ses, step.kind, step.kind, step.status,
                           step.wait, n, body, FALSE, port.run.rollback)
        IN  /\ step.kind = "waiting" => port.run.status = "running"
            /\ Accepted(req) /\ call' = CommitCall(req, TRUE, {})
  BY DEF CommitBoundary
<1> DEFINE req == Request(port.id, port.run, port.ses, step.kind, step.kind, step.status,
                          step.wait, n, body, FALSE, port.run.rollback)
<1>2. /\ step.kind \in Kinds /\ step.kind \in CommitTags
      /\ step.status \in Status /\ step.wait \in Waits
  BY DEF Kinds, CommitTags, Status, Live, Waits
<1>3. /\ port # NoPort /\ port.id \in RunIds /\ port.run \in RunRecs
      /\ port.ses \in SessionRecs /\ port.run.rollback \in BOOLEAN /\ n \in Nat
  <2>1. port \in Ports /\ port # NoPort /\ port.id \in RunIds
    BY DEF CommitBoundary, Typed, TypeOK, CallShape, Ports
  <2>2. port.run \in RunRecs /\ port.ses \in SessionRecs
    BY <2>1 DEF Ports
  <2>3. port.run.rollback \in BOOLEAN
    BY <2>2 DEF RunRecs
  <2>4. n \in Nat
    BY BoundsAssumption
  <2> QED
    BY <2>1, <2>2, <2>3, <2>4
<1>4. req \in CommitReqs
  BY <1>2, <1>3, RequestType
<1>5. /\ req.id.run = port.id /\ req.id.rev = port.run.rev /\ req.id.tag = step.kind
      /\ req.status = step.status
  BY DEF Request
<1>6. runs[port.id] = port.run
  BY <1>3 DEF CommitBoundary, Lifecycle, PortFollowsRun
<1>7. ~IsRepeat(req)
  BY <1>3, <1>5, <1>6, NotRepeated
<1>8. IsLive(port.run)
  BY <1>1, <1>5, <1>6, <1>7, AcceptedFacts
<1>9. req.status \in Ledger!Successors(port.run.status)
  <2>1. \/ step.kind = "progress" /\ step.status = "running"
        \/ step.kind = "waiting" /\ step.status = "waiting"
    OBVIOUS
  <2>2. CASE step.kind = "progress" /\ step.status = "running"
    BY <1>5, <1>8, <2>2, SuccessorFacts DEF IsLive
  <2>3. CASE step.kind = "waiting" /\ step.status = "waiting"
    BY <1>1, <1>5, <2>3, SuccessorFacts
  <2> QED
    BY <2>1, <2>2, <2>3
<1>10. Accepted(req) /\ call' = CommitCall(req, TRUE, {}) /\ UNCHANGED disk /\ UNCHANGED volatile
  BY <1>1 DEF CommitBoundary
<1> HIDE DEF req
<1> QED
  BY <1>2, <1>3, <1>4, <1>5, <1>6, <1>9, <1>10, LifecyclePortCommit

(* Starting a terminal commit keeps Lifecycle (_commit_run).               *)
LEMMA LifecycleCommitTerminal ==
  ASSUME Typed, Lifecycle, NEW n \in 0..MaxNew, NEW body \in Bodies, NEW status \in Outcomes,
         CommitTerminal(status, n, body)
  PROVE  Lifecycle'
<1> DEFINE req == TerminalRequest(port.id, port.run, port.ses, "terminal", status, n, body)
<1>1. /\ Accepted(req) /\ call' = CommitCall(req, TRUE, {}) /\ UNCHANGED disk
      /\ UNCHANGED volatile
  BY DEF CommitTerminal
<1>2. /\ port # NoPort /\ port.id \in RunIds /\ port.run \in RunRecs
      /\ port.ses \in SessionRecs /\ n \in Nat
      /\ status \in Status /\ "terminal" \in CommitTags /\ "terminal" \in Kinds
  BY BoundsAssumption DEF CommitTerminal, Typed, TypeOK, CallShape, Ports, Status, CommitTags,
                          Kinds
<1>3. req \in CommitReqs
  BY <1>2, TerminalRequestType
<1>4. /\ req.id.run = port.id /\ req.id.rev = port.run.rev /\ req.id.tag = "terminal"
      /\ req.status = status
  BY DEF TerminalRequest, Request
<1>5. runs[port.id] = port.run
  BY <1>2 DEF CommitTerminal, Lifecycle, PortFollowsRun
<1>6. ~IsRepeat(req)
  BY <1>2, <1>4, <1>5, NotRepeated
<1>7. IsLive(port.run)
  BY <1>1, <1>4, <1>5, <1>6, AcceptedFacts
<1>8. req.status \in Ledger!Successors(port.run.status)
  <2>1. CASE status = "cancelled"
    BY <1>4, <1>7, <2>1, SuccessorFacts DEF IsLive
  <2>2. CASE port.run.status = "running"
    BY <1>4, <2>2, SuccessorFacts
  <2> QED
    BY <2>1, <2>2 DEF CommitTerminal
<1> HIDE DEF req
<1> QED
  BY <1>1, <1>2, <1>3, <1>4, <1>5, <1>8, LifecyclePortCommit

(* Starting a plan command keeps Lifecycle (_apply_plan_command).          *)
LEMMA LifecyclePlanCommand ==
  ASSUME Typed, Lifecycle, NEW agenda \in SUBSET {"plan_terminal", "mode"}, PlanCommand(agenda)
  PROVE  Lifecycle'
<1> DEFINE r == view.current
           req == Request(r, runs[r], view, "core_command", "progress", "running", "no", 0,
                          AnyBody, runs[r].prepared, runs[r].rollback)
<1>1. /\ call' = CommitCall(req, FALSE, agenda) /\ Accepted(req)
      /\ UNCHANGED runs /\ UNCHANGED port /\ port = NoPort
  BY DEF PlanCommand, disk, volatile, Quiet
<1>2. r \in RunIds /\ view \in SessionRecs
  BY DEF PlanCommand, HasCheckpoint, Typed, TypeOK, SessionRecs
<1>3. runs[r] \in RunRecs /\ runs[r].prepared \in BOOLEAN /\ runs[r].rollback \in BOOLEAN
  BY <1>2 DEF Typed, TypeOK, RunRecs
<1>4. /\ "core_command" \in CommitTags /\ "progress" \in Kinds
      /\ "running" \in Status /\ "no" \in Waits /\ "core_command" \notin Kinds
  BY DEF CommitTags, Kinds, Status, Live, Waits
<1>5. req \in CommitReqs
  BY <1>2, <1>3, <1>4, RequestType, AnyBodyType
<1>6. /\ req.id.run = r /\ req.id.rev = runs[r].rev /\ req.id.tag = "core_command"
      /\ req.status = "running"
  BY DEF Request
<1>7. IsLive(runs[r])
  BY DEF PlanCommand, HasCheckpoint
<1>8. req.status \in Ledger!Successors(runs[r].status)
  BY <1>6, <1>7, SuccessorFacts DEF IsLive
<1>9. agenda \in SUBSET Agenda /\ FALSE \in BOOLEAN
  BY DEF Agenda
<1> HIDE DEF req, r
<1> QED
  BY <1>1, <1>4, <1>5, <1>6, <1>7, <1>8, <1>9, LifecycleCommitCall

(* Starting a mode change keeps Lifecycle (set_current_mode).              *)
LEMMA LifecycleModeCall ==
  ASSUME Lifecycle, UNCHANGED runs, UNCHANGED port, port = NoPort, call' = ModeCall
  PROVE  Lifecycle'
<1>1. call'.op = "mode" /\ call'.pc = "session" /\ ~call'.retry /\ call'.agenda = {}
  BY DEF ModeCall, Idle
<1>2. CallWritesSuccessor' /\ CallOfHandler' /\ PortFollowsRun'
  BY <1>1 DEF CallWritesSuccessor, CallOfHandler, PortFollowsRun, CommitOps, Unwritten, Written
<1> QED
  BY <1>2, RunsKept DEF Lifecycle

-----------------------------------------------------------------------------
(* File writes and faults *)

(* Writing run.json admits a run when none is active, or moves an active   *)
(* run to a successor.                                                     *)
LEMMA RunWritten ==
  ASSUME Typed, Lifecycle, WriteRun
  PROVE  /\ call.id \in RunIds /\ runs' = [runs EXCEPT ![call.id] = call.run]
         /\ \/ /\ call.op = "begin" /\ \A r \in RunIds : ~IsLive(runs[r])
               /\ runs[call.id].status = "absent" /\ call.run.status = "created"
               /\ call.run.rev = 1
            \/ /\ call.op \in {"commit", "resume"} /\ IsLive(runs[call.id])
               /\ call.run.status \in Ledger!Successors(runs[call.id].status)
               /\ call.run.rev = runs[call.id].rev + 1
         /\ LastIsOlder(call.run)
         /\ RunsInOrder'
<1>1. /\ call.pc = "run" /\ call.op \in {"begin", "commit", "resume"} /\ call.id \in RunIds
      /\ runs' = [runs EXCEPT ![call.id] = call.run]
  BY DEF WriteRun, Typed, CallShape
<1>2. /\ \/ /\ call.op = "begin" /\ \A r \in RunIds : ~IsLive(runs[r])
            /\ runs[call.id].status = "absent" /\ call.run.status = "created"
            /\ call.run.rev = 1
         \/ /\ call.op \in {"commit", "resume"} /\ IsLive(runs[call.id])
            /\ call.run.status \in Ledger!Successors(runs[call.id].status)
            /\ call.run.rev = runs[call.id].rev + 1
      /\ LastIsOlder(call.run)
  BY <1>1 DEF Lifecycle, CallWritesSuccessor, Unwritten
<1>3. runs \in [RunIds -> RunRecs]
  BY DEF Typed, TypeOK
<1>4. \A r \in RunIds : runs'[r] = IF r = call.id THEN call.run ELSE runs[r]
  BY <1>1, <1>3
<1>5. call.run.status # "absent"
  BY <1>2, SuccessorFacts
<1>6. SingleActive'
  <2>1. ASSUME NEW r \in RunIds, r # call.id PROVE ~IsLive(runs'[r])
    BY <1>1, <1>2, <1>4, <2>1 DEF Lifecycle, RunsInOrder, SingleActive
  <2> QED
    BY <2>1 DEF SingleActive
<1>7. AbsentIsNew' /\ \A r \in RunIds : LastIsOlder(runs'[r])
  BY <1>2, <1>4, <1>5 DEF Lifecycle, RunsInOrder, AbsentIsNew
<1> QED
  BY <1>1, <1>2, <1>6, <1>7 DEF RunsInOrder

(* Of all file writes only WriteRun touches a run, and it keeps the runs   *)
(* in order.                                                               *)
LEMMA FileWriteRuns ==
  ASSUME Typed, Lifecycle, FileWrite
  PROVE  /\ call.pc = "run" => WriteRun
         /\ call.pc # "run" => UNCHANGED runs
         /\ RunsInOrder'
<1>1. (call.pc = "run" => WriteRun) /\ (call.pc # "run" => UNCHANGED runs)
  BY DEF FileWrite, WriteMessage, WriteRun, WriteSession, WriteEvent, WriteRunEvent
<1> QED
  BY <1>1, RunWritten, RunsKept DEF Lifecycle

(* A file write that succeeds keeps Lifecycle (commit_run_boundary).       *)
LEMMA LifecycleWrite ==
  ASSUME Typed, Lifecycle, Write
  PROVE  Lifecycle'
<1>1. /\ call.pc \in {"message", "run", "session", "event", "runEvent"}
      /\ call.pc = "message" => call.op \in {"begin", "commit"}
      /\ call.op # "none"
  BY DEF Write, FileWrite, WriteMessage, WriteRun, WriteSession, WriteEvent, WriteRunEvent,
         Typed, CallShape
<1>2. /\ call.pc = "message" => NextPc \in Unwritten
      /\ call.pc # "message" => NextPc \in Written
      /\ NextPc \notin {"idle", "retry"}
  BY <1>1 DEF NextPc, AfterMessages, SessionOrEvents, Unwritten, Written
<1>3. /\ call'.pc = NextPc /\ call'.op = call.op /\ call'.id = call.id
      /\ call'.run = call.run /\ call'.req = call.req /\ call'.retry = call.retry
      /\ call'.agenda = call.agenda
  <2>1. PICK k \in Nat : call' = [call EXCEPT !.pc = NextPc, !.k = k]
    <3>1. call.k \in Nat /\ call.k + 1 \in Nat
      BY DEF Typed, TypeOK, Calls
    <3> QED
      BY <3>1 DEF Write
  <2> HIDE DEF NextPc
  <2> QED
    BY <2>1 DEF Typed, TypeOK, Calls
<1>4. port' = port /\ FileWrite
  BY DEF Write, volatile
<1>5. RunsInOrder'
  BY <1>4, FileWriteRuns
<1> HIDE DEF NextPc
<1>6. CASE call.pc = "run"
  <2>1. /\ WriteRun /\ call.id \in RunIds /\ runs' = [runs EXCEPT ![call.id] = call.run]
        /\ runs \in [RunIds -> RunRecs]
    BY <1>4, <1>6, FileWriteRuns, RunWritten DEF Typed, TypeOK
  <2>2. runs'[call.id] = call.run
    BY <2>1
  <2>3. CallWritesSuccessor' /\ CallOfHandler'
    BY <1>2, <1>3, <1>4, <1>6, <2>2
       DEF Lifecycle, CallWritesSuccessor, CallOfHandler, Unwritten, Written, CommitOps
  <2>4. call.retry => call.op = "commit" /\ call.id = port.id /\ runs[port.id] = port.run
    BY <1>6 DEF Typed, CallShape, Lifecycle, PortFollowsRun, CallOfHandler, CommitOps, Unwritten
  <2>5. call.retry => runs'[port.id].rev = port.run.rev + 1
    BY <2>1, <2>2, <2>4, RunWritten
  <2>6. PortFollowsRun'
    BY <1>2, <1>3, <1>4, <1>6, <2>5
       DEF Lifecycle, PortFollowsRun, Unwritten, Written, CommitOps
  <2> QED
    BY <1>5, <2>3, <2>6 DEF Lifecycle
<1>7. CASE call.pc # "run"
  <2>1. UNCHANGED runs
    BY <1>4, <1>7, FileWriteRuns
  <2>2. CallWritesSuccessor' /\ CallOfHandler'
    BY <1>1, <1>2, <1>3, <1>4, <1>7, <2>1
       DEF Lifecycle, CallWritesSuccessor, CallOfHandler, Unwritten, Written, CommitOps, IsLive
  <2>3. PortFollowsRun'
    BY <1>1, <1>2, <1>3, <1>4, <1>7, <2>1
       DEF Lifecycle, PortFollowsRun, Unwritten, Written, CommitOps
  <2> QED
    BY <1>5, <2>2, <2>3 DEF Lifecycle
<1> QED
  BY <1>6, <1>7

(* An OSError keeps Lifecycle (RuntimeSessionStateAdapter.commit).         *)
LEMMA LifecycleFault ==
  ASSUME Typed, Lifecycle, Fault
  PROVE  Lifecycle'
<1>1. RunsInOrder'
  <2>1. CASE FileWrite
    BY <2>1, FileWriteRuns
  <2>2. CASE UNCHANGED disk
    BY <2>2, RunsKept DEF disk, Lifecycle
  <2> QED
    BY <2>1, <2>2 DEF Fault
<1>2. CASE call.retry
  <2>1. /\ call'.op = "none" /\ call'.pc = "retry" /\ call'.req = call.req /\ ~call'.retry
        /\ call'.agenda = {} /\ port' = port
    BY <1>2 DEF Fault, Idle, volatile
  <2>2. /\ port # NoPort /\ call.op \in CommitOps /\ call.id = port.id
        /\ call.req.id.run = port.id /\ call.req.id.tag \in Kinds
        /\ call.req.id.rev = port.run.rev
        /\ call.req.status \in Ledger!Successors(port.run.status)
    BY <1>2 DEF Lifecycle, CallOfHandler, PortFollowsRun
  <2>3. runs'[port.id] = port.run \/ runs'[port.id].rev = port.run.rev + 1
    <3>1. CASE FileWrite /\ call.pc = "run"
      <4>1. /\ WriteRun /\ call.id \in RunIds /\ runs' = [runs EXCEPT ![call.id] = call.run]
            /\ runs \in [RunIds -> RunRecs] /\ call.op = "commit"
        BY <2>2, <3>1, FileWriteRuns, RunWritten DEF Typed, TypeOK, CommitOps
      <4>2. runs[port.id] = port.run
        BY <2>2, <3>1, <4>1 DEF Lifecycle, PortFollowsRun, Unwritten
      <4>3. call.run.rev = port.run.rev + 1
        BY <2>2, <4>1, <4>2, RunWritten
      <4> QED
        BY <2>2, <4>1, <4>3
    <3>2. CASE UNCHANGED runs
      BY <1>2, <3>2 DEF Lifecycle, PortFollowsRun
    <3> QED
      BY <3>1, <3>2, FileWriteRuns DEF Fault, disk
  <2>4. CallWritesSuccessor' /\ CallOfHandler' /\ PortFollowsRun'
    BY <2>1, <2>2, <2>3
       DEF CallWritesSuccessor, CallOfHandler, PortFollowsRun, CommitOps, Unwritten, Written
  <2> QED
    BY <1>1, <2>4 DEF Lifecycle
<1>3. CASE ~call.retry
  <2>1. call' = Idle /\ port' = NoPort
    BY <1>3 DEF Fault, Abandon
  <2>2. CallWritesSuccessor' /\ CallOfHandler' /\ PortFollowsRun'
    BY <2>1 DEF CallWritesSuccessor, CallOfHandler, PortFollowsRun, Idle, CommitOps,
                Unwritten, Written
  <2> QED
    BY <1>1, <2>2 DEF Lifecycle
<1> QED
  BY <1>2, <1>3

(* Repeating a commit keeps Lifecycle (RuntimeSessionStateAdapter.commit). *)
LEMMA LifecycleRetry ==
  ASSUME Typed, Lifecycle, Retry
  PROVE  Lifecycle'
<1>1. /\ call.req \in CommitReqs /\ call' = CommitCall(call.req, FALSE, {})
      /\ Accepted(call.req) /\ UNCHANGED runs /\ UNCHANGED port
  BY DEF Retry, Typed, CallShape, disk, volatile
<1>2. /\ port # NoPort /\ call.req.id.run = port.id /\ call.req.id.tag \in Kinds
      /\ call.req.id.rev = port.run.rev
      /\ call.req.status \in Ledger!Successors(port.run.status)
      /\ runs[port.id] = port.run \/ runs[port.id].rev = port.run.rev + 1
  BY DEF Retry, Lifecycle, PortFollowsRun
<1>3. port.run.rev \in Nat /\ call.req.id.tag # "core_command"
  BY <1>2 DEF Typed, TypeOK, Ports, RunRecs, Kinds
<1>4. ~IsRepeat(call.req) =>
        /\ IsLive(runs[call.req.id.run]) /\ runs[call.req.id.run].rev = call.req.id.rev
        /\ runs[port.id] = port.run
  BY <1>1, <1>2, <1>3, AcceptedFacts
<1>5. {} \in SUBSET Agenda /\ "plan_terminal" \notin {} /\ FALSE \in BOOLEAN
  OBVIOUS
<1> QED
  BY <1>1, <1>2, <1>3, <1>4, <1>5, LifecycleCommitCall

(* Giving a call up keeps Lifecycle (_execute_prepared_run).               *)
LEMMA LifecycleAbandon ==
  ASSUME Lifecycle, Abandon, UNCHANGED disk
  PROVE  Lifecycle'
  BY LifecycleIdle DEF Abandon, disk

(* A cancellation before the repetition keeps Lifecycle                    *)
(* (_execute_prepared_run).                                                *)
LEMMA LifecycleCancelRetry ==
  ASSUME Typed, Lifecycle, CancelRetry
  PROVE  Lifecycle'
<1> DEFINE req == TerminalRequest(port.id, port.run, port.ses, "terminal", "cancelled", 0,
                                  AnyBody)
<1>1. CASE Abandon
  BY <1>1, LifecycleAbandon DEF CancelRetry
<1>2. CASE Accepted(req) /\ call' = CommitCall(req, TRUE, {}) /\ UNCHANGED volatile
  <2>1. /\ port # NoPort /\ port.id \in RunIds /\ port.run \in RunRecs
        /\ port.ses \in SessionRecs
        /\ runs[port.id] = port.run \/ runs[port.id].rev = port.run.rev + 1
    BY DEF CancelRetry, Typed, TypeOK, CallShape, Ports, Lifecycle, PortFollowsRun
  <2>2. /\ "terminal" \in CommitTags /\ "cancelled" \in Status /\ 0 \in Nat
        /\ "terminal" \in Kinds
    BY DEF CommitTags, Status, Outcomes, Kinds
  <2>3. req \in CommitReqs
    BY <2>1, <2>2, TerminalRequestType, AnyBodyType
  <2>4. /\ req.id.run = port.id /\ req.id.rev = port.run.rev /\ req.id.tag = "terminal"
        /\ req.status = "cancelled"
    BY DEF TerminalRequest, Request
  <2>5. port.run.status \in Live
    BY SuccessorFacts DEF CancelRetry, Lifecycle, PortFollowsRun
  <2>6. req.status \in Ledger!Successors(port.run.status)
    BY <2>4, <2>5, SuccessorFacts
  <2>7. UNCHANGED disk
    BY DEF CancelRetry
  <2> HIDE DEF req
  <2> QED
    BY <1>2, <2>1, <2>2, <2>3, <2>4, <2>6, <2>7, LifecyclePortCommit
<1> QED
  BY <1>1, <1>2 DEF CancelRetry

-----------------------------------------------------------------------------
(* Returns *)

(* The return of a call keeps Lifecycle (_commit_run, _prepare_run,        *)
(* _prepare_continuation).                                                 *)
LEMMA LifecycleReturn ==
  ASSUME Typed, Lifecycle, Return
  PROVE  Lifecycle'
<1>1. call.pc = "return" /\ UNCHANGED disk /\ UNCHANGED runs
  BY DEF Return, disk
<1>2. call.op \notin {"none", "mode"} => runs[call.id] = call.run /\ call.id \in RunIds
  BY <1>1 DEF Typed, CallShape, Lifecycle, CallWritesSuccessor, Written
<1>3. call.run \in RunRecs /\ call.ses \in SessionRecs
  BY DEF Typed, TypeOK, Calls
<1>4. ASSUME ReturnAdmission \/ ReturnInput PROVE Lifecycle'
  <2>1. call.op \notin {"none", "mode"} /\ call' = Idle /\ port' = Attached
    BY <1>4 DEF ReturnAdmission, ReturnInput
  <2>2. runs[port'.id] = port'.run
    BY <1>2, <2>1 DEF Attached
  <2> QED
    BY <1>1, <2>1, <2>2, LifecycleIdle
<1>5. ASSUME ReturnResume PROVE Lifecycle'
  <2>1. CASE port' = Attached /\ call' = Idle
    <3>1. runs[port'.id] = port'.run
      BY <1>2, <1>5, <2>1 DEF Attached, ReturnResume
    <3> QED
      BY <1>1, <2>1, <3>1, LifecycleIdle
  <2>2. CASE /\ \E body \in Bodies : call' = CommitCall(InputRequest(body), FALSE, {})
             /\ UNCHANGED port
    <3>1. PICK body \in Bodies : call' = CommitCall(InputRequest(body), FALSE, {})
      BY <2>2
    <3>2. /\ runs[call.id] = call.run /\ call.id \in RunIds
          /\ call.run.status = "running" /\ port = NoPort
      BY <1>2, <1>5 DEF ReturnResume, Lifecycle, CallOfHandler
    <3>3. /\ "continuation_input" \in CommitTags /\ "progress" \in Kinds
          /\ "running" \in Status /\ "no" \in Waits /\ 1 \in Nat /\ FALSE \in BOOLEAN
          /\ "continuation_input" \notin Kinds
      BY DEF CommitTags, Kinds, Status, Live, Waits
    <3>4. InputRequest(body) \in CommitReqs
      BY <1>3, <3>2, <3>3, RequestType DEF InputRequest
    <3>5. /\ InputRequest(body).id.run = call.id
          /\ InputRequest(body).id.rev = runs[call.id].rev
          /\ InputRequest(body).id.tag = "continuation_input"
          /\ InputRequest(body).status = "running"
      BY <3>2 DEF InputRequest, Request
    <3>6. /\ IsLive(runs[call.id])
          /\ "running" \in Ledger!Successors(runs[call.id].status)
      BY <3>2, SuccessorFacts DEF IsLive, Live
    <3>7. {} \in SUBSET Agenda /\ "plan_terminal" \notin {}
      OBVIOUS
    <3> QED
      BY <1>1, <2>2, <3>1, <3>2, <3>3, <3>4, <3>5, <3>6, <3>7, LifecycleCommitCall
  <2> QED
    BY <1>5, <2>1, <2>2 DEF ReturnResume
<1>6. ASSUME ReturnBoundary PROVE Lifecycle'
  <2>1. /\ call.op \in CommitOps /\ call.req.id.tag \in Kinds /\ call' = Idle
        /\ port' = [port EXCEPT !.run = call.run, !.ses = call.ses]
    BY <1>6 DEF ReturnBoundary, CommitOps, Kinds
  <2>2. call.id = port.id /\ port \in Ports
    BY <2>1 DEF Lifecycle, CallOfHandler, Typed, TypeOK
  <2>3. port'.id = port.id /\ port'.run = call.run
    BY <2>1, <2>2 DEF Ports
  <2>4. runs[port'.id] = port'.run
    BY <1>2, <2>1, <2>2, <2>3 DEF CommitOps
  <2> QED
    BY <1>1, <2>1, <2>4, LifecycleIdle
<1>7. ASSUME ReturnPaused PROVE Lifecycle'
  BY <1>1, <1>7, LifecycleIdle DEF ReturnPaused
<1>8. ASSUME ReturnPlan PROVE Lifecycle'
  <2>1. /\ call.op = "commit" /\ call.req.id.tag \in {"core_command", "plan_terminal"}
        /\ port' = port
    BY <1>8 DEF ReturnPlan
  <2>2. /\ port = NoPort /\ runs[call.id] = call.run /\ call.id \in RunIds
    BY <1>2, <2>1 DEF Lifecycle, CallOfHandler, CommitOps, Kinds
  <2>3. CASE "plan_terminal" \in call.agenda
             /\ call' = CommitCall(PlanTerminal, FALSE, call.agenda \ {"plan_terminal"})
    <3>1. call.run.status = "running"
      BY <2>1, <2>3 DEF Lifecycle, CallOfHandler
    <3>2. /\ "plan_terminal" \in CommitTags /\ "cancelled" \in Status /\ 0 \in Nat
          /\ "plan_terminal" \notin Kinds
      BY DEF CommitTags, Status, Outcomes, Kinds
    <3>3. PlanTerminal \in CommitReqs
      BY <1>3, <2>2, <3>2, TerminalRequestType, AnyBodyType DEF PlanTerminal
    <3>4. /\ PlanTerminal.id.run = call.id
          /\ PlanTerminal.id.rev = runs[call.id].rev
          /\ PlanTerminal.id.tag = "plan_terminal"
          /\ PlanTerminal.status = "cancelled"
      BY <2>2 DEF PlanTerminal, TerminalRequest, Request
    <3>5. /\ IsLive(runs[call.id])
          /\ "cancelled" \in Ledger!Successors(runs[call.id].status)
      BY <2>2, <3>1, SuccessorFacts DEF IsLive, Live
    <3>6. /\ call.agenda \ {"plan_terminal"} \in SUBSET Agenda /\ FALSE \in BOOLEAN
          /\ "plan_terminal" \notin call.agenda \ {"plan_terminal"}
      BY DEF Typed, TypeOK, Calls
    <3> QED
      BY <1>1, <2>1, <2>2, <2>3, <3>2, <3>3, <3>4, <3>5, <3>6, LifecycleCommitCall
  <2>4. CASE call' = ModeCall
    BY <1>1, <2>1, <2>2, <2>4, LifecycleModeCall
  <2>5. CASE call' = Idle
    BY <1>1, <2>1, <2>2, <2>5, LifecycleIdle
  <2> QED
    BY <1>8, <2>3, <2>4, <2>5 DEF ReturnPlan
<1>9. ASSUME ReturnMode PROVE Lifecycle'
  <2>1. call.op = "mode" /\ port = NoPort /\ port' = port /\ call' = Idle
    BY <1>9 DEF ReturnMode, Lifecycle, CallOfHandler
  <2> QED
    BY <1>1, <2>1, LifecycleIdle
<1> QED
  BY <1>4, <1>5, <1>6, <1>7, <1>8, <1>9 DEF Return

(* The start of any handler keeps Lifecycle.                               *)
LEMMA LifecycleHandler ==
  ASSUME Typed, Lifecycle, Handler
  PROVE  Lifecycle'
<1>1. ASSUME SetMode PROVE Lifecycle'
  BY <1>1, LifecycleModeCall DEF SetMode, Quiet, disk, volatile
<1>2. ASSUME Reopen PROVE Lifecycle'
  <2>1. call' = Idle /\ port' = NoPort /\ UNCHANGED runs
    BY <1>2 DEF Reopen, Quiet, disk, Lifecycle, CallOfHandler
  <2> QED
    BY <2>1, LifecycleIdle
<1>3. ASSUME ChangeWorkspace PROVE Lifecycle'
  <2>1. UNCHANGED runs /\ UNCHANGED call /\ UNCHANGED port
    BY <1>3 DEF ChangeWorkspace, volatile
  <2> QED
    BY <2>1 DEF Lifecycle, RunsInOrder, SingleActive, AbsentIsNew, LastIsOlder,
                CallWritesSuccessor, CallOfHandler, PortFollowsRun, IsLive
<1> QED
  BY <1>1, <1>2, <1>3, LifecycleBegin, LifecycleReuse, LifecycleDecide, LifecycleContinue,
     LifecycleCommitBoundary, LifecycleCommitTerminal, LifecyclePlanCommand DEF Handler

(* Every step keeps Lifecycle.                                             *)
LEMMA LifecycleNext == Typed /\ Lifecycle /\ [Next]_vars => Lifecycle'
<1> SUFFICES ASSUME Typed, Lifecycle, [Next]_vars PROVE Lifecycle'
  OBVIOUS
<1>1. ASSUME MessageConflict PROVE Lifecycle'
  BY <1>1, LifecycleAbandon DEF MessageConflict
<1>2. ASSUME Crash PROVE Lifecycle'
  BY <1>2, LifecycleIdle DEF Crash, disk
<1>3. ASSUME UNCHANGED vars PROVE Lifecycle'
  <2>1. UNCHANGED runs /\ UNCHANGED call /\ UNCHANGED port
    BY <1>3 DEF vars
  <2> QED
    BY <2>1 DEF Lifecycle, RunsInOrder, SingleActive, AbsentIsNew, LastIsOlder,
                CallWritesSuccessor, CallOfHandler, PortFollowsRun, IsLive
<1> QED
  BY <1>1, <1>2, <1>3, LifecycleHandler, LifecycleWrite, LifecycleRetry, LifecycleCancelRetry,
     LifecycleReturn, LifecycleFault DEF Next, Service

-----------------------------------------------------------------------------
(* What follows *)

(* Lifecycle holds in every state: the strengthening that the theorems     *)
(* below take their step facts from.                                       *)
THEOREM LifecycleInvariant == Spec => [](Typed /\ Lifecycle)
<1>1. Init => Typed /\ Lifecycle
  BY TypedInit, LifecycleInit
<1>2. Typed /\ Lifecycle /\ [Next]_vars => (Typed /\ Lifecycle)'
  BY TypedNext, LifecycleNext
<1> QED
  BY <1>1, <1>2, PTL DEF Spec

(* One session never has two unfinished runs, whatever crashes, errors and *)
(* retries fall between the writes of begin_run and of the commits.        *)
THEOREM OneActiveRun == Spec => []SingleActive
<1>1. Lifecycle => SingleActive
  BY DEF Lifecycle, RunsInOrder
<1> QED
  BY <1>1, LifecycleInvariant, PTL

(* The only step that changes a run is its WriteRun.                       *)
LEMMA RunsChangeByWriteRun ==
  ASSUME Typed, Lifecycle, [Next]_vars, runs' # runs
  PROVE  WriteRun
<1>1. FileWrite
  BY DEF Next, Handler, Service, Begin, Reuse, Decide, Continue, CommitBoundary,
         CommitTerminal, PlanCommand, SetMode, Reopen, ChangeWorkspace, Write, Retry,
         CancelRetry, MessageConflict, Return, Fault, Crash, disk, vars
<1> QED
  BY <1>1, FileWriteRuns

(* A finished run is never written again (_RUN_TRANSITIONS).               *)
THEOREM FinishedRunsFrozen == Spec => TerminalFrozen
<1>1. ASSUME Typed, Lifecycle, [Next]_vars
      PROVE  [\A r \in RunIds : IsTerminal(runs[r]) => runs'[r] = runs[r]]_vars
  <2>1. CASE runs' = runs
    BY <2>1
  <2>2. CASE runs' # runs
    <3>1. /\ WriteRun /\ call.id \in RunIds /\ runs' = [runs EXCEPT ![call.id] = call.run]
          /\ ~IsTerminal(runs[call.id]) /\ runs \in [RunIds -> RunRecs]
      BY <1>1, <2>2, RunsChangeByWriteRun, RunWritten
         DEF IsTerminal, IsLive, Live, Outcomes, Typed, TypeOK
    <3> QED
      BY <3>1
  <2> QED
    BY <2>1, <2>2
<1> QED
  BY <1>1, LifecycleInvariant, PTL DEF Spec, TerminalFrozen

(* The file protocol implements the run lifecycle: a write of run.json     *)
(* admits a run or advances it by one revision, and nothing else changes a *)
(* run (begin_run, resume_run, commit_run_boundary).                       *)
THEOREM FilesImplementLedger == Spec => ImplementsLedger
<1>1. Init => Ledger!Init
  BY DEF Init, Ledger!Init, AbsentRun
<1>2. ASSUME Typed, Lifecycle, [Next]_vars
      PROVE  [Ledger!Next]_<<[r \in RunIds |-> runs[r].status],
                             [r \in RunIds |-> runs[r].rev]>>
  <2>1. CASE runs' = runs
    BY <2>1
  <2>2. CASE runs' # runs
    <3> DEFINE id == call.id
    <3>1. /\ id \in RunIds /\ runs' = [runs EXCEPT ![id] = call.run]
          /\ runs \in [RunIds -> RunRecs]
          /\ \/ /\ call.op = "begin" /\ \A r \in RunIds : ~IsLive(runs[r])
                /\ runs[id].status = "absent" /\ call.run.status = "created"
                /\ call.run.rev = 1
             \/ /\ call.op \in {"commit", "resume"} /\ IsLive(runs[id])
                /\ call.run.status \in Ledger!Successors(runs[id].status)
                /\ call.run.rev = runs[id].rev + 1
      BY <1>2, <2>2, RunsChangeByWriteRun, RunWritten DEF Typed, TypeOK
    <3> HIDE DEF id
    <3>2. /\ [r \in RunIds |-> runs'[r].status]
               = [[r \in RunIds |-> runs[r].status] EXCEPT ![id] = call.run.status]
          /\ [r \in RunIds |-> runs'[r].rev]
               = [[r \in RunIds |-> runs[r].rev] EXCEPT ![id] = call.run.rev]
      BY <3>1
    <3>3. CASE /\ call.op = "begin" /\ \A r \in RunIds : ~IsLive(runs[r])
               /\ runs[id].status = "absent" /\ call.run.status = "created"
               /\ call.run.rev = 1
      BY <3>1, <3>2, <3>3 DEF Ledger!Next, Ledger!Admit, Ledger!Active, IsLive, Live
    <3>4. CASE /\ call.run.status \in Ledger!Successors(runs[id].status)
               /\ call.run.rev = runs[id].rev + 1
      BY <3>1, <3>2, <3>4 DEF Ledger!Next, Ledger!Advance
    <3> QED
      BY <3>1, <3>3, <3>4
  <2> QED
    BY <2>1, <2>2
<1> QED
  BY <1>1, <1>2, LifecycleInvariant, PTL DEF Spec, ImplementsLedger, Ledger!Spec

-----------------------------------------------------------------------------
(* The files together *)

Agreed == Typed /\ Lifecycle /\ Agreement

-----------------------------------------------------------------------------
(* Message chains *)

Ids(records) == {m.id : m \in records}

\* A log whose parents are messages of the log.
IsLog(records) ==
  \A m \in records : m.id # NoMsg /\ m.parent \in Ids(records) \cup {NoMsg}

BelowIn(records, x, y) == x = NoMsg \/ x \in ChainIn(records, y)

(* A message is in the chain that ends in it.                              *)
LEMMA ChainSelf == ASSUME NEW records, NEW x PROVE BelowIn(records, x, x)
  BY DEF BelowIn, ChainIn

(* The chain of no message is empty.                                       *)
LEMMA ChainOfNone ==
  ASSUME NEW records, IsLog(records) PROVE ChainIn(records, NoMsg) = {}
<1> SUFFICES ASSUME NEW x \in ChainIn(records, NoMsg) PROVE FALSE
  OBVIOUS
<1> DEFINE known == Ids(records) \cup {NoMsg}
<1>1. /\ x # NoMsg
      /\ \A ids \in SUBSET (known \ {x}) :
           NoMsg \in ids
             => \E m \in records : m.id \in ids /\ m.parent \notin ids \cup {NoMsg}
  BY DEF ChainIn, Ids
<1>2. {NoMsg} \in SUBSET (known \ {x})
  BY <1>1
<1>3. PICK m \in records : m.id \in {NoMsg}
  BY <1>1, <1>2
<1> QED
  BY <1>3 DEF IsLog

(* Appending to the log keeps every chain (append_message).                *)
LEMMA ChainGrows ==
  ASSUME NEW records, NEW more, IsLog(records), records \subseteq more,
         NEW x, NEW y, y \in Ids(records) \cup {NoMsg}, BelowIn(records, x, y)
  PROVE  BelowIn(more, x, y)
<1> SUFFICES ASSUME x \in ChainIn(records, y) PROVE x \in ChainIn(more, y)
  BY DEF BelowIn
<1> DEFINE known(log1) == Ids(log1) \cup {y}
           parents(log1) == {m.parent : m \in log1}
<1>1. /\ x \in (known(records) \cup parents(records)) \ {NoMsg}
      /\ \A ids \in SUBSET (known(records) \ {x}) :
           y \in ids
             => \E m \in records : m.id \in ids /\ m.parent \notin ids \cup {NoMsg}
  BY DEF ChainIn, Ids
<1>2. Ids(records) \subseteq Ids(more) /\ parents(records) \subseteq parents(more)
  BY DEF Ids
<1>3. ASSUME NEW ids \in SUBSET (known(more) \ {x}), y \in ids
      PROVE  \E m \in more : m.id \in ids /\ m.parent \notin ids \cup {NoMsg}
  <2> DEFINE old == ids \cap known(records)
  <2>1. old \in SUBSET (known(records) \ {x}) /\ y \in old
    BY <1>3
  <2>2. PICK m \in records : m.id \in old /\ m.parent \notin old \cup {NoMsg}
    BY <1>1, <2>1
  <2>3. m.parent \in Ids(records)
    BY <2>2 DEF IsLog
  <2> QED
    BY <2>2, <2>3
<1>4. x \in (known(more) \cup parents(more)) \ {NoMsg}
  BY <1>1, <1>2
<1> QED
  BY <1>3, <1>4 DEF ChainIn, Ids

(* A message is below its parent and all that the parent is below.         *)
LEMMA ChainStep ==
  ASSUME NEW records, IsLog(records), NEW m \in records, NEW x,
         BelowIn(records, x, m.parent)
  PROVE  BelowIn(records, x, m.id)
<1> SUFFICES ASSUME x \in ChainIn(records, m.parent) PROVE x \in ChainIn(records, m.id)
  BY DEF BelowIn
<1> DEFINE known == Ids(records)
           parents == {p.parent : p \in records}
<1>1. m.id \in known /\ m.parent \in parents /\ m.parent # NoMsg
  BY ChainOfNone DEF Ids
<1>2. m.parent \in known
  BY <1>1 DEF IsLog
<1>3. /\ x \in (known \cup parents) \ {NoMsg}
      /\ \A ids \in SUBSET (known \ {x}) :
           m.parent \in ids
             => \E p \in records : p.id \in ids /\ p.parent \notin ids \cup {NoMsg}
  <2>1. known \cup {m.parent} = known
    BY <1>2
  <2> QED
    BY <2>1 DEF ChainIn, Ids
<1>4. ASSUME NEW ids \in SUBSET (known \ {x}), m.id \in ids
      PROVE  \E p \in records : p.id \in ids /\ p.parent \notin ids \cup {NoMsg}
  BY <1>1, <1>3, <1>4
<1>5. known \cup {m.id} = known
  BY <1>1
<1> QED
  BY <1>3, <1>4, <1>5 DEF ChainIn, Ids

(* The chain of a message in a chain is part of it.                        *)
LEMMA ChainTransitive ==
  ASSUME NEW records, IsLog(records), NEW x, NEW y, NEW z,
         y \in Ids(records) \cup {NoMsg}, z \in Ids(records) \cup {NoMsg},
         BelowIn(records, x, y), BelowIn(records, y, z)
  PROVE  BelowIn(records, x, z)
<1>1. CASE x = NoMsg
  BY <1>1 DEF BelowIn
<1>2. CASE x # NoMsg
  <2>1. x \in ChainIn(records, y) /\ y # NoMsg
    BY <1>2, ChainOfNone DEF BelowIn
  <2>2. y \in ChainIn(records, z) /\ z # NoMsg
    BY <2>1, ChainOfNone DEF BelowIn
  <2> DEFINE known == Ids(records)
             parents == {p.parent : p \in records}
  <2>3. known \cup {y} = known /\ known \cup {z} = known
    BY <2>1, <2>2
  <2>4. /\ x \in (known \cup parents) \ {NoMsg}
        /\ \A ids \in SUBSET (known \ {x}) :
             y \in ids
               => \E p \in records : p.id \in ids /\ p.parent \notin ids \cup {NoMsg}
    BY <2>1, <2>3 DEF ChainIn, Ids
  <2>5. \A ids \in SUBSET (known \ {y}) :
          z \in ids
            => \E p \in records : p.id \in ids /\ p.parent \notin ids \cup {NoMsg}
    BY <2>2, <2>3 DEF ChainIn, Ids
  <2>6. ASSUME NEW ids \in SUBSET (known \ {x}), z \in ids
        PROVE  \E p \in records : p.id \in ids /\ p.parent \notin ids \cup {NoMsg}
    <3>1. CASE y \in ids
      BY <2>4, <2>6, <3>1
    <3>2. CASE y \notin ids
      <4>1. ids \in SUBSET (known \ {y})
        BY <3>2
      <4> QED
        BY <2>5, <2>6, <4>1
    <3> QED
      BY <3>1, <3>2
  <2> QED
    BY <2>3, <2>4, <2>6 DEF BelowIn, ChainIn, Ids
<1> QED
  BY <1>1, <1>2

-----------------------------------------------------------------------------
(* The files *)

(* The stored messages form a log.                                         *)
LEMMA LogFacts ==
  ASSUME TypeOK, ChainClosed PROVE IsLog(log) /\ LoggedIds = Ids(log)
<1>1. LoggedIds = Ids(log)
  BY DEF LoggedIds, Ids
<1>2. \A m \in log : m.id \in MsgIds
  BY DEF TypeOK, Messages
<1> QED
  BY <1>1, <1>2, NullsAssumption DEF ChainClosed, IsLog

(* So do the stored messages of the next state.                            *)
LEMMA NextLogFacts ==
  ASSUME TypeOK', ChainClosed' PROVE IsLog(log') /\ LoggedIds' = Ids(log')
<1>1. LoggedIds' = Ids(log')
  BY DEF LoggedIds, Ids
<1>2. \A m \in log' : m.id \in MsgIds
  BY DEF TypeOK, Messages
<1> QED
  BY <1>1, <1>2, NullsAssumption DEF ChainClosed, IsLog

(* What is below a message of the log stays below it when the log grows.   *)
LEMMA BelowGrows ==
  ASSUME TypeOK, ChainClosed, log \subseteq log', NEW x, NEW y \in LoggedIds \cup {NoMsg},
         BelowIn(log, x, y)
  PROVE  BelowIn(log', x, y)
  BY LogFacts, ChainGrows

(* Being below something is transitive in the log.                         *)
LEMMA BelowTransitive ==
  ASSUME TypeOK, ChainClosed, NEW x, NEW y \in LoggedIds \cup {NoMsg},
         NEW z \in LoggedIds \cup {NoMsg}, BelowIn(log, x, y), BelowIn(log, y, z)
  PROVE  BelowIn(log, x, z)
  BY LogFacts, ChainTransitive

(* The branches of the files, in terms of the log.                         *)
LEMMA Branches ==
  ASSUME FilesAgree
  PROVE  /\ session.current # NoRun
              => BelowIn(log, session.leaf, runs[session.current].cursor)
         /\ \A r \in RunIds :
              /\ IsLive(runs[r]) /\ session.current # r
                   => /\ session.current = NoRun
                      /\ BelowIn(log, session.leaf, runs[r].cursor)
              /\ IsTerminal(runs[r]) /\ session.current # r
                   => runs[r].cursor \in ChainIn(log, session.leaf)
  BY DEF FilesAgree, LeafNotAhead, OrphanBelowLeaf, TranscriptKept, Below, BelowIn, Chain

(* Files that are not written keep agreeing.                               *)
LEMMA FilesStay ==
  ASSUME FilesAgree, session' = session, runs' = runs, log' = log,
         sessionEvents' = sessionEvents, runEvents' = runEvents
  PROVE  FilesAgree'
<1> USE DEF FilesAgree
<1>1. ChainClosed' /\ MessageIdsUnique'
  BY DEF ChainClosed, MessageIdsUnique, LoggedIds
<1>2. LeafNotAhead' /\ TranscriptKept' /\ OrphanBelowLeaf'
  BY DEF LeafNotAhead, TranscriptKept, OrphanBelowLeaf, Below, Chain, IsLive, IsTerminal
<1>3. ReceiptMeansDurable' /\ ReceiptsAreOfRuns'
  BY DEF ReceiptMeansDurable, ReceiptsAreOfRuns
<1>4. UnnamedRunIsFresh' /\ CursorsExist' /\ OutcomesAreCommitted'
  BY DEF UnnamedRunIsFresh, CursorsExist, OutcomesAreCommitted, IsLive, IsTerminal
<1>5. CommitsArePast'
  BY DEF CommitsArePast
<1> QED
  BY <1>1, <1>2, <1>3, <1>4, <1>5

(* Nothing of them changes when nothing on disk does.                      *)
LEMMA FilesKept ==
  ASSUME FilesAgree, UNCHANGED disk PROVE FilesAgree'
  BY FilesStay DEF disk

(* The message that a call appends: whose it is and where it hangs.        *)
LEMMA NextMessageFacts ==
  ASSUME Agreed, call.pc = "message"
  PROVE  /\ NextMessage \in Messages
         /\ NextMessage.parent \in LoggedIds \cup {NoMsg}
         /\ \/ /\ call.op = "begin" /\ NextMessage.id = call.run.cursor
               /\ NextMessage.id[1] \notin CommitIds
               /\ NextMessage.parent = session.leaf
            \/ /\ call.op = "commit" /\ call.req \in CommitReqs /\ call.id = call.req.id.run
               /\ call.k \in Nat /\ call.k < call.req.n
               /\ CommitAccepted(call.req) /\ call.id \in RunIds
               /\ NextMessage = CommitMessage(call.req, call.k)
               /\ NextMessage.id = Child(call.req.id, call.k)
               /\ NextMessage.id[1] = call.req.id /\ NextMessage.id[2] = call.k
               /\ BelowIn(log, runs[call.id].cursor, NextMessage.parent)
<1>1. NextMessage \in Messages /\ ChainClosed /\ TypeOK
  BY NextMessageType DEF Agreed, Agreement, FilesAgree, Typed
<1>2. call.op \in {"begin", "commit"} /\ call.k \in Nat
  BY DEF Agreed, Typed, TypeOK, CallShape, Calls
<1>3. CASE call.op = "begin"
  <2>1. call.run.request \in Requests /\ call.run.cursor = Input(call.run.request)
    BY <1>3 DEF Agreed, Typed, CallShape, Agreement, CallAgrees, Begins
  <2>2. NextMessage.id = call.run.cursor /\ NextMessage.parent = session.leaf
    BY <1>3, <2>1 DEF NextMessage, InputMessage
  <2>3. NextMessage.id[1] \notin CommitIds
    BY <2>1, <2>2, ScopesAssumption DEF Input
  <2> QED
    BY <1>1, <1>3, <2>2, <2>3 DEF ChainClosed
<1>4. CASE call.op = "commit"
  <2>1. call.req \in CommitReqs /\ call.id = call.req.id.run /\ call.id \in RunIds
    BY <1>4 DEF Agreed, Typed, CallShape, Lifecycle, CallOfHandler, CommitOps
  <2>2. /\ CommitAccepted(call.req) /\ call.k < call.req.n
        /\ call.k # 0 => /\ Child(call.req.id, call.k - 1) \in LoggedIds
                         /\ Below(runs[call.id].cursor, Child(call.req.id, call.k - 1))
    BY <1>4 DEF Agreed, Agreement, CallAgrees, Commits, Unwritten
  <2>3. NextMessage = CommitMessage(call.req, call.k)
    BY <1>4, <2>1 DEF NextMessage, CommitMessage
  <2>4. /\ NextMessage.id = Child(call.req.id, call.k)
        /\ NextMessage.id[1] = call.req.id /\ NextMessage.id[2] = call.k
    BY <2>3 DEF CommitMessage, Child
  <2>5. NextMessage.parent = IF call.k = 0 THEN runs[call.id].cursor
                                           ELSE Child(call.req.id, call.k - 1)
    BY <2>1, <2>3 DEF CommitMessage
  <2>6. CASE call.k = 0
    <3>1. NextMessage.parent = runs[call.id].cursor
      BY <2>5, <2>6
    <3>2. NextMessage.parent \in LoggedIds \cup {NoMsg}
      BY <1>1, <2>1, <3>1 DEF ChainClosed
    <3> QED
      BY <1>1, <1>2, <1>4, <2>1, <2>2, <2>3, <2>4, <3>1, <3>2, ChainSelf
  <2>7. CASE call.k # 0
    <3>1. NextMessage.parent = Child(call.req.id, call.k - 1)
      BY <2>5, <2>7
    <3>2. BelowIn(log, runs[call.id].cursor, NextMessage.parent)
      BY <2>2, <2>7, <3>1 DEF Below, BelowIn, Chain
    <3> QED
      BY <1>1, <1>2, <1>4, <2>1, <2>2, <2>3, <2>4, <2>7, <3>1, <3>2
  <2> QED
    BY <2>6, <2>7
<1> QED
  BY <1>2, <1>3, <1>4

(* Appending a message keeps the files in agreement (append_message).      *)
LEMMA FilesMessage ==
  ASSUME Agreed, WriteMessage
  PROVE  FilesAgree'
<1> DEFINE m == NextMessage
<1>1. /\ call.pc = "message" /\ m \in Messages /\ m.parent \in LoggedIds \cup {NoMsg}
      /\ m.id[1] \in CommitIds
           => /\ m.id[1] = call.req.id /\ CommitAccepted(call.req)
              /\ call.req.id.run \in RunIds
  BY NextMessageFacts DEF WriteMessage
<1>2. /\ log' = log \cup {m} /\ (m \in log \/ m.id \notin LoggedIds)
      /\ session' = session /\ runs' = runs
      /\ sessionEvents' = sessionEvents /\ runEvents' = runEvents
  BY DEF WriteMessage, Clashes
<1> HIDE DEF m
<1>3. FilesAgree /\ TypeOK /\ ChainClosed
  BY DEF Agreed, Agreement, FilesAgree, Typed
<1>4. LoggedIds' = LoggedIds \cup {m.id} /\ log \subseteq log'
  BY <1>2 DEF LoggedIds
<1>5. ChainClosed'
  BY <1>1, <1>2, <1>3, <1>4 DEF ChainClosed
<1>6. MessageIdsUnique'
  BY <1>2, <1>3 DEF FilesAgree, MessageIdsUnique, LoggedIds
<1>7. /\ session.leaf \in LoggedIds \cup {NoMsg}
      /\ \A r \in RunIds : runs[r].cursor \in LoggedIds \cup {NoMsg}
      /\ session.current \in RunIds \cup {NoRun}
  BY <1>3 DEF ChainClosed, TypeOK, SessionRecs
<1>8. LeafNotAhead'
  BY <1>2, <1>3, <1>4, <1>7, BelowGrows, Branches DEF LeafNotAhead, BelowIn, Chain
<1>9. OrphanBelowLeaf'
  BY <1>2, <1>3, <1>4, <1>7, BelowGrows, Branches
     DEF OrphanBelowLeaf, Below, BelowIn, Chain, IsLive
<1>10. TranscriptKept'
  <2>1. ASSUME NEW r \in RunIds, IsTerminal(runs[r]), session.current # r
        PROVE  runs[r].cursor \in ChainIn(log', session.leaf)
    <3>1. runs[r].cursor \in ChainIn(log, session.leaf)
      BY <1>3, <2>1, Branches
    <3>2. BelowIn(log', runs[r].cursor, session.leaf)
      BY <1>3, <1>4, <1>7, <3>1, BelowGrows DEF BelowIn
    <3>3. runs[r].cursor # NoMsg
      BY <1>3, <2>1 DEF FilesAgree, CursorsExist, IsTerminal, Outcomes
    <3> QED
      BY <3>2, <3>3 DEF BelowIn
  <2> QED
    BY <1>2, <2>1 DEF TranscriptKept, Chain, IsTerminal
<1>11. ReceiptMeansDurable' /\ ReceiptsAreOfRuns'
  BY <1>2, <1>3 DEF FilesAgree, ReceiptMeansDurable, ReceiptsAreOfRuns
<1>12. UnnamedRunIsFresh' /\ CursorsExist' /\ OutcomesAreCommitted'
  BY <1>2, <1>3 DEF FilesAgree, UnnamedRunIsFresh, CursorsExist, OutcomesAreCommitted,
                    IsLive, IsTerminal
<1>13. CommitsArePast'
  <2>1. m.id[1] \in CommitIds
          => /\ runs[m.id[1].run].status # "absent"
             /\ m.id[1].rev <= runs[m.id[1].run].rev
    <3>1. SUFFICES ASSUME m.id[1] \in CommitIds
                   PROVE  /\ runs[m.id[1].run].status # "absent"
                          /\ m.id[1].rev <= runs[m.id[1].run].rev
      OBVIOUS
    <3>2. m.id[1] = call.req.id /\ CommitAccepted(call.req) /\ call.req.id.run \in RunIds
      BY <1>1, <3>1
    <3>3. runs[call.req.id.run].rev = call.req.id.rev /\ IsLive(runs[call.req.id.run])
      BY <3>2 DEF CommitAccepted
    <3>4. runs[call.req.id.run].rev \in Nat
      BY <1>3, <3>2 DEF TypeOK, RunRecs
    <3> QED
      BY <3>2, <3>3, <3>4 DEF IsLive, Live
  <2> QED
    BY <1>2, <1>3, <2>1 DEF FilesAgree, CommitsArePast
<1> QED
  BY <1>5, <1>6, <1>8, <1>9, <1>10, <1>11, <1>12, <1>13 DEF FilesAgree

(* What writing run.json does to the run: it extends the transcript of a   *)
(* run that the session names, or admits one when none is active.          *)
LEMMA RunWrittenFacts ==
  ASSUME Agreed, WriteRun
  PROVE  /\ call.id \in RunIds /\ call.run \in RunRecs
         /\ runs' = [runs EXCEPT ![call.id] = call.run]
         /\ call.run.status # "absent" /\ call.run.rev = runs[call.id].rev + 1
         /\ call.run.cursor \in LoggedIds
         /\ BelowIn(log, runs[call.id].cursor, call.run.cursor)
         /\ IsTerminal(call.run)
              <=> call.run.last # NoReq /\ call.run.last.req.kind = "terminal"
         /\ \/ /\ call.op = "begin" /\ \A r \in RunIds : ~IsLive(runs[r])
               /\ runs[call.id].status = "absent" /\ session.current = NoRun
               /\ call.run.status = "created" /\ call.run.last = NoReq
               /\ BelowIn(log, session.leaf, call.run.cursor)
            \/ /\ call.op \in {"commit", "resume"} /\ session.current = call.id
               /\ IsLive(runs[call.id])
               /\ \/ call.run.last = runs[call.id].last
                  \/ /\ call.op = "commit" /\ CommitAccepted(call.req)
                     /\ call.req.id.run = call.id
                     /\ call.run.last = [req |-> call.req, target |-> TargetRevision(call.req)]
<1>1. /\ call.pc = "run" /\ call.op \in {"begin", "commit", "resume"} /\ call.id \in RunIds
      /\ runs' = [runs EXCEPT ![call.id] = call.run] /\ call.run \in RunRecs
  BY DEF WriteRun, Agreed, Typed, TypeOK, CallShape, Calls
<1>2. /\ \/ /\ call.op = "begin" /\ \A r \in RunIds : ~IsLive(runs[r])
            /\ runs[call.id].status = "absent" /\ call.run.status = "created"
            /\ call.run.rev = 1
         \/ /\ call.op \in {"commit", "resume"} /\ IsLive(runs[call.id])
            /\ call.run.status \in Ledger!Successors(runs[call.id].status)
            /\ call.run.rev = runs[call.id].rev + 1
  BY RunWritten DEF Agreed
<1>3. FilesAgree /\ CallAgrees /\ ChainClosed /\ TypeOK /\ runs[call.id] \in RunRecs
  BY <1>1 DEF Agreed, Agreement, FilesAgree, Typed, TypeOK
<1>4. CASE call.op = "begin"
  <2>1. /\ session.current = NoRun /\ call.run.last = NoReq
        /\ call.run.cursor \in LoggedIds /\ Below(session.leaf, call.run.cursor)
    BY <1>1, <1>3, <1>4 DEF CallAgrees, Begins
  <2>2. runs[call.id] = AbsentRun
    BY <1>1, <1>2, <1>3, <1>4 DEF FilesAgree, CursorsExist
  <2>3. runs[call.id].cursor = NoMsg /\ runs[call.id].rev = 0
    BY <2>2 DEF AbsentRun
  <2>4. BelowIn(log, runs[call.id].cursor, call.run.cursor)
        /\ BelowIn(log, session.leaf, call.run.cursor)
    BY <2>1, <2>3 DEF BelowIn, Below, Chain
  <2>5. call.run.status = "created" /\ call.run.rev = runs[call.id].rev + 1
        /\ \A r \in RunIds : ~IsLive(runs[r])
    BY <1>2, <1>4, <2>3
  <2> QED
    BY <1>1, <1>2, <1>4, <2>1, <2>4, <2>5 DEF IsTerminal, Outcomes
<1>5. CASE call.op = "resume"
  <2>1. /\ session.current = call.id /\ call.run.cursor = runs[call.id].cursor
        /\ call.run.last = runs[call.id].last /\ call.run.status = "running"
    BY <1>1, <1>3, <1>5 DEF CallAgrees, Resumes, Agreed, Lifecycle, CallOfHandler
  <2>2. runs[call.id].cursor # NoMsg /\ ~IsTerminal(runs[call.id]) /\ ~IsTerminal(call.run)
    BY <1>1, <1>2, <1>3, <1>5, <2>1
       DEF FilesAgree, CursorsExist, IsLive, IsTerminal, Live, Outcomes
  <2>3. BelowIn(log, runs[call.id].cursor, call.run.cursor)
    BY <2>1, ChainSelf
  <2>4. call.run.cursor \in LoggedIds
    BY <1>1, <1>3, <2>1, <2>2 DEF ChainClosed
  <2>5. ~(call.run.last # NoReq /\ call.run.last.req.kind = "terminal")
    BY <1>1, <1>3, <2>1, <2>2 DEF FilesAgree, OutcomesAreCommitted
  <2> QED
    BY <1>1, <1>2, <1>5, <2>1, <2>2, <2>3, <2>4, <2>5
<1>6. CASE call.op = "commit"
  <2>1. /\ call.id = call.req.id.run /\ call.req \in CommitReqs
        /\ CommitAccepted(call.req) /\ call.run = CommittedRun(call.req)
        /\ call.run.cursor \in LoggedIds \cup {NoMsg}
        /\ Below(runs[call.id].cursor, call.run.cursor)
    BY <1>1, <1>3, <1>6 DEF CallAgrees, Commits, Unwritten, Agreed, Lifecycle, CallOfHandler,
                            CommitOps, Typed, CallShape
  <2>2. /\ call.run.last = [req |-> call.req, target |-> TargetRevision(call.req)]
        /\ call.run.status = call.req.status
        /\ session.current = call.id
    BY <1>3, <2>1 DEF CommittedRun, CommitAccepted, RunRecs
  <2>3. call.run.last # NoReq /\ call.run.last.req = call.req
    <3>1. TargetRevision(call.req) \in Nat
      BY <1>3, <2>1, CommittedTypes
    <3>2. call.run.last \in [req : CommitReqs, target : Nat]
      BY <2>1, <2>2, <3>1
    <3> QED
      BY <2>2, <3>2, NullsAssumption
  <2>4. IsTerminal(call.run) <=> call.req.kind = "terminal"
    BY <1>3, <1>6, <2>2 DEF CallAgrees, CommitKeepsCurrent, InCommit, CommitOps, IsTerminal
  <2>5. BelowIn(log, runs[call.id].cursor, call.run.cursor)
    BY <2>1 DEF BelowIn, Below, Chain
  <2>6. runs[call.id].cursor # NoMsg /\ IsLive(runs[call.id])
    BY <1>1, <1>2, <1>3, <1>6 DEF FilesAgree, CursorsExist, IsLive, Live
  <2>7. call.run.cursor # NoMsg
    BY <1>3, <2>5, <2>6, LogFacts, ChainOfNone DEF BelowIn
  <2>8. call.run.status # "absent" /\ call.run.rev = runs[call.id].rev + 1
    BY <1>2, <1>6, SuccessorFacts
  <2> QED
    BY <1>1, <1>6, <2>1, <2>2, <2>3, <2>4, <2>5, <2>6, <2>7, <2>8
<1> QED
  BY <1>1, <1>4, <1>5, <1>6

(* Writing run.json keeps the files in agreement (update_run).             *)
LEMMA FilesRun ==
  ASSUME Agreed, WriteRun
  PROVE  FilesAgree'
<1> DEFINE id == call.id
           old == runs[call.id]
           new == call.run
<1>1. /\ id \in RunIds /\ new \in RunRecs /\ runs' = [runs EXCEPT ![id] = new]
      /\ new.status # "absent" /\ new.rev = old.rev + 1
      /\ new.cursor \in LoggedIds /\ BelowIn(log, old.cursor, new.cursor)
      /\ IsTerminal(new) <=> new.last # NoReq /\ new.last.req.kind = "terminal"
  BY RunWrittenFacts
<1>2. \/ /\ \A r \in RunIds : ~IsLive(runs[r])
         /\ old.status = "absent" /\ session.current = NoRun
         /\ new.status = "created" /\ new.last = NoReq
         /\ BelowIn(log, session.leaf, new.cursor)
      \/ /\ session.current = id /\ IsLive(old)
         /\ \/ new.last = old.last
            \/ /\ CommitAccepted(call.req) /\ call.req.id.run = id
               /\ new.last = [req |-> call.req, target |-> TargetRevision(call.req)]
  BY RunWrittenFacts
<1>3. /\ session' = session /\ log' = log
      /\ sessionEvents' = sessionEvents /\ runEvents' = runEvents
  BY DEF WriteRun
<1>4. /\ FilesAgree /\ TypeOK /\ ChainClosed /\ runs \in [RunIds -> RunRecs]
      /\ old \in RunRecs /\ old.rev \in Nat
  BY <1>1 DEF Agreed, Agreement, FilesAgree, Typed, TypeOK, RunRecs
<1>5. runs'[id] = new /\ \A r \in RunIds : r # id => runs'[r] = runs[r]
  BY <1>1, <1>4
<1>6. id # NoRun
  BY <1>1, NoneAssumption
<1>7. \A r \in RunIds : r # id => ~IsLive(runs[r])
  BY <1>1, <1>2 DEF Agreed, Lifecycle, RunsInOrder, SingleActive
<1>8. old = runs[id]
  OBVIOUS
<1> HIDE DEF id, old, new
<1>9. ChainClosed' /\ LoggedIds' = LoggedIds
  BY <1>1, <1>3, <1>4, <1>5 DEF ChainClosed, LoggedIds
<1>10. MessageIdsUnique'
  BY <1>3, <1>4 DEF FilesAgree, MessageIdsUnique
<1>11. LeafNotAhead'
  <2>1. session.current = id => BelowIn(log, session.leaf, new.cursor)
    <3>1. session.current = id => BelowIn(log, session.leaf, old.cursor)
      BY <1>4, <1>6, <1>8, Branches
    <3>2. old.cursor \in LoggedIds \cup {NoMsg}
      BY <1>1, <1>4, <1>8 DEF ChainClosed
    <3> QED
      BY <1>1, <1>4, <3>1, <3>2, BelowTransitive
  <2>2. session.current \in {NoRun, id}
    BY <1>2
  <2> QED
    BY <1>3, <1>5, <2>1, <2>2 DEF LeafNotAhead, BelowIn, Chain
<1>12. OrphanBelowLeaf'
  <2>1. ASSUME NEW r \in RunIds, IsLive(runs'[r]), session.current # r
        PROVE  session.current = NoRun /\ BelowIn(log, session.leaf, runs'[r].cursor)
    BY <1>2, <1>5, <1>7, <2>1 DEF IsLive
  <2> QED
    BY <1>3, <2>1 DEF OrphanBelowLeaf, Below, BelowIn, Chain, IsLive
<1>13. TranscriptKept'
  <2>1. ASSUME NEW r \in RunIds, IsTerminal(runs'[r]), session.current # r
        PROVE  runs'[r].cursor \in ChainIn(log, session.leaf)
    <3>1. r # id
      BY <1>2, <1>5, <2>1 DEF IsTerminal, Outcomes
    <3> QED
      BY <1>4, <1>5, <2>1, <3>1, Branches
  <2> QED
    BY <1>3, <2>1 DEF TranscriptKept, Chain, IsTerminal
<1>14. UnnamedRunIsFresh'
  BY <1>2, <1>3, <1>5, <1>7 DEF UnnamedRunIsFresh, IsLive
<1>15. CursorsExist'
  <2>1. new.cursor # NoMsg
    BY <1>1, <1>4, LogFacts DEF Ids, IsLog
  <2> QED
    BY <1>1, <1>4, <1>5, <2>1 DEF FilesAgree, CursorsExist
<1>16. OutcomesAreCommitted'
  BY <1>1, <1>4, <1>5 DEF FilesAgree, OutcomesAreCommitted, IsTerminal
<1>17. ReceiptsAreOfRuns'
  BY <1>3, <1>4 DEF FilesAgree, ReceiptsAreOfRuns
<1>18. ReceiptMeansDurable'
  <2>1. ASSUME NEW e \in sessionEvents, e.tag \in CommitTags
        PROVE  /\ runs'[e.run].rev > e.rev
               /\ runs'[e.run].last # NoReq /\ runs'[e.run].last.req.id = e
                    => session.rev >= runs'[e.run].last.target
    <3>1. /\ e.run \in RunIds /\ e.rev \in Nat /\ runs[e.run].rev > e.rev
          /\ runs[e.run].last # NoReq /\ runs[e.run].last.req.id = e
               => session.rev >= runs[e.run].last.target
      BY <1>4, <2>1 DEF FilesAgree, ReceiptsAreOfRuns, ReceiptMeansDurable, TypeOK, EventIds
    <3>2. CASE e.run # id
      BY <1>5, <3>1, <3>2
    <3>3. CASE e.run = id
      <4>1. new.rev > e.rev /\ old.rev > e.rev
        BY <1>1, <1>4, <1>8, <3>1, <3>3
      <4>2. ~(new.last.req.id = e) \/ new.last = old.last \/ new.last = NoReq
        <5>1. ASSUME CommitAccepted(call.req), call.req.id.run = id,
                     new.last = [req |-> call.req, target |-> TargetRevision(call.req)]
              PROVE  new.last.req.id # e
          <6>1. call.req.id.rev = old.rev
            BY <1>8, <5>1 DEF CommitAccepted
          <6> QED
            BY <1>4, <3>1, <4>1, <5>1, <6>1
        <5> QED
          BY <1>2, <5>1
      <4> QED
        BY <1>5, <1>8, <3>1, <3>3, <4>1, <4>2
    <3> QED
      BY <3>2, <3>3
  <2> QED
    BY <1>3, <1>4, <2>1 DEF FilesAgree, ReceiptMeansDurable
<1>19. CommitsArePast'
  <2>1. ASSUME NEW m \in log, m.id[1] \in CommitIds
        PROVE  /\ runs'[m.id[1].run].status # "absent"
               /\ m.id[1].rev <= runs'[m.id[1].run].rev
    <3>1. /\ runs[m.id[1].run].status # "absent" /\ m.id[1].rev <= runs[m.id[1].run].rev
          /\ m.id[1].run \in RunIds /\ m.id[1].rev \in Nat
      BY <1>4, <2>1 DEF FilesAgree, CommitsArePast, CommitIds
    <3>2. m.id[1].run = id => m.id[1].rev <= new.rev
      BY <1>1, <1>4, <1>8, <3>1
    <3> QED
      BY <1>1, <1>5, <3>1, <3>2
  <2> QED
    BY <1>3, <2>1 DEF CommitsArePast
<1> QED
  BY <1>9, <1>10, <1>11, <1>12, <1>13, <1>14, <1>15, <1>16, <1>17, <1>18, <1>19 DEF FilesAgree

(* What writing session.json does: it names a run that was admitted or     *)
(* moves to the cursor of the run it names, or only its revision grows.    *)
LEMMA SessionWrittenFacts ==
  ASSUME Agreed, WriteSession
  PROVE  /\ session' = call.ses /\ call.ses \in SessionRecs
         /\ \/ session' = session
            \/ /\ call.op = "mode" /\ call.ses.rev = session.rev + 1
               /\ call.ses.current = session.current /\ call.ses.leaf = session.leaf
            \/ /\ call.op \in {"begin", "repair"} /\ call.id \in RunIds
               /\ session.current = NoRun /\ IsLive(runs[call.id])
               /\ BelowIn(log, session.leaf, runs[call.id].cursor)
               /\ call.ses = BoundSession(call.id, runs[call.id].cursor)
            \/ /\ call.op \in CommitOps /\ call.id \in RunIds
               /\ call.req.id.run = call.id
               /\ session.current = call.id /\ session.rev < call.ses.rev
               /\ call.ses.current = NextCurrent(call.req)
               /\ call.ses.leaf = runs[call.id].cursor
               /\ IsTerminal(runs[call.id]) <=> call.req.kind = "terminal"
<1>1. /\ call.pc = "session" /\ session' = call.ses /\ call.ses \in SessionRecs
      /\ call.op # "none" /\ call.op \in Ops
      /\ call.op \notin {"none", "mode"} => call.id \in RunIds
  BY DEF WriteSession, Agreed, Typed, TypeOK, CallShape, Calls
<1>2. FilesAgree /\ CallAgrees /\ session \in SessionRecs
  BY DEF Agreed, Agreement, Typed, TypeOK
<1>3. call.op \notin {"none", "mode"} => runs[call.id] = call.run
  BY <1>1 DEF Agreed, Lifecycle, CallWritesSuccessor, Written
<1>4. CASE call.op = "mode"
  BY <1>1, <1>2, <1>4 DEF CallAgrees, ChangesMode, SessionRecs
<1>5. CASE call.op = "resume"
  BY <1>1, <1>2, <1>5 DEF CallAgrees, Resumes
<1>6. CASE call.op = "begin"
  <2>1. /\ session.current = NoRun /\ call.ses = BoundSession(call.id, call.run.cursor)
        /\ call.run.status = "created" /\ Below(session.leaf, call.run.cursor)
    BY <1>1, <1>2, <1>6 DEF CallAgrees, Begins
  <2> QED
    BY <1>1, <1>3, <1>6, <2>1 DEF Below, BelowIn, Chain, IsLive, Live
<1>7. CASE call.op = "repair"
  <2>1. /\ session.current = NoRun /\ call.ses = BoundSession(call.id, call.run.cursor)
        /\ IsLive(call.run)
    BY <1>1, <1>2, <1>7 DEF CallAgrees, Repairs
  <2>2. BelowIn(log, session.leaf, runs[call.id].cursor)
    BY <1>1, <1>2, <1>3, <1>7, <2>1, Branches, NoneAssumption
  <2> QED
    BY <1>1, <1>3, <1>7, <2>1, <2>2
<1>8. CASE call.op \in CommitOps
  <2>1. /\ call.id \in RunIds /\ call.req.id.run = call.id /\ runs[call.id] = call.run
    BY <1>1, <1>3, <1>8 DEF CommitOps, Agreed, Lifecycle, CallOfHandler
  <2>2. /\ call.run.last # NoReq /\ call.run.last.req = call.req
        /\ session.current = call.id /\ session.rev < call.run.last.target
        /\ call.ses = [rev |-> call.run.last.target, current |-> NextCurrent(call.req),
                       leaf |-> call.run.cursor]
    BY <1>1, <1>2, <1>8 DEF CallAgrees, CommitWritten, Written
  <2>3. IsTerminal(runs[call.id]) <=> call.req.kind = "terminal"
    BY <1>2, <2>1, <2>2 DEF FilesAgree, OutcomesAreCommitted
  <2> HIDE DEF NextCurrent
  <2> QED
    BY <1>1, <1>8, <2>1, <2>2, <2>3
<1> QED
  BY <1>1, <1>4, <1>5, <1>6, <1>7, <1>8 DEF Ops, CommitOps

(* Moving the session's leaf down the chain to the cursor of the run it    *)
(* names or named keeps the files in agreement.                            *)
LEMMA FilesLeafMoved ==
  ASSUME TypeOK, FilesAgree, NEW id \in RunIds,
         runs[id].status # "absent", session'.rev > session.rev, session'.rev \in Nat,
         session.current \in {NoRun, id}, session'.leaf = runs[id].cursor,
         BelowIn(log, session.leaf, runs[id].cursor),
         session'.current = IF IsTerminal(runs[id]) THEN NoRun ELSE id,
         \A r \in RunIds : r # id => ~IsLive(runs[r]),
         UNCHANGED <<runs, log, sessionEvents, runEvents>>
  PROVE  FilesAgree'
<1>1. /\ runs' = runs /\ log' = log /\ sessionEvents' = sessionEvents
      /\ runEvents' = runEvents /\ ChainClosed
  BY DEF FilesAgree
<1>2. runs[id].cursor \in LoggedIds /\ runs[id].cursor # NoMsg /\ id # NoRun
  BY <1>1, NoneAssumption DEF ChainClosed, FilesAgree, CursorsExist
<1>3. ChainClosed' /\ MessageIdsUnique'
  BY <1>1, <1>2 DEF ChainClosed, MessageIdsUnique, LoggedIds, FilesAgree
<1>4. LeafNotAhead'
  <2>1. session'.current = id \/ session'.current = NoRun
    OBVIOUS
  <2> QED
    BY <1>1, <1>2, <2>1, ChainSelf DEF LeafNotAhead, BelowIn, Chain
<1>5. ASSUME NEW r \in RunIds, IsLive(runs[r]), session'.current # r PROVE FALSE
  <2>1. r = id
    BY <1>5
  <2>2. ~IsTerminal(runs[id])
    BY <1>5, <2>1 DEF IsLive, IsTerminal, Live, Outcomes
  <2> QED
    BY <1>5, <2>1, <2>2
<1>6. OrphanBelowLeaf' /\ UnnamedRunIsFresh'
  BY <1>1, <1>5 DEF OrphanBelowLeaf, UnnamedRunIsFresh, IsLive
<1>7. TranscriptKept'
  <2>1. ASSUME NEW r \in RunIds, IsTerminal(runs[r]), session'.current # r
        PROVE  BelowIn(log, runs[r].cursor, runs[id].cursor) /\ runs[r].cursor # NoMsg
    <3>1. runs[r].cursor # NoMsg /\ runs[r].cursor \in LoggedIds
      BY <1>1, <2>1 DEF FilesAgree, CursorsExist, ChainClosed, IsTerminal, Outcomes
    <3>2. CASE r = id
      BY <3>1, <3>2, ChainSelf
    <3>3. CASE r # id
      <4>1. BelowIn(log, runs[r].cursor, session.leaf)
        BY <2>1, <3>3, Branches, NoneAssumption DEF BelowIn
      <4>2. session.leaf \in LoggedIds \cup {NoMsg}
        BY <1>1 DEF ChainClosed
      <4> QED
        BY <1>1, <1>2, <3>1, <4>1, <4>2, BelowTransitive
    <3> QED
      BY <3>2, <3>3
  <2> QED
    BY <1>1, <2>1 DEF TranscriptKept, BelowIn, Chain, IsTerminal
<1>8. ReceiptMeansDurable' /\ ReceiptsAreOfRuns'
  <2>1. ASSUME NEW e \in sessionEvents, e.tag \in CommitTags,
               runs[e.run].last # NoReq, runs[e.run].last.req.id = e
        PROVE  session'.rev >= runs[e.run].last.target
    <3>1. session.rev >= runs[e.run].last.target /\ e.run \in RunIds
      BY <2>1 DEF FilesAgree, ReceiptMeansDurable, ReceiptsAreOfRuns
    <3>2. runs[e.run].last.target \in Nat /\ session.rev \in Nat
      BY <2>1, <3>1 DEF TypeOK, RunRecs, SessionRecs
    <3> QED
      BY <3>1, <3>2
  <2> QED
    BY <1>1, <2>1 DEF FilesAgree, ReceiptMeansDurable, ReceiptsAreOfRuns
<1>9. CursorsExist' /\ OutcomesAreCommitted'
  BY <1>1 DEF FilesAgree, CursorsExist, OutcomesAreCommitted, IsTerminal
<1>10. CommitsArePast'
  BY <1>1 DEF FilesAgree, CommitsArePast
<1> QED
  BY <1>3, <1>4, <1>6, <1>7, <1>8, <1>9, <1>10 DEF FilesAgree

(* Writing session.json keeps the files in agreement (update_session).     *)
LEMMA FilesSession ==
  ASSUME Agreed, WriteSession
  PROVE  FilesAgree'
<1>1. /\ UNCHANGED <<runs, log, sessionEvents, runEvents>>
      /\ runs' = runs /\ log' = log /\ sessionEvents' = sessionEvents
      /\ runEvents' = runEvents
  BY DEF WriteSession
<1>2. /\ FilesAgree /\ TypeOK /\ session \in SessionRecs /\ session.rev \in Nat
      /\ session' = call.ses /\ call.ses \in SessionRecs /\ call.ses.rev \in Nat
  BY SessionWrittenFacts DEF Agreed, Agreement, Typed, TypeOK, SessionRecs
<1>3. CASE session' = session
  BY <1>1, <1>2, <1>3, FilesStay
<1>4. CASE /\ call.op = "mode" /\ call.ses.rev = session.rev + 1
           /\ call.ses.current = session.current /\ call.ses.leaf = session.leaf
  <2>1. /\ session'.rev = session.rev + 1 /\ session'.current = session.current
        /\ session'.leaf = session.leaf
    BY <1>2, <1>4
  <2>2. ChainClosed' /\ MessageIdsUnique' /\ CommitsArePast'
    BY <1>1, <1>2, <2>1 DEF FilesAgree, ChainClosed, MessageIdsUnique, CommitsArePast, LoggedIds
  <2>3. LeafNotAhead' /\ TranscriptKept' /\ OrphanBelowLeaf'
    BY <1>1, <1>2, <2>1 DEF FilesAgree, LeafNotAhead, TranscriptKept, OrphanBelowLeaf, Below,
                            Chain, IsLive, IsTerminal
  <2>4. UnnamedRunIsFresh' /\ CursorsExist' /\ OutcomesAreCommitted'
    BY <1>1, <1>2, <2>1 DEF FilesAgree, UnnamedRunIsFresh, CursorsExist, OutcomesAreCommitted,
                            IsLive, IsTerminal
  <2>5. ReceiptMeansDurable' /\ ReceiptsAreOfRuns'
    <3>1. ASSUME NEW e \in sessionEvents, e.tag \in CommitTags,
                 runs[e.run].last # NoReq, runs[e.run].last.req.id = e
          PROVE  session'.rev >= runs[e.run].last.target
      <4>1. session.rev >= runs[e.run].last.target /\ e.run \in RunIds
        BY <1>2, <3>1 DEF FilesAgree, ReceiptMeansDurable, ReceiptsAreOfRuns
      <4>2. runs[e.run].last.target \in Nat
        BY <1>2, <3>1, <4>1 DEF TypeOK, RunRecs
      <4> QED
        BY <1>2, <2>1, <4>1, <4>2
    <3> QED
      BY <1>1, <1>2, <3>1 DEF FilesAgree, ReceiptMeansDurable, ReceiptsAreOfRuns
  <2> QED
    BY <2>2, <2>3, <2>4, <2>5 DEF FilesAgree
<1>5. CASE /\ call.op \in {"begin", "repair"} /\ call.id \in RunIds
           /\ session.current = NoRun /\ IsLive(runs[call.id])
           /\ BelowIn(log, session.leaf, runs[call.id].cursor)
           /\ call.ses = BoundSession(call.id, runs[call.id].cursor)
  <2>1. /\ session'.rev = session.rev + 1 /\ session'.current = call.id
        /\ session'.leaf = runs[call.id].cursor
    BY <1>2, <1>5 DEF BoundSession
  <2>2. session'.rev > session.rev /\ session'.rev \in Nat
    BY <1>2, <2>1
  <2>3. ~IsTerminal(runs[call.id]) /\ runs[call.id].status # "absent"
    BY <1>5 DEF IsTerminal, IsLive, Live, Outcomes
  <2>4. \A r \in RunIds : r # call.id => ~IsLive(runs[r])
    BY <1>5 DEF Agreed, Lifecycle, RunsInOrder, SingleActive
  <2> QED
    BY <1>1, <1>2, <1>5, <2>1, <2>2, <2>3, <2>4, FilesLeafMoved
<1>6. CASE /\ call.op \in CommitOps /\ call.id \in RunIds
           /\ call.req.id.run = call.id
           /\ session.current = call.id /\ session.rev < call.ses.rev
           /\ call.ses.current = NextCurrent(call.req)
           /\ call.ses.leaf = runs[call.id].cursor
           /\ IsTerminal(runs[call.id]) <=> call.req.kind = "terminal"
  <2>1. call.id # NoRun
    BY <1>6, NoneAssumption
  <2>2. \A r \in RunIds : r # call.id => ~IsLive(runs[r])
    BY <1>2, <1>6, <2>1, Branches
  <2>3. runs[call.id].status # "absent"
    <3>1. call.run.last # NoReq /\ runs[call.id] = call.run
      BY <1>6 DEF WriteSession, Agreed, Agreement, CallAgrees, CommitWritten, Written,
                  Lifecycle, CallWritesSuccessor, CommitOps
    <3>2. AbsentRun.last = NoReq
      BY DEF AbsentRun
    <3> QED
      BY <1>2, <1>6, <3>1, <3>2 DEF FilesAgree, CursorsExist
  <2>4. BelowIn(log, session.leaf, runs[call.id].cursor)
    BY <1>2, <1>6, <2>1, Branches
  <2>5. session'.current = IF IsTerminal(runs[call.id]) THEN NoRun ELSE call.id
    BY <1>2, <1>6 DEF NextCurrent
  <2>6. session'.rev > session.rev /\ session'.rev \in Nat
        /\ session'.leaf = runs[call.id].cursor
    BY <1>2, <1>6
  <2> QED
    BY <1>1, <1>2, <1>6, <2>2, <2>3, <2>4, <2>5, <2>6, FilesLeafMoved
<1> QED
  BY <1>3, <1>4, <1>5, <1>6, SessionWrittenFacts

(* The receipt of a commit that is written is true.                        *)
LEMMA ReceiptIsTrue ==
  ASSUME Agreed, call.pc \in {"event", "runEvent"}, Event.tag \in CommitTags
  PROVE  /\ Event.run \in RunIds /\ runs[Event.run].rev > Event.rev
         /\ session.rev = runs[Event.run].last.target
<1>1. /\ call.op # "none" /\ call.op \in Ops /\ CallAgrees
      /\ call.op \in CommitOps => call.req \in CommitReqs
  BY DEF Agreed, Agreement, Typed, TypeOK, CallShape, Calls, CommitOps
<1>2. call.op \in CommitOps /\ Event = call.req.id
  BY <1>1 DEF Event, CommitTags, Ops, CommitOps
<1>3. call.id \in RunIds /\ call.req.id.run = call.id /\ runs[call.id] = call.run
  BY <1>2 DEF Agreed, Typed, CallShape, Lifecycle, CallOfHandler, CallWritesSuccessor,
              CommitOps, Written
<1>4. /\ call.run.last # NoReq /\ call.run.last.req = call.req
      /\ session.rev = call.run.last.target
  BY <1>1, <1>2 DEF CallAgrees, CommitWritten, Written
<1>5. call.run.last.req.id.rev < call.run.rev
  BY <1>3, <1>4 DEF Agreed, Lifecycle, RunsInOrder, LastIsOlder
<1>6. call.run.rev \in Nat /\ call.req.id.rev \in Nat
  BY <1>1, <1>2 DEF Agreed, Typed, TypeOK, Calls, RunRecs, CommitReqs, CommitIds
<1> QED
  BY <1>2, <1>3, <1>4, <1>5, <1>6

(* Appending an event keeps the files in agreement (append_event).         *)
LEMMA FilesEvent ==
  ASSUME Agreed, WriteEvent \/ WriteRunEvent
  PROVE  FilesAgree'
<1>1. session' = session /\ runs' = runs /\ log' = log /\ FilesAgree
  BY DEF WriteEvent, WriteRunEvent, Agreed, Agreement
<1>2. call.pc \in {"event", "runEvent"} /\ (call.pc = "runEvent" => Event \in sessionEvents)
  BY DEF WriteEvent, WriteRunEvent, Agreed, Agreement, CallAgrees, SessionWritten
<1>3. ChainClosed' /\ MessageIdsUnique' /\ CommitsArePast'
  BY <1>1 DEF FilesAgree, ChainClosed, MessageIdsUnique, CommitsArePast, LoggedIds
<1>4. LeafNotAhead' /\ TranscriptKept' /\ OrphanBelowLeaf'
  BY <1>1 DEF FilesAgree, LeafNotAhead, TranscriptKept, OrphanBelowLeaf, Below,
              Chain, IsLive, IsTerminal
<1>5. UnnamedRunIsFresh' /\ CursorsExist' /\ OutcomesAreCommitted'
  BY <1>1 DEF FilesAgree, UnnamedRunIsFresh, CursorsExist, OutcomesAreCommitted,
              IsLive, IsTerminal
<1>6. /\ sessionEvents' \subseteq sessionEvents \cup {Event}
      /\ runEvents' \subseteq sessionEvents'
  BY <1>1, <1>2 DEF WriteEvent, WriteRunEvent, FilesAgree, ReceiptMeansDurable
<1>7. Event.tag \in CommitTags
        => /\ Event.run \in RunIds /\ runs[Event.run].rev > Event.rev
           /\ session.rev >= runs[Event.run].last.target
  <2>1. SUFFICES ASSUME Event.tag \in CommitTags
                 PROVE  /\ Event.run \in RunIds /\ runs[Event.run].rev > Event.rev
                        /\ session.rev >= runs[Event.run].last.target
    OBVIOUS
  <2>2. /\ Event.run \in RunIds /\ runs[Event.run].rev > Event.rev
        /\ session.rev = runs[Event.run].last.target
    BY <1>2, <2>1, ReceiptIsTrue
  <2>3. session.rev \in Nat
    BY DEF Agreed, Typed, TypeOK, SessionRecs
  <2> QED
    BY <2>2, <2>3
<1>8. ReceiptMeansDurable' /\ ReceiptsAreOfRuns'
  BY <1>1, <1>6, <1>7 DEF FilesAgree, ReceiptMeansDurable, ReceiptsAreOfRuns
<1> QED
  BY <1>3, <1>4, <1>5, <1>8 DEF FilesAgree

(* Every file write keeps the files in agreement.                          *)
LEMMA FilesWritten ==
  ASSUME Agreed, FileWrite PROVE FilesAgree'
  BY FilesMessage, FilesRun, FilesSession, FilesEvent DEF FileWrite

(* A commit that has not written run.json works on the run that is named,  *)
(* at the revision it has.                                                 *)
LEMMA UnwrittenFacts ==
  ASSUME Agreed, call.op = "commit", call.pc \in Unwritten
  PROVE  /\ call.req \in CommitReqs /\ call.req.id.run = call.id /\ call.id \in RunIds
         /\ CommitAccepted(call.req) /\ ~IsRepeat(call.req)
         /\ session.current = call.id /\ view.current = call.id
         /\ runs[call.id].rev = call.req.id.rev /\ session.rev = call.req.expected
<1>1. call.req \in CommitReqs /\ call.req.id.run = call.id /\ call.id \in RunIds
  BY DEF Agreed, Typed, CallShape, Lifecycle, CallOfHandler, CommitOps
<1>2. CommitAccepted(call.req) /\ view.current = call.id
  BY <1>1 DEF Agreed, Agreement, CallAgrees, Commits, CommitKeepsCurrent, InCommit, CommitOps
<1>3. /\ session.current = call.id /\ runs[call.id].rev = call.req.id.rev
      /\ session.rev = call.req.expected
  BY <1>1, <1>2 DEF CommitAccepted
<1>4. ~IsRepeat(call.req)
  BY <1>1, <1>3, NotRepeated DEF Agreed
<1> QED
  BY <1>1, <1>2, <1>3, <1>4

-----------------------------------------------------------------------------
(* Leftovers of commits that were cut off *)

(* Only an unfinished commit leaves messages of a revision that the run    *)
(* still has, and writing run.json leaves none behind.                     *)
LEMMA LeftoversWritten ==
  ASSUME Agreed, FileWrite, NEW r \in RunIds, Leftover(r)'
  PROVE  \/ Leftover(r) /\ runs'[r] = runs[r] /\ ~(call.pc = "run" /\ r = call.id)
         \/ call.op = "commit" /\ call.pc = "message" /\ r = call.id /\ UNCHANGED session
            /\ UNCHANGED runs
<1>1. PICK m \in log' :
        m.id[1] \in CommitIds /\ m.id[1].run = r /\ m.id[1].rev = runs'[r].rev
  BY DEF Leftover
<1>2. /\ runs \in [RunIds -> RunRecs] /\ runs[r].rev \in Nat /\ CommitsArePast
  BY DEF Agreed, Agreement, FilesAgree, Typed, TypeOK, RunRecs
<1>3. CASE WriteMessage
  <2>1. runs' = runs /\ session' = session /\ log' = log \cup {NextMessage}
        /\ call.pc = "message"
    BY <1>3 DEF WriteMessage
  <2>2. CASE m \in log
    BY <1>1, <2>1, <2>2 DEF Leftover
  <2>3. CASE m = NextMessage
    BY <1>1, <2>1, <2>3, NextMessageFacts
  <2> QED
    BY <2>1, <2>2, <2>3
<1>4. CASE WriteRun
  <2>1. /\ call.id \in RunIds /\ call.run.rev = runs[call.id].rev + 1
        /\ runs' = [runs EXCEPT ![call.id] = call.run]
    BY <1>4, RunWrittenFacts
  <2>2. m \in log
    BY <1>1, <1>4 DEF WriteRun
  <2>3. CASE r = call.id
    <3>1. m.id[1].rev <= runs[r].rev
      BY <1>1, <1>2, <2>2 DEF CommitsArePast
    <3>2. runs'[r] = call.run
      BY <1>2, <2>1, <2>3
    <3>3. m.id[1].rev = runs[r].rev + 1
      BY <1>1, <2>1, <2>3, <3>2
    <3> QED
      BY <1>2, <3>1, <3>3
  <2>4. CASE r # call.id
    <3>1. runs'[r] = runs[r]
      BY <1>2, <2>1, <2>4
    <3> QED
      BY <1>1, <2>2, <2>4, <3>1 DEF Leftover
  <2> QED
    BY <2>3, <2>4
<1>5. CASE WriteSession \/ WriteEvent \/ WriteRunEvent
  <2>1. runs' = runs /\ log' = log /\ call.pc # "run"
    BY <1>5 DEF WriteSession, WriteEvent, WriteRunEvent
  <2> QED
    BY <1>1, <2>1 DEF Leftover
<1> QED
  BY <1>3, <1>4, <1>5 DEF FileWrite

(* A run with leftovers stays the one that is named and shown.             *)
LEMMA ShownWritten ==
  ASSUME Agreed, FileWrite, view' = view
  PROVE  LeftoverIsShown'
<1> SUFFICES ASSUME NEW r \in RunIds, IsLive(runs'[r]), Leftover(r)'
             PROVE  session'.current = r /\ view'.current = r
  BY DEF LeftoverIsShown, IsLive
<1>1. LeftoverIsShown /\ CallAgrees
  BY DEF Agreed, Agreement, ProcessAgrees
<1>2. CASE /\ call.op = "commit" /\ call.pc = "message" /\ r = call.id
           /\ UNCHANGED session
  <2>1. session.current = call.id /\ view.current = call.id
    BY <1>2, UnwrittenFacts DEF Unwritten
  <2> QED
    BY <1>2, <2>1
<1>3. CASE Leftover(r) /\ runs'[r] = runs[r]
  <2>1. session.current = r /\ view.current = r
    BY <1>1, <1>3 DEF LeftoverIsShown
  <2>2. CASE WriteSession
    <3>1. /\ session' = call.ses /\ r # NoRun
      BY <2>2, NoneAssumption DEF WriteSession
    <3>2. call.op \in CommitOps => ~Leftover(call.id)
      BY <1>1, <2>2 DEF CallAgrees, WrittenIsFresh, WriteSession, Written, CommitOps
    <3>3. ~(call.op \in CommitOps /\ session.current = call.id)
      BY <1>3, <2>1, <3>2
    <3> QED
      BY <2>1, <2>2, <3>1, <3>3, SessionWrittenFacts
  <2>3. CASE ~WriteSession
    <3>1. session' = session
      BY <2>3 DEF FileWrite, WriteMessage, WriteRun, WriteEvent, WriteRunEvent
    <3> QED
      BY <2>1, <3>1
  <2> QED
    BY <2>2, <2>3
<1> QED
  BY <1>2, <1>3, LeftoversWritten

(* From run.json on, a call writes for a run without leftovers.            *)
LEMMA FreshWritten ==
  ASSUME Agreed, FileWrite, call.op \notin {"none", "mode"}, call.pc # "message",
         NEW r \in RunIds, r = call.id
  PROVE  ~Leftover(r)'
<1>1. call.pc = "run" \/ call.pc \in Written
  BY DEF FileWrite, WriteMessage, WriteRun, WriteSession, WriteEvent, WriteRunEvent, Written
<1>2. call.pc \in Written => ~Leftover(r)
  BY DEF Agreed, Agreement, CallAgrees, WrittenIsFresh
<1> QED
  BY <1>1, <1>2, LeftoversWritten

(* While a commit writes, its run stays the one that the session names, up *)
(* to a terminal outcome.                                                  *)
LEMMA CommitKeepsNaming ==
  ASSUME Agreed, FileWrite, call.op \in CommitOps, call.req.kind # "terminal"
  PROVE  session'.current = call.req.id.run
<1>1. session.current = call.req.id.run
  BY DEF Agreed, Agreement, CallAgrees, CommitKeepsCurrent, InCommit
<1>2. CASE WriteSession
  <2>1. call.req.id.run # NoRun /\ call.op \notin {"mode", "begin", "repair"}
    BY NoneAssumption DEF Agreed, Typed, CallShape, CommitReqs, CommitIds, CommitOps
  <2> QED
    BY <1>1, <1>2, <2>1, SessionWrittenFacts DEF NextCurrent
<1>3. CASE ~WriteSession
  <2>1. session' = session
    BY <1>3 DEF FileWrite, WriteMessage, WriteRun, WriteEvent, WriteRunEvent
  <2> QED
    BY <1>1, <2>1
<1> QED
  BY <1>2, <1>3

(* The messages that a commit finds or appends under its id are its own.   *)
LEMMA OwnMessagesWritten ==
  ASSUME Agreed, FileWrite, call.op \in CommitOps, call.req.n # 0,
         runs'[call.req.id.run].rev = call.req.id.rev,
         NEW m \in log', m.id[1] = call.req.id
  PROVE  \/ m = [id |-> Child(call.req.id, m.id[2]),
                 parent |-> IF m.id[2] = 0 THEN runs'[call.req.id.run].cursor
                                           ELSE Child(call.req.id, m.id[2] - 1),
                 body |-> call.req.body]
         \/ port # NoPort /\ port.run.prepared
<1>1. call.req.id.run \in RunIds /\ call.req.id.run = call.id /\ runs[call.id].rev \in Nat
  BY DEF Agreed, Typed, TypeOK, CallShape, CommitReqs, CommitIds, Lifecycle, CallOfHandler,
         CommitOps, RunRecs
<1>2. call.pc # "run" /\ runs' = runs
  <2>1. CASE WriteRun
    <3>1. /\ runs' = [runs EXCEPT ![call.id] = call.run] /\ runs \in [RunIds -> RunRecs]
          /\ call.run.rev = runs[call.id].rev + 1 /\ call.pc = "run"
      BY <2>1, RunWrittenFacts DEF WriteRun, Agreed, Typed, TypeOK
    <3>2. call.op = "commit"
      BY <2>1, RunWrittenFacts DEF CommitOps
    <3>3. runs[call.id].rev = call.req.id.rev
      BY <3>1, <3>2, UnwrittenFacts DEF Unwritten
    <3> QED
      BY <1>1, <3>1, <3>3
  <2>2. CASE ~WriteRun
    BY <2>2 DEF FileWrite, WriteMessage, WriteSession, WriteEvent, WriteRunEvent
  <2> QED
    BY <2>1, <2>2
<1>3. CASE m \in log
  BY <1>2, <1>3 DEF Agreed, Agreement, CallAgrees, OwnMessages, InCommit, CommitMessage
<1>4. CASE m \notin log
  <2>1. WriteMessage /\ m = NextMessage
    BY <1>4 DEF FileWrite, WriteMessage, WriteRun, WriteSession, WriteEvent, WriteRunEvent
  <2> QED
    BY <1>2, <2>1, NextMessageFacts DEF WriteMessage, CommitMessage, CommitOps
<1> QED
  BY <1>3, <1>4

-----------------------------------------------------------------------------
(* File writes that succeed *)

(* A successful write advances the call and changes nothing else of it.    *)
LEMMA CallAdvances ==
  ASSUME Agreed, Write
  PROVE  /\ FileWrite /\ view' = view /\ port' = port
         /\ call.pc \in {"message", "run", "session", "event", "runEvent"}
         /\ call.pc = "message" => call.op \in {"begin", "commit"}
         /\ call.pc = "run" => call.op \in {"begin", "commit", "resume"}
         /\ call.op # "none"
         /\ call'.pc = NextPc /\ call'.k = IF call.pc = "message" THEN call.k + 1 ELSE call.k
         /\ call'.op = call.op /\ call'.id = call.id /\ call'.run = call.run
         /\ call'.ses = call.ses /\ call'.req = call.req /\ Event' = Event
<1>1. FileWrite /\ view' = view /\ port' = port
  BY DEF Write, volatile
<1>2. /\ call.pc \in {"message", "run", "session", "event", "runEvent"}
      /\ call.pc = "message" => call.op \in {"begin", "commit"}
      /\ call.pc = "run" => call.op \in {"begin", "commit", "resume"}
      /\ call.op # "none"
  BY <1>1 DEF FileWrite, WriteMessage, WriteRun, WriteSession, WriteEvent, WriteRunEvent,
              Agreed, Typed, CallShape
<1>3. /\ call'.pc = NextPc /\ call'.k = IF call.pc = "message" THEN call.k + 1 ELSE call.k
      /\ call'.op = call.op /\ call'.id = call.id /\ call'.run = call.run
      /\ call'.ses = call.ses /\ call'.req = call.req
  <2>1. call' = [call EXCEPT !.pc = NextPc, !.k = IF call.pc = "message" THEN call.k + 1
                                                                       ELSE call.k]
    BY DEF Write
  <2> HIDE DEF NextPc
  <2> QED
    BY <2>1 DEF Agreed, Typed, TypeOK, Calls
<1>4. Event' = Event
  <2> HIDE DEF NextPc
  <2> QED
    BY <1>3 DEF Event
<1> QED
  BY <1>1, <1>2, <1>3, <1>4

(* Where a write leads.                                                    *)
LEMMA NextPcFacts ==
  ASSUME Agreed, Write
  PROVE  /\ NextPc \notin {"idle", "retry"}
         /\ NextPc = "message"
              => call.pc = "message" /\ call.op = "commit" /\ call.k + 1 < call.req.n
         /\ NextPc = "run"
              => /\ call.pc = "message"
                 /\ call.op = "begin" \/ (call.op = "commit" /\ ~(call.k + 1 < call.req.n))
         /\ NextPc = "session" => call.pc = "run" /\ call.ses # session
         /\ NextPc = "event" => call.pc = "session" \/ (call.pc = "run" /\ call.ses = session)
         /\ NextPc = "runEvent" => call.pc = "event"
         /\ NextPc \in Written <=> call.pc # "message"
         /\ NextPc = "return" => call.pc \in {"event", "runEvent"}
<1>1. /\ call.pc \in {"message", "run", "session", "event", "runEvent"}
      /\ call.pc = "message" => call.op \in {"begin", "commit"}
  BY CallAdvances
<1>2. CASE call.pc = "message"
  <2>1. \/ call.op = "begin" /\ NextPc = "run"
        \/ /\ call.op = "commit"
           /\ NextPc = IF call.k + 1 < call.req.n THEN "message" ELSE "run"
    BY <1>1, <1>2 DEF NextPc, AfterMessages
  <2> QED
    BY <1>2, <2>1 DEF Written
<1>3. CASE call.pc = "run"
  BY <1>3 DEF NextPc, SessionOrEvents, Written
<1>4. CASE call.pc = "session"
  BY <1>4 DEF NextPc, Written
<1>5. CASE call.pc = "event"
  <2>1. NextPc \in {"return", "runEvent"}
    BY <1>5 DEF NextPc
  <2> QED
    BY <1>5, <2>1 DEF Written
<1>6. CASE call.pc = "runEvent"
  BY <1>6 DEF NextPc, Written
<1> QED
  BY <1>1, <1>2, <1>3, <1>4, <1>5, <1>6

(* Admission advances: the prompt is stored below the session's leaf       *)
(* before the run refers to it (begin_run).                                *)
LEMMA BeginAdvances ==
  ASSUME Agreed, Write PROVE Begins' /\ Admits' /\ Repairs'
<1>1. Admits' /\ CallAgrees
  BY CallAdvances DEF Agreed, Agreement, CallAgrees, Admits
<1>2. Repairs'
  <2>1. ~(call'.op = "repair" /\ call'.pc = "session")
    BY CallAdvances, NextPcFacts
  <2> QED
    BY <2>1 DEF Repairs
<1>3. ASSUME call'.op = "begin", call'.pc \in {"message", "run", "session"}
      PROVE  /\ session'.current = NoRun
             /\ call'.ses = [rev |-> session'.rev + 1, current |-> call'.id,
                             leaf |-> call'.run.cursor]
             /\ call'.run.cursor = Input(call'.run.request)
             /\ call'.run.status = "created" /\ call'.run.last = NoReq
             /\ call'.pc # "message"
             /\ call'.run.cursor \in LoggedIds'
             /\ BelowIn(log', session'.leaf, call'.run.cursor)
  <2>1. /\ call.op = "begin" /\ call'.pc = NextPc /\ call'.id = call.id
        /\ call'.run = call.run /\ call'.ses = call.ses
        /\ call.pc \in {"message", "run"}
        /\ call'.pc # "message"
    BY <1>3, CallAdvances, NextPcFacts
  <2>2. /\ session.current = NoRun /\ call.ses = BoundSession(call.id, call.run.cursor)
        /\ call.run.cursor = Input(call.run.request)
        /\ call.run.status = "created" /\ call.run.last = NoReq
        /\ call.pc # "message" => /\ call.run.cursor \in LoggedIds
                                  /\ Below(session.leaf, call.run.cursor)
    BY <1>1, <2>1 DEF CallAgrees, Begins
  <2>3. session' = session
    BY <2>1, CallAdvances DEF FileWrite, WriteMessage, WriteRun, WriteSession, WriteEvent,
                              WriteRunEvent
  <2>4. call.run.cursor \in LoggedIds' /\ BelowIn(log', session.leaf, call.run.cursor)
    <3>1. CASE call.pc = "run"
      <4>1. log' = log
        BY <3>1, CallAdvances DEF FileWrite, WriteMessage, WriteRun, WriteSession, WriteEvent,
                                  WriteRunEvent
      <4> QED
        BY <2>2, <3>1, <4>1 DEF Below, BelowIn, Chain, LoggedIds
    <3>2. CASE call.pc = "message"
      <4>1. WriteMessage /\ log' = log \cup {NextMessage}
        BY <3>2, CallAdvances DEF FileWrite, WriteMessage, WriteRun, WriteSession, WriteEvent,
                                  WriteRunEvent
      <4>2. NextMessage.id = call.run.cursor /\ NextMessage.parent = session.leaf
        BY <2>1, <3>2, NextMessageFacts
      <4>3. IsLog(log')
        <5>1. TypeOK' /\ ChainClosed'
          BY <4>1, TypedNext, FilesMessage DEF Agreed, Typed, FilesAgree, Next, Service
        <5> QED
          BY <5>1, NextLogFacts
      <4>4. NextMessage \in log'
        BY <4>1
      <4>5. BelowIn(log', session.leaf, session.leaf)
        BY ChainSelf
      <4>6. BelowIn(log', session.leaf, NextMessage.id)
        BY <4>2, <4>3, <4>4, <4>5, ChainStep
      <4> QED
        BY <4>2, <4>4, <4>6 DEF LoggedIds
    <3> QED
      BY <2>1, <3>1, <3>2
  <2> QED
    BY <2>1, <2>2, <2>3, <2>4 DEF BoundSession
<1>4. Begins'
  BY <1>3 DEF Begins, BoundSession, Below, BelowIn, Chain
<1> QED
  BY <1>1, <1>2, <1>4

(* A resume or a change of mode advances.                                  *)
LEMMA ResumeAdvances ==
  ASSUME Agreed, Write PROVE Resumes' /\ ChangesMode'
<1>1. CallAgrees
  BY DEF Agreed, Agreement
<1>2. ASSUME call'.op = "resume"
      PROVE  /\ session' = call'.ses /\ session'.current = call'.id
             /\ view'.current = call'.id /\ call'.pc # "run"
  <2>1. /\ session = call.ses /\ session.current = call.id /\ view.current = call.id
        /\ call.op = "resume"
    BY <1>1, <1>2, CallAdvances DEF CallAgrees, Resumes
  <2>2. session' = session
    BY <2>1, CallAdvances DEF FileWrite, WriteMessage, WriteRun, WriteSession, WriteEvent,
                              WriteRunEvent
  <2> QED
    BY <2>1, <2>2, CallAdvances, NextPcFacts
<1>3. ~(call'.op = "mode" /\ call'.pc = "session")
  BY CallAdvances, NextPcFacts
<1> QED
  BY <1>2, <1>3 DEF Resumes, ChangesMode

(* Appending a message of a commit: its chain goes on to the next one.     *)
LEMMA CommitAdvances ==
  ASSUME Agreed, Write PROVE Commits'
<1> SUFFICES ASSUME call'.op = "commit", call'.pc \in Unwritten PROVE Commits'
  BY DEF Commits
<1>1. /\ call.op = "commit" /\ call.pc = "message" /\ WriteMessage
      /\ call'.k = call.k + 1 /\ call'.req = call.req /\ call'.id = call.id
      /\ call'.run = call.run /\ call'.ses = call.ses
      /\ call'.pc = "message" => call.k + 1 < call.req.n
      /\ call'.pc = "run" => ~(call.k + 1 < call.req.n)
  BY CallAdvances, NextPcFacts
     DEF Unwritten, FileWrite, WriteMessage, WriteRun, WriteSession, WriteEvent, WriteRunEvent
<1>2. /\ session' = session /\ runs' = runs /\ log' = log \cup {NextMessage}
  BY <1>1 DEF WriteMessage
<1>3. /\ CommitAccepted(call.req) /\ call.req.id.run = call.id /\ call.id \in RunIds
      /\ call.req \in CommitReqs
  BY <1>1, UnwrittenFacts DEF Unwritten
<1>4. call.run = CommittedRun(call.req) /\ call.ses = CommittedSession(call.req)
  BY <1>1 DEF Agreed, Agreement, CallAgrees, Commits, Unwritten
<1>5. /\ CommitAccepted(call.req)' /\ call'.run = CommittedRun(call.req)'
      /\ call'.ses = CommittedSession(call.req)'
  <2>1. CommitAccepted(call.req)'
    BY <1>1, <1>2, <1>3 DEF CommitAccepted, IsLive
  <2>2. /\ CommitCursor(call.req)' = CommitCursor(call.req)
        /\ MovesSession(call.req)' = MovesSession(call.req)
    BY <1>1, <1>2 DEF CommitCursor, MovesSession
  <2>3. /\ TargetRevision(call.req)' = TargetRevision(call.req)
        /\ NextCurrent(call.req)' = NextCurrent(call.req)
    BY <1>1, <2>2 DEF TargetRevision, NextCurrent
  <2>4. CommittedRun(call.req)' = CommittedRun(call.req)
    BY <1>1, <1>2, <2>2, <2>3 DEF CommittedRun
  <2>5. CommittedSession(call.req)' = CommittedSession(call.req)
    BY <1>1, <1>2, <2>2, <2>3 DEF CommittedSession
  <2> QED
    BY <1>1, <1>4, <2>1, <2>4, <2>5
<1>6. /\ call.k \in Nat /\ call.req.n \in Nat /\ call.k < call.req.n
      /\ NextMessage.id = Child(call.req.id, call.k)
      /\ BelowIn(log, runs[call.id].cursor, NextMessage.parent)
      /\ NextMessage.parent \in LoggedIds \cup {NoMsg}
  BY <1>1, NextMessageFacts DEF CommitReqs
<1>7. BelowIn(log', runs[call.id].cursor, Child(call.req.id, call.k))
  <2>1. TypeOK' /\ ChainClosed' /\ TypeOK /\ ChainClosed
    BY <1>1, TypedNext, FilesMessage
       DEF Agreed, Agreement, Typed, FilesAgree, Next, Service
  <2>2. BelowIn(log', runs[call.id].cursor, NextMessage.parent)
    BY <1>2, <1>6, <2>1, BelowGrows
  <2>3. NextMessage \in log'
    BY <1>2
  <2> QED
    BY <1>6, <2>1, <2>2, <2>3, NextLogFacts, ChainStep
<1>8. Child(call.req.id, call.k) \in LoggedIds'
  BY <1>2, <1>6 DEF LoggedIds
<1>9. CASE call'.pc = "message"
  <2>1. call'.k < call'.req.n /\ call'.k - 1 = call.k
    BY <1>1, <1>6, <1>9
  <2> QED
    BY <1>1, <1>2, <1>5, <1>7, <1>8, <1>9, <2>1 DEF Commits, Below, BelowIn, Chain
<1>10. CASE call'.pc = "run"
  <2>1. call.req.n # 0 /\ call.req.n - 1 = call.k
    BY <1>1, <1>6, <1>10
  <2>2. CommitCursor(call.req) = Child(call.req.id, call.k)
    BY <2>1 DEF CommitCursor
  <2>3. call.run.cursor = CommitCursor(call.req)
    <3>1. runs[call.req.id.run] \in RunRecs
      BY <1>3 DEF Agreed, Typed, TypeOK
    <3> HIDE DEF CommitCursor
    <3> QED
      BY <1>4, <3>1 DEF CommittedRun, RunRecs
  <2> QED
    BY <1>1, <1>2, <1>5, <1>7, <1>8, <1>10, <2>2, <2>3 DEF Commits, Below, BelowIn, Chain
<1> QED
  BY <1>9, <1>10 DEF Unwritten

(* Once run.json is written a commit only brings session.json up to it.    *)
LEMMA CommitWrites ==
  ASSUME Agreed, Write PROVE CommitWritten' /\ SessionWritten'
<1>1. CallAgrees /\ session \in SessionRecs /\ runs \in [RunIds -> RunRecs]
  BY DEF Agreed, Agreement, Typed, TypeOK
<1>2. CommitWritten'
  <2> SUFFICES ASSUME call'.op \in CommitOps, call'.pc \in Written PROVE CommitWritten'
    BY DEF CommitWritten
  <2>1. /\ call.op \in CommitOps /\ call.pc # "message" /\ call'.pc = NextPc
        /\ call'.req = call.req /\ call'.id = call.id
        /\ call'.run = call.run /\ call'.ses = call.ses
    BY CallAdvances, NextPcFacts
  <2>2. CASE call.pc = "run"
    <3>1. call.op = "commit" /\ WriteRun /\ session' = session
      BY <2>1, <2>2, CallAdvances DEF CommitOps, FileWrite, WriteMessage, WriteRun,
                                     WriteSession, WriteEvent, WriteRunEvent
    <3>2. /\ CommitAccepted(call.req) /\ call.req \in CommitReqs
          /\ session.current = call.id /\ session.rev = call.req.expected
          /\ call.req.id.run \in RunIds
      BY <2>2, <3>1, UnwrittenFacts DEF Unwritten
    <3>3. call.run = CommittedRun(call.req) /\ call.ses = CommittedSession(call.req)
      BY <1>1, <2>2, <3>1 DEF CallAgrees, Commits, Unwritten
    <3>4. /\ call.run.last = [req |-> call.req, target |-> TargetRevision(call.req)]
          /\ call.run.cursor = CommitCursor(call.req)
          /\ TargetRevision(call.req) \in Nat /\ session.rev \in Nat
      <4>1. runs[call.req.id.run] \in RunRecs
        BY <1>1, <3>2
      <4> HIDE DEF CommitCursor, TargetRevision
      <4> QED
        BY <1>1, <3>2, <3>3, <4>1, CommittedTypes
           DEF CommittedRun, RunRecs, SessionRecs, Agreed, Typed
    <3>5. call.run.last # NoReq
      <4>1. call.run.last \in [req : CommitReqs, target : Nat]
        BY <3>2, <3>4
      <4> QED
        BY <4>1, NullsAssumption
    <3>6. CASE MovesSession(call.req)
      <4>1. /\ call.ses = [rev |-> call.run.last.target, current |-> NextCurrent(call.req),
                           leaf |-> call.run.cursor]
            /\ call.run.last.target = session.rev + 1
        BY <3>2, <3>3, <3>4, <3>6 DEF CommittedSession, TargetRevision
      <4>2. call.ses # session /\ session.rev < call.run.last.target
        BY <3>4, <4>1
      <4>3. NextPc = "session"
        BY <2>2, <4>2 DEF NextPc, SessionOrEvents
      <4> QED
        BY <2>1, <3>1, <3>2, <3>4, <3>5, <4>1, <4>2, <4>3 DEF CommitWritten, NextCurrent
    <3>7. CASE ~MovesSession(call.req)
      <4>1. call.ses = session /\ call.run.last.target = session.rev
        BY <3>2, <3>3, <3>4, <3>7 DEF CommittedSession, TargetRevision
      <4>2. NextPc = "event"
        BY <2>2, <4>1 DEF NextPc, SessionOrEvents
      <4> QED
        BY <2>1, <3>1, <3>4, <3>5, <4>1, <4>2 DEF CommitWritten
    <3> QED
      BY <3>6, <3>7
  <2>3. CASE call.pc # "run"
    <3>1. call.pc \in Written /\ NextPc # "session"
      BY <2>1, <2>3, CallAdvances, NextPcFacts DEF Written
    <3>2. /\ call.run.last # NoReq /\ call.run.last.req = call.req
          /\ call.pc = "session" => call.ses.rev = call.run.last.target
          /\ call.pc # "session" => session.rev = call.run.last.target
      BY <1>1, <2>1, <3>1 DEF CallAgrees, CommitWritten
    <3>3. session'.rev = call.run.last.target
      BY <3>2, CallAdvances DEF FileWrite, WriteMessage, WriteRun, WriteSession, WriteEvent,
                                WriteRunEvent
    <3> QED
      BY <2>1, <3>1, <3>2, <3>3 DEF CommitWritten
  <2> QED
    BY <2>2, <2>3
<1>3. SessionWritten'
  <2>1. call'.pc = NextPc /\ call'.ses = call.ses /\ Event' = Event
    BY CallAdvances
  <2>2. NextPc \in {"event", "runEvent", "return"} => session' = call.ses
    BY <1>1, CallAdvances, NextPcFacts
       DEF CallAgrees, SessionWritten, FileWrite, WriteMessage, WriteRun, WriteSession,
           WriteEvent, WriteRunEvent
  <2>3. NextPc = "runEvent" => Event \in sessionEvents'
    BY CallAdvances, NextPcFacts
       DEF FileWrite, WriteMessage, WriteRun, WriteSession, WriteEvent, WriteRunEvent
  <2> QED
    BY <2>1, <2>2, <2>3 DEF SessionWritten
<1> QED
  BY <1>2, <1>3

(* A successful write keeps the whole agreement.                           *)
LEMMA AgreementWrite ==
  ASSUME Agreed, Write PROVE Agreement'
<1>1. /\ FileWrite /\ view' = view /\ port' = port /\ CallAgrees /\ ProcessAgrees
      /\ call'.pc = NextPc /\ call'.op = call.op /\ call'.id = call.id
      /\ call'.req = call.req /\ call.op # "none" /\ NextPc \notin {"idle", "retry"}
  BY CallAdvances, NextPcFacts DEF Agreed, Agreement
<1>2. FilesAgree'
  BY <1>1, FilesWritten
<1>3. ProcessAgrees'
  BY <1>1, ShownWritten DEF ProcessAgrees, PortIsShown, PortIsFresh, PortCurrent
<1>4. CommitKeepsCurrent'
  <2>1. SUFFICES ASSUME call'.op \in CommitOps \/ call'.pc = "retry"
                 PROVE  CommitKeepsCurrent'
    BY DEF CommitKeepsCurrent, InCommit
  <2>2. call.op \in CommitOps
    BY <1>1, <2>1
  <2>3. CommitKeepsCurrent /\ InCommit
    BY <1>1, <2>2 DEF CallAgrees, InCommit
  <2> QED
    BY <1>1, <2>2, <2>3, CommitKeepsNaming DEF CommitKeepsCurrent
<1>5. OwnMessages'
  <2>1. SUFFICES ASSUME call'.op \in CommitOps, call.req.n # 0,
                        runs'[call.req.id.run].rev = call.req.id.rev,
                        NEW m \in log', m.id[1] = call.req.id
                 PROVE  m = CommitMessage(call.req, m.id[2])' \/ (port # NoPort /\ port.run.prepared)
    BY <1>1 DEF OwnMessages, InCommit, CommitMessage
  <2> QED
    BY <1>1, <2>1, OwnMessagesWritten DEF CommitMessage
<1>6. WrittenIsFresh'
  <2>1. SUFFICES ASSUME call.op \notin {"none", "mode"}, call.pc # "message"
                 PROVE  ~Leftover(call.id)'
    BY <1>1, NextPcFacts DEF WrittenIsFresh
  <2>2. call.id \in RunIds
    BY <2>1 DEF Agreed, Typed, CallShape
  <2>3. \A r \in RunIds : r = call.id => ~Leftover(r)'
    BY <1>1, <2>1, FreshWritten
  <2> QED
    BY <1>1, <2>2, <2>3 DEF Leftover
<1>7. Retries'
  BY <1>1 DEF Retries
<1>8. CallAgrees'
  BY <1>4, <1>5, <1>6, <1>7, BeginAdvances, ResumeAdvances, CommitAdvances, CommitWrites
     DEF CallAgrees
<1> QED
  BY <1>2, <1>3, <1>8 DEF Agreement

-----------------------------------------------------------------------------
(* Errors *)

(* When a call is given up or is over, nothing is left to agree about.     *)
LEMMA CallOver ==
  ASSUME call' = Idle PROVE CallAgrees'
<1>1. call'.op = "none" /\ call'.pc = "idle"
  BY DEF Idle
<1> QED
  BY <1>1 DEF CallAgrees, Begins, Admits, Repairs, Resumes, ChangesMode, Commits, CommitOps,
              CommitWritten, SessionWritten, CommitKeepsCurrent, InCommit, OwnMessages,
              WrittenIsFresh, Retries, Written

(* A run with leftovers stays shown when the coordinator reads the files.  *)
LEMMA ShownKept ==
  ASSUME Agreed, UNCHANGED disk, view' = view \/ view' = session
  PROVE  LeftoverIsShown' /\ FilesAgree'
<1>1. LeftoverIsShown
  BY DEF Agreed, Agreement, ProcessAgrees
<1>2. LeftoverIsShown'
  BY <1>1 DEF LeftoverIsShown, disk, Leftover, IsLive
<1> QED
  BY <1>2, FilesKept DEF Agreed, Agreement

(* A process without an executing run agrees with its files.               *)
LEMMA NoPortAgrees ==
  ASSUME port' = NoPort PROVE PortIsShown' /\ PortIsFresh' /\ PortCurrent'
  BY DEF PortIsShown, PortIsFresh, PortCurrent

(* Giving a call up keeps the agreement (_execute_prepared_run).           *)
LEMMA AgreementAbandon ==
  ASSUME Agreed, Abandon, UNCHANGED disk PROVE Agreement'
  BY CallOver, ShownKept, NoPortAgrees DEF Abandon, Agreement, ProcessAgrees

(* After an error the same commit is still acceptable, or run.json says    *)
(* that it was made (_repeat_commit_receipt).                              *)
LEMMA RetryAccepted ==
  ASSUME Agreed, Fault, call.retry
  PROVE  Retries'
<1>1. /\ call'.pc = "retry" /\ call'.req = call.req /\ call.op \in CommitOps
      /\ call.req \in CommitReqs /\ call.req.id.run = call.id /\ call.id \in RunIds
      /\ runs \in [RunIds -> RunRecs] /\ session \in SessionRecs /\ CallAgrees
      /\ session.rev \in Nat
  <2>1. call'.pc = "retry" /\ call'.req = call.req
    BY DEF Fault, Idle, Agreed, Typed, TypeOK, Calls
  <2>2. call.op \in CommitOps /\ call.id \in RunIds
    BY DEF Fault, Agreed, Typed, TypeOK, CallShape, Lifecycle, CallOfHandler, PortFollowsRun,
           CommitOps
  <2>21. call.req \in CommitReqs /\ call.req.id.run = call.id
    BY <2>2 DEF Agreed, Typed, TypeOK, CallShape, Lifecycle, CallOfHandler
  <2>3. runs \in [RunIds -> RunRecs] /\ session \in SessionRecs /\ CallAgrees
    BY DEF Agreed, Agreement, Typed, TypeOK
  <2>4. session.rev \in Nat
    BY <2>3 DEF SessionRecs
  <2> QED
    BY <2>1, <2>2, <2>21, <2>3, <2>4
<1> DEFINE req == call.req
           id == call.id
<1>2. SUFFICES /\ \/ /\ runs'[id].last # NoReq /\ runs'[id].last.req = req
                     /\ session'.rev <= runs'[id].last.target
                     /\ session'.current = id \/ session'.rev = runs'[id].last.target
                  \/ /\ ~(runs'[id].last # NoReq /\ runs'[id].last.req.id = req.id)
                     /\ CommitAccepted(req)'
  BY <1>1 DEF Retries, Accepted, IsRepeat, RepeatAccepted
<1>3. CASE call.op = "commit" /\ call.pc \in Unwritten /\ runs' = runs
  <2>1. CommitAccepted(req) /\ ~IsRepeat(req)
    BY <1>3, UnwrittenFacts
  <2>2. session' = session
    BY <1>3 DEF Fault, FileWrite, WriteMessage, WriteRun, WriteSession, WriteEvent,
                WriteRunEvent, Unwritten, disk
  <2>3. CommitAccepted(req)'
    BY <1>1, <1>3, <2>1, <2>2 DEF CommitAccepted, IsLive
  <2>4. ~(runs'[id].last # NoReq /\ runs'[id].last.req.id = req.id)
    BY <1>1, <1>3, <2>1 DEF IsRepeat
  <2> QED
    BY <2>3, <2>4
<1>4. CASE call.op = "commit" /\ WriteRun
  <2>1. /\ call.pc = "run" /\ session' = session
        /\ runs' = [runs EXCEPT ![id] = call.run]
    BY <1>4 DEF WriteRun
  <2>2. /\ CommitAccepted(req) /\ session.current = id /\ session.rev = req.expected
        /\ call.run = CommittedRun(req)
    BY <1>1, <1>4, <2>1, UnwrittenFacts DEF Unwritten, CallAgrees, Commits
  <2>3. /\ runs'[id].last = [req |-> req, target |-> TargetRevision(req)]
        /\ TargetRevision(req) \in Nat
    <3>1. runs[req.id.run] \in RunRecs /\ runs'[id] = CommittedRun(req)
      BY <1>1, <2>1, <2>2
    <3>2. TargetRevision(req) \in Nat
      BY <1>1, CommittedTypes DEF Agreed, Typed
    <3>3. CommittedRun(req).last = [req |-> req, target |-> TargetRevision(req)]
      BY <3>1 DEF CommittedRun, RunRecs
    <3> QED
      BY <3>1, <3>2, <3>3
  <2>4. runs'[id].last # NoReq
    <3>1. runs'[id].last \in [req : CommitReqs, target : Nat]
      BY <1>1, <2>3
    <3> QED
      BY <3>1, NullsAssumption
  <2>5. session.rev <= TargetRevision(req)
    BY <1>1, <2>2 DEF TargetRevision
  <2> QED
    BY <2>1, <2>2, <2>3, <2>4, <2>5
<1>5. CASE call.pc \in Written
  <2>1. runs' = runs /\ runs[id] = call.run
    BY <1>1, <1>5 DEF Fault, FileWrite, WriteMessage, WriteRun, WriteSession, WriteEvent,
                      WriteRunEvent, Written, disk, Agreed, Lifecycle, CallWritesSuccessor,
                      CommitOps
  <2>2. /\ call.run.last # NoReq /\ call.run.last.req = req
        /\ call.run.last.target \in Nat
        /\ call.pc = "session" => /\ session.current = id
                                  /\ session.rev < call.run.last.target
                                  /\ call.ses.rev = call.run.last.target
        /\ call.pc # "session" => session.rev = call.run.last.target
    <3>1. call.run.last # NoReq => call.run.last.target \in Nat
      BY <1>1, <2>1 DEF RunRecs
    <3> QED
      BY <1>1, <1>5, <3>1 DEF CallAgrees, CommitWritten
  <2>3. session' = session \/ (call.pc = "session" /\ session' = call.ses)
    BY <1>5 DEF Fault, FileWrite, WriteMessage, WriteRun, WriteSession, WriteEvent,
                WriteRunEvent, disk
  <2>4. /\ session'.rev <= call.run.last.target
        /\ session'.current = id \/ session'.rev = call.run.last.target
    BY <1>1, <2>2, <2>3
  <2> QED
    BY <2>1, <2>2, <2>4
<1> QED
  <2>1. call.pc \in Unwritten \cup Written
    BY DEF Fault, FileWrite, WriteMessage, WriteRun, WriteSession, WriteEvent, WriteRunEvent,
           Unwritten, Written
  <2>2. call.pc \in Unwritten => call.op = "commit"
    BY <1>1 DEF Unwritten, Agreed, Typed, CallShape, CommitOps
  <2>3. runs' = runs \/ WriteRun
    BY DEF Fault, FileWrite, WriteMessage, WriteRun, WriteSession, WriteEvent, WriteRunEvent,
           disk
  <2> QED
    BY <1>3, <1>4, <1>5, <2>1, <2>2, <2>3

(* An OSError keeps the agreement, before or after the write took effect   *)
(* (RuntimeSessionStateAdapter.commit).                                    *)
LEMMA AgreementFault ==
  ASSUME Agreed, Fault PROVE Agreement'
<1>1. view' = view /\ CallAgrees /\ ProcessAgrees
  BY DEF Fault, Abandon, volatile, Agreed, Agreement
<1>2. FilesAgree' /\ LeftoverIsShown'
  <2>1. CASE FileWrite
    BY <1>1, <2>1, FilesWritten, ShownWritten
  <2>2. CASE UNCHANGED disk
    BY <1>1, <2>2, ShownKept
  <2> QED
    BY <2>1, <2>2 DEF Fault
<1>3. CASE ~call.retry
  <2>1. call' = Idle /\ port' = NoPort
    BY <1>3 DEF Fault, Abandon
  <2> QED
    BY <1>2, <2>1, CallOver, NoPortAgrees DEF Agreement, ProcessAgrees
<1>4. CASE call.retry
  <2>1. /\ call'.op = "none" /\ call'.pc = "retry" /\ call'.req = call.req /\ port' = port
        /\ call.op \in CommitOps /\ call.req.id.run = call.id /\ call.id \in RunIds
    BY <1>4 DEF Fault, Idle, volatile, Agreed, Typed, CallShape, Lifecycle, CallOfHandler,
                PortFollowsRun, CommitOps
  <2>2. ProcessAgrees'
    BY <1>1, <1>2, <2>1 DEF ProcessAgrees, PortIsShown, PortIsFresh, PortCurrent
  <2>3. CommitKeepsCurrent'
    <3>1. CommitKeepsCurrent /\ InCommit
      BY <1>1, <2>1 DEF CallAgrees, InCommit
    <3>2. call.req.kind # "terminal" => session'.current = call.req.id.run
      BY <2>1, <3>1, CommitKeepsNaming DEF Fault, disk, CommitKeepsCurrent
    <3> QED
      BY <1>1, <2>1, <3>1, <3>2 DEF CommitKeepsCurrent
  <2>4. OwnMessages'
    <3>1. SUFFICES ASSUME call.req.n # 0, runs'[call.req.id.run].rev = call.req.id.rev,
                          NEW m \in log', m.id[1] = call.req.id
                   PROVE  \/ m = CommitMessage(call.req, m.id[2])'
                          \/ port # NoPort /\ port.run.prepared
      BY <2>1 DEF OwnMessages, InCommit, CommitMessage
    <3>2. CASE FileWrite
      BY <2>1, <3>1, <3>2, OwnMessagesWritten DEF CommitMessage
    <3>3. CASE UNCHANGED disk
      <4>1. runs' = runs /\ m \in log
        BY <3>3 DEF disk
      <4> QED
        BY <1>1, <2>1, <3>1, <4>1 DEF CallAgrees, OwnMessages, InCommit, CommitMessage
    <3> QED
      BY <3>2, <3>3 DEF Fault
  <2>5. WrittenIsFresh'
    <3>1. SUFFICES ASSUME runs'[call.id].rev # call.req.id.rev PROVE ~Leftover(call.req.id.run)'
      BY <2>1 DEF WrittenIsFresh, Leftover
    <3>2. call.pc \in {"message", "run"} => call.op = "commit"
      BY <2>1 DEF Agreed, Typed, CallShape, CommitOps
    <3>3. call.pc \in {"message", "run"} => runs[call.id].rev = call.req.id.rev
      BY <3>2, UnwrittenFacts DEF Unwritten
    <3>4. CASE FileWrite
      <4>1. call.pc # "message"
        BY <3>1, <3>3, <3>4 DEF FileWrite, WriteMessage, WriteRun, WriteSession, WriteEvent,
                                WriteRunEvent
      <4>2. \A r \in RunIds : r = call.id => ~Leftover(r)'
        BY <2>1, <3>4, <4>1, FreshWritten DEF CommitOps
      <4> QED
        BY <2>1, <4>2 DEF Leftover
    <3>5. CASE UNCHANGED disk /\ call.pc \in {"message", "run", "session", "event", "runEvent"}
      <4>1. runs' = runs /\ log' = log
        BY <3>5 DEF disk
      <4>2. call.pc \in Written
        BY <3>1, <3>3, <3>5, <4>1 DEF Written
      <4>3. ~Leftover(call.id)
        BY <1>1, <2>1, <4>2 DEF CallAgrees, WrittenIsFresh, CommitOps
      <4> QED
        BY <2>1, <4>1, <4>3 DEF Leftover
    <3> QED
      BY <3>4, <3>5 DEF Fault
  <2>6. /\ Begins' /\ Admits' /\ Repairs' /\ Resumes' /\ ChangesMode' /\ Commits'
        /\ CommitWritten' /\ SessionWritten'
    BY <2>1 DEF Begins, Admits, Repairs, Resumes, ChangesMode, Commits, CommitWritten,
                SessionWritten, CommitOps
  <2>7. CallAgrees'
    BY <1>4, <2>3, <2>4, <2>5, <2>6, RetryAccepted DEF CallAgrees
  <2> QED
    BY <1>2, <2>2, <2>7 DEF Agreement
<1> QED
  BY <1>3, <1>4

-----------------------------------------------------------------------------
(* Calls that start *)

\* The request may be made now, or repeats the run's last commit.
Startable(req) ==
  /\ ~IsRepeat(req) => CommitAccepted(req)
  /\ IsRepeat(req) =>
       /\ RepeatAccepted(req) /\ ~Leftover(req.id.run)
       /\ session.current = req.id.run \/ session.rev = runs[req.id.run].last.target
  /\ req.kind = "terminal" <=> req.id.tag \in {"terminal", "plan_terminal"}
  /\ req.kind = "terminal" <=> req.status \in Outcomes
  /\ req.kind # "terminal" => session.current = req.id.run

\* What the log has under the request's id are the request's messages.
Owns(req, prepared) ==
  req.n # 0 /\ runs[req.id.run].rev = req.id.rev =>
    \A m \in log : m.id[1] = req.id => m = CommitMessage(req, m.id[2]) \/ prepared

(* Entering commit_run_boundary with a request that is acceptable, or that *)
(* repeats the run's last commit.                                          *)
LEMMA CommitStarts ==
  ASSUME Agreed, NEW req \in CommitReqs, NEW retry \in BOOLEAN, NEW agenda \in SUBSET Agenda,
         call' = CommitCall(req, retry, agenda), UNCHANGED disk,
         view'.current = req.id.run,
         Startable(req), Owns(req, port' # NoPort /\ port'.run.prepared)
  PROVE  CallAgrees' /\ call'.pc # "idle"
<1> DEFINE id == req.id.run
<1>1. /\ call'.op \in {"commit", "repeat"} /\ call'.pc \in {"message", "run", "session", "event"}
      /\ call'.pc \in {"message", "run"} => call'.op = "commit"
      /\ call'.req = req /\ call'.id = id /\ id \in RunIds
  BY CommitCallType DEF Agreed, Typed
<1>2. session' = session /\ runs' = runs /\ log' = log
  BY DEF disk
<1>3. /\ call'.op = "repeat" =>
           /\ IsRepeat(req) /\ call'.run = runs[id] /\ call'.ses = RecoveredSession(req)
           /\ call'.pc = SessionOrEvents(RecoveredSession(req))
      /\ call'.op = "commit" =>
           /\ ~IsRepeat(req) /\ call'.run = CommittedRun(req)
           /\ call'.ses = CommittedSession(req) /\ call'.k = 0
           /\ call'.pc = AfterMessages(0, req)
  <2> HIDE DEF id
  <2>1. id = req.id.run
    BY DEF id
  <2>2. CASE IsRepeat(req)
    BY <2>1, <2>2 DEF CommitCall
  <2>3. CASE ~IsRepeat(req)
    BY <2>1, <2>3 DEF CommitCall
  <2> QED
    BY <2>2, <2>3
<1>4. /\ session \in SessionRecs /\ session.rev \in Nat /\ runs[id] \in RunRecs
      /\ req.n \in Nat /\ FilesAgree /\ ChainClosed
  BY <1>1 DEF Agreed, Agreement, Typed, TypeOK, FilesAgree, SessionRecs, CommitReqs
<1>5. Begins' /\ Admits' /\ Repairs' /\ Resumes' /\ ChangesMode' /\ Retries'
  BY <1>1 DEF Begins, Admits, Repairs, Resumes, ChangesMode, Retries
<1>6. Commits'
  <2> SUFFICES ASSUME call'.op = "commit" PROVE Commits'
    BY DEF Commits
  <2>1. /\ CommitAccepted(req) /\ call'.run = CommittedRun(req)
        /\ call'.ses = CommittedSession(req)
        /\ call'.pc = AfterMessages(0, req) /\ call'.k = 0
    BY <1>3 DEF Startable
  <2>2. /\ CommitAccepted(call.req)' /\ call'.run = CommittedRun(call.req)'
        /\ call'.ses = CommittedSession(call.req)'
    <3>1. CommitAccepted(call.req)'
      BY <1>1, <1>2, <2>1 DEF CommitAccepted, IsLive
    <3>2. CommitCursor(call.req)' = CommitCursor(req) /\ MovesSession(call.req)' = MovesSession(req)
      BY <1>1, <1>2 DEF CommitCursor, MovesSession
    <3>3. TargetRevision(call.req)' = TargetRevision(req) /\ NextCurrent(call.req)' = NextCurrent(req)
      BY <1>1, <3>2 DEF TargetRevision, NextCurrent
    <3>4. CommittedRun(call.req)' = CommittedRun(req)
      BY <1>1, <1>2, <3>2, <3>3 DEF CommittedRun
    <3>5. CommittedSession(call.req)' = CommittedSession(req)
      BY <1>1, <1>2, <3>2, <3>3 DEF CommittedSession
    <3> QED
      BY <2>1, <3>1, <3>4, <3>5
  <2>3. CASE 0 < req.n
    <3>1. call'.pc = "message"
      BY <2>1, <2>3 DEF AfterMessages
    <3> QED
      BY <1>1, <2>1, <2>2, <2>3, <3>1 DEF Commits
  <2>4. CASE ~(0 < req.n)
    <3>1. call'.pc = "run" /\ req.n = 0
      BY <1>4, <2>1, <2>4 DEF AfterMessages
    <3>2. call'.run.cursor = runs[id].cursor
      <4>1. CommitCursor(req) = runs[id].cursor
        BY <3>1 DEF CommitCursor
      <4> HIDE DEF CommitCursor
      <4> QED
        BY <1>4, <2>1, <4>1 DEF CommittedRun, RunRecs
    <3>3. runs[id].cursor \in LoggedIds \cup {NoMsg} /\ LoggedIds' = LoggedIds
      BY <1>1, <1>2, <1>4 DEF ChainClosed, LoggedIds
    <3>4. BelowIn(log, runs[id].cursor, runs[id].cursor)
      BY ChainSelf
    <3> QED
      BY <1>1, <1>2, <2>2, <3>1, <3>2, <3>3, <3>4 DEF Commits, Below, BelowIn, Chain
  <2> QED
    BY <2>3, <2>4
<1>7. CommitWritten' /\ SessionWritten'
  <2>1. CASE call'.op = "commit"
    <3>1. call'.pc \in {"message", "run"}
      BY <1>3, <2>1 DEF AfterMessages
    <3> QED
      BY <3>1 DEF CommitWritten, SessionWritten, Written
  <2>2. CASE call'.op = "repeat"
    <3>1. /\ runs[id].last # NoReq /\ runs[id].last.req = req
          /\ session.rev <= runs[id].last.target
          /\ session.current = id \/ session.rev = runs[id].last.target
          /\ runs[id].last.target \in Nat
      BY <1>3, <1>4, <2>2 DEF IsRepeat, RepeatAccepted, RunRecs, Startable
    <3>2. CASE session.rev < runs[id].last.target
      <4>1. /\ call'.ses = [rev |-> runs[id].last.target, current |-> NextCurrent(req),
                            leaf |-> runs[id].cursor]
            /\ session.current = id
        BY <1>3, <1>4, <2>2, <3>1, <3>2 DEF RecoveredSession
      <4>2. call'.ses # session
        BY <3>1, <3>2, <4>1, <1>4
      <4>3. call'.pc = "session"
        BY <1>3, <2>2, <4>2 DEF SessionOrEvents
      <4>4. NextCurrent(call.req)' = NextCurrent(req)
        BY <1>1 DEF NextCurrent
      <4> HIDE DEF NextCurrent
      <4> QED
        BY <1>1, <1>2, <1>3, <2>2, <3>1, <3>2, <4>1, <4>3, <4>4
           DEF CommitWritten, SessionWritten
    <3>3. CASE ~(session.rev < runs[id].last.target)
      <4>1. call'.ses = session /\ session.rev = runs[id].last.target
        BY <1>3, <1>4, <2>2, <3>1, <3>3 DEF RecoveredSession
      <4>2. call'.pc = "event"
        BY <1>3, <2>2, <4>1 DEF SessionOrEvents
      <4> QED
        BY <1>1, <1>2, <1>3, <2>2, <3>1, <4>1, <4>2 DEF CommitWritten, SessionWritten
    <3> QED
      BY <3>2, <3>3
  <2> QED
    BY <1>1, <2>1, <2>2
<1>8. CommitKeepsCurrent' /\ OwnMessages'
  BY <1>1, <1>2 DEF CommitKeepsCurrent, OwnMessages, InCommit, CommitMessage, Startable, Owns
<1>9. WrittenIsFresh'
  <2>1. call'.pc \in Written => call'.op = "repeat"
    BY <1>1, <1>3 DEF AfterMessages, Written
  <2>2. call'.op = "repeat" => ~Leftover(call.id)'
    BY <1>1, <1>2, <1>3 DEF Leftover, Startable
  <2> QED
    BY <1>1, <2>1, <2>2 DEF WrittenIsFresh
<1> QED
  BY <1>1, <1>5, <1>6, <1>7, <1>8, <1>9 DEF CallAgrees

(* Repeating the commit keeps the agreement                                *)
(* (RuntimeSessionStateAdapter.commit).                                    *)
LEMMA AgreementRetry ==
  ASSUME Agreed, Retry PROVE Agreement'
<1>1. /\ call.pc = "retry" /\ call.req \in CommitReqs /\ call' = CommitCall(call.req, FALSE, {})
      /\ UNCHANGED disk /\ view' = view /\ port' = port
      /\ CallAgrees /\ ProcessAgrees /\ InCommit /\ call.req.id.run \in RunIds
  BY DEF Retry, volatile, Agreed, Agreement, Typed, CallShape, InCommit, CommitReqs, CommitIds
<1>2. /\ Accepted(call.req)
      /\ IsRepeat(call.req) => \/ session.current = call.req.id.run
                               \/ session.rev = runs[call.req.id.run].last.target
  BY <1>1 DEF CallAgrees, Retries
<1>3. IsRepeat(call.req) => ~Leftover(call.req.id.run)
  <2>1. IsRepeat(call.req) => runs[call.req.id.run].rev # call.req.id.rev
    BY <1>1, NotRepeated DEF Agreed
  <2> QED
    BY <1>1, <2>1 DEF CallAgrees, WrittenIsFresh
<1>4. Startable(call.req)
  BY <1>1, <1>2, <1>3 DEF Accepted, CallAgrees, CommitKeepsCurrent, Startable
<1>5. /\ view'.current = call.req.id.run
      /\ Owns(call.req, port' # NoPort /\ port'.run.prepared)
  BY <1>1 DEF CallAgrees, CommitKeepsCurrent, OwnMessages, Owns
<1>6. CallAgrees' /\ call'.pc # "idle"
  <2>1. FALSE \in BOOLEAN /\ {} \in SUBSET Agenda
    OBVIOUS
  <2> QED
    BY <1>1, <1>4, <1>5, <2>1, CommitStarts
<1>7. ProcessAgrees' /\ FilesAgree'
  BY <1>1, <1>6, ShownKept DEF ProcessAgrees, PortIsShown, PortIsFresh, PortCurrent
<1> QED
  BY <1>6, <1>7 DEF Agreement

(* A new request of a run at the revision that the run has.                *)
LEMMA NewRequest ==
  ASSUME Agreed, NEW req \in CommitReqs, req.id.rev = runs[req.id.run].rev, Accepted(req),
         req.kind = "terminal" <=> req.id.tag \in {"terminal", "plan_terminal"},
         req.kind = "terminal" <=> req.status \in Outcomes
  PROVE  Startable(req) /\ CommitAccepted(req) /\ session.current = req.id.run
<1>1. ~IsRepeat(req)
  <2>1. req.id.run \in RunIds
    BY DEF CommitReqs, CommitIds
  <2> QED
    BY <2>1, NotRepeated DEF Agreed
<1>2. CommitAccepted(req)
  BY <1>1 DEF Accepted
<1>3. session.current = req.id.run
  BY <1>2 DEF CommitAccepted
<1> QED
  BY <1>1, <1>2, <1>3 DEF Startable

(* The messages of a run without leftovers are not those of its next       *)
(* commit.                                                                 *)
LEMMA NothingToOwn ==
  ASSUME NEW req \in CommitReqs, NEW prepared,
         Leftover(req.id.run) /\ req.id.rev = runs[req.id.run].rev => prepared
  PROVE  Owns(req, prepared)
  BY DEF Owns, Leftover, CommitReqs

(* A cancellation before the repetition keeps the agreement: what the      *)
(* gateway commits instead is not taken for a repetition                   *)
(* (_execute_prepared_run).                                                *)
LEMMA AgreementCancelRetry ==
  ASSUME Agreed, CancelRetry PROVE Agreement'
<1> DEFINE req == TerminalRequest(port.id, port.run, port.ses, "terminal", "cancelled", 0,
                                  AnyBody)
<1>1. UNCHANGED disk /\ CallAgrees /\ ProcessAgrees
  BY DEF CancelRetry, Agreed, Agreement
<1>2. CASE Abandon
  BY <1>1, <1>2, AgreementAbandon
<1>3. CASE Accepted(req) /\ call' = CommitCall(req, TRUE, {}) /\ UNCHANGED volatile
  <2>1. /\ call.pc = "retry" /\ call.req.kind # "terminal" /\ call.req \in CommitReqs
        /\ port # NoPort /\ port.id \in RunIds /\ port.run \in RunRecs
        /\ port.ses \in SessionRecs /\ port.run.rev \in Nat
        /\ call.req.id.run = port.id /\ call.req.id.rev = port.run.rev
        /\ runs[port.id] = port.run \/ runs[port.id].rev = port.run.rev + 1
        /\ view' = view /\ port' = port
    BY <1>3 DEF CancelRetry, Agreed, Typed, TypeOK, CallShape, Ports, Lifecycle, PortFollowsRun,
                RunRecs, volatile
  <2>2. /\ "terminal" \in CommitTags /\ "cancelled" \in Status /\ 0 \in Nat
        /\ "cancelled" \in Outcomes
    BY DEF CommitTags, Status, Outcomes
  <2>3. req \in CommitReqs
    BY <2>1, <2>2, TerminalRequestType, AnyBodyType
  <2>4. /\ req.id.run = port.id /\ req.id.rev = port.run.rev /\ req.id.tag = "terminal"
        /\ req.status = "cancelled" /\ req.kind = "terminal" /\ req.n = 0
    BY DEF TerminalRequest, Request
  <2> HIDE DEF req
  <2>5. ~IsRepeat(req)
    <3>1. CASE runs[port.id] = port.run
      BY <2>1, <2>4, <3>1, NotRepeated DEF Agreed
    <3>2. CASE runs[port.id].rev = port.run.rev + 1
      <4>1. Accepted(call.req) /\ ~CommitAccepted(call.req)
        BY <1>1, <2>1, <3>2 DEF CallAgrees, Retries, CommitAccepted
      <4>2. runs[port.id].last.req = call.req
        BY <2>1, <4>1 DEF Accepted, IsRepeat, RepeatAccepted
      <4>3. call.req.id.tag # "terminal"
        BY <1>1, <2>1 DEF CallAgrees, CommitKeepsCurrent, InCommit
      <4> QED
        BY <2>1, <2>4, <4>2, <4>3 DEF IsRepeat
    <3> QED
      BY <2>1, <3>1, <3>2
  <2>6. Startable(req) /\ view'.current = req.id.run
    <3>1. CommitAccepted(req) /\ session.current = req.id.run
      BY <1>3, <2>5 DEF Accepted, CommitAccepted
    <3> QED
      BY <1>1, <2>1, <2>2, <2>4, <2>5, <3>1 DEF Startable, ProcessAgrees, PortIsShown
  <2>7. Owns(req, port' # NoPort /\ port'.run.prepared)
    BY <2>4 DEF Owns
  <2>8. TRUE \in BOOLEAN /\ {} \in SUBSET Agenda
    OBVIOUS
  <2>9. CallAgrees' /\ call'.pc # "idle"
    BY <1>1, <1>3, <2>3, <2>6, <2>7, <2>8, CommitStarts
  <2>10. ProcessAgrees' /\ FilesAgree'
    BY <1>1, <2>1, <2>9, ShownKept DEF ProcessAgrees, PortIsShown, PortIsFresh, PortCurrent
  <2> QED
    BY <2>9, <2>10 DEF Agreement
<1> QED
  BY <1>2, <1>3 DEF CancelRetry

(* A crash keeps the agreement, and so does reopening the session          *)
(* (RuntimeSessionCoordinator.__init__).                                   *)
LEMMA AgreementReopenOrCrash ==
  ASSUME Agreed, Reopen \/ Crash PROVE Agreement'
<1>1. view' = session /\ port' = NoPort /\ UNCHANGED disk
  BY DEF Reopen, Crash, Quiet
<1>2. call' = Idle
  BY DEF Reopen, Crash, Quiet, Agreed, Lifecycle, CallOfHandler
<1> QED
  BY <1>1, <1>2, CallOver, ShownKept, NoPortAgrees DEF Agreement, ProcessAgrees

-----------------------------------------------------------------------------
(* Returns *)

(* A run that is attached with what the files say.                         *)
LEMMA AttachedAgrees ==
  ASSUME Agreed, UNCHANGED disk, call' = Idle, view' = view \/ view' = session,
         NEW r \in RunIds, port'.id = r, port'.run = runs[r], port'.ses = session,
         session.current = r, view'.current = r, Leftover(r) => port'.run.prepared
  PROVE  Agreement'
<1>1. session' = session /\ runs' = runs /\ log' = log
  BY DEF disk
<1>2. PortIsShown' /\ PortCurrent'
  BY <1>1 DEF PortIsShown, PortCurrent
<1>3. PortIsFresh'
  BY <1>1 DEF PortIsFresh, Leftover
<1> QED
  BY <1>2, <1>3, CallOver, ShownKept DEF Agreement, ProcessAgrees

(* What the files say when a call has written all of them.                 *)
LEMMA ReturnFacts ==
  ASSUME Agreed, call.pc = "return"
  PROVE  /\ session = call.ses /\ call.op # "none" /\ CallAgrees /\ ProcessAgrees
         /\ call.op \notin {"none", "mode"} =>
              /\ runs[call.id] = call.run /\ call.id \in RunIds /\ ~Leftover(call.id)
         /\ call.op \in CommitOps =>
              /\ call.req \in CommitReqs /\ call.req.id.run = call.id
              /\ view.current = call.id
              /\ call.req.id.tag \notin {"terminal", "plan_terminal"}
                   => session.current = call.id
<1>1. call.op # "none" /\ CallAgrees /\ ProcessAgrees
  BY DEF Agreed, Agreement, Typed, CallShape
<1>2. session = call.ses
  BY <1>1 DEF CallAgrees, SessionWritten
<1>3. call.op \notin {"none", "mode"} =>
        runs[call.id] = call.run /\ call.id \in RunIds /\ ~Leftover(call.id)
  BY <1>1 DEF Agreed, Typed, CallShape, Lifecycle, CallWritesSuccessor, CallAgrees,
              WrittenIsFresh, Written
<1>4. call.op \in CommitOps =>
        /\ call.req \in CommitReqs /\ call.req.id.run = call.id /\ view.current = call.id
        /\ call.req.id.tag \notin {"terminal", "plan_terminal"} => session.current = call.id
  BY <1>1 DEF Agreed, Typed, CallShape, Lifecycle, CallOfHandler, CommitOps, CallAgrees,
              CommitKeepsCurrent, InCommit
<1> QED
  BY <1>1, <1>2, <1>3, <1>4

(* Entering set_mode: the session gets its next revision.                  *)
LEMMA ModeStarts ==
  ASSUME Agreed, call' = ModeCall, UNCHANGED disk, view' = view \/ view' = session,
         port' = NoPort
  PROVE  Agreement'
<1>1. /\ call'.op = "mode" /\ call'.pc = "session"
      /\ call'.ses = [session EXCEPT !.rev = session.rev + 1]
  BY DEF ModeCall, Idle
<1>2. session' = session
  BY DEF disk
<1>3. CallAgrees'
  BY <1>1, <1>2 DEF CallAgrees, Begins, Admits, Repairs, Resumes, ChangesMode, Commits,
              CommitOps, CommitWritten, SessionWritten, CommitKeepsCurrent, InCommit,
              OwnMessages, WrittenIsFresh, Retries, Written
<1> QED
  BY <1>3, ShownKept, NoPortAgrees DEF Agreement, ProcessAgrees

(* The return of a call keeps the agreement (_commit_run, _prepare_run,    *)
(* _prepare_continuation).                                                 *)
LEMMA AgreementReturn ==
  ASSUME Agreed, Return PROVE Agreement'
<1>1. /\ call.pc = "return" /\ UNCHANGED disk /\ session = call.ses
      /\ CallAgrees /\ ProcessAgrees
      /\ call.op \notin {"none", "mode"} =>
           /\ runs[call.id] = call.run /\ call.id \in RunIds /\ ~Leftover(call.id)
      /\ call.op \in CommitOps =>
           /\ call.req \in CommitReqs /\ call.req.id.run = call.id
           /\ view.current = call.id
           /\ call.req.id.tag \notin {"terminal", "plan_terminal"}
                => session.current = call.id
  BY ReturnFacts DEF Return
<1>2. Attached.id = call.id /\ Attached.run = call.run /\ Attached.ses = call.ses
  BY DEF Attached
<1>3. call.run \in RunRecs /\ call.ses \in SessionRecs
  BY DEF Agreed, Typed, TypeOK, Calls
<1>4. ASSUME ReturnAdmission \/ ReturnInput PROVE Agreement'
  <2>1. /\ call.op \in {"begin", "repair", "commit"} /\ call' = Idle
        /\ port' = Attached /\ view' = call.ses
        /\ call.op = "commit" => call.req.id.tag = "continuation_input"
    BY <1>4 DEF ReturnAdmission, ReturnInput
  <2>2. session.current = call.id
    BY <1>1, <2>1 DEF CallAgrees, Admits, CommitOps
  <2>3. call.op \notin {"none", "mode"}
    BY <2>1
  <2> QED
    BY <1>1, <1>2, <2>1, <2>2, <2>3, AttachedAgrees
<1>5. ASSUME ReturnResume PROVE Agreement'
  <2>1. /\ call.op = "resume" /\ view' = call.ses /\ session.current = call.id
    BY <1>1, <1>5 DEF ReturnResume, CallAgrees, Resumes
  <2>2. CASE port' = Attached /\ call' = Idle
    BY <1>1, <1>2, <2>1, <2>2, AttachedAgrees
  <2>3. CASE /\ \E body \in Bodies : call' = CommitCall(InputRequest(body), FALSE, {})
             /\ UNCHANGED port
    <3>1. PICK body \in Bodies : call' = CommitCall(InputRequest(body), FALSE, {})
      BY <2>3
    <3> DEFINE req == InputRequest(body)
    <3>2. /\ "continuation_input" \in CommitTags /\ "progress" \in Kinds
          /\ "running" \in Status /\ "no" \in Waits /\ 1 \in Nat /\ FALSE \in BOOLEAN
          /\ "running" \notin Outcomes /\ "running" \in Live
      BY DEF CommitTags, Kinds, Status, Live, Waits, Outcomes
    <3>3. req \in CommitReqs
      BY <1>1, <1>3, <2>1, <3>2, RequestType DEF InputRequest
    <3>4. /\ req.id.run = call.id /\ req.id.rev = call.run.rev
          /\ req.id.tag = "continuation_input" /\ req.kind = "progress"
          /\ req.status = "running" /\ req.expected = session.rev
      BY <1>1 DEF InputRequest, Request
    <3>5. call.run.status = "running" /\ port = NoPort
      BY <2>1 DEF Agreed, Lifecycle, CallOfHandler
    <3> HIDE DEF req
    <3>6. CommitAccepted(req) /\ Startable(req)
      <4>1. CommitAccepted(req)
        BY <1>1, <2>1, <3>2, <3>4, <3>5 DEF CommitAccepted, IsLive
      <4>2. ~IsRepeat(req)
        BY <1>1, <2>1, <3>4, NotRepeated DEF Agreed
      <4> QED
        BY <2>1, <3>2, <3>4, <4>1, <4>2 DEF Startable
    <3>7. Owns(req, port' # NoPort /\ port'.run.prepared)
      BY <1>1, <2>1, <3>3, <3>4, NothingToOwn
    <3>8. {} \in SUBSET Agenda /\ call' = CommitCall(req, FALSE, {})
          /\ view'.current = req.id.run /\ port' = NoPort /\ view' = session
      BY <1>1, <2>1, <2>3, <3>1, <3>4, <3>5 DEF req
    <3>9. CallAgrees'
      BY <1>1, <3>2, <3>3, <3>6, <3>7, <3>8, CommitStarts
    <3> QED
      BY <1>1, <3>8, <3>9, ShownKept, NoPortAgrees DEF Agreement, ProcessAgrees
  <2> QED
    BY <1>5, <2>2, <2>3 DEF ReturnResume
<1>6. ASSUME ReturnBoundary PROVE Agreement'
  <2>1. /\ call.op \in CommitOps /\ call.req.id.tag = "progress" /\ call' = Idle
        /\ port' = [port EXCEPT !.run = call.run, !.ses = call.ses] /\ view' = view
    BY <1>6 DEF ReturnBoundary, CommitOps
  <2>2. /\ port \in Ports /\ port # NoPort /\ call.id = port.id
    BY <2>1 DEF Agreed, Typed, TypeOK, Lifecycle, CallOfHandler, Kinds
  <2>3. port'.id = call.id /\ port'.run = call.run /\ port'.ses = call.ses
    BY <2>1, <2>2 DEF Ports
  <2>4. session.current = call.id /\ view'.current = call.id /\ call.op \notin {"none", "mode"}
    BY <1>1, <2>1 DEF CommitOps
  <2> QED
    BY <1>1, <2>1, <2>3, <2>4, AttachedAgrees
<1>7. ASSUME ReturnPaused \/ ReturnMode PROVE Agreement'
  <2>1. view' = session /\ call' = Idle /\ port' = NoPort
    BY <1>1, <1>7 DEF ReturnPaused, ReturnMode, Agreed, Lifecycle, CallOfHandler
  <2> QED
    BY <1>1, <2>1, CallOver, ShownKept, NoPortAgrees DEF Agreement, ProcessAgrees
<1>8. ASSUME ReturnPlan PROVE Agreement'
  <2>1. /\ call.op = "commit" /\ call.req.id.tag \in {"core_command", "plan_terminal"}
        /\ port' = NoPort /\ view' = session
        /\ "plan_terminal" \in call.agenda => call.req.id.tag = "core_command"
        /\ call.req.id.tag = "core_command" => call.run.status = "running"
    BY <1>1, <1>8 DEF ReturnPlan, Agreed, Lifecycle, CallOfHandler, CommitOps, Kinds
  <2>2. CASE "plan_terminal" \in call.agenda
             /\ call' = CommitCall(PlanTerminal, FALSE, call.agenda \ {"plan_terminal"})
    <3> DEFINE req == PlanTerminal
    <3>1. /\ "plan_terminal" \in CommitTags /\ "cancelled" \in Status /\ 0 \in Nat
          /\ "cancelled" \in Outcomes /\ "running" \in Live
      BY DEF CommitTags, Status, Outcomes, Live
    <3>2. /\ call.id \in RunIds /\ runs[call.id] = call.run /\ session.current = call.id
          /\ call.run.status = "running"
      BY <1>1, <2>1, <2>2 DEF CommitOps
    <3>3. req \in CommitReqs
      BY <1>3, <3>1, <3>2, TerminalRequestType, AnyBodyType DEF PlanTerminal
    <3>4. /\ req.id.run = call.id /\ req.id.rev = call.run.rev
          /\ req.id.tag = "plan_terminal" /\ req.kind = "terminal"
          /\ req.status = "cancelled" /\ req.expected = session.rev /\ req.n = 0
      BY <1>1 DEF PlanTerminal, TerminalRequest, Request
    <3> HIDE DEF req
    <3>5. Startable(req)
      <4>1. CommitAccepted(req)
        BY <3>1, <3>2, <3>4 DEF CommitAccepted, IsLive
      <4>2. ~IsRepeat(req)
        BY <3>2, <3>4, NotRepeated DEF Agreed
      <4> QED
        BY <3>1, <3>4, <4>1, <4>2 DEF Startable
    <3>6. Owns(req, port' # NoPort /\ port'.run.prepared)
      BY <3>4 DEF Owns
    <3>7. /\ call.agenda \ {"plan_terminal"} \in SUBSET Agenda /\ FALSE \in BOOLEAN
          /\ call' = CommitCall(req, FALSE, call.agenda \ {"plan_terminal"})
          /\ view'.current = req.id.run
      BY <2>1, <2>2, <3>2, <3>4 DEF req, Agreed, Typed, TypeOK, Calls
    <3>8. CallAgrees'
      BY <1>1, <3>3, <3>5, <3>6, <3>7, CommitStarts
    <3> QED
      BY <1>1, <2>1, <3>8, ShownKept, NoPortAgrees DEF Agreement, ProcessAgrees
  <2>3. CASE call' = ModeCall
    BY <1>1, <2>1, <2>3, ModeStarts
  <2>4. CASE call' = Idle
    BY <1>1, <2>1, <2>4, CallOver, ShownKept, NoPortAgrees DEF Agreement, ProcessAgrees
  <2> QED
    BY <1>8, <2>2, <2>3, <2>4 DEF ReturnPlan
<1> QED
  BY <1>4, <1>5, <1>6, <1>7, <1>8 DEF Return

-----------------------------------------------------------------------------
(* Handlers *)

\* A handler that starts a call changes nothing but the call.
Starts == Quiet /\ UNCHANGED disk /\ UNCHANGED volatile

(* The files and the coordinator are as they were when a call starts.      *)
LEMMA QuietStarts ==
  ASSUME Agreed, Starts, CallAgrees'
  PROVE  Agreement'
<1>1. port' = NoPort /\ view' = view /\ UNCHANGED disk
  BY DEF Starts, Quiet, volatile
<1> QED
  BY <1>1, ShownKept, NoPortAgrees DEF Agreement, ProcessAgrees

(* Admitting a run keeps the agreement: nothing else is active and the     *)
(* prompt's message is new (begin_run).                                    *)
LEMMA AgreementBegin ==
  ASSUME Agreed, NEW q \in Requests, NEW r \in RunIds, Begin(q, r)
  PROVE  Agreement'
<1>1. /\ call'.op = "begin" /\ call'.pc = "message" /\ call'.id = r
      /\ call'.run = CreatedRun(q) /\ call'.ses = BoundSession(r, Input(q))
  BY DEF Begin, Idle
<1>2. /\ CreatedRun(q).cursor = Input(q) /\ CreatedRun(q).request = q
      /\ CreatedRun(q).status = "created" /\ CreatedRun(q).last = NoReq
  BY DEF CreatedRun, AbsentRun
<1>3. /\ session.current = NoRun /\ Input(q) \notin LoggedIds /\ Starts
      /\ session' = session /\ LoggedIds' = LoggedIds
      /\ BoundSession(r, Input(q)).current = r
      /\ BoundSession(r, Input(q))' = BoundSession(r, Input(q))
  BY DEF Begin, BeginAccepted, disk, LoggedIds, BoundSession, Starts
<1> HIDE DEF CreatedRun
<1>4. Begins' /\ Admits'
  BY <1>1, <1>2, <1>3 DEF Begins, Admits, BoundSession
<1>5. CallAgrees'
  BY <1>1, <1>4 DEF CallAgrees, Repairs, Resumes, ChangesMode, Commits, CommitOps,
                    CommitWritten, SessionWritten, CommitKeepsCurrent, InCommit,
                    OwnMessages, WrittenIsFresh, Retries, Written
<1> QED
  BY <1>3, <1>5, QuietStarts

(* Repeating or repairing an admission keeps the agreement: the run that   *)
(* is attached or bound has no leftovers (_reuse_begin_run).               *)
LEMMA AgreementReuse ==
  ASSUME Agreed, NEW q \in Requests, NEW r \in RunIds, Reuse(q, r)
  PROVE  Agreement'
<1>1. /\ Quiet /\ IsLive(runs[r]) /\ UNCHANGED disk /\ ~HasCheckpoint
      /\ r # NoRun /\ call = Idle /\ ProcessAgrees
  BY NoneAssumption DEF Reuse, Quiet, Agreed, Lifecycle, CallOfHandler, Agreement
<1>2. ~Leftover(r)
  BY <1>1 DEF ProcessAgrees, LeftoverIsShown, HasCheckpoint
<1>3. CASE /\ session.current = r /\ view' = session /\ UNCHANGED call
           /\ port' = [id |-> r, run |-> runs[r], ses |-> session, complete |-> TRUE]
  BY <1>1, <1>2, <1>3, AttachedAgrees
<1>4. CASE /\ session.current = NoRun /\ UNCHANGED volatile
           /\ call' = [Idle EXCEPT !.op = "repair", !.pc = "session", !.id = r,
                                   !.run = runs[r], !.ses = BoundSession(r, runs[r].cursor)]
  <2>1. /\ call'.op = "repair" /\ call'.pc = "session" /\ call'.id = r
        /\ call'.run = runs[r] /\ call'.ses = BoundSession(r, runs[r].cursor)
    BY <1>4 DEF Idle
  <2>2. session' = session /\ runs' = runs /\ log' = log /\ Starts
    BY <1>1, <1>4 DEF disk, Starts
  <2>3. Admits' /\ Repairs'
    BY <1>1, <1>4, <2>1, <2>2 DEF Admits, Repairs, BoundSession, IsLive
  <2>4. WrittenIsFresh'
    BY <1>2, <2>1, <2>2 DEF WrittenIsFresh, Leftover
  <2>5. CallAgrees'
    BY <2>1, <2>3, <2>4
       DEF CallAgrees, Begins, Resumes, ChangesMode, Commits, CommitOps, CommitWritten,
           SessionWritten, CommitKeepsCurrent, InCommit, OwnMessages, Retries
  <2> QED
    BY <2>2, <2>5, QuietStarts
<1> QED
  BY <1>3, <1>4 DEF Reuse

(* Resuming a run that was found recoverable.                              *)
LEMMA ResumeStarts ==
  ASSUME Agreed, NEW r \in RunIds, NEW prepared, NEW agenda, Recoverable(r), Starts,
         view.current = r, call' = ResumeCall(r, prepared, agenda)
  PROVE  Agreement'
<1>1. /\ call'.op = "resume" /\ call'.pc = "run" /\ call'.id = r
      /\ call'.run = ResumedRun(r, prepared) /\ call'.ses = session
  BY DEF ResumeCall, Idle
<1>2. /\ ResumedRun(r, prepared).cursor = runs[r].cursor
      /\ ResumedRun(r, prepared).last = runs[r].last
  BY DEF ResumedRun, Agreed, Typed, TypeOK, RunRecs
<1>3. /\ session' = session /\ runs' = runs /\ view' = view /\ session.current = r
  BY DEF Starts, disk, volatile, Recoverable
<1> HIDE DEF ResumedRun
<1>4. Resumes'
  BY <1>1, <1>2, <1>3 DEF Resumes
<1>5. CallAgrees'
  BY <1>1, <1>4
     DEF CallAgrees, Begins, Admits, Repairs, ChangesMode, Commits, CommitOps,
         CommitWritten, SessionWritten, CommitKeepsCurrent, InCommit, OwnMessages,
         WrittenIsFresh, Retries, Written
<1> QED
  BY <1>5, QuietStarts

(* Resuming with a prepared decision keeps the agreement (_prepare_resume).*)
LEMMA AgreementDecide ==
  ASSUME Agreed, NEW r \in RunIds, Decide(r) PROVE Agreement'
<1>1. /\ Recoverable(r) /\ Starts /\ view.current = r /\ call' = ResumeCall(r, TRUE, {})
  BY DEF Decide, Starts
<1> QED
  BY <1>1, ResumeStarts

(* Continuing a run keeps the agreement: a run that is attached without    *)
(* being resumed has a prepared tool resume (_prepare_continuation).       *)
LEMMA AgreementContinue ==
  ASSUME Agreed, NEW r \in RunIds, Continue(r) PROVE Agreement'
<1>1. /\ Quiet /\ view.current = r /\ Recoverable(r) /\ UNCHANGED disk
      /\ session.current = r /\ call = Idle
  BY DEF Continue, Recoverable, Quiet, Agreed, Lifecycle, CallOfHandler
<1>2. CASE /\ runs[r].prepared /\ view' = session /\ UNCHANGED call
           /\ port' = [id |-> r, run |-> runs[r], ses |-> session,
                       complete |-> session.leaf = runs[r].cursor]
  BY <1>1, <1>2, AttachedAgrees
<1>3. CASE /\ UNCHANGED volatile
           /\ call' = ResumeCall(r, FALSE, {}) \/ call' = ResumeCall(r, FALSE, {"input"})
  <2>1. Starts
    BY <1>1, <1>3 DEF Starts
  <2> QED
    BY <1>1, <1>3, <2>1, ResumeStarts
<1> QED
  BY <1>2, <1>3 DEF Continue

(* A commit of the executing run is made from what the files hold, and     *)
(* stores its messages for the first time, unless it repeats a prepared    *)
(* tool resume.                                                            *)
LEMMA AgreementPortCommit ==
  ASSUME Agreed, call.pc = "idle", port # NoPort, port.id \in RunIds,
         NEW req \in CommitReqs, req.id.run = port.id, req.id.rev = port.run.rev,
         req.kind = "terminal" <=> req.id.tag \in {"terminal", "plan_terminal"},
         req.kind = "terminal" <=> req.status \in Outcomes,
         Accepted(req), call' = CommitCall(req, TRUE, {}),
         UNCHANGED disk, UNCHANGED volatile
  PROVE  Agreement'
<1>1. /\ runs[port.id] = port.run /\ view.current = port.id /\ port' = port /\ view' = view
      /\ Leftover(port.id) => port.run.prepared
  BY DEF Agreed, Agreement, ProcessAgrees, PortIsShown, PortIsFresh, PortCurrent, volatile
<1>2. Startable(req)
  BY <1>1, NewRequest
<1>3. Owns(req, port' # NoPort /\ port'.run.prepared)
  BY <1>1, NothingToOwn
<1>4. TRUE \in BOOLEAN /\ {} \in SUBSET Agenda
  OBVIOUS
<1>5. CallAgrees' /\ call'.pc # "idle"
  BY <1>1, <1>2, <1>3, <1>4, CommitStarts
<1>6. ProcessAgrees' /\ FilesAgree'
  BY <1>1, <1>5, ShownKept DEF ProcessAgrees, PortIsShown, PortIsFresh, PortCurrent
<1> QED
  BY <1>5, <1>6 DEF Agreement

(* Starting a boundary commit keeps the agreement                          *)
(* (RuntimeSessionStateAdapter.commit).                                    *)
LEMMA AgreementCommitBoundary ==
  ASSUME Agreed, NEW n \in 0..MaxNew, NEW body \in Bodies, CommitBoundary(n, body)
  PROVE  Agreement'
<1>1. PICK step \in {[kind |-> "progress", status |-> "running", wait |-> "no"]}
                      \cup [kind : {"waiting"}, status : {"waiting"}, wait : Waits \ {"no"}] :
        LET req == Request(port.id, port.run, port.ses, step.kind, step.kind, step.status,
                           step.wait, n, body, FALSE, port.run.rollback)
        IN  Accepted(req) /\ call' = CommitCall(req, TRUE, {})
  BY DEF CommitBoundary
<1> DEFINE req == Request(port.id, port.run, port.ses, step.kind, step.kind, step.status,
                          step.wait, n, body, FALSE, port.run.rollback)
<1>2. /\ step.kind \in Kinds /\ step.kind \in CommitTags
      /\ step.status \in Status /\ step.wait \in Waits
      /\ step.kind \in {"progress", "waiting"} /\ step.status \notin Outcomes
  BY DEF Kinds, CommitTags, Status, Live, Waits, Outcomes
<1>3. /\ port # NoPort /\ port.id \in RunIds /\ port.run \in RunRecs
      /\ port.ses \in SessionRecs /\ port.run.rollback \in BOOLEAN /\ n \in Nat
  <2>1. port \in Ports /\ port # NoPort /\ port.id \in RunIds
    BY DEF CommitBoundary, Agreed, Typed, TypeOK, CallShape, Ports
  <2>2. port.run \in RunRecs /\ port.ses \in SessionRecs
    BY <2>1 DEF Ports
  <2>3. port.run.rollback \in BOOLEAN
    BY <2>2 DEF RunRecs
  <2>4. n \in Nat
    BY BoundsAssumption
  <2> QED
    BY <2>1, <2>2, <2>3, <2>4
<1>4. req \in CommitReqs
  BY <1>2, <1>3, RequestType
<1>5. /\ req.id.run = port.id /\ req.id.rev = port.run.rev /\ req.id.tag = step.kind
      /\ req.status = step.status /\ req.kind = step.kind
  BY DEF Request
<1>6. /\ Accepted(req) /\ call' = CommitCall(req, TRUE, {}) /\ UNCHANGED disk
      /\ UNCHANGED volatile /\ call.pc = "idle"
  BY <1>1 DEF CommitBoundary
<1> HIDE DEF req
<1> QED
  BY <1>2, <1>3, <1>4, <1>5, <1>6, AgreementPortCommit

(* Starting a terminal commit keeps the agreement (_commit_run).           *)
LEMMA AgreementCommitTerminal ==
  ASSUME Agreed, NEW n \in 0..MaxNew, NEW body \in Bodies, NEW status \in Outcomes,
         CommitTerminal(status, n, body)
  PROVE  Agreement'
<1> DEFINE req == TerminalRequest(port.id, port.run, port.ses, "terminal", status, n, body)
<1>1. /\ Accepted(req) /\ call' = CommitCall(req, TRUE, {}) /\ UNCHANGED disk
      /\ UNCHANGED volatile /\ call.pc = "idle"
  BY DEF CommitTerminal
<1>2. /\ port # NoPort /\ port.id \in RunIds /\ port.run \in RunRecs
      /\ port.ses \in SessionRecs /\ n \in Nat
      /\ status \in Status /\ "terminal" \in CommitTags
  BY BoundsAssumption DEF CommitTerminal, Agreed, Typed, TypeOK, CallShape, Ports, Status,
                          CommitTags
<1>3. req \in CommitReqs
  BY <1>2, TerminalRequestType
<1>4. /\ req.id.run = port.id /\ req.id.rev = port.run.rev /\ req.id.tag = "terminal"
      /\ req.status = status /\ req.kind = "terminal"
  BY DEF TerminalRequest, Request
<1> HIDE DEF req
<1> QED
  BY <1>1, <1>2, <1>3, <1>4, AgreementPortCommit

(* Starting a plan command keeps the agreement (_apply_plan_command).      *)
LEMMA AgreementPlanCommand ==
  ASSUME Agreed, NEW agenda \in SUBSET {"plan_terminal", "mode"}, PlanCommand(agenda)
  PROVE  Agreement'
<1> DEFINE r == view.current
           req == Request(r, runs[r], view, "core_command", "progress", "running", "no", 0,
                          AnyBody, runs[r].prepared, runs[r].rollback)
<1>1. call' = CommitCall(req, FALSE, agenda) /\ Accepted(req) /\ Starts
  BY DEF PlanCommand, Starts
<1>2. r \in RunIds /\ view \in SessionRecs
  BY DEF PlanCommand, HasCheckpoint, Agreed, Typed, TypeOK, SessionRecs
<1>3. runs[r] \in RunRecs /\ runs[r].prepared \in BOOLEAN /\ runs[r].rollback \in BOOLEAN
  BY <1>2 DEF Agreed, Typed, TypeOK, RunRecs
<1>4. /\ "core_command" \in CommitTags /\ "progress" \in Kinds
      /\ "running" \in Status /\ "no" \in Waits /\ "running" \notin Outcomes
  BY DEF CommitTags, Kinds, Status, Live, Waits, Outcomes
<1>5. req \in CommitReqs
  BY <1>2, <1>3, <1>4, RequestType, AnyBodyType
<1>6. /\ req.id.run = r /\ req.id.rev = runs[r].rev /\ req.id.tag = "core_command"
      /\ req.status = "running" /\ req.kind = "progress" /\ req.n = 0
  BY DEF Request
<1>7. agenda \in SUBSET Agenda /\ FALSE \in BOOLEAN
  BY DEF Agenda
<1>8. UNCHANGED disk /\ view'.current = r
  BY <1>1 DEF Starts, volatile
<1> HIDE DEF req, r
<1>9. Startable(req)
  BY <1>1, <1>4, <1>5, <1>6, NewRequest
<1>10. Owns(req, port' # NoPort /\ port'.run.prepared)
  BY <1>6 DEF Owns
<1>11. CallAgrees'
  BY <1>1, <1>5, <1>6, <1>7, <1>8, <1>9, <1>10, CommitStarts
<1> QED
  BY <1>1, <1>11, QuietStarts

(* Nothing that Agreement says changes when nothing it names does.         *)
LEMMA AgreementStutters ==
  ASSUME Agreement, session' = session, runs' = runs, log' = log,
         sessionEvents' = sessionEvents, runEvents' = runEvents,
         view' = view, port' = port, call' = call
  PROVE  Agreement'
<1>1. /\ session' = session /\ runs' = runs /\ log' = log /\ sessionEvents' = sessionEvents
      /\ runEvents' = runEvents /\ view' = view /\ port' = port /\ call' = call
  OBVIOUS
<1>2. FilesAgree'
  BY <1>1, FilesStay DEF Agreement
<1>3. ProcessAgrees'
  BY <1>1 DEF Agreement, ProcessAgrees, LeftoverIsShown, PortIsShown, PortIsFresh,
              PortCurrent, Leftover, IsLive
<1>4. Begins' /\ Admits' /\ Repairs' /\ Resumes' /\ ChangesMode'
  BY <1>1 DEF Agreement, CallAgrees, Begins, Admits, Repairs, Resumes, ChangesMode,
              BoundSession, LoggedIds, Below, Chain, IsLive
<1>5. Commits' /\ CommitWritten' /\ SessionWritten'
  BY <1>1 DEF Agreement, CallAgrees, Commits, CommitWritten, SessionWritten, CommitAccepted,
              CommittedRun, CommittedSession, MovesSession, CommitCursor, TargetRevision,
              NextCurrent, LoggedIds, Below, Chain, Event, IsLive
<1>6. CommitKeepsCurrent' /\ OwnMessages' /\ WrittenIsFresh' /\ Retries'
  BY <1>1 DEF Agreement, CallAgrees, CommitKeepsCurrent, OwnMessages, InCommit,
              CommitMessage, WrittenIsFresh, Retries, Leftover, Accepted, IsRepeat,
              RepeatAccepted, CommitAccepted, IsLive
<1> QED
  BY <1>2, <1>3, <1>4, <1>5, <1>6 DEF Agreement, CallAgrees

(* The start of any handler keeps the agreement.                           *)
LEMMA AgreementHandler ==
  ASSUME Agreed, Handler PROVE Agreement'
<1>1. ASSUME SetMode PROVE Agreement'
  <2>1. /\ call' = ModeCall /\ UNCHANGED disk /\ view' = view /\ port' = NoPort
    BY <1>1 DEF SetMode, Quiet, volatile
  <2> QED
    BY <2>1, ModeStarts
<1>2. ASSUME ChangeWorkspace PROVE Agreement'
  BY <1>2, AgreementStutters DEF ChangeWorkspace, volatile, Agreed
<1> QED
  BY <1>1, <1>2, AgreementReopenOrCrash, AgreementBegin, AgreementReuse, AgreementDecide,
     AgreementContinue, AgreementCommitBoundary, AgreementCommitTerminal,
     AgreementPlanCommand DEF Handler

-----------------------------------------------------------------------------
(* The invariant *)

(* A new session's files agree.                                            *)
LEMMA AgreementInit == Init => Agreement
<1> SUFFICES ASSUME Init PROVE Agreement
  OBVIOUS
<1>1. /\ log = {} /\ runs = [r \in RunIds |-> AbsentRun] /\ session = NewSession
      /\ sessionEvents = {} /\ runEvents = {} /\ port = NoPort /\ call = Idle
  BY DEF Init
<1>2. \A r \in RunIds : runs[r] = AbsentRun
  BY <1>1
<1>3. /\ AbsentRun.status = "absent" /\ AbsentRun.cursor = NoMsg /\ AbsentRun.last = NoReq
      /\ "absent" \notin Live /\ "absent" \notin Outcomes
      /\ NewSession.leaf = NoMsg /\ NewSession.current = NoRun
  BY DEF AbsentRun, Live, Outcomes, NewSession
<1>4. FilesAgree
  BY <1>1, <1>2, <1>3
     DEF FilesAgree, ChainClosed, MessageIdsUnique, LeafNotAhead, ReceiptMeansDurable,
         UnnamedRunIsFresh, TranscriptKept, CursorsExist, OutcomesAreCommitted,
         ReceiptsAreOfRuns, OrphanBelowLeaf, CommitsArePast, IsLive, IsTerminal
<1>5. ProcessAgrees
  BY <1>1, <1>2, <1>3
     DEF ProcessAgrees, LeftoverIsShown, PortIsShown, PortIsFresh, PortCurrent, IsLive
<1>6. CallAgrees
  BY <1>1
     DEF Idle, CallAgrees, Begins, Admits, Repairs, Resumes, ChangesMode, Commits,
         CommitOps, CommitWritten, SessionWritten, CommitKeepsCurrent, InCommit,
         OwnMessages, WrittenIsFresh, Retries
<1> QED
  BY <1>4, <1>5, <1>6 DEF Agreement

(* Every step keeps the agreement.                                         *)
LEMMA AgreementNext == Agreed /\ [Next]_vars => Agreement'
<1> SUFFICES ASSUME Agreed, [Next]_vars PROVE Agreement'
  OBVIOUS
<1>1. ASSUME MessageConflict PROVE Agreement'
  BY <1>1, AgreementAbandon DEF MessageConflict
<1>2. ASSUME UNCHANGED vars PROVE Agreement'
  BY <1>2, AgreementStutters DEF Agreed, vars
<1> QED
  BY <1>1, <1>2, AgreementHandler, AgreementWrite, AgreementRetry, AgreementCancelRetry,
     AgreementReturn, AgreementFault, AgreementReopenOrCrash DEF Next, Service

-----------------------------------------------------------------------------
(* What follows *)

(* The runs keep their lifecycle, and the files, the coordinator and the   *)
(* call in progress agree in every state, wherever crashes, errors and     *)
(* retries fall between the writes of begin_run, resume_run and            *)
(* commit_run_boundary.                                                    *)
THEOREM FilesStayInAgreement == Spec => []SessionInvariant
<1>1. Init => Agreed
  BY TypedInit, LifecycleInit, AgreementInit DEF Agreed
<1>2. Agreed /\ [Next]_vars => Agreed'
  BY TypedNext, LifecycleNext, AgreementNext DEF Agreed
<1>3. Agreed => SessionInvariant
  BY DEF Agreed, SessionInvariant
<1> QED
  BY <1>1, <1>2, <1>3, PTL DEF Spec

(* References only point to stored messages, each stored once, the leaf is *)
(* on the current run's branch, and a receipt announces what is durable,   *)
(* at every crash point of commit_run_boundary.                            *)
THEOREM FilesAlwaysConsistent == Spec => []FilesConsistent
<1>1. SessionInvariant => FilesConsistent
  BY DEF SessionInvariant, Agreement, FilesAgree, FilesConsistent
<1> QED
  BY <1>1, FilesStayInAgreement, PTL

(* No run that the session does not name has history to lose, and what a   *)
(* finished run committed stays in the chain of the session                *)
(* (_reuse_begin_run, load_message_chain).                                 *)
THEOREM HistoryIsKept == Spec => []HistoryKept
<1>1. TypeOK /\ SessionInvariant => HistoryKept
  BY DEF SessionInvariant, Agreement, FilesAgree, HistoryKept
<1> QED
  BY <1>1, TypeCorrect, FilesStayInAgreement, PTL

(* The message that a call appends clashes with none in the log, except    *)
(* when a prepared tool resume was attached again (_commit_child_id).      *)
LEMMA ConflictsAreReattached ==
  ASSUME Agreed PROVE ConflictOnlyOnReattach
<1> SUFFICES ASSUME call.pc = "message", Clashes(NextMessage)
             PROVE  port # NoPort /\ port.run.prepared
  BY DEF ConflictOnlyOnReattach
<1>1. PICK m \in log : m.id = NextMessage.id /\ m # NextMessage
  BY DEF Clashes, LoggedIds
<1>2. CASE call.op = "begin" /\ NextMessage.id = call.run.cursor
  BY <1>1, <1>2 DEF Agreed, Agreement, CallAgrees, Begins, LoggedIds
<1>3. CASE /\ call.op = "commit" /\ call.id = call.req.id.run
           /\ call.k \in Nat /\ call.k < call.req.n /\ CommitAccepted(call.req)
           /\ call.req \in CommitReqs
           /\ NextMessage = CommitMessage(call.req, call.k)
           /\ NextMessage.id[1] = call.req.id /\ NextMessage.id[2] = call.k
  <2>1. call.req.n # 0 /\ runs[call.req.id.run].rev = call.req.id.rev
    BY <1>3 DEF CommitAccepted, CommitReqs
  <2>2. m = CommitMessage(call.req, m.id[2]) \/ (port # NoPort /\ port.run.prepared)
    BY <1>1, <1>3, <2>1 DEF Agreed, Agreement, CallAgrees, OwnMessages, InCommit, CommitOps
  <2> QED
    BY <1>1, <1>3, <2>2
<1> QED
  BY <1>2, <1>3, NextMessageFacts

(* A commit may be repeated after any OSError: the adapter's revisions are *)
(* current, the repetition is accepted or recognised, and its messages     *)
(* clash with nothing but those of a prepared tool resume attached again   *)
(* (RuntimeSessionStateAdapter.commit, _repeat_commit_receipt).            *)
THEOREM RetriesAreSafe == Spec => []RetrySafe
<1>1. Typed /\ Lifecycle /\ SessionInvariant => RetrySafe
  <2> SUFFICES ASSUME Agreed PROVE RetrySafe
    BY DEF Agreed, SessionInvariant
  <2>1. PortCurrent /\ RetryNeverConflicts
    BY DEF Agreed, Agreement, ProcessAgrees, CallAgrees, Retries, RetryNeverConflicts
  <2> QED
    BY <2>1, ConflictsAreReattached DEF RetrySafe
<1> QED
  BY <1>1, LifecycleInvariant, FilesStayInAgreement, PTL

(* Every write of run.json is the run's next revision, and the transcript  *)
(* it ends in contains the one before (_checkpoint_run_state, resume_run,  *)
(* _terminal_run_state).                                                   *)
THEOREM TranscriptsOnlyExtend == Spec => RunsOnlyExtend
<1>1. ASSUME Typed, Lifecycle, SessionInvariant, [Next]_vars
      PROVE  [\A r \in RunIds : runs'[r] # runs[r] =>
                /\ runs'[r].rev = runs[r].rev + 1
                /\ runs[r].cursor = NoMsg \/ runs[r].cursor \in Chain(runs'[r].cursor)]_vars
  <2>1. CASE runs' = runs
    BY <2>1
  <2>2. CASE runs' # runs
    <3>1. WriteRun /\ Agreed
      BY <1>1, <2>2, RunsChangeByWriteRun DEF Agreed, SessionInvariant
    <3>2. /\ call.id \in RunIds /\ call.run \in RunRecs
          /\ runs' = [runs EXCEPT ![call.id] = call.run]
          /\ call.run.rev = runs[call.id].rev + 1
          /\ BelowIn(log, runs[call.id].cursor, call.run.cursor)
          /\ runs \in [RunIds -> RunRecs]
      BY <3>1, RunWrittenFacts DEF Agreed, Typed, TypeOK
    <3>3. \A r \in RunIds : runs'[r] # runs[r] => r = call.id /\ runs'[r] = call.run
      BY <3>2
    <3> QED
      BY <3>2, <3>3 DEF BelowIn, Chain
  <2> QED
    BY <2>1, <2>2
<1> QED
  BY <1>1, LifecycleInvariant, FilesStayInAgreement, PTL DEF Spec, RunsOnlyExtend
=============================================================================
