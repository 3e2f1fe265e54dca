---------------------------- MODULE SessionFiles ----------------------------
(***************************************************************************)
(* The inductive invariant behind the agreement of a session's files: what *)
(* every call has computed from the files it loaded is still true of them  *)
(* when it writes, whatever was cut off before (service.py, repository.py, *)
(* session_state_adapter.py).                                              *)
(***************************************************************************)
EXTENDS SessionLifecycle

\* x is in the message chain that ends in y, or there is no x.
Below(x, y) == x = NoMsg \/ x \in Chain(y)

\* Some message in the log belongs to a commit of the run as it is: a commit
\* that was cut off before it wrote run.json.
Leftover(r) ==
  \E m \in log : m.id[1] \in CommitIds /\ m.id[1].run = r /\ m.id[1].rev = runs[r].rev

-----------------------------------------------------------------------------
(* The files *)

(* Only a run that exists has a transcript, and it has the prompt.         *)
CursorsExist ==
  \A r \in RunIds : IF runs[r].status = "absent" THEN runs[r] = AbsentRun
                                                 ELSE runs[r].cursor # NoMsg

(* A run is finished exactly when its last commit was a terminal one.      *)
OutcomesAreCommitted ==
  \A r \in RunIds :
    IsTerminal(runs[r]) <=> runs[r].last # NoReq /\ runs[r].last.req.kind = "terminal"

ReceiptsAreOfRuns == \A e \in sessionEvents : e.tag \in CommitTags => e.run \in RunIds

(* A run that was admitted but not named hangs below the session's leaf.   *)
OrphanBelowLeaf ==
  \A r \in RunIds :
    IsLive(runs[r]) /\ session.current # r
      => session.current = NoRun /\ Below(session.leaf, runs[r].cursor)

(* Message ids derived from a commit never name a revision still to come.  *)
CommitsArePast ==
  \A m \in log : m.id[1] \in CommitIds =>
    LET run == runs[m.id[1].run] IN run.status # "absent" /\ m.id[1].rev <= run.rev

FilesAgree ==
  /\ ChainClosed
  /\ MessageIdsUnique
  /\ LeafNotAhead
  /\ ReceiptMeansDurable
  /\ UnnamedRunIsFresh
  /\ TranscriptKept
  /\ CursorsExist
  /\ OutcomesAreCommitted
  /\ ReceiptsAreOfRuns
  /\ OrphanBelowLeaf
  /\ CommitsArePast

-----------------------------------------------------------------------------
(* The process *)

(* Only a run that the coordinator shows can have leftovers, so a repeated *)
(* prompt never executes such a run at its old revision.                   *)
LeftoverIsShown ==
  \A r \in RunIds :
    IsLive(runs[r]) /\ Leftover(r) => session.current = r /\ view.current = r

PortIsShown == port # NoPort => view.current = port.id

PortIsFresh ==
  port # NoPort /\ call.pc = "idle" /\ Leftover(port.id) => port.run.prepared

ProcessAgrees == LeftoverIsShown /\ PortIsShown /\ PortIsFresh /\ PortCurrent

-----------------------------------------------------------------------------
(* The call in progress *)

Begins ==
  call.op = "begin" /\ call.pc \in {"message", "run", "session"} =>
    /\ session.current = NoRun
    /\ call.ses = BoundSession(call.id, call.run.cursor)
    /\ call.run.cursor = Input(call.run.request)
    /\ call.run.status = "created" /\ call.run.last = NoReq
    /\ call.pc = "message" => call.run.cursor \notin LoggedIds
    /\ call.pc # "message" => /\ call.run.cursor \in LoggedIds
                              /\ Below(session.leaf, call.run.cursor)

Admits == call.op \in {"begin", "repair"} => call.ses.current = call.id

Repairs ==
  call.op = "repair" /\ call.pc = "session" =>
    /\ session.current = NoRun /\ IsLive(call.run)
    /\ call.ses = BoundSession(call.id, call.run.cursor)

Resumes ==
  call.op = "resume" =>
    /\ session = call.ses /\ session.current = call.id /\ view.current = call.id
    /\ call.pc = "run" => /\ call.run.cursor = runs[call.id].cursor
                          /\ call.run.last = runs[call.id].last

ChangesMode ==
  call.op = "mode" /\ call.pc = "session" => call.ses = [session EXCEPT !.rev = @ + 1]

(* Until run.json is written, a commit is what it was when it was accepted.*)
Commits ==
  call.op = "commit" /\ call.pc \in Unwritten =>
    LET req == call.req
    IN  /\ CommitAccepted(req)
        /\ call.run = CommittedRun(req) /\ call.ses = CommittedSession(req)
        /\ call.pc = "message" =>
             /\ call.k < req.n
             /\ call.k # 0 => /\ Child(req.id, call.k - 1) \in LoggedIds
                              /\ Below(runs[call.id].cursor, Child(req.id, call.k - 1))
        /\ call.pc = "run" => /\ call.run.cursor \in LoggedIds \cup {NoMsg}
                              /\ Below(runs[call.id].cursor, call.run.cursor)

(* From then on only session.json may be behind, and is brought up to it.  *)
CommitWritten ==
  call.op \in CommitOps /\ call.pc \in Written =>
    LET last == call.run.last
    IN  /\ last # NoReq /\ last.req = call.req
        /\ call.pc = "session" =>
             /\ session.current = call.id /\ session.rev < last.target
             /\ call.ses = [rev |-> last.target, current |-> NextCurrent(call.req),
                            leaf |-> call.run.cursor]
        /\ call.pc # "session" => session.rev = last.target

SessionWritten ==
  /\ call.pc \in {"event", "runEvent", "return"} => session = call.ses
  /\ call.pc = "runEvent" => Event \in sessionEvents

InCommit == call.op \in CommitOps \/ call.pc = "retry"

CommitKeepsCurrent ==
  InCommit =>
    /\ call.req.kind = "terminal" <=> call.req.id.tag \in {"terminal", "plan_terminal"}
    /\ call.req.kind = "terminal" <=> call.req.status \in Outcomes
    /\ call.req.kind # "terminal" => session.current = call.req.id.run
    /\ view.current = call.req.id.run

(* The commit has not written its messages yet, or they are its own.       *)
CommitMessage(req, i) ==
  [id |-> Child(req.id, i),
   parent |-> IF i = 0 THEN runs[req.id.run].cursor ELSE Child(req.id, i - 1),
   body |-> req.body]

OwnMessages ==
  InCommit /\ call.req.n # 0 /\ runs[call.req.id.run].rev = call.req.id.rev =>
    \A m \in log :
      m.id[1] = call.req.id
        => m = CommitMessage(call.req, m.id[2]) \/ (port # NoPort /\ port.run.prepared)

WrittenIsFresh ==
  /\ call.op \notin {"none", "mode"} /\ call.pc \in Written => ~Leftover(call.id)
  /\ call.pc = "retry" /\ runs[call.req.id.run].rev # call.req.id.rev
       => ~Leftover(call.req.id.run)

Retries ==
  call.pc = "retry" =>
    /\ Accepted(call.req)
    /\ IsRepeat(call.req) => \/ session.current = call.req.id.run
                             \/ session.rev = runs[call.req.id.run].last.target

CallAgrees ==
  /\ Begins /\ Admits /\ Repairs /\ Resumes /\ ChangesMode
  /\ Commits /\ CommitWritten /\ SessionWritten /\ CommitKeepsCurrent
  /\ OwnMessages /\ WrittenIsFresh /\ Retries

(* The files, the coordinator and the call in progress agree at every step *)
(* between two writes.                                                     *)
Agreement == FilesAgree /\ ProcessAgrees /\ CallAgrees

(* What no interleaving of writes, faults, retries and crashes breaks: the *)
(* lifecycle of the runs and the agreement of their files.                 *)
SessionInvariant == Lifecycle /\ Agreement
=============================================================================
