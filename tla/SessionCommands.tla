--------------------------- MODULE SessionCommands ---------------------------
(***************************************************************************)
(* What a user may do with the sessions of one workspace between their     *)
(* runs, and while they wait: the dispatch of runtime/gateway.py, the      *)
(* commands of runtime/commands.py that change a session, and the plan,    *)
(* mode and continuation methods of runtime/session_coordinator.py.        *)
(*                                                                         *)
(* "disk" is what the session store keeps.  A controller holds a copy of   *)
(* it, taken when the session was opened or derived, and every commit      *)
(* compares the two.  A command makes its commits without an await, so     *)
(* only a crash comes between them, or a write that fails and ends the     *)
(* command; what follows the command does not.  Of a run's own commits,    *)
(* and of those that begin or resume it, SessionStore says how they fail.  *)
(* One dispatch at a time works on a session: the dispatches that the lock *)
(* or the active run holds off or refuses are not steps.                   *)
(***************************************************************************)
EXTENDS Naturals, Sequences, SequencesExt

CONSTANTS Sessions, First,              \* session ids, the one that is made first
          Modes,                        \* of "read", "plan" and "build"
          MaxRuns, MaxCrashes           \* bounds

Waits == { "approval", "confirmation", "question", "budget" }

VARIABLES
    disk,    \* the session and its current run, as stored
    ctl,     \* the controller of the session, as registered
    exec,    \* the run of the session that is being executed
    todo,    \* the commits a command has still to make
    follow,  \* the continuation that the command asked for
    runs, crashes  \* runs begun; crashes and writes that failed

vars == << disk, ctl, exec, todo, follow, runs, crashes >>

\* run: "none", "open" (executing or interrupted), what it waits for, or "over": run.json has its
\* end, and session.json still names it, for ever.  plan: "revising" is an active plan with a
\* proposed revision.  astray: the run has been in another mode than the session, or its plan
\* was approved for one, or by a command that was cut off.  said: the session has messages.
\* chain: "open" when they end with a tool call; a call that other messages follow, or that the
\* run leaves behind, is "passed", and no prompt gets past context_protocol_invalid again.
\* same: the workspace is the checkpoint's.
NoSession == [ made |-> FALSE, mode |-> "build", run |-> "none", astray |-> FALSE,
               plan |-> "none", said |-> FALSE, chain |-> "whole", same |-> TRUE ]
\* behind: its copy of the session is not the stored one.  asks: its tool runtime knows an
\* approval.  late: derived by /resume while the run was executing or waited for an approval.
\* failed: a write of the mode, or after the end of a run, has failed in one of its commands.
Closed == [ open |-> FALSE, mode |-> "build", behind |-> FALSE, asks |-> FALSE, late |-> FALSE,
            failed |-> FALSE ]
\* A controller made from what is stored.
Opened(session) == [ Closed EXCEPT !.open = TRUE, !.mode = session.mode ]
Idle == [ by |-> "nobody", mode |-> "build", answered |-> FALSE ]
\* A session whose run is over.
Ended(session) == [ session EXCEPT !.run = "none", !.plan = "none", !.astray = FALSE,
                                   !.same = TRUE ]
\* A commit of that end which stops between its two files, and a command that stops.
HalfEnded(session) == [ session EXCEPT !.run = "over" ]
CutOff(session) == [ session EXCEPT !.astray = @ \/ session.plan = "active" ]
NoTodo == [ of |-> First, commits |-> << >>, then |-> "none" ]
NoFollow == [ kind |-> "none", replaced |-> FALSE ]

Init ==
    /\ disk = [ s \in Sessions |-> IF s = First THEN [ NoSession EXCEPT !.made = TRUE ]
                                   ELSE NoSession ]
    /\ ctl = [ s \in Sessions |-> IF s = First THEN [ Closed EXCEPT !.open = TRUE ]
                                  ELSE Closed ]
    /\ exec = [ s \in Sessions |-> Idle ]
    /\ todo = NoTodo /\ follow = [ s \in Sessions |-> NoFollow ]
    /\ runs = 0 /\ crashes = 0

-----------------------------------------------------------------------------
(* Plausible bugs of the definitions below; the specification uses none.     *)

OpenWithoutAttempts(s) ==
    /\ todo.commits = << >> /\ ~ctl[s].open /\ disk[s].made /\ disk[s].chain # "cut"
    /\ ctl' = [ ctl EXCEPT ![s] = Opened(disk[s]) ]
    /\ UNCHANGED << disk, exec, todo, follow, runs, crashes >>

-----------------------------------------------------------------------------
(* What a dispatch finds *)

Executing(s) == exec[s].by # "nobody"
Free(s) == todo.commits = << >> /\ ctl[s].open /\ follow[s].kind = "none" /\ ~Executing(s)
Unbroken(s) == disk[s].chain \in { "whole", "open" }
HasRun(s) == disk[s].run \notin { "none", "over" }

\* The run's messages after a continuation.  A call that the run waited with is passed
\* over; one that the run was interrupted in is settled first.
Continued(s) ==
    IF disk[s].chain # "open" THEN disk[s].chain
    ELSE IF disk[s].run = "open" THEN "whole" ELSE "passed"

\* resume_run, and the copy that inspect_recovery read.
Resume(s, chain, mode, answered, replaced) ==
    /\ disk' = [ disk EXCEPT ![s] = [ @ EXCEPT !.run = "open", !.chain = chain,
                                      !.astray = disk[s].astray \/ mode # disk[s].mode ] ]
    /\ exec' = [ exec EXCEPT ![s] = [ by |-> IF replaced THEN "replaced" ELSE "controller",
                                      mode |-> mode, answered |-> answered ] ]
    /\ ctl' = IF replaced THEN ctl
              ELSE [ ctl EXCEPT ![s] = [ @ EXCEPT !.behind = FALSE, !.asks = ctl[s].asks /\ ~answered ] ]

-----------------------------------------------------------------------------
(* Prompts and answers *)

\* A prompt starts a run when there is none; a mode_hint is for this run only.
StartRun(s, hint) ==
    /\ Free(s) /\ disk[s].run = "none" /\ ~ctl[s].behind /\ runs < MaxRuns
    /\ runs' = runs + 1
    /\ disk' = [ disk EXCEPT ![s] = [ @ EXCEPT !.run = "open", !.said = TRUE,
                                      !.astray = hint # disk[s].mode ] ]
    /\ exec' = [ exec EXCEPT ![s] = [ by |-> "controller", mode |-> hint, answered |-> FALSE ] ]
    /\ UNCHANGED << ctl, todo, follow, crashes >>

\* A prompt to a run that waits for a plan, a question or a larger budget, and the
\* continuation of an interrupted one.
ContinueRun(s) ==
    /\ Free(s) /\ disk[s].run \in { "confirmation", "question", "budget", "open" }
    /\ disk[s].same
    /\ Resume(s, Continued(s), ctl[s].mode, FALSE, FALSE)
    /\ UNCHANGED << todo, follow, runs, crashes >>

\* An approval is looked up in the tool runtime before anything is read from the store.
DecideApproval(s) ==
    /\ Free(s) /\ ctl[s].asks /\ disk[s].run = "approval" /\ disk[s].same
    /\ Resume(s, disk[s].chain, ctl[s].mode, TRUE, FALSE)
    /\ UNCHANGED << todo, follow, runs, crashes >>

\* The answer to a question does not look at the workspace.
RespondInteraction(s) ==
    /\ Free(s) /\ disk[s].run = "question" /\ disk[s].chain = "open"
    /\ Resume(s, disk[s].chain, ctl[s].mode, TRUE, FALSE)
    /\ UNCHANGED << todo, follow, runs, crashes >>

-----------------------------------------------------------------------------
(* The run, which Core executes *)

\* The plan when the run next waits: a run in plan mode proposes it, one in build mode makes
\* or revises it, and with a plan that was rejected or abandoned it goes on without.  A
\* proposed plan or revision is what "confirmation" waits for; only an approval or a question
\* of the same tools comes before, and the budget after the user's answer to a proposal.
PlanAt(s, kind) ==
    LET plan == disk[s].plan
        mode == exec[s].mode IN
    { p \in { plan, "proposed", "active", "revising" } :
        /\ \/ p = plan
           \/ p = "proposed" /\ plan = "none" /\ mode = "plan"
           \/ p = "active" /\ plan = "none" /\ mode = "build"
           \/ p = "revising" /\ plan \in { "none", "active" } /\ mode = "build"
        /\ kind = "confirmation" => p \in { "proposed", "revising" }
        /\ kind = "budget" => p # "revising" /\ (p = "proposed" => plan = "proposed") }

RunPauses(s, kind) ==
    /\ Executing(s) /\ Unbroken(s) /\ todo.commits = << >>
    /\ \E plan \in PlanAt(s, kind), moved \in BOOLEAN,
          chain \in CASE kind = "approval" -> { "open" } [] kind = "question" -> { "open", "whole" }
                      [] OTHER -> { "whole" } :
        /\ disk' = [ disk EXCEPT ![s] = [ @ EXCEPT !.run = kind, !.plan = plan, !.chain = chain,
                                          !.same = TRUE ] ]
        /\ ctl' = IF exec[s].by = "controller"
                  THEN [ ctl EXCEPT ![s].asks = @ \/ kind = "approval" ]
                  ELSE [ ctl EXCEPT ![s].behind = @ \/ moved ]
    /\ exec' = [ exec EXCEPT ![s] = Idle ]
    /\ UNCHANGED << todo, follow, runs, crashes >>

\* _commit_run: the controller that executes the run takes the new session.
End(s, chain) ==
    /\ disk' = [ disk EXCEPT ![s] = [ Ended(@) EXCEPT !.chain = chain ] ]
    /\ ctl' = [ ctl EXCEPT ![s].behind = @ \/ exec[s].by = "replaced" ]

\* Core settles the open calls, but not one it was cancelled in after the approval.
RunEnds(s) ==
    /\ Executing(s) /\ todo.commits = << >>
    /\ \E chain \in IF ~Unbroken(s) THEN { disk[s].chain }
                    ELSE IF exec[s].answered THEN { "whole", "passed" } ELSE { "whole" } :
          End(s, chain)
    /\ exec' = [ exec EXCEPT ![s] = Idle ]
    /\ UNCHANGED << todo, follow, runs, crashes >>

-----------------------------------------------------------------------------
(* Commands.  A command is the commits it makes and the continuation it asks *)
(* for; the first commit that fails, or finds the copy behind, ends it.      *)

Command(s, commits, then) ==
    /\ Free(s)
    /\ commits # << >>
    /\ todo' = [ of |-> s, commits |-> commits, then |-> then ]
    /\ UNCHANGED << disk, ctl, exec, follow, runs, crashes >>

\* Leaving an active plan for plan mode abandons it, and its run with it.
ModeCommits(s, mode) ==
    (IF mode = "plan" /\ disk[s].plan \in { "active", "revising" }
     THEN << "abandon", "finish" >> ELSE << >>)
    \o (IF mode = ctl[s].mode THEN << >> ELSE << mode >>)
ApproveCommits(s) == << "approve" >> \o ModeCommits(s, "build")
RejectCommits(s) ==
    << "reject", "finish" >> \o (IF ctl[s].mode = "plan" THEN << >> ELSE << "plan" >>)

\* A change of the mode continues the run, which may have ended with its plan.
ChangeMode(s, mode) ==
    /\ mode # "plan" => disk[s].plan # "proposed"
    /\ disk[s].run # "approval"
    /\ Command(s, ModeCommits(s, mode),
               IF mode # ctl[s].mode /\ HasRun(s) THEN "continue" ELSE "none")

ApprovePlan(s) ==
    \/ disk[s].plan = "revising" /\ Command(s, << "approve" >>, "continue")
    \/ disk[s].plan = "proposed" /\ Command(s, ApproveCommits(s), "continue")

\* A revision that is rejected leaves the plan active, too.
RejectPlan(s) ==
    \/ disk[s].plan = "revising" /\ Command(s, << "approve" >>, "continue")
    \/ disk[s].plan = "proposed" /\ Command(s, RejectCommits(s), "none")

\* One that is rejected or abandoned already is refused.
ClearPlan(s) ==
    /\ disk[s].plan \in { "proposed", "active", "revising" }
    /\ Command(s, << "abandon", "finish" >>, "none")

\* The session after a commit.  That of a plan command is progress at "after_tools": the wait
\* is gone, and so is the knowledge that a call is open.
Made(s, commit) ==
    LET chain == IF disk[s].chain = "open" THEN "passed" ELSE disk[s].chain IN
    CASE commit = "approve" ->
           [ disk[s] EXCEPT !.plan = "active", !.run = "open", !.chain = chain,
                            !.astray = @ \/ ctl[s].mode # disk[s].mode ]
      [] commit \in { "abandon", "reject" } ->
           [ disk[s] EXCEPT !.plan = "ended", !.run = "open", !.chain = chain ]
      [] commit = "finish" -> Ended(disk[s])
      [] OTHER -> [ disk[s] EXCEPT !.mode = commit ]

\* The controller's mode is changed before it is stored.
ModeAfter(s, commit) == IF commit \in Modes THEN commit ELSE ctl[s].mode

CommitNext ==
    /\ todo.commits # << >>
    /\ LET s == todo.of
           commit == Head(todo.commits) IN
       /\ ~ctl[s].behind
       /\ disk' = [ disk EXCEPT ![s] = Made(s, commit) ]
       /\ ctl' = [ ctl EXCEPT ![s].mode = ModeAfter(s, commit) ]
       /\ IF Len(todo.commits) > 1
          THEN todo' = [ todo EXCEPT !.commits = Tail(@) ] /\ UNCHANGED follow
          ELSE todo' = NoTodo /\ follow' = [ follow EXCEPT ![s].kind = todo.then ]
    /\ UNCHANGED << exec, runs, crashes >>

\* The store compares the copies before it writes anything.
CommitRefused ==
    /\ todo.commits # << >>
    /\ LET s == todo.of IN
       /\ ctl[s].behind
       /\ ctl' = [ ctl EXCEPT ![s].mode = ModeAfter(s, Head(todo.commits)) ]
    /\ todo' = NoTodo
    /\ UNCHANGED << disk, exec, follow, runs, crashes >>

\* A write raises: the first one, the one after run.json, or one after what the commit is
\* about.  Of that, only the end of a run and the mode give the session a revision; the
\* mode's event is written when the controller has taken it.
CommitFails ==
    /\ todo.commits # << >> /\ crashes < MaxCrashes
    /\ LET s == todo.of
           commit == Head(todo.commits) IN
       \E session \in { disk[s], HalfEnded(disk[s]), Made(s, commit) }, behind \in BOOLEAN :
        /\ ~ctl[s].behind
        /\ session = HalfEnded(disk[s]) => commit = "finish"
        /\ behind => session = Made(s, commit) /\ commit \in Modes \cup { "finish" }
        /\ commit = "finish" /\ session = Made(s, commit) => behind
        /\ disk' = [ disk EXCEPT ![s] = CutOff(session) ]
        /\ ctl' = [ ctl EXCEPT ![s] = [ @ EXCEPT
             !.mode = ModeAfter(s, commit), !.behind = behind,
             !.failed = ctl[s].failed \/ behind \/ commit \in Modes ] ]
    /\ todo' = NoTodo /\ crashes' = crashes + 1
    /\ UNCHANGED << exec, follow, runs >>

\* The continuation uses the controller the dispatch began with; it fails when the run has
\* ended or the workspace has changed.
FollowUp(s) ==
    /\ follow[s].kind = "continue" /\ todo.commits = << >>
    /\ follow' = [ follow EXCEPT ![s] = NoFollow ]
    /\ IF HasRun(s) /\ disk[s].same
       THEN Resume(s, Continued(s), ctl[s].mode, FALSE, follow[s].replaced)
       ELSE UNCHANGED << disk, ctl, exec >>
    /\ UNCHANGED << todo, runs, crashes >>

-----------------------------------------------------------------------------
(* Derived sessions *)

\* A controller that is derived takes the place of the one that is registered. Its tool
\* runtime is new and knows no attempt.
Derived(s) ==
    [ Opened(disk'[s]) EXCEPT
        !.late = disk[s].run = "approval" \/ Executing(s) \/ follow[s].kind # "none" ]

NewSession(s, t) ==
    /\ Free(s) /\ ~disk[t].made
    /\ disk' = [ disk EXCEPT ![t] = [ NoSession EXCEPT !.made = TRUE, !.mode = ctl[s].mode ] ]
    /\ ctl' = [ ctl EXCEPT ![t] = Derived(t) ]
    /\ UNCHANGED << exec, todo, follow, runs, crashes >>

\* session.json first, then the messages one by one; a crash may leave some out.
Forked(s, t, chain) ==
    disk' = [ disk EXCEPT ![t] = [ NoSession EXCEPT !.made = TRUE, !.mode = disk[s].mode,
                                                    !.said = TRUE, !.chain = chain ] ]

ForkSession(s, t) ==
    /\ Free(s) /\ disk[s].said /\ ~disk[t].made
    /\ Forked(s, t, IF disk[s].chain = "open" THEN "passed" ELSE disk[s].chain)
    /\ ctl' = [ ctl EXCEPT ![t] = Derived(t) ]
    /\ UNCHANGED << exec, todo, follow, runs, crashes >>

\* The session list is that of the workspace: the target may be the session itself, or one
\* whose run is being executed.
ResumeSession(s, t) ==
    /\ Free(s) /\ disk[t].made /\ disk[t].chain # "cut"
    /\ UNCHANGED disk
    /\ ctl' = [ ctl EXCEPT ![t] = Derived(t) ]
    /\ exec' = [ exec EXCEPT ![t].by = IF Executing(t) THEN "replaced" ELSE @ ]
    /\ follow' = [ follow EXCEPT ![t].replaced = follow[t].kind # "none" ]
    /\ UNCHANGED << todo, runs, crashes >>

\* open_session: the attempts come from the checkpoint.
OpenSession(s) ==
    /\ todo.commits = << >> /\ ~ctl[s].open /\ disk[s].made /\ disk[s].chain # "cut"
    /\ ctl' = [ ctl EXCEPT ![s] = [ Opened(disk[s]) EXCEPT !.asks = disk[s].run = "approval" ] ]
    /\ UNCHANGED << disk, exec, todo, follow, runs, crashes >>

-----------------------------------------------------------------------------
(* The environment *)

Stopped ==
    /\ ctl' = [ s \in Sessions |-> Closed ] /\ exec' = [ s \in Sessions |-> Idle ]
    /\ todo' = NoTodo /\ follow' = [ s \in Sessions |-> NoFollow ]
    /\ crashes' = crashes + 1 /\ UNCHANGED runs

\* A run that is cut off may have a call open, or one that its checkpoint is past; a command
\* may be cut off between two commits, or in the middle of a run's end.
Crash ==
    /\ crashes < MaxCrashes
    /\ Stopped
    /\ \E chain \in { "whole", "open", "passed" }, half \in BOOLEAN :
        /\ half => /\ todo.commits # << >> /\ Head(todo.commits) = "finish"
                   /\ ~ctl[todo.of].behind
        /\ disk' = [ s \in Sessions |->
             IF Executing(s) /\ Unbroken(s) THEN [ disk[s] EXCEPT !.chain = chain ]
             ELSE IF todo.commits # << >> /\ todo.of = s
             THEN CutOff(IF half THEN HalfEnded(disk[s]) ELSE disk[s])
             ELSE disk[s] ]

CrashInFork(s, t) ==
    /\ crashes < MaxCrashes /\ Free(s) /\ disk[s].said /\ ~disk[t].made
    /\ \A u \in Sessions : ~Executing(u)
    /\ Stopped
    /\ Forked(s, t, "cut")

\* The user, or the run of another session, changes the workspace of a paused run, or
\* restores it.
MoveWorkspace(s) ==
    /\ HasRun(s) /\ ~Executing(s) /\ todo.commits = << >>
    /\ disk' = [ disk EXCEPT ![s].same = ~@ ]
    /\ UNCHANGED << ctl, exec, todo, follow, runs, crashes >>

Next ==
    \/ \E s \in Sessions :
        \/ \E mode \in Modes : StartRun(s, mode) \/ ChangeMode(s, mode)
        \/ ContinueRun(s) \/ DecideApproval(s) \/ RespondInteraction(s)
        \/ \E kind \in Waits : RunPauses(s, kind)
        \/ RunEnds(s)
        \/ ApprovePlan(s) \/ RejectPlan(s) \/ ClearPlan(s) \/ FollowUp(s)
        \/ \E t \in Sessions : NewSession(s, t) \/ ForkSession(s, t) \/ ResumeSession(s, t)
                               \/ CrashInFork(s, t)
        \/ OpenSession(s) \/ MoveWorkspace(s)
    \/ CommitNext \/ CommitRefused \/ CommitFails \/ Crash

Spec == Init /\ [][Next]_vars

-----------------------------------------------------------------------------
(* Properties *)

TypeOK ==
    /\ \A s \in Sessions :
        /\ disk[s].run \in { "none", "open", "over" } \cup Waits
        /\ disk[s].plan \in { "none", "proposed", "active", "revising", "ended" }
        /\ disk[s].chain \in { "whole", "open", "passed", "cut" }
        /\ { disk[s].mode, ctl[s].mode, exec[s].mode } \subseteq Modes
        /\ exec[s].by \in { "nobody", "controller", "replaced" }
        /\ follow[s].kind \in { "none", "continue" }
    /\ todo.of \in Sessions /\ Len(todo.commits) <= 3

(* gateway.py:372, :449, session_coordinator.py:907, :973: of a session that *)
(* nothing works on, the controller's copy is the stored one when it is to   *)
(* take a prompt, its tools know the approval that the run waits for, and    *)
(* its mode is the stored one, unless a write of a command has failed since  *)
(* it was opened, or it was derived too late.  A proposed plan waits in plan *)
(* mode, and an approved one does not, unless its run is astray.  Not said   *)
(* of the other waits, which are continued from the store, nor of a session  *)
(* that names a run which is over.                                           *)
SessionsGoOn ==
    \A s \in Sessions :
        /\ Free(s) /\ ~ctl[s].late =>
             /\ disk[s].run = "none" => ~ctl[s].behind \/ ctl[s].failed
             /\ disk[s].run = "approval" => ctl[s].asks
             /\ ctl[s].mode = disk[s].mode \/ ctl[s].failed
        /\ disk[s].plan = "proposed" => disk[s].mode = "plan" \/ disk[s].astray
        /\ disk[s].plan \in { "active", "revising" } =>
             \/ disk[s].mode # "plan" \/ disk[s].astray
             \/ todo.commits # << >> /\ todo.of = s
=============================================================================
