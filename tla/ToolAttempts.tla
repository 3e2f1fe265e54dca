----------------------------- MODULE ToolAttempts -----------------------------
(***************************************************************************)
(* The attempts of the tool calls of one session (tools/runtime.py,        *)
(* state.py, state_store.py): a batch is admitted, executed call by call,  *)
(* suspended for the user and resumed.  The attempts live in memory; every *)
(* boundary commit saves the open ones, and the coordinator restores them  *)
(* when it resumes a run, in the same process or after a restart.          *)
(***************************************************************************)
EXTENDS Naturals, Sequences, FiniteSets, SequencesExt

CONSTANTS MaxCalls,    \* tool calls of the session
          MaxBatch,    \* calls of one model answer
          MaxResumes,  \* bound of the stored answers
          MaxRuns, MaxCrashes, MaxFaults

ASSUME BoundsAssumption ==
    { MaxCalls, MaxBatch, MaxResumes, MaxRuns, MaxCrashes, MaxFaults } \subseteq Nat

Calls == 1..MaxCalls

\* ToolAttemptState; received, validating and resolving_access are passed
\* through without an await.
Open == { "awaiting_approval", "awaiting_input", "queued", "running" }
Settled == { "succeeded", "failed", "denied", "cancelled", "interrupted" }
Suspended == { "awaiting_approval", "awaiting_input" }

\* How a call is admitted: bad arguments or a stale registration, refused by the
\* policy, only with the user's approval, or at once.
Admission == [ invalid |-> "failed", refused |-> "denied",
               guarded |-> "awaiting_approval", free |-> "queued" ]

\* A checkpoint without a "tools" component is one that has nothing in it.
NoTools == [ attempts |-> [ c \in Calls |-> "absent" ], resumes |-> << >> ]

VARIABLES attempt,   \* CheckpointToolStateStore._attempts
          resumes,   \* ToolRuntime._prepared_resumes, in the order of their ids
          pc,        \* what the process is doing
          todo,      \* admitted calls of the batch that have not started
          asked,     \* call of this batch that is suspended for the user, or 0
          disk,      \* the run's status, wait and "tools" component in the store
          run,       \* number of the session's run, and the run of every call
          guarded,   \* calls that need the user's approval
          approved,  \* calls that the user has approved
          starts,    \* how often a call's handler was started
          crashes, faults

process == << pc, todo, asked >>
history == << run, guarded, approved, starts, crashes, faults >>
attemptVars == << attempt, resumes, process, disk, history >>

Used == { c \in Calls : run.of[c] > 0 }
NoWait == [ kind |-> "none", call |-> 0 ]

Init ==
    /\ attempt = [ c \in Calls |-> "absent" ] /\ resumes = << >>
    /\ pc = "core" /\ todo = << >> /\ asked = 0
    /\ disk = [ status |-> "running", wait |-> NoWait, tools |-> NoTools ]
    /\ run = [ id |-> 1, of |-> [ c \in Calls |-> 0 ] ]
    /\ guarded = { } /\ approved = { } /\ starts = [ c \in Calls |-> 0 ]
    /\ crashes = 0 /\ faults = 0

-----------------------------------------------------------------------------
(* The "tools" component of a checkpoint *)

(* A plausible bug: a question to the user is not saved.                     *)
OpenAttemptsWithoutInput(a) ==
    [ c \in Calls |-> IF a[c] \in Open \ { "awaiting_input" } THEN a[c] ELSE "absent" ]

OpenAttempts(a) == [ c \in Calls |-> IF a[c] \in Open THEN a[c] ELSE "absent" ]
Component(a, r) == [ attempts |-> OpenAttempts(a), resumes |-> r ]

Known == \E c \in Calls : attempt[c] # "absent"

\* restore_checkpoint_state insists that memory is empty or equal.
Conflict(t) ==
    /\ t # NoTools
    /\ \/ Known /\ OpenAttempts(attempt) # t.attempts
       \/ t.resumes # << >> /\ resumes # << >> /\ resumes # t.resumes

Restored(t) ==
    IF t = NoTools \/ Known THEN attempt ELSE t.attempts

RestoredResumes(t) == IF t = NoTools \/ resumes # << >> THEN resumes ELSE t.resumes

\* A boundary commit of the adapter reads the component when it commits.
Committed(a, r, status, wait) ==
    disk' = [ status |-> status, wait |-> wait, tools |-> Component(a, r) ]

-----------------------------------------------------------------------------
(* A batch *)

\* prepare_batch: with a barrier nothing runs, and the calls before and after it
\* are interrupted.  Otherwise the batch is queued and announced (before_tools).
PrepareBatch(n, kind) ==
    LET first == Cardinality(Used) + 1
        batch == first..(first + n - 1)
        KindOf(c) == kind[c - first + 1]
        barriers == { c \in batch : KindOf(c) # "free" }
        barrier == CHOOSE c \in barriers : \A o \in barriers : c <= o
    IN  /\ batch \subseteq Calls
        /\ run' = [ run EXCEPT !.of = [ c \in Calls |-> IF c \in batch THEN run.id ELSE @[c] ] ]
        /\ guarded' = guarded \cup { c \in batch : KindOf(c) = "guarded" }
        /\ attempt' = [ c \in Calls |->
                IF c \notin batch THEN attempt[c]
                ELSE IF barriers = { } THEN "queued"
                ELSE IF c = barrier THEN Admission[KindOf(c)]
                ELSE "interrupted" ]
        /\ IF barriers = { }
           THEN /\ pc' = "batch" /\ todo' = [ i \in 1..n |-> first + i - 1 ]
                /\ asked' = 0
                /\ Committed(attempt', resumes, "running", NoWait)
           ELSE /\ pc' = "observe"
                /\ asked' = IF KindOf(barrier) = "guarded" THEN barrier ELSE 0
                /\ UNCHANGED << todo, disk >>

Prepare ==
    /\ pc = "core"
    /\ \E n \in 1..MaxBatch : \E kind \in [ 1..n -> DOMAIN Admission ] : PrepareBatch(n, kind)
    /\ UNCHANGED << resumes, approved, starts, crashes, faults >>

Start(c) ==
    /\ attempt[c] = "queued" /\ \A o \in Calls : attempt[o] # "running"
    /\ attempt' = [ attempt EXCEPT ![c] = "running" ]
    /\ starts' = [ starts EXCEPT ![c] = @ + 1 ]
    /\ UNCHANGED << resumes, pc, asked, disk, run, guarded, approved, crashes, faults >>

StartNext == pc = "batch" /\ todo # << >> /\ Start(Head(todo)) /\ todo' = Tail(todo)

\* A handler ends; a question to the user interrupts the rest of the batch.
\* Timeouts, cancellations and policy violations settle like a failure.
EndInBatch(c, state) ==
    /\ pc = "batch" /\ attempt[c] = "running"
    /\ state \in { "succeeded", "failed", "awaiting_input" }
    /\ LET barred == IF state = "awaiting_input" THEN Range(todo) ELSE { }
       IN  attempt' = [ x \in Calls |-> CASE x = c -> state
                                          [] x \in barred -> "interrupted"
                                          [] OTHER -> attempt[x] ]
    /\ todo' = IF state = "awaiting_input" THEN << >> ELSE todo
    /\ asked' = IF state = "awaiting_input" THEN c ELSE 0
    /\ pc' = IF todo' = << >> THEN "observe" ELSE "batch"
    /\ UNCHANGED << resumes, disk, history >>

\* Core takes the results over (after_tools) ...
Observe ==
    /\ pc = "observe" /\ pc' = "decide"
    /\ Committed(attempt, resumes, "running", NoWait)
    /\ UNCHANGED << attempt, resumes, todo, asked, history >>

\* ... asks the user, waits for a continuation, or goes on.
Decide ==
    /\ pc = "decide" /\ asked' = 0
    /\ \/ /\ asked # 0 /\ pc' = "idle"
          /\ Committed(attempt, resumes, "waiting",
                       [ kind |-> attempt[asked], call |-> asked ])
       \/ /\ asked = 0 /\ pc' = "idle"
          /\ Committed(attempt, resumes, "waiting", [ kind |-> "continuation", call |-> 0 ])
       \/ asked = 0 /\ pc' = "core" /\ UNCHANGED disk
    /\ UNCHANGED << attempt, resumes, todo, history >>

\* The run completes, fails or is cancelled; its component goes with it, its
\* attempts stay in the store of the session.
EndRun ==
    /\ pc # "idle" /\ pc' = "idle" /\ todo' = << >> /\ asked' = 0
    /\ attempt' = [ c \in Calls |-> IF attempt[c] = "running" THEN "cancelled"
                                    ELSE attempt[c] ]
    /\ disk' = [ status |-> "over", wait |-> NoWait, tools |-> NoTools ]
    /\ UNCHANGED << resumes, history >>

NewRun ==
    /\ pc = "idle" /\ disk.status = "over" /\ run.id < MaxRuns
    /\ run' = [ run EXCEPT !.id = @ + 1 ]
    /\ disk' = [ status |-> "running", wait |-> NoWait, tools |-> NoTools ]
    /\ pc' = "core"
    /\ UNCHANGED << attempt, resumes, todo, asked, guarded, approved, starts, crashes,
                    faults >>

-----------------------------------------------------------------------------
(* Resuming *)

\* A reply that is no option of the question leaves the attempt as it is, and so
\* does a response to an attempt that is no longer suspended.
AfterReply(state) ==
    IF state = "awaiting_input" THEN { "succeeded", "failed", "awaiting_input" } ELSE { state }

\* An approval that expired, or whose request changed, is a denial.
AfterApproval(state, answer) ==
    CASE state = "awaiting_approval" /\ answer = "approve" -> { "queued", "denied" }
      [] state = "awaiting_approval" /\ answer = "deny"    -> { "denied" }
      [] OTHER -> { state }

\* A plausible bug: the state of the attempt is not looked at.
OutcomesUnchecked(state, answer) ==
    IF answer = "reply" THEN AfterReply("awaiting_input")
    ELSE AfterApproval("awaiting_approval", answer)

\* What a response makes of its attempt.
Outcomes(state, answer) ==
    IF answer = "reply" THEN AfterReply(state) ELSE AfterApproval(state, answer)

\* execute_prepared_resume, up to the point where the handler has to wait for a
\* slot: the response is consumed and settles or queues its attempt.
Execute(a, answers, r) ==
    LET c == answers[r].call
    IN  \E state \in Outcomes(a[c], answers[r].answer) :
          /\ resumes' = RemoveAt(answers, r)
          /\ attempt' = [ a EXCEPT ![c] = state ]
          /\ pc' = IF state = "queued" /\ a[c] # "queued" THEN "resuming" ELSE "observe"

\* prepare_resume, resume_run and execute_prepared_resume.  The user may answer
\* any question of the run that pending_challenges lists; resume_run refuses all
\* but the one the run waits for, and may fail before or after its write.
Answer(c, answer) ==
    /\ pc = "idle" /\ disk.status = "waiting" /\ ~Conflict(disk.tools)
    /\ LET a == Restored(disk.tools)
           answers == Append(RestoredResumes(disk.tools), [ call |-> c, answer |-> answer ])
           resumed == [ status |-> "running", wait |-> NoWait,
                        tools |-> Component(a, answers) ]
       IN  /\ a[c] = disk.wait.kind /\ run.of[c] = run.id /\ Len(answers) <= MaxResumes
           /\ answer \in IF a[c] = "awaiting_input" THEN { "reply" } ELSE { "approve", "deny" }
           /\ a[c] = "awaiting_input" => c = disk.wait.call
           /\ \/ /\ c = disk.wait.call /\ disk' = resumed
                 /\ Execute(a, answers, Len(answers))
                 /\ UNCHANGED faults
              \/ /\ faults < MaxFaults /\ faults' = faults + 1
                 /\ disk' \in { disk, resumed } /\ c = disk.wait.call
                 /\ attempt' = a /\ resumes' = answers /\ UNCHANGED pc
              \/ /\ c # disk.wait.call
                 /\ attempt' = a /\ resumes' = answers /\ UNCHANGED << pc, disk, faults >>
    /\ approved' = IF answer = "approve" THEN approved \cup { c } ELSE approved
    /\ UNCHANGED << todo, asked, run, guarded, starts, crashes >>

\* _prepare_continuation: the one stored answer is executed first.  More than one
\* is an error, and so is a prompt while there is one (neither is a step here).
Continue ==
    /\ pc = "idle" /\ ~Conflict(disk.tools)
    /\ disk.status = "running" \/ disk.wait.kind = "continuation"
    /\ LET a == Restored(disk.tools)
           answers == RestoredResumes(disk.tools)
       IN  \/ /\ Len(answers) = 1 /\ Execute(a, answers, 1) /\ UNCHANGED disk
          \/ /\ answers = << >> /\ attempt' = a /\ resumes' = answers /\ pc' = "core"
             /\ disk' = [ disk EXCEPT !.status = "running", !.wait = NoWait ]
    /\ UNCHANGED << todo, asked, history >>

StartResumed == pc = "resuming" /\ (\E c \in guarded : Start(c)) /\ UNCHANGED todo

EndResumed ==
    /\ pc = "resuming" /\ pc' = "observe"
    /\ \E c \in guarded : \E state \in { "succeeded", "failed" } :
         attempt[c] = "running" /\ attempt' = [ attempt EXCEPT ![c] = state ]
    /\ UNCHANGED << resumes, todo, asked, disk, history >>

\* The dispatch is cancelled while the resumed call waits for a slot.
CutOff ==
    /\ pc = "resuming" /\ \A c \in Calls : attempt[c] # "running"
    /\ faults < MaxFaults /\ faults' = faults + 1
    /\ pc' = "idle"
    /\ UNCHANGED << attempt, resumes, todo, asked, disk, run, guarded, approved, starts,
                    crashes >>

\* The process stops, or closes the session, and opens it again: the builder
\* restores the component of the active run.
Crash ==
    /\ crashes < MaxCrashes /\ crashes' = crashes + 1
    /\ attempt' = disk.tools.attempts /\ resumes' = disk.tools.resumes
    /\ pc' = "idle" /\ todo' = << >> /\ asked' = 0
    /\ UNCHANGED << disk, run, guarded, approved, starts, faults >>

-----------------------------------------------------------------------------
Next ==
    \/ Prepare \/ StartNext \/ Observe \/ Decide \/ EndRun \/ NewRun
    \/ \E c \in Calls : \E state \in Open \cup Settled : EndInBatch(c, state)
    \/ \E c \in Calls : \E answer \in { "approve", "deny", "reply" } : Answer(c, answer)
    \/ Continue \/ StartResumed \/ EndResumed \/ CutOff \/ Crash

Spec == Init /\ [][Next]_attemptVars

-----------------------------------------------------------------------------
Responses == [ call : Calls, answer : { "approve", "deny", "reply" } ]
Components == [ attempts : [ Calls -> Open \cup { "absent" } ], resumes : Seq(Responses) ]
RunWaits == [ kind : Suspended \cup { "none", "continuation" }, call : 0..MaxCalls ]

TypeOK ==
    /\ attempt \in [ Calls -> Open \cup Settled \cup { "absent" } ]
    /\ resumes \in Seq(Responses)
    /\ pc \in { "idle", "core", "batch", "observe", "decide", "resuming" }
    /\ todo \in Seq(Calls) /\ asked \in 0..MaxCalls
    /\ disk \in [ status : { "running", "waiting", "over" }, wait : RunWaits, tools : Components ]
    /\ run \in [ id : Nat \ { 0 }, of : [ Calls -> Nat ] ]
    /\ guarded \subseteq Calls /\ approved \subseteq Calls
    /\ starts \in [ Calls -> Nat ] /\ crashes \in Nat /\ faults \in Nat

(* A call that needs the user's approval never starts without it, whatever   *)
(* is interrupted, answered twice, restored or left over from earlier runs    *)
(* (_prepare, _resume_approval).                                             *)
ApprovedOnly == \A c \in guarded : starts[c] > 0 => c \in approved

(* The handler of a call starts once; only an approved call that a crash cut *)
(* off is started again, never a queued or running one that was restored,    *)
(* nor one that was answered twice (compare_and_set, pending_prepared_resume).*)
StartedOnce == \A c \in Calls : starts[c] > 1 => crashes > 0 /\ c \in guarded

(* No handler runs unapproved, and none twice but for a crash.               *)
StartsApprovedOnce == TypeOK /\ ApprovedOnly /\ StartedOnce

(* When a run waits for the user, its question can be answered after any     *)
(* restart, and in this process as well unless a failed resume_run has left  *)
(* its answer behind: the saved attempt is suspended, and the component      *)
(* restores without a conflict (checkpoint_state, restore_checkpoint_state). *)
QuestionAnswerable ==
    pc = "idle" /\ disk.status = "waiting" /\ disk.wait.call # 0 =>
        /\ disk.tools.attempts[disk.wait.call] = disk.wait.kind
        /\ resumes = disk.tools.resumes => ~Conflict(disk.tools)

=============================================================================
