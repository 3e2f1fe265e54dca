----------------------------- MODULE RunGateway -----------------------------
(***************************************************************************)
(* The execution of runs of one session: RuntimeGateway with its session   *)
(* registry, session lock and ActiveRunRegistry, the RunResourceScope and  *)
(* the RuntimeLifecycle of each execution attempt (runtime/gateway.py,     *)
(* registry.py, environment.py, lifecycle.py, executor.py).                *)
(*                                                                         *)
(* Every dispatch is a task of one event loop: code between two awaits is  *)
(* one action, and whatever other tasks do happens at the awaits.  The     *)
(* task that reads the frames of a dispatch may be cancelled at any of     *)
(* them ("Interrupt"), or stop reading ("Abandon").                        *)
(*                                                                         *)
(* The session files are reduced to what the gateway can tell apart: the   *)
(* session's revision and its unfinished run, and which attempt wrote the  *)
(* run last; SessionStore has the rest.                                    *)
(***************************************************************************)
EXTENDS Naturals, FiniteSets

CONSTANTS Dispatches,    \* the calls of dispatch() with a prompt or a continuation
          MaxInterrupts, \* bound: cancellations of one dispatch's reader
          MaxOpens,      \* bound: openings of the session
          CloseBusy,     \* whether close() is called while a dispatch is under way
          HasDeadline,   \* whether run_timeout_seconds is set
          None

ASSUME GatewayBounds == MaxInterrupts \in Nat /\ MaxOpens \in Nat \ {0}
                          /\ CloseBusy \in BOOLEAN /\ HasDeadline \in BOOLEAN
ASSUME NoneIsNoDispatch == None \notin Dispatches

VARIABLES
  opening,  \* number of the session's last opening; its controller
  isOpen,   \* the session is in RuntimeSessionRegistry
  lock,     \* number of the lock in _session_locks
  entry,    \* the session's entry in ActiveRunRegistry
  store,    \* the session's files
  view,     \* session_state of each opening's controller
  task,     \* the dispatches
  attempt,  \* the RunEnvironment of each dispatch
  interrupts \* cancellations of each dispatch's reader so far

vars == <<opening, isOpen, lock, entry, store, view, task, attempt, interrupts>>

-----------------------------------------------------------------------------
(* Data *)

Reasons  == {"none", "cancelled", "deadline"}
Statuses == {"completed", "failed", "cancelled", "waiting"}
Phases   == {"new", "preparing", "executing", "waiting", "resuming", "cancelling",
             "finalizing", "terminal", "released", "invalid"}

(* Where a dispatch is suspended.  "ready" and "prepared" are the awaits   *)
(* before and after the store call of its preparation; "stop..." are those *)
(* of the handler of a cancelled stream; "frames" yields the last frames;  *)
(* "cleanup" and "dropped" are the release in the finally clause.          *)
Holding == {"ready", "prepared", "stream", "quiesce", "stopCommit", "stopRelease",
            "commit", "release", "frames", "cleanup", "dropped"}
Places  == {"idle", "queued", "done"} \cup Holding

(* How a dispatch ended: its last frame, or the CancelledError it raised.  *)
Endings == {"none", "refused", "finished", "paused", "stopped", "failed", "raised"}

Runs == Dispatches \* a run is named by the dispatch that began it

Stores  == [rev : Nat, run : Runs \cup {None}, owner : Dispatches \cup {None}]
Entries == [run : Runs \cup {None}, attempt : Dispatches \cup {None}]
NoEntry == [run |-> None, attempt |-> None]

(* "held" is the CancelledError that _complete_critical keeps, and "raise" *)
(* says that one kept earlier is still to be raised.                       *)
Tasks == [at : Places, ctl : Nat, lock : Nat, held : BOOLEAN, raise : BOOLEAN,
          end : Endings]

(* "accepted" says what Core was doing when a RunCancelled was accepted;   *)
(* "orphan" is a commit whose waiter is gone; "saved" is what the commit   *)
(* stored, and "wrote" that it did.                                        *)
Attempts == [run : Runs \cup {None}, phase : Phases, token : Reasons, forced : BOOLEAN,
             sealed : BOOLEAN, released : BOOLEAN,
             core : {"none", "running", "ended", "raised"},
             outcome : Statuses \cup {"none"}, accepted : {"no", "running", "ended"},
             wrote : BOOLEAN, saved : Statuses \cup {"none"}, orphan : BOOLEAN]

NewAttempt == [run |-> None, phase |-> "new", token |-> "none", forced |-> FALSE,
               sealed |-> FALSE, released |-> FALSE, core |-> "none",
               outcome |-> "none", accepted |-> "no", wrote |-> FALSE,
               saved |-> "none", orphan |-> FALSE]

TypeOK ==
  /\ opening \in Nat /\ isOpen \in BOOLEAN /\ lock \in Nat
  /\ entry \in Entries
  /\ store \in Stores
  /\ view \in [1..MaxOpens -> Stores]
  /\ task \in [Dispatches -> Tasks]
  /\ attempt \in [Dispatches -> Attempts]
  /\ interrupts \in [Dispatches -> 0..MaxInterrupts]

NewStore == [rev |-> 1, run |-> None, owner |-> None]

Init ==
  /\ opening = 1 /\ isOpen = TRUE /\ lock = 1
  /\ entry = NoEntry
  /\ store = NewStore
  /\ view = [o \in 1..MaxOpens |-> NewStore]
  /\ task = [d \in Dispatches |->
               [at |-> "idle", ctl |-> 0, lock |-> 0, held |-> FALSE, raise |-> FALSE, end |-> "none"]]
  /\ attempt = [d \in Dispatches |-> NewAttempt]
  /\ interrupts = [d \in Dispatches |-> 0]

-----------------------------------------------------------------------------
(* Plausible bugs.  Each operator of this section is a wrong version of a  *)
(* rule defined further down; none is used by the specification.           *)

TasksNotAwaited(a) == TRUE

CommitNotAwaited(a) == TRUE

OutcomesIgnoringToken(a) == {"completed", "failed", "waiting"}

LockIgnored(d) == TRUE

HoldUnshielded(d) == [task EXCEPT ![d].at = "done", ![d].end = "raised"]

GraceNeverScheduled(d) == FALSE

-----------------------------------------------------------------------------
(* RuntimeLifecycle and RunResourceScope *)

Transitions ==
  [new        |-> {"preparing", "cancelling"},
   preparing  |-> {"executing", "resuming", "cancelling", "finalizing"},
   executing  |-> {"waiting", "cancelling", "finalizing"},
   waiting    |-> {"resuming", "cancelling", "released"},
   resuming   |-> {"executing", "cancelling", "finalizing"},
   cancelling |-> {"finalizing"},
   finalizing |-> {"terminal"},
   terminal   |-> {"released"},
   released   |-> {"released"},
   invalid    |-> {}]

(* transition raises ValueError for anything else: "invalid" stays.        *)
To(a, phase) ==
  [a EXCEPT !.phase = IF phase \in Transitions[@] THEN phase ELSE "invalid"]

Accepts(a) == ~a.sealed /\ ~a.released

(* RunResourceScope.cancel: the first reason wins, a deadline is enforced  *)
(* at once and everything else after the grace period.                     *)
Cancel(a, reason) ==
  IF Accepts(a) /\ a.token = "none"
  THEN [a EXCEPT !.token = reason, !.forced = @ \/ (reason = "deadline")]
  ELSE a

Started(a) == a.core # "none"

ActiveTasks(a) ==
  \/ a.core = "running"
  \/ HasDeadline /\ Started(a) /\ ~a.released /\ a.token # "deadline"

(* RunResourceScope.quiesce waits for the tasks it cancels. *)
TasksDone(a) == a.core # "running"

(* What _execute_core makes of Core's end: a cancelled token overrules it. *)
CoreOutcomes(a) ==
  CASE a.token = "none"      -> {"completed", "failed", "waiting"}
    [] a.token = "cancelled" -> {"cancelled"}
    [] a.token = "deadline"  -> {"failed"}

(* ActiveRunRegistry.finish pops the entry of its run, whoever started it. *)
Finish(run) == IF entry.run = run THEN NoEntry ELSE entry

-----------------------------------------------------------------------------
(* dispatch: admission *)

IsRunning == entry # NoEntry

End(d, end) == [task EXCEPT ![d].at = "done", ![d].end = end]

Arrive(d) ==
  /\ task[d].at = "idle" /\ isOpen
  /\ task' = IF IsRunning THEN End(d, "refused")
             ELSE [task EXCEPT ![d].at = "queued", ![d].ctl = opening, ![d].lock = lock]
  /\ UNCHANGED <<opening, isOpen, lock, entry, store, view, attempt, interrupts>>

LockFree(d) ==
  \A e \in Dispatches : task[e].at \in Holding => task[e].lock # task[d].lock

Acquire(d) ==
  /\ task[d].at = "queued" /\ LockFree(d)
  /\ task' = IF IsRunning THEN End(d, "refused") ELSE [task EXCEPT ![d].at = "ready"]
  /\ UNCHANGED <<opening, isOpen, lock, entry, store, view, attempt, interrupts>>

(* The store call of a preparation: a prompt begins a run, and a           *)
(* continuation or a decision resumes the one the controller knows of.     *)
CanBegin(ctl) ==
  view[ctl].run = None /\ store.run = None /\ view[ctl].rev = store.rev

CanResume(ctl) == view[ctl].run # None /\ view[ctl].run = store.run

Prepare(d) ==
  /\ task[d].at = "ready"
  /\ \/ /\ CanBegin(task[d].ctl)
        /\ store' = [rev |-> store.rev + 1, run |-> d, owner |-> d]
     \/ /\ CanResume(task[d].ctl)
        /\ store' = [store EXCEPT !.owner = d]
  /\ view' = [view EXCEPT ![task[d].ctl] = store']
  /\ attempt' = [attempt EXCEPT ![d].run = store'.run]
  /\ task' = [task EXCEPT ![d].at = "prepared"]
  /\ UNCHANGED <<opening, isOpen, lock, entry, interrupts>>

(* A refused preparation, or a hook that raises.                           *)
GiveUp(d) ==
  /\ task[d].at \in {"ready", "prepared"}
  /\ task' = End(d, "failed")
  /\ UNCHANGED <<opening, isOpen, lock, entry, store, view, attempt, interrupts>>

(* _execute_prepared_run and RunExecutor.execute up to their first await.  *)
Start(d) ==
  /\ task[d].at = "prepared"
  /\ IF IsRunning
     THEN task' = End(d, "failed") /\ UNCHANGED <<entry, attempt>>
     ELSE /\ entry' = [run |-> attempt[d].run, attempt |-> d]
          /\ attempt' = [attempt EXCEPT
               ![d] = [To(To(@, "preparing"), "executing") EXCEPT !.core = "running"]]
          /\ task' = [task EXCEPT ![d].at = "stream"]
  /\ UNCHANGED <<opening, isOpen, lock, store, view, interrupts>>

-----------------------------------------------------------------------------
(* Execution *)

(* run_core returns, or raises a CoreBoundaryCommitError.  A waiting       *)
(* outcome was committed by Core's last boundary.                          *)
CoreEnds(d) ==
  /\ attempt[d].core = "running"
  /\ \/ \E outcome \in CoreOutcomes(attempt[d]) :
          /\ outcome = "waiting" => store.owner = d
          /\ attempt' = [attempt EXCEPT ![d].core = "ended", ![d].outcome = outcome]
     \/ attempt' = [attempt EXCEPT ![d].core = "raised"]
  /\ UNCHANGED <<opening, isOpen, lock, entry, store, view, task, interrupts>>

(* A RunCancelled action, answered with cancelled=True.                    *)
Acceptance(a) ==
  CASE a.accepted # "no" -> a.accepted
    [] a.accepted = "no" -> IF a.core = "running" THEN "running" ELSE "ended"

UserCancels ==
  /\ isOpen /\ IsRunning
  /\ LET d == entry.attempt
         a == attempt[d]
     IN  /\ Accepts(a)
         /\ attempt' = [attempt EXCEPT
              ![d] = [Cancel(a, "cancelled") EXCEPT !.accepted = Acceptance(a)]]
  /\ UNCHANGED <<opening, isOpen, lock, entry, store, view, task, interrupts>>

DeadlinePasses(d) ==
  /\ HasDeadline /\ Started(attempt[d]) /\ Accepts(attempt[d])
  /\ attempt[d].token = "none"
  /\ attempt' = [attempt EXCEPT ![d] = Cancel(@, "deadline")]
  /\ UNCHANGED <<opening, isOpen, lock, entry, store, view, task, interrupts>>

GraceEnds(d) ==
  /\ attempt[d].token = "cancelled" /\ ~attempt[d].forced /\ ~attempt[d].released
  /\ attempt' = [attempt EXCEPT ![d].forced = TRUE]
  /\ UNCHANGED <<opening, isOpen, lock, entry, store, view, task, interrupts>>

Sealed(a) ==
  LET sealed == [a EXCEPT !.sealed = TRUE]
  IN  IF a.outcome = "waiting" THEN sealed ELSE To(sealed, "finalizing")

(* The executor has yielded its last event, and the gateway has its        *)
(* outcome or the exception of a boundary commit.                          *)
Consume(d) ==
  /\ task[d].at = "stream"
  /\ \/ /\ attempt[d].core = "raised"
        /\ task' = [task EXCEPT ![d].at = "cleanup", ![d].end = "failed"]
        /\ UNCHANGED attempt
     \/ /\ attempt[d].core = "ended"
        /\ attempt' = [attempt EXCEPT ![d] = Sealed(@)]
        /\ task' = [task EXCEPT ![d].at = "commit"]
  /\ UNCHANGED <<opening, isOpen, lock, entry, store, view, interrupts>>

Quiesced(d) ==
  /\ task[d].at = "quiesce" /\ TasksDone(attempt[d])
  /\ attempt' = [attempt EXCEPT
       ![d] = To([@ EXCEPT !.outcome = "cancelled"], "finalizing")]
  /\ task' = [task EXCEPT ![d].at = "stopCommit"]
  /\ UNCHANGED <<opening, isOpen, lock, entry, store, view, interrupts>>

-----------------------------------------------------------------------------
(* Commit and release *)

Committing(d) == task[d].at \in {"commit", "stopCommit"} \/ attempt[d].orphan

(* commit_run_boundary refuses a run that another attempt has resumed.     *)
Stored(d) ==
  IF attempt[d].outcome = "waiting" THEN store
  ELSE [rev |-> store.rev + 1, run |-> None, owner |-> None]

StoreAccepts(d) == attempt[d].outcome = "waiting" \/ store.owner = d

Saved(d) == [attempt[d] EXCEPT !.wrote = TRUE, !.saved = attempt[d].outcome]

CommitWrites(d) ==
  /\ Committing(d) /\ ~attempt[d].wrote /\ StoreAccepts(d)
  /\ store' = Stored(d)
  /\ view' = IF store.owner = d THEN [view EXCEPT ![task[d].ctl] = store'] ELSE view
  /\ attempt' = [attempt EXCEPT ![d] = Saved(d)]
  /\ UNCHANGED <<opening, isOpen, lock, entry, task, interrupts>>

(* A conflict, or two OSErrors of which the last may hide a write.         *)
CommitFails(d) ==
  /\ Committing(d) /\ ~attempt[d].wrote /\ attempt[d].outcome # "waiting"
  /\ \E landed \in {FALSE} \cup {StoreAccepts(d)} :
       LET a == IF landed THEN Saved(d) ELSE attempt[d]
       IN  /\ store' = IF landed THEN Stored(d) ELSE store
           /\ attempt' = [attempt EXCEPT
                ![d] = IF a.orphan THEN [a EXCEPT !.orphan = FALSE] ELSE To(a, "terminal")]
  /\ task' = IF attempt[d].orphan THEN task
             ELSE [task EXCEPT ![d].at = "cleanup", ![d].held = FALSE, ![d].end = "failed"]
  /\ UNCHANGED <<opening, isOpen, lock, entry, view, interrupts>>

CommitDone(a) == a.wrote

(* The commit returns after its post-commit hooks.                         *)
CommitReturns(d) ==
  /\ Committing(d) /\ CommitDone(attempt[d])
  /\ IF attempt[d].orphan
     THEN /\ attempt' = [attempt EXCEPT ![d].orphan = FALSE]
          /\ UNCHANGED task
     ELSE /\ attempt' = [attempt EXCEPT
               ![d] = To(@, IF @.outcome = "waiting" THEN "waiting" ELSE "terminal")]
          /\ task' = [task EXCEPT
               ![d].at = IF @ = "commit" THEN "release" ELSE "stopRelease",
               ![d].raise = task[d].held, ![d].held = FALSE]
  /\ UNCHANGED <<opening, isOpen, lock, entry, store, view, interrupts>>

LastFrame(outcome) ==
  CASE outcome = "completed" -> "finished" [] outcome = "waiting"   -> "paused"
    [] outcome = "failed"    -> "failed"   [] outcome = "cancelled" -> "stopped"

(* RunResourceScope.release ends when the tracked tasks have.              *)
Releasing(d) ==
  \/ task[d].at \in {"release", "stopRelease", "cleanup", "dropped"}
  \/ task[d].at = "done" /\ Started(attempt[d])  \* nobody waits for it any more

MarkReleased(a, marks) ==
  LET free == [a EXCEPT !.released = TRUE] IN IF marks THEN To(free, "released") ELSE free

Released(d) ==
  /\ Releasing(d) /\ ~attempt[d].released /\ TasksDone(attempt[d])
  /\ LET at    == task[d].at
         marks == \/ at \in {"release", "stopRelease"}
                  \/ at \in {"cleanup", "dropped"} /\ attempt[d].phase \in {"terminal", "waiting"}
         raise == task[d].held \/ task[d].raise
     IN  /\ attempt' = [attempt EXCEPT ![d] = MarkReleased(@, marks)]
         /\ entry' = IF at = "done" THEN entry ELSE Finish(attempt[d].run)
         /\ task' = CASE at = "done" -> task
                      [] at \in {"stopRelease", "dropped"} \/ (at # "done" /\ raise) -> End(d, "raised")
                      [] at = "cleanup" /\ ~raise -> End(d, task[d].end)
                      [] at = "release" /\ ~raise ->
                           [task EXCEPT ![d].at = "frames",
                                        ![d].end = LastFrame(attempt[d].outcome)]
  /\ UNCHANGED <<opening, isOpen, lock, store, view, interrupts>>

(* The last frames are read, or the reader is gone: the finally clause.    *)
Finished(d) ==
  /\ task[d].at = "frames"
  /\ task' = End(d, task[d].end)
  /\ entry' = Finish(attempt[d].run)
  /\ UNCHANGED <<opening, isOpen, lock, store, view, attempt, interrupts>>

-----------------------------------------------------------------------------
(* The reader of a dispatch *)

(* What a CancelledError does at each await.                               *)
Escape(d) == [task EXCEPT ![d].at = "cleanup", ![d].held = FALSE, ![d].end = "raised"]
Hold(d)   == [task EXCEPT ![d].held = TRUE]

StreamCancelled(a) ==
  To([Cancel(a, "cancelled") EXCEPT !.forced = TRUE], "cancelling")

Interrupted(d) ==
  LET at == task[d].at IN
  \/ /\ at \in {"queued", "ready", "prepared"}
     /\ task' = End(d, "raised") /\ UNCHANGED attempt
  \/ /\ at = "stream"
     /\ task' = [task EXCEPT ![d].at = "quiesce"]
     /\ attempt' = [attempt EXCEPT ![d] = StreamCancelled(@)]
  \/ /\ at \in {"commit", "release", "cleanup"} /\ ~task[d].held
     /\ task' = Hold(d) /\ UNCHANGED attempt
  \/ /\ at = "stopCommit" \/ (at = "commit" /\ task[d].held)
     /\ task' = Escape(d) /\ attempt' = [attempt EXCEPT ![d].orphan = TRUE]
  \/ /\ at \in {"quiesce", "stopRelease"} \/ (at = "release" /\ task[d].held)
     /\ task' = Escape(d) /\ UNCHANGED attempt
  \/ /\ at = "cleanup" /\ task[d].held
     /\ task' = End(d, "raised") /\ UNCHANGED attempt

Interrupt(d) ==
  /\ interrupts[d] < MaxInterrupts
  /\ interrupts' = [interrupts EXCEPT ![d] = @ + 1]
  /\ Interrupted(d)
  /\ UNCHANGED <<opening, isOpen, lock, entry, store, view>>

(* The reader drops the generator at a frame: GeneratorExit, in a task     *)
(* that nobody can cancel.                                                 *)
Abandon(d) ==
  /\ task[d].at = "stream"
  /\ task' = [task EXCEPT ![d].at = "dropped"]
  /\ attempt' = [attempt EXCEPT ![d].forced = TRUE]
  /\ UNCHANGED <<opening, isOpen, lock, entry, store, view, interrupts>>

-----------------------------------------------------------------------------
(* Closing and opening *)

Close ==
  /\ isOpen
  /\ CloseBusy \/ \A d \in Dispatches : task[d].at \in {"idle", "done"}
  /\ isOpen' = FALSE
  /\ lock' = lock + 1
  /\ IF IsRunning /\ Accepts(attempt[entry.attempt])
     THEN LET d == entry.attempt
          IN  /\ attempt' = [attempt EXCEPT ![d] = Cancel(@, "cancelled")]
              /\ entry' = IF ActiveTasks(attempt[d]) THEN entry ELSE NoEntry
     ELSE entry' = NoEntry /\ UNCHANGED attempt
  /\ UNCHANGED <<opening, store, view, task, interrupts>>

(* open_session refuses while the registry has an entry.                   *)
Open ==
  /\ ~isOpen /\ opening < MaxOpens /\ ~IsRunning
  /\ isOpen' = TRUE
  /\ opening' = opening + 1
  /\ view' = [view EXCEPT ![opening'] = store]
  /\ UNCHANGED <<lock, entry, store, task, attempt, interrupts>>

Gateway(d) ==
  \/ Acquire(d) \/ Prepare(d) \/ GiveUp(d) \/ Start(d)
  \/ CoreEnds(d) \/ GraceEnds(d) \/ Consume(d) \/ Quiesced(d)
  \/ CommitWrites(d) \/ CommitFails(d) \/ CommitReturns(d) \/ Released(d) \/ Finished(d)

Environment(d) == Arrive(d) \/ DeadlinePasses(d) \/ Interrupt(d) \/ Abandon(d)

Next ==
  \/ \E d \in Dispatches : Gateway(d) \/ Environment(d)
  \/ UserCancels \/ Close \/ Open

Spec == Init /\ [][Next]_vars

(* The event loop runs what is ready; a task that is cancelled ends.       *)
Fairness ==
  \A d \in Dispatches :
    /\ WF_vars(Acquire(d)) /\ WF_vars(Prepare(d) \/ GiveUp(d)) /\ WF_vars(Start(d))
    /\ WF_vars(attempt[d].forced /\ CoreEnds(d))
    /\ WF_vars(GraceEnds(d)) /\ WF_vars(Consume(d)) /\ WF_vars(Quiesced(d))
    /\ WF_vars(CommitWrites(d) \/ CommitFails(d)) /\ WF_vars(CommitReturns(d))
    /\ WF_vars(Released(d)) /\ WF_vars(Finished(d))

FairSpec == Spec /\ Fairness
=============================================================================
