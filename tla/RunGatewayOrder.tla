--------------------------- MODULE RunGatewayOrder ---------------------------
(***************************************************************************)
(* The inductive invariants behind the gateway's promises: where a         *)
(* dispatch stands decides the phase of its attempt, what has been stored, *)
(* and who holds the session's lock and registry entry.                    *)
(***************************************************************************)
EXTENDS RunGatewayProperties

Before   == {"idle", "queued", "ready", "prepared"}
Stopping == {"quiesce", "stopCommit", "stopRelease"}
\* From ActiveRunRegistry.start to ActiveRunRegistry.finish.
Owning   == {"stream", "commit", "release", "cleanup", "dropped"} \cup Stopping

-----------------------------------------------------------------------------
(* One dispatch and its attempt *)

(* The lifecycle's phase at each await; only waiting and terminal attempts *)
(* are marked as released.                                                 *)
PhaseOf(d) ==
  LET at == task[d].at
      a  == attempt[d]
  IN  /\ at \in Before => ~Started(a)
      /\ at \in Owning \cup {"frames"} => Started(a)
      /\ ~Started(a) => a.phase = "new"
      /\ a.phase # "invalid"
      /\ at \in {"stream", "dropped"} => a.phase = "executing"
      /\ at = "quiesce" => a.phase = "cancelling"
      /\ at = "commit" => a.phase = IF a.outcome = "waiting" THEN "executing" ELSE "finalizing"
      /\ at = "stopCommit" => a.phase = "finalizing" /\ a.outcome = "cancelled"
      /\ at \in {"release", "stopRelease"} => a.phase \in {"terminal", "waiting"}

(* The outcome is made by Core's end or by the cancelled stream, and from  *)
(* then on it is what a commit stores.                                     *)
OutcomeOf(d) ==
  LET at == task[d].at
      a  == attempt[d]
  IN  /\ ~Started(a) \/ a.core = "running" => a.outcome = "none" /\ ~a.wrote /\ Accepts(a)
      /\ a.core = "ended" => a.outcome \in Statuses
      /\ a.core = "running" => at \in {"stream", "quiesce", "cleanup", "dropped", "done"}
      /\ at \in {"commit", "stopCommit", "release", "stopRelease", "frames"} => a.outcome \in Statuses
      /\ ~a.wrote => a.saved = "none"
      /\ a.wrote => a.saved = a.outcome /\ Started(a) /\ at \notin {"stream", "quiesce"}
      /\ at \in {"release", "stopRelease", "frames"} => a.wrote
      /\ a.orphan => at \in {"cleanup", "done"} /\ a.outcome \in Statuses
      /\ a.outcome \in Statuses => a.core # "running"

(* An accepted cancellation sets the token, and Core's end cannot overrule *)
(* the token any more.                                                     *)
AcceptedOf(d) ==
  LET a == attempt[d]
  IN  a.accepted = "running" => a.token # "none" /\ a.outcome \notin {"completed", "waiting"}

(* How a dispatch ends is decided where it leaves the normal path.         *)
EndOf(d) ==
  LET at == task[d].at
      a  == attempt[d]
  IN  /\ at = "cleanup" => task[d].end \in {"failed", "raised"}
      /\ at \notin {"cleanup", "frames", "done"} => task[d].end = "none"
      /\ at = "frames" => task[d].end = LastFrame(a.saved)
      /\ task[d].end \in {"finished", "paused", "stopped"}
           => at \in {"frames", "done"} /\ a.wrote /\ task[d].end = LastFrame(a.saved)

OrderOf(d) == PhaseOf(d) /\ OutcomeOf(d) /\ AcceptedOf(d) /\ EndOf(d)

DispatchOrder == \A d \in Dispatches : OrderOf(d)

-----------------------------------------------------------------------------
(* Dispatches of one session, when it is only closed between them *)

(* Who waits for or holds the lock got it from the session as it is open.  *)
LockIsCurrent ==
  \A d \in Dispatches :
    task[d].at \notin {"idle", "done"} => task[d].lock = lock /\ task[d].ctl = opening /\ isOpen

OneHolder ==
  \A d, e \in Dispatches : task[d].at \in Holding /\ task[e].at \in Holding => d = e

(* The registry entry belongs to the lock's holder while it executes, and  *)
(* is free while the holder prepares and when it has finished.             *)
EntryFollowsHolder ==
  /\ entry # NoEntry => /\ entry.attempt \in Dispatches
                        /\ Started(attempt[entry.attempt])
                        /\ entry.run = attempt[entry.attempt].run
  /\ \A d \in Dispatches :
       /\ task[d].at \in Owning => entry.attempt = d
       /\ task[d].at \in {"ready", "prepared", "frames"} => entry = NoEntry

(* The attempt in the entry is the last that began or resumed its run.     *)
PreparedOwnsRun ==
  \A d \in Dispatches : task[d].at = "prepared" => store.owner = d

(* A dispatch that ended without two cancellations has released all it had.*)
ReleasedAtEnd ==
  \A d \in Dispatches :
    /\ task[d].at \in Stopping \/ task[d].held => interrupts[d] >= 1
    /\ attempt[d].orphan => interrupts[d] >= 2
    /\ task[d].at = "frames" => attempt[d].released
    /\ task[d].at = "done" /\ interrupts[d] < 2 => LeavesNothing(d)

SessionOrder ==
  /\ LockIsCurrent
  /\ OneHolder
  /\ EntryFollowsHolder
  /\ PreparedOwnsRun
  /\ CoreIsCancellable
  /\ CoreOwnsRun
  /\ ReleasedAtEnd

(* Dispatches of a session take turns, and each is in order: the session's *)
(* lock, its registry entry, the resources of its attempts and the owner   *)
(* of the stored run agree with where each dispatch stands (dispatch,      *)
(* _execute_prepared_run, ActiveRunRegistry).  The attempts are in order   *)
(* even when the session is closed while they run.                         *)
GatewayOrder == TypeOK /\ DispatchOrder /\ (~CloseBusy => SessionOrder)
=============================================================================
