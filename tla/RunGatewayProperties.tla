------------------------ MODULE RunGatewayProperties ------------------------
(***************************************************************************)
(* What the gateway promises about the runs it executes.                   *)
(***************************************************************************)
EXTENDS RunGateway

Unreleased(d) == Started(attempt[d]) /\ ~attempt[d].released

-----------------------------------------------------------------------------
(* Safety *)

(* Core never executes twice at once for a session: the session lock, the  *)
(* check of ActiveRunRegistry.start and the refusal of open_session leave  *)
(* no way, however dispatches, cancellations and commits are interleaved.  *)
OneCore ==
  \A d, e \in Dispatches :
    attempt[d].core = "running" /\ attempt[e].core = "running" => d = e

(* No call of RuntimeLifecycle.transition is ever refused: on no path does *)
(* the gateway raise ValueError in the middle of a commit or a release.    *)
LifecycleNeverRaises == \A d \in Dispatches : attempt[d].phase # "invalid"

(* A cancellation that was accepted while Core ran is not overtaken by     *)
(* Core's own end: the run is never stored as completed or waiting.        *)
CancelStopsCore ==
  \A d \in Dispatches :
    attempt[d].accepted = "running" => attempt[d].saved \notin {"completed", "waiting"}

(* The last frame tells what is in the files: finished, paused or          *)
(* cancelled is only reported for an outcome that was stored.              *)
FrameIsDurable ==
  \A d \in Dispatches :
    task[d].end \in {"finished", "paused", "stopped"}
      => /\ attempt[d].wrote
         /\ task[d].end = LastFrame(attempt[d].saved)

(* While Core runs, the run can be found and cancelled: its dispatch has   *)
(* the registry entry, and no other attempt has taken the entry over.      *)
CoreIsCancellable ==
  \A d \in Dispatches :
    attempt[d].core = "running" => entry.attempt = d /\ Accepts(attempt[d])

(* A running Core always works on the latest version of its run: nobody    *)
(* else has resumed it, so its next boundary commit is not refused.        *)
CoreOwnsRun ==
  \A d \in Dispatches : attempt[d].core = "running" => store.owner = d

(* Between admission and release an attempt is in order: its lifecycle is  *)
(* never asked for an illegal transition, and while its Core runs it can   *)
(* be found, cancelled, and is the only one to write its run.              *)
AttemptInOrder == TypeOK /\ LifecycleNeverRaises /\ CoreIsCancellable /\ CoreOwnsRun

(* Nothing is left behind, however a dispatch ends: it holds neither the   *)
(* session's registry entry nor resources of its run, nor is its commit    *)
(* still under way, unless its reader was cancelled twice:                 *)
(* _complete_critical waits again only once.                               *)
LeavesNothing(d) ==
  entry.attempt # d /\ ~Unreleased(d) /\ ~attempt[d].orphan

NothingLeftBehind ==
  \A d \in Dispatches :
    task[d].at = "done" /\ interrupts[d] < 2 => LeavesNothing(d)

-----------------------------------------------------------------------------
(* Progress *)

(* A cancelled run releases its resources in the end: the grace period,    *)
(* the deadline and every way out of the gateway lead to release().        *)
CancelReleases ==
  \A d \in Dispatches :
    Started(attempt[d]) /\ attempt[d].token # "none" ~> attempt[d].released

(* ... and the session accepts dispatches again, unless two cancellations  *)
(* of the reader made the gateway skip finish().                           *)
EntryIsFreed ==
  \A d \in Dispatches :
    entry.attempt = d /\ attempt[d].token # "none" /\ interrupts[d] < 2
      ~> entry.attempt # d \/ interrupts[d] >= 2

(* A cancelled run ends for good: resources and registry entry are freed.  *)
CancelledRunEnds == CancelReleases /\ EntryIsFreed

=============================================================================
