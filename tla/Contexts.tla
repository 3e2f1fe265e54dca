------------------------------- MODULE Contexts -------------------------------
(***************************************************************************)
(* The modules about what the model is shown of a session, its messages    *)
(* and the files it knows, that ContextProofs is about. They share no      *)
(* state.                                                                  *)
(***************************************************************************)

CONSTANTS Budget, Fixed, Required, KeepRecent, Recent, ToolBatches, Recalls, MaxGroups,
          MaxReloads,                                   \* of ContextWindow
          TrackedFiles, MaxEvidence, MaxResults, MaxChanges   \* of WorkingSet

VARIABLES contextLog, snapshot, files, checkpoint, archived, shown, behind, crashes,
          disk, setHead, commits, results, observed, setEvidence, active, setLast,
          setReported, changes

Windows == INSTANCE ContextWindow WITH
    log <- contextLog, Batches <- ToolBatches, MaxCrashes <- MaxReloads,
    Keep <- KeepRecent
Sets == INSTANCE WorkingSet WITH
    head <- setHead, reported <- setReported, evidence <- setEvidence, last <- setLast,
    Files <- TrackedFiles

(* What the model is shown is whole, and what is called current is           *)
(* (ContextWindow, WorkingSet).                                              *)
ContextIsTrue ==
    /\ Windows!TypeOK /\ Windows!ContextIsWhole
    /\ Sets!TypeOK /\ Sets!FreshIsCurrent
===============================================================================
