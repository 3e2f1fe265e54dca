--------------------------- MODULE SessionLedger ----------------------------
(***************************************************************************)
(* What the sessions layer promises about the runs of one session: a run   *)
(* is admitted when no other is active, moves along the run lifecycle one  *)
(* revision at a time, and is final once it is completed, failed or        *)
(* cancelled.                                                              *)
(***************************************************************************)
EXTENDS Naturals

CONSTANT RunIds
VARIABLES phase, revision

Active == {"created", "running", "waiting"}
Final  == {"completed", "failed", "cancelled"}

(* _RUN_TRANSITIONS *)
Successors(p) ==
  CASE p = "created" -> {"running", "failed", "cancelled"}
    [] p = "running" -> {"running", "waiting"} \cup Final
    [] p = "waiting" -> {"running", "failed", "cancelled"}
    [] OTHER -> {}

Init ==
  /\ phase = [r \in RunIds |-> "absent"]
  /\ revision = [r \in RunIds |-> 0]

Admit(r) ==
  /\ phase[r] = "absent"
  /\ \A other \in RunIds : phase[other] \notin Active
  /\ phase' = [phase EXCEPT ![r] = "created"]
  /\ revision' = [revision EXCEPT ![r] = 1]

Advance(r) ==
  /\ \E p \in Successors(phase[r]) : phase' = [phase EXCEPT ![r] = p]
  /\ revision' = [revision EXCEPT ![r] = @ + 1]

Next == \E r \in RunIds : Admit(r) \/ Advance(r)

Spec == Init /\ [][Next]_<<phase, revision>>
=============================================================================
