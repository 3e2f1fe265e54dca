------------------------------- MODULE MCTools -------------------------------
(***************************************************************************)
(* Instances of the tool modules for TLC.  The attempts of a session and    *)
(* the scheduling of handlers do not share state; a behaviour runs one of   *)
(* them, chosen by the first state.                                         *)
(***************************************************************************)
EXTENDS ToolAttempts, ToolScheduler

VARIABLE part

MCJobs == 1..3

\* Policies of three calls at once; their order does not matter.
MCMixes == { << "limited", "limited", "serial" >>,
             << "serial", "serial", "parallel" >>, << "parallel", "limited", "serial" >> }

MCInit ==
    /\ part \in { "attempts", "scheduler" } /\ Init /\ SchedulerInit
    /\ part = "attempts" => policy = CHOOSE mix \in Mixes : TRUE

AttemptStep == part = "attempts" /\ Next /\ UNCHANGED << part, jobVars >>
JobStep(j) == part = "scheduler" /\ Step(j) /\ UNCHANGED << part, attemptVars >>
JobAdvances(j) == JobStep(j) /\ Advance(j)

MCNext == AttemptStep \/ \E j \in Jobs : JobStep(j)

\* Deadlines pass, tasks go on, and a handler whose task was cancelled ends.
MCSpec ==
    /\ MCInit /\ [][MCNext]_<< part, attemptVars, jobVars >>
    /\ \A j \in Jobs : WF_<< part, attemptVars, jobVars >>(JobAdvances(j))
=============================================================================
