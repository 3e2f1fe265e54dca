------------------------------ MODULE PlanSteps ------------------------------
(***************************************************************************)
(* The Task Plan in detail (core/plan.py, commands.py and the plan commands *)
(* of reducer.py): steps with their ids, progress and evidence, revisions  *)
(* that wait for the user while the work goes on, and the close request.   *)
(* A command that expects another revision than the plan's is refused and  *)
(* changes nothing; only commands with the current revision are steps here.*)
(***************************************************************************)
EXTENDS Naturals, Sequences, FiniteSets, SequencesExt

CONSTANTS Definitions,   \* (step, details, verification) of a step
          MaxSteps,      \* bound of the steps of a plan
          MaxRevision    \* bound of the revisions of a plan

VARIABLES plan,      \* PlanState
          evidence,  \* references that the run has made known
          raised     \* a plan command raised instead of being applied or refused

planVars == << plan, evidence, raised >>

Refs == { "call", "path" }
NoPending == << >>
NoPlan == [ status |-> "none", origin |-> "none", revision |-> 0, steps |-> << >>,
            pending |-> NoPending, closing |-> { } ]

\* A step id is the plan's or a revision's prefix and the position.
Ids == (0..MaxRevision) \X (1..MaxSteps)
NewStep(prefix, definition, position) ==
    [ id |-> << prefix, position >>, def |-> definition, status |-> "pending",
      refs |-> { } ]
NewSteps(prefix, definitions) ==
    [ i \in DOMAIN definitions |-> NewStep(prefix, definitions[i], i) ]

Init == plan = NoPlan /\ evidence = { } /\ raised = FALSE

-----------------------------------------------------------------------------
(* Steps *)

\* _preserve_matching_steps: a replacement with the definition of a present step is
\* that step; of several, the last one.
Kept(previous, replacement) ==
    [ i \in DOMAIN replacement |->
        LET same == { j \in DOMAIN previous : previous[j].def = replacement[i].def }
        IN  IF same = { } THEN replacement[i]
            ELSE previous[CHOOSE j \in same : \A k \in same : k <= j] ]

StepIds(steps) == { steps[i].id : i \in DOMAIN steps }
InProgress(steps) == { i \in DOMAIN steps : steps[i].status = "in_progress" }

\* _validate_steps
ValidSteps(steps) ==
    /\ Cardinality(StepIds(steps)) = Len(steps)
    /\ Cardinality(InProgress(steps)) <= 1

AllDone(p) == \A i \in DOMAIN p.steps : p.steps[i].status = "completed"

\* The dataclasses check themselves when they are made.
Becomes(new) ==
    /\ plan.revision < MaxRevision
    /\ IF ValidSteps(new.steps) /\ ValidSteps(new.pending)
       THEN plan' = [ new EXCEPT !.revision = plan.revision + 1 ] /\ UNCHANGED raised
       ELSE raised' = TRUE /\ UNCHANGED plan
    /\ UNCHANGED evidence

-----------------------------------------------------------------------------
(* Commands of the model *)

\* An observed tool call or a changed file can be referred to.
Observe(ref) ==
    /\ evidence' = evidence \cup { ref } /\ UNCHANGED << plan, raised >>

SubmitPlan(mode, definitions) ==
    \/ /\ plan.status = "none"
       /\ Becomes([ NoPlan EXCEPT !.status = IF mode = "plan" THEN "proposed" ELSE "active",
                                  !.origin = mode, !.steps = NewSteps(0, definitions) ])
    \/ /\ plan.status = "proposed" /\ mode = "plan"
       /\ Becomes([ plan EXCEPT !.steps = Kept(plan.steps, NewSteps(0, definitions)),
                                !.pending = NoPending, !.closing = { } ])

\* Every step that is updated gets a new record from the plan before the command, with
\* the references that are known.
Updated(step, update) ==
    [ step EXCEPT !.status = update.status,
                  !.refs = IF update.status = "completed" THEN update.refs \cap evidence
                           ELSE { } ]

\* updates is a function on some of the plan's step ids; a completed step stays
\* completed, and two steps in progress are refused.
UpdatePlanProgress(updates) ==
    /\ plan.status = "active" /\ updates # << >>
    /\ LET Now(step) == IF step.id \in DOMAIN updates THEN Updated(step, updates[step.id])
                        ELSE step
           steps == [ i \in DOMAIN plan.steps |-> Now(plan.steps[i]) ]
       IN  /\ \A i \in DOMAIN steps :
                plan.steps[i].status = "completed" => steps[i].status = "completed"
           /\ Cardinality(InProgress(steps)) <= 1
           /\ Becomes([ plan EXCEPT !.steps = steps, !.closing = { } ])

\* A revision of a plan of build mode is applied at once when the same failure came up
\* five times (repeated); every other one waits for the user.
ProposePlanRevision(repeated, definitions) ==
    /\ plan.status = "active" /\ plan.pending = NoPending
    /\ LET steps == Kept(plan.steps, NewSteps(plan.revision + 1, definitions))
       IN  Becomes(IF plan.origin = "build" /\ repeated
                   THEN [ plan EXCEPT !.steps = steps, !.closing = { } ]
                   ELSE [ plan EXCEPT !.pending = steps ])

\* Unknown references are dropped, and PlanCloseRequest wants at least one.
RequestPlanClose(refs) ==
    /\ plan.status = "active" /\ AllDone(plan)
    /\ IF refs \cap evidence # { }
       THEN Becomes([ plan EXCEPT !.closing = refs \cap evidence ])
       ELSE raised' = TRUE /\ UNCHANGED << plan, evidence >>

-----------------------------------------------------------------------------
(* Commands of the user, and the end of the run *)

(* A plausible bug: the steps of the revision are taken as they were when it *)
(* was proposed.                                                             *)
ApprovePlanRevisionAsProposed ==
    /\ plan.pending # NoPending
    /\ Becomes([ plan EXCEPT !.steps = plan.pending, !.pending = NoPending,
                             !.closing = { } ])

ApprovePlanRevision ==
    /\ plan.pending # NoPending
    /\ Becomes([ plan EXCEPT !.steps = Kept(plan.steps, plan.pending),
                             !.pending = NoPending, !.closing = { } ])

RejectPlanRevision ==
    plan.pending # NoPending /\ Becomes([ plan EXCEPT !.pending = NoPending ])

Decide(status) ==
    /\ plan.status = "proposed" /\ Becomes([ plan EXCEPT !.status = status ])

Abandon ==
    /\ plan.status \in { "proposed", "active" }
    /\ Becomes([ plan EXCEPT !.status = "abandoned", !.pending = NoPending, !.closing = { } ])

\* The policy waits for the user while a revision is pending.
Complete ==
    /\ plan.status = "active" /\ plan.pending = NoPending /\ AllDone(plan)
    /\ Becomes([ plan EXCEPT !.status = "completed" ])

-----------------------------------------------------------------------------
Plans == UNION { [ 1..n -> Definitions ] : n \in 1..MaxSteps }
\* One or two updates.
Updates ==
    UNION { [ ids -> [ status : { "pending", "in_progress", "completed" },
                       refs : { { }, Refs } ] ] :
            ids \in { s \in SUBSET StepIds(plan.steps) : Cardinality(s) \in 1..2 } }

Next ==
    \/ \E ref \in Refs : Observe(ref)
    \/ \E mode \in { "plan", "build" }, ds \in Plans : SubmitPlan(mode, ds)
    \/ \E updates \in Updates : UpdatePlanProgress(updates)
    \/ \E repeated \in BOOLEAN, ds \in Plans : ProposePlanRevision(repeated, ds)
    \/ \E refs \in (SUBSET Refs) \ { { } } : RequestPlanClose(refs)
    \/ (\E status \in { "active", "rejected" } : Decide(status))
    \/ ApprovePlanRevision \/ RejectPlanRevision \/ Abandon \/ Complete

Spec == Init /\ [][Next]_planVars

Steps == [ id : Ids, def : Definitions, status : { "pending", "in_progress", "completed" },
           refs : SUBSET Refs ]

TypeOK ==
    /\ plan.status \in { "none", "proposed", "active", "completed", "rejected", "abandoned" }
    /\ plan.revision \in 0..MaxRevision
    /\ Range(plan.steps) \cup Range(plan.pending) \subseteq Steps
    /\ plan.closing \subseteq evidence

-----------------------------------------------------------------------------
Alone(steps, i) == \A j \in DOMAIN steps \ { i } : steps[j].def # steps[i].def

Defs(steps) == [ i \in DOMAIN steps |-> steps[i].def ]

\* The plan has the steps it had, and no revision was proposed or decided.
SameWork == Defs(plan'.steps) = Defs(plan.steps) /\ plan'.pending = plan.pending

(* No command takes back work: a completed step, alone with its definition,  *)
(* is still completed if the definition is still in the plan, also when a    *)
(* revision is approved that was proposed before it was completed.  Its      *)
(* evidence is what it was, unless the model completes it again, which       *)
(* replaces it.  And the steps of a plan the user approved become others     *)
(* only by a revision he was shown (_preserve_matching_steps,                *)
(* _update_plan_progress, _approve_plan_revision, _propose_plan_revision).   *)
StepKeepsWork ==
    /\ \A i \in DOMAIN plan.steps, j \in DOMAIN plan'.steps :
         /\ plan.steps[i].status = "completed" /\ Alone(plan.steps, i)
         /\ plan'.steps[j].def = plan.steps[i].def
         => /\ plan'.steps[j].status = "completed"
            /\ plan'.steps[j].refs = plan.steps[i].refs \/ SameWork
    /\ plan.status = "active" /\ plan.origin = "plan"
         /\ Defs(plan'.steps) # Defs(plan.steps) =>
           Defs(plan'.steps) = Defs(plan.pending)

WorkIsKept == [][StepKeepsWork]_plan

(* docs/design/1core-design.md:326: a plan command that is not valid is      *)
(* answered with a rejection.                                                *)
CommandsAnswered == ~raised
=============================================================================
