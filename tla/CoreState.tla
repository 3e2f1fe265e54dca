------------------------------ MODULE CoreState ------------------------------
(***************************************************************************)
(* The pure half of one agent run: the semantic state Core keeps of a task *)
(* (core/state.py), the reducer that folds observations into it            *)
(* (core/reducer.py) and the policy that picks the next move               *)
(* (core/policy.py).  CoreLoop drives these operators.                     *)
(*                                                                         *)
(* Data is abstracted to what policy and reducer tell apart.  A tool       *)
(* result is its kind; "passed" is a verification that passed or is        *)
(* structurally unavailable.  A plan keeps its status, its origin, whether *)
(* all its steps are completed and whether a revision is pending; the step *)
(* list, evidence and revision numbers are left out.  A failure is its     *)
(* code, and whether it is recoverable follows from the code.  The         *)
(* statistics no decision reads (attempts, total recoveries, the optional  *)
(* max_tool_calls that core_limits never sets) are left out.               *)
(***************************************************************************)
EXTENDS Integers, Sequences, FiniteSets, SequencesExt

CONSTANTS
    Qualified,       \* QUALIFIED_FAILURES_FOR_REVISION
    MaxRecoveries    \* CoreLimits.max_recovery_attempts

ASSUME CoreStateAssumption == Qualified \in Nat \ {0} /\ MaxRecoveries \in Nat

(***************************************************************************)
(* Tool results and failures.                                              *)
(***************************************************************************)

ErrorCode == [ error       |-> "tool.error",
               checkFailed |-> "tool.error",
               failedWrite |-> "tool.error",            \* it changed the workspace
               incomplete  |-> "tool.batch.incomplete",
               denied      |-> "tool.denied",
               unavailable |-> "tool_not_found",
               interrupted |-> "tool.batch.interrupted",
               ambiguous   |-> "runtime.tool_execution_ambiguous",
               notExecuted |-> "core.tool_not_executed",
               cancelled   |-> "tool.execution.cancelled",
               fatal       |-> "tool.fatal",
               stale       |-> "tool.registration.stale" ]

FatalCodes == { "tool.execution.cancelled", "tool.fatal", "tool.registration.stale",
                "model.fatal", "run.cancelled" }
Codes == { ErrorCode[k] : k \in DOMAIN ErrorCode } \cup FatalCodes \cup
         { "verification.failed", "model.call_failed", "model.empty_response" }
Suspended == { "approval", "input" }         \* not final: no ToolResultMessage
Commands == { "submit", "progress", "finish", "close", "revise", "rework" }
Changes == { "change", "failedWrite" }
Successes == { "ok", "change", "passed" } \cup Commands
ResultKinds == Successes \cup Suspended \cup { "deferred" } \cup DOMAIN ErrorCode

IsFailure(result) == result \in DOMAIN ErrorCode
Recoverable(code) == code \notin FatalCodes \cup { "none" }

Blockers == { "tool_unavailable", "verification_failed", "plan_incomplete",
              "replan_required" }
CountCap == IF Qualified > MaxRecoveries THEN Qualified ELSE MaxRecoveries + 1

PlanStates == [ status  : { "none", "proposed", "active", "completed", "rejected",
                            "abandoned" },
                origin  : { "none", "plan_mode", "build_mode" },
                done    : BOOLEAN,      \* every step is completed
                pending : BOOLEAN ]     \* pending_revision is not None

NewCore == [ task |-> "active",
             plan |-> [ status |-> "none", origin |-> "none", done |-> FALSE,
                        pending |-> FALSE ],
             blockers |-> {}, latest |-> "none", counts |-> [ c \in Codes |-> 0 ],
             turns |-> 0, iterations |-> 0, revision |-> 0,
             check |-> [ status |-> "none", revision |-> 0 ],
             print |-> 0, repeated |-> 0, noProgress |-> 0 ]

Active(core) == core.plan.status = "active"
Fresh(core) == core.check.status = "passed" /\ core.check.revision = core.revision

RecordFailures(core, code, n) ==
    [ core EXCEPT !.latest = code,
                  !.counts[code] = IF @ + n > CountCap THEN CountCap ELSE @ + n ]

-------------------------------------------------------------------------------
(* Plausible bugs.  Each operator of this section is a wrong version of a  *)
(* definition further down; none is used by the specification.             *)

OutOfBudgetLate(core, obs, limits) ==
    \/ core.turns > limits.turns + 1
    \/ core.iterations > limits.iterations
    \/ core.repeated > limits.repeated

NeedsFirstVerification(core) ==
    core.task = "active" /\ core.revision > 0 /\ core.check.status = "none"

ApplyDecisionKeepsPlan(core, decision) ==
    LET status == [ completed |-> "satisfied", failed |-> "blocked",
                    cancelled |-> "abandoned" ]
    IN  IF decision.do # "end" THEN core
        ELSE [ core EXCEPT !.task = status[decision.arg],
                           !.plan.status = IF decision.arg = "completed" /\ @ = "active"
                                           THEN "completed" ELSE @ ]

(***************************************************************************)
(* Observations: records that all have the same fields.                    *)
(***************************************************************************)

Nothing == [ kind |-> "user", calls |-> << >>, print |-> 0, text |-> FALSE,
             failed |-> FALSE, wait |-> "none", call |-> 0, cancelled |-> FALSE,
             error |-> FALSE, feedback |-> FALSE ]
UserInput(feedback) == [ Nothing EXCEPT !.feedback = feedback ]
Cancellation == [ Nothing EXCEPT !.kind = "cancel" ]
ModelSaid(message) ==
    [ Nothing EXCEPT !.kind = "model", !.calls = message.calls,
                     !.print = message.print, !.text = message.text ]
ModelFailed == [ Nothing EXCEPT !.kind = "model", !.failed = TRUE ]
ToolBatch(calls, results) ==
    LET waits == { i \in DOMAIN results : results[i] \in Suspended }
        first == CHOOSE i \in waits : \A j \in waits : i <= j
    IN  [ Nothing EXCEPT
            !.kind = "tools",
            !.wait = IF waits = {} THEN "none"
                     ELSE IF results[first] = "approval" THEN "tool_approval"
                     ELSE "user_input",
            !.call = IF waits = {} THEN 0 ELSE calls[first],
            !.cancelled = \E i \in DOMAIN results : results[i] = "cancelled",
            !.error = \E i \in DOMAIN results :
                          IsFailure(results[i]) \/ results[i] = "deferred" ]

IsFinalCandidate(obs) ==
    obs.kind = "model" /\ ~obs.failed /\ obs.calls = << >> /\ obs.text

(***************************************************************************)
(* The reducer.                                                            *)
(***************************************************************************)

ReduceModel(core, obs, code) ==
    LET unfinished == IsFinalCandidate(obs) /\ Active(core) /\ ~core.plan.done
        counted == [ core EXCEPT
                       !.turns = @ + 1,
                       !.noProgress = IF unfinished /\ @ < 2 THEN @ + 1 ELSE @ ]
    IN  IF code = "none" THEN counted ELSE RecordFailures(counted, code, 1)

ReduceUserInput(core, obs) ==
    LET feedback == core.plan.status = "proposed" /\ obs.feedback
    IN  [ core EXCEPT
            !.blockers = IF feedback THEN @ \cup { "plan_incomplete" } ELSE @,
            !.task = IF @ = "blocked" THEN "active" ELSE @,
            !.noProgress = 0 ]

ReduceCancellation(core) == RecordFailures(core, "run.cancelled", 1)

LastOf(results, kinds) ==
    LET at == { i \in DOMAIN results : results[i] \in kinds }
    IN  IF at = {} THEN "none"
        ELSE results[CHOOSE i \in at : \A j \in at : j <= i]

Changed(results) == Range(results) \cap Changes # {}

ReduceWorkspace(core, results) ==
    IF Changed(results) THEN [ core EXCEPT !.revision = @ + 1 ] ELSE core

\* A check that ran in the batch of the change it checks is stale.
ReduceVerification(core, results) ==
    LET changed == Changed(results)
        verdict == LastOf(results, { "passed", "checkFailed" })
        status == IF verdict = "checkFailed" THEN "failed"
                  ELSE IF verdict = "passed" /\ ~changed THEN "passed"
                  ELSE IF verdict = "passed" \/ (changed /\ core.check.status # "none")
                       THEN "stale"
                  ELSE core.check.status
        checked == IF verdict = "none" /\ ~changed THEN core.check
                   ELSE [ status |-> status,
                          revision |-> IF status \in { "passed", "failed" }
                                       THEN core.revision ELSE 0 ]
        next == [ core EXCEPT
                    !.check = checked,
                    !.blockers = CASE checked.status = "failed" ->
                                        @ \cup { "verification_failed" }
                                   [] checked.status = "passed" ->
                                        @ \ { "verification_failed" }
                                   [] OTHER -> @ ]
    IN  IF checked.status = "failed"
        THEN RecordFailures(next, "verification.failed", 1) ELSE next

ReduceFailures(core, results) ==
    LET last == LastOf(results, DOMAIN ErrorCode)
        times(code) == Cardinality({ i \in DOMAIN results :
                          IsFailure(results[i]) /\ ErrorCode[results[i]] = code })
        counted == [ c \in Codes |-> IF core.counts[c] + times(c) > CountCap
                                     THEN CountCap ELSE core.counts[c] + times(c) ]
        latest == IF last = "none" THEN core.latest ELSE ErrorCode[last]
        unavailable == IF "unavailable" \in Range(results)
                       THEN { "tool_unavailable" } ELSE {}
        replan == IF Recoverable(latest) /\ counted[latest] >= Qualified
                  THEN { "replan_required" } ELSE {}
    IN  [ core EXCEPT !.latest = latest, !.counts = counted,
                      !.blockers = @ \cup unavailable \cup replan ]

(***************************************************************************)
(* Plan commands.  A rejected command leaves the state alone.  "submit" is *)
(* SubmitPlan; "progress" and "finish" are UpdatePlanProgress without and  *)
(* with the last step completed; "close" is RequestPlanClose; "revise" and *)
(* "rework" are ProposePlanRevision, "rework" with the reason              *)
(* repeated_execution_failure and steps that are not all completed.        *)
(***************************************************************************)

SubmitPlan(core, mode) ==
    LET plan == [ status |-> IF mode = "plan" THEN "proposed" ELSE "active",
                  origin |-> IF mode = "plan" THEN "plan_mode" ELSE "build_mode",
                  done |-> FALSE, pending |-> FALSE ]
        accepted == mode # "read" /\ ( \/ core.plan.status = "none"
                                       \/ mode = "plan" /\ core.plan.status = "proposed" )
    IN  IF accepted
        THEN [ core EXCEPT !.plan = plan, !.noProgress = 0,
                           !.blockers = @ \ { "plan_incomplete" } ]
        ELSE core

UpdatePlanProgress(core, mode, completes) ==
    IF mode = "build" /\ Active(core)
    THEN [ core EXCEPT !.plan.done = @ \/ completes, !.noProgress = 0,
                       !.blockers = @ \ { "replan_required" } ]
    ELSE core

RequestPlanClose(core, mode) ==
    IF mode = "build" /\ Active(core) /\ core.plan.done
    THEN [ core EXCEPT !.noProgress = 0 ] ELSE core

ProposePlanRevision(core, mode, repeated) ==
    LET auto == /\ core.plan.origin = "build_mode"
                /\ repeated
                /\ \E c \in Codes : core.counts[c] >= Qualified
    IN  IF mode = "build" /\ Active(core) /\ ~core.plan.pending
        THEN [ core EXCEPT !.plan.pending = ~auto,
                           !.plan.done = IF auto THEN FALSE ELSE @,
                           !.noProgress = 0,
                           !.blockers = @ \ { "replan_required" } ]
        ELSE core

ApplyCommand(core, command, mode) ==
    CASE command = "submit"   -> SubmitPlan(core, mode)
      [] command = "progress" -> UpdatePlanProgress(core, mode, FALSE)
      [] command = "finish"   -> UpdatePlanProgress(core, mode, TRUE)
      [] command = "close"    -> RequestPlanClose(core, mode)
      [] command = "revise"   -> ProposePlanRevision(core, mode, FALSE)
      [] command = "rework"   -> ProposePlanRevision(core, mode, TRUE)
      [] OTHER -> core

\* The commands of a batch, if it has any, one after the other: they change the plan
\* and what hangs on it, and nothing else.
Planned(core, results, mode) ==
    FoldLeft(LAMBDA c, r : ApplyCommand(c, r, mode), core, results)
ApplyCommands(core, results, mode) ==
    LET planned == Planned(core, results, mode)
    IN  IF Range(results) \cap Commands = {} THEN core
        ELSE [ core EXCEPT !.plan.status = planned.plan.status,
                           !.plan.origin = planned.plan.origin,
                           !.plan.done = planned.plan.done,
                           !.plan.pending = planned.plan.pending,
                           !.noProgress = planned.noProgress,
                           !.blockers = planned.blockers ]

\* The kinds of a batch's results but for the deferred ones, which are not reduced: no
\* function here looks for their kind, so that only an empty batch and a clean one are
\* told by the others.
Material(results) == Range(results) \ { "deferred" }

\* clean_success: every result succeeded, so old failures are forgotten.
ForgetFailures(core, results) ==
    IF Material(results) # {} /\ Material(results) \subseteq Successes
    THEN [ core EXCEPT !.blockers = @ \ { "tool_unavailable", "replan_required" },
                       !.latest = "none", !.counts = [ c \in Codes |-> 0 ] ]
    ELSE core

ReduceTools(core, results, print, mode) ==
    LET counted == [ core EXCEPT !.iterations = @ + IF Material(results) = {} THEN 0 ELSE 1 ]
        checked == ReduceVerification(ReduceWorkspace(counted, results), results)
        failed == ReduceFailures(checked, results)
        planned == ApplyCommands(failed, results, mode)
        clean == ForgetFailures(planned, results)
        moved == Range(results) \cap (Changes \cup { "passed", "checkFailed" }) # {}
    IN  IF Material(results) = {} THEN clean
        ELSE [ clean EXCEPT
                 !.repeated = IF print = core.print THEN @ + 1 ELSE 1,
                 !.print = print,
                 !.noProgress = IF moved THEN 0 ELSE @ ]

(***************************************************************************)
(* The policy: an ordered list of rules, the first that applies decides.   *)
(***************************************************************************)

CallModel(purpose) == [ do |-> "model", arg |-> purpose, code |-> "" ]
ExecuteTools == [ do |-> "tools", arg |-> "", code |-> "" ]
Wait(kind) == [ do |-> "wait", arg |-> kind, code |-> "" ]
Terminate(status, code) == [ do |-> "end", arg |-> status, code |-> code ]

OutOfBudget(core, obs, limits) ==
    \/ core.turns > limits.turns
    \/ /\ core.turns >= limits.turns
       /\ obs.kind \in { "model", "tools" }
       /\ obs.calls = << >>
       /\ ~(IsFinalCandidate(obs) /\ core.blockers = {})
    \/ core.iterations > limits.iterations
    \/ core.repeated > limits.repeated

NeedsRecovery(core, obs) ==
    \/ core.blockers \cap { "verification_failed", "tool_unavailable",
                            "replan_required" } # {}
    \/ obs.kind = "model" /\ (obs.failed \/ (obs.calls = << >> /\ ~obs.text))
    \/ obs.kind = "tools" /\ obs.error

NeedsVerification(core) ==
    /\ core.task = "active"
    /\ "replan_required" \notin core.blockers
    /\ core.revision > 0
    /\ ~Fresh(core)

Rules(core, obs, mode, limits) ==
    LET plan == core.plan
        calls == obs.calls # << >>
        final == IsFinalCandidate(obs)
        budget == OutOfBudget(core, obs, limits)
        proposed == plan.status = "proposed"
        incomplete == proposed /\ "plan_incomplete" \in core.blockers
        replan == "replan_required" \in core.blockers
        recover == Recoverable(core.latest) /\ NeedsRecovery(core, obs)
        finished == Active(core) /\ plan.done
        Rule(when, decision) == [ when |-> when, decision |-> decision ]
    IN  << Rule(core.task = "satisfied", Terminate("completed", "task.completed")),
           Rule(core.task = "abandoned", Terminate("cancelled", "run.cancelled")),
           Rule(core.latest \in FatalCodes \ { "run.cancelled" },
                Terminate("failed", core.latest)),
           Rule(obs.wait # "none", Wait(obs.wait)),
           Rule(obs.kind = "cancel" \/ obs.cancelled,
                Terminate("cancelled", "run.cancelled")),
           Rule(mode = "read" /\ core.revision > 0,
                Terminate("failed", "read.workspace_changed")),
           Rule(proposed /\ calls, ExecuteTools),
           Rule(proposed /\ obs.kind = "user" /\ obs.feedback, CallModel("replan")),
           Rule(incomplete /\ budget, Wait("continuation")),
           Rule(incomplete, CallModel("replan")),
           Rule(proposed \/ (Active(core) /\ plan.pending), Wait("plan_confirmation")),
           Rule(budget, Wait("continuation")),
           Rule(calls, ExecuteTools),
           Rule(replan, CallModel("replan")),
           Rule(recover /\ core.counts[core.latest] <= MaxRecoveries,
                CallModel("recovery")),
           Rule(recover, Terminate("failed", "core.recovery_exhausted")),
           Rule(finished /\ core.blockers # {}, CallModel("recovery")),
           Rule(finished /\ final, Terminate("completed", "plan.completed")),
           Rule(finished, CallModel("final_response")),
           Rule(Active(core) /\ final /\ core.noProgress >= 2,
                Terminate("failed", "plan.reconciliation_exhausted")),
           Rule(Active(core) /\ final, CallModel("reasoning")),
           Rule(NeedsVerification(core), CallModel("verification")),
           Rule(final /\ core.blockers # {}, CallModel("recovery")),
           Rule(final, Terminate("completed", "task.completed")),
           Rule(TRUE, CallModel("reasoning")) >>

Decide(core, obs, mode, limits) ==
    LET rules == Rules(core, obs, mode, limits)
        holds == { i \in DOMAIN rules : rules[i].when }
    IN  rules[CHOOSE i \in holds : \A j \in holds : i <= j].decision

ApplyDecision(core, decision) ==
    LET status == [ completed |-> "satisfied", failed |-> "blocked",
                    cancelled |-> "abandoned" ]
        closes == decision.arg = "completed" /\ Active(core) /\ core.plan.done
        drops == /\ decision.arg \in { "failed", "cancelled" }
                 /\ core.plan.status \in { "proposed", "active" }
    IN  IF decision.do # "end" THEN core
        ELSE [ core EXCEPT
                 !.task = status[decision.arg],
                 !.plan.status = IF closes THEN "completed"
                                 ELSE IF drops THEN "abandoned" ELSE @,
                 !.plan.pending = @ /\ ~drops,
                 !.blockers = IF decision.arg = "completed" THEN {} ELSE @ ]
===============================================================================
