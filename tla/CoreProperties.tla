---------------------------- MODULE CoreProperties ----------------------------
(* What one agent run promises, over all its entries, crashes and resumptions. *)
EXTENDS CoreLoop

Terminal == { "completed", "failed", "cancelled" }
\* The ends and waits that Core decided on.
Decided(kind) == pc = "over" /\ decision.do = kind /\ decision.code # "runtime.cancelled"
Completed == Decided("end") /\ decision.arg = "completed"
NotRun == { "interrupted", "notExecuted", "deferred", "incomplete", "stale" }

(* Every variable keeps its type: the shape the loaders of CoreState and of *)
(* the run file insist on.                                                  *)
CoreTyped(c) ==
    /\ c.task \in { "active", "satisfied", "blocked", "abandoned" }
    /\ c.plan \in PlanStates /\ c.blockers \subseteq Blockers
    /\ c.latest \in Codes \cup { "none" } /\ c.counts \in [ Codes -> 0..CountCap ]
    /\ c.turns \in Nat /\ c.iterations \in Nat /\ c.revision \in Nat
    /\ c.check.status \in { "none", "passed", "failed", "stale" }
    /\ c.check.revision \in 0..c.revision
    /\ c.repeated \in Nat /\ c.noProgress \in 0..2

TypeOK ==
    /\ CoreTyped(core) /\ CoreTyped(disk.core)
    /\ disk.status \in Terminal \cup { "running", "waiting" }
    /\ disk.wait.kind \in { "none", "tool_approval", "user_input", "continuation",
                            "plan_confirmation" }
    /\ disk.resume \in { "before_model", "after_model", "before_tools", "after_tools",
                         "before_finalization" }
    /\ disk.ws \in 0..ws /\ lost \subseteq { "known", "new" }
    /\ pc \in { "idle", "enter", "decide", "act", "model", "execute", "over", "resuming",
                "prompting", "switching", "starting", "closing" }
    /\ ran \in [ Calls -> Nat ] /\ token \in BOOLEAN /\ catalog \in BOOLEAN

-------------------------------------------------------------------------------
(* The transcript *)

(* Whatever ends a run that Core was driving, every tool call it has       *)
(* persisted has a result by then (_settle_unexecuted_calls,               *)
(* _terminate_interrupted_execution).                                      *)
CallsSettledWhenOver == Decided("end") => Unsettled(disk.messages) = << >>

(* As long as no entry is cut off, a call is open only while the user is   *)
(* asked about it: the model is never called with an open call, and a run  *)
(* that waits leaves open the one it waits for and no other.               *)
OpenOnlyForTheUser ==
    /\ pc = "model" => Unsettled(journal) = << >>
    /\ Decided("wait") =>
          Unsettled(disk.messages) = IF disk.wait.call = 0 THEN << >>
                                     ELSE << disk.wait.call >>

(* No call is ever answered twice, over all the entries of a run: the      *)
(* design has one result for each call (docs/design/4tool-design.md:824;   *)
(* driver.py, project_final_tool_messages).  A crash between the           *)
(* resumption of a run that waited and its first commit breaks it          *)
(* (session_coordinator.py, _continuation_entry).                          *)
AnsweredOnce == \A c \in Calls : Len(journal.answers[c]) <= 1

(* What the transcript says of a call is what happened to it: one that is  *)
(* reported as not executed was not, one with a handler's result was       *)
(* (ToolRuntime.prepare_batch, _execute_prepared_items,                    *)
(* project_final_tool_messages).                                           *)
AnswersTellTheTruth ==
    \A c \in Calls : LET answers == Range(disk.messages.answers[c])
                     IN  /\ answers \cap NotRun # {} => ran[c] = 0
                         /\ answers \cap (Commands \cup Changes \cup { "passed", "checkFailed" })
                             # {} => ran[c] = 1

(* The transcript that the model and the files get is sound: calls are open *)
(* only for the user, answered once, and answered with what happened.       *)
TranscriptSound == TypeOK /\ OpenOnlyForTheUser /\ AnsweredOnce /\ AnswersTellTheTruth

-------------------------------------------------------------------------------
(* What a run may claim *)

(* Work that a run without a plan reports as completed has been checked:   *)
(* the last change it made to the workspace was followed by a check that   *)
(* passed (policy.py, verification.required).                              *)
CompletedIsVerified ==
    Completed /\ core.plan.status # "completed" => core.revision = 0 \/ Fresh(core)

\* An exception or a forced cancellation in the middle of a batch settles the
\* calls that have run like those that have not: their change is not recorded.
CutOff == \E c \in Calls : ran[c] > 0 /\ "notExecuted" \in Range(journal.answers[c])

(* A run that was to read only never completes after a change, apart from  *)
(* the changes of new files that a crash kept from it (lost).              *)
ReadRunsOnlyRead == Completed /\ disk.mode = "read" => ws = 0 \/ CutOff

(* When the model is called or the run completes, a changed workspace shows *)
(* in the revision that verification relies on, and no crash has kept from  *)
(* Core what became of a file that it knew to have changed: such a run does *)
(* not go on (_ensure_workspace_recovery).  What a batch that a crash cut   *)
(* off did to other files nothing shows: that is not in ws.                 *)
ChangesAreRecorded ==
    pc = "model" \/ Completed =>
      (ws > 0 => core.revision > 0 \/ CutOff) /\ "known" \notin lost

(* A plan does not outlive its run: when Core has ended the run, its plan  *)
(* is completed, rejected or abandoned (apply_decision).  A run that is    *)
(* cancelled before Core sees the entry keeps its plan (RunExecutor).      *)
PlansEndWithTheRun ==
    disk.status \in Terminal => disk.core.plan.status \notin { "proposed", "active" }

-------------------------------------------------------------------------------
(* Bounds and control *)

(* An entry takes at most one model turn more than its budget, which only  *)
(* an explicit continuation extends (core_limits, _budget_wait).           *)
OneTurnOverBudget ==
    pc \notin { "idle", "resuming", "prompting" } =>
      core.turns <= 1 + IF limits.turns > limits.start THEN limits.turns ELSE limits.start

(* A cancelled run starts nothing any more, neither a model call nor a     *)
(* batch of tools (_cancellation_observation).                             *)
CancelledStartsNothing ==
    [][token /\ pc # pc' => pc' \notin { "model", "execute" }]_vars

(* A call whose handler may have run is never taken for one that has not:  *)
(* until its result is committed, the checkpoint says so (the before_tools *)
(* boundary, or the prepared resume stored with the run).                  *)
ExecutionIsRecorded ==
    \A c \in Calls :
      ran[c] > 0 /\ disk.messages.answers[c] = << >> /\ disk.status = "running" =>
        disk.resume = "before_tools" \/ disk.prepared.call = c

(* What happened to the workspace is not lost on Core, across crashes,      *)
(* exceptions and resumed approvals: neither a change of a file it knew to  *)
(* have changed, nor that a handler may have run, nor, in a run that was to *)
(* read only, a change that shows.                                          *)
EffectsAreRecorded == ChangesAreRecorded /\ ExecutionIsRecorded /\ ReadRunsOnlyRead

===============================================================================
