------------------------------- MODULE CoreLoop -------------------------------
(***************************************************************************)
(* One agent run, driven by core/driver.py and resumed, over and over, by  *)
(* runtime/session_coordinator.py.  An entry takes the state and the       *)
(* transcript of the last commit, reduces the observation it starts from,  *)
(* and then decides and acts until Core waits or terminates; every         *)
(* boundary is committed to the session before Core goes past it.          *)
(*                                                                         *)
(* "disk" is what the commits leave behind; it survives Crash, everything  *)
(* else but the world (World) does not.    A commit is one step here:      *)
(* SessionStore models what it is made of and how it fails.                *)
(***************************************************************************)
EXTENDS CoreState

CONSTANTS
    Modes,           \* the modes a run may start in
    Events,          \* what this instance lets happen to the run
    AdmissionKinds,  \* how ToolRuntime.prepare_batch may refuse a call
    HandlerKinds,    \* how a tool handler may end
    BaseTurns, BaseIterations, BaseRepeats,     \* CoreLimits of one entry
    PerTurn,         \* max_tool_calls_per_turn
    Prints,          \* fingerprints of tool batches
    MaxBatch, MaxCalls, MaxEntries, MaxCrashes  \* bounds

ASSUME CoreLoopAssumption ==
    /\ Modes \subseteq { "plan", "build", "read" }
    /\ Events \subseteq { "approve", "reject", "feedback", "abandon", "prompt",
                          "cancel", "exception" }
    /\ AdmissionKinds \subseteq ResultKinds /\ HandlerKinds \subseteq ResultKinds
    /\ BaseTurns \in Nat /\ BaseIterations \in Nat /\ BaseRepeats \in Nat
    /\ PerTurn \in Nat \ {0}
    /\ { MaxBatch, MaxCalls, MaxEntries, MaxCrashes } \subseteq Nat

VARIABLES
    disk,       \* the run, its checkpoint and its messages as committed
    pc,         \* where the process is; "idle": no entry is under way
    core,       \* CoreState
    journal,    \* the messages of the driver, committed or not
    obs,        \* the observation the next decision is about
    entry,      \* CoreRunInput.entry, or the user command being carried out
    limits,     \* CoreRunInput.limits, and the turns at the entry
    catalog,    \* whether catalog_snapshot is set
    decision,   \* the decision being carried out
    batch,      \* the calls being executed and their results so far
    token,      \* the run's cancellation token
    ws,         \* changes made to the workspace so far, without those that
                \* nothing shows any more (lost)
    lost,       \* of which files a crash kept changes from Core: of files it
                \* knew to have changed before, "known", or of others, "new"
    ran,        \* how often the handler of each call has run
    crashes, entries

vars == << disk, pc, core, journal, obs, entry, limits, catalog, decision, batch,
           token, ws, lost, ran, crashes, entries >>
World == << ws, lost, ran >>
Bounds == << crashes, entries >>

Calls == 1..MaxCalls

-------------------------------------------------------------------------------
(* Plausible bugs.  Each operator of this section is a wrong version of a  *)
(* definition further down; none is used by the specification.             *)

UnsettledIgnoringResults(messages) == [ c \in 1..messages.issued |-> c ]

MustSettleOnlyWaits(d) ==
    d.do = "wait" /\ d.arg \notin { "tool_approval", "user_input" }

CancellationSeenAtEntry == token /\ obs.kind = "user"

UnchangedNotChecked == TRUE

-------------------------------------------------------------------------------
(* The transcript. *)

NoMessages == [ said     |-> << >>,     \* the last assistant message, if any
                issued   |-> 0,         \* ToolCalls 1..issued have been said
                answers  |-> [ c \in Calls |-> << >> ],  \* ToolResultMessages of each
                feedback |-> FALSE ]    \* the last user text is not the goal

\* The calls without an answer, in their order.
Unsettled(messages) ==
    LET open == { c \in 1..messages.issued : messages.answers[c] = << >> }
    IN  CHOOSE s \in [ 1..Cardinality(open) -> open ] :
          Range(s) = open /\ \A i, j \in DOMAIN s : i < j => s[i] < s[j]

Append1(messages, message) ==
    [ messages EXCEPT !.said = << message >>, !.issued = @ + Len(message.calls) ]

\* Of the results of a call the first two are kept: no more are told apart.
AppendResults(messages, calls, results) ==
    LET mine(c) == { results[i] : i \in { j \in DOMAIN calls : calls[j] = c } } \ Suspended
    IN  [ messages EXCEPT !.answers =
            [ c \in Calls |-> IF mine(c) = { } \/ Len(@[c]) = 2 THEN @[c]
                              ELSE @[c] \o SetToSeq(mine(c)) ] ]

PrintOf(messages, calls) ==
    IF messages.said # << >> /\ messages.said[1].calls = calls
    THEN messages.said[1].print ELSE 0

Same(kind, calls) == [ i \in DOMAIN calls |-> kind ]

-------------------------------------------------------------------------------
(* Boundaries.  Progress commits write the components of the moment, so a  *)
(* prepared resume that has been consumed is no longer in the checkpoint.  *)

NoWait == [ kind |-> "none", call |-> 0 ]
NoResume == [ call |-> 0, answer |-> "none" ]

ResumePoint(boundary, wait) ==
    CASE boundary = "waiting" /\ wait.kind = "tool_approval" -> "before_tools"
      [] boundary = "waiting" /\ wait.kind # "tool_approval" -> "after_model"
      [] boundary = "before_terminal" -> "before_finalization"
      [] OTHER -> boundary

Commit(boundary, newCore, messages, wait) ==
    disk' = [ disk EXCEPT !.status = IF boundary = "waiting" THEN "waiting" ELSE "running",
                          !.core = newCore, !.messages = messages, !.wait = wait,
                          !.resume = ResumePoint(boundary, wait),
                          !.prepared = NoResume, !.ws = ws ]

NoDecision == [ do |-> "none", arg |-> "", code |-> "" ]
NoEntry == [ kind |-> "none", answers |-> << >> ]
NoBatch == [ calls |-> << >>, results |-> << >> ]
BaseLimits == [ turns |-> BaseTurns, iterations |-> BaseIterations,
                repeated |-> BaseRepeats, start |-> 0 ]

Forget ==
    /\ pc' = "idle" /\ core' = NewCore /\ journal' = NoMessages /\ obs' = Nothing
    /\ entry' = NoEntry /\ limits' = BaseLimits /\ catalog' = FALSE
    /\ decision' = NoDecision /\ batch' = NoBatch /\ token' = FALSE

Init ==
    /\ disk \in { [ status |-> "running", mode |-> m, core |-> NewCore,
                    messages |-> NoMessages, resume |-> "before_model",
                    wait |-> NoWait, prepared |-> NoResume, ws |-> 0 ] : m \in Modes }
    /\ pc = "enter" /\ core = NewCore /\ journal = NoMessages /\ obs = Nothing
    /\ entry = [ NoEntry EXCEPT !.kind = "user" ] /\ limits = BaseLimits
    /\ catalog = FALSE /\ decision = NoDecision /\ batch = NoBatch /\ token = FALSE
    /\ ws = 0 /\ lost = { } /\ ran = [ c \in Calls |-> 0 ] /\ crashes = 0 /\ entries = 1

-------------------------------------------------------------------------------
(* Entering run_core. *)

\* RunExecutor checks the token first: Core never sees the entry.
RefuseCancelled ==
    /\ pc = "enter" /\ token
    /\ decision' = Terminate("cancelled", "runtime.cancelled")
    /\ pc' = "over"
    /\ UNCHANGED << disk, core, journal, obs, entry, limits, catalog, batch, token,
                    World, Bounds >>

EnterWithUserInput ==
    /\ pc = "enter" /\ ~token /\ entry.kind = "user"
    /\ obs' = UserInput(journal.feedback)
    /\ core' = ReduceUserInput(core, obs')
    /\ pc' = "decide"
    /\ UNCHANGED << disk, journal, entry, limits, catalog, decision, batch, token,
                    World, Bounds >>

\* A persisted message is observed, not reduced again.
EnterWithMessage ==
    /\ pc = "enter" /\ ~token /\ entry.kind = "message"
    /\ obs' = ModelSaid(journal.said[1])
    /\ pc' = "decide"
    /\ UNCHANGED << disk, core, journal, entry, limits, catalog, decision, batch,
                    token, World, Bounds >>

EnterWithResults ==
    /\ pc = "enter" /\ ~token /\ entry.kind = "results"
    /\ LET calls == Unsettled(journal)
           results == [ i \in DOMAIN calls |->
                          IF calls[i] \in DOMAIN entry.answers
                          THEN entry.answers[calls[i]] ELSE "incomplete" ]
       IN  /\ obs' = ToolBatch(calls, results)
           /\ core' = ReduceTools(core, results, PrintOf(journal, calls), disk.mode)
           /\ journal' = AppendResults(journal, calls, results)
    /\ Commit("after_tools", core', journal', NoWait)
    /\ pc' = "decide"
    /\ UNCHANGED << entry, limits, catalog, decision, batch, token, World, Bounds >>

-------------------------------------------------------------------------------
(* Deciding. *)

Settle(theCore, calls) ==
    LET results == Same("notExecuted", calls)
    IN  /\ obs' = ToolBatch(calls, results)
        /\ core' = ReduceTools(theCore, results, PrintOf(journal, calls), disk.mode)
        /\ journal' = AppendResults(journal, calls, results)
        /\ Commit("after_tools", core', journal', NoWait)

MustSettle(d) ==
    d.do = "end" \/ (d.do = "wait" /\ d.arg \notin { "tool_approval", "user_input" })

CancellationSeen == token /\ obs.kind # "cancel"

\* The decision is made before the calls it leaves behind are settled.
DecideNext ==
    /\ pc = "decide"
    /\ LET seen == CancellationSeen
           core1 == IF seen THEN ReduceCancellation(core) ELSE core
           obs1 == IF seen THEN Cancellation ELSE obs
       IN  /\ decision' = Decide(core1, obs1, disk.mode, limits)
           /\ batch' = [ NoBatch EXCEPT !.calls = IF decision'.do = "tools"
                                                  THEN obs1.calls ELSE << >> ]
           /\ IF MustSettle(decision') /\ Unsettled(journal) # << >>
              THEN Settle(core1, Unsettled(journal))
              ELSE /\ core' = core1 /\ obs' = obs1
                   /\ UNCHANGED << disk, journal >>
    /\ pc' = "act"
    /\ UNCHANGED << entry, limits, catalog, token, World, Bounds >>

WaitFor == [ kind |-> decision.arg,
             call |-> IF decision.arg \in { "tool_approval", "user_input" }
                      THEN obs.call ELSE 0 ]

CommitWait ==
    /\ pc = "act" /\ decision.do = "wait"
    /\ Commit("waiting", core, journal, WaitFor)
    /\ pc' = "over"
    /\ UNCHANGED << core, journal, obs, entry, limits, catalog, decision, batch, token,
                    World, Bounds >>

CommitTerminal ==
    /\ pc = "act" /\ decision.do = "end"
    /\ core' = ApplyDecision(core, decision)
    /\ Commit("before_terminal", core', journal, NoWait)
    /\ pc' = "over"
    /\ UNCHANGED << journal, obs, entry, limits, catalog, decision, batch, token,
                    World, Bounds >>

\* _commit_run: a waiting run is already committed, unless it was cancelled.
Finish ==
    /\ pc = "over"
    /\ disk' = IF decision.do = "wait" /\ ~token THEN disk
               ELSE [ disk EXCEPT !.status = IF token THEN "cancelled" ELSE decision.arg,
                                  !.wait = NoWait ]
    /\ Forget
    /\ UNCHANGED << World, Bounds >>

-------------------------------------------------------------------------------
(* Calling the model. *)

StartModel ==
    /\ pc = "act" /\ decision.do = "model"
    /\ Commit("before_model", core, journal, NoWait)
    /\ pc' = "model"
    /\ UNCHANGED << core, journal, obs, entry, limits, catalog, decision, batch, token,
                    World, Bounds >>

ObserveModel(o, code) ==
    /\ obs' = o
    /\ core' = ReduceModel(core, o, code)
    /\ catalog' = TRUE
    /\ Commit("after_model", core', journal', NoWait)
    /\ pc' = "decide"
    /\ UNCHANGED << entry, limits, decision, batch, token, World, Bounds >>

ModelReplies(message) ==
    /\ pc = "model"
    /\ journal' = Append1(journal, message)
    /\ ObserveModel(ModelSaid(message),
                    IF message.calls = << >> /\ ~message.text
                    THEN "model.empty_response" ELSE "none")

ModelFails(code) ==
    /\ pc = "model"
    /\ UNCHANGED journal
    /\ ObserveModel(ModelFailed, code)

-------------------------------------------------------------------------------
(* Executing tools. *)

Executable == SubSeq(batch.calls, 1, IF Len(batch.calls) < PerTurn
                                     THEN Len(batch.calls) ELSE PerTurn)

ObserveTools(results) ==
    LET deferred == [ i \in 1..(Len(batch.calls) - Len(results)) |-> "deferred" ]
        all == results \o deferred
    IN  /\ obs' = ToolBatch(batch.calls, all)
        /\ core' = ReduceTools(core, all, PrintOf(journal, batch.calls), disk.mode)
        /\ journal' = AppendResults(journal, batch.calls, all)
        /\ pc' = "decide"

\* prepare_batch: the first call not admitted keeps its result, the batch stops.
Refuse(i, kind) ==
    /\ pc = "act" /\ decision.do = "tools" /\ i \in DOMAIN Executable
    /\ IF catalog THEN kind \in AdmissionKinds ELSE i = 1 /\ kind = "stale"
    /\ ObserveTools([ Same("interrupted", Executable) EXCEPT ![i] = kind ])
    /\ IF kind \in Suspended THEN UNCHANGED disk
       ELSE Commit("after_tools", core', journal', NoWait)
    /\ batch' = NoBatch
    /\ UNCHANGED << entry, limits, catalog, decision, token, World, Bounds >>

Admit ==
    /\ pc = "act" /\ decision.do = "tools" /\ catalog
    /\ Commit("before_tools", core, journal, NoWait)
    /\ pc' = "execute"
    /\ UNCHANGED << core, journal, obs, entry, limits, catalog, decision, batch, token,
                    World, Bounds >>

HandlerRuns(call, kind) ==
    /\ ran' = [ ran EXCEPT ![call] = IF kind \in Suspended \cup { "denied" } THEN @ ELSE @ + 1 ]
    /\ ws' = IF kind \in Changes THEN ws + 1 ELSE ws
    /\ UNCHANGED lost

\* A suspended or denied call interrupts the calls after it; a forced
\* cancellation only ends the handler it finds running.
RunHandler(kind) ==
    LET n == Len(batch.results) + 1
        tail == [ i \in 1..(Len(Executable) - n) |-> "interrupted" ]
    IN  /\ pc = "execute" /\ n <= Len(Executable)
        /\ kind \in HandlerKinds \/ (kind = "cancelled" /\ token)
        /\ batch' = [ batch EXCEPT !.results = @ \o << kind >> \o
                         (IF kind \in Suspended \cup { "denied" } THEN tail ELSE << >>) ]
        /\ HandlerRuns(batch.calls[n], kind)
        /\ UNCHANGED << disk, pc, core, journal, obs, entry, limits, catalog, decision,
                        token, Bounds >>

FinishBatch ==
    /\ pc = "execute" /\ Len(batch.results) = Len(Executable)
    /\ ObserveTools(batch.results)
    /\ Commit("after_tools", core', journal', NoWait)
    /\ batch' = NoBatch
    /\ UNCHANGED << entry, limits, catalog, decision, token, World, Bounds >>

-------------------------------------------------------------------------------
(* Cancellation, unexpected exceptions, crashes. *)

\* Cancellation reaches the process while it is suspended.
Cancel ==
    /\ "cancel" \in Events
    /\ pc \in { "enter", "model", "execute" } /\ ~token
    /\ token' = TRUE
    /\ UNCHANGED << disk, pc, core, journal, obs, entry, limits, catalog, decision,
                    batch, World, Bounds >>

\* _terminate_interrupted_execution, up to its last commit.
Interrupt(status) ==
    LET cancelled == status = "cancelled"
        open == Unsettled(journal)
        results == Same("notExecuted", open)
        settled == IF open = << >> THEN core
                   ELSE ReduceTools(core, results, PrintOf(journal, open), disk.mode)
    IN  /\ \/ pc \in { "model", "execute" }
           \/ pc = "act" /\ decision.do = "tools" /\ ~cancelled
        /\ IF cancelled THEN token ELSE "exception" \in Events
        /\ journal' = AppendResults(journal, open, results)
        /\ IF open = << >> THEN UNCHANGED disk
           ELSE Commit("after_tools", settled, journal', NoWait)
        /\ core' = IF cancelled THEN ReduceCancellation(settled) ELSE settled
        /\ obs' = IF cancelled THEN Cancellation
                  ELSE IF open = << >> THEN obs ELSE ToolBatch(open, results)
        /\ decision' = Terminate(status, IF cancelled THEN "run.cancelled"
                                         ELSE "core.execution_error")
        /\ batch' = NoBatch
        /\ pc' = "act"
        /\ UNCHANGED << entry, limits, catalog, token, World, Bounds >>

\* The changes since the last boundary.  Of the files Core knew to have changed
\* then, and of no others, the checkpoint has the hashes.
LoseChanges ==
    \E files \in (SUBSET { "known", "new" }) \ { { } } :
       /\ disk.core.revision = 0 => "known" \notin files
       /\ lost' = lost \cup files
       /\ ws' = IF "known" \in lost' THEN ws ELSE disk.ws

Crash ==
    /\ pc # "idle" /\ crashes < MaxCrashes
    /\ crashes' = crashes + 1
    /\ Forget
    /\ IF ws = disk.ws THEN UNCHANGED << ws, lost >> ELSE LoseChanges
    /\ UNCHANGED << disk, ran, entries >>

-------------------------------------------------------------------------------
(* The user's side: resuming the run. *)

Live == disk.status \in { "running", "waiting" }
\* workspace_status of inspect_recovery: HEAD and the hashes of the checkpoint
\* are compared.  (Its list of dirty paths is always empty: "git status" has no
\* option --relative.)
Unchanged == ws = disk.ws

Extended ==
    [ turns |-> BaseTurns + disk.core.turns,
      iterations |-> BaseIterations + disk.core.iterations,
      repeated |-> BaseRepeats + disk.core.repeated, start |-> disk.core.turns ]
Base == [ BaseLimits EXCEPT !.start = disk.core.turns ]

Load == core' = disk.core /\ journal' = disk.messages
Idle == /\ pc = "idle" /\ entries < MaxEntries
        /\ entries' = entries + 1
        /\ UNCHANGED << obs, catalog, decision, batch, token, World, crashes >>
Resumed == [ disk EXCEPT !.status = "running", !.wait = NoWait ]

\* _continuation_entry of a run that is not waiting.
RecoveryEntry ==
    LET calls == Unsettled(disk.messages)
    IN  CASE disk.resume \in { "after_model", "before_finalization" } ->
               [ NoEntry EXCEPT !.kind = IF disk.messages.said = << >>
                                         THEN "user" ELSE "message" ]
          [] disk.resume = "before_tools" ->
               [ kind |-> "results", answers |-> [ c \in Range(calls) |-> "ambiguous" ] ]
          [] OTHER -> [ NoEntry EXCEPT !.kind = "user" ]

Recover ==
    /\ Idle /\ disk.status = "running" /\ Unchanged
    /\ disk' = Resumed
    /\ Load /\ limits' = Extended
    /\ IF disk.prepared # NoResume THEN pc' = "resuming" /\ entry' = NoEntry
       ELSE pc' = "enter" /\ entry' = RecoveryEntry

ContinueRun ==
    /\ Idle /\ disk.wait.kind = "continuation" /\ Unchanged
    /\ disk' = Resumed
    /\ Load /\ limits' = Extended
    /\ pc' = "enter" /\ entry' = [ NoEntry EXCEPT !.kind = "user" ]

\* The answer is stored with the run before the call it answers goes on.
Answer(answer) ==
    /\ Idle
    /\ \/ disk.wait.kind = "tool_approval" /\ answer \in { "approve", "deny" } /\ Unchanged
       \/ disk.wait.kind = "user_input" /\ answer = "reply"
    /\ disk' = [ Resumed EXCEPT !.prepared = [ call |-> disk.wait.call,
                                               answer |-> answer ] ]
    /\ Load /\ limits' = Base
    /\ pc' = "resuming" /\ entry' = NoEntry

\* An approval that has expired or no longer fits the call counts as a denial.
\* Tools of category interaction, the only ones that suspend when they run, have
\* no effects to approve.
ExecuteResume(kind) ==
    /\ pc = "resuming"
    /\ kind \in [ approve |-> (HandlerKinds \ Suspended) \cup { "denied" },
                  deny |-> { "denied" },
                  reply |-> { "ok", "error" } ][disk.prepared.answer]
    /\ IF disk.prepared.answer = "approve" THEN HandlerRuns(disk.prepared.call, kind)
       ELSE UNCHANGED World
    /\ entry' = [ kind |-> "results",
                  answers |-> [ c \in { disk.prepared.call } |-> kind ] ]
    /\ pc' = "enter"
    /\ UNCHANGED << disk, core, journal, obs, limits, catalog, decision, batch, token,
                    Bounds >>

\* A prompt while the run waits becomes a continuation with a text: the wait
\* is cleared first, then the text is committed.
Prompt ==
    /\ Idle /\ Unchanged
    /\ \/ disk.wait.kind = "plan_confirmation" /\ "feedback" \in Events /\ limits' = Base
       \/ /\ disk.wait.kind \in { "continuation", "user_input" }
          /\ "prompt" \in Events /\ limits' = Extended
    /\ disk' = Resumed
    /\ Load
    /\ pc' = "prompting" /\ entry' = [ NoEntry EXCEPT !.kind = "user" ]

CommitPrompt ==
    /\ pc = "prompting"
    /\ journal' = [ journal EXCEPT !.feedback = TRUE ]
    /\ disk' = [ disk EXCEPT !.messages = journal', !.resume = "before_model" ]
    /\ pc' = "enter"
    /\ UNCHANGED << core, obs, entry, limits, catalog, decision, batch, token, World,
                    Bounds >>

-------------------------------------------------------------------------------
(* Plan commands of the user, applied to the committed state. *)

PlanOf(status) == Live /\ disk.core.plan.status = status

CommandPlan(newPlan, next) ==
    /\ Idle
    /\ disk' = [ Resumed EXCEPT !.core.plan = newPlan, !.core.noProgress = 0,
                                !.resume = "after_tools" ]
    /\ pc' = next /\ entry' = NoEntry
    /\ UNCHANGED << core, journal, limits >>

ApprovePlan ==
    /\ "approve" \in Events /\ PlanOf("proposed")
    /\ CommandPlan([ disk.core.plan EXCEPT !.status = "active" ], "switching")

ResolveRevision(approved) ==
    /\ "approve" \in Events /\ PlanOf("active") /\ disk.core.plan.pending
    /\ CommandPlan([ disk.core.plan EXCEPT !.pending = FALSE,
                                           !.done = @ /\ ~approved ], "starting")

RejectPlan ==
    /\ "reject" \in Events /\ PlanOf("proposed")
    /\ CommandPlan([ disk.core.plan EXCEPT !.status = "rejected" ], "closing")

AbandonPlan ==
    /\ "abandon" \in Events /\ (PlanOf("proposed") \/ PlanOf("active"))
    /\ CommandPlan([ disk.core.plan EXCEPT !.status = "abandoned", !.pending = FALSE ],
                   "closing")

SwitchToBuild ==
    /\ pc = "switching"
    /\ disk' = [ disk EXCEPT !.mode = "build" ]
    /\ pc' = "starting"
    /\ UNCHANGED << core, journal, obs, entry, limits, catalog, decision, batch, token,
                    World, Bounds >>

\* The continuation of kind plan_approved; it may be refused.
StartApproved ==
    /\ pc = "starting"
    /\ IF Unchanged /\ disk.prepared = NoResume
       THEN /\ Load /\ limits' = Base
            /\ pc' = "enter" /\ entry' = [ NoEntry EXCEPT !.kind = "user" ]
       ELSE pc' = "idle" /\ UNCHANGED << core, journal, limits, entry >>
    /\ UNCHANGED << disk, obs, catalog, decision, batch, token, World, Bounds >>

\* _finish_current_plan_run
CloseRun ==
    /\ pc = "closing"
    /\ disk' = [ disk EXCEPT !.status = "cancelled" ]
    /\ pc' = "idle"
    /\ UNCHANGED << core, journal, obs, entry, limits, catalog, decision, batch, token,
                    World, Bounds >>

-------------------------------------------------------------------------------
Messages ==
    { [ calls |-> [ i \in 1..n |-> journal.issued + i ], print |-> p, text |-> FALSE ] :
        n \in { m \in 1..MaxBatch : journal.issued + m <= MaxCalls }, p \in Prints }
    \cup { [ calls |-> << >>, print |-> 0, text |-> t ] : t \in BOOLEAN }

Driver ==
    \/ RefuseCancelled \/ EnterWithUserInput \/ EnterWithMessage \/ EnterWithResults
    \/ DecideNext \/ CommitWait \/ CommitTerminal \/ Finish
    \/ StartModel
    \/ \E message \in Messages : ModelReplies(message)
    \/ \E code \in { "model.call_failed", "model.fatal" } : ModelFails(code)
    \/ \E i \in 1..MaxBatch, kind \in AdmissionKinds \cup { "stale" } : Refuse(i, kind)
    \/ Admit
    \/ \E kind \in HandlerKinds \cup { "cancelled" } : RunHandler(kind)
    \/ FinishBatch
    \/ \E status \in { "failed", "cancelled" } : Interrupt(status)
    \/ \E kind \in ResultKinds : ExecuteResume(kind)
    \/ CommitPrompt \/ SwitchToBuild \/ StartApproved \/ CloseRun

User ==
    \/ Cancel \/ Recover \/ ContinueRun \/ Prompt
    \/ \E answer \in { "approve", "deny", "reply" } : Answer(answer)
    \/ ApprovePlan \/ RejectPlan \/ AbandonPlan
    \/ \E approved \in BOOLEAN : ResolveRevision(approved)

\* Between two entries nothing has to happen.  Any other state without a
\* successor would be a deadlock of the driver.
Rest == pc = "idle" /\ UNCHANGED vars

Next == Driver \/ User \/ Crash \/ Rest
Spec == Init /\ [][Next]_vars
===============================================================================
