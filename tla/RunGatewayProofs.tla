-------------------------- MODULE RunGatewayProofs --------------------------
(***************************************************************************)
(* Proofs of the gateway's safety properties for any number of dispatches, *)
(* cancellations and openings of a session.                                *)
(***************************************************************************)
EXTENDS RunGatewayOrder, TLAPS

-----------------------------------------------------------------------------
(* What the operations on an attempt do *)

(* A transition changes the phase only, and to the one it is asked for if  *)
(* the lifecycle allows that (RuntimeLifecycle.transition).                *)
LEMMA ToFacts ==
  ASSUME NEW a \in Attempts, NEW phase \in Phases
  PROVE  /\ To(a, phase) \in Attempts
         /\ To(a, phase) = [a EXCEPT !.phase = To(a, phase).phase]
         /\ phase \in Transitions[a.phase] => To(a, phase).phase = phase
<1>1. "invalid" \in Phases
  BY DEF Phases
<1> QED
  BY <1>1 DEF To, Attempts

(* The transitions that the gateway asks for.                              *)
LEMMA LegalTransitions ==
  /\ "preparing" \in Transitions["new"] /\ "executing" \in Transitions["preparing"]
  /\ {"waiting", "cancelling", "finalizing"} \subseteq Transitions["executing"]
  /\ "finalizing" \in Transitions["cancelling"]
  /\ "terminal" \in Transitions["finalizing"]
  /\ "released" \in Transitions["waiting"] /\ "released" \in Transitions["terminal"]
  BY DEF Transitions

(* Cancelling sets the token once and leaves Core and what was stored      *)
(* alone (RunResourceScope.cancel).                                        *)
LEMMA CancelFacts ==
  ASSUME NEW a \in Attempts, NEW reason \in Reasons \ {"none"}
  PROVE  /\ Cancel(a, reason) \in Attempts
         /\ Cancel(a, reason) = [a EXCEPT !.token = Cancel(a, reason).token,
                                          !.forced = Cancel(a, reason).forced]
         /\ a.token # "none" => Cancel(a, reason).token = a.token
         /\ Accepts(a) => Cancel(a, reason).token # "none"
<1>1. CASE Accepts(a) /\ a.token = "none"
  <2>1. Cancel(a, reason) = [a EXCEPT !.token = reason, !.forced = @ \/ (reason = "deadline")]
    BY <1>1 DEF Cancel
  <2>2. reason \in Reasons /\ (a.forced \/ (reason = "deadline")) \in BOOLEAN
    BY DEF Attempts
  <2> QED
    BY <1>1, <2>1, <2>2 DEF Attempts
<1>2. CASE ~(Accepts(a) /\ a.token = "none")
  <2>1. Cancel(a, reason) = a
    BY <1>2 DEF Cancel
  <2> QED
    BY <1>2, <2>1 DEF Attempts
<1> QED
  BY <1>1, <1>2

(* A new attempt and the records of the first state are well-formed.       *)
LEMMA InitTypes == Init => TypeOK
<1> SUFFICES ASSUME Init PROVE TypeOK
  OBVIOUS
<1>1. NewStore \in Stores /\ NoEntry \in Entries
  BY DEF NewStore, Stores, NoEntry, Entries
<1>2. NewAttempt \in Attempts
  BY DEF NewAttempt, Attempts, Phases, Reasons, Statuses
<1>3. [at |-> "idle", ctl |-> 0, lock |-> 0, held |-> FALSE, raise |-> FALSE, end |-> "none"] \in Tasks
  BY DEF Tasks, Places, Endings
<1>4. 0 \in 0..MaxInterrupts
  BY GatewayBounds
<1> QED
  BY <1>1, <1>2, <1>3, <1>4 DEF Init, TypeOK

-----------------------------------------------------------------------------
(* Types *)

(* A dispatch that ends is still well-formed.                              *)
LEMMA EndTypes ==
  ASSUME TypeOK, NEW d \in Dispatches, NEW end \in Endings
  PROVE  End(d, end) \in [Dispatches -> Tasks]
  BY DEF TypeOK, End, Tasks, Places

(* Admission keeps the types (dispatch).                                   *)
LEMMA AdmissionTypes ==
  ASSUME TypeOK, NEW d \in Dispatches, Arrive(d) \/ Acquire(d) \/ GiveUp(d)
  PROVE  TypeOK'
<1> USE DEF TypeOK
<1>1. End(d, "refused") \in [Dispatches -> Tasks] /\ End(d, "failed") \in [Dispatches -> Tasks]
  BY EndTypes DEF Endings
<1>2. CASE Arrive(d)
  <2>1. "queued" \in Places /\ opening \in Nat /\ lock \in Nat /\ task[d] \in Tasks
    BY DEF Places
  <2>2. [task[d] EXCEPT !.at = "queued", !.ctl = opening, !.lock = lock] \in Tasks
    BY <2>1 DEF Tasks
  <2>3. [task EXCEPT ![d].at = "queued", ![d].ctl = opening, ![d].lock = lock] \in [Dispatches -> Tasks]
    BY <2>2
  <2> QED
    BY <1>1, <1>2, <2>3 DEF Arrive
<1>3. CASE Acquire(d)
  <2>1. [task[d] EXCEPT !.at = "ready"] \in Tasks
    BY DEF Tasks, Places, Holding
  <2>2. [task EXCEPT ![d].at = "ready"] \in [Dispatches -> Tasks]
    BY <2>1
  <2> QED
    BY <1>1, <1>3, <2>2 DEF Acquire
<1>4. CASE GiveUp(d)
  BY <1>1, <1>4 DEF GiveUp
<1> QED
  BY <1>2, <1>3, <1>4

(* The store call of a preparation keeps the types (_prepare_run).         *)
LEMMA PrepareTypes ==
  ASSUME TypeOK, NEW d \in Dispatches, Prepare(d)
  PROVE  TypeOK'
<1>1. store' \in Stores
  BY DEF Prepare, TypeOK, Stores, Runs
<1>2. task' \in [Dispatches -> Tasks] /\ view' \in [1..MaxOpens -> Stores]
  <2>1. [task[d] EXCEPT !.at = "prepared"] \in Tasks
    BY DEF TypeOK, Tasks, Places, Holding
  <2>2. task' \in [Dispatches -> Tasks]
    BY <2>1 DEF Prepare, TypeOK
  <2>3. view' \in [1..MaxOpens -> Stores]
    BY <1>1 DEF Prepare, TypeOK
  <2> QED
    BY <2>2, <2>3
<1>3. attempt' \in [Dispatches -> Attempts]
  <2>1. store'.run \in Runs \cup {None}
    BY <1>1 DEF Stores
  <2>2. attempt[d] \in Attempts
    BY DEF TypeOK
  <2>3. [attempt[d] EXCEPT !.run = store'.run] \in Attempts
    BY <2>1, <2>2 DEF Attempts
  <2> QED
    BY <2>3 DEF Prepare, TypeOK
<1> QED
  BY <1>1, <1>2, <1>3 DEF Prepare, TypeOK

(* A step that gives one dispatch a well-formed task and attempt and       *)
(* leaves the files alone keeps the types.                                 *)
LEMMA RecordsTyped ==
  ASSUME TypeOK, NEW d \in Dispatches, NEW t \in Tasks, NEW a \in Attempts,
         task' = task \/ task' = [task EXCEPT ![d] = t],
         attempt' = attempt \/ attempt' = [attempt EXCEPT ![d] = a],
         entry' \in Entries, UNCHANGED <<opening, isOpen, lock, store, view, interrupts>>
  PROVE  TypeOK'
  BY DEF TypeOK

(* Starting an attempt keeps the types (_execute_prepared_run).            *)
LEMMA StartTypes ==
  ASSUME TypeOK, NEW d \in Dispatches, Start(d)
  PROVE  TypeOK'
<1>1. task[d] \in Tasks /\ attempt[d] \in Attempts /\ entry \in Entries
  BY DEF TypeOK
<1>2. CASE IsRunning
  BY <1>2, EndTypes DEF Start, TypeOK, Endings
<1>3. CASE ~IsRunning
  <2> DEFINE started == [To(To(attempt[d], "preparing"), "executing") EXCEPT !.core = "running"]
  <2>1. To(To(attempt[d], "preparing"), "executing") \in Attempts
    BY <1>1, ToFacts DEF Phases
  <2>2. started \in Attempts
    BY <2>1 DEF Attempts
  <2>3. [task[d] EXCEPT !.at = "stream"] \in Tasks
    BY <1>1 DEF Tasks, Places, Holding
  <2>4. entry' \in Entries
    BY <1>1, <1>3 DEF Start, Entries, Attempts
  <2>5. /\ attempt' = [attempt EXCEPT ![d] = started]
        /\ task' = [task EXCEPT ![d] = [task[d] EXCEPT !.at = "stream"]]
        /\ UNCHANGED <<opening, isOpen, lock, store, view, interrupts>>
    BY <1>3 DEF Start
  <2> HIDE DEF started
  <2> QED
    BY <2>2, <2>3, <2>4, <2>5, RecordsTyped
<1> QED
  BY <1>2, <1>3

(* What happens to Core and its token keeps the types (RunExecutor).       *)
LEMMA CoreTypes ==
  ASSUME TypeOK, NEW d \in Dispatches,
         CoreEnds(d) \/ DeadlinePasses(d) \/ GraceEnds(d) \/ Consume(d) \/ Quiesced(d)
  PROVE  TypeOK'
<1>1. task[d] \in Tasks /\ attempt[d] \in Attempts /\ entry \in Entries
  BY DEF TypeOK
<1>2. CASE CoreEnds(d)
  <2>1. CoreOutcomes(attempt[d]) \subseteq Statuses
    BY <1>1 DEF CoreOutcomes, Statuses, Attempts, Reasons
  <2>2. [attempt[d] EXCEPT !.core = "raised"] \in Attempts
    BY <1>1 DEF Attempts
  <2>3. \A outcome \in Statuses : [attempt[d] EXCEPT !.core = "ended", !.outcome = outcome] \in Attempts
    BY <1>1 DEF Attempts
  <2>4. PICK a \in Attempts : attempt' = [attempt EXCEPT ![d] = a]
    <3>1. CASE attempt' = [attempt EXCEPT ![d].core = "raised"]
      BY <2>2, <3>1
    <3>2. ASSUME NEW outcome \in CoreOutcomes(attempt[d]),
                 attempt' = [attempt EXCEPT ![d].core = "ended", ![d].outcome = outcome]
          PROVE  \E a \in Attempts : attempt' = [attempt EXCEPT ![d] = a]
      <4>1. [attempt[d] EXCEPT !.core = "ended", !.outcome = outcome] \in Attempts
        BY <2>1, <2>3
      <4> QED
        BY <3>2, <4>1
    <3> QED
      BY <1>2, <3>1, <3>2 DEF CoreEnds
  <2> QED
    BY <1>1, <1>2, <2>4, RecordsTyped DEF CoreEnds
<1>3. CASE DeadlinePasses(d)
  <2>1. Cancel(attempt[d], "deadline") \in Attempts
    BY <1>1, CancelFacts DEF Reasons
  <2> QED
    BY <1>1, <1>3, <2>1, RecordsTyped DEF DeadlinePasses
<1>4. CASE GraceEnds(d)
  <2>1. [attempt[d] EXCEPT !.forced = TRUE] \in Attempts
    BY <1>1 DEF Attempts
  <2> QED
    BY <1>1, <1>4, <2>1, RecordsTyped DEF GraceEnds
<1>5. CASE Consume(d)
  <2>1. Sealed(attempt[d]) \in Attempts
    <3>1. [attempt[d] EXCEPT !.sealed = TRUE] \in Attempts
      BY <1>1 DEF Attempts
    <3> QED
      BY <3>1, ToFacts DEF Sealed, Phases
  <2>2. /\ [task[d] EXCEPT !.at = "cleanup", !.end = "failed"] \in Tasks
        /\ [task[d] EXCEPT !.at = "commit"] \in Tasks
    BY <1>1 DEF Tasks, Places, Holding, Endings
  <2>3. \/ /\ attempt' = [attempt EXCEPT ![d] = Sealed(attempt[d])]
           /\ task' = [task EXCEPT ![d] = [task[d] EXCEPT !.at = "commit"]]
        \/ /\ attempt' = attempt
           /\ task' = [task EXCEPT ![d] = [task[d] EXCEPT !.at = "cleanup", !.end = "failed"]]
    BY <1>5 DEF Consume
  <2>4. UNCHANGED <<opening, isOpen, lock, entry, store, view, interrupts>>
    BY <1>5 DEF Consume
  <2> QED
    BY <1>1, <2>1, <2>2, <2>3, <2>4, RecordsTyped
<1>6. CASE Quiesced(d)
  <2>1. To([attempt[d] EXCEPT !.outcome = "cancelled"], "finalizing") \in Attempts
    <3>1. [attempt[d] EXCEPT !.outcome = "cancelled"] \in Attempts
      BY <1>1 DEF Attempts, Statuses
    <3> QED
      BY <3>1, ToFacts DEF Phases
  <2>2. [task[d] EXCEPT !.at = "stopCommit"] \in Tasks
    BY <1>1 DEF Tasks, Places, Holding
  <2> QED
    BY <1>1, <1>6, <2>1, <2>2, RecordsTyped DEF Quiesced
<1> QED
  BY <1>2, <1>3, <1>4, <1>5, <1>6
(* Commits keep the types (_commit_run and its shield).                    *)
LEMMA CommitTypes ==
  ASSUME TypeOK, NEW d \in Dispatches,
         CommitWrites(d) \/ CommitFails(d) \/ CommitReturns(d)
  PROVE  TypeOK'
<1> USE DEF TypeOK
<1>1. task[d] \in Tasks /\ attempt[d] \in Attempts /\ store \in Stores
  OBVIOUS
<1>2. Stored(d) \in Stores
  BY <1>1 DEF Stored, Stores
<1>3. Saved(d) \in Attempts
  <2>1. attempt[d].outcome \in Statuses \cup {"none"}
    BY <1>1 DEF Attempts
  <2> QED
    BY <1>1, <2>1 DEF Saved, Attempts
<1>4. \A a \in Attempts : [a EXCEPT !.orphan = FALSE] \in Attempts
  BY DEF Attempts
<1>5. \A a \in Attempts : To(a, "terminal") \in Attempts /\ To(a, "waiting") \in Attempts
  BY ToFacts DEF Phases
<1> HIDE DEF TypeOK
<1>6. CASE CommitWrites(d)
  <2>1. store' \in Stores /\ attempt' \in [Dispatches -> Attempts]
    BY <1>2, <1>3, <1>6 DEF CommitWrites, TypeOK
  <2>2. view' \in [1..MaxOpens -> Stores]
    BY <1>6, <2>1 DEF CommitWrites, TypeOK
  <2> QED
    BY <1>6, <2>1, <2>2 DEF CommitWrites, TypeOK
<1>7. CASE CommitFails(d)
  <2>1. PICK landed \in {FALSE} \cup {StoreAccepts(d)} :
          LET a == IF landed THEN Saved(d) ELSE attempt[d]
          IN  /\ store' = IF landed THEN Stored(d) ELSE store
              /\ attempt' = [attempt EXCEPT
                   ![d] = IF a.orphan THEN [a EXCEPT !.orphan = FALSE] ELSE To(a, "terminal")]
    BY <1>7 DEF CommitFails
  <2> DEFINE a == IF landed THEN Saved(d) ELSE attempt[d]
  <2>2. a \in Attempts
    BY <1>1, <1>3
  <2> HIDE DEF a
  <2>3. attempt' \in [Dispatches -> Attempts]
    BY <1>4, <1>5, <2>1, <2>2 DEF TypeOK, a
  <2>4. store' \in Stores
    BY <1>1, <1>2, <2>1
  <2>5. [task[d] EXCEPT !.at = "cleanup", !.held = FALSE, !.end = "failed"] \in Tasks
    BY <1>1 DEF Tasks, Places, Holding, Endings
  <2>6. task' \in [Dispatches -> Tasks]
    BY <1>7, <2>5 DEF CommitFails, TypeOK
  <2> QED
    BY <1>7, <2>3, <2>4, <2>6 DEF CommitFails, TypeOK
<1>8. CASE CommitReturns(d)
  <2>1. attempt' \in [Dispatches -> Attempts]
    <3>1. CASE attempt[d].orphan
      <4>1. [attempt[d] EXCEPT !.orphan = FALSE] \in Attempts
        BY <1>1, <1>4
      <4>2. attempt' = [attempt EXCEPT ![d] = [attempt[d] EXCEPT !.orphan = FALSE]]
        BY <1>8, <3>1 DEF CommitReturns
      <4> QED
        BY <4>1, <4>2 DEF TypeOK
    <3>2. CASE ~attempt[d].orphan
      <4>1. \/ attempt' = [attempt EXCEPT ![d] = To(attempt[d], "waiting")]
            \/ attempt' = [attempt EXCEPT ![d] = To(attempt[d], "terminal")]
        BY <1>8, <3>2 DEF CommitReturns
      <4> QED
        BY <1>1, <1>5, <4>1 DEF TypeOK
    <3> QED
      BY <3>1, <3>2
  <2>2. task' \in [Dispatches -> Tasks]
    <3>1. \A at \in {"release", "stopRelease"} :
            [task[d] EXCEPT !.at = at, !.raise = task[d].held, !.held = FALSE] \in Tasks
      BY <1>1 DEF Tasks, Places, Holding
    <3> QED
      BY <1>8, <3>1 DEF CommitReturns, TypeOK
  <2> QED
    BY <1>8, <2>1, <2>2 DEF CommitReturns, TypeOK
<1> QED
  BY <1>6, <1>7, <1>8

(* The last frame of a dispatch is one of its endings.                     *)
LEMMA LastFrameType ==
  ASSUME NEW outcome \in Statuses PROVE LastFrame(outcome) \in Endings
  BY DEF Statuses, LastFrame, Endings

(* The release keeps the types, of an attempt that has an outcome when its *)
(* dispatch waits for the release                   *)
(* (RunResourceScope.release, RuntimeGateway._execute_prepared_run).       *)
LEMMA ReleaseTypes ==
  ASSUME TypeOK, NEW d \in Dispatches, Released(d) \/ Finished(d),
         task[d].at = "release" => attempt[d].outcome \in Statuses
  PROVE  TypeOK'
<1>1. task[d] \in Tasks /\ attempt[d] \in Attempts /\ entry \in Entries
  BY DEF TypeOK
<1>2. Finish(attempt[d].run) \in Entries
  BY <1>1 DEF Finish, Entries, NoEntry
<1>3. task[d].end \in Endings
  BY <1>1 DEF Tasks
<1>4. CASE Finished(d)
  BY <1>2, <1>3, <1>4, EndTypes DEF Finished, TypeOK
<1>5. CASE Released(d)
  <2>1. \A marks \in BOOLEAN : MarkReleased(attempt[d], marks) \in Attempts
    <3>1. [attempt[d] EXCEPT !.released = TRUE] \in Attempts
      BY <1>1 DEF Attempts
    <3> QED
      BY <3>1, ToFacts DEF MarkReleased, Phases
  <2>2. attempt' \in [Dispatches -> Attempts] /\ entry' \in Entries
    BY <1>1, <1>2, <1>5, <2>1 DEF Released, TypeOK
  <2>3. task[d].at = "release" =>
          [task EXCEPT ![d].at = "frames", ![d].end = LastFrame(attempt[d].outcome)]
            \in [Dispatches -> Tasks]
    <3> SUFFICES ASSUME task[d].at = "release"
                 PROVE  [task[d] EXCEPT !.at = "frames", !.end = LastFrame(attempt[d].outcome)] \in Tasks
      BY DEF TypeOK
    <3>1. LastFrame(attempt[d].outcome) \in Endings /\ "frames" \in Places
      BY LastFrameType DEF TypeOK, Places, Holding
    <3> QED
      BY <1>1, <3>1 DEF Tasks
  <2>4. task' \in [Dispatches -> Tasks]
    BY <1>3, <1>5, <2>3, EndTypes DEF Released, Releasing, TypeOK, Endings
  <2> QED
    BY <1>5, <2>2, <2>4 DEF Released, TypeOK
<1> QED
  BY <1>4, <1>5
(* What the reader of a dispatch does keeps the types (dispatch).          *)
LEMMA ReaderTypes ==
  ASSUME TypeOK, NEW d \in Dispatches, Interrupt(d) \/ Abandon(d)
  PROVE  TypeOK'
<1>1. task[d] \in Tasks /\ attempt[d] \in Attempts
  BY DEF TypeOK
<1>2. [task[d] EXCEPT !.at = "dropped"] \in Tasks /\ [task[d] EXCEPT !.at = "quiesce"] \in Tasks
  BY <1>1 DEF Tasks, Places, Holding
<1>3. /\ [attempt[d] EXCEPT !.forced = TRUE] \in Attempts
      /\ [attempt[d] EXCEPT !.orphan = TRUE] \in Attempts
  BY <1>1 DEF Attempts
<1>4. CASE Abandon(d)
  BY <1>2, <1>3, <1>4 DEF Abandon, TypeOK
<1>5. CASE Interrupt(d)
  <2>1. interrupts' \in [Dispatches -> 0..MaxInterrupts]
    <3>1. interrupts[d] < MaxInterrupts /\ interrupts[d] \in 0..MaxInterrupts
      BY <1>5 DEF Interrupt, TypeOK
    <3>2. interrupts[d] + 1 \in 0..MaxInterrupts
      BY <3>1, GatewayBounds
    <3> QED
      BY <1>5, <3>2 DEF Interrupt, TypeOK
  <2>2. Escape(d) \in [Dispatches -> Tasks] /\ Hold(d) \in [Dispatches -> Tasks]
    <3>1. [task[d] EXCEPT !.at = "cleanup", !.held = FALSE, !.end = "raised"] \in Tasks
      BY <1>1 DEF Tasks, Places, Holding, Endings
    <3>2. [task[d] EXCEPT !.held = TRUE] \in Tasks
      BY <1>1 DEF Tasks
    <3> QED
      BY <3>1, <3>2 DEF Escape, Hold, TypeOK
  <2>3. StreamCancelled(attempt[d]) \in Attempts
    <3>1. Cancel(attempt[d], "cancelled") \in Attempts
      BY <1>1, CancelFacts DEF Reasons
    <3>2. [Cancel(attempt[d], "cancelled") EXCEPT !.forced = TRUE] \in Attempts
      BY <3>1 DEF Attempts
    <3> QED
      BY <3>2, ToFacts DEF StreamCancelled, Phases
  <2>4. End(d, "raised") \in [Dispatches -> Tasks]
    BY EndTypes DEF Endings
  <2>5. task' \in [Dispatches -> Tasks] /\ attempt' \in [Dispatches -> Attempts]
    BY <1>2, <1>3, <1>5, <2>2, <2>3, <2>4 DEF Interrupt, Interrupted, TypeOK
  <2> QED
    BY <1>5, <2>1, <2>5 DEF Interrupt, TypeOK
<1> QED
  BY <1>4, <1>5

(* Cancelling, closing and opening a session keep the types.               *)
LEMMA SessionTypes ==
  ASSUME TypeOK, UserCancels \/ Close \/ Open
  PROVE  TypeOK'
<1>1. ASSUME entry.attempt \in Dispatches
      PROVE  /\ Cancel(attempt[entry.attempt], "cancelled") \in Attempts
             /\ [Cancel(attempt[entry.attempt], "cancelled") EXCEPT
                   !.accepted = Acceptance(attempt[entry.attempt])] \in Attempts
  <2>1. Cancel(attempt[entry.attempt], "cancelled") \in Attempts
    BY <1>1, CancelFacts DEF Reasons, TypeOK
  <2>2. Acceptance(attempt[entry.attempt]) \in {"no", "running", "ended"}
    BY <1>1 DEF Acceptance, TypeOK, Attempts
  <2> QED
    BY <2>1, <2>2 DEF Attempts
<1>2. CASE UserCancels
  <2>1. attempt' \in [Dispatches -> Attempts]
    BY <1>1, <1>2 DEF UserCancels, TypeOK
  <2> QED
    BY <1>2, <2>1 DEF UserCancels, TypeOK
<1>3. CASE Close
  <2>1. attempt' \in [Dispatches -> Attempts]
    BY <1>1, <1>3 DEF Close, TypeOK
  <2>2. entry' \in Entries
    BY <1>3 DEF Close, TypeOK, Entries, NoEntry
  <2>3. lock' \in Nat /\ isOpen' \in BOOLEAN
    <3>1. lock' = lock + 1 /\ isOpen' = FALSE
      BY <1>3 DEF Close
    <3>2. lock' \in Nat
      BY <3>1 DEF TypeOK
    <3> QED
      BY <3>1, <3>2
  <2>4. UNCHANGED <<opening, store, view, task, interrupts>>
    BY <1>3 DEF Close
  <2> QED
    BY <2>1, <2>2, <2>3, <2>4 DEF TypeOK
<1>4. CASE Open
  <2>1. opening' \in Nat /\ isOpen' \in BOOLEAN
    BY <1>4 DEF Open, TypeOK
  <2>2. view' \in [1..MaxOpens -> Stores]
    BY <1>4 DEF Open, TypeOK
  <2>3. UNCHANGED <<lock, entry, store, task, attempt, interrupts>>
    BY <1>4 DEF Open
  <2> QED
    BY <2>1, <2>2, <2>3 DEF TypeOK
<1> QED
  BY <1>2, <1>3, <1>4
-----------------------------------------------------------------------------
(* The order of a dispatch *)

(* The order of a dispatch depends on its task and its attempt only.       *)
LEMMA OrderKept ==
  ASSUME NEW d \in Dispatches, OrderOf(d), task'[d] = task[d], attempt'[d] = attempt[d]
  PROVE  OrderOf(d)'
  BY DEF OrderOf, PhaseOf, OutcomeOf, AcceptedOf, EndOf, Started, Accepts

(* A dispatch that ends before it started an attempt.                      *)
LEMMA OrderRefused ==
  ASSUME TypeOK, NEW d \in Dispatches, OrderOf(d), task[d].at \in Before,
         NEW end \in {"refused", "failed", "raised"}, task' = End(d, end), UNCHANGED attempt
  PROVE  OrderOf(d)'
<1>1. task'[d].at = "done" /\ task'[d].end = end
  BY DEF End, TypeOK, Tasks
<1> QED
  BY <1>1 DEF OrderOf, PhaseOf, OutcomeOf, AcceptedOf, EndOf, Started, Accepts, Before, Owning, Stopping

(* Admission keeps the order (dispatch).                                   *)
LEMMA OrderAdmission ==
  ASSUME TypeOK, NEW d \in Dispatches, OrderOf(d), Arrive(d) \/ Acquire(d) \/ Prepare(d) \/ GiveUp(d)
  PROVE  OrderOf(d)'
<1> USE DEF OrderOf, PhaseOf, OutcomeOf, AcceptedOf, EndOf, Started, Accepts, Before, Owning, Stopping
<1>1. task[d] \in Tasks /\ attempt[d] \in Attempts
  BY DEF TypeOK
<1>2. CASE Arrive(d)
  <2>1. CASE task' = End(d, "refused")
    BY <1>2, <2>1, OrderRefused DEF Arrive
  <2>2. CASE task' = [task EXCEPT ![d].at = "queued", ![d].ctl = opening, ![d].lock = lock]
    <3>1. task'[d].at = "queued" /\ task'[d].end = task[d].end /\ task[d].at = "idle" /\ attempt' = attempt
      BY <1>1, <1>2, <2>2 DEF Arrive, Tasks, TypeOK
    <3> QED
      BY <3>1
  <2> QED
    BY <1>2, <2>1, <2>2 DEF Arrive
<1>3. CASE Acquire(d)
  <2>1. CASE task' = End(d, "refused")
    BY <1>3, <2>1, OrderRefused DEF Acquire
  <2>2. CASE task' = [task EXCEPT ![d].at = "ready"]
    <3>1. task'[d].at = "ready" /\ task'[d].end = task[d].end /\ task[d].at = "queued" /\ attempt' = attempt
      BY <1>1, <1>3, <2>2 DEF Acquire, Tasks, TypeOK
    <3> QED
      BY <3>1
  <2> QED
    BY <1>3, <2>1, <2>2 DEF Acquire
<1>4. CASE GiveUp(d)
  BY <1>1, <1>4, OrderRefused DEF GiveUp
<1>5. CASE Prepare(d)
  BY <1>1, <1>5 DEF Prepare, Tasks, TypeOK, Attempts
<1> QED
  BY <1>2, <1>3, <1>4, <1>5
(* Starting an attempt takes its lifecycle to "executing".                 *)
LEMMA OrderStart ==
  ASSUME TypeOK, NEW d \in Dispatches, OrderOf(d), Start(d)
  PROVE  OrderOf(d)'
<1>1. task[d] \in Tasks /\ attempt[d] \in Attempts /\ task[d].at = "prepared"
  BY DEF TypeOK, Start
<1>2. CASE IsRunning
  BY <1>1, <1>2, OrderRefused DEF Start, Before
<1>3. CASE ~IsRunning
  <2> DEFINE first == To(attempt[d], "preparing")
             second == To(first, "executing")
  <2>1. first \in Attempts /\ first = [attempt[d] EXCEPT !.phase = "preparing"]
    BY <1>1, ToFacts, LegalTransitions DEF OrderOf, PhaseOf, Before, Phases
  <2>2. second \in Attempts /\ second = [first EXCEPT !.phase = "executing"]
    <3>1. first.phase = "preparing"
      BY <1>1, <2>1 DEF Attempts
    <3> QED
      BY <2>1, <3>1, ToFacts, LegalTransitions DEF Phases
  <2>3. second = [attempt[d] EXCEPT !.phase = "executing"]
    BY <1>1, <2>1, <2>2 DEF Attempts
  <2>4. attempt'[d] = [second EXCEPT !.core = "running"]
    <3> HIDE DEF second
    <3>1. attempt' = [attempt EXCEPT ![d] = [second EXCEPT !.core = "running"]]
      BY <1>3 DEF Start, second
    <3> QED
      BY <3>1 DEF TypeOK
  <2> HIDE DEF first, second
  <2>41. attempt'[d] = [attempt[d] EXCEPT !.phase = "executing", !.core = "running"]
    BY <2>3, <2>4
  <2>5. task'[d] = [task[d] EXCEPT !.at = "stream"]
    BY <1>3 DEF Start, TypeOK
  <2> USE <1>1, <2>41, <2>5 DEF OrderOf, Started, Accepts, Before, Owning, Stopping, Tasks, Attempts
  <2>6. PhaseOf(d)'
    BY DEF PhaseOf
  <2>7. OutcomeOf(d)'
    BY DEF PhaseOf, OutcomeOf, Statuses
  <2>8. AcceptedOf(d)'
    BY DEF AcceptedOf
  <2>9. EndOf(d)'
    BY DEF EndOf
  <2> QED
    BY <2>6, <2>7, <2>8, <2>9
<1> QED
  BY <1>2, <1>3

(* An attempt whose token is set or whose grace period ends, and nothing   *)
(* else, stays in order.                                                   *)
LEMMA OrderCancelled ==
  ASSUME TypeOK, NEW d \in Dispatches, OrderOf(d), UNCHANGED task[d],
         NEW token \in Reasons, NEW forced \in BOOLEAN,
         attempt'[d] = [attempt[d] EXCEPT !.token = token, !.forced = forced],
         attempt[d].token # "none" => token # "none"
  PROVE  OrderOf(d)'
<1>1. attempt[d] \in Attempts
  BY DEF TypeOK
<1> QED
  BY <1>1 DEF OrderOf, PhaseOf, OutcomeOf, AcceptedOf, EndOf, Started, Accepts, Attempts

(* Core ends with an outcome that its token allows.                        *)
LEMMA OrderCoreEnds ==
  ASSUME TypeOK, NEW d \in Dispatches, OrderOf(d), CoreEnds(d)
  PROVE  OrderOf(d)'
<1>1. task[d] \in Tasks /\ attempt[d] \in Attempts /\ task' = task
  BY DEF TypeOK, CoreEnds
<1>2. CASE attempt' = [attempt EXCEPT ![d].core = "raised"]
  BY <1>1, <1>2
     DEF OrderOf, PhaseOf, OutcomeOf, AcceptedOf, EndOf, Started, Accepts, CoreEnds, Attempts, TypeOK, Statuses
<1>3. ASSUME NEW outcome \in CoreOutcomes(attempt[d]),
             attempt' = [attempt EXCEPT ![d].core = "ended", ![d].outcome = outcome]
      PROVE  OrderOf(d)'
  <2>1. /\ outcome \in Statuses
        /\ attempt[d].token # "none" => outcome \notin {"completed", "waiting"}
    BY <1>1 DEF CoreOutcomes, Attempts, Reasons, Statuses
  <2>2. /\ attempt'[d] = [attempt[d] EXCEPT !.core = "ended", !.outcome = outcome]
        /\ attempt[d].core = "running"
        /\ task[d].at \in {"stream", "quiesce", "cleanup", "dropped", "done"}
    BY <1>3 DEF CoreEnds, TypeOK, OrderOf, OutcomeOf
  <2> USE <1>1, <2>1, <2>2 DEF OrderOf, Started, Accepts, Attempts
  <2>3. PhaseOf(d)'
    BY DEF PhaseOf, Before
  <2>4. OutcomeOf(d)'
    BY DEF OutcomeOf, Statuses
  <2>5. AcceptedOf(d)'
    BY DEF AcceptedOf
  <2>6. EndOf(d)'
    BY DEF EndOf
  <2> QED
    BY <2>3, <2>4, <2>5, <2>6
<1> QED
  BY <1>2, <1>3 DEF CoreEnds
(* The stream has ended: its outcome is committed next, or the exception   *)
(* of a boundary commit leads to the cleanup.                              *)
LEMMA OrderConsume ==
  ASSUME TypeOK, NEW d \in Dispatches, OrderOf(d), Consume(d)
  PROVE  OrderOf(d)'
<1>1. task[d] \in Tasks /\ attempt[d] \in Attempts /\ task[d].at = "stream"
  BY DEF TypeOK, Consume
<1>2. CASE attempt[d].core = "raised" /\ UNCHANGED attempt
           /\ task' = [task EXCEPT ![d].at = "cleanup", ![d].end = "failed"]
  <2>1. /\ task'[d] = [task[d] EXCEPT !.at = "cleanup", !.end = "failed"]
        /\ attempt'[d] = attempt[d] /\ attempt[d].core = "raised"
    BY <1>2 DEF TypeOK
  <2>2. task'[d].at = "cleanup" /\ task'[d].end = "failed"
    BY <1>1, <2>1 DEF Tasks
  <2> USE <1>1, <2>1, <2>2 DEF OrderOf, Started, Accepts, Before, Owning, Stopping
  <2>3. PhaseOf(d)'
    BY DEF PhaseOf
  <2>4. OutcomeOf(d)'
    BY DEF OutcomeOf
  <2>5. AcceptedOf(d)'
    BY DEF AcceptedOf
  <2>6. EndOf(d)'
    BY DEF EndOf
  <2> QED
    BY <2>3, <2>4, <2>5, <2>6
<1>3. CASE /\ attempt[d].core = "ended" /\ attempt' = [attempt EXCEPT ![d] = Sealed(attempt[d])]
           /\ task' = [task EXCEPT ![d].at = "commit"]
  <2> DEFINE sealed == [attempt[d] EXCEPT !.sealed = TRUE]
             phase == IF attempt[d].outcome = "waiting" THEN "executing" ELSE "finalizing"
  <2>1. sealed \in Attempts /\ sealed.phase = "executing"
    BY <1>1 DEF Attempts, OrderOf, PhaseOf
  <2>2. Sealed(attempt[d]) = [attempt[d] EXCEPT !.sealed = TRUE, !.phase = phase]
    <3>1. To(sealed, "finalizing") = [sealed EXCEPT !.phase = "finalizing"]
      <4> HIDE DEF sealed
      <4> QED
        BY <2>1, ToFacts, LegalTransitions DEF Phases
    <3>2. attempt[d].phase = "executing"
      BY <1>1 DEF OrderOf, PhaseOf
    <3> QED
      BY <1>1, <3>1, <3>2 DEF Sealed, Attempts
  <2> HIDE DEF sealed
  <2>3. /\ attempt'[d] = [attempt[d] EXCEPT !.sealed = TRUE, !.phase = phase]
        /\ task'[d] = [task[d] EXCEPT !.at = "commit"]
        /\ attempt[d].core = "ended"
    BY <1>3, <2>2 DEF TypeOK
  <2>4. attempt[d].outcome \in Statuses
    BY <1>1, <2>3 DEF OrderOf, OutcomeOf
  <2> HIDE DEF phase
  <2>5. /\ task'[d].at = "commit" /\ task'[d].end = task[d].end
        /\ attempt'[d].phase = phase
        /\ \A f \in {"core", "outcome", "token", "accepted", "wrote", "saved", "orphan", "released"} :
             attempt'[d][f] = attempt[d][f]
    BY <1>1, <2>3 DEF Tasks, Attempts
  <2>6. /\ attempt'[d].core = "ended" /\ attempt'[d].outcome = attempt[d].outcome
        /\ attempt'[d].token = attempt[d].token /\ attempt'[d].accepted = attempt[d].accepted
        /\ attempt'[d].wrote = attempt[d].wrote /\ attempt'[d].saved = attempt[d].saved
        /\ attempt'[d].orphan = attempt[d].orphan
    BY <2>3, <2>5
  <2> USE <1>1, <2>4, <2>5, <2>6 DEF OrderOf, Started, Accepts, Before, Owning, Stopping
  <2>7. PhaseOf(d)'
    BY DEF PhaseOf, phase
  <2>8. OutcomeOf(d)'
    BY <2>3 DEF OutcomeOf
  <2>9. AcceptedOf(d)'
    BY DEF AcceptedOf
  <2>10. EndOf(d)'
    BY DEF EndOf
  <2> QED
    BY <2>7, <2>8, <2>9, <2>10
<1> QED
  BY <1>2, <1>3 DEF Consume

(* The stopped stream's outcome is "cancelled" (RunResourceScope.quiesce). *)
LEMMA OrderQuiesced ==
  ASSUME TypeOK, NEW d \in Dispatches, OrderOf(d), Quiesced(d)
  PROVE  OrderOf(d)'
<1> DEFINE stopped == [attempt[d] EXCEPT !.outcome = "cancelled"]
<1>1. task[d] \in Tasks /\ attempt[d] \in Attempts /\ task[d].at = "quiesce"
      /\ attempt[d].core # "running" /\ attempt[d].phase = "cancelling"
  BY DEF TypeOK, Quiesced, TasksDone, OrderOf, PhaseOf
<1>2. stopped \in Attempts /\ stopped.phase = "cancelling"
  BY <1>1 DEF Attempts, Statuses
<1>3. To(stopped, "finalizing") = [stopped EXCEPT !.phase = "finalizing"]
  <2> HIDE DEF stopped
  <2> QED
    BY <1>2, ToFacts, LegalTransitions DEF Phases
<1>4. To(stopped, "finalizing") = [attempt[d] EXCEPT !.outcome = "cancelled", !.phase = "finalizing"]
  BY <1>1, <1>3 DEF Attempts
<1> HIDE DEF stopped
<1>5. /\ attempt'[d] = [attempt[d] EXCEPT !.outcome = "cancelled", !.phase = "finalizing"]
      /\ task'[d] = [task[d] EXCEPT !.at = "stopCommit"]
  BY <1>4 DEF Quiesced, TypeOK, stopped
<1> USE <1>1, <1>5 DEF OrderOf, Started, Accepts, Before, Owning, Stopping, Tasks, Attempts
<1>6. PhaseOf(d)'
  BY DEF PhaseOf
<1>7. OutcomeOf(d)'
  BY DEF OutcomeOf, PhaseOf, Statuses
<1>8. AcceptedOf(d)' /\ EndOf(d)'
  BY DEF AcceptedOf, EndOf
<1> QED
  BY <1>6, <1>7, <1>8

(* While a commit is under way its outcome is known and Core has ended.    *)
LEMMA CommittingFacts ==
  ASSUME NEW d \in Dispatches, OrderOf(d), Committing(d), attempt[d] \in Attempts
  PROVE  /\ attempt[d].outcome \in Statuses
         /\ attempt[d].core \in {"ended", "raised"} /\ Started(attempt[d])
         /\ task[d].at \in {"commit", "stopCommit", "cleanup", "done"}
         /\ attempt[d].orphan => task[d].at \in {"cleanup", "done"}
<1>1. Started(attempt[d])
  BY DEF Committing, OrderOf, PhaseOf, OutcomeOf, Owning, Stopping, Started, Statuses
<1> QED
  BY <1>1 DEF Committing, OrderOf, OutcomeOf, Attempts, Started

(* A commit stores the outcome of its attempt.                             *)
LEMMA OrderCommitWrites ==
  ASSUME TypeOK, NEW d \in Dispatches, OrderOf(d), CommitWrites(d)
  PROVE  OrderOf(d)'
<1>1. task[d] \in Tasks /\ attempt[d] \in Attempts /\ Committing(d)
  BY DEF TypeOK, CommitWrites
<1>2. /\ attempt'[d] = [attempt[d] EXCEPT !.wrote = TRUE, !.saved = attempt[d].outcome]
      /\ task'[d] = task[d] /\ ~attempt[d].wrote
  BY DEF CommitWrites, Saved, TypeOK
<1> USE <1>1, <1>2, CommittingFacts DEF OrderOf, Started, Accepts, Attempts
<1>3. PhaseOf(d)'
  BY DEF PhaseOf
<1>4. OutcomeOf(d)'
  BY DEF OutcomeOf
<1>5. AcceptedOf(d)' /\ EndOf(d)'
  BY DEF AcceptedOf, EndOf
<1> QED
  BY <1>3, <1>4, <1>5

(* A failed commit ends the attempt and leads to the cleanup; one whose    *)
(* waiter is gone is only forgotten.                                       *)
LEMMA OrderCommitFails ==
  ASSUME TypeOK, NEW d \in Dispatches, OrderOf(d), CommitFails(d)
  PROVE  OrderOf(d)'
<1>1. /\ task[d] \in Tasks /\ attempt[d] \in Attempts /\ Committing(d)
      /\ ~attempt[d].wrote /\ attempt[d].outcome # "waiting"
  BY DEF TypeOK, CommitFails
<1>2. PICK landed \in {FALSE} \cup {StoreAccepts(d)} :
        LET a == IF landed THEN Saved(d) ELSE attempt[d]
        IN  attempt' = [attempt EXCEPT
                 ![d] = IF a.orphan THEN [a EXCEPT !.orphan = FALSE] ELSE To(a, "terminal")]
  BY DEF CommitFails
<1> DEFINE a == IF landed THEN Saved(d) ELSE attempt[d]
<1>3. /\ a \in Attempts
      /\ a.phase = attempt[d].phase /\ a.core = attempt[d].core /\ a.outcome = attempt[d].outcome
      /\ a.token = attempt[d].token /\ a.accepted = attempt[d].accepted
      /\ a.orphan = attempt[d].orphan
      /\ ~a.wrote => a.saved = "none"
      /\ a.wrote => a.saved = a.outcome
  <2>1. attempt[d].saved = "none"
    BY <1>1 DEF OrderOf, OutcomeOf
  <2>2. CASE ~landed
    BY <1>1, <2>1, <2>2
  <2>3. CASE landed
    <3>1. a = Saved(d)
      BY <2>3
    <3> HIDE DEF a
    <3> QED
      BY <1>1, <3>1 DEF Saved, Attempts
  <2> QED
    BY <2>2, <2>3
<1>4. attempt'[d] = IF a.orphan THEN [a EXCEPT !.orphan = FALSE] ELSE To(a, "terminal")
  BY <1>2 DEF TypeOK
<1> HIDE DEF a
<1>5. CASE attempt[d].orphan
  <2>1. task'[d] = task[d] /\ attempt'[d] = [a EXCEPT !.orphan = FALSE]
    BY <1>3, <1>4, <1>5 DEF CommitFails
  <2> USE <1>1, <1>3, <1>5, <2>1, CommittingFacts
          DEF OrderOf, Started, Accepts, Attempts, Owning, Stopping, Before
  <2>2. PhaseOf(d)'
    BY DEF PhaseOf
  <2>3. OutcomeOf(d)'
    BY DEF OutcomeOf
  <2>4. AcceptedOf(d)'
    BY DEF AcceptedOf
  <2>5. EndOf(d)'
    BY DEF EndOf
  <2> QED
    BY <2>2, <2>3, <2>4, <2>5
<1>6. CASE ~attempt[d].orphan
  <2>1. task'[d].at = "cleanup" /\ task'[d].end = "failed"
    BY <1>1, <1>6 DEF CommitFails, TypeOK, Tasks
  <2>2. attempt[d].phase = "finalizing"
    BY <1>1, <1>6 DEF Committing, OrderOf, PhaseOf
  <2>3. attempt'[d] = [a EXCEPT !.phase = "terminal"]
    BY <1>3, <1>4, <1>6, <2>2, ToFacts, LegalTransitions DEF Phases
  <2> USE <1>1, <1>3, <1>6, <2>1, <2>3, CommittingFacts
          DEF OrderOf, Started, Accepts, Attempts, Owning, Stopping, Before
  <2>4. PhaseOf(d)'
    BY DEF PhaseOf
  <2>5. OutcomeOf(d)'
    BY DEF OutcomeOf
  <2>6. AcceptedOf(d)'
    BY DEF AcceptedOf
  <2>7. EndOf(d)'
    BY DEF EndOf
  <2> QED
    BY <2>4, <2>5, <2>6, <2>7
<1> QED
  BY <1>5, <1>6

(* A commit that has written leads to the release; one whose waiter is     *)
(* gone is only forgotten.                                                 *)
LEMMA OrderCommitReturns ==
  ASSUME TypeOK, NEW d \in Dispatches, OrderOf(d), CommitReturns(d)
  PROVE  OrderOf(d)'
<1>1. /\ task[d] \in Tasks /\ attempt[d] \in Attempts /\ Committing(d) /\ attempt[d].wrote
  BY DEF TypeOK, CommitReturns, CommitDone
<1>2. CASE attempt[d].orphan
  <2>1. task'[d] = task[d] /\ attempt'[d] = [attempt[d] EXCEPT !.orphan = FALSE]
    BY <1>2 DEF CommitReturns, TypeOK
  <2> USE <1>1, <1>2, <2>1, CommittingFacts
          DEF OrderOf, Started, Accepts, Attempts, Owning, Stopping, Before
  <2>2. PhaseOf(d)'
    BY DEF PhaseOf
  <2>3. OutcomeOf(d)'
    BY DEF OutcomeOf
  <2>4. AcceptedOf(d)'
    BY DEF AcceptedOf
  <2>5. EndOf(d)'
    BY DEF EndOf
  <2> QED
    BY <2>2, <2>3, <2>4, <2>5
<1>3. CASE ~attempt[d].orphan
  <2> DEFINE phase == IF attempt[d].outcome = "waiting" THEN "waiting" ELSE "terminal"
             at == IF task[d].at = "commit" THEN "release" ELSE "stopRelease"
  <2>1. task'[d].at = at /\ task'[d].end = task[d].end
    BY <1>1, <1>3 DEF CommitReturns, TypeOK, Tasks
  <2>2. phase \in Transitions[attempt[d].phase] /\ phase \in Phases
    BY <1>1, <1>3, LegalTransitions DEF Committing, OrderOf, PhaseOf, Phases
  <2>3. attempt'[d] = To(attempt[d], phase)
    BY <1>3 DEF CommitReturns, TypeOK
  <2> HIDE DEF phase
  <2>4. attempt'[d] = [attempt[d] EXCEPT !.phase = phase]
    BY <1>1, <2>2, <2>3, ToFacts
  <2> USE <1>1, <1>3, <2>1, <2>4, CommittingFacts
          DEF OrderOf, Started, Accepts, Attempts, Owning, Stopping, Before
  <2>5. PhaseOf(d)'
    BY DEF PhaseOf, phase, Committing
  <2>6. OutcomeOf(d)'
    BY DEF OutcomeOf
  <2>7. AcceptedOf(d)'
    BY DEF AcceptedOf
  <2>8. EndOf(d)'
    BY DEF EndOf, Committing
  <2> QED
    BY <2>5, <2>6, <2>7, <2>8
<1> QED
  BY <1>2, <1>3

(* The release ends the dispatch, or leads to its last frames.             *)
LEMMA OrderReleased ==
  ASSUME TypeOK, NEW d \in Dispatches, OrderOf(d), Released(d)
  PROVE  OrderOf(d)'
<1> DEFINE at    == task[d].at
           marks == \/ at \in {"release", "stopRelease"}
                    \/ at \in {"cleanup", "dropped"} /\ attempt[d].phase \in {"terminal", "waiting"}
           free  == [attempt[d] EXCEPT !.released = TRUE]
           raise == task[d].held \/ task[d].raise
<1>1. /\ task[d] \in Tasks /\ attempt[d] \in Attempts /\ Releasing(d)
      /\ attempt[d].core # "running" /\ Started(attempt[d])
  BY DEF TypeOK, Released, TasksDone, Releasing, OrderOf, PhaseOf, Owning, Stopping
<1>2. free \in Attempts /\ free.phase = attempt[d].phase
  BY <1>1 DEF Attempts
<1>3. attempt'[d] = IF marks THEN To(free, "released") ELSE free
  BY DEF Released, TypeOK, MarkReleased
<1>4. /\ at = "done" => task'[d].at = at /\ task'[d].end = task[d].end
      /\ at \in {"stopRelease", "dropped"} \/ (at # "done" /\ raise)
           => task'[d].at = "done" /\ task'[d].end = "raised"
      /\ at = "cleanup" /\ ~raise => task'[d].at = "done" /\ task'[d].end = task[d].end
      /\ at = "release" /\ ~raise
           => task'[d].at = "frames" /\ task'[d].end = LastFrame(attempt[d].outcome)
  BY <1>1 DEF Released, TypeOK, Tasks, End
<1>5. PICK phase \in Phases : attempt'[d] = [free EXCEPT !.phase = phase] /\ phase # "invalid"
  <2>1. CASE marks
    <3>1. attempt[d].phase \in {"terminal", "waiting"}
      BY <1>1, <2>1 DEF OrderOf, PhaseOf
    <3> HIDE DEF free, marks
    <3>2. To(free, "released") = [free EXCEPT !.phase = "released"]
      BY <1>2, <3>1, ToFacts, LegalTransitions DEF Phases
    <3>3. "released" \in Phases
      BY DEF Phases
    <3> QED
      BY <1>3, <2>1, <3>2, <3>3
  <2>2. CASE ~marks
    <3>1. attempt[d].phase # "invalid" /\ attempt[d].phase \in Phases
      BY <1>1 DEF OrderOf, PhaseOf, Attempts
    <3>2. free = [free EXCEPT !.phase = free.phase]
      BY <1>2 DEF Attempts
    <3> QED
      BY <1>2, <1>3, <2>2, <3>1, <3>2
  <2> QED
    BY <2>1, <2>2
<1>6. at = "release" => attempt[d].wrote /\ attempt[d].saved = attempt[d].outcome
  BY DEF OrderOf, OutcomeOf
<1>7. at \in {"release", "stopRelease", "cleanup", "dropped", "done"} /\ raise \in BOOLEAN
      /\ (at = "done" => Started(attempt[d]))
  BY <1>1 DEF Releasing, Tasks
<1>8. attempt'[d] = [attempt[d] EXCEPT !.released = TRUE, !.phase = phase]
  BY <1>5
<1> HIDE DEF marks, raise, free
<1> USE <1>1, <1>4, <1>6, <1>7, <1>8 DEF OrderOf, Started, Accepts, Attempts, Owning, Stopping, Before
<1>9. PhaseOf(d)'
  BY <1>5 DEF PhaseOf
<1>10. OutcomeOf(d)'
  BY DEF OutcomeOf
<1>11. AcceptedOf(d)'
  BY DEF AcceptedOf
<1>12. EndOf(d)'
  BY DEF EndOf
<1> QED
  BY <1>9, <1>10, <1>11, <1>12

(* The finally clause after the last frames.                               *)
LEMMA OrderFinished ==
  ASSUME TypeOK, NEW d \in Dispatches, OrderOf(d), Finished(d)
  PROVE  OrderOf(d)'
<1>1. /\ task[d] \in Tasks /\ task[d].at = "frames" /\ attempt'[d] = attempt[d]
      /\ task'[d] = [task[d] EXCEPT !.at = "done"]
  BY DEF TypeOK, Finished, End, Tasks
<1> QED
  BY <1>1 DEF OrderOf, PhaseOf, OutcomeOf, AcceptedOf, EndOf, Started, Accepts, Owning, Stopping, Before, Tasks

(* A cancelled stream cancels its attempt with the gateway's reason.       *)
LEMMA StreamCancelledFacts ==
  ASSUME NEW a \in Attempts, a.phase = "executing", Accepts(a) \/ a.core # "running"
  PROVE  \E token \in Reasons : 
           /\ StreamCancelled(a) = [a EXCEPT !.token = token, !.forced = TRUE, !.phase = "cancelling"]
           /\ a.token # "none" \/ Accepts(a) => token # "none"
<1> DEFINE stopped == Cancel(a, "cancelled")
           forced  == [stopped EXCEPT !.forced = TRUE]
<1>1. /\ stopped \in Attempts
      /\ stopped = [a EXCEPT !.token = stopped.token, !.forced = stopped.forced]
      /\ a.token # "none" \/ Accepts(a) => stopped.token # "none"
  BY CancelFacts DEF Reasons
<1> HIDE DEF stopped
<1>2. stopped.token \in Reasons /\ forced \in Attempts /\ forced.phase = "executing"
  BY <1>1 DEF Attempts
<1>3. StreamCancelled(a) = To(forced, "cancelling")
  BY DEF StreamCancelled, stopped
<1>4. forced = [a EXCEPT !.token = stopped.token, !.forced = TRUE]
  BY <1>1 DEF Attempts
<1>5. To(forced, "cancelling") = [forced EXCEPT !.phase = "cancelling"]
  <2> HIDE DEF forced
  <2> QED
    BY <1>2, ToFacts, LegalTransitions DEF Phases
<1> HIDE DEF forced
<1>6. ASSUME NEW token, NEW f, f = [a EXCEPT !.token = token, !.forced = TRUE]
      PROVE  [f EXCEPT !.phase = "cancelling"]
               = [a EXCEPT !.token = token, !.forced = TRUE, !.phase = "cancelling"]
  BY <1>6 DEF Attempts
<1>7. StreamCancelled(a) = [a EXCEPT !.token = stopped.token, !.forced = TRUE, !.phase = "cancelling"]
  BY <1>3, <1>4, <1>5, <1>6
<1>8. stopped.token \in Reasons /\ (a.token # "none" \/ Accepts(a) => stopped.token # "none")
  BY <1>1, <1>2
<1> QED
  BY <1>7, <1>8

(* A cancelled reader, at each of the awaits of a dispatch.                *)
LEMMA OrderInterrupt ==
  ASSUME TypeOK, NEW d \in Dispatches, OrderOf(d), Interrupt(d)
  PROVE  OrderOf(d)'
<1> DEFINE at == task[d].at
<1>1. task[d] \in Tasks /\ attempt[d] \in Attempts /\ Interrupted(d)
  BY DEF TypeOK, Interrupt
<1>2. CASE at \in {"queued", "ready", "prepared"} /\ task' = End(d, "raised") /\ UNCHANGED attempt
  BY <1>2, OrderRefused DEF Before
<1>3. CASE at = "stream" /\ task' = [task EXCEPT ![d].at = "quiesce"]
           /\ attempt' = [attempt EXCEPT ![d] = StreamCancelled(attempt[d])]
  <2>1. attempt[d].phase = "executing" /\ task[d].at = "stream"
        /\ (Accepts(attempt[d]) \/ attempt[d].core # "running")
    BY <1>1, <1>3 DEF OrderOf, PhaseOf, OutcomeOf, Accepts
  <2>2. PICK token \in Reasons :
          /\ attempt'[d] = [attempt[d] EXCEPT !.token = token, !.forced = TRUE, !.phase = "cancelling"]
          /\ attempt[d].token # "none" \/ Accepts(attempt[d]) => token # "none"
    BY <1>1, <1>3, <2>1, StreamCancelledFacts DEF TypeOK
  <2>3. task'[d] = [task[d] EXCEPT !.at = "quiesce"]
    BY <1>3 DEF TypeOK
  <2>4. task'[d].at = "quiesce" /\ task'[d].end = task[d].end
    BY <1>1, <2>3 DEF Tasks
  <2> USE <1>1, <2>1, <2>2, <2>4 DEF OrderOf, Started, Accepts, Attempts, Owning, Stopping, Before
  <2>5. PhaseOf(d)'
    BY DEF PhaseOf
  <2>6. OutcomeOf(d)'
    BY DEF OutcomeOf
  <2>7. AcceptedOf(d)'
    BY DEF AcceptedOf
  <2>8. EndOf(d)'
    BY DEF EndOf
  <2> QED
    BY <2>5, <2>6, <2>7, <2>8
<1>4. CASE task' = Hold(d) /\ UNCHANGED attempt
  <2>1. task'[d] = [task[d] EXCEPT !.held = TRUE] /\ attempt'[d] = attempt[d]
    BY <1>4 DEF Hold, TypeOK
  <2> QED
    BY <1>1, <2>1 DEF OrderOf, PhaseOf, OutcomeOf, AcceptedOf, EndOf, Started, Accepts, Tasks
<1>5. CASE at \in {"commit", "stopCommit"} /\ task' = Escape(d)
           /\ attempt' = [attempt EXCEPT ![d].orphan = TRUE]
  <2>1. task'[d].at = "cleanup" /\ task'[d].end = "raised" /\ attempt'[d] = [attempt[d] EXCEPT !.orphan = TRUE]
        /\ task[d].at \in {"commit", "stopCommit"}
    BY <1>1, <1>5 DEF Escape, TypeOK, Tasks
  <2> QED
    BY <1>1, <2>1 DEF OrderOf, PhaseOf, OutcomeOf, AcceptedOf, EndOf, Started, Accepts,
                      Owning, Stopping, Before, Attempts, Statuses
<1>6. CASE at \in {"quiesce", "stopRelease", "release"} /\ task' = Escape(d) /\ UNCHANGED attempt
  <2>1. task'[d].at = "cleanup" /\ task'[d].end = "raised" /\ attempt'[d] = attempt[d]
        /\ task[d].at \in {"quiesce", "stopRelease", "release"}
    BY <1>1, <1>6 DEF Escape, TypeOK, Tasks
  <2> QED
    BY <1>1, <2>1 DEF OrderOf, PhaseOf, OutcomeOf, AcceptedOf, EndOf, Started, Accepts,
                      Owning, Stopping, Before, Attempts
<1>7. CASE at = "cleanup" /\ task' = End(d, "raised") /\ UNCHANGED attempt
  <2>1. task'[d].at = "done" /\ task'[d].end = "raised" /\ attempt'[d] = attempt[d]
        /\ task[d].at = "cleanup"
    BY <1>1, <1>7 DEF End, TypeOK, Tasks
  <2> QED
    BY <1>1, <2>1 DEF OrderOf, PhaseOf, OutcomeOf, AcceptedOf, EndOf, Started, Accepts,
                      Owning, Stopping, Before, Attempts
<1> QED
  BY <1>1, <1>2, <1>3, <1>4, <1>5, <1>6, <1>7 DEF Interrupted

(* A reader that stops reading forces the run's end.                       *)
LEMMA OrderAbandon ==
  ASSUME TypeOK, NEW d \in Dispatches, OrderOf(d), Abandon(d)
  PROVE  OrderOf(d)'
<1>1. /\ task[d] \in Tasks /\ attempt[d] \in Attempts /\ task[d].at = "stream"
      /\ attempt'[d] = [attempt[d] EXCEPT !.forced = TRUE]
      /\ task'[d] = [task[d] EXCEPT !.at = "dropped"]
  BY DEF TypeOK, Abandon
<1> QED
  BY <1>1 DEF OrderOf, PhaseOf, OutcomeOf, AcceptedOf, EndOf, Started, Accepts,
              Owning, Stopping, Before, Attempts, Tasks

(* Cancel, as anyone calls it, keeps an attempt in order.                  *)
LEMMA OrderCancel ==
  ASSUME TypeOK, NEW d \in Dispatches, OrderOf(d), UNCHANGED task[d],
         NEW reason \in Reasons \ {"none"}, attempt'[d] = Cancel(attempt[d], reason)
  PROVE  OrderOf(d)'
<1> DEFINE a == Cancel(attempt[d], reason)
<1>1. /\ attempt[d] \in Attempts /\ a \in Attempts
      /\ a = [attempt[d] EXCEPT !.token = a.token, !.forced = a.forced]
      /\ attempt[d].token # "none" => a.token = attempt[d].token
  BY CancelFacts DEF TypeOK
<1>2. a.token \in Reasons /\ a.forced \in BOOLEAN
  BY <1>1 DEF Attempts
<1>3. attempt'[d] = [attempt[d] EXCEPT !.token = a.token, !.forced = a.forced]
  BY <1>1
<1> HIDE DEF a
<1> QED
  BY <1>1, <1>2, <1>3, OrderCancelled

(* A user's cancellation is noted as accepted while Core runs, or after it *)
(* has ended; in the first case the token is set now.                      *)
LEMMA OrderUserCancels ==
  ASSUME TypeOK, NEW d \in Dispatches, OrderOf(d), UserCancels
  PROVE  OrderOf(d)'
<1>1. task' = task
  BY DEF UserCancels
<1>2. CASE d # entry.attempt
  BY <1>1, <1>2, OrderKept DEF UserCancels, TypeOK
<1>3. CASE d = entry.attempt
  <2> DEFINE a == Cancel(attempt[d], "cancelled")
             accepted == Acceptance(attempt[d])
  <2>1. /\ attempt[d] \in Attempts /\ Accepts(attempt[d]) /\ a \in Attempts
        /\ a = [attempt[d] EXCEPT !.token = a.token, !.forced = a.forced]
        /\ a.token # "none"
    BY <1>3, CancelFacts DEF TypeOK, UserCancels, Reasons
  <2>2. accepted = "running" => attempt[d].core = "running" \/ attempt[d].accepted = "running"
    BY <2>1 DEF Acceptance, Attempts
  <2>3. attempt'[d] = [a EXCEPT !.accepted = accepted]
    BY <1>3 DEF UserCancels, TypeOK
  <2> HIDE DEF accepted
  <2>4. /\ attempt'[d].phase = attempt[d].phase /\ attempt'[d].core = attempt[d].core
        /\ attempt'[d].outcome = attempt[d].outcome /\ attempt'[d].wrote = attempt[d].wrote
        /\ attempt'[d].saved = attempt[d].saved /\ attempt'[d].orphan = attempt[d].orphan
        /\ attempt'[d].sealed = attempt[d].sealed /\ attempt'[d].released = attempt[d].released
        /\ attempt'[d].token # "none" /\ attempt'[d].accepted = accepted
    <3> HIDE DEF a
    <3>1. /\ a.phase = attempt[d].phase /\ a.core = attempt[d].core
          /\ a.outcome = attempt[d].outcome /\ a.wrote = attempt[d].wrote
          /\ a.saved = attempt[d].saved /\ a.orphan = attempt[d].orphan
          /\ a.sealed = attempt[d].sealed /\ a.released = attempt[d].released
      <4> DEFINE token == a.token
                 forced == a.forced
      <4>1. a = [attempt[d] EXCEPT !.token = token, !.forced = forced]
        BY <2>1
      <4> HIDE DEF token, forced
      <4> QED
        BY <2>1, <4>1 DEF Attempts
    <3>2. /\ attempt'[d].phase = a.phase /\ attempt'[d].core = a.core
          /\ attempt'[d].outcome = a.outcome /\ attempt'[d].wrote = a.wrote
          /\ attempt'[d].saved = a.saved /\ attempt'[d].orphan = a.orphan
          /\ attempt'[d].sealed = a.sealed /\ attempt'[d].released = a.released
          /\ attempt'[d].token = a.token /\ attempt'[d].accepted = accepted
      BY <2>1, <2>3 DEF Attempts
    <3> QED
      BY <2>1, <3>1, <3>2
  <2> USE <1>1, <2>1, <2>2, <2>4 DEF OrderOf, Started, Accepts
  <2>5. PhaseOf(d)'
    BY DEF PhaseOf
  <2>6. OutcomeOf(d)'
    BY DEF OutcomeOf
  <2>7. AcceptedOf(d)'
    BY DEF AcceptedOf, OutcomeOf
  <2>8. EndOf(d)'
    BY DEF EndOf
  <2> QED
    BY <2>5, <2>6, <2>7, <2>8
<1> QED
  BY <1>2, <1>3

(* The deadline and the grace period keep an attempt in order.             *)
LEMMA OrderTimers ==
  ASSUME TypeOK, NEW d \in Dispatches, OrderOf(d), DeadlinePasses(d) \/ GraceEnds(d)
  PROVE  OrderOf(d)'
<1>1. attempt[d] \in Attempts
  BY DEF TypeOK
<1>2. CASE DeadlinePasses(d)
  BY <1>2, OrderCancel DEF DeadlinePasses, TypeOK, Reasons
<1>3. CASE GraceEnds(d)
  <2>1. attempt'[d] = [attempt[d] EXCEPT !.token = attempt[d].token, !.forced = TRUE]
    BY <1>1, <1>3 DEF GraceEnds, TypeOK, Attempts
  <2>2. attempt[d].token \in Reasons /\ UNCHANGED task[d]
    BY <1>1, <1>3 DEF Attempts, GraceEnds
  <2> QED
    BY <2>1, <2>2, OrderCancelled
<1> QED
  BY <1>2, <1>3

(* Closing the session cancels the attempt in the registry.                *)
LEMMA OrderClose ==
  ASSUME TypeOK, NEW d \in Dispatches, OrderOf(d), Close
  PROVE  OrderOf(d)'
<1>1. task' = task
  BY DEF Close
<1>2. attempt'[d] = attempt[d] \/ attempt'[d] = Cancel(attempt[d], "cancelled")
  BY DEF Close, TypeOK
<1> QED
  BY <1>1, <1>2, OrderKept, OrderCancel DEF Reasons

(* What one dispatch does leaves the others alone.                         *)
LEMMA OthersKept ==
  ASSUME TypeOK, NEW d \in Dispatches, NEW e \in Dispatches, d # e, Gateway(d) \/ Environment(d)
  PROVE  task'[e] = task[e] /\ attempt'[e] = attempt[e]
<1> USE DEF TypeOK, End
<1>1. CASE Arrive(d) \/ Acquire(d) \/ Prepare(d) \/ GiveUp(d) \/ Start(d)
  BY <1>1 DEF Arrive, Acquire, Prepare, GiveUp, Start
<1>2. CASE CoreEnds(d) \/ DeadlinePasses(d) \/ GraceEnds(d) \/ Consume(d) \/ Quiesced(d)
  BY <1>2 DEF CoreEnds, DeadlinePasses, GraceEnds, Consume, Quiesced
<1>3. CASE CommitWrites(d) \/ CommitReturns(d)
  BY <1>3 DEF CommitWrites, CommitReturns
<1>4. CASE CommitFails(d)
  BY <1>4 DEF CommitFails
<1>5. CASE Released(d) \/ Finished(d)
  BY <1>5 DEF Released, Finished, Releasing
<1>6. CASE Interrupt(d) \/ Abandon(d)
  BY <1>6 DEF Interrupt, Interrupted, Abandon, Hold, Escape
<1> QED
  BY <1>1, <1>2, <1>3, <1>4, <1>5, <1>6 DEF Gateway, Environment

(* Every step keeps the types and the order of every dispatch.             *)
LEMMA OrderStep ==
  ASSUME TypeOK, DispatchOrder, [Next]_vars
  PROVE  (TypeOK /\ DispatchOrder)'
<1>1. ASSUME NEW d \in Dispatches, Gateway(d) \/ Environment(d)
      PROVE  (TypeOK /\ DispatchOrder)'
  <2>1. OrderOf(d)
    BY DEF DispatchOrder
  <2>2. TypeOK'
    <3>1. task[d].at = "release" => attempt[d].outcome \in Statuses
      BY <2>1 DEF OrderOf, OutcomeOf
    <3> QED
      BY <1>1, <3>1, AdmissionTypes, PrepareTypes, StartTypes, CoreTypes, CommitTypes, ReleaseTypes,
         ReaderTypes DEF Gateway, Environment
  <2>3. OrderOf(d)'
    BY <1>1, <2>1, OrderAdmission, OrderStart, OrderCoreEnds, OrderConsume, OrderQuiesced,
       OrderCommitWrites, OrderCommitFails, OrderCommitReturns, OrderReleased, OrderFinished,
       OrderInterrupt, OrderAbandon, OrderTimers DEF Gateway, Environment
  <2>4. ASSUME NEW e \in Dispatches, e # d PROVE OrderOf(e)'
    BY <1>1, <2>4, OthersKept, OrderKept DEF DispatchOrder
  <2> QED
    BY <2>2, <2>3, <2>4 DEF DispatchOrder
<1>2. CASE UserCancels \/ Close
  BY <1>2, SessionTypes, OrderUserCancels, OrderClose DEF DispatchOrder
<1>3. CASE Open
  BY <1>3, SessionTypes, OrderKept DEF DispatchOrder, Open
<1>4. CASE UNCHANGED vars
  BY <1>4, OrderKept DEF vars, TypeOK, DispatchOrder
<1> QED
  BY <1>1, <1>2, <1>3, <1>4 DEF Next

(* The first state is in order.                                            *)
LEMMA OrderInit == Init => TypeOK /\ DispatchOrder
<1> SUFFICES ASSUME Init, NEW d \in Dispatches PROVE OrderOf(d)
  BY InitTypes DEF DispatchOrder
<1>1. /\ attempt[d] = NewAttempt
      /\ task[d] = [at |-> "idle", ctl |-> 0, lock |-> 0, held |-> FALSE, raise |-> FALSE, end |-> "none"]
  BY DEF Init
<1> QED
  BY <1>1 DEF NewAttempt, OrderOf, PhaseOf, OutcomeOf, AcceptedOf, EndOf, Started, Accepts,
              Before, Owning, Stopping, Statuses

(* Every dispatch is always in order: the inductive invariant of the       *)
(* attempts, whatever the session does meanwhile.                          *)
THEOREM AttemptsInOrder == Spec => [](TypeOK /\ DispatchOrder)
<1>1. TypeOK /\ DispatchOrder /\ [Next]_vars => (TypeOK /\ DispatchOrder)'
  BY OrderStep
<1> QED
  BY OrderInit, <1>1, PTL DEF Spec

(* No call of RuntimeLifecycle.transition is refused, in any interleaving. *)
THEOREM TransitionsAreLegal == Spec => []LifecycleNeverRaises
<1>1. DispatchOrder => LifecycleNeverRaises
  BY DEF DispatchOrder, OrderOf, PhaseOf, LifecycleNeverRaises
<1> QED
  BY AttemptsInOrder, <1>1, PTL

(* A cancellation accepted while Core runs is never overtaken by Core's    *)
(* own end (RunExecutor._execute_core and the token).                      *)
THEOREM AcceptedCancellationsHold == Spec => []CancelStopsCore
<1>1. TypeOK /\ DispatchOrder => CancelStopsCore
  BY DEF DispatchOrder, OrderOf, AcceptedOf, OutcomeOf, CancelStopsCore
<1> QED
  BY AttemptsInOrder, <1>1, PTL

(* The last frame of a dispatch tells what was stored                     *)
(* (RuntimeGateway._execute_prepared_run).                                *)
THEOREM LastFramesAreDurable == Spec => []FrameIsDurable
<1>1. DispatchOrder => FrameIsDurable
  BY DEF DispatchOrder, OrderOf, EndOf, FrameIsDurable
<1> QED
  BY AttemptsInOrder, <1>1, PTL

-----------------------------------------------------------------------------
(* The dispatches of one session *)

(* Only admission lets a dispatch wait for the lock, which is the lock and *)
(* the controller of the session as it is open; only Acquire takes it.     *)
LEMMA LockMoves ==
  ASSUME TypeOK, NEW d \in Dispatches, Gateway(d) \/ Environment(d)
  PROVE  /\ UNCHANGED <<opening, isOpen, lock>>
         /\ task'[d].at \notin {"idle", "done"} =>
              \/ /\ task[d].at \notin {"idle", "done"}
                 /\ task'[d].lock = task[d].lock /\ task'[d].ctl = task[d].ctl
              \/ task'[d].lock = lock /\ task'[d].ctl = opening /\ isOpen
         /\ task'[d].at \in Holding =>
              task[d].at \in Holding \/ (task[d].at = "queued" /\ LockFree(d))
<1>1. task[d] \in Tasks /\ task \in [Dispatches -> Tasks]
  BY DEF TypeOK
<1> USE <1>1 DEF End, Tasks, Holding
<1>2. CASE Arrive(d) \/ Acquire(d) \/ GiveUp(d)
  BY <1>2 DEF Arrive, Acquire, GiveUp
<1>3. CASE Prepare(d) \/ Start(d)
  BY <1>3 DEF Prepare, Start
<1>4. CASE CoreEnds(d) \/ DeadlinePasses(d) \/ GraceEnds(d) \/ CommitWrites(d)
  BY <1>4 DEF CoreEnds, DeadlinePasses, GraceEnds, CommitWrites
<1>5. CASE Consume(d) \/ Quiesced(d)
  BY <1>5 DEF Consume, Quiesced
<1>6. CASE CommitFails(d)
  BY <1>6 DEF CommitFails, Committing
<1>7. CASE CommitReturns(d)
  BY <1>7 DEF CommitReturns, Committing
<1>8. CASE Released(d)
  <2>1. task'[d].lock = task[d].lock /\ task'[d].ctl = task[d].ctl
        /\ UNCHANGED <<opening, isOpen, lock>> /\ task[d].at \in Holding \cup {"done"}
        /\ (task[d].at = "done" => task'[d].at = "done")
    BY <1>8 DEF Released, Releasing
  <2> QED
    BY <2>1
<1>9. CASE Finished(d)
  BY <1>9 DEF Finished
<1>10. CASE Interrupt(d) \/ Abandon(d)
  BY <1>10 DEF Interrupt, Interrupted, Abandon, Hold, Escape
<1> QED
  BY <1>2, <1>3, <1>4, <1>5, <1>6, <1>7, <1>8, <1>9, <1>10 DEF Gateway, Environment

(* The registry entry is made by Start and freed by the release or by the  *)
(* finally clause; who holds nothing leaves it alone.                      *)
LEMMA EntryMoves ==
  ASSUME TypeOK, NEW d \in Dispatches, OrderOf(d), Gateway(d) \/ Environment(d)
  PROVE  \/ /\ entry' = entry
            /\ task'[d].at \in Owning => task[d].at \in Owning
            /\ task'[d].at \in {"ready", "prepared"} => task[d].at \in {"ready", "prepared"} \/ ~IsRunning
            /\ task'[d].at = "frames" => task[d].at = "frames"
         \/ /\ task[d].at = "prepared" /\ task'[d].at = "stream"
            /\ entry' = [run |-> attempt[d].run, attempt |-> d]
            /\ Started(attempt'[d]) /\ attempt'[d].run = attempt[d].run
         \/ /\ task[d].at \in Owning \cup {"frames"} /\ task'[d].at \in {"frames", "done"}
            /\ entry' = Finish(attempt[d].run)
            /\ attempt'[d].core # "running"
<1>1. task[d] \in Tasks /\ task \in [Dispatches -> Tasks] /\ attempt[d] \in Attempts
      /\ attempt \in [Dispatches -> Attempts]
  BY DEF TypeOK
<1> USE <1>1 DEF End, Tasks, Owning, Stopping
<1>2. CASE Arrive(d) \/ Acquire(d) \/ GiveUp(d)
  BY <1>2 DEF Arrive, Acquire, GiveUp
<1>3. CASE Prepare(d)
  BY <1>3 DEF Prepare
<1>4. CASE Start(d)
  <2>1. CASE IsRunning
    BY <1>4, <2>1 DEF Start
  <2>2. CASE ~IsRunning
    <3> DEFINE a == To(To(attempt[d], "preparing"), "executing")
    <3>1. a \in Attempts /\ a.run = attempt[d].run
      <4>1. \A b \in Attempts, phase \in Phases :
              To(b, phase) \in Attempts /\ To(b, phase).run = b.run
        BY ToFacts DEF Attempts, To
      <4> QED
        BY <1>1, <4>1 DEF Phases
    <3>2. attempt'[d] = [a EXCEPT !.core = "running"]
      BY <1>4, <2>2 DEF Start
    <3> HIDE DEF a
    <3>3. Started(attempt'[d]) /\ attempt'[d].run = attempt[d].run
      BY <3>1, <3>2 DEF Started, Attempts
    <3>4. task[d].at = "prepared" /\ task'[d].at = "stream"
          /\ entry' = [run |-> attempt[d].run, attempt |-> d]
      BY <1>4, <2>2 DEF Start
    <3> QED
      BY <3>3, <3>4
  <2> QED
    BY <2>1, <2>2
<1>5. CASE CoreEnds(d) \/ DeadlinePasses(d) \/ GraceEnds(d) \/ CommitWrites(d)
  BY <1>5 DEF CoreEnds, DeadlinePasses, GraceEnds, CommitWrites
<1>6. CASE Consume(d) \/ Quiesced(d)
  BY <1>6 DEF Consume, Quiesced
<1>7. CASE CommitFails(d)
  BY <1>7 DEF CommitFails, Committing
<1>8. CASE CommitReturns(d)
  BY <1>8 DEF CommitReturns, Committing
<1>9. CASE Finished(d)
  BY <1>9 DEF Finished, OrderOf, OutcomeOf
<1>10. CASE Released(d)
  <2>1. attempt'[d].core # "running"
    <3>1. attempt'[d].core = attempt[d].core
      BY <1>10 DEF Released, MarkReleased, To, Attempts
    <3> QED
      BY <1>10, <3>1 DEF Released, TasksDone
  <2> QED
    BY <1>10, <2>1 DEF Released, Releasing
<1>11. CASE Interrupt(d) \/ Abandon(d)
  BY <1>11 DEF Interrupt, Interrupted, Abandon, Hold, Escape
<1> QED
  BY <1>2, <1>3, <1>4, <1>5, <1>6, <1>7, <1>8, <1>9, <1>10, <1>11 DEF Gateway, Environment

(* An attempt's run is fixed by its preparation, its Core runs once, from  *)
(* Start on, and can be cancelled as long as it runs.                      *)
LEMMA AttemptMoves ==
  ASSUME TypeOK, NEW d \in Dispatches, OrderOf(d), Gateway(d) \/ Environment(d)
  PROVE  /\ Started(attempt[d]) => Started(attempt'[d]) /\ attempt'[d].run = attempt[d].run
         /\ attempt'[d].core = "running" =>
              \/ attempt[d].core = "running" /\ (Accepts(attempt[d]) => Accepts(attempt'[d]))
              \/ task[d].at = "prepared" /\ task'[d].at = "stream" /\ ~IsRunning /\ store' = store
         /\ attempt[d].released => attempt'[d].released
         /\ Started(attempt'[d]) => Started(attempt[d]) \/ task'[d].at = "stream"
<1>1. task[d] \in Tasks /\ attempt[d] \in Attempts /\ attempt \in [Dispatches -> Attempts]
      /\ task \in [Dispatches -> Tasks]
  BY DEF TypeOK
<1>2. \A b \in Attempts, phase \in Phases :
        /\ To(b, phase) \in Attempts /\ To(b, phase).run = b.run /\ To(b, phase).core = b.core
        /\ To(b, phase).sealed = b.sealed /\ To(b, phase).released = b.released
  BY ToFacts DEF Attempts, To
<1>3. \A reason \in Reasons \ {"none"} :
        LET a == Cancel(attempt[d], reason)
        IN  /\ a \in Attempts /\ a.run = attempt[d].run /\ a.core = attempt[d].core
            /\ a.sealed = attempt[d].sealed /\ a.released = attempt[d].released
  <2> SUFFICES ASSUME NEW reason \in Reasons \ {"none"}, NEW a, a = Cancel(attempt[d], reason)
               PROVE  /\ a \in Attempts /\ a.run = attempt[d].run /\ a.core = attempt[d].core
                      /\ a.sealed = attempt[d].sealed /\ a.released = attempt[d].released
    OBVIOUS
  <2>1. a \in Attempts /\ a = [attempt[d] EXCEPT !.token = a.token, !.forced = a.forced]
    BY <1>1, CancelFacts
  <2> QED
    BY <1>1, <2>1 DEF Attempts
<1> USE <1>1 DEF Started, Accepts
<1>4. CASE UNCHANGED attempt
  BY <1>4
<1>5. CASE Prepare(d)
  <2>1. attempt'[d] = [attempt[d] EXCEPT !.run = store'.run] /\ ~Started(attempt[d])
    BY <1>5 DEF Prepare, OrderOf, PhaseOf, Before
  <2> QED
    BY <2>1 DEF Attempts
<1>6. CASE Start(d) /\ ~IsRunning
  <2> DEFINE a == To(To(attempt[d], "preparing"), "executing")
  <2>1. a \in Attempts /\ a.released = attempt[d].released
    BY <1>2 DEF Phases
  <2>2. attempt'[d] = [a EXCEPT !.core = "running"] /\ ~Started(attempt[d])
    BY <1>6 DEF Start, OrderOf, PhaseOf, Before
  <2>3. task[d].at = "prepared" /\ task'[d].at = "stream" /\ store' = store
    BY <1>6 DEF Start, Tasks
  <2> HIDE DEF a
  <2>4. attempt'[d].released = attempt[d].released
    BY <2>1, <2>2 DEF Attempts
  <2> QED
    BY <1>6, <2>2, <2>3, <2>4
<1>7. CASE CoreEnds(d)
  <2>1. /\ attempt'[d].run = attempt[d].run /\ attempt'[d].core \in {"ended", "raised"}
        /\ attempt'[d].released = attempt[d].released /\ attempt[d].core = "running"
    BY <1>7 DEF CoreEnds, Attempts
  <2> QED
    BY <2>1
<1>8. CASE attempt' = [attempt EXCEPT ![d] = Cancel(attempt[d], "deadline")]
  BY <1>3, <1>8 DEF Reasons
<1>9. CASE attempt' = [attempt EXCEPT ![d].forced = TRUE] \/ attempt' = [attempt EXCEPT ![d].orphan = TRUE]
  BY <1>9 DEF Attempts
<1>10. CASE Consume(d) /\ attempt' = [attempt EXCEPT ![d] = Sealed(attempt[d])] /\ attempt[d].core = "ended"
  <2>1. [attempt[d] EXCEPT !.sealed = TRUE] \in Attempts
    BY DEF Attempts
  <2>2. /\ attempt'[d].run = attempt[d].run /\ attempt'[d].core = attempt[d].core
        /\ attempt'[d].released = attempt[d].released
    BY <1>2, <1>10, <2>1 DEF Sealed, Phases, Attempts
  <2> QED
    BY <1>10, <2>2
<1>11. CASE Quiesced(d)
  <2>1. [attempt[d] EXCEPT !.outcome = "cancelled"] \in Attempts
    BY DEF Attempts, Statuses
  <2>2. /\ attempt'[d].run = attempt[d].run /\ attempt'[d].core = attempt[d].core
        /\ attempt'[d].released = attempt[d].released
    BY <1>2, <1>11, <2>1 DEF Quiesced, Phases, Attempts
  <2> QED
    BY <1>11, <2>2 DEF Quiesced, TasksDone
<1>12. CASE CommitWrites(d) \/ CommitFails(d) \/ CommitReturns(d)
  <2>1. attempt[d].core # "running"
    BY <1>12, CommittingFacts DEF CommitWrites, CommitFails, CommitReturns
  <2>2. \A b \in Attempts : [b EXCEPT !.orphan = FALSE] \in Attempts
    BY DEF Attempts
  <2>3. /\ Saved(d) \in Attempts /\ Saved(d).run = attempt[d].run /\ Saved(d).core = attempt[d].core
        /\ Saved(d).released = attempt[d].released
    BY DEF Saved, Attempts
  <2>4. PICK a \in {attempt[d], Saved(d)} : attempt'[d] \in
          {a, [a EXCEPT !.orphan = FALSE], To(a, "terminal"), To(a, "waiting")}
    BY <1>12 DEF CommitWrites, CommitFails, CommitReturns
  <2>5. a \in Attempts /\ a.run = attempt[d].run /\ a.core = attempt[d].core /\ a.released = attempt[d].released
    BY <2>3
  <2>6. /\ attempt'[d].run = attempt[d].run /\ attempt'[d].core = attempt[d].core
        /\ attempt'[d].released = attempt[d].released
    BY <1>2, <2>4, <2>5 DEF Phases, Attempts
  <2> QED
    BY <2>1, <2>6
<1>13. CASE Released(d)
  <2>1. [attempt[d] EXCEPT !.released = TRUE] \in Attempts
    BY DEF Attempts
  <2>2. /\ attempt'[d].run = attempt[d].run /\ attempt'[d].core = attempt[d].core
        /\ attempt'[d].released
    BY <1>2, <1>13, <2>1 DEF Released, MarkReleased, Phases, Attempts
  <2> QED
    BY <1>13, <2>2 DEF Released, TasksDone
<1>14. CASE attempt' = [attempt EXCEPT ![d] = StreamCancelled(attempt[d])]
  <2> DEFINE a == Cancel(attempt[d], "cancelled")
  <2>1. /\ a \in Attempts /\ a.run = attempt[d].run /\ a.core = attempt[d].core
        /\ a.sealed = attempt[d].sealed /\ a.released = attempt[d].released
    BY <1>3 DEF Reasons
  <2>2. attempt'[d] = To([a EXCEPT !.forced = TRUE], "cancelling")
    BY <1>14 DEF StreamCancelled
  <2> HIDE DEF a
  <2>3. [a EXCEPT !.forced = TRUE] \in Attempts
    BY <2>1 DEF Attempts
  <2>4. /\ attempt'[d].run = attempt[d].run /\ attempt'[d].core = attempt[d].core
        /\ attempt'[d].sealed = attempt[d].sealed /\ attempt'[d].released = attempt[d].released
    BY <1>2, <2>1, <2>2, <2>3 DEF Phases, Attempts
  <2> QED
    BY <2>4
<1>15. CASE Arrive(d) \/ Acquire(d) \/ GiveUp(d) \/ (Start(d) /\ IsRunning) \/ Finished(d)
  BY <1>4, <1>15 DEF Arrive, Acquire, GiveUp, Start, Finished
<1>16. CASE DeadlinePasses(d) \/ GraceEnds(d) \/ Abandon(d)
  BY <1>8, <1>9, <1>16 DEF DeadlinePasses, GraceEnds, Abandon
<1>17. CASE Consume(d)
  BY <1>4, <1>10, <1>17 DEF Consume
<1>18. CASE Interrupt(d)
  BY <1>4, <1>9, <1>14, <1>18 DEF Interrupt, Interrupted
<1> QED
  BY <1>5, <1>6, <1>7, <1>11, <1>12, <1>13, <1>15, <1>16, <1>17, <1>18 DEF Gateway, Environment

(* The store changes when a preparation takes the run over, and when the   *)
(* attempt that owns it commits, whose Core has ended.                     *)
LEMMA StoreMoves ==
  ASSUME TypeOK, NEW d \in Dispatches, OrderOf(d), Gateway(d) \/ Environment(d)
  PROVE  \/ store' = store /\ (task'[d].at = "prepared" => task[d].at = "prepared")
         \/ task[d].at = "ready" /\ task'[d].at = "prepared" /\ store'.owner = d
         \/ /\ Committing(d) /\ store.owner = d /\ attempt[d].core # "running"
            /\ task'[d].at # "prepared"
<1>1. task[d] \in Tasks /\ attempt[d] \in Attempts /\ task \in [Dispatches -> Tasks] /\ store \in Stores
  BY DEF TypeOK
<1> USE <1>1 DEF End, Tasks
<1>2. CASE Arrive(d) \/ Acquire(d) \/ GiveUp(d)
  BY <1>2 DEF Arrive, Acquire, GiveUp
<1>3. CASE Prepare(d)
  BY <1>3 DEF Prepare, Stores
<1>4. CASE Start(d)
  BY <1>4 DEF Start
<1>5. CASE CoreEnds(d) \/ DeadlinePasses(d) \/ GraceEnds(d)
  BY <1>5 DEF CoreEnds, DeadlinePasses, GraceEnds
<1>6. CASE Consume(d) \/ Quiesced(d)
  BY <1>6 DEF Consume, Quiesced
<1>7. CASE CommitWrites(d) \/ CommitFails(d)
  <2>1. attempt[d].core # "running" /\ task[d].at # "prepared" /\ Committing(d)
    BY <1>7, CommittingFacts DEF CommitWrites, CommitFails
  <2>2. task'[d].at # "prepared"
    BY <1>7, <2>1 DEF CommitWrites, CommitFails
  <2>3. store' = store \/ store.owner = d
    BY <1>7 DEF CommitWrites, CommitFails, Stored, StoreAccepts
  <2> QED
    BY <2>1, <2>2, <2>3
<1>8. CASE CommitReturns(d)
  BY <1>8 DEF CommitReturns, Committing
<1>9. CASE Released(d) \/ Finished(d)
  <2>1. store' = store
    BY <1>9 DEF Released, Finished
  <2>2. Released(d) => task'[d].at \in {"done", "frames"}
    BY DEF Released, Releasing
  <2>3. Finished(d) => task'[d].at = "done"
    BY DEF Finished
  <2> QED
    BY <1>9, <2>1, <2>2, <2>3
<1>10. CASE Interrupt(d) \/ Abandon(d)
  BY <1>10 DEF Interrupt, Interrupted, Abandon, Hold, Escape
<1> QED
  BY <1>2, <1>3, <1>4, <1>5, <1>6, <1>7, <1>8, <1>9, <1>10 DEF Gateway, Environment

(* What needs a cancelled reader, and what every way out of a dispatch has *)
(* released.                                                               *)
LEMMA ReaderMoves ==
  ASSUME TypeOK, NEW d \in Dispatches, OrderOf(d), Gateway(d) \/ Environment(d)
  PROVE  LET again == Interrupt(d) /\ interrupts' = [interrupts EXCEPT ![d] = interrupts[d] + 1]
         IN
         /\ interrupts' = interrupts \/ again
         /\ task'[d].at \in Stopping \/ task'[d].held => task[d].at \in Stopping \/ task[d].held \/ again
         /\ attempt'[d].orphan => attempt[d].orphan \/ (again /\ (task[d].at \in Stopping \/ task[d].held))
         /\ task'[d].at = "frames" => task[d].at = "frames" \/ attempt'[d].released
         /\ task'[d].at = "done" =>
              \/ task[d].at \in Before \cup {"done"} /\ entry' = entry
              \/ attempt'[d].released /\ task[d].at \in Owning /\ entry' = Finish(attempt[d].run)
              \/ task[d].at = "frames" /\ entry' = Finish(attempt[d].run) /\ attempt' = attempt
              \/ task[d].held /\ again
<1>1. task[d] \in Tasks /\ attempt[d] \in Attempts /\ task \in [Dispatches -> Tasks]
      /\ attempt \in [Dispatches -> Attempts] /\ attempt[d].released \in BOOLEAN
  BY DEF TypeOK, Attempts
<1>2. \A b \in Attempts, phase \in Phases :
        To(b, phase) \in Attempts /\ To(b, phase).orphan = b.orphan /\ To(b, phase).released = b.released
  BY ToFacts DEF Attempts, To
<1>3. \A reason \in Reasons \ {"none"} :
        Cancel(attempt[d], reason) \in Attempts /\ Cancel(attempt[d], reason).orphan = attempt[d].orphan
  <2> SUFFICES ASSUME NEW reason \in Reasons \ {"none"}, NEW a, a = Cancel(attempt[d], reason)
               PROVE  a \in Attempts /\ a.orphan = attempt[d].orphan
    OBVIOUS
  <2>1. a \in Attempts /\ a = [attempt[d] EXCEPT !.token = a.token, !.forced = a.forced]
    BY <1>1, CancelFacts
  <2> QED
    BY <1>1, <2>1 DEF Attempts
<1> USE <1>1 DEF End, Tasks, Stopping, Before
<1>4. CASE Arrive(d) \/ Acquire(d) \/ GiveUp(d)
  BY <1>4 DEF Arrive, Acquire, GiveUp
<1>5. CASE Prepare(d)
  BY <1>5 DEF Prepare, Attempts
<1>6. CASE Start(d)
  <2>1. attempt'[d].orphan = attempt[d].orphan
    <3> DEFINE a == To(To(attempt[d], "preparing"), "executing")
    <3>1. a \in Attempts /\ a.orphan = attempt[d].orphan
      BY <1>2 DEF Phases
    <3>2. attempt'[d] \in {attempt[d], [a EXCEPT !.core = "running"]}
      BY <1>6 DEF Start
    <3> HIDE DEF a
    <3> QED
      BY <3>1, <3>2 DEF Attempts
  <2> QED
    BY <1>6, <2>1 DEF Start
<1>7. CASE CoreEnds(d) \/ GraceEnds(d)
  BY <1>7 DEF CoreEnds, GraceEnds, Attempts, OrderOf, PhaseOf, OutcomeOf
<1>8. CASE DeadlinePasses(d)
  BY <1>3, <1>8 DEF DeadlinePasses, Reasons
<1>9. CASE Consume(d)
  <2>1. attempt'[d].orphan = attempt[d].orphan
    <3>1. [attempt[d] EXCEPT !.sealed = TRUE] \in Attempts
      BY DEF Attempts
    <3> QED
      BY <1>2, <1>9, <3>1 DEF Consume, Sealed, Phases, Attempts
  <2> QED
    BY <1>9, <2>1 DEF Consume
<1>10. CASE Quiesced(d)
  <2>1. attempt'[d].orphan = attempt[d].orphan
    <3>1. [attempt[d] EXCEPT !.outcome = "cancelled"] \in Attempts
      BY DEF Attempts, Statuses
    <3> QED
      BY <1>2, <1>10, <3>1 DEF Quiesced, Phases, Attempts
  <2> QED
    BY <1>10, <2>1 DEF Quiesced
<1>11. CASE CommitWrites(d)
  BY <1>11 DEF CommitWrites, Saved, Attempts
<1>12. CASE CommitFails(d) \/ CommitReturns(d)
  <2>1. attempt'[d].orphan => attempt[d].orphan
    <3>1. Saved(d) \in Attempts /\ Saved(d).orphan = attempt[d].orphan
      BY DEF Saved, Attempts
    <3>2. PICK a \in {attempt[d], Saved(d)} : attempt'[d] \in
            {[a EXCEPT !.orphan = FALSE], To(a, "terminal"), To(a, "waiting")}
      BY <1>12 DEF CommitFails, CommitReturns
    <3>3. a \in Attempts /\ a.orphan = attempt[d].orphan
      BY <3>1
    <3> QED
      BY <1>2, <3>2, <3>3 DEF Phases, Attempts
  <2>2. interrupts' = interrupts /\ entry' = entry
    BY <1>12 DEF CommitFails, CommitReturns
  <2>3. task'[d].at \in Stopping \/ task'[d].held => task[d].at \in Stopping \/ task[d].held
    BY <1>12 DEF CommitFails, CommitReturns, Committing
  <2>4. task'[d].at \notin {"frames", "done"} \/ task'[d].at = task[d].at
    BY <1>12 DEF CommitFails, CommitReturns
  <2> QED
    BY <2>1, <2>2, <2>3, <2>4
<1>13. CASE Released(d)
  <2>1. attempt'[d].orphan = attempt[d].orphan /\ attempt'[d].released
    <3>1. [attempt[d] EXCEPT !.released = TRUE] \in Attempts
      BY DEF Attempts
    <3> QED
      BY <1>2, <1>13, <3>1 DEF Released, MarkReleased, Phases, Attempts
  <2>2. interrupts' = interrupts /\ (task[d].at # "done" => task[d].at \in Owning /\ entry' = Finish(attempt[d].run))
        /\ (task[d].at = "done" => entry' = entry)
    BY <1>13 DEF Released, Releasing, Owning
  <2>3. task'[d].at \notin Stopping /\ task'[d].held = task[d].held
    BY <1>13 DEF Released, Releasing
  <2> QED
    BY <2>1, <2>2, <2>3
<1>14. CASE Finished(d)
  BY <1>14 DEF Finished
<1>15. CASE Abandon(d)
  BY <1>15 DEF Abandon, Attempts
<1>16. CASE Interrupt(d)
  <2>1. attempt' = [attempt EXCEPT ![d] = StreamCancelled(attempt[d])] => attempt'[d].orphan = attempt[d].orphan
    <3> DEFINE a == Cancel(attempt[d], "cancelled")
    <3>1. a \in Attempts /\ a.orphan = attempt[d].orphan
      BY <1>3 DEF Reasons
    <3>2. StreamCancelled(attempt[d]) = To([a EXCEPT !.forced = TRUE], "cancelling")
      BY DEF StreamCancelled
    <3> HIDE DEF a
    <3>3. [a EXCEPT !.forced = TRUE] \in Attempts
      BY <3>1 DEF Attempts
    <3> QED
      BY <1>2, <3>1, <3>2, <3>3 DEF Phases, Attempts
  <2>2. interrupts' = [interrupts EXCEPT ![d] = interrupts[d] + 1] /\ entry' = entry /\ Interrupted(d)
    BY <1>16 DEF Interrupt
  <2>3. attempt'[d].orphan => attempt[d].orphan \/ task[d].at \in Stopping \/ task[d].held
    BY <2>1, <2>2 DEF Interrupted, Attempts
  <2>4. task'[d].at # "frames" \/ task[d].at = "frames"
    BY <2>2 DEF Interrupted, Escape, Hold
  <2>5. task'[d].at = "done" => task[d].at \in Before \/ task[d].held
    BY <2>2 DEF Interrupted, Escape, Hold
  <2> QED
    BY <1>16, <2>2, <2>3, <2>4, <2>5
<1> QED
  BY <1>4, <1>5, <1>6, <1>7, <1>8, <1>9, <1>10, <1>11, <1>12, <1>13, <1>14, <1>15, <1>16
     DEF Gateway, Environment

(* While the registry has an entry, its dispatch has started the attempt   *)
(* of that entry; an idle or preparing dispatch is not in it.              *)
LEMMA EntryFacts ==
  ASSUME TypeOK, DispatchOrder, SessionOrder, NEW d \in Dispatches
  PROVE  /\ task[d].at \in Owning => IsRunning /\ Finish(attempt[d].run) = NoEntry
         /\ task[d].at = "frames" => Finish(attempt[d].run) = NoEntry
         /\ ~Started(attempt[d]) => entry.attempt # d
         /\ NoEntry.attempt # d
<1>1. NoEntry.attempt # d
  BY NoneIsNoDispatch DEF NoEntry
<1>2. task[d].at \in Owning => IsRunning
  BY <1>1 DEF SessionOrder, EntryFollowsHolder, IsRunning
<1> QED
  BY <1>1, <1>2 DEF SessionOrder, EntryFollowsHolder, IsRunning, Finish

(* The lock of the open session is held by one dispatch at most.           *)
LEMMA LockStep ==
  ASSUME TypeOK, SessionOrder, NEW d \in Dispatches, Gateway(d) \/ Environment(d)
  PROVE  (LockIsCurrent /\ OneHolder)'
<1>1. \A e \in Dispatches : e # d => task'[e] = task[e]
  BY OthersKept
<1>2. LockIsCurrent'
  BY <1>1, LockMoves DEF SessionOrder, LockIsCurrent
<1>3. OneHolder'
  <2>1. \A e \in Dispatches : e # d /\ task'[d].at \in Holding => task[e].at \notin Holding
    BY LockMoves DEF SessionOrder, OneHolder, LockIsCurrent, LockFree, Holding
  <2> QED
    BY <1>1, <2>1 DEF SessionOrder, OneHolder
<1> QED
  BY <1>2, <1>3

(* The registry entry follows the holder of the lock.                      *)
LEMMA EntryStep ==
  ASSUME TypeOK, DispatchOrder, SessionOrder, NEW d \in Dispatches, Gateway(d) \/ Environment(d)
  PROVE  EntryFollowsHolder'
<1>1. \A e \in Dispatches : e # d => task'[e] = task[e] /\ attempt'[e] = attempt[e]
  BY OthersKept
<1>2. Started(attempt[d]) => Started(attempt'[d]) /\ attempt'[d].run = attempt[d].run
  BY AttemptMoves DEF DispatchOrder
<1>3. \A e \in Dispatches : e # d /\ task[e].at \in Holding => task[d].at \notin Holding
  BY DEF SessionOrder, OneHolder
<1>4. /\ Owning \subseteq Holding /\ {"ready", "prepared", "frames"} \subseteq Holding
      /\ {"ready", "prepared", "frames", "done"} \cap Owning = {}
  BY DEF Owning, Stopping, Holding
<1>5. CASE /\ entry' = entry
           /\ task'[d].at \in Owning => task[d].at \in Owning
           /\ task'[d].at \in {"ready", "prepared"} => task[d].at \in {"ready", "prepared"} \/ ~IsRunning
           /\ task'[d].at = "frames" => task[d].at = "frames"
  BY <1>1, <1>2, <1>5 DEF SessionOrder, EntryFollowsHolder, IsRunning, Started
<1>6. CASE /\ task[d].at = "prepared" /\ task'[d].at = "stream"
           /\ entry' = [run |-> attempt[d].run, attempt |-> d]
           /\ Started(attempt'[d]) /\ attempt'[d].run = attempt[d].run
  <2>1. \A e \in Dispatches : e # d => task'[e].at \notin Holding
    BY <1>1, <1>3, <1>4, <1>6
  <2> QED
    BY <1>4, <1>6, <2>1 DEF EntryFollowsHolder, Started
<1>7. CASE /\ task[d].at \in Owning \cup {"frames"} /\ task'[d].at \in {"frames", "done"}
           /\ entry' = Finish(attempt[d].run)
  <2>1. entry' = NoEntry
    BY <1>7, EntryFacts
  <2>2. \A e \in Dispatches : e # d => task'[e].at \notin Holding
    BY <1>1, <1>3, <1>4, <1>7
  <2> QED
    BY <1>4, <1>7, <2>1, <2>2 DEF EntryFollowsHolder
<1> QED
  BY <1>5, <1>6, <1>7, EntryMoves DEF DispatchOrder

(* The running Core has the registry entry and the latest version of its   *)
(* run: nobody prepares meanwhile, and a late commit of another attempt is *)
(* refused.                                                                *)
LEMMA CoreStep ==
  ASSUME TypeOK, DispatchOrder, SessionOrder, NEW d \in Dispatches, Gateway(d) \/ Environment(d)
  PROVE  (PreparedOwnsRun /\ CoreIsCancellable /\ CoreOwnsRun)'
<1>1. \A e \in Dispatches : e # d => task'[e] = task[e] /\ attempt'[e] = attempt[e]
  BY OthersKept
<1>2. OrderOf(d) /\ (Committing(d) => task[d].at # "prepared")
  BY CommittingFacts DEF DispatchOrder, TypeOK
<1>3. \A e \in Dispatches : e # d /\ task[e].at \in Holding => task[d].at \notin Holding
  BY DEF SessionOrder, OneHolder
<1>4. /\ "prepared" \in Holding /\ "ready" \in Holding /\ "frames" \in Holding /\ Owning \subseteq Holding
  BY DEF Holding, Owning, Stopping
<1>5. PreparedOwnsRun'
  <2>1. task'[d].at = "prepared" => store'.owner = d
    BY <1>2, StoreMoves DEF SessionOrder, PreparedOwnsRun
  <2>2. ASSUME NEW e \in Dispatches, e # d, task[e].at = "prepared" PROVE store'.owner = e
    BY <1>2, <1>3, <1>4, <2>2, StoreMoves DEF SessionOrder, PreparedOwnsRun
  <2> QED
    BY <1>1, <2>1, <2>2 DEF PreparedOwnsRun
<1>6. ASSUME NEW e \in Dispatches, attempt'[e].core = "running"
      PROVE  \/ attempt[e].core = "running" /\ (Accepts(attempt[e]) => Accepts(attempt'[e]))
             \/ e = d /\ task[d].at = "prepared" /\ task'[d].at = "stream" /\ store' = store
  BY <1>1, <1>2, <1>6, AttemptMoves DEF Accepts
<1>7. CoreOwnsRun'
  <2>1. ASSUME NEW e \in Dispatches, attempt[e].core = "running" PROVE store'.owner = e
    <3>1. store.owner = e /\ task[d].at # "ready"
      BY <2>1, NoneIsNoDispatch DEF SessionOrder, CoreOwnsRun, CoreIsCancellable, EntryFollowsHolder, NoEntry
    <3> QED
      BY <1>2, <2>1, <3>1, StoreMoves
  <2> QED
    BY <1>6, <2>1 DEF CoreOwnsRun, SessionOrder, PreparedOwnsRun
<1>8. CoreIsCancellable'
  <2>1. ASSUME NEW e \in Dispatches, attempt[e].core = "running", attempt'[e].core = "running"
        PROVE  entry'.attempt = e /\ Accepts(attempt'[e])
    <3>1. entry.attempt = e /\ Accepts(attempt[e])
      BY <2>1 DEF SessionOrder, CoreIsCancellable
    <3>2. task[d].at \notin {"prepared", "frames"}
      BY <3>1, NoneIsNoDispatch DEF SessionOrder, EntryFollowsHolder, NoEntry
    <3>3. task[d].at \in Owning => d = e
      BY <3>1 DEF SessionOrder, EntryFollowsHolder
    <3>4. entry' = entry \/ (d = e /\ attempt'[d].core # "running")
      BY <1>2, <3>2, <3>3, EntryMoves
    <3> QED
      BY <1>6, <2>1, <3>1, <3>2, <3>4
  <2>2. ASSUME task[d].at = "prepared", task'[d].at = "stream", attempt'[d].core = "running"
        PROVE  entry'.attempt = d /\ Accepts(attempt'[d])
    <3>1. EntryFollowsHolder' /\ OrderOf(d)'
      BY <1>2, EntryStep, OrderStep DEF Next, DispatchOrder
    <3> QED
      BY <2>2, <3>1 DEF EntryFollowsHolder, Owning, OrderOf, OutcomeOf, Accepts
  <2> QED
    BY <1>6, <2>1, <2>2 DEF CoreIsCancellable
<1> QED
  BY <1>5, <1>7, <1>8

(* Who has not been cancelled twice has released everything in the end.    *)
LEMMA ReleaseStep ==
  ASSUME TypeOK, DispatchOrder, SessionOrder, NEW d \in Dispatches, Gateway(d) \/ Environment(d)
  PROVE  ReleasedAtEnd'
<1> DEFINE again == Interrupt(d) /\ interrupts' = [interrupts EXCEPT ![d] = interrupts[d] + 1]
<1>1. \A e \in Dispatches : e # d => task'[e] = task[e] /\ attempt'[e] = attempt[e]
  BY OthersKept
<1>2. OrderOf(d)
  BY DEF DispatchOrder
<1>3. \A e \in Dispatches : interrupts[e] \in Nat
  BY GatewayBounds DEF TypeOK
<1>4. interrupts' = interrupts \/ again
  BY <1>2, ReaderMoves
<1>5. \A e \in Dispatches : e # d => interrupts'[e] = interrupts[e]
  BY <1>4 DEF TypeOK
<1>6. interrupts'[d] = interrupts[d] \/ (again /\ interrupts'[d] = interrupts[d] + 1)
  BY <1>4 DEF TypeOK
<1>7. \A e \in Dispatches : e # d /\ entry.attempt # e => entry'.attempt # e
  BY <1>2, EntryMoves, EntryFacts
<1> HIDE DEF again
<1>8. ASSUME NEW e \in Dispatches, e # d
      PROVE  /\ task'[e].at \in Stopping \/ task'[e].held => interrupts'[e] >= 1
             /\ attempt'[e].orphan => interrupts'[e] >= 2
             /\ task'[e].at = "frames" => attempt'[e].released
             /\ task'[e].at = "done" /\ interrupts'[e] < 2 => LeavesNothing(e)'
  BY <1>1, <1>5, <1>7, <1>8 DEF SessionOrder, ReleasedAtEnd, LeavesNothing, Unreleased, Started
<1>9. task'[d].at \in Stopping \/ task'[d].held => interrupts'[d] >= 1
  <2>1. task'[d].at \in Stopping \/ task'[d].held => task[d].at \in Stopping \/ task[d].held \/ again
    BY <1>2, ReaderMoves DEF again
  <2>2. again => interrupts'[d] = interrupts[d] + 1
    BY DEF again, TypeOK
  <2> QED
    BY <1>3, <1>6, <2>1, <2>2 DEF SessionOrder, ReleasedAtEnd
<1>10. attempt'[d].orphan => interrupts'[d] >= 2
  <2>1. attempt'[d].orphan => attempt[d].orphan \/ (again /\ (task[d].at \in Stopping \/ task[d].held))
    BY <1>2, ReaderMoves DEF again
  <2>2. again => interrupts'[d] = interrupts[d] + 1
    BY DEF again, TypeOK
  <2> QED
    BY <1>3, <1>6, <2>1, <2>2 DEF SessionOrder, ReleasedAtEnd
<1>11. task'[d].at = "frames" => attempt'[d].released
  BY <1>2, ReaderMoves, AttemptMoves DEF SessionOrder, ReleasedAtEnd
<1>12. ASSUME task'[d].at = "done", interrupts'[d] < 2
       PROVE  LeavesNothing(d)'
  <2>1. ~attempt'[d].orphan
    BY <1>3, <1>6, <1>10, <1>12
  <2>2. /\ Started(attempt'[d]) => Started(attempt[d])
        /\ attempt[d].released => attempt'[d].released
    BY <1>2, <1>12, AttemptMoves
  <2>3. CASE task[d].at \in Before /\ entry' = entry
    BY <1>2, <2>1, <2>2, <2>3, EntryFacts DEF OrderOf, PhaseOf, LeavesNothing, Unreleased, Started
  <2>4. CASE task[d].at = "done" /\ entry' = entry
    <3>1. LeavesNothing(d)
      BY <1>3, <1>6, <1>12, <2>4 DEF SessionOrder, ReleasedAtEnd
    <3> QED
      BY <2>1, <2>2, <2>4, <3>1 DEF LeavesNothing, Unreleased, Started
  <2>5. CASE attempt'[d].released /\ task[d].at \in Owning /\ entry' = Finish(attempt[d].run)
    BY <2>1, <2>5, EntryFacts DEF LeavesNothing, Unreleased
  <2>6. CASE task[d].at = "frames" /\ entry' = Finish(attempt[d].run) /\ attempt' = attempt
    BY <2>1, <2>6, EntryFacts DEF SessionOrder, ReleasedAtEnd, LeavesNothing, Unreleased, Started
  <2>7. CASE task[d].held /\ again
    <3>1. interrupts[d] >= 1
      BY <2>7 DEF SessionOrder, ReleasedAtEnd
    <3>2. interrupts'[d] = interrupts[d] + 1
      BY <2>7 DEF again, TypeOK
    <3> QED
      BY <1>3, <1>12, <3>1, <3>2
  <2> QED
    BY <1>2, <1>12, <2>3, <2>4, <2>5, <2>6, <2>7, ReaderMoves DEF again
<1> QED
  BY <1>8, <1>9, <1>10, <1>11, <1>12 DEF ReleasedAtEnd

(* Cancelling, closing between dispatches, and opening again.              *)
LEMMA OpenCloseStep ==
  ASSUME TypeOK, DispatchOrder, SessionOrder, ~CloseBusy, UserCancels \/ Close \/ Open
  PROVE  SessionOrder'
<1>1. task' = task /\ store' = store /\ interrupts' = interrupts
  BY DEF UserCancels, Close, Open
<1>2. \A d \in Dispatches :
        /\ attempt'[d].core = attempt[d].core /\ attempt'[d].run = attempt[d].run
        /\ attempt'[d].sealed = attempt[d].sealed /\ attempt'[d].released = attempt[d].released
        /\ attempt'[d].orphan = attempt[d].orphan
  <2> SUFFICES ASSUME NEW d \in Dispatches, NEW a, a = Cancel(attempt[d], "cancelled")
               PROVE  /\ attempt'[d].core = attempt[d].core /\ attempt'[d].run = attempt[d].run
                      /\ attempt'[d].sealed = attempt[d].sealed /\ attempt'[d].released = attempt[d].released
                      /\ attempt'[d].orphan = attempt[d].orphan
    OBVIOUS
  <2>1. attempt[d] \in Attempts /\ a = [attempt[d] EXCEPT !.token = a.token, !.forced = a.forced] /\ a \in Attempts
    BY CancelFacts DEF TypeOK, Reasons
  <2>2. attempt'[d] \in {attempt[d], a, [a EXCEPT !.accepted = Acceptance(attempt[d])]}
    <3>1. CASE UserCancels
      <4>1. attempt' = [attempt EXCEPT ![entry.attempt] =
               [Cancel(attempt[entry.attempt], "cancelled") EXCEPT !.accepted = Acceptance(attempt[entry.attempt])]]
        BY <3>1 DEF UserCancels
      <4> QED
        BY <4>1 DEF TypeOK
    <3>2. CASE Close \/ Open
      BY <3>2 DEF Close, Open, TypeOK
    <3> QED
      BY <3>1, <3>2
  <2>3. /\ a.core = attempt[d].core /\ a.run = attempt[d].run /\ a.sealed = attempt[d].sealed
        /\ a.released = attempt[d].released /\ a.orphan = attempt[d].orphan
    BY <2>1 DEF Attempts
  <2>4. CASE attempt'[d] = attempt[d] \/ attempt'[d] = a
    BY <2>3, <2>4
  <2>5. CASE attempt'[d] = [a EXCEPT !.accepted = Acceptance(attempt[d])]
    <3>1. a \in Attempts
      BY <2>1
    <3> QED
      BY <2>3, <2>5, <3>1 DEF Attempts
  <2> QED
    BY <2>2, <2>4, <2>5
<1>3. /\ entry' = entry \/ (entry' = NoEntry /\ Close /\ (entry.attempt \in Dispatches /\ Accepts(attempt[entry.attempt])
                              => ~ActiveTasks(attempt[entry.attempt])))
      /\ UNCHANGED <<lock, opening, isOpen>> \/ \A d \in Dispatches : task[d].at \in {"idle", "done"}
  <2>1. UserCancels \/ Open => entry' = entry
    BY DEF UserCancels, Open
  <2>2. Close => entry' = entry \/ (entry' = NoEntry /\ (entry.attempt \in Dispatches /\ Accepts(attempt[entry.attempt])
                              => ~ActiveTasks(attempt[entry.attempt])))
    BY NoneIsNoDispatch DEF Close, IsRunning, NoEntry
  <2>3. Open => \A d \in Dispatches : task[d].at \in {"idle", "done"}
    BY DEF Open, SessionOrder, LockIsCurrent
  <2>4. (UserCancels => UNCHANGED <<lock, opening, isOpen>>)
        /\ (Close => \A d \in Dispatches : task[d].at \in {"idle", "done"})
    BY DEF UserCancels, Close
  <2> QED
    BY <2>1, <2>2, <2>3, <2>4
<1>4. NoEntry.attempt \notin Dispatches
  BY NoneIsNoDispatch DEF NoEntry
<1>5. LockIsCurrent' /\ OneHolder'
  BY <1>1, <1>3 DEF SessionOrder, LockIsCurrent, OneHolder
<1>6. EntryFollowsHolder'
  <2>1. entry' # entry => \A d \in Dispatches : task[d].at \notin Owning
    BY <1>3 DEF Close, Owning, Stopping
  <2> QED
    BY <1>1, <1>2, <1>3, <2>1 DEF SessionOrder, EntryFollowsHolder, Started
<1>7. PreparedOwnsRun' /\ CoreOwnsRun'
  BY <1>1, <1>2 DEF SessionOrder, PreparedOwnsRun, CoreOwnsRun
<1>8. CoreIsCancellable'
  BY <1>2, <1>3 DEF SessionOrder, CoreIsCancellable, Accepts, ActiveTasks
<1>9. ReleasedAtEnd'
  <2>1. \A d \in Dispatches : entry.attempt # d => entry'.attempt # d
    BY <1>3, <1>4
  <2> QED
    BY <1>1, <1>2, <2>1 DEF SessionOrder, ReleasedAtEnd, LeavesNothing, Unreleased, Started
<1> QED
  BY <1>5, <1>6, <1>7, <1>8, <1>9 DEF SessionOrder

(* The first state of a session is in order.                               *)
LEMMA SessionInit == Init => SessionOrder
<1> SUFFICES ASSUME Init PROVE SessionOrder
  OBVIOUS
<1>1. \A d \in Dispatches : attempt[d] = NewAttempt /\ interrupts[d] = 0
        /\ task[d].at = "idle" /\ ~task[d].held
  BY DEF Init
<1>2. \A d \in Dispatches : attempt[d].core = "none" /\ ~attempt[d].orphan
  BY <1>1 DEF NewAttempt
<1>3. entry = NoEntry
  BY DEF Init
<1> QED
  BY <1>1, <1>2, <1>3 DEF SessionOrder, LockIsCurrent, OneHolder, EntryFollowsHolder, PreparedOwnsRun,
     CoreIsCancellable, CoreOwnsRun, ReleasedAtEnd, Holding, Owning, Stopping

(* In every state of a session the types hold, every dispatch is in order, *)
(* and, if the session is only closed between dispatches, they take turns. *)
THEOREM GatewayIsInOrder == Spec => []GatewayOrder
<1>1. Init => GatewayOrder
  BY OrderInit, SessionInit DEF GatewayOrder
<1>2. GatewayOrder /\ [Next]_vars => GatewayOrder'
  <2> SUFFICES ASSUME GatewayOrder, [Next]_vars PROVE GatewayOrder'
    OBVIOUS
  <2>1. (TypeOK /\ DispatchOrder)'
    BY OrderStep DEF GatewayOrder
  <2>2. ASSUME ~CloseBusy PROVE SessionOrder'
    <3> USE <2>2 DEF GatewayOrder
    <3>1. ASSUME NEW d \in Dispatches, Gateway(d) \/ Environment(d) PROVE SessionOrder'
      BY <3>1, LockStep, EntryStep, CoreStep, ReleaseStep DEF SessionOrder
    <3>2. CASE UserCancels \/ Close \/ Open
      BY <3>2, OpenCloseStep
    <3>3. CASE UNCHANGED vars
      BY <3>3 DEF vars, SessionOrder, LockIsCurrent, OneHolder, EntryFollowsHolder, PreparedOwnsRun,
         CoreIsCancellable, CoreOwnsRun, ReleasedAtEnd, LeavesNothing, Unreleased, Started, Accepts
    <3> QED
      BY <3>1, <3>2, <3>3 DEF Next
  <2> QED
    BY <2>1, <2>2 DEF GatewayOrder
<1> QED
  BY <1>1, <1>2, PTL DEF Spec

(* Core never executes twice at once for a session that is only closed     *)
(* between its dispatches.                                                 *)
THEOREM CoreRunsOnce == ~CloseBusy => (Spec => []OneCore)
<1> SUFFICES ASSUME ~CloseBusy PROVE Spec => []OneCore
  OBVIOUS
<1>1. GatewayOrder => OneCore
  BY DEF GatewayOrder, SessionOrder, CoreIsCancellable, OneCore
<1> QED
  BY GatewayIsInOrder, <1>1, PTL

(* A running attempt can be found and cancelled and is alone in writing    *)
(* its run, under the same use of close.                                   *)
THEOREM AttemptsStayInOrder == ~CloseBusy => (Spec => []AttemptInOrder)
<1> SUFFICES ASSUME ~CloseBusy PROVE Spec => []AttemptInOrder
  OBVIOUS
<1>1. GatewayOrder => AttemptInOrder
  BY DEF GatewayOrder, SessionOrder, AttemptInOrder, DispatchOrder, OrderOf, PhaseOf, LifecycleNeverRaises
<1> QED
  BY GatewayIsInOrder, <1>1, PTL

(* However a dispatch ends, it leaves nothing behind unless its reader was *)
(* cancelled twice.                                                        *)
THEOREM DispatchesLeaveNothing == ~CloseBusy => (Spec => []NothingLeftBehind)
<1> SUFFICES ASSUME ~CloseBusy PROVE Spec => []NothingLeftBehind
  OBVIOUS
<1>1. GatewayOrder => NothingLeftBehind
  BY DEF GatewayOrder, SessionOrder, ReleasedAtEnd, NothingLeftBehind
<1> QED
  BY GatewayIsInOrder, <1>1, PTL

=============================================================================
