------------------------------ MODULE CoreProofs ------------------------------
(***************************************************************************)
(* Proofs about CoreLoop: what an entry of Core may spend, what it leaves  *)
(* open when it ends, and what it starts once it is cancelled.             *)
(***************************************************************************)
EXTENDS CoreProperties, FiniteSetTheorems, WellFoundedInduction, TLAPS

CoreFields == { "task", "plan", "blockers", "latest", "counts", "turns", "iterations", "revision",
                "check", "print", "repeated", "noProgress" }
DiskFields == { "status", "mode", "core", "messages", "resume", "wait", "prepared", "ws" }
MessageFields == { "said", "issued", "answers", "feedback" }

\* What the proofs need to know of a CoreState: its fields, and what is counted.
IsCore(c) ==
    /\ c = [ f \in CoreFields |-> c[f] ] /\ "status" \in DOMAIN c.plan
    /\ c.turns \in Nat /\ c.revision \in Nat

\* d has the task, the plan, the changes and the last check of c.
Kept(c, d) ==
    d.task = c.task /\ d.plan = c.plan /\ d.revision = c.revision /\ d.check = c.check

-------------------------------------------------------------------------------
(* The reducer counts turns in one place only *)

(* No reducer but that of the model's answer changes the number of turns   *)
(* (reducer.py).                                                           *)
LEMMA RecordFailuresKeepsTurns ==
  ASSUME NEW c, IsCore(c), NEW code, NEW n
  PROVE  /\ IsCore(RecordFailures(c, code, n)) /\ RecordFailures(c, code, n).turns = c.turns
         /\ Kept(c, RecordFailures(c, code, n))
  BY DEF RecordFailures, IsCore, CoreFields, Kept

LEMMA UserInputKeepsTurns ==
  ASSUME NEW c, IsCore(c), NEW o
  PROVE  /\ IsCore(ReduceUserInput(c, o)) /\ ReduceUserInput(c, o).turns = c.turns
         /\ ReduceUserInput(c, o).task = IF c.task = "blocked" THEN "active" ELSE c.task
         /\ ReduceUserInput(c, o).plan = c.plan /\ ReduceUserInput(c, o).revision = c.revision
  BY DEF ReduceUserInput, IsCore, CoreFields

LEMMA ModelCountsOneTurn ==
  ASSUME NEW c, IsCore(c), NEW o, NEW code
  PROVE  /\ IsCore(ReduceModel(c, o, code)) /\ ReduceModel(c, o, code).turns = c.turns + 1
         /\ Kept(c, ReduceModel(c, o, code))
<1> DEFINE unfinished == IsFinalCandidate(o) /\ Active(c) /\ ~c.plan.done
           progress == IF unfinished /\ c.noProgress < 2 THEN c.noProgress + 1 ELSE c.noProgress
           counted == [ c EXCEPT !.turns = @ + 1, !.noProgress = progress ]
<1>1. IsCore(counted) /\ counted.turns = c.turns + 1 /\ Kept(c, counted)
  <2> HIDE DEF progress
  <2>1. counted = [ f \in CoreFields |-> IF f = "turns" THEN c.turns + 1
                                         ELSE IF f = "noProgress" THEN progress ELSE c[f] ]
    BY DEF IsCore, CoreFields
  <2> HIDE DEF counted
  <2>2. counted.turns = c.turns + 1 /\ counted.turns \in Nat /\ counted.revision \in Nat
    BY <2>1 DEF IsCore, CoreFields
  <2>3. Kept(c, counted)
    BY <2>1 DEF Kept, CoreFields
  <2> QED
    BY <2>1, <2>2, <2>3 DEF IsCore, Kept
<1>2. ReduceModel(c, o, code) = IF code = "none" THEN counted ELSE RecordFailures(counted, code, 1)
  BY DEF ReduceModel
<1> HIDE DEF counted
<1> QED
  BY <1>1, <1>2, RecordFailuresKeepsTurns DEF Kept

LEMMA TerminalKeepsTurns ==
  ASSUME NEW c, IsCore(c), NEW d
  PROVE  IsCore(ApplyDecision(c, d)) /\ ApplyDecision(c, d).turns = c.turns
<1>1. \/ ApplyDecision(c, d) = c
      \/ \E task, status, pending, blockers :
           ApplyDecision(c, d) = [ c EXCEPT !.task = task, !.plan.status = status,
                                            !.plan.pending = pending, !.blockers = blockers ]
  BY DEF ApplyDecision
<1> QED
  BY <1>1 DEF IsCore, CoreFields

LEMMA ToolsKeepTurnsAndTask ==
  ASSUME NEW c, IsCore(c), NEW results, NEW print, NEW mode
  PROVE  /\ IsCore(ReduceTools(c, results, print, mode)) /\ ReduceTools(c, results, print, mode).turns = c.turns
         /\ ReduceTools(c, results, print, mode).task = c.task
         /\ ReduceTools(c, results, print, mode).revision =
              IF Changed(results) THEN c.revision + 1 ELSE c.revision
<1> DEFINE counted == [ c EXCEPT !.iterations = @ + IF Material(results) = { } THEN 0 ELSE 1 ]
           changed == ReduceWorkspace(counted, results)
           checked == ReduceVerification(changed, results)
           failed == ReduceFailures(checked, results)
           planned == ApplyCommands(failed, results, mode)
           clean == ForgetFailures(planned, results)
           SameAs(d) == IsCore(d) /\ d.turns = c.turns /\ d.task = c.task
           Revised(d) == d.revision = IF Changed(results) THEN c.revision + 1 ELSE c.revision
<1>1. SameAs(counted) /\ counted.revision = c.revision
  BY DEF IsCore, CoreFields
<1>2. SameAs(changed) /\ Revised(changed)
  <2> HIDE DEF counted
  <2> QED
    BY <1>1 DEF ReduceWorkspace, IsCore, CoreFields
<1>3. SameAs(checked) /\ Revised(checked)
  <2> HIDE DEF changed
  <2> DEFINE verdict == LastOf(results, { "passed", "checkFailed" })
             status == IF verdict = "checkFailed" THEN "failed"
                       ELSE IF verdict = "passed" /\ ~Changed(results) THEN "passed"
                       ELSE IF verdict = "passed" \/ (Changed(results) /\ changed.check.status # "none")
                            THEN "stale"
                       ELSE changed.check.status
             check == IF verdict = "none" /\ ~Changed(results) THEN changed.check
                      ELSE [ status |-> status,
                             revision |-> IF status \in { "passed", "failed" }
                                          THEN changed.revision ELSE 0 ]
             blockers == CASE check.status = "failed" -> changed.blockers \cup { "verification_failed" }
                           [] check.status = "passed" -> changed.blockers \ { "verification_failed" }
                           [] OTHER -> changed.blockers
             next == [ changed EXCEPT !.check = check, !.blockers = blockers ]
  <2>1. checked = IF check.status = "failed" THEN RecordFailures(next, "verification.failed", 1) ELSE next
    BY DEF ReduceVerification
  <2> HIDE DEF check, blockers
  <2>2. SameAs(next) /\ Revised(next)
    BY <1>2 DEF IsCore, CoreFields
  <2> HIDE DEF next
  <2> QED
    BY <2>1, <2>2, RecordFailuresKeepsTurns DEF Kept
<1>4. SameAs(failed) /\ Revised(failed)
  <2> HIDE DEF checked
  <2>1. \E latest, counts, blockers :
          failed = [ checked EXCEPT !.latest = latest, !.counts = counts, !.blockers = blockers ]
    BY DEF ReduceFailures
  <2> QED
    BY <1>3, <2>1 DEF IsCore, CoreFields
<1>5. SameAs(planned) /\ Revised(planned)
  <2> HIDE DEF failed
  <2> QED
    BY <1>4 DEF ApplyCommands, IsCore, CoreFields
<1>6. SameAs(clean) /\ Revised(clean)
  <2> HIDE DEF planned
  <2> QED
    BY <1>5 DEF ForgetFailures, IsCore, CoreFields
<1>7. \/ ReduceTools(c, results, print, mode) = clean
      \/ \E repeated, progress :
           ReduceTools(c, results, print, mode) =
             [ clean EXCEPT !.repeated = repeated, !.print = print, !.noProgress = progress ]
  BY DEF ReduceTools
<1> HIDE DEF clean
<1> QED
  BY <1>6, <1>7 DEF IsCore, CoreFields

-------------------------------------------------------------------------------
(* The policy *)

\* What the rules decide on.
Guard(c, o, mode, lim, i) == Rules(c, o, mode, lim)[i].when
Move(c, o, mode, lim, i) == Rules(c, o, mode, lim)[i].decision.do

(* The rules that matter here, one by one.                                 *)
LEMMA RuleFacts ==
  ASSUME NEW c, NEW o, NEW mode, NEW lim
  PROVE  /\ DOMAIN Rules(c, o, mode, lim) = 1..25
         /\ \A i \in { 1, 2, 3, 5, 6, 16, 18, 20, 24 } : Move(c, o, mode, lim, i) = "end"
         /\ \A i \in { 4, 9, 11, 12 } : Move(c, o, mode, lim, i) = "wait"
         /\ \A i \in { 7, 13 } : Move(c, o, mode, lim, i) = "tools"
         /\ Guard(c, o, mode, lim, 4) <=> o.wait # "none"
         /\ Guard(c, o, mode, lim, 5) <=> o.kind = "cancel" \/ o.cancelled
         /\ Guard(c, o, mode, lim, 8) => o.kind = "user"
         /\ Guard(c, o, mode, lim, 10) /\ OutOfBudget(c, o, lim) => Guard(c, o, mode, lim, 9)
         /\ Guard(c, o, mode, lim, 12) <=> OutOfBudget(c, o, lim)
         /\ Guard(c, o, mode, lim, 25)
<1>1. DOMAIN Rules(c, o, mode, lim) = 1..25
  BY DEF Rules
<1>2. /\ \A i \in { 1, 2, 3, 5, 6, 16, 18, 20, 24 } : Move(c, o, mode, lim, i) = "end"
      /\ \A i \in { 4, 9, 11, 12 } : Move(c, o, mode, lim, i) = "wait"
      /\ \A i \in { 7, 13 } : Move(c, o, mode, lim, i) = "tools"
  <2>1. Move(c, o, mode, lim, 1) = "end" /\ Move(c, o, mode, lim, 2) = "end" /\ Move(c, o, mode, lim, 3) = "end"
    BY DEF Rules, Move, Terminate
  <2>2. Move(c, o, mode, lim, 5) = "end" /\ Move(c, o, mode, lim, 6) = "end" /\ Move(c, o, mode, lim, 16) = "end"
    BY DEF Rules, Move, Terminate
  <2>3. Move(c, o, mode, lim, 18) = "end" /\ Move(c, o, mode, lim, 20) = "end" /\ Move(c, o, mode, lim, 24) = "end"
    BY DEF Rules, Move, Terminate
  <2>4. Move(c, o, mode, lim, 4) = "wait" /\ Move(c, o, mode, lim, 9) = "wait" /\ Move(c, o, mode, lim, 11) = "wait"
    BY DEF Rules, Move, Wait
  <2>5. Move(c, o, mode, lim, 12) = "wait" /\ Move(c, o, mode, lim, 7) = "tools" /\ Move(c, o, mode, lim, 13) = "tools"
    BY DEF Rules, Move, Wait, ExecuteTools
  <2> QED
    BY <2>1, <2>2, <2>3, <2>4, <2>5
<1>3. /\ Guard(c, o, mode, lim, 4) <=> o.wait # "none"
      /\ Guard(c, o, mode, lim, 5) <=> o.kind = "cancel" \/ o.cancelled
      /\ Guard(c, o, mode, lim, 8) => o.kind = "user"
  BY DEF Rules, Guard
<1>4. /\ Guard(c, o, mode, lim, 10) /\ OutOfBudget(c, o, lim) => Guard(c, o, mode, lim, 9)
      /\ Guard(c, o, mode, lim, 12) <=> OutOfBudget(c, o, lim)
      /\ Guard(c, o, mode, lim, 25)
  BY DEF Rules, Guard
<1> QED
  BY <1>1, <1>2, <1>3, <1>4

(* The first rule that applies decides (Policy.decide).                    *)
LEMMA DecideRule ==
  ASSUME NEW c, NEW o, NEW mode, NEW lim
  PROVE  \E i \in 1..25 : /\ Guard(c, o, mode, lim, i)
                          /\ \A j \in 1..25 : Guard(c, o, mode, lim, j) => i <= j
                          /\ Decide(c, o, mode, lim) = Rules(c, o, mode, lim)[i].decision
<1> DEFINE rules == Rules(c, o, mode, lim)
           holds == { i \in DOMAIN rules : rules[i].when }
           first == CHOOSE i \in holds : \A j \in holds : i <= j
<1>1. holds \subseteq 1..25 /\ 25 \in holds
  BY RuleFacts DEF Guard
<1>2. first \in holds /\ \A j \in holds : first <= j
  <2> HIDE DEF holds
  <2>1. holds \subseteq Nat /\ holds # { }
    BY <1>1
  <2>2. PICK i \in holds : \A j \in holds : << j, i >> \notin OpToRel(<, Nat)
    BY <2>1, WFMin, NatLessThanWellFounded
  <2>3. ASSUME NEW j \in holds PROVE i <= j
    <3>1. i \in Nat /\ j \in Nat
      BY <2>1
    <3>2. ~(j < i)
      BY <2>2, <3>1 DEF OpToRel
    <3> QED
      BY <3>1, <3>2
  <2> QED
    BY <2>3
<1>3. Decide(c, o, mode, lim) = Rules(c, o, mode, lim)[first].decision
  BY DEF Decide
<1>4. first \in 1..25 /\ Guard(c, o, mode, lim, first)
  BY <1>1, <1>2 DEF Guard
<1>5. \A i \in 1..25 : Guard(c, o, mode, lim, i) => first <= i
  BY <1>2, RuleFacts DEF Guard
<1> QED
  BY <1>3, <1>4, <1>5

(* A cancellation ends the run, and beyond its budget the model is called   *)
(* only for the user's feedback.                                            *)
LEMMA DecideFacts ==
  ASSUME NEW c, NEW o, NEW mode, NEW lim
  PROVE  /\ o.kind = "cancel" /\ o.wait = "none" => Decide(c, o, mode, lim).do = "end"
         /\ Decide(c, o, mode, lim).do = "model" => o.kind = "user" \/ ~OutOfBudget(c, o, lim)
<1>3. PICK first \in 1..25 :
        /\ Guard(c, o, mode, lim, first)
        /\ \A i \in 1..25 : Guard(c, o, mode, lim, i) => first <= i
        /\ Decide(c, o, mode, lim).do = Move(c, o, mode, lim, first)
  BY DecideRule DEF Move
<1>4. first \in 1..25 /\ Guard(c, o, mode, lim, first)
  BY <1>3
<1>5. \A i \in 1..25 : Guard(c, o, mode, lim, i) => first <= i
  BY <1>3
<1>6. ASSUME o.kind = "cancel", o.wait = "none" PROVE Move(c, o, mode, lim, first) = "end"
  <2>1. first # 4 /\ first <= 5
    BY <1>4, <1>5, <1>6, RuleFacts
  <2>2. first \in { 1, 2, 3, 5 }
    BY <1>4, <2>1
  <2> QED
    BY <2>2, RuleFacts
<1>7. ASSUME Move(c, o, mode, lim, first) = "model", o.kind # "user", OutOfBudget(c, o, lim)
      PROVE  FALSE
  <2>1. first <= 12
    BY <1>4, <1>5, <1>7, RuleFacts
  <2>2. first # 8 /\ (first = 10 => 10 <= 9)
    BY <1>4, <1>5, <1>7, RuleFacts
  <2>3. first \in { 1, 2, 3, 5, 6, 4, 9, 11, 12, 7 }
    BY <1>4, <2>1, <2>2
  <2> QED
    BY <1>7, <2>3, RuleFacts
<1> QED
  BY <1>3, <1>6, <1>7

(* Nothing but a terminal status ends a run.                                *)
LEMMA DecideEnds ==
  ASSUME NEW c, NEW o, NEW mode, NEW lim, Decide(c, o, mode, lim).do = "end"
  PROVE  Decide(c, o, mode, lim).arg \in Terminal
<1> DEFINE Ends(i) == Move(c, o, mode, lim, i) # "end"
                      \/ Rules(c, o, mode, lim)[i].decision.arg \in Terminal
<1>1. Ends(1) /\ Ends(2) /\ Ends(3) /\ Ends(5) /\ Ends(6)
  BY DEF Rules, Terminate, Terminal
<1>2. Ends(16) /\ Ends(18) /\ Ends(20) /\ Ends(24)
  BY DEF Rules, Terminate, Terminal
<1>3. Ends(4) /\ Ends(7) /\ Ends(9) /\ Ends(11) /\ Ends(12) /\ Ends(13)
  BY RuleFacts
<1>4. Ends(8) /\ Ends(10) /\ Ends(14) /\ Ends(15) /\ Ends(17)
  BY DEF Rules, Move, CallModel
<1>5. Ends(19) /\ Ends(21) /\ Ends(22) /\ Ends(23) /\ Ends(25)
  BY DEF Rules, Move, CallModel
<1> HIDE DEF Ends
<1>6. \A i \in 1..25 : Ends(i)
  BY <1>1, <1>2, <1>3, <1>4, <1>5
<1>7. PICK first \in 1..25 : Decide(c, o, mode, lim) = Rules(c, o, mode, lim)[first].decision
  BY DecideRule
<1>8. Ends(first) /\ Move(c, o, mode, lim, first) = "end"
  BY <1>6, <1>7 DEF Move
<1> QED
  BY <1>7, <1>8 DEF Ends

-------------------------------------------------------------------------------
(* The transcript *)

\* s lists the numbers of S in their order.
Ordered(S, s) ==
    /\ s \in [ 1..Cardinality(S) -> S ]
    /\ Range(s) = S
    /\ \A i, j \in DOMAIN s : i < j => s[i] < s[j]

(* Some numbers up to n can be listed in their order.                      *)
LEMMA OrderedExists ==
  ASSUME NEW n \in Nat, NEW S \in SUBSET (1..n)
  PROVE  \E s : Ordered(S, s)
<1> DEFINE Bad == { k \in Nat : \E T \in SUBSET (1..k) : ~ \E s : Ordered(T, s) }
<1>1. ASSUME Bad # { } PROVE FALSE
  <2>1. PICK k \in Bad : \A j \in Bad : << j, k >> \notin OpToRel(<, Nat)
    BY <1>1, WFMin, NatLessThanWellFounded
  <2>2. k \in Nat /\ \A j \in Nat : j < k => j \notin Bad
    BY <2>1 DEF OpToRel
  <2>3. PICK T \in SUBSET (1..k) : ~ \E s : Ordered(T, s)
    BY <2>1
  <2>4. CASE k = 0
    <3>1. T = { }
      BY <2>3, <2>4
    <3>2. Ordered({ }, << >>)
      BY FS_EmptySet DEF Ordered, Range
    <3> QED
      BY <2>3, <3>1, <3>2
  <2>5. CASE k # 0
    <3> DEFINE U == T \ { k }
    <3>1. k - 1 \in Nat /\ U \in SUBSET (1..(k - 1))
      BY <2>2, <2>3, <2>5
    <3>2. PICK u : Ordered(U, u)
      BY <2>2, <3>1
    <3>3. k \in T
      BY <2>3, <3>2
    <3> DEFINE m == Cardinality(U)
               t == [ i \in 1..(m + 1) |-> IF i = m + 1 THEN k ELSE u[i] ]
    <3>4. m \in Nat /\ Cardinality(T) = m + 1
      <4>1. IsFiniteSet(1..(k - 1))
        BY <3>1, FS_Interval
      <4>2. IsFiniteSet(U)
        BY <3>1, <4>1, FS_Subset
      <4>3. T = U \cup { k } /\ k \notin U
        BY <3>3
      <4> HIDE DEF U
      <4> QED
        BY <4>2, <4>3, FS_AddElement, FS_CardinalityType
    <3>5. \A i \in 1..m : u[i] \in U /\ u[i] \in 1..(k - 1)
      BY <3>1, <3>2 DEF Ordered
    <3>6. DOMAIN u = 1..m /\ \A x \in U : \E i \in 1..m : u[i] = x
      BY <3>2 DEF Ordered, Range
    <3>7. \A i, j \in 1..m : i < j => u[i] < u[j]
      BY <3>2, <3>6 DEF Ordered
    <3>8. U \subseteq T /\ T \subseteq U \cup { k }
      OBVIOUS
    <3> HIDE DEF U, m
    <3>9. t \in [ 1..(m + 1) -> T ]
      <4> SUFFICES ASSUME NEW i \in 1..(m + 1) PROVE (IF i = m + 1 THEN k ELSE u[i]) \in T
        OBVIOUS
      <4>1. i # m + 1 => i \in 1..m
        BY <3>4
      <4> QED
        BY <3>3, <3>5, <3>8, <4>1
    <3>10. Range(t) = T
      <4>1. \A x \in T : \E i \in 1..(m + 1) : t[i] = x
        <5> SUFFICES ASSUME NEW x \in T PROVE \E i \in 1..(m + 1) : t[i] = x
          OBVIOUS
        <5>1. CASE x = k
          BY <3>4, <5>1
        <5>2. CASE x \in U
          <6>1. PICK i \in 1..m : u[i] = x
            BY <3>6, <5>2
          <6>2. i \in 1..(m + 1) /\ i # m + 1
            BY <3>4
          <6> QED
            BY <6>1, <6>2
        <5> QED
          BY <3>8, <5>1, <5>2
      <4>2. \A i \in 1..(m + 1) : t[i] \in T
        BY <3>9
      <4>3. DOMAIN t = 1..(m + 1)
        OBVIOUS
      <4> HIDE DEF t
      <4> QED
        BY <4>1, <4>2, <4>3 DEF Range
    <3>11. \A i, j \in 1..(m + 1) : i < j => t[i] < t[j]
      <4> SUFFICES ASSUME NEW i \in 1..(m + 1), NEW j \in 1..(m + 1), i < j PROVE t[i] < t[j]
        OBVIOUS
      <4>1. i \in 1..m
        BY <3>4
      <4>2. CASE j \in 1..m
        BY <3>4, <3>7, <4>1, <4>2
      <4>3. CASE j = m + 1
        <5>1. u[i] \in 1..(k - 1) /\ t[i] = u[i] /\ t[j] = k
          BY <3>4, <3>5, <4>1, <4>3
        <5> HIDE DEF t
        <5> QED
          BY <3>1, <5>1
      <4> QED
        BY <3>4, <4>2, <4>3
    <3>12. Ordered(T, t)
      <4>1. DOMAIN t = 1..(m + 1)
        OBVIOUS
      <4> HIDE DEF t
      <4> QED
        BY <3>4, <3>9, <3>10, <3>11, <4>1 DEF Ordered
    <3> QED
      BY <2>3, <3>12
  <2> QED
    BY <2>4, <2>5
<1> QED
  BY <1>1

\* A transcript, and one whose calls all have an answer.
IsTranscript(m) ==
    /\ m = [ f \in MessageFields |-> m[f] ]
    /\ m.issued \in 0..MaxCalls
    /\ m.answers = [ c \in Calls |-> m.answers[c] ]
AllAnswered(m) == \A c \in 1..m.issued : m.answers[c] # << >>

OpenCalls(m) == { c \in 1..m.issued : m.answers[c] = << >> }

LEMMA UnsettledFacts ==
  ASSUME NEW m, IsTranscript(m)
  PROVE  /\ Range(Unsettled(m)) = OpenCalls(m)
         /\ Ordered(OpenCalls(m), Unsettled(m))
         /\ Unsettled(m) = << >> <=> AllAnswered(m)
<1>1. m.issued \in Nat
  BY CoreLoopAssumption DEF IsTranscript
<1>2. OpenCalls(m) \in SUBSET (1..m.issued)
  BY DEF OpenCalls
<1>3. \E s : Ordered(OpenCalls(m), s)
  BY <1>1, <1>2, OrderedExists
<1>4. Ordered(OpenCalls(m), Unsettled(m))
  BY <1>3 DEF Ordered, Unsettled, OpenCalls
<1>5. OpenCalls(m) = { } <=> AllAnswered(m)
  BY DEF OpenCalls, AllAnswered
<1>6. Unsettled(m) = << >> => OpenCalls(m) = { }
  BY <1>4 DEF Ordered, Range
<1>7. OpenCalls(m) = { } => Unsettled(m) = << >>
  <2>1. ASSUME OpenCalls(m) = { } PROVE Unsettled(m) = << >>
    <3>1. Unsettled(m) \in [ 1..0 -> { } ]
      BY <1>4, <2>1, FS_EmptySet DEF Ordered
    <3> QED
      BY <3>1
  <2> QED
    BY <2>1
<1> QED
  BY <1>4, <1>5, <1>6, <1>7 DEF Ordered

(* The one element of a set is the sequence of it.                         *)
LEMMA OneElement ==
  ASSUME NEW x
  PROVE  SetToSeq({ x }) = << x >>
<1> DEFINE S == { x }
<1>1. Cardinality(S) = 1
  BY FS_Singleton
<1>2. \E f \in [ 1..1 -> S ] : IsInjective(f)
  <2>1. << x >> \in [ 1..1 -> S ] /\ IsInjective(<< x >>)
    BY DEF IsInjective
  <2> QED
    BY <2>1
<1>3. SetToSeq(S) \in [ 1..1 -> S ]
  BY <1>1, <1>2 DEF SetToSeq
<1> QED
  BY <1>3

(* Whatever is answered, a transcript remains one                          *)
(* (project_final_tool_messages).                                          *)
LEMMA AppendKeepsTranscript ==
  ASSUME NEW m, IsTranscript(m), NEW calls, NEW results
  PROVE  IsTranscript(AppendResults(m, calls, results))
<1>1. \E a : AppendResults(m, calls, results) = [ m EXCEPT !.answers = [ c \in Calls |-> a[c] ] ]
  <2> DEFINE mine(c) == { results[i] : i \in { j \in DOMAIN calls : calls[j] = c } } \ Suspended
             a == [ c \in Calls |-> IF mine(c) = { } \/ Len(m.answers[c]) = 2 THEN m.answers[c]
                                    ELSE m.answers[c] \o SetToSeq(mine(c)) ]
  <2>1. AppendResults(m, calls, results) = [ m EXCEPT !.answers = a ]
    BY DEF AppendResults
  <2>2. a = [ c \in Calls |-> a[c] ]
    OBVIOUS
  <2> HIDE DEF a
  <2> QED
    BY <2>1, <2>2
<1> QED
  BY <1>1 DEF IsTranscript, MessageFields

(* Settling what is open leaves nothing open (_settle_unexecuted_calls).   *)
LEMMA SettledFacts ==
  ASSUME NEW m, IsTranscript(m)
  PROVE  AllAnswered(AppendResults(m, Unsettled(m), Same("notExecuted", Unsettled(m))))
<1> DEFINE calls == Unsettled(m)
           results == Same("notExecuted", calls)
           mine(c) == { results[i] : i \in { j \in DOMAIN calls : calls[j] = c } } \ Suspended
           a == [ c \in Calls |-> IF mine(c) = { } \/ Len(m.answers[c]) = 2 THEN m.answers[c]
                                  ELSE m.answers[c] \o SetToSeq(mine(c)) ]
           new == AppendResults(m, calls, results)
<1>1. new = [ m EXCEPT !.answers = a ]
  BY DEF AppendResults
<1>2. new.issued = m.issued /\ new.answers = a
  <2> HIDE DEF a, new
  <2> QED
    BY <1>1 DEF IsTranscript, MessageFields
<1>3. \A i \in DOMAIN calls : results[i] = "notExecuted"
  BY DEF Same
<1>4. "notExecuted" \notin Suspended
  BY DEF Suspended
<1>5. Range(calls) = OpenCalls(m)
  BY UnsettledFacts
<1> HIDE DEF calls, results, new
<1>6. ASSUME NEW c \in 1..m.issued PROVE a[c] # << >>
  <2>1. c \in Calls
    BY <1>6, CoreLoopAssumption DEF IsTranscript, Calls
  <2>2. CASE c \in OpenCalls(m)
    <3>1. PICK i \in DOMAIN calls : calls[i] = c
      BY <1>5, <2>2 DEF Range
    <3>2. mine(c) = { "notExecuted" }
      BY <1>3, <1>4, <3>1
    <3>3. m.answers[c] = << >>
      BY <2>2 DEF OpenCalls
    <3> HIDE DEF mine
    <3>4. SetToSeq(mine(c)) = << "notExecuted" >>
      BY <3>2, OneElement
    <3>5. a[c] = IF mine(c) = { } \/ Len(m.answers[c]) = 2 THEN m.answers[c]
                 ELSE m.answers[c] \o SetToSeq(mine(c))
      BY <2>1
    <3> HIDE DEF a
    <3>6. Len(<< >>) # 2 /\ { "notExecuted" } # { }
      OBVIOUS
    <3>7. a[c] = << >> \o << "notExecuted" >>
      BY <3>2, <3>3, <3>4, <3>5, <3>6
    <3>8. << >> \o << "notExecuted" >> # << >>
      OBVIOUS
    <3> QED
      BY <3>7, <3>8
  <2>3. CASE c \notin OpenCalls(m)
    <3>1. m.answers[c] # << >>
      BY <2>3 DEF OpenCalls
    <3>2. ~ \E i \in DOMAIN calls : calls[i] = c
      BY <1>5, <2>3 DEF Range
    <3>3. mine(c) = { }
      BY <3>2
    <3>4. a[c] = m.answers[c]
      BY <2>1, <3>3
    <3> QED
      BY <3>1, <3>4
  <2> QED
    BY <2>2, <2>3
<1> HIDE DEF a
<1> QED
  BY <1>2, <1>6 DEF AllAnswered, calls, results, new

(* What is said is numbered after what was said before.                    *)
LEMMA AppendedIsTranscript ==
  ASSUME IsTranscript(journal), NEW message \in Messages
  PROVE  IsTranscript(Append1(journal, message))
<1>1. Len(message.calls) \in Nat /\ journal.issued + Len(message.calls) \in 0..MaxCalls
  <2>1. journal.issued \in Nat /\ MaxCalls \in Nat /\ journal.issued <= MaxCalls
    BY CoreLoopAssumption DEF IsTranscript
  <2>2. CASE message \in { [ calls |-> [ i \in 1..n |-> journal.issued + i ], print |-> p, text |-> FALSE ] :
               n \in { m \in 1..MaxBatch : journal.issued + m <= MaxCalls }, p \in Prints }
    <3>1. PICK n \in 1..MaxBatch : /\ journal.issued + n <= MaxCalls
                                   /\ message.calls = [ i \in 1..n |-> journal.issued + i ]
      BY <2>2
    <3>2. Len(message.calls) = n
      BY <3>1, CoreLoopAssumption
    <3> QED
      BY <2>1, <3>1, <3>2, CoreLoopAssumption
  <2>3. CASE message \in { [ calls |-> << >>, print |-> 0, text |-> t ] : t \in BOOLEAN }
    <3>1. Len(message.calls) = 0
      BY <2>3
    <3> QED
      BY <2>1, <3>1
  <2> QED
    BY <2>2, <2>3 DEF Messages
<1> QED
  BY <1>1 DEF Append1, IsTranscript, MessageFields

(* What an observation is of.                                              *)
LEMMA ObservationKinds ==
  ASSUME NEW feedback, NEW message, NEW calls, NEW results
  PROVE  /\ UserInput(feedback).kind = "user" /\ ModelSaid(message).kind = "model"
         /\ ModelFailed.kind = "model" /\ ToolBatch(calls, results).kind = "tools"
         /\ Cancellation.kind = "cancel" /\ Cancellation.wait = "none"
  BY DEF UserInput, ModelSaid, ModelFailed, ToolBatch, Cancellation, Nothing

-------------------------------------------------------------------------------
(* The invariant *)

IsDisk(d) == d = [ f \in DiskFields |-> d[f] ]

Shapes ==
    /\ IsCore(core) /\ IsTranscript(journal)
    /\ IsDisk(disk) /\ IsCore(disk.core) /\ IsTranscript(disk.messages)
    /\ limits.turns \in Nat /\ limits.start \in Nat

\* What an entry may have spent, and before what move a turn must still be left: an
\* entry starts with none spent, and its user's feedback is always answered.
Budget == IF limits.turns > limits.start THEN limits.turns ELSE limits.start
TurnsPaid ==
    /\ core.turns <= 1 + Budget
    /\ pc = "model" \/ (pc = "act" /\ decision.do = "model") => core.turns <= Budget
    /\ pc \in { "enter", "resuming", "prompting" } \/ (pc = "decide" /\ obs.kind = "user") =>
         core.turns <= limits.start

\* Nothing is open once the end is decided, in memory and then in the files.
SettledAtEnd ==
    /\ pc = "act" /\ decision.do = "end" => AllAnswered(journal)
    /\ Decided("end") => AllAnswered(disk.messages)

\* A decision is never made twice on one cancellation, and what is decided under a
\* cancelled token is the end.
CancellationEnds ==
    /\ pc = "decide" => obs.kind # "cancel"
    /\ pc = "act" /\ token => decision.do = "end"

CoreInv == Shapes /\ TurnsPaid /\ SettledAtEnd /\ CancellationEnds

(* A commit stores what it is given (_commit_boundary).                    *)
LEMMA CommitFacts ==
  ASSUME IsDisk(disk), NEW b, NEW c, NEW m, NEW w, Commit(b, c, m, w)
  PROVE  IsDisk(disk') /\ disk'.core = c /\ disk'.messages = m
  BY DEF Commit, IsDisk, DiskFields

(* A run starts with no turn taken and nothing said.                       *)
LEMMA NewRunFacts ==
  IsCore(NewCore) /\ NewCore.turns = 0 /\ IsTranscript(NoMessages)
<1>1. IsCore(NewCore) /\ NewCore.turns = 0
  BY DEF NewCore, IsCore, CoreFields
<1>2. 0 \in 0..MaxCalls
  BY CoreLoopAssumption
<1>3. NoMessages.answers = [ c \in Calls |-> NoMessages.answers[c] ]
  BY DEF NoMessages
<1>4. NoMessages = [ f \in MessageFields |-> NoMessages[f] ] /\ NoMessages.issued = 0
  BY DEF NoMessages, MessageFields
<1> QED
  BY <1>1, <1>2, <1>3, <1>4 DEF IsTranscript

LEMMA CoreInvInit == Init => CoreInv
<1> SUFFICES ASSUME Init PROVE CoreInv
  OBVIOUS
<1>1. IsCore(NewCore) /\ NewCore.turns = 0 /\ IsTranscript(NoMessages)
  BY NewRunFacts
<1>3. IsDisk(disk) /\ disk.core = NewCore /\ disk.messages = NoMessages
  <2>1. PICK m \in Modes :
          disk = [ status |-> "running", mode |-> m, core |-> NewCore, messages |-> NoMessages,
                   resume |-> "before_model", wait |-> NoWait, prepared |-> NoResume, ws |-> 0 ]
    BY DEF Init
  <2> QED
    BY <2>1 DEF IsDisk, DiskFields
<1>4. limits.turns \in Nat /\ limits.start = 0
  BY CoreLoopAssumption DEF Init, BaseLimits
<1>5. pc = "enter" /\ core = NewCore /\ journal = NoMessages
  BY DEF Init
<1>6. Shapes
  BY <1>1, <1>3, <1>4, <1>5 DEF Shapes
<1> QED
  BY <1>1, <1>4, <1>5, <1>6 DEF CoreInv, TurnsPaid, SettledAtEnd, CancellationEnds, Budget, Decided

-------------------------------------------------------------------------------
(* The steps of an entry *)

(* An entry that is refused never reaches Core (RunExecutor); one that is   *)
(* not starts from the user, from a message or from results.                *)
LEMMA EnterKeeps ==
  ASSUME CoreInv, RefuseCancelled \/ EnterWithUserInput \/ EnterWithMessage \/ EnterWithResults
  PROVE  CoreInv'
<1> USE DEF CoreInv
<1>1. CASE RefuseCancelled
  BY <1>1 DEF RefuseCancelled, Terminate, Shapes, TurnsPaid, SettledAtEnd, CancellationEnds, Decided,
     Budget
<1>2. CASE EnterWithUserInput
  <2>1. /\ pc = "enter" /\ pc' = "decide" /\ UNCHANGED << disk, journal, limits, decision, token >>
        /\ obs' = UserInput(journal.feedback) /\ core' = ReduceUserInput(core, obs')
    BY <1>2 DEF EnterWithUserInput
  <2>2. IsCore(core') /\ core'.turns = core.turns /\ obs'.kind = "user"
    BY <2>1, UserInputKeepsTurns, ObservationKinds DEF Shapes
  <2> QED
    BY <2>1, <2>2 DEF Shapes, TurnsPaid, SettledAtEnd, CancellationEnds, Decided, Budget
<1>3. CASE EnterWithMessage
  <2>1. /\ pc = "enter" /\ pc' = "decide" /\ UNCHANGED << disk, core, journal, limits, decision, token >>
        /\ obs' = ModelSaid(journal.said[1])
    BY <1>3 DEF EnterWithMessage
  <2>2. obs'.kind = "model"
    BY <2>1, ObservationKinds
  <2> QED
    BY <2>1, <2>2 DEF Shapes, TurnsPaid, SettledAtEnd, CancellationEnds, Decided, Budget
<1>4. CASE EnterWithResults
  <2>1. PICK calls, results :
          /\ obs' = ToolBatch(calls, results)
          /\ core' = ReduceTools(core, results, PrintOf(journal, calls), disk.mode)
          /\ journal' = AppendResults(journal, calls, results)
    BY <1>4 DEF EnterWithResults
  <2>2. /\ pc = "enter" /\ pc' = "decide" /\ UNCHANGED << limits, decision, token >>
        /\ Commit("after_tools", core', journal', NoWait)
    BY <1>4 DEF EnterWithResults
  <2>3. IsCore(core') /\ core'.turns = core.turns /\ obs'.kind = "tools" /\ IsTranscript(journal')
    BY <2>1, ToolsKeepTurnsAndTask, ObservationKinds, AppendKeepsTranscript DEF Shapes
  <2>4. IsDisk(disk') /\ disk'.core = core' /\ disk'.messages = journal'
    BY <2>2, CommitFacts DEF Shapes
  <2> QED
    BY <2>2, <2>3, <2>4 DEF Shapes, TurnsPaid, SettledAtEnd, CancellationEnds, Decided, Budget
<1> QED
  BY <1>1, <1>2, <1>3, <1>4

(* A decision (decide, _settle_unexecuted_calls).                          *)
LEMMA DecideKeeps ==
  ASSUME CoreInv, DecideNext
  PROVE  CoreInv'
<1> DEFINE seen == CancellationSeen
           core1 == IF seen THEN ReduceCancellation(core) ELSE core
           obs1 == IF seen THEN Cancellation ELSE obs
<1>1. /\ pc = "decide" /\ pc' = "act" /\ UNCHANGED << limits, token >>
      /\ decision' = Decide(core1, obs1, disk.mode, limits)
      /\ IF MustSettle(decision') /\ Unsettled(journal) # << >>
         THEN Settle(core1, Unsettled(journal))
         ELSE core' = core1 /\ obs' = obs1 /\ UNCHANGED << disk, journal >>
  BY DEF DecideNext
<1>2. IsCore(core1) /\ core1.turns = core.turns
  BY RecordFailuresKeepsTurns DEF CoreInv, Shapes, ReduceCancellation
<1>3. obs.kind # "cancel"
  BY <1>1 DEF CoreInv, CancellationEnds
<1>4. token => decision'.do = "end"
  BY <1>1, <1>3, DecideFacts, ObservationKinds DEF CancellationSeen
<1>5. decision'.do = "model" => core1.turns <= Budget
  <2> SUFFICES ASSUME decision'.do = "model" PROVE core1.turns <= Budget
    OBVIOUS
  <2>1. obs1.kind = "user" \/ ~OutOfBudget(core1, obs1, limits)
    BY <1>1, DecideFacts
  <2>2. obs1.kind = "user" => core.turns <= limits.start
    BY <1>1, ObservationKinds DEF CoreInv, TurnsPaid
  <2>3. ~OutOfBudget(core1, obs1, limits) => ~(core1.turns > limits.turns)
    BY DEF OutOfBudget
  <2> HIDE DEF core1, obs1
  <2> QED
    BY <1>2, <2>1, <2>2, <2>3 DEF CoreInv, Shapes, IsCore, Budget
<1> HIDE DEF core1, obs1
<1>6. CASE MustSettle(decision') /\ Unsettled(journal) # << >>
  <2>1. PICK print, mode :
          core' = ReduceTools(core1, Same("notExecuted", Unsettled(journal)), print, mode)
    BY <1>1, <1>6 DEF Settle
  <2>2. /\ journal' = AppendResults(journal, Unsettled(journal), Same("notExecuted", Unsettled(journal)))
        /\ Commit("after_tools", core', journal', NoWait)
    BY <1>1, <1>6 DEF Settle
  <2>3. IsCore(core') /\ core'.turns = core.turns
    BY <1>2, <2>1, ToolsKeepTurnsAndTask
  <2>4. IsTranscript(journal') /\ AllAnswered(journal')
    BY <2>2, AppendKeepsTranscript, SettledFacts DEF CoreInv, Shapes
  <2>5. IsDisk(disk') /\ disk'.core = core' /\ disk'.messages = journal'
    BY <2>2, CommitFacts DEF CoreInv, Shapes
  <2>6. decision'.do # "model"
    BY <1>6 DEF MustSettle
  <2> QED
    BY <1>1, <1>4, <2>3, <2>4, <2>5, <2>6
       DEF CoreInv, Shapes, TurnsPaid, SettledAtEnd, CancellationEnds, Decided, Budget
<1>7. CASE ~(MustSettle(decision') /\ Unsettled(journal) # << >>)
  <2>1. core' = core1 /\ UNCHANGED << disk, journal >>
    BY <1>1, <1>7
  <2>2. decision'.do = "end" => AllAnswered(journal)
    BY <1>7, UnsettledFacts DEF MustSettle, CoreInv, Shapes
  <2>3. Shapes' /\ Budget' = Budget
    BY <1>1, <1>2, <2>1 DEF CoreInv, Shapes, Budget
  <2>4. TurnsPaid'
    BY <1>1, <1>2, <1>5, <2>1, <2>3 DEF CoreInv, TurnsPaid
  <2>5. SettledAtEnd'
    BY <1>1, <2>1, <2>2 DEF SettledAtEnd, Decided, AllAnswered
  <2> QED
    BY <1>1, <1>4, <2>3, <2>4, <2>5 DEF CoreInv, CancellationEnds
<1> QED
  BY <1>6, <1>7

(* A wait, an end, a call of the model and a batch are committed before     *)
(* Core goes past them (_commit_boundary).                                  *)
LEMMA CommitsKeep ==
  ASSUME CoreInv, CommitWait \/ CommitTerminal \/ StartModel \/ Admit
  PROVE  CoreInv'
<1>1. CASE CommitWait \/ StartModel \/ Admit
  <2>1. /\ pc = "act" /\ UNCHANGED << core, journal, limits, decision, token, obs >>
        /\ \/ pc' = "over" /\ decision.do = "wait"
           \/ pc' = "model" /\ decision.do = "model"
           \/ pc' = "execute"
        /\ \E b, w : Commit(b, core, journal, w)
    BY <1>1 DEF CommitWait, StartModel, Admit
  <2>2. IsDisk(disk') /\ disk'.core = core /\ disk'.messages = journal
    BY <2>1, CommitFacts DEF CoreInv, Shapes
  <2> QED
    BY <2>1, <2>2 DEF CoreInv, Shapes, TurnsPaid, SettledAtEnd, CancellationEnds, Decided, Budget
<1>2. CASE CommitTerminal
  <2>1. /\ pc = "act" /\ pc' = "over" /\ UNCHANGED << journal, limits, decision, token, obs >>
        /\ core' = ApplyDecision(core, decision) /\ decision.do = "end"
        /\ Commit("before_terminal", core', journal, NoWait)
    BY <1>2 DEF CommitTerminal
  <2>2. IsDisk(disk') /\ disk'.core = core' /\ disk'.messages = journal
    BY <2>1, CommitFacts DEF CoreInv, Shapes
  <2>3. IsCore(core') /\ core'.turns = core.turns
    BY <2>1, TerminalKeepsTurns DEF CoreInv, Shapes
  <2> QED
    BY <2>1, <2>2, <2>3
       DEF CoreInv, Shapes, TurnsPaid, SettledAtEnd, CancellationEnds, Decided, Budget, AllAnswered
<1> QED
  BY <1>1, <1>2

(* The end of a run forgets what is in memory (_commit_run), and so does a  *)
(* crash.                                                                   *)
LEMMA ForgetKeeps ==
  ASSUME CoreInv, Finish \/ Crash
  PROVE  CoreInv'
<1>1. pc' = "idle" /\ core' = NewCore /\ journal' = NoMessages /\ limits' = BaseLimits /\ token' = FALSE
  BY DEF Finish, Crash, Forget
<1>2. /\ IsCore(core') /\ core'.turns = 0 /\ IsTranscript(journal')
      /\ limits'.turns \in Nat /\ limits'.start = 0
  BY <1>1, NewRunFacts, CoreLoopAssumption DEF BaseLimits
<1>3. IsDisk(disk') /\ disk'.core = disk.core /\ disk'.messages = disk.messages
  <2>1. CASE disk' = disk
    BY <2>1 DEF CoreInv, Shapes
  <2>2. CASE \E status, wait : disk' = [ disk EXCEPT !.status = status, !.wait = wait ]
    BY <2>2 DEF CoreInv, Shapes, IsDisk, DiskFields
  <2> QED
    BY <2>1, <2>2 DEF Finish, Crash
<1> QED
  BY <1>1, <1>2, <1>3 DEF CoreInv, Shapes, TurnsPaid, SettledAtEnd, CancellationEnds, Decided, Budget

(* An answer of the model is a turn (_call_model).                          *)
LEMMA ModelKeeps ==
  ASSUME CoreInv,
         \/ \E message \in Messages : ModelReplies(message)
         \/ \E code \in { "model.call_failed", "model.fatal" } : ModelFails(code)
  PROVE  CoreInv'
<1>1. /\ pc = "model" /\ pc' = "decide" /\ UNCHANGED << limits, decision, token >>
      /\ Commit("after_model", core', journal', NoWait)
      /\ \E o, code : /\ core' = ReduceModel(core, o, code) /\ obs' = o
                      /\ o.kind = "model"
      /\ journal' = journal \/ \E message \in Messages : journal' = Append1(journal, message)
  BY ObservationKinds DEF ModelReplies, ModelFails, ObserveModel
<1>2. IsCore(core') /\ core'.turns = core.turns + 1 /\ obs'.kind = "model"
  BY <1>1, ModelCountsOneTurn DEF CoreInv, Shapes
<1>3. IsTranscript(journal')
  BY <1>1, AppendedIsTranscript DEF CoreInv, Shapes
<1>4. IsDisk(disk') /\ disk'.core = core' /\ disk'.messages = journal'
  BY <1>1, CommitFacts DEF CoreInv, Shapes
<1>5. core.turns <= Budget /\ core.turns \in Nat /\ limits.turns \in Nat /\ limits.start \in Nat
  BY <1>1 DEF CoreInv, Shapes, TurnsPaid, IsCore
<1>6. TurnsPaid'
  BY <1>1, <1>2, <1>5 DEF TurnsPaid, Budget
<1> QED
  BY <1>1, <1>2, <1>3, <1>4, <1>6 DEF CoreInv, Shapes, SettledAtEnd, CancellationEnds, Decided

(* A batch is observed once it has run, or was refused                      *)
(* (execute_core_tool_batch).                                              *)
LEMMA BatchKeeps ==
  ASSUME CoreInv, NEW i, NEW kind, Refuse(i, kind) \/ FinishBatch \/ RunHandler(kind)
  PROVE  CoreInv'
<1>1. CASE RunHandler(kind)
  <2>1. UNCHANGED << disk, pc, core, journal, obs, limits, decision, token >>
    BY <1>1 DEF RunHandler
  <2> QED
    BY <2>1 DEF CoreInv, Shapes, TurnsPaid, SettledAtEnd, CancellationEnds, Decided, Budget
<1>2. CASE Refuse(i, kind) \/ FinishBatch
  <2>1. /\ pc' = "decide" /\ UNCHANGED << limits, decision, token >>
        /\ \E results : ObserveTools(results)
        /\ UNCHANGED disk \/ \E b, w : Commit(b, core', journal', w)
    BY <1>2 DEF Refuse, FinishBatch, ObserveTools
  <2>2. PICK calls, all, print :
          /\ obs' = ToolBatch(calls, all) /\ core' = ReduceTools(core, all, print, disk.mode)
          /\ journal' = AppendResults(journal, calls, all)
    BY <2>1 DEF ObserveTools
  <2>3. IsCore(core') /\ core'.turns = core.turns /\ obs'.kind = "tools" /\ IsTranscript(journal')
    BY <2>2, ToolsKeepTurnsAndTask, ObservationKinds, AppendKeepsTranscript DEF CoreInv, Shapes
  <2>4. disk' = disk \/ (IsDisk(disk') /\ disk'.core = core' /\ disk'.messages = journal')
    BY <2>1, CommitFacts DEF CoreInv, Shapes
  <2> QED
    BY <2>1, <2>3, <2>4 DEF CoreInv, Shapes, TurnsPaid, SettledAtEnd, CancellationEnds, Decided, Budget
<1> QED
  BY <1>1, <1>2

(* What interrupts a run settles its calls (_terminate_interrupted_execution).*)
LEMMA InterruptKeeps ==
  ASSUME CoreInv, NEW status, Interrupt(status)
  PROVE  CoreInv'
<1> DEFINE open == Unsettled(journal)
           results == Same("notExecuted", open)
           settled == IF open = << >> THEN core
                      ELSE ReduceTools(core, results, PrintOf(journal, open), disk.mode)
<1>1. /\ journal' = AppendResults(journal, open, results)
      /\ UNCHANGED disk \/ Commit("after_tools", settled, journal', NoWait)
      /\ core' \in { settled, ReduceCancellation(settled) }
      /\ pc' = "act" /\ decision'.do = "end" /\ UNCHANGED << limits, token >>
  BY DEF Interrupt, Terminate
<1>2. IsCore(settled) /\ settled.turns = core.turns
  BY ToolsKeepTurnsAndTask DEF CoreInv, Shapes
<1>3. IsTranscript(journal') /\ AllAnswered(journal')
  BY <1>1, AppendKeepsTranscript, SettledFacts DEF CoreInv, Shapes
<1> HIDE DEF settled
<1>4. IsCore(core') /\ core'.turns = core.turns
  BY <1>1, <1>2, RecordFailuresKeepsTurns DEF ReduceCancellation
<1>5. disk' = disk \/ (IsDisk(disk') /\ disk'.core = settled /\ disk'.messages = journal')
  BY <1>1, CommitFacts DEF CoreInv, Shapes
<1> QED
  BY <1>1, <1>2, <1>3, <1>4, <1>5
     DEF CoreInv, Shapes, TurnsPaid, SettledAtEnd, CancellationEnds, Decided, Budget

-------------------------------------------------------------------------------
(* The steps of the user *)

(* A cancellation reaches a process that is suspended (CancellationToken).   *)
LEMMA CancelKeeps ==
  ASSUME CoreInv, Cancel
  PROVE  CoreInv'
<1>1. /\ pc \in { "enter", "model", "execute" }
      /\ UNCHANGED << disk, pc, core, journal, obs, limits, decision >>
  BY DEF Cancel
<1> QED
  BY <1>1 DEF CoreInv, Shapes, TurnsPaid, SettledAtEnd, CancellationEnds, Decided, Budget

\* An entry is prepared with the committed state, and no turn of it is spent.
Prepared ==
    /\ core' = disk.core /\ journal' = disk.messages
    /\ limits'.turns \in Nat /\ limits'.start = disk.core.turns

LEMMA LimitsFacts ==
  ASSUME CoreInv
  PROVE  /\ Extended.turns \in Nat /\ Extended.start = disk.core.turns
         /\ Base.turns \in Nat /\ Base.start = disk.core.turns
  BY CoreLoopAssumption DEF CoreInv, Shapes, IsCore, Extended, Base, BaseLimits

(* A prepared entry keeps the invariant, wherever it waits.                 *)
LEMMA PreparedKeeps ==
  ASSUME CoreInv, Prepared, pc' \in { "enter", "resuming", "prompting" },
         IsDisk(disk'), disk'.core = disk.core, disk'.messages = disk.messages
  PROVE  CoreInv'
<1>1. /\ IsCore(core') /\ core'.turns = limits'.start /\ limits'.start \in Nat
      /\ IsTranscript(journal')
  BY DEF Prepared, CoreInv, Shapes, IsCore
<1>2. Shapes'
  BY <1>1 DEF Prepared, CoreInv, Shapes
<1>3. TurnsPaid'
  BY <1>1 DEF Prepared, TurnsPaid, Budget
<1> QED
  BY <1>2, <1>3 DEF CoreInv, SettledAtEnd, CancellationEnds, Decided

(* The run is resumed, answered or prompted (resume_run, continue_run).     *)
LEMMA ResumeKeeps ==
  ASSUME CoreInv, Recover \/ ContinueRun \/ Prompt \/ \E answer \in { "approve", "deny", "reply" } : Answer(answer)
  PROVE  CoreInv'
<1>1. Prepared /\ pc' \in { "enter", "resuming", "prompting" }
  BY LimitsFacts DEF Recover, ContinueRun, Prompt, Answer, Load, Prepared
<1>2. disk' = Resumed \/ \E p : disk' = [ Resumed EXCEPT !.prepared = p ]
  BY DEF Recover, ContinueRun, Prompt, Answer
<1>3. IsDisk(Resumed) /\ Resumed.core = disk.core /\ Resumed.messages = disk.messages
  BY DEF Resumed, CoreInv, Shapes, IsDisk, DiskFields
<1>4. IsDisk(disk') /\ disk'.core = disk.core /\ disk'.messages = disk.messages
  BY <1>2, <1>3 DEF IsDisk, DiskFields
<1> QED
  BY <1>1, <1>4, PreparedKeeps

(* The answer is executed, the text of a prompt committed, and the run of an *)
(* approved plan started or refused.                                         *)
LEMMA ContinuationKeeps ==
  ASSUME CoreInv, (\E kind \in ResultKinds : ExecuteResume(kind)) \/ CommitPrompt \/ StartApproved
  PROVE  CoreInv'
<1>1. CASE \E kind \in ResultKinds : ExecuteResume(kind)
  <2>1. /\ pc = "resuming" /\ pc' = "enter"
        /\ UNCHANGED << disk, core, journal, obs, limits, decision, token >>
    BY <1>1 DEF ExecuteResume
  <2> QED
    BY <2>1 DEF CoreInv, Shapes, TurnsPaid, SettledAtEnd, CancellationEnds, Decided, Budget
<1>2. CASE CommitPrompt
  <2>1. /\ pc = "prompting" /\ pc' = "enter" /\ UNCHANGED << core, obs, limits, decision, token >>
        /\ journal' = [ journal EXCEPT !.feedback = TRUE ]
        /\ disk' = [ disk EXCEPT !.messages = journal', !.resume = "before_model" ]
    BY <1>2 DEF CommitPrompt
  <2>2. IsTranscript(journal')
    BY <2>1 DEF CoreInv, Shapes, IsTranscript, MessageFields
  <2>3. IsDisk(disk') /\ disk'.core = disk.core /\ disk'.messages = journal'
    BY <2>1 DEF CoreInv, Shapes, IsDisk, DiskFields
  <2> QED
    BY <2>1, <2>2, <2>3 DEF CoreInv, Shapes, TurnsPaid, SettledAtEnd, CancellationEnds, Decided, Budget
<1>3. CASE StartApproved /\ pc' = "enter"
  <2>1. Prepared /\ UNCHANGED disk
    BY <1>3, LimitsFacts DEF StartApproved, Load, Prepared
  <2> QED
    BY <1>3, <2>1, PreparedKeeps DEF CoreInv, Shapes
<1>4. CASE StartApproved /\ pc' = "idle"
  <2>1. UNCHANGED << disk, core, journal, limits, obs, decision, token >>
    BY <1>4 DEF StartApproved
  <2> QED
    BY <1>4, <2>1 DEF CoreInv, Shapes, TurnsPaid, SettledAtEnd, CancellationEnds, Decided, Budget
<1> QED
  BY <1>1, <1>2, <1>3, <1>4 DEF StartApproved

(* A command changes the plan of a state and its count of idle answers.     *)
LEMMA PlannedCore ==
  ASSUME NEW c, IsCore(c), NEW plan, "status" \in DOMAIN plan
  PROVE  /\ IsCore([ c EXCEPT !.plan = plan, !.noProgress = 0 ])
         /\ [ c EXCEPT !.plan = plan, !.noProgress = 0 ].task = c.task
         /\ [ c EXCEPT !.plan = plan, !.noProgress = 0 ].plan = plan
  BY DEF IsCore, CoreFields

(* Which plan a command leaves, and what it does next                       *)
(* (_apply_plan_command).                                                  *)
LEMMA PlanCommands ==
  ASSUME IsCore(disk.core),
         \/ ApprovePlan \/ RejectPlan \/ AbandonPlan
         \/ \E approved \in BOOLEAN : ResolveRevision(approved)
  PROVE  \E plan, next :
           /\ CommandPlan(plan, next) /\ next \in { "switching", "starting", "closing" }
           /\ "status" \in DOMAIN plan
           /\ next = "closing" => plan.status \notin { "proposed", "active" }
           /\ disk.core.plan.status \in { "proposed", "active" } /\ Live
<1> DEFINE old == disk.core.plan
<1>1. CASE ApprovePlan
  <2>1. CommandPlan([ old EXCEPT !.status = "active" ], "switching") /\ old.status = "proposed" /\ Live
    BY <1>1 DEF ApprovePlan, PlanOf
  <2>2. "status" \in DOMAIN [ old EXCEPT !.status = "active" ]
    BY DEF IsCore
  <2> QED
    BY <2>1, <2>2
<1>2. CASE RejectPlan
  <2>1. CommandPlan([ old EXCEPT !.status = "rejected" ], "closing") /\ old.status = "proposed" /\ Live
    BY <1>2 DEF RejectPlan, PlanOf
  <2>2. /\ "status" \in DOMAIN [ old EXCEPT !.status = "rejected" ]
        /\ [ old EXCEPT !.status = "rejected" ].status = "rejected"
    BY DEF IsCore
  <2> QED
    BY <2>1, <2>2
<1>3. CASE AbandonPlan
  <2> DEFINE new == [ old EXCEPT !.status = "abandoned", !.pending = FALSE ]
  <2>1. CommandPlan(new, "closing") /\ old.status \in { "proposed", "active" } /\ Live
    BY <1>3 DEF AbandonPlan, PlanOf
  <2>2. "status" \in DOMAIN new /\ new.status = "abandoned"
    BY DEF IsCore
  <2> HIDE DEF new
  <2> QED
    BY <2>1, <2>2
<1>4. ASSUME NEW approved \in BOOLEAN, ResolveRevision(approved)
      PROVE  \E plan : /\ CommandPlan(plan, "starting") /\ "status" \in DOMAIN plan
                       /\ old.status = "active" /\ Live
  <2> DEFINE new == [ old EXCEPT !.pending = FALSE, !.done = @ /\ ~approved ]
  <2>1. CommandPlan(new, "starting") /\ old.status = "active" /\ Live
    BY <1>4 DEF ResolveRevision, PlanOf
  <2>2. "status" \in DOMAIN new
    BY DEF IsCore
  <2> HIDE DEF new
  <2> QED
    BY <2>1, <2>2
<1>5. CASE \E approved \in BOOLEAN : ResolveRevision(approved)
  <2>1. PICK plan : /\ CommandPlan(plan, "starting") /\ "status" \in DOMAIN plan
                    /\ old.status = "active" /\ Live
    BY <1>4, <1>5
  <2> QED
    BY <2>1
<1> QED
  BY <1>1, <1>2, <1>3, <1>5

(* A command about the plan changes the committed plan                      *)
(* (_apply_plan_command).                                                  *)
LEMMA PlanCommandKeeps ==
  ASSUME CoreInv,
         \/ ApprovePlan \/ RejectPlan \/ AbandonPlan
         \/ \E approved \in BOOLEAN : ResolveRevision(approved)
         \/ SwitchToBuild \/ CloseRun
  PROVE  CoreInv'
<1>1. /\ UNCHANGED << core, journal, limits, obs, decision, token >>
      /\ pc' \in { "switching", "starting", "closing", "idle" }
  BY DEF ApprovePlan, RejectPlan, AbandonPlan, ResolveRevision, SwitchToBuild, CloseRun, CommandPlan, Idle
<1>2. IsDisk(disk') /\ IsCore(disk'.core) /\ IsTranscript(disk'.messages)
  <2>1. CASE SwitchToBuild \/ CloseRun
    BY <2>1 DEF SwitchToBuild, CloseRun, CoreInv, Shapes, IsDisk, DiskFields
  <2>2. CASE ~(SwitchToBuild \/ CloseRun)
    <3>1. \E plan, next : CommandPlan(plan, next) /\ "status" \in DOMAIN plan
      BY <2>2, PlanCommands DEF CoreInv, Shapes
    <3>2. PICK plan : /\ disk' = [ Resumed EXCEPT !.core.plan = plan, !.core.noProgress = 0,
                                                  !.resume = "after_tools" ]
                      /\ "status" \in DOMAIN plan
      BY <3>1 DEF CommandPlan
    <3>3. IsDisk(Resumed) /\ Resumed.core = disk.core /\ Resumed.messages = disk.messages
      BY DEF Resumed, CoreInv, Shapes, IsDisk, DiskFields
    <3>4. /\ IsDisk(disk') /\ disk'.messages = disk.messages
          /\ disk'.core = [ disk.core EXCEPT !.plan = plan, !.noProgress = 0 ]
      BY <3>2, <3>3 DEF IsDisk, DiskFields
    <3>5. IsCore(disk.core)
      BY DEF CoreInv, Shapes
    <3>6. IsCore([ disk.core EXCEPT !.plan = plan, !.noProgress = 0 ])
      BY <3>2, <3>5, PlannedCore
    <3>7. IsCore(disk'.core)
      BY <3>4, <3>6
    <3> QED
      BY <3>4, <3>7 DEF CoreInv, Shapes
  <2> QED
    BY <2>1, <2>2
<1> QED
  BY <1>1, <1>2 DEF CoreInv, Shapes, TurnsPaid, SettledAtEnd, CancellationEnds, Decided, Budget

-------------------------------------------------------------------------------
(* The theorems *)

LEMMA CoreInvStep == CoreInv /\ [Next]_vars => CoreInv'
<1> SUFFICES ASSUME CoreInv, [Next]_vars PROVE CoreInv'
  OBVIOUS
<1>1. CASE Driver
  <2>1. CASE RefuseCancelled \/ EnterWithUserInput \/ EnterWithMessage \/ EnterWithResults
    BY <2>1, EnterKeeps
  <2>2. CASE DecideNext
    BY <2>2, DecideKeeps
  <2>3. CASE CommitWait \/ CommitTerminal \/ StartModel \/ Admit
    BY <2>3, CommitsKeep
  <2>4. CASE Finish
    BY <2>4, ForgetKeeps
  <2>5. CASE \/ \E message \in Messages : ModelReplies(message)
             \/ \E code \in { "model.call_failed", "model.fatal" } : ModelFails(code)
    BY <2>5, ModelKeeps
  <2>6. CASE \/ \E i \in 1..MaxBatch, kind \in AdmissionKinds \cup { "stale" } : Refuse(i, kind)
             \/ \E kind \in HandlerKinds \cup { "cancelled" } : RunHandler(kind)
             \/ FinishBatch
    BY <2>6, BatchKeeps
  <2>7. CASE \E status \in { "failed", "cancelled" } : Interrupt(status)
    BY <2>7, InterruptKeeps
  <2>8. CASE (\E kind \in ResultKinds : ExecuteResume(kind)) \/ CommitPrompt \/ StartApproved
    BY <2>8, ContinuationKeeps
  <2>9. CASE SwitchToBuild \/ CloseRun
    BY <2>9, PlanCommandKeeps
  <2> QED
    BY <1>1, <2>1, <2>2, <2>3, <2>4, <2>5, <2>6, <2>7, <2>8, <2>9 DEF Driver
<1>2. CASE User
  <2>1. CASE Cancel
    BY <2>1, CancelKeeps
  <2>2. CASE \/ Recover \/ ContinueRun \/ Prompt
             \/ \E answer \in { "approve", "deny", "reply" } : Answer(answer)
    BY <2>2, ResumeKeeps
  <2>3. CASE \/ ApprovePlan \/ RejectPlan \/ AbandonPlan
             \/ \E approved \in BOOLEAN : ResolveRevision(approved)
    BY <2>3, PlanCommandKeeps
  <2> QED
    BY <1>2, <2>1, <2>2, <2>3 DEF User
<1>3. CASE Crash
  BY <1>3, ForgetKeeps
<1>4. CASE Rest \/ UNCHANGED vars
  BY <1>4 DEF Rest, vars, CoreInv, Shapes, TurnsPaid, SettledAtEnd, CancellationEnds, Decided, Budget
<1> QED
  BY <1>1, <1>2, <1>3, <1>4 DEF Next

(* The invariant holds throughout: the state has its shape, turns are paid  *)
(* for, the end settles every call, and a cancellation only ends the run    *)
(* (core/driver.py, core/policy.py).                                        *)
THEOREM CoreInvAlways == Spec => []CoreInv
<1>1. CoreInv /\ [Next]_vars => CoreInv'
  BY CoreInvStep
<1> QED
  BY CoreInvInit, <1>1, PTL DEF Spec

(* An entry takes at most one model turn more than its budget, whatever the *)
(* model says and however often the run is resumed: the limits are looked   *)
(* at before every model call (policy.py, _budget_wait; core_limits).       *)
THEOREM TurnsStayInBudget == Spec => []OneTurnOverBudget
<1>1. CoreInv => OneTurnOverBudget
  BY DEF CoreInv, TurnsPaid, Budget, OneTurnOverBudget
<1> QED
  BY CoreInvAlways, <1>1, PTL

(* Whatever ends a run that Core was driving, no tool call that it has      *)
(* persisted is without a result then (driver.py, _settle_unexecuted_calls  *)
(* and _terminate_interrupted_execution).                                   *)
THEOREM EndsSettleCalls == Spec => []CallsSettledWhenOver
<1>1. CoreInv => CallsSettledWhenOver
  BY UnsettledFacts DEF CoreInv, Shapes, SettledAtEnd, CallsSettledWhenOver
<1> QED
  BY CoreInvAlways, <1>1, PTL

(* What reaches the model or a handler is a step from a decision, and what  *)
(* is decided under a cancelled token is the end.                           *)
LEMMA CancelledStepStartsNothing ==
  CoreInv /\ [Next]_vars => [token /\ pc # pc' => pc' \notin { "model", "execute" }]_vars
<1> SUFFICES ASSUME CoreInv, Next, token, pc # pc'
             PROVE  pc' \notin { "model", "execute" }
  BY DEF vars
<1>1. CASE Driver
  <2>1. ~StartModel /\ ~Admit
    BY DEF CoreInv, CancellationEnds, StartModel, Admit
  <2> QED
    BY <1>1, <2>1 DEF Driver, RefuseCancelled, EnterWithUserInput, EnterWithMessage,
       EnterWithResults, DecideNext, CommitWait, CommitTerminal, Finish, Forget, ModelReplies,
       ModelFails, ObserveModel, Refuse, ObserveTools, RunHandler, FinishBatch, Interrupt,
       ExecuteResume, CommitPrompt, SwitchToBuild, StartApproved, CloseRun
<1>2. CASE User
  BY <1>2 DEF User, Cancel, Recover, ContinueRun, Prompt, Answer, ApprovePlan, RejectPlan,
     AbandonPlan, ResolveRevision, CommandPlan
<1>3. CASE Crash \/ Rest
  BY <1>3 DEF Crash, Forget, Rest, vars
<1> QED
  BY <1>1, <1>2, <1>3 DEF Next

(* A cancelled run starts nothing any more, neither a model call nor a      *)
(* batch of tools (driver.py, _cancellation_observation).                   *)
THEOREM CancellationStartsNothing == Spec => CancelledStartsNothing
<1>1. CoreInv /\ [Next]_vars => [token /\ pc # pc' => pc' \notin { "model", "execute" }]_vars
  BY CancelledStepStartsNothing
<1> QED
  BY CoreInvAlways, <1>1, PTL DEF Spec, CancelledStartsNothing

-------------------------------------------------------------------------------
(* One answer for each call *)

\* Calls that can be answered: each is said, none has an answer, none is twice among them.
OpenIn(m, calls) ==
    /\ \A i \in DOMAIN calls : calls[i] \in 1..m.issued /\ m.answers[calls[i]] = << >>
    /\ \A i, j \in DOMAIN calls : calls[i] = calls[j] => i = j

\* A call has one answer or none, and none before it is said.
Once(m) ==
    \A c \in Calls : /\ m.answers[c] = << >> \/ \E x : m.answers[c] = << x >>
                     /\ c > m.issued => m.answers[c] = << >>

\* What the model has said and what is executed can be answered; without a crash no
\* persisted message is taken for a new one, because a run that goes on without having
\* waited stands at the boundary of a plan command.
OnceInv ==
    /\ Once(journal) /\ Once(disk.messages)
    /\ pc = "decide" => OpenIn(journal, obs.calls)
    /\ pc = "execute" \/ (pc = "act" /\ decision.do = "tools") => OpenIn(journal, batch.calls)
    /\ entry.kind # "message" /\ "calls" \in DOMAIN batch
    /\ pc \in { "switching", "starting", "closing" } \/ (pc = "idle" /\ disk.status = "running")
         => disk.resume = "after_tools"
    /\ pc = "act" /\ decision.do = "end" => decision.arg \in Terminal
    /\ pc = "over" => \/ decision.do = "wait" /\ disk.status = "waiting"
                      \/ decision.do = "end" /\ decision.arg \in Terminal

(* An answer to calls that can be answered is the only one of each         *)
(* (project_final_tool_messages).                                          *)
LEMMA AppendAnswersOnce ==
  ASSUME NEW m, IsTranscript(m), Once(m), NEW calls, OpenIn(m, calls), NEW results
  PROVE  Once(AppendResults(m, calls, results))
<1> DEFINE mine(c) == { results[i] : i \in { j \in DOMAIN calls : calls[j] = c } } \ Suspended
           a == [ c \in Calls |-> IF mine(c) = { } \/ Len(m.answers[c]) = 2 THEN m.answers[c]
                                  ELSE m.answers[c] \o SetToSeq(mine(c)) ]
           new == AppendResults(m, calls, results)
<1>1. new = [ m EXCEPT !.answers = a ]
  BY DEF AppendResults
<1>2. new.issued = m.issued /\ new.answers = a
  <2> HIDE DEF a, new
  <2> QED
    BY <1>1 DEF IsTranscript, MessageFields
<1>3. ASSUME NEW c \in Calls, mine(c) # { }
      PROVE  /\ c <= m.issued
             /\ \E x : a[c] = << x >>
  <2>1. PICK i \in DOMAIN calls : calls[i] = c
    BY <1>3
  <2>2. c \in 1..m.issued /\ m.answers[c] = << >>
    BY <2>1 DEF OpenIn
  <2>3. \A j \in DOMAIN calls : calls[j] = c => j = i
    BY <2>1 DEF OpenIn
  <2>4. mine(c) = { results[i] }
    BY <1>3, <2>1, <2>3
  <2>5. a[c] = IF mine(c) = { } \/ Len(m.answers[c]) = 2 THEN m.answers[c]
               ELSE m.answers[c] \o SetToSeq(mine(c))
    OBVIOUS
  <2> HIDE DEF mine, a
  <2>6. SetToSeq(mine(c)) = << results[i] >>
    BY <2>4, OneElement
  <2>7. Len(<< >>) # 2
    OBVIOUS
  <2>8. a[c] = << >> \o << results[i] >>
    BY <1>3, <2>2, <2>5, <2>6, <2>7
  <2>9. << >> \o << results[i] >> = << results[i] >>
    OBVIOUS
  <2>10. c <= m.issued
    BY <2>2 DEF IsTranscript
  <2> QED
    BY <2>8, <2>9, <2>10
<1>4. ASSUME NEW c \in Calls, mine(c) = { } PROVE a[c] = m.answers[c]
  BY <1>4
<1> HIDE DEF mine, a, new
<1>5. m.issued \in Int /\ Calls \subseteq Int
  BY CoreLoopAssumption DEF IsTranscript, Calls
<1>6. ASSUME NEW c \in Calls
      PROVE  /\ a[c] = << >> \/ \E x : a[c] = << x >>
             /\ c > m.issued => a[c] = << >>
  BY <1>3, <1>4, <1>5, <1>6 DEF Once
<1> QED
  BY <1>2, <1>6 DEF Once, new

(* The open calls can be answered (unsettled_tool_calls).                  *)
LEMMA UnsettledOpen ==
  ASSUME NEW m, IsTranscript(m)
  PROVE  OpenIn(m, Unsettled(m))
<1>1. /\ Ordered(OpenCalls(m), Unsettled(m))
      /\ DOMAIN Unsettled(m) \subseteq Int
  <2>1. m.issued \in Nat
    BY CoreLoopAssumption DEF IsTranscript
  <2>2. IsFiniteSet(OpenCalls(m))
    <3>1. OpenCalls(m) \subseteq 1..m.issued
      BY DEF OpenCalls
    <3>2. IsFiniteSet(1..m.issued)
      BY <2>1, FS_Interval
    <3> QED
      BY <3>1, <3>2, FS_Subset
  <2>3. Cardinality(OpenCalls(m)) \in Nat
    BY <2>2, FS_CardinalityType
  <2>4. DOMAIN Unsettled(m) = 1..Cardinality(OpenCalls(m))
    BY UnsettledFacts DEF Ordered
  <2> QED
    BY <2>3, <2>4, UnsettledFacts
<1>2. OpenCalls(m) \subseteq Int
  BY DEF OpenCalls
<1>3. ASSUME NEW i \in DOMAIN Unsettled(m), NEW j \in DOMAIN Unsettled(m), i < j
      PROVE  Unsettled(m)[i] # Unsettled(m)[j]
  <2>1. Unsettled(m)[i] < Unsettled(m)[j] /\ Unsettled(m)[i] \in Int /\ Unsettled(m)[j] \in Int
    BY <1>1, <1>2, <1>3 DEF Ordered, Range
  <2> QED
    BY <2>1
<1>4. \A i, j \in DOMAIN Unsettled(m) : Unsettled(m)[i] = Unsettled(m)[j] => i = j
  BY <1>1, <1>3
<1>5. \A i \in DOMAIN Unsettled(m) : Unsettled(m)[i] \in OpenCalls(m)
  BY <1>1 DEF Ordered
<1> QED
  BY <1>4, <1>5 DEF OpenIn, OpenCalls

(* No call is open or answered in what nobody has said.                    *)
LEMMA NoCalls ==
  ASSUME NEW m
  PROVE  OpenIn(m, << >>) /\ Once(NoMessages)
  BY DEF OpenIn, Once, NoMessages

(* The calls of a new message can be answered (call_model_once).           *)
LEMMA NewCallsOpen ==
  ASSUME IsTranscript(journal), Once(journal), NEW message \in Messages
  PROVE  Once(Append1(journal, message)) /\ OpenIn(Append1(journal, message), message.calls)
<1> DEFINE new == Append1(journal, message)
<1>1. journal.issued \in Nat /\ MaxCalls \in Nat
  BY CoreLoopAssumption DEF IsTranscript
<1>2. \E n \in Nat : /\ DOMAIN message.calls = 1..n /\ Len(message.calls) = n
                     /\ \A i \in 1..n : message.calls[i] = journal.issued + i
                     /\ journal.issued + n <= MaxCalls
  <2>1. CASE message \in { [ calls |-> [ i \in 1..n |-> journal.issued + i ], print |-> p, text |-> FALSE ] :
               n \in { m \in 1..MaxBatch : journal.issued + m <= MaxCalls }, p \in Prints }
    <3>1. PICK n \in 1..MaxBatch : /\ journal.issued + n <= MaxCalls
                                   /\ message.calls = [ i \in 1..n |-> journal.issued + i ]
      BY <2>1
    <3>2. n \in Nat
      BY CoreLoopAssumption
    <3> QED
      BY <3>1, <3>2
  <2>2. CASE message \in { [ calls |-> << >>, print |-> 0, text |-> t ] : t \in BOOLEAN }
    <3>1. DOMAIN message.calls = 1..0 /\ Len(message.calls) = 0
      BY <2>2
    <3>2. journal.issued + 0 <= MaxCalls /\ \A i \in 1..0 : FALSE
      BY CoreLoopAssumption DEF IsTranscript
    <3> QED
      BY <3>1, <3>2
  <2> QED
    BY <2>1, <2>2 DEF Messages
<1>3. PICK n \in Nat : /\ DOMAIN message.calls = 1..n /\ Len(message.calls) = n
                       /\ \A i \in 1..n : message.calls[i] = journal.issued + i
                       /\ journal.issued + n <= MaxCalls
  BY <1>2
<1>4. new.issued = journal.issued + n /\ new.answers = journal.answers
  BY <1>3 DEF Append1, IsTranscript, MessageFields
<1> HIDE DEF new
<1>5. ASSUME NEW i \in DOMAIN message.calls
      PROVE  /\ message.calls[i] = journal.issued + i /\ i \in 1..n
             /\ journal.issued + i \in Calls /\ journal.issued + i > journal.issued
  BY <1>1, <1>3, <1>5 DEF Calls
<1>6. OpenIn(new, message.calls)
  <2>1. ASSUME NEW i \in DOMAIN message.calls
        PROVE  message.calls[i] \in 1..new.issued /\ new.answers[message.calls[i]] = << >>
    <3>1. /\ message.calls[i] = journal.issued + i /\ i \in 1..n
          /\ journal.issued + i \in Calls /\ journal.issued + i > journal.issued
      BY <1>5, <2>1
    <3>2. journal.answers[journal.issued + i] = << >>
      BY <3>1 DEF Once
    <3> QED
      BY <1>1, <1>4, <3>1, <3>2
  <2>2. ASSUME NEW i \in DOMAIN message.calls, NEW j \in DOMAIN message.calls,
               message.calls[i] = message.calls[j]
        PROVE  i = j
    <3>1. journal.issued + i = journal.issued + j /\ i \in 1..n /\ j \in 1..n
      BY <1>5, <2>2
    <3> QED
      BY <1>1, <3>1
  <2> QED
    BY <2>1, <2>2 DEF OpenIn
<1>7. Once(new)
  <2>1. ASSUME NEW c \in Calls, c > new.issued PROVE c > journal.issued
    BY <1>1, <1>4, <2>1 DEF Calls
  <2> QED
    BY <1>4, <2>1 DEF Once
<1> QED
  BY <1>6, <1>7 DEF new

(* Which calls an observation is of.                                       *)
LEMMA ObservedCalls ==
  ASSUME NEW feedback, NEW message, NEW calls, NEW results
  PROVE  /\ UserInput(feedback).calls = << >> /\ ModelSaid(message).calls = message.calls
         /\ ModelFailed.calls = << >> /\ ToolBatch(calls, results).calls = << >>
         /\ Cancellation.calls = << >>
  BY DEF UserInput, ModelSaid, ModelFailed, ToolBatch, Cancellation, Nothing

(* A boundary leaves the run running, unless it is the one of a wait.      *)
LEMMA CommitStatus ==
  ASSUME IsDisk(disk), NEW b, NEW c, NEW m, NEW w, Commit(b, c, m, w)
  PROVE  disk'.messages = m /\ (b = "waiting" => disk'.status = "waiting")
  BY DEF Commit, IsDisk, DiskFields

(* Whatever settles or answers open calls answers each of them once.       *)
LEMMA SettledOnce ==
  ASSUME CoreInv, OnceInv, NEW results
  PROVE  Once(AppendResults(journal, Unsettled(journal), results))
  BY UnsettledOpen, AppendAnswersOnce DEF CoreInv, Shapes, OnceInv

LEMMA EnterAnswersOnce ==
  ASSUME CoreInv, OnceInv,
         RefuseCancelled \/ EnterWithUserInput \/ EnterWithMessage \/ EnterWithResults
  PROVE  OnceInv'
<1>1. CASE RefuseCancelled
  <2>1. /\ pc' = "over" /\ decision'.do = "end" /\ decision'.arg = "cancelled"
        /\ UNCHANGED << disk, journal, obs, entry, batch >>
    BY <1>1 DEF RefuseCancelled, Terminate
  <2> QED
    BY <2>1 DEF OnceInv, Once, Terminal
<1>2. CASE EnterWithUserInput
  <2>1. /\ pc' = "decide" /\ obs' = UserInput(journal.feedback)
        /\ UNCHANGED << disk, journal, entry, batch, decision >>
    BY <1>2 DEF EnterWithUserInput
  <2>2. obs'.calls = << >>
    BY <2>1, ObservedCalls
  <2> QED
    BY <2>1, <2>2, NoCalls DEF OnceInv, Once
<1>3. CASE EnterWithMessage
  BY <1>3 DEF EnterWithMessage, OnceInv
<1>4. CASE EnterWithResults
  <2>1. PICK results :
          /\ obs' = ToolBatch(Unsettled(journal), results)
          /\ journal' = AppendResults(journal, Unsettled(journal), results)
    BY <1>4 DEF EnterWithResults
  <2>2. /\ pc' = "decide" /\ UNCHANGED << entry, batch, decision >>
        /\ Commit("after_tools", core', journal', NoWait)
    BY <1>4 DEF EnterWithResults
  <2>3. Once(journal') /\ obs'.calls = << >>
    BY <2>1, SettledOnce, ObservedCalls
  <2>4. disk'.messages = journal'
    BY <2>2, CommitStatus DEF CoreInv, Shapes
  <2> QED
    BY <2>2, <2>3, <2>4, NoCalls DEF OnceInv
<1> QED
  BY <1>1, <1>2, <1>3, <1>4

(* Calls are settled only with a decision that executes none.              *)
LEMMA DecisionAnswersOnce ==
  ASSUME CoreInv, OnceInv, DecideNext
  PROVE  OnceInv'
<1> DEFINE seen == CancellationSeen
           core1 == IF seen THEN ReduceCancellation(core) ELSE core
           obs1 == IF seen THEN Cancellation ELSE obs
<1>1. /\ pc = "decide" /\ pc' = "act" /\ UNCHANGED entry
      /\ decision' = Decide(core1, obs1, disk.mode, limits)
      /\ batch' = [ NoBatch EXCEPT !.calls = IF decision'.do = "tools" THEN obs1.calls ELSE << >> ]
      /\ IF MustSettle(decision') /\ Unsettled(journal) # << >>
         THEN Settle(core1, Unsettled(journal))
         ELSE core' = core1 /\ obs' = obs1 /\ UNCHANGED << disk, journal >>
  BY DEF DecideNext
<1>2. OpenIn(journal, obs1.calls)
  BY <1>1, ObservedCalls, NoCalls DEF OnceInv
<1>3. decision'.do = "end" => decision'.arg \in Terminal
  BY <1>1, DecideEnds
<1> HIDE DEF core1, obs1
<1>4. "calls" \in DOMAIN batch' /\ (decision'.do = "tools" => batch'.calls = obs1.calls)
  BY <1>1 DEF NoBatch
<1>5. CASE MustSettle(decision') /\ Unsettled(journal) # << >>
  <2>1. PICK results : /\ journal' = AppendResults(journal, Unsettled(journal), results)
                       /\ Commit("after_tools", core', journal', NoWait)
    BY <1>1, <1>5 DEF Settle
  <2>2. Once(journal') /\ disk'.messages = journal'
    BY <2>1, SettledOnce, CommitStatus DEF CoreInv, Shapes
  <2>3. decision'.do # "tools"
    BY <1>5 DEF MustSettle
  <2> QED
    BY <1>1, <1>3, <1>4, <2>2, <2>3 DEF OnceInv
<1>6. CASE ~(MustSettle(decision') /\ Unsettled(journal) # << >>)
  <2>1. UNCHANGED << disk, journal >>
    BY <1>1, <1>6
  <2>2. Once(journal)' /\ Once(disk.messages)'
    BY <2>1 DEF OnceInv, Once
  <2>3. decision'.do = "tools" => OpenIn(journal, batch.calls)'
    BY <1>2, <1>4, <2>1 DEF OpenIn
  <2> QED
    BY <1>1, <1>3, <1>4, <2>2, <2>3 DEF OnceInv
<1> QED
  BY <1>5, <1>6

LEMMA CommitsAnswerOnce ==
  ASSUME CoreInv, OnceInv, CommitWait \/ CommitTerminal \/ StartModel \/ Admit
  PROVE  OnceInv'
<1>1. /\ pc = "act" /\ UNCHANGED << journal, obs, entry, batch, decision >>
      /\ \E b, c, w : /\ Commit(b, c, journal, w)
                      /\ \/ pc' = "over" /\ decision.do = "wait" /\ b = "waiting"
                         \/ pc' = "over" /\ decision.do = "end"
                         \/ pc' = "model"
                         \/ pc' = "execute" /\ decision.do = "tools"
  BY DEF CommitWait, CommitTerminal, StartModel, Admit
<1>2. /\ disk'.messages = journal
      /\ \/ pc' = "over" /\ decision.do = "wait" /\ disk'.status = "waiting"
         \/ pc' = "over" /\ decision.do = "end"
         \/ pc' = "model"
         \/ pc' = "execute" /\ decision.do = "tools"
  BY <1>1, CommitStatus DEF CoreInv, Shapes
<1> QED
  BY <1>1, <1>2 DEF OnceInv, Once, OpenIn

LEMMA FinishAnswersOnce ==
  ASSUME CoreInv, OnceInv, Finish
  PROVE  OnceInv'
<1>1. /\ pc = "over" /\ pc' = "idle" /\ journal' = NoMessages /\ entry'.kind = "none"
      /\ "calls" \in DOMAIN batch'
      /\ disk' = IF decision.do = "wait" /\ ~token THEN disk
                 ELSE [ disk EXCEPT !.status = IF token THEN "cancelled" ELSE decision.arg,
                                    !.wait = NoWait ]
  BY DEF Finish, Forget, NoEntry, NoBatch
<1>2. disk'.messages = disk.messages /\ disk'.status # "running"
  BY <1>1 DEF CoreInv, Shapes, IsDisk, DiskFields, OnceInv, Terminal
<1> QED
  BY <1>1, <1>2, NoCalls DEF OnceInv, Once

(* What the model says is new (call_model_once).                           *)
LEMMA ModelAnswersOnce ==
  ASSUME CoreInv, OnceInv,
         \/ \E message \in Messages : ModelReplies(message)
         \/ \E code \in { "model.call_failed", "model.fatal" } : ModelFails(code)
  PROVE  OnceInv'
<1>1. /\ pc' = "decide" /\ UNCHANGED << entry, batch, decision >>
      /\ Commit("after_model", core', journal', NoWait)
      /\ \/ journal' = journal /\ obs' = ModelFailed
         \/ \E message \in Messages : journal' = Append1(journal, message) /\ obs' = ModelSaid(message)
  BY DEF ModelReplies, ModelFails, ObserveModel
<1>2. Once(journal') /\ OpenIn(journal', obs'.calls)
  <2>1. CASE journal' = journal /\ obs' = ModelFailed
    BY <2>1, ObservedCalls, NoCalls DEF OnceInv, Once, OpenIn
  <2>2. CASE \E message \in Messages : journal' = Append1(journal, message) /\ obs' = ModelSaid(message)
    BY <2>2, ObservedCalls, NewCallsOpen DEF CoreInv, Shapes, OnceInv
  <2> QED
    BY <1>1, <2>1, <2>2
<1>3. disk'.messages = journal'
  BY <1>1, CommitStatus DEF CoreInv, Shapes
<1> QED
  BY <1>1, <1>2, <1>3 DEF OnceInv

(* A batch answers the calls that it was made of                           *)
(* (execute_core_tool_batch).                                              *)
LEMMA BatchAnswersOnce ==
  ASSUME CoreInv, OnceInv, NEW i, NEW kind, Refuse(i, kind) \/ FinishBatch \/ RunHandler(kind)
  PROVE  OnceInv'
<1>1. CASE RunHandler(kind)
  <2>1. /\ UNCHANGED << disk, pc, journal, obs, entry, decision >>
        /\ \E r : batch' = [ batch EXCEPT !.results = r ]
    BY <1>1 DEF RunHandler
  <2>2. "calls" \in DOMAIN batch' /\ batch'.calls = batch.calls
    BY <2>1 DEF OnceInv
  <2> QED
    BY <2>1, <2>2 DEF OnceInv, Once, OpenIn
<1>2. CASE Refuse(i, kind) \/ FinishBatch
  <2>1. /\ pc = "execute" \/ (pc = "act" /\ decision.do = "tools")
        /\ pc' = "decide" /\ batch' = NoBatch /\ UNCHANGED << entry, decision >>
        /\ \E results : /\ obs' = ToolBatch(batch.calls, results)
                        /\ journal' = AppendResults(journal, batch.calls, results)
        /\ UNCHANGED disk \/ \E b, w : Commit(b, core', journal', w)
    BY <1>2 DEF Refuse, FinishBatch, ObserveTools
  <2>2. Once(journal') /\ obs'.calls = << >>
    BY <2>1, AppendAnswersOnce, ObservedCalls DEF CoreInv, Shapes, OnceInv
  <2>3. disk'.messages = disk.messages \/ disk'.messages = journal'
    BY <2>1, CommitStatus DEF CoreInv, Shapes
  <2>4. "calls" \in DOMAIN batch'
    BY <2>1 DEF NoBatch
  <2> QED
    BY <2>1, <2>2, <2>3, <2>4, NoCalls DEF OnceInv, Once
<1> QED
  BY <1>1, <1>2

LEMMA InterruptAnswersOnce ==
  ASSUME CoreInv, OnceInv, NEW status \in { "failed", "cancelled" }, Interrupt(status)
  PROVE  OnceInv'
<1>1. /\ pc' = "act" /\ decision'.do = "end" /\ decision'.arg \in Terminal
      /\ batch' = NoBatch /\ UNCHANGED entry
      /\ \E results : journal' = AppendResults(journal, Unsettled(journal), results)
      /\ UNCHANGED disk \/ \E c : Commit("after_tools", c, journal', NoWait)
  BY DEF Interrupt, Terminate, Terminal
<1>2. Once(journal') /\ (disk'.messages = disk.messages \/ disk'.messages = journal')
  BY <1>1, SettledOnce, CommitStatus DEF CoreInv, Shapes
<1>3. "calls" \in DOMAIN batch'
  BY <1>1 DEF NoBatch
<1> QED
  BY <1>1, <1>2, <1>3 DEF OnceInv, Once

(* A run that goes on has waited, or a plan command has put it before a    *)
(* call of the model (_continuation_entry).                                *)
LEMMA ResumeAnswersOnce ==
  ASSUME CoreInv, OnceInv,
         Recover \/ ContinueRun \/ Prompt \/ \E answer \in { "approve", "deny", "reply" } : Answer(answer)
  PROVE  OnceInv'
<1>1. /\ journal' = disk.messages /\ pc' \in { "enter", "resuming", "prompting" }
      /\ UNCHANGED << obs, batch, decision >>
  BY DEF Recover, ContinueRun, Prompt, Answer, Load, Idle
<1>2. disk'.messages = disk.messages
  <2>1. Resumed.messages = disk.messages /\ IsDisk(Resumed)
    BY DEF Resumed, CoreInv, Shapes, IsDisk, DiskFields
  <2>2. disk' = Resumed \/ \E p : disk' = [ Resumed EXCEPT !.prepared = p ]
    BY DEF Recover, ContinueRun, Prompt, Answer
  <2> QED
    BY <2>1, <2>2 DEF IsDisk, DiskFields
<1>3. entry'.kind # "message"
  <2>1. CASE Recover
    <3>1. disk.resume = "after_tools" /\ entry' \in { NoEntry, RecoveryEntry }
      BY <2>1 DEF Recover, Idle, OnceInv
    <3>2. disk.resume = "after_tools" => RecoveryEntry.kind = "user"
      BY DEF RecoveryEntry, NoEntry
    <3> QED
      BY <3>1, <3>2 DEF NoEntry
  <2>2. CASE ContinueRun \/ Prompt \/ \E answer \in { "approve", "deny", "reply" } : Answer(answer)
    BY <2>2 DEF ContinueRun, Prompt, Answer, NoEntry
  <2> QED
    BY <2>1, <2>2
<1> QED
  BY <1>1, <1>2, <1>3 DEF OnceInv, Once

LEMMA ContinuationAnswersOnce ==
  ASSUME CoreInv, OnceInv,
         (\E kind \in ResultKinds : ExecuteResume(kind)) \/ CommitPrompt \/ StartApproved
  PROVE  OnceInv'
<1>1. CASE \E kind \in ResultKinds : ExecuteResume(kind)
  <2>1. /\ pc' = "enter" /\ entry'.kind = "results"
        /\ UNCHANGED << disk, journal, obs, batch, decision >>
    BY <1>1 DEF ExecuteResume
  <2> QED
    BY <2>1 DEF OnceInv, Once
<1>2. CASE CommitPrompt
  <2>1. /\ pc' = "enter" /\ UNCHANGED << obs, batch, decision, entry >>
        /\ journal' = [ journal EXCEPT !.feedback = TRUE ]
        /\ disk' = [ disk EXCEPT !.messages = journal', !.resume = "before_model" ]
    BY <1>2 DEF CommitPrompt
  <2>2. journal'.answers = journal.answers /\ journal'.issued = journal.issued
    BY <2>1 DEF CoreInv, Shapes, IsTranscript, MessageFields
  <2>3. disk'.messages = journal'
    BY <2>1 DEF CoreInv, Shapes, IsDisk, DiskFields
  <2>4. Once(journal)' /\ Once(disk.messages)'
    BY <2>2, <2>3 DEF OnceInv, Once
  <2> QED
    BY <2>1, <2>4 DEF OnceInv
<1>3. CASE StartApproved
  <2>1. /\ pc = "starting" /\ UNCHANGED << disk, obs, batch, decision >>
        /\ \/ pc' = "enter" /\ journal' = disk.messages /\ entry'.kind = "user"
           \/ pc' = "idle" /\ UNCHANGED << journal, entry >>
    BY <1>3 DEF StartApproved, Load, NoEntry
  <2> QED
    BY <2>1 DEF OnceInv, Once
<1> QED
  BY <1>1, <1>2, <1>3

LEMMA PlanCommandAnswersOnce ==
  ASSUME CoreInv, OnceInv,
         \/ ApprovePlan \/ RejectPlan \/ AbandonPlan
         \/ \E approved \in BOOLEAN : ResolveRevision(approved)
         \/ SwitchToBuild \/ CloseRun
  PROVE  OnceInv'
<1>1. UNCHANGED << journal, obs, batch, decision >>
  BY DEF ApprovePlan, RejectPlan, AbandonPlan, ResolveRevision, SwitchToBuild, CloseRun, CommandPlan, Idle
<1>2. CASE SwitchToBuild
  <2>1. pc = "switching" /\ pc' = "starting" /\ entry' = entry /\ disk' = [ disk EXCEPT !.mode = "build" ]
    BY <1>2 DEF SwitchToBuild
  <2>2. disk'.messages = disk.messages /\ disk'.resume = disk.resume
    BY <2>1 DEF CoreInv, Shapes, IsDisk, DiskFields
  <2> QED
    BY <1>1, <2>1, <2>2 DEF OnceInv, Once
<1>3. CASE CloseRun
  <2>1. pc' = "idle" /\ entry' = entry /\ disk' = [ disk EXCEPT !.status = "cancelled" ]
    BY <1>3 DEF CloseRun
  <2>2. disk'.messages = disk.messages /\ disk'.status = "cancelled"
    BY <2>1 DEF CoreInv, Shapes, IsDisk, DiskFields
  <2> QED
    BY <1>1, <2>1, <2>2 DEF OnceInv, Once
<1>4. CASE ~(SwitchToBuild \/ CloseRun)
  <2>1. \E plan, next : CommandPlan(plan, next) /\ next \in { "switching", "starting", "closing" }
    BY <1>4 DEF ApprovePlan, RejectPlan, AbandonPlan, ResolveRevision
  <2>2. PICK plan : disk' = [ Resumed EXCEPT !.core.plan = plan, !.core.noProgress = 0,
                                             !.resume = "after_tools" ]
    BY <2>1 DEF CommandPlan
  <2>3. pc' \in { "switching", "starting", "closing" } /\ entry'.kind = "none"
    BY <2>1 DEF CommandPlan, NoEntry
  <2>4. IsDisk(Resumed) /\ Resumed.messages = disk.messages
    BY DEF Resumed, CoreInv, Shapes, IsDisk, DiskFields
  <2>5. disk'.messages = disk.messages /\ disk'.resume = "after_tools"
    BY <2>2, <2>4 DEF IsDisk, DiskFields
  <2> QED
    BY <1>1, <2>3, <2>5 DEF OnceInv, Once
<1> QED
  BY <1>2, <1>3, <1>4

(* Only Crash counts as a crash.                                            *)
LEMMA StepsDoNotCrash == Driver \/ User => crashes' = crashes
  BY DEF Driver, User, Bounds, RefuseCancelled, EnterWithUserInput, EnterWithMessage,
     EnterWithResults, DecideNext, CommitWait, CommitTerminal, Finish, StartModel, ModelReplies,
     ModelFails, ObserveModel, Refuse, Admit, RunHandler, FinishBatch, Interrupt, ExecuteResume,
     CommitPrompt, SwitchToBuild, StartApproved, CloseRun, Cancel, Recover, ContinueRun, Prompt,
     Answer, ApprovePlan, RejectPlan, AbandonPlan, ResolveRevision, CommandPlan, Idle

\* A crash may break it.
OnceUntilCrash == crashes \in Nat /\ (crashes = 0 => OnceInv)

LEMMA OnceInvInit == Init => OnceUntilCrash
<1> SUFFICES ASSUME Init PROVE OnceInv /\ crashes = 0
  BY DEF OnceUntilCrash
<1>1. /\ crashes = 0 /\ pc = "enter" /\ journal = NoMessages /\ entry.kind = "user"
      /\ "calls" \in DOMAIN batch
  BY DEF Init, NoEntry, NoBatch
<1>2. disk.messages = NoMessages
  <2>1. PICK m \in Modes :
          disk = [ status |-> "running", mode |-> m, core |-> NewCore, messages |-> NoMessages,
                   resume |-> "before_model", wait |-> NoWait, prepared |-> NoResume, ws |-> 0 ]
    BY DEF Init
  <2> QED
    BY <2>1
<1> QED
  BY <1>1, <1>2, NoCalls DEF OnceInv

LEMMA OnceInvStep == CoreInv /\ OnceUntilCrash /\ [Next]_vars => OnceUntilCrash'
<1> SUFFICES ASSUME CoreInv, OnceUntilCrash, [Next]_vars PROVE OnceUntilCrash'
  OBVIOUS
<1>1. CASE Crash
  BY <1>1 DEF Crash, OnceUntilCrash
<1>2. ASSUME crashes = 0, Driver PROVE OnceInv'
  <2> OnceInv
    BY <1>2 DEF OnceUntilCrash
  <2>1. CASE RefuseCancelled \/ EnterWithUserInput \/ EnterWithMessage \/ EnterWithResults
    BY <2>1, EnterAnswersOnce
  <2>2. CASE DecideNext
    BY <2>2, DecisionAnswersOnce
  <2>3. CASE CommitWait \/ CommitTerminal \/ StartModel \/ Admit
    BY <2>3, CommitsAnswerOnce
  <2>4. CASE Finish
    BY <2>4, FinishAnswersOnce
  <2>5. CASE \/ \E message \in Messages : ModelReplies(message)
             \/ \E code \in { "model.call_failed", "model.fatal" } : ModelFails(code)
    BY <2>5, ModelAnswersOnce
  <2>6. CASE \/ \E i \in 1..MaxBatch, kind \in AdmissionKinds \cup { "stale" } : Refuse(i, kind)
             \/ \E kind \in HandlerKinds \cup { "cancelled" } : RunHandler(kind)
             \/ FinishBatch
    BY <2>6, BatchAnswersOnce
  <2>7. CASE \E status \in { "failed", "cancelled" } : Interrupt(status)
    BY <2>7, InterruptAnswersOnce
  <2>8. CASE (\E kind \in ResultKinds : ExecuteResume(kind)) \/ CommitPrompt \/ StartApproved
    BY <2>8, ContinuationAnswersOnce
  <2>9. CASE SwitchToBuild \/ CloseRun
    BY <2>9, PlanCommandAnswersOnce
  <2> QED
    BY <1>2, <2>1, <2>2, <2>3, <2>4, <2>5, <2>6, <2>7, <2>8, <2>9 DEF Driver
<1>3. ASSUME crashes = 0, User PROVE OnceInv'
  <2> OnceInv
    BY <1>3 DEF OnceUntilCrash
  <2>1. CASE Cancel
    <3>1. /\ UNCHANGED << disk, pc, journal, obs, entry, decision, batch >>
      BY <2>1 DEF Cancel
    <3> QED
      BY <3>1 DEF OnceInv, Once, OpenIn
  <2>2. CASE \/ Recover \/ ContinueRun \/ Prompt
             \/ \E answer \in { "approve", "deny", "reply" } : Answer(answer)
    BY <2>2, ResumeAnswersOnce
  <2>3. CASE \/ ApprovePlan \/ RejectPlan \/ AbandonPlan
             \/ \E approved \in BOOLEAN : ResolveRevision(approved)
    BY <2>3, PlanCommandAnswersOnce
  <2> QED
    BY <1>3, <2>1, <2>2, <2>3 DEF User
<1>4. CASE UNCHANGED vars
  BY <1>4 DEF vars, OnceUntilCrash, OnceInv, Once, OpenIn
<1>5. CASE Driver \/ User
  <2>1. crashes' = crashes
    BY <1>5, StepsDoNotCrash
  <2> QED
    BY <1>2, <1>3, <1>5, <2>1 DEF OnceUntilCrash
<1> QED
  BY <1>1, <1>4, <1>5 DEF Next, Rest

(* As long as the process has not crashed, no call is answered twice, over  *)
(* all the entries of a run and whatever is approved, denied, replied,      *)
(* interrupted or said again (driver.py, project_final_tool_messages;       *)
(* docs/design/4tool-design.md:824).  Once it has crashed, a call may be:   *)
(* AnsweredOnce itself fails (session_coordinator.py, _continuation_entry). *)
THEOREM CallsAnsweredOnce == Spec => [](crashes = 0 => AnsweredOnce)
<1>1. OnceUntilCrash => (crashes = 0 => AnsweredOnce)
  <2> SUFFICES ASSUME OnceInv, NEW c \in Calls PROVE Len(journal.answers[c]) <= 1
    BY DEF OnceUntilCrash, AnsweredOnce
  <2>1. journal.answers[c] = << >> \/ \E x : journal.answers[c] = << x >>
    BY DEF OnceInv, Once
  <2>2. Len(<< >>) <= 1 /\ \A x : Len(<< x >>) <= 1
    OBVIOUS
  <2> QED
    BY <2>1, <2>2
<1> QED
  BY CoreInvAlways, OnceInvInit, OnceInvStep, <1>1, PTL DEF Spec

-------------------------------------------------------------------------------
(* What Core ends *)

PlanEnded(c) == c.plan.status \notin { "proposed", "active" }

(* Settling calls that were not executed is no progress: the task, the plan, *)
(* the changes and the last check stay what they were (reducer.py).          *)
LEMMA SettlingKeeps ==
  ASSUME NEW c, IsCore(c), NEW calls, NEW print, NEW mode
  PROVE  Kept(c, ReduceTools(c, Same("notExecuted", calls), print, mode))
<1> DEFINE results == Same("notExecuted", calls)
           counted == [ c EXCEPT !.iterations = @ + IF Material(results) = { } THEN 0 ELSE 1 ]
           checked == ReduceVerification(counted, results)
           failed == ReduceFailures(checked, results)
           clean == ForgetFailures(failed, results)
<1>1. \A i \in DOMAIN results : results[i] = "notExecuted"
  BY DEF Same
<1>2. Range(results) \subseteq { "notExecuted" }
  BY <1>1 DEF Range
<1>4. LastOf(results, { "passed", "checkFailed" }) = "none"
  BY <1>1 DEF LastOf
<1>5. ~Changed(results) /\ Range(results) \cap Commands = { }
  BY <1>2 DEF Changed, Changes, Commands
<1> HIDE DEF results
<1>6. Kept(c, counted) /\ IsCore(counted)
  BY DEF Kept, IsCore, CoreFields
<1>7. Kept(counted, checked) /\ IsCore(checked)
  <2> HIDE DEF counted
  <2> DEFINE blockers == CASE counted.check.status = "failed" ->
                                counted.blockers \cup { "verification_failed" }
                           [] counted.check.status = "passed" ->
                                counted.blockers \ { "verification_failed" }
                           [] OTHER -> counted.blockers
             next == [ counted EXCEPT !.check = counted.check, !.blockers = blockers ]
  <2>1. checked = IF counted.check.status = "failed"
                  THEN RecordFailures(next, "verification.failed", 1) ELSE next
    BY <1>4, <1>5 DEF ReduceVerification
  <2> HIDE DEF blockers
  <2>2. IsCore(next) /\ Kept(counted, next)
    BY <1>6 DEF IsCore, CoreFields, Kept
  <2> HIDE DEF next
  <2> QED
    BY <2>1, <2>2, RecordFailuresKeepsTurns DEF Kept
<1>8. Kept(checked, failed) /\ IsCore(failed)
  <2> HIDE DEF checked
  <2>1. \E latest, counts, blockers :
          failed = [ checked EXCEPT !.latest = latest, !.counts = counts, !.blockers = blockers ]
    BY DEF ReduceFailures
  <2> HIDE DEF failed
  <2> QED
    BY <1>7, <2>1 DEF IsCore, CoreFields, Kept
<1>9. Kept(failed, clean) /\ IsCore(clean)
  <2> HIDE DEF failed
  <2> QED
    BY <1>8 DEF ForgetFailures, IsCore, CoreFields, Kept
<1>10. \/ ReduceTools(c, results, print, mode) = clean
       \/ \E repeated, progress :
            ReduceTools(c, results, print, mode) =
              [ clean EXCEPT !.repeated = repeated, !.print = print, !.noProgress = progress ]
  BY <1>5 DEF ReduceTools, ReduceWorkspace, ApplyCommands
<1>11. Kept(c, clean)
  BY <1>6, <1>7, <1>8, <1>9 DEF Kept
<1> HIDE DEF clean
<1>12. Kept(clean, ReduceTools(c, results, print, mode))
  BY <1>9, <1>10 DEF IsCore, CoreFields, Kept
<1> QED
  BY <1>11, <1>12 DEF Kept, results

(* When a run is completed, its task was satisfied before, or its plan is   *)
(* done, or it has no plan and its changes have been checked (policy.py).   *)
LEMMA DecideCompletes ==
  ASSUME NEW c, IsCore(c), NEW o, NEW mode, NEW lim,
         Decide(c, o, mode, lim).do = "end", Decide(c, o, mode, lim).arg = "completed"
  PROVE  \/ c.task = "satisfied"
         \/ Active(c) /\ c.plan.done
         \/ PlanEnded(c) /\ (c.task = "active" => c.revision = 0 \/ Fresh(c))
<1> DEFINE Other(i) == \/ Move(c, o, mode, lim, i) # "end"
                       \/ Rules(c, o, mode, lim)[i].decision.arg # "completed"
<1>1. Other(2) /\ Other(3) /\ Other(5) /\ Other(6) /\ Other(16) /\ Other(20)
  BY DEF Rules, Terminate
<1>2. Other(4) /\ Other(7) /\ Other(9) /\ Other(11) /\ Other(12) /\ Other(13)
  BY RuleFacts
<1>3. Other(8) /\ Other(10) /\ Other(14) /\ Other(15) /\ Other(17)
  BY DEF Rules, Move, CallModel
<1>4. Other(19) /\ Other(21) /\ Other(22) /\ Other(23) /\ Other(25)
  BY DEF Rules, Move, CallModel
<1>5. PICK first \in 1..25 :
        /\ Guard(c, o, mode, lim, first)
        /\ \A i \in 1..25 : Guard(c, o, mode, lim, i) => first <= i
        /\ Decide(c, o, mode, lim) = Rules(c, o, mode, lim)[first].decision
  BY DecideRule
<1>6. ~Other(first)
  BY <1>5 DEF Move
<1> HIDE DEF Other
<1>7. first \in { 1, 18, 24 }
  BY <1>1, <1>2, <1>3, <1>4, <1>5, <1>6
<1>8. CASE first = 1
  <2>1. Guard(c, o, mode, lim, 1) <=> c.task = "satisfied"
    BY DEF Rules, Guard
  <2> QED
    BY <1>5, <1>8, <2>1
<1>9. CASE first = 18
  <2>1. Guard(c, o, mode, lim, 18) => Active(c) /\ c.plan.done
    BY DEF Rules, Guard
  <2> QED
    BY <1>5, <1>9, <2>1
<1>10. CASE first = 24
  <2>1. /\ ~Guard(c, o, mode, lim, 11) /\ ~Guard(c, o, mode, lim, 14)
        /\ ~Guard(c, o, mode, lim, 21) /\ ~Guard(c, o, mode, lim, 22)
    BY <1>5, <1>10
  <2>2. Guard(c, o, mode, lim, 24)
    BY <1>5, <1>10
  <2>3. /\ Guard(c, o, mode, lim, 24) <=> IsFinalCandidate(o)
        /\ Guard(c, o, mode, lim, 14) <=> "replan_required" \in c.blockers
        /\ c.plan.status = "proposed" => Guard(c, o, mode, lim, 11)
    BY DEF Rules, Guard
  <2>4. /\ Guard(c, o, mode, lim, 22) <=> NeedsVerification(c)
        /\ Active(c) /\ IsFinalCandidate(o) => Guard(c, o, mode, lim, 21)
    BY DEF Rules, Guard
  <2> QED
    BY <2>1, <2>2, <2>3, <2>4 DEF NeedsVerification, PlanEnded, Active, IsCore
<1> QED
  BY <1>7, <1>8, <1>9, <1>10

(* An end closes a plan that is done, and drops one that is not             *)
(* (apply_decision).                                                        *)
LEMMA TerminalEndsPlan ==
  ASSUME NEW c, IsCore(c), NEW d, d.do = "end", d.arg \in Terminal
  PROVE  /\ ApplyDecision(c, d).task = "satisfied" <=> d.arg = "completed"
         /\ d.arg = "completed" /\ Active(c) /\ c.plan.done =>
              ApplyDecision(c, d).plan.status = "completed"
         /\ d.arg = "completed" /\ PlanEnded(c) => PlanEnded(ApplyDecision(c, d))
         /\ d.arg # "completed" => PlanEnded(ApplyDecision(c, d))
         /\ ApplyDecision(c, d).revision = c.revision /\ ApplyDecision(c, d).check = c.check

<1> DEFINE closes == d.arg = "completed" /\ Active(c) /\ c.plan.done
           drops == d.arg \in { "failed", "cancelled" } /\ c.plan.status \in { "proposed", "active" }
           status == IF closes THEN "completed" ELSE IF drops THEN "abandoned" ELSE c.plan.status
           plan == [ c.plan EXCEPT !.status = status, !.pending = @ /\ ~drops ]
           task == [ completed |-> "satisfied", failed |-> "blocked", cancelled |-> "abandoned" ]
           new == ApplyDecision(c, d)
           blockers == IF d.arg = "completed" THEN { } ELSE c.blockers
<1>1. new = [ c EXCEPT !.task = task[d.arg], !.plan = plan, !.blockers = blockers ]
  <2>1. new = [ c EXCEPT !.task = task[d.arg], !.plan.status = status, !.plan.pending = @ /\ ~drops,
                         !.blockers = blockers ]
    BY DEF ApplyDecision
  <2> HIDE DEF new, status, task, blockers, drops
  <2> QED
    BY <2>1 DEF IsCore, CoreFields
<1>2. plan.status = status
  BY DEF IsCore
<1>3. task[d.arg] = "satisfied" <=> d.arg = "completed"
  BY DEF Terminal
<1> HIDE DEF plan, task, new, status
<1>4. /\ new.task = task[d.arg] /\ new.plan = plan
      /\ new.revision = c.revision /\ new.check = c.check
  BY <1>1 DEF IsCore, CoreFields
<1> QED
  BY <1>2, <1>3, <1>4 DEF PlanEnded, Terminal, status, new, Active

(* A task that is satisfied ends its run at once (Policy.decide).           *)
LEMMA DecideSatisfied ==
  ASSUME NEW c, NEW o, NEW mode, NEW lim, c.task = "satisfied"
  PROVE  Decide(c, o, mode, lim).do = "end"
<1>1. Guard(c, o, mode, lim, 1)
  BY DEF Rules, Guard
<1>2. PICK first \in 1..25 :
        /\ \A i \in 1..25 : Guard(c, o, mode, lim, i) => first <= i
        /\ Decide(c, o, mode, lim) = Rules(c, o, mode, lim)[first].decision
  BY DecideRule
<1>3. first = 1
  BY <1>1, <1>2
<1> QED
  BY <1>2, <1>3, RuleFacts DEF Move

\* A satisfied task is one whose run is over in all but name.
Satisfied ==
    /\ disk.core.task = "satisfied" =>
         /\ PlanEnded(disk.core) /\ disk.resume # "before_tools"
         /\ disk.prepared = NoResume /\ disk.wait = NoWait
    /\ core.task = "satisfied" =>
         /\ PlanEnded(core) /\ pc \notin { "model", "execute", "resuming", "prompting" }
         /\ pc = "enter" => entry.kind # "results"
         /\ pc = "act" => decision.do = "end"

\* What Core and the user end, and what they leave in the files.
EndsOnce ==
    /\ pc = "act" /\ decision.do = "end" =>
         /\ decision.arg \in Terminal
         /\ decision.arg = "completed" => PlanEnded(core) \/ (Active(core) /\ core.plan.done)
    /\ pc = "over" =>
         \/ decision.do = "wait" /\ disk.status = "waiting"
         \/ decision.do = "end" /\ decision.arg \in Terminal /\ PlanEnded(disk.core)
         \/ decision.do = "end" /\ token /\ decision.code = "runtime.cancelled"
    /\ pc = "closing" => PlanEnded(disk.core) /\ disk.wait = NoWait
    /\ disk.status \in Terminal => pc = "idle" /\ disk.wait = NoWait

\* Only a cancellation ends a run whose plan has not ended.
OnlyCancelled ==
    "cancel" \notin Events => ~token /\ (disk.status \in Terminal => PlanEnded(disk.core))

EndInv == Satisfied /\ EndsOnce /\ OnlyCancelled

\* Until the process crashes, Core only sees tasks that are still active, and completes
\* one without a plan when its changes have been checked.
Checked ==
    /\ pc \in { "enter", "decide", "act", "model", "execute", "resuming", "prompting" } =>
         core.task = "active"
    /\ disk.status \notin Terminal /\ ~(pc = "over" /\ decision.do = "end") =>
         disk.core.task = "active"
    /\ pc = "act" /\ decision.do = "end" /\ decision.arg = "completed" =>
         core.revision = 0 \/ Fresh(core) \/ (Active(core) /\ core.plan.done)
    /\ CompletedIsVerified

(* What a boundary stores of the end of a run.                              *)
LEMMA CommitEnds ==
  ASSUME IsDisk(disk), NEW b, NEW c, NEW m, NEW w, Commit(b, c, m, w)
  PROVE  /\ disk'.core = c /\ disk'.wait = w /\ disk'.prepared = NoResume
         /\ disk'.status = IF b = "waiting" THEN "waiting" ELSE "running"
         /\ disk'.status \notin Terminal
         /\ b \in { "after_tools", "before_terminal" } => disk'.resume # "before_tools"
  BY DEF Commit, IsDisk, DiskFields, ResumePoint, Terminal

LEMMA EnterEnds ==
  ASSUME CoreInv, EndInv,
         RefuseCancelled \/ EnterWithUserInput \/ EnterWithMessage \/ EnterWithResults
  PROVE  EndInv' /\ (Checked => Checked')
<1>1. CASE RefuseCancelled
  <2>1. /\ pc = "enter" /\ pc' = "over" /\ token /\ UNCHANGED << disk, core, entry, token >>
        /\ decision'.do = "end" /\ decision'.code = "runtime.cancelled"
        /\ decision'.arg = "cancelled"
    BY <1>1 DEF RefuseCancelled, Terminate
  <2>2. EndInv'
    BY <2>1 DEF EndInv, Satisfied, EndsOnce, OnlyCancelled, PlanEnded, Terminal
  <2>3. Checked => Checked'
    BY <2>1 DEF Checked, CompletedIsVerified, Completed, Decided
  <2> QED
    BY <2>2, <2>3
<1>2. CASE EnterWithUserInput \/ EnterWithMessage
  <2>1. /\ pc = "enter" /\ pc' = "decide" /\ UNCHANGED << disk, entry, token, decision >>
        /\ core' = core \/ \E o : core' = ReduceUserInput(core, o)
    BY <1>2 DEF EnterWithUserInput, EnterWithMessage
  <2>2. core'.plan = core.plan /\ core'.task = IF core.task = "blocked" THEN core'.task ELSE core.task
    BY <2>1, UserInputKeepsTurns DEF CoreInv, Shapes
  <2>3. core'.task = "satisfied" => core.task = "satisfied"
    BY <2>1, UserInputKeepsTurns DEF CoreInv, Shapes
  <2>4. EndInv'
    BY <2>1, <2>2, <2>3 DEF EndInv, Satisfied, EndsOnce, OnlyCancelled, PlanEnded, Terminal
  <2>5. Checked => Checked'
    BY <2>1, <2>2 DEF Checked, CompletedIsVerified, Completed, Decided
  <2> QED
    BY <2>4, <2>5
<1>3. CASE EnterWithResults
  <2>1. /\ pc = "enter" /\ pc' = "decide" /\ entry.kind = "results"
        /\ UNCHANGED << entry, token, decision >>
        /\ Commit("after_tools", core', journal', NoWait)
        /\ \E results, print : core' = ReduceTools(core, results, print, disk.mode)
    BY <1>3 DEF EnterWithResults
  <2>2. core'.task = core.task /\ core.task # "satisfied"
    BY <2>1, ToolsKeepTurnsAndTask DEF CoreInv, Shapes, EndInv, Satisfied
  <2>3. disk'.core = core' /\ disk'.status \notin Terminal
    BY <2>1, CommitEnds DEF CoreInv, Shapes
  <2>4. EndInv'
    BY <2>1, <2>2, <2>3 DEF EndInv, Satisfied, EndsOnce, OnlyCancelled
  <2>5. Checked => Checked'
    BY <2>1, <2>2, <2>3 DEF Checked, CompletedIsVerified, Completed, Decided
  <2> QED
    BY <2>4, <2>5
<1> QED
  BY <1>1, <1>2, <1>3

(* A decision ends a run for good: the task was satisfied, or its plan and  *)
(* its changes allow it (Policy.decide).                                    *)
LEMMA DecisionEnds ==
  ASSUME CoreInv, EndInv, DecideNext
  PROVE  EndInv' /\ (Checked => Checked')
<1> DEFINE core1 == IF CancellationSeen THEN ReduceCancellation(core) ELSE core
           obs1 == IF CancellationSeen THEN Cancellation ELSE obs
<1>1. /\ pc = "decide" /\ pc' = "act" /\ UNCHANGED << entry, limits, token >>
      /\ decision' = Decide(core1, obs1, disk.mode, limits)
      /\ IF MustSettle(decision') /\ Unsettled(journal) # << >>
         THEN Settle(core1, Unsettled(journal))
         ELSE core' = core1 /\ UNCHANGED disk
  BY DEF DecideNext
<1>2. IsCore(core1) /\ Kept(core, core1)
  BY RecordFailuresKeepsTurns DEF CoreInv, Shapes, ReduceCancellation, Kept
<1>3. decision'.do = "end" /\ decision'.arg = "completed" =>
        \/ core1.task = "satisfied"
        \/ Active(core1) /\ core1.plan.done
        \/ PlanEnded(core1) /\ (core1.task = "active" => core1.revision = 0 \/ Fresh(core1))
  <2> HIDE DEF core1, obs1
  <2> QED
    BY <1>1, <1>2, DecideCompletes
<1>4. /\ core1.task = "satisfied" => decision'.do = "end"
      /\ decision'.do = "end" => decision'.arg \in Terminal
  BY <1>1, DecideSatisfied, DecideEnds
<1> HIDE DEF core1, obs1
<1>5. /\ Kept(core1, core')
      /\ \/ UNCHANGED disk
         \/ /\ disk'.core = core' /\ disk'.wait = NoWait /\ disk'.prepared = NoResume
            /\ disk'.resume # "before_tools" /\ disk'.status \notin Terminal
  <2>1. CASE core' = core1 /\ UNCHANGED disk
    BY <2>1 DEF Kept
  <2>2. CASE Settle(core1, Unsettled(journal))
    <3>1. /\ core' = ReduceTools(core1, Same("notExecuted", Unsettled(journal)),
                                 PrintOf(journal, Unsettled(journal)), disk.mode)
          /\ Commit("after_tools", core', journal', NoWait)
      BY <2>2 DEF Settle
    <3> QED
      BY <1>2, <3>1, SettlingKeeps, CommitEnds DEF CoreInv, Shapes
  <2> QED
    BY <1>1, <2>1, <2>2
<1>6. Kept(core, core')
  BY <1>2, <1>5 DEF Kept
<1>7. core.task = "satisfied" => PlanEnded(core)
  BY DEF EndInv, Satisfied
<1>8. Satisfied'
  <2>1. core'.task = "satisfied" => PlanEnded(core') /\ decision'.do = "end"
    BY <1>2, <1>4, <1>6, <1>7 DEF Kept, PlanEnded
  <2> QED
    BY <1>1, <1>5, <2>1 DEF EndInv, Satisfied, PlanEnded
<1>9. EndsOnce'
  <2>1. decision'.do = "end" /\ decision'.arg = "completed" =>
          PlanEnded(core') \/ (Active(core') /\ core'.plan.done)
    BY <1>2, <1>3, <1>6, <1>7 DEF Kept, PlanEnded, Active
  <2>2. disk'.status \notin Terminal
    BY <1>1, <1>5 DEF EndInv, EndsOnce
  <2> QED
    BY <1>1, <1>4, <2>1, <2>2 DEF EndsOnce
<1>10. OnlyCancelled'
  BY <1>1, <1>5 DEF EndInv, OnlyCancelled, PlanEnded
<1>11. ASSUME Checked PROVE Checked'
  <2>1. core.task = "active" /\ disk.status \notin Terminal /\ disk.core.task = "active"
    BY <1>1, <1>11 DEF Checked, EndInv, EndsOnce
  <2>2. core'.task = "active" /\ disk'.core.task = "active"
    BY <1>5, <1>6, <2>1 DEF Kept
  <2>3. decision'.do = "end" /\ decision'.arg = "completed" =>
          core'.revision = 0 \/ Fresh(core') \/ (Active(core') /\ core'.plan.done)
    BY <1>2, <1>3, <1>6, <2>1 DEF Kept, Active, Fresh
  <2> QED
    BY <1>1, <2>2, <2>3 DEF Checked, CompletedIsVerified, Completed, Decided
<1> QED
  BY <1>8, <1>9, <1>10, <1>11 DEF EndInv

(* What is committed before a move, and with the end of a run              *)
(* (_commit_boundary, apply_decision).                                       *)
LEMMA CommitsEnd ==
  ASSUME CoreInv, EndInv, CommitWait \/ CommitTerminal \/ StartModel \/ Admit
  PROVE  EndInv' /\ (Checked => Checked')
<1>1. ASSUME NEW b \in { "waiting", "before_model", "before_tools" }, NEW w,
             Commit(b, core, journal, w), pc = "act", UNCHANGED << core, decision, token >>,
             decision.do # "end",
             \/ b = "waiting" /\ decision.do = "wait" /\ pc' = "over"
             \/ b # "waiting" /\ pc' \in { "model", "execute" }
      PROVE  EndInv' /\ (Checked => Checked')
  <2>1. /\ disk'.core = core /\ disk'.status \notin Terminal
        /\ disk'.status = IF b = "waiting" THEN "waiting" ELSE "running"
    BY <1>1, CommitEnds DEF CoreInv, Shapes
  <2>2. core.task # "satisfied"
    BY <1>1 DEF EndInv, Satisfied
  <2>3. EndInv'
    BY <1>1, <2>1, <2>2 DEF EndInv, Satisfied, EndsOnce, OnlyCancelled
  <2>4. Checked => Checked'
    BY <1>1, <2>1 DEF Checked, CompletedIsVerified, Completed, Decided
  <2> QED
    BY <2>3, <2>4
<1>2. CASE CommitWait \/ StartModel \/ Admit
  <2>1. CASE CommitWait
    BY <1>1, <2>1 DEF CommitWait
  <2>2. CASE StartModel
    BY <1>1, <2>2 DEF StartModel
  <2>3. CASE Admit
    BY <1>1, <2>3 DEF Admit
  <2> QED
    BY <1>2, <2>1, <2>2, <2>3
<1>3. CASE CommitTerminal
  <2>1. /\ pc = "act" /\ pc' = "over" /\ decision.do = "end"
        /\ UNCHANGED << decision, token, entry >>
        /\ core' = ApplyDecision(core, decision)
        /\ Commit("before_terminal", core', journal, NoWait)
    BY <1>3 DEF CommitTerminal
  <2>2. /\ disk'.core = core' /\ disk'.status \notin Terminal /\ disk'.wait = NoWait
        /\ disk'.prepared = NoResume /\ disk'.resume # "before_tools"
    BY <2>1, CommitEnds DEF CoreInv, Shapes
  <2>3. /\ decision.arg \in Terminal
        /\ decision.arg = "completed" => PlanEnded(core) \/ (Active(core) /\ core.plan.done)
    BY <2>1 DEF EndInv, EndsOnce
  <2>4. IsCore(core)
    BY DEF CoreInv, Shapes
  <2>5. PlanEnded(core')
    <3>1. core'.plan.status = "completed" => PlanEnded(core')
      BY DEF PlanEnded
    <3> QED
      BY <2>1, <2>3, <2>4, <3>1, TerminalEndsPlan
  <2>6. EndInv'
    BY <2>1, <2>2, <2>3, <2>5 DEF EndInv, Satisfied, EndsOnce, OnlyCancelled
  <2>7. ASSUME Checked PROVE Checked'
    <3>1. decision.arg = "completed" => core.revision = 0 \/ Fresh(core) \/ (Active(core) /\ core.plan.done)
      BY <2>1, <2>7 DEF Checked
    <3>2. /\ core'.revision = core.revision /\ core'.check = core.check
          /\ decision.arg = "completed" /\ Active(core) /\ core.plan.done => core'.plan.status = "completed"
      BY <2>1, <2>3, <2>4, TerminalEndsPlan
    <3>3. CompletedIsVerified'
      BY <2>1, <3>1, <3>2 DEF CompletedIsVerified, Completed, Decided, Fresh
    <3> QED
      BY <2>1, <3>3 DEF Checked
  <2> QED
    BY <2>6, <2>7
<1> QED
  BY <1>2, <1>3

(* A run that is over is stored as Core or a cancellation ended it, and one *)
(* that waits is left as it is (_commit_run).                               *)
LEMMA FinishEnds ==
  ASSUME CoreInv, EndInv, Finish
  PROVE  EndInv' /\ (Checked => Checked')
<1>1. /\ pc = "over" /\ pc' = "idle" /\ core' = NewCore /\ token' = FALSE
      /\ disk' = IF decision.do = "wait" /\ ~token THEN disk
                 ELSE [ disk EXCEPT !.status = IF token THEN "cancelled" ELSE decision.arg,
                                    !.wait = NoWait ]
  BY DEF Finish, Forget
<1>2. NewCore.task = "active"
  BY DEF NewCore
<1>3. CASE decision.do = "wait" /\ ~token
  <2>1. UNCHANGED disk /\ disk.status \notin Terminal
    BY <1>1, <1>3 DEF EndInv, EndsOnce
  <2>2. EndInv'
    BY <1>1, <1>2, <2>1 DEF EndInv, Satisfied, EndsOnce, OnlyCancelled, PlanEnded
  <2>3. Checked => Checked'
    BY <1>1, <1>2, <1>3, <2>1 DEF Checked, CompletedIsVerified, Completed, Decided
  <2> QED
    BY <2>2, <2>3
<1>4. CASE ~(decision.do = "wait" /\ ~token)
  <2>1. /\ disk'.core = disk.core /\ disk'.wait = NoWait /\ disk'.prepared = disk.prepared
        /\ disk'.resume = disk.resume /\ disk'.status = IF token THEN "cancelled" ELSE decision.arg
    BY <1>1, <1>4 DEF CoreInv, Shapes, IsDisk, DiskFields
  <2>2. disk'.status \in Terminal
    BY <1>1, <1>4, <2>1 DEF EndInv, EndsOnce, Terminal
  <2>3. ~token => PlanEnded(disk.core)
    BY <1>1, <1>4 DEF EndInv, EndsOnce
  <2>4. EndInv'
    BY <1>1, <1>2, <2>1, <2>2, <2>3 DEF EndInv, Satisfied, EndsOnce, OnlyCancelled, PlanEnded
  <2>5. Checked'
    BY <1>1, <2>2 DEF Checked, CompletedIsVerified, Completed, Decided
  <2> QED
    BY <2>4, <2>5
<1> QED
  BY <1>3, <1>4

(* A crash only takes what is not in the files.                             *)
LEMMA CrashEnds ==
  ASSUME CoreInv, EndInv, Crash
  PROVE  EndInv'
<1>1. /\ pc # "idle" /\ pc' = "idle" /\ core' = NewCore /\ token' = FALSE /\ UNCHANGED disk
  BY DEF Crash, Forget
<1>2. NewCore.task = "active"
  BY DEF NewCore
<1> QED
  BY <1>1, <1>2 DEF EndInv, Satisfied, EndsOnce, OnlyCancelled, PlanEnded

(* What Core learns about a task that is not satisfied leaves it that way   *)
(* (reduce).                                                                *)
LEMMA ObservedEnds ==
  ASSUME CoreInv, EndInv, core.task # "satisfied", core'.task = core.task,
         pc \in { "act", "model", "execute" }, pc' = "decide", UNCHANGED << token, entry >>,
         UNCHANGED disk \/ (disk'.core = core' /\ disk'.status \notin Terminal)
  PROVE  EndInv' /\ (Checked => Checked')
<1>1. EndInv'
  BY DEF EndInv, Satisfied, EndsOnce, OnlyCancelled, PlanEnded
<1>2. Checked => Checked'
  BY DEF Checked, CompletedIsVerified, Completed, Decided, EndInv, EndsOnce
<1> QED
  BY <1>1, <1>2

LEMMA ModelEnds ==
  ASSUME CoreInv, EndInv,
         \/ \E message \in Messages : ModelReplies(message)
         \/ \E code \in { "model.call_failed", "model.fatal" } : ModelFails(code)
  PROVE  EndInv' /\ (Checked => Checked')
<1>1. pc = "model" /\ \E o, code : ObserveModel(o, code)
  BY DEF ModelReplies, ModelFails
<1>2. PICK o, code : /\ core' = ReduceModel(core, o, code) /\ pc' = "decide"
                     /\ UNCHANGED << token, entry >>
                     /\ Commit("after_model", core', journal', NoWait)
  BY <1>1 DEF ObserveModel
<1>3. core'.task = core.task /\ core.task # "satisfied"
  BY <1>1, <1>2, ModelCountsOneTurn DEF CoreInv, Shapes, Kept, EndInv, Satisfied
<1>4. disk'.core = core' /\ disk'.status \notin Terminal
  BY <1>2, CommitEnds DEF CoreInv, Shapes
<1> QED
  BY <1>1, <1>2, <1>3, <1>4, ObservedEnds

LEMMA BatchEnds ==
  ASSUME CoreInv, EndInv,
         \/ \E i \in 1..MaxBatch, kind \in AdmissionKinds \cup { "stale" } : Refuse(i, kind)
         \/ \E kind \in HandlerKinds \cup { "cancelled" } : RunHandler(kind)
         \/ FinishBatch
  PROVE  EndInv' /\ (Checked => Checked')
<1>1. CASE \E kind \in HandlerKinds \cup { "cancelled" } : RunHandler(kind)
  <2>1. UNCHANGED << disk, pc, core, entry, decision, token >>
    BY <1>1 DEF RunHandler
  <2>2. EndInv'
    BY <2>1 DEF EndInv, Satisfied, EndsOnce, OnlyCancelled, PlanEnded, Active
  <2>3. Checked => Checked'
    BY <2>1 DEF Checked, CompletedIsVerified, Completed, Decided, Active, Fresh
  <2> QED
    BY <2>2, <2>3
<1>2. CASE FinishBatch \/ \E i \in 1..MaxBatch, kind \in AdmissionKinds \cup { "stale" } : Refuse(i, kind)
  <2>1. /\ pc = "execute" \/ (pc = "act" /\ decision.do = "tools")
        /\ \E results : ObserveTools(results)
        /\ UNCHANGED disk \/ Commit("after_tools", core', journal', NoWait)
        /\ UNCHANGED << token, entry >>
    BY <1>2 DEF FinishBatch, Refuse
  <2>2. pc' = "decide" /\ \E all : core' = ReduceTools(core, all, PrintOf(journal, batch.calls), disk.mode)
    BY <2>1 DEF ObserveTools
  <2>3. core'.task = core.task /\ core.task # "satisfied"
    BY <2>1, <2>2, ToolsKeepTurnsAndTask DEF CoreInv, Shapes, EndInv, Satisfied
  <2>4. UNCHANGED disk \/ (disk'.core = core' /\ disk'.status \notin Terminal)
    BY <2>1, CommitEnds DEF CoreInv, Shapes
  <2>5. pc \in { "act", "model", "execute" } /\ UNCHANGED << token, entry >>
    BY <2>1
  <2> QED
    BY <2>2, <2>3, <2>4, <2>5, ObservedEnds
<1> QED
  BY <1>1, <1>2

(* What is cut off is never completed (_terminate_interrupted_execution).   *)
LEMMA InterruptEnds ==
  ASSUME CoreInv, EndInv, NEW status \in { "failed", "cancelled" }, Interrupt(status)
  PROVE  EndInv' /\ (Checked => Checked')
<1> DEFINE open == Unsettled(journal)
           settled == IF open = << >> THEN core
                      ELSE ReduceTools(core, Same("notExecuted", open), PrintOf(journal, open), disk.mode)
<1>1. /\ pc \in { "model", "execute" } \/ (pc = "act" /\ decision.do = "tools")
      /\ pc' = "act" /\ UNCHANGED << token, entry >>
      /\ UNCHANGED disk \/ Commit("after_tools", settled, journal', NoWait)
      /\ core' = IF status = "cancelled" THEN ReduceCancellation(settled) ELSE settled
  BY DEF Interrupt
<1>2. decision'.do = "end" /\ decision'.arg = status
  BY DEF Interrupt, Terminate
<1>3. Kept(core, settled) /\ IsCore(settled)
  BY SettlingKeeps, ToolsKeepTurnsAndTask DEF CoreInv, Shapes, Kept
<1> HIDE DEF settled
<1>4. core'.task = core.task /\ settled.task = core.task
  BY <1>1, <1>3, RecordFailuresKeepsTurns DEF ReduceCancellation, Kept
<1>5. UNCHANGED disk \/ (disk'.core = settled /\ disk'.status \notin Terminal)
  BY <1>1, CommitEnds DEF CoreInv, Shapes
<1>6. core.task # "satisfied" /\ disk.status \notin Terminal
  BY <1>1 DEF EndInv, Satisfied, EndsOnce
<1>7. status \in Terminal /\ status # "completed"
  BY DEF Terminal
<1>8. EndInv'
  BY <1>1, <1>2, <1>4, <1>5, <1>6, <1>7 DEF EndInv, Satisfied, EndsOnce, OnlyCancelled, PlanEnded
<1>9. Checked => Checked'
  BY <1>1, <1>2, <1>4, <1>5, <1>6, <1>7 DEF Checked, CompletedIsVerified, Completed, Decided
<1> QED
  BY <1>8, <1>9

(* A cancelled token is what lets a run end with its plan.                  *)
LEMMA CancelEnds ==
  ASSUME CoreInv, EndInv, Cancel
  PROVE  EndInv' /\ (Checked => Checked')
<1>1. /\ "cancel" \in Events /\ pc \in { "enter", "model", "execute" }
      /\ UNCHANGED << disk, pc, core, entry, decision >>
  BY DEF Cancel
<1>2. EndInv'
  BY <1>1 DEF EndInv, Satisfied, EndsOnce, OnlyCancelled, PlanEnded
<1>3. Checked => Checked'
  BY <1>1 DEF Checked, CompletedIsVerified, Completed, Decided
<1> QED
  BY <1>2, <1>3

(* Resuming a run, answering its question or prompting it goes on with the  *)
(* task as it was committed (resume_run, continue_run).                     *)
LEMMA ResumeEnds ==
  ASSUME CoreInv, EndInv,
         Recover \/ ContinueRun \/ Prompt \/ \E answer \in { "approve", "deny", "reply" } : Answer(answer)
  PROVE  EndInv' /\ (Checked => Checked')
<1>1. /\ pc = "idle" /\ pc' \in { "enter", "resuming", "prompting" }
      /\ core' = disk.core /\ UNCHANGED << decision, token >>
  BY DEF Recover, ContinueRun, Prompt, Answer, Idle, Load
<1>2. /\ Resumed.core = disk.core /\ Resumed.status = "running" /\ Resumed.wait = NoWait
      /\ Resumed.resume = disk.resume /\ Resumed.prepared = disk.prepared /\ IsDisk(Resumed)
  BY DEF Resumed, CoreInv, Shapes, IsDisk, DiskFields
<1>3. disk' = Resumed \/ \E p : disk' = [ Resumed EXCEPT !.prepared = p ]
  BY DEF Recover, ContinueRun, Prompt, Answer
<1>4. /\ disk'.core = disk.core /\ disk'.status = "running" /\ disk'.wait = NoWait
      /\ disk'.resume = disk.resume
  BY <1>2, <1>3 DEF IsDisk, DiskFields
<1>5. NoWait.kind = "none"
  BY DEF NoWait
<1>6. disk.core.task = "satisfied" =>
        PlanEnded(disk.core) /\ disk.resume # "before_tools"
        /\ disk.prepared = NoResume /\ disk.wait = NoWait
  BY DEF EndInv, Satisfied
<1>7. disk.core.task = "satisfied" =>
        disk'.prepared = NoResume /\ pc' = "enter" /\ entry'.kind # "results"
  <2> SUFFICES ASSUME disk.core.task = "satisfied"
               PROVE  disk'.prepared = NoResume /\ pc' = "enter" /\ entry'.kind # "results"
    OBVIOUS
  <2>1. Recover
    BY <1>5, <1>6 DEF ContinueRun, Prompt, Answer
  <2>2. disk' = Resumed /\ pc' = "enter" /\ entry' = RecoveryEntry
    BY <1>6, <2>1 DEF Recover
  <2>3. RecoveryEntry.kind # "results"
    BY <1>6 DEF RecoveryEntry, NoEntry
  <2> QED
    BY <1>2, <1>6, <2>2, <2>3
<1>8. disk.status \notin Terminal
  <2>1. CASE Recover
    BY <2>1 DEF Recover, Terminal
  <2>2. CASE ~Recover
    <3>1. disk.wait # NoWait
      BY <1>5, <2>2 DEF ContinueRun, Prompt, Answer
    <3> QED
      BY <3>1 DEF EndInv, EndsOnce
  <2> QED
    BY <2>1, <2>2
<1>9. disk'.status \notin Terminal
  BY <1>4 DEF Terminal
<1>10. EndInv'
  <2>1. Satisfied'
    BY <1>1, <1>4, <1>6, <1>7 DEF Satisfied, PlanEnded
  <2>2. EndsOnce'
    BY <1>1, <1>9 DEF EndsOnce
  <2>3. OnlyCancelled'
    BY <1>1, <1>9 DEF EndInv, OnlyCancelled
  <2> QED
    BY <2>1, <2>2, <2>3 DEF EndInv
<1>11. Checked => Checked'
  BY <1>1, <1>4, <1>8 DEF Checked, CompletedIsVerified, Completed, Decided
<1> QED
  BY <1>10, <1>11

LEMMA ContinuationEnds ==
  ASSUME CoreInv, EndInv,
         (\E kind \in ResultKinds : ExecuteResume(kind)) \/ CommitPrompt \/ StartApproved
  PROVE  EndInv' /\ (Checked => Checked')
<1>1. /\ pc \in { "resuming", "prompting", "starting" } /\ pc' \in { "enter", "idle" }
      /\ pc' = "idle" => pc = "starting" /\ UNCHANGED << core, disk >>
      /\ UNCHANGED << decision, token >>
  BY DEF ExecuteResume, CommitPrompt, StartApproved
<1>2. /\ disk'.core = disk.core /\ disk'.status = disk.status /\ disk'.wait = disk.wait
      /\ disk'.prepared = disk.prepared /\ (disk'.resume = disk.resume \/ disk'.resume = "before_model")
  <2>1. UNCHANGED disk \/ \E m : disk' = [ disk EXCEPT !.messages = m, !.resume = "before_model" ]
    BY DEF ExecuteResume, CommitPrompt, StartApproved
  <2> QED
    BY <2>1 DEF CoreInv, Shapes, IsDisk, DiskFields
<1>3. \/ UNCHANGED core /\ pc \in { "resuming", "prompting" }
      \/ core' = disk.core /\ pc = "starting" /\ entry'.kind # "results"
      \/ pc' = "idle"
  BY DEF ExecuteResume, CommitPrompt, StartApproved, Load, NoEntry
<1>4. disk.status \notin Terminal
  BY <1>1 DEF EndInv, EndsOnce
<1>5. EndInv'
  <2>1. Satisfied'
    BY <1>1, <1>2, <1>3 DEF EndInv, Satisfied, PlanEnded
  <2>2. EndsOnce'
    BY <1>1, <1>2, <1>4 DEF EndsOnce
  <2>3. OnlyCancelled'
    BY <1>1, <1>2, <1>4 DEF EndInv, OnlyCancelled
  <2> QED
    BY <2>1, <2>2, <2>3 DEF EndInv
<1>6. Checked => Checked'
  BY <1>1, <1>2, <1>3, <1>4 DEF Checked, CompletedIsVerified, Completed, Decided
<1> QED
  BY <1>5, <1>6

(* A command about a plan finds it proposed or active, so that the task is  *)
(* not satisfied; a run that is closed has ended its plan                   *)
(* (_apply_plan_command, _finish_current_plan_run).                         *)
LEMMA PlanCommandEnds ==
  ASSUME CoreInv, EndInv,
         \/ ApprovePlan \/ RejectPlan \/ AbandonPlan
         \/ \E approved \in BOOLEAN : ResolveRevision(approved)
         \/ SwitchToBuild \/ CloseRun
  PROVE  EndInv' /\ (Checked => Checked')
<1>1. CASE SwitchToBuild
  <2>1. /\ pc = "switching" /\ pc' = "starting" /\ UNCHANGED << core, entry, decision, token >>
        /\ disk' = [ disk EXCEPT !.mode = "build" ]
    BY <1>1 DEF SwitchToBuild
  <2>2. /\ disk'.core = disk.core /\ disk'.status = disk.status /\ disk'.wait = disk.wait
        /\ disk'.prepared = disk.prepared /\ disk'.resume = disk.resume
    BY <2>1 DEF CoreInv, Shapes, IsDisk, DiskFields
  <2>3. EndInv'
    BY <2>1, <2>2 DEF EndInv, Satisfied, EndsOnce, OnlyCancelled, PlanEnded
  <2>4. Checked => Checked'
    BY <2>1, <2>2 DEF Checked, CompletedIsVerified, Completed, Decided
  <2> QED
    BY <2>3, <2>4
<1>2. CASE CloseRun
  <2>1. /\ pc = "closing" /\ pc' = "idle" /\ UNCHANGED << core, entry, decision, token >>
        /\ disk' = [ disk EXCEPT !.status = "cancelled" ]
    BY <1>2 DEF CloseRun
  <2>2. /\ disk'.core = disk.core /\ disk'.status \in Terminal /\ disk'.wait = disk.wait
        /\ disk'.prepared = disk.prepared /\ disk'.resume = disk.resume
    BY <2>1 DEF CoreInv, Shapes, IsDisk, DiskFields, Terminal
  <2>3. EndInv'
    BY <2>1, <2>2 DEF EndInv, Satisfied, EndsOnce, OnlyCancelled, PlanEnded
  <2>4. Checked => Checked'
    BY <2>1, <2>2 DEF Checked, CompletedIsVerified, Completed, Decided
  <2> QED
    BY <2>3, <2>4
<1>3. CASE ~(SwitchToBuild \/ CloseRun)
  <2>1. IsCore(disk.core)
    BY DEF CoreInv, Shapes
  <2>2. PICK plan, next :
          /\ CommandPlan(plan, next) /\ next \in { "switching", "starting", "closing" }
          /\ "status" \in DOMAIN plan
          /\ next = "closing" => plan.status \notin { "proposed", "active" }
          /\ disk.core.plan.status \in { "proposed", "active" } /\ Live
    BY <1>3, <2>1, PlanCommands
  <2>3. /\ disk' = [ Resumed EXCEPT !.core.plan = plan, !.core.noProgress = 0,
                                    !.resume = "after_tools" ]
        /\ pc = "idle" /\ pc' = next /\ UNCHANGED << core, token, decision >>
    BY <2>2 DEF CommandPlan, Idle
  <2>4. /\ IsDisk(Resumed) /\ Resumed.core = disk.core /\ Resumed.status = "running"
        /\ Resumed.wait = NoWait
    BY DEF Resumed, CoreInv, Shapes, IsDisk, DiskFields
  <2> DEFINE new == [ disk.core EXCEPT !.plan = plan, !.noProgress = 0 ]
  <2>5. disk'.core = new /\ disk'.status = "running" /\ disk'.wait = NoWait
    BY <2>3, <2>4 DEF IsDisk, DiskFields
  <2>6. new.task = disk.core.task /\ new.plan = plan
    BY <2>1, <2>2, PlannedCore
  <2> HIDE DEF new
  <2>7. disk.core.task # "satisfied"
    BY <2>2 DEF EndInv, Satisfied, PlanEnded
  <2>8. next = "closing" => PlanEnded(disk'.core)
    BY <2>2, <2>5, <2>6 DEF PlanEnded
  <2>9. disk'.status \notin Terminal /\ disk.status \notin Terminal
    BY <2>2, <2>5 DEF Live, Terminal
  <2>10. EndInv'
    <3>1. Satisfied'
      BY <2>2, <2>3, <2>5, <2>6, <2>7 DEF EndInv, Satisfied, PlanEnded
    <3>2. EndsOnce'
      BY <2>2, <2>3, <2>5, <2>8, <2>9 DEF EndsOnce
    <3>3. OnlyCancelled'
      BY <2>3, <2>9 DEF EndInv, OnlyCancelled
    <3> QED
      BY <3>1, <3>2, <3>3 DEF EndInv
  <2>11. Checked => Checked'
    BY <2>2, <2>3, <2>5, <2>6, <2>9 DEF Checked, CompletedIsVerified, Completed, Decided
  <2> QED
    BY <2>10, <2>11
<1> QED
  BY <1>1, <1>2, <1>3

LEMMA EndInvInit == Init => EndInv /\ Checked /\ crashes = 0
<1> SUFFICES ASSUME Init PROVE EndInv /\ Checked /\ crashes = 0
  OBVIOUS
<1>1. /\ pc = "enter" /\ core = NewCore /\ token = FALSE /\ crashes = 0 /\ entry.kind = "user"
  BY DEF Init, NoEntry
<1>2. /\ disk.core = NewCore /\ disk.status = "running"
  <2>1. PICK m \in Modes :
          disk = [ status |-> "running", mode |-> m, core |-> NewCore, messages |-> NoMessages,
                   resume |-> "before_model", wait |-> NoWait, prepared |-> NoResume, ws |-> 0 ]
    BY DEF Init
  <2> QED
    BY <2>1
<1>3. NewCore.task = "active"
  BY DEF NewCore
<1>4. EndInv
  BY <1>1, <1>2, <1>3 DEF EndInv, Satisfied, EndsOnce, OnlyCancelled, Terminal
<1>5. Checked
  BY <1>1, <1>2, <1>3 DEF Checked, CompletedIsVerified, Completed, Decided
<1> QED
  BY <1>1, <1>4, <1>5

\* What EndInv is, and what holds on top of it until the process crashes.
EndsUntilCrash == EndInv /\ crashes \in Nat /\ (crashes = 0 => Checked)

LEMMA EndInvStep == CoreInv /\ EndsUntilCrash /\ [Next]_vars => EndsUntilCrash'
<1> SUFFICES ASSUME CoreInv, EndsUntilCrash, [Next]_vars PROVE EndsUntilCrash'
  OBVIOUS
<1> EndInv
  BY DEF EndsUntilCrash
<1>1. CASE Crash
  <2>1. EndInv'
    BY <1>1, CrashEnds
  <2> QED
    BY <1>1, <2>1 DEF Crash, EndsUntilCrash
<1>2. ASSUME Driver PROVE EndInv' /\ (Checked => Checked')
  <2>1. CASE RefuseCancelled \/ EnterWithUserInput \/ EnterWithMessage \/ EnterWithResults
    BY <2>1, EnterEnds
  <2>2. CASE DecideNext
    BY <2>2, DecisionEnds
  <2>3. CASE CommitWait \/ CommitTerminal \/ StartModel \/ Admit
    BY <2>3, CommitsEnd
  <2>4. CASE Finish
    BY <2>4, FinishEnds
  <2>5. CASE \/ \E message \in Messages : ModelReplies(message)
             \/ \E code \in { "model.call_failed", "model.fatal" } : ModelFails(code)
    BY <2>5, ModelEnds
  <2>6. CASE \/ \E i \in 1..MaxBatch, kind \in AdmissionKinds \cup { "stale" } : Refuse(i, kind)
             \/ \E kind \in HandlerKinds \cup { "cancelled" } : RunHandler(kind)
             \/ FinishBatch
    BY <2>6, BatchEnds
  <2>7. CASE \E status \in { "failed", "cancelled" } : Interrupt(status)
    BY <2>7, InterruptEnds
  <2>8. CASE (\E kind \in ResultKinds : ExecuteResume(kind)) \/ CommitPrompt \/ StartApproved
    BY <2>8, ContinuationEnds
  <2>9. CASE SwitchToBuild \/ CloseRun
    BY <2>9, PlanCommandEnds
  <2> QED
    BY <1>2, <2>1, <2>2, <2>3, <2>4, <2>5, <2>6, <2>7, <2>8, <2>9 DEF Driver
<1>3. ASSUME User PROVE EndInv' /\ (Checked => Checked')
  <2>1. CASE Cancel
    BY <2>1, CancelEnds
  <2>2. CASE \/ Recover \/ ContinueRun \/ Prompt
             \/ \E answer \in { "approve", "deny", "reply" } : Answer(answer)
    BY <2>2, ResumeEnds
  <2>3. CASE \/ ApprovePlan \/ RejectPlan \/ AbandonPlan
             \/ \E approved \in BOOLEAN : ResolveRevision(approved)
    BY <2>3, PlanCommandEnds
  <2> QED
    BY <1>3, <2>1, <2>2, <2>3 DEF User
<1>4. CASE UNCHANGED vars
  <2>1. EndInv' /\ crashes' = crashes
    BY <1>4 DEF vars, EndInv, Satisfied, EndsOnce, OnlyCancelled, PlanEnded, Active
  <2>2. Checked => Checked'
    BY <1>4 DEF vars, Checked, CompletedIsVerified, Completed, Decided, Active, Fresh
  <2> QED
    BY <2>1, <2>2 DEF EndsUntilCrash
<1>5. CASE Driver \/ User
  <2>1. crashes' = crashes
    BY <1>5, StepsDoNotCrash
  <2> QED
    BY <1>2, <1>3, <1>5, <2>1 DEF EndsUntilCrash
<1> QED
  BY <1>1, <1>4, <1>5 DEF Next, Rest

LEMMA EndsUntilCrashAlways == Spec => [](CoreInv /\ EndsUntilCrash)
<1>1. Init => EndsUntilCrash
  BY EndInvInit DEF EndsUntilCrash
<1> QED
  BY CoreInvAlways, EndInvStep, <1>1, PTL DEF Spec

(* A plan does not outlive its run (reducer.py, apply_decision;              *)
(* _finish_current_plan_run): in a run that nobody cancels, a stored end is  *)
(* one whose plan is completed, rejected or abandoned.  The hypothesis is    *)
(* needed: a run that is cancelled before Core sees its entry is stored as   *)
(* cancelled with its plan as it was (RunExecutor).                          *)
THEOREM PlansDoNotOutliveRuns ==
  ASSUME "cancel" \notin Events
  PROVE  Spec => []PlansEndWithTheRun
<1>1. EndsUntilCrash => PlansEndWithTheRun
  BY DEF EndsUntilCrash, EndInv, OnlyCancelled, PlansEndWithTheRun, PlanEnded
<1> QED
  BY EndsUntilCrashAlways, <1>1, PTL

(* Whatever is cancelled, an end that Core decides on ends the plan in the  *)
(* files, before the run itself is stored as ended (reducer.py,             *)
(* apply_decision; driver.py, the boundary before_terminal).                *)
THEOREM DecidedEndsEndPlans ==
  Spec => [](Decided("end") => disk.core.plan.status \notin { "proposed", "active" })
<1>1. EndsUntilCrash => (Decided("end") => disk.core.plan.status \notin { "proposed", "active" })
  <2> SUFFICES ASSUME EndsOnce, Decided("end") PROVE PlanEnded(disk.core)
    BY DEF EndsUntilCrash, EndInv, PlanEnded
  <2> QED
    BY DEF EndsOnce, Decided
<1> QED
  BY EndsUntilCrashAlways, <1>1, PTL

(* As long as the process has not crashed, a run without a plan that Core   *)
(* completes has had the last of its changes checked (policy.py,            *)
(* verification.required), over all its entries, answers, prompts and      *)
(* interruptions.  After a crash it may not: a run whose plan could not be  *)
(* reconciled and that crashes before its end is stored is resumed, and its *)
(* plan's end is then decided again.                                        *)
THEOREM CompletedRunsAreVerified == Spec => [](crashes = 0 => CompletedIsVerified)
<1>1. EndsUntilCrash => (crashes = 0 => CompletedIsVerified)
  BY DEF EndsUntilCrash, Checked
<1> QED
  BY EndsUntilCrashAlways, <1>1, PTL
===============================================================================
