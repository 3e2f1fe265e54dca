------------------------------ MODULE ToolProofs ------------------------------
(***************************************************************************)
(* Proofs about the tools, for any number of calls, runs, failures and     *)
(* crashes, any limits and any number of cancellations: what starts was    *)
(* approved, it starts once unless a crash cut it off, what a waiting run  *)
(* asks can be answered, and the limits of the execution controller hold.  *)
(***************************************************************************)
EXTENDS ToolAttempts, ToolScheduler, FiniteSetTheorems, SequenceTheorems, WellFoundedInduction, TLAPS

-----------------------------------------------------------------------------
(* The attempts of calls: the inductive invariant *)

\* Calls are numbered in the order in which they are admitted, and nothing is
\* known of a call before.
Numbered ==
    /\ Used = 1..Cardinality(Used)
    /\ \A c \in Calls \ Used :
         /\ attempt[c] = "absent" /\ disk.tools.attempts[c] = "absent"
         /\ starts[c] = 0 /\ c \notin guarded

\* What is still to do of a batch was admitted without a question, is queued, and
\* has not started.
BatchInOrder ==
    /\ pc # "batch" => todo = << >>
    /\ \A i \in DOMAIN todo :
         /\ todo[i] \in Used \ guarded /\ starts[todo[i]] = 0
         /\ attempt[todo[i]] = "queued"
         /\ \A j \in DOMAIN todo : todo[i] = todo[j] => i = j

\* One handler runs at a time, while its batch or its resumption does.
OneRuns ==
    /\ \A c \in Calls : attempt[c] = "running" => pc \in { "batch", "resuming" }
    /\ \A c, d \in Calls : attempt[c] = "running" /\ attempt[d] = "running" => c = d
    /\ \A c \in Calls : disk.tools.attempts[c] # "running"

\* A guarded call gets behind its question by an approval only, in memory and in
\* the files.
ApprovalsHold ==
    /\ ApprovedOnly
    /\ \A c \in guarded :
         attempt[c] = "queued" \/ disk.tools.attempts[c] = "queued" => c \in approved
    /\ \A i \in DOMAIN resumes : resumes[i].answer = "approve" => resumes[i].call \in approved
    /\ \A i \in DOMAIN disk.tools.resumes :
         disk.tools.resumes[i].answer = "approve" => disk.tools.resumes[i].call \in approved

\* Until a crash, memory knows all that is in the files, and a call that may still
\* start has not.
StartsHold ==
    /\ StartedOnce
    /\ crashes = 0 =>
         \A c \in Calls :
           /\ disk.tools.attempts[c] # "absent" => attempt[c] # "absent"
           /\ c \in guarded /\ attempt[c] \in { "awaiting_approval", "queued" } => starts[c] = 0

\* The call that Core is about to ask about is suspended; once the run waits for its
\* answer, the files hold the question, and memory holds the same or nothing.
QuestionHolds ==
    /\ asked # 0 => asked \in Calls /\ pc \in { "observe", "decide" } /\ attempt[asked] \in Suspended
    /\ disk.wait.call # 0 => disk.wait.kind \in Suspended
    /\ disk.status = "waiting" /\ disk.wait.call # 0 =>
         /\ pc = "idle"
         /\ disk.tools.attempts[disk.wait.call] = disk.wait.kind
         /\ Known => OpenAttempts(attempt) = disk.tools.attempts

IInv ==
    /\ TypeOK /\ Numbered /\ BatchInOrder /\ OneRuns /\ ApprovalsHold /\ StartsHold
    /\ QuestionHolds

-----------------------------------------------------------------------------
(* Lemmas about the operators *)

States == Open \cup Settled \cup { "absent" }
Kept == Open \cup { "absent" }

(* Bounds are numbers, and so are calls.                                    *)
LEMMA BoundTypes ==
  /\ MaxCalls \in Nat /\ MaxBatch \in Nat /\ MaxResumes \in Nat /\ MaxRuns \in Nat
  /\ MaxCrashes \in Nat /\ MaxFaults \in Nat
  /\ Calls \subseteq Nat /\ 0 \notin Calls
  /\ \A c \in Calls : c \in 0..MaxCalls
  BY BoundsAssumption DEF Calls

(* There are finitely many calls, and the first k of them are k.            *)
LEMMA CallsAreFinite ==
  /\ IsFiniteSet(Calls)
  /\ \A k \in Nat : Cardinality(1..k) = k
<1>1. IsFiniteSet(Calls)
  <2>1. 1 \in Int /\ MaxCalls \in Int
    BY BoundTypes
  <2>2. IsFiniteSet(1..MaxCalls)
    BY <2>1, FS_Interval
  <2> QED
    BY <2>2 DEF Calls
<1>2. ASSUME NEW k \in Nat PROVE Cardinality(1..k) = k
  <2>1. Cardinality(1..k) = IF 1 > k THEN 0 ELSE k - 1 + 1
    BY FS_Interval
  <2> QED
    BY <2>1
<1> QED
  BY <1>1, <1>2

(* Among some calls one was admitted first.                                 *)
LEMMA FirstCall ==
  ASSUME NEW S, S \subseteq Calls, S # { }
  PROVE  \E b \in S : \A o \in S : b <= o
<1>1. S \subseteq Nat
  BY BoundTypes
<1>2. PICK b \in S : \A o \in S : << o, b >> \notin OpToRel(<, Nat)
  BY <1>1, WFMin, NatLessThanWellFounded
<1>3. ASSUME NEW o \in S PROVE b <= o
  <2>1. o \in Nat /\ b \in Nat
    BY <1>1
  <2>2. ~(o < b)
    BY <1>2, <2>1 DEF OpToRel
  <2> QED
    BY <2>1, <2>2
<1> QED
  BY <1>3

(* A component holds the open attempts and forgets the others               *)
(* (checkpoint_state).                                                      *)
LEMMA ComponentFacts ==
  ASSUME NEW a \in [ Calls -> States ], NEW r \in Seq(Responses)
  PROVE  /\ Component(a, r) \in Components
         /\ Component(a, r).attempts = OpenAttempts(a) /\ Component(a, r).resumes = r
         /\ OpenAttempts(a) \in [ Calls -> Kept ]
         /\ \A c \in Calls : OpenAttempts(a)[c] = IF a[c] \in Open THEN a[c] ELSE "absent"
  BY DEF Component, Components, OpenAttempts, States, Kept

(* What a component holds is open.                                          *)
LEMMA KeptIsOpen ==
  ASSUME NEW a \in [ Calls -> Kept ]
  PROVE  OpenAttempts(a) = a
  BY DEF OpenAttempts, Kept

(* A component without anything in it.                                      *)
LEMMA NoToolsFacts ==
  /\ NoTools \in Components /\ NoTools.resumes = << >>
  /\ \A c \in Calls : NoTools.attempts[c] = "absent"
  BY DEF NoTools, Components

(* Taking an answer out leaves answers that were there.                     *)
LEMMA AnswersLeft ==
  ASSUME NEW S, NEW s \in Seq(S), NEW r \in 1..Len(s)
  PROVE  /\ RemoveAt(s, r) \in Seq(S)
         /\ \A i \in DOMAIN RemoveAt(s, r) : \E j \in DOMAIN s : RemoveAt(s, r)[i] = s[j]
<1> DEFINE u == SubSeq(s, 1, r - 1)
           v == SubSeq(s, r + 1, Len(s))
<1>1. Len(s) \in Nat /\ DOMAIN s = 1..Len(s) /\ \A i \in 1..Len(s) : s[i] \in S
  OBVIOUS
<1>2. /\ u \in Seq(S) /\ Len(u) = r - 1
      /\ \A i \in 1..(r - 1) : u[i] = s[i]
  <2>1. \A i \in 1..(r - 1) : s[i] \in S
    BY <1>1
  <2>2. /\ SubSeq(s, 1, r - 1) \in Seq(S)
        /\ Len(SubSeq(s, 1, r - 1)) = IF 1 <= r - 1 THEN (r - 1) - 1 + 1 ELSE 0
        /\ \A i \in 1..((r - 1) - 1 + 1) : SubSeq(s, 1, r - 1)[i] = s[1 + i - 1]
    BY <2>1, <1>1, SubSeqProperties
  <2> HIDE DEF u
  <2> QED
    BY <1>1, <2>2 DEF u
<1>3. /\ v \in Seq(S) /\ Len(v) = Len(s) - r
      /\ \A i \in 1..(Len(s) - r) : v[i] = s[r + i]
  <2>1. \A i \in (r + 1)..Len(s) : s[i] \in S
    BY <1>1
  <2>2. /\ SubSeq(s, r + 1, Len(s)) \in Seq(S)
        /\ Len(SubSeq(s, r + 1, Len(s))) = IF r + 1 <= Len(s) THEN Len(s) - (r + 1) + 1 ELSE 0
        /\ \A i \in 1..(Len(s) - (r + 1) + 1) : SubSeq(s, r + 1, Len(s))[i] = s[(r + 1) + i - 1]
    BY <2>1, <1>1, SubSeqProperties
  <2>3. /\ v \in Seq(S) /\ Len(v) = IF r + 1 <= Len(s) THEN Len(s) - (r + 1) + 1 ELSE 0
        /\ \A i \in 1..(Len(s) - (r + 1) + 1) : v[i] = s[(r + 1) + i - 1]
    BY <2>2
  <2> HIDE DEF v
  <2>4. Len(s) - (r + 1) + 1 = Len(s) - r /\ r <= Len(s)
    BY <1>1
  <2>5. ASSUME NEW i \in 1..(Len(s) - r) PROVE v[i] = s[r + i]
    <3>1. v[i] = s[(r + 1) + i - 1]
      BY <2>3, <2>4
    <3>2. (r + 1) + i - 1 = r + i
      BY <1>1
    <3> QED
      BY <3>1, <3>2
  <2>6. Len(v) = Len(s) - r
    <3> DEFINE n == Len(s)
    <3>1. n \in Nat /\ r \in 1..n /\ Len(v) = IF r + 1 <= n THEN n - (r + 1) + 1 ELSE 0
      BY <1>1, <2>3
    <3> HIDE DEF n
    <3>2. ASSUME r + 1 <= n PROVE Len(v) = n - r
      BY <3>1, <3>2
    <3>3. ASSUME ~(r + 1 <= n) PROVE Len(v) = n - r
      BY <3>1, <3>3
    <3>4. Len(v) = n - r
      BY <3>2, <3>3
    <3> QED
      BY <3>4 DEF n
  <2> QED
    BY <2>3, <2>5, <2>6
<1> HIDE DEF u, v
<1>4. /\ u \o v \in Seq(S) /\ Len(u \o v) = Len(u) + Len(v)
      /\ \A i \in 1..(Len(u) + Len(v)) : (u \o v)[i] = IF i <= Len(u) THEN u[i] ELSE v[i - Len(u)]
  BY <1>2, <1>3, ConcatProperties
<1>5. RemoveAt(s, r) = u \o v
  BY DEF RemoveAt, u, v
<1>6. ASSUME NEW i \in DOMAIN (u \o v) PROVE \E j \in DOMAIN s : (u \o v)[i] = s[j]
  <2>1. i \in 1..(Len(u) + Len(v))
    BY <1>4
  <2>2. CASE i <= Len(u)
    <3>1. (u \o v)[i] = s[i] /\ i \in DOMAIN s
      BY <1>1, <1>2, <1>4, <2>1, <2>2
    <3> QED
      BY <3>1
  <2>3. CASE ~(i <= Len(u))
    <3>1. i - Len(u) \in 1..(Len(s) - r)
      BY <1>1, <1>2, <1>3, <2>1, <2>3
    <3>2. (u \o v)[i] = s[r + (i - Len(u))]
      BY <1>3, <1>4, <2>1, <2>3, <3>1
    <3>3. r + (i - Len(u)) \in DOMAIN s
      BY <1>1, <1>2, <3>1
    <3> QED
      BY <3>2, <3>3
  <2> QED
    BY <2>2, <2>3
<1> QED
  BY <1>4, <1>5, <1>6

-----------------------------------------------------------------------------
(* Every step keeps the invariant: steps that commit what is in memory *)

(* At first nothing is known.                                               *)
LEMMA IInvInit == Init => IInv
<1> SUFFICES ASSUME Init PROVE IInv
  OBVIOUS
<1>1. TypeOK
  BY BoundTypes, NoToolsFacts DEF Init, TypeOK, NoWait, RunWaits
<1>2. Numbered
  <2>1. Used = { }
    BY DEF Init, Used
  <2>2. Cardinality(Used) = 0
    BY <2>1, FS_EmptySet
  <2> QED
    BY <2>1, <2>2, NoToolsFacts DEF Init, Numbered
<1>3. BatchInOrder
  BY DEF Init, BatchInOrder
<1>4. OneRuns
  BY NoToolsFacts DEF Init, OneRuns
<1>5. ApprovalsHold
  BY NoToolsFacts DEF Init, ApprovalsHold, ApprovedOnly
<1>6. StartsHold
  BY NoToolsFacts DEF Init, StartsHold, StartedOnce
<1>7. QuestionHolds
  BY DEF Init, QuestionHolds, NoWait
<1> QED
  BY <1>1, <1>2, <1>3, <1>4, <1>5, <1>6, <1>7 DEF IInv

\* A boundary commit that stores the attempts in memory.
CommitsMemory ==
    /\ disk'.status \in { "running", "waiting", "over" } /\ disk'.wait \in RunWaits
    /\ disk' = [ status |-> disk'.status, wait |-> disk'.wait, tools |-> Component(attempt, resumes) ]

(* A commit of the attempts in memory, none of which runs, keeps all that   *)
(* is not about the question.                                               *)
LEMMA CommitKeeps ==
  ASSUME IInv, CommitsMemory, UNCHANGED << attempt, resumes, todo, history >>,
         pc \notin { "batch", "resuming" }, pc' \in { "idle", "core", "decide", "observe" },
         asked' \in 0..MaxCalls
  PROVE  TypeOK' /\ Numbered' /\ BatchInOrder' /\ OneRuns' /\ ApprovalsHold' /\ StartsHold'
<1>0. /\ attempt \in [ Calls -> States ] /\ resumes \in Seq(Responses)
      /\ UNCHANGED << run, guarded, approved, starts, crashes, faults, Used >>
  BY DEF IInv, TypeOK, States, history, Used
<1>1. /\ disk'.tools \in Components /\ disk'.tools.resumes = resumes
      /\ \A c \in Calls : disk'.tools.attempts[c] = IF attempt[c] \in Open THEN attempt[c] ELSE "absent"
  BY <1>0, ComponentFacts DEF CommitsMemory
<1>2. TypeOK'
  <2>1. disk' \in [ status : { "running", "waiting", "over" }, wait : RunWaits, tools : Components ]
    BY <1>1 DEF CommitsMemory
  <2> QED
    BY <1>0, <2>1 DEF IInv, TypeOK
<1>3. Numbered'
  BY <1>0, <1>1 DEF IInv, Numbered
<1>4. BatchInOrder'
  BY <1>0 DEF IInv, BatchInOrder
<1>5. OneRuns'
  BY <1>1 DEF IInv, OneRuns
<1>6. ApprovalsHold'
  BY <1>0, <1>1 DEF IInv, TypeOK, ApprovalsHold, ApprovedOnly
<1>7. StartsHold'
  BY <1>0, <1>1 DEF IInv, StartsHold, StartedOnce, Open
<1> QED
  BY <1>2, <1>3, <1>4, <1>5, <1>6, <1>7

(* Core takes the results over (after_tools).                               *)
LEMMA ObserveKeeps ==
  ASSUME IInv, Observe
  PROVE  IInv'
<1>1. CommitsMemory /\ disk'.status = "running" /\ disk'.wait = NoWait
  <2>1. NoWait \in RunWaits
    BY BoundTypes DEF NoWait, RunWaits
  <2> QED
    BY <2>1 DEF Observe, Committed, CommitsMemory
<1>2. TypeOK' /\ Numbered' /\ BatchInOrder' /\ OneRuns' /\ ApprovalsHold' /\ StartsHold'
  BY <1>1, CommitKeeps DEF Observe, IInv, TypeOK
<1>3. QuestionHolds'
  BY <1>1 DEF Observe, IInv, QuestionHolds, NoWait
<1> QED
  BY <1>2, <1>3 DEF IInv

(* Core asks the user, waits for a continuation, or goes on.                *)
LEMMA DecideKeeps ==
  ASSUME IInv, Decide
  PROVE  IInv'
<1>0. attempt \in [ Calls -> States ] /\ resumes \in Seq(Responses) /\ pc = "decide"
  BY DEF IInv, TypeOK, States, Decide
<1>1. CASE /\ asked # 0 /\ pc' = "idle"
           /\ Committed(attempt, resumes, "waiting", [ kind |-> attempt[asked], call |-> asked ])
  <2>1. asked \in Calls /\ attempt[asked] \in Suspended /\ attempt[asked] \in Open
    BY <1>1 DEF IInv, QuestionHolds, Suspended, Open
  <2>2. /\ disk'.status = "waiting" /\ disk'.wait.kind = attempt[asked] /\ disk'.wait.call = asked
        /\ disk'.tools = Component(attempt, resumes)
    BY <1>1 DEF Committed
  <2>3. CommitsMemory
    BY <1>1, <2>1, BoundTypes DEF Committed, CommitsMemory, RunWaits
  <2>4. TypeOK' /\ Numbered' /\ BatchInOrder' /\ OneRuns' /\ ApprovalsHold' /\ StartsHold'
    BY <1>0, <1>1, <2>3, CommitKeeps, BoundTypes DEF Decide
  <2>5. QuestionHolds'
    BY <1>0, <1>1, <2>1, <2>2, ComponentFacts DEF Decide, QuestionHolds
  <2> QED
    BY <2>4, <2>5 DEF IInv
<1>2. CASE /\ asked = 0 /\ pc' = "idle"
           /\ Committed(attempt, resumes, "waiting", [ kind |-> "continuation", call |-> 0 ])
  <2>1. CommitsMemory /\ disk'.wait.call = 0
    BY <1>2, BoundTypes DEF Committed, CommitsMemory, RunWaits
  <2>2. TypeOK' /\ Numbered' /\ BatchInOrder' /\ OneRuns' /\ ApprovalsHold' /\ StartsHold'
    BY <1>0, <1>2, <2>1, CommitKeeps, BoundTypes DEF Decide
  <2>3. QuestionHolds'
    BY <2>1 DEF Decide, QuestionHolds
  <2> QED
    BY <2>2, <2>3 DEF IInv
<1>3. CASE asked = 0 /\ pc' = "core" /\ UNCHANGED disk
  <2>1. TypeOK' /\ Numbered' /\ BatchInOrder'
    BY <1>0, <1>3 DEF IInv, Decide, TypeOK, Numbered, BatchInOrder, history, Used
  <2>2. ApprovalsHold' /\ StartsHold'
    BY <1>0, <1>3 DEF IInv, Decide, ApprovalsHold, ApprovedOnly, StartsHold, StartedOnce, history
  <2>3. OneRuns' /\ QuestionHolds'
    BY <1>0, <1>3 DEF IInv, Decide, OneRuns, QuestionHolds
  <2> QED
    BY <2>1, <2>2, <2>3 DEF IInv
<1> QED
  BY <1>1, <1>2, <1>3 DEF Decide

-----------------------------------------------------------------------------
(* Handlers start and end *)

(* The first call of a batch is one of it, and the rest is the batch        *)
(* without it.                                                              *)
LEMMA BatchHead ==
  ASSUME todo \in Seq(Calls), todo # << >>
  PROVE  /\ 1 \in DOMAIN todo /\ Head(todo) = todo[1] /\ Head(todo) \in Calls
         /\ Tail(todo) \in Seq(Calls)
         /\ \A i \in DOMAIN Tail(todo) : i + 1 \in DOMAIN todo /\ Tail(todo)[i] = todo[i + 1]
         /\ DOMAIN Tail(todo) \subseteq Nat
<1>1. /\ Tail(todo) \in Seq(Calls) /\ Len(Tail(todo)) = Len(todo) - 1
      /\ \A i \in 1..Len(Tail(todo)) : Tail(todo)[i] = todo[i + 1]
  BY HeadTailProperties
<1>2. Len(todo) \in Nat \ { 0 } /\ DOMAIN todo = 1..Len(todo) /\ Head(todo) = todo[1]
  BY EmptySeq
<1>3. DOMAIN Tail(todo) = 1..Len(Tail(todo))
  BY <1>1
<1> QED
  BY <1>1, <1>2, <1>3

(* A queued call that may start keeps everything but the batch in order     *)
(* (_execute).                                                              *)
LEMMA StartKeeps ==
  ASSUME IInv, NEW c \in Calls, Start(c), pc \in { "batch", "resuming" },
         c \in Used, c \in guarded => c \in approved,
         starts[c] > 0 => crashes > 0 /\ c \in guarded,
         todo' \in Seq(Calls)
  PROVE  TypeOK' /\ Numbered' /\ OneRuns' /\ ApprovalsHold' /\ StartsHold' /\ QuestionHolds'
<1>0. /\ attempt \in [ Calls -> States ] /\ starts \in [ Calls -> Nat ]
      /\ attempt' = [ attempt EXCEPT ![c] = "running" ]
      /\ starts' = [ starts EXCEPT ![c] = @ + 1 ]
      /\ UNCHANGED << resumes, pc, asked, disk, run, guarded, approved, crashes, faults, Used >>
      /\ attempt[c] = "queued" /\ \A o \in Calls : attempt[o] # "running"
  BY DEF Start, IInv, TypeOK, States, Used
<1>1. /\ \A o \in Calls : attempt'[o] = IF o = c THEN "running" ELSE attempt[o]
      /\ \A o \in Calls : starts'[o] = IF o = c THEN starts[o] + 1 ELSE starts[o]
  BY <1>0
<1>2. TypeOK'
  <2>1. attempt' \in [ Calls -> Open \cup Settled \cup { "absent" } ]
    BY <1>0 DEF States, Open
  <2>2. starts' \in [ Calls -> Nat ]
    BY <1>0
  <2> QED
    BY <1>0, <2>1, <2>2 DEF IInv, TypeOK
<1>3. Numbered'
  BY <1>0, <1>1 DEF IInv, Numbered
<1>4. OneRuns'
  BY <1>0, <1>1 DEF IInv, OneRuns
<1>5. ApprovalsHold'
  <2>1. ApprovedOnly'
    BY <1>0, <1>1 DEF IInv, TypeOK, ApprovalsHold, ApprovedOnly
  <2> QED
    BY <1>0, <1>1, <2>1 DEF IInv, TypeOK, ApprovalsHold
<1>6. StartsHold'
  <2>1. StartedOnce'
    BY <1>0, <1>1 DEF IInv, StartsHold, StartedOnce
  <2> QED
    BY <1>0, <1>1, <2>1 DEF IInv, StartsHold
<1>7. QuestionHolds'
  <2>1. asked = 0 /\ pc # "idle" /\ ~(disk.status = "waiting" /\ disk.wait.call # 0)
    BY DEF IInv, QuestionHolds
  <2> QED
    BY <1>0, <2>1 DEF IInv, QuestionHolds
<1> QED
  BY <1>2, <1>3, <1>4, <1>5, <1>6, <1>7

(* The next call of a batch starts.                                         *)
LEMMA StartNextKeeps ==
  ASSUME IInv, StartNext
  PROVE  IInv'
<1> DEFINE c == Head(todo)
<1>0. /\ todo \in Seq(Calls) /\ todo # << >> /\ pc = "batch" /\ Start(c) /\ todo' = Tail(todo)
      /\ UNCHANGED << run, guarded, Used >> /\ starts \in [ Calls -> Nat ]
  BY DEF StartNext, Start, IInv, TypeOK, Used
<1>1. /\ 1 \in DOMAIN todo /\ c = todo[1] /\ c \in Calls
      /\ todo' \in Seq(Calls) /\ DOMAIN todo' \subseteq Nat
      /\ \A i \in DOMAIN todo' : i + 1 \in DOMAIN todo /\ todo'[i] = todo[i + 1]
  BY <1>0, BatchHead
<1>2. c \in Used /\ c \notin guarded /\ starts[c] = 0
  BY <1>1 DEF IInv, BatchInOrder
<1> HIDE DEF c
<1>3. TypeOK' /\ Numbered' /\ OneRuns' /\ ApprovalsHold' /\ StartsHold' /\ QuestionHolds'
  BY <1>0, <1>1, <1>2, StartKeeps
<1>4. BatchInOrder'
  <2>1. ASSUME NEW i \in DOMAIN todo'
        PROVE  /\ todo'[i] \in Used \ guarded /\ starts'[todo'[i]] = 0
               /\ attempt'[todo'[i]] = "queued"
               /\ \A j \in DOMAIN todo' : todo'[i] = todo'[j] => i = j
    <3>1. i \in Nat /\ i + 1 \in DOMAIN todo /\ todo'[i] = todo[i + 1] /\ i + 1 # 1
      BY <1>1, <2>1
    <3>2. /\ todo[i + 1] \in Used \ guarded /\ starts[todo[i + 1]] = 0 /\ todo[i + 1] # c
          /\ attempt[todo[i + 1]] = "queued"
      BY <1>1, <3>1 DEF IInv, BatchInOrder
    <3>3. starts'[todo'[i]] = 0 /\ attempt'[todo'[i]] = "queued"
      BY <1>0, <3>1, <3>2 DEF Start, Used, IInv, TypeOK
    <3>4. ASSUME NEW j \in DOMAIN todo', todo'[i] = todo'[j] PROVE i = j
      <4>1. j \in Nat /\ j + 1 \in DOMAIN todo /\ todo[i + 1] = todo[j + 1]
        BY <1>1, <3>1, <3>4
      <4>2. i + 1 = j + 1
        BY <3>1, <4>1 DEF IInv, BatchInOrder
      <4> QED
        BY <3>1, <4>1, <4>2
    <3> QED
      BY <3>1, <3>2, <3>3, <3>4
  <2>2. pc' = "batch"
    BY <1>0 DEF Start
  <2> QED
    BY <1>0, <2>1, <2>2 DEF BatchInOrder
<1> QED
  BY <1>3, <1>4 DEF IInv

(* A call that was approved starts.                                         *)
LEMMA StartResumedKeeps ==
  ASSUME IInv, StartResumed
  PROVE  IInv'
<1>1. PICK c \in guarded : Start(c)
  BY DEF StartResumed
<1>2. /\ c \in Calls /\ c \in Used /\ pc = "resuming" /\ todo' = todo /\ todo = << >>
      /\ attempt[c] = "queued" /\ starts \in [ Calls -> Nat ] /\ crashes \in Nat
      /\ todo \in Seq(Calls) /\ pc' = pc
  BY <1>1 DEF StartResumed, Start, IInv, TypeOK, Numbered, BatchInOrder
<1>3. c \in approved
  BY <1>2 DEF IInv, ApprovalsHold
<1>4. starts[c] > 0 => crashes > 0
  BY <1>2 DEF IInv, StartsHold
<1>5. TypeOK' /\ Numbered' /\ OneRuns' /\ ApprovalsHold' /\ StartsHold' /\ QuestionHolds'
  BY <1>1, <1>2, <1>3, <1>4, StartKeeps
<1>6. BatchInOrder'
  BY <1>2 DEF BatchInOrder
<1> QED
  BY <1>5, <1>6 DEF IInv

\* Attempts that only settle, are suspended in their batch or are interrupted.
OnlyEnd(a) ==
    \A c \in Calls : a[c] = attempt[c] \/ (c \in Used /\ a[c] \in Settled \cup { "awaiting_input" })

(* Attempts that end keep what is known of approvals and starts.            *)
LEMMA EndsKeep ==
  ASSUME IInv, attempt' \in [ Calls -> States ], OnlyEnd(attempt'),
         UNCHANGED << resumes, run, guarded, approved, starts, crashes, faults >>,
         disk' = disk \/ disk'.tools = NoTools
  PROVE  Numbered' /\ ApprovalsHold' /\ StartsHold'
<1>0. Used' = Used
  BY DEF Used
<1>1. /\ \A c \in Calls : disk'.tools.attempts[c] \in { disk.tools.attempts[c], "absent" }
      /\ disk'.tools.resumes \in { disk.tools.resumes, << >> }
  BY NoToolsFacts
<1>2. \A c \in Calls : /\ attempt'[c] = "queued" => attempt[c] = "queued"
                       /\ attempt'[c] = "awaiting_approval" => attempt[c] = "awaiting_approval"
                       /\ attempt'[c] = "absent" => attempt[c] = "absent"
                       /\ c \notin Used => attempt'[c] = attempt[c]
  BY DEF OnlyEnd, Settled
<1>3. Numbered'
  BY <1>0, <1>1, <1>2 DEF IInv, Numbered
<1>4. ApprovalsHold'
  <2>1. ApprovedOnly'
    BY DEF IInv, ApprovalsHold, ApprovedOnly
  <2>2. \A i \in DOMAIN disk'.tools.resumes :
          disk'.tools.resumes[i].answer = "approve" => disk'.tools.resumes[i].call \in approved
    BY <1>1 DEF IInv, ApprovalsHold
  <2> QED
    BY <1>1, <1>2, <2>1, <2>2 DEF IInv, TypeOK, ApprovalsHold
<1>5. StartsHold'
  BY <1>1, <1>2 DEF IInv, TypeOK, StartsHold, StartedOnce
<1> QED
  BY <1>3, <1>4, <1>5

(* A handler ends, and a question interrupts the rest of its batch.         *)
LEMMA EndInBatchKeeps ==
  ASSUME IInv, NEW c \in Calls, NEW state, EndInBatch(c, state)
  PROVE  IInv'
<1> DEFINE barred == IF state = "awaiting_input" THEN Range(todo) ELSE { }
<1>0. /\ pc = "batch" /\ attempt[c] = "running" /\ state \in { "succeeded", "failed", "awaiting_input" }
      /\ attempt' = [ x \in Calls |-> CASE x = c -> state [] x \in barred -> "interrupted"
                                        [] OTHER -> attempt[x] ]
      /\ todo' = IF state = "awaiting_input" THEN << >> ELSE todo
      /\ asked' = IF state = "awaiting_input" THEN c ELSE 0
      /\ pc' = IF todo' = << >> THEN "observe" ELSE "batch"
      /\ UNCHANGED << resumes, disk, run, guarded, approved, starts, crashes, faults, Used >>
  BY DEF EndInBatch, history, Used
<1>1. attempt \in [ Calls -> States ] /\ todo \in Seq(Calls) /\ disk.tools \in Components
  BY DEF IInv, TypeOK, States
<1>2. c \in Used /\ \A x \in barred : x \in Used
  BY <1>0 DEF IInv, Numbered, BatchInOrder, Range
<1> HIDE DEF barred
<1>3. \A x \in Calls : attempt'[x] = IF x = c THEN state
                                     ELSE IF x \in barred THEN "interrupted" ELSE attempt[x]
  <2> SUFFICES ASSUME NEW x \in Calls
               PROVE  attempt'[x] = IF x = c THEN state
                                    ELSE IF x \in barred THEN "interrupted" ELSE attempt[x]
    OBVIOUS
  <2>1. attempt'[x] = CASE x = c -> state [] x \in barred -> "interrupted" [] OTHER -> attempt[x]
    BY <1>0
  <2>2. c \notin barred
    BY <1>0, <1>1 DEF barred, Range, IInv, BatchInOrder
  <2>3. CASE x = c
    BY <2>1, <2>2, <2>3
  <2>4. CASE x # c /\ x \in barred
    BY <2>1, <2>4
  <2>5. CASE x # c /\ x \notin barred
    BY <2>1, <2>5
  <2> QED
    BY <2>3, <2>4, <2>5
<1>4. attempt' \in [ Calls -> States ] /\ OnlyEnd(attempt')
  <2>1. attempt' = [ x \in Calls |-> attempt'[x] ]
    BY <1>0
  <2>2. \A x \in Calls : attempt'[x] \in States
    BY <1>0, <1>1, <1>3 DEF States, Open, Settled
  <2> QED
    BY <1>0, <1>2, <1>3, <2>1, <2>2 DEF OnlyEnd, Settled
<1>5. Numbered' /\ ApprovalsHold' /\ StartsHold'
  BY <1>0, <1>4, EndsKeep
<1>6. TypeOK'
  <2>1. pc' \in { "idle", "core", "batch", "observe", "decide", "resuming" }
    BY <1>0
  <2>2. todo' \in Seq(Calls) /\ asked' \in 0..MaxCalls
    BY <1>0, <1>1, BoundTypes
  <2> QED
    BY <1>0, <1>4, <2>1, <2>2 DEF IInv, TypeOK, States
<1>7. BatchInOrder'
  <2>1. CASE state = "awaiting_input"
    BY <1>0, <2>1 DEF BatchInOrder
  <2>2. CASE state # "awaiting_input"
    <3>1. todo' = todo /\ \A i \in DOMAIN todo : attempt'[todo[i]] = "queued"
      BY <1>0, <1>1, <1>3, <2>2 DEF barred, IInv, BatchInOrder, Used
    <3> QED
      BY <1>0, <3>1 DEF IInv, BatchInOrder
  <2> QED
    BY <2>1, <2>2
<1>8. \A o \in Calls : attempt'[o] # "running"
  BY <1>0, <1>3 DEF IInv, OneRuns
<1>9. OneRuns'
  BY <1>0, <1>8 DEF IInv, OneRuns
<1>10. QuestionHolds'
  <2>1. ~(disk.status = "waiting" /\ disk.wait.call # 0)
    BY <1>0 DEF IInv, QuestionHolds
  <2>2. asked' # 0 => asked' \in Calls /\ pc' = "observe" /\ attempt'[asked'] = "awaiting_input"
    BY <1>0, <1>3
  <2> QED
    BY <1>0, <2>1, <2>2 DEF IInv, QuestionHolds, Suspended
<1> QED
  BY <1>5, <1>6, <1>7, <1>9, <1>10 DEF IInv

(* A resumed handler ends.                                                  *)
LEMMA EndResumedKeeps ==
  ASSUME IInv, EndResumed
  PROVE  IInv'
<1>1. PICK c \in guarded, state \in { "succeeded", "failed" } :
        attempt[c] = "running" /\ attempt' = [ attempt EXCEPT ![c] = state ]
  BY DEF EndResumed
<1>0. /\ pc = "resuming" /\ pc' = "observe"
      /\ UNCHANGED << resumes, todo, asked, disk, run, guarded, approved, starts, crashes, faults, Used >>
  BY DEF EndResumed, history, Used
<1>2. attempt \in [ Calls -> States ] /\ c \in Calls /\ c \in Used
  BY DEF IInv, TypeOK, Numbered, States
<1>3. \A x \in Calls : attempt'[x] = IF x = c THEN state ELSE attempt[x]
  BY <1>1, <1>2
<1>4. attempt' \in [ Calls -> States ] /\ OnlyEnd(attempt')
  BY <1>1, <1>2, <1>3 DEF OnlyEnd, Settled, States
<1>5. Numbered' /\ ApprovalsHold' /\ StartsHold'
  BY <1>0, <1>4, EndsKeep
<1>6. TypeOK'
  BY <1>0, <1>4 DEF IInv, TypeOK, States
<1>7. BatchInOrder'
  BY <1>0 DEF IInv, BatchInOrder
<1>8. OneRuns'
  BY <1>0, <1>1, <1>2, <1>3 DEF IInv, OneRuns
<1>9. QuestionHolds'
  BY <1>0 DEF IInv, QuestionHolds
<1> QED
  BY <1>5, <1>6, <1>7, <1>8, <1>9 DEF IInv

(* The run ends, and its component with it.                                 *)
LEMMA EndRunKeeps ==
  ASSUME IInv, EndRun
  PROVE  IInv'
<1>0. /\ pc' = "idle" /\ todo' = << >> /\ asked' = 0 /\ disk'.status = "over" /\ disk'.wait = NoWait
      /\ disk'.tools = NoTools
      /\ disk' = [ status |-> "over", wait |-> NoWait, tools |-> NoTools ]
      /\ attempt' = [ c \in Calls |-> IF attempt[c] = "running" THEN "cancelled" ELSE attempt[c] ]
      /\ UNCHANGED << resumes, run, guarded, approved, starts, crashes, faults, Used >>
  BY DEF EndRun, history, Used
<1>1. /\ attempt \in [ Calls -> States ] /\ NoWait \in RunWaits
      /\ \A c \in Calls : attempt[c] # "absent" => c \in Used
  BY BoundTypes DEF IInv, TypeOK, Numbered, States, NoWait, RunWaits
<1>2. attempt' \in [ Calls -> States ] /\ OnlyEnd(attempt')
  BY <1>0, <1>1 DEF OnlyEnd, Settled, States
<1>3. Numbered' /\ ApprovalsHold' /\ StartsHold'
  BY <1>0, <1>2, EndsKeep
<1>4. TypeOK'
  <2>1. disk' \in [ status : { "running", "waiting", "over" }, wait : RunWaits, tools : Components ]
    BY <1>0, <1>1, NoToolsFacts
  <2>2. todo' \in Seq(Calls) /\ asked' \in 0..MaxCalls
    BY <1>0, BoundTypes
  <2> QED
    BY <1>0, <1>2, <2>1, <2>2 DEF IInv, TypeOK, States
<1>5. BatchInOrder'
  BY <1>0 DEF BatchInOrder
<1>6. OneRuns'
  BY <1>0, NoToolsFacts DEF OneRuns
<1>7. QuestionHolds'
  BY <1>0 DEF QuestionHolds, NoWait
<1> QED
  BY <1>3, <1>4, <1>5, <1>6, <1>7 DEF IInv

(* The session begins its next run.                                         *)
LEMMA NewRunKeeps ==
  ASSUME IInv, NewRun
  PROVE  IInv'
<1>0. /\ pc = "idle" /\ pc' = "core" /\ run.id \in Nat /\ run' = [ run EXCEPT !.id = @ + 1 ]
      /\ run \in [ id : Nat \ { 0 }, of : [ Calls -> Nat ] ]
      /\ disk' = [ status |-> "running", wait |-> NoWait, tools |-> NoTools ]
      /\ UNCHANGED << attempt, resumes, todo, asked, guarded, approved, starts, crashes, faults >>
  BY DEF NewRun, IInv, TypeOK
<1>1. /\ run'.of = run.of /\ run' \in [ id : Nat \ { 0 }, of : [ Calls -> Nat ] ] /\ Used' = Used
      /\ NoWait \in RunWaits
  BY <1>0, BoundTypes DEF Used, NoWait, RunWaits
<1>2. TypeOK'
  <2>1. disk' \in [ status : { "running", "waiting", "over" }, wait : RunWaits, tools : Components ]
    BY <1>0, <1>1, NoToolsFacts
  <2> QED
    BY <1>0, <1>1, <2>1 DEF IInv, TypeOK
<1>3. disk'.tools = NoTools /\ disk'.status = "running" /\ disk'.wait.call = 0
  BY <1>0 DEF NoWait
<1>4. Numbered' /\ BatchInOrder'
  BY <1>0, <1>1, <1>3, NoToolsFacts DEF IInv, Numbered, BatchInOrder
<1>5. OneRuns'
  BY <1>0, <1>3, NoToolsFacts DEF IInv, OneRuns
<1>6. ApprovalsHold'
  BY <1>0, <1>3, NoToolsFacts DEF IInv, TypeOK, ApprovalsHold, ApprovedOnly
<1>7. StartsHold'
  BY <1>0, <1>3, NoToolsFacts DEF IInv, StartsHold, StartedOnce
<1>8. QuestionHolds'
  BY <1>0, <1>3 DEF IInv, QuestionHolds
<1> QED
  BY <1>2, <1>4, <1>5, <1>6, <1>7, <1>8 DEF IInv

(* A resumed call is cut off while it waits for a slot.                     *)
LEMMA CutOffKeeps ==
  ASSUME IInv, CutOff
  PROVE  IInv'
<1>0. /\ pc = "resuming" /\ pc' = "idle" /\ \A c \in Calls : attempt[c] # "running"
      /\ faults' = faults + 1 /\ faults \in Nat
      /\ UNCHANGED << attempt, resumes, todo, asked, disk, run, guarded, approved, starts, crashes, Used,
                      Known >>
  BY DEF CutOff, IInv, TypeOK, Used, Known
<1>1. TypeOK' /\ Numbered' /\ BatchInOrder' /\ OneRuns'
  BY <1>0 DEF IInv, TypeOK, Numbered, BatchInOrder, OneRuns
<1>2. ApprovalsHold' /\ StartsHold' /\ QuestionHolds'
  BY <1>0 DEF IInv, ApprovalsHold, ApprovedOnly, StartsHold, StartedOnce, QuestionHolds
<1> QED
  BY <1>1, <1>2 DEF IInv

(* A process that was restarted knows what the component holds.             *)
LEMMA CrashKeeps ==
  ASSUME IInv, Crash
  PROVE  IInv'
<1>0. /\ crashes' = crashes + 1 /\ crashes \in Nat /\ disk.tools \in Components
      /\ attempt' = disk.tools.attempts /\ resumes' = disk.tools.resumes
      /\ pc' = "idle" /\ todo' = << >> /\ asked' = 0
      /\ UNCHANGED << disk, run, guarded, approved, starts, faults, Used >>
  BY DEF Crash, IInv, TypeOK, Used
<1>1. attempt' \in [ Calls -> Kept ] /\ resumes' \in Seq(Responses)
  BY <1>0 DEF Components, Kept
<1>2. TypeOK'
  <2>1. attempt' \in [ Calls -> Open \cup Settled \cup { "absent" } ]
    BY <1>1 DEF Kept
  <2>2. todo' \in Seq(Calls) /\ asked' \in 0..MaxCalls
    BY <1>0, BoundTypes
  <2> QED
    BY <1>0, <1>1, <2>1, <2>2 DEF IInv, TypeOK
<1>3. Numbered' /\ BatchInOrder' /\ OneRuns'
  BY <1>0 DEF IInv, Numbered, BatchInOrder, OneRuns
<1>4. ApprovalsHold'
  BY <1>0 DEF IInv, ApprovalsHold, ApprovedOnly
<1>5. StartsHold'
  BY <1>0 DEF IInv, TypeOK, StartsHold, StartedOnce
<1>6. QuestionHolds'
  <2>1. OpenAttempts(attempt') = disk'.tools.attempts
    BY <1>0, <1>1, KeptIsOpen
  <2>2. OpenAttempts(attempt)' = OpenAttempts(attempt')
    BY DEF OpenAttempts
  <2> QED
    BY <1>0, <2>1, <2>2 DEF IInv, QuestionHolds
<1> QED
  BY <1>2, <1>3, <1>4, <1>5, <1>6 DEF IInv

-----------------------------------------------------------------------------
(* Resuming *)

\* Attempts and answers that the idle process may have in memory, when these calls
\* are approved.
MayKnow(a, r, given) ==
    /\ a \in [ Calls -> States ] /\ r \in Seq(Responses)
    /\ \A c \in Calls :
         /\ a[c] # "running" /\ (c \notin Used => a[c] = "absent")
         /\ c \in guarded /\ a[c] = "queued" => c \in given
    /\ \A i \in DOMAIN r : r[i].answer = "approve" => r[i].call \in given
    /\ crashes = 0 =>
         \A c \in Calls :
           /\ disk.tools.attempts[c] # "absent" => a[c] # "absent"
           /\ c \in guarded /\ a[c] \in { "awaiting_approval", "queued" } => starts[c] = 0

\* They agree with the question that the run waits with.
AsAsked(a) ==
    disk.status = "waiting" /\ disk.wait.call # 0 /\ (\E c \in Calls : a[c] # "absent")
      => OpenAttempts(a) = disk.tools.attempts

(* Restoring a component that does not conflict gives the process what it   *)
(* may know (restore_checkpoint_state).                                     *)
LEMMA RestoredFacts ==
  ASSUME IInv, pc = "idle", ~Conflict(disk.tools)
  PROVE  /\ MayKnow(Restored(disk.tools), RestoredResumes(disk.tools), approved)
         /\ AsAsked(Restored(disk.tools))
<1> DEFINE a == Restored(disk.tools)
           r == RestoredResumes(disk.tools)
<1> SUFFICES MayKnow(a, r, approved) /\ AsAsked(a)
  OBVIOUS
<1>0. /\ attempt \in [ Calls -> States ] /\ resumes \in Seq(Responses) /\ disk.tools \in Components
      /\ disk.tools.attempts \in [ Calls -> Kept ] /\ disk.tools.resumes \in Seq(Responses)
  BY DEF IInv, TypeOK, States, Components, Kept
<1>1. /\ \A i \in DOMAIN r : r[i].answer = "approve" => r[i].call \in approved
      /\ r \in Seq(Responses)
  <2>1. r \in { resumes, disk.tools.resumes }
    BY DEF RestoredResumes
  <2> HIDE DEF r
  <2> QED
    BY <1>0, <2>1 DEF IInv, ApprovalsHold
<1>2. CASE a = attempt
  <2>1. OpenAttempts(a) = OpenAttempts(attempt)
    BY <1>2
  <2>2. (\E c \in Calls : a[c] # "absent") => Known
    BY <1>2 DEF Known
  <2> HIDE DEF a, r
  <2>3. \A c \in Calls : a[c] # "running" /\ (c \notin Used => a[c] = "absent")
    BY <1>2 DEF IInv, OneRuns, Numbered
  <2>4. \A c \in Calls : c \in guarded /\ a[c] = "queued" => c \in approved
    BY <1>2 DEF IInv, ApprovalsHold
  <2> QED
    BY <1>0, <1>1, <1>2, <2>1, <2>2, <2>3, <2>4 DEF MayKnow, AsAsked, IInv, StartsHold, QuestionHolds
<1>3. CASE a = disk.tools.attempts /\ ~Known
  <2>1. a \in [ Calls -> States ]
    BY <1>0, <1>3 DEF Kept, States
  <2>2. OpenAttempts(a) = disk.tools.attempts
    BY <1>0, <1>3, KeptIsOpen
  <2>3. crashes = 0 => \A c \in Calls : disk.tools.attempts[c] = "absent"
    BY <1>3 DEF Known, IInv, StartsHold
  <2> HIDE DEF a, r
  <2>4. \A c \in Calls : a[c] # "running" /\ (c \notin Used => a[c] = "absent")
    BY <1>3 DEF IInv, OneRuns, Numbered
  <2>5. \A c \in Calls : c \in guarded /\ a[c] = "queued" => c \in approved
    BY <1>3 DEF IInv, ApprovalsHold
  <2> QED
    BY <1>1, <1>3, <2>1, <2>2, <2>3, <2>4, <2>5 DEF MayKnow, AsAsked
<1>4. a = attempt \/ (a = disk.tools.attempts /\ ~Known)
  BY DEF Restored
<1> HIDE DEF a, r
<1> QED
  BY <1>1, <1>2, <1>3, <1>4

(* A new answer joins the stored ones, and is remembered if it approves.    *)
LEMMA AnswerJoins ==
  ASSUME IInv, NEW a, NEW r, MayKnow(a, r, approved), NEW c \in Calls,
         NEW answer \in { "approve", "deny", "reply" },
         approved' = IF answer = "approve" THEN approved \cup { c } ELSE approved
  PROVE  /\ MayKnow(a, Append(r, [ call |-> c, answer |-> answer ]), approved')
         /\ MayKnow(a, r, approved') /\ approved \subseteq approved' /\ approved' \subseteq Calls
<1> DEFINE response == [ call |-> c, answer |-> answer ]
           answers == Append(r, response)
<1>0. approved \subseteq approved' /\ approved' \subseteq Calls
  BY DEF IInv, TypeOK
<1>1. r \in Seq(Responses) /\ response \in Responses
  BY DEF MayKnow, Responses
<1>2. MayKnow(a, r, approved')
  BY <1>0 DEF MayKnow
<1>3. response.answer = "approve" => response.call \in approved'
  OBVIOUS
<1> HIDE DEF response
<1>4. /\ answers \in Seq(Responses) /\ DOMAIN answers = 1..(Len(r) + 1) /\ Len(r) \in Nat
      /\ \A i \in 1..(Len(r) + 1) : answers[i] = IF i = Len(r) + 1 THEN response ELSE r[i]
      /\ DOMAIN r = 1..Len(r)
  BY <1>1
<1> HIDE DEF answers
<1>5. ASSUME NEW i \in DOMAIN answers, answers[i].answer = "approve"
      PROVE  answers[i].call \in approved'
  <2>1. CASE i = Len(r) + 1
    BY <1>3, <1>4, <1>5, <2>1
  <2>2. CASE i # Len(r) + 1
    <3>1. i \in DOMAIN r /\ answers[i] = r[i]
      BY <1>4, <2>2
    <3> QED
      BY <1>2, <1>5, <3>1 DEF MayKnow
  <2> QED
    BY <2>1, <2>2
<1>6. MayKnow(a, answers, approved')
  BY <1>2, <1>4, <1>5 DEF MayKnow
<1> QED
  BY <1>0, <1>2, <1>6 DEF answers, response

(* What a response may make of an attempt.                                  *)
LEMMA OutcomeFacts ==
  ASSUME NEW s \in States, s # "running", NEW answer \in { "approve", "deny", "reply" },
         NEW state \in Outcomes(s, answer)
  PROVE  /\ state \in States /\ state # "running" /\ (s = "absent" <=> state = "absent")
         /\ state = "queued" => s = "queued" \/ (s = "awaiting_approval" /\ answer = "approve")
         /\ state = "awaiting_approval" => s = "awaiting_approval"
<1>1. CASE answer = "reply"
  BY <1>1 DEF Outcomes, AfterReply, States, Open, Settled
<1>2. CASE answer \in { "approve", "deny" }
  <2>1. Outcomes(s, answer) = AfterApproval(s, answer)
    BY <1>2 DEF Outcomes
  <2>2. CASE s = "awaiting_approval" /\ answer = "approve"
    <3>1. AfterApproval(s, answer) = { "queued", "denied" }
      BY <2>2 DEF AfterApproval
    <3> QED
      BY <2>1, <2>2, <3>1 DEF States, Open, Settled
  <2>3. CASE s = "awaiting_approval" /\ answer = "deny"
    <3>1. AfterApproval(s, answer) = { "denied" }
      BY <2>3 DEF AfterApproval
    <3> QED
      BY <2>1, <2>3, <3>1 DEF States, Settled
  <2>4. CASE s # "awaiting_approval"
    <3>1. AfterApproval(s, answer) = { s }
      BY <2>4 DEF AfterApproval
    <3> QED
      BY <2>1, <2>4, <3>1
  <2> QED
    BY <1>2, <2>2, <2>3, <2>4
<1> QED
  BY <1>1, <1>2

(* Executing a stored answer leaves what the process may know               *)
(* (execute_prepared_resume).                                               *)
LEMMA ExecuteKnows ==
  ASSUME IInv, NEW a, NEW answers, NEW given, MayKnow(a, answers, given),
         NEW r \in 1..Len(answers), Execute(a, answers, r)
  PROVE  /\ MayKnow(attempt', resumes', given) /\ pc' \in { "resuming", "observe" }
         /\ \A x \in Calls : a[x] # "absent" => attempt'[x] # "absent"
<1> DEFINE c == answers[r].call
<1>1. PICK state \in Outcomes(a[c], answers[r].answer) :
        /\ resumes' = RemoveAt(answers, r)
        /\ attempt' = [ a EXCEPT ![c] = state ]
        /\ pc' = IF state = "queued" /\ a[c] # "queued" THEN "resuming" ELSE "observe"
  BY DEF Execute
<1>2. answers \in Seq(Responses) /\ answers[r] \in Responses /\ r \in DOMAIN answers
  BY DEF MayKnow
<1>3. c \in Calls /\ answers[r].answer \in { "approve", "deny", "reply" }
  BY <1>2 DEF Responses
<1>4. a \in [ Calls -> States ] /\ a[c] \in States /\ a[c] # "running"
  BY <1>3 DEF MayKnow
<1>5. /\ state \in States /\ state # "running" /\ (a[c] = "absent" <=> state = "absent")
      /\ state = "queued" => a[c] = "queued" \/ (a[c] = "awaiting_approval" /\ c \in given)
      /\ state = "awaiting_approval" => a[c] = "awaiting_approval"
  <2>1. answers[r].answer = "approve" => c \in given
    BY <1>2 DEF MayKnow
  <2> QED
    BY <1>3, <1>4, <2>1, OutcomeFacts
<1> HIDE DEF c
<1>6. \A x \in Calls : attempt'[x] = IF x = c THEN state ELSE a[x]
  BY <1>1, <1>3, <1>4
<1>7. attempt' \in [ Calls -> States ]
  BY <1>1, <1>3, <1>4, <1>5
<1>8. /\ resumes' \in Seq(Responses)
      /\ \A i \in DOMAIN resumes' : resumes'[i].answer = "approve" => resumes'[i].call \in given
  <2>1. /\ RemoveAt(answers, r) \in Seq(Responses)
        /\ \A i \in DOMAIN RemoveAt(answers, r) :
             \E j \in DOMAIN answers : RemoveAt(answers, r)[i] = answers[j]
    BY <1>2, AnswersLeft
  <2> QED
    BY <1>1, <2>1 DEF MayKnow
<1>9. \A x \in Calls :
        /\ attempt'[x] # "running" /\ (x \notin Used => attempt'[x] = "absent")
        /\ x \in guarded /\ attempt'[x] = "queued" => x \in given
  BY <1>3, <1>5, <1>6 DEF MayKnow
<1>10. crashes = 0 =>
         \A x \in Calls :
           /\ disk.tools.attempts[x] # "absent" => attempt'[x] # "absent"
           /\ x \in guarded /\ attempt'[x] \in { "awaiting_approval", "queued" } => starts[x] = 0
  BY <1>3, <1>5, <1>6 DEF MayKnow
<1>11. MayKnow(attempt', resumes', given)
  BY <1>7, <1>8, <1>9, <1>10 DEF MayKnow
<1> QED
  BY <1>1, <1>5, <1>6, <1>11

(* What a step of an idle process leaves in the files: what was there, the  *)
(* same without a question, or what the process knows.                      *)
ResumedDisk(a, r) ==
    \/ disk' = disk /\ (disk.status = "waiting" /\ disk.wait.call # 0 =>
                          pc' = "idle" /\ AsAsked(attempt'))
    \/ disk' = [ disk EXCEPT !.status = "running", !.wait = NoWait ]
    \/ disk' = [ status |-> "running", wait |-> NoWait, tools |-> Component(a, r) ]

(* An idle process that knows only what it may, and stores only that,       *)
(* keeps the invariant.                                                     *)
LEMMA ResumeKeeps ==
  ASSUME IInv, pc = "idle", UNCHANGED << todo, asked, run, guarded, starts, crashes >>,
         faults' \in Nat, approved \subseteq approved', approved' \subseteq Calls,
         MayKnow(attempt', resumes', approved'),
         pc' \in { "idle", "core", "observe", "resuming" },
         NEW a, NEW r, MayKnow(a, r, approved'),
         \A c \in Calls : a[c] # "absent" => attempt'[c] # "absent",
         ResumedDisk(a, r)
  PROVE  IInv'
<1>0. /\ Used' = Used /\ disk \in [ status : { "running", "waiting", "over" }, wait : RunWaits, tools : Components ]
      /\ NoWait \in RunWaits /\ NoWait.call = 0
      /\ attempt' \in [ Calls -> States ] /\ resumes' \in Seq(Responses)
      /\ a \in [ Calls -> States ] /\ r \in Seq(Responses)
      /\ todo = << >> /\ asked = 0
  BY BoundTypes DEF Used, IInv, TypeOK, NoWait, RunWaits, MayKnow, BatchInOrder, QuestionHolds
<1>1a. /\ Component(a, r) \in Components /\ Component(a, r).resumes = r
      /\ \A c \in Calls : Component(a, r).attempts[c] = IF a[c] \in Open THEN a[c] ELSE "absent"
  <2>1. /\ Component(a, r).attempts = OpenAttempts(a) /\ Component(a, r).resumes = r
        /\ Component(a, r) \in Components
        /\ \A c \in Calls : OpenAttempts(a)[c] = IF a[c] \in Open THEN a[c] ELSE "absent"
    BY <1>0, ComponentFacts
  <2> QED
    BY <2>1
<1>1. /\ disk' \in [ status : { "running", "waiting", "over" }, wait : RunWaits, tools : Components ]
      /\ \/ disk'.tools = disk.tools /\ disk' = disk
         \/ disk'.tools = disk.tools /\ disk'.status = "running" /\ disk'.wait = NoWait
         \/ disk'.tools = Component(a, r) /\ disk'.status = "running" /\ disk'.wait = NoWait
  <2>1. CASE disk' = disk
    BY <1>0, <2>1
  <2>2. CASE disk' = [ disk EXCEPT !.status = "running", !.wait = NoWait ]
    BY <1>0, <2>2
  <2>3. CASE disk' = [ status |-> "running", wait |-> NoWait, tools |-> Component(a, r) ]
    BY <1>0, <1>1a, <2>3
  <2> QED
    BY <2>1, <2>2, <2>3 DEF ResumedDisk
<1>1b. disk' = disk /\ disk.status = "waiting" /\ disk.wait.call # 0 => pc' = "idle" /\ AsAsked(attempt')
  <2>1. [ disk EXCEPT !.status = "running", !.wait = NoWait ].status = "running"
    BY <1>0
  <2>2. [ status |-> "running", wait |-> NoWait, tools |-> Component(a, r) ].status = "running"
    OBVIOUS
  <2> QED
    BY <2>1, <2>2 DEF ResumedDisk
<1>2. disk' \in [ status : { "running", "waiting", "over" }, wait : RunWaits, tools : Components ]
  BY <1>1
<1>3. \/ disk'.tools = disk.tools
      \/ /\ disk'.tools.resumes = r
         /\ \A c \in Calls : disk'.tools.attempts[c] = IF a[c] \in Open THEN a[c] ELSE "absent"
  BY <1>1, <1>1a
<1>4. TypeOK'
  BY <1>0, <1>2 DEF IInv, TypeOK, States
<1>5. Numbered'
  BY <1>0, <1>3 DEF IInv, Numbered, MayKnow
<1>6. BatchInOrder'
  BY <1>0 DEF BatchInOrder
<1>7. OneRuns'
  BY <1>3 DEF IInv, OneRuns, MayKnow
<1>8. ApprovalsHold'
  <2>1. ApprovedOnly'
    BY DEF IInv, ApprovalsHold, ApprovedOnly
  <2>2. \A c \in guarded : disk'.tools.attempts[c] = "queued" => c \in approved'
    BY <1>3 DEF IInv, TypeOK, ApprovalsHold, MayKnow
  <2>3. \A i \in DOMAIN disk'.tools.resumes :
          disk'.tools.resumes[i].answer = "approve" => disk'.tools.resumes[i].call \in approved'
    BY <1>3 DEF IInv, ApprovalsHold, MayKnow
  <2>4. \A c \in guarded : attempt'[c] = "queued" => c \in approved'
    BY DEF MayKnow, IInv, TypeOK
  <2>5. \A i \in DOMAIN resumes' : resumes'[i].answer = "approve" => resumes'[i].call \in approved'
    BY DEF MayKnow
  <2> QED
    BY <2>1, <2>2, <2>3, <2>4, <2>5 DEF ApprovalsHold
<1>9. StartsHold'
  <2>1. StartedOnce'
    BY DEF IInv, StartsHold, StartedOnce
  <2>2. crashes = 0 => \A c \in Calls : disk'.tools.attempts[c] # "absent" => attempt'[c] # "absent"
    BY <1>3 DEF MayKnow
  <2> QED
    BY <2>1, <2>2 DEF StartsHold, MayKnow
<1>10. QuestionHolds'
  <2>1. CASE disk' = disk
    <3>1. OpenAttempts(attempt)' = OpenAttempts(attempt')
      BY DEF OpenAttempts
    <3>2. CASE disk.status = "waiting" /\ disk.wait.call # 0
      <4>1. pc' = "idle" /\ AsAsked(attempt')
        BY <1>1b, <2>1, <3>2
      <4>2. Known' => OpenAttempts(attempt)' = disk'.tools.attempts
        BY <2>1, <3>1, <3>2, <4>1 DEF AsAsked, Known
      <4>3. /\ disk.wait.kind \in Suspended
            /\ disk.tools.attempts[disk.wait.call] = disk.wait.kind
        BY <3>2 DEF IInv, QuestionHolds
      <4> QED
        BY <1>0, <2>1, <4>1, <4>2, <4>3 DEF QuestionHolds
    <3>3. CASE ~(disk.status = "waiting" /\ disk.wait.call # 0)
      BY <1>0, <2>1, <3>3 DEF IInv, QuestionHolds
    <3> QED
      BY <3>2, <3>3
  <2>2. CASE disk'.status = "running" /\ disk'.wait = NoWait
    BY <1>0, <2>2 DEF QuestionHolds
  <2> QED
    BY <1>1, <2>1, <2>2
<1> QED
  BY <1>4, <1>5, <1>6, <1>7, <1>8, <1>9, <1>10 DEF IInv

(* An answer of the user is stored, and executed if the run waits for it.   *)
LEMMA AnswerKeeps ==
  ASSUME IInv, NEW c \in Calls, NEW answer \in { "approve", "deny", "reply" }, Answer(c, answer)
  PROVE  IInv'
<1> DEFINE a == Restored(disk.tools)
           old == RestoredResumes(disk.tools)
           answers == Append(old, [ call |-> c, answer |-> answer ])
           resumed == [ status |-> "running", wait |-> NoWait, tools |-> Component(a, answers) ]
<1>1. MayKnow(a, old, approved) /\ AsAsked(a) /\ pc = "idle"
  BY RestoredFacts DEF Answer
<1>2. /\ UNCHANGED << todo, asked, run, guarded, starts, crashes >>
      /\ approved' = IF answer = "approve" THEN approved \cup { c } ELSE approved
      /\ \/ disk' = resumed /\ Execute(a, answers, Len(answers)) /\ UNCHANGED faults
         \/ /\ faults' = faults + 1 /\ disk' \in { disk, resumed }
            /\ attempt' = a /\ resumes' = answers /\ UNCHANGED pc
         \/ attempt' = a /\ resumes' = answers /\ UNCHANGED << pc, disk, faults >>
  BY DEF Answer
<1>3. old \in Seq(Responses)
  BY <1>1 DEF MayKnow
<1> HIDE DEF a, old
<1>4. /\ MayKnow(a, answers, approved') /\ approved \subseteq approved' /\ approved' \subseteq Calls
  BY <1>1, <1>2, AnswerJoins
<1>5. Len(answers) \in 1..Len(answers)
  <2>1. Len(answers) = Len(old) + 1 /\ Len(old) \in Nat
    BY <1>3
  <2> HIDE DEF answers
  <2> QED
    BY <2>1
<1> HIDE DEF answers
<1>6. faults' \in Nat
  BY <1>2 DEF IInv, TypeOK
<1>7. CASE disk' = resumed /\ Execute(a, answers, Len(answers))
  <2>1. /\ MayKnow(attempt', resumes', approved') /\ pc' \in { "resuming", "observe" }
        /\ \A x \in Calls : a[x] # "absent" => attempt'[x] # "absent"
    BY <1>4, <1>5, <1>7, ExecuteKnows
  <2> QED
    <3>1. ResumedDisk(a, answers)
      BY <1>7 DEF ResumedDisk
    <3>2. pc' \in { "idle", "core", "observe", "resuming" }
      BY <2>1
    <3> QED
      BY <1>1, <1>2, <1>4, <1>6, <2>1, <3>1, <3>2, ResumeKeeps
<1>8. CASE disk' \in { disk, resumed } /\ attempt' = a /\ resumes' = answers /\ UNCHANGED pc
  <2>1. MayKnow(attempt', resumes', approved') /\ AsAsked(attempt') /\ pc' = "idle"
    BY <1>1, <1>4, <1>8
  <2> QED
    <3>1. ResumedDisk(a, answers)
      BY <1>8, <2>1 DEF ResumedDisk
    <3> QED
      BY <1>1, <1>2, <1>4, <1>6, <1>8, <2>1, <3>1, ResumeKeeps
<1> QED
  BY <1>2, <1>7, <1>8

(* A run goes on, with the answer that is stored or without one.            *)
LEMMA ContinueKeeps ==
  ASSUME IInv, Continue
  PROVE  IInv'
<1> DEFINE a == Restored(disk.tools)
           answers == RestoredResumes(disk.tools)
<1>1. MayKnow(a, answers, approved) /\ pc = "idle"
  BY RestoredFacts DEF Continue
<1>2. /\ UNCHANGED << todo, asked, run, guarded, approved, starts, crashes, faults >>
      /\ disk.status = "running" \/ disk.wait.kind = "continuation"
      /\ \/ Len(answers) = 1 /\ Execute(a, answers, 1) /\ UNCHANGED disk
         \/ /\ attempt' = a /\ resumes' = answers /\ pc' = "core"
            /\ disk' = [ disk EXCEPT !.status = "running", !.wait = NoWait ]
  BY DEF Continue, history
<1>3. ~(disk.status = "waiting" /\ disk.wait.call # 0)
  BY <1>2 DEF IInv, QuestionHolds, Suspended
<1> HIDE DEF a, answers
<1>4. approved' \subseteq Calls /\ faults' \in Nat /\ approved' = approved
  BY <1>2 DEF IInv, TypeOK
<1>5. CASE Len(answers) = 1 /\ Execute(a, answers, 1) /\ UNCHANGED disk
  <2>1. 1 \in 1..Len(answers)
    BY <1>5
  <2>2. /\ MayKnow(attempt', resumes', approved) /\ pc' \in { "resuming", "observe" }
        /\ \A x \in Calls : a[x] # "absent" => attempt'[x] # "absent"
    BY <1>1, <1>5, <2>1, ExecuteKnows
  <2> QED
    <3>1. ResumedDisk(a, answers)
      BY <1>3, <1>5 DEF ResumedDisk
    <3>2. pc' \in { "idle", "core", "observe", "resuming" }
      BY <2>2
    <3> QED
      BY <1>1, <1>2, <1>4, <2>2, <3>1, <3>2, ResumeKeeps
<1>6. CASE /\ attempt' = a /\ resumes' = answers /\ pc' = "core"
           /\ disk' = [ disk EXCEPT !.status = "running", !.wait = NoWait ]
  <2>1. MayKnow(attempt', resumes', approved')
    BY <1>1, <1>4, <1>6
  <2> QED
    <3>1. ResumedDisk(a, answers)
      BY <1>6 DEF ResumedDisk
    <3> QED
      BY <1>1, <1>2, <1>4, <1>6, <2>1, <3>1, ResumeKeeps
<1> QED
  BY <1>2, <1>5, <1>6

-----------------------------------------------------------------------------
(* Admission of a batch *)

\* The batch of n calls that follows the calls that were admitted.
NextBatch(n) == (Cardinality(Used) + 1)..(Cardinality(Used) + n)

(* The next batch is of calls that were never used, and numbers go on.      *)
LEMMA BatchFacts ==
  ASSUME IInv, NEW n \in 1..MaxBatch, NextBatch(n) \subseteq Calls,
         run' = [ run EXCEPT !.of = [ c \in Calls |-> IF c \in NextBatch(n) THEN run.id ELSE @[c] ] ]
  PROVE  /\ NextBatch(n) \cap Used = { }
         /\ Used' = Used \cup NextBatch(n)
         /\ Used' = 1..Cardinality(Used')
         /\ run' \in [ id : Nat \ { 0 }, of : [ Calls -> Nat ] ]
<1> DEFINE m == Cardinality(Used)
<1>0. n \in Nat /\ n > 0
  BY BoundTypes
<1>1. Used = 1..m /\ Used \subseteq Calls
  BY DEF IInv, Numbered, Used
<1>2. m \in Nat
  <2>1. IsFiniteSet(Calls)
    BY CallsAreFinite
  <2>2. IsFiniteSet(Used)
    BY <1>1, <2>1, FS_Subset
  <2> QED
    BY <2>2, FS_CardinalityType
<1>3. run \in [ id : Nat \ { 0 }, of : [ Calls -> Nat ] ]
  BY DEF IInv, TypeOK
<1>4. run'.of = [ c \in Calls |-> IF c \in NextBatch(n) THEN run.id ELSE run.of[c] ] /\ run'.id = run.id
  BY <1>3
<1>5. run' \in [ id : Nat \ { 0 }, of : [ Calls -> Nat ] ]
  <2>1. [ c \in Calls |-> IF c \in NextBatch(n) THEN run.id ELSE run.of[c] ] \in [ Calls -> Nat ]
    BY <1>3
  <2> QED
    BY <1>3, <2>1
<1>6. Used' = Used \cup NextBatch(n)
  <2>1. \A c \in Calls : run'.of[c] > 0 <=> run.of[c] > 0 \/ c \in NextBatch(n)
    BY <1>3, <1>4
  <2> QED
    BY <2>1 DEF Used
<1>7. NextBatch(n) = (m + 1)..(m + n)
  BY DEF NextBatch
<1> HIDE DEF m
<1>8. Used' = 1..(m + n) /\ NextBatch(n) \cap Used = { }
  BY <1>0, <1>1, <1>2, <1>6, <1>7
<1>9. Cardinality(1..(m + n)) = m + n
  <2>1. m + n \in Nat
    BY <1>0, <1>2
  <2> QED
    BY <2>1, CallsAreFinite
<1> QED
  BY <1>5, <1>6, <1>8, <1>9

(* A batch without a barrier is queued and committed; in one with a barrier *)
(* nothing is queued, and the first barrier decides (prepare_batch).        *)
LEMMA PrepareKeeps ==
  ASSUME IInv, Prepare
  PROVE  IInv'
<1>1. PICK n, kind :
        n \in 1..MaxBatch /\ kind \in [ 1..n -> DOMAIN Admission ] /\ PrepareBatch(n, kind)
  BY DEF Prepare
<1>0. n \in 1..MaxBatch /\ kind \in [ 1..n -> DOMAIN Admission ]
  BY <1>1
<1> USE <1>0
<1> DEFINE m == Cardinality(Used)
           batch == NextBatch(n)
           KindOf(c) == kind[c - (m + 1) + 1]
           barriers == { c \in batch : KindOf(c) # "free" }
           barrier == CHOOSE c \in barriers : \A o \in barriers : c <= o
<1>2. n \in Nat /\ n > 0 /\ m \in Nat
  <2>1. IsFiniteSet(Calls) /\ Used \subseteq Calls
    BY CallsAreFinite DEF Used
  <2>2. IsFiniteSet(Used)
    BY <2>1, FS_Subset
  <2> QED
    BY <2>2, FS_CardinalityType, BoundTypes
<1>3. batch = (m + 1)..((m + 1) + n - 1)
  <2>1. m + n = (m + 1) + n - 1
    BY <1>2
  <2> QED
    BY <2>1 DEF NextBatch
<1>4. /\ batch \subseteq Calls
      /\ run' = [ run EXCEPT !.of = [ c \in Calls |-> IF c \in batch THEN run.id ELSE @[c] ] ]
      /\ guarded' = guarded \cup { c \in batch : KindOf(c) = "guarded" }
      /\ attempt' = [ c \in Calls |->
              IF c \notin batch THEN attempt[c]
              ELSE IF barriers = { } THEN "queued"
              ELSE IF c = barrier THEN Admission[KindOf(c)]
              ELSE "interrupted" ]
      /\ IF barriers = { }
         THEN /\ pc' = "batch" /\ todo' = [ i \in 1..n |-> (m + 1) + i - 1 ]
              /\ asked' = 0
              /\ Committed(attempt', resumes, "running", NoWait)
         ELSE /\ pc' = "observe"
              /\ asked' = IF KindOf(barrier) = "guarded" THEN barrier ELSE 0
              /\ UNCHANGED << todo, disk >>
  BY <1>1, <1>3 DEF PrepareBatch
<1>5. /\ pc = "core" /\ UNCHANGED << resumes, approved, starts, crashes, faults >>
      /\ todo = << >> /\ asked = 0
      /\ ~(disk.status = "waiting" /\ disk.wait.call # 0)
      /\ attempt \in [ Calls -> States ] /\ resumes \in Seq(Responses)
      /\ \A c \in Calls : attempt[c] # "running"
  BY DEF Prepare, IInv, TypeOK, States, BatchInOrder, QuestionHolds, OneRuns
<1>6. /\ batch \cap Used = { } /\ Used' = Used \cup batch /\ Used' = 1..Cardinality(Used')
      /\ run' \in [ id : Nat \ { 0 }, of : [ Calls -> Nat ] ]
  BY <1>4, BatchFacts
<1>7. \A c \in batch : KindOf(c) \in { "invalid", "refused", "guarded", "free" }
  <2> SUFFICES ASSUME NEW c \in batch PROVE kind[c - (m + 1) + 1] \in DOMAIN Admission
    BY DEF Admission
  <2>1. c - (m + 1) + 1 \in 1..n
    BY <1>2, <1>3
  <2> QED
    BY <2>1
<1>8. \A c \in batch :
        /\ attempt[c] = "absent" /\ disk.tools.attempts[c] = "absent" /\ starts[c] = 0 /\ c \notin guarded
        /\ c \in Calls
  BY <1>4, <1>6 DEF IInv, Numbered
<1> HIDE DEF KindOf, batch, m
<1>9. barriers # { } => barrier \in batch /\ KindOf(barrier) # "free"
  <2> SUFFICES ASSUME barriers # { } PROVE barrier \in barriers
    OBVIOUS
  <2>1. barriers \subseteq Calls
    BY <1>8
  <2> HIDE DEF barriers
  <2> QED
    BY <2>1, FirstCall
<1> HIDE DEF barrier
<1>10. \A c \in Calls \ batch : attempt'[c] = attempt[c]
  BY <1>4
<1>11. \A c \in batch :
         attempt'[c] = IF barriers = { } THEN "queued"
                       ELSE IF c = barrier THEN Admission[KindOf(c)] ELSE "interrupted"
  BY <1>4, <1>8
<1>12. /\ Admission["invalid"] = "failed" /\ Admission["refused"] = "denied"
       /\ Admission["guarded"] = "awaiting_approval" /\ Admission["free"] = "queued"
  BY DEF Admission
<1>13. \A c \in batch :
         /\ barriers = { } => attempt'[c] = "queued"
         /\ barriers # { } => attempt'[c] \in { "failed", "denied", "awaiting_approval", "interrupted" }
  <2> SUFFICES ASSUME NEW c \in batch
               PROVE  /\ barriers = { } => attempt'[c] = "queued"
                      /\ barriers # { } =>
                           attempt'[c] \in { "failed", "denied", "awaiting_approval", "interrupted" }
    OBVIOUS
  <2>1. c = barrier /\ barriers # { } => KindOf(c) \in { "invalid", "refused", "guarded" }
    BY <1>7, <1>9
  <2> HIDE DEF barriers
  <2> QED
    BY <1>11, <1>12, <2>1
<1>14. attempt' \in [ Calls -> States ] /\ \A c \in Calls : attempt'[c] # "running"
  <2>1. \A c \in Calls : attempt'[c] \in States \ { "running" }
    BY <1>5, <1>10, <1>13 DEF States, Open, Settled
  <2>2. attempt' = [ c \in Calls |-> attempt'[c] ]
    BY <1>4
  <2> QED
    BY <2>1, <2>2
<1>15. barriers = { } => guarded' = guarded
  BY <1>4
<1>16. /\ guarded' \subseteq Calls /\ guarded \subseteq guarded' /\ guarded' \subseteq guarded \cup batch
       /\ guarded \subseteq Calls
  BY <1>4, <1>8 DEF IInv, TypeOK
<1> HIDE DEF barriers
<1>17. CASE barriers = { }
  <2>1. /\ pc' = "batch" /\ asked' = 0 /\ guarded' = guarded
        /\ todo' = [ i \in 1..n |-> (m + 1) + i - 1 ]
        /\ disk' = [ status |-> "running", wait |-> NoWait, tools |-> Component(attempt', resumes) ]
    BY <1>4, <1>15, <1>17 DEF Committed
  <2>2. /\ disk'.tools \in Components /\ disk'.tools.resumes = resumes
        /\ \A c \in Calls : disk'.tools.attempts[c] = IF attempt'[c] \in Open THEN attempt'[c] ELSE "absent"
    <3>1. disk'.tools = Component(attempt', resumes)
      BY <2>1
    <3> HIDE <2>1
    <3>2. attempt' \in [ Calls -> States ] /\ resumes \in Seq(Responses)
      BY <1>5, <1>14
    <3> QED
      BY <3>1, <3>2, ComponentFacts
  <2>3. ASSUME NEW i \in 1..n PROVE (m + 1) + i - 1 \in batch
    BY <1>2, <1>3, <2>3
  <2>4. /\ DOMAIN todo' = 1..n /\ \A i \in 1..n : todo'[i] = (m + 1) + i - 1 /\ todo'[i] \in batch
        /\ todo' \in Seq(Calls)
    <3>1. todo' \in [ 1..n -> Calls ]
      BY <1>8, <2>1, <2>3
    <3>2. todo' \in Seq(Calls)
      BY <1>2, <3>1
    <3> QED
      BY <2>1, <2>3, <3>2
  <2>5. TypeOK'
    <3>1. disk' \in [ status : { "running", "waiting", "over" }, wait : RunWaits, tools : Components ]
      BY <2>1, <2>2, BoundTypes DEF NoWait, RunWaits
    <3>2. asked' \in 0..MaxCalls
      BY <2>1, BoundTypes
    <3> QED
      BY <1>5, <1>6, <1>14, <1>16, <2>1, <2>4, <3>1, <3>2 DEF IInv, TypeOK, States
  <2>6. Numbered'
    BY <1>5, <1>6, <1>10, <2>1, <2>2 DEF IInv, Numbered
  <2>7. BatchInOrder'
    <3>1. ASSUME NEW i \in 1..n
          PROVE  /\ todo'[i] \in Used' \ guarded' /\ starts'[todo'[i]] = 0
                 /\ attempt'[todo'[i]] = "queued"
                 /\ \A j \in 1..n : todo'[i] = todo'[j] => i = j
      <4>1. todo'[i] \in batch
        BY <2>4
      <4>2. \A j \in 1..n : todo'[i] = todo'[j] => i = j
        BY <1>2, <2>4
      <4> QED
        BY <1>5, <1>6, <1>8, <1>13, <1>17, <2>1, <4>1, <4>2
    <3> QED
      BY <2>1, <2>4, <3>1 DEF BatchInOrder
  <2>8. OneRuns'
    BY <1>14, <2>2 DEF OneRuns
  <2>9. ApprovalsHold'
    <3>1. \A c \in guarded' : c \in Calls /\ c \notin batch
      BY <1>8, <1>16, <2>1
    <3>2. ApprovedOnly'
      BY <1>5, <2>1 DEF IInv, ApprovalsHold, ApprovedOnly
    <3>3. \A c \in guarded' : attempt'[c] = "queued" => c \in approved'
      BY <1>5, <1>10, <2>1, <3>1 DEF IInv, ApprovalsHold
    <3>4. \A c \in guarded' : disk'.tools.attempts[c] = "queued" => c \in approved'
      BY <2>2, <3>1, <3>3
    <3> QED
      BY <1>5, <2>2, <3>2, <3>3, <3>4 DEF IInv, ApprovalsHold
  <2>10. StartsHold'
    <3>1. StartedOnce'
      BY <1>5, <2>1 DEF IInv, StartsHold, StartedOnce
    <3>2. \A c \in Calls : disk'.tools.attempts[c] # "absent" => attempt'[c] # "absent"
      BY <2>2
    <3>3. \A c \in guarded' : c \in Calls /\ c \notin batch
      BY <1>8, <1>16, <2>1
    <3> QED
      BY <1>5, <1>10, <2>1, <3>1, <3>2, <3>3 DEF IInv, StartsHold
  <2>11. QuestionHolds'
    BY <2>1 DEF QuestionHolds, NoWait
  <2> QED
    BY <2>5, <2>6, <2>7, <2>8, <2>9, <2>10, <2>11 DEF IInv
<1>18. CASE barriers # { }
  <2>1. /\ pc' = "observe" /\ UNCHANGED << todo, disk >>
        /\ asked' = IF KindOf(barrier) = "guarded" THEN barrier ELSE 0
        /\ barrier \in batch
    BY <1>4, <1>9, <1>18
  <2>2. asked' # 0 => asked' \in Calls /\ attempt'[asked'] = "awaiting_approval"
    BY <1>8, <1>11, <1>12, <1>18, <2>1
  <2>3. TypeOK'
    <3>1. asked' \in 0..MaxCalls
      <4>1. 0 \in 0..MaxCalls
        BY BoundTypes
      <4> HIDE <2>1
      <4>2. CASE asked' = 0
        BY <4>1, <4>2
      <4>3. CASE asked' # 0
        BY <2>2, <4>3, BoundTypes
      <4> QED
        BY <4>2, <4>3
    <3> QED
      BY <1>5, <1>6, <1>14, <1>16, <2>1, <3>1 DEF IInv, TypeOK, States
  <2>4. Numbered'
    BY <1>5, <1>6, <1>10, <1>16, <2>1 DEF IInv, Numbered
  <2>5. BatchInOrder'
    BY <1>5, <2>1 DEF BatchInOrder
  <2>6. OneRuns'
    BY <1>14, <2>1 DEF IInv, OneRuns
  <2>7. ApprovalsHold'
    <3>1. ApprovedOnly'
      BY <1>5, <1>8, <1>16 DEF IInv, ApprovalsHold, ApprovedOnly
    <3>2. \A c \in guarded' :
            attempt'[c] = "queued" \/ disk'.tools.attempts[c] = "queued" => c \in approved'
      <4> SUFFICES ASSUME NEW c \in guarded', attempt'[c] = "queued" \/ disk.tools.attempts[c] = "queued"
                   PROVE  c \in approved
        BY <1>5, <2>1
      <4>1. c \notin batch
        BY <1>8, <1>13, <1>18
      <4> QED
        BY <1>10, <1>16, <4>1 DEF IInv, ApprovalsHold
    <3> QED
      BY <1>5, <2>1, <3>1, <3>2 DEF IInv, ApprovalsHold
  <2>8. StartsHold'
    <3>1. StartedOnce'
      BY <1>5, <1>16 DEF IInv, StartsHold, StartedOnce
    <3>2. ASSUME crashes = 0, NEW c \in Calls
          PROVE  /\ disk.tools.attempts[c] # "absent" => attempt'[c] # "absent"
                 /\ c \in guarded' /\ attempt'[c] \in { "awaiting_approval", "queued" } => starts[c] = 0
      <4>1. CASE c \in batch
        BY <1>8, <4>1
      <4>2. CASE c \notin batch
        BY <1>10, <1>16, <3>2, <4>2 DEF IInv, StartsHold
      <4> QED
        BY <4>1, <4>2
    <3> QED
      BY <1>5, <2>1, <3>1, <3>2 DEF StartsHold
  <2>9. QuestionHolds'
    BY <1>5, <2>1, <2>2 DEF IInv, QuestionHolds, Suspended
  <2> QED
    BY <2>3, <2>4, <2>5, <2>6, <2>7, <2>8, <2>9 DEF IInv
<1> QED
  BY <1>17, <1>18

-----------------------------------------------------------------------------
(* The theorems *)

(* Whatever the process, the user or a crash does, IInv still holds.        *)
LEMMA IInvStep == IInv /\ [Next]_attemptVars => IInv'
<1> SUFFICES ASSUME IInv, [Next]_attemptVars PROVE IInv'
  OBVIOUS
<1>1. CASE Prepare
  BY <1>1, PrepareKeeps
<1>2. CASE StartNext
  BY <1>2, StartNextKeeps
<1>3. CASE Observe \/ Decide
  BY <1>3, ObserveKeeps, DecideKeeps
<1>4. CASE EndRun \/ NewRun
  BY <1>4, EndRunKeeps, NewRunKeeps
<1>5. CASE \E c \in Calls : \E state \in Open \cup Settled : EndInBatch(c, state)
  BY <1>5, EndInBatchKeeps
<1>6. CASE \E c \in Calls : \E answer \in { "approve", "deny", "reply" } : Answer(c, answer)
  BY <1>6, AnswerKeeps
<1>7. CASE Continue
  BY <1>7, ContinueKeeps
<1>8. CASE StartResumed \/ EndResumed
  BY <1>8, StartResumedKeeps, EndResumedKeeps
<1>9. CASE CutOff \/ Crash
  BY <1>9, CutOffKeeps, CrashKeeps
<1>10. CASE UNCHANGED attemptVars
  <2>1. /\ UNCHANGED << attempt, resumes, pc, todo, asked, disk, run, guarded, approved, starts, crashes,
                        faults >>
    BY <1>10 DEF attemptVars, process, history
  <2>2. TypeOK' /\ Numbered' /\ BatchInOrder' /\ OneRuns'
    BY <2>1 DEF IInv, TypeOK, Numbered, BatchInOrder, OneRuns, Used
  <2>3. ApprovalsHold' /\ StartsHold'
    BY <2>1 DEF IInv, ApprovalsHold, ApprovedOnly, StartsHold, StartedOnce
  <2>4. QuestionHolds'
    BY <2>1 DEF IInv, QuestionHolds, Known, OpenAttempts
  <2> QED
    BY <2>2, <2>3, <2>4 DEF IInv
<1> QED
  BY <1>1, <1>2, <1>3, <1>4, <1>5, <1>6, <1>7, <1>8, <1>9, <1>10 DEF Next

(* The invariant holds in every state of a session.                         *)
LEMMA IInvAlways == Spec => []IInv
  BY IInvInit, IInvStep, PTL DEF Spec

(* For any number of calls, answers, runs, failures and crashes: no handler *)
(* of a guarded call starts unapproved, and none starts twice but that of   *)
(* an approved call that a crash cut off (_prepare, _resume_approval,       *)
(* execute_prepared_resume).                                                *)
THEOREM HandlersStartApprovedOnce == Spec => []StartsApprovedOnce
<1>1. IInv => StartsApprovedOnce
  BY DEF IInv, ApprovalsHold, StartsHold, StartsApprovedOnce
<1> QED
  BY <1>1, IInvAlways, PTL

(* The question of a waiting run can be answered after any restart, and in  *)
(* the same process unless an answer was left behind (checkpoint_state,     *)
(* restore_checkpoint_state).                                               *)
THEOREM QuestionsStayAnswerable == Spec => []QuestionAnswerable
<1>1. IInv => QuestionAnswerable
  <2> SUFFICES ASSUME IInv, pc = "idle", disk.status = "waiting", disk.wait.call # 0
               PROVE  /\ disk.tools.attempts[disk.wait.call] = disk.wait.kind
                      /\ resumes = disk.tools.resumes => ~Conflict(disk.tools)
    BY DEF QuestionAnswerable
  <2> QED
    BY DEF IInv, QuestionHolds, Conflict
<1> QED
  BY <1>1, IInvAlways, PTL

-----------------------------------------------------------------------------
(* The scheduler *)

\* ToolRuntimeLimits and ConcurrencyPolicy refuse limits that are no positive
\* integers; the policies of the calls are those of their tools.
Limits ==
    /\ IsFiniteSet(Jobs)
    /\ Slots \in Nat /\ GroupSlots \in Nat /\ MaxPending \in Nat /\ MaxCancels \in Nat
    /\ Mixes \subseteq [ Jobs -> Policies ]

-----------------------------------------------------------------------------
(* The inductive invariant of the scheduler *)

\* What a call's task holds and awaits at each point of run().
StageOf(j) ==
    /\ at[j] = "new" => held[j] = { }
    /\ at[j] \in Waits => at[j] \in Needs(j) \ held[j]
    /\ at[j] \in Waits \cup { "new" } => handler[j] = "none"
    /\ at[j] \in { "running", "grace", "forced" } => held[j] = Needs(j)
    /\ at[j] \in { "cleanup", "done" } /\ cancels[j] = 0 => handler[j] # "running"
    /\ at[j] = "done" /\ cancels[j] = 0 => held[j] = { }

Stages == \A j \in Jobs : StageOf(j)
WithinCapacity == \A r \in Waits : Cardinality(Holders(r)) <= Capacity[r]

JobsInv == SchedulerTypeOK /\ Stages /\ WithinCapacity

-----------------------------------------------------------------------------
(* Lemmas *)

(* Every call needs a slot, a limited one also a permit of its group, and a *)
(* serial one the lock of its group (_acquire).                             *)
LEMMA NeedsFacts ==
  ASSUME NEW j \in Jobs, policy \in [ Jobs -> Policies ]
  PROVE  /\ "slot" \in Needs(j)
         /\ policy[j] = "limited" => "group" \in Needs(j)
         /\ policy[j] = "serial" => "lock" \in Needs(j)
         /\ Needs(j) \subseteq Waits
<1>1. policy[j] \in { "parallel", "limited", "serial" }
  BY DEF Policies
<1> QED
  BY <1>1 DEF Needs, Waits

(* A capacity is a number.                                                  *)
LEMMA CapacityType ==
  ASSUME Limits, NEW r \in Waits
  PROVE  Capacity[r] \in Nat
  BY DEF Limits, Waits, Capacity

(* A set of calls has a finite number of members.                           *)
LEMMA JobSets ==
  ASSUME Limits, NEW S, S \subseteq Jobs
  PROVE  IsFiniteSet(S) /\ Cardinality(S) \in Nat
<1>1. IsFiniteSet(S)
  BY FS_Subset DEF Limits
<1> QED
  BY <1>1, FS_CardinalityType

(* A subset of a set of calls has no more members.                          *)
LEMMA JobSubsets ==
  ASSUME Limits, NEW S, NEW T, S \subseteq T, T \subseteq Jobs
  PROVE  Cardinality(S) <= Cardinality(T)
<1>1. IsFiniteSet(T)
  BY JobSets
<1> QED
  BY <1>1, FS_Subset

(* A step in which no call acquires anything stays within the capacities.   *)
LEMMA CapacityKept ==
  ASSUME Limits, WithinCapacity, \A j \in Jobs : held'[j] \subseteq held[j]
  PROVE  WithinCapacity'
<1> SUFFICES ASSUME NEW r \in Waits
             PROVE  Cardinality(Holders(r)') <= Capacity[r]
  BY DEF WithinCapacity, Capacity
<1>1. Holders(r)' \subseteq Holders(r) /\ Holders(r) \subseteq Jobs /\ Holders(r)' \subseteq Jobs
  BY DEF Holders
<1>2. Cardinality(Holders(r)') <= Cardinality(Holders(r))
  BY <1>1, JobSubsets
<1>3. Cardinality(Holders(r)) <= Capacity[r]
  BY DEF WithinCapacity
<1>4. Cardinality(Holders(r)) \in Nat /\ Cardinality(Holders(r)') \in Nat /\ Capacity[r] \in Nat
  BY <1>1, JobSets, CapacityType
<1> QED
  BY <1>2, <1>3, <1>4

(* A call acquires only what has a free place (asyncio.Semaphore, Lock).    *)
LEMMA CapacityAcquire ==
  ASSUME Limits, JobsInv, NEW j \in Jobs, Acquire(j)
  PROVE  WithinCapacity'
<1> DEFINE r == at[j]
<1>1. /\ r \in Waits /\ Cardinality(Holders(r)) < Capacity[r]
      /\ held' = [ held EXCEPT ![j] = @ \cup { r } ]
      /\ \A i \in Jobs : held'[i] = IF i = j THEN held[i] \cup { r } ELSE held[i]
  BY DEF Acquire, JobsInv, SchedulerTypeOK
<1> SUFFICES ASSUME NEW s \in Waits
             PROVE  Cardinality(Holders(s)') <= Capacity[s]
  BY DEF WithinCapacity, Capacity
<1>2. Holders(s) \subseteq Jobs /\ IsFiniteSet(Holders(s))
  BY JobSets DEF Holders
<1>3. Cardinality(Holders(s)) \in Nat /\ Capacity[s] \in Nat
  BY <1>2, JobSets, CapacityType
<1>4. CASE s = r
  <2>1. Holders(s)' = Holders(s) \cup { j }
    BY <1>1, <1>4 DEF Holders
  <2>2. j \notin Holders(s)
    BY <1>1, <1>4 DEF Holders, JobsInv, Stages, StageOf
  <2>3. Cardinality(Holders(s)') = Cardinality(Holders(s)) + 1
    BY <1>2, <2>1, <2>2, FS_AddElement
  <2> QED
    BY <1>1, <1>3, <1>4, <2>3
<1>5. CASE s # r
  <2>1. Holders(s)' = Holders(s)
    BY <1>1, <1>5 DEF Holders
  <2> QED
    BY <2>1 DEF JobsInv, WithinCapacity
<1> QED
  BY <1>4, <1>5
-----------------------------------------------------------------------------
(* Every step of a call keeps the types                                     *)

(* Acquiring keeps the types: a call awaits only what it needs.             *)
LEMMA AcquireTypes ==
  ASSUME JobsInv, NEW j \in Jobs, Acquire(j)
  PROVE  SchedulerTypeOK'
<1> DEFINE r == at[j]
           rest == Needs(j) \ (held[j] \cup { r })
<1>1. SchedulerTypeOK /\ StageOf(j)
  BY DEF JobsInv, Stages
<1>2. /\ r \in Needs(j) /\ UNCHANGED << policy, due, cancels >>
      /\ held' = [ held EXCEPT ![j] = @ \cup { r } ]
  BY <1>1 DEF Acquire, StageOf
<1>3. held' \in [ Jobs -> SUBSET Waits ] /\ \A i \in Jobs : held'[i] \subseteq Needs(i)'
  <2>1. r \in Waits /\ \A i \in Jobs : Needs(i)' = Needs(i)
    BY <1>2 DEF Acquire, Needs
  <2> HIDE DEF r
  <2>2. held \in [ Jobs -> SUBSET Waits ] /\ \A i \in Jobs : held[i] \subseteq Needs(i)
    BY <1>1 DEF SchedulerTypeOK
  <2> QED
    BY <1>2, <2>1, <2>2
<1>4. rest # { } => (CHOOSE n \in rest : TRUE) \in Waits
  <2>1. rest \subseteq Waits
    BY <1>1, NeedsFacts DEF SchedulerTypeOK
  <2> HIDE DEF rest
  <2> QED
    BY <2>1
<1>5. /\ at' \in [ Jobs -> Waits \cup { "new", "running", "grace", "forced", "cleanup", "done" } ]
      /\ handler' \in [ Jobs -> { "none", "running", "ended" } ]
      /\ end' \in [ Jobs -> { "none", "queue full", "queue timeout", "timed out",
                             "returned", "cancelled", "raised" } ]
  <2>1. CASE rest # { } /\ at' = [ at EXCEPT ![j] = CHOOSE n \in rest : TRUE ]
             /\ UNCHANGED << handler, end >>
    <3> DEFINE next == CHOOSE n \in rest : TRUE
    <3>1. next \in Waits /\ at' = [ at EXCEPT ![j] = next ]
      BY <1>4, <2>1
    <3> HIDE DEF next, rest, r
    <3> QED
      BY <1>1, <2>1, <3>1 DEF SchedulerTypeOK
  <2>2. CASE at' = [ at EXCEPT ![j] = "running" ]
             /\ handler' = [ handler EXCEPT ![j] = "running" ] /\ UNCHANGED end
    BY <1>1, <2>2 DEF SchedulerTypeOK
  <2>3. CASE CleanUp(j, "timed out") /\ UNCHANGED handler
    <3>1. /\ at' = [ at EXCEPT ![j] = "cleanup" ]
          /\ end' = [ end EXCEPT ![j] = "timed out" ] /\ UNCHANGED handler
      BY <2>3 DEF CleanUp
    <3> HIDE DEF r, rest
    <3> QED
      BY <1>1, <3>1 DEF SchedulerTypeOK
  <2> QED
    BY <2>1, <2>2, <2>3 DEF Acquire
<1> QED
  BY <1>1, <1>2, <1>3, <1>5 DEF SchedulerTypeOK

(* A cancellation is counted up to the bound.                               *)
LEMMA CancelledTypes ==
  ASSUME Limits, SchedulerTypeOK, NEW j \in Jobs, Cancelled(j)
  PROVE  /\ cancels' \in [ Jobs -> 0..MaxCancels ]
         /\ cancels'[j] # 0 /\ \A i \in Jobs : i # j => cancels'[i] = cancels[i]
<1>1. cancels \in [ Jobs -> 0..MaxCancels ] /\ MaxCancels \in Nat
  BY DEF Limits, SchedulerTypeOK
<1>2. cancels[j] < MaxCancels /\ cancels' = [ cancels EXCEPT ![j] = @ + 1 ]
  BY DEF Cancelled
<1>3. cancels[j] + 1 \in 0..MaxCancels /\ cancels[j] + 1 # 0
  BY <1>1, <1>2
<1> QED
  BY <1>1, <1>2, <1>3

(* The other steps keep the types.                                          *)
LEMMA StepTypes ==
  ASSUME Limits, JobsInv, NEW j \in Jobs, Step(j)
  PROVE  SchedulerTypeOK'
<1> USE DEF SchedulerTypeOK, Needs
<1>1. SchedulerTypeOK /\ MaxCancels \in Nat
  BY DEF JobsInv, Limits
<1>2. CASE Submit(j)
  BY <1>1, <1>2 DEF Submit, Leave, Waits
<1>3. CASE QueueTimeout(j)
  BY <1>1, <1>3 DEF QueueTimeout, Leave
<1>4. CASE DeadlinePasses(j)
  BY <1>1, <1>4 DEF DeadlinePasses
<1>5. CASE Return(j)
  BY <1>1, <1>5 DEF Return, CleanUp
<1>6. CASE ExecutionTimeout(j)
  BY <1>1, <1>6 DEF ExecutionTimeout
<1>7. CASE GraceEnds(j)
  BY <1>1, <1>7 DEF GraceEnds
<1>8. CASE Stopped(j)
  BY <1>1, <1>8 DEF Stopped, CleanUp
<1>9. CASE Release(j)
  BY <1>1, <1>9 DEF Release, Leave
<1>10. CASE HandlerEnds(j)
  BY <1>1, <1>10 DEF HandlerEnds
<1>11. CASE Acquire(j)
  BY <1>11, AcquireTypes
<1>12. CASE CancelWaiting(j)
  BY <1>1, <1>12, CancelledTypes DEF CancelWaiting
<1>13. CASE CancelRunning(j)
  BY <1>1, <1>13, CancelledTypes DEF CancelRunning
<1>14. CASE CancelInGrace(j)
  BY <1>1, <1>14, CancelledTypes DEF CancelInGrace, CleanUp
<1>15. CASE CancelCleanup(j)
  BY <1>1, <1>15, CancelledTypes DEF CancelCleanup
<1> QED
  BY <1>2, <1>3, <1>4, <1>5, <1>6, <1>7, <1>8, <1>9, <1>10, <1>11, <1>12, <1>13, <1>14,
     <1>15 DEF Step, Advance
-----------------------------------------------------------------------------
(* Every step of a call keeps the stages                                    *)

(* A call that gets what it awaits goes on to the next resource it needs,   *)
(* runs with all of them, or is on its way out (_acquire, run).             *)
LEMMA AcquireStage ==
  ASSUME JobsInv, NEW j \in Jobs, Acquire(j)
  PROVE  StageOf(j)'
<1> DEFINE r == at[j]
           rest == Needs(j) \ (held[j] \cup { r })
<1>1. /\ SchedulerTypeOK /\ StageOf(j) /\ r \in Waits /\ UNCHANGED << policy, cancels >>
      /\ handler[j] = "none" /\ held[j] \subseteq Needs(j) /\ r \in Needs(j)
  BY DEF JobsInv, Stages, StageOf, SchedulerTypeOK, Acquire
<1>2. held'[j] = held[j] \cup { r } /\ Needs(j)' = Needs(j)
  BY <1>1 DEF Acquire, SchedulerTypeOK, Needs
<1>3. rest # { } => (CHOOSE n \in rest : TRUE) \in rest
  OBVIOUS
<1>4. CASE rest # { } /\ at' = [ at EXCEPT ![j] = CHOOSE n \in rest : TRUE ]
           /\ UNCHANGED handler
  <2>1. at'[j] \in rest /\ rest \subseteq Waits /\ handler'[j] = "none"
    BY <1>1, <1>3, <1>4, NeedsFacts DEF SchedulerTypeOK
  <2> QED
    BY <1>2, <2>1 DEF StageOf, Waits
<1>5. CASE rest = { } /\ at' = [ at EXCEPT ![j] = "running" ]
           /\ handler' = [ handler EXCEPT ![j] = "running" ]
  <2>1. at'[j] = "running" /\ held'[j] = Needs(j)
    BY <1>1, <1>2, <1>5 DEF SchedulerTypeOK
  <2> QED
    BY <1>2, <2>1 DEF StageOf, Waits
<1>6. CASE CleanUp(j, "timed out") /\ UNCHANGED handler
  <2>1. at'[j] = "cleanup" /\ handler'[j] = "none"
    BY <1>1, <1>6 DEF CleanUp, SchedulerTypeOK
  <2> QED
    BY <2>1 DEF StageOf, Waits
<1> QED
  BY <1>4, <1>5, <1>6 DEF Acquire

(* The other steps of a call keep its stage.                                *)
LEMMA StepStage ==
  ASSUME Limits, JobsInv, NEW j \in Jobs, Step(j)
  PROVE  StageOf(j)'
<1>1. SchedulerTypeOK /\ StageOf(j) /\ UNCHANGED policy /\ Needs(j)' = Needs(j)
  BY DEF JobsInv, Stages, Step, Advance, Submit, QueueTimeout, DeadlinePasses, Return,
         ExecutionTimeout, GraceEnds, Stopped, Release, HandlerEnds, Acquire, CancelWaiting,
         CancelRunning, CancelInGrace, CancelCleanup, Needs
<1> USE DEF StageOf, SchedulerTypeOK, Waits
<1>2. CASE Submit(j)
  <2>1. \/ at'[j] = "slot" /\ UNCHANGED << held, handler, cancels >>
        \/ at'[j] = "done" /\ held'[j] = { } /\ UNCHANGED << handler, cancels >>
    BY <1>1, <1>2 DEF Submit, Leave
  <2>2. "slot" \in Needs(j) /\ held[j] = { } /\ handler[j] = "none"
    BY <1>1, <1>2, NeedsFacts DEF Submit
  <2> QED
    BY <1>1, <2>1, <2>2
<1>3. CASE QueueTimeout(j)
  BY <1>1, <1>3 DEF QueueTimeout, Leave
<1>4. CASE DeadlinePasses(j)
  BY <1>1, <1>4 DEF DeadlinePasses
<1>5. CASE Return(j)
  BY <1>1, <1>5 DEF Return, CleanUp
<1>6. CASE ExecutionTimeout(j)
  BY <1>1, <1>6 DEF ExecutionTimeout
<1>7. CASE GraceEnds(j)
  BY <1>1, <1>7 DEF GraceEnds
<1>8. CASE Stopped(j)
  BY <1>1, <1>8 DEF Stopped, CleanUp
<1>9. CASE Release(j)
  BY <1>1, <1>9 DEF Release, Leave
<1>10. CASE HandlerEnds(j)
  BY <1>1, <1>10 DEF HandlerEnds
<1>11. CASE Acquire(j)
  BY <1>11, AcquireStage
<1>12. CASE CancelWaiting(j)
  BY <1>1, <1>12, CancelledTypes DEF CancelWaiting
<1>13. CASE CancelRunning(j)
  BY <1>1, <1>13 DEF CancelRunning
<1>14. CASE CancelInGrace(j)
  BY <1>1, <1>14, CancelledTypes DEF CancelInGrace, CleanUp
<1>15. CASE CancelCleanup(j)
  BY <1>1, <1>15, CancelledTypes DEF CancelCleanup
<1> QED
  BY <1>2, <1>3, <1>4, <1>5, <1>6, <1>7, <1>8, <1>9, <1>10, <1>11, <1>12, <1>13, <1>14,
     <1>15 DEF Step, Advance

(* A step of one call changes nothing of another, and unless the call       *)
(* acquires, it holds no more than before.                                  *)
LEMMA StepIsLocal ==
  ASSUME SchedulerTypeOK, NEW j \in Jobs, Step(j)
  PROVE  /\ policy' = policy
         /\ \A i \in Jobs \ { j } :
               /\ at'[i] = at[i] /\ held'[i] = held[i] /\ handler'[i] = handler[i]
               /\ cancels'[i] = cancels[i]
         /\ Acquire(j) \/ \A i \in Jobs : held'[i] \subseteq held[i]
<1>1. CASE Acquire(j)
  BY <1>1 DEF Acquire, SchedulerTypeOK, CleanUp
<1>2. CASE Advance(j)
  BY <1>2 DEF SchedulerTypeOK, Advance, Submit, QueueTimeout, DeadlinePasses, Return, ExecutionTimeout,
     GraceEnds, Stopped, Release, HandlerEnds, Leave, CleanUp
<1>3. CASE HandlerEnds(j)
  BY <1>3 DEF SchedulerTypeOK, HandlerEnds
<1>4. CASE CancelWaiting(j) \/ CancelRunning(j) \/ CancelInGrace(j) \/ CancelCleanup(j)
  BY <1>4 DEF SchedulerTypeOK, CancelWaiting, CancelRunning, CancelInGrace, CancelCleanup, Cancelled,
     CleanUp
<1> QED
  BY <1>1, <1>2, <1>3, <1>4 DEF Step
-----------------------------------------------------------------------------
(* The theorems *)

(* Nothing is queued, acquired or run at first.                             *)
LEMMA JobsInvInit == Limits /\ SchedulerInit => JobsInv
<1> SUFFICES ASSUME Limits, SchedulerInit PROVE JobsInv
  OBVIOUS
<1>1. SchedulerTypeOK
  BY DEF Limits, SchedulerInit, SchedulerTypeOK
<1>2. Stages
  BY DEF SchedulerInit, Stages, StageOf, Waits
<1>3. ASSUME NEW r \in Waits PROVE Cardinality(Holders(r)) <= Capacity[r]
  <2>1. Holders(r) = { }
    BY DEF SchedulerInit, Holders
  <2>2. Cardinality(Holders(r)) = 0 /\ Capacity[r] \in Nat
    BY <2>1, FS_EmptySet, CapacityType
  <2> QED
    BY <2>2
<1> QED
  BY <1>1, <1>2, <1>3 DEF JobsInv, WithinCapacity

(* Whatever a call does, JobsInv still holds.                                  *)
LEMMA JobsInvStep == Limits /\ JobsInv /\ [SchedulerNext]_jobVars => JobsInv'
<1> SUFFICES ASSUME Limits, JobsInv, [SchedulerNext]_jobVars PROVE JobsInv'
  OBVIOUS
<1>1. ASSUME NEW j \in Jobs, Step(j) PROVE JobsInv'
  <2>1. SchedulerTypeOK'
    BY <1>1, StepTypes
  <2>2. ASSUME NEW i \in Jobs PROVE StageOf(i)'
    <3>1. CASE i = j
      BY <1>1, <3>1, StepStage
    <3>2. CASE i # j
      <4>1. StageOf(i) /\ SchedulerTypeOK
        BY DEF JobsInv, Stages
      <4>2. UNCHANGED << at[i], held[i], handler[i], cancels[i], Needs(i) >>
        BY <1>1, <3>2, <4>1, StepIsLocal DEF Needs
      <4> QED
        BY <4>1, <4>2 DEF StageOf, Waits
    <3> QED
      BY <3>1, <3>2
  <2>3. WithinCapacity'
    <3>1. CASE Acquire(j)
      BY <3>1, CapacityAcquire
    <3>2. CASE \A i \in Jobs : held'[i] \subseteq held[i]
      BY <3>2, CapacityKept DEF JobsInv
    <3> QED
      BY <1>1, <3>1, <3>2, StepIsLocal DEF JobsInv
  <2> QED
    BY <2>1, <2>2, <2>3 DEF JobsInv, Stages
<1>2. CASE UNCHANGED jobVars
  BY <1>2 DEF jobVars, JobsInv, SchedulerTypeOK, Stages, StageOf, WithinCapacity, Needs, Holders
<1> QED
  BY <1>1, <1>2 DEF SchedulerNext

(* A handler that runs has what it needs, unless its call was cancelled and *)
(* left it behind.                                                          *)
LEMMA RunningHoldsNeeds ==
  ASSUME JobsInv, NEW j \in Jobs, handler[j] = "running",
         ~(Abandoned(j) /\ cancels[j] > 0)
  PROVE  held[j] = Needs(j)
<1>1. StageOf(j) /\ SchedulerTypeOK
  BY DEF JobsInv, Stages
<1>2. at[j] \in Waits \cup { "new", "running", "grace", "forced", "cleanup", "done" }
  BY <1>1 DEF SchedulerTypeOK
<1>3. cancels[j] \in 0..MaxCancels
  BY <1>1 DEF SchedulerTypeOK
<1>4. CASE at[j] \in { "cleanup", "done" }
  <2>1. cancels[j] # 0
    BY <1>1, <1>4 DEF StageOf
  <2>2. cancels[j] > 0
    BY <1>3, <2>1
  <2>3. Abandoned(j)
    BY <1>4 DEF Abandoned
  <2> QED
    BY <2>2, <2>3
<1>5. CASE at[j] \in Waits \cup { "new" }
  BY <1>1, <1>5 DEF StageOf
<1>6. CASE at[j] \in { "running", "grace", "forced" }
  BY <1>1, <1>6 DEF StageOf
<1> QED
  BY <1>2, <1>4, <1>5, <1>6

(* Handlers that all hold a resource are no more than its capacity.         *)
LEMMA RunningWithin ==
  ASSUME Limits, JobsInv, NEW p, NEW r \in Waits,
         \A j \in Jobs : handler[j] = "running" /\ policy[j] \in p => r \in held[j]
  PROVE  Cardinality(Running(p)) <= Capacity[r]
<1>1. Running(p) \subseteq Holders(r) /\ Holders(r) \subseteq Jobs /\ Running(p) \subseteq Jobs
  BY DEF Running, Holders
<1>2. Cardinality(Running(p)) <= Cardinality(Holders(r))
  BY <1>1, JobSubsets
<1>3. Cardinality(Holders(r)) <= Capacity[r]
  BY DEF JobsInv, WithinCapacity
<1>4. /\ Cardinality(Running(p)) \in Nat /\ Cardinality(Holders(r)) \in Nat
      /\ Capacity[r] \in Nat
  BY <1>1, JobSets, CapacityType
<1> QED
  BY <1>2, <1>3, <1>4

(* The limits follow from the stages and the capacities.                    *)
LEMMA JobsInvLimits == Limits /\ JobsInv => WithinLimits /\ LeaseReturned
<1> SUFFICES ASSUME Limits, JobsInv PROVE WithinLimits /\ LeaseReturned
  OBVIOUS
<1>1. LeaseReturned
  BY DEF JobsInv, Stages, StageOf, LeaseReturned
<1> DEFINE LeftBehind == \E j \in Jobs : Abandoned(j) /\ cancels[j] > 0
<1>2. ASSUME ~LeftBehind PROVE WithinLimits
  <2>1. \A j \in Jobs : handler[j] = "running" => held[j] = Needs(j)
    BY <1>2, RunningHoldsNeeds
  <2>2. policy \in [ Jobs -> Policies ]
    BY DEF JobsInv, SchedulerTypeOK
  <2>3. \A j \in Jobs : handler[j] = "running" /\ policy[j] \in Policies => "slot" \in held[j]
    BY <2>1, <2>2, NeedsFacts
  <2>4. \A j \in Jobs : handler[j] = "running" /\ policy[j] \in { "limited" } => "group" \in held[j]
    BY <2>1, <2>2, NeedsFacts
  <2>5. \A j \in Jobs : handler[j] = "running" /\ policy[j] \in { "serial" } => "lock" \in held[j]
    BY <2>1, <2>2, NeedsFacts
  <2>6. "slot" \in Waits /\ "group" \in Waits /\ "lock" \in Waits
    BY DEF Waits
  <2>7. Cardinality(Running(Policies)) <= Capacity["slot"]
    BY <2>3, <2>6, RunningWithin
  <2>8. Cardinality(Running({ "limited" })) <= Capacity["group"]
    BY <2>4, <2>6, RunningWithin
  <2>9. Cardinality(Running({ "serial" })) <= Capacity["lock"]
    BY <2>5, <2>6, RunningWithin
  <2> QED
    BY <2>7, <2>8, <2>9 DEF WithinLimits, Capacity
<1>3. ASSUME LeftBehind PROVE WithinLimits
  BY <1>3 DEF WithinLimits
<1> HIDE DEF LeftBehind
<1> QED
  BY <1>1, <1>2, <1>3

(* For any number of calls, limits and cancellations: never more handlers   *)
(* run than the session, a limited group and a serial group allow, and a    *)
(* call that was not cancelled has given back its lease and its handler has *)
(* ended when it ends (ExecutionController.run, _acquire, _stop_task).      *)
THEOREM SchedulerKeepsLimits ==
  ASSUME Limits
  PROVE  SchedulerSpec => []LimitsRespected
<1>1. SchedulerInit => JobsInv
  BY JobsInvInit
<1>2. JobsInv /\ [SchedulerNext]_jobVars => JobsInv'
  BY JobsInvStep
<1>3. JobsInv => LimitsRespected
  BY JobsInvLimits DEF JobsInv, LimitsRespected
<1> QED
  BY <1>1, <1>2, <1>3, PTL DEF SchedulerSpec
=============================================================================
