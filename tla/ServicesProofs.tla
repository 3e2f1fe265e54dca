---------------------------- MODULE ServicesProofs ----------------------------
(***************************************************************************)
(* Proofs about the services around Core, each an instance of its module   *)
(* for every value of its bounds: the chat bridge acts on a message once,  *)
(* the web backend does not let a browser miss an event, no command on a   *)
(* plan takes back work, Core is shown one attempt of a model call, MCP    *)
(* servers and their connections are accounted for, a rollback restores    *)
(* what the run did and spares the user's edits, the verdicts of an        *)
(* evaluation are those of its steps, and the commands of a session leave  *)
(* it to a controller that goes on from what is stored, unless it was made *)
(* too late or a write has failed.                                         *)
(***************************************************************************)
EXTENDS Services, Integers, Sequences, FiniteSets, SequenceTheorems, WellFoundedInduction, TLAPS

-------------------------------------------------------------------------------
(* The chat bridge *)

\* The id that stands for no message is not one.
BridgeLimits == MaxTracked \in Nat /\ "none" \notin Bridge!Messages

Different(s) == \A i, j \in DOMAIN s : s[i] = s[j] => i = j

\* A message that the bridge is about to send to the runtime, or that it remembers.
Announced(m) == IF holder = [ msg |-> m, stage |-> "announcing" ] THEN 1 ELSE 0
Remembered(m) == IF Bridge!Known(m) THEN 1 ELSE 0

BridgeTypes ==
    /\ tracked \in Seq(Bridge!Messages) /\ Different(tracked) /\ Len(tracked) <= MaxTracked
    /\ state \in [ Bridge!Messages -> { "none", "processing", "completed" } ]
    /\ \A m \in Bridge!Messages : Bridge!Known(m) <=> \E i \in DOMAIN tracked : tracked[i] = m
    /\ sent \in [ Bridge!Messages -> Nat ] /\ excused \in [ Bridge!Messages -> Nat ]
    /\ session \in { "none", "idle", "running", "asks", "approval", "winding" }
    /\ \/ holder = Bridge!Free
       \/ holder \in [ msg : Bridge!Messages, stage : { "announcing", "streaming", "refused" } ]

\* A message that is forgotten can come again, and is excused for it.
BridgeInv ==
    /\ BridgeTypes
    /\ \A m \in Bridge!Messages : sent[m] + Announced(m) <= excused[m] + Remembered(m)
    /\ session = "running" => holder.stage = "streaming"
    /\ holder.stage = "streaming" => session = "running"
    /\ holder # Bridge!Free => Bridge!Known(holder.msg) \/ excused[holder.msg] > 0

LEMMA BridgeInvInit ==
  ASSUME BridgeLimits
  PROVE  Bridge!Init => BridgeInv
  BY DEF BridgeLimits, Bridge!Messages, Bridge!Init, Bridge!Free, Bridge!Known, BridgeInv, BridgeTypes,
         Different, Announced, Remembered

(* An id that is forgotten takes its place out of the order of the others   *)
(* (_forget_message, _remember_message).                                    *)
LEMMA BridgeOthers ==
  ASSUME BridgeLimits, BridgeTypes, NEW m \in Bridge!Messages
  PROVE  LET s == Bridge!Others(m)
         IN  /\ s \in Seq(Bridge!Messages) /\ Different(s) /\ Len(s) <= MaxTracked
             /\ \A x \in Bridge!Messages :
                  (\E i \in DOMAIN s : s[i] = x) <=> x # m /\ Bridge!Known(x)
<1> DEFINE s == Bridge!Others(m)
           n == Len(tracked)
<1>1. tracked \in Seq(Bridge!Messages) /\ n \in Nat /\ DOMAIN tracked = 1..n /\ n <= MaxTracked
  <2>1. tracked \in Seq(Bridge!Messages) /\ n <= MaxTracked
    BY DEF BridgeTypes
  <2>2. n \in Nat /\ DOMAIN tracked = 1..n
    BY <2>1
  <2> QED
    BY <2>1, <2>2
<1>2. CASE \E i \in DOMAIN tracked : tracked[i] = m
  <2>1. PICK k \in 1..n : tracked[k] = m /\ s = Bridge!RemoveAt(tracked, k)
    BY <1>1, <1>2 DEF Bridge!Others
  <2> DEFINE a == SubSeq(tracked, 1, k - 1)
             b == SubSeq(tracked, k + 1, n)
  <2>2. /\ a \in Seq(Bridge!Messages) /\ Len(a) = k - 1
        /\ \A i \in 1..(k - 1) : a[i] = tracked[i]
    BY <1>1, SubSeqProperties
  <2>3. /\ b \in Seq(Bridge!Messages) /\ Len(b) = n - k
        /\ \A i \in 1..(n - k) : b[i] = tracked[k + i]
    <3>1. /\ b \in Seq(Bridge!Messages) /\ Len(b) = IF k + 1 <= n THEN n - (k + 1) + 1 ELSE 0
          /\ \A i \in 1..(n - (k + 1) + 1) : b[i] = tracked[(k + 1) + i - 1]
      <4>1. \A i \in (k + 1)..n : i \in 1..Len(tracked)
        BY <1>1
      <4>2. k + 1 \in 1..Len(tracked) + 1 /\ n \in Nat
        BY <1>1
      <4> QED
        BY <1>1, <4>1, <4>2, SubSeqProperties
    <3>2. n \in Nat /\ k \in 1..n
      BY <1>1
    <3> HIDE DEF b, n
    <3>3. Len(b) = n - k
      BY <3>1, <3>2
    <3>4. \A i \in 1..(n - k) : i \in 1..(n - (k + 1) + 1) /\ (k + 1) + i - 1 = k + i
      BY <3>2
    <3> QED
      BY <3>1, <3>3, <3>4
  <2>4. s = a \o b
    BY <2>1 DEF Bridge!RemoveAt
  <2>9. k \in 1..n /\ k \in Nat
    BY <1>1
  <2> HIDE DEF a, b, s, n
  <2>5. /\ s \in Seq(Bridge!Messages) /\ Len(s) = n - 1 /\ DOMAIN s = 1..(n - 1)
        /\ \A i \in 1..(k - 1) : s[i] = tracked[i]
        /\ \A i \in k..(n - 1) : s[i] = tracked[i + 1]
    <3>1. s \in Seq(Bridge!Messages) /\ Len(s) = Len(a) + Len(b)
      BY <2>2, <2>3, <2>4, ConcatProperties
    <3>2. Len(s) = n - 1 /\ DOMAIN s = 1..(n - 1)
      <4>1. (k - 1) + (n - k) = n - 1
        BY <1>1, <2>9
      <4>2. Len(s) = n - 1
        BY <2>2, <2>3, <3>1, <4>1
      <4>3. DOMAIN s = 1..Len(s)
        BY <3>1
      <4> QED
        BY <4>2, <4>3
    <3>3. ASSUME NEW i \in 1..(k - 1) PROVE s[i] = tracked[i]
      BY <1>1, <2>9, <2>2, <2>3, <2>4, <3>2
    <3>4. ASSUME NEW i \in k..(n - 1) PROVE s[i] = tracked[i + 1]
      <4>1. i - (k - 1) \in 1..(n - k) /\ k + (i - (k - 1)) = i + 1 /\ (k - 1) + (i - (k - 1)) = i
        BY <1>1, <2>9
      <4>2. s[i] = b[i - (k - 1)]
        BY <1>1, <2>9, <2>2, <2>3, <2>4, <4>1
      <4> QED
        BY <2>3, <4>1, <4>2
    <3> QED
      BY <3>1, <3>2, <3>3, <3>4
  <2>6. \A i, j \in 1..n : tracked[i] = tracked[j] => i = j
    BY <1>1 DEF BridgeTypes, Different
  <2>7. Different(s)
    BY <1>1, <2>5, <2>6 DEF Different
  <2>8. ASSUME NEW x \in Bridge!Messages
        PROVE  (\E i \in DOMAIN s : s[i] = x) <=> x # m /\ Bridge!Known(x)
    <3>1. Bridge!Known(x) <=> \E i \in 1..n : tracked[i] = x
      BY <1>1 DEF BridgeTypes
    <3>2. ASSUME NEW i \in 1..(n - 1), s[i] = x PROVE x # m /\ \E j \in 1..n : tracked[j] = x
      BY <1>1, <2>1, <2>5, <2>6, <3>2
    <3>3. ASSUME NEW j \in 1..n, tracked[j] = x, x # m PROVE \E i \in 1..(n - 1) : s[i] = x
      <4>1. CASE j < k
        BY <1>1, <2>5, <3>3, <4>1
      <4>2. CASE j > k
        <5>1. j - 1 \in k..(n - 1) /\ (j - 1) + 1 = j
          BY <1>1, <4>2
        <5> QED
          BY <2>5, <3>3, <5>1
      <4> QED
        BY <2>1, <3>3, <4>1, <4>2
    <3> QED
      BY <2>5, <3>1, <3>2, <3>3
  <2> QED
    <3>1. n - 1 <= MaxTracked
      BY <1>1, <2>9 DEF BridgeLimits
    <3> QED
      BY <2>5, <2>7, <2>8, <3>1 DEF s
<1>3. CASE ~ \E i \in DOMAIN tracked : tracked[i] = m
  BY <1>1, <1>3 DEF Bridge!Others, BridgeTypes
<1> QED
  BY <1>2, <1>3

(* A message that is remembered is the newest; the oldest is forgotten if   *)
(* there are too many, and excused for it (_remember_message).              *)
LEMMA BridgeRemembers ==
  ASSUME BridgeLimits, BridgeTypes, NEW m \in Bridge!Messages,
         NEW w \in { "processing", "completed" }, Bridge!Remember(m, w)
  PROVE  /\ tracked' \in Seq(Bridge!Messages) /\ Different(tracked') /\ Len(tracked') <= MaxTracked
         /\ state' \in [ Bridge!Messages -> { "none", "processing", "completed" } ]
         /\ \A x \in Bridge!Messages : Bridge!Known(x)' <=> \E i \in DOMAIN tracked' : tracked'[i] = x
         /\ excused' \in [ Bridge!Messages -> Nat ]
         /\ \A x \in Bridge!Messages :
              \/ Bridge!Known(x)' /\ excused'[x] = excused[x] /\ (x = m \/ Bridge!Known(x))
              \/ ~Bridge!Known(x)' /\ excused'[x] = excused[x] + 1 /\ (x = m \/ Bridge!Known(x))
              \/ ~Bridge!Known(x)' /\ excused'[x] = excused[x] /\ x # m /\ ~Bridge!Known(x)
<1> DEFINE s == Bridge!Others(m)
           moved == Append(s, m)
           n == Len(s)
           lost == IF n + 1 > MaxTracked THEN { moved[1] } ELSE { }
<1>1. /\ s \in Seq(Bridge!Messages) /\ Different(s) /\ n \in Nat /\ n <= MaxTracked /\ DOMAIN s = 1..n
      /\ \A x \in Bridge!Messages : (\E i \in 1..n : s[i] = x) <=> x # m /\ Bridge!Known(x)
  <2>1. s \in Seq(Bridge!Messages)
    BY BridgeOthers
  <2>2. DOMAIN s = 1..n /\ n \in Nat
    BY <2>1
  <2> QED
    BY <2>1, <2>2, BridgeOthers
<1> HIDE DEF s
<1>2. /\ moved \in Seq(Bridge!Messages) /\ Len(moved) = n + 1 /\ DOMAIN moved = 1..(n + 1)
      /\ \A i \in 1..n : moved[i] = s[i]
      /\ moved[n + 1] = m
  BY <1>1
<1>3. /\ tracked' = IF lost = { } THEN moved ELSE Tail(moved)
      /\ state' = [ x \in Bridge!Messages |-> IF x \in lost THEN "none" ELSE IF x = m THEN w ELSE state[x] ]
      /\ excused' = [ x \in Bridge!Messages |-> IF x \in lost THEN excused[x] + 1 ELSE excused[x] ]
  <2>1. Head(moved) = moved[1]
    BY <1>1, <1>2
  <2> QED
    BY <1>2, <2>1 DEF Bridge!Remember, s
<1>4. /\ Different(moved)
      /\ \A x \in Bridge!Messages : (\E i \in 1..(n + 1) : moved[i] = x) <=> x = m \/ Bridge!Known(x)
  <2>1. \A i \in 1..n : moved[i] # m
    BY <1>1, <1>2
  <2>2. \A i \in 1..(n + 1) : i \in 1..n \/ i = n + 1
    BY <1>1
  <2>3. \A i \in 1..n : i \in 1..(n + 1)
    BY <1>1
  <2>4. n + 1 \in 1..(n + 1)
    BY <1>1
  <2> HIDE DEF moved, n
  <2>5. Different(moved)
    BY <1>1, <1>2, <2>1, <2>2 DEF Different
  <2> QED
    BY <1>1, <1>2, <2>1, <2>2, <2>3, <2>4, <2>5
<1> HIDE DEF moved, n
<1>5. /\ tracked' \in Seq(Bridge!Messages) /\ Different(tracked') /\ Len(tracked') <= MaxTracked
      /\ \A x \in Bridge!Messages :
           (\E i \in DOMAIN tracked' : tracked'[i] = x) <=> (x = m \/ Bridge!Known(x)) /\ x \notin lost
  <2>1. CASE n + 1 > MaxTracked
    <3>1. /\ tracked' \in Seq(Bridge!Messages) /\ Len(tracked') = n /\ DOMAIN tracked' = 1..n
          /\ \A i \in 1..n : tracked'[i] = moved[i + 1]
      <4>1. tracked' = Tail(moved)
        BY <1>3, <2>1
      <4>2. moved # << >>
        BY <1>1, <1>2
      <4> QED
        BY <1>1, <1>2, <4>1, <4>2, HeadTailProperties
    <3>2. \A i, j \in 1..(n + 1) : moved[i] = moved[j] => i = j
      BY <1>2, <1>4 DEF Different
    <3>3. Different(tracked')
      <4>1. \A i \in 1..n : i + 1 \in 1..(n + 1)
        BY <1>1
      <4>2. \A i, j \in 1..n : i + 1 = j + 1 => i = j
        BY <1>1
      <4> QED
        BY <3>1, <3>2, <4>1, <4>2 DEF Different
    <3>4. ASSUME NEW x \in Bridge!Messages
          PROVE  (\E i \in 1..n : tracked'[i] = x) <=> (\E i \in 1..(n + 1) : moved[i] = x) /\ x # moved[1]
      <4>1. ASSUME NEW i \in 1..n, tracked'[i] = x PROVE moved[i + 1] = x /\ x # moved[1]
        BY <1>1, <3>1, <3>2, <4>1
      <4>2. ASSUME NEW i \in 1..(n + 1), moved[i] = x, x # moved[1] PROVE \E j \in 1..n : tracked'[j] = x
        <5>1. i - 1 \in 1..n /\ (i - 1) + 1 = i
          BY <1>1, <4>2
        <5> QED
          BY <3>1, <4>2, <5>1
      <4>3. \A i \in 1..n : i + 1 \in 1..(n + 1)
        BY <1>1
      <4> QED
        BY <4>1, <4>2, <4>3
    <3> QED
      BY <1>1, <1>4, <2>1, <3>1, <3>3, <3>4
  <2>2. CASE ~(n + 1 > MaxTracked)
    <3>1. tracked' = moved /\ lost = { }
      BY <1>3, <2>2
    <3>2. n + 1 <= MaxTracked
      BY <1>1, <2>2 DEF BridgeLimits
    <3> QED
      BY <1>2, <1>4, <3>1, <3>2
  <2> QED
    BY <2>1, <2>2
<1>6. \A x \in lost : x \in Bridge!Messages /\ (x = m \/ Bridge!Known(x))
  BY <1>1, <1>2, <1>4
<1> HIDE DEF lost
<1>7. /\ state' \in [ Bridge!Messages -> { "none", "processing", "completed" } ]
      /\ excused' \in [ Bridge!Messages -> Nat ]
  <2>1. /\ state \in [ Bridge!Messages -> { "none", "processing", "completed" } ]
        /\ excused \in [ Bridge!Messages -> Nat ]
    BY DEF BridgeTypes
  <2>2. \A x \in Bridge!Messages : excused[x] \in Nat /\ excused[x] + 1 \in Nat
    BY <2>1
  <2> QED
    BY <1>3, <2>1, <2>2
<1>8. \A x \in Bridge!Messages : Bridge!Known(x)' <=> (x = m \/ Bridge!Known(x)) /\ x \notin lost
  BY <1>3 DEF Bridge!Known, BridgeTypes
<1> QED
  BY <1>3, <1>5, <1>6, <1>7, <1>8

(* Of each message, and of the one that is being handled.                   *)
LEMMA BridgeFacts ==
  ASSUME BridgeInv
  PROVE  /\ \A m \in Bridge!Messages :
              /\ sent[m] \in Nat /\ excused[m] \in Nat /\ Announced(m) \in Nat
              /\ sent[m] + Announced(m) <= excused[m] + Remembered(m)
         /\ holder # Bridge!Free =>
              /\ holder.msg \in Bridge!Messages
              /\ holder.stage \in { "announcing", "streaming", "refused" }
              /\ holder = [ msg |-> holder.msg, stage |-> holder.stage ]
         /\ Bridge!Free.stage = "none" /\ Bridge!Free.msg = "none"
<1>1. \A m \in Bridge!Messages : sent[m] \in Nat /\ excused[m] \in Nat /\ Announced(m) \in Nat
  BY DEF BridgeInv, BridgeTypes, Announced
<1>2. holder # Bridge!Free =>
        holder \in [ msg : Bridge!Messages, stage : { "announcing", "streaming", "refused" } ]
  BY DEF BridgeInv, BridgeTypes
<1> QED
  BY <1>1, <1>2 DEF BridgeInv, Bridge!Free

\* What a session may do when nobody reads its frames.
Unread == { "none", "idle", "asks", "approval", "winding" }

(* A run that is not read any more is over, waits or winds up.              *)
LEMMA BridgeLeaves ==
  ASSUME BridgeInv
  PROVE  Bridge!Left \subseteq Unread
  BY DEF BridgeInv, BridgeTypes, Bridge!Left, Unread

(* A dispatch needs a message that was announced, which is one more than    *)
(* were sent, or one that was forgotten since (iter_replies).               *)
LEMMA BridgeInvStep ==
  ASSUME BridgeLimits
  PROVE  BridgeInv /\ [Bridge!Next]_(Bridge!bridgeVars) => BridgeInv'
<1> SUFFICES ASSUME BridgeInv, [Bridge!Next]_(Bridge!bridgeVars) PROVE BridgeInv'
  OBVIOUS
<1>1. ASSUME NEW m \in Bridge!Messages, Bridge!Duplicate(m) PROVE BridgeInv'
  BY <1>1 DEF Bridge!Duplicate, BridgeInv, BridgeTypes, Announced, Remembered, Bridge!Known
<1>2. ASSUME NEW m \in Bridge!Messages, Bridge!Refuse(m) PROVE BridgeInv'
  <2>1. /\ Bridge!Remember(m, "completed") /\ ~Bridge!Known(m)
        /\ UNCHANGED << holder, session, dirty, sent >>
    BY <1>2 DEF Bridge!Refuse
  <2>2. BridgeTypes'
    BY <2>1, BridgeRemembers DEF BridgeInv, BridgeTypes, Bridge!Free
  <2>3. ASSUME NEW x \in Bridge!Messages
        PROVE  sent'[x] + Announced(x)' <= excused'[x] + Remembered(x)'
    <3>1. /\ sent[x] \in Nat /\ excused[x] \in Nat /\ Announced(x) \in Nat
          /\ sent[x] + Announced(x) <= excused[x] + Remembered(x)
      BY DEF BridgeInv, BridgeTypes, Announced
    <3>2. \/ Bridge!Known(x)' /\ excused'[x] = excused[x]
          \/ ~Bridge!Known(x)' /\ excused'[x] = excused[x] + 1
          \/ ~Bridge!Known(x)' /\ excused'[x] = excused[x] /\ ~Bridge!Known(x)
      BY <2>1, BridgeRemembers DEF BridgeInv
    <3>3. Announced(x)' = Announced(x) /\ sent'[x] = sent[x]
      BY <2>1 DEF Announced
    <3> QED
      BY <3>1, <3>2, <3>3 DEF Remembered
  <2>4. holder' # Bridge!Free => Bridge!Known(holder.msg)' \/ excused'[holder'.msg] > 0
    <3> SUFFICES ASSUME holder # Bridge!Free PROVE Bridge!Known(holder.msg)' \/ excused'[holder.msg] > 0
      BY <2>1
    <3>1. PICK x \in Bridge!Messages : x = holder.msg
      BY BridgeFacts
    <3>2. excused[x] \in Nat /\ (Bridge!Known(x) \/ excused[x] > 0)
      BY <3>1, BridgeFacts DEF BridgeInv
    <3>3. \/ Bridge!Known(x)'
          \/ excused'[x] = excused[x] + 1
          \/ excused'[x] = excused[x] /\ ~Bridge!Known(x)
      BY <2>1, BridgeRemembers DEF BridgeInv
    <3>4. Bridge!Known(x)' \/ excused'[x] > 0
      BY <3>2, <3>3
    <3> QED
      BY <2>1, <3>1, <3>4 DEF Bridge!Known
  <2> QED
    BY <2>1, <2>2, <2>3, <2>4 DEF BridgeInv
<1>3. ASSUME NEW m \in Bridge!Messages, Bridge!Accept(m) PROVE BridgeInv'
  <2>1. /\ Bridge!Remember(m, "processing") /\ ~Bridge!Known(m) /\ holder = Bridge!Free
        /\ holder' = [ msg |-> m, stage |-> "announcing" ]
        /\ session' = IF session = "none" THEN "idle" ELSE session
        /\ UNCHANGED << dirty, sent >>
    BY <1>3 DEF Bridge!Accept
  <2>2. session # "running"
    BY <2>1 DEF BridgeInv, Bridge!Free
  <2>3. BridgeTypes'
    BY <2>1, BridgeRemembers DEF BridgeInv, BridgeTypes, Bridge!Free
  <2>4. ASSUME NEW x \in Bridge!Messages
        PROVE  sent'[x] + Announced(x)' <= excused'[x] + Remembered(x)'
    <3>1. sent[x] \in Nat /\ excused[x] \in Nat
      BY DEF BridgeInv, BridgeTypes
    <3>2. sent[x] <= excused[x] + Remembered(x)
      <4>1. Announced(x) = 0
        BY <2>1 DEF Announced, Bridge!Free
      <4> QED
        BY <3>1, <4>1 DEF BridgeInv, Remembered
    <3>3. \/ Bridge!Known(x)' /\ excused'[x] = excused[x]
          \/ ~Bridge!Known(x)' /\ excused'[x] = excused[x] + 1
          \/ ~Bridge!Known(x)' /\ excused'[x] = excused[x] /\ x # m /\ ~Bridge!Known(x)
      BY <2>1, BridgeRemembers DEF BridgeInv
    <3>4. Announced(x)' = IF x = m THEN 1 ELSE 0
      BY <2>1 DEF Announced
    <3>5. CASE x = m
      BY <2>1, <3>1, <3>2, <3>3, <3>4, <3>5 DEF Remembered
    <3>6. CASE x # m
      BY <2>1, <3>1, <3>2, <3>3, <3>4, <3>6 DEF Remembered
    <3> QED
      BY <3>5, <3>6
  <2>5. Bridge!Known(holder.msg)' \/ excused'[holder'.msg] > 0
    <3>1. holder'.msg = m
      BY <2>1
    <3>2. excused[m] \in Nat
      BY BridgeFacts
    <3>3. Bridge!Known(m)' \/ excused'[m] = excused[m] + 1
      BY <2>1, BridgeRemembers DEF BridgeInv
    <3> QED
      BY <3>1, <3>2, <3>3 DEF Bridge!Known
  <2> QED
    BY <2>1, <2>2, <2>3, <2>4, <2>5 DEF BridgeInv
<1>4. ASSUME Bridge!Dispatch PROVE BridgeInv'
  <2>1. /\ holder.stage = "announcing"
        /\ \/ holder' = [ holder EXCEPT !.stage = "streaming" ] /\ session' = "running"
           \/ holder' = [ holder EXCEPT !.stage = "refused" ] /\ session' = "winding"
        /\ sent' = [ sent EXCEPT ![holder.msg] = @ + 1 ]
        /\ UNCHANGED << tracked, state, excused >>
    BY <1>4 DEF Bridge!Dispatch
  <2>2. PICK m \in Bridge!Messages : holder = [ msg |-> m, stage |-> "announcing" ]
    BY <2>1, BridgeFacts
  <2>3. /\ \/ holder' = [ msg |-> m, stage |-> "streaming" ] /\ session' = "running"
           \/ holder' = [ msg |-> m, stage |-> "refused" ] /\ session' = "winding"
        /\ sent' = [ sent EXCEPT ![m] = @ + 1 ]
    BY <2>1, <2>2
  <2>4. BridgeTypes'
    <3>1. holder' \in [ msg : Bridge!Messages, stage : { "announcing", "streaming", "refused" } ]
      BY <2>3
    <3>2. sent' \in [ Bridge!Messages -> Nat ]
      <4>1. sent \in [ Bridge!Messages -> Nat ]
        BY DEF BridgeInv, BridgeTypes
      <4>2. sent[m] + 1 \in Nat
        BY <2>2, <4>1
      <4> QED
        BY <2>3, <4>1, <4>2
    <3> QED
      BY <2>1, <2>3, <3>1, <3>2 DEF BridgeInv, BridgeTypes, Bridge!Known
  <2>5. ASSUME NEW x \in Bridge!Messages
        PROVE  sent'[x] + Announced(x)' <= excused'[x] + Remembered(x)'
    <3>1. /\ sent[x] \in Nat /\ excused'[x] = excused[x] /\ Remembered(x)' = Remembered(x)
          /\ sent[x] + Announced(x) <= excused[x] + Remembered(x)
      BY <2>1 DEF BridgeInv, BridgeTypes, Remembered, Bridge!Known
    <3>2. Announced(x) = (IF x = m THEN 1 ELSE 0) /\ Announced(x)' = 0
      BY <2>2, <2>3 DEF Announced
    <3>3. sent'[x] = IF x = m THEN sent[x] + 1 ELSE sent[x]
      BY <2>3 DEF BridgeInv, BridgeTypes
    <3> QED
      BY <3>1, <3>2, <3>3
  <2>6. Bridge!Known(holder.msg)' \/ excused'[holder'.msg] > 0
    BY <2>1, <2>2, <2>3 DEF BridgeInv, Bridge!Free, Bridge!Known
  <2> QED
    BY <2>1, <2>3, <2>4, <2>5, <2>6 DEF BridgeInv
<1>5. ASSUME Bridge!Finish PROVE BridgeInv'
  <2>1. /\ holder.stage \in { "streaming", "refused" } /\ holder' = Bridge!Free
        /\ Bridge!Remember(holder.msg, "completed")
        /\ session' \in Unread /\ UNCHANGED sent
    BY <1>5, BridgeLeaves DEF Bridge!Finish
  <2>2. PICK m \in Bridge!Messages : holder.msg = m /\ holder.stage # "announcing"
    BY <2>1, BridgeFacts
  <2>3. Bridge!Remember(m, "completed")
    BY <2>1, <2>2
  <2>4. BridgeTypes'
    BY <2>1, <2>3, BridgeRemembers DEF BridgeInv, BridgeTypes, Unread
  <2>5. ASSUME NEW x \in Bridge!Messages
        PROVE  sent'[x] + Announced(x)' <= excused'[x] + Remembered(x)'
    <3>1. /\ sent[x] \in Nat /\ excused[x] \in Nat /\ Announced(x) = 0 /\ Announced(x)' = 0
          /\ sent'[x] = sent[x]
      BY <2>1, <2>2 DEF BridgeInv, BridgeTypes, Announced, Bridge!Free
    <3>2. sent[x] + Announced(x) <= excused[x] + Remembered(x)
      BY DEF BridgeInv
    <3>3. \/ Bridge!Known(x)' /\ excused'[x] = excused[x]
          \/ ~Bridge!Known(x)' /\ excused'[x] = excused[x] + 1
          \/ ~Bridge!Known(x)' /\ excused'[x] = excused[x] /\ ~Bridge!Known(x)
      BY <2>3, BridgeRemembers DEF BridgeInv
    <3> QED
      BY <3>1, <3>2, <3>3 DEF Remembered
  <2> QED
    BY <2>1, <2>4, <2>5 DEF BridgeInv, Bridge!Free, Unread
<1>6. ASSUME Bridge!Fail PROVE BridgeInv'
  <2>1. /\ holder # Bridge!Free /\ holder' = Bridge!Free
        /\ tracked' = Bridge!Others(holder.msg)
        /\ state' = [ state EXCEPT ![holder.msg] = "none" ]
        /\ excused' = [ excused EXCEPT ![holder.msg] = @ + 1 ]
        /\ session' \in Unread /\ UNCHANGED sent
    BY <1>6, BridgeLeaves DEF Bridge!Fail
  <2>2. PICK m \in Bridge!Messages : holder.msg = m
    BY <2>1 DEF BridgeInv, BridgeTypes
  <2>3. /\ tracked' \in Seq(Bridge!Messages) /\ Different(tracked') /\ Len(tracked') <= MaxTracked
        /\ \A x \in Bridge!Messages :
             (\E i \in DOMAIN tracked' : tracked'[i] = x) <=> x # m /\ Bridge!Known(x)
    BY <2>1, <2>2, BridgeOthers DEF BridgeInv
  <2>4. /\ state' \in [ Bridge!Messages -> { "none", "processing", "completed" } ]
        /\ excused' \in [ Bridge!Messages -> Nat ]
        /\ \A x \in Bridge!Messages : Bridge!Known(x)' <=> x # m /\ Bridge!Known(x)
        /\ \A x \in Bridge!Messages : excused'[x] = IF x = m THEN excused[x] + 1 ELSE excused[x]
    <3>1. /\ state' = [ state EXCEPT ![m] = "none" ] /\ excused' = [ excused EXCEPT ![m] = @ + 1 ]
      BY <2>1, <2>2
    <3>2. /\ state \in [ Bridge!Messages -> { "none", "processing", "completed" } ]
          /\ excused \in [ Bridge!Messages -> Nat ]
      BY DEF BridgeInv, BridgeTypes
    <3>3. excused[m] + 1 \in Nat
      BY <3>2
    <3> QED
      BY <3>1, <3>2, <3>3 DEF Bridge!Known
  <2>5. BridgeTypes'
    BY <2>1, <2>3, <2>4 DEF BridgeInv, BridgeTypes, Unread
  <2>6. ASSUME NEW x \in Bridge!Messages
        PROVE  sent'[x] + Announced(x)' <= excused'[x] + Remembered(x)'
    <3>1. /\ sent[x] \in Nat /\ excused[x] \in Nat /\ Announced(x) \in Nat /\ sent'[x] = sent[x]
          /\ sent[x] + Announced(x) <= excused[x] + Remembered(x)
      BY <2>1 DEF BridgeInv, BridgeTypes, Announced
    <3>2. Announced(x)' = 0
      BY <2>1 DEF Announced, Bridge!Free
    <3> QED
      BY <2>4, <3>1, <3>2 DEF Remembered
  <2> QED
    BY <2>1, <2>5, <2>6 DEF BridgeInv, Bridge!Free, Unread
<1>7. ASSUME Bridge!ReplyLost PROVE BridgeInv'
  <2>1. /\ holder' = Bridge!Free /\ session' \in Unread
        /\ UNCHANGED << tracked, state, sent, excused >>
    BY <1>7, BridgeLeaves DEF Bridge!ReplyLost
  <2>2. BridgeTypes'
    BY <2>1 DEF BridgeInv, BridgeTypes, Bridge!Known, Unread
  <2>3. ASSUME NEW x \in Bridge!Messages
        PROVE  sent'[x] + Announced(x)' <= excused'[x] + Remembered(x)'
    <3>1. /\ sent[x] \in Nat /\ excused[x] \in Nat /\ Announced(x) \in Nat /\ sent'[x] = sent[x]
          /\ sent[x] + Announced(x) <= excused[x] + Remembered(x)
      BY <2>1 DEF BridgeInv, BridgeTypes, Announced
    <3>2. Announced(x)' = 0 /\ Remembered(x)' = Remembered(x) /\ excused'[x] = excused[x]
      BY <2>1 DEF Announced, Bridge!Free, Remembered, Bridge!Known
    <3> QED
      BY <3>1, <3>2 DEF Remembered
  <2> QED
    BY <2>1, <2>2, <2>3 DEF BridgeInv, Bridge!Free, Unread
<1>8. ASSUME Bridge!WindUp \/ Bridge!Change \/ UNCHANGED Bridge!bridgeVars PROVE BridgeInv'
  <2>1. /\ UNCHANGED << tracked, state, holder, sent, excused >>
        /\ \/ session' = session
           \/ session = "winding" /\ session' = "idle"
    BY <1>8 DEF Bridge!WindUp, Bridge!Change, Bridge!bridgeVars
  <2> QED
    BY <2>1 DEF BridgeInv, BridgeTypes, Announced, Remembered, Bridge!Known
<1> QED
  BY <1>1, <1>2, <1>3, <1>4, <1>5, <1>6, <1>7, <1>8 DEF Bridge!Next

(* However often the service delivers a message, and whatever fails: it is  *)
(* sent to the runtime once, unless its handling raised an exception or its *)
(* id was pushed out; a run that no task reads is over, waits for the user, *)
(* or winds up and takes no message (bridge.py, iter_replies,               *)
(* _remember_message; transport.py; gateway.py, dispatch).                  *)
THEOREM MessagesAreActedOnOnce ==
  ASSUME BridgeLimits
  PROVE  Bridge!Spec => []ActedOnOnce
<1>1. BridgeInv => Bridge!TypeOK
  <2> SUFFICES ASSUME BridgeInv PROVE Bridge!TypeOK
    OBVIOUS
  <2>1. \A i \in DOMAIN tracked : tracked[i] \in Bridge!Messages
    <3>1. tracked \in Seq(Bridge!Messages)
      BY DEF BridgeInv, BridgeTypes
    <3> QED
      BY <3>1
  <2>2. \A m \in Bridge!Messages : state[m] # "none" <=> \E i \in DOMAIN tracked : tracked[i] = m
    BY DEF BridgeInv, BridgeTypes, Bridge!Known
  <2>3. Bridge!Range(tracked) = { m \in Bridge!Messages : state[m] # "none" }
    BY <2>1, <2>2 DEF Bridge!Range
  <2>4. holder.msg \in Bridge!Messages \cup { "none" }
    BY BridgeFacts
  <2> QED
    BY <2>3, <2>4 DEF BridgeInv, BridgeTypes, Bridge!TypeOK
<1>2. BridgeInv => Bridge!ActedOnOnce
  <2> SUFFICES ASSUME BridgeInv PROVE Bridge!ActedOnOnce
    OBVIOUS
  <2>1. ASSUME NEW m \in Bridge!Messages PROVE sent[m] <= 1 + excused[m]
    BY BridgeFacts DEF Remembered
  <2> QED
    BY <2>1 DEF BridgeInv, Bridge!ActedOnOnce
<1>3. Bridge!Init => BridgeInv
  BY BridgeInvInit
<1>4. BridgeInv /\ [Bridge!Next]_(Bridge!bridgeVars) => BridgeInv'
  BY BridgeInvStep
<1> QED
  BY <1>1, <1>2, <1>3, <1>4, PTL DEF Bridge!Spec, ActedOnOnce

-------------------------------------------------------------------------------
(* The events of a web session *)

\* EventHub refuses other capacities.
WebLimits == Capacity \in Nat \ { 0 } /\ QueueSize \in Nat \ { 0 } /\ MaxEvents \in Nat

\* What may be on the way to a browser when p events have been published.
Items(p) == [ kind : { "event" }, n : 1..p ] \cup [ kind : { "session.snapshot" }, n : 0..p ]
              \cup { Web!Sync }

WebTypes ==
    /\ task \in [ run : { "none", "prompt", "approve" }, cancel : BOOLEAN ]
    /\ published \in 0..MaxEvents
    /\ kept \in Seq(Nat) /\ Len(kept) <= Capacity /\ Len(kept) <= published
    /\ \A i \in 1..Len(kept) : kept[i] = published - Len(kept) + i
    /\ queue \in Seq(Items(published)) /\ Len(queue) <= QueueSize
    /\ wire \in Seq(Items(published))
    /\ link \in { "off", "on", "ending" } /\ have \subseteq 1..published /\ last \in 0..published

Barred(q) == Len(q) > 0 /\ q[1] = Web!Sync

\* A queue ends with the last of p events, unless the barrier heads it.
Queued(q, p) ==
    /\ q \in Seq(Items(p)) /\ Len(q) <= QueueSize
    /\ ~Barred(q) => \A i \in 1..Len(q) : q[i] = Web!Event(p - Len(q) + i)

\* What is on the connection is read in order, and nothing before it is missing.
InOrder ==
    /\ \A i \in 1..(Len(wire) - 1) :
         wire[i + 1] = Web!Sync \/ (wire[i] # Web!Sync /\ wire[i + 1] = Web!Event(wire[i].n + 1))
    /\ Len(wire) > 0 /\ wire[1].kind = "event" => 1..(wire[1].n - 1) \subseteq have
    /\ link = "off" => wire = << >> /\ queue = << >>
    /\ link = "on" => \A i \in 1..Len(wire) : wire[i] # Web!Sync

\* Without the barrier, what is on the connection ends where the queue begins.
Current ==
    link = "on" /\ ~Barred(queue) =>
      LET first == published - Len(queue) - Len(wire)
      IN  /\ \A i \in 1..Len(wire) : wire[i].n = first + i
          /\ \/ Len(wire) > 0 /\ wire[1].kind = "session.snapshot"
             \/ 1..first \subseteq have

WebInv ==
    /\ WebTypes
    /\ link = "on" => Queued(queue, published)
    /\ InOrder
    /\ Current
    /\ 1..last \subseteq have

LEMMA WebInvInit ==
  ASSUME WebLimits
  PROVE  Web!Init => WebInv
  BY DEF WebLimits, Web!Init, Web!NoTask, WebInv, WebTypes, Queued, InOrder, Current, Items

(* Steps of the dispatches that publish nothing.                            *)
LEMMA WebWork ==
  ASSUME WebInv, UNCHANGED << published, kept, Web!stream >>,
         task' \in [ run : { "none", "prompt", "approve" }, cancel : BOOLEAN ]
  PROVE  WebInv'
  BY DEF Web!stream, WebInv, WebTypes, Queued, InOrder, Current, Items, Barred

(* A full queue becomes the barrier; otherwise the event is the next one    *)
(* (EventHub.publish).                                                      *)
LEMMA WebEnqueues ==
  ASSUME WebLimits, NEW p \in Nat, NEW q, Queued(q, p)
  PROVE  LET r == Web!Enqueued(q, p + 1)
         IN  /\ Queued(r, p + 1)
             /\ ~Barred(r) => ~Barred(q) /\ Len(r) = Len(q) + 1
<1> DEFINE r == Web!Enqueued(q, p + 1)
           e == Web!Event(p + 1)
<1>1. /\ q \in Seq(Items(p)) /\ Len(q) \in Nat /\ Len(q) <= QueueSize
      /\ QueueSize \in Nat \ { 0 }
  BY DEF WebLimits, Queued
<1>2. Items(p) \subseteq Items(p + 1) /\ e \in Items(p + 1) /\ Web!Sync \in Items(p + 1) /\ e # Web!Sync
  BY DEF Items, Web!Event, Web!Sync
<1>3. CASE Len(q) = QueueSize
  <2>1. r = << Web!Sync >>
    BY <1>3 DEF Web!Enqueued
  <2> HIDE DEF r, e
  <2>2. r \in Seq(Items(p + 1))
    BY <1>2, <2>1
  <2>3. Len(r) = 1 /\ r[1] = Web!Sync
    BY <2>1
  <2>4. Barred(r) /\ Len(r) <= QueueSize
    BY <1>1, <2>3 DEF Barred
  <2>5. Queued(r, p + 1)
    BY <2>2, <2>4 DEF Queued
  <2> QED
    BY <2>4, <2>5 DEF r
<1>4. CASE Len(q) # QueueSize
  <2>1. r = Append(q, e)
    BY <1>4 DEF Web!Enqueued
  <2> HIDE DEF r, e
  <2>2. q \in Seq(Items(p + 1))
    BY <1>1, <1>2
  <2>3. /\ r \in Seq(Items(p + 1)) /\ Len(r) = Len(q) + 1
        /\ \A i \in 1..Len(q) : r[i] = q[i]
        /\ r[Len(q) + 1] = e
    BY <1>2, <2>1, <2>2
  <2>4. Len(r) <= QueueSize
    BY <1>1, <1>4, <2>3
  <2>5. Barred(q) => Barred(r)
    BY <1>1, <2>3 DEF Barred
  <2>6. ASSUME ~Barred(q), NEW i \in 1..Len(r) PROVE r[i] = Web!Event(p + 1 - Len(r) + i)
    <3>1. CASE i \in 1..Len(q)
      <4>1. q[i] = Web!Event(p - Len(q) + i)
        BY <2>6, <3>1 DEF Queued
      <4>2. p + 1 - Len(r) + i = p - Len(q) + i
        BY <1>1, <2>3
      <4> QED
        BY <2>3, <3>1, <4>1, <4>2
    <3>2. CASE i = Len(q) + 1
      <4>1. p + 1 - Len(r) + i = p + 1
        BY <1>1, <2>3, <3>2
      <4> QED
        BY <2>3, <3>2, <4>1 DEF e
    <3> QED
      BY <1>1, <2>3, <3>1, <3>2
  <2>7. Queued(r, p + 1)
    BY <2>3, <2>4, <2>5, <2>6 DEF Queued
  <2> QED
    BY <2>3, <2>5, <2>7 DEF r
<1> QED
  BY <1>3, <1>4

(* The hub keeps the newest events (EventHub, a deque of maximal length).   *)
LEMMA WebKeeps ==
  ASSUME WebLimits, WebTypes, NEW n \in { 1, 2 }, Web!Publish(n)
  PROVE  /\ published' = published + n /\ published' \in 0..MaxEvents
         /\ kept' \in Seq(Nat) /\ Len(kept') <= Capacity /\ Len(kept') <= published'
         /\ \A i \in 1..Len(kept') : kept'[i] = published' - Len(kept') + i
<1> DEFINE new == [ i \in 1..n |-> published + i ]
           all == kept \o new
           k == Len(kept)
           d == IF Len(all) > Capacity THEN Len(all) - Capacity ELSE 0
<1>1. /\ published \in Nat /\ kept \in Seq(Nat) /\ k \in Nat /\ k <= Capacity /\ k <= published
      /\ \A i \in 1..k : kept[i] = published - k + i
      /\ Capacity \in Nat \ { 0 } /\ MaxEvents \in Nat
  <2>1. kept \in Seq(Nat)
    BY DEF WebTypes
  <2>2. k \in Nat
    BY <2>1
  <2> QED
    BY <2>1, <2>2 DEF WebTypes, WebLimits
<1>2. /\ published' = published + n /\ published + n <= MaxEvents
      /\ kept' = Web!Keep(all)
  BY DEF Web!Publish
<1>3. new \in Seq(Nat) /\ Len(new) = n /\ \A i \in 1..n : new[i] = published + i
  BY <1>1
<1> HIDE DEF new, k
<1>4. all \in Seq(Nat) /\ Len(all) = k + n
  BY <1>1, <1>3 DEF k
<1>5. ASSUME NEW i \in 1..(k + n) PROVE all[i] = published - k + i
  <2>1. CASE i \in 1..k
    BY <1>1, <1>3, <2>1 DEF k
  <2>2. CASE i \notin 1..k
    <3>1. i - k \in 1..n /\ published + (i - k) = published - k + i
      BY <1>1, <2>2
    <3>2. all[i] = new[i - k]
      BY <1>1, <1>3, <2>2, <3>1 DEF k
    <3> QED
      BY <1>3, <3>1, <3>2
  <2> QED
    BY <2>1, <2>2
<1> HIDE DEF all
<1>6. d \in Nat /\ d <= k + n /\ k + n - d <= Capacity /\ k + n - d <= published + n
  <2>1. k \in Nat /\ n \in Nat /\ Capacity \in Nat /\ published \in Nat /\ k <= published
    BY <1>1
  <2>2. Len(all) = k + n
    BY <1>4
  <2> QED
    BY <2>1, <2>2
<1>7. kept' = SubSeq(all, 1 + d, Len(all))
  BY <1>2 DEF Web!Keep
<1> HIDE DEF d
<1>8. /\ kept' \in Seq(Nat) /\ Len(kept') = k + n - d
      /\ \A i \in 1..(k + n - d) : kept'[i] = all[d + i]
  <2>1. \A i \in (1 + d)..(k + n) : all[i] \in Nat
    BY <1>1, <1>4, <1>6
  <2>2. 1 + d \in Int /\ k + n \in Int
    BY <1>1, <1>6
  <2>3. /\ kept' \in Seq(Nat) /\ Len(kept') = IF 1 + d <= k + n THEN (k + n) - (1 + d) + 1 ELSE 0
        /\ \A i \in 1..((k + n) - (1 + d) + 1) : kept'[i] = all[(1 + d) + i - 1]
    BY <1>4, <1>7, <2>1, <2>2, SubSeqProperties
  <2>4. (k + n) - (1 + d) + 1 = k + n - d /\ \A i \in Nat : (1 + d) + i - 1 = d + i
    BY <1>1, <1>6
  <2>5. Len(kept') = k + n - d
    <3>1. (IF 1 + d <= k + n THEN (k + n) - (1 + d) + 1 ELSE 0) = k + n - d
      BY <1>1, <1>6
    <3> QED
      BY <2>3, <3>1
  <2> QED
    BY <2>3, <2>4, <2>5
<1>9. ASSUME NEW i \in 1..Len(kept') PROVE kept'[i] = published' - Len(kept') + i
  <2>1. /\ k \in Nat /\ n \in Nat /\ d \in Nat /\ d <= k + n /\ published \in Nat
        /\ i \in 1..(k + n - d)
    BY <1>1, <1>6, <1>8
  <2>2. d + i \in 1..(k + n) /\ published - k + (d + i) = published + n - (k + n - d) + i
    BY <2>1
  <2>3. kept'[i] = all[d + i] /\ Len(kept') = k + n - d
    BY <1>8, <2>1
  <2>4. all[d + i] = published - k + (d + i)
    BY <1>5, <2>2
  <2> QED
    BY <1>2, <2>1, <2>2, <2>3, <2>4
<1> QED
  BY <1>1, <1>2, <1>6, <1>8, <1>9

(* A connected browser will read what is published, or the barrier          *)
(* (EventHub.publish).                                                      *)
LEMMA WebPublishes ==
  ASSUME WebLimits, WebInv, NEW n \in { 1, 2 }, Web!Publish(n),
         UNCHANGED << wire, link, have, last >>,
         task' \in [ run : { "none", "prompt", "approve" }, cancel : BOOLEAN ]
  PROVE  WebInv'
<1>1. published \in Nat /\ published' = published + n
  BY WebKeeps DEF WebInv, WebTypes
<1>2. Items(published) \subseteq Items(published')
  BY <1>1 DEF Items
<1>3. link # "on" => queue' = queue
  BY DEF Web!Publish
<1>4. ASSUME link = "on"
      PROVE  /\ Queued(queue', published')
             /\ ~Barred(queue') => ~Barred(queue) /\ published' - Len(queue') = published - Len(queue)
  <2> DEFINE first == Web!Enqueued(queue, published + 1)
             second == Web!Enqueued(first, published + 1 + 1)
  <2>1. Queued(queue, published) /\ Len(queue) \in Nat
    BY <1>4 DEF WebInv, Queued
  <2>2. Queued(first, published + 1) /\ (~Barred(first) => ~Barred(queue) /\ Len(first) = Len(queue) + 1)
    BY <1>1, <2>1, WebEnqueues
  <2>3. published + 1 \in Nat
    BY <1>1
  <2> HIDE DEF first
  <2>4. /\ Queued(second, published + 1 + 1)
        /\ ~Barred(second) => ~Barred(first) /\ Len(second) = Len(first) + 1
    BY <2>2, <2>3, WebEnqueues
  <2>5. queue' = IF n = 1 THEN first ELSE second
    <3>1. published + 2 = published + 1 + 1
      BY <1>1
    <3> QED
      BY <1>4, <3>1 DEF Web!Publish, first
  <2> HIDE DEF second
  <2>6. CASE n = 1
    BY <1>1, <2>1, <2>2, <2>5, <2>6
  <2>7. CASE n = 2
    <3>1. published' = published + 1 + 1
      BY <1>1, <2>7
    <3> QED
      BY <1>1, <2>1, <2>2, <2>4, <2>5, <2>7, <3>1
  <2> QED
    BY <2>6, <2>7
<1>5. queue' \in Seq(Items(published')) /\ Len(queue') <= QueueSize /\ wire' \in Seq(Items(published'))
  BY <1>2, <1>3, <1>4 DEF WebInv, WebTypes, Queued
<1>6. have' \subseteq 1..published' /\ last' \in 0..published'
  BY <1>1 DEF WebInv, WebTypes
<1>7. WebTypes'
  BY <1>5, <1>6, WebKeeps DEF WebInv, WebTypes
<1>8. InOrder'
  BY <1>3 DEF WebInv, InOrder
<1>9. Current'
  <2> SUFFICES ASSUME link = "on", ~Barred(queue')
               PROVE  LET first == published' - Len(queue') - Len(wire)
                      IN  /\ \A i \in 1..Len(wire) : wire[i].n = first + i
                          /\ (Len(wire) > 0 /\ wire[1].kind = "session.snapshot") \/ 1..first \subseteq have
    BY DEF Current, Barred
  <2>1. ~Barred(queue) /\ published' - Len(queue') = published - Len(queue)
    BY <1>4
  <2> QED
    BY <2>1 DEF WebInv, Current
<1> QED
  BY <1>4, <1>7, <1>8, <1>9 DEF WebInv

(* What a browser reads.                                                    *)
LEMMA WebItems ==
  ASSUME NEW p \in Nat, NEW x \in Items(p)
  PROVE  /\ \/ x = Web!Sync /\ x.kind = "sync_required" /\ Web!Shows(x) = { }
            \/ x # Web!Sync /\ x.kind = "event" /\ x.n \in 1..p /\ Web!Shows(x) = { x.n }
            \/ x # Web!Sync /\ x.kind = "session.snapshot" /\ x.n \in 0..p /\ Web!Shows(x) = 1..x.n
         /\ Web!Shows(x) \subseteq 1..p
<1>1. CASE x = Web!Sync
  BY <1>1 DEF Web!Sync, Web!Shows
<1>2. CASE x \in [ kind : { "event" }, n : 1..p ]
  BY <1>2 DEF Web!Sync, Web!Shows
<1>3. CASE x \in [ kind : { "session.snapshot" }, n : 0..p ]
  <2>1. x.kind = "session.snapshot" /\ x.n \in 0..p /\ x # Web!Sync
    BY <1>3 DEF Web!Sync
  <2>2. Web!Shows(x) = 1..x.n
    BY <2>1 DEF Web!Shows
  <2>3. 1..x.n \subseteq 1..p
    BY <2>1
  <2> QED
    BY <2>1, <2>2, <2>3
<1> QED
  BY <1>1, <1>2, <1>3 DEF Items

(* A browser that connects again continues after its last event, or gets a  *)
(* snapshot (subscribe_after, session_events).                              *)
LEMMA WebConnects ==
  ASSUME WebLimits, WebInv, Web!Connect
  PROVE  WebInv'
<1>1. /\ link = "off" /\ link' = "on" /\ queue' = << >> /\ queue = << >> /\ wire = << >>
      /\ UNCHANGED << task, pending, resolution, published, kept, have, last, drops >>
  BY DEF Web!Connect, Web!work, WebInv, InOrder
<1>2. published \in Nat /\ last \in 0..published /\ 1..last \subseteq have
  BY DEF WebInv, WebTypes, WebLimits
<1>3. Queued(queue', published') /\ Len(queue') = 0
  BY <1>1 DEF Queued, WebLimits
<1>4. CASE last \in Web!Range(kept)
  <2> DEFINE k == Len(kept)
             i == CHOOSE j \in DOMAIN kept : kept[j] = last
  <2>1. kept \in Seq(Nat) /\ k \in Nat /\ DOMAIN kept = 1..k
    <3>1. kept \in Seq(Nat)
      BY DEF WebInv, WebTypes
    <3> QED
      BY <3>1
  <2>2. i \in 1..k /\ kept[i] = last
    <3>1. \E j \in DOMAIN kept : kept[j] = last
      BY <1>4 DEF Web!Range
    <3> QED
      BY <2>1, <3>1
  <2>3. \A j \in 1..k : kept[j] = published - k + j
    BY DEF WebInv, WebTypes
  <2>4. Web!Later = SubSeq(kept, i + 1, k)
    BY DEF Web!Later
  <2> HIDE DEF k, i
  <2>5. last = published - k + i
    BY <2>2, <2>3
  <2>6. /\ Web!Later \in Seq(Nat) /\ Len(Web!Later) = k - i
        /\ \A j \in 1..(k - i) : Web!Later[j] = kept[i + j]
    <3>1. \A j \in (i + 1)..k : kept[j] \in Nat
      BY <2>1, <2>2 DEF k
    <3>2. i + 1 \in Int /\ k \in Int
      BY <2>1, <2>2
    <3>3. /\ Web!Later \in Seq(Nat) /\ Len(Web!Later) = IF i + 1 <= k THEN k - (i + 1) + 1 ELSE 0
          /\ \A j \in 1..(k - (i + 1) + 1) : Web!Later[j] = kept[(i + 1) + j - 1]
      BY <2>4, <3>1, <3>2, SubSeqProperties
    <3>4. k - (i + 1) + 1 = k - i /\ \A j \in Nat : (i + 1) + j - 1 = i + j
      BY <2>1, <2>2
    <3>5. Len(Web!Later) = k - i
      BY <2>1, <2>2, <3>3
    <3> QED
      BY <3>3, <3>4, <3>5
  <2>7. k - i \in Nat /\ published - (k - i) = last
    BY <1>2, <2>1, <2>2, <2>5
  <2>8. \A j \in 1..(k - i) : Web!Later[j] = last + j
    <3>1. ASSUME NEW j \in 1..(k - i) PROVE Web!Later[j] = last + j
      <4>1. i + j \in 1..k /\ published - k + (i + j) = last + j
        BY <1>2, <2>1, <2>2, <2>5
      <4> QED
        BY <2>3, <2>6, <4>1
    <3> QED
      BY <3>1
  <2>9. wire' = [ j \in 1..(k - i) |-> Web!Event(last + j) ]
    <3>1. DOMAIN Web!Later = 1..(k - i)
      BY <2>6
    <3>2. wire' = [ j \in DOMAIN Web!Later |-> Web!Event(Web!Later[j]) ]
      BY <1>4 DEF Web!Connect
    <3> QED
      BY <2>8, <3>1, <3>2
  <2>10. \A j \in 1..(k - i) : /\ Web!Event(last + j) \in Items(published)
                                /\ Web!Event(last + j).n = last + j
                                /\ Web!Event(last + j).kind = "event"
                                /\ Web!Event(last + j) # Web!Sync
    <3>1. \A j \in 1..(k - i) : last + j \in 1..published
      BY <1>2, <2>7
    <3> QED
      BY <3>1 DEF Items, Web!Event, Web!Sync
  <2>11. wire' \in Seq(Items(published)) /\ Len(wire') = k - i
    BY <2>7, <2>9, <2>10
  <2>12. \A j \in 1..(k - i) : /\ wire'[j] = Web!Event(last + j) /\ wire'[j].n = last + j
                                /\ wire'[j].kind = "event" /\ wire'[j] # Web!Sync
    BY <2>9, <2>10
  <2>13. InOrder'
    <3>1. ASSUME NEW j \in 1..(k - i - 1) PROVE wire'[j + 1] = Web!Event(wire'[j].n + 1) /\ wire'[j] # Web!Sync
      <4>1. j \in 1..(k - i) /\ j + 1 \in 1..(k - i) /\ last + (j + 1) = (last + j) + 1
        BY <1>2, <2>7
      <4> QED
        BY <2>12, <4>1
    <3>2. Len(wire') > 0 => wire'[1].n - 1 = last
      <4>1. ASSUME k - i > 0 PROVE 1 \in 1..(k - i) /\ (last + 1) - 1 = last
        BY <1>2, <2>7, <4>1
      <4> QED
        BY <2>11, <2>12, <4>1
    <3> QED
      BY <1>1, <1>2, <2>11, <2>12, <3>1, <3>2 DEF InOrder
  <2>14. Current'
    <3>1. published' - Len(queue') - Len(wire') = last
      BY <1>1, <1>2, <1>3, <2>7, <2>11
    <3> QED
      BY <1>1, <1>2, <2>11, <2>12, <3>1 DEF Current
  <2>15. WebTypes'
    BY <1>1, <1>3, <2>11 DEF WebInv, WebTypes, Queued
  <2> QED
    BY <1>1, <1>2, <1>3, <2>13, <2>14, <2>15 DEF WebInv
<1>5. CASE last \notin Web!Range(kept)
  <2>1. wire' = << Web!Snapshot >>
    BY <1>5 DEF Web!Connect
  <2>2. /\ Web!Snapshot \in Items(published) /\ Web!Snapshot.n = published
        /\ Web!Snapshot.kind = "session.snapshot" /\ Web!Snapshot # Web!Sync
    BY <1>2 DEF Items, Web!Snapshot, Web!Sync
  <2>3. wire' \in Seq(Items(published)) /\ Len(wire') = 1 /\ wire'[1] = Web!Snapshot
    BY <2>1, <2>2
  <2>4. InOrder'
    BY <1>1, <2>2, <2>3 DEF InOrder
  <2>5. Current'
    BY <1>1, <1>2, <1>3, <2>2, <2>3 DEF Current
  <2>6. WebTypes'
    BY <1>1, <1>3, <2>3 DEF WebInv, WebTypes, Queued
  <2> QED
    BY <1>1, <1>2, <1>3, <2>4, <2>5, <2>6 DEF WebInv
<1> QED
  BY <1>4, <1>5

(* The route takes the head of the queue to the connection, and leaves      *)
(* behind the barrier (session_events).                                     *)
LEMMA WebDelivers ==
  ASSUME WebLimits, WebInv, Web!Deliver
  PROVE  WebInv'
<1> DEFINE x == Head(queue)
           q == Len(queue)
           w == Len(wire)
           first == published - q - w
<1>1. /\ link = "on" /\ queue # << >> /\ wire' = Append(wire, x) /\ queue' = Tail(queue)
      /\ link' = IF x = Web!Sync THEN "ending" ELSE link
      /\ UNCHANGED << task, pending, resolution, published, kept, have, last, drops >>
  BY DEF Web!Deliver, Web!work
<1>2. /\ queue \in Seq(Items(published)) /\ wire \in Seq(Items(published)) /\ q <= QueueSize
      /\ published \in Nat /\ QueueSize \in Nat
  BY DEF WebInv, WebTypes, WebLimits
<1>3. q \in Nat /\ q > 0 /\ w \in Nat /\ x = queue[1] /\ x \in Items(published)
  BY <1>1, <1>2
<1>4. /\ queue' \in Seq(Items(published)) /\ Len(queue') = q - 1
      /\ \A i \in 1..(q - 1) : queue'[i] = queue[i + 1]
  BY <1>1, <1>2, HeadTailProperties
<1> HIDE DEF x
<1>5. /\ wire' \in Seq(Items(published)) /\ Len(wire') = w + 1
      /\ \A i \in 1..w : wire'[i] = wire[i]
      /\ wire'[w + 1] = x
  BY <1>1, <1>2, <1>3
<1> HIDE DEF q, w
<1>6. WebTypes'
  <2>1. Len(queue') <= QueueSize
    BY <1>2, <1>3, <1>4
  <2> QED
    BY <1>1, <1>4, <1>5, <2>1 DEF WebInv, WebTypes
<1>7. /\ \A i \in 1..(w - 1) :
           wire[i + 1] = Web!Sync \/ (wire[i] # Web!Sync /\ wire[i + 1] = Web!Event(wire[i].n + 1))
      /\ w > 0 /\ wire[1].kind = "event" => 1..(wire[1].n - 1) \subseteq have
      /\ \A i \in 1..w : wire[i] # Web!Sync
  BY <1>1 DEF WebInv, InOrder, w
<1>8. ASSUME \/ x = Web!Sync
             \/ /\ w > 0 => x = Web!Event(wire[w].n + 1)
                /\ w = 0 => 1..(x.n - 1) \subseteq have
                /\ x # Web!Sync
      PROVE  InOrder'
  <2>1. ASSUME NEW i \in 1..w
        PROVE  wire'[i + 1] = Web!Sync \/ (wire'[i] # Web!Sync /\ wire'[i + 1] = Web!Event(wire'[i].n + 1))
    <3>1. CASE i = w
      BY <1>5, <1>7, <1>8, <3>1
    <3>2. CASE i # w
      <4>1. i \in 1..(w - 1) /\ i + 1 \in 1..w
        BY <1>3, <3>2
      <4> QED
        BY <1>5, <1>7, <4>1
    <3> QED
      BY <3>1, <3>2
  <2>2. wire'[1].kind = "event" => 1..(wire'[1].n - 1) \subseteq have
    <3>1. CASE w = 0
      BY <1>5, <1>8, <3>1 DEF Web!Sync
    <3>2. CASE w > 0
      BY <1>3, <1>5, <1>7, <3>2
    <3> QED
      BY <1>3, <3>1, <3>2
  <2>3. link' = "on" => \A i \in 1..(w + 1) : wire'[i] # Web!Sync
    <3>1. \A i \in 1..(w + 1) : i \in 1..w \/ i = w + 1
      BY <1>3
    <3> QED
      BY <1>1, <1>5, <1>7, <1>8, <3>1
  <2>4. link' # "off" /\ (w + 1) - 1 = w
    BY <1>1, <1>3
  <2> QED
    BY <1>1, <1>5, <2>1, <2>2, <2>3, <2>4 DEF InOrder
<1>9. CASE x = Web!Sync
  <2>1. link' = "ending"
    BY <1>1, <1>9
  <2>2. InOrder'
    BY <1>8, <1>9
  <2> QED
    BY <1>1, <1>6, <2>1, <2>2 DEF WebInv, Current
<1>10. CASE x # Web!Sync
  <2>1. ~Barred(queue) /\ link' = "on"
    BY <1>1, <1>3, <1>10 DEF Barred
  <2>2. \A i \in 1..q : queue[i] = Web!Event(published - q + i)
    BY <1>1, <2>1 DEF WebInv, Queued, q
  <2>3. /\ \A i \in 1..w : wire[i].n = first + i
        /\ (w > 0 /\ wire[1].kind = "session.snapshot") \/ 1..first \subseteq have
    BY <1>1, <2>1 DEF WebInv, Current, q, w
  <2>4. x = Web!Event(published - q + 1) /\ x.n = published - q + 1 /\ x.kind = "event"
    <3>1. x = Web!Event(published - q + 1)
      BY <1>3, <2>2
    <3> QED
      BY <3>1 DEF Web!Event
  <2>5. InOrder'
    <3>1. w > 0 => x = Web!Event(wire[w].n + 1)
      <4>1. ASSUME w > 0 PROVE wire[w].n + 1 = published - q + 1
        <5>1. w \in 1..w /\ first + w = published - q
          BY <1>2, <1>3, <4>1
        <5> QED
          BY <2>3, <5>1
      <4> QED
        BY <2>4, <4>1
    <3>2. w = 0 => 1..(x.n - 1) \subseteq have
      <4>1. w = 0 => x.n - 1 = first
        BY <1>2, <1>3, <2>4
      <4> QED
        BY <1>3, <2>3, <4>1
    <3> QED
      BY <1>8, <1>10, <3>1, <3>2
  <2>6. Queued(queue', published')
    <3>1. ASSUME NEW i \in 1..(q - 1) PROVE queue'[i] = Web!Event(published - (q - 1) + i)
      <4>1. i + 1 \in 1..q /\ published - q + (i + 1) = published - (q - 1) + i
        BY <1>2, <1>3
      <4> QED
        BY <1>4, <2>2, <4>1
    <3>2. q - 1 <= QueueSize
      BY <1>2, <1>3
    <3> QED
      BY <1>1, <1>4, <3>1, <3>2 DEF Queued
  <2>7. Current'
    <3>1. published' - Len(queue') - Len(wire') = first
      <4>1. published - (q - 1) - (w + 1) = published - q - w
        BY <1>2, <1>3
      <4> QED
        BY <1>1, <1>4, <1>5, <4>1
    <3>2. ASSUME NEW i \in 1..(w + 1) PROVE wire'[i].n = first + i
      <4>1. CASE i \in 1..w
        BY <1>5, <2>3, <4>1
      <4>2. CASE i = w + 1
        <5>1. first + i = published - q + 1
          BY <1>2, <1>3, <4>2
        <5> QED
          BY <1>5, <2>4, <4>2, <5>1
      <4> QED
        BY <1>3, <4>1, <4>2
    <3>3. w > 0 => wire'[1] = wire[1]
      BY <1>3, <1>5
    <3>4. Len(wire') > 0
      BY <1>3, <1>5
    <3> HIDE DEF first
    <3>5. have' = have
      BY <1>1
    <3> QED
      BY <1>5, <2>3, <3>1, <3>2, <3>3, <3>4, <3>5 DEF Current
  <2> QED
    BY <1>1, <1>6, <2>5, <2>6, <2>7 DEF WebInv
<1> QED
  BY <1>9, <1>10

(* What the browser reads next is the next event, or tells it everything    *)
(* up to it (client.ts).                                                    *)
LEMMA WebReceives ==
  ASSUME WebLimits, WebInv, Web!Receive
  PROVE  WebInv'
<1> DEFINE x == Head(wire)
           q == Len(queue)
           w == Len(wire)
           first == published - q - w
<1>1. /\ wire # << >> /\ wire' = Tail(wire) /\ have' = have \cup Web!Shows(x)
      /\ last' = IF x.kind = "event" THEN x.n ELSE last
      /\ UNCHANGED << task, pending, resolution, published, kept, queue, link, drops >>
  BY DEF Web!Receive, Web!work
<1>2. /\ queue \in Seq(Items(published)) /\ wire \in Seq(Items(published)) /\ published \in Nat
      /\ have \subseteq 1..published /\ last \in 0..published /\ 1..last \subseteq have
  BY DEF WebInv, WebTypes, WebLimits
<1>3. q \in Nat /\ w \in Nat /\ w > 0 /\ x = wire[1] /\ x \in Items(published)
  BY <1>1, <1>2
<1>4. /\ wire' \in Seq(Items(published)) /\ Len(wire') = w - 1
      /\ \A i \in 1..(w - 1) : wire'[i] = wire[i + 1]
  BY <1>1, <1>2, HeadTailProperties
<1> HIDE DEF x, q, w
<1>5. /\ \A i \in 1..(w - 1) :
           wire[i + 1] = Web!Sync \/ (wire[i] # Web!Sync /\ wire[i + 1] = Web!Event(wire[i].n + 1))
      /\ x.kind = "event" => 1..(x.n - 1) \subseteq have
      /\ link = "off" => w = 0
      /\ link = "on" => \A i \in 1..w : wire[i] # Web!Sync
  <2>1. link = "off" => w = 0
    BY DEF WebInv, InOrder, w
  <2> QED
    BY <1>3, <2>1 DEF WebInv, InOrder, w
<1>6. /\ \/ x = Web!Sync /\ x.kind = "sync_required"
         \/ x # Web!Sync /\ x.kind = "event" /\ x.n \in 1..published /\ Web!Shows(x) = { x.n }
         \/ x # Web!Sync /\ x.kind = "session.snapshot" /\ x.n \in 0..published /\ Web!Shows(x) = 1..x.n
      /\ Web!Shows(x) \subseteq 1..published
  BY <1>2, <1>3, WebItems
<1>7. x # Web!Sync => x.n \in Nat /\ 1..x.n \subseteq have'
  <2>1. CASE x.kind = "event" /\ x # Web!Sync
    <3>1. \A e \in 1..x.n : e \in 1..(x.n - 1) \/ e = x.n
      BY <1>6, <2>1
    <3> QED
      BY <1>1, <1>5, <1>6, <2>1, <3>1
  <2> QED
    BY <1>1, <1>6, <2>1
<1>8. have' \subseteq 1..published /\ last' \in 0..published /\ 1..last' \subseteq have'
  <2>1. have' \subseteq 1..published
    BY <1>1, <1>2, <1>6
  <2>2. CASE x.kind = "event"
    BY <1>1, <1>6, <1>7, <2>1, <2>2
  <2>3. CASE x.kind # "event"
    BY <1>1, <1>2, <2>1, <2>3
  <2> QED
    BY <2>1, <2>2, <2>3
<1>9. WebTypes'
  BY <1>1, <1>4, <1>8 DEF WebInv, WebTypes
<1>10. InOrder'
  <2>1. ASSUME NEW i \in 1..(w - 1 - 1)
        PROVE  wire'[i + 1] = Web!Sync \/ (wire'[i] # Web!Sync /\ wire'[i + 1] = Web!Event(wire'[i].n + 1))
    <3>1. i \in 1..(w - 1) /\ i + 1 \in 1..(w - 1)
      BY <1>3
    <3> QED
      BY <1>4, <1>5, <3>1
  <2>2. ASSUME w - 1 > 0, wire'[1].kind = "event" PROVE 1..(wire'[1].n - 1) \subseteq have'
    <3>1. wire'[1] = wire[2] /\ wire[2] # Web!Sync
      <4>1. 1 \in 1..(w - 1)
        BY <1>3, <2>2
      <4> QED
        BY <1>4, <2>2, <4>1 DEF Web!Sync
    <3>2. x # Web!Sync /\ wire[2] = Web!Event(x.n + 1)
      <4>1. 1 \in 1..(w - 1)
        BY <1>3, <2>2
      <4> QED
        BY <1>3, <1>5, <3>1, <4>1
    <3>3. wire'[1].n - 1 = x.n
      <4>1. wire'[1].n = x.n + 1
        BY <3>1, <3>2 DEF Web!Event
      <4> QED
        BY <1>7, <3>2, <4>1
    <3> QED
      BY <1>7, <3>2, <3>3
  <2>3. link # "off"
    BY <1>3, <1>5
  <2>4. link = "on" => \A i \in 1..(w - 1) : wire'[i] # Web!Sync
    <3>1. \A i \in 1..(w - 1) : i + 1 \in 1..w
      BY <1>3
    <3> QED
      BY <1>4, <1>5, <3>1
  <2> QED
    BY <1>1, <1>4, <2>1, <2>2, <2>3, <2>4 DEF InOrder
<1>11. Current'
  <2> SUFFICES ASSUME link = "on", ~Barred(queue)
               PROVE  LET f == published - Len(queue) - Len(wire')
                      IN  /\ \A i \in 1..Len(wire') : wire'[i].n = f + i
                          /\ (Len(wire') > 0 /\ wire'[1].kind = "session.snapshot") \/ 1..f \subseteq have'
    BY <1>1 DEF Current, Barred
  <2>1. \A i \in 1..w : wire[i].n = first + i
    BY DEF WebInv, Current, q, w
  <2>2. published - Len(queue) - Len(wire') = first + 1
    BY <1>2, <1>3, <1>4 DEF q
  <2>3. ASSUME NEW i \in 1..(w - 1) PROVE wire'[i].n = (first + 1) + i
    <3>1. i + 1 \in 1..w /\ first + (i + 1) = (first + 1) + i
      BY <1>2, <1>3
    <3> QED
      BY <1>4, <2>1, <3>1
  <2>4. x # Web!Sync /\ x.n = first + 1
    <3>1. 1 \in 1..w
      BY <1>3
    <3> QED
      BY <1>3, <1>5, <2>1, <3>1
  <2> HIDE DEF first
  <2> QED
    BY <1>4, <1>7, <2>2, <2>3, <2>4
<1>12. link' = "on" => Queued(queue', published')
  BY <1>1 DEF WebInv
<1> QED
  BY <1>8, <1>9, <1>10, <1>11, <1>12 DEF WebInv

(* A connection that is gone has nothing on it (session_events, client.ts). *)
LEMMA WebEnds ==
  ASSUME WebLimits, WebInv, Web!Drop \/ Web!Restart
  PROVE  WebInv'
<1>1. /\ link' = "off" /\ wire' = << >> /\ queue' = << >>
      /\ UNCHANGED << published, have, last >>
      /\ task' \in { task, [ run |-> "none", cancel |-> FALSE ] }
      /\ kept' \in { kept, << >> }
  BY DEF Web!Drop, Web!Restart, Web!work, Web!NoTask
<1>2. published \in Nat /\ Capacity \in Nat /\ QueueSize \in Nat
  BY DEF WebLimits, WebInv, WebTypes
<1>3. /\ kept' \in Seq(Nat) /\ Len(kept') <= Capacity /\ Len(kept') <= published
      /\ \A i \in 1..Len(kept') : kept'[i] = published - Len(kept') + i
  <2>1. CASE kept' = kept
    BY <2>1 DEF WebInv, WebTypes
  <2>2. CASE kept' = << >>
    BY <1>2, <2>2
  <2> QED
    BY <1>1, <2>1, <2>2
<1>4. task' \in [ run : { "none", "prompt", "approve" }, cancel : BOOLEAN ]
  <2>1. /\ task \in [ run : { "none", "prompt", "approve" }, cancel : BOOLEAN ]
        /\ [ run |-> "none", cancel |-> FALSE ] \in [ run : { "none", "prompt", "approve" }, cancel : BOOLEAN ]
    BY DEF WebInv, WebTypes
  <2> QED
    BY <1>1, <2>1
<1>5. WebTypes'
  BY <1>1, <1>2, <1>3, <1>4 DEF WebInv, WebTypes
<1> QED
  BY <1>1, <1>5 DEF WebInv, InOrder, Current

LEMMA WebInvStep ==
  ASSUME WebLimits
  PROVE  WebInv /\ [Web!Next]_(Web!webVars) => WebInv'
<1> SUFFICES ASSUME WebInv, [Web!Next]_(Web!webVars) PROVE WebInv'
  OBVIOUS
<1>1. task \in [ run : { "none", "prompt", "approve" }, cancel : BOOLEAN ]
  BY DEF WebInv, WebTypes
<1>2. CASE Web!SubmitPrompt \/ Web!DecideApproval \/ Web!TakeDecision
  BY <1>1, <1>2, WebWork DEF Web!SubmitPrompt, Web!DecideApproval, Web!TakeDecision, Web!NoTask
<1>3. CASE Web!Cancel \/ Web!Suspend \/ Web!TaskEnds \/ Web!CancelEnds
  BY <1>1, <1>3, WebWork DEF Web!Cancel, Web!Suspend, Web!TaskEnds, Web!CancelEnds, Web!NoTask
<1>4. ASSUME NEW failed \in BOOLEAN, Web!Frame(failed) PROVE WebInv'
  <2>1. (\E n \in { 1, 2 } : Web!Publish(n)) /\ UNCHANGED << task, wire, link, have, last >>
    BY <1>4 DEF Web!Frame
  <2> QED
    BY <1>1, <2>1, WebPublishes
<1>5. CASE Web!TaskFails
  <2>1. /\ Web!Publish(2) /\ UNCHANGED << wire, link, have, last >>
        /\ task' = [ task EXCEPT !.run = "none" ]
    BY <1>5 DEF Web!TaskFails, Web!NoTask
  <2> QED
    BY <1>1, <2>1, WebPublishes
<1>6. CASE UNCHANGED Web!webVars
  <2>1. UNCHANGED << published, kept, Web!stream >> /\ task' = task
    BY <1>6 DEF Web!webVars, Web!stream
  <2> QED
    BY <1>1, <2>1, WebWork
<1> QED
  BY <1>2, <1>3, <1>4, <1>5, <1>6, WebConnects, WebDelivers, WebReceives, WebEnds DEF Web!Next

(* While the browser is connected and no barrier waits for it, it has or is *)
(* about to read every event.                                               *)
LEMMA WebCovers ==
  ASSUME WebInv, link = "on", Web!Sync \notin Web!Range(queue)
  PROVE  have \cup Web!Coming = 1..published
<1> DEFINE q == Len(queue)
           w == Len(wire)
           first == published - q - w
<1>1. /\ queue \in Seq(Items(published)) /\ wire \in Seq(Items(published)) /\ published \in Nat
      /\ have \subseteq 1..published
  BY DEF WebInv, WebTypes
<1>2. /\ q \in Nat /\ w \in Nat
      /\ \A i \in 1..q : queue[i] \in Items(published) /\ queue[i] \in Web!Range(wire \o queue)
      /\ \A i \in 1..w : wire[i] \in Items(published) /\ wire[i] \in Web!Range(wire \o queue)
      /\ \A x \in Web!Range(wire \o queue) : x \in Items(published)
  <2>1. /\ q \in Nat /\ w \in Nat
        /\ \A i \in 1..q : queue[i] \in Items(published)
        /\ \A i \in 1..w : wire[i] \in Items(published)
    BY <1>1
  <2>2. wire \o queue \in Seq(Items(published)) /\ DOMAIN (wire \o queue) = 1..(w + q)
    BY <1>1
  <2>3. ASSUME NEW i \in 1..w PROVE i \in 1..(w + q) /\ (wire \o queue)[i] = wire[i]
    BY <1>1, <2>1, ConcatProperties
  <2>4. ASSUME NEW i \in 1..q PROVE w + i \in 1..(w + q) /\ (wire \o queue)[w + i] = queue[i]
    <3>1. w + i \in 1..(w + q) /\ w + i > w /\ (w + i) - w = i
      BY <2>1
    <3> QED
      BY <1>1, <3>1, ConcatProperties
  <2>5. \A i \in 1..w : wire[i] \in Web!Range(wire \o queue)
    BY <2>2, <2>3 DEF Web!Range
  <2>6. \A i \in 1..q : queue[i] \in Web!Range(wire \o queue)
    BY <2>2, <2>4 DEF Web!Range
  <2>7. \A x \in Web!Range(wire \o queue) : x \in Items(published)
    BY <2>2 DEF Web!Range
  <2> QED
    BY <2>1, <2>5, <2>6, <2>7
<1>3. ~Barred(queue)
  BY <1>1 DEF Barred, Web!Range
<1>4. \A i \in 1..q : queue[i] = Web!Event(published - q + i)
  BY <1>3 DEF WebInv, Queued
<1>5. /\ \A i \in 1..w : wire[i].n = first + i /\ wire[i] # Web!Sync
      /\ (w > 0 /\ wire[1].kind = "session.snapshot") \/ 1..first \subseteq have
  BY <1>3 DEF WebInv, Current, InOrder
<1> HIDE DEF q, w
<1>6. ASSUME NEW x \in Web!Range(wire \o queue) PROVE Web!Shows(x) \subseteq 1..published
  BY <1>1, <1>2, WebItems
<1>7. ASSUME NEW x \in Web!Range(wire \o queue), NEW e \in Web!Shows(x) PROVE e \in Web!Coming
  BY DEF Web!Coming
<1>8. ASSUME NEW i \in 1..w PROVE (first + i) \in 1..published => (first + i) \in Web!Coming
  <2>1. first + i \in 1..published => first + i \in Web!Shows(wire[i])
    BY <1>1, <1>2, <1>5, WebItems
  <2> QED
    BY <1>2, <1>7, <2>1
<1>9. ASSUME NEW e \in 1..published PROVE e \in have \cup Web!Coming
  <2>1. CASE e <= first
    <3>1. CASE 1..first \subseteq have
      BY <1>1, <1>2, <2>1, <3>1
    <3>2. CASE w > 0 /\ wire[1].kind = "session.snapshot"
      <4>1. wire[1].n = first + 1 /\ 1 \in 1..w
        BY <1>2, <1>5, <3>2
      <4>2. Web!Shows(wire[1]) = 1..wire[1].n
        BY <3>2 DEF Web!Shows
      <4>3. e \in Web!Shows(wire[1])
        BY <1>1, <1>2, <2>1, <4>1, <4>2
      <4> QED
        BY <1>2, <1>7, <4>1, <4>3
    <3> QED
      BY <1>5, <3>1, <3>2
  <2>2. CASE e > first /\ e <= first + w
    <3>1. e - first \in 1..w /\ first + (e - first) = e
      BY <1>1, <1>2, <2>2
    <3> QED
      BY <1>8, <3>1
  <2>3. CASE e > first + w
    <3>1. e - (published - q) \in 1..q /\ published - q + (e - (published - q)) = e
      BY <1>1, <1>2, <2>3
    <3>2. queue[e - (published - q)] = Web!Event(e)
      BY <1>4, <3>1
    <3>3. e \in Web!Shows(Web!Event(e))
      BY DEF Web!Shows, Web!Event
    <3> QED
      BY <1>2, <1>7, <3>1, <3>2, <3>3
  <2> QED
    BY <1>1, <1>2, <2>1, <2>2, <2>3
<1> QED
  BY <1>1, <1>6, <1>9 DEF Web!Coming

(* However many events are published, whenever the connection drops or the  *)
(* backend starts again: a connected browser misses no event unless the     *)
(* barrier is on its way, and what it has up to its last event id is        *)
(* complete (EventHub.publish, subscribe_after, session_events).            *)
THEOREM BrowsersMissNothing ==
  ASSUME WebLimits
  PROVE  Web!Spec => []NothingMissed
<1>1. WebInv => Web!TypeOK
  BY DEF WebInv, WebTypes, Web!TypeOK, Web!NoTask
<1>2. WebInv => Web!NothingMissed
  BY WebCovers DEF WebInv, Web!NothingMissed
<1>3. Web!Init => WebInv
  BY WebInvInit
<1>4. WebInv /\ [Web!Next]_(Web!webVars) => WebInv'
  BY WebInvStep
<1> QED
  BY <1>1, <1>2, <1>3, <1>4, PTL DEF Web!Spec, NothingMissed

-------------------------------------------------------------------------------
(* The task plan *)

PlanLimits == MaxSteps \in Nat /\ MaxRevision \in Nat

Lists == { s \in Seq(Plans!Steps) : Len(s) <= MaxSteps }

PlanRecords ==
    [ status : { "none", "proposed", "active", "completed", "rejected", "abandoned" },
      origin : { "none", "plan", "build" }, revision : 0..MaxRevision, steps : Lists,
      pending : Lists, closing : SUBSET Plans!Refs ]

PlanInv ==
    /\ plan \in PlanRecords /\ evidence \subseteq Plans!Refs /\ plan.closing \subseteq evidence
    /\ plan.status = "none" => plan.steps = << >> /\ plan.pending = << >>

LEMMA PlanInvInit ==
  ASSUME PlanLimits
  PROVE  Plans!Init => PlanInv
<1>1. << >> \in Lists
  BY DEF Lists, PlanLimits
<1>2. 0 \in 0..MaxRevision
  BY DEF PlanLimits
<1> QED
  BY <1>1, <1>2 DEF Plans!Init, Plans!NoPlan, Plans!NoPending, PlanInv, PlanRecords

LEMMA ListFacts ==
  ASSUME NEW s \in Lists
  PROVE  /\ Len(s) \in Nat /\ Len(s) <= MaxSteps /\ DOMAIN s = 1..Len(s)
         /\ \A i \in 1..Len(s) : s[i] \in Plans!Steps
  BY DEF Lists

(* A list is a function on the first positions.                             *)
LEMMA ListIs ==
  ASSUME PlanLimits, NEW n \in Nat, n <= MaxSteps, NEW f, f = [ i \in 1..n |-> f[i] ],
         \A i \in 1..n : f[i] \in Plans!Steps
  PROVE  f \in Lists
<1>1. f \in [ 1..n -> Plans!Steps ]
  BY Zenon
<1>2. f \in Seq(Plans!Steps) /\ Len(f) = n
  BY <1>1
<1> QED
  BY <1>2 DEF Lists

(* The last of the steps with a definition (_preserve_matching_steps).      *)
LEMMA LastOne ==
  ASSUME NEW n \in Nat, NEW S \in SUBSET (1..n), S # { }
  PROVE  (CHOOSE j \in S : \A k \in S : k <= j) \in S
<1> DEFINE T == { n - j : j \in S }
<1>1. T \subseteq Nat /\ T # { }
  <2>1. \A j \in S : n - j \in Nat
    OBVIOUS
  <2> QED
    BY <2>1
<1>2. PICK i \in T : \A j \in T : << j, i >> \notin OpToRel(<, Nat)
  BY <1>1, WFMin, NatLessThanWellFounded
<1>3. PICK m \in S : i = n - m
  BY <1>2
<1>4. ASSUME NEW k \in S PROVE k <= m
  <2>1. n - k \in T /\ n - k \in Nat /\ i \in Nat
    BY <1>1, <1>2
  <2>2. ~(n - k < i)
    BY <1>2, <2>1 DEF OpToRel
  <2>3. n \in Nat /\ k \in Nat /\ m \in Nat
    BY <1>3
  <2> QED
    BY <1>3, <2>2, <2>3
<1> QED
  BY <1>3, <1>4

(* What a revision keeps is a list of steps, with its definitions.          *)
LEMMA KeptFacts ==
  ASSUME PlanLimits, NEW previous \in Lists, NEW replacement \in Lists
  PROVE  LET s == Plans!Kept(previous, replacement)
         IN  /\ s \in Lists /\ DOMAIN s = DOMAIN replacement
             /\ \A i \in DOMAIN replacement : s[i].def = replacement[i].def
             /\ \A i \in DOMAIN previous, j \in DOMAIN replacement :
                  Plans!Alone(previous, i) /\ s[j].def = previous[i].def => s[j] = previous[i]
<1> DEFINE s == Plans!Kept(previous, replacement)
           same(i) == { j \in DOMAIN previous : previous[j].def = replacement[i].def }
           latest(i) == CHOOSE j \in same(i) : \A k \in same(i) : k <= j
           m == Len(previous)
           n == Len(replacement)
<1>1. /\ m \in Nat /\ n \in Nat /\ n <= MaxSteps /\ DOMAIN previous = 1..m /\ DOMAIN replacement = 1..n
      /\ \A i \in 1..m : previous[i] \in Plans!Steps
      /\ \A i \in 1..n : replacement[i] \in Plans!Steps
  BY ListFacts
<1>2. s = [ i \in 1..n |-> IF same(i) = { } THEN replacement[i] ELSE previous[latest(i)] ]
  BY <1>1 DEF Plans!Kept
<1>3. ASSUME NEW i \in 1..n, same(i) # { } PROVE latest(i) \in same(i)
  <2>1. same(i) \in SUBSET (1..m)
    BY <1>1
  <2> HIDE DEF same
  <2> QED
    BY <1>1, <1>3, <2>1, LastOne
<1> HIDE DEF s, latest, m, n
<1>4. \A i \in 1..n : s[i] = IF same(i) = { } THEN replacement[i] ELSE previous[latest(i)]
  BY <1>2
<1>5. \A i \in 1..n : s[i] \in Plans!Steps /\ s[i].def = replacement[i].def
  BY <1>1, <1>3, <1>4
<1>6. s \in Lists /\ DOMAIN s = DOMAIN replacement
  <2>1. s = [ i \in 1..n |-> s[i] ] /\ DOMAIN s = 1..n
    BY <1>2, <1>4
  <2> QED
    BY <1>1, <1>5, <2>1, ListIs
<1>7. ASSUME NEW i \in 1..m, NEW j \in 1..n, Plans!Alone(previous, i), s[j].def = previous[i].def
      PROVE  s[j] = previous[i]
  <2>1. i \in same(j)
    BY <1>1, <1>5, <1>7
  <2>2. latest(j) \in same(j)
    BY <1>3, <2>1
  <2>3. latest(j) = i
    BY <1>1, <1>5, <1>7, <2>2 DEF Plans!Alone
  <2> QED
    BY <1>4, <2>1, <2>3
<1> QED
  BY <1>1, <1>5, <1>6, <1>7 DEF s

(* The steps of a new plan and of a revision (_new_step).                   *)
LEMMA NewStepsType ==
  ASSUME PlanLimits, NEW prefix \in 0..MaxRevision, NEW ds \in Plans!Plans
  PROVE  Plans!NewSteps(prefix, ds) \in Lists
<1>1. PICK n \in 1..MaxSteps : ds \in [ 1..n -> Definitions ]
  BY DEF Plans!Plans
<1> DEFINE f == Plans!NewSteps(prefix, ds)
<1>2. f = [ i \in 1..n |-> Plans!NewStep(prefix, ds[i], i) ]
  BY <1>1 DEF Plans!NewSteps
<1>3. n \in Nat /\ n <= MaxSteps /\ \A i \in 1..n : i \in 1..MaxSteps
  BY <1>1 DEF PlanLimits
<1>4. ASSUME NEW i \in 1..n PROVE Plans!NewStep(prefix, ds[i], i) \in Plans!Steps
  <2>1. ds[i] \in Definitions /\ << prefix, i >> \in Plans!Ids
    BY <1>1, <1>3 DEF Plans!Ids
  <2> QED
    BY <2>1 DEF Plans!NewStep, Plans!Steps
<1> HIDE DEF f
<1>5. f = [ i \in 1..n |-> f[i] ] /\ \A i \in 1..n : f[i] \in Plans!Steps
  BY <1>2, <1>4
<1> QED
  BY <1>3, <1>5, ListIs DEF f

(* A command that is applied makes the plan it computes the next revision.  *)
LEMMA PlanBecomes ==
  ASSUME PlanLimits, PlanInv, NEW new \in PlanRecords, Plans!Becomes(new),
         new.closing \subseteq evidence,
         new.status = "none" => new.steps = << >> /\ new.pending = << >>
  PROVE  PlanInv' /\ (plan'.steps = plan.steps \/ plan'.steps = new.steps)
<1>1. CASE plan' = plan
  BY <1>1 DEF Plans!Becomes, PlanInv
<1>2. CASE plan' = [ new EXCEPT !.revision = plan.revision + 1 ]
  <2>1. plan.revision + 1 \in 0..MaxRevision
    BY DEF Plans!Becomes, PlanInv, PlanRecords, PlanLimits
  <2>2. /\ plan' \in PlanRecords /\ plan'.closing = new.closing /\ plan'.status = new.status
        /\ plan'.steps = new.steps /\ plan'.pending = new.pending
    BY <1>2, <2>1 DEF PlanRecords
  <2> QED
    BY <2>2 DEF Plans!Becomes, PlanInv
<1> QED
  BY <1>1, <1>2 DEF Plans!Becomes

LEMMA SameSteps ==
  ASSUME plan'.steps = plan.steps
  PROVE  Plans!StepKeepsWork
<1>1. \A i, j \in DOMAIN plan.steps :
        Plans!Alone(plan.steps, i) /\ plan.steps[j].def = plan.steps[i].def => i = j
  BY DEF Plans!Alone
<1> QED
  BY <1>1 DEF Plans!StepKeepsWork

LEMMA KeptSteps ==
  ASSUME PlanLimits, PlanInv, NEW r \in Lists, plan'.steps = Plans!Kept(plan.steps, r),
         plan.status = "active" /\ plan.origin = "plan" => r = plan.pending
  PROVE  Plans!StepKeepsWork
<1>1. plan.steps \in Lists
  BY DEF PlanInv, PlanRecords
<1>2. /\ DOMAIN plan'.steps = DOMAIN r
      /\ \A i \in DOMAIN r : plan'.steps[i].def = r[i].def
      /\ \A i \in DOMAIN plan.steps, j \in DOMAIN r :
           Plans!Alone(plan.steps, i) /\ plan'.steps[j].def = plan.steps[i].def =>
             plan'.steps[j] = plan.steps[i]
  BY <1>1, KeptFacts
<1>3. Plans!Defs(plan'.steps) = Plans!Defs(r)
  BY <1>2 DEF Plans!Defs
<1> QED
  BY <1>2, <1>3 DEF Plans!StepKeepsWork

(* Steps for which there were none.                                         *)
LEMMA FirstSteps ==
  ASSUME PlanInv, plan.status = "none"
  PROVE  Plans!StepKeepsWork
  BY DEF PlanInv, Plans!StepKeepsWork

(* A completed step is not updated to another status, and an update changes *)
(* no definition (_update_plan_progress).                                   *)
LEMMA UpdateKeeps ==
  ASSUME PlanLimits, PlanInv, NEW updates \in Plans!Updates, Plans!UpdatePlanProgress(updates)
  PROVE  PlanInv' /\ Plans!StepKeepsWork
<1> DEFINE Now(step) == IF step.id \in DOMAIN updates THEN Plans!Updated(step, updates[step.id]) ELSE step
           steps == [ i \in DOMAIN plan.steps |-> Now(plan.steps[i]) ]
           n == Len(plan.steps)
<1>1. /\ plan.status = "active"
      /\ \A i \in DOMAIN steps : plan.steps[i].status = "completed" => steps[i].status = "completed"
      /\ Plans!Becomes([ plan EXCEPT !.steps = steps, !.closing = { } ])
  BY DEF Plans!UpdatePlanProgress
<1>2. /\ n \in Nat /\ n <= MaxSteps /\ DOMAIN plan.steps = 1..n
      /\ \A i \in 1..n : plan.steps[i] \in Plans!Steps
  BY ListFacts DEF PlanInv, PlanRecords
<1>3. \A x \in DOMAIN updates : updates[x].status \in { "pending", "in_progress", "completed" }
  BY DEF Plans!Updates
<1>4. ASSUME NEW step \in Plans!Steps PROVE Now(step) \in Plans!Steps /\ Now(step).def = step.def
  <2>1. CASE step.id \in DOMAIN updates
    <3>1. updates[step.id].refs \cap evidence \subseteq Plans!Refs
      BY DEF PlanInv
    <3> QED
      BY <1>3, <2>1, <3>1 DEF Plans!Updated, Plans!Steps
  <2> QED
    BY <2>1
<1> HIDE DEF Now, n
<1>5. /\ steps = [ i \in 1..n |-> steps[i] ]
      /\ \A i \in 1..n : steps[i] \in Plans!Steps /\ steps[i].def = plan.steps[i].def
  BY <1>2, <1>4
<1>6. DOMAIN steps = DOMAIN plan.steps
  BY <1>2
<1> HIDE DEF steps
<1>7. steps \in Lists
  BY <1>2, <1>5, ListIs
<1> DEFINE new == [ plan EXCEPT !.steps = steps, !.closing = { } ]
<1>8. /\ new \in PlanRecords /\ new.closing = { } /\ new.status = "active" /\ new.steps = steps
      /\ new.pending = plan.pending
  BY <1>1, <1>7 DEF PlanInv, PlanRecords
<1> HIDE DEF new
<1>9. PlanInv' /\ (plan'.steps = plan.steps \/ plan'.steps = steps) /\ plan'.pending = plan.pending
  <2>1. Plans!Becomes(new)
    BY <1>1 DEF new
  <2>2. plan'.pending = plan.pending
    BY <1>8, <2>1 DEF Plans!Becomes, PlanRecords
  <2> QED
    BY <1>8, <2>1, <2>2, PlanBecomes
<1>10. CASE plan'.steps = steps
  <2>1. \A i, j \in DOMAIN plan.steps :
          Plans!Alone(plan.steps, i) /\ steps[j].def = plan.steps[i].def => i = j
    BY <1>2, <1>5 DEF Plans!Alone
  <2>2. Plans!Defs(steps) = Plans!Defs(plan.steps)
    BY <1>2, <1>5, <1>6 DEF Plans!Defs
  <2>3. Plans!SameWork
    BY <1>9, <1>10, <2>2 DEF Plans!SameWork
  <2>4. Plans!Defs(plan'.steps) = Plans!Defs(plan.steps)
    BY <2>3 DEF Plans!SameWork
  <2>5. ASSUME NEW i \in DOMAIN plan.steps, NEW j \in DOMAIN plan'.steps,
               plan.steps[i].status = "completed", Plans!Alone(plan.steps, i),
               plan'.steps[j].def = plan.steps[i].def
        PROVE  plan'.steps[j].status = "completed"
    BY <1>1, <1>6, <1>10, <2>1, <2>5
  <2> QED
    BY <1>9, <2>3, <2>4, <2>5 DEF Plans!StepKeepsWork
<1> QED
  BY <1>9, <1>10, SameSteps

(* A command that keeps the steps, and one that replaces them and keeps     *)
(* what was done.                                                           *)
LEMMA PlanStays ==
  ASSUME PlanLimits, PlanInv, NEW new \in PlanRecords, Plans!Becomes(new),
         new.closing \subseteq evidence, new.steps = plan.steps,
         new.status # "none"
  PROVE  PlanInv' /\ Plans!StepKeepsWork
<1>1. PlanInv' /\ plan'.steps = plan.steps
  BY PlanBecomes
<1> QED
  BY <1>1, SameSteps

LEMMA PlanIsRevised ==
  ASSUME PlanLimits, PlanInv, NEW new \in PlanRecords, Plans!Becomes(new),
         new.closing = { }, new.status # "none",
         NEW r \in Lists, new.steps = Plans!Kept(plan.steps, r),
         plan.status = "active" /\ plan.origin = "plan" => r = plan.pending
  PROVE  PlanInv' /\ Plans!StepKeepsWork
<1>1. PlanInv' /\ (plan'.steps = plan.steps \/ plan'.steps = Plans!Kept(plan.steps, r))
  BY PlanBecomes
<1> QED
  BY <1>1, SameSteps, KeptSteps

LEMMA PlanSubmits ==
  ASSUME PlanLimits, PlanInv, NEW mode \in { "plan", "build" }, NEW ds \in Plans!Plans,
         Plans!SubmitPlan(mode, ds)
  PROVE  PlanInv' /\ Plans!StepKeepsWork
<1> DEFINE steps == Plans!NewSteps(0, ds)
           first == [ Plans!NoPlan EXCEPT !.status = IF mode = "plan" THEN "proposed" ELSE "active",
                                         !.origin = mode, !.steps = steps ]
           again == [ plan EXCEPT !.steps = Plans!Kept(plan.steps, steps),
                                  !.pending = Plans!NoPending, !.closing = { } ]
<1>1. 0 \in 0..MaxRevision /\ << >> \in Lists
  BY DEF PlanLimits, Lists
<1>2. steps \in Lists
  BY <1>1, NewStepsType
<1>3. \/ plan.status = "none" /\ Plans!Becomes(first)
      \/ plan.status = "proposed" /\ Plans!Becomes(again)
  BY DEF Plans!SubmitPlan
<1> HIDE DEF steps
<1>4. CASE plan.status = "none" /\ Plans!Becomes(first)
  <2>1. first \in PlanRecords /\ first.closing = { } /\ first.status # "none"
    BY <1>1, <1>2 DEF PlanRecords, Plans!NoPlan, Plans!NoPending
  <2> HIDE DEF first
  <2> QED
    BY <1>4, <2>1, PlanBecomes, FirstSteps
<1>5. CASE plan.status = "proposed" /\ Plans!Becomes(again)
  <2>1. Plans!Kept(plan.steps, steps) \in Lists
    BY <1>2, KeptFacts DEF PlanInv, PlanRecords
  <2>2. /\ again \in PlanRecords /\ again.closing = { } /\ again.status # "none"
        /\ again.steps = Plans!Kept(plan.steps, steps)
    BY <1>1, <1>5, <2>1 DEF PlanInv, PlanRecords, Plans!NoPending
  <2> HIDE DEF again
  <2> QED
    BY <1>2, <1>5, <2>2, PlanIsRevised
<1> QED
  BY <1>3, <1>4, <1>5

LEMMA PlanProposes ==
  ASSUME PlanLimits, PlanInv, NEW repeated \in BOOLEAN, NEW ds \in Plans!Plans,
         Plans!ProposePlanRevision(repeated, ds)
  PROVE  PlanInv' /\ Plans!StepKeepsWork
<1> DEFINE r == Plans!NewSteps(plan.revision + 1, ds)
           steps == Plans!Kept(plan.steps, r)
           applied == [ plan EXCEPT !.steps = steps, !.closing = { } ]
           waits == [ plan EXCEPT !.pending = steps ]
<1>1. plan.status = "active" /\ plan.revision < MaxRevision
  BY DEF Plans!ProposePlanRevision, Plans!Becomes
<1>2. plan.revision + 1 \in 0..MaxRevision /\ plan.steps \in Lists
  BY <1>1 DEF PlanInv, PlanRecords, PlanLimits
<1>3. r \in Lists
  BY <1>2, NewStepsType
<1>4. \/ plan.origin = "build" /\ repeated /\ Plans!Becomes(applied)
      \/ Plans!Becomes(waits)
  BY DEF Plans!ProposePlanRevision
<1> HIDE DEF r
<1>5. steps \in Lists
  BY <1>2, <1>3, KeptFacts
<1>6. CASE plan.origin = "build" /\ Plans!Becomes(applied)
  <2>1. applied \in PlanRecords /\ applied.closing = { } /\ applied.status # "none" /\ applied.steps = steps
    BY <1>1, <1>5 DEF PlanInv, PlanRecords
  <2> HIDE DEF applied
  <2> QED
    BY <1>3, <1>6, <2>1, PlanIsRevised
<1>7. CASE Plans!Becomes(waits)
  <2>1. waits \in PlanRecords /\ waits.closing = plan.closing /\ waits.steps = plan.steps /\ waits.status = plan.status
    BY <1>5 DEF PlanInv, PlanRecords
  <2> HIDE DEF waits
  <2> QED
    BY <1>1, <1>7, <2>1, PlanStays DEF PlanInv
<1> QED
  BY <1>4, <1>6, <1>7

LEMMA PlanApproves ==
  ASSUME PlanLimits, PlanInv, Plans!ApprovePlanRevision
  PROVE  PlanInv' /\ Plans!StepKeepsWork
<1> DEFINE steps == Plans!Kept(plan.steps, plan.pending)
           new == [ plan EXCEPT !.steps = steps, !.pending = Plans!NoPending, !.closing = { } ]
<1>1. plan.status # "none" /\ Plans!Becomes(new)
  BY DEF Plans!ApprovePlanRevision, PlanInv, Plans!NoPending
<1>2. steps \in Lists /\ << >> \in Lists
  <2>1. plan.steps \in Lists /\ plan.pending \in Lists
    BY DEF PlanInv, PlanRecords
  <2> QED
    BY <2>1, KeptFacts DEF Lists, PlanLimits
<1>3. new \in PlanRecords /\ new.closing = { } /\ new.status # "none" /\ new.steps = steps
  BY <1>1, <1>2 DEF PlanInv, PlanRecords, Plans!NoPending
<1>4. plan.pending \in Lists
  BY DEF PlanInv, PlanRecords
<1> HIDE DEF new
<1> QED
  BY <1>1, <1>3, <1>4, PlanIsRevised

(* The commands that end, decide or close a plan, and the rejection of a    *)
(* revision.                                                                *)
LEMMA PlanSettles ==
  ASSUME PlanLimits, PlanInv,
         \/ \E status \in { "active", "rejected" } : Plans!Decide(status)
         \/ \E refs \in (SUBSET Plans!Refs) \ { { } } : Plans!RequestPlanClose(refs)
         \/ Plans!RejectPlanRevision \/ Plans!Abandon \/ Plans!Complete
  PROVE  PlanInv' /\ Plans!StepKeepsWork
<1> DEFINE Stays(new) == /\ Plans!Becomes(new) /\ new \in PlanRecords /\ new.closing \subseteq evidence
                         /\ new.steps = plan.steps /\ new.status # "none"
<1>1. ASSUME NEW new, Stays(new) PROVE PlanInv' /\ Plans!StepKeepsWork
  BY <1>1, PlanStays
<1>2. << >> \in Lists /\ plan \in PlanRecords /\ plan.closing \subseteq evidence
  BY DEF Lists, PlanLimits, PlanInv
<1>3. ASSUME NEW status \in { "active", "rejected" }, Plans!Decide(status)
      PROVE  Stays([ plan EXCEPT !.status = status ])
  BY <1>2, <1>3 DEF Plans!Decide, PlanRecords
<1>4. ASSUME NEW refs \in SUBSET Plans!Refs, Plans!RequestPlanClose(refs)
      PROVE  PlanInv' /\ Plans!StepKeepsWork
  <2>1. CASE plan' = plan /\ evidence' = evidence
    BY <2>1, SameSteps DEF PlanInv
  <2>2. CASE Plans!Becomes([ plan EXCEPT !.closing = refs \cap evidence ])
    <3>1. plan.status = "active"
      BY <1>4 DEF Plans!RequestPlanClose
    <3>2. Stays([ plan EXCEPT !.closing = refs \cap evidence ])
      BY <1>2, <2>2, <3>1 DEF PlanRecords
    <3> HIDE DEF Stays
    <3> QED
      BY <1>1, <3>2
  <2> QED
    BY <1>4, <2>1, <2>2 DEF Plans!RequestPlanClose
<1>5. Plans!RejectPlanRevision => Stays([ plan EXCEPT !.pending = Plans!NoPending ])
  BY <1>2 DEF Plans!RejectPlanRevision, Plans!NoPending, PlanInv, PlanRecords
<1>6. Plans!Abandon => Stays([ plan EXCEPT !.status = "abandoned", !.pending = Plans!NoPending, !.closing = { } ])
  BY <1>2 DEF Plans!Abandon, Plans!NoPending, PlanRecords
<1>7. Plans!Complete => Stays([ plan EXCEPT !.status = "completed" ])
  BY <1>2 DEF Plans!Complete, PlanRecords
<1> HIDE DEF Stays
<1> QED
  BY <1>1, <1>3, <1>4, <1>5, <1>6, <1>7

LEMMA PlanStep ==
  ASSUME PlanLimits
  PROVE  PlanInv /\ [Plans!Next]_(Plans!planVars) =>
           PlanInv' /\ (Plans!StepKeepsWork \/ UNCHANGED plan)
<1> SUFFICES ASSUME PlanInv, [Plans!Next]_(Plans!planVars)
             PROVE  PlanInv' /\ (Plans!StepKeepsWork \/ UNCHANGED plan)
  OBVIOUS
<1>1. CASE UNCHANGED Plans!planVars
  BY <1>1 DEF Plans!planVars, PlanInv
<1>2. ASSUME NEW ref \in Plans!Refs, Plans!Observe(ref)
      PROVE  PlanInv' /\ UNCHANGED plan
  BY <1>2 DEF Plans!Observe, PlanInv
<1>3. ASSUME NEW mode \in { "plan", "build" }, NEW ds \in Plans!Plans, Plans!SubmitPlan(mode, ds)
      PROVE  PlanInv' /\ Plans!StepKeepsWork
  BY <1>3, PlanSubmits
<1>4. ASSUME NEW updates \in Plans!Updates, Plans!UpdatePlanProgress(updates)
      PROVE  PlanInv' /\ Plans!StepKeepsWork
  BY <1>4, UpdateKeeps
<1>5. ASSUME NEW repeated \in BOOLEAN, NEW ds \in Plans!Plans, Plans!ProposePlanRevision(repeated, ds)
      PROVE  PlanInv' /\ Plans!StepKeepsWork
  BY <1>5, PlanProposes
<1> QED
  BY <1>1, <1>2, <1>3, <1>4, <1>5, PlanApproves, PlanSettles DEF Plans!Next

(* No command takes back completed work or, unless the model completes the  *)
(* step again, its evidence, and the steps of a plan the user approved      *)
(* become others only by a revision he was shown                            *)
(* (_preserve_matching_steps, _update_plan_progress,                        *)
(* _approve_plan_revision, _propose_plan_revision): for every number of     *)
(* steps and revisions.                                                     *)
THEOREM PlansKeepWork ==
  ASSUME PlanLimits
  PROVE  Plans!Spec => []Plans!TypeOK /\ WorkIsKept
<1>1. PlanInv => Plans!TypeOK
  <2>1. ASSUME NEW s \in Lists PROVE Plans!Range(s) \subseteq Plans!Steps
    BY <2>1, ListFacts DEF Plans!Range
  <2> QED
    BY <2>1 DEF PlanInv, PlanRecords, Plans!TypeOK
<1>2. Plans!Init => PlanInv
  BY PlanInvInit
<1>3. PlanInv /\ [Plans!Next]_(Plans!planVars) => PlanInv' /\ [Plans!StepKeepsWork]_plan
  BY PlanStep
<1> QED
  BY <1>1, <1>2, <1>3, PTL DEF Plans!Spec, WorkIsKept

-------------------------------------------------------------------------------
(* The calls of the model *)

ModelLimits == MaxRetries \in Nat /\ MaxBlocks \in Nat

\* Events that Core may be shown, those about a block, and what is in the queue.
ModelEvents == [ event : { "start" } \cup Models!Blocks, at : Nat ]
BlockEvents == [ event : Models!Blocks, at : Nat ]
QueueItems == ModelEvents \cup { Models!Sentinel }
MessageParts == [ kind : Models!Blocks, told : BOOLEAN, marked : BOOLEAN ]
ShownRecords == [ event : { "start" } \cup Models!Blocks, at : Nat, attempt : Nat ]

\* What Core was shown of the response is of the last attempt.
OfAttempt(shown, newest) ==
    shown.attempt \in 1..newest /\ (shown.event \in Models!Blocks => shown.attempt = newest)
ShownLast == \A i \in 1..Len(seen) : OfAttempt(seen[i], attempt)

ModelTypes ==
    /\ purpose \in { "reasoning", "finalization" } /\ streaming \in BOOLEAN
    /\ attempt \in 0..(MaxRetries + 1)
    /\ provider \in { "none", "started", "reading", "ended" }
    /\ message \in Seq(MessageParts) /\ Len(message) <= MaxBlocks
    /\ modelQueue \in Seq(QueueItems) /\ modelClosed \in BOOLEAN
    /\ result \in Models!Retryable \cup Models!Fatal \cup { Models!NoResult, "message" }
    /\ buffer \in Seq(ModelEvents) /\ seen \in Seq(ShownRecords)
    /\ outcome \in { "none", "completed", "failed", "cancelled" }
    /\ ShownLast

ModelPhases ==
    /\ provider = "none" <=> attempt = 0
    /\ provider \in { "none", "started" } => modelQueue = << >>
    /\ outcome = "none" => (modelClosed <=> provider = "ended") /\ (modelClosed <=> result # Models!NoResult)
    /\ outcome \in { "completed", "failed" } => provider = "ended"
    /\ outcome # "none" => attempt # 0
    /\ proposals \subseteq (IF outcome = "completed" THEN { attempt } ELSE { })
    /\ IF purpose = "reasoning" THEN buffer = << >> ELSE outcome = "none" => seen = << >>
    /\ ~streaming /\ outcome = "none" => seen = << >>

\* The end of the stream is the last in the queue.
QueueEnds ==
    outcome = "none" =>
      \A k \in 1..Len(modelQueue) :
        modelQueue[k] = Models!Sentinel => modelClosed /\ k = Len(modelQueue)

\* A part of the message that was told, and what Core was shown or may be.
PartTold(e) == e.at \in 1..Len(message) /\ message[e.at].told /\ message[e.at].kind = e.event
IsSeen(e) == \E k \in 1..Len(seen) : seen[k] = Models!Shown(e)
Announcement(e) == IsSeen(e) \/ \E k \in 1..Len(modelQueue) : modelQueue[k] = e

\* Unless the attempt failed, the parts told are those in the events.
MessageTold ==
    purpose = "reasoning" /\ streaming /\ outcome = "none"
      /\ result \in { Models!NoResult, "message" } =>
        \A e \in BlockEvents : Announcement(e) <=> PartTold(e)

MessageComplete ==
    purpose = "reasoning" /\ outcome = "completed" =>
      \A e \in BlockEvents : IsSeen(e) <=> streaming /\ PartTold(e)

ModelInv == ModelTypes /\ ModelPhases /\ QueueEnds /\ MessageTold /\ MessageComplete

LEMMA ModelInvInit ==
  ASSUME ModelLimits
  PROVE  Models!Init => ModelInv
<1> SUFFICES ASSUME Models!Init PROVE ModelInv
  OBVIOUS
<1>1. /\ attempt = 0 /\ message = << >> /\ modelQueue = << >> /\ buffer = << >> /\ seen = << >>
      /\ Len(seen) = 0 /\ Len(message) = 0 /\ Len(modelQueue) = 0 /\ modelClosed = FALSE /\ outcome = "none"
      /\ provider = "none" /\ proposals = { } /\ streaming \in BOOLEAN
      /\ result = Models!NoResult /\ purpose \in { "reasoning", "finalization" }
  BY DEF Models!Init
<1>2. ModelTypes
  <2>1. attempt \in 0..(MaxRetries + 1) /\ 0 <= MaxBlocks
    BY <1>1 DEF ModelLimits
  <2>2. /\ message \in Seq(MessageParts) /\ modelQueue \in Seq(QueueItems) /\ buffer \in Seq(ModelEvents)
        /\ seen \in Seq(ShownRecords)
    BY <1>1
  <2>3. ShownLast
    BY <1>1 DEF ShownLast
  <2> QED
    BY <1>1, <2>1, <2>2, <2>3 DEF ModelTypes
<1>3. MessageTold /\ QueueEnds /\ MessageComplete
  BY <1>1 DEF MessageTold, QueueEnds, MessageComplete, Announcement, IsSeen, PartTold
<1> QED
  BY <1>1, <1>2, <1>3 DEF ModelInv, ModelPhases

(* Lengths and elements, for the steps.                                     *)
LEMMA ModelFacts ==
  ASSUME ModelLimits, ModelTypes
  PROVE  /\ Len(seen) \in Nat /\ Len(message) \in Nat /\ Len(modelQueue) \in Nat
         /\ DOMAIN seen = 1..Len(seen) /\ DOMAIN message = 1..Len(message)
         /\ \A i \in 1..Len(seen) : seen[i] \in ShownRecords
         /\ \A i \in 1..Len(message) : message[i] \in MessageParts
         /\ \A i \in 1..Len(modelQueue) : modelQueue[i] \in QueueItems
         /\ attempt \in Nat
<1>1. attempt \in Nat
  BY DEF ModelLimits, ModelTypes
<1>2. seen \in Seq(ShownRecords) /\ message \in Seq(MessageParts) /\ modelQueue \in Seq(QueueItems)
  BY DEF ModelTypes
<1> QED
  BY <1>1, <1>2, ElementOfSeq

\* Events are records of two fields.
LEMMA EventFacts ==
  ASSUME NEW kind, NEW i
  PROVE  /\ Models!Event(kind, i).event = kind /\ Models!Event(kind, i).at = i
         /\ Models!Event(kind, i) = [ event |-> kind, at |-> i ]
  BY DEF Models!Event

LEMMA ShownFacts ==
  ASSUME ModelLimits, ModelTypes, attempt # 0, NEW e \in ModelEvents
  PROVE  /\ Models!Shown(e) \in ShownRecords /\ Models!Shown(e).attempt = attempt
         /\ Models!Shown(e).event = e.event /\ Models!Shown(e).at = e.at
         /\ attempt \in 1..attempt
         /\ \A d \in BlockEvents : Models!Shown(e) = Models!Shown(d) => e = d
<1>1. attempt \in Nat /\ attempt \in 1..attempt
  BY ModelFacts
<1>2. \A d : Models!Shown(d).event = d.event /\ Models!Shown(d).at = d.at /\ Models!Shown(d).attempt = attempt
  BY DEF Models!Shown
<1>3. Models!Shown(e) \in ShownRecords
  BY <1>1 DEF Models!Shown, ShownRecords, ModelEvents
<1>4. ASSUME NEW d \in BlockEvents, Models!Shown(e) = Models!Shown(d) PROVE e = d
  <2>1. e.event = d.event /\ e.at = d.at
    BY <1>2, <1>4
  <2> QED
    BY <2>1 DEF ModelEvents, BlockEvents
<1> QED
  BY <1>1, <1>2, <1>3, <1>4

\* No event is the end of the stream.
LEMMA EventIsNoEnd == \A e \in ModelEvents : e # Models!Sentinel
<1>1. Models!Sentinel.event = "end"
  BY DEF Models!Sentinel, Models!Event
<1>2. \A e \in ModelEvents : e.event \in { "start", "text", "thinking", "toolcall" }
  BY DEF ModelEvents, Models!Blocks
<1> QED
  BY <1>1, <1>2

\* Without a result there is no error and no message.
LEMMA ResultFacts == Models!NoResult \notin Models!Retryable \cup Models!Fatal \cup { "message" }
  BY DEF Models!NoResult, Models!Retryable, Models!Fatal

LEMMA BlockIsEvent == BlockEvents \subseteq ModelEvents
  BY DEF BlockEvents, ModelEvents

(* An event that the provider's task pushes comes after those before it     *)
(* (AssistantMessageEventStream.push).                                      *)
LEMMA ModelPushes ==
  ASSUME ModelLimits, ModelInv, NEW e \in ModelEvents, Models!Push(e),
         seen' = seen, modelClosed' = modelClosed, outcome' = outcome, attempt' = attempt
  PROVE  /\ modelQueue' \in Seq(QueueItems) /\ QueueEnds'
         /\ outcome = "none" /\ provider # "ended" =>
              \A d \in BlockEvents : Announcement(d)' <=> Announcement(d) \/ d = e
<1> DEFINE q == modelQueue
           n == Len(modelQueue)
           r == Append(q, e)
<1>1. q \in Seq(QueueItems) /\ n \in Nat /\ e \in QueueItems
  BY ModelFacts DEF ModelInv, ModelTypes, QueueItems
<1>2. r \in Seq(QueueItems) /\ Len(r) = n + 1 /\ (\A i \in 1..n : r[i] = q[i]) /\ r[n + 1] = e
  BY <1>1
<1>3. modelQueue' = q \/ modelQueue' = r
  BY DEF Models!Push
<1>4. outcome = "none" /\ provider # "ended" => modelQueue' = r
  BY DEF Models!Push, ModelInv, ModelPhases
<1>5. outcome = "none" /\ modelQueue' = r /\ modelQueue' # q => ~modelClosed
  BY DEF Models!Push
<1> HIDE DEF r, q
<1>6. modelQueue' \in Seq(QueueItems)
  BY <1>1, <1>2, <1>3
<1>7. QueueEnds'
  <2>1. CASE modelQueue' = q
    BY <2>1 DEF QueueEnds, ModelInv, q
  <2>2. CASE modelQueue' = r /\ modelQueue' # q /\ outcome = "none"
    <3>1. \A k \in 1..n : q[k] # Models!Sentinel
      BY <1>5, <2>2 DEF QueueEnds, ModelInv, q
    <3>2. \A k \in 1..(n + 1) : k \in 1..n \/ k = n + 1
      BY <1>1
    <3>3. \A k \in 1..(n + 1) : r[k] # Models!Sentinel
      BY <1>2, <3>1, <3>2, EventIsNoEnd
    <3> QED
      BY <1>2, <2>2, <3>3 DEF QueueEnds
  <2> QED
    BY <1>3, <2>1, <2>2 DEF QueueEnds
<1>8. ASSUME modelQueue' = r, NEW d \in BlockEvents
      PROVE  Announcement(d)' <=> Announcement(d) \/ d = e
  <2>1. IsSeen(d)' <=> IsSeen(d)
    BY DEF IsSeen, Models!Shown
  <2>2. (\E k \in 1..(n + 1) : r[k] = d) <=> (\E k \in 1..n : q[k] = d) \/ d = e
    <3>1. \A k \in 1..(n + 1) : k \in 1..n \/ k = n + 1
      BY <1>1
    <3>2. \A k \in 1..n : k \in 1..(n + 1)
      BY <1>1
    <3>3. n + 1 \in 1..(n + 1)
      BY <1>1
    <3> QED
      BY <1>2, <3>1, <3>2, <3>3
  <2> QED
    BY <1>2, <1>8, <2>1, <2>2 DEF Announcement, q
<1> QED
  BY <1>4, <1>6, <1>7, <1>8

LEMMA ModelConnects ==
  ASSUME ModelLimits, ModelInv, Models!Connect
  PROVE  ModelInv'
<1> DEFINE e == Models!Event("start", 0)
<1>1. /\ provider = "started" /\ provider' = "reading" /\ Models!Push(e)
      /\ purpose' = purpose /\ streaming' = streaming /\ attempt' = attempt /\ message' = message
      /\ result' = result /\ modelClosed' = modelClosed /\ buffer' = buffer /\ seen' = seen
      /\ proposals' = proposals /\ outcome' = outcome
  BY DEF Models!Connect
<1>2. e \in ModelEvents /\ e \notin BlockEvents
  BY DEF ModelEvents, BlockEvents, Models!Blocks, Models!Event
<1> HIDE DEF e
<1>3. /\ modelQueue' \in Seq(QueueItems) /\ QueueEnds'
      /\ outcome = "none" => \A d \in BlockEvents : Announcement(d)' <=> Announcement(d) \/ d = e
  BY <1>1, <1>2, ModelPushes
<1>4. ModelTypes' /\ ModelPhases'
  BY <1>1, <1>3 DEF ModelInv, ModelTypes, ShownLast, ModelPhases
<1>5. MessageTold'
  BY <1>1, <1>2, <1>3 DEF MessageTold, ModelInv, PartTold
<1>6. MessageComplete'
  BY <1>1 DEF MessageComplete, ModelInv, ModelPhases
<1> QED
  BY <1>3, <1>4, <1>5, <1>6 DEF ModelInv

LEMMA ModelReads ==
  ASSUME ModelLimits, ModelInv, NEW block \in Models!Blocks, Models!ReadBlock(block)
  PROVE  ModelInv'
<1> DEFINE part == [ kind |-> block, told |-> FALSE, marked |-> FALSE ]
           n == Len(message)
<1>1. /\ provider = "reading" /\ n < MaxBlocks /\ message' = Append(message, part)
      /\ purpose' = purpose /\ streaming' = streaming /\ attempt' = attempt /\ provider' = provider
      /\ modelQueue' = modelQueue /\ result' = result /\ modelClosed' = modelClosed
      /\ buffer' = buffer /\ seen' = seen /\ proposals' = proposals /\ outcome' = outcome
  BY DEF Models!ReadBlock
<1>2. part \in MessageParts /\ ~part.told
  BY DEF MessageParts
<1> HIDE DEF part
<1>3. /\ n \in Nat /\ message' \in Seq(MessageParts) /\ Len(message') = n + 1
      /\ (\A i \in 1..n : message'[i] = message[i]) /\ message'[n + 1] = part
  BY <1>1, <1>2 DEF ModelInv, ModelTypes
<1>4. Len(message') <= MaxBlocks
  BY <1>1, <1>3 DEF ModelLimits
<1>5. ModelTypes' /\ ModelPhases'
  BY <1>1, <1>3, <1>4 DEF ModelInv, ModelTypes, ShownLast, ModelPhases
<1>6. \A e \in BlockEvents : PartTold(e)' <=> PartTold(e)
  <2>1. \A k \in 1..(n + 1) : k \in 1..n \/ k = n + 1
    BY <1>3
  <2>2. \A k \in 1..n : k \in 1..(n + 1)
    BY <1>3
  <2> QED
    BY <1>2, <1>3, <2>1, <2>2 DEF PartTold
<1>7. \A e \in BlockEvents : Announcement(e)' <=> Announcement(e)
  BY <1>1 DEF Announcement, IsSeen, Models!Shown
<1>8. MessageTold' /\ MessageComplete' /\ QueueEnds'
  BY <1>1, <1>6, <1>7 DEF MessageTold, MessageComplete, QueueEnds, ModelInv, ModelPhases
<1> QED
  BY <1>5, <1>8 DEF ModelInv

LEMMA ModelTells ==
  ASSUME ModelLimits, ModelInv, NEW i \in DOMAIN message, NEW whole \in BOOLEAN,
         Models!TellBlock(i, whole)
  PROVE  ModelInv'
<1> DEFINE part == [ message[i] EXCEPT !.told = TRUE, !.marked = ~whole ]
           e == Models!Event(message[i].kind, i)
           n == Len(message)
<1>1. /\ provider = "reading" /\ ~message[i].told /\ message' = [ message EXCEPT ![i] = part ]
      /\ Models!Push(e)
      /\ purpose' = purpose /\ streaming' = streaming /\ attempt' = attempt /\ provider' = provider
      /\ result' = result /\ modelClosed' = modelClosed
      /\ buffer' = buffer /\ seen' = seen /\ proposals' = proposals /\ outcome' = outcome
  BY DEF Models!TellBlock
<1>2. n \in Nat /\ i \in 1..n /\ i \in Nat /\ message[i] \in MessageParts /\ message \in Seq(MessageParts)
  BY ModelFacts DEF ModelInv, ModelTypes
<1>3. part \in MessageParts /\ part.told /\ part.kind = message[i].kind
  BY <1>2 DEF MessageParts
<1>4. e \in ModelEvents /\ e \in BlockEvents /\ e.at = i /\ e.event = message[i].kind
  BY <1>2 DEF ModelEvents, BlockEvents, MessageParts, Models!Event
<1>5. \A d \in BlockEvents : d.at = i /\ d.event = message[i].kind => d = e
  BY <1>4 DEF BlockEvents
<1> HIDE DEF part, e
<1>6. /\ message' \in Seq(MessageParts) /\ Len(message') = n
      /\ \A k \in 1..n : message'[k] = IF k = i THEN part ELSE message[k]
  BY <1>1, <1>2, <1>3
<1>7. /\ modelQueue' \in Seq(QueueItems) /\ QueueEnds'
      /\ outcome = "none" => \A d \in BlockEvents : Announcement(d)' <=> Announcement(d) \/ d = e
  BY <1>1, <1>4, ModelPushes
<1>8. ModelTypes' /\ ModelPhases'
  BY <1>1, <1>6, <1>7 DEF ModelInv, ModelTypes, ShownLast, ModelPhases
<1>9. \A d \in BlockEvents : PartTold(d)' <=> PartTold(d) \/ d = e
  BY <1>1, <1>2, <1>3, <1>4, <1>5, <1>6 DEF PartTold
<1>10. MessageTold'
  BY <1>1, <1>7, <1>9 DEF MessageTold, ModelInv
<1>11. MessageComplete'
  BY <1>1 DEF MessageComplete, ModelInv, ModelPhases
<1> QED
  BY <1>7, <1>8, <1>10, <1>11 DEF ModelInv

(* The end of the stream, with the message or with an error                 *)
(* (AssistantMessageEventStream.end).                                       *)
LEMMA ModelStreamEnds ==
  ASSUME ModelLimits, ModelInv, provider \in { "started", "reading" },
         NEW value \in Models!Retryable \cup Models!Fatal \cup { "message" }, Models!EndStream(value),
         purpose' = purpose, streaming' = streaming, attempt' = attempt, message' = message,
         buffer' = buffer, seen' = seen, proposals' = proposals, outcome' = outcome
  PROVE  ModelInv'
<1> DEFINE q == modelQueue
           n == Len(modelQueue)
           r == Append(q, Models!Sentinel)
<1>1. /\ q \in Seq(QueueItems) /\ n \in Nat /\ Models!Sentinel \in QueueItems
      /\ provider' = "ended" /\ attempt # 0
      /\ \/ modelQueue' = q /\ result' = result /\ modelClosed' = modelClosed /\ modelClosed
         \/ modelQueue' = r /\ result' = value /\ modelClosed' = TRUE /\ ~modelClosed
  BY ModelFacts DEF ModelInv, ModelTypes, ModelPhases, QueueItems, Models!EndStream
<1>2. outcome = "none" => modelQueue' = r /\ result' = value /\ modelClosed' = TRUE /\ ~modelClosed
                          /\ result = Models!NoResult
  BY <1>1 DEF ModelInv, ModelPhases
<1>3. r \in Seq(QueueItems) /\ Len(r) = n + 1 /\ (\A i \in 1..n : r[i] = q[i]) /\ r[n + 1] = Models!Sentinel
  BY <1>1
<1> HIDE DEF r, q
<1>4. value # Models!NoResult /\ value \in Models!Retryable \cup Models!Fatal \cup { Models!NoResult, "message" }
  BY ResultFacts
<1>5. ModelTypes' /\ ModelPhases'
  <2>1. modelQueue' \in Seq(QueueItems)
    BY <1>1, <1>3
  <2>2. ModelTypes'
    BY <1>1, <1>4, <2>1 DEF ModelInv, ModelTypes, ShownLast
  <2>3. ModelPhases'
    BY <1>1, <1>2, <1>4 DEF ModelInv, ModelPhases
  <2> QED
    BY <2>2, <2>3
<1>6. \A k \in 1..(n + 1) : k \in 1..n \/ k = n + 1
  BY <1>1
<1>7. QueueEnds'
  <2> SUFFICES ASSUME outcome = "none" PROVE QueueEnds'
    BY DEF QueueEnds
  <2>1. \A k \in 1..n : q[k] # Models!Sentinel
    BY <1>2 DEF QueueEnds, ModelInv, q
  <2> QED
    BY <1>2, <1>3, <1>6, <2>1 DEF QueueEnds
<1>8. MessageTold'
  <2> SUFFICES ASSUME outcome = "none" PROVE MessageTold'
    BY DEF MessageTold
  <2>1. ASSUME NEW e \in BlockEvents PROVE Announcement(e)' <=> Announcement(e)
    <3>1. e # Models!Sentinel
      BY BlockIsEvent, EventIsNoEnd
    <3>2. IsSeen(e)' <=> IsSeen(e)
      BY DEF IsSeen, Models!Shown
    <3>3. \A k \in 1..n : k \in 1..(n + 1)
      BY <1>1
    <3>4. (\E k \in 1..(n + 1) : r[k] = e) <=> (\E k \in 1..n : q[k] = e)
      BY <1>3, <1>6, <3>1, <3>3
    <3> QED
      BY <1>2, <1>3, <3>2, <3>4 DEF Announcement, q
  <2>2. \A e \in BlockEvents : PartTold(e)' <=> PartTold(e)
    BY DEF PartTold
  <2> QED
    BY <1>2, <2>1, <2>2 DEF MessageTold, ModelInv
<1>9. MessageComplete'
  BY DEF MessageComplete, ModelInv, ModelPhases
<1> QED
  BY <1>5, <1>7, <1>8, <1>9 DEF ModelInv

(* The adapter takes an event: of a reasoning call Core is shown it         *)
(* (RetryingModelPort.stream).                                              *)
LEMMA ModelTakes ==
  ASSUME ModelLimits, ModelInv, Models!TakeEvent
  PROVE  ModelInv'
<1> DEFINE q == modelQueue
           n == Len(modelQueue)
           h == Head(modelQueue)
           r == Tail(modelQueue)
           m == Len(seen)
<1>1. /\ outcome = "none" /\ streaming /\ q # << >> /\ h # Models!Sentinel /\ modelQueue' = r
      /\ IF purpose = "finalization"
         THEN buffer' = Append(buffer, h) /\ seen' = seen
         ELSE seen' = Append(seen, Models!Shown(h)) /\ buffer' = buffer
      /\ purpose' = purpose /\ streaming' = streaming /\ attempt' = attempt /\ provider' = provider
      /\ message' = message /\ result' = result /\ modelClosed' = modelClosed
      /\ proposals' = proposals /\ outcome' = outcome
  BY DEF Models!TakeEvent
<1>2. /\ q \in Seq(QueueItems) /\ n \in Nat \ { 0 } /\ h = q[1]
      /\ r \in Seq(QueueItems) /\ Len(r) = n - 1
      /\ \A i \in 1..(n - 1) : r[i] = q[i + 1]
  BY <1>1, HeadTailProperties DEF ModelInv, ModelTypes
<1> HIDE DEF q, n, h, r
<1>3. h \in ModelEvents
  <2>1. q[1] \in QueueItems
    BY <1>2, ElementOfSeq, ModelFacts DEF q, n, ModelInv
  <2> QED
    BY <1>1, <1>2, <2>1 DEF QueueItems
<1>4. attempt # 0 /\ provider \notin { "none", "started" }
  BY <1>1 DEF ModelInv, ModelPhases, q
<1>5. /\ m \in Nat /\ seen \in Seq(ShownRecords) /\ buffer \in Seq(ModelEvents)
      /\ Models!Shown(h) \in ShownRecords /\ Models!Shown(h).attempt = attempt /\ attempt \in 1..attempt
      /\ \A d \in BlockEvents : Models!Shown(h) = Models!Shown(d) => h = d
  BY <1>3, <1>4, ModelFacts, ShownFacts DEF ModelInv, ModelTypes
<1>6. QueueEnds'
  <2>1. \A k \in 1..(n - 1) : k + 1 \in 1..n /\ (k + 1 = n => k = n - 1)
    BY <1>2
  <2>2. \A k \in 1..n : q[k] = Models!Sentinel => modelClosed /\ k = n
    BY <1>1 DEF QueueEnds, ModelInv, q, n
  <2> QED
    BY <1>1, <1>2, <2>1, <2>2 DEF QueueEnds
<1>7. CASE purpose = "finalization"
  <2>1. buffer' \in Seq(ModelEvents) /\ seen' = seen
    <3>1. Append(buffer, h) \in Seq(ModelEvents)
      BY <1>3, <1>5
    <3> QED
      BY <1>1, <1>7, <3>1
  <2>2. ModelTypes'
    BY <1>1, <1>2, <2>1 DEF ModelInv, ModelTypes, ShownLast
  <2>3. ModelPhases'
    BY <1>1, <1>4, <1>7, <2>1 DEF ModelInv, ModelPhases
  <2> QED
    BY <1>1, <1>6, <1>7, <2>2, <2>3 DEF ModelInv, MessageTold, MessageComplete
<1>8. CASE purpose = "reasoning"
  <2>1. /\ seen' \in Seq(ShownRecords) /\ Len(seen') = m + 1 /\ buffer' = buffer
        /\ (\A i \in 1..m : seen'[i] = seen[i]) /\ seen'[m + 1] = Models!Shown(h)
    <3>1. seen' = Append(seen, Models!Shown(h)) /\ buffer' = buffer
      BY <1>1, <1>8
    <3> QED
      BY <1>5, <3>1
  <2>2. (\A k \in 1..(m + 1) : k \in 1..m \/ k = m + 1) /\ (\A k \in 1..m : k \in 1..(m + 1)) /\ m + 1 \in 1..(m + 1)
    BY <1>5
  <2>3. ShownLast'
    <3>1. (\A i \in 1..m : OfAttempt(seen[i], attempt)) /\ OfAttempt(Models!Shown(h), attempt)
      BY <1>5 DEF ModelInv, ModelTypes, ShownLast, OfAttempt
    <3>2. \A i \in 1..(m + 1) : OfAttempt(seen'[i], attempt)
      BY <1>5, <2>1, <2>2, <3>1
    <3>3. attempt' = attempt /\ Len(seen') = m + 1
      BY <1>1, <2>1
    <3> HIDE DEF m
    <3> QED
      BY <3>2, <3>3 DEF ShownLast
  <2>4. ModelTypes'
    BY <1>1, <1>2, <2>1, <2>3 DEF ModelInv, ModelTypes
  <2>5. ModelPhases'
    BY <1>1, <1>4, <1>8, <2>1 DEF ModelInv, ModelPhases
  <2>6. ASSUME NEW e \in BlockEvents PROVE Announcement(e)' <=> Announcement(e)
    <3>1. Models!Shown(e)' = Models!Shown(e)
      BY <1>1 DEF Models!Shown
    <3>2. IsSeen(e)' <=> (\E k \in 1..(m + 1) : seen'[k] = Models!Shown(e))
      BY <2>1, <3>1 DEF IsSeen
    <3>3. IsSeen(e)' <=> IsSeen(e) \/ e = h
      BY <1>5, <2>1, <2>2, <3>2 DEF IsSeen
    <3>4. (\A k \in 1..n : k = 1 \/ (k - 1 \in 1..(n - 1) /\ (k - 1) + 1 = k)) /\ 1 \in 1..n
      BY <1>2
    <3>5. \A k \in 1..(n - 1) : k + 1 \in 1..n
      BY <1>2
    <3>6. (\E k \in 1..n : q[k] = e) <=> h = e \/ \E k \in 1..(n - 1) : r[k] = e
      <4>1. ASSUME NEW k \in 1..n, q[k] = e PROVE h = e \/ \E j \in 1..(n - 1) : r[j] = e
        <5>1. CASE k = 1
          BY <1>2, <4>1, <5>1
        <5>2. CASE k - 1 \in 1..(n - 1) /\ (k - 1) + 1 = k
          BY <1>2, <4>1, <5>2
        <5> QED
          BY <3>4, <5>1, <5>2
      <4>2. h = e => \E k \in 1..n : q[k] = e
        BY <1>2, <3>4
      <4>3. ASSUME NEW k \in 1..(n - 1), r[k] = e PROVE \E j \in 1..n : q[j] = e
        BY <1>2, <3>5, <4>3
      <4> QED
        BY <4>1, <4>2, <4>3
    <3>7. Announcement(e) <=> IsSeen(e) \/ \E k \in 1..n : q[k] = e
      BY DEF Announcement, q, n
    <3>8. Announcement(e)' <=> IsSeen(e)' \/ \E k \in 1..(n - 1) : r[k] = e
      BY <1>1, <1>2 DEF Announcement
    <3> QED
      BY <3>3, <3>6, <3>7, <3>8
  <2>7. MessageTold'
    BY <1>1, <2>6 DEF MessageTold, ModelInv, PartTold
  <2>8. MessageComplete'
    BY <1>1 DEF MessageComplete
  <2> QED
    BY <1>6, <2>4, <2>5, <2>7, <2>8 DEF ModelInv
<1> QED
  BY <1>7, <1>8 DEF ModelInv, ModelTypes

(* An attempt begins, the first or one after a failure of which Core was    *)
(* shown nothing (RetryingModelPort.stream).                                *)
LEMMA ModelTriesAgain ==
  ASSUME ModelLimits, ModelInv, outcome = "none", attempt <= MaxRetries,
         \A i \in 1..Len(seen) : seen[i].event \notin Models!Blocks,
         Models!NextAttempt, purpose' = purpose, streaming' = streaming, seen' = seen,
         proposals' = proposals, outcome' = outcome
  PROVE  ModelInv'
<1>1. /\ attempt' = attempt + 1 /\ provider' = "started" /\ message' = << >> /\ modelQueue' = << >>
      /\ result' = Models!NoResult /\ modelClosed' = FALSE /\ buffer' = << >>
  BY DEF Models!NextAttempt
<1>2. attempt \in Nat /\ attempt' \in 0..(MaxRetries + 1) /\ attempt' # 0 /\ 1..attempt \subseteq 1..attempt'
  BY <1>1, ModelFacts DEF ModelInv, ModelLimits
<1>3. ModelTypes'
  <2>1. /\ message' \in Seq(MessageParts) /\ Len(message') <= MaxBlocks
        /\ modelQueue' \in Seq(QueueItems) /\ buffer' \in Seq(ModelEvents)
    BY <1>1 DEF ModelLimits
  <2>2. ShownLast'
    BY <1>2 DEF ModelInv, ModelTypes, ShownLast, OfAttempt
  <2> QED
    BY <1>1, <1>2, <2>1, <2>2 DEF ModelInv, ModelTypes
<1>4. ModelPhases'
  BY <1>1, <1>2 DEF ModelInv, ModelPhases
<1>5. MessageTold'
  <2>1. \A e \in BlockEvents : e.event \in Models!Blocks
    BY DEF BlockEvents
  <2>2. ASSUME NEW e \in BlockEvents PROVE ~Announcement(e)' /\ ~PartTold(e)'
    <3>1. Models!Shown(e)'.event = e.event
      BY DEF Models!Shown
    <3>2. ~IsSeen(e)'
      BY <2>1, <3>1 DEF IsSeen
    <3> QED
      BY <1>1, <3>2 DEF Announcement, PartTold
  <2> QED
    BY <2>2 DEF MessageTold
<1>6. QueueEnds' /\ MessageComplete'
  BY <1>1 DEF QueueEnds, MessageComplete
<1> QED
  BY <1>3, <1>4, <1>5, <1>6 DEF ModelInv

(* What Core gets at the end: the message, a failure, or nothing since the  *)
(* action was cancelled.                                                    *)
LEMMA ModelAtEnd ==
  ASSUME ModelLimits, ModelInv, Models!AtEnd
  PROVE  /\ outcome = "none" /\ modelClosed /\ provider = "ended" /\ attempt # 0
         /\ attempt \in Nat /\ attempt \in 1..attempt
         /\ streaming => Len(modelQueue) = 1 /\ modelQueue[1] = Models!Sentinel
<1>1. outcome = "none" /\ result # Models!NoResult /\ (streaming => modelQueue # << >> /\ Head(modelQueue) = Models!Sentinel)
  BY DEF Models!AtEnd
<1>2. modelClosed /\ provider = "ended" /\ attempt # 0
  BY <1>1 DEF ModelInv, ModelPhases
<1>3. attempt \in Nat /\ attempt \in 1..attempt
  BY <1>2, ModelFacts DEF ModelInv
<1>4. ASSUME streaming PROVE Len(modelQueue) = 1 /\ modelQueue[1] = Models!Sentinel
  <2>1. modelQueue \in Seq(QueueItems) /\ modelQueue # << >> /\ Head(modelQueue) = Models!Sentinel
    BY <1>1, <1>4 DEF ModelInv, ModelTypes
  <2>2. modelQueue[1] = Models!Sentinel /\ Len(modelQueue) \in Nat /\ 1 \in 1..Len(modelQueue)
    BY <2>1
  <2> QED
    BY <1>1, <2>2 DEF ModelInv, QueueEnds
<1> QED
  BY <1>1, <1>2, <1>3, <1>4

LEMMA ModelCompletes ==
  ASSUME ModelLimits, ModelInv, Models!TakeMessage
  PROVE  ModelInv'
<1> DEFINE opening == Models!Shown(Models!Event("start", 0))
           words == Models!Shown(Models!Event("text", 0))
<1>1. /\ Models!AtEnd /\ outcome = "none" /\ result = "message" /\ outcome' = "completed"
      /\ purpose' = purpose /\ streaming' = streaming /\ attempt' = attempt /\ provider' = provider
      /\ message' = message /\ modelQueue' = modelQueue /\ result' = result
      /\ modelClosed' = modelClosed /\ buffer' = buffer
      /\ IF purpose = "finalization"
         THEN /\ \E text \in { << >>, << words >> } :
                   seen' = (IF streaming THEN << opening >> ELSE << >>) \o text
              /\ proposals' = proposals \cup { attempt }
         ELSE seen' = seen /\ proposals' = proposals
  BY DEF Models!TakeMessage, Models!AtEnd, Models!SinkProposals
<1>2. /\ provider = "ended" /\ attempt # 0 /\ attempt \in Nat /\ attempt \in 1..attempt
      /\ streaming => Len(modelQueue) = 1 /\ modelQueue[1] = Models!Sentinel
      /\ proposals \subseteq { }
  BY <1>1, ModelAtEnd DEF ModelInv, ModelPhases
<1>3. /\ opening \in ShownRecords /\ words \in ShownRecords
      /\ opening.attempt = attempt /\ words.attempt = attempt
  BY <1>2 DEF ShownRecords, Models!Blocks, Models!Shown, Models!Event
<1> HIDE DEF opening, words
<1>4. seen' \in Seq(ShownRecords) /\ ShownLast'
  <2>1. CASE purpose = "finalization"
    <3>1. \/ seen' = << >> \o << >> \/ seen' = << >> \o << words >>
          \/ seen' = << opening >> \o << >> \/ seen' = << opening >> \o << words >>
      BY <1>1, <2>1
    <3>2. seen' \in { << >>, << words >>, << opening >>, << opening, words >> }
      <4>1. << >> \in Seq(ShownRecords) /\ << words >> \in Seq(ShownRecords) /\ << opening >> \in Seq(ShownRecords)
        BY <1>3
      <4>2. << >> \o << >> = << >> /\ << >> \o << words >> = << words >> /\ << opening >> \o << >> = << opening >>
        BY <4>1, ConcatEmptySeq
      <4>3. << opening >> \o << words >> = << opening, words >>
        <5> DEFINE both == << opening >> \o << words >>
        <5>1. Len(<< opening >>) = 1 /\ Len(<< words >>) = 1
          OBVIOUS
        <5>2. both \in Seq(ShownRecords) /\ Len(both) = 2 /\ both[1] = opening /\ both[2] = words
          BY <4>1, <5>1, ConcatProperties
        <5> HIDE DEF both
        <5>3. both = << opening, words >>
          BY <5>2
        <5> QED
          BY <5>3 DEF both
      <4> QED
        BY <3>1, <4>2, <4>3
    <3>3. CASE seen' = << >>
      BY <1>1, <1>2, <1>3, <3>3 DEF ShownLast, OfAttempt
    <3>4. CASE seen' = << words >>
      BY <1>1, <1>2, <1>3, <3>4 DEF ShownLast, OfAttempt
    <3>5. CASE seen' = << opening >>
      BY <1>1, <1>2, <1>3, <3>5 DEF ShownLast, OfAttempt
    <3>6. CASE seen' = << opening, words >>
      BY <1>1, <1>2, <1>3, <3>6 DEF ShownLast, OfAttempt
    <3> QED
      BY <3>2, <3>3, <3>4, <3>5, <3>6
  <2>2. CASE purpose # "finalization"
    BY <1>1, <2>2 DEF ModelInv, ModelTypes, ShownLast
  <2> QED
    BY <2>1, <2>2
<1>5. ModelTypes'
  BY <1>1, <1>4 DEF ModelInv, ModelTypes
<1>6. ModelPhases'
  BY <1>1, <1>2 DEF ModelInv, ModelPhases
<1>7. MessageComplete'
  <2> SUFFICES ASSUME purpose = "reasoning" PROVE MessageComplete'
    BY <1>1 DEF MessageComplete
  <2>1. \A e \in BlockEvents : (IsSeen(e)' <=> IsSeen(e)) /\ (PartTold(e)' <=> PartTold(e))
    BY <1>1 DEF IsSeen, PartTold, Models!Shown
  <2>2. ASSUME streaming, NEW e \in BlockEvents PROVE IsSeen(e) <=> PartTold(e)
    <3>1. \A k \in 1..Len(modelQueue) : modelQueue[k] # e
      <4>1. e # Models!Sentinel
        BY BlockIsEvent, EventIsNoEnd
      <4>2. \A k \in 1..1 : k = 1
        OBVIOUS
      <4> QED
        BY <1>2, <2>2, <4>1, <4>2
    <3>2. Announcement(e) <=> PartTold(e)
      BY <1>1, <2>2 DEF ModelInv, MessageTold
    <3> QED
      BY <3>1, <3>2 DEF Announcement
  <2>3. ASSUME ~streaming, NEW e \in BlockEvents PROVE ~IsSeen(e)
    <3>1. Len(seen) = 0
      BY <1>1, <2>3 DEF ModelInv, ModelPhases
    <3> QED
      BY <3>1 DEF IsSeen
  <2> QED
    BY <1>1, <2>1, <2>2, <2>3 DEF MessageComplete
<1> QED
  BY <1>1, <1>5, <1>6, <1>7 DEF ModelInv, QueueEnds, MessageTold

LEMMA ModelFails ==
  ASSUME ModelLimits, ModelInv, Models!TakeFailure
  PROVE  ModelInv'
<1> DEFINE late == [ i \in DOMAIN buffer |-> Models!Shown(buffer[i]) ]
           n == Len(buffer)
           m == Len(seen)
<1>1. /\ Models!AtEnd /\ outcome = "none" /\ outcome' = "failed" /\ seen' = seen \o late
      /\ purpose' = purpose /\ streaming' = streaming /\ attempt' = attempt /\ provider' = provider
      /\ message' = message /\ modelQueue' = modelQueue /\ result' = result
      /\ modelClosed' = modelClosed /\ buffer' = buffer /\ proposals' = proposals
  BY DEF Models!TakeFailure, Models!AtEnd
<1>2. provider = "ended" /\ attempt # 0 /\ attempt \in 1..attempt
  BY <1>1, ModelAtEnd
<1>3. /\ n \in Nat /\ DOMAIN buffer = 1..n /\ seen \in Seq(ShownRecords) /\ m \in Nat
      /\ \A i \in 1..n : buffer[i] \in ModelEvents
  <2>1. buffer \in Seq(ModelEvents)
    BY DEF ModelInv, ModelTypes
  <2>2. seen \in Seq(ShownRecords) /\ m \in Nat
    BY ModelFacts DEF ModelInv, ModelTypes
  <2> QED
    BY <2>1, <2>2
<1>4. late = [ i \in 1..n |-> Models!Shown(buffer[i]) ]
  BY <1>3
<1>5. \A i \in 1..n : Models!Shown(buffer[i]) \in ShownRecords /\ Models!Shown(buffer[i]).attempt = attempt
  BY <1>2, <1>3, ShownFacts DEF ModelInv
<1> HIDE DEF late, n, m
<1>6. late \in [ 1..n -> ShownRecords ] /\ \A i \in 1..n : late[i].attempt = attempt
  BY <1>4, <1>5
<1>7. late \in Seq(ShownRecords) /\ Len(late) = n
  BY <1>3, <1>6
<1>8. /\ seen' \in Seq(ShownRecords) /\ Len(seen') = m + n
      /\ \A i \in 1..(m + n) : seen'[i] = IF i <= m THEN seen[i] ELSE late[i - m]
  BY <1>1, <1>3, <1>7, ConcatProperties DEF m
<1>9. ShownLast'
  <2> SUFFICES ASSUME NEW k \in 1..Len(seen') PROVE OfAttempt(seen'[k], attempt)
    BY <1>1 DEF ShownLast
  <2>1. /\ \A i \in 1..m : OfAttempt(seen[i], attempt)
        /\ \A i \in 1..n : OfAttempt(late[i], attempt)
    BY <1>2, <1>6 DEF ModelInv, ModelTypes, ShownLast, OfAttempt, m
  <2>2. CASE k <= m
    <3>1. k \in 1..m /\ k \in 1..(m + n)
      BY <1>3, <1>8, <2>2
    <3>2. seen'[k] = seen[k]
      BY <1>8, <2>2, <3>1
    <3> QED
      BY <2>1, <3>1, <3>2
  <2>3. CASE ~(k <= m)
    <3>1. k - m \in 1..n /\ k \in 1..(m + n)
      BY <1>3, <1>8, <2>3
    <3> QED
      BY <1>8, <2>1, <2>3, <3>1
  <2> QED
    BY <2>2, <2>3
<1>10. ModelTypes'
  BY <1>1, <1>8, <1>9 DEF ModelInv, ModelTypes
<1>11. ModelPhases'
  BY <1>1, <1>2 DEF ModelInv, ModelPhases
<1> QED
  BY <1>1, <1>10, <1>11 DEF ModelInv, QueueEnds, MessageTold, MessageComplete

(* Whether or not the provider is stopped, the action is over for Core      *)
(* (AssistantMessageEventStream.aclose).                                    *)
LEMMA ModelStops ==
  ASSUME ModelLimits, ModelInv, attempt # 0, outcome' = "cancelled",
         Models!StopProvider \/ (provider' = provider /\ modelClosed' = modelClosed),
         outcome \in { "none", "cancelled" },
         purpose' = purpose, streaming' = streaming, attempt' = attempt, message' = message,
         modelQueue' = modelQueue, result' = result, buffer' = buffer, seen' = seen,
         proposals' = proposals
  PROVE  ModelInv'
<1>1. \/ provider' = "ended" /\ modelClosed' = TRUE
      \/ provider' = provider /\ modelClosed' = modelClosed
  BY DEF Models!StopProvider
<1>2. ModelTypes'
  BY <1>1 DEF ModelInv, ModelTypes, ShownLast
<1>3. ModelPhases'
  BY <1>1 DEF ModelInv, ModelPhases
<1> QED
  BY <1>2, <1>3 DEF ModelInv, QueueEnds, MessageTold, MessageComplete

LEMMA ModelInvStep ==
  ASSUME ModelLimits
  PROVE  ModelInv /\ [Models!Next]_(Models!modelVars) => ModelInv'
<1> SUFFICES ASSUME ModelInv, [Models!Next]_(Models!modelVars) PROVE ModelInv'
  OBVIOUS
<1>1. CASE UNCHANGED Models!modelVars
  BY <1>1 DEF Models!modelVars, ModelInv, ModelTypes, ShownLast, ModelPhases, QueueEnds, MessageTold,
       MessageComplete, Announcement, IsSeen, PartTold, Models!Shown
<1>2. CASE Models!Start
  <2>1. /\ attempt = 0 /\ outcome = "none" /\ Models!NextAttempt /\ purpose' = purpose
        /\ streaming' = streaming /\ seen' = seen /\ proposals' = proposals /\ outcome' = outcome
    BY <1>2 DEF Models!Start
  <2>2. attempt <= MaxRetries
    BY <2>1 DEF ModelLimits
  <2>3. \A i \in 1..Len(seen) : seen[i].event \notin Models!Blocks
    <3>1. \A i \in 1..Len(seen) : seen[i].attempt \in 1..attempt
      BY DEF ModelInv, ModelTypes, ShownLast, OfAttempt
    <3> QED
      BY <2>1, <3>1
  <2> QED
    BY <2>1, <2>2, <2>3, ModelTriesAgain
<1>3. CASE Models!Retry
  <2>1. /\ outcome = "none" /\ Models!NextAttempt /\ Models!MayRetry(result) /\ purpose' = purpose
        /\ streaming' = streaming /\ seen' = seen /\ proposals' = proposals /\ outcome' = outcome
    BY <1>3 DEF Models!Retry, Models!AtEnd
  <2>2. attempt <= MaxRetries
    BY <2>1 DEF Models!MayRetry
  <2>3. \A i \in 1..Len(seen) : seen[i].event \notin Models!Blocks
    <3>1. CASE purpose = "finalization"
      BY <2>1, <3>1 DEF ModelInv, ModelPhases
    <3>2. CASE ~Models!Committed
      <4>1. DOMAIN seen = 1..Len(seen)
        BY DEF ModelInv, ModelTypes
      <4> QED
        BY <3>2, <4>1 DEF Models!Committed
    <3> QED
      BY <2>1, <3>1, <3>2 DEF Models!MayRetry
  <2> QED
    BY <2>1, <2>2, <2>3, ModelTriesAgain
<1>4. CASE Models!ReadEnd
  BY <1>4, ModelStreamEnds DEF Models!ReadEnd
<1>5. ASSUME NEW error \in Models!Retryable \cup Models!Fatal, Models!ReadFails(error)
      PROVE  ModelInv'
  BY <1>5, ModelStreamEnds DEF Models!ReadFails
<1>6. ASSUME NEW block \in Models!Blocks, Models!ReadBlock(block)
      PROVE  ModelInv'
  BY <1>6, ModelReads
<1>7. ASSUME NEW i \in DOMAIN message, NEW whole \in BOOLEAN, Models!TellBlock(i, whole)
      PROVE  ModelInv'
  BY <1>7, ModelTells
<1>8. CASE Models!Cancel
  <2>1. attempt # 0
    BY <1>8, ModelFacts DEF ModelInv, Models!Cancel
  <2> QED
    BY <1>8, <2>1, ModelStops DEF Models!Cancel
<1>9. CASE Models!CloseGenerators
  <2>1. attempt # 0
    BY <1>9 DEF ModelInv, ModelPhases, Models!CloseGenerators
  <2> QED
    BY <1>9, <2>1, ModelStops DEF Models!CloseGenerators
<1> QED
  BY <1>1, <1>2, <1>3, <1>4, <1>5, <1>6, <1>7, <1>8, <1>9, ModelConnects, ModelTakes,
     ModelCompletes, ModelFails DEF Models!Next

(* Core is shown the blocks of one attempt only: of a message that was      *)
(* streamed those that the provider told, of one that was not none; and     *)
(* memory proposals only of a message it gets; when the action completed or *)
(* failed nothing works for it any more (RetryingModelPort.stream,          *)
(* _stream_finalization, ProviderModelPort), for every number of retries    *)
(* and blocks.                                                              *)
THEOREM CallsShowOneAttempt ==
  ASSUME ModelLimits
  PROVE  Models!Spec => []OneAttemptShown
<1>1. ModelInv => Models!TypeOK
  <2> SUFFICES ASSUME ModelInv PROVE Models!TypeOK
    OBVIOUS
  <2>1. \A i \in DOMAIN seen : seen[i].attempt \in 1..attempt
    <3>1. DOMAIN seen = 1..Len(seen)
      BY DEF ModelInv, ModelTypes
    <3> QED
      BY <3>1 DEF ModelInv, ModelTypes, ShownLast, OfAttempt
  <2> QED
    BY <2>1 DEF ModelInv, ModelTypes, Models!TypeOK
<1>2. ModelInv => Models!OneAttemptShown
  <2> SUFFICES ASSUME ModelInv PROVE Models!OneAttemptShown
    OBVIOUS
  <2>1. DOMAIN seen = 1..Len(seen) /\ DOMAIN message = 1..Len(message) /\ Len(message) \in Nat
    BY ModelFacts DEF ModelInv
  <2>2. \A i, j \in DOMAIN seen :
          { seen[i].event, seen[j].event } \subseteq Models!Blocks => seen[i].attempt = seen[j].attempt
    BY <2>1 DEF ModelInv, ModelTypes, ShownLast, OfAttempt
  <2>3. outcome \in { "completed", "failed" } => provider = "ended"
    BY DEF ModelInv, ModelPhases
  <2>4. proposals \subseteq (IF outcome = "completed" THEN { attempt } ELSE { })
    BY DEF ModelInv, ModelPhases
  <2> DEFINE shown == { seen[k] : k \in { k \in DOMAIN seen : seen[k].event \in Models!Blocks } }
             told == { Models!Shown(Models!Event(message[i].kind, i)) :
                         i \in { i \in DOMAIN message : streaming /\ message[i].told } }
  <2>5. ASSUME outcome = "completed", purpose = "reasoning" PROVE shown = told
    <3>1. \A e \in BlockEvents : IsSeen(e) <=> streaming /\ PartTold(e)
      BY <2>5 DEF ModelInv, MessageComplete
    <3>2. ASSUME NEW k \in DOMAIN seen, seen[k].event \in Models!Blocks
          PROVE  seen[k] \in told
      <4> DEFINE e == [ event |-> seen[k].event, at |-> seen[k].at ]
      <4>1. seen[k] \in ShownRecords /\ seen[k].attempt = attempt
        BY <2>1, <3>2, ModelFacts DEF ModelInv, ModelTypes, ShownLast, OfAttempt
      <4>2. e \in BlockEvents /\ seen[k] = Models!Shown(e)
        BY <3>2, <4>1 DEF BlockEvents, ShownRecords, Models!Shown
      <4>3. streaming /\ PartTold(e)
        <5>1. IsSeen(e)
          BY <2>1, <4>2 DEF IsSeen
        <5> QED
          BY <3>1, <4>2, <5>1
      <4>4. e.at \in DOMAIN message /\ message[e.at].told /\ message[e.at].kind = e.event
        BY <2>1, <4>3 DEF PartTold
      <4>5. Models!Shown(Models!Event(message[e.at].kind, e.at)) = Models!Shown(e)
        BY <4>4 DEF Models!Shown, Models!Event
      <4> QED
        BY <4>2, <4>3, <4>4, <4>5
    <3>3. ASSUME NEW i \in DOMAIN message, streaming, message[i].told
          PROVE  Models!Shown(Models!Event(message[i].kind, i)) \in shown
      <4> DEFINE e == Models!Event(message[i].kind, i)
      <4>1. message[i].kind \in Models!Blocks /\ i \in Nat
        BY <2>1, ModelFacts DEF ModelInv, MessageParts
      <4>2. e \in BlockEvents /\ e.event = message[i].kind /\ e.at = i
        BY <4>1 DEF BlockEvents, Models!Event
      <4> HIDE DEF e
      <4>3. IsSeen(e)
        BY <2>1, <3>1, <3>3, <4>2 DEF PartTold
      <4>4. PICK k \in 1..Len(seen) : seen[k] = Models!Shown(e)
        BY <4>3 DEF IsSeen
      <4>5. Models!Shown(e).event = e.event
        BY DEF Models!Shown
      <4>6. k \in DOMAIN seen /\ seen[k].event \in Models!Blocks
        BY <2>1, <4>1, <4>2, <4>4, <4>5
      <4>7. Models!Shown(e) \in shown
        BY <4>4, <4>6
      <4> QED
        BY <4>7 DEF e
    <3> QED
      BY <3>2, <3>3
  <2> QED
    BY <2>2, <2>3, <2>4, <2>5 DEF Models!OneAttemptShown
<1>3. Models!Init => ModelInv
  BY ModelInvInit
<1>4. ModelInv /\ [Models!Next]_(Models!modelVars) => ModelInv'
  BY ModelInvStep
<1> QED
  BY <1>1, <1>2, <1>3, <1>4, PTL DEF Models!Spec, OneAttemptShown

-------------------------------------------------------------------------------
(* The MCP servers *)

\* A manager without a server has nothing to discover.
McpLimits == NServers \in Nat \ { 0 }

McpTypes ==
    /\ server \in [ Mcp!Servers -> [ state : { "disconnected", "connecting", "ready", "failed", "closed" },
                                     transport : 0..opened, tools : SUBSET Mcp!Allowed ] ]
    /\ opened \in Nat /\ open \subseteq 1..opened /\ cuts \in Nat
    /\ discovery \in [ at : 0..NServers, attempt : 0..2, transport : 0..opened ]
    /\ ready \in BOOLEAN /\ closed \in BOOLEAN
    /\ registry \subseteq Mcp!Servers \X { "good" } /\ call.sent \in 0..1

\* Where the discovery stands.
Discovery ==
    /\ discovery.at = 0 => discovery = Mcp!NoDiscovery
    /\ ready => discovery.at = 0
    /\ discovery.transport = 0 => discovery.attempt <= 1
    /\ discovery.transport # 0 => \A s \in Mcp!Servers : server[s].transport # discovery.transport

\* As long as nothing was cut short, the connections are the transports that are known, and
\* a server that was not looked at has none.
Connections ==
    cuts = 0 =>
      /\ \A t \in 1..opened : t \in open <=>
           t = discovery.transport \/ \E s \in Mcp!Servers : server[s].transport = t
      /\ discovery.at # 0 =>
           \A s \in Mcp!Servers : s >= discovery.at => server[s].transport = 0
      /\ discovery.at = 0 /\ ~ready => \A s \in Mcp!Servers : server[s].transport = 0
      /\ discovery.at # 0 => opened <= 2 * (discovery.at - 1) + discovery.attempt
      /\ opened <= 2 * NServers
      /\ discovery.at = 0 /\ ~ready /\ ~closed => opened = 0

\* A server that was looked at is ready, with all its tools, or failed.
Settled(s) ==
    \/ server[s].state = "ready" /\ \A t \in server[s].tools : << s, t >> \in registry \cup said
    \/ server[s].state = "failed" /\ << s, "failed" >> \in said

McpInv ==
    /\ McpTypes /\ Discovery /\ Connections
    /\ ~closed => \A s \in Mcp!Servers : ready \/ s < discovery.at => Settled(s)

LEMMA McpInvInit ==
  ASSUME McpLimits
  PROVE  Mcp!Init => McpInv
<1> SUFFICES ASSUME Mcp!Init PROVE McpInv
  OBVIOUS
<1>1. \A s \in Mcp!Servers : s >= 1 /\ s \in Nat /\ NServers \in Nat
  BY DEF Mcp!Servers, McpLimits
<1>2. McpTypes /\ Discovery
  <2>1. opened = 0 /\ 0 \in 0..opened /\ 0 \in 0..NServers /\ 0 \in 0..2
    BY <1>1 DEF Mcp!Init, McpLimits
  <2>2. discovery \in [ at : 0..NServers, attempt : 0..2, transport : 0..opened ]
    BY <2>1 DEF Mcp!Init, Mcp!NoDiscovery
  <2>3. server \in [ Mcp!Servers -> [ state : { "disconnected", "connecting", "ready", "failed", "closed" },
                                     transport : 0..opened, tools : SUBSET Mcp!Allowed ] ]
    BY <2>1 DEF Mcp!Init
  <2>4. McpTypes
    <3>1. call.sent = 0 /\ 0 \in 0..1 /\ cuts = 0 /\ registry = { } /\ open = { } /\ ready = FALSE /\ closed = FALSE
      BY DEF Mcp!Init, Mcp!NoCall
    <3> QED
      BY <2>1, <2>2, <2>3, <3>1 DEF McpTypes
  <2> QED
    BY <2>4 DEF Mcp!Init, Mcp!NoDiscovery, Discovery
<1>3. Connections
  BY <1>1 DEF McpLimits, Mcp!Init, Mcp!NoDiscovery, Connections
<1> QED
  BY <1>1, <1>2, <1>3 DEF Mcp!Init, Mcp!NoDiscovery, McpInv

(* The end of what is known of one server (ensure_ready).                   *)
LEMMA McpProceeds ==
  ASSUME McpLimits, McpInv, discovery.at # 0, Mcp!Proceed
  PROVE  /\ discovery' \in [ at : 0..NServers, attempt : { 0 }, transport : { 0 } ]
         /\ \/ discovery.at = NServers /\ discovery' = Mcp!NoDiscovery /\ discovery'.at = 0 /\ ready' = TRUE
            \/ discovery'.at = discovery.at + 1 /\ discovery'.at # 0 /\ ~ready /\ ready' = ready
<1>1. discovery.at \in 1..NServers /\ ~ready /\ NServers \in Nat
  BY DEF McpInv, McpTypes, Discovery, McpLimits
<1> QED
  BY <1>1 DEF Mcp!Proceed, Mcp!NoDiscovery

(* A server that is not tried any more (NoCredential, AttemptFails).        *)
LEMMA McpGivesUp ==
  ASSUME McpLimits, McpInv, NEW s \in Mcp!Servers, discovery.at = s,
         Mcp!Becomes(s, "failed", server[s].transport, server[s].tools),
         Mcp!Say(s, "failed"), Mcp!Proceed, open' = open \ { discovery.transport },
         UNCHANGED << opened, registry, call, closed, cuts >>
  PROVE  McpInv'
<1>1. /\ s \in Nat /\ s # 0 /\ NServers \in Nat /\ discovery.at # 0
      /\ \A x \in Mcp!Servers : x \in 1..NServers
  BY DEF Mcp!Servers, McpLimits
<1>2. /\ discovery' \in [ at : 0..NServers, attempt : { 0 }, transport : { 0 } ]
      /\ \/ discovery.at = NServers /\ discovery' = Mcp!NoDiscovery /\ discovery'.at = 0 /\ ready' = TRUE
         \/ discovery'.at = discovery.at + 1 /\ discovery'.at # 0 /\ ~ready /\ ready' = ready
  BY <1>1, McpProceeds
<1>3. /\ server' \in [ Mcp!Servers -> [ state : { "disconnected", "connecting", "ready", "failed", "closed" },
                                        transport : 0..opened, tools : SUBSET Mcp!Allowed ] ]
      /\ server'[s].state = "failed"
      /\ \A x \in Mcp!Servers : x # s => server'[x] = server[x]
      /\ \A x \in Mcp!Servers : server'[x].transport = server[x].transport
  BY DEF Mcp!Becomes, McpInv, McpTypes
<1>4. McpTypes'
  <2>1. discovery' \in [ at : 0..NServers, attempt : 0..2, transport : 0..opened ]
    <3>1. 0 \in 0..2 /\ 0 \in 0..opened
      BY DEF McpInv, McpTypes
    <3> QED
      BY <1>2, <3>1
  <2>2. ready' \in BOOLEAN
    BY <1>2 DEF McpInv, McpTypes
  <2> QED
    BY <1>3, <2>1, <2>2 DEF McpInv, McpTypes
<1>5. Discovery'
  BY <1>2 DEF Discovery, Mcp!NoDiscovery
<1>6. Connections'
  <2> SUFFICES ASSUME cuts = 0 PROVE Connections'
    BY DEF Connections
  <2>1. \A t \in 1..opened : t \in open' <=>
          t = discovery'.transport \/ \E x \in Mcp!Servers : server'[x].transport = t
    BY <1>2, <1>3 DEF McpInv, Discovery, Connections
  <2>2. \A x \in Mcp!Servers : x >= discovery.at => server[x].transport = 0
    BY <1>1 DEF McpInv, Connections
  <2>3. opened <= 2 * discovery.at /\ opened \in Nat
    BY <1>1 DEF McpInv, McpTypes, Connections
  <2>4. discovery.at \in Nat /\ discovery'.attempt = 0
    BY <1>1, <1>2
  <2>5. discovery'.at # 0 => discovery'.at = discovery.at + 1 /\ opened <= 2 * (discovery'.at - 1) + discovery'.attempt
    BY <1>2, <2>3, <2>4
  <2>6. discovery'.at # 0 => \A x \in Mcp!Servers : x >= discovery'.at => server'[x].transport = 0
    BY <1>1, <1>3, <2>2, <2>4, <2>5
  <2>7. discovery'.at = 0 => ready'
    BY <1>2
  <2> QED
    BY <2>1, <2>5, <2>6, <2>7 DEF McpInv, Connections
<1>7. ASSUME ~closed, NEW x \in Mcp!Servers, ready' \/ x < discovery'.at PROVE Settled(x)'
  <2>1. CASE x = s
    BY <1>3, <2>1 DEF Settled, Mcp!Say
  <2>2. CASE x # s
    <3>1. x < discovery.at
      BY <1>1, <1>2, <1>7, <2>2
    <3> QED
      BY <1>3, <1>7, <2>2, <3>1 DEF McpInv, Settled, Mcp!Say
  <2> QED
    BY <2>1, <2>2
<1> QED
  BY <1>4, <1>5, <1>6, <1>7 DEF McpInv

LEMMA McpConnects ==
  ASSUME McpLimits, McpInv, NEW s \in Mcp!Servers, Mcp!Connect(s)
  PROVE  McpInv'
<1>1. /\ s \in 1..NServers /\ s # 0 /\ NServers \in Nat /\ discovery.at = s /\ discovery.transport = 0
      /\ opened \in Nat /\ opened' = opened + 1 /\ open' = open \cup { opened' }
      /\ discovery.attempt \in 0..1
  BY DEF Mcp!Servers, McpLimits, Mcp!Connect, Mcp!Untried, McpInv, McpTypes, Discovery
<1>2. /\ discovery' \in [ at : 0..NServers, attempt : 0..2, transport : 0..opened' ]
      /\ discovery'.at = discovery.at /\ discovery'.attempt = discovery.attempt + 1
      /\ discovery'.transport = opened'
  <2>1. discovery.attempt + 1 \in 0..2 /\ opened' \in 0..opened'
    BY <1>1
  <2>2. discovery \in [ at : 0..NServers, attempt : 0..2, transport : 0..opened ]
    BY DEF McpInv, McpTypes
  <2>3. discovery' = [ discovery EXCEPT !.attempt = discovery.attempt + 1, !.transport = opened' ]
    BY DEF Mcp!Connect
  <2> QED
    BY <2>1, <2>2, <2>3
<1>3. /\ server' \in [ Mcp!Servers -> [ state : { "disconnected", "connecting", "ready", "failed", "closed" },
                                        transport : 0..opened', tools : SUBSET Mcp!Allowed ] ]
      /\ \A x \in Mcp!Servers : x # s => server'[x] = server[x]
      /\ \A x \in Mcp!Servers : server'[x].transport = server[x].transport /\ server[x].transport \in 0..opened
  <2>1. \A x \in Mcp!Servers : server[x] \in [ state : { "disconnected", "connecting", "ready", "failed", "closed" },
                                        transport : 0..opened', tools : SUBSET Mcp!Allowed ]
    <3>1. \A x \in Mcp!Servers : server[x] \in [ state : { "disconnected", "connecting", "ready", "failed", "closed" },
                                          transport : 0..opened, tools : SUBSET Mcp!Allowed ]
      BY DEF McpInv, McpTypes
    <3>2. \A t \in 0..opened : t \in 0..opened'
      BY <1>1
    <3> QED
      BY <3>1, <3>2
  <2> QED
    BY <2>1 DEF Mcp!Connect, McpInv, McpTypes
<1>4. McpTypes'
  BY <1>1, <1>2, <1>3 DEF McpInv, McpTypes, Mcp!Connect
<1>5. Discovery'
  BY <1>1, <1>2, <1>3 DEF McpInv, Discovery, Mcp!Connect
<1>6. Connections'
  <2> SUFFICES ASSUME cuts = 0 PROVE Connections'
    BY DEF Connections, Mcp!Connect
  <2>1. \A t \in 1..opened' : t \in open' <=>
          t = discovery'.transport \/ \E x \in Mcp!Servers : server'[x].transport = t
    BY <1>1, <1>2, <1>3 DEF McpInv, McpTypes, Connections
  <2>2. \A x \in Mcp!Servers : x >= discovery'.at => server'[x].transport = 0
    BY <1>1, <1>2, <1>3 DEF McpInv, Connections
  <2>3. opened <= 2 * (discovery.at - 1) + discovery.attempt
    BY <1>1 DEF McpInv, Connections
  <2>4. opened' <= 2 * (discovery'.at - 1) + discovery'.attempt /\ opened' <= 2 * NServers
    BY <1>1, <1>2, <2>3
  <2> QED
    BY <1>1, <1>2, <2>1, <2>2, <2>4 DEF McpInv, Connections
<1>7. ASSUME ~closed, NEW x \in Mcp!Servers, ready' \/ x < discovery'.at PROVE Settled(x)'
  <2>1. x < discovery.at /\ x # s
    BY <1>1, <1>2, <1>7 DEF McpInv, Discovery, Mcp!Connect
  <2> QED
    BY <1>3, <1>7, <2>1 DEF McpInv, Settled, Mcp!Connect
<1> QED
  BY <1>4, <1>5, <1>6, <1>7 DEF McpInv, Mcp!Connect

LEMMA McpDiscovers ==
  ASSUME McpLimits, McpInv, NEW s \in Mcp!Servers, NEW offered \in SUBSET Mcp!Tools,
         Mcp!Discovered(s, offered)
  PROVE  McpInv'
<1>1. /\ s \in Nat /\ s # 0 /\ NServers \in Nat /\ discovery.at = s /\ discovery.transport # 0
      /\ \A x \in Mcp!Servers : x \in 1..NServers
      /\ Mcp!Proceed /\ opened' = opened /\ open' = open /\ cuts' = cuts /\ closed' = closed
  BY DEF Mcp!Servers, McpLimits, Mcp!Discovered, Mcp!Looking
<1>2. /\ discovery' \in [ at : 0..NServers, attempt : { 0 }, transport : { 0 } ]
      /\ \/ discovery.at = NServers /\ discovery' = Mcp!NoDiscovery /\ discovery'.at = 0 /\ ready' = TRUE
         \/ discovery'.at = discovery.at + 1 /\ discovery'.at # 0 /\ ~ready /\ ready' = ready
  BY <1>1, McpProceeds
<1>3. /\ server' \in [ Mcp!Servers -> [ state : { "disconnected", "connecting", "ready", "failed", "closed" },
                                        transport : 0..opened, tools : SUBSET Mcp!Allowed ] ]
      /\ server'[s].state = "ready" /\ server'[s].transport = discovery.transport
      /\ server'[s].tools = offered \cap Mcp!Allowed
      /\ \A x \in Mcp!Servers : x # s => server'[x] = server[x]
  <2>1. discovery.transport \in 0..opened
    BY DEF McpInv, McpTypes
  <2> QED
    BY <2>1 DEF Mcp!Discovered, Mcp!Becomes, McpInv, McpTypes
<1>4. /\ registry \subseteq registry' /\ said \subseteq said'
      /\ \A t \in offered \cap Mcp!Allowed : << s, t >> \in registry' \cup said'
      /\ registry' \subseteq Mcp!Servers \X { "good" }
  BY DEF Mcp!Discovered, Mcp!Allowed, McpInv, McpTypes
<1>5. McpTypes'
  <2>1. discovery' \in [ at : 0..NServers, attempt : 0..2, transport : 0..opened ]
    <3>1. 0 \in 0..2 /\ 0 \in 0..opened
      BY DEF McpInv, McpTypes
    <3> QED
      BY <1>2, <3>1
  <2>2. ready' \in BOOLEAN /\ call' = call
    BY <1>2 DEF McpInv, McpTypes, Mcp!Discovered
  <2> QED
    BY <1>1, <1>3, <1>4, <2>1, <2>2 DEF McpInv, McpTypes
<1>6. Discovery'
  BY <1>2 DEF Discovery, Mcp!NoDiscovery
<1>7. Connections'
  <2> SUFFICES ASSUME cuts = 0 PROVE Connections'
    BY <1>1 DEF Connections
  <2>1. \A x \in Mcp!Servers : x >= discovery.at => server[x].transport = 0
    BY <1>1 DEF McpInv, Connections
  <2>2. server[s].transport = 0
    BY <1>1, <2>1
  <2>3. \A t \in 1..opened : t \in open' <=>
          t = discovery'.transport \/ \E x \in Mcp!Servers : server'[x].transport = t
    BY <1>1, <1>2, <1>3, <2>2 DEF McpInv, Connections
  <2>4. opened <= 2 * discovery.at /\ opened \in Nat
    BY <1>1 DEF McpInv, McpTypes, Connections
  <2>5. discovery.at \in Nat /\ discovery'.attempt = 0
    BY <1>1, <1>2
  <2>6. discovery'.at # 0 => discovery'.at = discovery.at + 1 /\ opened <= 2 * (discovery'.at - 1) + discovery'.attempt
    BY <1>2, <2>4, <2>5
  <2>7. discovery'.at # 0 => \A x \in Mcp!Servers : x >= discovery'.at => server'[x].transport = 0
    <3>1. ASSUME NEW x \in Mcp!Servers, discovery'.at # 0, x >= discovery'.at
          PROVE  x # s /\ x >= discovery.at
      BY <1>1, <2>5, <2>6, <3>1
    <3>2. ASSUME NEW x \in Mcp!Servers, x # s, x >= discovery.at PROVE server'[x].transport = 0
      BY <1>3, <2>1, <3>2, Zenon
    <3> QED
      BY <3>1, <3>2
  <2>8. discovery'.at = 0 => ready'
    BY <1>2
  <2>9. opened' = opened /\ opened' <= 2 * NServers
    BY <1>1 DEF McpInv, Connections
  <2> QED
    BY <2>3, <2>6, <2>7, <2>8, <2>9, Zenon DEF Connections
<1>8. ASSUME ~closed, NEW x \in Mcp!Servers, ready' \/ x < discovery'.at PROVE Settled(x)'
  <2>1. CASE x = s
    BY <1>3, <1>4, <2>1 DEF Settled
  <2>2. CASE x # s
    <3>1. x < discovery.at
      BY <1>1, <1>2, <1>8, <2>2
    <3> QED
      BY <1>3, <1>4, <1>8, <2>2, <3>1 DEF McpInv, Settled
  <2> QED
    BY <2>1, <2>2
<1> QED
  BY <1>1, <1>5, <1>6, <1>7, <1>8 DEF McpInv

LEMMA McpRetries ==
  ASSUME McpLimits, McpInv, NEW s \in Mcp!Servers, Mcp!Looking(s), discovery.attempt < 2,
         open' = open \ { discovery.transport }, discovery' = [ discovery EXCEPT !.transport = 0 ],
         UNCHANGED << server, said, ready, opened, registry, call, closed, cuts >>
  PROVE  McpInv'
<1>1. /\ s # 0 /\ discovery.at = s
      /\ discovery' \in [ at : 0..NServers, attempt : 0..2, transport : 0..opened ]
      /\ discovery'.at = discovery.at /\ discovery'.attempt = discovery.attempt
      /\ discovery'.transport = 0 /\ discovery.attempt <= 1
  BY DEF Mcp!Servers, McpLimits, Mcp!Looking, McpInv, McpTypes
<1>2. McpTypes'
  BY <1>1 DEF McpInv, McpTypes
<1>3. Discovery'
  BY <1>1 DEF McpInv, Discovery
<1>4. Connections'
  BY <1>1 DEF McpInv, Discovery, Connections, Mcp!Looking
<1> QED
  BY <1>1, <1>2, <1>3, <1>4 DEF McpInv, Settled

LEMMA McpCloses ==
  ASSUME McpLimits, McpInv, Mcp!Close
  PROVE  McpInv'
<1>1. /\ server' = [ s \in Mcp!Servers |-> [ server[s] EXCEPT !.state = "closed", !.transport = 0 ] ]
      /\ cuts' = IF discovery.at = 0 THEN cuts ELSE cuts + 1
      /\ open' = open \ { server[s].transport : s \in Mcp!Servers }
      /\ closed' = TRUE /\ ready' = FALSE
      /\ UNCHANGED << opened, discovery, registry, said, call >>
  BY Zenon DEF Mcp!Close
<1>2. cuts \in Nat /\ cuts' \in Nat /\ (cuts' = 0 => cuts = 0 /\ discovery.at = 0)
  <2>1. cuts \in Nat
    BY DEF McpInv, McpTypes
  <2>2. cuts' = IF discovery.at = 0 THEN cuts ELSE cuts + 1
    BY <1>1
  <2> QED
    BY <2>1, <2>2
<1>3. /\ server' \in [ Mcp!Servers -> [ state : { "disconnected", "connecting", "ready", "failed", "closed" },
                                        transport : 0..opened, tools : SUBSET Mcp!Allowed ] ]
      /\ \A x \in Mcp!Servers : server'[x].transport = 0
  <2>1. 0 \in 0..opened
    BY DEF McpInv, McpTypes
  <2>2. \A s \in Mcp!Servers :
          server[s] \in [ state : { "disconnected", "connecting", "ready", "failed", "closed" },
                          transport : 0..opened, tools : SUBSET Mcp!Allowed ]
    BY DEF McpInv, McpTypes
  <2>3. \A s \in Mcp!Servers :
          /\ server'[s] \in [ state : { "disconnected", "connecting", "ready", "failed", "closed" },
                              transport : 0..opened, tools : SUBSET Mcp!Allowed ]
          /\ server'[s].transport = 0
    BY <1>1, <2>1, <2>2
  <2>4. server' = [ s \in Mcp!Servers |-> server'[s] ]
    BY <1>1
  <2> QED
    BY <2>3, <2>4
<1>4. McpTypes'
  <2>1. /\ closed' \in BOOLEAN /\ ready' \in BOOLEAN /\ opened' = opened /\ open' \subseteq open
        /\ UNCHANGED << discovery, registry, call >>
    BY <1>1
  <2> QED
    BY <1>2, <1>3, <2>1 DEF McpInv, McpTypes
<1>5. Discovery'
  BY <1>1, <1>3 DEF McpInv, Discovery
<1>6. Connections'
  <2> SUFFICES ASSUME cuts' = 0 PROVE Connections'
    BY DEF Connections
  <2>1. cuts = 0 /\ discovery.at = 0 /\ discovery.transport = 0
    BY <1>2 DEF McpInv, Discovery, Mcp!NoDiscovery
  <2>2. \A t \in 1..opened : t # 0
    BY DEF McpInv, McpTypes
  <2>3. \A t \in 1..opened : t \in open => \E s \in Mcp!Servers : server[s].transport = t
    BY <2>1, <2>2 DEF McpInv, Connections
  <2>4. \A t \in 1..opened : t \notin open'
    BY <1>1, <2>3
  <2>5. opened <= 2 * NServers
    BY <2>1 DEF McpInv, Connections
  <2> QED
    BY <1>1, <1>3, <2>1, <2>2, <2>4, <2>5 DEF Connections
<1> QED
  BY <1>1, <1>4, <1>5, <1>6 DEF McpInv

(* Steps that neither open nor close a connection (ensure_ready,            *)
(* call_tool).                                                              *)
LEMMA McpRests ==
  ASSUME McpLimits, McpInv,
         \/ Mcp!EnsureReady \/ Mcp!DiscoveryCut
         \/ \E s \in Mcp!Servers, t \in Mcp!Tools : Mcp!CallTool(s, t)
         \/ \E end \in { "ok", "failed", "retryable" } : Mcp!CallEnds(end)
  PROVE  McpInv'
<1>1. \A s \in Mcp!Servers : s >= 1
  BY DEF Mcp!Servers
<1>2. CASE Mcp!EnsureReady
  <2>1. /\ ~ready /\ ~closed /\ discovery.at = 0
        /\ discovery' = [ Mcp!NoDiscovery EXCEPT !.at = 1 ]
        /\ UNCHANGED << server, opened, open, ready, registry, said, call, closed, cuts >>
    BY <1>2 DEF Mcp!EnsureReady
  <2>2. /\ discovery' \in [ at : 0..NServers, attempt : 0..2, transport : 0..opened ]
        /\ discovery'.at = 1 /\ discovery'.attempt = 0 /\ discovery'.transport = 0
        /\ discovery.transport = 0
    BY <2>1 DEF McpLimits, Mcp!NoDiscovery, McpInv, McpTypes, Discovery
  <2>3. McpTypes' /\ Discovery'
    BY <2>1, <2>2 DEF McpInv, McpTypes, Discovery
  <2>4. Connections'
    BY <2>1, <2>2 DEF McpInv, Connections
  <2> QED
    BY <1>1, <2>1, <2>2, <2>3, <2>4 DEF McpInv, Mcp!Servers
<1>3. CASE Mcp!DiscoveryCut
  <2>1. /\ cuts' = cuts + 1 /\ discovery' = Mcp!NoDiscovery /\ ~ready
        /\ UNCHANGED << server, opened, open, ready, registry, said, call, closed >>
    BY <1>3 DEF Mcp!DiscoveryCut, McpInv, Discovery
  <2>2. /\ discovery' \in [ at : 0..NServers, attempt : 0..2, transport : 0..opened ]
        /\ discovery'.at = 0 /\ discovery'.attempt = 0 /\ discovery'.transport = 0
        /\ cuts' \in Nat /\ cuts' # 0
    <3>1. 0 \in 0..NServers /\ 0 \in 0..2 /\ 0 \in 0..opened /\ cuts \in Nat
      BY DEF McpLimits, McpInv, McpTypes
    <3> QED
      BY <2>1, <3>1 DEF Mcp!NoDiscovery
  <2>3. McpTypes' /\ Discovery'
    BY <2>1, <2>2 DEF McpInv, McpTypes, Discovery
  <2> QED
    BY <1>1, <2>1, <2>2, <2>3 DEF McpInv, Connections, Mcp!Servers
<1>4. CASE \/ \E s \in Mcp!Servers, t \in Mcp!Tools : Mcp!CallTool(s, t)
           \/ \E end \in { "ok", "failed", "retryable" } : Mcp!CallEnds(end)
  <2>1. /\ UNCHANGED << server, opened, open, discovery, ready, registry, said, closed, cuts >>
        /\ call'.sent \in 0..1
    <3>1. \A end : Mcp!CallEnds(end) => call'.sent \in 0..1 /\ UNCHANGED << server, opened, open, discovery, ready, registry, said, closed, cuts >>
      BY DEF Mcp!CallEnds, McpInv, McpTypes
    <3>2. \A s \in Mcp!Servers, t \in Mcp!Tools : Mcp!CallTool(s, t) => call'.sent \in 0..1 /\ UNCHANGED << server, opened, open, discovery, ready, registry, said, closed, cuts >>
      BY DEF Mcp!CallTool
    <3> QED
      BY <1>4, <3>1, <3>2
  <2> QED
    BY <2>1 DEF McpInv, McpTypes, Discovery, Connections, Settled
<1> QED
  BY <1>2, <1>3, <1>4

LEMMA McpInvStep ==
  ASSUME McpLimits
  PROVE  McpInv /\ [Mcp!Next]_(Mcp!mcpVars) => McpInv'
<1> SUFFICES ASSUME McpInv, [Mcp!Next]_(Mcp!mcpVars) PROVE McpInv'
  OBVIOUS
<1>1. CASE UNCHANGED Mcp!mcpVars
  BY <1>1 DEF Mcp!mcpVars, McpInv, McpTypes, Discovery, Connections, Settled
<1>2. ASSUME NEW s \in Mcp!Servers, Mcp!NoCredential(s) PROVE McpInv'
  <2>1. open' = open \ { discovery.transport }
    BY <1>2 DEF Mcp!NoCredential, Mcp!Untried, McpInv, McpTypes
  <2> QED
    BY <1>2, <2>1, McpGivesUp DEF Mcp!NoCredential, Mcp!Untried
<1>3. ASSUME NEW s \in Mcp!Servers, NEW retryable \in BOOLEAN, Mcp!AttemptFails(s, retryable)
      PROVE  McpInv'
  <2>1. CASE retryable /\ discovery.attempt < 2
    BY <1>3, <2>1, McpRetries DEF Mcp!AttemptFails
  <2>2. CASE ~(retryable /\ discovery.attempt < 2)
    BY <1>3, <2>2, McpGivesUp DEF Mcp!AttemptFails, Mcp!Looking
  <2> QED
    BY <2>1, <2>2
<1>4. ASSUME NEW s \in Mcp!Servers, Mcp!Connect(s) PROVE McpInv'
  BY <1>4, McpConnects
<1>5. ASSUME NEW s \in Mcp!Servers, NEW offered \in SUBSET Mcp!Tools, Mcp!Discovered(s, offered)
      PROVE  McpInv'
  BY <1>5, McpDiscovers
<1> QED
  BY <1>1, <1>2, <1>3, <1>4, <1>5, McpCloses, McpRests DEF Mcp!Next

(* Every connection that is open belongs to a server that is ready or is    *)
(* being looked at, no server is tried more than twice, after a discovery   *)
(* every server is ready with its tools or has a diagnostic, and no call is *)
(* sent twice (_initialize_server, _connect_and_discover, call_tool,        *)
(* aclose), for every number of servers and of cut discoveries.             *)
THEOREM ServersStayAccounted ==
  ASSUME McpLimits
  PROVE  Mcp!Spec => []ServersAreAccounted
<1>1. McpInv => Mcp!TypeOK
  <2> SUFFICES ASSUME McpInv PROVE Mcp!TypeOK
    OBVIOUS
  <2>1. registry \subseteq Mcp!Servers \X Mcp!Tools
    BY DEF McpInv, McpTypes, Mcp!Tools
  <2> QED
    BY <2>1 DEF McpInv, McpTypes, Mcp!TypeOK
<1>2. McpInv => Mcp!ServersAreAccounted
  <2> SUFFICES ASSUME McpInv PROVE Mcp!ServersAreAccounted
    OBVIOUS
  <2>1. ASSUME cuts = 0
        PROVE  open = ({ discovery.transport } \cup { server[s].transport : s \in Mcp!Servers }) \ { 0 }
    <3>1. \A s \in Mcp!Servers : server[s].transport \in 0..opened
      BY DEF McpInv, McpTypes
    <3>2. discovery.transport \in 0..opened /\ open \subseteq 1..opened /\ opened \in Nat
      BY DEF McpInv, McpTypes
    <3>3. \A t \in 1..opened : t \in open <=>
            t = discovery.transport \/ \E s \in Mcp!Servers : server[s].transport = t
      BY <2>1 DEF McpInv, Connections
    <3>4. \A t \in 0..opened : t # 0 <=> t \in 1..opened
      BY <3>2
    <3> QED
      BY <3>1, <3>2, <3>3, <3>4, Zenon
  <2>2. cuts = 0 => opened <= 2 * NServers
    BY DEF McpInv, Connections
  <2>3. \A s \in Mcp!Servers, t \in Mcp!Tools : << s, t >> \in registry => t \in Mcp!Allowed
    BY DEF McpInv, McpTypes, Mcp!Allowed
  <2>4. ready /\ ~closed => \A s \in Mcp!Servers : Settled(s)
    BY DEF McpInv
  <2>5. call.sent <= 1
    BY DEF McpInv, McpTypes
  <2> QED
    BY <2>1, <2>2, <2>3, <2>4, <2>5 DEF Mcp!ServersAreAccounted, Settled
<1>3. Mcp!Init => McpInv
  BY McpInvInit
<1>4. McpInv /\ [Mcp!Next]_(Mcp!mcpVars) => McpInv'
  BY McpInvStep
<1> QED
  BY <1>1, <1>2, <1>3, <1>4, PTL DEF Mcp!Spec, ServersAreAccounted

-------------------------------------------------------------------------------
(* The rollback of a run *)

RollbackTypes ==
    /\ rollbackHead \in [ RunFiles -> Rollback!Contents ] /\ index \in [ RunFiles -> Rollback!Contents ]
    /\ work \in [ RunFiles -> Rollback!Contents ] /\ ignored \subseteq RunFiles
    /\ start \in [ work : [ RunFiles -> Rollback!Contents ], head : [ RunFiles -> Rollback!Contents ] ]
    /\ rollbackPc \in { "idle", "running", "paused", "over", "waiting", "ended", "applying" }
    /\ baseline \in [ known : BOOLEAN, saved : BOOLEAN, eligible : BOOLEAN ]
    /\ affected \subseteq RunFiles
    /\ meta \in [ eligible : BOOLEAN, affected : SUBSET RunFiles,
                  post : [ RunFiles -> Rollback!Contents ] ]
    /\ rollbackTodo \in [ RunFiles -> { "skip", "restore", "remove" } ]
    /\ mine \in [ RunFiles -> { "nothing", "meddled", "none", "user" } ]
    /\ rollbackResult \in { "none", "not eligible", "conflict", "noop", "reverted" }

\* What the user made of a file is there, is not what the run left, and is not planned away.
UsersFile(f) ==
    mine[f] \in { "none", "user" } =>
      /\ work[f] = mine[f] /\ work[f] # meta.post[f]
      /\ rollbackPc = "applying" => rollbackTodo[f] = "skip"

\* When the run began, git showed no difference to the commit.
CleanStart == \A f \in RunFiles \ ignored : start.work[f] = start.head[f]

\* A file that the user leaves alone during a rollback is not staged, and what is not to be done
\* to it any more has made it what the index has.
FileReverts(f) ==
    mine[f] = "nothing" =>
      /\ index[f] = rollbackHead[f]
      /\ rollbackTodo[f] = "skip" => work[f] = index[f]
      /\ rollbackTodo[f] = "remove" => index[f] = "none"

RollbackInv ==
    /\ RollbackTypes
    /\ \A f \in RunFiles : UsersFile(f)
    /\ baseline.eligible \/ meta.eligible => rollbackPc # "idle" /\ CleanStart
    /\ rollbackResult # "none" => rollbackPc = "ended"
    /\ rollbackPc = "applying" => meta.eligible /\ \A f \in meta.affected : FileReverts(f)
    /\ Rollback!RollbackRestores

LEMMA RollbackInvInit == Rollback!Init => RollbackInv
<1> SUFFICES ASSUME Rollback!Init PROVE RollbackInv
  OBVIOUS
<1>1. RollbackTypes
  BY DEF Rollback!Init, RollbackTypes, Rollback!Contents, Rollback!NoBaseline, Rollback!NoMeta
<1>2. /\ rollbackPc = "idle" /\ rollbackResult = "none"
      /\ ~baseline.eligible /\ ~meta.eligible /\ \A f \in RunFiles : mine[f] = "nothing"
  BY DEF Rollback!Init, Rollback!NoBaseline, Rollback!NoMeta
<1> QED
  BY <1>1, <1>2 DEF RollbackInv, UsersFile, Rollback!RollbackRestores

(* What the user does to a file is remembered as his, or as his meddling    *)
(* (sessions/rollback).                                                      *)
LEMMA UserRollback ==
  ASSUME RollbackInv, NEW f,
         (f \in RunFiles /\ (Rollback!Edit(f) \/ Rollback!Add(f))) \/ Rollback!GitCommit
  PROVE  RollbackInv'
<1>1. /\ UNCHANGED << ignored, rollbackPc, baseline, affected, meta, rollbackTodo, rollbackResult, start >>
      /\ rollbackResult = "none"
  BY DEF Rollback!Edit, Rollback!Add, Rollback!GitCommit, Rollback!git
<1>2. CASE f \in RunFiles /\ Rollback!Edit(f)
  <2>1. PICK c \in { "none", "user" } :
          /\ work' = [ work EXCEPT ![f] = c ] /\ UNCHANGED << rollbackHead, index >>
          /\ mine' = [ mine EXCEPT ![f] = IF rollbackPc = "applying" THEN "meddled"
                                          ELSE IF c = meta.post[f] THEN "nothing" ELSE c ]
    BY <1>2 DEF Rollback!Edit, Rollback!git
  <2>2. RollbackTypes'
    BY <1>1, <2>1 DEF RollbackInv, RollbackTypes, Rollback!Contents
  <2>3. \A g \in RunFiles : UsersFile(g)'
    BY <1>1, <2>1 DEF RollbackInv, RollbackTypes, UsersFile
  <2>4. rollbackPc = "applying" => \A g \in meta.affected : FileReverts(g)'
    BY <1>1, <2>1 DEF RollbackInv, RollbackTypes, FileReverts
  <2>5. \A g \in RunFiles : mine'[g] \in { "none", "user" } => work'[g] = mine'[g]
    BY <2>3 DEF UsersFile
  <2> QED
    BY <1>1, <2>2, <2>3, <2>4, <2>5 DEF RollbackInv, CleanStart, Rollback!RollbackRestores
<1>3. CASE f \in RunFiles /\ Rollback!Add(f)
  <2>1. /\ index' = [ index EXCEPT ![f] = work[f] ] /\ UNCHANGED << rollbackHead, work >>
        /\ mine' = [ mine EXCEPT ![f] = IF rollbackPc = "applying" THEN "meddled" ELSE @ ]
    BY <1>3 DEF Rollback!Add
  <2>2. RollbackTypes'
    BY <1>1, <2>1 DEF RollbackInv, RollbackTypes
  <2>3. \A g \in RunFiles : UsersFile(g)'
    BY <1>1, <2>1 DEF RollbackInv, RollbackTypes, UsersFile
  <2>4. rollbackPc = "applying" => \A g \in meta.affected : FileReverts(g)'
    BY <1>1, <2>1 DEF RollbackInv, RollbackTypes, FileReverts
  <2>5. \A g \in RunFiles : mine'[g] \in { "none", "user" } => work'[g] = mine'[g]
    BY <2>3 DEF UsersFile
  <2> QED
    BY <1>1, <2>2, <2>3, <2>4, <2>5 DEF RollbackInv, CleanStart, Rollback!RollbackRestores
<1>4. CASE Rollback!GitCommit
  <2>1. rollbackHead' = index /\ UNCHANGED << index, work, mine >>
    BY <1>4 DEF Rollback!GitCommit
  <2>2. RollbackTypes'
    BY <1>1, <2>1 DEF RollbackInv, RollbackTypes
  <2>3. \A g \in RunFiles : UsersFile(g)'
    BY <1>1, <2>1 DEF RollbackInv, UsersFile
  <2>4. rollbackPc = "applying" => \A g \in meta.affected : FileReverts(g)'
    BY <1>1, <2>1 DEF RollbackInv, FileReverts
  <2>5. \A g \in RunFiles : mine'[g] \in { "none", "user" } => work'[g] = mine'[g]
    BY <2>3 DEF UsersFile
  <2> QED
    BY <1>1, <2>2, <2>3, <2>4, <2>5 DEF RollbackInv, CleanStart, Rollback!RollbackRestores
<1> QED
  BY <1>2, <1>3, <1>4

(* The run changes files and records them; a clean working tree at its      *)
(* start is what makes it eligible (capture_git_baseline,                   *)
(* _run_post_commit_effects).                                               *)
LEMMA RunRollbackStep ==
  ASSUME RollbackInv, NEW f,
         \/ Rollback!Prepare \/ (f \in RunFiles /\ Rollback!Write(f)) \/ Rollback!Stop \/ Rollback!Record
         \/ Rollback!Continue \/ Rollback!Crash
  PROVE  RollbackInv'
<1>1. /\ UNCHANGED << rollbackHead, index, ignored, rollbackResult >>
      /\ rollbackPc' # "applying" /\ rollbackPc # "ended" /\ rollbackPc' # "idle"
  BY DEF RollbackInv, RollbackTypes, Rollback!Prepare, Rollback!Write, Rollback!Stop, Rollback!Record,
     Rollback!Continue, Rollback!Crash, Rollback!git
<1>2. rollbackResult = "none" /\ rollbackResult' = "none"
  BY <1>1 DEF RollbackInv
<1>3. RollbackTypes'
  <2>1. CASE Rollback!Prepare
    BY <2>1 DEF RollbackInv, RollbackTypes, Rollback!Prepare, Rollback!git, Rollback!Contents
  <2>2. CASE f \in RunFiles /\ Rollback!Write(f)
    <3>1. PICK c \in { "none", "run" } : work' = [ work EXCEPT ![f] = c ]
      BY <2>2 DEF Rollback!Write
    <3>2. /\ rollbackPc = "running" /\ affected' \in { affected, affected \cup { f } }
          /\ mine' = [ mine EXCEPT ![f] = "nothing" ]
          /\ UNCHANGED << rollbackHead, index, ignored, rollbackPc, baseline, meta, rollbackTodo,
                          rollbackResult, start >>
      BY <2>2 DEF Rollback!Write, Rollback!git
    <3>3. work' \in [ RunFiles -> Rollback!Contents ]
      BY <3>1 DEF RollbackInv, RollbackTypes, Rollback!Contents
    <3>4. affected' \subseteq RunFiles /\ mine' \in [ RunFiles -> { "nothing", "meddled", "none", "user" } ]
      BY <2>2, <3>2 DEF RollbackInv, RollbackTypes
    <3> QED
      BY <3>2, <3>3, <3>4 DEF RollbackInv, RollbackTypes
  <2>3. CASE Rollback!Stop
    BY <2>3 DEF RollbackInv, RollbackTypes, Rollback!Stop, Rollback!git
  <2>4. CASE Rollback!Record
    <3>1. /\ rollbackPc' \in { "waiting", "ended" }
          /\ UNCHANGED << rollbackHead, index, ignored, work, baseline, affected, rollbackTodo,
                          rollbackResult, start >>
          /\ \/ /\ meta' = [ eligible |-> baseline.eligible, affected |-> affected, post |-> work ]
                /\ mine' = [ g \in RunFiles |-> "nothing" ]
             \/ UNCHANGED << meta, mine >>
      BY <2>4 DEF Rollback!Record, Rollback!git
    <3>2. /\ meta' \in [ eligible : BOOLEAN, affected : SUBSET RunFiles,
                          post : [ RunFiles -> Rollback!Contents ] ]
          /\ mine' \in [ RunFiles -> { "nothing", "meddled", "none", "user" } ]
      <4>1. /\ meta \in [ eligible : BOOLEAN, affected : SUBSET RunFiles,
                            post : [ RunFiles -> Rollback!Contents ] ]
            /\ mine \in [ RunFiles -> { "nothing", "meddled", "none", "user" } ]
            /\ baseline.eligible \in BOOLEAN /\ affected \in SUBSET RunFiles
            /\ work \in [ RunFiles -> Rollback!Contents ]
        BY DEF RollbackInv, RollbackTypes
      <4> QED
        BY <3>1, <4>1
    <3> QED
      BY <3>1, <3>2 DEF RollbackInv, RollbackTypes
  <2>5. CASE Rollback!Continue
    BY <2>5 DEF RollbackInv, RollbackTypes, Rollback!Continue, Rollback!git
  <2>6. CASE Rollback!Crash
    BY <2>6 DEF RollbackInv, RollbackTypes, Rollback!Crash, Rollback!git
  <2> QED
    BY <2>1, <2>2, <2>3, <2>4, <2>5, <2>6
<1>4. \A g \in RunFiles : UsersFile(g)'
  <2>1. CASE f \in RunFiles /\ Rollback!Write(f)
    <3>1. PICK c \in { "none", "run" } : work' = [ work EXCEPT ![f] = c ]
      BY <2>1 DEF Rollback!Write
    <3>2. mine' = [ mine EXCEPT ![f] = "nothing" ] /\ meta' = meta
      BY <2>1 DEF Rollback!Write
    <3> QED
      BY <1>1, <3>1, <3>2 DEF RollbackInv, RollbackTypes, UsersFile
  <2>2. CASE Rollback!Record
    BY <1>1, <2>2 DEF RollbackInv, RollbackTypes, UsersFile, Rollback!Record
  <2>3. CASE Rollback!Prepare \/ Rollback!Stop \/ Rollback!Continue \/ Rollback!Crash
    <3>1. UNCHANGED << work, mine, meta >>
      BY <2>3 DEF Rollback!Prepare, Rollback!Stop, Rollback!Continue, Rollback!Crash
    <3> QED
      BY <1>1, <3>1 DEF RollbackInv, UsersFile
  <2> QED
    BY <2>1, <2>2, <2>3
<1>5. (baseline.eligible \/ meta.eligible => CleanStart)'
  <2>1. CASE Rollback!Prepare
    <3>1. /\ baseline'.eligible <=> Rollback!Status = { }
          /\ start' = [ work |-> work, head |-> rollbackHead ] /\ UNCHANGED << meta, ignored >>
          /\ rollbackPc = "idle"
      BY <2>1 DEF Rollback!Prepare, Rollback!git
    <3>2. ~meta.eligible
      BY <3>1 DEF RollbackInv
    <3>3. ASSUME Rollback!Status = { }, NEW g \in RunFiles \ ignored
          PROVE  work[g] = rollbackHead[g]
      BY <3>3 DEF Rollback!Status, Rollback!Staged, Rollback!Tracked
    <3> QED
      BY <3>1, <3>2, <3>3 DEF CleanStart
  <2>2. CASE (f \in RunFiles /\ Rollback!Write(f)) \/ Rollback!Stop \/ Rollback!Record \/ Rollback!Continue \/ Rollback!Crash
    <3>1. UNCHANGED << start, ignored >> /\ baseline'.eligible = baseline.eligible
      BY <2>2 DEF RollbackInv, RollbackTypes, Rollback!Write, Rollback!Stop, Rollback!Record,
         Rollback!Continue, Rollback!Crash, Rollback!git
    <3>2. meta'.eligible => meta.eligible \/ baseline.eligible
      BY <2>2 DEF Rollback!Write, Rollback!Stop, Rollback!Record, Rollback!Continue, Rollback!Crash
    <3> QED
      BY <3>1, <3>2 DEF RollbackInv, CleanStart
  <2> QED
    BY <2>1, <2>2
<1>6. \A g \in RunFiles : mine'[g] \in { "none", "user" } => work'[g] = mine'[g]
  BY <1>4 DEF UsersFile
<1> QED
  BY <1>1, <1>2, <1>3, <1>4, <1>5, <1>6 DEF RollbackInv, Rollback!RollbackRestores

(* A plan leaves the user's files alone, and what it does not act on has    *)
(* no content and no commit had one (plan_run_rollback).                    *)
LEMMA PlanRollback ==
  ASSUME RollbackInv, Rollback!Plan
  PROVE  RollbackInv'
<1> DEFINE actions == [ f \in RunFiles |-> IF f \in meta.affected THEN Rollback!PathAction(f) ELSE "skip" ]
<1>1. /\ rollbackPc = "ended" /\ rollbackResult = "none"
      /\ UNCHANGED << rollbackHead, index, ignored, work, baseline, affected, meta, start, mine >>
  BY DEF Rollback!Plan, Rollback!git
<1>2. \/ /\ rollbackResult' \in { "not eligible", "conflict", "noop" }
         /\ UNCHANGED << rollbackPc, rollbackTodo >>
      \/ /\ rollbackPc' = "applying" /\ rollbackTodo' = actions /\ UNCHANGED rollbackResult
         /\ meta.eligible /\ \A f \in RunFiles : actions[f] # "block"
  BY DEF Rollback!Plan
<1>3. ASSUME NEW f \in RunFiles
      PROVE  /\ actions[f] = IF f \in meta.affected THEN Rollback!PathAction(f) ELSE "skip"
             /\ Rollback!PathAction(f) \in { "block", "skip", "restore", "remove" }
             /\ Rollback!PathAction(f) # "block" => index[f] = rollbackHead[f]
             /\ Rollback!PathAction(f) = "skip" => work[f] = index[f]
             /\ Rollback!PathAction(f) = "remove" => index[f] = "none"
             /\ Rollback!PathAction(f) \in { "restore", "remove" } => work[f] = meta.post[f]
  BY DEF Rollback!PathAction, Rollback!Staged, Rollback!Tracked
<1> HIDE DEF actions
<1>4. CASE /\ rollbackResult' \in { "not eligible", "conflict", "noop" }
           /\ UNCHANGED << rollbackPc, rollbackTodo >>
  <2>1. RollbackTypes'
    BY <1>1, <1>4 DEF RollbackInv, RollbackTypes
  <2> QED
    BY <1>1, <1>4, <2>1 DEF RollbackInv, UsersFile, CleanStart, Rollback!RollbackRestores
<1>5. CASE /\ rollbackPc' = "applying" /\ rollbackTodo' = actions /\ UNCHANGED rollbackResult
           /\ meta.eligible /\ \A f \in RunFiles : actions[f] # "block"
  <2>1. RollbackTypes'
    <3>1. actions \in [ RunFiles -> { "skip", "restore", "remove" } ]
      <4>1. DOMAIN actions = RunFiles /\ actions = [ f \in RunFiles |-> actions[f] ]
        BY DEF actions
      <4>2. \A f \in RunFiles : actions[f] \in { "skip", "restore", "remove" }
        BY <1>3, <1>5
      <4> QED
        BY <4>1, <4>2
    <3> QED
      BY <1>1, <1>5, <3>1 DEF RollbackInv, RollbackTypes
  <2>2. \A f \in RunFiles : UsersFile(f)'
    BY <1>1, <1>3, <1>5 DEF RollbackInv, UsersFile
  <2>3. \A f \in meta.affected : FileReverts(f)'
    <3>1. meta.affected \subseteq RunFiles
      BY DEF RollbackInv, RollbackTypes
    <3> QED
      BY <1>1, <1>3, <1>5, <3>1 DEF FileReverts
  <2> QED
    BY <1>1, <1>5, <2>1, <2>2, <2>3 DEF RollbackInv, CleanStart, Rollback!RollbackRestores
<1> QED
  BY <1>2, <1>4, <1>5

(* Each action makes its file what the index has, or takes it away where    *)
(* the index has none; after the last one the files are as they were before *)
(* the run (revert_run_changes).                                            *)
LEMMA ApplyRollback ==
  ASSUME RollbackInv, NEW f, (f \in RunFiles /\ Rollback!Apply(f)) \/ Rollback!Reverted
  PROVE  RollbackInv'
<1>1. /\ rollbackPc = "applying" /\ rollbackResult = "none"
      /\ UNCHANGED << rollbackHead, index, ignored, baseline, affected, meta, start, mine >>
  BY DEF RollbackInv, RollbackTypes, Rollback!Apply, Rollback!Reverted, Rollback!git
<1>2. CASE f \in RunFiles /\ Rollback!Apply(f)
  <2>1. /\ rollbackTodo[f] \in { "restore", "remove" }
        /\ rollbackTodo' = [ rollbackTodo EXCEPT ![f] = "skip" ]
    BY <1>2 DEF Rollback!Apply
  <2>2. \/ /\ UNCHANGED << rollbackPc, rollbackResult >>
           /\ \/ rollbackTodo[f] = "restore" /\ work' = [ work EXCEPT ![f] = index[f] ]
              \/ rollbackTodo[f] = "remove" /\ work' = [ work EXCEPT ![f] = "none" ]
        \/ rollbackPc' = "ended" /\ rollbackResult' = "conflict" /\ UNCHANGED work
    BY <1>2 DEF Rollback!Apply
  <2>3. RollbackTypes'
    <3>1. /\ work' \in [ RunFiles -> Rollback!Contents ]
          /\ rollbackTodo' \in [ RunFiles -> { "skip", "restore", "remove" } ]
      <4>1. /\ index[f] \in Rollback!Contents /\ "none" \in Rollback!Contents
            /\ work \in [ RunFiles -> Rollback!Contents ]
            /\ rollbackTodo \in [ RunFiles -> { "skip", "restore", "remove" } ]
        BY <1>2 DEF RollbackInv, RollbackTypes, Rollback!Contents
      <4>2. rollbackTodo' \in [ RunFiles -> { "skip", "restore", "remove" } ]
        BY <2>1, <4>1
      <4>3. work' \in [ RunFiles -> Rollback!Contents ]
        BY <2>2, <4>1
      <4> QED
        BY <4>2, <4>3
    <3> QED
      BY <1>1, <2>2, <3>1 DEF RollbackInv, RollbackTypes
  <2>4. mine[f] \notin { "none", "user" }
    BY <1>1, <1>2, <2>1 DEF RollbackInv, UsersFile
  <2>5. \A g \in RunFiles : UsersFile(g)'
    <3>1. ASSUME NEW g \in RunFiles PROVE UsersFile(g)'
      <4>1. CASE g = f
        BY <1>1, <2>4, <4>1 DEF UsersFile
      <4>2. CASE g # f
        BY <1>1, <2>1, <2>2, <4>2 DEF RollbackInv, RollbackTypes, UsersFile
      <4> QED
        BY <4>1, <4>2
    <3> QED
      BY <3>1
  <2>6. rollbackPc' = "applying" => \A g \in meta.affected : FileReverts(g)'
    <3>1. ASSUME rollbackPc' = "applying", NEW g \in meta.affected PROVE FileReverts(g)'
      <4>1. g \in RunFiles /\ FileReverts(g)
        BY <1>1 DEF RollbackInv, RollbackTypes
      <4>2. CASE g = f
        BY <1>1, <2>1, <2>2, <3>1, <4>1, <4>2 DEF RollbackInv, RollbackTypes, FileReverts
      <4>3. CASE g # f
        BY <1>1, <2>1, <2>2, <3>1, <4>1, <4>3 DEF RollbackInv, RollbackTypes, FileReverts
      <4> QED
        BY <4>2, <4>3
    <3> QED
      BY <3>1
  <2>7. \A g \in RunFiles : mine'[g] \in { "none", "user" } => work'[g] = mine'[g]
    BY <2>5 DEF UsersFile
  <2> QED
    BY <1>1, <2>2, <2>3, <2>5, <2>6, <2>7 DEF RollbackInv, CleanStart, Rollback!RollbackRestores
<1>3. CASE Rollback!Reverted
  <2>1. /\ rollbackPc' = "ended" /\ rollbackResult' = "reverted" /\ UNCHANGED << work, rollbackTodo >>
        /\ \A g \in RunFiles : rollbackTodo[g] = "skip"
    BY <1>3 DEF Rollback!Reverted
  <2>2. RollbackTypes'
    BY <1>1, <2>1 DEF RollbackInv, RollbackTypes
  <2>3. \A g \in RunFiles : UsersFile(g)'
    BY <1>1, <2>1 DEF RollbackInv, UsersFile
  <2>4. \A g \in RunFiles : mine'[g] \in { "none", "user" } => work'[g] = mine'[g]
    BY <2>3 DEF UsersFile
  <2>5. ASSUME NEW g \in meta.affected \ ignored, mine[g] = "nothing", rollbackHead[g] = start.head[g]
        PROVE  work[g] = start.work[g]
    <3>1. g \in RunFiles /\ FileReverts(g) /\ CleanStart
      BY <1>1 DEF RollbackInv, RollbackTypes
    <3>2. work[g] = rollbackHead[g]
      BY <2>1, <2>5, <3>1 DEF FileReverts
    <3> QED
      BY <2>5, <3>1, <3>2 DEF CleanStart
  <2> QED
    BY <1>1, <2>1, <2>2, <2>3, <2>4, <2>5 DEF RollbackInv, CleanStart, Rollback!RollbackRestores
<1> QED
  BY <1>2, <1>3

LEMMA RollbackInvStep ==
  RollbackInv /\ [Rollback!Next]_(Rollback!rollbackVars) => RollbackInv'
<1> SUFFICES ASSUME RollbackInv, [Rollback!Next]_(Rollback!rollbackVars) PROVE RollbackInv'
  OBVIOUS
<1>1. CASE UNCHANGED Rollback!rollbackVars
  <2>1. UNCHANGED << rollbackHead, index, ignored, work, rollbackPc, baseline, affected, meta,
                     rollbackTodo, rollbackResult, start, mine >>
    BY <1>1 DEF Rollback!rollbackVars, Rollback!git
  <2>2. RollbackTypes'
    BY <2>1 DEF RollbackInv, RollbackTypes
  <2> QED
    BY <2>1, <2>2 DEF RollbackInv, UsersFile, CleanStart, FileReverts, Rollback!RollbackRestores
<1>2. ASSUME NEW f \in RunFiles,
             Rollback!Edit(f) \/ Rollback!Add(f) \/ Rollback!Write(f) \/ Rollback!Apply(f)
      PROVE  RollbackInv'
  BY <1>2, UserRollback, RunRollbackStep, ApplyRollback
<1> QED
  BY <1>1, <1>2, UserRollback, RunRollbackStep, PlanRollback, ApplyRollback DEF Rollback!Next

(* A rollback never touches what the user made of a file after the run was  *)
(* recorded, unless he does so while it is under way; when it reports that  *)
(* it reverted the run, an affected file that git does not ignore and that  *)
(* no commit has changed since is as it was before the run, for any files,  *)
(* edits, writes and crashes (plan_run_rollback, revert_run_changes).       *)
THEOREM RollbacksRestore == Rollback!Spec => []RollbackRestores
<1>1. RollbackInv => Rollback!TypeOK
  BY DEF RollbackInv, RollbackTypes, Rollback!TypeOK
<1>2. RollbackInv => Rollback!RollbackRestores
  BY DEF RollbackInv
<1> QED
  BY <1>1, <1>2, RollbackInvInit, RollbackInvStep, PTL DEF Rollback!Spec, RollbackRestores

-------------------------------------------------------------------------------
(* The evaluation of a suite *)

\* Every case is carried out at least once.
SuiteLimits == Suite \in Seq([ variants : Nat \ {0}, steps : Seq(STRING) ])

SuiteTypes ==
    /\ policy \in Evaluations!Policies
    /\ pc \in { "prepare", "steps", "record", "clean", "summarize", "done", "aborted" }
    /\ at \in [ case : Nat, variant : Nat, step : Nat ]
    /\ evaluationSession \in { "none", "free", "asks" } /\ checks \subseteq BOOLEAN
    /\ rows \in Seq(BOOLEAN) /\ verdicts \in Seq(BOOLEAN)
    /\ spaces \subseteq Nat \X Nat /\ stuck \subseteq Nat \X Nat /\ wrong \subseteq Nat \X Nat

\* A case is under way.
UnderWay == pc \in { "prepare", "steps", "record", "clean" }
Reached(c, v) == c < at.case \/ (c = at.case /\ v <= at.variant)
Passed(c) == \A v \in 1..Suite[c].variants : << c, v >> \notin wrong
Left(c) == \A v \in 1..Suite[c].variants :
             << c, v >> \in spaces <=> << c, v >> \in stuck \/ Evaluations!Keeps(<< c, v >> \notin wrong)

\* Where the suite is, and how many verdicts and rows there are then.
SuitePlace ==
    /\ UnderWay =>
         /\ at.case \in 1..Len(Suite) /\ at.variant \in 1..Suite[at.case].variants
         /\ Len(rows) = IF pc = "clean" THEN at.case ELSE at.case - 1
         /\ Len(verdicts) = IF pc \in { "record", "clean" } THEN at.variant ELSE at.variant - 1
         /\ \A c, v \in Nat : << c, v >> \in stuck => c < at.case
    /\ pc \in { "record", "clean" } => at.variant = Suite[at.case].variants
    /\ pc \in { "summarize", "done" } => Len(rows) = Len(Suite) /\ Len(Suite) <= at.case
    /\ \A c, v \in Nat : << c, v >> \in wrong \cup spaces => Reached(c, v)

\* The variant that is carried out, and those of its case that have been.
VariantInv ==
    /\ pc = "prepare" => Evaluations!Here \notin spaces \cup wrong
    /\ pc = "steps" => /\ Evaluations!Here \in spaces
                       /\ FALSE \in checks <=> Evaluations!Here \in wrong
    /\ UnderWay => \A v \in 1..Len(verdicts) :
                     /\ << at.case, v >> \in spaces
                     /\ verdicts[v] <=> << at.case, v >> \notin wrong

\* The cases that are over.
CasesInv ==
    /\ \A c \in 1..Len(rows) : rows[c] <=> Passed(c)
    /\ \A c \in 1..Len(Suite) : Evaluations!Over(c) => Left(c)
    /\ pc = "done" => summary = [ total  |-> Len(Suite),
                                  passed |-> Evaluations!Cardinality({ c \in 1..Len(Suite) : Passed(c) }) ]

SuiteInv == SuiteTypes /\ SuitePlace /\ VariantInv /\ CasesInv

LEMMA SuiteFacts ==
  ASSUME SuiteLimits
  PROVE  /\ Len(Suite) \in Nat /\ DOMAIN Suite = 1..Len(Suite)
         /\ \A c \in 1..Len(Suite) : Suite[c].variants \in Nat \ {0} /\ Suite[c].steps \in Seq(STRING)
         /\ Suite = << >> <=> Len(Suite) = 0
<1>1. Suite \in Seq([ variants : Nat \ {0}, steps : Seq(STRING) ])
  BY DEF SuiteLimits
<1>2. Len(Suite) \in Nat /\ DOMAIN Suite = 1..Len(Suite) /\ (Suite = << >> <=> Len(Suite) = 0)
  BY <1>1
<1>3. \A c \in 1..Len(Suite) : Suite[c] \in [ variants : Nat \ {0}, steps : Seq(STRING) ]
  BY <1>1, ElementOfSeq
<1>4. ASSUME NEW c \in 1..Len(Suite)
      PROVE  Suite[c].variants \in Nat \ {0} /\ Suite[c].steps \in Seq(STRING)
  BY <1>3
<1> QED
  BY <1>2, <1>4

LEMMA SuiteInvInit ==
  ASSUME SuiteLimits
  PROVE  Evaluations!Init => SuiteInv
<1> SUFFICES ASSUME Evaluations!Init PROVE SuiteInv
  OBVIOUS
<1>1. /\ pc = IF Suite = << >> THEN "summarize" ELSE "prepare"
      /\ at = [ case |-> 1, variant |-> 1, step |-> 1 ] /\ rows = << >> /\ verdicts = << >>
      /\ spaces = { } /\ stuck = { } /\ wrong = { }
  BY DEF Evaluations!Init
<1>2. SuiteTypes
  BY <1>1 DEF SuiteTypes, Evaluations!Init, Evaluations!Policies
<1>3. Len(rows) = 0 /\ Len(verdicts) = 0
  BY <1>1
<1>4. SuitePlace
  BY <1>1, <1>3, SuiteFacts DEF SuitePlace, UnderWay
<1>5. VariantInv
  BY <1>1, <1>3 DEF VariantInv
<1>6. CasesInv
  BY <1>1, <1>3, SuiteFacts DEF CasesInv, Evaluations!Over
<1> QED
  BY <1>2, <1>4, <1>5, <1>6 DEF SuiteInv

(* The steps of a variant make its workspace and may make it fail, and      *)
(* touch no other variant (_prepare_workspace, run_case).                   *)
LEMMA VariantKeeps ==
  ASSUME SuiteLimits, SuiteInv,
         pc \in { "prepare", "steps" }, at'.case = at.case, at'.variant = at.variant,
         pc' \in { pc, "steps", "aborted" },
         spaces' \in { spaces, spaces \cup { Evaluations!Here } },
         wrong' \in { wrong, wrong \cup { Evaluations!Here } },
         UNCHANGED << policy, verdicts, stuck, rows, summary >>
  PROVE  /\ SuitePlace' /\ CasesInv'
         /\ UnderWay' => \A v \in 1..Len(verdicts') :
                           /\ << at'.case, v >> \in spaces'
                           /\ verdicts'[v] <=> << at'.case, v >> \notin wrong'
<1>1. /\ at.case \in 1..Len(Suite) /\ at.variant \in 1..Suite[at.case].variants
      /\ Len(rows) = at.case - 1 /\ Len(verdicts) = at.variant - 1
      /\ Suite[at.case].variants \in Nat /\ Len(Suite) \in Nat
  BY SuiteFacts DEF SuiteInv, SuitePlace, UnderWay
<1>2. \A c, v \in Nat : << c, v >> = Evaluations!Here <=> c = at.case /\ v = at.variant
  BY DEF Evaluations!Here
<1>3. \A c, v \in Nat : c # at.case \/ v # at.variant =>
        (<< c, v >> \in wrong' <=> << c, v >> \in wrong) /\ (<< c, v >> \in spaces' <=> << c, v >> \in spaces)
  BY <1>2
<1>4. pc' \in { "prepare", "steps", "aborted" } /\ (UnderWay' => UnderWay)
  BY DEF UnderWay
<1>5. SuitePlace'
  <2>1. \A c, v \in Nat : << c, v >> \in wrong' \cup spaces' => Reached(c, v)'
    <3>1. ASSUME NEW c \in Nat, NEW v \in Nat, << c, v >> \in wrong' \cup spaces' PROVE Reached(c, v)'
      <4>1. CASE c = at.case /\ v = at.variant
        BY <1>1, <4>1 DEF Reached
      <4>2. CASE c # at.case \/ v # at.variant
        <5>1. << c, v >> \in wrong \cup spaces
          BY <1>3, <3>1, <4>2
        <5> QED
          BY <5>1 DEF SuiteInv, SuitePlace, Reached
      <4> QED
        BY <4>1, <4>2
    <3> QED
      BY <3>1
  <2> QED
    BY <1>1, <1>4, <2>1 DEF SuiteInv, SuitePlace, UnderWay
<1>6. \A c \in 1..Len(rows') : rows'[c] <=> Passed(c)'
  <2>1. ASSUME NEW c \in 1..Len(rows) PROVE rows[c] <=> Passed(c)'
    <3>0. at.case \in Int /\ at.case <= Len(Suite) /\ c \in 1..(at.case - 1)
      BY <1>1
    <3>1. c \in Nat /\ c # at.case /\ c \in 1..Len(Suite)
      BY <1>1, <3>0
    <3>2. Suite[c].variants \in Nat
      BY <3>1, SuiteFacts
    <3>3. \A v \in 1..Suite[c].variants : << c, v >> \in wrong' <=> << c, v >> \in wrong
      BY <1>3, <3>1, <3>2
    <3> QED
      BY <3>3 DEF Passed, SuiteInv, CasesInv
  <2> QED
    BY <2>1
<1>7. \A c \in 1..Len(Suite) : Evaluations!Over(c)' => Left(c)'
  <2>1. ASSUME NEW c \in 1..Len(Suite), Evaluations!Over(c)' PROVE Left(c)'
    <3>1. c < at.case /\ c \in Nat /\ Suite[c].variants \in Nat
      BY <1>1, <1>4, <2>1, SuiteFacts DEF Evaluations!Over
    <3>2. Left(c)
      BY <3>1 DEF SuiteInv, CasesInv, Evaluations!Over
    <3>3. \A v \in 1..Suite[c].variants :
            (<< c, v >> \in wrong' <=> << c, v >> \in wrong) /\ (<< c, v >> \in spaces' <=> << c, v >> \in spaces)
      <4>1. c # at.case /\ \A v \in 1..Suite[c].variants : v \in Nat
        BY <1>1, <3>1
      <4> QED
        BY <1>3, <3>1, <4>1
    <3> QED
      BY <3>2, <3>3 DEF Left, Evaluations!Keeps
  <2> QED
    BY <2>1
<1>8. UnderWay' => \A v \in 1..Len(verdicts') :
                     /\ << at'.case, v >> \in spaces'
                     /\ verdicts'[v] <=> << at'.case, v >> \notin wrong'
  <2>1. ASSUME NEW v \in 1..Len(verdicts) PROVE v # at.variant /\ v \in Nat /\ at.case \in Nat
    BY <1>1
  <2> QED
    BY <1>3, <1>4, <2>1 DEF SuiteInv, VariantInv
<1> QED
  BY <1>4, <1>5, <1>6, <1>7, <1>8 DEF CasesInv

LEMMA VariantSteps ==
  ASSUME SuiteLimits, SuiteInv,
         \/ Evaluations!Prepare \/ Evaluations!PrepareFails \/ Evaluations!Prompt
         \/ Evaluations!Change \/ Evaluations!Check \/ Evaluations!Raise
  PROVE  SuiteInv'
<1>1. /\ at.case \in Nat /\ at.variant \in Nat /\ Evaluations!Here \in Nat \X Nat
      /\ at \in [ case : Nat, variant : Nat, step : Nat ]
  BY DEF SuiteInv, SuiteTypes, Evaluations!Here
<1>2. CASE Evaluations!Prepare \/ Evaluations!PrepareFails
  <2>1. /\ pc = "prepare" /\ UNCHANGED << at, policy, wrong, verdicts, stuck, rows, summary >>
        /\ \/ /\ pc' = "steps" /\ checks' = { } /\ spaces' = spaces \cup { Evaluations!Here }
              /\ evaluationSession' = "free"
           \/ /\ pc' = "aborted" /\ spaces' \in { spaces, spaces \cup { Evaluations!Here } }
              /\ UNCHANGED << evaluationSession, checks >>
    BY <1>2 DEF Evaluations!Prepare, Evaluations!PrepareFails
  <2>2. SuiteTypes'
    BY <1>1, <2>1 DEF SuiteInv, SuiteTypes
  <2>3. /\ SuitePlace' /\ CasesInv'
        /\ UnderWay' => \A v \in 1..Len(verdicts') :
                          /\ << at'.case, v >> \in spaces'
                          /\ verdicts'[v] <=> << at'.case, v >> \notin wrong'
    BY <2>1, VariantKeeps
  <2>4. Evaluations!Here' = Evaluations!Here /\ Evaluations!Here \notin wrong
    BY <2>1 DEF Evaluations!Here, SuiteInv, VariantInv
  <2> QED
    BY <2>1, <2>2, <2>3, <2>4 DEF SuiteInv, VariantInv
<1>3. CASE Evaluations!Prompt \/ Evaluations!Change \/ Evaluations!Check \/ Evaluations!Raise
  <2>1. /\ pc = "steps" /\ UNCHANGED << pc, policy, spaces, verdicts, stuck, rows, summary >>
        /\ evaluationSession' \in { evaluationSession, "free", "asks" }
        /\ \/ UNCHANGED << checks, wrong >>
           \/ checks' = checks \cup { TRUE } /\ wrong' = wrong
           \/ checks' = checks \cup { FALSE } /\ wrong' = wrong \cup { Evaluations!Here }
    BY <1>3 DEF Evaluations!Prompt, Evaluations!Change, Evaluations!Check, Evaluations!Raise,
       Evaluations!Doing, Evaluations!Unjudged
  <2>2. \E s \in Nat : at' = [ at EXCEPT !.step = s ]
    <3>1. CASE Evaluations!Raise
      <4>1. at.case \in 1..Len(Suite)
        BY <2>1 DEF SuiteInv, SuitePlace, UnderWay
      <4>2. Len(Evaluations!Steps) + 1 \in Nat
        BY <4>1, SuiteFacts DEF Evaluations!Steps
      <4> QED
        BY <3>1, <4>2 DEF Evaluations!Raise
    <3>2. CASE Evaluations!Prompt \/ Evaluations!Change \/ Evaluations!Check
      <4>1. at' = [ at EXCEPT !.step = @ + 1 ]
        BY <3>2 DEF Evaluations!Prompt, Evaluations!Change, Evaluations!Check, Evaluations!Done
      <4> QED
        BY <1>1, <4>1
    <3> QED
      BY <1>3, <3>1, <3>2
  <2>3. /\ at' \in [ case : Nat, variant : Nat, step : Nat ] /\ at'.case = at.case /\ at'.variant = at.variant
        /\ Evaluations!Here' = Evaluations!Here
    BY <1>1, <2>2 DEF Evaluations!Here
  <2>4. SuiteTypes'
    BY <1>1, <2>1, <2>3 DEF SuiteInv, SuiteTypes
  <2>5. /\ SuitePlace' /\ CasesInv'
        /\ UnderWay' => \A v \in 1..Len(verdicts') :
                          /\ << at'.case, v >> \in spaces'
                          /\ verdicts'[v] <=> << at'.case, v >> \notin wrong'
    BY <2>1, <2>3, VariantKeeps
  <2>6. Evaluations!Here \in spaces' /\ (FALSE \in checks' <=> Evaluations!Here \in wrong')
    BY <2>1 DEF SuiteInv, VariantInv
  <2> QED
    BY <2>1, <2>3, <2>4, <2>5, <2>6 DEF SuiteInv, VariantInv
<1> QED
  BY <1>2, <1>3

\* A sequence of verdicts and one more.
LEMMA VerdictAdded ==
  ASSUME NEW s \in Seq(BOOLEAN), NEW b \in BOOLEAN
  PROVE  /\ Append(s, b) \in Seq(BOOLEAN) /\ Len(Append(s, b)) = Len(s) + 1
         /\ Append(s, b)[Len(s) + 1] = b
         /\ \A i \in 1..Len(s) : Append(s, b)[i] = s[i]
  BY AppendProperties

(* A variant ends with the verdict of its checks (run_case).                *)
LEMMA VariantEnds ==
  ASSUME SuiteLimits, SuiteInv, Evaluations!EndVariant
  PROVE  SuiteInv'
<1>1. /\ pc = "steps" /\ verdicts' = Append(verdicts, FALSE \notin checks) /\ evaluationSession' = "none"
      /\ UNCHANGED << policy, checks, spaces, stuck, rows, summary, wrong >>
      /\ \/ /\ at.variant + 1 \in 1..Suite[at.case].variants
            /\ pc' = "prepare" /\ at' = [ at EXCEPT !.variant = @ + 1, !.step = 1 ]
         \/ /\ at.variant + 1 \notin 1..Suite[at.case].variants
            /\ pc' = "record" /\ UNCHANGED at
  BY DEF Evaluations!EndVariant, Evaluations!Variants
<1>2. /\ at.case \in 1..Len(Suite) /\ at.variant \in 1..Suite[at.case].variants
      /\ Len(rows) = at.case - 1 /\ Len(verdicts) = at.variant - 1
      /\ Suite[at.case].variants \in Nat /\ Len(Suite) \in Nat
      /\ \A c, v \in Nat : << c, v >> \in stuck => c < at.case
  BY <1>1, SuiteFacts DEF SuiteInv, SuitePlace, UnderWay
<1>3. /\ at \in [ case : Nat, variant : Nat, step : Nat ] /\ verdicts \in Seq(BOOLEAN)
      /\ at'.case = at.case
      /\ pc' = "prepare" => at'.variant = at.variant + 1
      /\ at'.variant \in { at.variant, at.variant + 1 }
      /\ at' \in [ case : Nat, variant : Nat, step : Nat ]
  <2>1. at \in [ case : Nat, variant : Nat, step : Nat ] /\ verdicts \in Seq(BOOLEAN)
    BY DEF SuiteInv, SuiteTypes
  <2>2. CASE pc' = "prepare" /\ at' = [ at EXCEPT !.variant = @ + 1, !.step = 1 ]
    <3>1. at' = [ case |-> at.case, variant |-> at.variant + 1, step |-> 1 ]
      BY <2>1, <2>2
    <3> QED
      BY <2>1, <2>2, <3>1
  <2>3. CASE pc' = "record" /\ UNCHANGED at
    BY <2>1, <2>3
  <2> QED
    BY <1>1, <2>1, <2>2, <2>3
<1>4. /\ verdicts' \in Seq(BOOLEAN) /\ Len(verdicts') = at.variant
      /\ verdicts'[at.variant] = (FALSE \notin checks)
      /\ \A v \in 1..Len(verdicts) : verdicts'[v] = verdicts[v]
  <2>1. PICK b \in BOOLEAN : b = (FALSE \notin checks)
    BY Zenon
  <2>2. verdicts' = Append(verdicts, b)
    BY <1>1, <2>1, Zenon
  <2>3. /\ verdicts' \in Seq(BOOLEAN) /\ Len(verdicts') = Len(verdicts) + 1
        /\ verdicts'[Len(verdicts) + 1] = b
        /\ \A v \in 1..Len(verdicts) : verdicts'[v] = verdicts[v]
    BY <1>3, <2>2, VerdictAdded, Zenon
  <2>4. Len(verdicts) + 1 = at.variant
    BY <1>2
  <2> QED
    BY <2>1, <2>3, <2>4, Zenon
<1>5. SuiteTypes'
  BY <1>1, <1>3, <1>4 DEF SuiteInv, SuiteTypes
<1>6. SuitePlace'
  <2>1. \A c, v \in Nat : << c, v >> \in wrong' \cup spaces' => Reached(c, v)'
    <3>1. ASSUME NEW c \in Nat, NEW v \in Nat, << c, v >> \in wrong \cup spaces PROVE Reached(c, v)'
      <4>1. Reached(c, v)
        BY <3>1 DEF SuiteInv, SuitePlace
      <4> QED
        BY <1>2, <1>3, <4>1 DEF Reached
    <3> QED
      BY <1>1, <3>1
  <2>2. CASE pc' = "prepare"
    <3>1. at'.variant \in 1..Suite[at'.case].variants /\ Len(verdicts') = at'.variant - 1
      BY <1>1, <1>2, <1>3, <1>4, <2>2
    <3> QED
      BY <1>1, <1>2, <1>3, <2>1, <2>2, <3>1 DEF SuitePlace, UnderWay
  <2>3. CASE pc' = "record"
    <3>1. at' = at /\ at.variant = Suite[at.case].variants
      BY <1>1, <1>2, <2>3
    <3> QED
      BY <1>1, <1>2, <1>4, <2>1, <2>3, <3>1 DEF SuitePlace, UnderWay
  <2> QED
    BY <1>1, <2>2, <2>3
<1>7. VariantInv'
  <2>1. pc' = "prepare" => Evaluations!Here' \notin spaces' \cup wrong'
    <3>1. ASSUME pc' = "prepare" PROVE << at.case, at.variant + 1 >> \notin spaces \cup wrong
      <4>1. at.case \in Nat /\ at.variant + 1 \in Nat /\ ~Reached(at.case, at.variant + 1)
        BY <1>2 DEF Reached
      <4> QED
        BY <4>1 DEF SuiteInv, SuitePlace
    <3> QED
      BY <1>1, <1>3, <3>1 DEF Evaluations!Here
  <2>2. ASSUME NEW v \in 1..Len(verdicts')
        PROVE  << at.case, v >> \in spaces /\ (verdicts'[v] <=> << at.case, v >> \notin wrong)
    <3>1. CASE v = at.variant
      <4>1. verdicts'[v] = (FALSE \notin checks)
        BY <1>4, <3>1
      <4>2. Evaluations!Here \in spaces /\ (FALSE \in checks <=> Evaluations!Here \in wrong)
        BY <1>1 DEF SuiteInv, VariantInv
      <4> QED
        BY <3>1, <4>1, <4>2, Zenon DEF Evaluations!Here
    <3>2. CASE v # at.variant
      <4>1. v \in 1..Len(verdicts)
        BY <1>2, <1>4, <3>2
      <4>2. verdicts'[v] = verdicts[v]
        BY <1>4, <4>1
      <4>3. UnderWay
        BY <1>1 DEF UnderWay
      <4>4. << at.case, v >> \in spaces /\ (verdicts[v] <=> << at.case, v >> \notin wrong)
        BY <4>1, <4>3 DEF SuiteInv, VariantInv
      <4> QED
        BY <4>2, <4>4, Zenon
    <3> QED
      BY <3>1, <3>2
  <2> QED
    BY <1>1, <1>3, <2>1, <2>2, Zenon DEF VariantInv
<1>8. CasesInv'
  <2>1. \A c : Evaluations!Over(c)' => Evaluations!Over(c)
    BY <1>1, <1>3 DEF Evaluations!Over
  <2> QED
    BY <1>1, <2>1 DEF SuiteInv, CasesInv, Passed, Left, Evaluations!Keeps
<1> QED
  BY <1>5, <1>6, <1>7, <1>8 DEF SuiteInv

(* A case passes when all of its variants did (write_case).                 *)
LEMMA CaseRecorded ==
  ASSUME SuiteLimits, SuiteInv, Evaluations!Record
  PROVE  SuiteInv'
<1>1. /\ pc = "record" /\ pc' = "clean" /\ rows' = Append(rows, FALSE \notin Range(verdicts))
      /\ UNCHANGED << policy, at, evaluationSession, checks, verdicts, spaces, stuck, summary, wrong >>
  BY DEF Evaluations!Record, Evaluations!Range, Range
<1>2. /\ at.case \in 1..Len(Suite) /\ at.variant = Suite[at.case].variants
      /\ Len(rows) = at.case - 1 /\ Len(verdicts) = at.variant
  BY <1>1 DEF SuiteInv, SuitePlace, UnderWay
<1>3. rows \in Seq(BOOLEAN) /\ verdicts \in Seq(BOOLEAN)
  BY DEF SuiteInv, SuiteTypes
<1>4. /\ rows' \in Seq(BOOLEAN) /\ Len(rows') = at.case
      /\ rows'[at.case] = (FALSE \notin Range(verdicts))
      /\ \A c \in 1..Len(rows) : rows'[c] = rows[c]
  <2>1. PICK b \in BOOLEAN : b = (FALSE \notin Range(verdicts))
    BY Zenon
  <2>2. rows' = Append(rows, b)
    BY <1>1, <2>1, Zenon
  <2>3. /\ rows' \in Seq(BOOLEAN) /\ Len(rows') = Len(rows) + 1 /\ rows'[Len(rows) + 1] = b
        /\ \A c \in 1..Len(rows) : rows'[c] = rows[c]
    BY <1>3, <2>2, VerdictAdded, Zenon
  <2>4. Len(rows) + 1 = at.case
    BY <1>2
  <2> QED
    BY <2>1, <2>3, <2>4, Zenon
<1>5. SuiteTypes'
  BY <1>1, <1>4 DEF SuiteInv, SuiteTypes
<1>6. SuitePlace'
  BY <1>1, <1>2, <1>4 DEF SuiteInv, SuitePlace, UnderWay, Reached
<1>7. VariantInv'
  BY <1>1 DEF SuiteInv, VariantInv, UnderWay
<1>8. FALSE \notin Range(verdicts) <=> Passed(at.case)
  <2>1. \A v \in 1..Len(verdicts) : verdicts[v] <=> << at.case, v >> \notin wrong
    BY <1>1 DEF SuiteInv, VariantInv, UnderWay
  <2>2. DOMAIN verdicts = 1..Len(verdicts) /\ \A v \in 1..Len(verdicts) : verdicts[v] \in BOOLEAN
    BY <1>3
  <2> QED
    BY <1>2, <2>1, <2>2, Zenon DEF Passed, Range
<1>9. CasesInv'
  <2>1. ASSUME NEW c \in 1..Len(rows') PROVE rows'[c] <=> Passed(c)
    <3>1. CASE c = at.case
      <4>1. rows'[c] = (FALSE \notin Range(verdicts))
        BY <1>4, <3>1
      <4> QED
        BY <1>8, <3>1, <4>1, Zenon
    <3>2. CASE c # at.case
      <4>1. c \in 1..Len(rows)
        BY <1>2, <1>4, <3>2
      <4>2. rows'[c] = rows[c]
        BY <1>4, <4>1
      <4>3. rows[c] <=> Passed(c)
        BY <4>1 DEF SuiteInv, CasesInv
      <4> QED
        BY <4>2, <4>3, Zenon
    <3> QED
      BY <3>1, <3>2
  <2>2. \A c : Evaluations!Over(c)' => Evaluations!Over(c)
    BY <1>1 DEF Evaluations!Over
  <2>3. \A c \in 1..Len(rows') : rows'[c] <=> Passed(c)'
    BY <1>1, <2>1, Zenon DEF Passed
  <2>4. \A c \in 1..Len(Suite) : Evaluations!Over(c)' => Left(c)'
    BY <1>1, <2>2 DEF SuiteInv, CasesInv, Left, Evaluations!Keeps
  <2> QED
    BY <1>1, <2>3, <2>4 DEF CasesInv
<1> QED
  BY <1>5, <1>6, <1>7, <1>9 DEF SuiteInv

(* Each variant's own outcome decides about its workspace                   *)
(* (_cleanup_workspace).                                                    *)
LEMMA CaseCleaned ==
  ASSUME SuiteLimits, SuiteInv, Evaluations!CleanUp
  PROVE  SuiteInv'
<1>1. /\ at.case \in 1..Len(Suite) /\ at.variant = Suite[at.case].variants
      /\ Len(rows) = at.case /\ Len(verdicts) = at.variant
      /\ Suite[at.case].variants \in Nat \ {0} /\ Len(Suite) \in Nat /\ DOMAIN Suite = 1..Len(Suite)
      /\ \A c, v \in Nat : << c, v >> \in stuck => c < at.case
  BY SuiteFacts DEF Evaluations!CleanUp, SuiteInv, SuitePlace, UnderWay
<1>2. PICK left \in SUBSET { << at.case, v >> : v \in { w \in 1..Suite[at.case].variants :
                                                        ~Evaluations!Keeps(verdicts[w]) } } :
        /\ spaces' = { s \in spaces : s[1] # at.case \/ Evaluations!Keeps(verdicts[s[2]]) \/ s \in left }
        /\ stuck' = stuck \cup left
  BY DEF Evaluations!CleanUp, Evaluations!Variants
<1>3. /\ pc = "clean" /\ verdicts' = << >>
      /\ UNCHANGED << policy, evaluationSession, checks, rows, summary, wrong >>
      /\ \/ /\ at.case + 1 \in 1..Len(Suite) /\ pc' = "prepare"
            /\ at' = [ case |-> at.case + 1, variant |-> 1, step |-> 1 ]
         \/ at.case + 1 \notin 1..Len(Suite) /\ pc' = "summarize" /\ at' = at
  BY <1>1 DEF Evaluations!CleanUp, Evaluations!Cases
<1>4. \A v \in 1..Suite[at.case].variants :
        /\ v \in Nat /\ << at.case, v >> \in spaces
        /\ verdicts[v] <=> << at.case, v >> \notin wrong
  BY <1>1, <1>3 DEF SuiteInv, VariantInv, UnderWay
<1>5. SuiteTypes'
  <2>1. left \subseteq Nat \X Nat
    BY <1>1, <1>2
  <2>2. at' \in [ case : Nat, variant : Nat, step : Nat ]
    BY <1>1, <1>3 DEF SuiteInv, SuiteTypes
  <2> QED
    BY <1>2, <1>3, <2>1, <2>2 DEF SuiteInv, SuiteTypes
<1>6. \A c, v \in Nat : << c, v >> \in wrong' \cup spaces' => c <= at.case
  <2>1. \A c, v \in Nat : << c, v >> \in wrong \cup spaces => Reached(c, v)
    BY DEF SuiteInv, SuitePlace
  <2>2. spaces' \subseteq spaces /\ wrong' = wrong
    BY <1>2, <1>3, Zenon
  <2>3. ASSUME NEW c \in Nat, NEW v \in Nat, Reached(c, v) PROVE c <= at.case
    BY <1>1, <2>3 DEF Reached
  <2> QED
    BY <2>1, <2>2, <2>3
<1>7. SuitePlace'
  <2>1. \A c, v \in Nat : << c, v >> \in left => c = at.case
    <3>1. \A s \in left : \E v \in 1..Suite[at.case].variants : s = << at.case, v >>
      BY <1>2
    <3> QED
      BY <3>1
  <2>2. CASE pc' = "prepare"
    <3>1. /\ at'.case = at.case + 1 /\ at'.variant = 1 /\ at.case + 1 \in 1..Len(Suite)
      BY <1>3, <2>2
    <3>2. 1 \in 1..Suite[at.case + 1].variants
      BY <3>1, SuiteFacts
    <3>3. Len(verdicts') = 0
      BY <1>3
    <3>4. \A c, v \in Nat : << c, v >> \in wrong' \cup spaces' => Reached(c, v)'
      BY <1>1, <1>6, <3>1 DEF Reached
    <3>5. \A c, v \in Nat : << c, v >> \in stuck' => c < at'.case
      BY <1>1, <1>2, <2>1, <3>1
    <3> QED
      BY <1>1, <1>3, <2>2, <3>1, <3>2, <3>3, <3>4, <3>5 DEF SuitePlace, UnderWay
  <2>3. CASE pc' = "summarize"
    <3>1. at' = at /\ Len(Suite) = at.case
      BY <1>1, <1>3, <2>3
    <3>2. \A c, v \in Nat : << c, v >> \in wrong' \cup spaces' => Reached(c, v)'
      <4>1. \A c, v \in Nat : << c, v >> \in wrong \cup spaces => Reached(c, v)
        BY DEF SuiteInv, SuitePlace
      <4> QED
        BY <1>2, <1>3, <3>1, <4>1 DEF Reached
    <3> QED
      BY <1>1, <1>3, <2>3, <3>1, <3>2 DEF SuitePlace, UnderWay
  <2> QED
    BY <1>3, <2>2, <2>3
<1>8. VariantInv'
  <2>1. pc' = "prepare" => Evaluations!Here' \notin spaces' \cup wrong'
    <3>1. ASSUME pc' = "prepare" PROVE << at.case + 1, 1 >> \notin spaces' \cup wrong'
      BY <1>1, <1>6
    <3> QED
      BY <1>3, <3>1 DEF Evaluations!Here
  <2>2. \A v \in 1..Len(verdicts') : FALSE
    BY <1>3
  <2>3. pc' # "steps"
    BY <1>3
  <2> QED
    BY <2>1, <2>2, <2>3, Zenon DEF VariantInv
<1>9. CasesInv'
  <2>1. ASSUME NEW c \in 1..Len(Suite), Evaluations!Over(c)' PROVE Left(c)'
    <3>1. c \in Nat /\ Suite[c].variants \in Nat /\ \A v \in 1..Suite[c].variants : v \in Nat
      BY <1>1, SuiteFacts
    <3>2. c <= at.case
      BY <1>1, <1>3, <2>1 DEF Evaluations!Over
    <3>3. CASE c = at.case
      <4>1. ASSUME NEW v \in 1..Suite[c].variants
            PROVE  << c, v >> \in spaces' <=> << c, v >> \in stuck' \/ Evaluations!Keeps(<< c, v >> \notin wrong)
        <5>1. Evaluations!Keeps(verdicts[v]) <=> Evaluations!Keeps(<< c, v >> \notin wrong)
          BY <1>4, <3>3, <4>1 DEF Evaluations!Keeps
        <5>2. << c, v >> \in spaces' <=> Evaluations!Keeps(verdicts[v]) \/ << c, v >> \in left
          BY <1>2, <1>4, <3>3, <4>1, << c, v >>[1] = c, << c, v >>[2] = v
        <5>3. << c, v >> \in stuck' <=> << c, v >> \in left
          BY <1>1, <1>2, <3>1, <3>3, <4>1
        <5> QED
          BY <5>1, <5>2, <5>3
      <4> QED
        BY <1>3, <4>1 DEF Left, Evaluations!Keeps
    <3>4. CASE c # at.case
      <4>1. Left(c)
        BY <1>1, <3>1, <3>2, <3>4 DEF SuiteInv, CasesInv, Evaluations!Over
      <4>2. ASSUME NEW v \in 1..Suite[c].variants
            PROVE  (<< c, v >> \in spaces' <=> << c, v >> \in spaces) /\ (<< c, v >> \in stuck' <=> << c, v >> \in stuck)
        BY <1>2, <3>4, << c, v >>[1] = c, << c, v >>[2] = v
      <4> QED
        BY <1>3, <4>1, <4>2 DEF Left, Evaluations!Keeps
    <3> QED
      BY <3>3, <3>4
  <2> QED
    BY <1>3, <2>1 DEF SuiteInv, CasesInv, Passed
<1> QED
  BY <1>5, <1>7, <1>8, <1>9 DEF SuiteInv

(* The summary is of the rows (run_suite).                                  *)
LEMMA SuiteEnds ==
  ASSUME SuiteLimits, SuiteInv, Evaluations!Summarize \/ Evaluations!Abort
  PROVE  SuiteInv'
<1>1. /\ UNCHANGED << policy, at, evaluationSession, checks, verdicts, spaces, stuck, rows, wrong >>
      /\ pc' \in { "done", "aborted" } /\ (pc' = "done" => pc = "summarize")
  BY DEF Evaluations!Summarize, Evaluations!Abort
<1>2. SuiteTypes'
  BY <1>1 DEF SuiteInv, SuiteTypes
<1>3. SuitePlace'
  BY <1>1 DEF SuiteInv, SuitePlace, UnderWay, Reached
<1>4. VariantInv'
  BY <1>1 DEF SuiteInv, VariantInv, UnderWay
<1>5. CasesInv'
  <2>1. \A c : Evaluations!Over(c)' => Evaluations!Over(c)
    BY <1>1 DEF Evaluations!Over
  <2>2. ASSUME pc' = "done"
        PROVE  summary' = [ total  |-> Len(Suite),
                            passed |-> Evaluations!Cardinality({ c \in 1..Len(Suite) : Passed(c) }) ]
    <3>1. /\ summary' = [ total |-> Len(rows), passed |-> Evaluations!Cardinality({ c \in DOMAIN rows : rows[c] }) ]
          /\ Len(rows) = Len(Suite)
      <4>1. Evaluations!Summarize
        BY <2>2, "aborted" # "done" DEF Evaluations!Abort
      <4>2. Len(rows) = Len(Suite)
        BY <1>1, <2>2 DEF SuiteInv, SuitePlace
      <4> QED
        BY <4>1, <4>2, Zenon DEF Evaluations!Summarize
    <3>2. DOMAIN rows = 1..Len(Suite) /\ \A c \in 1..Len(Suite) : rows[c] <=> Passed(c)
      BY <3>1 DEF SuiteInv, SuiteTypes, CasesInv
    <3>3. { c \in DOMAIN rows : rows[c] } = { c \in 1..Len(Suite) : Passed(c) }
      BY <3>2, Zenon
    <3> QED
      BY <3>1, <3>3, Zenon
  <2> QED
    BY <1>1, <2>1, <2>2 DEF SuiteInv, CasesInv, Passed, Left, Evaluations!Keeps
<1> QED
  BY <1>2, <1>3, <1>4, <1>5 DEF SuiteInv

LEMMA SuiteInvStep ==
  ASSUME SuiteLimits
  PROVE  SuiteInv /\ [Evaluations!Next]_(Evaluations!evaluationVars) => SuiteInv'
<1> SUFFICES ASSUME SuiteInv, [Evaluations!Next]_(Evaluations!evaluationVars) PROVE SuiteInv'
  OBVIOUS
<1>1. CASE UNCHANGED Evaluations!evaluationVars
  BY <1>1 DEF Evaluations!evaluationVars, Evaluations!Here, Evaluations!Keeps, Evaluations!Over,
     SuiteInv, SuiteTypes, SuitePlace, VariantInv, CasesInv, UnderWay, Reached, Passed, Left
<1>2. CASE \/ Evaluations!Prepare \/ Evaluations!PrepareFails \/ Evaluations!Prompt
           \/ Evaluations!Change \/ Evaluations!Check \/ Evaluations!Raise
  BY <1>2, VariantSteps
<1>3. CASE Evaluations!EndVariant
  BY <1>3, VariantEnds
<1>4. CASE Evaluations!Record
  BY <1>4, CaseRecorded
<1>5. CASE Evaluations!CleanUp
  BY <1>5, CaseCleaned
<1>6. CASE Evaluations!Summarize \/ Evaluations!Abort
  BY <1>6, SuiteEnds
<1> QED
  BY <1>1, <1>2, <1>3, <1>4, <1>5, <1>6 DEF Evaluations!Next

LEMMA SuiteInvIsHonest ==
  ASSUME SuiteLimits, SuiteInv
  PROVE  SuiteIsHonest
<1>1. /\ Evaluations!Cases = 1..Len(Suite) /\ Len(Suite) \in Nat
      /\ \A c : Evaluations!Variants(c) = 1..Suite[c].variants
  BY SuiteFacts DEF Evaluations!Cases, Evaluations!Variants
<1>2. DOMAIN rows = 1..Len(rows)
  BY DEF SuiteInv, SuiteTypes
<1>3. \A s \in spaces : s[1] <= at.case
  <2>1. ASSUME NEW c \in Nat, NEW v \in Nat, << c, v >> \in spaces PROVE << c, v >>[1] <= at.case
    <3>1. Reached(c, v) /\ at.case \in Nat
      BY <2>1 DEF SuiteInv, SuitePlace, SuiteTypes
    <3> QED
      BY <3>1 DEF Reached
  <2>2. spaces \subseteq Nat \X Nat
    BY DEF SuiteInv, SuiteTypes
  <2> QED
    BY <2>1, <2>2
<1>4. Evaluations!SuiteIsHonest
  <2>1. \A c \in DOMAIN rows : rows[c] <=> \A v \in Evaluations!Variants(c) : << c, v >> \notin wrong
    BY <1>1, <1>2, Zenon DEF SuiteInv, CasesInv, Passed
  <2>2. \A c \in Evaluations!Cases : Evaluations!Over(c) =>
          \A v \in Evaluations!Variants(c) :
             << c, v >> \in spaces <=> \/ << c, v >> \in stuck
                                      \/ Evaluations!Keeps(<< c, v >> \notin wrong)
    BY <1>1, Zenon DEF SuiteInv, CasesInv, Left
  <2>3. pc = "done" =>
          summary = [ total  |-> Len(Suite),
                      passed |-> Evaluations!Cardinality({ c \in Evaluations!Cases :
                                   \A v \in Evaluations!Variants(c) : << c, v >> \notin wrong }) ]
    <3>1. { c \in Evaluations!Cases : \A v \in Evaluations!Variants(c) : << c, v >> \notin wrong }
            = { c \in 1..Len(Suite) : Passed(c) }
      BY <1>1, Zenon DEF Passed
    <3> QED
      BY <3>1, Zenon DEF SuiteInv, CasesInv
  <2> QED
    BY <1>3, <2>1, <2>2, <2>3, Zenon DEF Evaluations!SuiteIsHonest
<1> QED
  BY <1>4 DEF SuiteIsHonest, SuiteInv, SuiteTypes, Evaluations!TypeOK

(* A case passes when no step of any of its variants failed, the copies     *)
(* that are left are those the policy keeps, and a summary is of every case, *)
(* for every suite (run_case, _cleanup_workspace, run_suite).               *)
THEOREM SuitesAreHonest ==
  ASSUME SuiteLimits
  PROVE  Evaluations!Spec => []SuiteIsHonest
<1>1. Evaluations!Init => SuiteInv
  BY SuiteInvInit
<1>2. SuiteInv /\ [Evaluations!Next]_(Evaluations!evaluationVars) => SuiteInv'
  BY SuiteInvStep
<1>3. SuiteInv => SuiteIsHonest
  BY SuiteInvIsHonest
<1> QED
  BY <1>1, <1>2, <1>3, PTL DEF Evaluations!Spec

-------------------------------------------------------------------------------
(* The commands of a session *)

CommandLimits == First \in Sessions /\ { "build", "plan" } \subseteq Modes /\ Modes \subseteq { "read", "plan", "build" }

SessionRow ==
    [ made : BOOLEAN, mode : Modes, run : { "none", "open", "over" } \cup Commands!Waits, astray : BOOLEAN,
      plan : { "none", "proposed", "active", "revising", "ended" }, said : BOOLEAN,
      chain : { "whole", "open", "passed", "cut" }, same : BOOLEAN ]
ControllerRow ==
    [ open : BOOLEAN, mode : Modes, behind : BOOLEAN, asks : BOOLEAN, late : BOOLEAN, failed : BOOLEAN ]
ExecutionRow ==
    [ by : { "nobody", "controller", "replaced" }, mode : Modes, answered : BOOLEAN ]
FollowRow == [ kind : { "none", "continue" }, replaced : BOOLEAN ]
PlanCommits == { "approve", "reject", "abandon", "finish" }
CommandCommits == PlanCommits \cup Modes
PlanSteps == { << >>, << "approve" >>, << "abandon", "finish" >>, << "reject", "finish" >> }
ModeStep == { << >> } \cup { << m >> : m \in Modes }

\* Only what is open works on a session. A controller falls behind, or into another mode, only
\* when it was derived while another one worked on the session or had asked for an approval, or
\* when a write has failed. A plan is proposed by a run in plan mode, and waits there.
RowInv(d, c, e, f) ==
    /\ d \in SessionRow /\ c \in ControllerRow /\ e \in ExecutionRow /\ f \in FollowRow
    /\ e.by # "nobody" \/ f.kind # "none" => c.open
    /\ c.open => d.made
    /\ c.behind => c.late \/ c.failed
    /\ e.by = "replaced" \/ f.replaced => c.late
    /\ f.replaced => f.kind # "none"
    /\ c.open => c.mode = d.mode \/ c.late \/ c.failed
    /\ c.open /\ ~c.late /\ d.run = "approval" => c.asks
    /\ d.plan # "none" => d.run # "none"
    /\ d.plan = "proposed" => d.mode = "plan" \/ d.astray
    /\ e.by # "nobody" => e.mode = d.mode \/ d.astray

\* An approved plan is not one of plan mode.
PlanAtHome(d) == d.plan \in { "active", "revising" } => d.mode # "plan" \/ d.astray

\* What a command has yet to commit: the mode is the last of it, no plan is proposed any more
\* when the session leaves plan mode, and none is going on when it enters it; a plan that is
\* approved in plan mode leaves it with the next commit.
TodoInv(d, c, e, f, t) ==
    /\ t \in [ of : Sessions, commits : Seq(CommandCommits), then : { "none", "continue" } ]
    /\ Len(t.commits) <= 3
    /\ \A i \in 1..(Len(t.commits) - 1) : t.commits[i] \notin Modes
    /\ t.commits # << >> =>
         /\ c.open /\ e.by = "nobody" /\ f.kind = "none"
         /\ t.commits[1] \in Modes \ { "plan" } => d.plan # "proposed"
         /\ t.commits[1] = "plan" => d.plan \notin { "active", "revising" }
         /\ PlanAtHome(d) \/ (d.plan = "active" /\ t.commits[1] \in Modes \ { "plan" } /\ ~c.behind)
         /\ t.commits[1] = "approve" =>
              \/ d.plan = "revising" \/ c.mode # "plan"
              \/ Len(t.commits) = 2 /\ t.commits[2] \in Modes \ { "plan" }
         /\ \A i \in 2..Len(t.commits) :
              /\ t.commits[i] \in Modes \cup { "finish" }
              /\ t.commits[i] = "plan" => t.commits[i - 1] = "finish"

Row(s) == RowInv(commandsDisk[s], ctl[s], exec[s], follow[s])
CommandInv ==
    /\ commandsDisk \in [ Sessions -> SessionRow ] /\ ctl \in [ Sessions -> ControllerRow ]
    /\ exec \in [ Sessions -> ExecutionRow ] /\ follow \in [ Sessions -> FollowRow ]
    /\ \A s \in Sessions : Row(s)
    /\ \A s \in Sessions : PlanAtHome(commandsDisk[s]) \/ (todo.commits # << >> /\ todo.of = s)
    /\ TodoInv(commandsDisk[todo.of], ctl[todo.of], exec[todo.of], follow[todo.of], todo)

LEMMA CommandRows ==
  ASSUME NEW s \in Sessions, CommandInv
  PROVE  /\ Row(s)
         /\ commandsDisk[s] \in SessionRow /\ ctl[s] \in ControllerRow
         /\ exec[s] \in ExecutionRow /\ follow[s] \in FollowRow
  BY DEF CommandInv

\* An approval that leaves plan mode is the one of a proposed plan.
LEMMA RevisionIsAtHome ==
  ASSUME CommandInv, NEW s \in Sessions, commandsDisk[s].plan = "revising"
  PROVE  PlanAtHome(commandsDisk[s])
  BY DEF CommandInv, TodoInv

(* A step that changes what belongs to one session.                         *)
LEMMA RowChanges ==
  ASSUME CommandInv, NEW s \in Sessions, NEW d, NEW c, NEW e, NEW f,
         RowInv(d, c, e, f), TodoInv(d, c, e, f, todo') , todo'.of = s \/ (todo'.commits = << >> /\ todo'.of \in Sessions),
         PlanAtHome(d) \/ todo'.commits # << >>, todo.commits = << >> \/ todo.of = s,
         commandsDisk' = [ commandsDisk EXCEPT ![s] = d ], ctl' = [ ctl EXCEPT ![s] = c ],
         exec' = [ exec EXCEPT ![s] = e ], follow' = [ follow EXCEPT ![s] = f ]
  PROVE  CommandInv'
<1>1. d \in SessionRow /\ c \in ControllerRow /\ e \in ExecutionRow /\ f \in FollowRow
  BY DEF RowInv
<1>2. /\ commandsDisk' \in [ Sessions -> SessionRow ] /\ ctl' \in [ Sessions -> ControllerRow ]
      /\ exec' \in [ Sessions -> ExecutionRow ] /\ follow' \in [ Sessions -> FollowRow ]
  BY <1>1 DEF CommandInv
<1>3. ASSUME NEW u \in Sessions PROVE Row(u)'
  <2>1. CASE u = s
    <3>1. commandsDisk'[u] = d /\ ctl'[u] = c /\ exec'[u] = e /\ follow'[u] = f
      BY <2>1 DEF CommandInv
    <3> QED
      BY <3>1 DEF Row
  <2>2. CASE u # s
    <3>1. /\ commandsDisk'[u] = commandsDisk[u] /\ ctl'[u] = ctl[u] /\ exec'[u] = exec[u]
          /\ follow'[u] = follow[u]
      BY <2>2 DEF CommandInv
    <3>2. Row(u)
      BY DEF CommandInv
    <3> QED
      BY <3>1, <3>2 DEF Row
  <2> QED
    BY <2>1, <2>2
<1>4. TodoInv(commandsDisk[todo.of], ctl[todo.of], exec[todo.of], follow[todo.of], todo)'
  <2>1. CASE todo'.of = s
    <3>1. commandsDisk'[s] = d /\ ctl'[s] = c /\ exec'[s] = e /\ follow'[s] = f
      BY DEF CommandInv
    <3> QED
      BY <2>1, <3>1
  <2>2. CASE todo'.commits = << >>
    BY <2>2 DEF TodoInv
  <2> QED
    BY <2>1, <2>2
<1>5. ASSUME NEW u \in Sessions
      PROVE  PlanAtHome(commandsDisk'[u]) \/ (todo'.commits # << >> /\ todo'.of = u)
  <2>1. CASE u = s
    <3>1. commandsDisk'[u] = d
      BY <2>1 DEF CommandInv
    <3>2. CASE todo'.commits = << >>
      BY <3>1, <3>2
    <3>3. CASE todo'.commits # << >>
      BY <2>1, <3>3
    <3> QED
      BY <3>2, <3>3
  <2>2. CASE u # s
    <3>1. commandsDisk'[u] = commandsDisk[u]
      BY <2>2 DEF CommandInv
    <3>2. PlanAtHome(commandsDisk[u])
      BY <2>2 DEF CommandInv
    <3> QED
      BY <3>1, <3>2
  <2> QED
    BY <2>1, <2>2
<1> QED
  BY <1>2, <1>3, <1>4, <1>5 DEF CommandInv

\* Of a session that no command works on.
LEMMA PlanIsAtHome ==
  ASSUME CommandInv, todo.commits = << >>, NEW s \in Sessions
  PROVE  PlanAtHome(commandsDisk[s])
  BY DEF CommandInv

\* A command that has nothing left to commit.
LEMMA NothingToCommit ==
  ASSUME CommandInv, todo.commits = << >>, NEW d, NEW c, NEW e, NEW f
  PROVE  TodoInv(d, c, e, f, todo)
  BY DEF CommandInv, TodoInv

LEMMA Unchanged ==
  ASSUME NEW S, NEW R, NEW g \in [ S -> R ], NEW x \in S
  PROVE  g = [ g EXCEPT ![x] = g[x] ]
  OBVIOUS

LEMMA CommandRest ==
  /\ Commands!NoSession \in [ made : BOOLEAN, mode : { "build" }, run : { "none" }, astray : { FALSE },
                              plan : { "none" }, said : BOOLEAN, chain : { "whole" }, same : BOOLEAN ]
  /\ Commands!Closed = [ open |-> FALSE, mode |-> "build", behind |-> FALSE, asks |-> FALSE,
                         late |-> FALSE, failed |-> FALSE ]
  /\ Commands!Idle = [ by |-> "nobody", mode |-> "build", answered |-> FALSE ]
  /\ Commands!NoFollow = [ kind |-> "none", replaced |-> FALSE ]
  BY DEF Commands!NoSession, Commands!Closed, Commands!Idle, Commands!NoFollow

LEMMA CommandInvInit ==
  ASSUME CommandLimits
  PROVE  Commands!Init => CommandInv
<1> SUFFICES ASSUME Commands!Init PROVE CommandInv
  OBVIOUS
<1> USE DEF CommandLimits
<1>1. ASSUME NEW s \in Sessions PROVE Row(s)
  <2> DEFINE d == IF s = First THEN [ Commands!NoSession EXCEPT !.made = TRUE ] ELSE Commands!NoSession
             c == IF s = First THEN [ Commands!Closed EXCEPT !.open = TRUE ] ELSE Commands!Closed
  <2>1. /\ commandsDisk[s] = d /\ ctl[s] = c /\ exec[s] = Commands!Idle
        /\ follow[s] = Commands!NoFollow
    BY DEF Commands!Init
  <2>2. d \in SessionRow /\ (d.made <=> s = First) /\ d.plan = "none" /\ d.mode = "build" /\ d.run = "none"
    BY DEF SessionRow, Commands!NoSession
  <2>3. c \in ControllerRow /\ (c.open <=> s = First) /\ c.mode = "build" /\ ~c.behind
    BY DEF ControllerRow, Commands!Closed
  <2>4. Commands!Idle \in ExecutionRow /\ Commands!Idle.by = "nobody"
    BY DEF ExecutionRow, Commands!Idle
  <2>5. Commands!NoFollow \in FollowRow /\ Commands!NoFollow.kind = "none" /\ ~Commands!NoFollow.replaced
    BY DEF FollowRow, Commands!NoFollow
  <2> HIDE DEF d, c
  <2> QED
    BY <2>1, <2>2, <2>3, <2>4, <2>5 DEF Row, RowInv
<1>2. /\ commandsDisk \in [ Sessions -> SessionRow ] /\ ctl \in [ Sessions -> ControllerRow ]
      /\ exec \in [ Sessions -> ExecutionRow ] /\ follow \in [ Sessions -> FollowRow ]
  BY <1>1 DEF Commands!Init, Row, RowInv
<1>3. TodoInv(commandsDisk[todo.of], ctl[todo.of], exec[todo.of], follow[todo.of], todo)
  BY DEF Commands!Init, Commands!NoTodo, TodoInv
<1>4. ASSUME NEW s \in Sessions PROVE PlanAtHome(commandsDisk[s])
  <2>1. commandsDisk[s].plan = "none"
    BY DEF Commands!Init, Commands!NoSession
  <2> QED
    BY <2>1 DEF PlanAtHome
<1> QED
  BY <1>1, <1>2, <1>3, <1>4 DEF CommandInv

-------------------------------------------------------------------------------
(* A prompt puts the run in the mode it was given (start_run).              *)
LEMMA RunStarts ==
  ASSUME CommandLimits, CommandInv, NEW s \in Sessions, NEW hint \in Modes, Commands!StartRun(s, hint)
  PROVE  CommandInv'
<1> DEFINE d == [ commandsDisk[s] EXCEPT !.run = "open", !.said = TRUE, !.astray = hint # commandsDisk[s].mode ]
           e == [ by |-> "controller", mode |-> hint, answered |-> FALSE ]
<1>1. /\ Row(s) /\ commandsDisk[s] \in SessionRow
      /\ ctl[s].open /\ commandsDisk[s].run = "none" /\ todo.commits = << >>
  BY CommandRows DEF Commands!StartRun, Commands!Free
<1>2. /\ d \in SessionRow /\ d.run = "open" /\ d.plan = commandsDisk[s].plan
      /\ d.made = commandsDisk[s].made
      /\ d.mode = commandsDisk[s].mode /\ (d.astray <=> hint # commandsDisk[s].mode)
  BY <1>1 DEF SessionRow
<1>3. e \in ExecutionRow
  BY DEF ExecutionRow
<1>4. /\ commandsDisk' = [ commandsDisk EXCEPT ![s] = d ] /\ exec' = [ exec EXCEPT ![s] = e ]
      /\ UNCHANGED << ctl, follow, todo >>
  BY Zenon DEF Commands!StartRun
<1>5. ctl' = [ ctl EXCEPT ![s] = ctl[s] ] /\ follow' = [ follow EXCEPT ![s] = follow[s] ]
  BY <1>4, Unchanged DEF CommandInv
<1> HIDE DEF d
<1>6. RowInv(d, ctl[s], e, follow[s]) /\ PlanAtHome(d)
  BY <1>1, <1>2, <1>3 DEF Row, RowInv, PlanAtHome
<1>7. TodoInv(d, ctl[s], e, follow[s], todo') /\ todo'.of \in Sessions /\ todo'.commits = << >>
  BY <1>1, <1>4, NothingToCommit DEF CommandInv, TodoInv
<1> HIDE DEF e
<1> QED
  BY <1>1, <1>4, <1>5, <1>6, <1>7, RowChanges

(* A continuation goes on in the session's mode or is astray, and makes the *)
(* copy of its controller the stored one (resume_run).                      *)
LEMMA RunGoesOn ==
  ASSUME CommandLimits, CommandInv, todo.commits = << >>, UNCHANGED todo,
         NEW s \in Sessions, ctl[s].open,
         NEW chain \in { "whole", "open", "passed", "cut" }, NEW answered \in BOOLEAN,
         NEW replaced \in BOOLEAN, replaced => follow[s].replaced,
         Commands!Resume(s, chain, ctl[s].mode, answered, replaced),
         NEW f \in { follow[s], Commands!NoFollow }, follow' = [ follow EXCEPT ![s] = f ]
  PROVE  CommandInv'
<1> DEFINE d == [ commandsDisk[s] EXCEPT !.run = "open", !.chain = chain,
                                         !.astray = commandsDisk[s].astray \/ ctl[s].mode # commandsDisk[s].mode ]
           n == [ ctl[s] EXCEPT !.behind = FALSE, !.asks = ctl[s].asks /\ ~answered ]
           c == IF replaced THEN ctl[s] ELSE n
           e == [ by |-> IF replaced THEN "replaced" ELSE "controller", mode |-> ctl[s].mode,
                  answered |-> answered ]
<1>1. Row(s) /\ commandsDisk[s] \in SessionRow /\ ctl[s] \in ControllerRow /\ follow[s] \in FollowRow
  BY CommandRows
<1>2. /\ d \in SessionRow /\ d.run = "open" /\ d.plan = commandsDisk[s].plan
      /\ d.mode = commandsDisk[s].mode /\ d.made = commandsDisk[s].made
      /\ (d.astray <=> commandsDisk[s].astray \/ ctl[s].mode # commandsDisk[s].mode)
  BY <1>1 DEF SessionRow
<1>3. /\ n \in ControllerRow /\ n.open = ctl[s].open /\ n.mode = ctl[s].mode /\ n.late = ctl[s].late
      /\ n.failed = ctl[s].failed /\ ~n.behind
  BY <1>1 DEF ControllerRow
<1>4. e \in ExecutionRow /\ e.mode = ctl[s].mode /\ e.by = IF replaced THEN "replaced" ELSE "controller"
  BY <1>1 DEF ControllerRow, ExecutionRow
<1>5. f \in FollowRow /\ (f.replaced => follow[s].replaced) /\ (f.kind # "none" => follow[s].kind # "none")
      /\ (f.replaced => f.kind # "none")
  <2>1. CASE f = follow[s]
    BY <1>1, <2>1 DEF Row, RowInv
  <2>2. CASE f = Commands!NoFollow
    BY <2>2 DEF Commands!NoFollow, FollowRow
  <2> QED
    BY <2>1, <2>2
<1>6. /\ commandsDisk' = [ commandsDisk EXCEPT ![s] = d ] /\ exec' = [ exec EXCEPT ![s] = e ]
      /\ ctl' = IF replaced THEN ctl ELSE [ ctl EXCEPT ![s] = n ]
  BY Zenon DEF Commands!Resume
<1> HIDE DEF d, n, e
<1>7. ctl' = [ ctl EXCEPT ![s] = c ]
  BY <1>6, Unchanged DEF CommandInv
<1>8. c \in ControllerRow /\ c.open = ctl[s].open /\ c.mode = ctl[s].mode /\ c.late = ctl[s].late
      /\ c.failed = ctl[s].failed /\ (c.behind => replaced)
  BY <1>1, <1>3
<1> HIDE DEF c
<1>9. RowInv(d, c, e, f) /\ PlanAtHome(d)
  <2>1. RowInv(d, c, e, f)
    BY <1>1, <1>2, <1>4, <1>5, <1>8 DEF Row, RowInv
  <2> QED
    BY <1>2, <2>1, PlanIsAtHome DEF PlanAtHome
<1>10. TodoInv(d, c, e, f, todo') /\ todo'.of \in Sessions /\ todo'.commits = << >>
  BY NothingToCommit DEF CommandInv, TodoInv
<1> QED
  BY <1>6, <1>7, <1>9, <1>10, RowChanges

LEMMA RunsContinue ==
  ASSUME CommandLimits, CommandInv, NEW s \in Sessions,
         \/ Commands!ContinueRun(s) \/ Commands!DecideApproval(s)
         \/ Commands!RespondInteraction(s) \/ Commands!FollowUp(s)
  PROVE  CommandInv'
<1>1. /\ commandsDisk[s].chain \in { "whole", "open", "passed", "cut" }
      /\ Commands!Continued(s) \in { "whole", "open", "passed", "cut" }
      /\ follow[s].replaced \in BOOLEAN /\ Row(s)
  BY CommandRows DEF SessionRow, FollowRow, Commands!Continued
<1>2. follow = [ follow EXCEPT ![s] = follow[s] ]
  BY Unchanged DEF CommandInv
<1>3. CASE Commands!ContinueRun(s)
  BY <1>1, <1>2, <1>3, RunGoesOn, FALSE \in BOOLEAN DEF Commands!ContinueRun, Commands!Free
<1>4. CASE Commands!DecideApproval(s)
  BY <1>1, <1>2, <1>4, RunGoesOn DEF Commands!DecideApproval, Commands!Free
<1>5. CASE Commands!RespondInteraction(s)
  BY <1>1, <1>2, <1>5, RunGoesOn DEF Commands!RespondInteraction, Commands!Free
<1>6. CASE Commands!FollowUp(s)
  <2>1. ctl[s].open /\ todo.commits = << >>
    BY <1>1, <1>6 DEF Commands!FollowUp, Row, RowInv
  <2>2. CASE Commands!HasRun(s) /\ commandsDisk[s].same
    BY <1>1, <1>6, <2>1, <2>2, RunGoesOn DEF Commands!FollowUp
  <2>3. CASE ~(Commands!HasRun(s) /\ commandsDisk[s].same)
    <3>1. /\ UNCHANGED << commandsDisk, ctl, exec, todo >>
          /\ follow' = [ follow EXCEPT ![s] = Commands!NoFollow ]
      BY <1>6, <2>3, Zenon DEF Commands!FollowUp
    <3>2. RowInv(commandsDisk[s], ctl[s], exec[s], Commands!NoFollow)
      BY <1>1 DEF Row, RowInv, FollowRow, Commands!NoFollow
    <3>3. /\ commandsDisk' = [ commandsDisk EXCEPT ![s] = commandsDisk[s] ]
          /\ ctl' = [ ctl EXCEPT ![s] = ctl[s] ] /\ exec' = [ exec EXCEPT ![s] = exec[s] ]
      BY <3>1, Unchanged DEF CommandInv
    <3>4. /\ TodoInv(commandsDisk[s], ctl[s], exec[s], Commands!NoFollow, todo')
          /\ todo'.of \in Sessions /\ todo'.commits = << >>
      BY <2>1, <3>1, NothingToCommit DEF CommandInv, TodoInv
    <3> QED
      BY <2>1, <3>1, <3>2, <3>3, <3>4, PlanIsAtHome, RowChanges
  <2> QED
    BY <2>2, <2>3
<1> QED
  BY <1>3, <1>4, <1>5, <1>6

-------------------------------------------------------------------------------
(* A run that comes to wait: a plan it proposes is one of plan mode, or the *)
(* run is astray, and an approval is known to the controller that runs it   *)
(* (pause_run).                                                             *)
LEMMA RunWaits ==
  ASSUME CommandLimits, CommandInv, NEW s \in Sessions, NEW kind \in Commands!Waits,
         Commands!RunPauses(s, kind)
  PROVE  CommandInv'
<1>1. PICK plan1 \in Commands!PlanAt(s, kind), moved \in BOOLEAN,
           chain \in CASE kind = "approval" -> { "open" } [] kind = "question" -> { "open", "whole" }
                      [] OTHER -> { "whole" } :
        /\ commandsDisk' = [ commandsDisk EXCEPT ![s] = [ @ EXCEPT !.run = kind, !.plan = plan1,
                                                          !.chain = chain, !.same = TRUE ] ]
        /\ ctl' = IF exec[s].by = "controller"
                  THEN [ ctl EXCEPT ![s].asks = @ \/ kind = "approval" ]
                  ELSE [ ctl EXCEPT ![s].behind = @ \/ moved ]
  BY Zenon DEF Commands!RunPauses
<1>2. /\ Row(s) /\ commandsDisk[s] \in SessionRow /\ ctl[s] \in ControllerRow
      /\ exec[s] \in ExecutionRow /\ exec[s].by # "nobody" /\ todo.commits = << >>
      /\ UNCHANGED << todo, follow >> /\ exec' = [ exec EXCEPT ![s] = Commands!Idle ]
  BY CommandRows DEF Commands!RunPauses, Commands!Executing
<1> DEFINE d == [ commandsDisk[s] EXCEPT !.run = kind, !.plan = plan1, !.chain = chain, !.same = TRUE ]
           asking == [ ctl[s] EXCEPT !.asks = ctl[s].asks \/ kind = "approval" ]
           left == [ ctl[s] EXCEPT !.behind = ctl[s].behind \/ moved ]
           c == IF exec[s].by = "controller" THEN asking ELSE left
<1>3. chain \in { "whole", "open" } /\ kind \in { "approval", "confirmation", "question", "budget" }
  BY <1>1 DEF Commands!Waits
<1>4. /\ plan1 \in { "none", "proposed", "active", "revising", "ended" }
      /\ plan1 = "proposed" => commandsDisk[s].plan = "proposed" \/ exec[s].mode = "plan"
      /\ plan1 \in { "active", "revising" } =>
           commandsDisk[s].plan \in { "active", "revising" } \/ exec[s].mode = "build"
  BY <1>1, <1>2 DEF Commands!PlanAt, SessionRow
<1>5. /\ d \in SessionRow /\ d.run = kind /\ d.plan = plan1 /\ d.mode = commandsDisk[s].mode
      /\ d.astray = commandsDisk[s].astray /\ d.made = commandsDisk[s].made
  BY <1>2, <1>3, <1>4 DEF SessionRow, Commands!Waits
<1>6. /\ asking \in ControllerRow /\ asking.open = ctl[s].open /\ asking.mode = ctl[s].mode
      /\ asking.late = ctl[s].late /\ asking.behind = ctl[s].behind /\ asking.failed = ctl[s].failed
      /\ (kind = "approval" => asking.asks)
  BY <1>2 DEF ControllerRow
<1>7. /\ left \in ControllerRow /\ left.open = ctl[s].open /\ left.mode = ctl[s].mode
      /\ left.late = ctl[s].late /\ left.failed = ctl[s].failed
  BY <1>2 DEF ControllerRow
<1>8. Commands!Idle \in ExecutionRow /\ Commands!Idle.by = "nobody"
  BY DEF ExecutionRow, Commands!Idle, CommandLimits
<1>9. /\ commandsDisk' = [ commandsDisk EXCEPT ![s] = d ] /\ ctl' = [ ctl EXCEPT ![s] = c ]
  BY <1>1, Zenon
<1>10. follow' = [ follow EXCEPT ![s] = follow[s] ]
  BY <1>2, Unchanged DEF CommandInv
<1> HIDE DEF d, asking, left
<1>11. /\ c \in ControllerRow /\ c.open = ctl[s].open /\ c.mode = ctl[s].mode /\ c.late = ctl[s].late
       /\ c.failed = ctl[s].failed
       /\ exec[s].by = "controller" => c.behind = ctl[s].behind /\ (kind = "approval" => c.asks)
  BY <1>6, <1>7
<1>12. exec[s].by # "controller" => ctl[s].late
  BY <1>2 DEF Row, RowInv, ExecutionRow
<1> HIDE DEF c
<1>13. RowInv(d, c, Commands!Idle, follow[s])
  BY <1>2, <1>3, <1>4, <1>5, <1>8, <1>11, <1>12 DEF Row, RowInv
<1>14. TodoInv(d, c, Commands!Idle, follow[s], todo') /\ todo'.of \in Sessions /\ todo'.commits = << >>
  BY <1>2, NothingToCommit DEF CommandInv, TodoInv
<1>15. PlanAtHome(d)
  BY <1>2, <1>4, <1>5, PlanIsAtHome DEF Row, RowInv, PlanAtHome
<1> QED
  BY <1>2, <1>9, <1>10, <1>13, <1>14, <1>15, RowChanges

(* The end of a run takes its plan with it (_commit_run).                   *)
LEMMA RunIsOver ==
  ASSUME CommandLimits, CommandInv, NEW s \in Sessions, Commands!RunEnds(s)
  PROVE  CommandInv'
<1>1. PICK chain \in { "whole", "open", "passed", "cut" } :
        /\ commandsDisk' = [ commandsDisk EXCEPT ![s] = [ Commands!Ended(@) EXCEPT !.chain = chain ] ]
        /\ ctl' = [ ctl EXCEPT ![s].behind = @ \/ exec[s].by = "replaced" ]
  BY CommandRows DEF Commands!RunEnds, Commands!End, Commands!Unbroken, SessionRow
<1>2. /\ Row(s) /\ commandsDisk[s] \in SessionRow /\ ctl[s] \in ControllerRow
      /\ exec[s].by # "nobody" /\ todo.commits = << >>
      /\ UNCHANGED << todo, follow >> /\ exec' = [ exec EXCEPT ![s] = Commands!Idle ]
  BY CommandRows DEF Commands!RunEnds, Commands!Executing
<1> DEFINE d == [ Commands!Ended(commandsDisk[s]) EXCEPT !.chain = chain ]
           c == [ ctl[s] EXCEPT !.behind = ctl[s].behind \/ exec[s].by = "replaced" ]
<1>3. d \in SessionRow /\ d.run = "none" /\ d.plan = "none" /\ d.mode = commandsDisk[s].mode
      /\ d.made = commandsDisk[s].made
  BY <1>2 DEF SessionRow, Commands!Ended
<1>4. /\ c \in ControllerRow /\ c.open = ctl[s].open /\ c.mode = ctl[s].mode /\ c.late = ctl[s].late
      /\ c.failed = ctl[s].failed /\ (c.behind <=> ctl[s].behind \/ exec[s].by = "replaced")
  BY <1>2 DEF ControllerRow
<1>5. Commands!Idle \in ExecutionRow /\ Commands!Idle.by = "nobody"
  BY DEF ExecutionRow, Commands!Idle, CommandLimits
<1>6. commandsDisk' = [ commandsDisk EXCEPT ![s] = d ] /\ ctl' = [ ctl EXCEPT ![s] = c ]
  BY <1>1, Zenon
<1>7. follow' = [ follow EXCEPT ![s] = follow[s] ]
  BY <1>2, Unchanged DEF CommandInv
<1> HIDE DEF d, c
<1>8. RowInv(d, c, Commands!Idle, follow[s]) /\ PlanAtHome(d)
  BY <1>2, <1>3, <1>4, <1>5 DEF Row, RowInv, PlanAtHome
<1>9. TodoInv(d, c, Commands!Idle, follow[s], todo') /\ todo'.of \in Sessions /\ todo'.commits = << >>
  BY <1>2, NothingToCommit DEF CommandInv, TodoInv
<1> QED
  BY <1>2, <1>6, <1>7, <1>8, <1>9, RowChanges

-------------------------------------------------------------------------------
(* What a command commits is at most three steps of a plan, of which only   *)
(* the last may be a mode (change_mode, approve_plan, reject_plan).          *)
LEMMA CommitsFit ==
  ASSUME CommandLimits, NEW a \in PlanSteps, NEW b \in ModeStep, a = << "approve" >> => b # << "plan" >>
  PROVE  /\ a \o b \in Seq(CommandCommits) /\ Len(a \o b) <= 3
         /\ \A i \in 1..(Len(a \o b) - 1) : (a \o b)[i] \notin Modes
         /\ a \o b # << >> /\ (a \o b)[1] \in Modes => a = << >> /\ b = << (a \o b)[1] >>
         /\ a \o b # << >> /\ (a \o b)[1] = "approve" =>
              a = << "approve" >> /\ (b = << >> \/ (Len(a \o b) = 2 /\ b = << (a \o b)[2] >>))
         /\ \A i \in 2..Len(a \o b) :
              /\ (a \o b)[i] \in Modes \cup { "finish" }
              /\ (a \o b)[i] = "plan" => (a \o b)[i - 1] = "finish"
<1>1. /\ b \in Seq(Modes) /\ Len(b) <= 1 /\ Len(b) \in Nat /\ (Len(b) = 1 => b = << b[1] >>)
      /\ Len(b) \in { 0, 1 }
  <2>1. CASE b = << >>
    BY <2>1
  <2>2. CASE \E m \in Modes : b = << m >>
    BY <2>2
  <2> QED
    BY <2>1, <2>2 DEF ModeStep
<1>2. a \in Seq(PlanCommits) /\ Len(a) <= 2 /\ a \in Seq(CommandCommits) /\ b \in Seq(CommandCommits) /\ Len(a) \in Nat
  <2>1. a \in Seq(PlanCommits) /\ Len(a) <= 2
    <3>1. CASE a = << >>
      BY <3>1
    <3>2. CASE a = << "approve" >>
      BY <3>2 DEF PlanCommits
    <3>3. CASE a = << "abandon", "finish" >>
      BY <3>3 DEF PlanCommits
    <3>4. CASE a = << "reject", "finish" >>
      BY <3>4 DEF PlanCommits
    <3> QED
      BY <3>1, <3>2, <3>3, <3>4 DEF PlanSteps
  <2> QED
    BY <1>1, <2>1 DEF CommandCommits
<1>3. /\ a \o b \in Seq(CommandCommits) /\ Len(a \o b) = Len(a) + Len(b)
      /\ \A i \in 1..Len(a) : (a \o b)[i] = a[i]
      /\ \A i \in 1..Len(b) : (a \o b)[Len(a) + i] = b[i]
  BY <1>1, <1>2, ConcatProperties
<1>4. \A i \in 1..Len(a) : a[i] \in PlanCommits /\ a[i] \notin Modes
  BY <1>2 DEF PlanCommits, CommandLimits
<1>5. ASSUME a \o b # << >>, (a \o b)[1] \in Modes PROVE a = << >> /\ b = << (a \o b)[1] >>
  <2>1. Len(a) = 0
    BY <1>2, <1>3, <1>4, <1>5
  <2>2. Len(b) = 1 /\ a = << >>
    BY <1>1, <1>2, <1>3, <1>5, <2>1, EmptySeq
  <2> QED
    BY <1>1, <1>3, <2>1, <2>2
<1> DEFINE c == a \o b
<1>6. /\ Len(c) = Len(a) + Len(b) /\ \A i \in 1..Len(a) : c[i] = a[i]
      /\ Len(b) = 1 => c[Len(a) + 1] = b[1] /\ b = << c[Len(a) + 1] >>
      /\ Len(b) = 0 \/ Len(b) = 1
      /\ Len(b) = 1 => b[1] \in Modes
  <2>1. Len(b) = 0 \/ Len(b) = 1
    BY <1>1
  <2>2. Len(b) = 1 => b[1] \in Modes
    BY <1>1
  <2>3. Len(b) = 1 => c[Len(a) + 1] = b[1]
    BY <1>3
  <2>4. Len(c) = Len(a) + Len(b) /\ \A i \in 1..Len(a) : c[i] = a[i]
    BY <1>3
  <2> HIDE DEF c
  <2>5. Len(b) = 1 => b = << c[Len(a) + 1] >>
    BY <1>1, <2>3
  <2> QED
    BY <2>1, <2>2, <2>3, <2>4, <2>5
<1> HIDE DEF c
<1>7. ASSUME c # << >>, c[1] = "approve"
      PROVE  a = << "approve" >> /\ (b = << >> \/ (Len(c) = 2 /\ b = << c[2] >>))
  <2>1. a # << >>
    <3> SUFFICES ASSUME a = << >> PROVE FALSE
      OBVIOUS
    <3>1. Len(a) = 0
      OBVIOUS
    <3>2. Len(b) = 1
      BY <1>1, <1>3, <1>6, <1>7, <3>1, EmptySeq DEF c
    <3>3. c[1] \in Modes
      BY <1>6, <3>1, <3>2
    <3> QED
      BY <1>7, <3>3 DEF CommandLimits
  <2>2. a = << "approve" >>
    BY <1>6, <1>7, <2>1 DEF PlanSteps
  <2>3. Len(a) = 1
    BY <2>2
  <2> QED
    BY <1>1, <1>6, <2>2, <2>3
<1>8. ASSUME NEW i \in 2..Len(c)
      PROVE  c[i] \in Modes \cup { "finish" } /\ (c[i] = "plan" => c[i - 1] = "finish")
  <2>0. /\ i \in Int /\ 2 <= i
        /\ Len(b) = 0 => i <= Len(a)
        /\ Len(b) = 1 => i <= Len(a) + 1
        /\ Len(b) \in { 0, 1 }
    BY <1>1, <1>2, <1>6, <1>8
  <2>1. CASE a = << >>
    <3>1. Len(a) = 0
      BY <2>1
    <3>2. Len(b) # 0 /\ Len(b) # 1
      BY <2>0, <3>1
    <3> QED
      BY <2>0, <3>2
  <2>2. CASE a = << "approve" >>
    <3>0. Len(a) = 1
      BY <2>2
    <3>1. Len(a) = 1 /\ Len(b) = 1 /\ i = 2
      <4>1. Len(b) # 0
        BY <2>0, <3>0
      <4> QED
        BY <2>0, <3>0, <4>1
    <3>2. b[1] # "plan" /\ c[i] = b[1]
      BY <1>1, <1>6, <2>2, <3>1
    <3> QED
      BY <1>6, <3>1, <3>2
  <2>3. CASE Len(a) = 2 /\ a[2] = "finish"
    <3>1. c[2] = "finish"
      BY <1>6, <2>3
    <3>2. i = 2 \/ (i = 3 /\ Len(b) = 1)
      BY <2>0, <2>3
    <3>3. CASE i = 2
      BY <3>1, <3>3
    <3>4. CASE i = 3 /\ Len(b) = 1
      BY <1>6, <2>3, <3>1, <3>4
    <3> QED
      BY <3>2, <3>3, <3>4
  <2> QED
    BY <2>1, <2>2, <2>3 DEF PlanSteps
<1> QED
  BY <1>1, <1>2, <1>3, <1>4, <1>5, <1>7, <1>8 DEF c

\* What a command is to do with the plan, before its change of the mode.
CommandFits(s, a, b) ==
    /\ a = << >> /\ b # << >> /\ b # << "plan" >> => commandsDisk[s].plan # "proposed"
    /\ a = << >> /\ b = << "plan" >> => commandsDisk[s].plan \notin { "active", "revising" }
    /\ a = << "approve" >> => \/ commandsDisk[s].plan = "revising" /\ b = << >>
                              \/ b = << "build" >>
                              \/ b = << >> /\ ctl[s].mode # "plan"

LEMMA CommandGiven ==
  ASSUME CommandLimits, CommandInv, NEW s \in Sessions,
         NEW a \in PlanSteps, NEW b \in ModeStep,
         CommandFits(s, a, b), NEW then \in { "none", "continue" }, Commands!Command(s, a \o b, then)
  PROVE  CommandInv'
<1>1. /\ Row(s) /\ ctl[s].open /\ exec[s].by = "nobody" /\ follow[s].kind = "none"
      /\ todo' = [ of |-> s, commits |-> a \o b, then |-> then ]
      /\ UNCHANGED << commandsDisk, ctl, exec, follow >>
  BY CommandRows DEF Commands!Command, Commands!Free, Commands!Executing
<1>2. a = << "approve" >> => b # << "plan" >>
  <2>1. << >> # << "plan" >> /\ << "build" >> # << "plan" >>
    OBVIOUS
  <2> QED
    BY <2>1 DEF CommandFits
<1>3. TodoInv(commandsDisk[s], ctl[s], exec[s], follow[s], todo')
  <2>1. todo' \in [ of : Sessions, commits : Seq(CommandCommits), then : { "none", "continue" } ]
    BY <1>1, <1>2, CommitsFit
  <2>2. a \o b # << >> /\ (a \o b)[1] \in Modes \ { "plan" } => commandsDisk[s].plan # "proposed"
    <3> SUFFICES ASSUME a \o b # << >>, (a \o b)[1] \in Modes \ { "plan" }
                 PROVE  commandsDisk[s].plan # "proposed"
      OBVIOUS
    <3>1. a = << >> /\ b = << (a \o b)[1] >>
      BY <1>2, CommitsFit
    <3>2. b # << >> /\ b # << "plan" >>
      BY <3>1
    <3> QED
      BY <3>1, <3>2 DEF CommandFits
  <2>3. /\ todo'.commits = a \o b /\ Len(todo'.commits) <= 3
        /\ \A i \in 1..(Len(todo'.commits) - 1) : todo'.commits[i] \notin Modes
        /\ \A i \in 2..Len(todo'.commits) :
             /\ todo'.commits[i] \in Modes \cup { "finish" }
             /\ todo'.commits[i] = "plan" => todo'.commits[i - 1] = "finish"
    BY <1>1, <1>2, CommitsFit
  <2>4. a \o b # << >> /\ (a \o b)[1] = "plan" => commandsDisk[s].plan \notin { "active", "revising" }
    BY <1>2, CommitsFit DEF CommandLimits, CommandFits
  <2>5. a \o b # << >> /\ (a \o b)[1] = "approve" =>
          \/ commandsDisk[s].plan = "revising" \/ ctl[s].mode # "plan"
          \/ Len(a \o b) = 2 /\ (a \o b)[2] \in Modes \ { "plan" }
    <3> SUFFICES ASSUME a \o b # << >>, (a \o b)[1] = "approve", b = << "build" >>
                 PROVE  Len(a \o b) = 2 /\ (a \o b)[2] \in Modes \ { "plan" }
      BY <1>2, CommitsFit DEF CommandFits
    <3>1. Len(a \o b) = 2 /\ b = << (a \o b)[2] >>
      <4>1. b # << >>
        OBVIOUS
      <4> QED
        BY <1>2, <4>1, CommitsFit
    <3> QED
      BY <3>1 DEF CommandLimits
  <2>6. PlanAtHome(commandsDisk[s])
    BY PlanIsAtHome DEF Commands!Command, Commands!Free
  <2> QED
    BY <1>1, <2>1, <2>2, <2>3, <2>4, <2>5, <2>6 DEF TodoInv
<1>4. \A u \in Sessions : PlanAtHome(commandsDisk[u])
  BY PlanIsAtHome DEF Commands!Command, Commands!Free
<1> QED
  BY <1>1, <1>3, <1>4 DEF CommandInv, Row, PlanAtHome

LEMMA CommandsGiven ==
  ASSUME CommandLimits, CommandInv, NEW s \in Sessions,
         \/ \E mode \in Modes : Commands!ChangeMode(s, mode)
         \/ Commands!ApprovePlan(s) \/ Commands!RejectPlan(s) \/ Commands!ClearPlan(s)
  PROVE  CommandInv'
<1> DEFINE leave == << "abandon", "finish" >>
           approve == << "approve" >>
           reject == << "reject", "finish" >>
<1>1. /\ leave \in PlanSteps /\ approve \in PlanSteps /\ reject \in PlanSteps /\ << >> \in PlanSteps
      /\ leave # << >> /\ approve # << >> /\ reject # << >>
  BY DEF PlanCommits, PlanSteps
<1>2. leave \o << >> = leave /\ approve \o << >> = approve
  BY ConcatEmptySeq, <1>1 DEF PlanSteps
<1>3. "plan" \in Modes /\ "build" \in Modes /\ << >> \in ModeStep /\ \A m \in Modes : << m >> \in ModeStep
  BY DEF CommandLimits, ModeStep
<1> HIDE DEF leave, approve, reject
<1>4. CASE \E mode \in Modes : Commands!ChangeMode(s, mode)
  <2>1. PICK mode \in Modes : Commands!ChangeMode(s, mode)
    BY <1>4
  <2> DEFINE a == IF mode = "plan" /\ commandsDisk[s].plan \in { "active", "revising" } THEN leave ELSE << >>
             b == IF mode = ctl[s].mode THEN << >> ELSE << mode >>
             then == IF mode # ctl[s].mode /\ Commands!HasRun(s) THEN "continue" ELSE "none"
  <2>2. a \in PlanSteps /\ b \in ModeStep /\ then \in { "none", "continue" }
    BY <1>1, <1>3
  <2>3. /\ b # << >> /\ b # << "plan" >> => mode # "plan"
        /\ b = << "plan" >> => mode = "plan"
        /\ a # << "approve" >>
        /\ a = << >> /\ mode = "plan" => commandsDisk[s].plan \notin { "active", "revising" }
    BY <1>1 DEF leave
  <2>4. Commands!Command(s, a \o b, then) /\ (mode # "plan" => commandsDisk[s].plan # "proposed")
    BY <2>1, Zenon DEF Commands!ChangeMode, Commands!ModeCommits, leave
  <2>5. CommandFits(s, a, b)
    BY <2>3, <2>4 DEF CommandFits
  <2> HIDE DEF a, b, then
  <2> QED
    BY <2>2, <2>4, <2>5, CommandGiven
<1>5. CASE Commands!ApprovePlan(s)
  <2>1. CASE commandsDisk[s].plan = "revising" /\ Commands!Command(s, approve, "continue")
    <3>1. CommandFits(s, approve, << >>)
      BY <1>1, <2>1 DEF CommandFits
    <3> QED
      BY <1>1, <1>2, <1>3, <2>1, <3>1, CommandGiven
  <2>2. CASE commandsDisk[s].plan = "proposed" /\ Commands!Command(s, Commands!ApproveCommits(s), "continue")
    <3> DEFINE b == IF "build" = ctl[s].mode THEN << >> ELSE << "build" >>
    <3>0. b = << "build" >> \/ (b = << >> /\ ctl[s].mode # "plan")
      OBVIOUS
    <3>1. b \in ModeStep
      BY <1>3
    <3>2. Commands!ModeCommits(s, "build") = << >> \o b
      BY "build" # "plan", Zenon DEF Commands!ModeCommits
    <3>3. << >> \o b = b
      <4>1. b \in Seq(Modes)
        BY <1>3
      <4> QED
        BY <4>1, ConcatEmptySeq
    <3>4. Commands!ApproveCommits(s) = approve \o b
      BY <3>2, <3>3, Zenon DEF Commands!ApproveCommits, approve
    <3> HIDE DEF b
    <3> QED
      <4>1. CommandFits(s, approve, b)
        BY <1>1, <3>0 DEF CommandFits
      <4> QED
        BY <1>1, <2>2, <3>1, <3>4, <4>1, CommandGiven
  <2> QED
    BY <1>5, <2>1, <2>2 DEF Commands!ApprovePlan, approve
<1>6. CASE Commands!RejectPlan(s)
  <2>1. CASE commandsDisk[s].plan = "revising" /\ Commands!Command(s, approve, "continue")
    <3>1. CommandFits(s, approve, << >>)
      BY <1>1, <2>1 DEF CommandFits
    <3> QED
      BY <1>1, <1>2, <1>3, <2>1, <3>1, CommandGiven
  <2>2. CASE commandsDisk[s].plan = "proposed" /\ Commands!Command(s, Commands!RejectCommits(s), "none")
    <3> DEFINE b == IF ctl[s].mode = "plan" THEN << >> ELSE << "plan" >>
    <3>1. b \in ModeStep
      BY <1>3
    <3>2. Commands!RejectCommits(s) = reject \o b
      BY Zenon DEF Commands!RejectCommits, reject
    <3>3. reject # approve
      BY DEF reject, approve
    <3> HIDE DEF b
    <3> QED
      <4>1. CommandFits(s, reject, b)
        BY <1>1, <3>3 DEF CommandFits, approve
      <4> QED
        BY <1>1, <2>2, <3>1, <3>2, <4>1, CommandGiven
  <2> QED
    BY <1>6, <2>1, <2>2 DEF Commands!RejectPlan, approve
<1>7. CASE Commands!ClearPlan(s)
  <2>1. Commands!Command(s, leave, "none")
    BY <1>7 DEF Commands!ClearPlan, leave
  <2>2. leave # approve
    BY DEF leave, approve
  <2> QED
    <3>1. CommandFits(s, leave, << >>)
      BY <1>1, <2>2 DEF CommandFits, approve
    <3> QED
      BY <1>1, <1>2, <1>3, <2>1, <3>1, CommandGiven
<1> QED
  BY <1>4, <1>5, <1>6, <1>7

\* What is stored of a plan while no command works on it.
PlanKept(d) ==
    /\ d.plan # "none" => d.run # "none"
    /\ d.plan = "proposed" => d.mode = "plan" \/ d.astray
    /\ PlanAtHome(d)

(* A command that is cut off leaves a plan approved in plan mode only as    *)
(* one whose run is astray.                                                 *)
LEMMA CutOffStays ==
  ASSUME NEW h \in SessionRow, h.plan # "none" => h.run # "none",
         h.plan = "proposed" => h.mode = "plan" \/ h.astray, PlanAtHome(h) \/ h.plan = "active"
  PROVE  LET d == Commands!CutOff(h)
         IN  /\ d \in SessionRow /\ PlanKept(d) /\ d.made = h.made /\ d.mode = h.mode
             /\ d.run = h.run /\ d.plan = h.plan
<1> DEFINE d == Commands!CutOff(h)
<1>1. /\ d \in SessionRow /\ d.plan = h.plan /\ d.run = h.run /\ d.mode = h.mode /\ d.made = h.made
      /\ d.astray = (h.astray \/ h.plan = "active")
  BY DEF SessionRow, Commands!CutOff
<1> HIDE DEF d
<1>2. PlanKept(d)
  BY <1>1 DEF PlanKept, PlanAtHome, SessionRow
<1> QED
  BY <1>1, <1>2 DEF d

LEMMA HalfEndedRow ==
  ASSUME NEW h \in SessionRow
  PROVE  LET d == Commands!HalfEnded(h)
         IN  /\ d \in SessionRow /\ d.run = "over" /\ d.made = h.made /\ d.mode = h.mode
             /\ d.plan = h.plan /\ d.astray = h.astray
  BY DEF SessionRow, Commands!HalfEnded

(* What a commit makes of the session that is stored.                       *)
LEMMA CommitMakes ==
  ASSUME CommandLimits, CommandInv, todo.commits # << >>
  PROVE  LET D == commandsDisk[todo.of]
             commit == Head(todo.commits)
             m == Commands!Made(todo.of, commit)
         IN  /\ m \in SessionRow /\ m.made = D.made
             /\ m.mode = IF commit \in Modes THEN commit ELSE D.mode
             /\ commit \in Modes => m.plan = D.plan /\ m.run = D.run /\ m.astray = D.astray
             /\ commit \notin Modes => m.plan \notin { "proposed", "revising" } /\ m.run # "approval"
             /\ commit = "approve" => m.astray = (D.astray \/ ctl[todo.of].mode # D.mode)
             /\ commit \notin Modes /\ commit # "approve" => m.plan # "active"
             /\ commit = "finish" => m.plan = "none"
             /\ m.plan # "none" => m.run # "none"
<1> DEFINE s == todo.of
           D == commandsDisk[s]
           commit == Head(todo.commits)
           m == Commands!Made(s, commit)
           chain == IF D.chain = "open" THEN "passed" ELSE D.chain
           approved == [ D EXCEPT !.plan = "active", !.run = "open", !.chain = chain,
                                  !.astray = D.astray \/ ctl[s].mode # D.mode ]
           ended == [ D EXCEPT !.plan = "ended", !.run = "open", !.chain = chain ]
           turned == [ D EXCEPT !.mode = commit ]
           over == Commands!Ended(D)
<1>1. s \in Sessions /\ commit \in CommandCommits
  BY DEF CommandInv, TodoInv
<1>2. Row(s) /\ D \in SessionRow
  BY <1>1, CommandRows
<1>3. m = CASE commit = "approve" -> approved [] commit \in { "abandon", "reject" } -> ended
            [] commit = "finish" -> over [] OTHER -> turned
  BY Zenon DEF Commands!Made
<1>4. /\ approved \in SessionRow /\ approved.made = D.made /\ approved.plan = "active"
      /\ approved.mode = D.mode /\ approved.run = "open"
      /\ approved.astray = (D.astray \/ ctl[s].mode # D.mode)
  BY <1>2 DEF SessionRow
<1>5. /\ ended \in SessionRow /\ ended.made = D.made /\ ended.plan = "ended"
      /\ ended.mode = D.mode /\ ended.run = "open"
  BY <1>2 DEF SessionRow
<1>6. /\ over \in SessionRow /\ over.made = D.made /\ over.plan = "none"
      /\ over.mode = D.mode /\ over.run = "none"
  BY <1>2 DEF SessionRow, Commands!Ended
<1>7. commit \in Modes =>
         /\ turned \in SessionRow /\ turned.made = D.made /\ turned.plan = D.plan
         /\ turned.mode = commit /\ turned.run = D.run /\ turned.astray = D.astray
  BY <1>2 DEF SessionRow
<1>8. D.plan # "none" => D.run # "none"
  BY <1>2 DEF Row, RowInv
<1> HIDE DEF approved, ended, turned, over
<1>9. /\ commit \in Modes => m = turned
      /\ commit = "approve" => m = approved
      /\ commit = "finish" => m = over
      /\ commit \in { "abandon", "reject" } => m = ended
      /\ commit \notin Modes => commit \in { "approve", "abandon", "reject", "finish" }
      /\ commit \in Modes => commit \notin { "approve", "abandon", "reject", "finish" }
  BY <1>1, <1>3 DEF CommandCommits, PlanCommits, CommandLimits
<1> HIDE DEF m, commit, D, s
<1>10. CASE commit \in Modes
  BY <1>7, <1>8, <1>9, <1>10 DEF m, commit, D, s
<1>11. CASE commit = "approve"
  BY <1>4, <1>9, <1>11 DEF m, commit, D, s
<1>12. CASE commit \in { "abandon", "reject" }
  BY <1>5, <1>9, <1>12 DEF m, commit, D, s
<1>13. CASE commit = "finish"
  BY <1>6, <1>9, <1>13 DEF m, commit, D, s
<1> QED
  BY <1>9, <1>10, <1>11, <1>12, <1>13

\* A command that is at one of its commits.
LEMMA CommitAt ==
  ASSUME CommandLimits, CommandInv, todo.commits # << >>
  PROVE  LET s == todo.of
         IN  /\ s \in Sessions /\ Row(s) /\ commandsDisk[s] \in SessionRow /\ ctl[s] \in ControllerRow
             /\ exec[s] \in ExecutionRow /\ follow[s] \in FollowRow
             /\ todo \in [ of : Sessions, commits : Seq(CommandCommits), then : { "none", "continue" } ]
             /\ ctl[s].open /\ exec[s].by = "nobody" /\ follow[s].kind = "none"
             /\ todo.commits \in Seq(CommandCommits) /\ Len(todo.commits) \in Nat
             /\ Len(todo.commits) >= 1 /\ Len(todo.commits) <= 3
             /\ Head(todo.commits) = todo.commits[1] /\ Head(todo.commits) \in CommandCommits
             /\ exec = [ exec EXCEPT ![s] = exec[s] ]
             /\ commandsDisk = [ commandsDisk EXCEPT ![s] = commandsDisk[s] ]
             /\ follow = [ follow EXCEPT ![s] = follow[s] ]
<1>1. /\ todo \in [ of : Sessions, commits : Seq(CommandCommits), then : { "none", "continue" } ]
      /\ todo.of \in Sessions /\ Len(todo.commits) <= 3
      /\ ctl[todo.of].open /\ exec[todo.of].by = "nobody" /\ follow[todo.of].kind = "none"
  BY DEF CommandInv, TodoInv
<1>2. /\ todo.commits \in Seq(CommandCommits) /\ Len(todo.commits) \in Nat /\ Len(todo.commits) >= 1
      /\ Head(todo.commits) = todo.commits[1] /\ Head(todo.commits) \in CommandCommits
  BY <1>1
<1>3. /\ exec = [ exec EXCEPT ![todo.of] = exec[todo.of] ]
      /\ commandsDisk = [ commandsDisk EXCEPT ![todo.of] = commandsDisk[todo.of] ]
      /\ follow = [ follow EXCEPT ![todo.of] = follow[todo.of] ]
  BY <1>1, Unchanged DEF CommandInv
<1> QED
  BY <1>1, <1>2, <1>3, CommandRows

\* Its mode is the commit's, when that is one.
LEMMA ModeTaken ==
  ASSUME CommandLimits, CommandInv, todo.commits # << >>
  PROVE  LET s == todo.of
             commit == Head(todo.commits)
             c == [ ctl[s] EXCEPT !.mode = Commands!ModeAfter(s, commit) ]
         IN  /\ c \in ControllerRow /\ c.open = ctl[s].open /\ c.late = ctl[s].late
             /\ c.behind = ctl[s].behind /\ c.asks = ctl[s].asks /\ c.failed = ctl[s].failed
             /\ c.mode = IF commit \in Modes THEN commit ELSE ctl[s].mode
<1>1. ctl[todo.of] \in ControllerRow
  BY CommitAt
<1> QED
  BY <1>1 DEF ControllerRow, Commands!ModeAfter

(* Each commit leaves the plan and the mode of the session together, in the *)
(* store and in the controller that makes it.                               *)
LEMMA CommitMade ==
  ASSUME CommandLimits, CommandInv, Commands!CommitNext
  PROVE  CommandInv'
<1> DEFINE s == todo.of
           commit == Head(todo.commits)
           D == commandsDisk[s]
           d == Commands!Made(s, commit)
           c == [ ctl[s] EXCEPT !.mode = Commands!ModeAfter(s, commit) ]
<1>1. /\ todo.commits # << >> /\ UNCHANGED exec /\ ~ctl[s].behind
      /\ commandsDisk' = [ commandsDisk EXCEPT ![s] = d ] /\ ctl' = [ ctl EXCEPT ![s] = c ]
      /\ IF Len(todo.commits) > 1
         THEN todo' = [ todo EXCEPT !.commits = Tail(@) ] /\ UNCHANGED follow
         ELSE todo' = Commands!NoTodo /\ follow' = [ follow EXCEPT ![s].kind = todo.then ]
  BY Zenon DEF Commands!CommitNext
<1>2. /\ todo \in [ of : Sessions, commits : Seq(CommandCommits), then : { "none", "continue" } ]
      /\ s \in Sessions /\ Len(todo.commits) <= 3
      /\ \A i \in 1..(Len(todo.commits) - 1) : todo.commits[i] \notin Modes
      /\ (todo.commits[1] \in Modes \ { "plan" } => D.plan # "proposed")
      /\ (todo.commits[1] = "plan" => D.plan \notin { "active", "revising" })
      /\ PlanAtHome(D) \/ (D.plan = "active" /\ todo.commits[1] \in Modes \ { "plan" })
      /\ todo.commits[1] = "approve" =>
           \/ D.plan = "revising" \/ ctl[s].mode # "plan"
           \/ Len(todo.commits) = 2 /\ todo.commits[2] \in Modes \ { "plan" }
      /\ \A i \in 2..Len(todo.commits) :
           /\ todo.commits[i] \in Modes \cup { "finish" }
           /\ todo.commits[i] = "plan" => todo.commits[i - 1] = "finish"
  BY <1>1 DEF CommandInv, TodoInv
<1>3. /\ todo.commits \in Seq(CommandCommits) /\ Len(todo.commits) \in Nat /\ Len(todo.commits) >= 1
      /\ commit = todo.commits[1] /\ commit \in CommandCommits
      /\ Row(s) /\ D \in SessionRow /\ ctl[s] \in ControllerRow /\ exec[s] \in ExecutionRow
      /\ follow[s] \in FollowRow /\ ctl[s].open /\ exec[s].by = "nobody" /\ follow[s].kind = "none"
      /\ exec' = [ exec EXCEPT ![s] = exec[s] ] /\ follow = [ follow EXCEPT ![s] = follow[s] ]
  BY <1>1, CommitAt
<1>4. /\ d \in SessionRow /\ d.made = D.made /\ (d.plan # "none" => d.run # "none")
      /\ d.mode = IF commit \in Modes THEN commit ELSE D.mode
      /\ commit \in Modes => d.plan = D.plan /\ d.run = D.run /\ d.astray = D.astray
      /\ commit \notin Modes => d.plan \notin { "proposed", "revising" } /\ d.run # "approval"
      /\ commit = "approve" => d.astray = (D.astray \/ ctl[s].mode # D.mode)
      /\ commit \notin Modes /\ commit # "approve" => d.plan # "active"
      /\ commit = "finish" => d.plan = "none"
  BY <1>1, CommitMakes
<1>5. /\ c \in ControllerRow /\ c.open = ctl[s].open /\ c.late = ctl[s].late /\ c.behind = ctl[s].behind
      /\ c.asks = ctl[s].asks /\ c.failed = ctl[s].failed
      /\ c.mode = IF commit \in Modes THEN commit ELSE ctl[s].mode
  BY <1>1, ModeTaken
<1> HIDE DEF c, d
<1>6. "approve" \notin Modes /\ "finish" \notin Modes /\ "plan" \in Modes
  BY DEF CommandLimits
<1>7. PlanAtHome(d) \/ (d.plan = "active" /\ Len(todo.commits) = 2 /\ todo.commits[2] \in Modes \ { "plan" })
  <2>1. CASE commit \in Modes
    BY <1>2, <1>3, <1>4, <2>1 DEF PlanAtHome
  <2>2. CASE commit = "approve"
    <3>1. d.mode = D.mode /\ d.astray = (D.astray \/ ctl[s].mode # D.mode)
      BY <1>4, <1>6, <2>2
    <3>2. CASE D.plan = "revising" \/ ctl[s].mode # "plan"
      BY <1>2, <1>3, <1>6, <2>2, <3>1, <3>2 DEF PlanAtHome
    <3>3. CASE Len(todo.commits) = 2 /\ todo.commits[2] \in Modes \ { "plan" }
      BY <1>4, <1>6, <2>2, <3>3 DEF PlanAtHome
    <3> QED
      BY <1>2, <1>3, <2>2, <3>2, <3>3
  <2>3. CASE commit \notin Modes /\ commit # "approve"
    BY <1>4, <2>3 DEF PlanAtHome
  <2> QED
    BY <2>1, <2>2, <2>3
<1>8. CASE Len(todo.commits) > 1
  <2>1. todo' = [ todo EXCEPT !.commits = Tail(todo.commits) ] /\ UNCHANGED follow
    BY <1>1, <1>8
  <2>2. commit \notin Modes
    BY <1>2, <1>3, <1>8
  <2>3. RowInv(d, c, exec[s], follow[s])
    BY <1>3, <1>4, <1>5, <2>2 DEF Row, RowInv
  <2> DEFINE q == Tail(todo.commits)
  <2>4. /\ q \in Seq(CommandCommits) /\ Len(q) = Len(todo.commits) - 1
        /\ \A i \in 1..(Len(todo.commits) - 1) : q[i] = todo.commits[i + 1]
    BY <1>3, <1>8, HeadTailProperties
  <2>5. /\ todo'.of = s /\ todo'.commits = q
        /\ todo' \in [ of : Sessions, commits : Seq(CommandCommits), then : { "none", "continue" } ]
    BY <1>2, <2>1, <2>4
  <2> HIDE DEF q
  <2>6. \A i \in 1..(Len(q) - 1) : q[i] \notin Modes
    <3>1. ASSUME NEW i \in 1..(Len(todo.commits) - 2) PROVE q[i] \notin Modes
      <4>1. i \in 1..(Len(todo.commits) - 1) /\ i + 1 \in 1..(Len(todo.commits) - 1)
        BY <1>3
      <4> QED
        BY <1>2, <2>4, <4>1
    <3> QED
      BY <1>3, <2>4, <3>1
  <2>7. /\ q[1] = todo.commits[2] /\ q[1] \in Modes \cup { "finish" }
        /\ (q[1] = "plan" => commit = "finish")
    <3>1. 1 \in 1..(Len(todo.commits) - 1) /\ 2 \in 2..Len(todo.commits)
      BY <1>3, <1>8
    <3>2. todo.commits[2] = "plan" => todo.commits[1] = "finish"
      BY <1>2, <3>1
    <3>3. q[1] = todo.commits[2] /\ todo.commits[2] \in Modes \cup { "finish" }
      BY <1>2, <2>4, <3>1
    <3> QED
      BY <1>3, <3>2, <3>3
  <2>8. ASSUME NEW i \in 2..Len(q)
        PROVE  q[i] \in Modes \cup { "finish" } /\ (q[i] = "plan" => q[i - 1] = "finish")
    <3>1. i - 1 \in 1..(Len(todo.commits) - 1) /\ i \in 1..(Len(todo.commits) - 1) /\ i + 1 \in 2..Len(todo.commits)
      BY <1>3, <2>4
    <3> DEFINE j == i - 1
               k == i + 1
    <3>2. i = j + 1 /\ i = k - 1 /\ k = i + 1
      BY <3>1
    <3> HIDE DEF j, k
    <3>3. q[j] = todo.commits[i] /\ q[i] = todo.commits[k]
      <4>1. q[j] = todo.commits[j + 1] /\ q[i] = todo.commits[i + 1]
        BY <2>4, <3>1 DEF j
      <4> QED
        BY <3>2, <4>1
    <3>4. /\ todo.commits[k] \in Modes \cup { "finish" }
          /\ todo.commits[k] = "plan" => todo.commits[i] = "finish"
      <4>1. k \in 2..Len(todo.commits)
        BY <3>1 DEF k
      <4>2. todo.commits[k] = "plan" => todo.commits[k - 1] = "finish"
        BY <1>2, <4>1
      <4> QED
        BY <1>2, <3>2, <4>1, <4>2
    <3> QED
      BY <3>3, <3>4 DEF j
  <2>9. TodoInv(d, c, exec[s], follow[s], todo')
    <3>1. Len(todo'.commits) <= 3 /\ c.open /\ exec[s].by = "nobody" /\ follow[s].kind = "none"
      BY <1>2, <1>3, <1>5, <2>4, <2>5
    <3>2. /\ q[1] \in Modes \ { "plan" } => d.plan # "proposed"
          /\ q[1] = "plan" => d.plan \notin { "active", "revising" }
          /\ PlanAtHome(d) \/ (d.plan = "active" /\ q[1] \in Modes \ { "plan" } /\ ~c.behind)
          /\ q[1] # "approve"
      BY <1>1, <1>4, <1>5, <1>6, <1>7, <2>2, <2>7
    <3> QED
      BY <2>5, <2>6, <2>8, <3>1, <3>2 DEF TodoInv
  <2>10. follow' = [ follow EXCEPT ![s] = follow[s] ] /\ todo'.commits # << >>
    BY <1>3, <1>8, <2>1, <2>4, <2>5
  <2>11. /\ s \in Sessions /\ todo'.of = s /\ exec' = [ exec EXCEPT ![s] = exec[s] ]
         /\ commandsDisk' = [ commandsDisk EXCEPT ![s] = d ] /\ ctl' = [ ctl EXCEPT ![s] = c ]
         /\ todo.of = s
    BY <1>1, <1>2, <1>3, <2>5
  <2> HIDE DEF s
  <2> QED
    BY <2>3, <2>9, <2>10, <2>11, RowChanges
<1>9. CASE ~(Len(todo.commits) > 1)
  <2> DEFINE f == [ follow[s] EXCEPT !.kind = todo.then ]
  <2>1. todo' = Commands!NoTodo /\ follow' = [ follow EXCEPT ![s] = f ]
    BY <1>1, <1>9, Zenon
  <2>2. f \in FollowRow /\ ~f.replaced
    <3>1. todo.then \in { "none", "continue" } /\ ~follow[s].replaced
      BY <1>2, <1>3 DEF Row, RowInv
    <3> QED
      BY <1>3, <3>1 DEF FollowRow
  <2> HIDE DEF f
  <2>3. RowInv(d, c, exec[s], f) /\ PlanAtHome(d)
    <3>1. PlanAtHome(d)
      BY <1>3, <1>7, <1>9
    <3>2. RowInv(d, c, exec[s], f)
      BY <1>2, <1>3, <1>4, <1>5, <2>2 DEF Row, RowInv
    <3> QED
      BY <3>1, <3>2
  <2>4. TodoInv(d, c, exec[s], f, todo') /\ todo'.of \in Sessions /\ todo'.commits = << >>
    BY <2>1 DEF Commands!NoTodo, TodoInv, CommandLimits
  <2> QED
    BY <1>1, <1>2, <1>3, <2>1, <2>3, <2>4, RowChanges
<1> QED
  BY <1>8, <1>9

(* A controller whose copy is not the stored one is refused, and only its   *)
(* own mode changes.                                                        *)
LEMMA CommitIsRefused ==
  ASSUME CommandLimits, CommandInv, Commands!CommitRefused
  PROVE  CommandInv'
<1> DEFINE s == todo.of
           D == commandsDisk[s]
           c == [ ctl[s] EXCEPT !.mode = Commands!ModeAfter(s, Head(todo.commits)) ]
<1>1. /\ todo.commits # << >> /\ UNCHANGED << commandsDisk, exec, follow >> /\ ctl[s].behind
      /\ ctl' = [ ctl EXCEPT ![s] = c ] /\ todo' = Commands!NoTodo
  BY Zenon DEF Commands!CommitRefused
<1>2. /\ s \in Sessions /\ Row(s) /\ ctl[s].open /\ exec[s].by = "nobody"
      /\ exec' = [ exec EXCEPT ![s] = exec[s] ] /\ follow' = [ follow EXCEPT ![s] = follow[s] ]
      /\ commandsDisk' = [ commandsDisk EXCEPT ![s] = D ]
  BY <1>1, CommitAt
<1>3. /\ c \in ControllerRow /\ c.open = ctl[s].open /\ c.late = ctl[s].late /\ c.behind = ctl[s].behind
      /\ c.asks = ctl[s].asks /\ c.failed = ctl[s].failed
  BY <1>1, ModeTaken
<1> HIDE DEF c
<1>4. RowInv(D, c, exec[s], follow[s])
  BY <1>1, <1>2, <1>3 DEF Row, RowInv
<1>5. PlanAtHome(D)
  BY <1>1 DEF CommandInv, TodoInv
<1>7. todo.of = s
  OBVIOUS
<1>6. TodoInv(D, c, exec[s], follow[s], todo') /\ todo'.of \in Sessions /\ todo'.commits = << >>
  BY <1>1 DEF Commands!NoTodo, TodoInv, CommandLimits
<1> HIDE DEF s, D
<1> QED
  BY <1>1, <1>2, <1>4, <1>5, <1>6, <1>7, RowChanges

(* A write that fails leaves a controller that has failed when it left the  *)
(* copy behind or the mode changed, and a plan that is approved only with   *)
(* its mode or astray.                                                      *)
LEMMA CommitIsLost ==
  ASSUME CommandLimits, CommandInv, Commands!CommitFails
  PROVE  CommandInv'
<1> DEFINE s == todo.of
           D == commandsDisk[s]
           commit == Head(todo.commits)
           made == Commands!Made(s, commit)
<1>1. PICK stored \in { D, Commands!HalfEnded(D), made }, behind \in BOOLEAN :
        /\ ~ctl[s].behind
        /\ behind => stored = made /\ commit \in Modes \cup { "finish" }
        /\ commandsDisk' = [ commandsDisk EXCEPT ![s] = Commands!CutOff(stored) ]
        /\ ctl' = [ ctl EXCEPT ![s] = [ ctl[s] EXCEPT
                      !.mode = Commands!ModeAfter(s, commit), !.behind = behind,
                      !.failed = ctl[s].failed \/ behind \/ commit \in Modes ] ]
  BY Zenon DEF Commands!CommitFails
<1>2. todo.commits # << >> /\ UNCHANGED << exec, follow >> /\ todo' = Commands!NoTodo
  BY DEF Commands!CommitFails
<1>3. /\ s \in Sessions /\ Row(s) /\ D \in SessionRow /\ ctl[s] \in ControllerRow
      /\ ctl[s].open /\ exec[s].by = "nobody" /\ commit = todo.commits[1]
      /\ exec' = [ exec EXCEPT ![s] = exec[s] ] /\ follow' = [ follow EXCEPT ![s] = follow[s] ]
  BY <1>2, CommitAt
<1> DEFINE mode == Commands!ModeAfter(s, commit)
           failed == ctl[s].failed \/ behind \/ commit \in Modes
           c == [ ctl[s] EXCEPT !.mode = mode, !.behind = behind, !.failed = failed ]
           d == Commands!CutOff(stored)
<1>4. /\ c \in ControllerRow /\ c.open = ctl[s].open /\ c.late = ctl[s].late /\ c.behind = behind
      /\ c.asks = ctl[s].asks /\ (c.failed <=> ctl[s].failed \/ behind \/ commit \in Modes)
      /\ c.mode = IF commit \in Modes THEN commit ELSE ctl[s].mode
  <2>1. /\ mode \in Modes /\ failed \in BOOLEAN
        /\ mode = IF commit \in Modes THEN commit ELSE ctl[s].mode
    BY <1>3 DEF ControllerRow, Commands!ModeAfter
  <2>2. failed <=> ctl[s].failed \/ behind \/ commit \in Modes
    OBVIOUS
  <2> HIDE DEF mode, failed
  <2>3. /\ c \in ControllerRow /\ c.open = ctl[s].open /\ c.late = ctl[s].late /\ c.behind = behind
        /\ c.asks = ctl[s].asks /\ c.failed = failed /\ c.mode = mode
    BY <1>3, <2>1 DEF ControllerRow
  <2> QED
    BY <2>1, <2>2, <2>3
<1>5. commandsDisk' = [ commandsDisk EXCEPT ![s] = d ] /\ ctl' = [ ctl EXCEPT ![s] = c ]
  BY <1>1, Zenon
<1> HIDE DEF c
<1>6. /\ made \in SessionRow /\ made.made = D.made
      /\ made.mode = IF commit \in Modes THEN commit ELSE D.mode
      /\ commit \in Modes => made.plan = D.plan /\ made.run = D.run /\ made.astray = D.astray
      /\ commit \notin Modes => made.plan \notin { "proposed", "revising" } /\ made.run # "approval"
      /\ (made.plan # "none" => made.run # "none")
  BY <1>2, CommitMakes
<1>7. /\ todo.commits[1] \in Modes \ { "plan" } => D.plan # "proposed"
      /\ PlanAtHome(D) \/ D.plan = "active"
      /\ (D.plan = "revising" => PlanAtHome(D))
      /\ todo.commits[1] = "plan" => D.plan \notin { "active", "revising" }
  BY <1>2 DEF CommandInv, TodoInv
<1> HIDE DEF made
<1>8. /\ stored \in SessionRow /\ stored.made = D.made
      /\ stored.plan # "none" => stored.run # "none"
      /\ stored.plan = "proposed" => stored.mode = "plan" \/ stored.astray
      /\ PlanAtHome(stored) \/ stored.plan = "active"
      /\ stored.run = "approval" => D.run = "approval"
      /\ commit \notin Modes => stored.mode = D.mode
  <2>1. CASE stored = D
    BY <1>3, <1>7, <2>1 DEF Row, RowInv
  <2>2. CASE stored = Commands!HalfEnded(D)
    <3>1. /\ stored \in SessionRow /\ stored.run = "over" /\ stored.made = D.made /\ stored.mode = D.mode
          /\ stored.plan = D.plan /\ stored.astray = D.astray
      BY <1>3, <2>2, HalfEndedRow
    <3> QED
      BY <1>3, <1>7, <3>1 DEF Row, RowInv, PlanAtHome
  <2>3. CASE stored = made
    <3>1. PlanAtHome(made) \/ made.plan = "active"
      BY <1>3, <1>6, <1>7 DEF PlanAtHome
    <3>2. made.plan = "proposed" => made.mode = "plan" \/ made.astray
      BY <1>3, <1>6, <1>7 DEF Row, RowInv
    <3> QED
      BY <1>6, <2>3, <3>1, <3>2
  <2> QED
    BY <1>1, <2>1, <2>2, <2>3
<1>9. /\ d \in SessionRow /\ PlanKept(d) /\ d.made = stored.made /\ d.mode = stored.mode
      /\ d.run = stored.run /\ d.plan = stored.plan
  BY <1>8, CutOffStays
<1> HIDE DEF d
<1>10. RowInv(d, c, exec[s], follow[s]) /\ PlanAtHome(d)
  BY <1>3, <1>4, <1>8, <1>9 DEF Row, RowInv, PlanKept
<1>11. TodoInv(d, c, exec[s], follow[s], todo') /\ todo'.of \in Sessions /\ todo'.commits = << >>
  BY <1>2 DEF Commands!NoTodo, TodoInv, CommandLimits
<1>12. todo.of = s
  OBVIOUS
<1> HIDE DEF s
<1> QED
  BY <1>3, <1>5, <1>10, <1>11, <1>12, RowChanges

-------------------------------------------------------------------------------
(* A derived controller is of the stored session, and late when another one *)
(* was at work on it (new_session, fork_session, resume_session).           *)
LEMMA ControllerDerived ==
  ASSUME CommandLimits, CommandInv, todo.commits = << >>, UNCHANGED todo, NEW t \in Sessions,
         NEW d \in SessionRow, d.made, d.plan # "none" => d = commandsDisk[t],
         d.run \in { "none", commandsDisk[t].run }, 
         d = commandsDisk[t] \/ ~commandsDisk[t].made,
         commandsDisk' = [ commandsDisk EXCEPT ![t] = d ],
         ctl' = [ ctl EXCEPT ![t] = Commands!Derived(t) ],
         NEW e \in ExecutionRow, exec' = [ exec EXCEPT ![t] = e ],
         e.mode = exec[t].mode, e.by # "nobody" => exec[t].by # "nobody",
         NEW f \in FollowRow, follow' = [ follow EXCEPT ![t] = f ], 
         f.kind = follow[t].kind, f.replaced => f.kind # "none"
  PROVE  CommandInv'
<1> DEFINE late == \/ commandsDisk[t].run = "approval" \/ Commands!Executing(t)
                   \/ follow[t].kind # "none"
           c == [ Commands!Opened(d) EXCEPT !.late = late ]
<1>1. Row(t) /\ commandsDisk[t] \in SessionRow
  BY CommandRows
<1>2. commandsDisk'[t] = d
  BY DEF CommandInv
<1>3. ctl' = [ ctl EXCEPT ![t] = c ]
  BY <1>2, Zenon DEF Commands!Derived
<1>4. /\ c \in ControllerRow /\ c.open /\ c.mode = d.mode /\ ~c.behind
      /\ (c.late <=> \/ commandsDisk[t].run = "approval" \/ exec[t].by # "nobody"
                     \/ follow[t].kind # "none")
  BY DEF ControllerRow, SessionRow, Commands!Opened, Commands!Closed, Commands!Executing
<1> HIDE DEF c
<1>5. RowInv(d, c, e, f) /\ PlanAtHome(d)
  <2>1. RowInv(d, c, e, f)
    BY <1>1, <1>4 DEF Row, RowInv
  <2> QED
    BY <2>1, PlanIsAtHome DEF PlanAtHome
<1>6. TodoInv(d, c, e, f, todo') /\ todo'.of \in Sessions /\ todo'.commits = << >>
  BY NothingToCommit DEF CommandInv, TodoInv
<1> QED
  BY <1>3, <1>5, <1>6, RowChanges

LEMMA SessionsDerived ==
  ASSUME CommandLimits, CommandInv, NEW s \in Sessions, NEW t \in Sessions,
         Commands!NewSession(s, t) \/ Commands!ForkSession(s, t) \/ Commands!ResumeSession(s, t)
  PROVE  CommandInv'
<1>1. /\ Row(t) /\ commandsDisk[s] \in SessionRow /\ commandsDisk[t] \in SessionRow
      /\ ctl[s] \in ControllerRow /\ exec[t] \in ExecutionRow /\ follow[t] \in FollowRow
  BY CommandRows
<1>2. todo.commits = << >> /\ UNCHANGED todo /\ ctl' = [ ctl EXCEPT ![t] = Commands!Derived(t) ]
  BY DEF Commands!NewSession, Commands!ForkSession, Commands!ResumeSession, Commands!Free
<1>3. /\ commandsDisk = [ commandsDisk EXCEPT ![t] = commandsDisk[t] ]
      /\ exec = [ exec EXCEPT ![t] = exec[t] ] /\ follow = [ follow EXCEPT ![t] = follow[t] ]
  BY Unchanged DEF CommandInv
<1>4. follow[t].replaced => follow[t].kind # "none"
  BY <1>1 DEF Row, RowInv
<1>5. CASE Commands!NewSession(s, t)
  <2> DEFINE d == [ Commands!NoSession EXCEPT !.made = TRUE, !.mode = ctl[s].mode ]
  <2>1. d \in SessionRow /\ d.made /\ d.plan = "none" /\ d.run = "none"
    BY <1>1 DEF SessionRow, ControllerRow, Commands!NoSession
  <2>2. /\ commandsDisk' = [ commandsDisk EXCEPT ![t] = d ] /\ ~commandsDisk[t].made
        /\ UNCHANGED << exec, follow >>
    BY <1>5, Zenon DEF Commands!NewSession
  <2> HIDE DEF d
  <2> QED
    BY <1>1, <1>2, <1>3, <1>4, <2>1, <2>2, ControllerDerived
<1>6. CASE Commands!ForkSession(s, t)
  <2> DEFINE chain == IF commandsDisk[s].chain = "open" THEN "passed" ELSE commandsDisk[s].chain
             d == [ Commands!NoSession EXCEPT !.made = TRUE, !.mode = commandsDisk[s].mode,
                                              !.said = TRUE, !.chain = chain ]
  <2>1. d \in SessionRow /\ d.made /\ d.plan = "none" /\ d.run = "none"
    BY <1>1 DEF SessionRow, Commands!NoSession
  <2>2. /\ commandsDisk' = [ commandsDisk EXCEPT ![t] = d ] /\ ~commandsDisk[t].made
        /\ UNCHANGED << exec, follow >>
    BY <1>6, Zenon DEF Commands!ForkSession, Commands!Forked
  <2> HIDE DEF d
  <2> QED
    BY <1>1, <1>2, <1>3, <1>4, <2>1, <2>2, ControllerDerived
<1>7. CASE Commands!ResumeSession(s, t)
  <2> DEFINE e == [ exec[t] EXCEPT !.by = IF Commands!Executing(t) THEN "replaced" ELSE exec[t].by ]
             f == [ follow[t] EXCEPT !.replaced = follow[t].kind # "none" ]
  <2>1. e \in ExecutionRow /\ e.mode = exec[t].mode /\ (e.by # "nobody" => exec[t].by # "nobody")
    BY <1>1 DEF ExecutionRow, Commands!Executing
  <2>2. f \in FollowRow /\ f.kind = follow[t].kind /\ (f.replaced => f.kind # "none")
    BY <1>1 DEF FollowRow
  <2>3. /\ UNCHANGED commandsDisk /\ commandsDisk[t].made
        /\ exec' = [ exec EXCEPT ![t] = e ] /\ follow' = [ follow EXCEPT ![t] = f ]
    BY <1>7, Zenon DEF Commands!ResumeSession
  <2> HIDE DEF e, f
  <2> QED
    BY <1>1, <1>2, <1>3, <2>1, <2>2, <2>3, ControllerDerived
<1> QED
  BY <1>5, <1>6, <1>7

(* A session that is opened again has no other controller, and knows the    *)
(* approval that its checkpoint has (open_session).                         *)
LEMMA SessionOpened ==
  ASSUME CommandLimits, CommandInv, NEW s \in Sessions, Commands!OpenSession(s)
  PROVE  CommandInv'
<1> DEFINE c == [ Commands!Opened(commandsDisk[s]) EXCEPT !.asks = commandsDisk[s].run = "approval" ]
<1>1. /\ Row(s) /\ commandsDisk[s] \in SessionRow /\ commandsDisk[s].made /\ ~ctl[s].open
      /\ todo.commits = << >> /\ UNCHANGED << commandsDisk, exec, todo, follow >>
      /\ ctl' = [ ctl EXCEPT ![s] = c ]
  BY CommandRows, Zenon DEF Commands!OpenSession
<1>2. /\ c \in ControllerRow /\ c.mode = commandsDisk[s].mode /\ ~c.behind /\ c.open
      /\ (c.asks <=> commandsDisk[s].run = "approval")
  BY <1>1 DEF ControllerRow, SessionRow, Commands!Opened, Commands!Closed
<1> HIDE DEF c
<1>3. RowInv(commandsDisk[s], c, exec[s], follow[s])
  BY <1>1, <1>2 DEF Row, RowInv
<1>4. /\ commandsDisk' = [ commandsDisk EXCEPT ![s] = commandsDisk[s] ]
      /\ exec' = [ exec EXCEPT ![s] = exec[s] ] /\ follow' = [ follow EXCEPT ![s] = follow[s] ]
  BY <1>1, Unchanged DEF CommandInv
<1>5. /\ TodoInv(commandsDisk[s], c, exec[s], follow[s], todo')
      /\ todo'.of \in Sessions /\ todo'.commits = << >>
  BY <1>1, NothingToCommit DEF CommandInv, TodoInv
<1>6. ctl' = [ ctl EXCEPT ![s] = c ]
  BY <1>1
<1>7. PlanAtHome(commandsDisk[s]) /\ todo.commits = << >>
  BY <1>1, PlanIsAtHome
<1> QED
  BY <1>3, <1>4, <1>5, <1>6, <1>7, RowChanges

LEMMA WorkspaceMoves ==
  ASSUME CommandLimits, CommandInv, NEW s \in Sessions, Commands!MoveWorkspace(s)
  PROVE  CommandInv'
<1> DEFINE d == [ commandsDisk[s] EXCEPT !.same = ~commandsDisk[s].same ]
<1>1. /\ Row(s) /\ commandsDisk[s] \in SessionRow
      /\ todo.commits = << >> /\ UNCHANGED << ctl, exec, todo, follow >>
      /\ commandsDisk' = [ commandsDisk EXCEPT ![s] = d ]
  BY CommandRows, Zenon DEF Commands!MoveWorkspace
<1>2. /\ d \in SessionRow /\ d.made = commandsDisk[s].made /\ d.mode = commandsDisk[s].mode
      /\ d.run = commandsDisk[s].run /\ d.plan = commandsDisk[s].plan /\ d.astray = commandsDisk[s].astray
  BY <1>1 DEF SessionRow
<1> HIDE DEF d
<1>3. RowInv(d, ctl[s], exec[s], follow[s]) /\ PlanAtHome(d)
  BY <1>1, <1>2, PlanIsAtHome DEF Row, RowInv, PlanAtHome
<1>4. /\ ctl' = [ ctl EXCEPT ![s] = ctl[s] ]
      /\ exec' = [ exec EXCEPT ![s] = exec[s] ] /\ follow' = [ follow EXCEPT ![s] = follow[s] ]
  BY <1>1, Unchanged DEF CommandInv
<1>5. TodoInv(d, ctl[s], exec[s], follow[s], todo') /\ todo'.of \in Sessions /\ todo'.commits = << >>
  BY <1>1, NothingToCommit DEF CommandInv, TodoInv
<1>6. commandsDisk' = [ commandsDisk EXCEPT ![s] = d ]
  BY <1>1
<1>7. todo.commits = << >>
  BY <1>1
<1> QED
  BY <1>3, <1>4, <1>5, <1>6, <1>7, RowChanges

(* After a crash there is only what is stored.                              *)
LEMMA CrashStops ==
  ASSUME CommandLimits, CommandInv, Commands!Stopped,
         commandsDisk' \in [ Sessions -> SessionRow ],
         \A s \in Sessions : PlanKept(commandsDisk'[s])
  PROVE  CommandInv'
<1>1. /\ ctl' = [ s \in Sessions |-> Commands!Closed ] /\ exec' = [ s \in Sessions |-> Commands!Idle ]
      /\ todo' = Commands!NoTodo /\ follow' = [ s \in Sessions |-> Commands!NoFollow ]
  BY DEF Commands!Stopped
<1>2. Commands!Closed \in ControllerRow /\ ~Commands!Closed.open /\ ~Commands!Closed.behind
  BY DEF Commands!Closed, ControllerRow, CommandLimits
<1>3. Commands!Idle \in ExecutionRow /\ Commands!Idle.by = "nobody"
  BY DEF Commands!Idle, ExecutionRow, CommandLimits
<1>4. Commands!NoFollow \in FollowRow /\ Commands!NoFollow.kind = "none" /\ ~Commands!NoFollow.replaced
  BY DEF Commands!NoFollow, FollowRow
<1>5. ASSUME NEW s \in Sessions PROVE Row(s)'
  <2>1. ctl'[s] = Commands!Closed /\ exec'[s] = Commands!Idle /\ follow'[s] = Commands!NoFollow
    BY <1>1
  <2>2. commandsDisk'[s] \in SessionRow
    OBVIOUS
  <2> QED
    BY <1>2, <1>3, <1>4, <2>1, <2>2 DEF Row, RowInv, PlanKept
<1>6. TodoInv(commandsDisk[todo.of], ctl[todo.of], exec[todo.of], follow[todo.of], todo)'
  BY <1>1 DEF Commands!NoTodo, TodoInv, CommandLimits
<1> QED
  BY <1>1, <1>2, <1>3, <1>4, <1>5, <1>6 DEF CommandInv, PlanKept

LEMMA Crashes ==
  ASSUME CommandLimits, CommandInv,
         Commands!Crash \/ \E s, t \in Sessions : Commands!CrashInFork(s, t)
  PROVE  CommandInv'
<1>1. Commands!Stopped
  BY DEF Commands!Crash, Commands!CrashInFork
<1>2. \A s \in Sessions : todo.commits = << >> \/ todo.of # s => PlanKept(commandsDisk[s])
  BY CommandRows DEF Row, RowInv, PlanKept, CommandInv
<1>3. CASE Commands!Crash
  <2>1. PICK chain \in { "whole", "open", "passed" }, half \in BOOLEAN :
          commandsDisk' = [ s \in Sessions |->
             IF Commands!Executing(s) /\ Commands!Unbroken(s)
             THEN [ commandsDisk[s] EXCEPT !.chain = chain ]
             ELSE IF todo.commits # << >> /\ todo.of = s
             THEN Commands!CutOff(IF half THEN Commands!HalfEnded(commandsDisk[s]) ELSE commandsDisk[s])
             ELSE commandsDisk[s] ]
    BY <1>3, Zenon DEF Commands!Crash
  <2>2. ASSUME NEW s \in Sessions
        PROVE  commandsDisk'[s] \in SessionRow /\ PlanKept(commandsDisk'[s])
    <3> DEFINE d == [ commandsDisk[s] EXCEPT !.chain = chain ]
               h == IF half THEN Commands!HalfEnded(commandsDisk[s]) ELSE commandsDisk[s]
    <3>1. /\ commandsDisk[s] \in SessionRow /\ Row(s)
          /\ commandsDisk'[s] = IF Commands!Executing(s) /\ Commands!Unbroken(s) THEN d
                                ELSE IF todo.commits # << >> /\ todo.of = s THEN Commands!CutOff(h)
                                ELSE commandsDisk[s]
      BY <2>1, CommandRows
    <3>2. /\ d \in SessionRow /\ d.plan = commandsDisk[s].plan /\ d.run = commandsDisk[s].run
          /\ d.mode = commandsDisk[s].mode /\ d.astray = commandsDisk[s].astray
      BY <3>1 DEF SessionRow
    <3>3. Commands!CutOff(h) \in SessionRow /\ PlanKept(Commands!CutOff(h))
      <4>1. /\ h \in SessionRow /\ h.plan = commandsDisk[s].plan /\ h.run \in { "over", commandsDisk[s].run }
            /\ h.mode = commandsDisk[s].mode /\ h.astray = commandsDisk[s].astray
        BY <3>1, HalfEndedRow
      <4> HIDE DEF h
      <4>2. PlanAtHome(commandsDisk[s]) \/ commandsDisk[s].plan = "active"
        BY RevisionIsAtHome DEF PlanAtHome
      <4>3. /\ h.plan # "none" => h.run # "none"
            /\ h.plan = "proposed" => h.mode = "plan" \/ h.astray
            /\ PlanAtHome(h) \/ h.plan = "active"
        BY <3>1, <4>1, <4>2 DEF Row, RowInv, PlanAtHome
      <4> QED
        BY <4>1, <4>3, CutOffStays
    <3>4. Commands!Executing(s) => todo.commits = << >> \/ todo.of # s
      BY DEF CommandInv, TodoInv, Commands!Executing
    <3> HIDE DEF d, h
    <3>5. CASE Commands!Executing(s) /\ Commands!Unbroken(s)
      <4>1. PlanKept(commandsDisk[s]) /\ commandsDisk'[s] = d
        BY <1>2, <3>1, <3>4, <3>5
      <4> QED
        BY <3>2, <4>1 DEF PlanKept, PlanAtHome
    <3>6. CASE ~(Commands!Executing(s) /\ Commands!Unbroken(s)) /\ todo.commits # << >> /\ todo.of = s
      <4>1. commandsDisk'[s] = Commands!CutOff(h)
        BY <3>1, <3>6
      <4> QED
        BY <3>3, <4>1
    <3>7. CASE ~(Commands!Executing(s) /\ Commands!Unbroken(s)) /\ ~(todo.commits # << >> /\ todo.of = s)
      <4>1. commandsDisk'[s] = commandsDisk[s] /\ PlanKept(commandsDisk[s])
        BY <1>2, <3>1, <3>7
      <4> QED
        BY <3>1, <4>1
    <3> QED
      BY <3>5, <3>6, <3>7
  <2>3. commandsDisk' \in [ Sessions -> SessionRow ]
    BY <2>1, <2>2
  <2> QED
    BY <1>1, <2>2, <2>3, CrashStops
<1>4. CASE \E s, t \in Sessions : Commands!CrashInFork(s, t)
  <2>1. PICK s \in Sessions, t \in Sessions : Commands!CrashInFork(s, t)
    BY <1>4
  <2> DEFINE d == [ Commands!NoSession EXCEPT !.made = TRUE, !.mode = commandsDisk[s].mode,
                                              !.said = TRUE, !.chain = "cut" ]
  <2>2. d \in SessionRow /\ d.plan = "none"
    BY CommandRows DEF SessionRow, Commands!NoSession
  <2>3. commandsDisk' = [ commandsDisk EXCEPT ![t] = d ]
    BY <2>1, Zenon DEF Commands!CrashInFork, Commands!Forked
  <2> HIDE DEF d
  <2>4. /\ commandsDisk' \in [ Sessions -> SessionRow ]
        /\ \A u \in Sessions : commandsDisk'[u] = IF u = t THEN d ELSE commandsDisk[u]
    BY <2>2, <2>3 DEF CommandInv
  <2>5. todo.commits = << >>
    BY <2>1 DEF Commands!CrashInFork, Commands!Free
  <2>6. \A u \in Sessions : PlanKept(commandsDisk'[u])
    <3>1. PlanKept(d)
      BY <2>2 DEF PlanKept, PlanAtHome
    <3>2. \A u \in Sessions : PlanKept(commandsDisk[u])
      BY <1>2, <2>5
    <3> QED
      BY <2>4, <3>1, <3>2
  <2> QED
    BY <1>1, <2>4, <2>6, CrashStops
<1> QED
  BY <1>3, <1>4

LEMMA CommandInvStep ==
  ASSUME CommandLimits
  PROVE  CommandInv /\ [Commands!Next]_(Commands!vars) => CommandInv'
<1> SUFFICES ASSUME CommandInv, [Commands!Next]_(Commands!vars) PROVE CommandInv'
  OBVIOUS
<1>1. CASE UNCHANGED Commands!vars
  <2>1. UNCHANGED << commandsDisk, ctl, exec, follow, todo >>
    BY <1>1 DEF Commands!vars
  <2>2. \A s \in Sessions : Row(s)' <=> Row(s)
    BY <2>1 DEF Row
  <2> QED
    BY <2>1, <2>2 DEF CommandInv
<1>2. CASE \E s \in Sessions, mode \in Modes : Commands!StartRun(s, mode)
  BY <1>2, RunStarts
<1>3. CASE \E s \in Sessions : \/ \E mode \in Modes : Commands!ChangeMode(s, mode)
                             \/ Commands!ApprovePlan(s) \/ Commands!RejectPlan(s) \/ Commands!ClearPlan(s)
  BY <1>3, CommandsGiven
<1>4. CASE \E s \in Sessions : \/ Commands!ContinueRun(s) \/ Commands!DecideApproval(s)
                             \/ Commands!RespondInteraction(s) \/ Commands!FollowUp(s)
  BY <1>4, RunsContinue
<1>5. CASE \E s \in Sessions, kind \in Commands!Waits : Commands!RunPauses(s, kind)
  BY <1>5, RunWaits
<1>6. CASE \E s \in Sessions : Commands!RunEnds(s)
  BY <1>6, RunIsOver
<1>7. CASE \E s, t \in Sessions : \/ Commands!NewSession(s, t) \/ Commands!ForkSession(s, t)
                                \/ Commands!ResumeSession(s, t)
  BY <1>7, SessionsDerived
<1>8. CASE \E s \in Sessions : Commands!OpenSession(s)
  BY <1>8, SessionOpened
<1>9. CASE \E s \in Sessions : Commands!MoveWorkspace(s)
  BY <1>9, WorkspaceMoves
<1>10. CASE Commands!CommitNext \/ Commands!CommitRefused \/ Commands!CommitFails
  BY <1>10, CommitMade, CommitIsRefused, CommitIsLost
<1>11. CASE Commands!Crash \/ \E s, t \in Sessions : Commands!CrashInFork(s, t)
  BY <1>11, Crashes
<1> QED
  BY <1>1, <1>2, <1>3, <1>4, <1>5, <1>6, <1>7, <1>8, <1>9, <1>10, <1>11, Zenon DEF Commands!Next

LEMMA CommandInvGoesOn ==
  ASSUME CommandLimits, CommandInv
  PROVE  SessionsGoOn
<1>1. Commands!TypeOK
  <2>1. ASSUME NEW s \in Sessions
        PROVE  /\ commandsDisk[s].run \in { "none", "open", "over" } \cup Commands!Waits
               /\ commandsDisk[s].plan \in { "none", "proposed", "active", "revising", "ended" }
               /\ commandsDisk[s].chain \in { "whole", "open", "passed", "cut" }
               /\ commandsDisk[s].mode \in Modes /\ ctl[s].mode \in Modes /\ exec[s].mode \in Modes
               /\ exec[s].by \in { "nobody", "controller", "replaced" }
               /\ follow[s].kind \in { "none", "continue" }
    BY CommandRows DEF SessionRow, ControllerRow, ExecutionRow, FollowRow
  <2>2. todo.of \in Sessions /\ Len(todo.commits) <= 3
    BY DEF CommandInv, TodoInv
  <2> HIDE DEF CommandInv
  <2> QED
    BY <2>1, <2>2 DEF Commands!TypeOK
<1>2. Commands!SessionsGoOn
  <2> SUFFICES ASSUME NEW s \in Sessions
               PROVE  /\ Commands!Free(s) /\ ~ctl[s].late =>
                           /\ commandsDisk[s].run = "none" => ~ctl[s].behind \/ ctl[s].failed
                           /\ commandsDisk[s].run = "approval" => ctl[s].asks
                           /\ ctl[s].mode = commandsDisk[s].mode \/ ctl[s].failed
                      /\ commandsDisk[s].plan = "proposed" =>
                           commandsDisk[s].mode = "plan" \/ commandsDisk[s].astray
                      /\ commandsDisk[s].plan \in { "active", "revising" } =>
                           \/ commandsDisk[s].mode # "plan" \/ commandsDisk[s].astray
                           \/ todo.commits # << >> /\ todo.of = s
    BY DEF Commands!SessionsGoOn
  <2>1. Row(s)
    BY CommandRows
  <2>2. PlanAtHome(commandsDisk[s]) \/ (todo.commits # << >> /\ todo.of = s)
    BY DEF CommandInv
  <2> QED
    BY <2>1, <2>2 DEF Row, RowInv, PlanAtHome, Commands!Free
<1> QED
  BY <1>1, <1>2 DEF SessionsGoOn

(* A session that nothing works on has the stored copy when it is to take a *)
(* prompt, knows the approval its run waits for and is in the stored mode,  *)
(* unless a write of a command has failed or it was derived too late; a     *)
(* plan is proposed in plan mode and carried out in another one, unless its *)
(* run is astray: for every set of sessions and whatever is derived, cut    *)
(* short, fails or is restarted (runtime/gateway.py, commands.py,           *)
(* session_coordinator.py).                                                 *)
THEOREM SessionsAlwaysGoOn ==
  ASSUME CommandLimits
  PROVE  Commands!Spec => []SessionsGoOn
<1>1. Commands!Init => CommandInv
  BY CommandInvInit
<1>2. CommandInv /\ [Commands!Next]_(Commands!vars) => CommandInv'
  BY CommandInvStep
<1>3. CommandInv => SessionsGoOn
  BY CommandInvGoesOn
<1> QED
  BY <1>1, <1>2, <1>3, PTL DEF Commands!Spec
===============================================================================
