--------------------------- MODULE WorkspaceProofs ---------------------------
(***************************************************************************)
(* What Workspace promises, proved for every instance of the modules it is *)
(* about, from one inductive invariant each: of a log, what the lines that *)
(* have an end hold for ever; of a patch, which files may differ from what *)
(* was read; of a command, that its process was permitted; of the          *)
(* memories, how the records, the writes that a decision still has to make *)
(* and the user's last word agree; of a batch of agents, what is reported  *)
(* of each task; of the tools of a session, which registrations there are  *)
(* and which tool an id tells.                                             *)
(***************************************************************************)
EXTENDS Workspace, Integers, Sequences, FiniteSets, FiniteSetTheorems, SequenceTheorems,
        WellFoundedInduction, TLAPS

-------------------------------------------------------------------------------
(* Numbers and sequences *)

LEMMA LeastOf ==
    ASSUME NEW T \in SUBSET Nat, T # { }
    PROVE  \E x \in T : \A y \in T : x <= y
<1>1. PICK x \in T : \A y \in T : << y, x >> \notin OpToRel(<, Nat)
  BY WFMin, NatLessThanWellFounded
<1>2. ASSUME NEW y \in T PROVE x <= y
  <2>1. x \in Nat /\ y \in Nat
    OBVIOUS
  <2>2. ~(y < x)
    BY <1>1, <2>1 DEF OpToRel
  <2> QED
    BY <2>1, <2>2
<1> QED
  BY <1>2

LEMMA TwoInARow ==
    ASSUME NEW a, NEW b
    PROVE  << a >> \o << b >> = << a, b >>
<1> DEFINE s == << a >> \o << b >>
<1>1. << a >> \in Seq({ a, b }) /\ << b >> \in Seq({ a, b }) /\ << a, b >> \in Seq({ a, b })
  OBVIOUS
<1>2. s \in Seq({ a, b }) /\ Len(s) = 2 /\ s[1] = a /\ s[2] = b
  BY <1>1, ConcatProperties
<1> HIDE DEF s
<1>3. s = << a, b >>
  BY <1>1, <1>2, SeqEqual
<1> QED
  BY <1>3 DEF s

-------------------------------------------------------------------------------
(* Logs *)

(* What the proof about logs assumes: records and versions are numbers.      *)
LogLimits == LogRecords \subseteq Nat

LogTypeOK ==
    /\ logsLog \in [ Logs!Logs -> Seq(Logs!LogLines) ] /\ \A f \in Logs!Logs : logsLog[f] # << >>
    /\ stored \in [ Logs!Logs -> SUBSET LogRecords ]
    /\ writing = Logs!Nothing
         \/ writing \in [ file : Logs!Logs \cup { "state" }, record : LogRecords ]
    /\ logsState \in [ file : Nat, temp : { "none", "torn" }, saved : Nat ]
    /\ logsState.file \in LogRecords \cup { 0 }

(* Among the lines that have an end, which no write changes any more, every  *)
(* stored record is whole, or one is bad for ever.                           *)
StoredIsKept(lines, kept) ==
    (\E i \in 1..(Len(lines) - 1) : lines[i] = Logs!Bad)
    \/ \A r \in kept : \E i \in 1..(Len(lines) - 1) : lines[i] = Logs!Whole(r)

Once(lines) ==
    Logs!Readable(lines) =>
        \A i, j \in Logs!Rows(lines) : lines[i] = lines[j] => i = j

LogInv ==
    /\ LogTypeOK
    /\ \A f \in Logs!Logs : StoredIsKept(logsLog[f], stored[f])
    /\ Once(logsLog["messages"])
    /\ writing.file = "messages" => writing.record \notin Logs!Given(logsLog["messages"])
    /\ writing.file = "state" => writing.record > logsState.file
    /\ logsState.file >= logsState.saved

LEMMA UpTo ==
    ASSUME NEW n \in Nat \ { 0 }
    PROVE  n \in 1..n /\ \A i \in 1..(n - 1) : i \in 1..n /\ i # n
OBVIOUS

LEMMA LineKinds ==
    ASSUME NEW r
    PROVE  /\ Logs!Whole(r) # Logs!Empty /\ Logs!Whole(r) # Logs!Bad /\ Logs!Empty # Logs!Bad
           /\ Logs!Whole(r).kind = "whole" /\ Logs!Whole(r).record = r
           /\ Logs!Empty.kind = "empty" /\ Logs!Bad.kind = "bad"
BY DEF Logs!Whole, Logs!Empty, Logs!Bad

(* What more text makes of a log: only its last line changes.                *)
LEMMA TextBehind ==
    ASSUME NEW lines \in Seq(Logs!LogLines), lines # << >>, NEW text \in Logs!LogLines
    PROVE  /\ Logs!Behind(lines, text) \in Seq(Logs!LogLines)
           /\ Len(Logs!Behind(lines, text)) = Len(lines) /\ Len(lines) \in Nat \ { 0 }
           /\ \A i \in 1..(Len(lines) - 1) : Logs!Behind(lines, text)[i] = lines[i]
           /\ Logs!Behind(lines, text)[Len(lines)] \in { text, Logs!Bad }
           /\ Logs!Behind(lines, text)[Len(lines)] # Logs!Bad => lines[Len(lines)] = Logs!Empty
<1>1. Len(lines) \in Nat \ { 0 } /\ lines \in [ 1..Len(lines) -> Logs!LogLines ]
  BY EmptySeq, LenProperties
<1> DEFINE glued == IF lines[Len(lines)] = Logs!Empty THEN text ELSE Logs!Bad
<1>2. Logs!Bad \in Logs!LogLines
  BY DEF Logs!LogLines
<1>3. glued \in Logs!LogLines
  BY <1>2
<1>4. Logs!Behind(lines, text) = [ lines EXCEPT ![Len(lines)] = glued ]
  BY DEF Logs!Behind
<1>5. glued \in { text, Logs!Bad } /\ (glued # Logs!Bad => lines[Len(lines)] = Logs!Empty)
  OBVIOUS
<1> HIDE DEF glued
<1>6. /\ Logs!Behind(lines, text) \in [ 1..Len(lines) -> Logs!LogLines ]
      /\ \A i \in 1..(Len(lines) - 1) : Logs!Behind(lines, text)[i] = lines[i]
      /\ Logs!Behind(lines, text)[Len(lines)] = glued
  <2>1. /\ Len(lines) \in 1..Len(lines)
        /\ \A i \in 1..(Len(lines) - 1) : i \in 1..Len(lines) /\ i # Len(lines)
    BY <1>1, UpTo
  <2>2. [ lines EXCEPT ![Len(lines)] = glued ] \in [ 1..Len(lines) -> Logs!LogLines ]
    BY <1>1, <1>3
  <2> QED
    BY <1>1, <1>4, <2>1, <2>2
<1>7. Logs!Behind(lines, text) \in Seq(Logs!LogLines) /\ Len(Logs!Behind(lines, text)) = Len(lines)
  BY <1>1, <1>6, SeqDef, LenProperties
<1> QED
  BY <1>1, <1>5, <1>6, <1>7

LEMMA LineEnded ==
    ASSUME NEW lines \in Seq(Logs!LogLines), lines # << >>
    PROVE  /\ Logs!Ended(lines) \in Seq(Logs!LogLines) /\ Logs!Ended(lines) # << >>
           /\ Len(Logs!Ended(lines)) = Len(lines) + 1
           /\ \A i \in 1..Len(lines) : Logs!Ended(lines)[i] = lines[i]
           /\ Logs!Ended(lines)[Len(lines) + 1] = Logs!Empty
<1>1. Logs!Empty \in Logs!LogLines
  BY DEF Logs!LogLines
<1> QED
  BY <1>1, AppendProperties DEF Logs!Ended

(* What a write of a record makes of a log when it is cut anywhere, or not.  *)
Cuts(lines, r) ==
    LET whole == Logs!Behind(lines, Logs!Whole(r))
    IN  { lines, Logs!Behind(lines, Logs!Bad), whole, Logs!Ended(whole) }

LEMMA CutLines ==
    ASSUME NEW lines \in Seq(Logs!LogLines), lines # << >>, NEW r \in LogRecords,
           NEW new \in Cuts(lines, r)
    PROVE  /\ new \in Seq(Logs!LogLines) /\ new # << >>
           /\ Len(lines) \in Nat \ { 0 } /\ Len(new) \in Len(lines)..(Len(lines) + 1)
           /\ \A i \in 1..(Len(lines) - 1) : new[i] = lines[i]
           /\ \/ new[Len(lines)] = lines[Len(lines)]
              \/ new[Len(lines)] = Logs!Bad
              \/ new[Len(lines)] = Logs!Whole(r) /\ lines[Len(lines)] = Logs!Empty
           /\ Len(new) = Len(lines) + 1 =>
                /\ new[Len(new)] = Logs!Empty
                /\ new[Len(lines)] \in { Logs!Whole(r), Logs!Bad }
<1>1. Logs!Whole(r) \in Logs!LogLines /\ Logs!Bad \in Logs!LogLines
  BY DEF Logs!LogLines
<1> DEFINE whole == Logs!Behind(lines, Logs!Whole(r))
           bad == Logs!Behind(lines, Logs!Bad)
           n == Len(lines)
<1>2. /\ whole \in Seq(Logs!LogLines) /\ Len(whole) = n /\ n \in Nat \ { 0 }
      /\ \A i \in 1..(n - 1) : whole[i] = lines[i]
      /\ whole[n] \in { Logs!Whole(r), Logs!Bad }
      /\ whole[n] # Logs!Bad => lines[n] = Logs!Empty
  BY <1>1, TextBehind
<1>3. /\ bad \in Seq(Logs!LogLines) /\ Len(bad) = n
      /\ \A i \in 1..(n - 1) : bad[i] = lines[i]
      /\ bad[n] = Logs!Bad
  BY <1>1, TextBehind
<1>4. whole # << >> /\ bad # << >>
  BY <1>2, <1>3, EmptySeq
<1>5. /\ Logs!Ended(whole) \in Seq(Logs!LogLines) /\ Logs!Ended(whole) # << >>
      /\ Len(Logs!Ended(whole)) = n + 1
      /\ \A i \in 1..n : Logs!Ended(whole)[i] = whole[i]
      /\ Logs!Ended(whole)[n + 1] = Logs!Empty
  BY <1>2, <1>4, LineEnded
<1>6. new \in { lines, bad, whole, Logs!Ended(whole) }
  BY DEF Cuts
<1> HIDE DEF whole, bad, n
<1>7. CASE new = lines
  BY <1>2, <1>7 DEF n
<1>8. CASE new = bad
  BY <1>2, <1>3, <1>4, <1>8 DEF n
<1>9. CASE new = whole
  BY <1>2, <1>4, <1>9 DEF n
<1>10. CASE new = Logs!Ended(whole)
  <2>1. /\ n \in 1..n /\ \A i \in 1..(n - 1) : i \in 1..n
        /\ n + 1 \in n..(n + 1)
    BY <1>2
  <2> QED
    BY <1>2, <1>5, <1>10, <2>1 DEF n
<1> QED
  BY <1>6, <1>7, <1>8, <1>9, <1>10

LEMMA CutKeepsStored ==
    ASSUME NEW lines \in Seq(Logs!LogLines), lines # << >>, NEW r \in LogRecords,
           NEW new \in Cuts(lines, r), NEW S, StoredIsKept(lines, S)
    PROVE  StoredIsKept(new, S) /\ (Len(new) = Len(lines) + 1 => StoredIsKept(new, S \cup { r }))
<1>1. /\ Len(lines) \in Nat \ { 0 } /\ Len(new) \in Len(lines)..(Len(lines) + 1)
      /\ \A i \in 1..(Len(lines) - 1) : new[i] = lines[i]
      /\ Len(new) = Len(lines) + 1 => new[Len(lines)] \in { Logs!Whole(r), Logs!Bad }
  BY CutLines
<1>2. \A i \in 1..(Len(lines) - 1) : i \in 1..(Len(new) - 1)
  BY <1>1
<1>3. StoredIsKept(new, S)
  BY <1>1, <1>2 DEF StoredIsKept
<1>4. ASSUME Len(new) = Len(lines) + 1 PROVE StoredIsKept(new, S \cup { r })
  <2>1. Len(lines) \in 1..(Len(new) - 1)
    BY <1>1, <1>4
  <2>2. new[Len(lines)] \in { Logs!Whole(r), Logs!Bad }
    BY <1>1, <1>4
  <2> QED
    BY <1>3, <2>1, <2>2 DEF StoredIsKept
<1> QED
  BY <1>3, <1>4

LEMMA CutKeepsOnce ==
    ASSUME NEW lines \in Seq(Logs!LogLines), lines # << >>, NEW r \in LogRecords,
           NEW new \in Cuts(lines, r), Once(lines), r \notin Logs!Given(lines)
    PROVE  Once(new)
<1> SUFFICES ASSUME Logs!Readable(new), NEW i \in Logs!Rows(new), NEW j \in Logs!Rows(new),
                    new[i] = new[j], i # j
             PROVE  FALSE
  BY DEF Once
<1> DEFINE n == Len(lines)
<1>1. /\ new \in Seq(Logs!LogLines)
      /\ n \in Nat \ { 0 } /\ Len(new) \in n..(n + 1)
      /\ \A k \in 1..(n - 1) : new[k] = lines[k]
      /\ \/ new[n] = lines[n]
         \/ new[n] = Logs!Bad
         \/ new[n] = Logs!Whole(r) /\ lines[n] = Logs!Empty
      /\ Len(new) = n + 1 => new[n + 1] = Logs!Empty
  BY CutLines
<1>2. DOMAIN lines = 1..n /\ DOMAIN new = 1..Len(new)
  BY <1>1, LenProperties
<1> HIDE DEF n
<1>3. Logs!Readable(lines)
  <2>1. \A k \in 1..(n - 1) : k \in 1..(Len(new) - 1)
    BY <1>1
  <2> QED
    BY <1>1, <2>1 DEF Logs!Readable, n
<1>4. ASSUME NEW k \in Logs!Rows(new)
      PROVE  /\ k \in 1..n
             /\ \/ new[k] = lines[k] /\ k \in Logs!Rows(lines)
                \/ k = n /\ new[k] = Logs!Whole(r)
  <2>1. k \in 1..Len(new) /\ new[k].kind = "whole"
    BY <1>2 DEF Logs!Rows
  <2>2. new[k] # Logs!Empty /\ new[k] # Logs!Bad
    BY <2>1, LineKinds
  <2>3. k \in 1..n
    BY <1>1, <2>1, <2>2
  <2>4. new[k] = lines[k] \/ (k = n /\ new[k] = Logs!Whole(r))
    <3>1. CASE k = n
      BY <1>1, <2>2, <3>1
    <3>2. CASE k # n
      <4>1. k \in 1..(n - 1)
        BY <1>1, <2>3, <3>2
      <4> QED
        BY <1>1, <4>1
    <3> QED
      BY <3>1, <3>2
  <2> QED
    BY <1>2, <2>1, <2>3, <2>4 DEF Logs!Rows
<1>5. ASSUME NEW k \in Logs!Rows(lines) PROVE lines[k] # Logs!Whole(r)
  BY <1>5, LineKinds DEF Logs!Given
<1> QED
  BY <1>3, <1>4, <1>5 DEF Once

LEMMA LogInvInit == ASSUME LogLimits PROVE Logs!Init => LogInv
<1> SUFFICES ASSUME Logs!Init PROVE LogInv
  OBVIOUS
<1>1. << Logs!Empty >> \in Seq(Logs!LogLines) /\ << Logs!Empty >> # << >> /\ Len(<< Logs!Empty >>) = 1
  BY DEF Logs!LogLines
<1>2. LogTypeOK
  BY <1>1 DEF Logs!Init, LogTypeOK, Logs!Nothing
<1>3. \A f \in Logs!Logs : StoredIsKept(logsLog[f], stored[f])
  BY DEF Logs!Init, StoredIsKept
<1>4. Once(<< Logs!Empty >>)
  BY <1>1, LineKinds DEF Once, Logs!Rows
<1>5. logsLog["messages"] = << Logs!Empty >> /\ writing.file = "none"
  BY DEF Logs!Init, Logs!Nothing, Logs!Logs
<1> QED
  BY <1>2, <1>3, <1>4, <1>5 DEF Logs!Init, LogInv

LEMMA LogBegins ==
    ASSUME LogLimits, LogInv, NEW r \in LogRecords,
           Logs!AppendMessage(r) \/ Logs!AppendEvent(r) \/ Logs!Save(r)
    PROVE  LogInv'
<1>1. logsLog' = logsLog /\ stored' = stored /\ r \in Nat
  BY DEF Logs!AppendMessage, Logs!AppendEvent, Logs!Save, LogLimits
<1>2. \/ /\ writing' = [ file |-> "messages", record |-> r ] /\ logsState' = logsState
         /\ r \notin Logs!Given(logsLog["messages"])
      \/ writing' = [ file |-> "events", record |-> r ] /\ logsState' = logsState
      \/ /\ writing' = [ file |-> "state", record |-> r ] /\ r > logsState.file
         /\ logsState' = [ logsState EXCEPT !.temp = "torn" ]
  BY DEF Logs!AppendMessage, Logs!AppendEvent, Logs!Save
<1>3. logsState \in [ file : Nat, temp : { "none", "torn" }, saved : Nat ]
  BY DEF LogInv, LogTypeOK
<1>4. "messages" \in Logs!Logs /\ "events" \in Logs!Logs
  BY DEF Logs!Logs
<1>5. /\ logsState' \in [ file : Nat, temp : { "none", "torn" }, saved : Nat ]
      /\ logsState'.file = logsState.file /\ logsState'.saved = logsState.saved
  BY <1>2, <1>3
<1>6. /\ writing' \in [ file : Logs!Logs \cup { "state" }, record : LogRecords ]
      /\ writing'.record = r
  BY <1>2, <1>4
<1>7. LogTypeOK'
  BY <1>1, <1>5, <1>6 DEF LogInv, LogTypeOK
<1>8. /\ writing'.file = "messages" => r \notin Logs!Given(logsLog["messages"])
      /\ writing'.file = "state" => r > logsState.file
  BY <1>2
<1> QED
  BY <1>1, <1>5, <1>6, <1>7, <1>8
  DEF LogInv, StoredIsKept, Once, Logs!Given, Logs!Rows, Logs!Readable

(* What an append does to the log it writes, whole or cut.                   *)
LogGrows(f, r, new) ==
    /\ f \in Logs!Logs /\ r \in LogRecords
    /\ new \in Cuts(logsLog[f], r) /\ logsLog' = [ logsLog EXCEPT ![f] = new ]
    /\ logsState' = logsState
    /\ \/ stored' = stored
       \/ /\ stored' = [ stored EXCEPT ![f] = @ \cup { r } ]
          /\ Len(new) = Len(logsLog[f]) + 1
    /\ writing' = Logs!Nothing \/ writing' = [ file |-> "run events", record |-> r ]
    /\ f = "messages" => r \notin Logs!Given(logsLog["messages"])

LEMMA LogGrowsKeeps ==
    ASSUME LogLimits, LogInv, NEW f, NEW r, NEW new, LogGrows(f, r, new)
    PROVE  LogInv'
<1>1. /\ f \in Logs!Logs /\ r \in LogRecords /\ new \in Cuts(logsLog[f], r)
      /\ logsLog' = [ logsLog EXCEPT ![f] = new ] /\ logsState' = logsState
  BY DEF LogGrows
<1>14. writing' = Logs!Nothing \/ writing' = [ file |-> "run events", record |-> r ]
  BY DEF LogGrows
<1>2. logsLog[f] \in Seq(Logs!LogLines) /\ logsLog[f] # << >>
  BY <1>1 DEF LogInv, LogTypeOK
<1>3. new \in Seq(Logs!LogLines) /\ new # << >>
  BY <1>1, <1>2, CutLines
<1>4. logsLog'[f] = new /\ \A g \in Logs!Logs : g # f => logsLog'[g] = logsLog[g]
  BY <1>1 DEF LogInv, LogTypeOK
<1>5. writing' = Logs!Nothing \/ writing' \in [ file : Logs!Logs \cup { "state" }, record : LogRecords ]
  <2>1. "run events" \in Logs!Logs
    BY DEF Logs!Logs
  <2> DEFINE event == [ file |-> "run events", record |-> r ]
  <2>3. event \in [ file : Logs!Logs \cup { "state" }, record : LogRecords ]
    BY <1>1, <2>1
  <2> HIDE DEF event
  <2>4. writing' = Logs!Nothing \/ writing' = event
    BY <1>14 DEF event
  <2> QED
    BY <2>3, <2>4
<1>6. stored' \in [ Logs!Logs -> SUBSET LogRecords ]
  <2>1. CASE stored' = stored
    BY <2>1 DEF LogInv, LogTypeOK
  <2>2. CASE stored' = [ stored EXCEPT ![f] = @ \cup { r } ]
    BY <1>1, <2>2 DEF LogInv, LogTypeOK
  <2> QED
    BY <2>1, <2>2 DEF LogGrows
<1>7. logsLog' \in [ Logs!Logs -> Seq(Logs!LogLines) ] /\ \A g \in Logs!Logs : logsLog'[g] # << >>
  BY <1>1, <1>3, <1>4 DEF LogInv, LogTypeOK
<1>8. LogTypeOK'
  BY <1>1, <1>5, <1>6, <1>7 DEF LogInv, LogTypeOK
<1>9. ASSUME NEW g \in Logs!Logs PROVE StoredIsKept(logsLog'[g], stored'[g])
  <2>1. StoredIsKept(logsLog[g], stored[g])
    BY DEF LogInv
  <2>2. CASE g # f
    <3>1. stored'[g] = stored[g]
      BY <1>1, <2>2 DEF LogGrows, LogInv, LogTypeOK
    <3> QED
      BY <1>4, <2>1, <2>2, <3>1
  <2>3. CASE g = f
    <3>1. /\ StoredIsKept(new, stored[f])
          /\ Len(new) = Len(logsLog[f]) + 1 => StoredIsKept(new, stored[f] \cup { r })
      BY <1>1, <1>2, <2>1, <2>3, CutKeepsStored
    <3>2. \/ stored'[f] = stored[f]
          \/ stored'[f] = stored[f] \cup { r } /\ Len(new) = Len(logsLog[f]) + 1
      BY <1>1 DEF LogGrows, LogInv, LogTypeOK
    <3> QED
      BY <1>4, <2>3, <3>1, <3>2
  <2> QED
    BY <2>2, <2>3
<1>10. Once(logsLog'["messages"])
  <2>1. Once(logsLog["messages"]) /\ "messages" \in Logs!Logs
    BY DEF LogInv, Logs!Logs
  <2>2. CASE f = "messages"
    <3>1. r \notin Logs!Given(logsLog[f])
      BY <2>2 DEF LogGrows
    <3> QED
      BY <1>1, <1>2, <1>4, <2>1, <2>2, <3>1, CutKeepsOnce
  <2>3. CASE f # "messages"
    BY <1>4, <2>1, <2>3
  <2> QED
    BY <2>2, <2>3
<1>11. writing'.file \notin { "messages", "state" }
  <2>1. CASE writing' = Logs!Nothing
    BY <2>1 DEF Logs!Nothing
  <2>2. CASE writing' = [ file |-> "run events", record |-> r ]
    BY <2>2
  <2> QED
    BY <1>14, <2>1, <2>2
<1>12. logsState'.file >= logsState'.saved
  BY <1>1 DEF LogInv
<1>13. (\A g \in Logs!Logs : StoredIsKept(logsLog[g], stored[g]))'
  BY <1>9
<1> QED
  BY <1>8, <1>10, <1>11, <1>12, <1>13 DEF LogInv

LEMMA LogAppends ==
    ASSUME LogLimits, LogInv, Logs!Written \/ Logs!WriteCut
    PROVE  LogInv'
<1> DEFINE f == writing.file
           r == writing.record
           whole == Logs!Behind(logsLog[f], Logs!Whole(r))
<1>1. writing \in [ file : Logs!Logs \cup { "state" }, record : LogRecords ] /\ f # "state"
  BY DEF LogInv, LogTypeOK, Logs!Written, Logs!WriteCut, Logs!Idle
<1>2. f \in Logs!Logs /\ r \in LogRecords /\ writing = [ file |-> f, record |-> r ]
  BY <1>1
<1>3. f = "messages" => r \notin Logs!Given(logsLog["messages"])
  BY DEF LogInv
<1>4. CASE Logs!Written
  <2>1. /\ logsLog' = [ logsLog EXCEPT ![f] = Logs!Ended(whole) ]
        /\ stored' = [ stored EXCEPT ![f] = @ \cup { r } ] /\ logsState' = logsState
    BY <1>4 DEF Logs!Written
  <2>2. Logs!Ended(whole) \in Cuts(logsLog[f], r)
    BY DEF Cuts
  <2>3. logsLog[f] \in Seq(Logs!LogLines) /\ logsLog[f] # << >>
    BY <1>2 DEF LogInv, LogTypeOK
  <2>4. Len(Logs!Ended(whole)) = Len(logsLog[f]) + 1
    <3>1. Logs!Whole(r) \in Logs!LogLines
      BY <1>2 DEF Logs!LogLines
    <3>2. whole \in Seq(Logs!LogLines) /\ Len(whole) = Len(logsLog[f]) /\ Len(logsLog[f]) \in Nat \ { 0 }
      BY <2>3, <3>1, TextBehind
    <3> HIDE DEF whole
    <3>3. whole # << >>
      BY <3>2, EmptySeq
    <3> QED
      BY <3>2, <3>3, LineEnded
  <2>5. writing' = Logs!Nothing \/ writing' = [ file |-> "run events", record |-> r ]
    BY <1>2, <1>4 DEF Logs!Written
  <2> HIDE DEF f, r, whole
  <2>6. LogGrows(f, r, Logs!Ended(whole))
    BY <1>2, <1>3, <2>1, <2>2, <2>4, <2>5 DEF LogGrows
  <2> QED
    BY <2>6, LogGrowsKeeps
<1>5. CASE Logs!WriteCut
  <2>1. PICK new \in { logsLog[f], Logs!Behind(logsLog[f], Logs!Bad), whole, Logs!Ended(whole) } :
            logsLog' = [ logsLog EXCEPT ![f] = new ]
    BY <1>5 DEF Logs!WriteCut
  <2>2. stored' = stored /\ logsState' = logsState /\ writing' = Logs!Nothing
    BY <1>5 DEF Logs!WriteCut
  <2>3. new \in Cuts(logsLog[f], r)
    BY <2>1 DEF Cuts
  <2> HIDE DEF f, r, whole
  <2>4. LogGrows(f, r, new)
    BY <1>2, <1>3, <2>1, <2>2, <2>3 DEF LogGrows
  <2> QED
    BY <2>4, LogGrowsKeeps
<1> QED
  BY <1>4, <1>5

(* The replacement of the state file, whole or cut.                          *)
LEMMA StateSaved ==
    ASSUME LogLimits, LogInv, Logs!Saved \/ Logs!SaveCut
    PROVE  LogInv'
<1>1. /\ logsLog' = logsLog /\ stored' = stored /\ writing' = Logs!Nothing
      /\ writing.file = "state"
  BY DEF Logs!Saved, Logs!SaveCut
<1>2. writing.record \in LogRecords /\ writing.record \in Nat /\ writing.record > logsState.file
  <2>1. \/ writing = Logs!Nothing
        \/ writing \in [ file : Logs!Logs \cup { "state" }, record : LogRecords ]
    BY DEF LogInv, LogTypeOK
  <2>2. writing # Logs!Nothing
    BY <1>1 DEF Logs!Nothing
  <2>3. writing.record \in LogRecords
    BY <2>1, <2>2
  <2>4. writing.file = "state" => writing.record > logsState.file
    BY DEF LogInv
  <2> QED
    BY <1>1, <2>3, <2>4 DEF LogLimits
<1>3. /\ logsState \in [ file : Nat, temp : { "none", "torn" }, saved : Nat ]
      /\ logsState.file >= logsState.saved /\ logsState.file \in LogRecords \cup { 0 }
  BY DEF LogInv, LogTypeOK
<1>4. logsState' \in { [ file |-> writing.record, temp |-> "none", saved |-> writing.record ],
                       [ logsState EXCEPT !.temp = "none" ], logsState,
                       [ logsState EXCEPT !.file = writing.record, !.temp = "none" ] }
  BY DEF Logs!Saved, Logs!SaveCut
<1>5. /\ logsState' \in [ file : Nat, temp : { "none", "torn" }, saved : Nat ]
      /\ logsState'.file >= logsState'.saved /\ logsState'.file \in LogRecords \cup { 0 }
  <2> DEFINE v == writing.record
  <2>1. v \in LogRecords /\ v \in Nat /\ v > logsState.file
    BY <1>2
  <2> HIDE DEF v
  <2>2. CASE logsState' = [ file |-> v, temp |-> "none", saved |-> v ]
    BY <2>1, <2>2
  <2>3. CASE logsState' = [ logsState EXCEPT !.temp = "none" ]
    BY <1>3, <2>3
  <2>4. CASE logsState' = logsState
    BY <1>3, <2>4
  <2>5. CASE logsState' = [ logsState EXCEPT !.file = v, !.temp = "none" ]
    <3>1. logsState' = [ file |-> v, temp |-> "none", saved |-> logsState.saved ]
      BY <1>3, <2>5
    <3>2. v >= logsState.saved
      BY <1>3, <2>1
    <3> QED
      BY <1>3, <2>1, <3>1, <3>2
  <2> QED
    BY <1>4, <2>2, <2>3, <2>4, <2>5 DEF v
<1>6. LogTypeOK'
  BY <1>1, <1>5 DEF LogInv, LogTypeOK
<1>7. writing'.file = "none"
  BY <1>1 DEF Logs!Nothing
<1> QED
  BY <1>1, <1>5, <1>6, <1>7
  DEF LogInv, StoredIsKept, Once, Logs!Given, Logs!Rows, Logs!Readable

LEMMA LogInvStep ==
    ASSUME LogLimits
    PROVE  LogInv /\ [Logs!Next]_(Logs!logVars) => LogInv'
<1> SUFFICES ASSUME LogInv, [Logs!Next]_(Logs!logVars) PROVE LogInv'
  OBVIOUS
<1>1. ASSUME NEW r \in LogRecords,
             Logs!AppendMessage(r) \/ Logs!AppendEvent(r) \/ Logs!Save(r)
      PROVE  LogInv'
  BY <1>1, LogBegins
<1>2. CASE Logs!Written \/ Logs!WriteCut
  BY <1>2, LogAppends
<1>3. CASE Logs!Saved \/ Logs!SaveCut
  BY <1>3, StateSaved
<1>4. CASE UNCHANGED Logs!logVars
  BY <1>4 DEF Logs!logVars, LogInv, LogTypeOK, StoredIsKept, Once, Logs!Given, Logs!Rows,
              Logs!Readable
<1> QED
  BY <1>1, <1>2, <1>3, <1>4 DEF Logs!Next

LEMMA LogInvReads == ASSUME LogLimits PROVE LogInv => StoredIsRead
<1> SUFFICES ASSUME LogInv PROVE StoredIsRead
  OBVIOUS
<1>1. ASSUME NEW f \in Logs!Logs, Logs!Readable(logsLog[f])
      PROVE  stored[f] \subseteq Logs!Given(logsLog[f])
  <2>1. logsLog[f] \in Seq(Logs!LogLines)
    BY DEF LogInv, LogTypeOK
  <2>2. DOMAIN logsLog[f] = 1..Len(logsLog[f]) /\ Len(logsLog[f]) \in Nat
    BY <2>1, LenProperties
  <2>3. ASSUME NEW r \in stored[f] PROVE r \in Logs!Given(logsLog[f])
    <3>1. StoredIsKept(logsLog[f], stored[f])
      BY DEF LogInv
    <3>2. PICK i \in 1..(Len(logsLog[f]) - 1) : logsLog[f][i] = Logs!Whole(r)
      BY <1>1, <3>1 DEF StoredIsKept, Logs!Readable
    <3>3. i \in DOMAIN logsLog[f]
      BY <2>2
    <3> QED
      BY <3>2, <3>3, LineKinds DEF Logs!Given, Logs!Rows
  <2> QED
    BY <2>3
<1>2. Logs!Readable(logsLog["messages"]) =>
        \A i, j \in Logs!Rows(logsLog["messages"]) :
            logsLog["messages"][i] = logsLog["messages"][j] => i = j
  BY DEF LogInv, Once
<1>3. Logs!TypeOK
  BY DEF LogInv, LogTypeOK, Logs!TypeOK, Logs!Nothing
<1> QED
  BY <1>1, <1>2, <1>3 DEF LogInv, StoredIsRead, Logs!StoredIsRead

(* As long as a log can be read it gives every record that an append wrote,  *)
(* each message once, and the state file is never older than what was saved  *)
(* last, wherever writes are cut (read_jsonl, append_message,                *)
(* atomic_write_json).                                                       *)
THEOREM StoredIsAlwaysRead ==
    ASSUME LogLimits
    PROVE  Logs!Spec => []StoredIsRead
<1>1. Logs!Init => LogInv
  BY LogInvInit
<1>2. LogInv /\ [Logs!Next]_(Logs!logVars) => LogInv'
  BY LogInvStep
<1>3. LogInv => StoredIsRead
  BY LogInvReads
<1> QED
  BY <1>1, <1>2, <1>3, PTL DEF Logs!Spec

-------------------------------------------------------------------------------
(* File tools *)

(* What the proof about the file tools assumes of the bounds: a file begins  *)
(* empty or with two words, so texts have room for two.                      *)
EditLimits == MaxText \in Nat /\ MaxText >= 2 /\ MaxPatch \in Nat

FileRow == [ text : Edits!FileTexts, crlf : BOOLEAN ]
PatchRow == [ kind : { "temps", "replace", "restore" }, staged : [ Paths -> Edits!FileTexts ],
              temps : SUBSET Paths, replaced : Seq(Paths) ]

EditTypeOK ==
    /\ file \in [ Paths -> FileRow ] /\ before \in [ Paths -> FileRow ]
    /\ op = Edits!Idle \/ op \in PatchRow
    /\ editsReported \subseteq Paths /\ spoiled \subseteq Paths
    /\ editsOutcome \in { "none", "ok", "failed" }

(* Until the first replacement nothing has changed; while files are replaced *)
(* only those that were replaced differ; while they are restored only texts  *)
(* of those still to restore do, and of those that could not be.             *)
PatchAccounted ==
    /\ op.kind = "temps" => file = before /\ op.replaced = << >> /\ spoiled = { }
    /\ op.kind = "replace" =>
         /\ spoiled = { }
         /\ \A p \in Paths : file[p] # before[p] => p \in Edits!Range(op.replaced)
    /\ op.kind = "restore" =>
         \A p \in Paths : file[p].text # before[p].text =>
             p \in Edits!Range(op.replaced) \cup spoiled

EditInv == EditTypeOK /\ PatchAccounted /\ Edits!EditsAreHonest

LEMMA EditKinds == EditTypeOK => (op = Edits!Idle <=> op.kind = "none")
BY DEF EditTypeOK, PatchRow, Edits!Idle

LEMMA WordReplaced ==
    ASSUME NEW text \in Edits!FileTexts, NEW x, NEW w \in Words
    PROVE  [ text EXCEPT ![x] = w ] \in Edits!FileTexts
<1>1. PICK n \in 0..MaxText : text \in [ 1..n -> Words ]
  BY DEF Edits!FileTexts
<1>2. [ text EXCEPT ![x] = w ] \in [ 1..n -> Words ]
  BY <1>1
<1> QED
  BY <1>1, <1>2 DEF Edits!FileTexts

LEMMA AllReplaced ==
    ASSUME NEW text \in Edits!FileTexts, NEW old \in Words, NEW new \in Words
    PROVE  Edits!SetAll(text, old, new) \in Edits!FileTexts
<1>1. PICK n \in 0..MaxText : text \in [ 1..n -> Words ]
  BY DEF Edits!FileTexts
<1>2. Edits!SetAll(text, old, new) \in [ 1..n -> Words ]
  BY <1>1 DEF Edits!SetAll
<1> QED
  BY <1>1, <1>2 DEF Edits!FileTexts

(* _edit: what it makes of a text is a text, or it refuses.                  *)
LEMMA EditedTyped ==
    ASSUME NEW text \in Edits!FileTexts, NEW old \in Words, NEW new \in Words,
           NEW mode \in Edits!EditModes, Edits!Edited(text, old, new, mode) # Edits!Refused
    PROVE  Edits!Edited(text, old, new, mode) \in Edits!FileTexts
<1>1. mode.kind \in { "all", "unique", "nth" }
  BY DEF Edits!EditModes
<1>2. CASE mode.kind = "all"
  BY <1>2, AllReplaced DEF Edits!Edited
<1>3. CASE mode.kind = "unique"
  BY <1>3, WordReplaced DEF Edits!Edited, Edits!SetNth
<1>4. CASE mode.kind = "nth"
  BY <1>4, WordReplaced DEF Edits!Edited, Edits!SetNth
<1> QED
  BY <1>1, <1>2, <1>3, <1>4

(* The texts after every prefix of a patch: what the recursive definition    *)
(* says of them.                                                             *)
StagedTo(texts, edits, m) ==
    texts = [ n \in 0..m |-> IF n = 0 THEN [ p \in Paths |-> file[p].text ]
                             ELSE Edits!StagedBy(texts[n - 1], edits[n]) ]

LEMMA StagedMore ==
    ASSUME NEW edits, NEW k \in Nat, k # 0, NEW s, StagedTo(s, edits, k - 1)
    PROVE  \E texts : StagedTo(texts, edits, k)
<1>1. k - 1 \in Nat
  OBVIOUS
<1>2. \A n \in 0..(k - 1) :
        s[n] = IF n = 0 THEN [ p \in Paths |-> file[p].text ]
               ELSE Edits!StagedBy(s[n - 1], edits[n])
  BY DEF StagedTo
<1> DEFINE t == [ n \in 0..k |-> IF n < k THEN s[n] ELSE Edits!StagedBy(s[k - 1], edits[k]) ]
<1>3. t[k] = Edits!StagedBy(s[k - 1], edits[k])
  OBVIOUS
<1>4. \A n \in 0..(k - 1) : t[n] = s[n]
  BY <1>1
<1>5. t = [ n \in 0..k |-> t[n] ]
  OBVIOUS
<1> HIDE DEF t
<1>6. ASSUME NEW n \in 0..k
      PROVE  t[n] = IF n = 0 THEN [ p \in Paths |-> file[p].text ]
                    ELSE Edits!StagedBy(t[n - 1], edits[n])
  <2>1. CASE n = k
    <3>1. t[k - 1] = s[k - 1]
      BY <1>1, <1>4
    <3> QED
      BY <1>3, <2>1, <3>1
  <2>2. CASE n # k
    <3>1. n \in 0..(k - 1) /\ (n # 0 => n - 1 \in 0..(k - 1))
      BY <2>2
    <3>2. t[n] = s[n] /\ (n # 0 => t[n - 1] = s[n - 1])
      BY <1>4, <3>1
    <3> QED
      BY <1>2, <3>1, <3>2
  <2> QED
    BY <2>1, <2>2
<1>7. StagedTo(t, edits, k)
  BY <1>5, <1>6 DEF StagedTo
<1> QED
  BY <1>7

LEMMA StagedExists ==
    ASSUME NEW edits, NEW m \in Nat
    PROVE  \E texts : StagedTo(texts, edits, m)
<1> DEFINE T == { k \in Nat : ~ \E texts : StagedTo(texts, edits, k) }
<1> SUFFICES ASSUME T # { } PROVE FALSE
  OBVIOUS
<1>1. T \in SUBSET Nat
  OBVIOUS
<1> HIDE DEF T
<1>2. PICK k \in T : \A j \in T : k <= j
  BY <1>1, LeastOf
<1> USE DEF T
<1>3. CASE k = 0
  <2>1. StagedTo([ n \in 0..0 |-> [ p \in Paths |-> file[p].text ] ], edits, 0)
    BY DEF StagedTo
  <2> QED
    BY <1>2, <1>3, <2>1
<1>4. CASE k # 0
  <2>1. k - 1 \in Nat /\ k - 1 \notin T
    BY <1>2, <1>4
  <2>2. PICK s : StagedTo(s, edits, k - 1)
    BY <2>1
  <2> QED
    BY <1>2, <1>4, <2>2, StagedMore
<1> QED
  BY <1>3, <1>4

(* A patch that is not refused stages a text for every file.                 *)
LEMMA StagedTyped ==
    ASSUME NEW edits \in Edits!Patches, EditTypeOK, EditLimits
    PROVE  Edits!Staged(edits) = << >> \/ Edits!Staged(edits) \in [ Paths -> Edits!FileTexts ]
<1>1. PICK m \in 1..MaxPatch : edits \in [ 1..m -> Edits!Edits ]
  BY DEF Edits!Patches
<1>2. Len(edits) = m /\ m \in Nat
  BY <1>1 DEF EditLimits
<1> DEFINE texts == CHOOSE texts : StagedTo(texts, edits, Len(edits))
<1>3. StagedTo(texts, edits, Len(edits))
  BY <1>2, StagedExists
<1>4. Edits!Staged(edits) = texts[Len(edits)]
  BY DEF Edits!Staged, StagedTo
<1> HIDE DEF texts
<1> DEFINE T == { n \in 0..Len(edits) : ~(texts[n] = << >> \/ texts[n] \in [ Paths -> Edits!FileTexts ]) }
<1>5. ASSUME T # { } PROVE FALSE
  <2>0. T \in SUBSET Nat
    BY <1>2
  <2> HIDE DEF T
  <2>1. PICK n \in T : \A j \in T : n <= j
    BY <1>5, <2>0, LeastOf
  <2> USE DEF T
  <2>2. CASE n = 0
    <3>1. texts[0] = [ p \in Paths |-> file[p].text ]
      BY <1>2, <1>3 DEF StagedTo
    <3>2. texts[0] \in [ Paths -> Edits!FileTexts ]
      BY <3>1 DEF EditTypeOK, FileRow
    <3> QED
      BY <2>1, <2>2, <3>2
  <2>3. CASE n # 0
    <3>1. n - 1 \in 0..Len(edits) /\ n - 1 \notin T
      BY <1>2, <2>1, <2>3
    <3>2. texts[n - 1] = << >> \/ texts[n - 1] \in [ Paths -> Edits!FileTexts ]
      BY <3>1
    <3> DEFINE e == edits[n]
    <3>3. e.path \in Paths /\ e.old \in Words /\ e.new \in Words
      BY <1>1, <1>2, <2>3 DEF Edits!Edits
    <3>4. texts[n] = Edits!StagedBy(texts[n - 1], e)
      BY <1>2, <1>3, <2>3 DEF StagedTo
    <3> HIDE DEF e
    <3>5. ASSUME texts[n - 1] # << >>
          PROVE  Edits!SetNth(texts[n - 1][e.path], e.old, e.new, 1) \in Edits!FileTexts
      BY <3>2, <3>3, <3>5, WordReplaced DEF Edits!SetNth
    <3>6. texts[n] = << >> \/ texts[n] \in [ Paths -> Edits!FileTexts ]
      BY <3>2, <3>4, <3>5 DEF Edits!StagedBy
    <3> QED
      BY <2>1, <3>6
  <2> QED
    BY <2>2, <2>3
<1> QED
  BY <1>2, <1>4, <1>5

LEMMA EditInvInit == ASSUME EditLimits PROVE Edits!Init => EditInv
<1> SUFFICES ASSUME Edits!Init PROVE EditInv
  OBVIOUS
<1>1. ASSUME NEW t \in { << >> } \cup [ 1..2 -> Words ] PROVE t \in Edits!FileTexts
  <2>1. CASE t = << >>
    <3>1. t \in [ 1..0 -> Words ]
      BY <2>1
    <3> QED
      BY <3>1 DEF Edits!FileTexts, EditLimits
  <2>2. CASE t \in [ 1..2 -> Words ]
    <3>1. 2 \in 0..MaxText
      BY DEF EditLimits
    <3> QED
      BY <2>2, <3>1 DEF Edits!FileTexts
  <2> QED
    BY <1>1, <2>1, <2>2
<1>2. file \in [ Paths -> FileRow ]
  BY <1>1 DEF Edits!Init, FileRow
<1>3. op.kind = "none"
  BY DEF Edits!Init, Edits!Idle
<1> QED
  BY <1>2, <1>3 DEF Edits!Init, EditInv, EditTypeOK, PatchAccounted, Edits!EditsAreHonest

(* A call that leaves no patch under way keeps the invariant if it reports   *)
(* what it changed, or changed no text but of what it spoiled.               *)
CallOver ==
    /\ op' = Edits!Idle
    /\ file' \in [ Paths -> FileRow ] /\ before' \in [ Paths -> FileRow ]
    /\ editsReported' \subseteq Paths /\ spoiled' \subseteq Paths
    /\ \/ /\ editsOutcome' = "ok"
          /\ \A p \in Paths : file'[p] # before'[p] => p \in editsReported'
       \/ /\ editsOutcome' = "failed"
          /\ \A p \in Paths \ spoiled' : file'[p].text = before'[p].text

LEMMA CallOverKeeps == CallOver => EditInv'
BY DEF CallOver, EditInv, EditTypeOK, PatchAccounted, Edits!EditsAreHonest, Edits!Changed,
       Edits!Idle

LEMMA FileWritten ==
    ASSUME EditTypeOK, NEW p \in Paths, NEW text \in Edits!FileTexts
    PROVE  [ file EXCEPT ![p] = Edits!Written(text) ] \in [ Paths -> FileRow ]
BY DEF EditTypeOK, FileRow, Edits!Written

LEMMA NoText == ASSUME EditLimits PROVE << >> \in Edits!FileTexts
<1>1. << >> \in [ 1..0 -> Words ]
  OBVIOUS
<1> QED
  BY <1>1 DEF Edits!FileTexts, EditLimits

LEMMA EditInPlace ==
    ASSUME EditLimits, EditInv, NEW p \in Paths, NEW text \in Edits!FileTexts,
           op = Edits!Idle, op' = op, before' = file, Edits!WriteInPlace(p, text)
    PROVE  CallOver
<1>1. CASE editsOutcome' = "ok"
  <2>1. \/ file' = [ file EXCEPT ![p] = Edits!Written(text) ] /\ editsReported' = { p }
        \/ file' = file /\ editsReported' = { }
    BY <1>1 DEF Edits!WriteInPlace
  <2>2. spoiled' = { }
    BY <1>1 DEF Edits!WriteInPlace
  <2>3. file' \in [ Paths -> FileRow ] /\ before' \in [ Paths -> FileRow ]
    BY <2>1, FileWritten DEF EditInv, EditTypeOK
  <2>4. \A q \in Paths : file'[q] # before'[q] => q \in editsReported'
    BY <2>1 DEF EditInv, EditTypeOK
  <2> QED
    BY <1>1, <2>1, <2>2, <2>3, <2>4 DEF CallOver
<1>2. CASE editsOutcome' # "ok"
  <2>1. /\ file' = [ file EXCEPT ![p] = Edits!Written(<< >>) ]
        /\ editsReported' = { } /\ editsOutcome' = "failed" /\ spoiled' = { p }
    BY <1>2 DEF Edits!WriteInPlace
  <2>2. file' \in [ Paths -> FileRow ] /\ before' \in [ Paths -> FileRow ]
    BY <2>1, FileWritten, NoText DEF EditInv, EditTypeOK
  <2>3. \A q \in Paths \ spoiled' : file'[q].text = before'[q].text
    BY <2>1 DEF EditInv, EditTypeOK
  <2> QED
    BY <2>1, <2>2, <2>3 DEF CallOver
<1> QED
  BY <1>1, <1>2

LEMMA EditRefused ==
    ASSUME EditInv, op' = op, op = Edits!Idle, before' = file, Edits!Refuse
    PROVE  CallOver
BY DEF CallOver, Edits!Refuse, EditInv, EditTypeOK

LEMMA EditOneFile ==
    ASSUME EditLimits, EditInv, NEW p \in Paths, NEW old \in Words, NEW new \in Words,
           NEW mode \in Edits!EditModes, NEW seen, Edits!EditFile(p, old, new, mode, seen)
    PROVE  CallOver
<1> DEFINE updated == Edits!Edited(file[p].text, old, new, mode)
<1>1. file[p].text \in Edits!FileTexts
  BY DEF EditInv, EditTypeOK, FileRow
<1>2. op = Edits!Idle /\ op' = op /\ before' = file
  BY DEF Edits!EditFile
<1>3. CASE Edits!HashFits(p, seen) /\ updated # Edits!Refused
  <2>1. updated \in Edits!FileTexts
    BY <1>1, <1>3, EditedTyped
  <2>2. Edits!WriteInPlace(p, updated)
    BY <1>3 DEF Edits!EditFile
  <2> QED
    BY <1>2, <2>1, <2>2, EditInPlace
<1>4. CASE ~(Edits!HashFits(p, seen) /\ updated # Edits!Refused)
  <2>1. Edits!Refuse
    BY <1>4 DEF Edits!EditFile
  <2> QED
    BY <1>2, <2>1, EditRefused
<1> QED
  BY <1>3, <1>4

LEMMA PatchBegins ==
    ASSUME EditLimits, EditInv, NEW edits \in Edits!Patches, Edits!BeginPatch(edits)
    PROVE  EditInv'
<1>1. op = Edits!Idle /\ before' = file
  BY DEF Edits!BeginPatch
<1>2. CASE Edits!Staged(edits) = << >>
  <2>1. Edits!Refuse /\ op' = op
    BY <1>2 DEF Edits!BeginPatch
  <2> QED
    BY <1>1, <2>1, EditRefused, CallOverKeeps
<1>3. CASE Edits!Staged(edits) # << >>
  <2> DEFINE row == [ kind |-> "temps", staged |-> Edits!Staged(edits),
                      temps |-> { e.path : e \in Edits!Range(edits) }, replaced |-> << >> ]
  <2>1. /\ op' = row /\ editsReported' = { } /\ editsOutcome' = "none" /\ spoiled' = { }
        /\ file' = file
    BY <1>3 DEF Edits!BeginPatch
  <2>2. Edits!Staged(edits) \in [ Paths -> Edits!FileTexts ]
    BY <1>3, StagedTyped DEF EditInv
  <2>3. { e.path : e \in Edits!Range(edits) } \subseteq Paths
    BY DEF Edits!Range, Edits!Patches, Edits!Edits
  <2>4. << >> \in Seq(Paths)
    OBVIOUS
  <2>5. row \in PatchRow /\ row.kind = "temps" /\ row.replaced = << >>
    BY <2>2, <2>3, <2>4 DEF PatchRow
  <2> HIDE DEF row
  <2>6. EditTypeOK'
    BY <1>1, <2>1, <2>5 DEF EditInv, EditTypeOK
  <2>7. PatchAccounted'
    BY <1>1, <2>1, <2>5 DEF PatchAccounted
  <2>8. op' # Edits!Idle
    BY <2>1, <2>5 DEF Edits!Idle
  <2> QED
    BY <2>6, <2>7, <2>8 DEF EditInv, Edits!EditsAreHonest
<1> QED
  BY <1>2, <1>3

LEMMA PatchUnderWay ==
    ASSUME EditInv, op.kind # "none"
    PROVE  op \in PatchRow
BY DEF EditInv, EditTypeOK, Edits!Idle

LEMMA PatchTemps ==
    ASSUME EditInv, Edits!WriteTemps
    PROVE  EditInv'
<1>1. op.kind = "temps" /\ op \in PatchRow
  BY PatchUnderWay DEF Edits!WriteTemps
<1>2. /\ file' = file /\ before' = before /\ editsReported' = editsReported /\ spoiled' = spoiled
      /\ file = before
  BY <1>1 DEF Edits!WriteTemps, EditInv, PatchAccounted
<1>3. CASE op' = [ op EXCEPT !.kind = "replace" ] /\ editsOutcome' = editsOutcome
  <2>1. op' \in PatchRow /\ op'.kind = "replace"
    BY <1>1, <1>3 DEF PatchRow
  <2>2. EditTypeOK'
    BY <1>2, <1>3, <2>1 DEF EditInv, EditTypeOK
  <2>3. PatchAccounted'
    BY <1>1, <1>2, <2>1 DEF EditInv, PatchAccounted
  <2>4. op' # Edits!Idle
    BY <2>1 DEF Edits!Idle
  <2> QED
    BY <2>2, <2>3, <2>4 DEF EditInv, Edits!EditsAreHonest
<1>4. CASE op' = Edits!Idle /\ editsOutcome' = "failed"
  <2>1. CallOver
    BY <1>2, <1>4 DEF CallOver, EditInv, EditTypeOK
  <2> QED
    BY <2>1, CallOverKeeps
<1> QED
  BY <1>3, <1>4 DEF Edits!WriteTemps

LEMMA PatchReplaces ==
    ASSUME EditInv, NEW p \in Paths, Edits!ReplaceNext(p)
    PROVE  EditInv'
<1>1. op.kind = "replace" /\ op \in PatchRow
  BY PatchUnderWay DEF Edits!ReplaceNext
<1>2. /\ before' = before /\ editsReported' = editsReported /\ spoiled' = spoiled
      /\ editsOutcome' = editsOutcome /\ file' = [ file EXCEPT ![p] = Edits!Written(op.staged[p]) ]
      /\ op' = [ op EXCEPT !.temps = @ \ { p }, !.replaced = Append(@, p) ]
  BY DEF Edits!ReplaceNext
<1>3. op.staged[p] \in Edits!FileTexts /\ op.replaced \in Seq(Paths)
  BY <1>1 DEF PatchRow
<1>4. file' \in [ Paths -> FileRow ]
  BY <1>2, <1>3, FileWritten DEF EditInv
<1> DEFINE more == Append(op.replaced, p)
<1>5. more \in Seq(Paths)
  BY <1>3
<1>6. \A q \in Edits!Range(op.replaced) \cup { p } : q \in Edits!Range(more)
  <2>1. /\ Len(more) = Len(op.replaced) + 1 /\ more[Len(op.replaced) + 1] = p
        /\ \A i \in 1..Len(op.replaced) : more[i] = op.replaced[i]
    BY <1>3, AppendProperties
  <2>2. DOMAIN op.replaced = 1..Len(op.replaced) /\ DOMAIN more = 1..(Len(op.replaced) + 1)
        /\ Len(op.replaced) \in Nat
    BY <1>3, <1>5, <2>1, LenProperties
  <2> HIDE DEF more
  <2> QED
    BY <2>1, <2>2 DEF Edits!Range
<1> HIDE DEF more
<1>7. op' \in PatchRow /\ op'.kind = "replace" /\ op'.replaced = more
  BY <1>1, <1>2, <1>5 DEF PatchRow, more
<1>8. EditTypeOK'
  BY <1>2, <1>4, <1>7 DEF EditInv, EditTypeOK
<1>9. \A q \in Paths : file'[q] # before'[q] => q \in Edits!Range(op'.replaced)
  <2>1. \A q \in Paths : q # p => file'[q] = file[q]
    BY <1>2 DEF EditInv, EditTypeOK
  <2> QED
    BY <1>1, <1>2, <1>6, <1>7, <2>1 DEF EditInv, PatchAccounted
<1>10. PatchAccounted'
  BY <1>1, <1>2, <1>7, <1>9 DEF EditInv, PatchAccounted, Edits!Range
<1>11. op' # Edits!Idle
  BY <1>7 DEF Edits!Idle
<1> QED
  BY <1>8, <1>10, <1>11 DEF EditInv, Edits!EditsAreHonest

LEMMA PatchFails ==
    ASSUME EditInv, Edits!ReplaceFails
    PROVE  EditInv'
<1>1. op.kind = "replace" /\ op \in PatchRow
  BY PatchUnderWay DEF Edits!ReplaceFails
<1>2. /\ file' = file /\ before' = before /\ editsReported' = editsReported /\ spoiled' = spoiled
      /\ editsOutcome' = editsOutcome /\ op' = [ op EXCEPT !.kind = "restore" ]
  BY DEF Edits!ReplaceFails
<1>3. op' \in PatchRow /\ op'.kind = "restore" /\ op'.replaced = op.replaced
  BY <1>1, <1>2 DEF PatchRow
<1>4. EditTypeOK'
  BY <1>2, <1>3 DEF EditInv, EditTypeOK
<1>5. \A q \in Paths : file[q].text # before[q].text => q \in Edits!Range(op.replaced)
  BY <1>1 DEF EditInv, PatchAccounted
<1>6. PatchAccounted'
  BY <1>2, <1>3, <1>5 DEF PatchAccounted, Edits!Range
<1>7. op' # Edits!Idle
  BY <1>3 DEF Edits!Idle
<1> QED
  BY <1>4, <1>6, <1>7 DEF EditInv, Edits!EditsAreHonest

(* What is left of a list without its last element.                          *)
LEMMA AllButLast ==
    ASSUME NEW S, NEW s \in Seq(S), s # << >>
    PROVE  /\ Edits!Front(s) \in Seq(S) /\ Edits!Last(s) \in S
           /\ \A x \in Edits!Range(s) : x = Edits!Last(s) \/ x \in Edits!Range(Edits!Front(s))
<1>1. Len(s) \in Nat /\ Len(s) >= 1 /\ s \in [ 1..Len(s) -> S ]
  BY EmptySeq, LenProperties
<1>2. Edits!Front(s) = [ i \in 1..(Len(s) - 1) |-> s[i] ]
  BY <1>1 DEF Edits!Front
<1>3. Len(s) - 1 \in Nat
  BY <1>1
<1>4. Edits!Front(s) \in [ 1..(Len(s) - 1) -> S ]
  BY <1>1, <1>2
<1>5. Edits!Front(s) \in Seq(S)
  BY <1>3, <1>4, SeqDef
<1>6. Edits!Last(s) = s[Len(s)] /\ s[Len(s)] \in S
  BY <1>1 DEF Edits!Last
<1>7. ASSUME NEW i \in DOMAIN s PROVE s[i] = Edits!Last(s) \/ s[i] \in Edits!Range(Edits!Front(s))
  <2>1. i \in 1..Len(s)
    BY <1>1
  <2>2. CASE i = Len(s)
    BY <1>6, <2>2
  <2>3. CASE i # Len(s)
    <3>1. i \in 1..(Len(s) - 1)
      BY <1>1, <2>1, <2>3
    <3>2. Edits!Front(s)[i] = s[i] /\ i \in DOMAIN Edits!Front(s)
      BY <1>2, <3>1
    <3> QED
      BY <3>2 DEF Edits!Range
  <2> QED
    BY <2>2, <2>3
<1> QED
  BY <1>5, <1>6, <1>7 DEF Edits!Range

LEMMA PatchRestores ==
    ASSUME EditInv, Edits!RestoreLast
    PROVE  EditInv'
<1> DEFINE p == Edits!Last(op.replaced)
           rest == Edits!Front(op.replaced)
<1>1. op.kind = "restore" /\ op \in PatchRow /\ op.replaced # << >>
  BY PatchUnderWay DEF Edits!RestoreLast
<1>2. op.replaced \in Seq(Paths)
  BY <1>1 DEF PatchRow
<1>3. /\ rest \in Seq(Paths) /\ p \in Paths
      /\ \A q \in Edits!Range(op.replaced) : q = p \/ q \in Edits!Range(rest)
  BY <1>1, <1>2, AllButLast
<1>4. /\ op' = [ op EXCEPT !.replaced = rest ] /\ before' = before
      /\ editsReported' = editsReported /\ editsOutcome' = editsOutcome
      /\ \/ file' = [ file EXCEPT ![p] = Edits!Written(before[p].text) ] /\ spoiled' = spoiled
         \/ spoiled' = spoiled \cup { p } /\ file' = file
  BY DEF Edits!RestoreLast
<1> HIDE DEF p, rest
<1>5. op' \in PatchRow /\ op'.kind = "restore" /\ op'.replaced = rest
  BY <1>1, <1>3, <1>4 DEF PatchRow
<1>6. \A q \in Paths : file[q].text # before[q].text => q \in Edits!Range(op.replaced) \cup spoiled
  BY <1>1 DEF EditInv, PatchAccounted
<1>7. CASE file' = [ file EXCEPT ![p] = Edits!Written(before[p].text) ] /\ spoiled' = spoiled
  <2>1. before[p].text \in Edits!FileTexts
    BY <1>3 DEF EditInv, EditTypeOK, FileRow
  <2>2. file' \in [ Paths -> FileRow ]
    BY <1>3, <1>7, <2>1, FileWritten DEF EditInv
  <2>3. EditTypeOK'
    BY <1>4, <1>5, <1>7, <2>2 DEF EditInv, EditTypeOK
  <2>4. file'[p].text = before[p].text /\ \A q \in Paths : q # p => file'[q] = file[q]
    BY <1>3, <1>7 DEF EditInv, EditTypeOK, Edits!Written
  <2>5. \A q \in Paths : file'[q].text # before[q].text => q \in Edits!Range(rest) \cup spoiled
    BY <1>3, <1>6, <2>4
  <2> QED
    BY <1>4, <1>5, <1>7, <2>3, <2>5 DEF EditInv, PatchAccounted, Edits!EditsAreHonest, Edits!Idle,
                                    Edits!Range
<1>8. CASE spoiled' = spoiled \cup { p } /\ file' = file
  <2>1. EditTypeOK'
    BY <1>3, <1>4, <1>5, <1>8 DEF EditInv, EditTypeOK
  <2>2. \A q \in Paths : file[q].text # before[q].text => q \in Edits!Range(rest) \cup spoiled'
    BY <1>3, <1>6, <1>8
  <2> QED
    BY <1>4, <1>5, <1>8, <2>1, <2>2 DEF EditInv, PatchAccounted, Edits!EditsAreHonest, Edits!Idle,
                                    Edits!Range
<1> QED
  BY <1>4, <1>7, <1>8

LEMMA PatchEnds ==
    ASSUME EditInv, Edits!EndPatch
    PROVE  CallOver
<1>1. /\ op' = Edits!Idle /\ file' = file /\ before' = before /\ spoiled' = spoiled
      /\ file \in [ Paths -> FileRow ] /\ before \in [ Paths -> FileRow ]
      /\ spoiled \subseteq Paths
  BY DEF Edits!EndPatch, EditInv, EditTypeOK
<1>2. CASE op.kind = "replace"
  <2>1. editsOutcome' = "ok" /\ editsReported' = Edits!Range(op.replaced)
    BY <1>2 DEF Edits!EndPatch
  <2>2. op.replaced \in Seq(Paths)
    BY <1>2, PatchUnderWay DEF PatchRow
  <2>3. Edits!Range(op.replaced) \subseteq Paths
    BY <2>2 DEF Edits!Range
  <2>4. \A p \in Paths : file[p] # before[p] => p \in Edits!Range(op.replaced)
    BY <1>2 DEF EditInv, PatchAccounted
  <2> QED
    BY <1>1, <2>1, <2>3, <2>4 DEF CallOver
<1>3. CASE op.kind # "replace"
  <2>1. /\ op.kind = "restore" /\ op.replaced = << >>
        /\ editsOutcome' = "failed" /\ editsReported' = editsReported
    BY <1>3 DEF Edits!EndPatch
  <2>2. Edits!Range(op.replaced) = { }
    BY <2>1 DEF Edits!Range
  <2>3. \A p \in Paths \ spoiled : file[p].text = before[p].text
    BY <2>1, <2>2 DEF EditInv, PatchAccounted
  <2>4. editsReported \subseteq Paths
    BY DEF EditInv, EditTypeOK
  <2> QED
    BY <1>1, <2>1, <2>3, <2>4 DEF CallOver
<1> QED
  BY <1>2, <1>3

LEMMA EditInvStep ==
    ASSUME EditLimits
    PROVE  EditInv /\ [Edits!Next]_(Edits!editVars) => EditInv'
<1> SUFFICES ASSUME EditInv, [Edits!Next]_(Edits!editVars) PROVE EditInv'
  OBVIOUS
<1>1. ASSUME NEW p \in Paths, NEW text \in Edits!FileTexts, Edits!WriteFile(p, text) PROVE EditInv'
  BY <1>1, EditInPlace, CallOverKeeps DEF Edits!WriteFile
<1>2. ASSUME NEW p \in Paths, NEW old \in Words, NEW new \in Words, NEW mode \in Edits!EditModes,
             NEW seen \in { Edits!NoHash, file[p], before[p] },
             Edits!EditFile(p, old, new, mode, seen)
      PROVE  EditInv'
  BY <1>2, EditOneFile, CallOverKeeps
<1>3. ASSUME NEW edits \in Edits!Patches, Edits!BeginPatch(edits) PROVE EditInv'
  BY <1>3, PatchBegins
<1>4. CASE Edits!WriteTemps
  BY <1>4, PatchTemps
<1>5. ASSUME NEW p \in Paths, Edits!ReplaceNext(p) PROVE EditInv'
  BY <1>5, PatchReplaces
<1>6. CASE Edits!ReplaceFails
  BY <1>6, PatchFails
<1>7. CASE Edits!RestoreLast
  BY <1>7, PatchRestores
<1>8. CASE Edits!EndPatch
  BY <1>8, PatchEnds, CallOverKeeps
<1>9. CASE UNCHANGED Edits!editVars
  BY <1>9 DEF Edits!editVars, EditInv, EditTypeOK, PatchAccounted, Edits!EditsAreHonest,
              Edits!Changed
<1> QED
  BY <1>1, <1>2, <1>3, <1>4, <1>5, <1>6, <1>7, <1>8, <1>9 DEF Edits!Next

LEMMA EditInvHonest == EditInv => Edits!TypeOK /\ Edits!EditsAreHonest
<1> SUFFICES ASSUME EditInv PROVE Edits!TypeOK /\ Edits!EditsAreHonest
  OBVIOUS
<1>1. \A p \in Paths : file[p].text \in Edits!FileTexts /\ file[p].crlf \in BOOLEAN
  BY DEF EditInv, EditTypeOK, FileRow
<1>2. op.kind \in { "none", "temps", "replace", "restore" } /\ op.temps \subseteq Paths
  BY DEF EditInv, EditTypeOK, PatchRow, Edits!Idle
<1> QED
  BY <1>1, <1>2 DEF EditInv, EditTypeOK, Edits!TypeOK

-------------------------------------------------------------------------------
(* Command tools *)

(* What the proof about the command tools assumes of the bounds.             *)
ShellLimits == MaxSegments \in Nat

(* A call is permitted when the sandbox admits it and nothing denies it.     *)
Permitted == Shell!Admitted(shellCall) /\ Shell!Decide(shellCall) # "deny"

(* The commands that stand first or where the text is split.                 *)
ShellHeads == Shell!Heads(shellCall.chain, shellCall.connectors)

(* What a passed verification says of the command that was run.              *)
Verified ==
    shellCall.tool = "bash" =>
        /\ { shellCall.chain[i].class : i \in ShellHeads }
              \subseteq { "verification", "read_only" } \cup Shell!Settings
        /\ \E i \in ShellHeads : shellCall.chain[i].class = "verification"
        /\ Shell!Range(shellCall.connectors) \subseteq { "and" } =>
              \A s \in Shell!Range(shellCall.chain) : s.ok

UnknownWrite == [ kind |-> "filesystem_write", status |-> "unknown" ]

(* No process without a permission, none before it is asked for or after a   *)
(* refusal, and none that the handler that waits or stops has not seen.      *)
ShellInv ==
    /\ Shell!TypeOK
    /\ shellCall \in Shell!Calls
    /\ (shellPc \in { "asking", "spawning", "waiting", "stopping" } \/ proc # "none"
          \/ shellOutcome = "abandoned") => Permitted
    /\ (shellPc \in { "new", "asking" } \/ shellOutcome = "rejected") => proc = "none"
    /\ shellOutcome = "rejected" => shellPc = "done"
    /\ shellPc \in { "waiting", "stopping" } => proc # "none"
    /\ shellPc = "done" /\ shellOutcome # "abandoned" => proc # "running"
    /\ report = "passed" => proc = "exited" /\ Verified
    /\ UnknownWrite \in effects => proc = "exited"

(* The statuses after every segment of a chain: what the recursive           *)
(* definition says of them.                                                  *)
StatusTo(ok, m) ==
    ok = [ n \in 1..m |->
             IF n = 1 THEN shellCall.chain[1].ok
             ELSE Shell!ExitsAfter(ok[n - 1], shellCall.connectors[n - 1], shellCall.chain[n]) ]

LEMMA StatusMore ==
    ASSUME NEW k \in Nat, k # 0, NEW s, StatusTo(s, k - 1)
    PROVE  \E ok : StatusTo(ok, k)
<1> DEFINE First == shellCall.chain[1].ok
           More(before_, n) ==
               Shell!ExitsAfter(before_, shellCall.connectors[n - 1], shellCall.chain[n])
           ok == [ n \in 1..k |-> IF n < k THEN s[n] ELSE IF k = 1 THEN First ELSE More(s[k - 1], k) ]
<1>1. k - 1 \in Nat
  OBVIOUS
<1>2. \A n \in 1..(k - 1) : s[n] = IF n = 1 THEN First ELSE More(s[n - 1], n)
  BY DEF StatusTo
<1> HIDE DEF First, More
<1>3. ok[k] = IF k = 1 THEN First ELSE More(s[k - 1], k)
  OBVIOUS
<1>4. \A n \in 1..(k - 1) : ok[n] = s[n]
  BY <1>1
<1>5. ok = [ n \in 1..k |-> ok[n] ]
  OBVIOUS
<1> HIDE DEF ok
<1>6. ASSUME NEW n \in 1..k
      PROVE  ok[n] = IF n = 1 THEN First ELSE More(ok[n - 1], n)
  <2>1. CASE n = k
    <3>1. k # 1 => ok[k - 1] = s[k - 1]
      BY <1>1, <1>4
    <3> QED
      BY <1>3, <2>1, <3>1
  <2>2. CASE n # k
    <3>1. n \in 1..(k - 1) /\ (n # 1 => n - 1 \in 1..(k - 1))
      BY <2>2
    <3>2. ok[n] = s[n] /\ (n # 1 => ok[n - 1] = s[n - 1])
      BY <1>4, <3>1
    <3> QED
      BY <1>2, <3>1, <3>2
  <2> QED
    BY <2>1, <2>2
<1>7. StatusTo(ok, k)
  <2>1. ok = [ n \in 1..k |-> IF n = 1 THEN First ELSE More(ok[n - 1], n) ]
    BY <1>5, <1>6
  <2> QED
    BY <2>1 DEF StatusTo, First, More
<1> QED
  BY <1>7

LEMMA StatusExists ==
    ASSUME NEW m \in Nat
    PROVE  \E ok : StatusTo(ok, m)
<1> DEFINE T == { k \in Nat : ~ \E ok : StatusTo(ok, k) }
<1> SUFFICES ASSUME T # { } PROVE FALSE
  OBVIOUS
<1>1. T \in SUBSET Nat
  OBVIOUS
<1> HIDE DEF T
<1>2. PICK k \in T : \A j \in T : k <= j
  BY <1>1, LeastOf
<1> USE DEF T
<1>3. CASE k = 0
  <2>1. StatusTo([ n \in 1..0 |-> TRUE ], 0)
    BY DEF StatusTo
  <2> QED
    BY <1>2, <1>3, <2>1
<1>4. CASE k # 0
  <2>1. k - 1 \in Nat /\ k - 1 \notin T
    BY <1>2, <1>4
  <2>2. PICK s : StatusTo(s, k - 1)
    BY <2>1
  <2> QED
    BY <1>2, <1>4, <2>2, StatusMore
<1> QED
  BY <1>3, <1>4

IsChain(n) ==
    /\ n \in Nat \ { 0 }
    /\ shellCall.chain \in [ 1..n -> Shell!Segments ]
    /\ shellCall.connectors \in [ 1..(n - 1) -> Shell!Connectors ]

LEMMA BashChains ==
    ASSUME ShellLimits, shellCall \in Shell!Calls, shellCall.tool = "bash"
    PROVE  \E n : IsChain(n)
<1>1. shellCall \in Shell!BashCalls
  BY DEF Shell!Calls, Shell!CommandCalls
<1>2. /\ shellCall.chain \in UNION { [ 1..n -> Shell!Segments ] : n \in 1..MaxSegments }
      /\ shellCall.connectors \in
            UNION { [ 1..n -> Shell!Connectors ] : n \in 0..(MaxSegments - 1) }
      /\ Len(shellCall.connectors) = Len(shellCall.chain) - 1
  BY <1>1 DEF Shell!BashCalls
<1>3. PICK n \in 1..MaxSegments : shellCall.chain \in [ 1..n -> Shell!Segments ]
  BY <1>2
<1>4. PICK m \in 0..(MaxSegments - 1) : shellCall.connectors \in [ 1..m -> Shell!Connectors ]
  BY <1>2
<1>5. n \in Nat \ { 0 } /\ m \in Nat /\ Len(shellCall.chain) = n /\ Len(shellCall.connectors) = m
  BY <1>3, <1>4 DEF ShellLimits
<1>6. m = n - 1
  BY <1>2, <1>5
<1> QED
  BY <1>3, <1>4, <1>5, <1>6 DEF IsChain

(* A chain of "and" exits with zero only if every segment does.              *)
LEMMA AndChain ==
    ASSUME NEW n, IsChain(n), Shell!ExitsZero,
           Shell!Range(shellCall.connectors) \subseteq { "and" }
    PROVE  \A s \in Shell!Range(shellCall.chain) : s.ok
<1>1. n \in Nat /\ n # 0 /\ DOMAIN shellCall.chain = 1..n /\ Len(shellCall.chain) = n
  BY DEF IsChain
<1> DEFINE ok == CHOOSE ok : StatusTo(ok, n)
<1>2. StatusTo(ok, n)
  BY <1>1, StatusExists
<1>3. Shell!ExitsZero = ok[n]
  BY <1>1 DEF Shell!ExitsZero, StatusTo
<1> HIDE DEF ok
<1>4. ok[1] = shellCall.chain[1].ok
  BY <1>1, <1>2 DEF StatusTo
<1>5. ASSUME NEW m \in 2..n PROVE ok[m] = (ok[m - 1] /\ shellCall.chain[m].ok)
  <2>0. m \in 1..n /\ m # 1
    BY <1>1
  <2>1. ok[m] = Shell!ExitsAfter(ok[m - 1], shellCall.connectors[m - 1], shellCall.chain[m])
    <3>1. \A x \in 1..n : x # 1 => ok[x] = Shell!ExitsAfter(ok[x - 1],
                                           shellCall.connectors[x - 1], shellCall.chain[x])
      BY <1>2 DEF StatusTo
    <3> QED
      BY <2>0, <3>1
  <2>2. m - 1 \in 1..(n - 1) /\ DOMAIN shellCall.connectors = 1..(n - 1)
    BY <1>1 DEF IsChain
  <2>3. shellCall.connectors[m - 1] = "and"
    BY <2>2 DEF Shell!Range
  <2> QED
    BY <2>1, <2>3 DEF Shell!ExitsAfter
<1> DEFINE T == { m \in 1..n : ok[m] /\ ~ \A i \in 1..m : shellCall.chain[i].ok }
<1>6. T \in SUBSET Nat
  BY <1>1
<1>7. ASSUME T # { } PROVE FALSE
  <2> HIDE DEF T
  <2>1. PICK m \in T : \A j \in T : m <= j
    BY <1>6, <1>7, LeastOf
  <2> USE DEF T
  <2>2. m \in 1..n /\ ok[m] /\ ~ \A i \in 1..m : shellCall.chain[i].ok
    BY <2>1
  <2>3. CASE m = 1
    BY <1>4, <2>2, <2>3
  <2>4. CASE m # 1
    <3>1. m \in 2..n /\ m - 1 \in 1..n
      BY <1>1, <2>2, <2>4
    <3>2. ok[m - 1] /\ shellCall.chain[m].ok
      BY <1>5, <2>2, <3>1
    <3>3. m - 1 \notin T
      BY <1>1, <2>1, <3>1
    <3>4. \A i \in 1..(m - 1) : shellCall.chain[i].ok
      BY <3>1, <3>2, <3>3
    <3> QED
      BY <1>1, <2>2, <3>1, <3>2, <3>4
  <2> QED
    BY <2>3, <2>4
<1>8. n \in 1..n /\ ok[n]
  <2>1. n \in 1..n
    BY <1>1
  <2>2. ok[n]
    BY <1>3
  <2> QED
    BY <2>1, <2>2
<1>9. \A i \in 1..n : shellCall.chain[i].ok
  BY <1>7, <1>8
<1> QED
  BY <1>1, <1>9 DEF Shell!Range

(* The class of a part is that of its head, or "unknown".                    *)
LEMMA PartHasHeadClass ==
    ASSUME NEW i, Shell!PartClass(shellCall.chain, shellCall.connectors, i) # "unknown"
    PROVE  Shell!PartClass(shellCall.chain, shellCall.connectors, i) = shellCall.chain[i].class
  BY DEF Shell!PartClass

(* A verification that exits with zero has passed: what stands where the     *)
(* text is split was nothing but checks, inspections and settings.           *)
LEMMA ChainVerified ==
    ASSUME ShellLimits, shellCall \in Shell!Calls, Shell!Assess(shellCall).verification,
           Shell!ExitsZero
    PROVE  Verified
<1> SUFFICES ASSUME shellCall.tool = "bash" PROVE Verified
  BY DEF Verified
<1> DEFINE Part(i) == Shell!PartClass(shellCall.chain, shellCall.connectors, i)
           classes == { Part(i) : i \in ShellHeads }
<1>1. PICK n : IsChain(n)
  BY BashChains
<1>2. Shell!ShellClass(shellCall.chain, shellCall.connectors) = "verification"
  BY DEF Shell!Assess
<1>3. classes \subseteq { "verification", "read_only" } \cup Shell!Settings
        /\ "verification" \in classes
  <2>1. CASE ShellHeads = { 1 }
    <3>1. Part(1) = "verification"
      BY <1>2, <2>1 DEF Shell!ShellClass, ShellHeads
    <3> QED
      BY <2>1, <3>1
  <2>2. CASE ShellHeads # { 1 }
    <3>1. classes \subseteq Shell!Harmless /\ "mutation" \notin classes /\ "verification" \in classes
      BY <1>2, <2>2 DEF Shell!ShellClass, ShellHeads
    <3> QED
      BY <3>1 DEF Shell!Harmless, Shell!Safe
  <2> QED
    BY <2>1, <2>2
<1>4. \A i \in ShellHeads : Part(i) = shellCall.chain[i].class
  <2>1. \A i \in ShellHeads : Part(i) # "unknown"
    BY <1>3 DEF Shell!Settings
  <2> HIDE DEF Part
  <2> QED
    BY <2>1, PartHasHeadClass DEF Part
<1>5. Shell!Range(shellCall.connectors) \subseteq { "and" } =>
          \A s \in Shell!Range(shellCall.chain) : s.ok
  BY <1>1, AndChain
<1> HIDE DEF Part
<1>6. { shellCall.chain[i].class : i \in ShellHeads } = classes
  BY <1>4
<1>7. \E i \in ShellHeads : shellCall.chain[i].class = "verification"
  BY <1>3, <1>4
<1> QED
  BY <1>3, <1>5, <1>6, <1>7 DEF Verified

(* What a permitted call may not be.                                         *)
LEMMA PermittedIsHarmless ==
    ASSUME Permitted, shellCall \in Shell!Calls
    PROVE  /\ shellCall.touched # "sensitive"
           /\ shellCall.tool = "command" => shellCall.touched # "outside"
           /\ shellCall.tool = "bash" => \A s \in Shell!Range(shellCall.chain) : s.class # "high_risk"
           /\ shellCall.permissions # "read-only"
<1>1. shellCall.tool \in { "bash", "command" }
  <2>1. shellCall \in Shell!BashCalls => shellCall.tool = "bash"
    BY DEF Shell!BashCalls
  <2>2. shellCall \in Shell!CommandCalls => shellCall.tool = "command"
    BY DEF Shell!CommandCalls
  <2> QED
    BY <2>1, <2>2 DEF Shell!Calls
<1>2. CASE shellCall.tool = "bash"
  <2>1. shellCall.touched # "sensitive"
    BY <1>2 DEF Permitted, Shell!Admitted, Shell!AdmittedShell
  <2>2. Shell!Profile(Shell!ShellClass(shellCall.chain, shellCall.connectors)) # "destructive"
    BY <1>2 DEF Permitted, Shell!Admitted, Shell!Assess
  <2>3. Shell!ShellClass(shellCall.chain, shellCall.connectors) # "high_risk"
    BY <2>2 DEF Shell!Profile
  <2>4. "high_risk" \notin { s.class : s \in Shell!Range(shellCall.chain) }
    BY <2>3 DEF Shell!ShellClass
  <2> QED
    BY <1>2, <2>1, <2>4 DEF Permitted, Shell!Decide
<1>3. CASE shellCall.tool = "command"
  BY <1>3 DEF Permitted, Shell!Admitted, Shell!AdmittedArgv, Shell!PathAllowed, Shell!Decide
<1> QED
  BY <1>1, <1>2, <1>3

LEMMA ShellInvInit == Shell!Init => ShellInv
<1> SUFFICES ASSUME Shell!Init PROVE ShellInv
  OBVIOUS
<1>1. shellCall.tool \in { "bash", "command" }
  BY DEF Shell!Init, Shell!Calls, Shell!BashCalls, Shell!CommandCalls
<1> QED
  BY <1>1 DEF Shell!Init, ShellInv, Shell!TypeOK, Shell!NoReport, UnknownWrite

LEMMA ShellHandled == ShellInv /\ Shell!Handle => ShellInv'
<1> SUFFICES ASSUME ShellInv, Shell!Handle PROVE ShellInv'
  OBVIOUS
<1>1. /\ shellPc = "new" /\ proc = "none" /\ shellCall' = shellCall /\ proc' = proc
      /\ stubborn' = stubborn /\ effects' = effects /\ report' = report /\ cancels' = cancels
  BY DEF Shell!Handle, ShellInv
<1>2. \/ shellPc' = "done" /\ shellOutcome' = "rejected"
      \/ shellPc' \in { "asking", "spawning" } /\ Permitted /\ shellOutcome' = shellOutcome
  BY DEF Shell!Handle, Permitted
<1>3. Permitted' = Permitted /\ Verified' = Verified
  BY <1>1 DEF Permitted, Verified, ShellHeads
<1>4. Shell!TypeOK'
  BY <1>1, <1>2 DEF ShellInv, Shell!TypeOK
<1> QED
  BY <1>1, <1>2, <1>3, <1>4 DEF ShellInv

LEMMA ShellAnswered ==
    ASSUME ShellInv, NEW approved \in BOOLEAN, Shell!Answer(approved)
    PROVE  ShellInv'
<1>1. /\ shellPc = "asking" /\ proc = "none" /\ Permitted /\ shellCall' = shellCall /\ proc' = proc
      /\ stubborn' = stubborn /\ effects' = effects /\ report' = report /\ cancels' = cancels
  BY DEF Shell!Answer, ShellInv
<1>2. \/ shellPc' = "spawning" /\ shellOutcome' = shellOutcome
      \/ shellPc' = "done" /\ shellOutcome' = "rejected"
  BY DEF Shell!Answer
<1>3. Permitted' = Permitted /\ Verified' = Verified
  BY <1>1 DEF Permitted, Verified, ShellHeads
<1>4. Shell!TypeOK'
  BY <1>1, <1>2 DEF ShellInv, Shell!TypeOK
<1> QED
  BY <1>1, <1>2, <1>3, <1>4 DEF ShellInv

(* The steps of the process: started, over or stopped.                       *)
LEMMA ShellProcess ==
    ASSUME ShellInv,
           Shell!ThreadStarts \/ Shell!ProcessEnds \/ Shell!Terminate \/ Shell!Kill
    PROVE  ShellInv'
<1>1. /\ shellCall' = shellCall /\ shellPc' = shellPc /\ shellOutcome' = shellOutcome
      /\ effects' = effects /\ report' = report
  BY DEF Shell!ThreadStarts, Shell!ProcessEnds, Shell!Terminate, Shell!Kill
<1>2. \/ /\ proc = "none" /\ proc' = "running"
         /\ shellPc = "spawning" \/ (shellPc = "done" /\ shellOutcome = "abandoned")
      \/ proc = "running" /\ proc' \in { "exited", "killed" }
  BY DEF Shell!ThreadStarts, Shell!ProcessEnds, Shell!Terminate, Shell!Kill
<1>3. Permitted' = Permitted /\ Verified' = Verified
  BY <1>1 DEF Permitted, Verified, ShellHeads
<1>4. Shell!TypeOK'
  BY <1>1, <1>2 DEF ShellInv, Shell!TypeOK
<1> QED
  BY <1>1, <1>2, <1>3, <1>4 DEF ShellInv

LEMMA ShellRegistered == ShellInv /\ Shell!Register => ShellInv'
<1> SUFFICES ASSUME ShellInv, Shell!Register PROVE ShellInv'
  OBVIOUS
<1>1. /\ shellPc = "spawning" /\ proc # "none" /\ Permitted /\ shellPc' = "waiting"
      /\ shellCall' = shellCall /\ proc' = proc /\ report' = report /\ shellOutcome' = shellOutcome
      /\ effects' = effects \cup { [ kind |-> "process_spawn", status |-> "started" ] }
  BY DEF Shell!Register, ShellInv
<1>2. UnknownWrite \in effects' => UnknownWrite \in effects
  BY <1>1 DEF UnknownWrite
<1>3. Permitted' = Permitted /\ Verified' = Verified
  BY <1>1 DEF Permitted, Verified, ShellHeads
<1>4. Shell!TypeOK'
  BY <1>1 DEF ShellInv, Shell!TypeOK
<1> QED
  BY <1>1, <1>2, <1>3, <1>4 DEF ShellInv, UnknownWrite

LEMMA ShellCollected == ASSUME ShellLimits PROVE ShellInv /\ Shell!Collect => ShellInv'
<1> SUFFICES ASSUME ShellInv, Shell!Collect PROVE ShellInv'
  OBVIOUS
<1>1. /\ shellPc = "waiting" /\ proc = "exited" /\ Permitted /\ shellPc' = "done"
      /\ shellCall' = shellCall /\ proc' = proc
      /\ shellOutcome' \in { "ok", "exit_nonzero" }
  BY DEF Shell!Collect, ShellInv
<1>2. /\ report' \in { Shell!NoReport, "passed", "failed" }
      /\ report' = "passed" => Shell!Assess(shellCall).verification /\ Shell!ExitsZero
  BY DEF Shell!Collect, Shell!NoReport
<1>3. report' = "passed" => Verified
  BY <1>2, ChainVerified DEF ShellInv
<1>4. Permitted' = Permitted /\ Verified' = Verified
  BY <1>1 DEF Permitted, Verified, ShellHeads
<1>5. Shell!TypeOK'
  BY <1>1, <1>2 DEF ShellInv, Shell!TypeOK
<1> QED
  BY <1>1, <1>3, <1>4, <1>5 DEF ShellInv

(* The end of the handler: the deadline, the stop, a cancellation.           *)
LEMMA ShellEnded ==
    ASSUME ShellInv, Shell!Deadline \/ Shell!Stopped \/ Shell!Cancel
    PROVE  ShellInv'
<1>1. /\ shellCall' = shellCall /\ proc' = proc /\ effects' = effects /\ report' = report
      /\ shellPc \in { "spawning", "waiting", "stopping" }
      /\ shellPc' \in { "stopping", "done" }
  BY DEF Shell!Deadline, Shell!Stopped, Shell!Cancel
<1>2. /\ Permitted
      /\ shellPc' = "stopping" => proc # "none"
      /\ shellPc' = "done" /\ shellOutcome' # "abandoned" => proc # "running"
      /\ shellOutcome' \in { "timeout", "cancelled", "abandoned", shellOutcome }
  BY DEF Shell!Deadline, Shell!Stopped, Shell!Cancel, ShellInv
<1>3. Permitted' = Permitted /\ Verified' = Verified
  BY <1>1 DEF Permitted, Verified, ShellHeads
<1>4. shellOutcome # "rejected" /\ shellOutcome' # "rejected"
  BY <1>1, <1>2 DEF ShellInv
<1>5. Shell!TypeOK'
  BY <1>1, <1>2 DEF ShellInv, Shell!TypeOK
<1> QED
  BY <1>1, <1>2, <1>3, <1>4, <1>5 DEF ShellInv

LEMMA ShellInvStep ==
    ASSUME ShellLimits
    PROVE  ShellInv /\ [Shell!Next]_(Shell!shellVars) => ShellInv'
<1> SUFFICES ASSUME ShellInv, [Shell!Next]_(Shell!shellVars) PROVE ShellInv'
  OBVIOUS
<1>1. CASE Shell!Handle
  BY <1>1, ShellHandled
<1>2. ASSUME NEW approved \in BOOLEAN, Shell!Answer(approved) PROVE ShellInv'
  BY <1>2, ShellAnswered
<1>3. CASE Shell!ThreadStarts \/ Shell!ProcessEnds \/ Shell!Terminate \/ Shell!Kill
  BY <1>3, ShellProcess
<1>4. CASE Shell!Register
  BY <1>4, ShellRegistered
<1>5. CASE Shell!Collect
  BY <1>5, ShellCollected
<1>6. CASE Shell!Deadline \/ Shell!Stopped \/ Shell!Cancel
  BY <1>6, ShellEnded
<1>7. CASE UNCHANGED Shell!shellVars
  <2>1. Permitted' = Permitted /\ Verified' = Verified /\ Shell!TypeOK' = Shell!TypeOK
    BY <1>7 DEF Shell!shellVars, Permitted, Verified, ShellHeads, Shell!TypeOK
  <2> QED
    BY <1>7, <2>1 DEF Shell!shellVars, ShellInv
<1> QED
  BY <1>1, <1>2, <1>3, <1>4, <1>5, <1>6, <1>7 DEF Shell!Next

LEMMA ShellInvHonest == ShellInv => Shell!TypeOK /\ Shell!CommandsAreHonest
<1> SUFFICES ASSUME ShellInv PROVE Shell!TypeOK /\ Shell!CommandsAreHonest
  OBVIOUS
<1>1. report = "passed" => proc = "exited" /\ Verified
  BY DEF ShellInv
<1>2. proc # "none" =>
         /\ shellCall.touched # "sensitive"
         /\ shellCall.tool = "command" => shellCall.touched # "outside"
         /\ shellCall.tool = "bash" =>
              \A s \in Shell!Range(shellCall.chain) : s.class # "high_risk"
         /\ shellCall.permissions # "read-only"
  BY PermittedIsHarmless DEF ShellInv
<1>3. shellPc = "done" /\ shellOutcome # "abandoned" => proc # "running"
  BY DEF ShellInv
<1>4. [ kind |-> "filesystem_write", status |-> "unknown" ] \in effects => proc = "exited"
  BY DEF ShellInv, UnknownWrite
<1>5. Shell!TypeOK
  BY DEF ShellInv
<1> QED
  BY <1>1, <1>2, <1>3, <1>4, <1>5 DEF Shell!CommandsAreHonest, Verified, ShellHeads

-------------------------------------------------------------------------------
(* The tools together *)

(* A file tool reports every file it changed, or failed and left every text  *)
(* as it was but for what an error spoiled; a command that ran was           *)
(* permitted, its passed verification had checks, inspections and settings   *)
(* wherever the classifier splits its text, and no process outlives a call   *)
(* that was not given up in the middle; whatever fails and whenever it is    *)
(* cancelled (_FileHandler, _replace_files_atomically, _first_command,       *)
(* _collect_process_result).                                                 *)
THEOREM ToolsStayHonest ==
    ASSUME EditLimits, ShellLimits
    PROVE  Edits!Spec /\ Shell!Spec => []ToolsAreHonest
<1>1. Edits!Init => EditInv
  BY EditInvInit
<1>2. EditInv /\ [Edits!Next]_(Edits!editVars) => EditInv'
  BY EditInvStep
<1>3. Shell!Init => ShellInv
  BY ShellInvInit
<1>4. ShellInv /\ [Shell!Next]_(Shell!shellVars) => ShellInv'
  BY ShellInvStep
<1>5. EditInv /\ ShellInv => ToolsAreHonest
  BY EditInvHonest, ShellInvHonest DEF ToolsAreHonest
<1> QED
  BY <1>1, <1>2, <1>3, <1>4, <1>5, PTL DEF Edits!Spec, Shell!Spec

-------------------------------------------------------------------------------
(* Memories *)

MemoryTexts == (Texts \cup { p.text : p \in Proposed }) \ { "secret" }
MemoryTypes == { "project" } \cup { p.type : p \in Proposed }
MemoryLimits ==
    /\ MaxRecords \in Nat /\ MaxLosses \in Nat /\ Limit \in Nat
    /\ \A p \in Proposed : p.scope \in Memories!Scopes /\ p.key \in Texts

MemoryStatuses == { "candidate", "active", "disabled", "superseded", "deleted" }
MemoryRow ==
    [ scope : Memories!Scopes, type : MemoryTypes, key : Texts, text : MemoryTexts,
      source : { "user", "run" },
      status : MemoryStatuses ]

InForce == { "active", "disabled" }

\* The memories of a key with one of the statuses.
Has(kept, r, statuses) ==
    { id \in DOMAIN kept : /\ kept[id].scope = r.scope /\ kept[id].key = r.key
                           /\ kept[id].status \in statuses }

\* A row that a command has still to write comes into force only when nothing else of its
\* key is, takes the place of the candidate that was approved or has an id of its own, and
\* is what the user said.
StillToWrite(row) ==
    /\ row = [ id |-> row.id, record |-> row.record ]
    /\ row.record \in MemoryRow /\ row.id \in 1..(next - 1)
    /\ row.id \in DOMAIN records => row.id \in Has(records, row.record, { "candidate" })
    /\ \/ /\ row.record.status = "active" /\ row.record.source = "user"
          /\ row.record.text = word[row.record.scope][row.record.key]
          /\ Has(records, row.record, InForce) = { }
       \/ /\ row.record.status = "candidate"
          /\ Has(records, row.record, { "candidate" }) = { }

MemoryTypeOK ==
    /\ next \in 1..(MaxRecords + 1) /\ memoryCuts \in 0..MaxLosses
    /\ DOMAIN records \subseteq 1..(next - 1)
    /\ \A id \in DOMAIN records :
         records[id] \in MemoryRow /\ (records[id].status \in InForce => records[id].source = "user")
    /\ word \in [ Memories!Scopes -> [ Texts -> MemoryTexts \cup { "none" } ] ]

\* Of a key at most one memory is in force or disabled, and one waits.
OneOfAKey ==
    \A a, b \in DOMAIN records :
        /\ records[a].scope = records[b].scope /\ records[a].key = records[b].key
        /\ \/ records[a].status \in InForce /\ records[b].status \in InForce
           \/ records[a].status = "candidate" /\ records[b].status = "candidate"
        => a = b

\* What is in force is the user's word, and the user's word is in force, unless the command
\* was cut short; or it is about to be.
WordInForce ==
    /\ \A id \in DOMAIN records : records[id].status = "active" =>
         records[id].text = word[records[id].scope][records[id].key]
    /\ \A s \in Memories!Scopes, k \in Texts : word[s][k] # "none" /\ << s, k >> \notin cut =>
         \/ Has(records, [ scope |-> s, key |-> k ], { "active" }) # { }
         \/ /\ memoryTodo # << >> /\ memoryTodo[1].record.status = "active"
            /\ memoryTodo[1].record.scope = s /\ memoryTodo[1].record.key = k

MemoryInv ==
    /\ MemoryTypeOK /\ OneOfAKey /\ WordInForce
    /\ memoryTodo = << >> \/ (Len(memoryTodo) = 1 /\ memoryTodo = << memoryTodo[1] >> /\ StillToWrite(memoryTodo[1]))

OfKey(id, r) == records[id].scope = r.scope /\ records[id].key = r.key

\* What a command that saves a row r of a key does: the user's word of the key is t, the
\* other memories of the key make room for r, and the word is in force, or about to be.
SaysWith(r, t) ==
    /\ word' \in [ Memories!Scopes -> [ Texts -> MemoryTexts \cup { "none" } ] ]
    /\ \A s \in Memories!Scopes, k \in Texts :
         word'[s][k] = IF s = r.scope /\ k = r.key THEN t ELSE word[s][k]
    /\ cut' = cut \/ cut' = cut \ { << r.scope, r.key >> }

RoomFor(id, r, t) ==
    /\ \A a \in DOMAIN records \ { id } : OfKey(a, r) =>
         /\ ~(r.status \in InForce /\ records[a].status \in InForce)
         /\ ~(r.status = "candidate" /\ records[a].status = "candidate")
         /\ records[a].status = "active" => t = word[r.scope][r.key]
    /\ id \in DOMAIN records => OfKey(id, r)

SaveAlone(id, r, t) ==
    /\ Memories!Save([ id |-> id, record |-> r ])
    /\ next' \in 1..(MaxRecords + 1) /\ next' >= next /\ id \in 1..(next' - 1)
    /\ memoryCuts' \in 0..MaxLosses
    /\ RoomFor(id, r, t)

WordKept(id, r, t) ==
    /\ r.status \in InForce => r.source = "user"
    /\ r.status = "active" => r.text = t
    /\ memoryTodo = << >> \/ (memoryTodo[1].record.scope = r.scope /\ memoryTodo[1].record.key = r.key)
    /\ t # "none" /\ << r.scope, r.key >> \notin cut' =>
         \/ r.status = "active"
         \/ \E a \in DOMAIN records \ { id } : OfKey(a, r) /\ records[a].status = "active"
         \/ /\ memoryTodo' # << >> /\ memoryTodo'[1].record.status = "active"
            /\ memoryTodo'[1].record.scope = r.scope /\ memoryTodo'[1].record.key = r.key

LEMMA MemoryChanged ==
    ASSUME NEW r \in MemoryRow, NEW st \in MemoryStatuses
    PROVE  LET q == [ r EXCEPT !.status = st ]
           IN  /\ q \in MemoryRow /\ q.status = st /\ q.scope = r.scope /\ q.key = r.key
               /\ q.text = r.text /\ q.source = r.source
BY DEF MemoryRow

\* The user says something of a key.
LEMMA MemorySays ==
    ASSUME MemoryTypeOK, NEW r \in MemoryRow, NEW t \in MemoryTexts \cup { "none" }, Memories!Says(r, t)
    PROVE  SaysWith(r, t)
<1> DEFINE new == [ word[r.scope] EXCEPT ![r.key] = t ]
<1>1. r.scope \in Memories!Scopes /\ r.key \in Texts
  BY DEF MemoryRow
<1>2. new \in [ Texts -> MemoryTexts \cup { "none" } ] /\ new[r.key] = t /\ \A k \in Texts : k # r.key => new[k] = word[r.scope][k]
  BY <1>1 DEF MemoryTypeOK
<1>3. word' = [ word EXCEPT ![r.scope] = new ] /\ cut' = cut \ { << r.scope, r.key >> }
  BY DEF Memories!Says
<1> HIDE DEF new
<1> QED
  BY <1>1, <1>2, <1>3 DEF MemoryTypeOK, SaysWith

\* The word is as it was.
LEMMA MemoryQuiet ==
    ASSUME MemoryTypeOK, NEW r \in MemoryRow, UNCHANGED << word, cut >>
    PROVE  /\ SaysWith(r, word[r.scope][r.key])
           /\ word[r.scope][r.key] \in MemoryTexts \cup { "none" }
BY DEF MemoryTypeOK, MemoryRow, SaysWith

LEMMA MemorySaves ==
    ASSUME MemoryTypeOK, OneOfAKey, WordInForce, MemoryLimits,
           NEW id, NEW r \in MemoryRow, NEW t \in MemoryTexts \cup { "none" },
           SaysWith(r, t), SaveAlone(id, r, t), WordKept(id, r, t)
    PROVE  /\ MemoryTypeOK' /\ OneOfAKey' /\ WordInForce'
           /\ DOMAIN records' = DOMAIN records \cup { id } /\ records'[id] = r
           /\ \A a \in DOMAIN records \ { id } : records'[a] = records[a]
<1>1. /\ DOMAIN records' = DOMAIN records \cup { id } /\ records'[id] = r
      /\ \A a \in DOMAIN records \ { id } : records'[a] = records[a]
  BY DEF Memories!Save, SaveAlone
<1>2. MemoryTypeOK'
  <2>1. next \in Nat /\ next' \in Nat /\ DOMAIN records \subseteq 1..(next - 1) /\ \A a \in DOMAIN records :
         records[a] \in MemoryRow /\ (records[a].status \in InForce => records[a].source = "user")
    BY DEF MemoryTypeOK, MemoryLimits, SaveAlone
  <2>2. DOMAIN records' \subseteq 1..(next' - 1)
    BY <1>1, <2>1 DEF SaveAlone
  <2>3. \A a \in DOMAIN records' :
         records'[a] \in MemoryRow /\ (records'[a].status \in InForce => records'[a].source = "user")
    BY <1>1, <2>1 DEF WordKept
  <2> QED
    BY <2>2, <2>3 DEF MemoryTypeOK, SaveAlone, SaysWith
<1>3. OneOfAKey'
  <2> SUFFICES ASSUME NEW a \in DOMAIN records', NEW b \in DOMAIN records',
                      records'[a].scope = records'[b].scope, records'[a].key = records'[b].key,
                      \/ records'[a].status \in InForce /\ records'[b].status \in InForce
                      \/ records'[a].status = "candidate" /\ records'[b].status = "candidate"
               PROVE  a = b
    BY Zenon DEF OneOfAKey, InForce
  <2>1. CASE a # id /\ b # id
    BY <2>1, <1>1 DEF OneOfAKey
  <2>2. CASE a # id /\ b = id
    BY <2>2, <1>1 DEF OfKey, SaveAlone, RoomFor
  <2>3. CASE a = id /\ b # id
    BY <2>3, <1>1 DEF OfKey, SaveAlone, RoomFor
  <2> QED
    BY <2>1, <2>2, <2>3
<1>4. ASSUME NEW a \in DOMAIN records', records'[a].status = "active"
      PROVE  records'[a].text = word'[records'[a].scope][records'[a].key]
  <2>1. r.scope \in Memories!Scopes /\ r.key \in Texts
    BY DEF MemoryRow
  <2>2. CASE a = id
    BY <2>1, <2>2, <1>1, <1>4 DEF SaysWith, WordKept
  <2>3. CASE a # id
    <3>1. a \in DOMAIN records \ { id } /\ records'[a] = records[a] /\ records[a] \in MemoryRow
      BY <2>3, <1>1 DEF MemoryTypeOK
    <3>2. records[a].scope \in Memories!Scopes /\ records[a].key \in Texts
      BY <3>1 DEF MemoryRow
    <3>3. records[a].text = word[records[a].scope][records[a].key]
      BY <3>1, <1>4 DEF WordInForce
    <3>4. CASE OfKey(a, r)
      BY <3>1, <3>2, <3>3, <3>4, <1>4 DEF OfKey, SaveAlone, RoomFor, SaysWith
    <3>5. CASE ~OfKey(a, r)
      BY <3>1, <3>2, <3>3, <3>5 DEF OfKey, SaysWith
    <3> QED
      BY <3>4, <3>5
  <2> QED
    BY <2>2, <2>3
<1>5. ASSUME NEW s \in Memories!Scopes, NEW k \in Texts, word'[s][k] # "none", << s, k >> \notin cut'
      PROVE  \/ Has(records', [ scope |-> s, key |-> k ], { "active" }) # { }
             \/ /\ memoryTodo' # << >> /\ memoryTodo'[1].record.status = "active"
                /\ memoryTodo'[1].record.scope = s /\ memoryTodo'[1].record.key = k
  <2>1. CASE s = r.scope /\ k = r.key
    <3>1. t # "none" /\ << r.scope, r.key >> \notin cut'
      BY <2>1, <1>5 DEF SaysWith
    <3>2. CASE r.status = "active"
      <4>1. id \in Has(records', [ scope |-> s, key |-> k ], { "active" })
        BY <3>2, <2>1, <1>1 DEF Has
      <4> QED
        BY <4>1
    <3>3. CASE \E a \in DOMAIN records \ { id } : OfKey(a, r) /\ records[a].status = "active"
      <4>1. PICK a \in DOMAIN records \ { id } : OfKey(a, r) /\ records[a].status = "active"
        BY <3>3
      <4>2. a \in Has(records', [ scope |-> s, key |-> k ], { "active" })
        BY <4>1, <2>1, <1>1 DEF Has, OfKey
      <4> QED
        BY <4>2
    <3> QED
      BY <3>1, <3>2, <3>3, <2>1 DEF WordKept
  <2>2. CASE ~(s = r.scope /\ k = r.key)
    <3>1. word[s][k] # "none"
      BY <1>5, <2>2 DEF SaysWith
    <3>2. << s, k >> \notin cut
      BY <1>5, <2>2 DEF SaysWith
    <3>3. Has(records, [ scope |-> s, key |-> k ], { "active" }) # { }
      BY <3>1, <3>2, <2>2 DEF WordInForce, WordKept
    <3>4. PICK a \in DOMAIN records : records[a].scope = s /\ records[a].key = k /\ records[a].status = "active"
      BY <3>3 DEF Has
    <3>5. a # id
      BY <3>4, <2>2 DEF OfKey, SaveAlone, RoomFor
    <3>6. a \in Has(records', [ scope |-> s, key |-> k ], { "active" })
      BY <3>4, <3>5, <1>1 DEF Has
    <3> QED
      BY <3>6
  <2> QED
    BY <2>1, <2>2
<1>6. WordInForce'
  BY <1>4, <1>5 DEF WordInForce
<1> QED
  BY <1>1, <1>2, <1>3, <1>6

LEMMA MemoryIdle ==
    ASSUME MemoryInv, MemoryLimits, Memories!Idle
    PROVE  /\ MemoryTypeOK /\ OneOfAKey /\ WordInForce /\ memoryTodo = << >>
           /\ next \in Nat /\ next \in 1..(MaxRecords + 1) /\ memoryCuts \in 0..MaxLosses
           /\ \A id \in DOMAIN records : id \in 1..(next - 1) /\ id # next /\ records[id] \in MemoryRow
BY DEF MemoryInv, MemoryTypeOK, Memories!Idle, MemoryLimits

\* What is in force of a key, when the user's word is and no command runs.
LEMMA MemoryThere ==
    ASSUME WordInForce, memoryTodo = << >>, NEW r \in MemoryRow,
           word[r.scope][r.key] # "none", << r.scope, r.key >> \notin cut
    PROVE  \E a \in DOMAIN records : OfKey(a, r) /\ records[a].status = "active"
<1>1. r.scope \in Memories!Scopes /\ r.key \in Texts
  BY DEF MemoryRow
<1>2. Has(records, [ scope |-> r.scope, key |-> r.key ], { "active" }) # { }
  BY <1>1 DEF WordInForce
<1> QED
  BY <1>2 DEF Has, OfKey

LEMMA MemoryAlone ==
    ASSUME MemoryTypeOK, MemoryLimits, NEW id, NEW r, NEW t,
           Memories!Save([ id |-> id, record |-> r ]), RoomFor(id, r, t), memoryCuts' = memoryCuts,
           \/ next' = next /\ id \in 1..(next - 1)
           \/ next <= MaxRecords /\ next' = next + 1 /\ id \in 1..next
    PROVE  SaveAlone(id, r, t)
<1>1. /\ next \in 1..(MaxRecords + 1) /\ MaxRecords \in Nat /\ next \in Nat
      /\ memoryCuts' \in 0..MaxLosses
  BY DEF MemoryTypeOK, MemoryLimits
<1>2. next' \in 1..(MaxRecords + 1) /\ next' >= next /\ id \in 1..(next' - 1)
  BY <1>1
<1> QED
  BY <1>1, <1>2 DEF SaveAlone

LEMMA MemoryAdmit ==
    ASSUME MemoryInv, MemoryLimits,
           NEW p, Memories!Admit(p), Memories!Admitted(p) \in MemoryRow
    PROVE  MemoryInv'
<1> DEFINE r == Memories!Admitted(p)
           t == IF p.origin = "user" THEN p.text ELSE word[p.scope][p.key]
<1>1. /\ MemoryTypeOK /\ OneOfAKey /\ WordInForce /\ memoryTodo = << >>
      /\ next \in Nat /\ next \in 1..(MaxRecords + 1) /\ memoryCuts \in 0..MaxLosses
      /\ \A id \in DOMAIN records : id \in 1..(next - 1) /\ id # next /\ records[id] \in MemoryRow
  BY MemoryIdle DEF Memories!Admit
<1>2. /\ next <= MaxRecords /\ next' = next + 1 /\ Memories!Save([ id |-> next, record |-> r ])
      /\ memoryTodo' = memoryTodo /\ memoryCuts' = memoryCuts
  BY DEF Memories!Admit, Memories!Row
<1>3. /\ r \in MemoryRow /\ r.scope = p.scope /\ r.key = p.key /\ r.text = p.text /\ r.source = p.origin
      /\ r.status = IF p.origin = "user" THEN "active" ELSE "candidate"
  BY DEF Memories!Admitted
<1>4. SaysWith(r, t) /\ t \in MemoryTexts \cup { "none" }
  <2>1. r.text \in MemoryTexts
    BY <1>3 DEF MemoryRow
  <2>2. CASE p.origin = "user"
    <3>1. Memories!Says(r, r.text)
      BY <2>2, <1>3 DEF Memories!Admit, Memories!Says
    <3> QED
      BY <3>1, <2>1, <2>2, <1>1, <1>3, MemorySays
  <2>3. CASE p.origin # "user"
    <3>1. UNCHANGED << word, cut >>
      BY <2>3 DEF Memories!Admit
    <3> QED
      BY <3>1, <2>3, <1>1, <1>3, MemoryQuiet
  <2> QED
    BY <2>2, <2>3
<1>5. ASSUME NEW a \in DOMAIN records, OfKey(a, r)
      PROVE  /\ records[a].status # "candidate"
             /\ p.origin = "user" => records[a].status \notin InForce
  <2>1. a \in Memories!ForKey(p)
    BY <1>3, <1>5 DEF OfKey, Memories!ForKey
  <2>2. Memories!Accepted(p)
    BY DEF Memories!Admit
  <2> QED
    BY <2>1, <2>2 DEF Memories!Accepted, Memories!WithStatus, InForce
<1>6. SaveAlone(next, r, t)
  <2>1. RoomFor(next, r, t)
    BY <1>1, <1>3, <1>5 DEF InForce, RoomFor
  <2>2. next \in 1..next
    BY <1>1
  <2> HIDE DEF r, t
  <2> QED
    BY <1>1, <1>2, <2>1, <2>2, MemoryAlone
<1>7. WordKept(next, r, t)
  <2>1. ASSUME p.origin # "user", t # "none", << r.scope, r.key >> \notin cut'
        PROVE  \E a \in DOMAIN records \ { next } : OfKey(a, r) /\ records[a].status = "active"
    <3>1. cut' = cut /\ t = word[r.scope][r.key]
      BY <2>1, <1>3 DEF Memories!Admit
    <3> HIDE DEF r, t
    <3> QED
      BY <3>1, <2>1, <1>1, <1>3, MemoryThere
  <2> QED
    BY <2>1, <1>1, <1>3 DEF WordKept, InForce
<1>8. MemoryTypeOK' /\ OneOfAKey' /\ WordInForce'
  <2> HIDE DEF r, t
  <2> QED
    BY <1>1, <1>3, <1>4, <1>6, <1>7, MemorySaves
<1> QED
  BY <1>8, <1>1, <1>2 DEF MemoryInv

LEMMA MemoryReplaceOne ==
    ASSUME NEW row, Memories!Replace(<< row >>)
    PROVE  Memories!Save(row) /\ memoryTodo' = << >> /\ memoryCuts' = memoryCuts
BY DEF Memories!Replace

LEMMA MemoryReplaceTwo ==
    ASSUME NEW row, NEW other, Memories!Replace(<< row, other >>)
    PROVE  Memories!Save(row) /\ memoryTodo' = << other >> /\ memoryCuts' = memoryCuts
BY DEF Memories!Replace

\* A memory that is not in force goes, or is replaced by a candidate.
LEMMA MemoryDropped ==
    ASSUME MemoryTypeOK, OneOfAKey, WordInForce, memoryTodo = << >>, MemoryLimits,
           NEW id \in DOMAIN records, NEW st \in { "deleted", "superseded" }, records[id].status # "active",
           Memories!Save([ id |-> id, record |-> [ records[id] EXCEPT !.status = st ] ]),
           UNCHANGED << word, cut >>, memoryCuts' = memoryCuts,
           next' = next \/ (next <= MaxRecords /\ next' = next + 1)
    PROVE  /\ MemoryTypeOK' /\ OneOfAKey' /\ WordInForce'
           /\ DOMAIN records' = DOMAIN records /\ records'[id] = [ records[id] EXCEPT !.status = st ]
           /\ \A a \in DOMAIN records \ { id } : records'[a] = records[a]
<1> DEFINE r == [ records[id] EXCEPT !.status = st ]
           t == word[r.scope][r.key]
<1>1. /\ r \in MemoryRow /\ r.status = st /\ OfKey(id, r) /\ records[id] \in MemoryRow /\ next \in Nat
      /\ id \in 1..(next - 1) /\ id \in 1..next
  <2>1. records[id] \in MemoryRow /\ next \in Nat /\ id \in 1..(next - 1)
    BY DEF MemoryTypeOK, MemoryLimits
  <2>2. id \in 1..next
    BY <2>1
  <2>3. st \in MemoryStatuses
    BY DEF MemoryStatuses
  <2>4. /\ r \in MemoryRow /\ r.status = st /\ r.scope = records[id].scope /\ r.key = records[id].key
    BY <2>1, <2>3, MemoryChanged
  <2> HIDE DEF r
  <2> QED
    BY <2>1, <2>2, <2>4 DEF OfKey
<1>2. SaysWith(r, t) /\ t \in MemoryTexts \cup { "none" }
  BY <1>1, MemoryQuiet
<1>3. RoomFor(id, r, t)
  BY <1>1 DEF RoomFor, InForce
<1> HIDE DEF r
<1>4. SaveAlone(id, r, t)
  <2>1. Memories!Save([ id |-> id, record |-> r ])
    BY DEF r
  <2> HIDE DEF t
  <2> QED
    BY <1>1, <1>3, <2>1, MemoryAlone
<1>5. WordKept(id, r, t)
  <2>1. ASSUME t # "none", << r.scope, r.key >> \notin cut'
        PROVE  \E a \in DOMAIN records \ { id } : OfKey(a, r) /\ records[a].status = "active"
    BY <2>1, <1>1, MemoryThere
  <2> QED
    BY <2>1, <1>1 DEF WordKept, InForce
<1>6. /\ MemoryTypeOK' /\ OneOfAKey' /\ WordInForce'
      /\ DOMAIN records' = DOMAIN records \cup { id } /\ records'[id] = r
      /\ \A a \in DOMAIN records \ { id } : records'[a] = records[a]
  <2> HIDE DEF t
  <2> QED
    BY <1>1, <1>2, <1>4, <1>5, MemorySaves
<1> QED
  BY <1>6 DEF r

\* A memory that is in force or disabled gives way to the user's new word, or to none.
LEMMA MemoryGivesWay ==
    ASSUME MemoryTypeOK, OneOfAKey, WordInForce, memoryTodo = << >>, MemoryLimits,
           NEW id \in DOMAIN records, NEW st \in { "deleted", "superseded", "disabled" },
           records[id].status \in InForce,
           Memories!Save([ id |-> id, record |-> [ records[id] EXCEPT !.status = st ] ]),
           NEW t \in MemoryTexts \cup { "none" }, Memories!Says(records[id], t), memoryCuts' = memoryCuts,
           next' = next \/ (next <= MaxRecords /\ next' = next + 1),
           \/ t = "none"
           \/ /\ memoryTodo' # << >> /\ memoryTodo'[1].record.status = "active"
              /\ memoryTodo'[1].record.scope = records[id].scope
              /\ memoryTodo'[1].record.key = records[id].key
    PROVE  /\ MemoryTypeOK' /\ OneOfAKey' /\ WordInForce' /\ SaysWith(records[id], t)
           /\ DOMAIN records' = DOMAIN records /\ records'[id] = [ records[id] EXCEPT !.status = st ]
           /\ \A a \in DOMAIN records \ { id } : records'[a] = records[a]
           /\ Has(records', records[id], InForce) = IF st = "disabled" THEN { id } ELSE { }
<1> DEFINE r == [ records[id] EXCEPT !.status = st ]
<1>1. /\ r \in MemoryRow /\ r.status = st /\ OfKey(id, r) /\ records[id] \in MemoryRow /\ next \in Nat
      /\ id \in 1..(next - 1) /\ id \in 1..next /\ r.scope = records[id].scope /\ r.key = records[id].key
  <2>1. records[id] \in MemoryRow /\ next \in Nat /\ id \in 1..(next - 1)
    BY DEF MemoryTypeOK, MemoryLimits
  <2>2. id \in 1..next
    BY <2>1
  <2>3. st \in MemoryStatuses
    BY DEF MemoryStatuses
  <2>4. /\ r \in MemoryRow /\ r.status = st /\ r.scope = records[id].scope /\ r.key = records[id].key
    BY <2>1, <2>3, MemoryChanged
  <2> HIDE DEF r
  <2> QED
    BY <2>1, <2>2, <2>4 DEF OfKey
<1>2. SaysWith(records[id], t) /\ SaysWith(r, t)
  <2>1. SaysWith(records[id], t)
    BY <1>1, MemorySays
  <2> QED
    BY <2>1, <1>1 DEF SaysWith
<1>3. \A a \in DOMAIN records \ { id } : OfKey(a, r) => records[a].status \notin InForce
  BY <1>1 DEF OneOfAKey, OfKey
<1>4. RoomFor(id, r, t)
  BY <1>1, <1>3 DEF RoomFor, InForce
<1>5. Memories!Save([ id |-> id, record |-> r ])
  OBVIOUS
<1> HIDE DEF r
<1>6. SaveAlone(id, r, t)
  BY <1>1, <1>4, <1>5, MemoryAlone
<1>7. WordKept(id, r, t)
  <2>1. r.source = "user"
    <3>1. r.source = records[id].source
      BY <1>1, MemoryChanged DEF r, MemoryStatuses
    <3> QED
      BY <3>1 DEF MemoryTypeOK
  <2> QED
    BY <1>1, <2>1 DEF WordKept
<1>8. /\ MemoryTypeOK' /\ OneOfAKey' /\ WordInForce'
      /\ DOMAIN records' = DOMAIN records \cup { id } /\ records'[id] = r
      /\ \A a \in DOMAIN records \ { id } : records'[a] = records[a]
  BY <1>1, <1>2, <1>6, <1>7, MemorySaves
<1>9. Has(records', records[id], InForce) = IF st = "disabled" THEN { id } ELSE { }
  BY <1>1, <1>3, <1>8 DEF Has, OfKey, InForce
<1> QED
  BY <1>2, <1>8, <1>9 DEF r

LEMMA MemoryMay ==
    ASSUME MemoryInv, MemoryLimits, NEW id, NEW statuses, Memories!May(id, statuses)
    PROVE  /\ MemoryTypeOK /\ OneOfAKey /\ WordInForce /\ memoryTodo = << >>
           /\ id \in DOMAIN records /\ records[id].status \in statuses /\ records[id] \in MemoryRow
           /\ id \in 1..(next - 1) /\ next \in Nat /\ records[id].text \in MemoryTexts
BY MemoryIdle DEF Memories!May, MemoryRow

LEMMA MemoryReject ==
    ASSUME MemoryInv, MemoryLimits, NEW id, Memories!Reject(id)
    PROVE  MemoryInv'
<1>1. /\ MemoryTypeOK /\ OneOfAKey /\ WordInForce /\ memoryTodo = << >>
      /\ id \in DOMAIN records /\ records[id].status = "candidate"
  BY MemoryMay DEF Memories!Reject
<1>2. /\ Memories!Save([ id |-> id, record |-> [ records[id] EXCEPT !.status = "deleted" ] ])
      /\ memoryTodo' = << >> /\ memoryCuts' = memoryCuts /\ UNCHANGED << next, word, cut >>
  BY MemoryReplaceOne DEF Memories!Reject, Memories!To, Memories!Row
<1>3. MemoryTypeOK' /\ OneOfAKey' /\ WordInForce'
  BY <1>1, <1>2, MemoryDropped
<1> QED
  BY <1>2, <1>3 DEF MemoryInv

LEMMA MemoryDelete ==
    ASSUME MemoryInv, MemoryLimits, NEW id, Memories!Delete(id)
    PROVE  MemoryInv'
<1>1. /\ MemoryTypeOK /\ OneOfAKey /\ WordInForce /\ memoryTodo = << >>
      /\ id \in DOMAIN records
  BY MemoryMay DEF Memories!Delete
<1>2. /\ Memories!Save([ id |-> id, record |-> [ records[id] EXCEPT !.status = "deleted" ] ])
      /\ memoryTodo' = << >> /\ memoryCuts' = memoryCuts /\ next' = next
  BY MemoryReplaceOne DEF Memories!Delete, Memories!To, Memories!Row
<1>3. CASE records[id].status = "active"
  <2>1. Memories!Says(records[id], "none")
    BY <1>3 DEF Memories!Delete, Memories!Withdraws, Memories!None
  <2>2. MemoryTypeOK' /\ OneOfAKey' /\ WordInForce'
    BY <1>1, <1>2, <1>3, <2>1, MemoryGivesWay DEF InForce
  <2> QED
    BY <1>2, <2>2 DEF MemoryInv
<1>4. CASE records[id].status # "active"
  <2>1. UNCHANGED << word, cut >>
    BY <1>4 DEF Memories!Delete, Memories!Withdraws
  <2>2. MemoryTypeOK' /\ OneOfAKey' /\ WordInForce'
    BY <1>1, <1>2, <1>4, <2>1, MemoryDropped
  <2> QED
    BY <1>2, <2>2 DEF MemoryInv
<1> QED
  BY <1>3, <1>4

LEMMA MemoryDisable ==
    ASSUME MemoryInv, MemoryLimits, NEW id, Memories!Disable(id)
    PROVE  MemoryInv'
<1>1. /\ MemoryTypeOK /\ OneOfAKey /\ WordInForce /\ memoryTodo = << >>
      /\ id \in DOMAIN records /\ records[id].status \in InForce
  BY MemoryMay DEF Memories!Disable, InForce
<1>2. /\ Memories!Save([ id |-> id, record |-> [ records[id] EXCEPT !.status = "disabled" ] ])
      /\ memoryTodo' = << >> /\ memoryCuts' = memoryCuts /\ next' = next /\ Memories!Says(records[id], "none")
  BY MemoryReplaceOne DEF Memories!Disable, Memories!To, Memories!Row, Memories!None
<1>3. MemoryTypeOK' /\ OneOfAKey' /\ WordInForce'
  BY <1>1, <1>2, MemoryGivesWay
<1> QED
  BY <1>2, <1>3 DEF MemoryInv

LEMMA MemoryEnable ==
    ASSUME MemoryInv, MemoryLimits, NEW id, Memories!Enable(id)
    PROVE  MemoryInv'
<1> DEFINE r == [ records[id] EXCEPT !.status = "active" ]
           t == records[id].text
<1>1. /\ MemoryTypeOK /\ OneOfAKey /\ WordInForce /\ memoryTodo = << >>
      /\ id \in DOMAIN records /\ records[id].status = "disabled" /\ records[id] \in MemoryRow
      /\ id \in 1..(next - 1) /\ next \in Nat /\ t \in MemoryTexts
  BY MemoryMay DEF Memories!Enable
<1>2. /\ Memories!Save([ id |-> id, record |-> r ])
      /\ memoryTodo' = << >> /\ memoryCuts' = memoryCuts /\ next' = next /\ Memories!Says(records[id], t)
  BY MemoryReplaceOne DEF Memories!Enable, Memories!To, Memories!Row
<1>3. /\ r \in MemoryRow /\ r.status = "active" /\ r.scope = records[id].scope /\ r.key = records[id].key
      /\ r.text = t /\ r.source = records[id].source
  BY <1>1, MemoryChanged DEF MemoryStatuses
<1>4. records[id].source = "user" /\ OfKey(id, r)
  BY <1>1, <1>3 DEF MemoryTypeOK, InForce, OfKey
<1>5. SaysWith(r, t)
  <2>1. SaysWith(records[id], t)
    BY <1>1, <1>2, MemorySays
  <2> QED
    BY <2>1, <1>3 DEF SaysWith
<1>6. RoomFor(id, r, t)
  BY <1>1, <1>3, <1>4 DEF OneOfAKey, RoomFor, OfKey, InForce
<1> HIDE DEF r
<1>7. SaveAlone(id, r, t)
  BY <1>1, <1>2, <1>6, MemoryAlone
<1>8. WordKept(id, r, t)
  BY <1>1, <1>3, <1>4 DEF WordKept
<1>9. MemoryTypeOK' /\ OneOfAKey' /\ WordInForce'
  <2> HIDE DEF t
  <2>1. t \in MemoryTexts \cup { "none" }
    BY <1>1
  <2> QED
    BY <1>1, <1>3, <1>5, <1>7, <1>8, <2>1, MemorySaves
<1> QED
  BY <1>2, <1>9 DEF MemoryInv

LEMMA MemoryEdit ==
    ASSUME MemoryInv, MemoryLimits, NEW id, NEW text \in Texts \cup { "secret" }, Memories!Edit(id, text)
    PROVE  MemoryInv'
<1> DEFINE status == IF records[id].status = "candidate" THEN "candidate" ELSE "active"
           r == [ records[id] EXCEPT !.text = text, !.source = "user", !.status = status ]
           other == [ id |-> next, record |-> r ]
<1>1. /\ MemoryTypeOK /\ OneOfAKey /\ WordInForce /\ memoryTodo = << >>
      /\ id \in DOMAIN records /\ records[id].status \in { "candidate", "active", "disabled" }
      /\ records[id] \in MemoryRow /\ id \in 1..(next - 1) /\ next \in Nat
  BY MemoryMay DEF Memories!Edit
<1>2. /\ Memories!Save([ id |-> id, record |-> [ records[id] EXCEPT !.status = "superseded" ] ])
      /\ memoryTodo' = << other >> /\ memoryCuts' = memoryCuts
      /\ next <= MaxRecords /\ next' = next + 1 /\ text \in MemoryTexts
  <2>1. Memories!Replace(<< [ id |-> id, record |-> [ records[id] EXCEPT !.status = "superseded" ] ], other >>)
    BY DEF Memories!Edit, Memories!To, Memories!Row
  <2>2. text \in MemoryTexts /\ next <= MaxRecords /\ next' = next + 1
    BY DEF Memories!Edit, Memories!Secret, MemoryTexts
  <2> QED
    BY <2>1, <2>2, MemoryReplaceTwo
<1>3. /\ r \in MemoryRow /\ r.status = status /\ r.scope = records[id].scope /\ r.key = records[id].key
      /\ r.text = text /\ r.source = "user"
  BY <1>1, <1>2 DEF MemoryRow, MemoryStatuses
<1>4. /\ memoryTodo'[1] = other /\ Len(memoryTodo') = 1 /\ memoryTodo' = << memoryTodo'[1] >>
      /\ other.id = next /\ other.record = r /\ other = [ id |-> other.id, record |-> other.record ]
  BY <1>2
<1>5. next \in 1..(next' - 1) /\ next \notin DOMAIN records
  BY <1>1, <1>2 DEF MemoryTypeOK
<1> HIDE DEF r, other
<1>6. CASE records[id].status = "candidate"
  <2>1. UNCHANGED << word, cut >>
    BY <1>6 DEF Memories!Edit
  <2>2. /\ MemoryTypeOK' /\ OneOfAKey' /\ WordInForce'
        /\ DOMAIN records' = DOMAIN records /\ records'[id] = [ records[id] EXCEPT !.status = "superseded" ]
        /\ \A a \in DOMAIN records \ { id } : records'[a] = records[a]
    BY <1>1, <1>2, <1>6, <2>1, MemoryDropped
  <2>3. Has(records', r, { "candidate" }) = { }
    <3>1. records'[id].status = "superseded"
      BY <1>1, <2>2, MemoryChanged DEF MemoryStatuses
    <3> QED
      BY <1>1, <1>3, <1>6, <2>2, <3>1 DEF Has, OneOfAKey
  <2>4. StillToWrite(memoryTodo[1])'
    BY <1>3, <1>4, <1>5, <1>6, <2>2, <2>3 DEF StillToWrite, Has
  <2> QED
    BY <1>4, <2>2, <2>4 DEF MemoryInv
<1>7. CASE records[id].status # "candidate"
  <2>1. Memories!Says(records[id], text) /\ records[id].status \in InForce /\ status = "active"
    BY <1>7, <1>1 DEF Memories!Edit, InForce
  <2>2. /\ MemoryTypeOK' /\ OneOfAKey' /\ WordInForce' /\ SaysWith(records[id], text)
        /\ DOMAIN records' = DOMAIN records
        /\ Has(records', records[id], InForce) = { }
    <3>1. /\ memoryTodo' # << >> /\ memoryTodo'[1].record.status = "active"
          /\ memoryTodo'[1].record.scope = records[id].scope /\ memoryTodo'[1].record.key = records[id].key
      BY <1>2, <1>3, <1>4, <2>1
    <3>2. text \in MemoryTexts \cup { "none" }
      BY <1>2
    <3> QED
      BY <1>1, <1>2, <2>1, <3>1, <3>2, MemoryGivesWay
  <2>3. Has(records', r, InForce) = { }
    BY <1>3, <2>2 DEF Has
  <2>4. word'[r.scope][r.key] = text
    BY <1>1, <1>3, <2>2 DEF SaysWith, MemoryRow
  <2>5. StillToWrite(memoryTodo[1])'
    BY <1>3, <1>4, <1>5, <2>1, <2>2, <2>3, <2>4 DEF StillToWrite, Has
  <2> QED
    BY <1>4, <2>2, <2>5 DEF MemoryInv
<1> QED
  BY <1>6, <1>7

LEMMA MemoryContinue ==
    ASSUME MemoryInv, MemoryLimits, Memories!Continue
    PROVE  MemoryInv'
<1> DEFINE row == memoryTodo[1]
           r == row.record
           t == word[r.scope][r.key]
<1>1. /\ MemoryTypeOK /\ OneOfAKey /\ WordInForce /\ StillToWrite(row) /\ memoryTodo = << row >>
  BY DEF MemoryInv, Memories!Continue
<1>2. Memories!Save(row) /\ memoryTodo' = << >> /\ UNCHANGED << next, word, cut, memoryCuts >>
  <2>1. Head(memoryTodo) = row /\ Tail(memoryTodo) = << >>
    <3>1. \A x : Head(<< x >>) = x /\ Tail(<< x >>) = << >>
      OBVIOUS
    <3> HIDE DEF row
    <3> QED
      BY <1>1, <3>1, Zenon
  <2> QED
    BY <2>1 DEF Memories!Continue
<1> HIDE DEF row
<1>3. /\ r \in MemoryRow /\ row.id \in 1..(next - 1) /\ Memories!Save([ id |-> row.id, record |-> r ])
  BY <1>1, <1>2 DEF StillToWrite
<1>4. SaysWith(r, t) /\ t \in MemoryTexts \cup { "none" }
  BY <1>1, <1>2, <1>3, MemoryQuiet
<1>5. RoomFor(row.id, r, t)
  <2>1. row.id \in DOMAIN records => OfKey(row.id, r)
    BY <1>1 DEF StillToWrite, Has, OfKey
  <2>2. ASSUME NEW a \in DOMAIN records \ { row.id }, OfKey(a, r)
        PROVE  /\ ~(r.status \in InForce /\ records[a].status \in InForce)
               /\ ~(r.status = "candidate" /\ records[a].status = "candidate")
    BY <1>1, <2>2 DEF StillToWrite, Has, OfKey, InForce
  <2> QED
    BY <2>1, <2>2 DEF RoomFor
<1>6. SaveAlone(row.id, r, t)
  BY <1>1, <1>2, <1>3, <1>5, MemoryAlone
<1>7. WordKept(row.id, r, t)
  <2>1. ASSUME t # "none", << r.scope, r.key >> \notin cut', r.status # "active"
        PROVE  \E a \in DOMAIN records \ { row.id } : OfKey(a, r) /\ records[a].status = "active"
    <3>1. r.scope \in Memories!Scopes /\ r.key \in Texts
      BY <1>3 DEF MemoryRow
    <3>2. Has(records, [ scope |-> r.scope, key |-> r.key ], { "active" }) # { }
      BY <1>1, <1>2, <2>1, <3>1 DEF WordInForce, row
    <3>3. row.id \in DOMAIN records => records[row.id].status = "candidate"
      BY <1>1 DEF StillToWrite, Has
    <3> QED
      BY <3>2, <3>3 DEF Has, OfKey
  <2>2. r.status \in InForce => r.source = "user" /\ r.text = t
    BY <1>1 DEF StillToWrite, InForce
  <2>3. memoryTodo[1].record.scope = r.scope /\ memoryTodo[1].record.key = r.key
    BY DEF row
  <2> QED
    BY <2>1, <2>2, <2>3 DEF WordKept, InForce
<1>8. MemoryTypeOK' /\ OneOfAKey' /\ WordInForce'
  <2> HIDE DEF t
  <2> QED
    BY <1>1, <1>3, <1>4, <1>6, <1>7, MemorySaves
<1> QED
  BY <1>2, <1>8 DEF MemoryInv

LEMMA MemoryCutShort ==
    ASSUME MemoryInv, MemoryLimits, Memories!CutShort
    PROVE  MemoryInv'
<1> DEFINE row == memoryTodo[1]
<1>1. /\ MemoryTypeOK /\ OneOfAKey /\ WordInForce /\ StillToWrite(row) /\ memoryTodo = << row >>
  BY DEF MemoryInv, Memories!CutShort, Memories!Idle
<1>2. /\ memoryTodo' = << >> /\ UNCHANGED << records, next, word >>
      /\ memoryCuts < MaxLosses /\ memoryCuts' = memoryCuts + 1
      /\ cut \subseteq cut' /\ << row.record.scope, row.record.key >> \in cut'
  <2>1. row \in Memories!Range(memoryTodo)
    BY <1>1 DEF Memories!Range
  <2> QED
    BY <2>1 DEF Memories!CutShort
<1>3. MemoryTypeOK' /\ OneOfAKey'
  BY <1>1, <1>2 DEF MemoryTypeOK, OneOfAKey, MemoryLimits
<1>4. WordInForce'
  BY <1>1, <1>2 DEF WordInForce, Has
<1> QED
  BY <1>2, <1>3, <1>4 DEF MemoryInv

LEMMA MemoryPurge ==
    ASSUME MemoryInv, MemoryLimits, NEW id, Memories!Purge(id)
    PROVE  MemoryInv'
<1> DEFINE r == records[id]
           t == IF r.status = "active" THEN "none" ELSE word[r.scope][r.key]
<1>1. /\ MemoryTypeOK /\ OneOfAKey /\ WordInForce /\ memoryTodo = << >>
      /\ \A a \in DOMAIN records : records[a] \in MemoryRow
  BY MemoryIdle DEF Memories!Purge
<1>2. /\ id \in DOMAIN records /\ UNCHANGED << next, memoryTodo, memoryCuts >> /\ r \in MemoryRow
      /\ DOMAIN records' = DOMAIN records \ { id } /\ \A a \in DOMAIN records' : records'[a] = records[a]
  BY <1>1 DEF Memories!Purge
<1>3. SaysWith(r, t)
  <2>1. CASE r.status = "active"
    BY <1>1, <1>2, <2>1, MemorySays DEF Memories!Purge, Memories!Withdraws, Memories!None
  <2>2. CASE r.status # "active"
    BY <1>1, <1>2, <2>2, MemoryQuiet DEF Memories!Purge, Memories!Withdraws
  <2> QED
    BY <2>1, <2>2
<1>4. r.status # "active" => cut' = cut /\ word' = word
  BY DEF Memories!Purge, Memories!Withdraws
<1>5. r.scope \in Memories!Scopes /\ r.key \in Texts
  BY <1>2 DEF MemoryRow
<1> HIDE DEF r
<1>6. MemoryTypeOK'
  BY <1>1, <1>2, <1>3 DEF MemoryTypeOK, SaysWith
<1>7. OneOfAKey'
  BY <1>1, <1>2 DEF OneOfAKey
<1>8. ASSUME NEW a \in DOMAIN records', records'[a].status = "active"
      PROVE  records'[a].text = word'[records'[a].scope][records'[a].key]
  <2>1. /\ a \in DOMAIN records /\ a # id /\ records'[a] = records[a] /\ records[a].status = "active"
        /\ records[a].scope \in Memories!Scopes /\ records[a].key \in Texts
        /\ records[a].text = word[records[a].scope][records[a].key]
    BY <1>1, <1>2, <1>8 DEF WordInForce, MemoryRow
  <2>2. CASE r.status = "active"
    <3>1. ~(records[a].scope = r.scope /\ records[a].key = r.key)
      BY <1>1, <1>2, <2>1, <2>2 DEF OneOfAKey, InForce, r
    <3> QED
      BY <2>1, <3>1, <1>3 DEF SaysWith
  <2>3. CASE r.status # "active"
    BY <1>4, <2>1, <2>3
  <2> QED
    BY <2>2, <2>3
<1>9. ASSUME NEW s \in Memories!Scopes, NEW k \in Texts, word'[s][k] # "none", << s, k >> \notin cut'
      PROVE  Has(records', [ scope |-> s, key |-> k ], { "active" }) # { }
  <2>1. /\ ~(r.status = "active" /\ s = r.scope /\ k = r.key) /\ word[s][k] # "none" /\ << s, k >> \notin cut
    BY <1>3, <1>4, <1>9 DEF SaysWith
  <2>2. PICK a \in DOMAIN records : records[a].scope = s /\ records[a].key = k /\ records[a].status = "active"
    BY <1>1, <2>1 DEF WordInForce, Has
  <2>3. a # id
    BY <2>1, <2>2 DEF r
  <2>4. a \in Has(records', [ scope |-> s, key |-> k ], { "active" })
    BY <2>2, <2>3, <1>2 DEF Has
  <2> QED
    BY <2>4
<1>10. WordInForce'
  BY <1>8, <1>9 DEF WordInForce
<1> QED
  BY <1>1, <1>2, <1>6, <1>7, <1>10 DEF MemoryInv

LEMMA MemoryCardinality ==
    ASSUME NEW S
    PROVE  Memories!Cardinality(S) = Cardinality(S)
BY DEF Memories!Cardinality, Cardinality

LEMMA MemoryNoSequence == Memories!SetToSeq({ }) = << >>
<1>1. Memories!Cardinality({ }) = 0
  BY MemoryCardinality, FS_EmptySet
<1>2. Memories!SetToSeq({ }) = CHOOSE f \in [ 1..0 -> { } ] : Memories!IsInjective(f)
  BY <1>1, Zenon DEF Memories!SetToSeq
<1>3. << >> \in [ 1..0 -> { } ] /\ Memories!IsInjective(<< >>)
  BY DEF Memories!IsInjective
<1>4. Memories!SetToSeq({ }) \in [ 1..0 -> { } ]
  BY <1>2, <1>3, Zenon
<1>5. \A f \in [ 1..0 -> { } ] : f = << >>
  OBVIOUS
<1> QED
  BY <1>4, <1>5, Zenon

LEMMA MemoryOneSequence ==
    ASSUME NEW x
    PROVE  Memories!SetToSeq({ x }) = << x >>
<1>1. Memories!Cardinality({ x }) = 1
  BY MemoryCardinality, FS_Singleton
<1>2. Memories!SetToSeq({ x }) = CHOOSE f \in [ 1..1 -> { x } ] : Memories!IsInjective(f)
  BY <1>1, Zenon DEF Memories!SetToSeq
<1>3. << x >> \in [ 1..1 -> { x } ] /\ Memories!IsInjective(<< x >>)
  BY DEF Memories!IsInjective
<1>4. Memories!SetToSeq({ x }) \in [ 1..1 -> { x } ]
  BY <1>2, <1>3, Zenon
<1>5. \A f \in [ 1..1 -> { x } ] : f = << x >>
  OBVIOUS
<1> QED
  BY <1>4, <1>5, Zenon

\* What an approval puts out of force is one memory at most.
LEMMA MemoryReplacedOne ==
    ASSUME OneOfAKey, NEW id \in DOMAIN records
    PROVE  \/ Memories!SetToSeq(Memories!Replaced(id)) = << >>
              /\ \A a \in DOMAIN records \ { id } : OfKey(a, records[id]) => records[a].status \notin InForce
           \/ \E x \in DOMAIN records \ { id } :
                /\ Memories!SetToSeq(Memories!Replaced(id)) = << x >>
                /\ OfKey(x, records[id]) /\ records[x].status \in InForce
<1> DEFINE S == Memories!Replaced(id)
<1>1. \A x : x \in S <=> /\ x \in DOMAIN records \ { id } /\ OfKey(x, records[id]) /\ records[x].status \in InForce
  BY DEF Memories!Replaced, Memories!WithStatus, Memories!ForKey, OfKey, InForce
<1>2. \A x, y \in S : x = y
  BY <1>1 DEF OneOfAKey, OfKey
<1>3. CASE S = { }
  <2>1. \A a \in DOMAIN records \ { id } : OfKey(a, records[id]) => records[a].status \notin InForce
    BY <1>1, <1>3
  <2> QED
    BY <2>1, <1>3, MemoryNoSequence
<1>4. CASE S # { }
  <2>1. PICK x : x \in S
    BY <1>4
  <2>2. S = { x }
    BY <2>1, <1>2
  <2>3. Memories!SetToSeq(S) = << x >>
    BY <2>2, MemoryOneSequence
  <2> QED
    BY <2>1, <2>3, <1>1
<1> QED
  BY <1>3, <1>4

LEMMA MemoryApprove ==
    ASSUME MemoryInv, MemoryLimits, NEW id, Memories!Approve(id)
    PROVE  MemoryInv'
<1> DEFINE old == Memories!SetToSeq(Memories!Replaced(id))
           r == [ records[id] EXCEPT !.status = "active", !.source = "user" ]
           row == [ id |-> id, record |-> r ]
           t == records[id].text
           rows == [ n \in DOMAIN old |-> Memories!To(old[n], "superseded") ] \o << row >>
<1>1. /\ MemoryTypeOK /\ OneOfAKey /\ WordInForce /\ memoryTodo = << >>
      /\ id \in DOMAIN records /\ records[id].status = "candidate"
      /\ records[id] \in MemoryRow /\ id \in 1..(next - 1) /\ next \in Nat
      /\ t \in MemoryTexts
  BY MemoryMay DEF Memories!Approve
<1>2. Memories!Replace(rows) /\ Memories!Says(records[id], t) /\ next' = next
  BY DEF Memories!Approve, Memories!Row
<1>3. /\ r \in MemoryRow /\ r.status = "active" /\ r.scope = records[id].scope /\ r.key = records[id].key
      /\ r.text = t /\ r.source = "user"
  BY <1>1 DEF MemoryRow, MemoryStatuses
<1>4. /\ row.id = id /\ row.record = r /\ row = [ id |-> row.id, record |-> row.record ]
  OBVIOUS
<1>5. SaysWith(records[id], t) /\ SaysWith(r, t) /\ t \in MemoryTexts \cup { "none" }
  <2>1. SaysWith(records[id], t)
    BY <1>1, <1>2, MemorySays
  <2> QED
    BY <2>1, <1>1, <1>3 DEF SaysWith
<1>6. CASE /\ old = << >>
           /\ \A a \in DOMAIN records \ { id } : OfKey(a, records[id]) => records[a].status \notin InForce
  <2>1. rows = << row >>
    <3> HIDE DEF row
    <3> QED
      BY <1>6
  <2>2. Memories!Save(row) /\ memoryTodo' = << >> /\ memoryCuts' = memoryCuts
    <3> HIDE DEF row, rows
    <3> QED
      BY <1>2, <2>1, MemoryReplaceOne
  <2>3. RoomFor(id, r, t)
    BY <1>1, <1>3, <1>6 DEF RoomFor, OfKey, InForce
  <2>4. SaveAlone(id, r, t)
    <3> HIDE DEF r, t
    <3> QED
      BY <1>1, <1>2, <2>2, <2>3, MemoryAlone
  <2>5. WordKept(id, r, t)
    BY <1>1, <1>3 DEF WordKept
  <2>6. MemoryTypeOK' /\ OneOfAKey' /\ WordInForce'
    <3> HIDE DEF r, t
    <3> QED
      BY <1>1, <1>3, <1>5, <2>4, <2>5, MemorySaves
  <2> QED
    BY <2>2, <2>6 DEF MemoryInv
<1>7. ASSUME NEW x \in DOMAIN records \ { id }, old = << x >>, OfKey(x, records[id]), records[x].status \in InForce
      PROVE  MemoryInv'
  <2> DEFINE first == [ id |-> x, record |-> [ records[x] EXCEPT !.status = "superseded" ] ]
  <2>1. rows = << first, row >>
    <3>1. first = Memories!To(x, "superseded")
      BY DEF Memories!To, Memories!Row
    <3> HIDE DEF row, first, old
    <3>2. [ n \in DOMAIN old |-> Memories!To(old[n], "superseded") ] = << first >>
      BY <1>7, <3>1
    <3>3. << first >> \o << row >> = << first, row >>
      BY TwoInARow, Zenon
    <3> QED
      BY <3>2, <3>3, Zenon
  <2>2. Memories!Save(first) /\ memoryTodo' = << row >> /\ memoryCuts' = memoryCuts
    <3> HIDE DEF row, first, rows
    <3> QED
      BY <1>2, <2>1, MemoryReplaceTwo
  <2>3. /\ memoryTodo' # << >> /\ memoryTodo'[1] = row /\ Len(memoryTodo') = 1 /\ memoryTodo' = << memoryTodo'[1] >>
    <3> HIDE DEF row
    <3> QED
      BY <2>2
  <2>4. Memories!Says(records[x], t)
    BY <1>2, <1>7 DEF Memories!Says, OfKey
  <2>5. /\ MemoryTypeOK' /\ OneOfAKey' /\ WordInForce'
        /\ DOMAIN records' = DOMAIN records
        /\ \A a \in DOMAIN records \ { x } : records'[a] = records[a]
        /\ Has(records', records[x], InForce) = { }
    <3>1. /\ memoryTodo'[1].record.status = "active"
          /\ memoryTodo'[1].record.scope = records[x].scope /\ memoryTodo'[1].record.key = records[x].key
      <4> HIDE DEF row, r
      <4>1. r.scope = records[x].scope /\ r.key = records[x].key
        BY <1>3, <1>7 DEF OfKey
      <4> QED
        BY <1>3, <1>4, <2>3, <4>1
    <3> HIDE DEF row, rows, t, r
    <3> QED
      BY <1>1, <1>2, <1>5, <1>7, <2>2, <2>3, <2>4, <3>1, MemoryGivesWay
  <2>6. StillToWrite(memoryTodo[1])'
    <3>1. Has(records', r, InForce) = { }
      BY <1>3, <1>7, <2>5 DEF Has, OfKey
    <3>2. records'[id] = records[id] /\ id \in DOMAIN records'
      BY <1>1, <1>7, <2>5
    <3>3. word'[r.scope][r.key] = t
      BY <1>1, <1>3, <1>5 DEF SaysWith, MemoryRow
    <3>4. id \in Has(records', r, { "candidate" }) /\ id \in 1..(next' - 1)
      BY <1>1, <1>2, <1>3, <3>2 DEF Has
    <3> HIDE DEF r, row
    <3>5. /\ memoryTodo'[1].id = id /\ memoryTodo'[1].record = r
          /\ memoryTodo'[1] = [ id |-> memoryTodo'[1].id, record |-> memoryTodo'[1].record ]
      BY <1>4, <2>3
    <3> HIDE DEF t
    <3> QED
      BY <1>3, <3>1, <3>3, <3>4, <3>5 DEF StillToWrite, Has
  <2> QED
    BY <2>3, <2>5, <2>6 DEF MemoryInv
<1> QED
  BY <1>1, <1>6, <1>7, MemoryReplacedOne

LEMMA MemoryInvInit == MemoryLimits /\ Memories!Init => MemoryInv
<1> SUFFICES ASSUME MemoryLimits, Memories!Init
             PROVE  MemoryInv
  OBVIOUS
<1>1. /\ records = << >> /\ DOMAIN records = { } /\ next = 1 /\ memoryTodo = << >> /\ memoryCuts = 0
  BY DEF Memories!Init
<1>2. word = [ s \in Memories!Scopes |-> [ k \in Texts |-> "none" ] ]
  BY DEF Memories!Init, Memories!None
<1>3. MemoryTypeOK
  BY <1>1, <1>2 DEF MemoryTypeOK, MemoryLimits
<1>4. OneOfAKey /\ WordInForce
  BY <1>1, <1>2 DEF OneOfAKey, WordInForce
<1> QED
  BY <1>1, <1>3, <1>4 DEF MemoryInv

LEMMA MemoryInvStep == MemoryLimits /\ MemoryInv /\ [Memories!Next]_(Memories!memoryVars) => MemoryInv'
<1> SUFFICES ASSUME MemoryLimits, MemoryInv, [Memories!Next]_(Memories!memoryVars)
             PROVE  MemoryInv'
  OBVIOUS
<1>1. ASSUME NEW text \in Texts \cup { Memories!Secret }, Memories!Remember(text)
      PROVE  MemoryInv'
  <2> DEFINE p == [ scope |-> "project", type |-> "project", key |-> text, text |-> text,
                    origin |-> "user", verified |-> TRUE ]
  <2>1. Memories!Admit(p) /\ text \in Texts /\ text # "secret"
    BY <1>1 DEF Memories!Remember, Memories!Admit, Memories!Accepted, Memories!Secret
  <2>2. Memories!Admitted(p) \in MemoryRow
    BY <2>1 DEF Memories!Admitted, MemoryRow, MemoryTypes, MemoryTexts, MemoryStatuses, Memories!Scopes
  <2> HIDE DEF p
  <2> QED
    BY <2>1, <2>2, MemoryAdmit
<1>2. ASSUME NEW q \in Proposed, NEW verified \in BOOLEAN, Memories!FinishRun(q, verified)
      PROVE  MemoryInv'
  <2> DEFINE p == [ scope |-> q.scope, type |-> q.type, key |-> q.key, text |-> q.text,
                    origin |-> "run", verified |-> verified ]
  <2>1. Memories!Admit(p) /\ q.text # "secret"
    BY <1>2 DEF Memories!FinishRun, Memories!Admit, Memories!Accepted, Memories!Secret
  <2>2. Memories!Admitted(p) \in MemoryRow
    BY <2>1 DEF Memories!Admitted, MemoryRow, MemoryTypes, MemoryTexts, MemoryStatuses, MemoryLimits
  <2> HIDE DEF p
  <2> QED
    BY <2>1, <2>2, MemoryAdmit
<1>3. ASSUME NEW id \in DOMAIN records, Memories!Command(id)
      PROVE  MemoryInv'
  <2>1. Memories!Approve(id) => MemoryInv'
    BY MemoryApprove
  <2>2. Memories!Reject(id) => MemoryInv'
    BY MemoryReject
  <2>3. Memories!Disable(id) => MemoryInv'
    BY MemoryDisable
  <2>4. Memories!Enable(id) => MemoryInv'
    BY MemoryEnable
  <2>5. Memories!Delete(id) => MemoryInv'
    BY MemoryDelete
  <2>6. Memories!Purge(id) => MemoryInv'
    BY MemoryPurge
  <2>7. ASSUME NEW text \in Texts \cup { Memories!Secret }, Memories!Edit(id, text)
        PROVE  MemoryInv'
    BY <2>7, MemoryEdit DEF Memories!Secret
  <2> QED
    BY <1>3, <2>1, <2>2, <2>3, <2>4, <2>5, <2>6, <2>7 DEF Memories!Command
<1>4. CASE UNCHANGED Memories!memoryVars
  <2>1. UNCHANGED << records, next, memoryTodo, word, cut, memoryCuts >>
    BY <1>4 DEF Memories!memoryVars
  <2> QED
    BY <2>1 DEF MemoryInv, MemoryTypeOK, OneOfAKey, WordInForce, StillToWrite, Has
<1> QED
  BY <1>1, <1>2, <1>3, <1>4, MemoryContinue, MemoryCutShort DEF Memories!Next

-------------------------------------------------------------------------------
(* Recall *)

\* Of any memories that are recalled, one gives way to all others.
LEMMA MemoryLeast ==
    ASSUME MemoryInv, MemoryLimits, NEW hits, NEW R \in SUBSET DOMAIN records, R # { }
    PROVE  \E w \in R : \A id \in R \ { w } :
             \/ Memories!Score(id, hits) > Memories!Score(w, hits)
             \/ Memories!Score(id, hits) = Memories!Score(w, hits) /\ id < w
<1> DEFINE S(id) == Memories!Score(id, hits)
<1>1. \A id \in R : S(id) \in Nat /\ id \in Nat /\ id < next
  BY DEF MemoryInv, MemoryTypeOK, MemoryLimits, Memories!Score
<1>2. PICK low \in { S(id) : id \in R } : \A n \in { S(id) : id \in R } : low <= n
  <2> DEFINE T == { S(id) : id \in R }
  <2> HIDE DEF S
  <2>1. T # { } /\ T \subseteq Nat
    BY <1>1
  <2> QED
    BY <2>1, LeastOf
<1> DEFINE E == { id \in R : S(id) = low }
<1>3. PICK w \in E : \A id \in E : id <= w
  <2> DEFINE T == { next - id : id \in E }
  <2>0. next \in Nat
    BY DEF MemoryInv, MemoryTypeOK, MemoryLimits
  <2> HIDE DEF S
  <2>1. T # { } /\ T \subseteq Nat
    BY <1>1, <1>2, <2>0
  <2>2. PICK x \in T : \A y \in T : x <= y
    BY <2>1, LeastOf
  <2>3. PICK w \in E : x = next - w
    BY <2>2
  <2>4. \A id \in E : id <= w
    BY <1>1, <2>0, <2>2, <2>3
  <2> QED
    BY <2>4
<1> HIDE DEF S
<1>4. \A id \in R \ { w } : S(id) > S(w) \/ (S(id) = S(w) /\ id < w)
  BY <1>1, <1>2, <1>3
<1> QED
  BY <1>3, <1>4 DEF S

LEMMA MemoryRecalledFew ==
    ASSUME MemoryInv, MemoryLimits, NEW hits
    PROVE  Memories!Cardinality(Memories!Recalled(hits)) <= Limit
<1> DEFINE R == Memories!Relevant(hits)
           C == Memories!Recalled(hits)
           Better(id) == { other \in R :
                             \/ Memories!Score(other, hits) > Memories!Score(id, hits)
                             \/ Memories!Score(other, hits) = Memories!Score(id, hits) /\ other < id }
<1>1. R \subseteq DOMAIN records /\ C = { id \in R : Memories!Cardinality(Better(id)) < Limit }
  BY DEF Memories!Relevant, Memories!Recalled, Memories!Visible, Memories!WithStatus
<1>2. IsFiniteSet(DOMAIN records) /\ Limit \in Nat
  <2>1. DOMAIN records \subseteq 1..(next - 1) /\ next \in Nat
    BY DEF MemoryInv, MemoryTypeOK, MemoryLimits
  <2>2. IsFiniteSet(1..(next - 1))
    BY <2>1, FS_Interval
  <2> QED
    BY <2>1, <2>2, FS_Subset DEF MemoryLimits
<1>3. IsFiniteSet(R) /\ IsFiniteSet(C) /\ \A id \in R : IsFiniteSet(Better(id))
  BY <1>1, <1>2, FS_Subset
<1>4. CASE C = { }
  BY <1>2, <1>4, FS_EmptySet, MemoryCardinality
<1>5. CASE C # { }
  <2>1. PICK w \in C : \A id \in C \ { w } :
               \/ Memories!Score(id, hits) > Memories!Score(w, hits)
               \/ Memories!Score(id, hits) = Memories!Score(w, hits) /\ id < w
    BY <1>1, <1>5, MemoryLeast
  <2>2. C \ { w } \subseteq Better(w)
    BY <1>1, <2>1
  <2>3. Cardinality(C \ { w }) <= Cardinality(Better(w)) /\ Cardinality(Better(w)) \in Nat
    BY <1>1, <1>3, <2>1, <2>2, FS_Subset, FS_CardinalityType
  <2>4. Cardinality(Better(w)) < Limit
    BY <1>1, <2>1, MemoryCardinality
  <2>5. Cardinality(C \ { w }) = Cardinality(C) - 1 /\ Cardinality(C) \in Nat
    BY <1>3, <2>1, FS_RemoveElement, FS_CardinalityType
  <2> HIDE DEF C, Better
  <2>6. Cardinality(C) <= Limit
    BY <1>2, <2>3, <2>4, <2>5
  <2>7. Memories!Cardinality(C) <= Limit
    BY <2>6, MemoryCardinality
  <2> QED
    BY <2>7 DEF C
<1> QED
  BY <1>4, <1>5

LEMMA MemoryAtMostOne ==
    ASSUME NEW S, \A a, b \in S : a = b
    PROVE  Memories!Cardinality(S) <= 1
<1>1. CASE S = { }
  BY <1>1, FS_EmptySet, MemoryCardinality
<1>2. CASE S # { }
  <2>1. PICK a : S = { a }
    BY <1>2
  <2> QED
    BY <2>1, FS_Singleton, MemoryCardinality
<1> QED
  BY <1>1, <1>2

LEMMA MemoryInvRecalls == MemoryLimits /\ MemoryInv => RecallIsTheUsersWord
<1> SUFFICES ASSUME MemoryLimits, MemoryInv
             PROVE  RecallIsTheUsersWord
  OBVIOUS
<1>1. /\ MemoryTypeOK /\ OneOfAKey /\ WordInForce
  BY DEF MemoryInv
<1>2. /\ next \in Nat /\ MaxRecords \in Nat /\ \A id \in DOMAIN records : id \in 1..(next - 1) /\ records[id] \in MemoryRow
  BY <1>1 DEF MemoryTypeOK, MemoryLimits
<1>3. Memories!TypeOK
  BY <1>1, <1>2 DEF Memories!TypeOK, MemoryTypeOK, MemoryRow, MemoryLimits
<1>4. ASSUME NEW s \in Memories!Scopes, NEW k \in Texts
      PROVE  LET ids == Memories!ForKey([ scope |-> s, key |-> k ])
                 active == Memories!WithStatus(ids, { "active" })
             IN  /\ Memories!Cardinality(Memories!WithStatus(ids, { "active", "disabled" })) <= 1
                 /\ Memories!Cardinality(Memories!WithStatus(ids, { "candidate" })) <= 1
                 /\ \A id \in active : records[id].text = word[s][k] /\ records[id].source = "user"
                 /\ word[s][k] # Memories!None /\ memoryTodo = << >> /\ << s, k >> \notin cut => active # { }
  <2> DEFINE ids == Memories!ForKey([ scope |-> s, key |-> k ])
  <2>1. \A id : id \in ids <=> id \in DOMAIN records /\ records[id].scope = s /\ records[id].key = k
    BY DEF Memories!ForKey
  <2> HIDE DEF ids
  <2>2. Memories!Cardinality(Memories!WithStatus(ids, { "active", "disabled" })) <= 1
    <3>1. \A a, b \in Memories!WithStatus(ids, { "active", "disabled" }) : a = b
      BY <1>1, <2>1 DEF OneOfAKey, InForce, Memories!WithStatus
    <3> QED
      BY <3>1, MemoryAtMostOne
  <2>3. Memories!Cardinality(Memories!WithStatus(ids, { "candidate" })) <= 1
    <3>1. \A a, b \in Memories!WithStatus(ids, { "candidate" }) : a = b
      BY <1>1, <2>1 DEF OneOfAKey, Memories!WithStatus
    <3> QED
      BY <3>1, MemoryAtMostOne
  <2>4. \A id \in Memories!WithStatus(ids, { "active" }) : records[id].text = word[s][k] /\ records[id].source = "user"
    BY <1>1, <2>1 DEF WordInForce, MemoryTypeOK, InForce, Memories!WithStatus
  <2>5. word[s][k] # Memories!None /\ memoryTodo = << >> /\ << s, k >> \notin cut
          => Memories!WithStatus(ids, { "active" }) # { }
    BY <1>1, <2>1 DEF WordInForce, Has, Memories!WithStatus, Memories!None
  <2> QED
    BY <2>2, <2>3, <2>4, <2>5 DEF ids
<1>5. \A id \in DOMAIN records : records[id].text # Memories!Secret
  BY <1>2 DEF MemoryRow, MemoryTexts, Memories!Secret
<1>6. ASSUME NEW hits \in SUBSET Texts, NEW id \in Memories!Recalled(hits),
             NEW other \in Memories!WithStatus(DOMAIN records, { "active" }),
             records[id].key = records[other].key
      PROVE  id = other \/ (records[id].scope = "project" /\ records[other].scope = "user")
  <2>1. /\ id \in DOMAIN records /\ records[id].status = "active" /\ id \in Memories!Visible
        /\ other \in DOMAIN records /\ records[other].status = "active"
    BY <1>6 DEF Memories!Recalled, Memories!Relevant, Memories!Visible, Memories!WithStatus
  <2>2. records[id].scope \in { "user", "project" } /\ records[other].scope \in { "user", "project" }
    BY <1>2, <2>1 DEF MemoryRow, Memories!Scopes
  <2>3. records[id].scope = records[other].scope => id = other
    BY <1>1, <1>6, <2>1 DEF OneOfAKey, InForce
  <2>4. records[id].scope = "user" => records[other].scope # "project"
    BY <1>6, <2>1 DEF Memories!Visible, Memories!ForKey, Memories!WithStatus
  <2> QED
    BY <2>2, <2>3, <2>4
<1> QED
  BY <1>3, <1>4, <1>5, <1>6, MemoryRecalledFew DEF RecallIsTheUsersWord, Memories!RecallIsTheUsersWord

(* What is recalled is the user's last word, whatever runs propose, whatever *)
(* the user decides, and wherever a command is cut short.                    *)
THEOREM RecallStaysTheUsersWord ==
    ASSUME MemoryLimits
    PROVE  Memories!Spec => []RecallIsTheUsersWord
<1>1. Memories!Init => MemoryInv
  BY MemoryInvInit
<1>2. MemoryInv /\ [Memories!Next]_(Memories!memoryVars) => MemoryInv'
  BY MemoryInvStep
<1>3. MemoryInv => RecallIsTheUsersWord
  BY MemoryInvRecalls
<1> QED
  BY <1>1, <1>2, <1>3, PTL DEF Memories!Spec

-------------------------------------------------------------------------------
(* Agents that explore *)

(* What the proof about exploration assumes: the path that stands for those  *)
(* outside is none of the workspace, and the number of slots is a number.    *)
ExploreLimits == Explorations!Outside \notin SourceFiles /\ MaxParallel \in Nat

EvidenceOf == UNION { [ F -> Nat ] : F \in (SUBSET SourceFiles) }
ReportRow ==
    [ status : Explorations!Statuses, agent : AgentIds, evidence : EvidenceOf ]
Finding ==
    [ status : Explorations!Statuses \cup { "none" }, agent : AgentIds,
      cited : SUBSET (SourceFiles \cup { Explorations!Outside }) ]
TaskStates == { "duplicate", "reused", "waiting", "running", "finished", "cancelled" }
Batches == UNION { [ 1..n -> Explorations!Tasks ] : n \in Nat }

ExploreTypeOK ==
    /\ exploreOutcome \in { "none", "running", "stopping", "ok", "invalid_request", "cancelled" }
    /\ exploreFile \in [ SourceFiles -> Nat ]
    /\ agents \in [ AgentIds -> AgentScopes \cup { Explorations!NoScope } ]
    /\ reports \in [ AgentIds -> Seq(ReportRow) ]
    /\ batch.tasks \in Batches
    /\ job \in [ DOMAIN batch.tasks -> TaskStates ]
    /\ found \in [ DOMAIN batch.tasks -> Finding ]

(* Two tasks that are no duplicates have agents of their own.                *)
OwnAgents(tasks, left) ==
    \A i, j \in DOMAIN tasks :
        i \notin left /\ j \notin left /\ tasks[i].id = tasks[j].id => i = j

Left == { i \in DOMAIN job : job[i] = "duplicate" }

(* What is reported of a task, at every stage of it.                         *)
TaskTold(i) ==
    /\ job[i] \in { "reused", "finished" } => found[i].status \in Explorations!Statuses
    /\ job[i] # "reused" => found[i].agent = batch.tasks[i].id
    /\ job[i] \in { "waiting", "running" } => exploreOutcome \in { "running", "stopping" }
    /\ job[i] = "cancelled" => exploreOutcome = "cancelled"

(* The report of a task that was finished is the last one of its agent,      *)
(* unless one before it escapes.                                             *)
TaskStored(i) == i \in Explorations!Fresh /\ Explorations!Before(i) => Explorations!Kept(i)

ExploreInv ==
    /\ ExploreTypeOK
    /\ Cardinality(Explorations!Running) <= MaxParallel
    /\ OwnAgents(batch.tasks, Left)
    /\ \A i \in DOMAIN job : TaskTold(i)
    /\ exploreOutcome \in { "running", "stopping" } => reports = batch.stored
    /\ exploreOutcome = "cancelled" =>
         reports = batch.stored \/ \A i \in DOMAIN job : job[i] # "cancelled" /\ TaskStored(i)
    /\ exploreOutcome = "ok" =>
         Explorations!Escaping = { } /\ \A i \in DOMAIN job : TaskStored(i)

-------------------------------------------------------------------------------
(* Duplicates *)

DuplicatesTo(tasks, dup, m) ==
    dup \in SUBSET (1..m) /\ \A i \in 1..m : i \in dup <=> Explorations!Repeats(tasks, i, dup)

LEMMA OneMoreTask ==
    ASSUME NEW tasks, NEW m \in Nat, NEW dup, DuplicatesTo(tasks, dup, m)
    PROVE  \E new : DuplicatesTo(tasks, new, m + 1)
<1> DEFINE new == IF Explorations!Repeats(tasks, m + 1, dup) THEN dup \cup { m + 1 } ELSE dup
<1>1. dup \in SUBSET (1..m) /\ \A i \in 1..m : i \in dup <=> Explorations!Repeats(tasks, i, dup)
  BY DEF DuplicatesTo
<1>2. ASSUME NEW i \in 1..(m + 1) PROVE 1..(i - 1) \ new = 1..(i - 1) \ dup
  <2>1. m + 1 \notin 1..(i - 1)
    OBVIOUS
  <2> QED
    BY <2>1
<1>3. m + 1 \notin dup
  BY <1>1
<1>4. ASSUME NEW i \in 1..(m + 1)
      PROVE  Explorations!Repeats(tasks, i, new) <=> Explorations!Repeats(tasks, i, dup)
  BY <1>2 DEF Explorations!Repeats
<1>5. ASSUME NEW i \in 1..(m + 1) PROVE i \in new <=> Explorations!Repeats(tasks, i, dup)
  <2>1. CASE i = m + 1
    BY <1>3, <2>1
  <2>2. CASE i # m + 1
    <3>1. i \in 1..m
      BY <2>2
    <3> QED
      BY <1>1, <2>2, <3>1
  <2> QED
    BY <2>1, <2>2
<1>6. new \in SUBSET (1..(m + 1))
  BY <1>1
<1> HIDE DEF new
<1>7. DuplicatesTo(tasks, new, m + 1)
  BY <1>4, <1>5, <1>6 DEF DuplicatesTo
<1> QED
  BY <1>7

LEMMA DuplicatesExist ==
    ASSUME NEW tasks, NEW n \in Nat
    PROVE  \E dup : DuplicatesTo(tasks, dup, n)
<1> DEFINE T == { m \in Nat : ~ \E dup : DuplicatesTo(tasks, dup, m) }
<1>1. CASE T = { }
  BY <1>1
<1>2. CASE T # { }
  <2>1. T \in SUBSET Nat
    OBVIOUS
  <2> HIDE DEF T
  <2>2. PICK x \in T : \A y \in T : x <= y
    BY <1>2, <2>1, LeastOf
  <2> USE DEF T
  <2>3. x \in Nat /\ ~ \E dup : DuplicatesTo(tasks, dup, x)
    BY <2>2
  <2>4. DuplicatesTo(tasks, { }, 0)
    BY DEF DuplicatesTo
  <2>5. x # 0
    BY <2>3, <2>4
  <2>6. x - 1 \in Nat /\ (x - 1) + 1 = x /\ ~(x <= x - 1)
    BY <2>3, <2>5
  <2>7. PICK dup : DuplicatesTo(tasks, dup, x - 1)
    BY <2>2, <2>6
  <2>8. \E new : DuplicatesTo(tasks, new, (x - 1) + 1)
    BY <2>6, <2>7, OneMoreTask
  <2> QED
    BY <2>3, <2>6, <2>8
<1> QED
  BY <1>1, <1>2

LEMMA OthersAreApart ==
    ASSUME NEW tasks \in Batches
    PROVE  OwnAgents(tasks, Explorations!Duplicates(tasks))
<1>1. PICK n \in Nat : tasks \in [ 1..n -> Explorations!Tasks ]
  BY DEF Batches
<1>2. DOMAIN tasks = 1..n
  BY <1>1
<1> DEFINE dup == Explorations!Duplicates(tasks)
<1>3. \E d \in SUBSET DOMAIN tasks :
          \A i \in DOMAIN tasks : i \in d <=> Explorations!Repeats(tasks, i, d)
  BY <1>2, DuplicatesExist DEF DuplicatesTo
<1>4. dup \in SUBSET (1..n) /\ \A i \in 1..n : i \in dup <=> Explorations!Repeats(tasks, i, dup)
  BY <1>2, <1>3 DEF Explorations!Duplicates
<1> HIDE DEF dup
<1>5. ASSUME NEW i \in 1..n, NEW j \in 1..n, i < j, i \notin dup, j \notin dup,
             tasks[i].id = tasks[j].id
      PROVE  FALSE
  <2>1. i \in 1..(j - 1) \ dup
    BY <1>5
  <2>2. Explorations!Repeats(tasks, j, dup)
    BY <1>5, <2>1 DEF Explorations!Repeats
  <2> QED
    BY <1>4, <1>5, <2>2
<1>6. ASSUME NEW i \in 1..n, NEW j \in 1..n, i \notin dup, j \notin dup,
             tasks[i].id = tasks[j].id
      PROVE  i = j
  <2>1. i < j \/ j < i \/ i = j
    OBVIOUS
  <2> QED
    BY <1>5, <1>6, <2>1
<1> QED
  BY <1>2, <1>6 DEF OwnAgents, dup

-------------------------------------------------------------------------------
(* A set of at most one report as a sequence *)

LEMMA ExploreCardinality ==
    ASSUME NEW S
    PROVE  Explorations!Cardinality(S) = Cardinality(S)
BY DEF Explorations!Cardinality, Cardinality

LEMMA ExploreSequence ==
    ASSUME NEW S
    PROVE  Explorations!SetToSeq(S) = Memories!SetToSeq(S)
BY DEF Explorations!SetToSeq, Memories!SetToSeq, Explorations!Cardinality, Memories!Cardinality,
       Explorations!IsInjective, Memories!IsInjective

LEMMA SequenceOfFew ==
    ASSUME NEW x
    PROVE  /\ Explorations!SetToSeq({ }) = << >>
           /\ Explorations!SetToSeq({ x }) = << x >>
BY ExploreSequence, MemoryNoSequence, MemoryOneSequence

-------------------------------------------------------------------------------
(* The invariant *)

LEMMA LatestReport ==
    ASSUME ExploreTypeOK, NEW a \in AgentIds
    PROVE  Explorations!Latest(a) \subseteq ReportRow
<1>1. reports[a] \in Seq(ReportRow)
  BY DEF ExploreTypeOK
<1>2. CASE reports[a] = << >>
  BY <1>2 DEF Explorations!Latest
<1>3. CASE reports[a] # << >>
  <2>1. Len(reports[a]) \in 1..Len(reports[a])
    BY <1>1, <1>3, EmptySeq, LenProperties
  <2>2. reports[a][Len(reports[a])] \in ReportRow
    BY <1>1, <2>1, ElementOfSeq
  <2> QED
    BY <1>3, <2>2 DEF Explorations!Latest, Explorations!Last
<1> QED
  BY <1>2, <1>3

LEMMA CachedReport ==
    ASSUME ExploreTypeOK, NEW t \in Explorations!Tasks
    PROVE  Explorations!Cached(t) \subseteq ReportRow
<1>1. t.id \in AgentIds
  BY DEF Explorations!Tasks
<1>2. Explorations!Latest(t.id) \subseteq ReportRow
  BY <1>1, LatestReport
<1> DEFINE peers == { a \in AgentIds : agents[a] = t.scope }
           peer == CHOOSE a \in peers : TRUE
<1>3. ASSUME peers # { } PROVE Explorations!Latest(peer) \subseteq ReportRow
  <2>1. peer \in AgentIds
    BY <1>3
  <2> QED
    BY <2>1, LatestReport
<1> QED
  BY <1>2, <1>3 DEF Explorations!Cached

LEMMA ExploreInvInit == ASSUME ExploreLimits PROVE Explorations!Init => ExploreInv
<1> SUFFICES ASSUME Explorations!Init PROVE ExploreInv
  OBVIOUS
<1>1. PICK known \in SUBSET AgentIds, scope \in AgentScopes, status \in { "completed", "failed" } :
          /\ agents = [ a \in AgentIds |->
                          IF a \in known THEN scope ELSE Explorations!NoScope ]
          /\ reports = [ a \in AgentIds |->
                           IF a \in known
                           THEN << [ status |-> status, agent |-> a, evidence |-> exploreFile ] >>
                           ELSE << >> ]
  BY DEF Explorations!Init
<1>2. exploreFile \in [ SourceFiles -> Nat ]
  BY DEF Explorations!Init
<1>3. exploreFile \in EvidenceOf
  BY <1>2 DEF EvidenceOf
<1>4. ASSUME NEW a \in AgentIds
      PROVE  << [ status |-> status, agent |-> a, evidence |-> exploreFile ] >> \in Seq(ReportRow)
  <2>1. [ status |-> status, agent |-> a, evidence |-> exploreFile ] \in ReportRow
    BY <1>1, <1>3 DEF ReportRow, Explorations!Statuses
  <2> QED
    BY <2>1
<1>5. << >> \in Seq(ReportRow)
  OBVIOUS
<1>6. reports \in [ AgentIds -> Seq(ReportRow) ]
  BY <1>1, <1>4, <1>5
<1>7. agents \in [ AgentIds -> AgentScopes \cup { Explorations!NoScope } ]
  BY <1>1
<1>8. batch.tasks = << >> /\ job = << >> /\ found = << >> /\ exploreOutcome = "none"
  BY DEF Explorations!Init, Explorations!NoBatch
<1>9. << >> \in Batches
  <2>1. << >> \in [ 1..0 -> Explorations!Tasks ]
    OBVIOUS
  <2> QED
    BY <2>1 DEF Batches
<1>10. DOMAIN << >> = { }
  OBVIOUS
<1>11. job \in [ DOMAIN batch.tasks -> TaskStates ] /\ found \in [ DOMAIN batch.tasks -> Finding ]
  BY <1>8
<1>12. ExploreTypeOK
  BY <1>2, <1>6, <1>7, <1>8, <1>9, <1>11 DEF ExploreTypeOK
<1>13. Explorations!Running = { } /\ Cardinality({ }) = 0 /\ 0 <= MaxParallel
  BY <1>8, <1>10, FS_EmptySet DEF Explorations!Running, ExploreLimits
<1> QED
  BY <1>8, <1>10, <1>12, <1>13 DEF ExploreInv, OwnAgents

LEMMA ExploreDispatch ==
    ASSUME ExploreLimits, ExploreInv, NEW tasks \in Batches, NEW reuse,
           Explorations!Dispatch(tasks, reuse)
    PROVE  ExploreInv'
<1> DEFINE dup == Explorations!Duplicates(tasks)
           Reused(i) == /\ reuse = "auto"
                        /\ \E r \in Explorations!Cached(tasks[i]) : ~Explorations!Stale(r)
           Kept(i) == CHOOSE r \in Explorations!Cached(tasks[i]) : TRUE
           Told(i) == IF i \notin dup /\ Reused(i)
                      THEN [ status |-> Kept(i).status, agent |-> Kept(i).agent,
                             cited |-> DOMAIN Kept(i).evidence ]
                      ELSE [ status |-> "none", agent |-> tasks[i].id, cited |-> { } ]
           State(i) == IF i \in dup THEN "duplicate" ELSE IF Reused(i) THEN "reused" ELSE "waiting"
<1>1. /\ batch'.tasks = tasks /\ batch'.stored = reports
      /\ job' = [ i \in DOMAIN tasks |-> State(i) ]
      /\ found' = [ i \in DOMAIN tasks |-> Told(i) ]
      /\ exploreOutcome' = "running"
      /\ exploreFile' = exploreFile /\ agents' = agents /\ reports' = reports
  BY DEF Explorations!Dispatch
<1>2. ExploreTypeOK
  BY DEF ExploreInv
<1>3. ASSUME NEW i \in DOMAIN tasks PROVE tasks[i] \in Explorations!Tasks
  BY <1>3 DEF Batches
<1>4. ASSUME NEW i \in DOMAIN tasks, Reused(i)
      PROVE  Kept(i) \in ReportRow
  BY <1>2, <1>3, <1>4, CachedReport
<1>5. ASSUME NEW r \in ReportRow PROVE DOMAIN r.evidence \in (SUBSET SourceFiles)
  <2>1. r.evidence \in EvidenceOf
    BY <1>5 DEF ReportRow
  <2>2. PICK F \in (SUBSET SourceFiles) : r.evidence \in [ F -> Nat ]
    BY <2>1 DEF EvidenceOf
  <2> QED
    BY <2>2
<1> HIDE DEF dup, Reused, Kept
<1>6. ASSUME NEW i \in DOMAIN tasks
      PROVE  /\ Told(i) \in Finding
             /\ State(i) = "reused" => Told(i).status \in Explorations!Statuses
             /\ State(i) # "reused" => Told(i).agent = tasks[i].id
             /\ State(i) \in { "duplicate", "reused", "waiting" }
             /\ State(i) = "duplicate" <=> i \in dup
  <2>1. tasks[i].id \in AgentIds
    BY <1>3 DEF Explorations!Tasks
  <2>2. CASE i \notin dup /\ Reused(i)
    <3>1. Kept(i).status \in Explorations!Statuses /\ Kept(i).agent \in AgentIds
      BY <1>4, <2>2 DEF ReportRow
    <3>2. DOMAIN Kept(i).evidence \in SUBSET (SourceFiles \cup { Explorations!Outside })
      BY <1>4, <1>5, <2>2
    <3>3. Told(i) = [ status |-> Kept(i).status, agent |-> Kept(i).agent,
                      cited |-> DOMAIN Kept(i).evidence ]
      BY <2>2
    <3> QED
      BY <2>2, <3>1, <3>2, <3>3 DEF Finding
  <2>3. CASE ~(i \notin dup /\ Reused(i))
    BY <2>1, <2>3 DEF Finding
  <2> QED
    BY <2>2, <2>3
<1> HIDE DEF Told, State
<1>7. job' \in [ DOMAIN tasks -> TaskStates ] /\ found' \in [ DOMAIN tasks -> Finding ]
  BY <1>1, <1>6 DEF TaskStates
<1>8. ExploreTypeOK'
  BY <1>1, <1>2, <1>7 DEF ExploreTypeOK
<1>9. ASSUME NEW i \in DOMAIN tasks PROVE job'[i] = State(i) /\ found'[i] = Told(i)
  BY <1>1, <1>9
<1>10. DOMAIN job' = DOMAIN tasks
  BY <1>7
<1>11. \A i \in DOMAIN job' : TaskTold(i)'
  BY <1>1, <1>6, <1>9, <1>10 DEF TaskTold
<1>12. Explorations!Running' = { } /\ Cardinality({ }) = 0 /\ 0 <= MaxParallel
  BY <1>6, <1>9, <1>10, FS_EmptySet DEF Explorations!Running, ExploreLimits
<1>13. OwnAgents(tasks, dup)
  BY OthersAreApart DEF dup
<1>14. OwnAgents(tasks, Left')
  BY <1>6, <1>9, <1>10, <1>13 DEF OwnAgents, Left
<1> QED
  BY <1>1, <1>8, <1>11, <1>12, <1>14 DEF ExploreInv

(* A step of one task of the batch.                                          *)
LEMMA ExploreTask ==
    ASSUME ExploreLimits, ExploreInv, NEW i \in DOMAIN job,
           \/ Explorations!Start(i)
           \/ \E status \in Explorations!Statuses, cited \in Explorations!Citations :
                Explorations!Finish(i, status, cited)
    PROVE  ExploreInv'
<1>1. /\ exploreOutcome \in { "running", "stopping" } /\ exploreOutcome' = exploreOutcome
      /\ exploreFile' = exploreFile /\ agents' = agents /\ reports' = reports /\ batch' = batch
      /\ job[i] \in { "waiting", "running" }
  BY DEF Explorations!Start, Explorations!Finish, Explorations!Busy
<1>2. /\ job \in [ DOMAIN batch.tasks -> TaskStates ] /\ found \in [ DOMAIN batch.tasks -> Finding ]
      /\ batch.tasks \in Batches
  BY DEF ExploreInv, ExploreTypeOK
<1>3. IsFiniteSet(DOMAIN batch.tasks)
  <2>1. PICK n \in Nat : batch.tasks \in [ 1..n -> Explorations!Tasks ]
    BY <1>2 DEF Batches
  <2>2. DOMAIN batch.tasks = 1..n /\ 1 \in Int /\ n \in Int
    BY <2>1
  <2>3. IsFiniteSet(1..n)
    BY <2>2, FS_Interval
  <2> QED
    BY <2>2, <2>3
<1>4. IsFiniteSet(Explorations!Running) /\ Cardinality(Explorations!Running) \in Nat
  BY <1>2, <1>3, FS_Subset, FS_CardinalityType DEF Explorations!Running
<1>5. \A j \in DOMAIN job : TaskTold(j)
  BY DEF ExploreInv
<1>6. \E state \in { "running", "finished" }, row \in Finding :
        /\ job' = [ job EXCEPT ![i] = state ] /\ found' = [ found EXCEPT ![i] = row ]
        /\ row.agent = found[i].agent
        /\ state = "running" => Cardinality(Explorations!Running) < MaxParallel
        /\ state = "finished" => row.status \in Explorations!Statuses
  <2>1. CASE Explorations!Start(i)
    <3>1. /\ found' = found /\ job' = [ job EXCEPT ![i] = "running" ]
          /\ Cardinality(Explorations!Running) < MaxParallel
      BY <2>1, ExploreCardinality DEF Explorations!Start
    <3>2. found[i] \in Finding /\ found' = [ found EXCEPT ![i] = found[i] ]
      BY <1>2, <3>1
    <3> QED
      BY <3>1, <3>2
  <2>2. ASSUME NEW status \in Explorations!Statuses, NEW cited \in Explorations!Citations,
               Explorations!Finish(i, status, cited)
        PROVE  \E row \in Finding :
                 /\ job' = [ job EXCEPT ![i] = "finished" ] /\ found' = [ found EXCEPT ![i] = row ]
                 /\ row.agent = found[i].agent /\ row.status \in Explorations!Statuses
    <3> DEFINE old == found[i]
               row == [ old EXCEPT !.status = status, !.cited = cited ]
    <3>1. found[i] \in Finding /\ cited \in SUBSET (SourceFiles \cup { Explorations!Outside })
      BY <1>2 DEF Explorations!Citations
    <3>2. row \in Finding /\ row.agent = found[i].agent /\ row.status = status
      BY <3>1 DEF Finding
    <3>3. found' = [ found EXCEPT ![i].status = status, ![i].cited = cited ]
      BY <2>2 DEF Explorations!Finish
    <3>4. found' = [ found EXCEPT ![i] = row ]
      BY <1>2, <3>3
    <3>5. job' = [ job EXCEPT ![i] = "finished" ]
      BY <2>2 DEF Explorations!Finish
    <3> HIDE DEF row
    <3> QED
      BY <3>2, <3>4, <3>5
  <2> QED
    BY <2>1, <2>2
<1>7. PICK state \in { "running", "finished" }, row \in Finding :
        /\ job' = [ job EXCEPT ![i] = state ] /\ found' = [ found EXCEPT ![i] = row ]
        /\ row.agent = found[i].agent
        /\ state = "running" => Cardinality(Explorations!Running) < MaxParallel
        /\ state = "finished" => row.status \in Explorations!Statuses
  BY <1>6
<1>8. /\ job' \in [ DOMAIN batch.tasks -> TaskStates ] /\ job'[i] = state
      /\ \A j \in DOMAIN job : j # i => job'[j] = job[j]
  BY <1>2, <1>7 DEF TaskStates
<1>9. /\ found' \in [ DOMAIN batch.tasks -> Finding ]
      /\ \A j \in DOMAIN job : j # i => found'[j] = found[j]
      /\ found'[i].agent = found[i].agent
      /\ state = "finished" => found'[i].status \in Explorations!Statuses
  BY <1>2, <1>7
<1>10. ExploreTypeOK'
  BY <1>1, <1>8, <1>9 DEF ExploreInv, ExploreTypeOK
<1>11. Cardinality(Explorations!Running') <= MaxParallel
  <2>1. CASE state = "running"
    <3>1. Explorations!Running' = Explorations!Running \cup { i }
      BY <1>2, <1>8, <2>1 DEF Explorations!Running
    <3>2. Cardinality(Explorations!Running \cup { i }) <= Cardinality(Explorations!Running) + 1
      <4> DEFINE R == Explorations!Running
      <4>1. IsFiniteSet(R) /\ Cardinality(R) \in Nat
        BY <1>4
      <4> HIDE DEF R
      <4>2. Cardinality(R \cup { i }) = IF i \in R THEN Cardinality(R) ELSE Cardinality(R) + 1
        BY <4>1, FS_AddElement
      <4>3. Cardinality(R \cup { i }) <= Cardinality(R) + 1
        BY <4>1, <4>2
      <4> QED
        BY <4>3 DEF R
    <3>3. Cardinality(Explorations!Running) + 1 <= MaxParallel
      BY <1>4, <1>7, <2>1 DEF ExploreLimits
    <3>4. Cardinality(Explorations!Running') \in Nat
      BY <1>4, <3>1, FS_AddElement, FS_CardinalityType
    <3> QED
      BY <1>4, <3>1, <3>2, <3>3, <3>4 DEF ExploreLimits
  <2>2. CASE state = "finished"
    <3>1. Explorations!Running' \subseteq Explorations!Running
      BY <1>2, <1>8, <2>2 DEF Explorations!Running
    <3>2. Cardinality(Explorations!Running') <= Cardinality(Explorations!Running)
      BY <1>4, <3>1, FS_Subset
    <3>3. Cardinality(Explorations!Running') \in Nat
      BY <1>4, <3>1, FS_Subset, FS_CardinalityType
    <3> QED
      BY <1>4, <3>2, <3>3 DEF ExploreInv, ExploreLimits
  <2> QED
    BY <2>1, <2>2
<1>12. Left' = Left
  BY <1>1, <1>2, <1>8 DEF Left
<1>13. ASSUME NEW j \in DOMAIN job PROVE TaskTold(j)'
  <2>1. CASE j = i
    BY <1>1, <1>5, <1>8, <1>9, <2>1 DEF TaskTold
  <2>2. CASE j # i
    BY <1>1, <1>5, <1>8, <1>9, <2>2 DEF TaskTold
  <2> QED
    BY <2>1, <2>2
<1>14. DOMAIN job' = DOMAIN job
  BY <1>2, <1>8
<1>15. exploreOutcome' \in { "running", "stopping" } /\ reports' = batch'.stored
  BY <1>1 DEF ExploreInv
<1>16. OwnAgents(batch'.tasks, Left')
  BY <1>1, <1>12 DEF ExploreInv
<1> QED
  BY <1>10, <1>11, <1>13, <1>14, <1>15, <1>16 DEF ExploreInv
(* No task is under way.                                                     *)
LEMMA ExploreRests ==
    ASSUME ExploreLimits, \A i \in DOMAIN job : job[i] # "running"
    PROVE  Explorations!Running = { } /\ Cardinality(Explorations!Running) <= MaxParallel
<1>1. Explorations!Running = { }
  BY DEF Explorations!Running
<1>2. Cardinality({ }) = 0 /\ 0 <= MaxParallel
  BY FS_EmptySet DEF ExploreLimits
<1> QED
  BY <1>1, <1>2

(* The reports that a batch stores of one agent.                             *)
Mine(a) ==
    { j \in Explorations!Fresh : Explorations!Before(j) /\ batch.tasks[j].id = a }
StoredOf(a) == { Explorations!Stored(i) : i \in Mine(a) }

LEMMA StoredRow ==
    ASSUME ExploreTypeOK, NEW i \in Explorations!Fresh, Explorations!Before(i), TaskTold(i)
    PROVE  Explorations!Stored(i) \in ReportRow /\ Explorations!Stored(i).status = found[i].status
<1>1. i \in DOMAIN job /\ job[i] = "finished"
  BY DEF Explorations!Fresh
<1>2. /\ exploreFile \in [ SourceFiles -> Nat ] /\ found[i] \in Finding
      /\ batch.tasks[i] \in Explorations!Tasks
  BY <1>1 DEF ExploreTypeOK, Batches
<1>3. found[i].status \in Explorations!Statuses /\ batch.tasks[i].id \in AgentIds
  BY <1>1, <1>2 DEF TaskTold, Explorations!Tasks
<1>4. Explorations!Outside \notin found[i].cited
  <2>1. CASE i \in Explorations!Escaping
    <3>1. i < i
      BY <2>1 DEF Explorations!Before
    <3>2. PICK n \in Nat : DOMAIN batch.tasks = 1..n
      BY DEF ExploreTypeOK, Batches
    <3>3. i \in Nat
      BY <1>1, <3>2 DEF ExploreTypeOK
    <3> QED
      BY <3>1, <3>3
  <2>2. CASE i \notin Explorations!Escaping
    BY <2>2 DEF Explorations!Escaping
  <2> QED
    BY <2>1, <2>2
<1> DEFINE paths == IF found[i].cited = { }
                    THEN Explorations!Focus(batch.tasks[i].scope) ELSE found[i].cited
           hashes == [ f \in paths |-> exploreFile[f] ]
<1>5. paths \in (SUBSET SourceFiles)
  <2>1. found[i].cited \in (SUBSET (SourceFiles \cup { Explorations!Outside }))
    BY <1>2 DEF Finding
  <2> QED
    BY <1>4, <2>1 DEF Explorations!Focus
<1> HIDE DEF paths
<1>6. hashes \in EvidenceOf
  <2>1. hashes \in [ paths -> Nat ]
    BY <1>2, <1>5
  <2> HIDE DEF hashes
  <2> QED
    BY <1>5, <2>1 DEF EvidenceOf
<1> HIDE DEF hashes
<1>7. Explorations!Stored(i) =
        [ status |-> found[i].status, agent |-> batch.tasks[i].id, evidence |-> hashes ]
  BY DEF Explorations!Stored, hashes, paths
<1> QED
  BY <1>3, <1>6, <1>7 DEF ReportRow

(* It is one report at most, since no two tasks have the agent.              *)
LEMMA StoredOfOne ==
    ASSUME ExploreInv, NEW a
    PROVE  \/ Mine(a) = { } /\ StoredOf(a) = { }
           \/ \E i \in Mine(a) : StoredOf(a) = { Explorations!Stored(i) }
<1>1. ASSUME NEW i \in Mine(a), NEW j \in Mine(a) PROVE i = j
  <2>1. /\ i \in DOMAIN job /\ j \in DOMAIN job /\ job[i] = "finished" /\ job[j] = "finished"
        /\ batch.tasks[i].id = a /\ batch.tasks[j].id = a
    BY <1>1 DEF Mine, Explorations!Fresh
  <2>2. i \notin Left /\ j \notin Left /\ i \in DOMAIN batch.tasks /\ j \in DOMAIN batch.tasks
    BY <2>1 DEF Left, ExploreInv, ExploreTypeOK
  <2> QED
    BY <2>1, <2>2 DEF ExploreInv, OwnAgents
<1>2. CASE Mine(a) = { }
  BY <1>2 DEF StoredOf
<1>3. ASSUME NEW i \in Mine(a) PROVE StoredOf(a) = { Explorations!Stored(i) }
  BY <1>1, <1>3 DEF StoredOf
<1> QED
  BY <1>2, <1>3

LEMMA FirstTask ==
    ASSUME ExploreTypeOK, NEW a, \E k \in DOMAIN batch.tasks : batch.tasks[k].id = a
    PROVE  Explorations!FirstOf(a) \in DOMAIN batch.tasks
<1> DEFINE T == { k \in DOMAIN batch.tasks : batch.tasks[k].id = a }
<1>1. PICK n \in Nat : DOMAIN batch.tasks = 1..n
  BY DEF ExploreTypeOK, Batches
<1>2. T \in SUBSET Nat /\ T # { }
  BY <1>1
<1> HIDE DEF T
<1>3. PICK i \in T : \A j \in T : i <= j
  BY <1>2, LeastOf
<1>4. i \in DOMAIN batch.tasks /\ batch.tasks[i].id = a
      /\ \A j \in DOMAIN batch.tasks : batch.tasks[j].id = a => i <= j
  BY <1>3 DEF T
<1> QED
  BY <1>4 DEF Explorations!FirstOf

LEMMA ExploreGather ==
    ASSUME ExploreLimits, ExploreInv, Explorations!Gather
    PROVE  ExploreInv'
<1>1. /\ exploreFile' = exploreFile /\ batch' = batch /\ job' = job /\ found' = found
      /\ \A i \in DOMAIN job : job[i] \in { "duplicate", "reused", "finished" }
      /\ exploreOutcome' =
           IF exploreOutcome = "stopping" THEN "cancelled"
           ELSE IF Explorations!Escaping = { } THEN "ok" ELSE "invalid_request"
      /\ exploreOutcome \in { "running", "stopping" }
  BY DEF Explorations!Gather, Explorations!Busy
<1>2. reports' = [ a \in AgentIds |-> reports[a] \o Explorations!SetToSeq(StoredOf(a)) ]
  BY DEF Explorations!Gather, StoredOf, Mine
<1>3. ExploreTypeOK
  BY DEF ExploreInv
<1>4. \A i \in DOMAIN job : TaskTold(i)
  BY DEF ExploreInv
<1>5. ASSUME NEW a \in AgentIds, NEW i \in Mine(a), StoredOf(a) = { Explorations!Stored(i) }
      PROVE  /\ reports'[a] \in Seq(ReportRow)
             /\ Explorations!Latest(a)' = { Explorations!Stored(i) }
             /\ Explorations!Stored(i).status = found[i].status
             /\ Len(reports'[a]) = Len(reports[a]) + 1
  <2>1. i \in Explorations!Fresh /\ Explorations!Before(i) /\ i \in DOMAIN job
    BY <1>5 DEF Mine, Explorations!Fresh
  <2>2. /\ Explorations!Stored(i) \in ReportRow
        /\ Explorations!Stored(i).status = found[i].status
    BY <1>3, <1>4, <2>1, StoredRow
  <2> DEFINE x == Explorations!Stored(i)
             old == reports[a]
  <2>3. reports'[a] = old \o << x >>
    BY <1>2, <1>5, SequenceOfFew
  <2>4. x \in ReportRow /\ old \in Seq(ReportRow)
    BY <1>3, <2>2 DEF ExploreTypeOK
  <2> HIDE DEF x, old
  <2>5. /\ old \o << x >> \in Seq(ReportRow) /\ old \o << x >> # << >>
        /\ (old \o << x >>)[Len(old \o << x >>)] = x /\ Len(old \o << x >>) = Len(old) + 1
    BY <2>4
  <2>6. Explorations!Latest(a)' = { x }
    BY <2>3, <2>5 DEF Explorations!Latest, Explorations!Last
  <2> QED
    BY <2>2, <2>3, <2>5, <2>6 DEF x, old
<1>6. ASSUME NEW a \in AgentIds PROVE reports'[a] \in Seq(ReportRow)
  <2>1. CASE Mine(a) = { } /\ StoredOf(a) = { }
    <3>1. reports'[a] = reports[a] \o << >>
      BY <1>2, <2>1, SequenceOfFew
    <3> QED
      BY <1>3, <3>1 DEF ExploreTypeOK
  <2>2. CASE \E i \in Mine(a) : StoredOf(a) = { Explorations!Stored(i) }
    BY <1>5, <2>2
  <2> QED
    BY <2>1, <2>2, StoredOfOne
<1>7. reports' \in [ AgentIds -> Seq(ReportRow) ]
  <2>1. DOMAIN reports' = AgentIds /\ reports' = [ a \in AgentIds |-> reports'[a] ]
    BY <1>2
  <2> QED
    BY <1>6, <2>1
<1>8. agents' \in [ AgentIds -> AgentScopes \cup { Explorations!NoScope } ]
  <2> DEFINE some(a) == \E j \in Explorations!Fresh :
                            (\A k \in Explorations!Escaping : j <= k) /\ batch.tasks[j].id = a
             scope(a) == IF some(a) THEN batch.tasks[Explorations!FirstOf(a)].scope ELSE agents[a]
  <2>1. agents' = [ a \in AgentIds |-> scope(a) ]
    BY DEF Explorations!Gather
  <2>2. ASSUME NEW a \in AgentIds PROVE scope(a) \in AgentScopes \cup { Explorations!NoScope }
    <3>1. CASE ~some(a)
      BY <1>3, <3>1 DEF ExploreTypeOK
    <3>2. CASE some(a)
      <4> DEFINE j == Explorations!FirstOf(a)
      <4>1. \E k \in DOMAIN batch.tasks : batch.tasks[k].id = a
        BY <1>3, <3>2 DEF Explorations!Fresh, ExploreTypeOK
      <4>2. j \in DOMAIN batch.tasks
        BY <1>3, <4>1, FirstTask
      <4> HIDE DEF j
      <4>3. batch.tasks[j] \in Explorations!Tasks
        BY <1>3, <4>2 DEF ExploreTypeOK, Batches
      <4>4. batch.tasks[j].scope \in AgentScopes
        BY <4>3 DEF Explorations!Tasks
      <4> QED
        BY <3>2, <4>4 DEF j
    <3> QED
      BY <3>1, <3>2
  <2> HIDE DEF scope
  <2> QED
    BY <2>1, <2>2
<1>9. ExploreTypeOK'
  BY <1>1, <1>3, <1>7, <1>8 DEF ExploreTypeOK
<1>10. ASSUME NEW i \in DOMAIN job PROVE TaskStored(i)'
  <2>0. /\ Explorations!Fresh' = Explorations!Fresh
        /\ Explorations!Escaping' = Explorations!Escaping
    BY <1>1 DEF Explorations!Fresh, Explorations!Escaping
  <2>1. Explorations!Before(i)' <=> Explorations!Before(i)
    BY <2>0 DEF Explorations!Before
  <2> SUFFICES ASSUME i \in Explorations!Fresh, Explorations!Before(i)
               PROVE  Explorations!Kept(i)'
    BY <2>0, <2>1 DEF TaskStored
  <2>2. i \in Mine(batch.tasks[i].id)
    BY DEF Mine
  <2>3. batch.tasks[i].id \in AgentIds
    BY <1>3 DEF ExploreTypeOK, Batches, Explorations!Tasks
  <2>4. StoredOf(batch.tasks[i].id) = { Explorations!Stored(i) }
    <3>1. PICK j \in Mine(batch.tasks[i].id) :
              StoredOf(batch.tasks[i].id) = { Explorations!Stored(j) }
      BY <2>2, StoredOfOne
    <3>2. Explorations!Stored(i) \in StoredOf(batch.tasks[i].id)
      BY <2>2 DEF StoredOf
    <3> QED
      BY <3>1, <3>2
  <2>5. /\ Explorations!Latest(batch.tasks[i].id)' = { Explorations!Stored(i) }
        /\ Explorations!Stored(i).status = found[i].status
        /\ Len(reports'[batch.tasks[i].id]) = Len(reports[batch.tasks[i].id]) + 1
    BY <1>1, <1>5, <2>2, <2>3, <2>4
  <2>6. reports = batch.stored
    BY <1>1 DEF ExploreInv
  <2>7. /\ Explorations!Latest(batch.tasks[i].id)' = { Explorations!Stored(i) }
        /\ Len(reports'[batch'.tasks[i].id]) = Len(batch'.stored[batch'.tasks[i].id]) + 1
    BY <1>1, <2>5, <2>6
  <2>8. \E r \in Explorations!Latest(batch.tasks[i].id)' : r.status = found'[i].status
    BY <1>1, <2>5, <2>7
  <2> QED
    BY <1>1, <2>7, <2>8 DEF Explorations!Kept
<1>11. Cardinality(Explorations!Running') <= MaxParallel
  <2>1. Explorations!Running' = Explorations!Running
    BY <1>1 DEF Explorations!Running
  <2> QED
    BY <1>1, <2>1, ExploreRests
<1>12. ASSUME NEW i \in DOMAIN job PROVE TaskTold(i)'
  BY <1>1, <1>4 DEF TaskTold
<1>13. OwnAgents(batch'.tasks, Left')
  BY <1>1 DEF ExploreInv, Left
<1>14. /\ exploreOutcome' \notin { "running", "stopping" }
       /\ exploreOutcome' = "ok" => Explorations!Escaping' = { }
       /\ \A i \in DOMAIN job' : job'[i] # "cancelled"
  BY <1>1 DEF Explorations!Escaping, Explorations!Fresh
<1> QED
  BY <1>1, <1>9, <1>10, <1>11, <1>12, <1>13, <1>14 DEF ExploreInv

(* A call that is cancelled goes on until its handler is over.               *)
LEMMA ExploreStop ==
    ASSUME ExploreLimits, ExploreInv, Explorations!Stop
    PROVE  ExploreInv'
<1>1. /\ exploreOutcome = "running" /\ exploreOutcome' = "stopping" /\ exploreFile' = exploreFile
      /\ agents' = agents /\ reports' = reports /\ batch' = batch /\ job' = job /\ found' = found
  BY DEF Explorations!Stop
<1>2. ExploreTypeOK'
  BY <1>1 DEF ExploreInv, ExploreTypeOK
<1>3. Explorations!Running' = Explorations!Running /\ Left' = Left
  BY <1>1 DEF Explorations!Running, Left
<1>4. \A i \in DOMAIN job : TaskTold(i)'
  BY <1>1 DEF ExploreInv, TaskTold
<1> QED
  BY <1>1, <1>2, <1>3, <1>4 DEF ExploreInv

LEMMA ExploreCancel ==
    ASSUME ExploreLimits, ExploreInv, Explorations!Cancel
    PROVE  ExploreInv'
<1>1. /\ exploreOutcome = "stopping" /\ exploreOutcome' = "cancelled"
      /\ exploreFile' = exploreFile /\ agents' = agents /\ reports' = reports
      /\ batch' = batch /\ found' = found
      /\ job' = [ i \in DOMAIN job |->
                    IF job[i] \in { "waiting", "running" } THEN "cancelled" ELSE job[i] ]
  BY DEF Explorations!Cancel
<1>2. job \in [ DOMAIN batch.tasks -> TaskStates ]
  BY DEF ExploreInv, ExploreTypeOK
<1>3. job' \in [ DOMAIN batch.tasks -> TaskStates ] /\ DOMAIN job' = DOMAIN job
  BY <1>1, <1>2 DEF TaskStates
<1>4. ASSUME NEW i \in DOMAIN job
      PROVE  \/ job[i] \in { "waiting", "running" } /\ job'[i] = "cancelled"
             \/ job[i] \notin { "waiting", "running" } /\ job'[i] = job[i]
  BY <1>1
<1>5. ExploreTypeOK'
  BY <1>1, <1>3 DEF ExploreInv, ExploreTypeOK
<1>6. ASSUME NEW i \in DOMAIN job PROVE TaskTold(i)'
  <2>1. TaskTold(i)
    BY DEF ExploreInv
  <2> QED
    BY <1>1, <1>4, <2>1 DEF TaskTold
<1>7. Left' = Left
  BY <1>3, <1>4 DEF Left
<1>8. OwnAgents(batch'.tasks, Left')
  BY <1>1, <1>7 DEF ExploreInv
<1>9. Cardinality(Explorations!Running') <= MaxParallel
  <2>1. Explorations!Running' = { }
    BY <1>3, <1>4 DEF Explorations!Running
  <2> QED
    BY <2>1, FS_EmptySet DEF ExploreLimits
<1>10. reports' = batch'.stored
  BY <1>1 DEF ExploreInv
<1> QED
  BY <1>1, <1>3, <1>5, <1>6, <1>8, <1>9, <1>10 DEF ExploreInv

LEMMA ExploreUnchanged ==
    ASSUME ExploreInv, UNCHANGED << agents, reports, batch, job, found, exploreOutcome >>,
           exploreFile' \in [ SourceFiles -> Nat ]
    PROVE  ExploreInv'
<1>1. ExploreTypeOK'
  BY DEF ExploreInv, ExploreTypeOK
<1>2. Explorations!Running' = Explorations!Running /\ Left' = Left
  BY DEF Explorations!Running, Left
<1>3. \A i \in DOMAIN job : TaskTold(i)' = TaskTold(i)
  BY DEF TaskTold
<1>4. \A i \in DOMAIN job : TaskStored(i)' = TaskStored(i)
  BY DEF TaskStored, Explorations!Kept, Explorations!Latest, Explorations!Fresh, Explorations!Before,
         Explorations!Escaping
<1>5. Explorations!Escaping' = Explorations!Escaping
  BY DEF Explorations!Escaping, Explorations!Fresh
<1> QED
  BY <1>1, <1>2, <1>3, <1>4, <1>5 DEF ExploreInv

LEMMA ExploreInvStep ==
    ASSUME ExploreLimits
    PROVE  ExploreInv /\ [Explorations!Next]_(Explorations!exploreVars) => ExploreInv'
<1> SUFFICES ASSUME ExploreInv, [Explorations!Next]_(Explorations!exploreVars)
             PROVE  ExploreInv'
  OBVIOUS
<1>1. ASSUME NEW n \in 1..MaxTasks, NEW tasks \in [ 1..n -> Explorations!Tasks ],
             NEW reuse \in { "auto", "no_reuse" }, Explorations!Dispatch(tasks, reuse)
      PROVE  ExploreInv'
  <2>1. n \in Nat
    OBVIOUS
  <2>2. tasks \in Batches
    BY <2>1 DEF Batches
  <2> QED
    BY <1>1, <2>2, ExploreDispatch
<1>2. ASSUME NEW i \in DOMAIN job,
             \/ Explorations!Start(i)
             \/ \E status \in Explorations!Statuses, cited \in Explorations!Citations :
                  Explorations!Finish(i, status, cited)
      PROVE  ExploreInv'
  BY <1>2, ExploreTask
<1>3. CASE Explorations!Gather
  BY <1>3, ExploreGather
<1>4. CASE Explorations!Cancel \/ Explorations!Stop
  BY <1>4, ExploreCancel, ExploreStop
<1>5. ASSUME NEW f \in SourceFiles, Explorations!Change(f) PROVE ExploreInv'
  <2>1. exploreFile \in [ SourceFiles -> Nat ]
    BY DEF ExploreInv, ExploreTypeOK
  <2>2. /\ UNCHANGED << agents, reports, batch, job, found, exploreOutcome >>
        /\ exploreFile' = [ exploreFile EXCEPT ![f] = @ + 1 ]
    BY <1>5 DEF Explorations!Change
  <2>3. exploreFile' \in [ SourceFiles -> Nat ]
    BY <2>1, <2>2
  <2> QED
    BY <2>2, <2>3, ExploreUnchanged
<1>6. CASE UNCHANGED Explorations!exploreVars
  <2>1. /\ UNCHANGED << agents, reports, batch, job, found, exploreOutcome >>
        /\ exploreFile' = exploreFile
    BY <1>6 DEF Explorations!exploreVars
  <2>2. exploreFile' \in [ SourceFiles -> Nat ]
    BY <2>1 DEF ExploreInv, ExploreTypeOK
  <2> QED
    BY <2>1, <2>2, ExploreUnchanged
<1> QED
  BY <1>1, <1>2, <1>3, <1>4, <1>5, <1>6 DEF Explorations!Next

-------------------------------------------------------------------------------
(* What it says of a batch *)

Failed == { "failed", "invalid_output" }
Failures ==
    { r.agent : r \in { x \in Explorations!Range(found) : x.status \in Failed } }

LEMMA FailureCounts ==
    ASSUME NEW i \in DOMAIN found, found[i].status \in Failed
    PROVE  found[i].agent \in Failures
BY DEF Failures, Explorations!Range

LEMMA BatchStatusTells ==
    /\ Explorations!TheBatchStatus = "completed" => Failures = { }
    /\ \A i \in DOMAIN batch.tasks :
         batch.tasks[i].critical /\ batch.tasks[i].id \in Failures
           => Explorations!TheBatchStatus = "failed"
<1> DEFINE done == \E r \in Explorations!Range(found) : r.status = "completed"
<1>1. Explorations!TheBatchStatus = Explorations!BatchStatus(batch.tasks, Failures, done)
  BY DEF Explorations!TheBatchStatus, Failures, Failed
<1> HIDE DEF done
<1> QED
  BY <1>1 DEF Explorations!BatchStatus

LEMMA ExploreInvAccounts == ASSUME ExploreLimits PROVE ExploreInv => BatchesAreAccounted
<1> SUFFICES ASSUME ExploreInv PROVE BatchesAreAccounted
  OBVIOUS
<1>1. /\ DOMAIN job = DOMAIN batch.tasks /\ DOMAIN found = DOMAIN batch.tasks
      /\ \A i \in DOMAIN found : found[i] \in Finding
      /\ \A i \in DOMAIN job : TaskTold(i)
  BY DEF ExploreInv, ExploreTypeOK
<1>2. Explorations!TypeOK
  BY <1>1 DEF ExploreInv, ExploreTypeOK, Explorations!TypeOK
<1>3. Explorations!Cardinality(Explorations!Running) <= MaxParallel
  BY ExploreCardinality DEF ExploreInv
<1>4. ~Explorations!Busy => Explorations!Running = { }
  BY <1>1 DEF TaskTold, Explorations!Running, Explorations!Busy
<1>5. exploreOutcome = "cancelled" =>
        \/ reports = batch.stored
        \/ \A i \in DOMAIN job :
             /\ job[i] # "cancelled"
             /\ i \in Explorations!Fresh /\ Explorations!Before(i) => Explorations!Kept(i)
  BY DEF ExploreInv, TaskStored
<1>6. ASSUME exploreOutcome = "ok"
      PROVE  /\ \A i \in DOMAIN job :
                  job[i] # "duplicate" => found[i].status \in Explorations!Statuses
             /\ \A i \in Explorations!Fresh : Explorations!Kept(i)
             /\ Explorations!TheBatchStatus = "completed" =>
                  \A i \in DOMAIN found : found[i].status \in { "none", "completed" }
             /\ (\E i \in Explorations!Fresh :
                    batch.tasks[i].critical /\ found[i].status # "completed")
                  => Explorations!TheBatchStatus = "failed"
  <2>1. ASSUME NEW i \in DOMAIN job, job[i] # "duplicate"
        PROVE  found[i].status \in Explorations!Statuses
    <3>1. job[i] \in TaskStates
      BY DEF ExploreInv, ExploreTypeOK
    <3> QED
      BY <1>1, <1>6, <2>1, <3>1 DEF TaskTold, TaskStates
  <2>2. ASSUME NEW i \in Explorations!Fresh PROVE Explorations!Kept(i)
    <3>1. i \in DOMAIN job /\ Explorations!Before(i)
      BY <1>6 DEF Explorations!Fresh, Explorations!Before, ExploreInv
    <3> QED
      BY <1>6, <3>1 DEF ExploreInv, TaskStored
  <2>3. ASSUME NEW i \in DOMAIN found, Explorations!TheBatchStatus = "completed"
        PROVE  found[i].status \in { "none", "completed" }
    <3>1. found[i].status \in Explorations!Statuses \cup { "none" }
      BY <1>1 DEF Finding
    <3>2. found[i].status \notin Failed
      BY <2>3, FailureCounts, BatchStatusTells
    <3> QED
      BY <3>1, <3>2 DEF Failed, Explorations!Statuses
  <2>4. ASSUME NEW i \in Explorations!Fresh, batch.tasks[i].critical,
               found[i].status # "completed"
        PROVE  Explorations!TheBatchStatus = "failed"
    <3>1. i \in DOMAIN job /\ job[i] = "finished"
      BY DEF Explorations!Fresh
    <3>2. found[i].status \in Explorations!Statuses /\ found[i].agent = batch.tasks[i].id
      BY <1>1, <3>1 DEF TaskTold
    <3>3. found[i].status \in Failed
      BY <2>4, <3>2 DEF Failed, Explorations!Statuses
    <3> QED
      BY <1>1, <2>4, <3>1, <3>2, <3>3, FailureCounts, BatchStatusTells
  <2> QED
    BY <2>1, <2>2, <2>3, <2>4
<1> QED
  BY <1>2, <1>3, <1>4, <1>5, <1>6 DEF BatchesAreAccounted, Explorations!BatchesAreAccounted

(* Whatever is asked of agents, in batches of any size and on any number of  *)
(* slots, and whatever becomes of them: no more run than slots exist, each   *)
(* report of a call that succeeds is there, stored and counted, and a        *)
(* cancelled call stores all the reports of a batch that came to its end in  *)
(* the grace period, or none (ExplorationCoordinator.dispatch,               *)
(* _run_parallel, _batch_status, _stop_task).                                *)
THEOREM BatchesStayAccounted ==
    ASSUME ExploreLimits
    PROVE  Explorations!Spec => []BatchesAreAccounted
<1>1. Explorations!Init => ExploreInv
  BY ExploreInvInit
<1>2. ExploreInv /\ [Explorations!Next]_(Explorations!exploreVars) => ExploreInv'
  BY ExploreInvStep
<1>3. ExploreInv => BatchesAreAccounted
  BY ExploreInvAccounts
<1> QED
  BY <1>1, <1>2, <1>3, PTL DEF Explorations!Spec

-------------------------------------------------------------------------------
(* The tools of a session *)

AList(x) == x \in Seq({ x[i] : i \in DOMAIN x })

(* What the proof about the catalog assumes: there are finitely many         *)
(* built-in tools, with different names, and only they say that they are     *)
(* built in; what extensions, servers and skill directories hold are lists.  *)
CatalogLimits ==
    /\ MaxOpened \in Nat
    /\ IsFiniteSet(Builtins) /\ IsFiniteSet(Late)
    /\ \A t \in Builtins \cup Late : t.source = "builtin"
    /\ \A t, u \in Builtins \cup Late : t.name = u.name => t = u
    /\ Builtins \cap Late = { }
    /\ \A x \in Extensions \cup Offered :
         AList(x) /\ \A i \in DOMAIN x : x[i].source # "builtin"
    /\ \A x \in Packages : AList(x)

(* Every registration has its tool's name, and an id of its own that tells   *)
(* the tool; reserved names are those of built-in tools.                     *)
InRegistry(tools, count) ==
    /\ count \in Nat
    /\ \A n \in DOMAIN tools :
         /\ tools[n].tool.name = n
         /\ \E c \in 1..count : tools[n].id = << tools[n].tool, c >>
         /\ n \in Catalogs!Reserved => tools[n].tool.source = "builtin"
    /\ \A n, m \in DOMAIN tools : n # m => tools[n].id[2] # tools[m].id[2]

SkillsApart(list) ==
    \A i, j \in DOMAIN list : i # j =>
        /\ list[i].name # list[j].name
        /\ list[i].command # "none" => list[i].command # list[j].command

Told(id, t) == \E c \in Nat : id = << t, c >>

CatalogInv ==
    /\ extensions \in Extensions /\ packages \in Packages
    /\ InRegistry(catalogRegistry, revision)
    /\ catalogOpened \in 0..MaxOpened /\ discovered \in BOOLEAN
    /\ catalogOpened > 0 => \A t \in Builtins \cup Late :
         t.name \in DOMAIN catalogRegistry /\ catalogRegistry[t.name].tool = t
    /\ SkillsApart(skills)
    /\ \A n \in DOMAIN catalogShown : Told(catalogShown[n].id, catalogShown[n].tool)
    /\ request # Catalogs!None => Told(request.id, request.seen)
    /\ ran.state = "ran" => ran.tool = ran.seen

-------------------------------------------------------------------------------
(* Registering *)

(* What k tools of a list have made of a registry.                           *)
Registered(old, tools, s, k) ==
    /\ s = [ tools |-> s.tools, count |-> s.count, warnings |-> s.warnings ]
    /\ InRegistry(s.tools, s.count)
    /\ \A n \in DOMAIN old.tools : n \in DOMAIN s.tools /\ s.tools[n] = old.tools[n]
    /\ \A n \in DOMAIN s.tools \ DOMAIN old.tools : \E j \in 1..k : s.tools[n].tool = tools[j]
    /\ \A j \in 1..k : tools[j].source = "builtin" => tools[j].name \in DOMAIN s.tools

LEMMA RegisterOne ==
    ASSUME NEW old, NEW tools, NEW s, NEW k \in Nat, k # 0, Registered(old, tools, s, k - 1)
    PROVE  Registered(old, tools, Catalogs!Register(s, tools[k]), k)
<1> DEFINE t == tools[k]
           new == Catalogs!Register(s, t)
<1>1. /\ s = [ tools |-> s.tools, count |-> s.count, warnings |-> s.warnings ]
      /\ InRegistry(s.tools, s.count)
      /\ \A n \in DOMAIN old.tools : n \in DOMAIN s.tools /\ s.tools[n] = old.tools[n]
      /\ \A n \in DOMAIN s.tools \ DOMAIN old.tools :
           \E j \in 1..(k - 1) : s.tools[n].tool = tools[j]
      /\ \A j \in 1..(k - 1) : tools[j].source = "builtin" => tools[j].name \in DOMAIN s.tools
  BY DEF Registered
<1>2. \A j \in 1..k : j \in 1..(k - 1) \/ j = k
  OBVIOUS
<1>3. k \in 1..k /\ \A j \in 1..(k - 1) : j \in 1..k
  OBVIOUS
<1> DEFINE T == s.tools
           c == s.count
           w == s.warnings
<1>4. s = [ tools |-> T, count |-> c, warnings |-> w ] /\ InRegistry(T, c)
  BY <1>1
<1> HIDE DEF t, T, c, w
<1>5. CASE Catalogs!Refuses(T, t)
  <2>1. new = [ s EXCEPT !.warnings = @ \cup { t } ]
    BY <1>5 DEF Catalogs!Register, T
  <2>2. new.tools = T /\ new.count = c
        /\ new = [ tools |-> T, count |-> c, warnings |-> w \cup { t } ]
    BY <1>4, <2>1
  <2> HIDE DEF new
  <2>3. t.source = "builtin" => t.name \in DOMAIN T
    BY <1>5 DEF Catalogs!Refuses
  <2>4. new = [ tools |-> new.tools, count |-> new.count, warnings |-> new.warnings ]
    BY <2>2
  <2>5. InRegistry(new.tools, new.count)
    BY <1>4, <2>2
  <2>6. \A n \in DOMAIN old.tools : n \in DOMAIN new.tools /\ new.tools[n] = old.tools[n]
    BY <1>1, <2>2 DEF T
  <2>7. \A n \in DOMAIN new.tools \ DOMAIN old.tools : \E j \in 1..k : new.tools[n].tool = tools[j]
    BY <1>1, <1>3, <2>2 DEF T
  <2>8. \A j \in 1..k : tools[j].source = "builtin" => tools[j].name \in DOMAIN new.tools
    BY <1>1, <1>2, <2>2, <2>3 DEF T, t
  <2> QED
    BY <2>4, <2>5, <2>6, <2>7, <2>8 DEF Registered, new, t
<1>6. CASE ~Catalogs!Refuses(T, t)
  <2> DEFINE row == [ tool |-> t, id |-> << t, c + 1 >> ]
             U == [ n \in DOMAIN T \cup { t.name } |-> IF n = t.name THEN row ELSE T[n] ]
  <2>1. new = [ tools |-> U, count |-> c + 1, warnings |-> w ]
    <3>1. new = [ s EXCEPT !.count = @ + 1, !.tools = U ]
      BY <1>6 DEF Catalogs!Register, T, c
    <3> HIDE DEF U, new
    <3> QED
      BY <1>4, <3>1
  <2>2. t.name \notin DOMAIN T /\ (t.name \in Catalogs!Reserved => t.source = "builtin")
    BY <1>6 DEF Catalogs!Refuses
  <2>3. /\ DOMAIN U = DOMAIN T \cup { t.name } /\ U[t.name] = row
        /\ \A n \in DOMAIN T : U[n] = T[n]
    BY <2>2
  <2>4. row.tool = t /\ row.id = << t, c + 1 >> /\ row.id[2] = c + 1
    OBVIOUS
  <2>5. new.tools = U /\ new.count = c + 1
        /\ new = [ tools |-> new.tools, count |-> new.count, warnings |-> new.warnings ]
    BY <2>1
  <2> HIDE DEF U, row, new
  <2>6. /\ c \in Nat
        /\ \A n \in DOMAIN T :
             /\ T[n].tool.name = n
             /\ \E d \in 1..c : T[n].id = << T[n].tool, d >>
             /\ n \in Catalogs!Reserved => T[n].tool.source = "builtin"
        /\ \A n, m \in DOMAIN T : n # m => T[n].id[2] # T[m].id[2]
    BY <1>4 DEF InRegistry
  <2>7. \A n \in DOMAIN T : T[n].id[2] \in 1..c
    BY <2>6
  <2>8. InRegistry(U, c + 1)
    <3>1. c + 1 \in Nat /\ c + 1 \in 1..(c + 1) /\ \A d \in 1..c : d \in 1..(c + 1) /\ d # c + 1
      BY <2>6
    <3>2. ASSUME NEW n \in DOMAIN U
          PROVE  /\ U[n].tool.name = n
                 /\ \E d \in 1..(c + 1) : U[n].id = << U[n].tool, d >>
                 /\ n \in Catalogs!Reserved => U[n].tool.source = "builtin"
      <4>1. CASE n = t.name
        BY <2>2, <2>3, <2>4, <3>1, <4>1
      <4>2. CASE n \in DOMAIN T
        <5>1. PICK d \in 1..c : T[n].id = << T[n].tool, d >>
          BY <2>6, <4>2
        <5> QED
          BY <2>3, <2>6, <3>1, <4>2, <5>1
      <4> QED
        BY <2>3, <4>1, <4>2
    <3>3. ASSUME NEW n \in DOMAIN U, NEW m \in DOMAIN U, n # m PROVE U[n].id[2] # U[m].id[2]
      <4>1. CASE n \in DOMAIN T /\ m \in DOMAIN T
        BY <2>3, <2>6, <3>3, <4>1
      <4>2. CASE n = t.name /\ m \in DOMAIN T
        BY <2>3, <2>4, <2>7, <3>1, <4>2
      <4>3. CASE n \in DOMAIN T /\ m = t.name
        BY <2>3, <2>4, <2>7, <3>1, <4>3
      <4> QED
        BY <2>3, <3>3, <4>1, <4>2, <4>3
    <3> QED
      BY <3>1, <3>2, <3>3 DEF InRegistry
  <2>9. \A n \in DOMAIN old.tools : n \in DOMAIN new.tools /\ new.tools[n] = old.tools[n]
    BY <1>1, <2>3, <2>5 DEF T
  <2>10. ASSUME NEW n \in DOMAIN new.tools \ DOMAIN old.tools
         PROVE  \E j \in 1..k : new.tools[n].tool = tools[j]
    <3>1. CASE n = t.name
      BY <1>3, <2>3, <2>4, <2>5, <3>1 DEF t
    <3>2. CASE n \in DOMAIN T
      BY <1>1, <1>3, <2>3, <2>5, <3>2 DEF T
    <3> QED
      BY <2>3, <2>5, <3>1, <3>2
  <2>11. \A j \in 1..k : tools[j].source = "builtin" => tools[j].name \in DOMAIN new.tools
    BY <1>1, <1>2, <2>3, <2>5 DEF T, t
  <2>12. InRegistry(new.tools, new.count)
    BY <2>5, <2>8
  <2> QED
    BY <2>5, <2>9, <2>10, <2>11, <2>12 DEF Registered, new, t
<1> QED
  BY <1>5, <1>6

RegisteredTo(after, old, tools, m) ==
    after = [ n \in 0..m |-> IF n = 0 THEN old ELSE Catalogs!Register(after[n - 1], tools[n]) ]

LEMMA RegisteredMore ==
    ASSUME NEW old, NEW tools, NEW k \in Nat, k # 0, NEW s, RegisteredTo(s, old, tools, k - 1)
    PROVE  \E after : RegisteredTo(after, old, tools, k)
<1>1. k - 1 \in Nat
  OBVIOUS
<1>2. \A n \in 0..(k - 1) :
        s[n] = IF n = 0 THEN old ELSE Catalogs!Register(s[n - 1], tools[n])
  BY DEF RegisteredTo
<1> DEFINE t == [ n \in 0..k |-> IF n < k THEN s[n] ELSE Catalogs!Register(s[k - 1], tools[k]) ]
<1>3. t[k] = Catalogs!Register(s[k - 1], tools[k])
  OBVIOUS
<1>4. \A n \in 0..(k - 1) : t[n] = s[n]
  BY <1>1
<1>5. t = [ n \in 0..k |-> t[n] ]
  OBVIOUS
<1> HIDE DEF t
<1>6. ASSUME NEW n \in 0..k
      PROVE  t[n] = IF n = 0 THEN old ELSE Catalogs!Register(t[n - 1], tools[n])
  <2>1. CASE n = k
    <3>1. t[k - 1] = s[k - 1]
      BY <1>1, <1>4
    <3> QED
      BY <1>3, <2>1, <3>1
  <2>2. CASE n # k
    <3>1. n \in 0..(k - 1) /\ (n # 0 => n - 1 \in 0..(k - 1))
      BY <2>2
    <3>2. t[n] = s[n] /\ (n # 0 => t[n - 1] = s[n - 1])
      BY <1>4, <3>1
    <3> QED
      BY <1>2, <3>1, <3>2
  <2> QED
    BY <2>1, <2>2
<1>7. RegisteredTo(t, old, tools, k)
  BY <1>5, <1>6 DEF RegisteredTo
<1> QED
  BY <1>7

LEMMA RegisteredExists ==
    ASSUME NEW old, NEW tools, NEW m \in Nat
    PROVE  \E after : RegisteredTo(after, old, tools, m)
<1> DEFINE T == { k \in Nat : ~ \E after : RegisteredTo(after, old, tools, k) }
<1> SUFFICES ASSUME T # { } PROVE FALSE
  OBVIOUS
<1>1. T \in SUBSET Nat
  OBVIOUS
<1> HIDE DEF T
<1>2. PICK k \in T : \A j \in T : k <= j
  BY <1>1, LeastOf
<1> USE DEF T
<1>3. CASE k = 0
  <2>1. RegisteredTo([ n \in 0..0 |-> old ], old, tools, 0)
    BY DEF RegisteredTo
  <2> QED
    BY <1>2, <1>3, <2>1
<1>4. CASE k # 0
  <2>1. k - 1 \in Nat /\ k - 1 \notin T
    BY <1>2, <1>4
  <2>2. PICK s : RegisteredTo(s, old, tools, k - 1)
    BY <2>1
  <2> QED
    BY <1>2, <1>4, <2>2, RegisteredMore
<1> QED
  BY <1>3, <1>4

(* What a list of any length makes of a registry.                            *)
LEMMA RegisterMany ==
    ASSUME NEW old, NEW tools, Len(tools) \in Nat,
           old = [ tools |-> old.tools, count |-> old.count, warnings |-> old.warnings ],
           InRegistry(old.tools, old.count)
    PROVE  Registered(old, tools, Catalogs!RegisterAll(old, tools), Len(tools))
<1> DEFINE m == Len(tools)
           after == CHOOSE after : RegisteredTo(after, old, tools, m)
<1>1. m \in Nat
  OBVIOUS
<1>2. Catalogs!RegisterAll(old, tools) = after[m]
  BY DEF Catalogs!RegisterAll, RegisteredTo
<1> HIDE DEF m
<1>3. RegisteredTo(after, old, tools, m)
  BY <1>1, RegisteredExists
<1> HIDE DEF after
<1>4. \A n \in 0..m : after[n] = IF n = 0 THEN old ELSE Catalogs!Register(after[n - 1], tools[n])
  BY <1>3 DEF RegisteredTo
<1> DEFINE T == { n \in 0..m : ~Registered(old, tools, after[n], n) }
<1>5. ASSUME T # { } PROVE FALSE
  <2>1. T \in SUBSET Nat
    BY <1>1
  <2> HIDE DEF T
  <2>2. PICK n \in T : \A j \in T : n <= j
    BY <1>5, <2>1, LeastOf
  <2> USE DEF T
  <2>3. n \in 0..m /\ ~Registered(old, tools, after[n], n)
    BY <2>2
  <2>4. CASE n = 0
    <3>1. after[0] = old
      BY <1>1, <1>4
    <3>2. Registered(old, tools, old, 0)
      BY DEF Registered
    <3> QED
      BY <2>3, <2>4, <3>1, <3>2
  <2>5. CASE n # 0
    <3>1. n \in Nat /\ n - 1 \in 0..m /\ ~(n <= n - 1)
      BY <1>1, <2>3, <2>5
    <3>2. Registered(old, tools, after[n - 1], n - 1)
      BY <2>2, <3>1
    <3>3. after[n] = Catalogs!Register(after[n - 1], tools[n])
      BY <1>4, <2>3, <2>5
    <3> HIDE DEF T
    <3>4. Registered(old, tools, Catalogs!Register(after[n - 1], tools[n]), n)
      BY <2>5, <3>1, <3>2, RegisterOne
    <3> QED
      BY <2>3, <3>3, <3>4
  <2> QED
    BY <2>4, <2>5
<1>6. m \in 0..m
  BY <1>1
<1>7. Registered(old, tools, after[m], m)
  BY <1>5, <1>6
<1> QED
  BY <1>2, <1>7 DEF m

-------------------------------------------------------------------------------
(* Loading skills *)

LEMMA PackageAdded ==
    ASSUME NEW P, NEW p \in P, NEW list \in Seq(P), NEW errors, SkillsApart(list),
           NEW new, new = Catalogs!AddPackage([ skills |-> list, errors |-> errors ], p)
    PROVE  /\ new = [ skills |-> new.skills, errors |-> new.errors ]
           /\ new.skills \in Seq(P) /\ SkillsApart(new.skills)
<1> DEFINE Taken == \E q \in Catalogs!Range(list) :
                        q.name = p.name \/ (p.command # "none" /\ q.command = p.command)
<1>1. CASE ~p.valid \/ Taken
  <2>1. new = [ skills |-> list, errors |-> errors \cup { p } ]
    BY <1>1 DEF Catalogs!AddPackage
  <2>2. new.skills = list /\ new.errors = errors \cup { p }
    BY <2>1
  <2> QED
    BY <2>1, <2>2
<1>2. CASE ~(~p.valid \/ Taken)
  <2>1. new = [ skills |-> Append(list, p), errors |-> errors ]
    BY <1>2 DEF Catalogs!AddPackage
  <2>2. \A i \in DOMAIN list :
          list[i].name # p.name /\ (p.command # "none" => list[i].command # p.command)
    BY <1>2 DEF Catalogs!Range
  <2>3. DOMAIN list = 1..Len(list) /\ Len(list) \in Nat
    BY LenProperties
  <2> DEFINE l == Append(list, p)
             n == Len(list)
  <2>4. /\ l \in Seq(P) /\ DOMAIN l = 1..(n + 1)
        /\ l[n + 1] = p /\ \A i \in 1..n : l[i] = list[i]
    OBVIOUS
  <2> HIDE DEF l, n
  <2>5. ASSUME NEW i \in DOMAIN l, NEW j \in DOMAIN l, i # j
        PROVE  l[i].name # l[j].name /\ (l[i].command # "none" => l[i].command # l[j].command)
    <3>1. i \in 1..n \/ i = n + 1
      BY <2>3, <2>4 DEF n
    <3>2. j \in 1..n \/ j = n + 1
      BY <2>3, <2>4 DEF n
    <3>3. CASE i \in 1..n /\ j \in 1..n
      BY <2>3, <2>4, <2>5, <3>3 DEF SkillsApart, n
    <3>4. CASE i \in 1..n /\ j = n + 1
      BY <2>2, <2>3, <2>4, <3>4 DEF n
    <3>5. CASE i = n + 1 /\ j \in 1..n
      BY <2>2, <2>3, <2>4, <3>5 DEF n
    <3> QED
      BY <2>5, <3>1, <3>2, <3>3, <3>4, <3>5
  <2>6. SkillsApart(l)
    BY <2>5 DEF SkillsApart
  <2>7. new = [ skills |-> l, errors |-> errors ]
    BY <2>1 DEF l
  <2>8. new.skills = l /\ new.errors = errors
    BY <2>7
  <2> QED
    BY <2>4, <2>6, <2>7, <2>8
<1> QED
  BY <1>1, <1>2

LoadedTo(after, list, m) ==
    after = [ n \in 0..m |-> IF n = 0 THEN Catalogs!NoSkills ELSE Catalogs!AddPackage(after[n - 1], list[n]) ]

LEMMA LoadedMore ==
    ASSUME NEW list, NEW k \in Nat, k # 0, NEW s, LoadedTo(s, list, k - 1)
    PROVE  \E after : LoadedTo(after, list, k)
<1>1. k - 1 \in Nat
  OBVIOUS
<1>2. \A n \in 0..(k - 1) :
        s[n] = IF n = 0 THEN Catalogs!NoSkills ELSE Catalogs!AddPackage(s[n - 1], list[n])
  BY DEF LoadedTo
<1> DEFINE t == [ n \in 0..k |-> IF n < k THEN s[n] ELSE Catalogs!AddPackage(s[k - 1], list[k]) ]
<1>3. t[k] = Catalogs!AddPackage(s[k - 1], list[k])
  OBVIOUS
<1>4. \A n \in 0..(k - 1) : t[n] = s[n]
  BY <1>1
<1>5. t = [ n \in 0..k |-> t[n] ]
  OBVIOUS
<1> HIDE DEF t
<1>6. ASSUME NEW n \in 0..k
      PROVE  t[n] = IF n = 0 THEN Catalogs!NoSkills ELSE Catalogs!AddPackage(t[n - 1], list[n])
  <2>1. CASE n = k
    <3>1. t[k - 1] = s[k - 1]
      BY <1>1, <1>4
    <3> QED
      BY <1>3, <2>1, <3>1
  <2>2. CASE n # k
    <3>1. n \in 0..(k - 1) /\ (n # 0 => n - 1 \in 0..(k - 1))
      BY <2>2
    <3>2. t[n] = s[n] /\ (n # 0 => t[n - 1] = s[n - 1])
      BY <1>4, <3>1
    <3> QED
      BY <1>2, <3>1, <3>2
  <2> QED
    BY <2>1, <2>2
<1>7. LoadedTo(t, list, k)
  BY <1>5, <1>6 DEF LoadedTo
<1> QED
  BY <1>7

LEMMA LoadedExists ==
    ASSUME NEW list, NEW m \in Nat
    PROVE  \E after : LoadedTo(after, list, m)
<1> DEFINE T == { k \in Nat : ~ \E after : LoadedTo(after, list, k) }
<1> SUFFICES ASSUME T # { } PROVE FALSE
  OBVIOUS
<1>1. T \in SUBSET Nat
  OBVIOUS
<1> HIDE DEF T
<1>2. PICK k \in T : \A j \in T : k <= j
  BY <1>1, LeastOf
<1> USE DEF T
<1>3. CASE k = 0
  <2>1. LoadedTo([ n \in 0..0 |-> Catalogs!NoSkills ], list, 0)
    BY DEF LoadedTo
  <2> QED
    BY <1>2, <1>3, <2>1
<1>4. CASE k # 0
  <2>1. k - 1 \in Nat /\ k - 1 \notin T
    BY <1>2, <1>4
  <2>2. PICK s : LoadedTo(s, list, k - 1)
    BY <2>1
  <2> QED
    BY <1>2, <1>4, <2>2, LoadedMore
<1> QED
  BY <1>3, <1>4

LEMMA LoadedSkills ==
    ASSUME NEW list, AList(list)
    PROVE  SkillsApart(Catalogs!LoadSkills(list).skills)
<1> DEFINE m == Len(list)
           P == { list[i] : i \in DOMAIN list }
           after == CHOOSE after : LoadedTo(after, list, m)
<1>1. m \in Nat /\ \A i \in 1..m : list[i] \in P
  BY LenProperties DEF AList
<1>2. Catalogs!LoadSkills(list) = after[m]
  BY DEF Catalogs!LoadSkills, LoadedTo
<1> HIDE DEF m, P
<1>3. LoadedTo(after, list, m)
  BY <1>1, LoadedExists
<1> HIDE DEF after
<1>4. \A n \in 0..m :
        after[n] = IF n = 0 THEN Catalogs!NoSkills ELSE Catalogs!AddPackage(after[n - 1], list[n])
  BY <1>3 DEF LoadedTo
<1> DEFINE Good(x) == /\ x = [ skills |-> x.skills, errors |-> x.errors ]
                      /\ x.skills \in Seq(P) /\ SkillsApart(x.skills)
           T == { n \in 0..m : ~Good(after[n]) }
<1>5. ASSUME T # { } PROVE FALSE
  <2>1. T \in SUBSET Nat
    BY <1>1
  <2> HIDE DEF T
  <2>2. PICK n \in T : \A j \in T : n <= j
    BY <1>5, <2>1, LeastOf
  <2> USE DEF T
  <2>3. n \in 0..m /\ ~Good(after[n])
    BY <2>2
  <2>4. CASE n = 0
    <3>1. after[0] = [ skills |-> << >>, errors |-> { } ]
      BY <1>1, <1>4 DEF Catalogs!NoSkills
    <3>2. << >> \in Seq(P) /\ SkillsApart(<< >>)
      BY DEF SkillsApart
    <3> QED
      BY <2>3, <2>4, <3>1, <3>2
  <2>5. CASE n # 0
    <3>1. n \in 1..m /\ n - 1 \in 0..m /\ ~(n <= n - 1)
      BY <1>1, <2>3, <2>5
    <3>2. Good(after[n - 1])
      BY <2>2, <3>1
    <3> DEFINE x == after[n - 1]
               new == Catalogs!AddPackage(x, list[n])
    <3>3. after[n] = new /\ list[n] \in P
      BY <1>1, <1>4, <2>3, <2>5, <3>1
    <3>4. /\ x = [ skills |-> x.skills, errors |-> x.errors ]
          /\ x.skills \in Seq(P) /\ SkillsApart(x.skills)
      BY <3>2
    <3> HIDE DEF x, T
    <3>5. new = Catalogs!AddPackage([ skills |-> x.skills, errors |-> x.errors ], list[n])
      BY <3>4
    <3> HIDE DEF new
    <3>6. Good(new)
      BY <3>3, <3>4, <3>5, PackageAdded
    <3> QED
      BY <2>3, <3>3, <3>6
  <2> QED
    BY <2>4, <2>5
<1>6. m \in 0..m
  BY <1>1
<1> QED
  BY <1>2, <1>5, <1>6

-------------------------------------------------------------------------------
(* Opening *)

LEMMA CatalogCardinality ==
    ASSUME NEW S
    PROVE  Catalogs!Cardinality(S) = Cardinality(S)
BY DEF Catalogs!Cardinality, Cardinality

(* A finite set as a list holds each of its members.                         *)
LEMMA SetAsList ==
    ASSUME NEW S, IsFiniteSet(S)
    PROVE  /\ Len(Catalogs!SetToSeq(S)) \in Nat
           /\ \A i \in 1..Len(Catalogs!SetToSeq(S)) : Catalogs!SetToSeq(S)[i] \in S
           /\ \A x \in S : \E i \in 1..Len(Catalogs!SetToSeq(S)) : Catalogs!SetToSeq(S)[i] = x
<1> DEFINE n == Cardinality(S)
           f == CHOOSE g \in [ 1..n -> S ] : Catalogs!IsInjective(g)
<1>1. n \in Nat /\ ExistsBijection(1..n, S)
  BY FS_CardinalityType
<1>2. Catalogs!SetToSeq(S) = f
  BY CatalogCardinality DEF Catalogs!SetToSeq
<1> HIDE DEF n
<1>3. PICK b : b \in Bijection(1..n, S)
  BY <1>1 DEF ExistsBijection
<1>4. b \in [ 1..n -> S ] /\ Catalogs!IsInjective(b)
  BY <1>3 DEF Bijection, Injection, IsInjective, Catalogs!IsInjective
<1>5. f \in [ 1..n -> S ] /\ Catalogs!IsInjective(f)
  BY <1>4
<1> HIDE DEF f
<1>6. f \in Injection(1..n, S)
  BY <1>5 DEF Injection, IsInjective, Catalogs!IsInjective
<1>7. IsFiniteSet(1..n) /\ Cardinality(1..n) = n
  BY <1>1, FS_Interval
<1>8. Cardinality(1..n) = Cardinality(S)
  BY <1>7 DEF n
<1>9. f \in Surjection(1..n, S)
  BY <1>6, <1>8, FS_Injection
<1>10. \A x \in S : \E i \in 1..n : f[i] = x
  BY <1>9 DEF Surjection
<1>11. f \in Seq(S) /\ Len(f) = n
  BY <1>1, <1>5, LenProperties
<1> QED
  BY <1>1, <1>2, <1>5, <1>10, <1>11

(* What the skills and the extensions add says that it is not built in.      *)
LEMMA Added ==
    ASSUME CatalogLimits, NEW x \in Extensions \cup Offered, NEW list
    PROVE  /\ Len(x) \in Nat
           /\ Len(Catalogs!SkillTools(list) \o x) \in Nat
           /\ \A i \in 1..Len(x) : x[i].source # "builtin"
           /\ \A i \in 1..Len(Catalogs!SkillTools(list) \o x) :
                (Catalogs!SkillTools(list) \o x)[i].source # "builtin"
<1> DEFINE Load == Catalogs!Tool("load_skill", "skill", 1, { "plan", "execute" })
           Read == Catalogs!Tool("read_skill_resource", "skill", 1, { "plan", "execute" })
           Own == { Load, Read }
           Theirs == { x[i] : i \in DOMAIN x }
           A == Own \cup Theirs
           l == Catalogs!SkillTools(list)
<1>1. x \in Seq(Theirs) /\ \A i \in DOMAIN x : x[i].source # "builtin"
  BY DEF CatalogLimits, AList
<1>2. \A a \in Own : a.source # "builtin"
  BY DEF Catalogs!Tool
<1>3. \A a \in A : a.source # "builtin"
  BY <1>1, <1>2
<1>4. l = IF list = << >> THEN << >> ELSE << Load, Read >>
  BY DEF Catalogs!SkillTools
<1> HIDE DEF Load, Read, l
<1>8. l \in Seq(A)
  <2>1. Load \in A /\ Read \in A
    OBVIOUS
  <2> HIDE DEF A
  <2>2. << >> \in Seq(A) /\ << Load, Read >> \in Seq(A)
    BY <2>1
  <2>3. CASE list = << >>
    BY <1>4, <2>2, <2>3
  <2>4. CASE list # << >>
    BY <1>4, <2>2, <2>4
  <2> QED
    BY <2>3, <2>4
<1> HIDE DEF Own
<1>5. x \in Seq(A)
  BY <1>1
<1> HIDE DEF A, Theirs
<1>6. l \o x \in Seq(A)
  BY <1>5, <1>8
<1>7. \A s \in Seq(A) : Len(s) \in Nat /\ \A i \in 1..Len(s) : s[i] \in A
  OBVIOUS
<1> QED
  BY <1>3, <1>5, <1>6, <1>7 DEF l

NoTools == [ tools |-> Catalogs!Empty, count |-> 0, warnings |-> { } ]

LEMMA FirstTools ==
    ASSUME CatalogLimits, NEW first,
           first = Catalogs!RegisterAll(NoTools, Catalogs!SetToSeq(Builtins))
    PROVE  /\ first = [ tools |-> first.tools, count |-> first.count, warnings |-> first.warnings ]
           /\ InRegistry(first.tools, first.count)
           /\ \A t \in Builtins : t.name \in DOMAIN first.tools
           /\ \A n \in DOMAIN first.tools : first.tools[n].tool \in Builtins
<1> DEFINE list == Catalogs!SetToSeq(Builtins)
<1>1. /\ Len(list) \in Nat
      /\ \A i \in 1..Len(list) : list[i] \in Builtins
      /\ \A x \in Builtins : \E i \in 1..Len(list) : list[i] = x
  BY SetAsList DEF CatalogLimits
<1>2. first = Catalogs!RegisterAll(NoTools, list)
  OBVIOUS
<1> HIDE DEF list
<1>3. NoTools.tools = Catalogs!Empty /\ NoTools.count = 0
      /\ NoTools = [ tools |-> NoTools.tools, count |-> NoTools.count, warnings |-> NoTools.warnings ]
  BY DEF NoTools
<1>4. DOMAIN NoTools.tools = { }
  BY <1>3 DEF Catalogs!Empty
<1>5. InRegistry(NoTools.tools, NoTools.count)
  BY <1>3, <1>4 DEF InRegistry
<1>6. Registered(NoTools, list, first, Len(list))
  BY <1>1, <1>2, <1>3, <1>5, RegisterMany
<1>7. \A t \in Builtins : t.source = "builtin"
  BY DEF CatalogLimits
<1> QED
  BY <1>1, <1>4, <1>6, <1>7 DEF Registered

LEMMA SecondTools ==
    ASSUME CatalogLimits, NEW first, NEW second, NEW list, NEW x \in Extensions,
           second = Catalogs!RegisterAll(first, Catalogs!SkillTools(list) \o x),
           first = [ tools |-> first.tools, count |-> first.count, warnings |-> first.warnings ],
           InRegistry(first.tools, first.count),
           \A n \in DOMAIN first.tools : first.tools[n].tool \in Builtins
    PROVE  /\ second = [ tools |-> second.tools, count |-> second.count, warnings |-> second.warnings ]
           /\ InRegistry(second.tools, second.count)
           /\ \A n \in DOMAIN first.tools : n \in DOMAIN second.tools /\ second.tools[n] = first.tools[n]
           /\ \A n \in DOMAIN second.tools : n \notin Catalogs!Reserved
<1> DEFINE l == Catalogs!SkillTools(list) \o x
<1>1. Len(l) \in Nat /\ \A i \in 1..Len(l) : l[i].source # "builtin"
  BY Added
<1>2. second = Catalogs!RegisterAll(first, l)
  OBVIOUS
<1> HIDE DEF l
<1>3. Registered(first, l, second, Len(l))
  BY <1>1, <1>2, RegisterMany
<1>4. /\ second = [ tools |-> second.tools, count |-> second.count, warnings |-> second.warnings ]
      /\ InRegistry(second.tools, second.count)
      /\ \A n \in DOMAIN first.tools : n \in DOMAIN second.tools /\ second.tools[n] = first.tools[n]
      /\ \A n \in DOMAIN second.tools \ DOMAIN first.tools :
           \E j \in 1..Len(l) : second.tools[n].tool = l[j]
  BY <1>3 DEF Registered
<1>5. ASSUME NEW n \in DOMAIN second.tools, n \in Catalogs!Reserved PROVE FALSE
  <2>1. second.tools[n].tool.source = "builtin" /\ second.tools[n].tool.name = n
    BY <1>4, <1>5 DEF InRegistry
  <2>2. n \in DOMAIN first.tools
    BY <1>1, <1>4, <2>1
  <2>3. second.tools[n].tool \in Builtins
    BY <1>4, <2>2
  <2>4. PICK u \in Late : u.name = n
    BY <1>5 DEF Catalogs!Reserved
  <2>5. u = second.tools[n].tool
    BY <2>1, <2>3, <2>4 DEF CatalogLimits
  <2> QED
    BY <2>3, <2>4, <2>5 DEF CatalogLimits
<1> QED
  BY <1>4, <1>5

LEMMA AssembledTools ==
    ASSUME CatalogLimits, extensions \in Extensions, packages \in Packages,
           NEW all, all = Catalogs!Assembled.registry
    PROVE  /\ InRegistry(all.tools, all.count)
           /\ \A t \in Builtins \cup Late : t.name \in DOMAIN all.tools /\ all.tools[t.name].tool = t
           /\ SkillsApart(Catalogs!Assembled.loaded.skills)
<1> DEFINE loaded == Catalogs!LoadSkills(packages)
           first == Catalogs!RegisterAll(NoTools, Catalogs!SetToSeq(Builtins))
           second == Catalogs!RegisterAll(first, Catalogs!SkillTools(loaded.skills) \o extensions)
           list == Catalogs!SetToSeq(Late)
           third == Catalogs!RegisterAll(second, list)
<1>1. Catalogs!Assembled = [ registry |-> third, loaded |-> loaded ]
  BY DEF Catalogs!Assembled, NoTools
<1>2. /\ Len(list) \in Nat
      /\ \A i \in 1..Len(list) : list[i] \in Late
      /\ \A x \in Late : \E i \in 1..Len(list) : list[i] = x
  BY SetAsList DEF CatalogLimits
<1>3. SkillsApart(loaded.skills)
  BY LoadedSkills DEF CatalogLimits
<1>4. first = Catalogs!RegisterAll(NoTools, Catalogs!SetToSeq(Builtins))
  OBVIOUS
<1>5. second = Catalogs!RegisterAll(first, Catalogs!SkillTools(loaded.skills) \o extensions)
  OBVIOUS
<1>6. third = Catalogs!RegisterAll(second, list)
  OBVIOUS
<1> HIDE DEF third, second, first, list, loaded
<1>7. all = third /\ Catalogs!Assembled.loaded = loaded
  BY <1>1
<1>8. /\ first = [ tools |-> first.tools, count |-> first.count, warnings |-> first.warnings ]
      /\ InRegistry(first.tools, first.count)
      /\ \A t \in Builtins : t.name \in DOMAIN first.tools
      /\ \A n \in DOMAIN first.tools : first.tools[n].tool \in Builtins
  BY <1>4, FirstTools
<1>9. /\ second = [ tools |-> second.tools, count |-> second.count, warnings |-> second.warnings ]
      /\ InRegistry(second.tools, second.count)
      /\ \A n \in DOMAIN first.tools : n \in DOMAIN second.tools /\ second.tools[n] = first.tools[n]
      /\ \A n \in DOMAIN second.tools : n \notin Catalogs!Reserved
  BY <1>5, <1>8, SecondTools
<1>10. Registered(second, list, third, Len(list))
  BY <1>2, <1>6, <1>9, RegisterMany
<1>11. /\ InRegistry(third.tools, third.count)
       /\ \A n \in DOMAIN second.tools : n \in DOMAIN third.tools /\ third.tools[n] = second.tools[n]
       /\ \A n \in DOMAIN third.tools \ DOMAIN second.tools :
            \E j \in 1..Len(list) : third.tools[n].tool = list[j]
       /\ \A j \in 1..Len(list) : list[j].source = "builtin" => list[j].name \in DOMAIN third.tools
  BY <1>10 DEF Registered
<1>12. \A t, u \in Builtins \cup Late : t.name = u.name => t = u
  BY DEF CatalogLimits
<1>13. ASSUME NEW t \in Builtins
       PROVE  t.name \in DOMAIN third.tools /\ third.tools[t.name].tool = t
  <2>1. t.name \in DOMAIN first.tools /\ first.tools[t.name].tool \in Builtins
    BY <1>8
  <2>2. first.tools[t.name].tool.name = t.name
    BY <1>8, <2>1 DEF InRegistry
  <2>3. first.tools[t.name].tool = t
    BY <1>12, <2>1, <2>2
  <2> QED
    BY <1>9, <1>11, <2>1, <2>3
<1>14. ASSUME NEW t \in Late
       PROVE  t.name \in DOMAIN third.tools /\ third.tools[t.name].tool = t
  <2>1. t.source = "builtin" /\ t.name \in Catalogs!Reserved
    BY DEF CatalogLimits, Catalogs!Reserved
  <2>2. t.name \in DOMAIN third.tools
    BY <1>2, <1>11, <2>1
  <2>3. t.name \notin DOMAIN second.tools
    BY <1>9, <2>1
  <2>4. third.tools[t.name].tool \in Late
    BY <1>2, <1>11, <2>2, <2>3
  <2>5. third.tools[t.name].tool.name = t.name
    BY <1>11, <2>2 DEF InRegistry
  <2> QED
    BY <1>12, <2>2, <2>4, <2>5
<1> QED
  BY <1>3, <1>7, <1>11, <1>13, <1>14

LEMMA CatalogInvOpen ==
    ASSUME CatalogLimits, CatalogInv, Catalogs!Open
    PROVE  CatalogInv'
<1> DEFINE all == Catalogs!Assembled.registry
<1>1. extensions \in Extensions /\ packages \in Packages /\ catalogOpened \in 0..MaxOpened
      /\ (request # Catalogs!None => Told(request.id, request.seen))
  BY DEF CatalogInv
<1>2. /\ InRegistry(all.tools, all.count)
      /\ \A t \in Builtins \cup Late : t.name \in DOMAIN all.tools /\ all.tools[t.name].tool = t
      /\ SkillsApart(Catalogs!Assembled.loaded.skills)
  BY <1>1, AssembledTools
<1>3. /\ catalogOpened < MaxOpened /\ catalogOpened' = catalogOpened + 1
      /\ catalogRegistry' = all.tools /\ revision' = all.count
      /\ skills' = Catalogs!Assembled.loaded.skills
      /\ discovered' = FALSE /\ catalogShown' = Catalogs!Empty /\ ran' = Catalogs!None
      /\ UNCHANGED << extensions, packages, request >>
  BY DEF Catalogs!Open
<1> HIDE DEF all
<1>4. catalogOpened' \in 0..MaxOpened /\ discovered' \in BOOLEAN
  <2>1. catalogOpened' \in 0..MaxOpened
    BY <1>1, <1>3 DEF CatalogLimits
  <2>2. discovered' = FALSE
    BY <1>3
  <2> QED
    BY <2>1, <2>2
<1>5. InRegistry(catalogRegistry, revision)'
  BY <1>2, <1>3 DEF InRegistry
<1>6. SkillsApart(skills)'
  BY <1>2, <1>3 DEF SkillsApart
<1>7. (\A n \in DOMAIN catalogShown : Told(catalogShown[n].id, catalogShown[n].tool))'
  BY <1>3 DEF Catalogs!Empty
<1>8. (request # Catalogs!None => Told(request.id, request.seen))'
  BY <1>1, <1>3 DEF Told
<1>9. (ran.state = "ran" => ran.tool = ran.seen)'
  BY <1>3 DEF Catalogs!None
<1>10. (\A t \in Builtins \cup Late : t.name \in DOMAIN catalogRegistry /\ catalogRegistry[t.name].tool = t)'
  BY <1>2, <1>3
<1> QED
  BY <1>1, <1>3, <1>4, <1>5, <1>6, <1>7, <1>8, <1>9, <1>10 DEF CatalogInv

LEMMA CatalogInvDiscover ==
    ASSUME CatalogLimits, CatalogInv, NEW offer \in Offered, Catalogs!Discover(offer)
    PROVE  CatalogInv'
<1> DEFINE old == [ tools |-> catalogRegistry, count |-> revision, warnings |-> warnings ]
           new == Catalogs!RegisterAll(old, offer)
<1>1. old.tools = catalogRegistry /\ old.count = revision
      /\ old = [ tools |-> old.tools, count |-> old.count, warnings |-> old.warnings ]
  OBVIOUS
<1>2. /\ catalogRegistry' = new.tools /\ revision' = new.count /\ discovered' = TRUE
      /\ UNCHANGED << extensions, packages, skills, catalogShown, request, ran, catalogOpened >>
  BY DEF Catalogs!Discover
<1>3. new = Catalogs!RegisterAll(old, offer)
  OBVIOUS
<1> HIDE DEF old, new
<1>4. InRegistry(old.tools, old.count)
  BY <1>1 DEF CatalogInv, InRegistry
<1>5. Len(offer) \in Nat
  BY Added
<1>6. Registered(old, offer, new, Len(offer))
  BY <1>1, <1>3, <1>4, <1>5, RegisterMany
<1>7. /\ InRegistry(new.tools, new.count)
      /\ \A n \in DOMAIN old.tools : n \in DOMAIN new.tools /\ new.tools[n] = old.tools[n]
  BY <1>6 DEF Registered
<1>8. InRegistry(catalogRegistry, revision)'
  BY <1>2, <1>7 DEF InRegistry
<1>9. (catalogOpened > 0 => \A t \in Builtins \cup Late :
         t.name \in DOMAIN catalogRegistry /\ catalogRegistry[t.name].tool = t)'
  BY <1>1, <1>2, <1>7 DEF CatalogInv
<1>10. /\ extensions' \in Extensions /\ packages' \in Packages
       /\ catalogOpened' \in 0..MaxOpened /\ discovered' \in BOOLEAN
       /\ (ran.state = "ran" => ran.tool = ran.seen)'
  BY <1>2 DEF CatalogInv
<1>11. SkillsApart(skills)'
  BY <1>2 DEF CatalogInv, SkillsApart
<1>12. (\A n \in DOMAIN catalogShown : Told(catalogShown[n].id, catalogShown[n].tool))'
       /\ (request # Catalogs!None => Told(request.id, request.seen))'
  BY <1>2 DEF CatalogInv, Told
<1> QED
  BY <1>8, <1>9, <1>10, <1>11, <1>12 DEF CatalogInv

LEMMA PairTells ==
    ASSUME NEW a, NEW b
    PROVE  /\ << >> # << a, b >>
           /\ \A c, d : << a, b >> = << c, d >> => a = c
<1>1. Len(<< >>) = 0 /\ Len(<< a, b >>) = 2
  OBVIOUS
<1>2. ASSUME NEW c, NEW d, << a, b >> = << c, d >> PROVE a = c
  <2>1. << a, b >>[1] = a /\ << c, d >>[1] = c
    OBVIOUS
  <2> QED
    BY <1>2, <2>1
<1> QED
  BY <1>1, <1>2

(* A call runs the tool its id tells, or none.                               *)
LEMMA OnlyTheToldRuns ==
    ASSUME CatalogInv, NEW r, Catalogs!Runs(r), Catalogs!Materialize(r) = "found" => Told(r.id, r.seen)
    PROVE  ran'.state = "ran" => ran'.tool = ran'.seen
<1>1. CASE Catalogs!Materialize(r) = "found"
  <2>1. r.name \in DOMAIN catalogRegistry /\ catalogRegistry[r.name].id = r.id
    BY <1>1 DEF Catalogs!Materialize
  <2>2. PICK c \in 1..revision : catalogRegistry[r.name].id = << catalogRegistry[r.name].tool, c >>
    BY <2>1 DEF CatalogInv, InRegistry
  <2>3. PICK d \in Nat : r.id = << r.seen, d >>
    BY <1>1 DEF Told
  <2>4. catalogRegistry[r.name].tool = r.seen
    BY <2>1, <2>2, <2>3, PairTells
  <2>5. ran' = [ state |-> "ran", seen |-> r.seen, tool |-> catalogRegistry[r.name].tool ]
    BY <1>1 DEF Catalogs!Runs
  <2> QED
    BY <2>4, <2>5
<1>2. CASE Catalogs!Materialize(r) # "found"
  <2>1. ran' = [ state |-> Catalogs!Materialize(r), seen |-> r.seen ]
    BY <1>2 DEF Catalogs!Runs
  <2>2. Catalogs!Materialize(r) # "ran"
    BY DEF Catalogs!Materialize
  <2> QED
    BY <2>1, <2>2
<1> QED
  BY <1>1, <1>2

(* What a call asks for when it was found is what the model was shown.       *)
LEMMA RequestedIsTold ==
    ASSUME CatalogInv, NEW name, Catalogs!Materialize(Catalogs!Requested(name)) = "found"
    PROVE  Told(Catalogs!Requested(name).id, Catalogs!Requested(name).seen)
<1>1. CASE name \in DOMAIN catalogShown
  <2>1. Catalogs!Requested(name) = [ state |-> "waiting", name |-> name,
            id |-> catalogShown[name].id, seen |-> catalogShown[name].tool ]
    BY <1>1 DEF Catalogs!Requested
  <2>2. Told(catalogShown[name].id, catalogShown[name].tool)
    BY <1>1 DEF CatalogInv
  <2> QED
    BY <2>1, <2>2
<1>2. CASE name \notin DOMAIN catalogShown
  <2> DEFINE r == Catalogs!Requested(name)
  <2>1. r = [ state |-> "waiting", name |-> name, id |-> << >>, seen |-> Catalogs!None ]
    BY <1>2 DEF Catalogs!Requested
  <2>2. r.id = << >>
    BY <2>1
  <2>3. r.name \in DOMAIN catalogRegistry /\ catalogRegistry[r.name].id = r.id
    BY DEF Catalogs!Materialize
  <2> HIDE DEF r
  <2>4. PICK c \in 1..revision : catalogRegistry[r.name].id = << catalogRegistry[r.name].tool, c >>
    BY <2>3 DEF CatalogInv, InRegistry
  <2> QED
    BY <2>2, <2>3, <2>4, PairTells
<1> QED
  BY <1>1, <1>2

LEMMA CatalogInvStep ==
    ASSUME CatalogLimits, CatalogInv, [Catalogs!Next]_(Catalogs!catalogVars)
    PROVE  CatalogInv'
<1> DEFINE Files == extensions \in Extensions /\ packages \in Packages
           Tools == /\ InRegistry(catalogRegistry, revision)
                    /\ catalogOpened \in 0..MaxOpened /\ discovered \in BOOLEAN
                    /\ catalogOpened > 0 => \A t \in Builtins \cup Late :
                         t.name \in DOMAIN catalogRegistry /\ catalogRegistry[t.name].tool = t
                    /\ SkillsApart(skills)
           Seen == \A n \in DOMAIN catalogShown : Told(catalogShown[n].id, catalogShown[n].tool)
           Asked == request # Catalogs!None => Told(request.id, request.seen)
           Right == ran.state = "ran" => ran.tool = ran.seen
<1>1. Files /\ Tools /\ Seen /\ Asked /\ Right
  BY DEF CatalogInv
<1>2. ASSUME Files', Tools', Seen', Asked', Right' PROVE CatalogInv'
  BY <1>2 DEF CatalogInv
<1>3. ASSUME UNCHANGED << catalogRegistry, revision, skills, discovered, catalogOpened >> PROVE Tools'
  BY <1>1, <1>3 DEF InRegistry, SkillsApart
<1>4. ASSUME UNCHANGED catalogShown PROVE Seen'
  BY <1>1, <1>4 DEF Told
<1>5. ASSUME UNCHANGED request PROVE Asked'
  BY <1>1, <1>5 DEF Told
<1>6. ASSUME UNCHANGED << extensions, packages >> PROVE Files'
  BY <1>1, <1>6
<1>7. ASSUME UNCHANGED ran PROVE Right'
  BY <1>1, <1>7
<1> HIDE DEF Files, Tools, Seen, Asked
<1>8. CASE Catalogs!Open
  BY <1>8, CatalogInvOpen
<1>9. CASE Catalogs!ChangeFiles
  <2>1. Files'
    BY <1>9 DEF Catalogs!ChangeFiles, Files
  <2>2. UNCHANGED << catalogRegistry, revision, skills, discovered, catalogOpened >>
        /\ UNCHANGED catalogShown /\ UNCHANGED request /\ UNCHANGED ran
    BY <1>9 DEF Catalogs!ChangeFiles
  <2> QED
    BY <1>2, <1>3, <1>4, <1>5, <1>7, <2>1, <2>2
<1>10. CASE Catalogs!Resume
  <2>1. request # Catalogs!None /\ request' = Catalogs!None /\ Catalogs!Runs(request)
        /\ UNCHANGED << catalogRegistry, revision, skills, discovered, catalogOpened >>
        /\ UNCHANGED catalogShown /\ UNCHANGED << extensions, packages >>
    BY <1>10 DEF Catalogs!Resume
  <2>2. Told(request.id, request.seen)
    BY <1>1, <2>1 DEF Asked
  <2>3. Right'
    BY <2>1, <2>2, OnlyTheToldRuns
  <2>4. Asked'
    BY <2>1 DEF Asked
  <2> QED
    BY <1>2, <1>3, <1>4, <1>6, <2>1, <2>3, <2>4
<1>11. ASSUME NEW offer \in Offered, Catalogs!Discover(offer) PROVE CatalogInv'
  BY <1>11, CatalogInvDiscover
<1>12. ASSUME NEW mode, Catalogs!ShowCatalog(mode) PROVE CatalogInv'
  <2>1. catalogShown' = [ n \in Catalogs!Snapshot(mode) |-> catalogRegistry[n] ]
        /\ UNCHANGED << catalogRegistry, revision, skills, discovered, catalogOpened >>
        /\ UNCHANGED request /\ UNCHANGED ran /\ UNCHANGED << extensions, packages >>
    BY <1>12 DEF Catalogs!ShowCatalog
  <2>2. ASSUME NEW n \in Catalogs!Snapshot(mode)
        PROVE  Told(catalogRegistry[n].id, catalogRegistry[n].tool)
    <3>1. n \in DOMAIN catalogRegistry /\ revision \in Nat
      BY <1>1 DEF Catalogs!Snapshot, Tools, InRegistry
    <3>2. PICK c \in 1..revision : catalogRegistry[n].id = << catalogRegistry[n].tool, c >>
      BY <1>1, <3>1 DEF Tools, InRegistry
    <3>3. c \in Nat
      BY <3>1
    <3> QED
      BY <3>2, <3>3 DEF Told
  <2>3. Seen'
    BY <2>1, <2>2 DEF Seen, Told
  <2> QED
    BY <1>2, <1>3, <1>5, <1>6, <1>7, <2>1, <2>3
<1>13. ASSUME NEW name, Catalogs!Call(name) PROVE CatalogInv'
  <2>1. Catalogs!Runs(Catalogs!Requested(name))
        /\ UNCHANGED << catalogRegistry, revision, skills, discovered, catalogOpened >>
        /\ UNCHANGED catalogShown /\ UNCHANGED request /\ UNCHANGED << extensions, packages >>
    BY <1>13 DEF Catalogs!Call
  <2> DEFINE r == Catalogs!Requested(name)
  <2>2. Catalogs!Runs(r) /\ (Catalogs!Materialize(r) = "found" => Told(r.id, r.seen))
    BY <2>1, RequestedIsTold
  <2> HIDE DEF r
  <2>3. Right'
    BY <2>2, OnlyTheToldRuns
  <2> QED
    BY <1>2, <1>3, <1>4, <1>5, <1>6, <2>1, <2>3
<1>14. ASSUME NEW name, Catalogs!Suspend(name) PROVE CatalogInv'
  <2>1. Catalogs!Materialize(Catalogs!Requested(name)) = "found"
        /\ request' = Catalogs!Requested(name)
        /\ UNCHANGED << catalogRegistry, revision, skills, discovered, catalogOpened >>
        /\ UNCHANGED catalogShown /\ UNCHANGED ran /\ UNCHANGED << extensions, packages >>
    BY <1>14 DEF Catalogs!Suspend
  <2>2. Told(Catalogs!Requested(name).id, Catalogs!Requested(name).seen)
    BY <2>1, RequestedIsTold
  <2>3. Asked'
    BY <2>1, <2>2 DEF Asked, Told
  <2> QED
    BY <1>2, <1>3, <1>4, <1>6, <1>7, <2>1, <2>3
<1>15. CASE UNCHANGED Catalogs!catalogVars
  <2>1. UNCHANGED << catalogRegistry, revision, skills, discovered, catalogOpened >>
        /\ UNCHANGED catalogShown /\ UNCHANGED request /\ UNCHANGED ran
        /\ UNCHANGED << extensions, packages >>
    BY <1>15 DEF Catalogs!catalogVars
  <2> QED
    BY <1>2, <1>3, <1>4, <1>5, <1>6, <1>7, <2>1
<1> QED
  BY <1>8, <1>9, <1>10, <1>11, <1>12, <1>13, <1>14, <1>15 DEF Catalogs!Next

LEMMA CatalogInvInit ==
    ASSUME CatalogLimits, Catalogs!Init
    PROVE  CatalogInv
<1>1. /\ extensions \in Extensions /\ packages \in Packages
      /\ catalogRegistry = Catalogs!Empty /\ revision = 0 /\ skills = << >>
      /\ discovered = FALSE /\ catalogShown = Catalogs!Empty /\ request = Catalogs!None
      /\ ran = Catalogs!None /\ catalogOpened = 0
  BY DEF Catalogs!Init
<1>2. DOMAIN catalogRegistry = { } /\ DOMAIN catalogShown = { }
  BY <1>1 DEF Catalogs!Empty
<1>3. InRegistry(catalogRegistry, revision)
  BY <1>1, <1>2 DEF InRegistry
<1>4. SkillsApart(skills)
  BY <1>1 DEF SkillsApart
<1>5. ran.state # "ran"
  BY <1>1 DEF Catalogs!None
<1>6. catalogOpened \in 0..MaxOpened /\ ~(catalogOpened > 0)
  BY <1>1 DEF CatalogLimits
<1> QED
  BY <1>1, <1>2, <1>3, <1>4, <1>5, <1>6 DEF CatalogInv

LEMMA CatalogInvMeans ==
    ASSUME CatalogInv
    PROVE  CallsRunWhatWasShown
<1>1. /\ InRegistry(catalogRegistry, revision) /\ SkillsApart(skills)
      /\ catalogOpened \in 0..MaxOpened /\ discovered \in BOOLEAN
      /\ catalogOpened > 0 => \A t \in Builtins \cup Late :
           t.name \in DOMAIN catalogRegistry /\ catalogRegistry[t.name].tool = t
      /\ ran.state = "ran" => ran.tool = ran.seen
  BY DEF CatalogInv
<1>2. /\ revision \in Nat /\ \A n \in DOMAIN catalogRegistry : catalogRegistry[n].tool.name = n
      /\ \A n, m \in DOMAIN catalogRegistry :
           n # m => catalogRegistry[n].id[2] # catalogRegistry[m].id[2]
  BY <1>1 DEF InRegistry
<1>3. ASSUME NEW p \in Catalogs!Range(skills) PROVE Catalogs!Find(skills, p.name) = { p }
  <2>1. PICK i \in DOMAIN skills : skills[i] = p
    BY DEF Catalogs!Range
  <2>2. \A q \in Catalogs!Range(skills) : q.name = p.name => q = p
    BY <1>1, <2>1 DEF SkillsApart, Catalogs!Range
  <2>3. { q \in Catalogs!Range(skills) : q.name = p.name } = { p }
    BY <2>2
  <2> QED
    BY <2>3 DEF Catalogs!Find
<1>4. Catalogs!TypeOK
  BY <1>1, <1>2 DEF Catalogs!TypeOK
<1>5. Catalogs!CallsRunWhatWasShown
  BY <1>1, <1>2, <1>3 DEF Catalogs!CallsRunWhatWasShown, SkillsApart
<1> QED
  BY <1>4, <1>5 DEF CallsRunWhatWasShown

(* A call runs the tool the model was shown, or none: also when it waited    *)
(* for its approval while the session was opened again with other extensions *)
(* or servers (tools/registry.py, runtime/builder.py, extensions/skills.py). *)
THEOREM CallsRunTheToolShown ==
    ASSUME CatalogLimits
    PROVE  Catalogs!Spec => []CallsRunWhatWasShown
<1>1. Catalogs!Init => CatalogInv
  BY CatalogInvInit
<1>2. CatalogInv /\ [Catalogs!Next]_(Catalogs!catalogVars) => CatalogInv'
  BY CatalogInvStep
<1>3. CatalogInv => CallsRunWhatWasShown
  BY CatalogInvMeans
<1> QED
  BY <1>1, <1>2, <1>3, PTL DEF Catalogs!Spec
===============================================================================
