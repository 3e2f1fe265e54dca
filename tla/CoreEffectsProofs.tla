--------------------------- MODULE CoreEffectsProofs ---------------------------
(***************************************************************************)
(* Proofs about what Core knows of the world: that no change of the        *)
(* workspace and no execution of a handler is forgotten, over the entries  *)
(* of a run, its interruptions and its crashes.                            *)
(***************************************************************************)
EXTENDS CoreProofs, SequenceTheorems

UserPlaces == { "idle", "switching", "starting", "closing" }
Asks == { "tool_approval", "user_input" }
PlanEvents == { "approve", "reject", "abandon" }

\* A call that is said and has no answer.
IsOpen(m, c) == c \in 1..m.issued /\ m.answers[c] = << >>

\* Calls that have been said, none of them twice.
SaidIn(m, calls) ==
    /\ calls \in Seq(Calls)
    /\ \A i \in DOMAIN calls : calls[i] \in 1..m.issued
    /\ \A i, j \in DOMAIN calls : calls[i] = calls[j] => i = j

IsSeq(s) == \E S : s \in Seq(S)

\* A call is answered once it is said.
Written(m) ==
    /\ \A c \in Calls : IsSeq(m.answers[c]) /\ (c > m.issued => m.answers[c] = << >>)
    /\ m.said # << >> => SaidIn(m, m.said[1].calls)

\* Of the calls whose handlers have run (r): one was settled as not executed; all have an
\* answer; all have been said.
Cut(r, m) == \E c \in Calls : r[c] > 0 /\ "notExecuted" \in Range(m.answers[c])
Answered(r, m) == \A c \in Calls : r[c] > 0 => m.answers[c] # << >>
SaidRuns(r, m) == \A c \in Calls : r[c] > 0 => c \in 1..m.issued

\* A workspace with w changes shows in c, or one of them was cut off.
Recorded(w, r, c, m) == w > 0 => c.revision > 0 \/ Cut(r, m)

\* A plan command after a crash commits "after_tools" over a batch that was cut off.
Careful == crashes = 0 \/ Events \cap PlanEvents = { }

Knows == Recorded(ws, ran, core, journal) /\ (Careful => Answered(ran, journal))

-------------------------------------------------------------------------------
(* The invariant *)

WorldShape ==
    /\ ws \in Nat /\ ran \in [ Calls -> Nat ] /\ crashes \in Nat
    /\ batch = [ calls |-> batch.calls, results |-> batch.results ]
    /\ Written(journal) /\ (pc \notin UserPlaces => SaidRuns(ran, journal))

\* What the files say, whatever the process does.
Stored ==
    /\ Written(disk.messages) /\ SaidRuns(ran, disk.messages)
    /\ disk.ws \in 0..ws /\ Recorded(disk.ws, ran, disk.core, disk.messages)
    /\ disk.wait # NoWait => disk.status = "waiting"
    /\ disk.wait.kind \in Asks => IsOpen(disk.messages, disk.wait.call)
    /\ disk.prepared # NoResume => /\ IsOpen(disk.messages, disk.prepared.call)
                                   /\ disk.prepared.answer \in { "approve", "deny", "reply" }
    /\ disk.status = "waiting" => disk.ws = ws /\ (Careful => Answered(ran, disk.messages))
    /\ Careful => ExecutionIsRecorded

AtUser ==
    /\ pc \in UserPlaces \cup { "enter", "resuming", "prompting" } => ~catalog
    /\ pc \in { "switching", "starting", "closing" } \/ (pc = "idle" /\ crashes = 0 /\ Live) =>
         (Careful => Answered(ran, disk.messages))

\* The result of an approved call is on its way to Core.
ChangeArrives ==
    /\ entry.kind = "results"
    /\ \E c \in DOMAIN entry.answers : entry.answers[c] \in Changes /\ IsOpen(journal, c)

AtEntry ==
    /\ pc = "enter" =>
         /\ entry.kind = "message" => journal.said # << >>
         /\ entry.kind = "results" =>
              \A c \in DOMAIN entry.answers : entry.answers[c] \in ResultKinds \ Suspended
         /\ Recorded(ws, ran, core, journal) \/ ChangeArrives
         /\ Careful /\ entry.kind # "results" => Answered(ran, journal)
    /\ pc = "resuming" => /\ Recorded(ws, ran, core, journal) /\ journal = disk.messages
                          /\ disk.prepared # NoResume /\ disk.status = "running"
    /\ pc = "prompting" => Knows /\ journal = disk.messages /\ entry.kind = "user"

\* Calls that may be executed can be answered, when the catalog of tools is at hand.
CanRun(calls) == SaidIn(journal, calls) /\ (catalog => OpenIn(journal, calls))

AtDecision ==
    pc = "decide" => /\ Knows /\ CanRun(obs.calls)
                     /\ obs.wait # "none" => IsOpen(journal, obs.call)
AtMove ==
    pc = "act" => /\ Knows
                  /\ decision.do = "tools" => CanRun(batch.calls) /\ batch.results = << >>
                  /\ decision.do = "wait" /\ decision.arg \in Asks => IsOpen(journal, obs.call)

\* What has happened in a batch is in its results or cut off.
AtExecution ==
    pc = "execute" =>
      /\ SaidIn(journal, batch.calls) /\ OpenIn(journal, batch.calls) /\ catalog
      /\ batch.results \in Seq(ResultKinds) /\ Len(batch.results) <= Len(batch.calls)
      /\ disk.messages = journal /\ disk.resume = "before_tools" /\ disk.status = "running"
      /\ \/ Recorded(ws, ran, core, journal)
         \/ \E i \in 1..Len(batch.results) : batch.results[i] \in Changes
      /\ \A i \in 1..Len(batch.results) :
           batch.results[i] \in Changes => ran[batch.calls[i]] > 0
      /\ Careful =>
           \A c \in Calls : ran[c] > 0 /\ journal.answers[c] = << >> =>
             \E i \in 1..Len(batch.results) :
               batch.calls[i] = c /\ batch.results[i] \notin Suspended

Elsewhere ==
    pc = "model" \/ (pc = "over" /\ decision.code # "runtime.cancelled") => Knows

\* What a crash kept from Core shows in the files it knew to have changed, and
\* the run is with the user.
KnownShows == "known" \in lost => ws # disk.ws /\ pc \in UserPlaces

EffectInv ==
    /\ WorldShape /\ Stored /\ AtUser /\ AtEntry /\ AtDecision /\ AtMove /\ AtExecution
    /\ Elsewhere

\* A run that may only read completes without a change.
ReadOnly ==
    disk.mode = "read" =>
      /\ core.task = "satisfied" => core.revision = 0
      /\ disk.core.task = "satisfied" => disk.core.revision = 0
      /\ pc \in { "act", "over" } /\ decision.do = "end" /\ decision.arg = "completed" =>
           core.revision = 0

-------------------------------------------------------------------------------
(* What the transcript keeps *)

\* What a transcript says is not taken back.
Grows(m, n) ==
    /\ n.issued = m.issued /\ n.said = m.said
    /\ \A c \in Calls : Range(m.answers[c]) \subseteq Range(n.answers[c])

(* One answer more.                                                        *)
LEMMA OneMore ==
  ASSUME NEW s, IsSeq(s), NEW x
  PROVE  /\ s = << >> => s \o << x >> = << x >>
         /\ IsSeq(s \o << x >>)
         /\ Range(s) \subseteq Range(s \o << x >>)
<1>1. PICK S : s \in Seq(S)
  BY DEF IsSeq
<1>2. s \in Seq(S \cup { x }) /\ << x >> \in Seq(S \cup { x })
  BY <1>1
<1>3. s \o << x >> \in Seq(S \cup { x })
  BY <1>2, ConcatProperties
<1>4. DOMAIN s \subseteq DOMAIN (s \o << x >>) /\ \A i \in DOMAIN s : (s \o << x >>)[i] = s[i]
  BY <1>2, ConcatProperties
<1>5. << >> \o << x >> = << x >>
  OBVIOUS
<1> QED
  BY <1>3, <1>4, <1>5 DEF IsSeq, Range

(* What has an answer has one in what grows of it.                         *)
LEMMA AnsweredGrow ==
  ASSUME NEW s, IsSeq(s)
  PROVE  s # << >> <=> Range(s) # { }
<1>1. PICK S : s \in Seq(S)
  BY DEF IsSeq
<1>2. s = << >> <=> Len(s) = 0
  BY <1>1, EmptySeq
<1>3. Len(s) \in Nat /\ DOMAIN s = 1..Len(s)
  BY <1>1
<1>4. DOMAIN s = { } <=> Len(s) = 0
  BY <1>3
<1>5. Range(s) # { } <=> DOMAIN s # { }
  BY DEF Range
<1> QED
  BY <1>2, <1>4, <1>5

(* The results of calls that have been said are appended to the answers of  *)
(* each, suspended ones are not (project_final_tool_messages).              *)
LEMMA AppendFacts ==
  ASSUME NEW m, IsTranscript(m), Written(m), NEW calls, SaidIn(m, calls), NEW results
  PROVE  /\ IsTranscript(AppendResults(m, calls, results))
         /\ Written(AppendResults(m, calls, results))
         /\ Grows(m, AppendResults(m, calls, results))
         /\ \A i \in DOMAIN calls : m.answers[calls[i]] = << >> =>
              AppendResults(m, calls, results).answers[calls[i]] =
                IF results[i] \in Suspended THEN << >> ELSE << results[i] >>
         /\ \A c \in Calls : (\A i \in DOMAIN calls : calls[i] # c) =>
              AppendResults(m, calls, results).answers[c] = m.answers[c]
<1> DEFINE mine(c) == { results[i] : i \in { j \in DOMAIN calls : calls[j] = c } } \ Suspended
           a == [ c \in Calls |-> IF mine(c) = { } \/ Len(m.answers[c]) = 2 THEN m.answers[c]
                                  ELSE m.answers[c] \o SetToSeq(mine(c)) ]
           new == AppendResults(m, calls, results)
<1>1. new = [ m EXCEPT !.answers = a ]
  BY DEF AppendResults
<1>2. new.issued = m.issued /\ new.said = m.said /\ new.answers = a
  <2> HIDE DEF a, new
  <2> QED
    BY <1>1 DEF IsTranscript, MessageFields
<1>3. IsTranscript(new)
  BY AppendKeepsTranscript
<1>4. ASSUME NEW i \in DOMAIN calls
      PROVE  /\ calls[i] \in Calls /\ calls[i] \in 1..m.issued
             /\ mine(calls[i]) = { results[i] } \ Suspended
  <2>1. calls[i] \in 1..m.issued /\ \A j \in DOMAIN calls : calls[j] = calls[i] => j = i
    BY <1>4 DEF SaidIn
  <2>2. calls[i] \in Calls
    BY <2>1, CoreLoopAssumption DEF IsTranscript, Calls
  <2>3. { j \in DOMAIN calls : calls[j] = calls[i] } = { i }
    BY <2>1, <1>4
  <2> QED
    BY <2>1, <2>2, <2>3
<1>5. ASSUME NEW c \in Calls, \A i \in DOMAIN calls : calls[i] # c
      PROVE  mine(c) = { }
  BY <1>5
<1>6. ASSUME NEW c \in Calls
      PROVE  a[c] = IF mine(c) = { } \/ Len(m.answers[c]) = 2 THEN m.answers[c]
                    ELSE m.answers[c] \o SetToSeq(mine(c))
  OBVIOUS
<1> HIDE DEF mine, a, new
<1>7. ASSUME NEW c \in Calls, mine(c) = { } PROVE a[c] = m.answers[c]
  BY <1>6, <1>7
<1>8. ASSUME NEW i \in DOMAIN calls, results[i] \notin Suspended
      PROVE  a[calls[i]] = IF Len(m.answers[calls[i]]) = 2 THEN m.answers[calls[i]]
                           ELSE m.answers[calls[i]] \o << results[i] >>
  <2>1. mine(calls[i]) = { results[i] } /\ calls[i] \in Calls
    BY <1>4, <1>8
  <2>2. SetToSeq(mine(calls[i])) = << results[i] >>
    BY <2>1, OneElement
  <2> QED
    BY <1>6, <2>1, <2>2
<1>9. ASSUME NEW c \in Calls
      PROVE  /\ IsSeq(a[c]) /\ Range(m.answers[c]) \subseteq Range(a[c])
             /\ c > m.issued => a[c] = << >>
  <2>1. IsSeq(m.answers[c]) /\ (c > m.issued => m.answers[c] = << >>)
    BY DEF Written
  <2>2. CASE mine(c) = { }
    BY <1>7, <2>1, <2>2
  <2>3. CASE mine(c) # { }
    <3>1. PICK i \in DOMAIN calls : calls[i] = c
      BY <1>5, <2>3
    <3>2. results[i] \notin Suspended /\ c \in 1..m.issued
      BY <1>4, <2>3, <3>1
    <3>3. a[c] = IF Len(m.answers[c]) = 2 THEN m.answers[c] ELSE m.answers[c] \o << results[i] >>
      BY <1>8, <3>1, <3>2
    <3>4. ~(c > m.issued)
      BY <3>2 DEF IsTranscript
    <3> QED
      BY <2>1, <3>3, <3>4, OneMore
  <2> QED
    BY <2>2, <2>3
<1>10. Written(new) /\ Grows(m, new)
  <2>1. m.said # << >> => SaidIn(new, m.said[1].calls)
    BY <1>2 DEF Written, SaidIn
  <2> QED
    BY <1>2, <1>9, <2>1 DEF Written, Grows
<1>11. ASSUME NEW i \in DOMAIN calls, m.answers[calls[i]] = << >>
       PROVE  a[calls[i]] = IF results[i] \in Suspended THEN << >> ELSE << results[i] >>
  <2>1. CASE results[i] \in Suspended
    BY <1>4, <1>7, <1>11, <2>1
  <2>2. CASE results[i] \notin Suspended
    <3>1. Len(<< >>) # 2 /\ << >> \o << results[i] >> = << results[i] >>
      OBVIOUS
    <3> QED
      BY <1>8, <1>11, <2>2, <3>1
  <2> QED
    BY <2>1, <2>2
<1>12. ASSUME NEW c \in Calls, \A i \in DOMAIN calls : calls[i] # c
       PROVE  a[c] = m.answers[c]
  BY <1>5, <1>7, <1>12
<1> QED
  BY <1>2, <1>3, <1>10, <1>11, <1>12 DEF new

(* What has run and was settled, answered or said stays so.                *)
LEMMA GrowsKeeps ==
  ASSUME NEW m, NEW n, Written(m), Written(n), Grows(m, n)
  PROVE  /\ \A c \in Calls : m.answers[c] # << >> => n.answers[c] # << >>
         /\ \A r : /\ Cut(r, m) => Cut(r, n)
                   /\ Answered(r, m) => Answered(r, n)
                   /\ SaidRuns(r, m) => SaidRuns(r, n)
                   /\ \A w, c : Recorded(w, r, c, m) => Recorded(w, r, c, n)
         /\ \A calls : SaidIn(m, calls) => SaidIn(n, calls)
<1>1. ASSUME NEW c \in Calls, m.answers[c] # << >> PROVE n.answers[c] # << >>
  <2>1. Range(m.answers[c]) # { } /\ Range(m.answers[c]) \subseteq Range(n.answers[c])
    BY <1>1, AnsweredGrow DEF Written, Grows
  <2> QED
    BY <2>1, AnsweredGrow DEF Written
<1>2. ASSUME NEW r PROVE /\ Cut(r, m) => Cut(r, n)
                         /\ Answered(r, m) => Answered(r, n)
                         /\ SaidRuns(r, m) => SaidRuns(r, n)
  <2>1. Cut(r, m) => Cut(r, n)
    BY DEF Cut, Grows
  <2>2. Answered(r, m) => Answered(r, n)
    BY <1>1 DEF Answered
  <2>3. SaidRuns(r, m) => SaidRuns(r, n)
    BY DEF SaidRuns, Grows
  <2> QED
    BY <2>1, <2>2, <2>3
<1>3. ASSUME NEW r, NEW w, NEW c, Recorded(w, r, c, m) PROVE Recorded(w, r, c, n)
  BY <1>2, <1>3 DEF Recorded
<1>4. ASSUME NEW calls, SaidIn(m, calls) PROVE SaidIn(n, calls)
  BY <1>4 DEF SaidIn, Grows
<1> QED
  BY <1>1, <1>2, <1>3, <1>4

(* The open calls have been said (unsettled_tool_calls).                   *)
LEMMA UnsettledSaid ==
  ASSUME NEW m, IsTranscript(m)
  PROVE  SaidIn(m, Unsettled(m)) /\ OpenIn(m, Unsettled(m))
         /\ \A c : IsOpen(m, c) => \E i \in DOMAIN Unsettled(m) : Unsettled(m)[i] = c
<1>1. /\ Ordered(OpenCalls(m), Unsettled(m)) /\ Range(Unsettled(m)) = OpenCalls(m)
      /\ OpenIn(m, Unsettled(m))
  BY UnsettledFacts, UnsettledOpen
<1>2. m.issued \in Nat /\ m.issued <= MaxCalls /\ MaxCalls \in Nat
  BY CoreLoopAssumption DEF IsTranscript
<1>3. OpenCalls(m) \subseteq 1..m.issued /\ 1..m.issued \subseteq Calls
  BY <1>2 DEF OpenCalls, Calls
<1>4. Cardinality(OpenCalls(m)) \in Nat
  <2>1. IsFiniteSet(1..m.issued)
    BY <1>2, FS_Interval
  <2>2. IsFiniteSet(OpenCalls(m))
    BY <1>3, <2>1, FS_Subset
  <2> QED
    BY <2>2, FS_CardinalityType
<1>5. Unsettled(m) \in Seq(Calls)
  <2>1. Unsettled(m) \in [ 1..Cardinality(OpenCalls(m)) -> Calls ]
    BY <1>1, <1>3 DEF Ordered
  <2> QED
    BY <1>4, <2>1
<1>6. SaidIn(m, Unsettled(m))
  BY <1>1, <1>5 DEF SaidIn, OpenIn
<1>7. ASSUME NEW c, IsOpen(m, c) PROVE \E i \in DOMAIN Unsettled(m) : Unsettled(m)[i] = c
  <2>1. c \in OpenCalls(m)
    BY <1>7 DEF IsOpen, OpenCalls
  <2> QED
    BY <1>1, <2>1 DEF Range
<1> QED
  BY <1>1, <1>6, <1>7

(* Settling answers every call that has run; one that had no answer is cut  *)
(* off by that (_settle_unexecuted_calls, _terminate_interrupted_execution).*)
LEMMA SettleFacts ==
  ASSUME NEW m, IsTranscript(m), Written(m), NEW r, SaidRuns(r, m)
  PROVE  /\ IsTranscript(AppendResults(m, Unsettled(m), Same("notExecuted", Unsettled(m))))
         /\ Written(AppendResults(m, Unsettled(m), Same("notExecuted", Unsettled(m))))
         /\ Grows(m, AppendResults(m, Unsettled(m), Same("notExecuted", Unsettled(m))))
         /\ Answered(r, AppendResults(m, Unsettled(m), Same("notExecuted", Unsettled(m))))
         /\ (\E c \in Calls : r[c] > 0 /\ m.answers[c] = << >>) =>
              Cut(r, AppendResults(m, Unsettled(m), Same("notExecuted", Unsettled(m))))
<1> DEFINE calls == Unsettled(m)
           results == Same("notExecuted", calls)
           new == AppendResults(m, calls, results)
<1>1. /\ IsTranscript(new) /\ Written(new) /\ Grows(m, new)
      /\ \A i \in DOMAIN calls : m.answers[calls[i]] = << >> =>
           new.answers[calls[i]] = IF results[i] \in Suspended THEN << >> ELSE << results[i] >>
  BY UnsettledSaid, AppendFacts
<1>2. \A i \in DOMAIN calls : results[i] = "notExecuted"
  BY DEF Same
<1>3. "notExecuted" \notin Suspended
  BY DEF Suspended
<1>4. AllAnswered(new)
  BY SettledFacts
<1>5. \A c : IsOpen(m, c) => \E i \in DOMAIN calls : calls[i] = c
  BY UnsettledSaid
<1> HIDE DEF calls, results, new
<1>6. Answered(r, new)
  <2>1. ASSUME NEW c \in Calls, r[c] > 0 PROVE new.answers[c] # << >>
    <3>1. c \in 1..new.issued
      BY <1>1, <2>1 DEF SaidRuns, Grows
    <3> QED
      BY <1>4, <3>1 DEF AllAnswered
  <2> QED
    BY <2>1 DEF Answered
<1>7. ASSUME NEW c \in Calls, r[c] > 0, m.answers[c] = << >> PROVE Cut(r, new)
  <2>1. IsOpen(m, c)
    BY <1>7 DEF IsOpen, SaidRuns
  <2>2. PICK i \in DOMAIN calls : calls[i] = c
    BY <1>5, <2>1
  <2>3. new.answers[c] = << "notExecuted" >>
    BY <1>1, <1>2, <1>3, <1>7, <2>2
  <2>4. "notExecuted" \in Range(new.answers[c])
    BY <2>3 DEF Range
  <2> QED
    BY <1>7, <2>4 DEF Cut
<1> QED
  BY <1>1, <1>6, <1>7 DEF new, results, calls

-------------------------------------------------------------------------------
(* What an observation says *)

(* What a batch waits for is the first of its calls that are suspended      *)
(* (ToolBatchObservation).                                                  *)
LEMMA BatchWaits ==
  ASSUME NEW calls, NEW results, DOMAIN results \subseteq Nat
  PROVE  /\ ToolBatch(calls, results).calls = << >>
         /\ (\A i \in DOMAIN results : results[i] \notin Suspended) =>
              ToolBatch(calls, results).wait = "none"
         /\ ToolBatch(calls, results).wait # "none" =>
              \E i \in DOMAIN results : /\ results[i] \in Suspended
                                        /\ ToolBatch(calls, results).call = calls[i]
<1> DEFINE waits == { i \in DOMAIN results : results[i] \in Suspended }
           first == CHOOSE i \in waits : \A j \in waits : i <= j
           o == ToolBatch(calls, results)
<1>1. /\ o.wait = IF waits = { } THEN "none"
                  ELSE IF results[first] = "approval" THEN "tool_approval" ELSE "user_input"
      /\ o.call = IF waits = { } THEN 0 ELSE calls[first]
      /\ o.calls = << >>
  BY DEF ToolBatch, Nothing
<1>2. waits # { } => first \in waits
  <2> HIDE DEF waits
  <2>1. ASSUME waits # { } PROVE \E i \in waits : \A j \in waits : i <= j
    <3>1. waits \subseteq Nat
      BY DEF waits
    <3>2. PICK i \in waits : \A j \in waits : << j, i >> \notin OpToRel(<, Nat)
      BY <2>1, <3>1, WFMin, NatLessThanWellFounded
    <3>3. \A j \in waits : ~(j < i)
      BY <3>1, <3>2 DEF OpToRel
    <3> QED
      BY <3>1, <3>3
  <2> QED
    BY <2>1
<1> HIDE DEF first, o
<1>3. o.wait # "none" => waits # { }
  BY <1>1
<1>4. (\A i \in DOMAIN results : results[i] \notin Suspended) => o.wait = "none"
  BY <1>1
<1> QED
  BY <1>1, <1>2, <1>3, <1>4 DEF o

(* The other observations wait for nothing.                                 *)
LEMMA NothingWaits ==
  ASSUME NEW feedback, NEW message
  PROVE  /\ UserInput(feedback).wait = "none" /\ ModelSaid(message).wait = "none"
         /\ ModelFailed.wait = "none" /\ Cancellation.wait = "none"
  BY DEF UserInput, ModelSaid, ModelFailed, Cancellation, Nothing

(* The user is only asked about a call when a tool waits for it (decide).   *)
LEMMA DecideWaits ==
  ASSUME NEW c, NEW o, NEW mode, NEW lim,
         Decide(c, o, mode, lim).do = "wait", Decide(c, o, mode, lim).arg \in Asks
  PROVE  o.wait # "none"
<1> DEFINE Other(i) == \/ Move(c, o, mode, lim, i) # "wait"
                       \/ Rules(c, o, mode, lim)[i].decision.arg \notin Asks
<1>1. Other(1) /\ Other(2) /\ Other(3) /\ Other(5) /\ Other(6) /\ Other(7) /\ Other(13)
  BY RuleFacts
<1>2. Other(16) /\ Other(18) /\ Other(20) /\ Other(24)
  BY RuleFacts
<1>3. Other(8) /\ Other(10) /\ Other(14) /\ Other(15) /\ Other(17)
  BY DEF Rules, Move, CallModel
<1>4. Other(19) /\ Other(21) /\ Other(22) /\ Other(23) /\ Other(25)
  BY DEF Rules, Move, CallModel
<1>5. Other(9) /\ Other(11) /\ Other(12)
  BY DEF Rules, Wait, Asks
<1>6. PICK i \in 1..25 : /\ Guard(c, o, mode, lim, i)
                         /\ Decide(c, o, mode, lim) = Rules(c, o, mode, lim)[i].decision
  BY DecideRule
<1>7. ~Other(i)
  BY <1>6 DEF Move
<1> HIDE DEF Other
<1>8. i = 4
  BY <1>1, <1>2, <1>3, <1>4, <1>5, <1>7
<1> QED
  BY <1>6, <1>8, RuleFacts

(* A run that may only read does not complete after a change (decide).      *)
LEMMA DecideReads ==
  ASSUME NEW c, IsCore(c), NEW o, NEW lim,
         Decide(c, o, "read", lim).do = "end", Decide(c, o, "read", lim).arg = "completed"
  PROVE  c.task = "satisfied" \/ c.revision = 0
<1>1. PICK i \in 1..25 : /\ Guard(c, o, "read", lim, i)
                         /\ \A j \in 1..25 : Guard(c, o, "read", lim, j) => i <= j
                         /\ Decide(c, o, "read", lim) = Rules(c, o, "read", lim)[i].decision
  BY DecideRule
<1>2. Guard(c, o, "read", lim, 6) <=> c.revision > 0
  BY DEF Rules, Guard
<1>3. Guard(c, o, "read", lim, 1) <=> c.task = "satisfied"
  BY DEF Rules, Guard
<1>4. i \notin 2..6
  <2> DEFINE D(j) == Rules(c, o, "read", lim)[j].decision
  <2>1. D(2).arg # "completed" /\ D(3).arg # "completed"
    BY DEF Rules, Terminate
  <2>2. D(5).arg # "completed" /\ D(6).arg # "completed"
    BY DEF Rules, Terminate
  <2>3. D(4).do # "end"
    BY DEF Rules, Wait
  <2> HIDE DEF D
  <2>4. Decide(c, o, "read", lim) = D(i)
    BY <1>1 DEF D
  <2> QED
    BY <2>1, <2>2, <2>3, <2>4
<1>5. CASE c.revision > 0
  <2>1. i = 1
    BY <1>1, <1>2, <1>4, <1>5
  <2> QED
    BY <1>1, <1>3, <2>1
<1> QED
  BY <1>5 DEF IsCore

-------------------------------------------------------------------------------
(* What a boundary keeps *)

(* A boundary at which everything that ran is known is a place to go on     *)
(* from (_commit_boundary).                                                 *)
LEMMA CommitStores ==
  ASSUME CoreInv, WorldShape, NEW b, NEW c, NEW m, NEW w, Commit(b, c, m, w),
         UNCHANGED << ws, ran, crashes >>, Written(m), SaidRuns(ran, m),
         Recorded(ws, ran, c, m), Careful => Answered(ran, m),
         w # NoWait => b = "waiting", w.kind \in Asks => IsOpen(m, w.call)
  PROVE  /\ Stored' /\ disk'.messages = m
         /\ b = "before_tools" => disk'.resume = "before_tools" /\ disk'.status = "running"
<1>1. /\ disk'.status = IF b = "waiting" THEN "waiting" ELSE "running"
      /\ disk'.core = c /\ disk'.messages = m /\ disk'.wait = w
      /\ disk'.resume = ResumePoint(b, w) /\ disk'.prepared = NoResume /\ disk'.ws = ws
  BY DEF Commit, CoreInv, Shapes, IsDisk, DiskFields
<1>2. Careful' <=> Careful
  BY DEF Careful
<1>3. ws \in 0..ws
  BY DEF WorldShape
<1>4. (Careful => ExecutionIsRecorded)'
  BY <1>1, <1>2 DEF ExecutionIsRecorded, Answered
<1>5. Stored'
  BY <1>1, <1>2, <1>3, <1>4 DEF Stored
<1> QED
  BY <1>1, <1>5 DEF ResumePoint

(* What stays in the files stays true while nothing happens.                *)
LEMMA StoredStays ==
  ASSUME Stored, UNCHANGED << disk, ws, ran, crashes >>
  PROVE  Stored'
  BY DEF Stored, ExecutionIsRecorded, Careful

\* As often as r, or more often.
RunsMore(r, s) == \A c \in Calls : r[c] > 0 => s[c] > 0

(* What was cut off stays so when more is run.                              *)
LEMMA RunsKeep ==
  ASSUME NEW r, NEW s, RunsMore(r, s), NEW m
  PROVE  /\ Cut(r, m) => Cut(s, m)
         /\ \A w, c : Recorded(w, r, c, m) => Recorded(w, s, c, m)
  BY DEF RunsMore, Cut, Recorded

(* A change in a batch of results raises the revision (_reduce_workspace).  *)
LEMMA ToolsRecord ==
  ASSUME NEW c, IsCore(c), NEW results, NEW print, NEW mode
  PROVE  /\ Changed(results) => ReduceTools(c, results, print, mode).revision > 0
         /\ c.revision > 0 => ReduceTools(c, results, print, mode).revision > 0
         /\ \A w, r, m : Recorded(w, r, c, m) =>
              Recorded(w, r, ReduceTools(c, results, print, mode), m)
<1>1. /\ ReduceTools(c, results, print, mode).revision =
           IF Changed(results) THEN c.revision + 1 ELSE c.revision
      /\ c.revision \in Nat
  BY ToolsKeepTurnsAndTask DEF IsCore
<1> QED
  BY <1>1 DEF Recorded

(* A new message says new calls (call_model_once).                          *)
LEMMA NewCallsSaid ==
  ASSUME IsTranscript(journal), Written(journal), NEW message \in Messages
  PROVE  /\ Written(Append1(journal, message)) /\ SaidIn(Append1(journal, message), message.calls)
         /\ OpenIn(Append1(journal, message), message.calls)
         /\ Append1(journal, message).answers = journal.answers
         /\ \A r : SaidRuns(r, journal) => SaidRuns(r, Append1(journal, message))
<1> DEFINE new == Append1(journal, message)
<1>1. journal.issued \in Nat /\ MaxCalls \in Nat
  BY CoreLoopAssumption DEF IsTranscript
<1>2. \E n \in Nat : /\ DOMAIN message.calls = 1..n /\ Len(message.calls) = n
                     /\ \A i \in 1..n : message.calls[i] = journal.issued + i
                     /\ journal.issued + n <= MaxCalls
                     /\ message.calls = [ i \in 1..n |-> message.calls[i] ]
  <2>1. CASE message \in { [ calls |-> [ i \in 1..n |-> journal.issued + i ], print |-> p, text |-> FALSE ] :
               n \in { m \in 1..MaxBatch : journal.issued + m <= MaxCalls }, p \in Prints }
    <3>1. PICK n \in 1..MaxBatch : /\ journal.issued + n <= MaxCalls
                                   /\ message.calls = [ i \in 1..n |-> journal.issued + i ]
      BY <2>1
    <3>2. n \in Nat
      BY CoreLoopAssumption
    <3> QED
      BY <3>1, <3>2
  <2>2. CASE message \in { [ calls |-> << >>, print |-> 0, text |-> t ] : t \in BOOLEAN }
    <3>1. DOMAIN message.calls = 1..0 /\ Len(message.calls) = 0 /\ message.calls = << >>
      BY <2>2
    <3>2. journal.issued + 0 <= MaxCalls /\ \A i \in 1..0 : FALSE
      BY CoreLoopAssumption DEF IsTranscript
    <3>3. message.calls = [ i \in 1..0 |-> message.calls[i] ]
      BY <3>1
    <3> QED
      BY <3>1, <3>2, <3>3
  <2> QED
    BY <2>1, <2>2 DEF Messages
<1>3. PICK n \in Nat : /\ DOMAIN message.calls = 1..n /\ Len(message.calls) = n
                       /\ \A i \in 1..n : message.calls[i] = journal.issued + i
                       /\ journal.issued + n <= MaxCalls
                       /\ message.calls = [ i \in 1..n |-> message.calls[i] ]
  BY <1>2
<1>4. /\ new.issued = journal.issued + n /\ new.answers = journal.answers
      /\ new.said = << message >>
  BY <1>3 DEF Append1, IsTranscript, MessageFields
<1> HIDE DEF new
<1>5. ASSUME NEW i \in DOMAIN message.calls
      PROVE  /\ message.calls[i] = journal.issued + i /\ i \in 1..n
             /\ journal.issued + i \in Calls /\ journal.issued + i > journal.issued
             /\ message.calls[i] \in 1..new.issued
  BY <1>1, <1>3, <1>4, <1>5 DEF Calls
<1>6. SaidIn(new, message.calls)
  <2>1. ASSUME NEW i \in DOMAIN message.calls, NEW j \in DOMAIN message.calls,
               message.calls[i] = message.calls[j]
        PROVE  i = j
    <3>1. journal.issued + i = journal.issued + j /\ i \in 1..n /\ j \in 1..n
      BY <1>5, <2>1
    <3> QED
      BY <1>1, <3>1
  <2>2. message.calls \in [ 1..n -> Calls ]
    BY <1>3, <1>5
  <2>3. message.calls \in Seq(Calls)
    BY <2>2
  <2> QED
    BY <1>5, <2>1, <2>3 DEF SaidIn
<1>7. OpenIn(new, message.calls)
  <2>1. ASSUME NEW i \in DOMAIN message.calls PROVE new.answers[message.calls[i]] = << >>
    <3>1. /\ message.calls[i] = journal.issued + i
          /\ journal.issued + i \in Calls /\ journal.issued + i > journal.issued
      BY <1>5, <2>1
    <3> QED
      BY <1>4, <3>1 DEF Written
  <2> QED
    BY <1>6, <2>1 DEF SaidIn, OpenIn
<1>8. Written(new)
  <2>1. ASSUME NEW c \in Calls, c > new.issued PROVE c > journal.issued
    BY <1>1, <1>3, <1>4, <2>1 DEF Calls
  <2>2. \A c \in Calls : IsSeq(new.answers[c]) /\ (c > new.issued => new.answers[c] = << >>)
    BY <1>4, <2>1 DEF Written
  <2>3. new.said[1] = message
    BY <1>4
  <2> QED
    BY <1>6, <2>2, <2>3 DEF Written
<1>9. ASSUME NEW r, SaidRuns(r, journal) PROVE SaidRuns(r, new)
  <2>1. 1..journal.issued \subseteq 1..new.issued
    BY <1>1, <1>3, <1>4
  <2> QED
    BY <1>9, <2>1 DEF SaidRuns
<1> QED
  BY <1>4, <1>6, <1>7, <1>8, <1>9 DEF new

-------------------------------------------------------------------------------
(* Entering and deciding *)

LEMMA NoCallsSaid ==
  ASSUME NEW m
  PROVE  SaidIn(m, << >>) /\ OpenIn(m, << >>)
<1>1. << >> \in Seq(Calls) /\ DOMAIN << >> = { }
  OBVIOUS
<1> QED
  BY <1>1 DEF SaidIn, OpenIn

LEMMA EnterRecords ==
  ASSUME CoreInv, EffectInv, RefuseCancelled \/ EnterWithUserInput \/ EnterWithMessage
  PROVE  EffectInv'
<1>1. /\ pc = "enter" /\ pc' \in { "over", "decide" }
      /\ UNCHANGED << disk, journal, entry, catalog, batch, World, Bounds >>
  BY DEF RefuseCancelled, EnterWithUserInput, EnterWithMessage
<1>2. WorldShape' /\ Stored'
  BY <1>1, StoredStays DEF World, Bounds, EffectInv, WorldShape, UserPlaces
<1>3. CASE RefuseCancelled
  <2>1. pc' = "over" /\ decision'.code = "runtime.cancelled"
    BY <1>3 DEF RefuseCancelled, Terminate
  <2> QED
    BY <1>2, <2>1 DEF EffectInv, AtUser, UserPlaces, AtEntry, AtDecision, AtMove, AtExecution, Elsewhere
<1>4. CASE EnterWithUserInput \/ EnterWithMessage
  <2>1. pc' = "decide" /\ ~catalog
    BY <1>1, <1>4 DEF EnterWithUserInput, EnterWithMessage, EffectInv, AtUser
  <2>2. entry.kind # "results" /\ Recorded(ws, ran, core, journal) /\ (Careful => Answered(ran, journal))
    BY <1>1, <1>4 DEF EnterWithUserInput, EnterWithMessage, EffectInv, AtEntry, ChangeArrives
  <2>3. core'.revision = core.revision
    BY <1>4, UserInputKeepsTurns DEF EnterWithUserInput, EnterWithMessage, CoreInv, Shapes
  <2>4. Knows'
    BY <1>1, <2>2, <2>3 DEF World, Bounds, Knows, Recorded, Careful
  <2>5. SaidIn(journal, obs'.calls) /\ obs'.wait = "none"
    <3>1. CASE EnterWithUserInput
      BY <3>1, ObservedCalls, NothingWaits, NoCallsSaid DEF EnterWithUserInput
    <3>2. CASE EnterWithMessage
      <4>1. obs' = ModelSaid(journal.said[1]) /\ journal.said # << >>
        BY <1>1, <3>2 DEF EnterWithMessage, EffectInv, AtEntry
      <4> QED
        BY <4>1, ObservedCalls, NothingWaits DEF EffectInv, WorldShape, Written
    <3> QED
      BY <1>4, <3>1, <3>2
  <2>6. AtDecision'
    BY <1>1, <2>1, <2>4, <2>5 DEF AtDecision, CanRun
  <2> QED
    BY <1>2, <2>1, <2>6 DEF EffectInv, AtUser, UserPlaces, AtEntry, AtMove, AtExecution, Elsewhere
<1> QED
  BY <1>3, <1>4

(* The result of a call that the user was asked about is recorded with it   *)
(* (run_core, entry of kind tool_results).                                  *)
LEMMA ResultsRecord ==
  ASSUME CoreInv, EffectInv, EnterWithResults
  PROVE  EffectInv'
<1> DEFINE calls == Unsettled(journal)
           results == [ i \in DOMAIN calls |-> IF calls[i] \in DOMAIN entry.answers
                                               THEN entry.answers[calls[i]] ELSE "incomplete" ]
<1>1. /\ pc = "enter" /\ pc' = "decide" /\ entry.kind = "results"
      /\ obs' = ToolBatch(calls, results)
      /\ core' = ReduceTools(core, results, PrintOf(journal, calls), disk.mode)
      /\ journal' = AppendResults(journal, calls, results)
      /\ Commit("after_tools", core', journal', NoWait)
      /\ UNCHANGED << entry, catalog, batch, World, Bounds >>
  BY DEF EnterWithResults
<1>2. /\ SaidIn(journal, calls) /\ OpenIn(journal, calls)
      /\ \A c : IsOpen(journal, c) => \E i \in DOMAIN calls : calls[i] = c
  BY UnsettledSaid DEF CoreInv, Shapes
<1>3. /\ IsTranscript(journal) /\ Written(journal) /\ IsCore(core)
      /\ SaidRuns(ran, journal)
  BY <1>1 DEF CoreInv, Shapes, EffectInv, WorldShape, UserPlaces
<1>4. \A i \in DOMAIN calls : results[i] \notin Suspended
  BY <1>1 DEF EffectInv, AtEntry, Suspended
<1>5. DOMAIN results = DOMAIN calls /\ DOMAIN calls \subseteq Nat
  BY <1>2 DEF SaidIn
<1>6. \A i \in DOMAIN calls : calls[i] \in DOMAIN entry.answers => results[i] = entry.answers[calls[i]]
  OBVIOUS
<1> HIDE DEF calls, results
<1>7. obs'.calls = << >> /\ obs'.wait = "none"
  BY <1>1, <1>4, <1>5, BatchWaits
<1>8. /\ IsTranscript(journal') /\ Written(journal') /\ Grows(journal, journal')
      /\ \A i \in DOMAIN calls : journal.answers[calls[i]] = << >> =>
           journal'.answers[calls[i]] = IF results[i] \in Suspended THEN << >> ELSE << results[i] >>
  BY <1>1, <1>2, <1>3, AppendFacts
<1>9. SaidRuns(ran, journal')
  BY <1>3, <1>8, GrowsKeeps
<1>10. Answered(ran, journal')
  <2>1. ASSUME NEW c \in Calls, ran[c] > 0 PROVE journal'.answers[c] # << >>
    <3>1. CASE journal.answers[c] # << >>
      BY <1>3, <1>8, <3>1, GrowsKeeps
    <3>2. CASE journal.answers[c] = << >>
      <4>1. IsOpen(journal, c)
        BY <1>3, <2>1, <3>2 DEF IsOpen, SaidRuns
      <4>2. PICK i \in DOMAIN calls : calls[i] = c
        BY <1>2, <4>1
      <4>3. journal'.answers[c] = << results[i] >>
        BY <1>4, <1>8, <3>2, <4>2
      <4> QED
        BY <4>3
    <3> QED
      BY <3>1, <3>2
  <2> QED
    BY <2>1 DEF Answered
<1>11. Recorded(ws, ran, core', journal')
  <2>1. CASE Recorded(ws, ran, core, journal)
    BY <1>1, <1>3, <1>8, <2>1, GrowsKeeps, ToolsRecord
  <2>2. CASE ChangeArrives
    <3>1. PICK c \in DOMAIN entry.answers : entry.answers[c] \in Changes /\ IsOpen(journal, c)
      BY <2>2 DEF ChangeArrives
    <3>2. PICK i \in DOMAIN calls : calls[i] = c
      BY <1>2, <3>1
    <3>3. results[i] \in Changes
      BY <1>6, <3>1, <3>2
    <3>4. Changed(results)
      BY <1>5, <3>2, <3>3 DEF Changed, Range
    <3> QED
      BY <1>1, <1>3, <3>4, ToolsRecord DEF Recorded
  <2> QED
    BY <1>1, <2>1, <2>2 DEF EffectInv, AtEntry
<1>12. Stored'
  <2>1. NoWait.kind \notin Asks
    BY DEF NoWait, Asks
  <2> QED
    BY <1>1, <1>8, <1>9, <1>10, <1>11, <2>1, CommitStores DEF EffectInv, World, Bounds
<1>13. WorldShape'
  BY <1>1, <1>8, <1>9 DEF EffectInv, WorldShape, World, Bounds
<1>14. AtDecision'
  BY <1>1, <1>7, <1>10, <1>11, NoCallsSaid DEF AtDecision, Knows, CanRun, World, Bounds
<1> QED
  BY <1>1, <1>12, <1>13, <1>14 DEF EffectInv, AtUser, UserPlaces, AtEntry, AtMove, AtExecution, Elsewhere

(* Calls that a decision leaves behind are settled: what has run of them is *)
(* cut off or has an answer (_settle_unexecuted_calls).                     *)
LEMMA DecisionRecords ==
  ASSUME CoreInv, EffectInv, DecideNext
  PROVE  EffectInv'
<1> DEFINE seen == CancellationSeen
           core1 == IF seen THEN ReduceCancellation(core) ELSE core
           obs1 == IF seen THEN Cancellation ELSE obs
           open == Unsettled(journal)
<1>1. /\ pc = "decide" /\ pc' = "act"
      /\ decision' = Decide(core1, obs1, disk.mode, limits)
      /\ batch' = [ NoBatch EXCEPT !.calls = IF decision'.do = "tools" THEN obs1.calls ELSE << >> ]
      /\ IF MustSettle(decision') /\ open # << >> THEN Settle(core1, open)
         ELSE core' = core1 /\ obs' = obs1 /\ UNCHANGED << disk, journal >>
      /\ UNCHANGED << entry, catalog, World, Bounds >>
  BY DEF DecideNext
<1>2. IsCore(core1) /\ core1.revision = core.revision
  BY RecordFailuresKeepsTurns DEF CoreInv, Shapes, ReduceCancellation, Kept
<1>3. /\ SaidIn(journal, obs1.calls) /\ (catalog => OpenIn(journal, obs1.calls))
      /\ obs1.wait # "none" => obs1 = obs /\ IsOpen(journal, obs.call)
  BY <1>1, ObservedCalls, NothingWaits, NoCallsSaid DEF EffectInv, AtDecision, CanRun
<1>4. decision'.do = "wait" /\ decision'.arg \in Asks => obs1.wait # "none"
  BY <1>1, DecideWaits
<1>5. Knows
  BY <1>1 DEF EffectInv, AtDecision
<1>6. /\ batch' = [ calls |-> batch'.calls, results |-> batch'.results ]
      /\ batch'.calls = IF decision'.do = "tools" THEN obs1.calls ELSE << >>
      /\ batch'.results = << >>
  BY <1>1 DEF NoBatch
<1>7. IsTranscript(journal) /\ Written(journal) /\ SaidRuns(ran, journal)
  BY <1>1 DEF CoreInv, Shapes, EffectInv, WorldShape, UserPlaces
<1> HIDE DEF core1, obs1
<1>8. CASE MustSettle(decision') /\ open # << >>
  <2>1. /\ core' = ReduceTools(core1, Same("notExecuted", open), PrintOf(journal, open), disk.mode)
        /\ journal' = AppendResults(journal, open, Same("notExecuted", open))
        /\ Commit("after_tools", core', journal', NoWait)
    BY <1>1, <1>8 DEF Settle
  <2>2. /\ Written(journal') /\ Grows(journal, journal') /\ Answered(ran, journal')
    BY <1>7, <2>1, SettleFacts
  <2>3. SaidRuns(ran, journal')
    BY <1>7, <2>2, GrowsKeeps
  <2>4. core'.revision = core.revision
    BY <1>2, <2>1, SettlingKeeps DEF Kept
  <2>5. Recorded(ws, ran, core', journal')
    <3>1. Recorded(ws, ran, core, journal')
      BY <1>5, <1>7, <2>2, GrowsKeeps DEF Knows
    <3> QED
      BY <2>4, <3>1 DEF Recorded
  <2>6. Stored'
    <3>1. NoWait.kind \notin Asks
      BY DEF NoWait, Asks
    <3> QED
      BY <1>1, <2>1, <2>2, <2>3, <2>5, <3>1, CommitStores DEF EffectInv, World, Bounds
  <2>7. WorldShape'
    BY <1>1, <1>6, <2>2, <2>3 DEF EffectInv, WorldShape, World, Bounds
  <2>8. decision'.do # "tools" /\ ~(decision'.do = "wait" /\ decision'.arg \in Asks)
    BY <1>8 DEF MustSettle, Asks
  <2>9. AtMove'
    BY <1>1, <2>2, <2>5, <2>8 DEF AtMove, Knows, World
  <2> QED
    BY <1>1, <2>6, <2>7, <2>9 DEF EffectInv, AtUser, UserPlaces, AtEntry, AtDecision, AtExecution, Elsewhere
<1>9. CASE ~(MustSettle(decision') /\ open # << >>)
  <2>1. core'.revision = core.revision /\ obs' = obs1 /\ UNCHANGED << disk, journal >>
    BY <1>1, <1>2, <1>9
  <2>2. WorldShape' /\ Stored'
    BY <1>1, <1>6, <2>1, <1>7, StoredStays DEF EffectInv, WorldShape, World, Bounds
  <2>3. Knows'
    BY <1>1, <1>5, <2>1 DEF Knows, Recorded, Careful, World, Bounds
  <2>4. AtMove'
    BY <1>1, <1>3, <1>4, <1>6, <2>1, <2>3 DEF AtMove, CanRun
  <2> QED
    BY <1>1, <2>2, <2>4 DEF EffectInv, AtUser, UserPlaces, AtEntry, AtDecision, AtExecution, Elsewhere
<1> QED
  BY <1>8, <1>9

-------------------------------------------------------------------------------
(* Boundaries before a wait, an end, a call of the model and a batch *)

LEMMA BoundariesRecord ==
  ASSUME CoreInv, EndInv, EffectInv, CommitWait \/ CommitTerminal \/ StartModel \/ Admit
  PROVE  EffectInv'
<1>1. PICK b, w :
        /\ pc = "act" /\ Commit(b, core', journal, w)
        /\ UNCHANGED << journal, obs, entry, catalog, decision, batch, World, Bounds >>
        /\ \/ pc' = "over" /\ decision.do = "wait" /\ b = "waiting" /\ w = WaitFor /\ core' = core
           \/ pc' = "over" /\ decision.do = "end" /\ w = NoWait /\ core' = ApplyDecision(core, decision)
           \/ pc' = "model" /\ w = NoWait /\ core' = core
           \/ /\ pc' = "execute" /\ w = NoWait /\ core' = core
              /\ b = "before_tools" /\ decision.do = "tools" /\ catalog
  BY DEF CommitWait, CommitTerminal, StartModel, Admit
<1>2. core'.revision = core.revision
  <2>1. decision.do = "end" => decision.arg \in Terminal
    BY <1>1 DEF EndInv, EndsOnce
  <2> QED
    BY <1>1, <2>1, TerminalEndsPlan DEF CoreInv, Shapes
<1>3. Knows /\ Written(journal) /\ SaidRuns(ran, journal)
  BY <1>1 DEF EffectInv, AtMove, WorldShape, UserPlaces
<1>4. Recorded(ws, ran, core', journal)
  BY <1>2, <1>3 DEF Knows, Recorded
<1>5. w # NoWait => b = "waiting"
  BY <1>1
<1>6. w.kind \in Asks => IsOpen(journal, w.call)
  <2>1. NoWait.kind \notin Asks
    BY DEF NoWait, Asks
  <2>2. WaitFor.kind = decision.arg /\ (decision.arg \in Asks => WaitFor.call = obs.call)
    BY DEF WaitFor, Asks
  <2> QED
    BY <1>1, <2>1, <2>2 DEF EffectInv, AtMove
<1>7. /\ Stored' /\ disk'.messages = journal
      /\ b = "before_tools" => disk'.resume = "before_tools" /\ disk'.status = "running"
  BY <1>1, <1>3, <1>4, <1>5, <1>6, CommitStores DEF EffectInv, Knows, World, Bounds
<1>8. WorldShape' /\ Knows'
  BY <1>1, <1>3, <1>4 DEF EffectInv, WorldShape, Knows, Careful, World, Bounds
<1>9. CASE pc' \in { "over", "model" }
  BY <1>7, <1>8, <1>9 DEF EffectInv, AtUser, UserPlaces, AtEntry, AtDecision, AtMove, AtExecution, Elsewhere
<1>10. CASE pc' = "execute"
  <2>1. /\ SaidIn(journal, batch.calls) /\ OpenIn(journal, batch.calls) /\ batch.results = << >>
        /\ b = "before_tools"
    BY <1>1, <1>10 DEF EffectInv, AtMove, CanRun
  <2>2. << >> \in Seq(ResultKinds) /\ Len(<< >>) = 0 /\ Len(batch.calls) \in Nat
    BY <2>1 DEF SaidIn
  <2>3. Careful' => ~ \E c \in Calls : ran[c] > 0 /\ journal.answers[c] = << >>
    BY <1>1, <1>3 DEF Knows, Answered, Careful, Bounds
  <2>4. AtExecution'
    BY <1>1, <1>4, <1>7, <2>1, <2>2, <2>3 DEF AtExecution, World
  <2> QED
    BY <1>7, <1>8, <1>10, <2>4 DEF EffectInv, AtUser, UserPlaces, AtEntry, AtDecision, AtMove, Elsewhere
<1> QED
  BY <1>1, <1>9, <1>10

(* A run that waits has recorded what has run, and a run that has ended is  *)
(* not looked at again (_commit_run).                                       *)
LEMMA FinishRecords ==
  ASSUME CoreInv, EndInv, EffectInv, Finish
  PROVE  EffectInv'
<1>1. /\ pc = "over" /\ pc' = "idle" /\ journal' = NoMessages /\ batch' = NoBatch /\ catalog' = FALSE
      /\ disk' = IF decision.do = "wait" /\ ~token THEN disk
                 ELSE [ disk EXCEPT !.status = IF token THEN "cancelled" ELSE decision.arg,
                                    !.wait = NoWait ]
      /\ UNCHANGED << World, Bounds >>
  BY DEF Finish, Forget
<1>2. WorldShape'
  <2>1. Written(NoMessages)
    <3>1. << >> \in Seq({ })
      OBVIOUS
    <3> QED
      BY <3>1 DEF Written, NoMessages, IsSeq
  <2> QED
    BY <1>1, <2>1 DEF EffectInv, WorldShape, World, Bounds, NoBatch, UserPlaces
<1>3. CASE decision.do = "wait" /\ ~token
  <2>1. UNCHANGED disk /\ disk.status = "waiting"
    BY <1>1, <1>3 DEF EndInv, EndsOnce
  <2>2. Stored'
    BY <1>1, <2>1, StoredStays DEF EffectInv, World, Bounds
  <2>3. AtUser'
    BY <1>1, <2>1, <2>2 DEF AtUser, Stored
  <2> QED
    BY <1>1, <1>2, <2>2, <2>3 DEF EffectInv, AtEntry, AtDecision, AtMove, AtExecution, Elsewhere
<1>4. CASE ~(decision.do = "wait" /\ ~token)
  <2>1. /\ disk'.status \in Terminal /\ disk'.wait = NoWait
        /\ disk'.messages = disk.messages /\ disk'.ws = disk.ws /\ disk'.core = disk.core
        /\ disk'.prepared = disk.prepared
    BY <1>1, <1>4 DEF EndInv, EndsOnce, Terminal, CoreInv, Shapes, IsDisk, DiskFields
  <2>2. disk'.status \notin { "waiting", "running" }
    BY <2>1 DEF Terminal
  <2>3. NoWait.kind \notin Asks
    BY DEF NoWait, Asks
  <2>4. Stored'
    BY <1>1, <2>1, <2>2, <2>3 DEF EffectInv, Stored, ExecutionIsRecorded, World, Bounds
  <2>5. AtUser'
    BY <1>1, <2>2 DEF AtUser, Live
  <2> QED
    BY <1>1, <1>2, <2>4, <2>5 DEF EffectInv, AtEntry, AtDecision, AtMove, AtExecution, Elsewhere
<1> QED
  BY <1>3, <1>4

(* After a crash only the files count.                                      *)
LEMMA CrashRecords ==
  ASSUME CoreInv, EffectInv, Crash
  PROVE  EffectInv'
<1>1. /\ pc' = "idle" /\ journal' = NoMessages /\ batch' = NoBatch /\ catalog' = FALSE
      /\ crashes' = crashes + 1 /\ disk' = disk /\ ran' = ran /\ ws' \in { ws, disk.ws }
  BY DEF Crash, Forget, LoseChanges
<1>0. ws' \in Nat /\ disk.ws \in 0..ws' /\ (disk.status = "waiting" => disk.ws = ws')
  BY <1>1 DEF EffectInv, Stored, WorldShape
<1>2. crashes' \in Nat /\ crashes' # 0 /\ (Careful' => Careful)
  BY <1>1 DEF EffectInv, WorldShape, Careful
<1>3. WorldShape'
  <2>1. Written(NoMessages)
    <3>1. << >> \in Seq({ })
      OBVIOUS
    <3> QED
      BY <3>1 DEF Written, NoMessages, IsSeq
  <2> QED
    BY <1>0, <1>1, <1>2, <2>1 DEF EffectInv, WorldShape, NoBatch, UserPlaces
<1>4. Stored'
  BY <1>0, <1>1, <1>2 DEF EffectInv, Stored, ExecutionIsRecorded
<1>5. AtUser'
  BY <1>1, <1>2 DEF AtUser
<1> QED
  BY <1>1, <1>3, <1>4, <1>5 DEF EffectInv, AtEntry, AtDecision, AtMove, AtExecution, Elsewhere

-------------------------------------------------------------------------------
(* The model, the tools and what interrupts them *)

LEMMA ModelRecords ==
  ASSUME CoreInv, EffectInv,
         \/ \E message \in Messages : ModelReplies(message)
         \/ \E code \in { "model.call_failed", "model.fatal" } : ModelFails(code)
  PROVE  EffectInv'
<1>1. PICK o, code :
        /\ pc = "model" /\ pc' = "decide" /\ obs' = o /\ core' = ReduceModel(core, o, code)
        /\ Commit("after_model", core', journal', NoWait)
        /\ UNCHANGED << entry, batch, World, Bounds >>
        /\ \/ journal' = journal /\ o = ModelFailed
           \/ \E message \in Messages : journal' = Append1(journal, message) /\ o = ModelSaid(message)
  BY DEF ModelReplies, ModelFails, ObserveModel
<1>2. Knows /\ IsTranscript(journal) /\ Written(journal) /\ SaidRuns(ran, journal)
  BY <1>1 DEF CoreInv, Shapes, EffectInv, Elsewhere, WorldShape, UserPlaces
<1>3. core'.revision = core.revision
  BY <1>1, ModelCountsOneTurn DEF CoreInv, Shapes, Kept
<1>4. /\ Written(journal') /\ SaidRuns(ran, journal') /\ journal'.answers = journal.answers
      /\ SaidIn(journal', obs'.calls) /\ OpenIn(journal', obs'.calls) /\ obs'.wait = "none"
  <2>1. CASE journal' = journal /\ o = ModelFailed
    BY <1>1, <1>2, <2>1, ObservedCalls, NothingWaits, NoCallsSaid
  <2>2. CASE \E message \in Messages : journal' = Append1(journal, message) /\ o = ModelSaid(message)
    <3>1. PICK message \in Messages : journal' = Append1(journal, message) /\ o = ModelSaid(message)
      BY <2>2
    <3>2. obs'.calls = message.calls /\ obs'.wait = "none"
      BY <1>1, <3>1, ObservedCalls, NothingWaits
    <3> QED
      BY <1>2, <3>1, <3>2, NewCallsSaid
  <2> QED
    BY <1>1, <2>1, <2>2
<1>5. Recorded(ws, ran, core', journal') /\ (Careful => Answered(ran, journal'))
  BY <1>2, <1>3, <1>4 DEF Knows, Recorded, Cut, Answered
<1>6. Stored'
  <2>1. NoWait.kind \notin Asks
    BY DEF NoWait, Asks
  <2> QED
    BY <1>1, <1>4, <1>5, <2>1, CommitStores DEF EffectInv, World, Bounds
<1>7. WorldShape' /\ AtDecision'
  BY <1>1, <1>4, <1>5 DEF EffectInv, WorldShape, AtDecision, Knows, Careful, CanRun, World, Bounds
<1> QED
  BY <1>1, <1>6, <1>7 DEF EffectInv, AtUser, UserPlaces, AtEntry, AtMove, AtExecution, Elsewhere

(* The calls of a batch that are executed come first (prepare_batch).       *)
LEMMA ExecutableFacts ==
  ASSUME SaidIn(journal, batch.calls)
  PROVE  /\ Len(batch.calls) \in Nat /\ DOMAIN batch.calls = 1..Len(batch.calls)
         /\ Len(Executable) \in Nat /\ Len(Executable) <= Len(batch.calls)
         /\ DOMAIN Executable = 1..Len(Executable)
<1> DEFINE n == IF Len(batch.calls) < PerTurn THEN Len(batch.calls) ELSE PerTurn
<1>1. /\ batch.calls \in Seq(Calls) /\ Len(batch.calls) \in Nat
      /\ DOMAIN batch.calls = 1..Len(batch.calls)
  BY DEF SaidIn
<1>2. n \in Nat /\ n <= Len(batch.calls)
  BY <1>1, CoreLoopAssumption
<1> HIDE DEF n
<1>3. Executable = SubSeq(batch.calls, 1, n)
  BY DEF Executable, n
<1>4. Len(Executable) = n /\ DOMAIN Executable = 1..n
  BY <1>1, <1>2, <1>3
<1> QED
  BY <1>1, <1>2, <1>4

(* The calls of a batch that are not executed are deferred                  *)
(* (_bounded_tool_calls).                                                   *)
LEMMA ObservedBatch ==
  ASSUME CoreInv, Written(journal), SaidIn(journal, batch.calls), OpenIn(journal, batch.calls) \/ ~catalog,
         NEW results \in Seq(ResultKinds), Len(results) <= Len(batch.calls), ObserveTools(results),
         catalog \/ \A i \in 1..Len(results) : results[i] \notin Suspended
  PROVE  /\ pc' = "decide" /\ obs'.calls = << >> /\ IsTranscript(journal') /\ Written(journal')
         /\ Grows(journal, journal')
         /\ obs'.wait # "none" => IsOpen(journal', obs'.call)
         /\ \A w, r, m : Recorded(w, r, core, m) => Recorded(w, r, core', m)
         /\ (\E i \in 1..Len(results) : results[i] \in Changes) => core'.revision > 0
         /\ \A i \in 1..Len(results) :
              journal.answers[batch.calls[i]] = << >> /\ results[i] \notin Suspended =>
                journal'.answers[batch.calls[i]] # << >>
<1> DEFINE calls == batch.calls
           deferred == [ i \in 1..(Len(calls) - Len(results)) |-> "deferred" ]
           all == results \o deferred
<1>1. /\ pc' = "decide" /\ obs' = ToolBatch(calls, all)
      /\ core' = ReduceTools(core, all, PrintOf(journal, calls), disk.mode)
      /\ journal' = AppendResults(journal, calls, all)
  BY DEF ObserveTools
<1>2. /\ calls \in Seq(Calls) /\ Len(calls) \in Nat /\ Len(results) \in Nat
      /\ DOMAIN calls = 1..Len(calls)
  BY DEF SaidIn
<1>3. deferred \in Seq(ResultKinds) /\ Len(deferred) = Len(calls) - Len(results)
  <2>1. Len(calls) - Len(results) \in Nat /\ "deferred" \in ResultKinds
    BY <1>2 DEF ResultKinds
  <2> QED
    BY <2>1
<1>4. \A i \in 1..Len(deferred) : deferred[i] = "deferred"
  BY <1>3
<1> HIDE DEF deferred
<1>5. /\ all \in Seq(ResultKinds) /\ Len(all) = Len(results) + Len(deferred)
      /\ \A i \in 1..Len(results) : all[i] = results[i]
      /\ \A i \in 1..Len(deferred) : all[Len(results) + i] = deferred[i]
  BY <1>3, ConcatProperties
<1> HIDE DEF all
<1>6. DOMAIN all = 1..Len(calls)
  BY <1>2, <1>3, <1>5
<1>7. ASSUME NEW i \in 1..Len(calls)
      PROVE  \/ i \in 1..Len(results) /\ all[i] = results[i]
             \/ i \notin 1..Len(results) /\ all[i] = "deferred"
  <2>1. CASE i <= Len(results)
    BY <1>2, <1>5, <2>1
  <2>2. CASE ~(i <= Len(results))
    <3>1. i - Len(results) \in 1..Len(deferred) /\ Len(results) + (i - Len(results)) = i
      BY <1>2, <1>3, <2>2
    <3>2. all[i] = deferred[i - Len(results)] /\ deferred[i - Len(results)] = "deferred"
      BY <1>4, <1>5, <3>1
    <3> QED
      BY <1>2, <2>2, <3>2
  <2> QED
    BY <2>1, <2>2
<1>8. /\ IsTranscript(journal') /\ Written(journal') /\ Grows(journal, journal')
      /\ \A i \in DOMAIN calls : journal.answers[calls[i]] = << >> =>
           journal'.answers[calls[i]] = IF all[i] \in Suspended THEN << >> ELSE << all[i] >>
  BY <1>1, AppendFacts DEF CoreInv, Shapes
<1>9. obs'.calls = << >> /\ (obs'.wait # "none" => IsOpen(journal', obs'.call))
  <2>1. /\ obs'.calls = << >>
        /\ obs'.wait # "none" =>
             \E i \in DOMAIN all : all[i] \in Suspended /\ obs'.call = calls[i]
    BY <1>1, <1>6, BatchWaits
  <2>2. ASSUME NEW i \in DOMAIN all, all[i] \in Suspended, obs'.call = calls[i]
        PROVE  IsOpen(journal', obs'.call)
    <3>1. i \in DOMAIN calls /\ catalog
      BY <1>2, <1>6, <1>7, <2>2 DEF Suspended
    <3>2. calls[i] \in 1..journal'.issued /\ journal.answers[calls[i]] = << >>
      BY <1>8, <3>1 DEF OpenIn, Grows
    <3> QED
      BY <1>8, <2>2, <3>1, <3>2 DEF IsOpen
  <2> QED
    BY <2>1, <2>2
<1>10. \A w, r, m : Recorded(w, r, core, m) => Recorded(w, r, core', m)
  BY <1>1, ToolsRecord DEF CoreInv, Shapes
<1>11. ASSUME NEW i \in 1..Len(results), results[i] \in Changes PROVE core'.revision > 0
  <2>1. i \in DOMAIN all /\ all[i] \in Changes
    BY <1>2, <1>5, <1>6, <1>11
  <2>2. Changed(all)
    BY <2>1 DEF Changed, Range
  <2> QED
    BY <1>1, <2>2, ToolsRecord DEF CoreInv, Shapes
<1>12. ASSUME NEW i \in 1..Len(results), journal.answers[calls[i]] = << >>, results[i] \notin Suspended
       PROVE  journal'.answers[calls[i]] # << >>
  <2>1. i \in DOMAIN calls /\ all[i] \notin Suspended
    BY <1>2, <1>5, <1>12
  <2>2. journal'.answers[calls[i]] = << all[i] >>
    BY <1>8, <1>12, <2>1
  <2> QED
    BY <2>2
<1> QED
  BY <1>1, <1>8, <1>9, <1>10, <1>11, <1>12

(* A batch that is not admitted runs nothing (prepare_batch).               *)
LEMMA RefusalRecords ==
  ASSUME CoreInv, EffectInv, NEW i, NEW kind, kind \in AdmissionKinds \cup { "stale" }, Refuse(i, kind)
  PROVE  EffectInv'
<1> DEFINE results == [ Same("interrupted", Executable) EXCEPT ![i] = kind ]
<1>1. /\ pc = "act" /\ decision.do = "tools" /\ i \in DOMAIN Executable
      /\ catalog \/ kind = "stale"
      /\ ObserveTools(results)
      /\ IF kind \in Suspended THEN UNCHANGED disk ELSE Commit("after_tools", core', journal', NoWait)
      /\ batch' = NoBatch /\ UNCHANGED << entry, catalog, World, Bounds >>
  BY DEF Refuse
<1>2. /\ Knows /\ SaidIn(journal, batch.calls) /\ (catalog => OpenIn(journal, batch.calls))
      /\ Written(journal) /\ SaidRuns(ran, journal)
  BY <1>1 DEF EffectInv, AtMove, CanRun, WorldShape, UserPlaces
<1>3. /\ results \in Seq(ResultKinds) /\ Len(results) <= Len(batch.calls)
      /\ catalog \/ \A j \in 1..Len(results) : results[j] \notin Suspended
  <2>1. /\ Len(Executable) \in Nat /\ Len(Executable) <= Len(batch.calls)
        /\ DOMAIN Executable = 1..Len(Executable)
    BY <1>2, ExecutableFacts
  <2>2. kind \in ResultKinds /\ "interrupted" \in ResultKinds
    BY CoreLoopAssumption DEF ResultKinds, ErrorCode
  <2>3. /\ DOMAIN results = DOMAIN Executable
        /\ \A j \in DOMAIN Executable : results[j] = IF j = i THEN kind ELSE "interrupted"
        /\ results = [ j \in DOMAIN Executable |-> results[j] ]
    BY <1>1 DEF Same
  <2>4. \A j \in DOMAIN Executable : results[j] \in ResultKinds
    BY <2>2, <2>3
  <2>5. kind = "stale" => \A j \in DOMAIN Executable : results[j] \notin Suspended
    BY <2>3 DEF Suspended
  <2> HIDE DEF results
  <2>6. results \in [ 1..Len(Executable) -> ResultKinds ]
    BY <2>1, <2>3, <2>4
  <2>7. results \in Seq(ResultKinds) /\ Len(results) = Len(Executable)
    BY <2>1, <2>6
  <2> QED
    BY <1>1, <2>1, <2>5, <2>7
<1> HIDE DEF results
<1>4. /\ pc' = "decide" /\ obs'.calls = << >> /\ Written(journal') /\ Grows(journal, journal')
      /\ obs'.wait # "none" => IsOpen(journal', obs'.call)
      /\ \A w, r, m : Recorded(w, r, core, m) => Recorded(w, r, core', m)
  BY <1>1, <1>2, <1>3, ObservedBatch
<1>5. SaidRuns(ran, journal') /\ Recorded(ws, ran, core', journal') /\ (Careful => Answered(ran, journal'))
  <2>1. /\ SaidRuns(ran, journal') /\ Recorded(ws, ran, core, journal')
        /\ Careful => Answered(ran, journal')
    BY <1>2, <1>4, GrowsKeeps DEF Knows
  <2> QED
    BY <1>4, <2>1
<1>6. Stored'
  <2>1. CASE kind \in Suspended
    BY <1>1, <2>1, StoredStays DEF EffectInv, World, Bounds
  <2>2. CASE kind \notin Suspended
    <3>1. NoWait.kind \notin Asks
      BY DEF NoWait, Asks
    <3> QED
      BY <1>1, <1>4, <1>5, <2>2, <3>1, CommitStores DEF EffectInv, World, Bounds
  <2> QED
    BY <2>1, <2>2
<1>7. WorldShape' /\ AtDecision'
  BY <1>1, <1>4, <1>5, NoCallsSaid
     DEF EffectInv, WorldShape, AtDecision, Knows, Careful, CanRun, World, Bounds, NoBatch
<1> QED
  BY <1>4, <1>6, <1>7 DEF EffectInv, AtUser, UserPlaces, AtEntry, AtMove, AtExecution, Elsewhere

(* What has happened in a batch is recorded with its results                *)
(* (execute_core_tool_batch).                                               *)
LEMMA BatchRecords ==
  ASSUME CoreInv, EffectInv, FinishBatch
  PROVE  EffectInv'
<1> DEFINE results == batch.results
<1>1. /\ pc = "execute" /\ ObserveTools(results)
      /\ Commit("after_tools", core', journal', NoWait)
      /\ batch' = NoBatch /\ UNCHANGED << entry, catalog, World, Bounds >>
  BY DEF FinishBatch
<1>2. /\ SaidIn(journal, batch.calls) /\ OpenIn(journal, batch.calls)
      /\ results \in Seq(ResultKinds) /\ Len(results) <= Len(batch.calls)
      /\ Recorded(ws, ran, core, journal) \/ \E i \in 1..Len(results) : results[i] \in Changes
      /\ Careful => \A c \in Calls : ran[c] > 0 /\ journal.answers[c] = << >> =>
                      \E i \in 1..Len(results) : batch.calls[i] = c /\ results[i] \notin Suspended
      /\ Written(journal) /\ SaidRuns(ran, journal)
  BY <1>1 DEF EffectInv, AtExecution, WorldShape, UserPlaces
<1> HIDE DEF results
<1>3. catalog \/ \A i \in 1..Len(results) : results[i] \notin Suspended
  BY <1>1 DEF EffectInv, AtExecution
<1>4. /\ pc' = "decide" /\ obs'.calls = << >> /\ Written(journal') /\ Grows(journal, journal')
      /\ obs'.wait # "none" => IsOpen(journal', obs'.call)
      /\ \A w, r, m : Recorded(w, r, core, m) => Recorded(w, r, core', m)
      /\ (\E i \in 1..Len(results) : results[i] \in Changes) => core'.revision > 0
      /\ \A i \in 1..Len(results) :
           journal.answers[batch.calls[i]] = << >> /\ results[i] \notin Suspended =>
             journal'.answers[batch.calls[i]] # << >>
  BY <1>1, <1>2, <1>3, ObservedBatch
<1>5. SaidRuns(ran, journal')
  BY <1>2, <1>4, GrowsKeeps
<1>6. Recorded(ws, ran, core', journal')
  <2>1. CASE Recorded(ws, ran, core, journal)
    BY <1>2, <1>4, <2>1, GrowsKeeps
  <2>2. CASE \E i \in 1..Len(results) : results[i] \in Changes
    BY <1>4, <2>2 DEF Recorded
  <2> QED
    BY <1>2, <2>1, <2>2
<1>7. Careful => Answered(ran, journal')
  <2>1. ASSUME Careful, NEW c \in Calls, ran[c] > 0 PROVE journal'.answers[c] # << >>
    <3>1. CASE journal.answers[c] # << >>
      BY <1>2, <1>4, <3>1, GrowsKeeps
    <3>2. CASE journal.answers[c] = << >>
      BY <1>2, <1>4, <2>1, <3>2
    <3> QED
      BY <3>1, <3>2
  <2> QED
    BY <2>1 DEF Answered
<1>8. Stored'
  <2>1. NoWait.kind \notin Asks
    BY DEF NoWait, Asks
  <2> QED
    BY <1>1, <1>4, <1>5, <1>6, <1>7, <2>1, CommitStores DEF EffectInv, World, Bounds
<1>9. WorldShape' /\ AtDecision'
  BY <1>1, <1>4, <1>5, <1>6, <1>7, NoCallsSaid
     DEF EffectInv, WorldShape, AtDecision, Knows, Careful, CanRun, World, Bounds, NoBatch
<1> QED
  BY <1>4, <1>8, <1>9 DEF EffectInv, AtUser, UserPlaces, AtEntry, AtMove, AtExecution, Elsewhere

(* A handler that may have run counts, whatever it reports (_execute_prepared_items). *)
LEMMA HandlersCount ==
  ASSUME NEW call \in Calls, NEW kind, ws \in Nat, ran \in [ Calls -> Nat ], HandlerRuns(call, kind)
  PROVE  /\ ws' \in Nat /\ ran' \in [ Calls -> Nat ] /\ RunsMore(ran, ran')
         /\ ws' = ws \/ (kind \in Changes /\ ws' = ws + 1)
         /\ kind \in Changes => ran'[call] > 0
         /\ \A c \in Calls : ran'[c] > 0 => ran[c] > 0 \/ (c = call /\ kind \notin Suspended)
<1>1. ran' = [ ran EXCEPT ![call] = IF kind \in Suspended \cup { "denied" } THEN @ ELSE @ + 1 ]
  BY DEF HandlerRuns
<1>2. \A c \in Calls : ran'[c] = IF c = call /\ kind \notin Suspended \cup { "denied" } THEN ran[c] + 1
                                 ELSE ran[c]
  BY <1>1
<1>3. ran' \in [ Calls -> Nat ]
  BY <1>1
<1>4. kind \in Changes => kind \notin Suspended \cup { "denied" }
  BY DEF Changes, Suspended
<1>5. ws' = ws \/ (kind \in Changes /\ ws' = ws + 1)
  BY DEF HandlerRuns
<1>6. \A c \in Calls : ran[c] \in Nat
  OBVIOUS
<1>7. RunsMore(ran, ran')
  BY <1>2, <1>6 DEF RunsMore
<1>8. kind \in Changes => ran'[call] > 0
  BY <1>2, <1>4, <1>6
<1> QED
  BY <1>2, <1>3, <1>5, <1>7, <1>8

(* The results of a batch so far, one more and perhaps the rest.            *)
LEMMA OneMoreResult ==
  ASSUME NEW S, NEW s \in Seq(S), NEW x \in S, NEW t \in Seq(S)
  PROVE  /\ s \o << x >> \o t \in Seq(S)
         /\ Len(s \o << x >> \o t) = Len(s) + 1 + Len(t)
         /\ \A i \in 1..Len(s) : (s \o << x >> \o t)[i] = s[i]
         /\ (s \o << x >> \o t)[Len(s) + 1] = x
         /\ \A i \in 1..Len(t) : (s \o << x >> \o t)[Len(s) + 1 + i] = t[i]
<1>1. << x >> \in Seq(S) /\ Len(<< x >>) = 1 /\ << x >>[1] = x
  OBVIOUS
<1>2. /\ s \o << x >> \in Seq(S) /\ Len(s \o << x >>) = Len(s) + 1
      /\ \A i \in 1..Len(s) : (s \o << x >>)[i] = s[i]
      /\ (s \o << x >>)[Len(s) + 1] = x
  <2>1. /\ s \o << x >> \in Seq(S) /\ Len(s \o << x >>) = Len(s) + Len(<< x >>)
        /\ \A i \in 1..Len(s) : (s \o << x >>)[i] = s[i]
        /\ \A i \in 1..Len(<< x >>) : (s \o << x >>)[Len(s) + i] = << x >>[i]
    BY <1>1, ConcatProperties
  <2> QED
    BY <1>1, <2>1
<1> DEFINE u == s \o << x >>
<1>3. /\ u \o t \in Seq(S) /\ Len(u \o t) = Len(u) + Len(t)
      /\ \A i \in 1..Len(u) : (u \o t)[i] = u[i]
      /\ \A i \in 1..Len(t) : (u \o t)[Len(u) + i] = t[i]
  BY <1>2, ConcatProperties
<1>4. Len(s) \in Nat
  OBVIOUS
<1>5. (s \o << x >>) \o t = s \o << x >> \o t
  OBVIOUS
<1> HIDE DEF u
<1>6. Len(u) = Len(s) + 1 /\ (\A i \in 1..Len(s) : u[i] = s[i]) /\ u[Len(s) + 1] = x
  BY <1>2 DEF u
<1>7. /\ u \o t \in Seq(S) /\ Len(u \o t) = Len(s) + 1 + Len(t)
      /\ \A i \in 1..Len(s) : (u \o t)[i] = s[i]
      /\ (u \o t)[Len(s) + 1] = x
      /\ \A i \in 1..Len(t) : (u \o t)[Len(s) + 1 + i] = t[i]
  BY <1>3, <1>4, <1>6
<1> QED
  BY <1>5, <1>7 DEF u

(* What a handler does to the workspace and to its call is known from the   *)
(* batch until the batch is committed (execute_batch).                      *)
LEMMA HandlerRecords ==
  ASSUME CoreInv, EffectInv, NEW kind, kind \in HandlerKinds \cup { "cancelled" }, RunHandler(kind)
  PROVE  EffectInv'
<1> DEFINE old == batch.results
           n == Len(old) + 1
           tail == IF kind \in Suspended \cup { "denied" }
                   THEN [ i \in 1..(Len(Executable) - n) |-> "interrupted" ] ELSE << >>
           new == old \o << kind >> \o tail
<1>1. /\ pc = "execute" /\ n <= Len(Executable)
      /\ batch' = [ batch EXCEPT !.results = new ] /\ HandlerRuns(batch.calls[n], kind)
      /\ UNCHANGED << disk, pc, core, journal, obs, entry, limits, catalog, decision, token, Bounds >>
  BY DEF RunHandler
<1>2. /\ SaidIn(journal, batch.calls) /\ OpenIn(journal, batch.calls) /\ catalog
      /\ old \in Seq(ResultKinds) /\ Len(old) <= Len(batch.calls)
      /\ disk.messages = journal /\ disk.resume = "before_tools" /\ disk.status = "running"
      /\ Recorded(ws, ran, core, journal) \/ \E i \in 1..Len(old) : old[i] \in Changes
      /\ \A i \in 1..Len(old) : old[i] \in Changes => ran[batch.calls[i]] > 0
      /\ Careful => \A c \in Calls : ran[c] > 0 /\ journal.answers[c] = << >> =>
                      \E i \in 1..Len(old) : batch.calls[i] = c /\ old[i] \notin Suspended
      /\ SaidRuns(ran, journal) /\ Written(journal) /\ ws \in Nat /\ ran \in [ Calls -> Nat ]
      /\ crashes \in Nat
      /\ batch = [ calls |-> batch.calls, results |-> batch.results ]
  BY <1>1 DEF EffectInv, AtExecution, WorldShape, UserPlaces
<1>3. /\ Len(batch.calls) \in Nat /\ DOMAIN batch.calls = 1..Len(batch.calls)
      /\ Len(Executable) \in Nat /\ Len(Executable) <= Len(batch.calls)
  BY <1>2, ExecutableFacts
<1>4. Len(old) \in Nat /\ n \in 1..Len(batch.calls)
  BY <1>1, <1>2, <1>3
<1>5. kind \in ResultKinds /\ "interrupted" \in ResultKinds
  BY CoreLoopAssumption DEF ResultKinds, ErrorCode
<1>6. /\ tail \in Seq(ResultKinds) /\ Len(tail) \in Nat /\ n + Len(tail) <= Len(batch.calls)
      /\ \A i \in 1..Len(tail) : tail[i] = "interrupted"
  <2>1. Len(Executable) - n \in Nat
    BY <1>1, <1>3, <1>4
  <2>2. CASE kind \in Suspended \cup { "denied" }
    <3> DEFINE k == Len(Executable) - n
    <3>1. tail = [ i \in 1..k |-> "interrupted" ] /\ k \in Nat
      BY <2>1, <2>2
    <3>2. n + k <= Len(batch.calls)
      <4>1. n \in Nat
        BY <1>4
      <4> HIDE DEF n
      <4> QED
        BY <1>3, <4>1
    <3> HIDE DEF k, tail
    <3>3. tail \in [ 1..k -> ResultKinds ] /\ \A i \in 1..k : tail[i] = "interrupted"
      BY <1>5, <3>1
    <3>4. tail \in Seq(ResultKinds) /\ Len(tail) = k
      BY <3>1, <3>3
    <3> QED
      BY <3>1, <3>2, <3>3, <3>4
  <2>3. CASE kind \notin Suspended \cup { "denied" }
    <3>1. tail = << >>
      BY <2>3
    <3>2. << >> \in Seq(ResultKinds) /\ Len(<< >>) = 0
      OBVIOUS
    <3> HIDE DEF tail, n
    <3> QED
      BY <1>4, <3>1, <3>2
  <2> QED
    BY <2>2, <2>3
<1> HIDE DEF tail
<1>7. batch.calls[n] \in Calls /\ batch.calls[n] \in 1..journal.issued
  <2>1. n \in DOMAIN batch.calls
    BY <1>3, <1>4
  <2> HIDE DEF n
  <2> QED
    BY <1>2, <2>1 DEF SaidIn
<1>8. /\ new \in Seq(ResultKinds) /\ Len(new) = Len(old) + 1 + Len(tail)
      /\ \A i \in 1..Len(old) : new[i] = old[i]
      /\ new[n] = kind
      /\ \A i \in 1..Len(tail) : new[n + i] = tail[i]
  BY <1>2, <1>5, <1>6, OneMoreResult
<1>9. batch'.results = new /\ batch'.calls = batch.calls
      /\ batch' = [ calls |-> batch'.calls, results |-> batch'.results ]
  BY <1>1, <1>2
<1> HIDE DEF new
<1>10. /\ Len(new) <= Len(batch.calls)
       /\ 1..Len(old) \subseteq 1..Len(new) /\ n \in 1..Len(new)
       /\ \A i \in 1..Len(new) : \/ i \in 1..Len(old) /\ new[i] = old[i]
                                 \/ i = n /\ new[i] = kind
                                 \/ new[i] = "interrupted"
  <2>1. ASSUME NEW i \in 1..Len(new) PROVE \/ i \in 1..Len(old) /\ new[i] = old[i]
                                           \/ i = n /\ new[i] = kind
                                           \/ new[i] = "interrupted"
    <3>1. CASE i <= Len(old)
      BY <1>4, <1>8, <3>1
    <3>2. CASE i = n
      BY <1>8, <3>2
    <3>3. CASE i > n
      <4>1. n \in Nat /\ Len(new) = n + Len(tail) /\ Len(tail) \in Nat
        BY <1>4, <1>6, <1>8
      <4> HIDE DEF n
      <4>2. i - n \in 1..Len(tail) /\ n + (i - n) = i
        BY <3>3, <4>1
      <4> QED
        BY <1>6, <1>8, <4>2
    <3> QED
      BY <1>4, <3>1, <3>2, <3>3
  <2> QED
    BY <1>4, <1>6, <1>8, <2>1
<1> HIDE DEF n
<1>11. /\ ws' \in Nat /\ ran' \in [ Calls -> Nat ] /\ RunsMore(ran, ran')
       /\ ws' = ws \/ (kind \in Changes /\ ws' = ws + 1)
       /\ kind \in Changes => ran'[batch.calls[n]] > 0
       /\ \A c \in Calls : ran'[c] > 0 => ran[c] > 0 \/ (c = batch.calls[n] /\ kind \notin Suspended)
  BY <1>1, <1>2, <1>7, HandlersCount
<1>12. SaidRuns(ran', journal)
  BY <1>2, <1>7, <1>11 DEF SaidRuns
<1>13. WorldShape'
  BY <1>1, <1>2, <1>9, <1>11, <1>12 DEF WorldShape, Bounds
<1>14. Stored'
  <2>1. Recorded(disk.ws, ran', disk.core, disk.messages)
    BY <1>11, RunsKeep DEF EffectInv, Stored
  <2>2. disk.ws \in 0..ws'
    BY <1>2, <1>11 DEF EffectInv, Stored
  <2> QED
    BY <1>1, <1>2, <1>12, <2>1, <2>2 DEF EffectInv, Stored, ExecutionIsRecorded
<1>15. Recorded(ws', ran', core, journal) \/ \E i \in 1..Len(new) : new[i] \in Changes
  <2>1. CASE kind \in Changes
    BY <1>8, <1>10, <2>1
  <2>2. CASE kind \notin Changes
    <3>1. ws' = ws /\ (Recorded(ws, ran, core, journal) => Recorded(ws, ran', core, journal))
      BY <1>11, <2>2, RunsKeep
    <3> QED
      BY <1>2, <1>8, <1>10, <3>1
  <2> QED
    BY <2>1, <2>2
<1>16. ASSUME NEW i \in 1..Len(new), new[i] \in Changes PROVE ran'[batch.calls[i]] > 0
  <2>1. "interrupted" \notin Changes
    BY DEF Changes
  <2>2. CASE i \in 1..Len(old) /\ new[i] = old[i]
    <3>1. ran[batch.calls[i]] > 0 /\ batch.calls[i] \in Calls
      BY <1>2, <1>16, <2>2 DEF SaidIn
    <3> QED
      BY <1>11, <3>1 DEF RunsMore
  <2>3. CASE i = n /\ new[i] = kind
    BY <1>11, <1>16, <2>3
  <2> QED
    BY <1>10, <1>16, <2>1, <2>2, <2>3
<1>17. ASSUME Careful, NEW c \in Calls, ran'[c] > 0, journal.answers[c] = << >>
       PROVE  \E i \in 1..Len(new) : batch.calls[i] = c /\ new[i] \notin Suspended
  <2>1. CASE ran[c] > 0
    <3>1. PICK i \in 1..Len(old) : batch.calls[i] = c /\ old[i] \notin Suspended
      BY <1>2, <1>17, <2>1
    <3> QED
      BY <1>8, <1>10, <3>1
  <2>2. CASE c = batch.calls[n] /\ kind \notin Suspended
    BY <1>8, <1>10, <2>2
  <2> QED
    BY <1>11, <1>17, <2>1, <2>2
<1>18. AtExecution'
  <2>1. Careful' <=> Careful
    BY <1>1 DEF Careful, Bounds
  <2> QED
    BY <1>1, <1>2, <1>8, <1>9, <1>10, <1>15, <1>16, <1>17, <2>1 DEF AtExecution
<1> QED
  BY <1>1, <1>13, <1>14, <1>18 DEF EffectInv, AtUser, UserPlaces, AtEntry, AtDecision, AtMove, Elsewhere

(* What an exception or a forced cancellation finds in a batch is cut off   *)
(* (_terminate_interrupted_execution).                                      *)
LEMMA InterruptRecords ==
  ASSUME CoreInv, EffectInv, NEW status \in { "failed", "cancelled" }, Interrupt(status)
  PROVE  EffectInv'
<1> DEFINE open == Unsettled(journal)
           results == Same("notExecuted", open)
           settled == IF open = << >> THEN core
                      ELSE ReduceTools(core, results, PrintOf(journal, open), disk.mode)
<1>1. /\ pc \in { "model", "execute" } \/ (pc = "act" /\ decision.do = "tools")
      /\ journal' = AppendResults(journal, open, results)
      /\ IF open = << >> THEN UNCHANGED disk ELSE Commit("after_tools", settled, journal', NoWait)
      /\ core' = IF status = "cancelled" THEN ReduceCancellation(settled) ELSE settled
      /\ batch' = NoBatch /\ pc' = "act"
      /\ decision'.do = "end"
      /\ UNCHANGED << entry, catalog, World, Bounds >>
  BY DEF Interrupt, Terminate
<1>2. IsTranscript(journal) /\ Written(journal) /\ SaidRuns(ran, journal)
  BY <1>1 DEF CoreInv, Shapes, EffectInv, WorldShape, UserPlaces
<1>3. /\ Written(journal') /\ Grows(journal, journal') /\ Answered(ran, journal')
      /\ (\E c \in Calls : ran[c] > 0 /\ journal.answers[c] = << >>) => Cut(ran, journal')
  BY <1>1, <1>2, SettleFacts
<1>4. SaidRuns(ran, journal')
  BY <1>2, <1>3, GrowsKeeps
<1>5. settled.revision = core.revision /\ core'.revision = core.revision
  <2>1. IsCore(core)
    BY DEF CoreInv, Shapes
  <2>2. IsCore(settled) /\ settled.revision = core.revision
    BY <2>1, SettlingKeeps, ToolsKeepTurnsAndTask DEF Kept
  <2> QED
    BY <1>1, <2>2, RecordFailuresKeepsTurns DEF ReduceCancellation, Kept
<1> HIDE DEF open, results, settled
<1>6. Recorded(ws, ran, core, journal')
  <2>1. CASE Recorded(ws, ran, core, journal)
    BY <1>2, <1>3, <2>1, GrowsKeeps
  <2>2. CASE pc = "execute" /\ \E i \in 1..Len(batch.results) : batch.results[i] \in Changes
    <3>1. /\ SaidIn(journal, batch.calls) /\ OpenIn(journal, batch.calls)
          /\ batch.results \in Seq(ResultKinds) /\ Len(batch.results) <= Len(batch.calls)
      BY <2>2 DEF EffectInv, AtExecution
    <3>2. PICK i \in 1..Len(batch.results) : ran[batch.calls[i]] > 0
      BY <2>2 DEF EffectInv, AtExecution
    <3>3. /\ Len(batch.results) \in Nat /\ Len(batch.calls) \in Nat
          /\ DOMAIN batch.calls = 1..Len(batch.calls)
      BY <3>1 DEF SaidIn
    <3>4. i \in DOMAIN batch.calls
      BY <3>1, <3>3
    <3>5. batch.calls[i] \in Calls /\ journal.answers[batch.calls[i]] = << >>
      BY <3>1, <3>4 DEF SaidIn, OpenIn
    <3> QED
      BY <1>3, <3>2, <3>5 DEF Recorded
  <2> QED
    BY <1>1, <2>1, <2>2 DEF EffectInv, AtMove, AtExecution, Elsewhere, Knows
<1>7. Recorded(ws, ran, settled, journal') /\ Recorded(ws, ran, core', journal')
  BY <1>5, <1>6 DEF Recorded
<1>8. Stored'
  <2>1. CASE open = << >>
    BY <1>1, <2>1, StoredStays DEF EffectInv, World, Bounds
  <2>2. CASE open # << >>
    <3>1. NoWait.kind \notin Asks
      BY DEF NoWait, Asks
    <3> QED
      BY <1>1, <1>3, <1>4, <1>7, <2>2, <3>1, CommitStores DEF EffectInv, World, Bounds
  <2> QED
    BY <2>1, <2>2
<1>9. WorldShape' /\ AtMove'
  BY <1>1, <1>3, <1>4, <1>7 DEF EffectInv, WorldShape, AtMove, Knows, NoBatch, World, Bounds
<1> QED
  BY <1>1, <1>8, <1>9 DEF EffectInv, AtUser, UserPlaces, AtEntry, AtDecision, AtExecution, Elsewhere

LEMMA CancelRecords ==
  ASSUME EffectInv, Cancel
  PROVE  EffectInv'
<1>1. /\ pc \in { "enter", "model", "execute" }
      /\ UNCHANGED << disk, pc, core, journal, obs, entry, catalog, decision, batch, World, Bounds >>
  BY DEF Cancel
<1>2. Stored' /\ WorldShape'
  BY <1>1, StoredStays DEF EffectInv, WorldShape, World, Bounds
<1>3. AtUser' /\ AtEntry' /\ AtDecision' /\ AtMove'
  BY <1>1 DEF EffectInv, AtUser, UserPlaces, AtEntry, ChangeArrives, AtDecision, AtMove, Careful, World, Bounds
<1>4. AtExecution' /\ Elsewhere'
  BY <1>1 DEF EffectInv, AtExecution, Elsewhere, Knows, Careful, World, Bounds
<1> QED
  BY <1>2, <1>3, <1>4 DEF EffectInv

-------------------------------------------------------------------------------
(* The user's side *)

(* What the run file keeps of a run that goes on (continue_run).            *)
LEMMA ResumedFacts ==
  ASSUME CoreInv
  PROVE  /\ Resumed.status = "running" /\ Resumed.wait = NoWait /\ Resumed.core = disk.core
         /\ Resumed.messages = disk.messages /\ Resumed.resume = disk.resume
         /\ Resumed.prepared = disk.prepared /\ Resumed.ws = disk.ws /\ Resumed.mode = disk.mode
         /\ IsDisk(Resumed)
  BY DEF Resumed, CoreInv, Shapes, IsDisk, DiskFields

(* A run that goes on knows what has run from the boundary that it goes on  *)
(* from (_continuation_entry, inspect_recovery).                            *)
LEMMA ResumeRecords ==
  ASSUME CoreInv, EffectInv,
         Recover \/ ContinueRun \/ Prompt \/ \E answer \in { "approve", "deny", "reply" } : Answer(answer)
  PROVE  EffectInv'
<1>1. /\ pc = "idle" /\ core' = disk.core /\ journal' = disk.messages
      /\ UNCHANGED << batch, catalog, World, crashes >>
  BY DEF Recover, ContinueRun, Prompt, Answer, Load, Idle
<1>2. ~catalog /\ NoWait.kind = "none" /\ NoWait.kind \notin Asks /\ (Careful' <=> Careful)
  BY <1>1 DEF EffectInv, AtUser, UserPlaces, NoWait, Asks, Careful
<1>3. /\ Written(disk.messages) /\ SaidRuns(ran, disk.messages)
      /\ Recorded(disk.ws, ran, disk.core, disk.messages)
  BY DEF EffectInv, Stored
<1>4. WorldShape'
  BY <1>1, <1>3 DEF EffectInv, WorldShape, World
<1>5. disk.wait.kind # "none" =>
        disk.status = "waiting" /\ disk.ws = ws /\ (Careful => Answered(ran, disk.messages))
  BY <1>2 DEF EffectInv, Stored
<1>6. CASE Recover
  <2>1. /\ disk' = Resumed /\ disk.status = "running" /\ ws = disk.ws
        /\ \/ pc' = "resuming" /\ disk.prepared # NoResume
           \/ pc' = "enter" /\ disk.prepared = NoResume /\ entry' = RecoveryEntry
    BY <1>6 DEF Recover, Unchanged
  <2>2. Stored'
    BY <1>1, <1>2, <2>1, ResumedFacts DEF EffectInv, Stored, ExecutionIsRecorded, World
  <2>3. CASE pc' = "resuming"
    BY <1>1, <1>2, <1>3, <1>4, <2>1, <2>2, <2>3, ResumedFacts
       DEF EffectInv, AtUser, UserPlaces, AtEntry, AtDecision, AtMove, AtExecution, Elsewhere, World
  <2>4. CASE pc' = "enter"
    <3>1. /\ entry'.kind = "message" => disk.messages.said # << >>
          /\ entry'.kind = "results" => \A c \in DOMAIN entry'.answers : entry'.answers[c] = "ambiguous"
          /\ entry'.kind # "results" => disk.resume # "before_tools"
      BY <2>1, <2>4 DEF RecoveryEntry, NoEntry
    <3>2. "ambiguous" \in ResultKinds \ Suspended
      BY DEF ResultKinds, Suspended, ErrorCode
    <3>3. Careful /\ entry'.kind # "results" => Answered(ran, disk.messages)
      <4>1. ASSUME Careful, entry'.kind # "results", NEW c \in Calls, ran[c] > 0, disk.messages.answers[c] = << >>
            PROVE  FALSE
        <5>1. disk.prepared.call = c
          BY <2>1, <3>1, <4>1 DEF EffectInv, Stored, ExecutionIsRecorded
        <5>2. disk.prepared.call = 0
          BY <2>1, <2>4 DEF NoResume
        <5> QED
          BY <5>1, <5>2 DEF Calls
      <4> QED
        BY <4>1 DEF Answered
    <3>4. AtEntry'
      BY <1>1, <1>2, <1>3, <2>1, <2>4, <3>1, <3>2, <3>3 DEF AtEntry, World
    <3> QED
      BY <1>1, <1>2, <1>4, <2>2, <2>4, <3>4
         DEF EffectInv, AtUser, UserPlaces, AtDecision, AtMove, AtExecution, Elsewhere
  <2> QED
    BY <2>1, <2>3, <2>4
<1>7. CASE ContinueRun \/ Prompt
  <2>1. /\ disk' = Resumed /\ pc' \in { "enter", "prompting" } /\ entry'.kind = "user"
        /\ disk.wait.kind # "none"
    BY <1>7 DEF ContinueRun, Prompt, NoEntry
  <2>2. Stored'
    BY <1>1, <1>2, <1>5, <2>1, ResumedFacts DEF EffectInv, Stored, ExecutionIsRecorded, Answered, World
  <2>3. AtEntry'
    BY <1>1, <1>2, <1>3, <1>5, <2>1, ResumedFacts DEF AtEntry, Knows, World
  <2> QED
    BY <1>1, <1>2, <1>4, <2>1, <2>2, <2>3
       DEF EffectInv, AtUser, UserPlaces, AtDecision, AtMove, AtExecution, Elsewhere
<1>8. CASE \E answer \in { "approve", "deny", "reply" } : Answer(answer)
  <2>1. PICK answer \in { "approve", "deny", "reply" } :
          /\ disk' = [ Resumed EXCEPT !.prepared = [ call |-> disk.wait.call, answer |-> answer ] ]
          /\ pc' = "resuming" /\ disk.wait.kind \in Asks
    BY <1>8 DEF Answer, Asks
  <2>2. /\ disk'.status = "running" /\ disk'.wait = NoWait /\ disk'.core = disk.core
        /\ disk'.messages = disk.messages /\ disk'.resume = disk.resume /\ disk'.ws = disk.ws
        /\ disk'.prepared = [ call |-> disk.wait.call, answer |-> answer ]
    BY <2>1, ResumedFacts DEF IsDisk, DiskFields
  <2>3. disk.wait.kind # "none" /\ IsOpen(disk.messages, disk.wait.call)
    BY <1>2, <2>1 DEF Asks, EffectInv, Stored
  <2>4. disk'.prepared # NoResume
    BY <2>2 DEF NoResume
  <2>5. Stored'
    BY <1>1, <1>2, <1>5, <2>2, <2>3 DEF EffectInv, Stored, ExecutionIsRecorded, Answered, World
  <2>6. AtEntry'
    BY <1>1, <1>3, <1>5, <2>1, <2>2, <2>3, <2>4 DEF AtEntry, World
  <2> QED
    BY <1>1, <1>2, <1>4, <2>1, <2>5, <2>6
       DEF EffectInv, AtUser, UserPlaces, AtDecision, AtMove, AtExecution, Elsewhere
<1> QED
  BY <1>6, <1>7, <1>8

(* An approved call may run before its result is committed: until then the  *)
(* prepared resume tells of it (execute_prepared_resume).                   *)
LEMMA PreparedCallRecords ==
  ASSUME CoreInv, EffectInv, NEW kind \in ResultKinds, ExecuteResume(kind)
  PROVE  EffectInv'
<1> DEFINE call == disk.prepared.call
           answer == disk.prepared.answer
<1>1. /\ pc = "resuming" /\ pc' = "enter"
      /\ kind \in [ approve |-> (HandlerKinds \ Suspended) \cup { "denied" },
                    deny |-> { "denied" }, reply |-> { "ok", "error" } ][answer]
      /\ IF answer = "approve" THEN HandlerRuns(call, kind) ELSE UNCHANGED World
      /\ entry' = [ kind |-> "results", answers |-> [ c \in { call } |-> kind ] ]
      /\ UNCHANGED << disk, core, journal, catalog, batch, Bounds >>
  BY DEF ExecuteResume
<1>2. /\ Recorded(ws, ran, core, journal) /\ journal = disk.messages /\ disk.status = "running"
      /\ IsOpen(journal, call) /\ answer \in { "approve", "deny", "reply" }
      /\ ~catalog
  BY <1>1 DEF EffectInv, AtUser, AtEntry, Stored
<1>3. /\ SaidRuns(ran, journal) /\ Written(journal) /\ ws \in Nat /\ ran \in [ Calls -> Nat ]
      /\ crashes \in Nat /\ batch = [ calls |-> batch.calls, results |-> batch.results ]
  BY <1>1 DEF EffectInv, WorldShape, UserPlaces
<1>4. call \in 1..journal.issued /\ call \in Calls
  BY <1>2, CoreLoopAssumption DEF IsOpen, CoreInv, Shapes, IsTranscript, Calls
<1>5. kind \notin Suspended
  <2>1. "denied" \notin Suspended /\ "ok" \notin Suspended /\ "error" \notin Suspended
    BY DEF Suspended
  <2>2. /\ answer = "approve" => kind \in (HandlerKinds \ Suspended) \cup { "denied" }
        /\ answer = "deny" => kind = "denied"
        /\ answer = "reply" => kind \in { "ok", "error" }
    BY <1>1
  <2> QED
    BY <1>2, <2>1, <2>2
<1> HIDE DEF call, answer
<1>6. /\ ws' \in Nat /\ ran' \in [ Calls -> Nat ] /\ RunsMore(ran, ran')
      /\ ws' = ws \/ (kind \in Changes /\ ws' = ws + 1)
      /\ \A c \in Calls : ran'[c] > 0 => ran[c] > 0 \/ c = call
  <2>1. CASE answer = "approve"
    BY <1>1, <1>3, <1>4, <2>1, HandlersCount
  <2>2. CASE answer # "approve"
    BY <1>1, <1>3, <2>2 DEF World, RunsMore
  <2> QED
    BY <2>1, <2>2
<1>7. SaidRuns(ran', journal)
  BY <1>3, <1>4, <1>6 DEF SaidRuns
<1>8. WorldShape'
  BY <1>1, <1>3, <1>6, <1>7 DEF WorldShape, Bounds
<1>9. Stored'
  <2>1. Recorded(disk.ws, ran', disk.core, disk.messages)
    BY <1>6, RunsKeep DEF EffectInv, Stored
  <2>2. disk.ws \in 0..ws'
    BY <1>3, <1>6 DEF EffectInv, Stored
  <2>3. (Careful => ExecutionIsRecorded)'
    BY <1>1, <1>6 DEF EffectInv, Stored, ExecutionIsRecorded, Careful, Bounds, call
  <2> QED
    BY <1>1, <1>2, <1>7, <2>1, <2>2, <2>3 DEF EffectInv, Stored
<1>10. Recorded(ws', ran', core, journal) \/ ChangeArrives'
  <2>1. CASE ws' = ws
    BY <1>2, <1>6, <2>1, RunsKeep
  <2>2. CASE kind \in Changes
    <3>1. /\ entry'.kind = "results" /\ DOMAIN entry'.answers = { call }
          /\ entry'.answers[call] = kind
      BY <1>1
    <3> QED
      BY <1>1, <1>2, <2>2, <3>1 DEF ChangeArrives
  <2> QED
    BY <1>6, <2>1, <2>2
<1>11. AtEntry'
  <2>1. entry'.kind = "results" /\ \A c \in DOMAIN entry'.answers : entry'.answers[c] = kind
    BY <1>1
  <2> QED
    BY <1>1, <1>5, <1>10, <2>1 DEF AtEntry
<1> QED
  BY <1>1, <1>2, <1>8, <1>9, <1>11
     DEF EffectInv, AtUser, UserPlaces, AtDecision, AtMove, AtExecution, Elsewhere

(* A text of the user does not touch the calls (_prepare_continuation).     *)
LEMMA PromptRecords ==
  ASSUME CoreInv, EffectInv, CommitPrompt
  PROVE  EffectInv'
<1>1. /\ pc = "prompting" /\ pc' = "enter"
      /\ journal' = [ journal EXCEPT !.feedback = TRUE ]
      /\ disk' = [ disk EXCEPT !.messages = journal', !.resume = "before_model" ]
      /\ UNCHANGED << core, entry, catalog, batch, World, Bounds >>
  BY DEF CommitPrompt
<1>2. /\ Knows /\ journal = disk.messages /\ entry.kind = "user" /\ ~catalog
      /\ Written(journal) /\ SaidRuns(ran, journal)
  BY <1>1 DEF EffectInv, AtUser, AtEntry, WorldShape, UserPlaces
<1>3. /\ journal'.answers = journal.answers /\ journal'.issued = journal.issued
      /\ journal'.said = journal.said
  BY <1>1 DEF CoreInv, Shapes, IsTranscript, MessageFields
<1>4. /\ disk'.messages = journal' /\ disk'.status = disk.status /\ disk'.wait = disk.wait
      /\ disk'.prepared = disk.prepared /\ disk'.core = disk.core /\ disk'.ws = disk.ws
  BY <1>1 DEF CoreInv, Shapes, IsDisk, DiskFields
<1>5. /\ Written(journal') /\ SaidRuns(ran, journal') /\ (Answered(ran, journal) => Answered(ran, journal'))
      /\ \A w, c : Recorded(w, ran, c, journal) => Recorded(w, ran, c, journal')
      /\ \A c : IsOpen(journal, c) => IsOpen(journal', c)
  BY <1>2, <1>3 DEF Written, SaidIn, SaidRuns, Answered, Recorded, Cut, IsOpen
<1>6. Careful' <=> Careful
  BY <1>1 DEF Careful, Bounds
<1>7. Stored'
  <2>1. (Careful => ExecutionIsRecorded)'
    BY <1>1, <1>2, <1>4, <1>5, <1>6 DEF Knows, ExecutionIsRecorded, Answered, World
  <2>2. UNCHANGED << ws, ran >>
    BY <1>1 DEF World
  <2>3. Recorded(disk'.ws, ran', disk'.core, disk'.messages)
    BY <1>2, <1>4, <1>5, <2>2 DEF EffectInv, Stored
  <2>4. disk'.ws \in 0..ws'
    BY <1>4, <2>2 DEF EffectInv, Stored
  <2>5. disk.status = "waiting" => disk'.ws = ws' /\ (Careful' => Answered(ran', disk'.messages))
    BY <1>2, <1>4, <1>5, <1>6, <2>2 DEF EffectInv, Stored
  <2> QED
    BY <1>2, <1>4, <1>5, <2>1, <2>2, <2>3, <2>4, <2>5 DEF EffectInv, Stored
<1>8. WorldShape' /\ AtEntry'
  BY <1>1, <1>2, <1>5, <1>6 DEF EffectInv, WorldShape, AtEntry, Knows, World, Bounds
<1> QED
  BY <1>1, <1>2, <1>7, <1>8
     DEF EffectInv, AtUser, UserPlaces, AtDecision, AtMove, AtExecution, Elsewhere

(* A plan command puts the run behind its tools, whose results are all in   *)
(* the files then (_apply_plan_command).                                    *)
LEMMA PlanCommandRecords ==
  ASSUME CoreInv, EndInv, EffectInv,
         \/ ApprovePlan \/ RejectPlan \/ AbandonPlan
         \/ \E approved \in BOOLEAN : ResolveRevision(approved)
  PROVE  EffectInv'
<1>1. PICK plan :
        /\ disk' = [ Resumed EXCEPT !.core.plan = plan, !.core.noProgress = 0, !.resume = "after_tools" ]
        /\ pc = "idle" /\ pc' \in { "switching", "starting", "closing" } /\ Live
        /\ Events \cap PlanEvents # { }
        /\ UNCHANGED << core, journal, batch, catalog, World, crashes >>
  BY DEF ApprovePlan, RejectPlan, AbandonPlan, ResolveRevision, CommandPlan, PlanOf, Idle, PlanEvents
<1>2. /\ disk'.status = "running" /\ disk'.wait = NoWait /\ disk'.messages = disk.messages
      /\ disk'.ws = disk.ws /\ disk'.prepared = disk.prepared
      /\ disk'.core.revision = disk.core.revision
  BY <1>1, ResumedFacts DEF CoreInv, Shapes, IsDisk, DiskFields, IsCore, CoreFields
<1>3. ~catalog /\ (Careful' <=> Careful)
  BY <1>1 DEF EffectInv, AtUser, UserPlaces, Careful
<1>4. Careful => Answered(ran, disk.messages)
  BY <1>1 DEF EffectInv, AtUser, Careful
<1>5. Stored'
  <2>1. NoWait.kind \notin Asks
    BY DEF NoWait, Asks
  <2>2. (Careful => ExecutionIsRecorded)'
    BY <1>1, <1>2, <1>3, <1>4 DEF ExecutionIsRecorded, Answered, World
  <2> QED
    BY <1>1, <1>2, <1>3, <2>1, <2>2 DEF EffectInv, Stored, Recorded, World
<1>6. WorldShape' /\ AtUser'
  BY <1>1, <1>2, <1>3, <1>4 DEF EffectInv, WorldShape, AtUser, UserPlaces, World
<1> QED
  BY <1>1, <1>5, <1>6
     DEF EffectInv, AtEntry, AtDecision, AtMove, AtExecution, Elsewhere

(* What follows a plan command (set_current_mode,                           *)
(* _finish_current_plan_run).                                               *)
LEMMA PlanFollowUpRecords ==
  ASSUME CoreInv, EndInv, EffectInv, SwitchToBuild \/ StartApproved \/ CloseRun
  PROVE  EffectInv'
<1>1. /\ pc \in { "switching", "starting", "closing" }
      /\ UNCHANGED << catalog, batch, World, Bounds >>
  BY DEF SwitchToBuild, StartApproved, CloseRun
<1>2. /\ ~catalog /\ (Careful => Answered(ran, disk.messages)) /\ (Careful' <=> Careful)
  BY <1>1 DEF EffectInv, AtUser, UserPlaces, Careful, Bounds
<1>3. /\ disk'.messages = disk.messages /\ disk'.core = disk.core /\ disk'.ws = disk.ws
      /\ disk'.wait = disk.wait /\ disk'.prepared = disk.prepared /\ disk'.resume = disk.resume
      /\ disk'.status = IF CloseRun THEN "cancelled" ELSE disk.status
  BY DEF SwitchToBuild, StartApproved, CloseRun, CoreInv, Shapes, IsDisk, DiskFields
<1>4. Stored'
  <2>1. CloseRun => disk.wait = NoWait
    BY DEF CloseRun, EndInv, EndsOnce
  <2>2. (Careful => ExecutionIsRecorded)'
    BY <1>1, <1>2, <1>3 DEF ExecutionIsRecorded, Answered, World
  <2> QED
    BY <1>1, <1>2, <1>3, <2>1, <2>2 DEF EffectInv, Stored, World
<1>5. CASE SwitchToBuild \/ CloseRun \/ (StartApproved /\ pc' = "idle")
  <2>1. pc' \in { "starting", "idle" } /\ UNCHANGED << core, journal, entry >>
    BY <1>5 DEF SwitchToBuild, CloseRun, StartApproved
  <2>2. WorldShape' /\ AtUser'
    BY <1>1, <1>2, <1>3, <2>1 DEF EffectInv, WorldShape, AtUser, UserPlaces, World, Bounds
  <2> QED
    BY <1>4, <2>1, <2>2 DEF EffectInv, AtEntry, AtDecision, AtMove, AtExecution, Elsewhere
<1>6. CASE StartApproved /\ pc' # "idle"
  <2>1. /\ pc' = "enter" /\ core' = disk.core /\ journal' = disk.messages /\ ws = disk.ws
        /\ entry'.kind = "user"
    BY <1>6 DEF StartApproved, Load, Unchanged, NoEntry
  <2>2. WorldShape'
    BY <1>1, <2>1 DEF EffectInv, WorldShape, Stored, World, Bounds
  <2>3. AtEntry'
    BY <1>1, <1>2, <2>1 DEF EffectInv, Stored, AtEntry, World
  <2> QED
    BY <1>1, <1>2, <1>4, <2>1, <2>2, <2>3
       DEF EffectInv, AtUser, UserPlaces, AtDecision, AtMove, AtExecution, Elsewhere
<1> QED
  BY <1>1, <1>5, <1>6

-------------------------------------------------------------------------------
(* Always *)

LEMMA EffectInvInit == Init => EffectInv
<1> SUFFICES ASSUME Init PROVE EffectInv
  OBVIOUS
<1>1. /\ pc = "enter" /\ core = NewCore /\ journal = NoMessages /\ entry.kind = "user"
      /\ catalog = FALSE /\ batch = NoBatch /\ ws = 0 /\ ran = [ c \in Calls |-> 0 ] /\ crashes = 0
  BY DEF Init, NoEntry
<1>2. /\ disk.core = NewCore /\ disk.status = "running" /\ disk.messages = NoMessages
      /\ disk.wait = NoWait /\ disk.prepared = NoResume /\ disk.ws = 0
  <2>1. PICK m \in Modes :
          disk = [ status |-> "running", mode |-> m, core |-> NewCore, messages |-> NoMessages,
                   resume |-> "before_model", wait |-> NoWait, prepared |-> NoResume, ws |-> 0 ]
    BY DEF Init
  <2> QED
    BY <2>1
<1>3. Written(NoMessages)
  <2>1. << >> \in Seq({ })
    OBVIOUS
  <2> QED
    BY <2>1 DEF Written, NoMessages, IsSeq
<1>4. ran \in [ Calls -> Nat ] /\ \A c \in Calls : ran[c] = 0
  BY <1>1
<1> HIDE DEF Init
<1>5. SaidRuns(ran, NoMessages) /\ Answered(ran, NoMessages) /\ \A c : Recorded(0, ran, c, NoMessages)
  BY <1>4 DEF SaidRuns, Answered, Recorded
<1>6. WorldShape
  BY <1>1, <1>3, <1>4, <1>5 DEF WorldShape, NoBatch
<1>7. Stored
  BY <1>1, <1>2, <1>3, <1>4, <1>5 DEF Stored, ExecutionIsRecorded, NoWait, Asks
<1>8. AtUser /\ AtEntry
  BY <1>1, <1>5 DEF AtUser, AtEntry
<1> QED
  BY <1>1, <1>6, <1>7, <1>8 DEF EffectInv, AtDecision, AtMove, AtExecution, Elsewhere

LEMMA EffectInvStep == CoreInv /\ EndInv /\ EffectInv /\ [Next]_vars => EffectInv'
<1> SUFFICES ASSUME CoreInv, EndInv, EffectInv, [Next]_vars PROVE EffectInv'
  OBVIOUS
<1>1. CASE Driver
  <2>1. CASE RefuseCancelled \/ EnterWithUserInput \/ EnterWithMessage \/ EnterWithResults
    BY <2>1, EnterRecords, ResultsRecord
  <2>2. CASE DecideNext
    BY <2>2, DecisionRecords
  <2>3. CASE CommitWait \/ CommitTerminal \/ StartModel \/ Admit
    BY <2>3, BoundariesRecord
  <2>4. CASE Finish
    BY <2>4, FinishRecords
  <2>5. CASE \/ \E message \in Messages : ModelReplies(message)
             \/ \E code \in { "model.call_failed", "model.fatal" } : ModelFails(code)
    BY <2>5, ModelRecords
  <2>6. CASE \E i \in 1..MaxBatch, kind \in AdmissionKinds \cup { "stale" } : Refuse(i, kind)
    BY <2>6, RefusalRecords
  <2>7. CASE \E kind \in HandlerKinds \cup { "cancelled" } : RunHandler(kind)
    BY <2>7, HandlerRecords
  <2>8. CASE FinishBatch
    BY <2>8, BatchRecords
  <2>9. CASE \E status \in { "failed", "cancelled" } : Interrupt(status)
    BY <2>9, InterruptRecords
  <2>10. CASE (\E kind \in ResultKinds : ExecuteResume(kind)) \/ CommitPrompt
    BY <2>10, PreparedCallRecords, PromptRecords
  <2>11. CASE SwitchToBuild \/ StartApproved \/ CloseRun
    BY <2>11, PlanFollowUpRecords
  <2> QED
    BY <1>1, <2>1, <2>2, <2>3, <2>4, <2>5, <2>6, <2>7, <2>8, <2>9, <2>10, <2>11 DEF Driver
<1>2. CASE User
  <2>1. CASE Cancel
    BY <2>1, CancelRecords
  <2>2. CASE \/ Recover \/ ContinueRun \/ Prompt
             \/ \E answer \in { "approve", "deny", "reply" } : Answer(answer)
    BY <2>2, ResumeRecords
  <2>3. CASE \/ ApprovePlan \/ RejectPlan \/ AbandonPlan
             \/ \E approved \in BOOLEAN : ResolveRevision(approved)
    BY <2>3, PlanCommandRecords
  <2> QED
    BY <1>2, <2>1, <2>2, <2>3 DEF User
<1>3. CASE Crash
  BY <1>3, CrashRecords
<1>4. CASE UNCHANGED vars
  <2>1. WorldShape' /\ Stored'
    BY <1>4, StoredStays DEF vars, EffectInv, WorldShape
  <2>2. AtUser' /\ AtEntry' /\ AtDecision' /\ AtMove'
    BY <1>4 DEF vars, EffectInv, AtUser, AtEntry, ChangeArrives, AtDecision, AtMove, Knows, CanRun,
       Careful, Live
  <2>3. AtExecution' /\ Elsewhere'
    BY <1>4 DEF vars, EffectInv, AtExecution, Elsewhere, Knows, Careful
  <2> QED
    BY <2>1, <2>2, <2>3 DEF EffectInv
<1> QED
  BY <1>1, <1>2, <1>3, <1>4 DEF Next, Rest

(* A run that may only read does not complete once it has made a change.    *)
LEMMA ReadOnlyStep == CoreInv /\ EndInv /\ ReadOnly /\ [Next]_vars => ReadOnly'
<1> SUFFICES ASSUME CoreInv, EndInv, ReadOnly, [Next]_vars PROVE ReadOnly'
  OBVIOUS
<1>1. /\ IsDisk(disk) /\ IsCore(core)
      /\ \A b, c, m, w : Commit(b, c, m, w) => disk'.mode = disk.mode /\ disk'.core = c
  BY DEF CoreInv, Shapes, IsDisk, DiskFields, Commit
<1>2. CASE RefuseCancelled \/ EnterWithUserInput \/ EnterWithMessage
  BY <1>2, UserInputKeepsTurns DEF RefuseCancelled, Terminate, EnterWithUserInput, EnterWithMessage,
     ReadOnly, CoreInv, Shapes
<1>3. CASE EnterWithResults
  <2>1. PICK results, print : /\ pc = "enter" /\ entry.kind = "results" /\ pc' = "decide"
                              /\ core' = ReduceTools(core, results, print, disk.mode)
                              /\ Commit("after_tools", core', journal', NoWait)
    BY <1>3 DEF EnterWithResults
  <2>2. core'.task = core.task /\ core.task # "satisfied"
    BY <1>1, <2>1, ToolsKeepTurnsAndTask DEF EndInv, Satisfied
  <2> QED
    BY <1>1, <2>1, <2>2 DEF ReadOnly
<1>4. CASE DecideNext
  <2> DEFINE core1 == IF CancellationSeen THEN ReduceCancellation(core) ELSE core
             obs1 == IF CancellationSeen THEN Cancellation ELSE obs
  <2>1. /\ pc' = "act" /\ decision' = Decide(core1, obs1, disk.mode, limits)
        /\ IF MustSettle(decision') /\ Unsettled(journal) # << >>
           THEN Settle(core1, Unsettled(journal)) ELSE core' = core1 /\ UNCHANGED disk
    BY <1>4 DEF DecideNext
  <2>2. IsCore(core1) /\ Kept(core, core1)
    BY <1>1, RecordFailuresKeepsTurns DEF ReduceCancellation, Kept
  <2> HIDE DEF core1, obs1
  <2>3. Kept(core, core') /\ disk'.mode = disk.mode /\ (disk'.core = core' \/ disk'.core = disk.core)
    <3>1. CASE MustSettle(decision') /\ Unsettled(journal) # << >>
      BY <1>1, <2>1, <2>2, <3>1, SettlingKeeps DEF Settle, Kept
    <3>2. CASE ~(MustSettle(decision') /\ Unsettled(journal) # << >>)
      BY <2>1, <2>2, <3>2
    <3> QED
      BY <3>1, <3>2
  <2>4. disk.mode = "read" /\ decision'.do = "end" /\ decision'.arg = "completed" =>
          core1.task = "satisfied" \/ core1.revision = 0
    BY <2>1, <2>2, DecideReads
  <2> QED
    BY <2>1, <2>2, <2>3, <2>4 DEF ReadOnly, Kept
<1>5. CASE CommitWait \/ StartModel \/ Admit
  <2>1. PICK b, w : Commit(b, core, journal, w) /\ core' = core /\ decision.do # "end" /\ decision' = decision
    BY <1>5 DEF CommitWait, StartModel, Admit
  <2> QED
    BY <1>1, <2>1 DEF ReadOnly
<1>6. CASE CommitTerminal
  <2>1. /\ pc = "act" /\ decision.do = "end" /\ decision' = decision
        /\ core' = ApplyDecision(core, decision) /\ Commit("before_terminal", core', journal, NoWait)
    BY <1>6 DEF CommitTerminal
  <2>2. decision.arg \in Terminal
    BY <2>1 DEF EndInv, EndsOnce
  <2>3. core'.revision = core.revision /\ (core'.task = "satisfied" <=> decision.arg = "completed")
    BY <1>1, <2>1, <2>2, TerminalEndsPlan
  <2> QED
    BY <1>1, <2>1, <2>3 DEF ReadOnly
<1>7. CASE Finish \/ Crash
  <2>1. /\ pc' = "idle" /\ core' = NewCore
        /\ disk' = disk \/ \E status, wait : disk' = [ disk EXCEPT !.status = status, !.wait = wait ]
    BY <1>7 DEF Finish, Crash, Forget
  <2>2. NewCore.task = "active" /\ disk'.core = disk.core /\ disk'.mode = disk.mode
    BY <1>1, <2>1 DEF NewCore, IsDisk, DiskFields
  <2> QED
    BY <2>1, <2>2 DEF ReadOnly
<1>8. CASE \/ \E message \in Messages : ModelReplies(message)
           \/ \E code \in { "model.call_failed", "model.fatal" } : ModelFails(code)
  <2>1. PICK o, code : /\ core' = ReduceModel(core, o, code) /\ pc' = "decide"
                       /\ Commit("after_model", core', journal', NoWait)
    BY <1>8 DEF ModelReplies, ModelFails, ObserveModel
  <2>2. Kept(core, core')
    BY <1>1, <2>1, ModelCountsOneTurn
  <2> QED
    BY <1>1, <2>1, <2>2 DEF ReadOnly, Kept
<1>9. CASE \/ \E i \in 1..MaxBatch, kind \in AdmissionKinds \cup { "stale" } : Refuse(i, kind)
           \/ FinishBatch
  <2>1. PICK results, print :
          /\ pc = "execute" \/ (pc = "act" /\ decision.do = "tools")
          /\ pc' = "decide" /\ core' = ReduceTools(core, results, print, disk.mode)
          /\ UNCHANGED disk \/ Commit("after_tools", core', journal', NoWait)
    BY <1>9 DEF Refuse, FinishBatch, ObserveTools
  <2>2. core'.task = core.task /\ core.task # "satisfied"
    BY <1>1, <2>1, ToolsKeepTurnsAndTask DEF EndInv, Satisfied
  <2> QED
    BY <1>1, <2>1, <2>2 DEF ReadOnly
<1>10. CASE \E status \in { "failed", "cancelled" } : Interrupt(status)
  <2> DEFINE open == Unsettled(journal)
             settled == IF open = << >> THEN core
                        ELSE ReduceTools(core, Same("notExecuted", open), PrintOf(journal, open), disk.mode)
  <2>1. PICK status \in { "failed", "cancelled" } : Interrupt(status)
    BY <1>10
  <2>2. /\ pc' = "act" /\ decision'.arg # "completed"
        /\ UNCHANGED disk \/ Commit("after_tools", settled, journal', NoWait)
        /\ core' = IF status = "cancelled" THEN ReduceCancellation(settled) ELSE settled
    BY <2>1 DEF Interrupt, Terminate
  <2>3. IsCore(settled) /\ Kept(core, settled)
    BY <1>1, SettlingKeeps, ToolsKeepTurnsAndTask DEF Kept
  <2> HIDE DEF settled, open
  <2>4. Kept(core, core')
    BY <2>2, <2>3, RecordFailuresKeepsTurns DEF ReduceCancellation, Kept
  <2> QED
    BY <1>1, <2>2, <2>3, <2>4 DEF ReadOnly, Kept
<1>11. CASE \/ Recover \/ ContinueRun \/ Prompt
            \/ \E answer \in { "approve", "deny", "reply" } : Answer(answer)
  <2>1. /\ core' = disk.core /\ pc' \notin { "act", "over" }
        /\ disk' = Resumed \/ \E p : disk' = [ Resumed EXCEPT !.prepared = p ]
    BY <1>11 DEF Recover, ContinueRun, Prompt, Answer, Load
  <2>2. disk'.core = disk.core /\ disk'.mode = disk.mode
    BY <2>1, ResumedFacts DEF IsDisk, DiskFields
  <2> QED
    BY <2>1, <2>2 DEF ReadOnly
<1>12. CASE \/ Cancel \/ \E kind \in HandlerKinds \cup { "cancelled" } : RunHandler(kind)
            \/ \E kind \in ResultKinds : ExecuteResume(kind)
  <2>1. UNCHANGED << disk, core, decision >> /\ (pc' = pc \/ pc' = "enter")
    BY <1>12 DEF Cancel, RunHandler, ExecuteResume
  <2> QED
    BY <2>1 DEF ReadOnly
<1>13. CASE CommitPrompt \/ SwitchToBuild \/ StartApproved \/ CloseRun
  <2>1. /\ disk'.core = disk.core /\ disk'.mode \in { disk.mode, "build" }
        /\ core' \in { core, disk.core } /\ pc' \notin { "act", "over" }
    BY <1>1, <1>13 DEF CommitPrompt, SwitchToBuild, StartApproved, CloseRun, Load, IsDisk, DiskFields
  <2> QED
    BY <2>1 DEF ReadOnly
<1>14. CASE \/ ApprovePlan \/ RejectPlan \/ AbandonPlan
            \/ \E approved \in BOOLEAN : ResolveRevision(approved)
  <2>1. PICK plan :
          /\ disk' = [ Resumed EXCEPT !.core.plan = plan, !.core.noProgress = 0, !.resume = "after_tools" ]
          /\ pc' \in { "switching", "starting", "closing" } /\ UNCHANGED core
    BY <1>14 DEF ApprovePlan, RejectPlan, AbandonPlan, ResolveRevision, CommandPlan
  <2>2. /\ disk'.core.revision = disk.core.revision /\ disk'.core.task = disk.core.task
        /\ disk'.mode = disk.mode
    BY <2>1, ResumedFacts DEF CoreInv, Shapes, IsDisk, DiskFields, IsCore, CoreFields
  <2> QED
    BY <2>1, <2>2 DEF ReadOnly
<1>15. CASE UNCHANGED vars
  BY <1>15 DEF vars, ReadOnly
<1> QED
  BY <1>2, <1>3, <1>4, <1>5, <1>6, <1>7, <1>8, <1>9, <1>10, <1>11, <1>12, <1>13, <1>14, <1>15
     DEF Next, Driver, User, Rest

(* A run whose checkpoint shows a change that a crash kept from Core is     *)
(* with the user until the change is gone: no entry begins over it          *)
(* (_ensure_workspace_recovery).                                            *)
LEMMA KnownShowsStep ==
  CoreInv /\ EffectInv /\ KnownShows /\ [Next]_vars => KnownShows'
<1> SUFFICES ASSUME CoreInv, EffectInv, KnownShows, [Next]_vars, "known" \in lost'
             PROVE  ws' # disk'.ws /\ pc' \in UserPlaces
  BY DEF KnownShows
<1>1. CASE Crash
  <2>1. pc' = "idle" /\ disk' = disk
    BY <1>1 DEF Crash, Forget
  <2>2. CASE ws = disk.ws
    BY <1>1, <2>2 DEF Crash, KnownShows
  <2>3. CASE ws # disk.ws
    BY <1>1, <2>1, <2>3 DEF Crash, LoseChanges, UserPlaces
  <2> QED
    BY <2>1, <2>2, <2>3
<1>2. CASE UNCHANGED vars
  BY <1>2 DEF vars, KnownShows
<1>3. CASE Driver \/ User
  <2>1. lost' = lost
    BY <1>3 DEF Driver, User, World, HandlerRuns, Idle, RefuseCancelled, EnterWithUserInput,
       EnterWithMessage, EnterWithResults, DecideNext, CommitWait, CommitTerminal, Finish,
       StartModel, ModelReplies, ModelFails, ObserveModel, Refuse, Admit, RunHandler,
       FinishBatch, Interrupt, ExecuteResume, CommitPrompt, SwitchToBuild, StartApproved,
       CloseRun, Cancel, Recover, ContinueRun, Prompt, Answer, ApprovePlan, RejectPlan,
       AbandonPlan, ResolveRevision, CommandPlan
  <2>2. ws # disk.ws /\ pc \in UserPlaces
    BY <2>1 DEF KnownShows
  <2>3. disk.wait.kind \notin Asks
    BY <2>2 DEF EffectInv, Stored, Asks, NoWait
  <2>4. CASE Driver
    <3>1. SwitchToBuild \/ StartApproved \/ CloseRun
      BY <2>2, <2>4 DEF UserPlaces, Driver, RefuseCancelled, EnterWithUserInput,
         EnterWithMessage, EnterWithResults, DecideNext, CommitWait, CommitTerminal, Finish,
         StartModel, ModelReplies, ModelFails, Refuse, Admit, RunHandler, FinishBatch,
         Interrupt, ExecuteResume, CommitPrompt
    <3>2. ws' = ws /\ disk'.ws = disk.ws
      BY <3>1 DEF SwitchToBuild, StartApproved, CloseRun, World, CoreInv, Shapes, IsDisk,
         DiskFields
    <3>3. pc' \in UserPlaces
      BY <2>2, <3>1 DEF SwitchToBuild, StartApproved, CloseRun, Unchanged, UserPlaces
    <3> QED
      BY <2>2, <3>2, <3>3
  <2>5. CASE User
    <3>1. \/ ApprovePlan \/ RejectPlan \/ AbandonPlan
          \/ \E approved \in BOOLEAN : ResolveRevision(approved)
      BY <2>2, <2>3, <2>5 DEF User, Cancel, Recover, ContinueRun, Prompt, Answer, Unchanged,
         UserPlaces, Asks
    <3>2. PICK plan :
            /\ disk' = [ Resumed EXCEPT !.core.plan = plan, !.core.noProgress = 0,
                                        !.resume = "after_tools" ]
            /\ pc' \in { "switching", "starting", "closing" } /\ UNCHANGED World
      BY <3>1 DEF ApprovePlan, RejectPlan, AbandonPlan, ResolveRevision, CommandPlan, Idle
    <3>3. disk'.ws = disk.ws
      BY <3>2, ResumedFacts DEF IsDisk, DiskFields
    <3> QED
      BY <2>2, <3>2, <3>3 DEF World, UserPlaces
  <2> QED
    BY <1>3, <2>4, <2>5
<1> QED
  BY <1>1, <1>2, <1>3 DEF Next, Rest

LEMMA EffectsAlways == Spec => [](CoreInv /\ EffectInv /\ ReadOnly /\ KnownShows)
<1>1. Init => EffectInv /\ ReadOnly /\ KnownShows
  <2>1. Init => ReadOnly
    <3>1. NewCore.revision = 0
      BY DEF NewCore
    <3>2. Init => core = NewCore /\ pc = "enter"
      BY DEF Init
    <3>3. Init => disk.core = NewCore
      BY DEF Init
    <3> QED
      BY <3>1, <3>2, <3>3 DEF ReadOnly
  <2>2. Init => KnownShows
    BY DEF Init, KnownShows
  <2> QED
    BY <2>1, <2>2, EffectInvInit
<1>2. CoreInv /\ EndsUntilCrash /\ EffectInv /\ ReadOnly /\ KnownShows /\ [Next]_vars
        => (EffectInv /\ ReadOnly /\ KnownShows)'
  BY EffectInvStep, ReadOnlyStep, KnownShowsStep DEF EndsUntilCrash
<1> QED
  BY EndsUntilCrashAlways, <1>1, <1>2, PTL DEF Spec

LEMMA EffectsFollow ==
  EffectInv /\ ReadOnly /\ KnownShows =>
    ChangesAreRecorded /\ ReadRunsOnlyRead /\ (Careful => ExecutionIsRecorded)
<1> SUFFICES ASSUME EffectInv, ReadOnly, KnownShows
             PROVE  ChangesAreRecorded /\ ReadRunsOnlyRead /\ (Careful => ExecutionIsRecorded)
  OBVIOUS
<1>1. pc = "model" \/ Completed => Knows
  BY DEF EffectInv, Elsewhere, Completed, Decided
<1>2. Cut(ran, journal) => CutOff
  BY DEF Cut, CutOff
<1>3. ChangesAreRecorded
  <2>1. pc = "model" \/ Completed => "known" \notin lost
    BY DEF KnownShows, UserPlaces, Completed, Decided
  <2> QED
    BY <1>1, <1>2, <2>1 DEF ChangesAreRecorded, Knows, Recorded
<1>4. ReadRunsOnlyRead
  <2>1. Completed /\ disk.mode = "read" => core.revision = 0 /\ ws \in Nat
    BY DEF Completed, Decided, ReadOnly, EffectInv, WorldShape
  <2> QED
    BY <1>1, <1>2, <2>1 DEF ReadRunsOnlyRead, Knows, Recorded
<1> QED
  BY <1>3, <1>4 DEF EffectInv, Stored

(* Whenever the model is called or the run completes, the revision that     *)
(* verification relies on shows that the workspace was changed, a run that  *)
(* may only read does not complete after a change, and no crash has kept    *)
(* from Core a change of a file that it knew to have changed (driver.py;    *)
(* reducer.py, _reduce_workspace; policy.py; _ensure_workspace_recovery),   *)
(* over resumed approvals, exceptions, crashes and plan commands alike.     *)
(* About the changes of other files in a batch that a crash cut off it says *)
(* nothing: no comparison shows them.                                       *)
THEOREM ChangesDoNotEscape == Spec => [](ChangesAreRecorded /\ ReadRunsOnlyRead)
<1>1. EffectInv /\ ReadOnly /\ KnownShows => ChangesAreRecorded /\ ReadRunsOnlyRead
  BY EffectsFollow
<1> QED
  BY EffectsAlways, <1>1, PTL

(* What happened to the workspace is not lost on Core: neither a change, of *)
(* a batch without a crash or of a file that Core knew to have changed, nor *)
(* that a handler may have run, which the checkpoint says until             *)
(* the result of the call is committed (driver.py, the boundary             *)
(* before_tools; session_coordinator.py, the prepared resume), nor a change *)
(* of a run that may only read.  It holds of runs without a crash and of    *)
(* runs without plan commands; of runs with both it does not: a plan        *)
(* command to a run that crashed in the middle of a batch stores the        *)
(* boundary after_tools over calls that have run (_apply_plan_command).     *)
THEOREM EffectsDoNotEscape == Spec => [](Careful => EffectsAreRecorded)
<1>1. EffectInv /\ ReadOnly /\ KnownShows => (Careful => EffectsAreRecorded)
  BY EffectsFollow DEF EffectsAreRecorded
<1> QED
  BY EffectsAlways, <1>1, PTL
===============================================================================
