---------------------------- MODULE ContextWindow ----------------------------
(***************************************************************************)
(* What the model is shown of a session's messages (sessions/context): the *)
(* projection, thinning and compaction of one prepare() after the other,   *)
(* across runs, failing summaries and restarts.                            *)
(* Messages are grouped as core/transcript.py groups them; their sizes are *)
(* a few units each.                                                       *)
(***************************************************************************)
EXTENDS Naturals, Sequences, FiniteSets, SequencesExt, FiniteSetsExt

CONSTANTS Budget, Fixed, Required,   \* of the input, of rules and tools, of required items
          Keep, Recent,              \* what compaction and thinning leave alone
          Batches,                   \* tools that one answer of the model may call
          Recalls,                   \* how many memories may be recalled; 0 if it fails
          MaxGroups, MaxCrashes      \* bounds

Size == [ read |-> 2, output |-> 3, edit |-> 1, answer |-> 1 ]

VARIABLES log,         \* message groups of the session
          snapshot,    \* the compactor's current summary, if any
          files,       \* summaries in .codepilot/runs
          checkpoint,  \* summary that the run's checkpoint names
          archived,    \* tool outputs in artifact files
          shown,       \* what the model is reading
          behind,      \* the session's leaf does not name the last group yet
          crashes

contextVars == << log, snapshot, files, checkpoint, archived, shown, behind,
                  crashes >>

NoSummary == [ cursor |-> 0, covers |-> { }, same |-> TRUE ]
Nothing == [ cursor |-> 0, view |-> << >>, tokens |-> 0 ]

Init ==
    /\ log = << >> /\ snapshot = NoSummary /\ files = { } /\ checkpoint = NoSummary
    /\ archived = { } /\ shown = Nothing /\ behind = FALSE /\ crashes = 0

-----------------------------------------------------------------------------
(* Groups *)

Ids == { log[i].id : i \in DOMAIN log }
NewId == 1 + crashes + IF log = << >> THEN 0 ELSE Last(log).id   \* never used before
Group(who, tools, open) ==
    [ id |-> NewId, who |-> who, open |-> open,
      results |-> [ k \in DOMAIN tools |->
                      [ tool |-> tools[k],
                        version |-> Cardinality({ i \in DOMAIN log :
                                      \E r \in Range(log[i].results) : r.tool = "edit" }) ] ] ]

\* The groups behind the cursor; all of them when it is not there.
After(cursor) ==
    IF cursor \in Ids THEN { i \in DOMAIN log : log[i].id > cursor } ELSE DOMAIN log

Closed(i) == log[i].who = "tools" /\ ~log[i].open

\* The tool results that no answer of the model has followed yet.
Unconsumed(groups) ==
    { i \in groups : Closed(i) /\ \A j \in groups : j > i => log[j].who = "user" }

-----------------------------------------------------------------------------
(* Projection *)

\* A newer group has read the same text of the file.
Repeated(i, k, groups) ==
    /\ log[i].results[k].tool = "read" /\ i \notin Unconsumed(groups)
    /\ \E j \in groups : j > i /\ Closed(j) /\ log[i].results[k] \in Range(log[j].results)

Project(cursor) ==
    LET groups == After(cursor)
        Omitted(i) == /\ Closed(i)
                      /\ \A k \in DOMAIN log[i].results : Repeated(i, k, groups)
    IN  [ i \in groups |->
            [ k \in DOMAIN log[i].results |->
                IF Omitted(i) THEN "omitted"
                ELSE IF Repeated(i, k, groups) THEN "marker" ELSE "full" ] ]

ResultsCost(i, forms) ==
    SumFunction([ k \in DOMAIN forms |-> CASE forms[k] = "full" -> Size[log[i].results[k].tool]
                                           [] forms[k] = "thinned" -> 1
                                           [] OTHER -> 0 ])

IsOmitted(forms) == "omitted" \in Range(forms)

Tokens(view) ==
    SumFunction([ i \in DOMAIN view |->
                    IF IsOmitted(view[i]) THEN 0 ELSE 1 + ResultsCost(i, view[i]) ])

-----------------------------------------------------------------------------
(* Thinning *)

\* A change to the file has made what was read history.
Stale(i) == \E j \in DOMAIN log : j > i /\ \E r \in Range(log[j].results) : r.tool = "edit"

Covered(i, view) ==
    /\ Stale(i)
    /\ \E j \in DOMAIN view : /\ j > i /\ ~Stale(j) /\ ~IsOmitted(view[j])
                              /\ \E r \in Range(log[j].results) : r.tool = "read"

\* The newest results, as far as they fit into what is left alone.
IsRecent(i, view) ==
    LET newer == { j \in DOMAIN view : j >= i /\ view[j] # << >> /\ ~IsOmitted(view[j]) }
    IN  newer = { i } \/ SumFunction([ j \in newer |-> ResultsCost(j, view[j]) ]) <= Recent

Thinnable(view) ==
    { p \in (DOMAIN view) \X (1..2) :
        /\ p[2] \in DOMAIN view[p[1]] /\ ~IsOmitted(view[p[1]])
        /\ p[1] \notin Unconsumed(DOMAIN view) /\ ~IsRecent(p[1], view)
        /\ LET tool == log[p[1]].results[p[2]].tool
           IN  tool = "output" \/ (tool = "read" /\ Covered(p[1], view)) }

\* From the oldest on, until the messages fit the target.
Thin(view, target) ==
    LET all == Thinnable(view)
        rank == [ p \in all |-> Cardinality({ q \in all :
                    q[1] < p[1] \/ (q[1] = p[1] /\ q[2] <= p[2]) }) ]
        Shrunk(n) == [ i \in DOMAIN view |-> [ k \in DOMAIN view[i] |->
                         IF << i, k >> \in all /\ rank[<< i, k >>] <= n THEN "thinned"
                         ELSE view[i][k] ] ]
        enough == { n \in 0..Cardinality(all) : Tokens(Shrunk(n)) <= target }
    IN  Shrunk(IF enough = { } THEN Cardinality(all) ELSE Min(enough))

-----------------------------------------------------------------------------
(* Compaction *)

\* The newest groups stay, as many as fit into Keep, up to the first that does not.
Kept(groups) ==
    LET whole == [ i \in groups |-> 1 + ResultsCost(i, [ k \in DOMAIN log[i].results |-> "full" ]) ]
        Fits(i) == LET newer == { j \in groups : j >= i }
                   IN  newer = { i } \/ SumFunctionOnSet(whole, newer) <= Keep
    IN  { i \in groups : \A j \in groups : j >= i => Fits(j) }

(* A plausible bug: the unconsumed batch is compacted like any other group.  *)
CompactPrefixUnprotected(groups) ==
    LET rest == groups \ Kept(groups) IN IF rest = { } THEN { Min(groups) } ELSE rest

\* The groups that the summary takes over: at least one, but none from the
\* unconsumed batch on.
CompactPrefix(groups) ==
    LET rest == groups \ Kept(groups)
    IN  { i \in IF rest = { } THEN { Min(groups) } ELSE rest :
            \A j \in Unconsumed(groups) : i < j }

\* The summary of one more prefix.
Summary(old, prefix) ==
    IF prefix = { } THEN old
    ELSE [ cursor |-> log[Max(prefix)].id, same |-> TRUE,
           covers |-> old.covers \cup { log[i].id : i \in prefix } ]

\* Too few groups are not compacted.
Compacted(old) ==
    LET groups == After(old.cursor)
    IN  IF Cardinality(groups) < 4 THEN old ELSE Summary(old, CompactPrefix(groups))

\* A summary that fails, is too long or cannot be written leaves the old one;
\* without an old one there is no context.
Outcomes == { "good", "failed" }
AfterCompaction(old, outcome) ==
    IF outcome = "failed" THEN old ELSE Compacted(old)

-----------------------------------------------------------------------------
(* prepare() *)

\* The optional items in their ranking: the repository, the files that were
\* read, recalled memories.
Items(recalled) ==
    << [ size |-> 1, memory |-> FALSE ] >>
      \o (IF \E i \in DOMAIN log : log[i].results # << >>
          THEN << [ size |-> 1, memory |-> FALSE ] >> ELSE << >>)
      \o [ n \in 1..recalled |-> [ size |-> 1, memory |-> TRUE ] ]

\* Every item that still fits; memories get a tenth of the budget.
Select(used, item, available) ==
    IF \/ used.all + item.size > available
       \/ item.memory /\ used.memory + item.size > Budget \div 10
    THEN used
    ELSE [ all |-> used.all + item.size,
           memory |-> used.memory + IF item.memory THEN item.size ELSE 0 ]

Selected(items, available) ==
    LET used[n \in 0..Len(items)] ==
          IF n = 0 THEN [ all |-> 0, memory |-> 0 ] ELSE Select(used[n - 1], items[n], available)
    IN  used[Len(items)].all

\* The size of the whole. Required items that do not fit make it too large when
\* no overflow is allowed.
Materialize(view, summary, recalled, overflow) ==
    LET base == Fixed + Tokens(view)
        available == IF base + 1 >= Budget THEN 0 ELSE Budget - base - 1
        attached == Required + IF summary = NoSummary THEN 0 ELSE 1
    IN  IF Required > available THEN (IF overflow THEN base + attached ELSE Budget + 1)
        ELSE base + attached + Selected(Items(recalled), available - Required)

Level(tokens) ==
    IF tokens > Budget THEN "overflow"
    ELSE IF 10 * tokens >= 8 * Budget THEN "critical"
    ELSE IF 10 * tokens >= 6 * Budget THEN "tight" ELSE "normal"

Target(view, tokens) ==
    LET all == (55 * Budget) \div 100
        rest == tokens - Tokens(view)
    IN  IF rest >= all THEN 0 ELSE all - rest

\* validate_messages forgets a summary whose source is not the prefix any more.
Validated == IF snapshot.cursor \in Ids /\ snapshot.same THEN snapshot ELSE NoSummary

Refuse == shown' = Nothing

\* Results whose own text went to an artifact file.
Archived(view) ==
    { p \in (DOMAIN view) \X (1..2) :
        /\ p[2] \in DOMAIN view[p[1]] /\ view[p[1]][p[2]] = "thinned"
        /\ ~Repeated(p[1], p[2], DOMAIN view) }

Show(summary, view, tokens) ==
    /\ archived' = archived \cup { << log[p[1]].id, p[2] >> : p \in Archived(view) }
    /\ IF tokens > Budget THEN Refuse
       ELSE shown' = [ cursor |-> summary.cursor, view |-> view, tokens |-> tokens ]

\* After a message of the user or tool results the model is to be called.
Due == log # << >> /\ Last(log).who # "text" /\ shown = Nothing

Prepare(outcome, recalled) ==
    LET before == Project(Validated.cursor)
        size == Materialize(before, Validated, recalled, TRUE)
        thin == Thin(before, Target(before, size))
        summary == AfterCompaction(Validated, outcome)
        after == Project(summary.cursor)
        smaller == Materialize(after, summary, recalled, FALSE)
        least == Thin(after, Target(after, smaller))
        \* Nothing was thinned: what was materialized stays.
        Again(view, thinned, tokens, overflow) ==
            IF thinned = view THEN tokens ELSE Materialize(thinned, summary, recalled, overflow)
    IN  /\ Due /\ checkpoint' = snapshot /\ behind' = FALSE
        /\ IF \E i \in DOMAIN log : log[i].open
           THEN Refuse /\ UNCHANGED << snapshot, files, archived >>
           ELSE CASE Level(size) = "normal" ->
                       /\ snapshot' = Validated /\ Show(Validated, before, size)
                       /\ UNCHANGED files
                  [] Level(size) = "tight" ->
                       /\ snapshot' = Validated /\ UNCHANGED files
                       /\ Show(Validated, thin,
                               IF thin = before THEN size ELSE Materialize(thin, Validated, recalled, TRUE))
                  [] OTHER ->
                       /\ snapshot' = summary
                       /\ files' = files \cup ({ summary } \ { NoSummary })
                       /\ IF summary = NoSummary \/ smaller > Budget
                          THEN Refuse /\ UNCHANGED archived
                          ELSE IF Level(smaller) = "normal" THEN Show(summary, after, smaller)
                          ELSE Show(summary, least, Again(after, least, smaller, FALSE))
        /\ UNCHANGED << log, crashes >>

-----------------------------------------------------------------------------
(* The session *)

Commit(group) ==
    /\ Len(log) < MaxGroups /\ log' = Append(log, group)
    /\ checkpoint' = snapshot /\ shown' = Nothing /\ behind' = TRUE
    /\ UNCHANGED << snapshot, files, archived, crashes >>

\* A run that was cut off may leave tool results, or an open call, behind.
UserMessage == shown = Nothing /\ Commit(Group("user", << >>, FALSE))
Answer == shown # Nothing /\ Commit(Group("text", << >>, FALSE))
RunTools(batch) == shown # Nothing /\ Commit(Group("tools", batch, FALSE))
AskUser == shown # Nothing /\ Commit(Group("tools", << >>, TRUE))

AnswerUser ==
    /\ log # << >> /\ Last(log).open
    /\ log' = [ log EXCEPT ![Len(log)] =
                  [ Group("tools", << "answer" >>, FALSE) EXCEPT !.id = log[Len(log)].id ] ]
    /\ checkpoint' = snapshot /\ behind' = FALSE
    /\ UNCHANGED << snapshot, files, archived, shown, crashes >>

\* A new process restores what the checkpoint names. The messages it loads may
\* end before the last commit, and may print differently.
Restart(lag, same) ==
    /\ crashes < MaxCrashes /\ crashes' = crashes + 1
    /\ log' = IF lag /\ behind THEN Front(log) ELSE log
    /\ snapshot' = IF checkpoint \in files THEN [ checkpoint EXCEPT !.same = same ] ELSE NoSummary
    /\ shown' = Nothing /\ behind' = FALSE
    /\ UNCHANGED << files, checkpoint, archived >>

Next ==
    \/ \E outcome \in Outcomes, recalled \in Recalls : Prepare(outcome, recalled)
    \/ UserMessage \/ Answer \/ AskUser \/ AnswerUser
    \/ \E batch \in Batches : RunTools(batch)
    \/ \E lag, same \in BOOLEAN : Restart(lag, same)

Spec == Init /\ [][Next]_contextVars

-----------------------------------------------------------------------------
(* Properties *)

TypeOK ==
    /\ Len(log) <= MaxGroups /\ crashes <= MaxCrashes
    /\ snapshot.covers \subseteq Nat /\ shown.tokens \in Nat
    /\ checkpoint.cursor \in Nat /\ \A f \in files : f.cursor \in Nat

\* The same text is in a newer result that is shown, or was thinned to a file.
Elsewhere(i, k) ==
    \E j \in DOMAIN shown.view : \E l \in DOMAIN shown.view[j] :
        /\ j > i /\ log[j].results[l] = log[i].results[k]
        /\ shown.view[j][l] = "full" \/ << log[j].id, l >> \in archived

(* Nothing that was said or done is out of the model's reach: every group    *)
(* is in the summary up to its cursor, or in full, or its text is in a newer *)
(* result or in an artifact file. New tool results are shown in full, no     *)
(* call is shown open, and the whole fits the input (ContextService.prepare).*)
ContextIsWhole ==
    shown # Nothing =>
        /\ \A i \in DOMAIN log :
             \/ log[i].id \in snapshot.covers /\ snapshot.cursor = shown.cursor
                  /\ log[i].id <= shown.cursor
             \/ /\ i \in DOMAIN shown.view
                /\ \A k \in DOMAIN log[i].results :
                     CASE shown.view[i][k] = "full" -> TRUE
                       [] OTHER -> \/ /\ shown.view[i][k] = "thinned"
                                      /\ << log[i].id, k >> \in archived
                                   \/ Elsewhere(i, k)
        /\ \A i \in Unconsumed(DOMAIN log) : i \in DOMAIN shown.view /\ Range(shown.view[i]) \subseteq { "full" }
        /\ \A i \in DOMAIN log : ~log[i].open
        /\ shown.tokens <= Budget
=============================================================================
