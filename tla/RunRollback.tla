----------------------------- MODULE RunRollback -----------------------------
(***************************************************************************)
(* Rolling back the changes of one run (sessions/rollback/service.py,      *)
(* workspace.py): the baseline taken when the run is prepared, the files   *)
(* recorded after it, the plan and its execution, while the user edits,    *)
(* stages and commits files and the process may stop.                      *)
(***************************************************************************)
EXTENDS Naturals, FiniteSets

CONSTANTS Files, MaxEdits, MaxWrites, MaxCrashes

VARIABLES head,      \* content of a file in the commit that is checked out
          index,     \* content in git's index
          work,      \* content in the working tree
          ignored,   \* untracked files that git does not show
          pc,        \* what the run, or a rollback, is doing
          baseline,  \* the baseline that the coordinator knows, and its checkpoint
          affected,  \* files of the run's reported effects (affected_paths)
          meta,      \* rollback.json
          todo,      \* planned actions that have not been carried out
          result,    \* status of the last rollback
          start,     \* contents and commit when the run began
          mine,      \* what the user has done to a file since rollback.json
          count      \* edits, writes of the run and crashes so far

git == << head, index, ignored >>
rollbackVars == << git, work, pc, baseline, affected, meta, todo, result, start, mine, count >>

Contents == { "none", "base", "run", "user" }

NoBaseline == [ known |-> FALSE, saved |-> FALSE, eligible |-> FALSE ]
NoMeta == [ eligible |-> FALSE, affected |-> { }, post |-> [ f \in Files |-> "none" ] ]

\* Every file is committed, absent, or ignored and only in the working tree.
Init ==
    /\ head \in [ Files -> { "none", "base" } ] /\ index = head
    /\ work \in [ Files -> { "none", "base" } ]
    /\ ignored = { f \in Files : work[f] # head[f] }
    /\ \A f \in Files : head[f] = "base" => work[f] = "base"
    /\ pc = "idle" /\ baseline = NoBaseline /\ affected = { } /\ meta = NoMeta
    /\ todo = [ f \in Files |-> "skip" ] /\ result = "none"
    /\ start = [ work |-> work, head |-> head ]
    /\ mine = [ f \in Files |-> "nothing" ]
    /\ count = [ edits |-> 0, writes |-> 0, crashes |-> 0 ]

-----------------------------------------------------------------------------
(* Git *)

Tracked(f) == index[f] # "none"
Staged(f) == index[f] # head[f]

\* git status --porcelain --untracked-files=normal
Status == { f \in Files : Staged(f) \/ (work[f] # index[f] /\ (Tracked(f) \/ f \notin ignored)) }

-----------------------------------------------------------------------------
(* The user *)

Count(what, max) == count[what] < max /\ count' = [ count EXCEPT ![what] = @ + 1 ]

\* mine says what the user made of a file since it was recorded, if it is not what
\* the run left, and is "meddled" if he did so during a rollback.
\* What he does after the rollback is not followed.
Edit(f) ==
    /\ result = "none" /\ Count("edits", MaxEdits)
    /\ \E c \in { "none", "user" } \ { work[f] } :
         /\ work' = [ work EXCEPT ![f] = c ]
         /\ mine' = [ mine EXCEPT ![f] = IF pc = "applying" THEN "meddled"
                                      ELSE IF c = meta.post[f] THEN "nothing" ELSE c ]
    /\ UNCHANGED << git, pc, baseline, affected, meta, todo, result, start >>

Add(f) ==
    /\ result = "none" /\ index[f] # work[f] /\ f \notin ignored /\ Count("edits", MaxEdits)
    /\ index' = [ index EXCEPT ![f] = work[f] ]
    /\ mine' = [ mine EXCEPT ![f] = IF pc = "applying" THEN "meddled" ELSE @ ]
    /\ UNCHANGED << head, ignored, work, pc, baseline, affected, meta, todo, result, start >>

GitCommit ==
    /\ result = "none" /\ index # head /\ head' = index
    /\ UNCHANGED << index, ignored, work, pc, baseline, affected, meta, todo, result, start,
                    mine, count >>

-----------------------------------------------------------------------------
(* The run *)

\* capture_git_baseline when the run is prepared; the first checkpoint has it.
Prepare ==
    /\ pc = "idle" /\ pc' = "running"
    /\ baseline' = [ known |-> TRUE, saved |-> TRUE, eligible |-> Status = { } ]
    /\ start' = [ work |-> work, head |-> head ]
    /\ UNCHANGED << git, work, affected, meta, todo, result, mine, count >>

\* A file tool reports its effects; the effects of a shell command are inferred,
\* and workspace_effect_summary does not count them.
Write(f) ==
    /\ pc = "running" /\ Count("writes", MaxWrites)
    /\ \E c \in { "none", "run" } \ { work[f] } : work' = [ work EXCEPT ![f] = c ]
    /\ affected' \in { affected, affected \cup { f } }
    /\ mine' = [ mine EXCEPT ![f] = "nothing" ]
    /\ UNCHANGED << git, pc, baseline, meta, todo, result, start >>

\* The run waits or ends; what follows its commit is not part of it.
Stop ==
    /\ pc = "running" /\ pc' \in { "paused", "over" }
    /\ UNCHANGED << git, work, baseline, affected, meta, todo, result, start, mine, count >>

\* _run_post_commit_effects: rollback.json records the affected files as they are
\* now, if the baseline is known.
Record ==
    /\ pc \in { "paused", "over" } /\ pc' = IF pc = "paused" THEN "waiting" ELSE "ended"
    /\ IF baseline.known
       THEN /\ meta' = [ eligible |-> baseline.eligible, affected |-> affected,
                         post |-> work ]
            /\ mine' = [ f \in Files |-> "nothing" ]
       ELSE UNCHANGED << meta, mine >>
    /\ UNCHANGED << git, work, baseline, affected, todo, result, start, count >>

\* The commit of a reply saves a checkpoint without the baseline.
Continue ==
    /\ pc = "waiting" /\ pc' = "running"
    /\ baseline' \in { baseline, [ baseline EXCEPT !.saved = FALSE ] }
    /\ UNCHANGED << git, work, affected, meta, todo, result, start, mine, count >>

\* A run that goes on after a restart has the baseline of its checkpoint.
Crash ==
    /\ pc \in { "running", "paused", "over", "waiting", "applying" }
    /\ Count("crashes", MaxCrashes)
    /\ baseline' = [ baseline EXCEPT !.known = baseline.saved ]
    /\ pc' = CASE pc \in { "over", "applying" } -> "ended" [] pc = "paused" -> "waiting"
               [] OTHER -> pc
    /\ todo' = [ f \in Files |-> "skip" ]
    /\ UNCHANGED << git, work, affected, meta, result, start, mine >>

-----------------------------------------------------------------------------
(* The rollback *)

(* A plausible bug: the recorded contents are only looked at in untracked    *)
(* files.                                                                    *)
PathActionOfTracked(f) ==
    CASE Staged(f) -> "block"
      [] Tracked(f) /\ ~Staged(f) -> "restore"
      [] ~Tracked(f) /\ ~Staged(f) ->
            IF work[f] = "none" THEN "skip"
            ELSE IF work[f] # meta.post[f] THEN "block" ELSE "remove"

\* What is planned for an affected file: nothing happens to one that is staged or
\* differs from what rollback.json recorded.
PathAction(f) ==
    CASE Staged(f) -> "block"
      [] ~Staged(f) /\ work[f] # meta.post[f] ->
            IF Tracked(f) \/ work[f] # "none" THEN "block" ELSE "skip"
      [] ~Staged(f) /\ work[f] = meta.post[f] ->
            IF Tracked(f) THEN "restore" ELSE IF work[f] = "none" THEN "skip" ELSE "remove"

\* plan_run_rollback: one blocked file stops the whole rollback.
Plan ==
    /\ pc = "ended" /\ result = "none"
    /\ LET actions == [ f \in Files |-> IF f \in meta.affected THEN PathAction(f) ELSE "skip" ]
           Some(a) == \E f \in Files : actions[f] \in a
       IN  \/ /\ ~meta.eligible /\ result' = "not eligible" /\ UNCHANGED << pc, todo >>
           \/ /\ meta.eligible /\ Some({ "block" })
              /\ result' = "conflict" /\ UNCHANGED << pc, todo >>
           \/ /\ meta.eligible /\ ~Some({ "block", "restore", "remove" })
              /\ result' = "noop" /\ UNCHANGED << pc, todo >>
           \/ /\ meta.eligible /\ ~Some({ "block" }) /\ Some({ "restore", "remove" })
              /\ pc' = "applying" /\ todo' = actions /\ UNCHANGED result
    /\ UNCHANGED << git, work, baseline, affected, meta, start, mine, count >>

\* revert_run_changes: git restores from the index; it fails for a file that is no
\* longer tracked, and the rollback stops there.
Apply(f) ==
    /\ pc = "applying" /\ todo[f] \in { "restore", "remove" }
    /\ todo' = [ todo EXCEPT ![f] = "skip" ]
    /\ \/ /\ todo[f] = "restore" /\ Tracked(f)
          /\ work' = [ work EXCEPT ![f] = index[f] ] /\ UNCHANGED << pc, result >>
       \/ /\ todo[f] = "remove"
          /\ work' = [ work EXCEPT ![f] = "none" ] /\ UNCHANGED << pc, result >>
       \/ /\ todo[f] = "restore" /\ ~Tracked(f)
          /\ pc' = "ended" /\ result' = "conflict" /\ UNCHANGED work
    /\ UNCHANGED << git, baseline, affected, meta, start, mine, count >>

Reverted ==
    /\ pc = "applying" /\ \A f \in Files : todo[f] = "skip"
    /\ pc' = "ended" /\ result' = "reverted"
    /\ UNCHANGED << git, work, baseline, affected, meta, todo, start, mine, count >>

-----------------------------------------------------------------------------
Next ==
    \/ \E f \in Files : Edit(f) \/ Add(f) \/ Write(f) \/ Apply(f)
    \/ GitCommit \/ Prepare \/ Stop \/ Record \/ Continue \/ Crash \/ Plan \/ Reverted
Spec == Init /\ [][Next]_rollbackVars

TypeOK ==
    /\ { head, index, work, start.work, start.head } \subseteq [ Files -> Contents ]
    /\ ignored \subseteq Files /\ affected \subseteq Files
    /\ pc \in { "idle", "running", "paused", "over", "waiting", "ended", "applying" }
    /\ todo \in [ Files -> { "skip", "restore", "remove" } ]
    /\ mine \in [ Files -> { "nothing", "meddled", "none", "user" } ]
    /\ result \in { "none", "not eligible", "conflict", "noop", "reverted" }

(* A rollback never touches what the user made of a file after the run was   *)
(* recorded, unless he does so while it is under way; and when it reports    *)
(* that it reverted the run, an affected file that git does not ignore and   *)
(* that no commit has changed since is as it was before the run, also where  *)
(* that was not what the commit had (plan_run_rollback, revert_run_changes,  *)
(* capture_git_baseline).                                                    *)
RollbackRestores ==
    /\ \A f \in Files : mine[f] \in { "none", "user" } => work[f] = mine[f]
    /\ result = "reverted" =>
          \A f \in meta.affected \ ignored :
             mine[f] = "nothing" /\ head[f] = start.head[f] => work[f] = start.work[f]

=============================================================================
