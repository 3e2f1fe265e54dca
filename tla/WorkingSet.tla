------------------------------ MODULE WorkingSet ------------------------------
(***************************************************************************)
(* How current the context says its files and evidence are                 *)
(* (sessions/context/state.py): tool results are observed when the next    *)
(* model call is prepared, and files change by tools, by commands that do  *)
(* not say so, and by the user, who also commits.  A file is tracked, not   *)
(* yet tracked, or not listed by git status at all.                        *)
(***************************************************************************)
EXTENDS Naturals, Sequences, FiniteSets, SequencesExt

CONSTANTS Files,
          MaxEvidence,                      \* evidence that is kept (80)
          MaxResults, MaxChanges            \* bounds

VARIABLES disk,         \* text of every file in the tree
          head,         \* and in git's HEAD, if it is there
          commits,      \* commits of the user
          results,      \* tool results, oldest first
          observed,     \* how many of them the state has taken in
          evidence,     \* what it keeps of them
          active,       \* hash and freshness of the active files
          last,         \* the repository as it was when last looked at
          reported,     \* the report of prepare() is about this moment
          changes

setVars == << disk, head, commits, results, observed, evidence, active, last, reported,
              changes >>

Gone == 0
NoHash == 0
Unlisted == 1    \* in head: git ignores the file, or lists only its directory
Text == 2        \* the first text of a file
Unseen == [ status |-> [ f \in Files |-> "unseen" ], hashes |-> [ f \in Files |-> NoHash ],
            commits |-> 0 ]
Inactive == [ hash |-> NoHash, fresh |-> "none" ]

Init ==
    /\ disk = [ f \in Files |-> Text ] /\ head \in [ Files -> { Text, Gone, Unlisted } ]
    /\ commits = 0
    /\ results = << >> /\ observed = 0 /\ evidence = << >>
    /\ active = [ f \in Files |-> Inactive ] /\ last = Unseen /\ reported = FALSE
    /\ changes = 0

-----------------------------------------------------------------------------
(* The repository *)

\* git status, with the hashes of the files in it, and HEAD.
Repository ==
    [ status |-> [ f \in Files |-> IF disk[f] = head[f] \/ head[f] = Unlisted THEN "clean"
                                   ELSE IF head[f] = Gone THEN "untracked"
                                   ELSE IF disk[f] = Gone THEN "deleted" ELSE "modified" ],
      hashes |-> [ f \in Files |-> IF disk[f] = head[f] \/ head[f] = Unlisted
                                   THEN NoHash ELSE disk[f] ],
      commits |-> commits ]

Untracked(new) == { f \in Files : new.status[f] = "untracked" }

(* A plausible bug: only the letters of git status are compared.             *)
ModifiedByStatus(old, new) ==
    { f \in Files : new.status[f] \notin { "clean", "untracked" } /\ old.status[f] # new.status[f] }

\* Tracked files in the new status whose status or hash is not the old one; a file
\* that has left the status is not among them, nor is one that is not tracked.
Modified(old, new) ==
    { f \in Files : /\ new.status[f] \notin { "clean", "untracked" }
                    /\ old.status[f] # new.status[f] \/ old.hashes[f] # new.hashes[f] }

Deleted(new) == { f \in Files : new.status[f] = "deleted" }

-----------------------------------------------------------------------------
(* Evidence *)

\* invalidate_paths compares names: the evidence of a read has the path of its file, that
\* of an edit the URI, so each is met by what names files in the same way.
Invalid(items, kind, files) ==
    [ n \in DOMAIN items |-> IF items[n].kind = kind /\ items[n].file \in files
                             THEN [ items[n] EXCEPT !.fresh = FALSE ] ELSE items[n] ]

UnverifiedIn(items) ==
    [ n \in DOMAIN items |-> IF items[n].kind = "verification"
                             THEN [ items[n] EXCEPT !.fresh = FALSE ] ELSE items[n] ]

Kind(tool) == CASE tool = "edit" -> "mutation" [] tool = "check" -> "verification"
                [] OTHER -> "observation"

Evidence(index) ==
    [ at |-> index, kind |-> Kind(results[index].tool), file |-> results[index].file,
      fresh |-> TRUE, print |-> Repository, tree |-> disk ]

Stalest(items) == IF Len(items) > MaxEvidence THEN Tail(items) ELSE items

\* One result more: a change it reports, by its URI, makes earlier edits of the same
\* file and every verification history.
ObserveEvidence(items, index) ==
    LET r == results[index]
        known == IF r.tool = "edit" THEN UnverifiedIn(Invalid(items, "mutation", { r.file })) ELSE items
    IN  Stalest(Append(known, Evidence(index)))

\* touch_file for the path of a read.  (An edit has an entry of its own under its URI,
\* which names no file: it is always shown as missing, and left out here.)
ObserveFile(files, index) ==
    LET r == results[index]
    IN  IF r.tool = "read"
        THEN [ files EXCEPT ![r.file] = [ hash |-> r.hash, fresh |-> "fresh" ] ] ELSE files

\* All of them that are new, one after the other.
ObserveAll(items, files) ==
    LET seen[n \in observed..Len(results)] ==
          IF n = observed THEN [ items |-> items, files |-> files ]
          ELSE [ items |-> ObserveEvidence(seen[n - 1].items, n),
                 files |-> ObserveFile(seen[n - 1].files, n) ]
    IN  seen[Len(results)]

\* refresh_freshness() looks at the files themselves.
Freshness(f, a) ==
    IF a = Inactive THEN a
    ELSE IF disk[f] = Gone THEN [ a EXCEPT !.fresh = "missing" ]
    ELSE IF a.hash = NoHash THEN [ a EXCEPT !.fresh = "unknown" ]
    ELSE [ a EXCEPT !.fresh = IF a.hash = disk[f] THEN "fresh" ELSE "stale" ]

Outdated(items) ==
    [ n \in DOMAIN items |->
        IF items[n].kind = "verification" /\ items[n].print # Repository
        THEN [ items[n] EXCEPT !.fresh = FALSE ] ELSE items[n] ]

-----------------------------------------------------------------------------
(* prepare() *)

\* What has changed in the repository (a file that is not tracked counts as added every
\* time), then what the tools have reported, then how the files are now.
Prepare ==
    LET touched == IF last = Unseen THEN { } ELSE Modified(last, Repository) \cup Deleted(Repository)
        changed == /\ last # Unseen
                   /\ touched # { } \/ Untracked(Repository) # { } \/ last.commits # commits
        before == IF changed THEN UnverifiedIn(Invalid(evidence, "observation", touched))
                  ELSE evidence
        seen == ObserveAll(before, active)
    IN  /\ ~reported
        /\ evidence' = Outdated(seen.items)
        /\ active' = [ f \in Files |-> Freshness(f, seen.files[f]) ]
        /\ observed' = Len(results) /\ last' = Repository /\ reported' = TRUE
        /\ UNCHANGED << disk, head, commits, results, changes >>

-----------------------------------------------------------------------------
(* Tools and the user *)

Result(tool, f) ==
    /\ Len(results) < MaxResults
    /\ results' = Append(results, [ tool |-> tool, file |-> f,
                                    hash |-> IF tool = "read" THEN disk[f] ELSE NoHash ])
    /\ reported' = FALSE
    /\ UNCHANGED << head, commits, observed, evidence, active, last >>

NewText(f) ==
    /\ changes < MaxChanges /\ changes' = changes + 1
    /\ disk' = [ disk EXCEPT ![f] = Text + changes + 1 ]

ReadFile(f) == disk[f] # Gone /\ Result("read", f) /\ UNCHANGED << disk, changes >>
EditFile(f) == Result("edit", f) /\ NewText(f)
RunCheck == Result("check", "none") /\ UNCHANGED << disk, changes >>
RunCommand(f) == Result("shell", "none") /\ NewText(f)   \* it does not say what it changed

Outside == reported' = FALSE /\ UNCHANGED << results, observed, evidence, active, last >>
UserEdits(f) == NewText(f) /\ Outside /\ UNCHANGED << head, commits >>
UserReverts(f) ==
    /\ head[f] \notin { Gone, Unlisted, disk[f] } /\ disk' = [ disk EXCEPT ![f] = head[f] ]
    /\ Outside /\ UNCHANGED << head, commits, changes >>
UserDeletes(f) ==
    /\ changes < MaxChanges /\ changes' = changes + 1
    /\ disk[f] # Gone /\ disk' = [ disk EXCEPT ![f] = Gone ]
    /\ Outside /\ UNCHANGED << head, commits >>
UserCommits ==
    /\ \E f \in Files : head[f] \notin { Unlisted, disk[f] }
    /\ head' = [ f \in Files |-> IF head[f] = Unlisted THEN Unlisted ELSE disk[f] ]
    /\ commits' = commits + 1
    /\ Outside /\ UNCHANGED << disk, changes >>

\* The state is in memory only: all results are observed anew.
Restart ==
    /\ observed' = 0 /\ evidence' = << >> /\ active' = [ f \in Files |-> Inactive ]
    /\ last' = Unseen /\ reported' = FALSE
    /\ UNCHANGED << disk, head, commits, results, changes >>

Next ==
    \/ Prepare \/ RunCheck \/ UserCommits \/ Restart
    \/ \E f \in Files : \/ ReadFile(f) \/ EditFile(f) \/ RunCommand(f)
                        \/ UserEdits(f) \/ UserReverts(f) \/ UserDeletes(f)

Spec == Init /\ [][Next]_setVars

-----------------------------------------------------------------------------
(* Properties *)

TypeOK ==
    /\ observed \in 0..Len(results) /\ Len(evidence) <= MaxEvidence
    /\ \A f \in Files : active[f].fresh \in { "none", "unknown", "fresh", "stale", "missing" }
    /\ reported \in BOOLEAN

ReportsChange(from, f) ==
    \E n \in (from + 1)..Len(results) : results[n].tool = "edit" /\ (results[n].file = f \/ f = "none")

(* What a report calls fresh is: an active file has the text that was read;  *)
(* after a check that is shown as fresh no tool has reported a change, and   *)
(* the tree is as it was when its result was observed, as far as git lists   *)
(* it; an edit is the last that was reported of its file; and what was read  *)
(* of a tracked file is what it is, as long as the file differs from HEAD    *)
(* (observe_tool_result, compare_snapshots, refresh_freshness).              *)
FreshIsCurrent ==
    reported =>
        /\ \A f \in Files : /\ active[f].fresh = "fresh" => active[f].hash = disk[f]
                            /\ active[f].fresh = "missing" <=> active[f] # Inactive /\ disk[f] = Gone
        /\ \A e \in Range(evidence) : e.fresh =>
             /\ e.kind = "verification" =>
                  /\ ~ReportsChange(e.at, "none")
                  /\ \A f \in Files : head[f] # Unlisted => e.tree[f] = disk[f]
             /\ e.kind = "mutation" => ~ReportsChange(e.at, e.file)
             /\ e.kind = "observation" /\ e.file # "none"
                  /\ head[e.file] \notin { Gone, Unlisted, disk[e.file] } =>
                     e.tree[e.file] = disk[e.file]
=============================================================================
