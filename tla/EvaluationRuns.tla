---------------------------- MODULE EvaluationRuns ----------------------------
(***************************************************************************)
(* An evaluation suite (evaluation/runner.py): every case is carried out in *)
(* a copy of its fixture, by one session, step by step; its verdict and its *)
(* artifacts are written, its copy is kept or removed, and the suite ends   *)
(* with a summary.  A case of context compression is carried out twice.     *)
(***************************************************************************)
EXTENDS Naturals, Sequences, FiniteSets, SequencesExt

CONSTANT Suite   \* the cases that are left after the filter: how many variants each has,
                 \* and the kinds of the steps

Policies == { "all", "failed", "none" }

VARIABLES policy,    \* options.workspace_policy
          pc,        \* where the suite is
          at,        \* case, variant and step
          session,   \* the session of the variant; "asks" waits for an approval
          checks,    \* what the checks of the variant gave
          verdicts,  \* of the variants of this case
          spaces,    \* workspaces that exist
          stuck,     \* workspaces whose removal failed
          rows,      \* verdicts of the cases whose artifacts are written
          summary,
          wrong      \* variants in which a step failed

evaluationVars == << policy, pc, at, session, checks, verdicts, spaces, stuck, rows, summary,
                     wrong >>

Cases == DOMAIN Suite
Variants(c) == 1..Suite[c].variants
Steps == Suite[at.case].steps
Here == << at.case, at.variant >>
NoSummary == [ total |-> 0, passed |-> 0 ]

Init ==
    /\ policy \in Policies
    /\ pc = IF Suite = << >> THEN "summarize" ELSE "prepare"
    /\ at = [ case |-> 1, variant |-> 1, step |-> 1 ]
    /\ session = "none" /\ checks = { } /\ verdicts = << >>
    /\ spaces = { } /\ stuck = { } /\ rows = << >> /\ summary = NoSummary /\ wrong = { }

-----------------------------------------------------------------------------
(* One variant *)

\* The copy of the fixture, its setup, its memories and its git repository.
Prepare ==
    /\ pc = "prepare" /\ pc' = "steps"
    /\ spaces' = spaces \cup { Here } /\ session' = "free" /\ checks' = { }
    /\ UNCHANGED << policy, at, verdicts, stuck, rows, summary, wrong >>

\* Nothing catches an exception here: the suite is over, and half a copy may be left.
PrepareFails ==
    /\ pc = "prepare" /\ pc' = "aborted"
    /\ spaces' \in { spaces, spaces \cup { Here } }
    /\ UNCHANGED << policy, at, session, checks, verdicts, stuck, rows, summary, wrong >>

Doing(kind) == pc = "steps" /\ at.step \in DOMAIN Steps /\ Steps[at.step] = kind
Done == at' = [ at EXCEPT !.step = @ + 1 ]
Unjudged == UNCHANGED << policy, pc, verdicts, spaces, stuck, rows, summary >>

\* The run finishes or pauses; a run that pauses, fails or is cancelled is no error.
Prompt ==
    /\ Doing("prompt") /\ session = "free" /\ Done
    /\ session' \in { "free", "asks" }
    /\ UNCHANGED << checks, wrong >> /\ Unjudged

\* modify_file, or restart, which opens the session again.
Change ==
    /\ Doing("restart") \/ Doing("edit")
    /\ Done /\ UNCHANGED << session, checks, wrong >> /\ Unjudged

Check ==
    /\ Doing("check") /\ Done
    /\ \E passed \in BOOLEAN :
         /\ checks' = checks \cup { passed }
         /\ wrong' = IF passed THEN wrong ELSE wrong \cup { Here }
    /\ UNCHANGED session /\ Unjudged

(* A plausible bug: an error is noted, and is no check that failed.           *)
RaiseUnchecked ==
    /\ pc = "steps" /\ at.step \in DOMAIN Steps
    /\ at' = [ at EXCEPT !.step = Len(Steps) + 1 ] /\ UNCHANGED checks
    /\ wrong' = wrong \cup { Here } /\ UNCHANGED session /\ Unjudged

\* A FailedFrame or an exception ends the steps and counts as a check that failed.  A
\* prompt to a session that waits for an approval always fails.
Raise ==
    /\ pc = "steps" /\ at.step \in DOMAIN Steps
    /\ at' = [ at EXCEPT !.step = Len(Steps) + 1 ] /\ checks' = checks \cup { FALSE }
    /\ wrong' = wrong \cup { Here } /\ UNCHANGED session /\ Unjudged

EndVariant ==
    /\ pc = "steps" /\ at.step \notin DOMAIN Steps
    /\ verdicts' = Append(verdicts, FALSE \notin checks)
    /\ IF at.variant + 1 \in Variants(at.case)
       THEN pc' = "prepare" /\ at' = [ at EXCEPT !.variant = @ + 1, !.step = 1 ]
       ELSE pc' = "record" /\ UNCHANGED at
    /\ session' = "none"
    /\ UNCHANGED << policy, checks, spaces, stuck, rows, summary, wrong >>

-----------------------------------------------------------------------------
(* The case and the suite *)

\* Evidence, scores and the case's files.
Record ==
    /\ pc = "record" /\ pc' = "clean"
    /\ rows' = Append(rows, FALSE \notin Range(verdicts))
    /\ UNCHANGED << policy, at, session, checks, verdicts, spaces, stuck, summary, wrong >>

Keeps(passed) == policy = "all" \/ (policy = "failed" /\ ~passed)

\* Each variant's own verdict decides; an error of the removal is ignored.
CleanUp ==
    /\ pc = "clean"
    /\ \E left \in SUBSET { << at.case, v >> : v \in { w \in Variants(at.case) :
                                                        ~Keeps(verdicts[w]) } } :
         /\ spaces' = { s \in spaces : s[1] # at.case \/ Keeps(verdicts[s[2]]) \/ s \in left }
         /\ stuck' = stuck \cup left
    /\ IF at.case + 1 \in Cases
       THEN pc' = "prepare" /\ at' = [ case |-> at.case + 1, variant |-> 1, step |-> 1 ]
       ELSE pc' = "summarize" /\ UNCHANGED at
    /\ verdicts' = << >>
    /\ UNCHANGED << policy, session, checks, rows, summary, wrong >>

Summarize ==
    /\ pc = "summarize" /\ pc' = "done"
    /\ summary' = [ total |-> Len(rows), passed |-> Cardinality({ c \in DOMAIN rows : rows[c] }) ]
    /\ UNCHANGED << policy, at, session, checks, verdicts, spaces, stuck, rows, wrong >>

\* An exception outside the steps, or an interruption anywhere.
Abort ==
    /\ pc \in { "steps", "record", "summarize" } /\ pc' = "aborted"
    /\ UNCHANGED << policy, at, session, checks, verdicts, spaces, stuck, rows, summary, wrong >>

Next ==
    \/ Prepare \/ PrepareFails \/ Prompt \/ Change \/ Check \/ Raise \/ EndVariant
    \/ Record \/ CleanUp \/ Summarize \/ Abort
Spec == Init /\ [][Next]_evaluationVars

-----------------------------------------------------------------------------
TypeOK ==
    /\ pc \in { "prepare", "steps", "record", "clean", "summarize", "done", "aborted" }
    /\ session \in { "none", "free", "asks" } /\ checks \subseteq BOOLEAN
    /\ rows \in Seq(BOOLEAN) /\ verdicts \in Seq(BOOLEAN)

Over(c) == c < at.case \/ pc \in { "summarize", "done" }

(* A case passes when no step of any of its variants failed; the copies that *)
(* are left are those the policy keeps, by each variant's own outcome, but    *)
(* for failed removals and the case a suite was cut off in; and a summary is  *)
(* of every case (run_case, _run_context_compression_case,                    *)
(* _cleanup_workspace, run_suite).                                            *)
SuiteIsHonest ==
    /\ \A c \in DOMAIN rows : rows[c] <=> \A v \in Variants(c) : << c, v >> \notin wrong
    /\ \A c \in Cases : Over(c) =>
         \A v \in Variants(c) :
            << c, v >> \in spaces <=> \/ << c, v >> \in stuck
                                     \/ Keeps(<< c, v >> \notin wrong)
    /\ \A s \in spaces : s[1] <= at.case
    /\ pc = "done" =>
         summary = [ total  |-> Len(Suite),
                     passed |-> Cardinality({ c \in Cases : \A v \in Variants(c) :
                                                 << c, v >> \notin wrong }) ]

=============================================================================
