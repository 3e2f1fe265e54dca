------------------------------ MODULE FileEdits ------------------------------
(***************************************************************************)
(* The file tools that change the workspace (tools/builtins/files.py):     *)
(* write, edit and apply_patch, with I/O errors at every write.  A text is *)
(* a sequence of words; reading forgets whether its lines end in CR LF, and *)
(* writing ends them in LF.                                                *)
(***************************************************************************)
EXTENDS Naturals, Sequences, FiniteSets, SequencesExt

CONSTANTS Paths, Words, MaxText, MaxEdits, MaxOps, MaxErrors

VARIABLES file,      \* every file's text and line ends
          op,        \* the tool call that is being carried out
          before,    \* the files when it began
          reported,  \* files in its reported write effects
          outcome,   \* how it ended
          spoiled,   \* files that an I/O error left truncated or could not restore
          budget     \* calls and errors that are left

FileTexts == UNION { [ 1..n -> Words ] : n \in 0..MaxText }
Edits == [ path : Paths, old : Words, new : Words ]
NoHash == [ text |-> << "no hash" >>, crlf |-> FALSE ]
Refused == << "refused" >>
Idle == [ kind |-> "none", staged |-> << >>, temps |-> { }, replaced |-> << >> ]

Init ==
    /\ file \in [ Paths -> { [ text |-> t, crlf |-> c ] : t \in { << >> } \cup [ 1..2 -> Words ],
                                                         c \in BOOLEAN } ]
    /\ op = Idle /\ before = file /\ reported = { } /\ outcome = "none" /\ spoiled = { }
    /\ budget = [ ops |-> MaxOps, errors |-> MaxErrors ]

-----------------------------------------------------------------------------
(* Texts *)

Count(text, w) == Cardinality({ i \in DOMAIN text : text[i] = w })
Nth(text, w, n) ==
    CHOOSE i \in DOMAIN text : text[i] = w /\ Count(SubSeq(text, 1, i), w) = n
SetNth(text, w, new, n) == [ text EXCEPT ![Nth(text, w, n)] = new ]
SetAll(text, w, new) == [ i \in DOMAIN text |-> IF text[i] = w THEN new ELSE text[i] ]

Written(text) == [ text |-> text, crlf |-> FALSE ]

-----------------------------------------------------------------------------
(* write and edit: one file, written in place *)

Refuse ==
    /\ outcome' = "failed" /\ reported' = { } /\ spoiled' = { } /\ UNCHANGED file
    /\ budget' = [ budget EXCEPT !.ops = @ - 1 ]

\* The new text is written if it differs from what was read; an error in the
\* middle leaves the file truncated, and no effect is reported.
WriteInPlace(p, text) ==
    \/ /\ file' = IF text # file[p].text THEN [ file EXCEPT ![p] = Written(text) ] ELSE file
       /\ reported' = IF text # file[p].text THEN { p } ELSE { }
       /\ outcome' = "ok" /\ spoiled' = { }
       /\ budget' = [ budget EXCEPT !.ops = @ - 1 ]
    \/ /\ text # file[p].text /\ budget.errors > 0
       /\ file' = [ file EXCEPT ![p] = Written(<< >>) ]
       /\ reported' = { } /\ outcome' = "failed" /\ spoiled' = { p }
       /\ budget' = [ ops |-> budget.ops - 1, errors |-> budget.errors - 1 ]

WriteFile(p, text) ==
    /\ op = Idle /\ budget.ops > 0 /\ before' = file
    /\ WriteInPlace(p, text)
    /\ UNCHANGED op

\* The hash that read gives is that of the bytes, the one that edit compares with is
\* that of the text, so the hash of a file with CR LF never fits.
HashFits(p, seen) == seen = NoHash \/ (~seen.crlf /\ seen.text = file[p].text)

\* _edit: all matches, the n-th one, or the only one.
Edited(text, old, new, mode) ==
    LET n == Count(text, old)
    IN  CASE mode.kind = "all"    -> IF n > 0 THEN SetAll(text, old, new) ELSE Refused
          [] mode.kind = "unique" -> IF n = 1 THEN SetNth(text, old, new, 1) ELSE Refused
          [] mode.kind = "nth"    -> IF mode.n <= n THEN SetNth(text, old, new, mode.n)
                                     ELSE Refused

EditFile(p, old, new, mode, seen) ==
    /\ op = Idle /\ budget.ops > 0 /\ before' = file
    /\ LET updated == Edited(file[p].text, old, new, mode)
       IN  IF HashFits(p, seen) /\ updated # Refused
           THEN WriteInPlace(p, updated)
           ELSE Refuse
    /\ UNCHANGED op

-----------------------------------------------------------------------------
(* apply_patch: all edits are tried on the texts, then the files are replaced *)

\* The texts after one more edit, which must match exactly once in what the edits before
\* it made of the file.
StagedBy(texts, e) ==
    IF texts # << >> /\ Count(texts[e.path], e.old) = 1
    THEN [ texts EXCEPT ![e.path] = SetNth(@, e.old, e.new, 1) ]
    ELSE << >>

Staged(edits) ==
    LET texts[n \in 0..Len(edits)] ==
          IF n = 0 THEN [ p \in Paths |-> file[p].text ] ELSE StagedBy(texts[n - 1], edits[n])
    IN  texts[Len(edits)]

BeginPatch(edits) ==
    /\ op = Idle /\ budget.ops > 0 /\ before' = file
    /\ IF Staged(edits) = << >>
       THEN Refuse /\ UNCHANGED op
       ELSE /\ op' = [ kind |-> "temps", staged |-> Staged(edits),
                       temps |-> { e.path : e \in Range(edits) }, replaced |-> << >> ]
            /\ budget' = [ budget EXCEPT !.ops = @ - 1 ]
            /\ reported' = { } /\ outcome' = "none" /\ spoiled' = { } /\ UNCHANGED file

\* Temporary files for all changed paths; an error removes them.
WriteTemps ==
    /\ op.kind = "temps"
    /\ \/ op' = [ op EXCEPT !.kind = "replace" ] /\ UNCHANGED << outcome, budget >>
       \/ /\ budget.errors > 0 /\ budget' = [ budget EXCEPT !.errors = @ - 1 ]
          /\ op' = Idle /\ outcome' = "failed"
    /\ UNCHANGED << file, before, reported, spoiled >>

ReplaceNext(p) ==
    /\ op.kind = "replace" /\ p \in op.temps
    /\ file' = [ file EXCEPT ![p] = Written(op.staged[p]) ]
    /\ op' = [ op EXCEPT !.temps = @ \ { p }, !.replaced = Append(@, p) ]
    /\ UNCHANGED << before, reported, outcome, spoiled, budget >>

\* A plausible bug: what was replaced is left.
ReplaceFailsWithoutRestore ==
    /\ op.kind = "replace" /\ op.temps # { }
    /\ budget.errors > 0 /\ budget' = [ budget EXCEPT !.errors = @ - 1 ]
    /\ op' = Idle /\ outcome' = "failed"
    /\ UNCHANGED << file, before, reported, spoiled >>

ReplaceFails ==
    /\ op.kind = "replace" /\ op.temps # { }
    /\ budget.errors > 0 /\ budget' = [ budget EXCEPT !.errors = @ - 1 ]
    /\ op' = [ op EXCEPT !.kind = "restore" ]
    /\ UNCHANGED << file, before, reported, outcome, spoiled >>

\* The texts that were read are written back in reverse order; a file that cannot
\* be restored is named in the error.
RestoreLast ==
    /\ op.kind = "restore" /\ op.replaced # << >>
    /\ op' = [ op EXCEPT !.replaced = Front(@) ]
    /\ LET p == Last(op.replaced)
       IN  \/ file' = [ file EXCEPT ![p] = Written(before[p].text) ] /\ UNCHANGED << spoiled, budget >>
           \/ /\ budget.errors > 0 /\ budget' = [ budget EXCEPT !.errors = @ - 1 ]
              /\ spoiled' = spoiled \cup { p } /\ UNCHANGED file
    /\ UNCHANGED << before, reported, outcome >>

EndPatch ==
    /\ \/ /\ op.kind = "replace" /\ op.temps = { }
          /\ outcome' = "ok" /\ reported' = Range(op.replaced)
       \/ /\ op.kind = "restore" /\ op.replaced = << >>
          /\ outcome' = "failed" /\ UNCHANGED reported
    /\ op' = Idle
    /\ UNCHANGED << file, before, spoiled, budget >>

-----------------------------------------------------------------------------
EditModes == { [ kind |-> k, n |-> 0 ] : k \in { "all", "unique" } }
         \cup { [ kind |-> "nth", n |-> n ] : n \in 1..MaxText }
Patches == UNION { [ 1..n -> Edits ] : n \in 1..MaxEdits }

Next ==
    \/ \E p \in Paths, text \in FileTexts : WriteFile(p, text)
    \/ \E p \in Paths, old \in Words, new \in Words, mode \in EditModes :
         \E seen \in { NoHash, file[p], before[p] } : EditFile(p, old, new, mode, seen)
    \/ \E edits \in Patches : BeginPatch(edits)
    \/ WriteTemps \/ (\E p \in Paths : ReplaceNext(p)) \/ ReplaceFails \/ RestoreLast \/ EndPatch

editVars == << file, op, before, reported, outcome, spoiled, budget >>
Spec == Init /\ [][Next]_editVars

TypeOK ==
    /\ \A p \in Paths : file[p].text \in FileTexts /\ file[p].crlf \in BOOLEAN
    /\ op.kind \in { "none", "temps", "replace", "restore" } /\ op.temps \subseteq Paths
    /\ reported \subseteq Paths /\ spoiled \subseteq Paths
    /\ outcome \in { "none", "ok", "failed" }

Changed == { p \in Paths : file[p] # before[p] }

(* A call that succeeds reports every file it changed; one that fails leaves *)
(* every text as it was, but for the files that an error in the middle of a  *)
(* write or of the restoration spoiled; between calls no temporary file or   *)
(* half of a patch is left (_write, _edit, _replace_files_atomically).       *)
EditsAreHonest ==
    op = Idle =>
        /\ outcome = "ok" => Changed \subseteq reported
        /\ outcome = "failed" => \A p \in Paths \ spoiled : file[p].text = before[p].text
=============================================================================
