----------------------------- MODULE MemoryRecords -----------------------------
(***************************************************************************)
(* Long-term memories (sessions/memory): what the user asks to remember,   *)
(* what a run proposes, the user's decisions about both, and recall. Every *)
(* change is one or several replacements of the file of a scope; a crash   *)
(* or a failing write may come between two of them.                        *)
(***************************************************************************)
EXTENDS Naturals, Sequences, FiniteSets, SequencesExt

CONSTANTS Texts,                  \* the user's note of a text has the text as its key
          Proposed,               \* the memories that runs propose
          Limit,                  \* recalled at once
          MaxRecords, MaxCuts     \* bounds

Secret == "secret"                \* what must not be remembered
None == "none"
Scopes == { "user", "project" }

VARIABLES records,   \* by id, the last row of each
          next,      \* ids are given once
          todo,      \* replacements the running command has yet to make
          word,      \* what the user last put into force for a key of a scope
          cut,       \* keys whose last command was cut short
          cuts

memoryVars == << records, next, todo, word, cut, cuts >>

Init ==
    /\ records = << >> /\ next = 1 /\ todo = << >>
    /\ word = [ s \in Scopes |-> [ k \in Texts |-> None ] ] /\ cut = { } /\ cuts = 0

-----------------------------------------------------------------------------
(* Records *)

ForKey(r) == { id \in DOMAIN records : records[id].scope = r.scope /\ records[id].key = r.key }
WithStatus(ids, statuses) == { id \in ids : records[id].status \in statuses }
Row(id, r) == [ id |-> id, record |-> r ]

Save(row) ==
    records' = [ id \in DOMAIN records \cup { row.id } |->
                   IF id = row.id THEN row.record ELSE records[id] ]

\* A command is the first of its replacements; the others follow.
Replace(rows) == Save(Head(rows)) /\ todo' = Tail(rows) /\ UNCHANGED cuts

\* What the user says of a key holds from now on.
Says(r, text) ==
    /\ word' = [ word EXCEPT ![r.scope][r.key] = text ]
    /\ cut' = cut \ { << r.scope, r.key >> }

Idle == todo = << >>

-----------------------------------------------------------------------------
(* Admission *)

\* The user's word makes a key's first memory; what a run proposes waits, also
\* beside a memory that is in force.
Accepted(p) ==
    LET current == WithStatus(ForKey(p), { "candidate", "active", "disabled" })
    IN  /\ p.text # Secret
        /\ ~(p.origin = "run" /\ p.type = "experience" /\ ~p.verified)
        /\ \A id \in current : records[id].text # p.text
        /\ WithStatus(current, { "candidate" }) = { }
        /\ p.origin = "user" => current = { }

Admitted(p) ==
    [ scope |-> p.scope, type |-> p.type, key |-> p.key, text |-> p.text,
      source |-> p.origin, status |-> IF p.origin = "user" THEN "active" ELSE "candidate" ]

\* One proposal is one replacement; those of a batch follow each other, and a
\* write that fails leaves the rest.
Admit(p) ==
    /\ Idle /\ Accepted(p)
    /\ next <= MaxRecords /\ next' = next + 1 /\ Save(Row(next, Admitted(p)))
    /\ IF p.origin = "user" THEN Says(p, p.text) ELSE UNCHANGED << word, cut >>
    /\ UNCHANGED << todo, cuts >>

\* "请记住 ...", and /memory add.
Remember(text) ==
    Admit([ scope |-> "project", type |-> "project", key |-> text, text |-> text,
            origin |-> "user", verified |-> TRUE ])

\* What a completed run proposes; other runs' proposals are dropped.
FinishRun(p, verified) ==
    Admit([ scope |-> p.scope, type |-> p.type, key |-> p.key, text |-> p.text,
            origin |-> "run", verified |-> verified ])

-----------------------------------------------------------------------------
(* Commands of the user *)

May(id, statuses) == Idle /\ id \in DOMAIN records /\ records[id].status \in statuses
To(id, status) == Row(id, [ records[id] EXCEPT !.status = status ])

(* A plausible bug: a disabled memory of the key is overlooked.              *)
ReplacedActive(id) == WithStatus(ForKey(records[id]), { "active" }) \ { id }

\* What approval puts out of force.
Replaced(id) == WithStatus(ForKey(records[id]), { "active", "disabled" }) \ { id }

Approve(id) ==
    /\ May(id, { "candidate" })
    /\ LET old == SetToSeq(Replaced(id))
           approved == [ records[id] EXCEPT !.status = "active", !.source = "user" ]
       IN  Replace([ n \in DOMAIN old |-> To(old[n], "superseded") ] \o << Row(id, approved) >>)
    /\ Says(records[id], records[id].text) /\ UNCHANGED next

Reject(id) ==
    /\ May(id, { "candidate" }) /\ Replace(<< To(id, "deleted") >>)
    /\ UNCHANGED << next, word, cut >>

\* A memory that was disabled comes into force with its new text.
Edit(id, text) ==
    /\ May(id, { "candidate", "active", "disabled" })
    /\ text \notin { Secret, records[id].text }
    /\ next <= MaxRecords /\ next' = next + 1
    /\ LET old == records[id]
           status == IF old.status = "candidate" THEN "candidate" ELSE "active"
       IN  /\ Replace(<< To(id, "superseded"),
                         Row(next, [ old EXCEPT !.text = text, !.source = "user", !.status = status ]) >>)
           /\ IF status = "active" THEN Says(old, text) ELSE UNCHANGED << word, cut >>

Disable(id) ==
    /\ May(id, { "active" }) /\ Replace(<< To(id, "disabled") >>)
    /\ Says(records[id], None) /\ UNCHANGED next

Enable(id) ==
    /\ May(id, { "disabled" })
    /\ WithStatus(ForKey(records[id]) \ { id }, { "active" }) = { }
    /\ Replace(<< To(id, "active") >>)
    /\ Says(records[id], records[id].text) /\ UNCHANGED next

\* Only the memory in force is what the user last said.
Withdraws(id) ==
    IF records[id].status = "active" THEN Says(records[id], None) ELSE UNCHANGED << word, cut >>

Delete(id) ==
    /\ May(id, { "candidate", "active", "disabled", "superseded" })
    /\ Replace(<< To(id, "deleted") >>) /\ Withdraws(id) /\ UNCHANGED next

\* All rows of any memory.
Purge(id) ==
    /\ Idle /\ id \in DOMAIN records
    /\ records' = [ other \in DOMAIN records \ { id } |-> records[other] ]
    /\ Withdraws(id) /\ UNCHANGED << next, todo, cuts >>

Command(id) ==
    \/ Approve(id) \/ Reject(id) \/ Disable(id) \/ Enable(id) \/ Delete(id) \/ Purge(id)
    \/ \E text \in Texts \cup { Secret } : Edit(id, text)

-----------------------------------------------------------------------------
(* The file *)

Continue ==
    /\ todo # << >> /\ Save(Head(todo)) /\ todo' = Tail(todo)
    /\ UNCHANGED << next, word, cut, cuts >>

\* The process stops, or a write fails: the file is as it was.
CutShort ==
    /\ ~Idle /\ cuts < MaxCuts /\ cuts' = cuts + 1
    /\ cut' = cut \cup { << row.record.scope, row.record.key >> : row \in Range(todo) }
    /\ todo' = << >> /\ UNCHANGED << records, next, word >>

Next ==
    \/ \E text \in Texts \cup { Secret } : Remember(text)
    \/ \E p \in Proposed, verified \in BOOLEAN : FinishRun(p, verified)
    \/ \E id \in DOMAIN records : Command(id)
    \/ Continue \/ CutShort

Spec == Init /\ [][Next]_memoryVars

-----------------------------------------------------------------------------
(* Recall *)

\* A memory of the user gives way to the project's of the same key, whether that
\* is relevant or not.
Visible ==
    LET active == WithStatus(DOMAIN records, { "active" })
    IN  { id \in active : \/ records[id].scope = "project"
                          \/ \A other \in active \cap ForKey([ scope |-> "project", key |-> records[id].key ]) : FALSE }

Score(id, hits) ==
    (IF records[id].type = "profile" THEN 40 ELSE 0) + (IF records[id].scope = "project" THEN 20 ELSE 0)
      + (IF records[id].text \in hits THEN 10 ELSE 0)

Relevant(hits) ==
    { id \in Visible : records[id].type = "profile" \/ records[id].text \in hits }

\* The best ones.
Recalled(hits) ==
    { id \in Relevant(hits) :
        Cardinality({ other \in Relevant(hits) :
            \/ Score(other, hits) > Score(id, hits)
            \/ Score(other, hits) = Score(id, hits) /\ other < id }) < Limit }

-----------------------------------------------------------------------------
(* Properties *)

TypeOK ==
    /\ \A id \in DOMAIN records : id < next /\ records[id].source \in { "user", "run" }
    /\ next \in 1..(MaxRecords + 1) /\ cuts <= MaxCuts

(* What is recalled is the user's last word. A key of a scope has at most    *)
(* one memory that is in force or disabled and one that waits for the user,  *)
(* also when a command was cut short between two replacements; the memory in *)
(* force is what the user last said, approved or enabled, nothing that a run *)
(* proposed or that the user withdrew, and it is there unless the command    *)
(* was cut short. A relevant memory is recalled once per key, the project's  *)
(* before the user's (MemoryService._ensure_invariants, recall).             *)
RecallIsTheUsersWord ==
    /\ \A s \in Scopes, k \in Texts :
         LET ids == ForKey([ scope |-> s, key |-> k ])
             active == WithStatus(ids, { "active" })
         IN  /\ Cardinality(WithStatus(ids, { "active", "disabled" })) <= 1
             /\ Cardinality(WithStatus(ids, { "candidate" })) <= 1
             /\ \A id \in active : records[id].text = word[s][k] /\ records[id].source = "user"
             /\ word[s][k] # None /\ todo = << >> /\ << s, k >> \notin cut => active # { }
    /\ \A id \in DOMAIN records : records[id].text # Secret
    /\ \A hits \in SUBSET Texts :
         /\ Cardinality(Recalled(hits)) <= Limit
         /\ \A id \in Recalled(hits), other \in WithStatus(DOMAIN records, { "active" }) :
              records[id].key = records[other].key =>
                id = other \/ (records[id].scope = "project" /\ records[other].scope = "user")
=============================================================================
