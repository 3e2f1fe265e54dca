----------------------------- MODULE SessionLogs -----------------------------
(***************************************************************************)
(* The files of a session (sessions/filesystem.py, repository.py): logs    *)
(* that grow line by line and a state file that is replaced as a whole.    *)
(* A write may stop anywhere, with the process or with an OSError that the *)
(* caller answers by trying again.                                         *)
(***************************************************************************)
EXTENDS Naturals, Sequences

CONSTANTS Records,    \* messages and events that are appended
          MaxFaults   \* bound of the interrupted writes

Logs == { "messages", "events", "run events" }

VARIABLES log,      \* lines of every log; the last one has no end yet
          stored,   \* records whose append has written them and returned, by log
          writing,  \* the append that is under way
          state,    \* state file, its temporary file and the value last saved
          writes    \* interrupted writes so far

\* A line is empty, the whole text of a record, or no text that can be parsed.
Empty == [ kind |-> "empty", record |-> 0 ]
Bad == [ kind |-> "bad", record |-> 0 ]
Whole(r) == [ kind |-> "whole", record |-> r ]
LogLines == { Empty, Bad } \cup { Whole(r) : r \in Records }

Nothing == [ file |-> "none", record |-> 0 ]

Init ==
    /\ log = [ f \in Logs |-> << Empty >> ] /\ stored = [ f \in Logs |-> { } ]
    /\ writing = Nothing
    /\ state = [ file |-> 0, temp |-> "none", saved |-> 0 ]
    /\ writes = 0

-----------------------------------------------------------------------------
(* Reading *)

\* read_jsonl raises for a bad line, except the last one without an end.
Readable(lines) == \A i \in 1..(Len(lines) - 1) : lines[i] # Bad

\* The places of the records that it returns.
Rows(lines) == { i \in DOMAIN lines : lines[i].kind = "whole" }
Given(lines) == { lines[i].record : i \in Rows(lines) }

-----------------------------------------------------------------------------
(* Appending *)

\* A text gets behind what the last line holds already; a line end begins another.
Behind(lines, text) ==
    [ lines EXCEPT ![Len(lines)] = IF @ = Empty THEN text ELSE Bad ]
Ended(lines) == Append(lines, Empty)

Idle == writing = Nothing

\* append_message reads the log first: an unreadable log refuses every message,
\* and a message that is there already is not written again.
AppendMessage(r) ==
    /\ Idle /\ Readable(log["messages"])
    /\ r \notin Given(log["messages"])
    /\ writing' = [ file |-> "messages", record |-> r ]
    /\ UNCHANGED << log, stored, state, writes >>

\* append_event writes the log of the session, then that of the run.
AppendEvent(r) ==
    /\ Idle /\ r \notin stored["events"]
    /\ writing' = [ file |-> "events", record |-> r ]
    /\ UNCHANGED << log, stored, state, writes >>

Written ==
    /\ ~Idle /\ writing.file # "state"
    /\ LET f == writing.file
       IN  /\ log' = [ log EXCEPT ![f] = Ended(Behind(@, Whole(writing.record))) ]
           /\ stored' = [ stored EXCEPT ![f] = @ \cup { writing.record } ]
           /\ writing' = IF f = "events" THEN [ writing EXCEPT !.file = "run events" ]
                         ELSE Nothing
    /\ UNCHANGED << state, writes >>

\* The process stops, or the disk is full, after any part of the line.
WriteCut ==
    /\ ~Idle /\ writing.file # "state" /\ writes < MaxFaults
    /\ writes' = writes + 1 /\ writing' = Nothing
    /\ LET lines == log[writing.file]
           whole == Behind(lines, Whole(writing.record))
       IN  \E cut \in { lines, Behind(lines, Bad), whole, Ended(whole) } :
             log' = [ log EXCEPT ![writing.file] = cut ]
    /\ UNCHANGED << stored, state >>

-----------------------------------------------------------------------------
(* Replacing *)

(* A plausible bug: the file is written in place.                            *)
SaveInPlace(v) ==
    /\ Idle /\ v > state.file
    /\ writing' = [ file |-> "state", record |-> v ]
    /\ state' = [ state EXCEPT !.file = 0, !.temp = "torn" ]
    /\ UNCHANGED << log, stored, writes >>

\* atomic_write_json: a temporary file, which is synced and renamed.
Save(v) ==
    /\ Idle /\ v > state.file
    /\ writing' = [ file |-> "state", record |-> v ]
    /\ state' = [ state EXCEPT !.temp = "torn" ]
    /\ UNCHANGED << log, stored, writes >>

Saved ==
    /\ writing.file = "state" /\ writing' = Nothing
    /\ state' = [ file |-> writing.record, temp |-> "none", saved |-> writing.record ]
    /\ UNCHANGED << log, stored, writes >>

\* An exception removes the temporary file, a crash leaves it; the rename may
\* have taken place.
SaveCut ==
    /\ writing.file = "state" /\ writes < MaxFaults
    /\ writes' = writes + 1 /\ writing' = Nothing
    /\ state' \in { [ state EXCEPT !.temp = "none" ], state,
                    [ state EXCEPT !.file = writing.record, !.temp = "none" ] }
    /\ UNCHANGED << log, stored >>

-----------------------------------------------------------------------------
Next ==
    \/ \E r \in Records : AppendMessage(r) \/ AppendEvent(r) \/ Save(r)
    \/ Written \/ WriteCut \/ Saved \/ SaveCut

logVars == << log, stored, writing, state, writes >>
Spec == Init /\ [][Next]_logVars

TypeOK ==
    /\ \A f \in Logs : log[f] \in Seq(LogLines) /\ log[f] # << >>
    /\ \A f \in Logs : stored[f] \subseteq Records
    /\ writing.file \in Logs \cup { "none", "state" } /\ writing.record \in Records \cup { 0 }
    /\ state.file \in Records \cup { 0 } /\ state.temp \in { "none", "torn" }

(* As long as a log can be read it gives every record that an append wrote,  *)
(* each once, whatever was cut off before, and the state file is at least    *)
(* what was saved last (read_jsonl, append_message, atomic_write_json).      *)
StoredIsRead ==
    /\ \A f \in Logs : Readable(log[f]) => stored[f] \subseteq Given(log[f])
    /\ Readable(log["messages"]) =>
         \A i, j \in Rows(log["messages"]) :
             log["messages"][i] = log["messages"][j] => i = j
    /\ state.file >= state.saved

(* filesystem.py:165 (read_jsonl): an incomplete last line that a crash left *)
(* is ignored when the log is read.                                          *)
LogsStayReadable == \A f \in Logs : Readable(log[f])
=============================================================================
