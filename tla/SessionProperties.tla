------------------------- MODULE SessionProperties --------------------------
(***************************************************************************)
(* What the session files promise, as properties of SessionStore.          *)
(***************************************************************************)
EXTENDS SessionStore

(* The ids of the message chain that ends in leaf (load_message_chain): no *)
(* set of ids has the leaf, has the parents of all its messages, and still *)
(* lacks one of them.                                                      *)
ChainIn(records, leaf) ==
  LET known == {m.id : m \in records} \cup {leaf}
  IN  {x \in (known \cup {m.parent : m \in records}) \ {NoMsg} :
         \A ids \in SUBSET (known \ {x}) :
           leaf \in ids
             => \E m \in records : m.id \in ids /\ m.parent \notin ids \cup {NoMsg}}

Chain(leaf) == ChainIn(log, leaf)

-----------------------------------------------------------------------------
(* Safety *)

(* A session never has two runs that are not finished, counting the run    *)
(* whose file was created but which session.json does not name yet: what   *)
(* the orphan check and the current_run_id check of begin_run are for.     *)
SingleActive ==
  \A r1, r2 \in RunIds : IsLive(runs[r1]) /\ IsLive(runs[r2]) => r1 = r2

(* A run that session.json does not name has never committed a boundary:   *)
(* only begin_run's own window leaves such a run behind, so repairing the  *)
(* admission (_reuse_begin_run) never rebinds a run with history elsewhere. *)
UnnamedRunIsFresh ==
  \A r \in RunIds :
    IsLive(runs[r]) /\ session.current # r
      => runs[r].status = "created" /\ runs[r].last = NoReq

(* Every message a chain walk can reach is in messages.jsonl: messages are *)
(* written before the run's cursor, the cursor before the session's leaf,  *)
(* whatever the crash point (load_message_chain raises otherwise).         *)
ChainClosed ==
  LET known == LoggedIds \cup {NoMsg}
  IN  /\ session.leaf \in known
      /\ \A r \in RunIds : runs[r].cursor \in known
      /\ \A m \in log : m.parent \in known

(* One record per message id: the check in append_message and the reuse of *)
(* ids by a retried commit never store a message twice.                    *)
MessageIdsUnique == \A m1, m2 \in log : m1.id = m2.id => m1 = m2

(* The current run's transcript contains the session's: session.json may   *)
(* lag behind run.json after a crash but is never on another branch.       *)
LeafNotAhead ==
  LET r == session.current
  IN  r # NoRun /\ session.leaf # NoMsg => session.leaf \in Chain(runs[r].cursor)

(* Nothing a finished run committed is lost from the conversation: its     *)
(* last message stays in the chain of the session's leaf, and the next     *)
(* runs are appended below it.                                             *)
TranscriptKept ==
  \A r \in RunIds :
    IsTerminal(runs[r]) /\ session.current # r
      => runs[r].cursor \in Chain(session.leaf)

(* A receipt event tells the truth: whenever the event log has a commit's  *)
(* receipt, run.json is past the committed revision and, if that commit is *)
(* still the run's last, session.json has reached its revision too; and    *)
(* the run's event file is never ahead of the session's.                   *)
ReceiptMeansDurable ==
  /\ runEvents \subseteq sessionEvents
  /\ \A e \in sessionEvents : e.tag \in CommitTags =>
       /\ runs[e.run].rev > e.rev
       /\ runs[e.run].last # NoReq /\ runs[e.run].last.req.id = e
            => session.rev >= runs[e.run].last.target

(* The adapter of an executing run is never stale between two boundaries,  *)
(* so its next commit cannot be refused for its revisions.                 *)
PortCurrent ==
  port # NoPort /\ call.pc = "idle" =>
    session = port.ses /\ runs[port.id] = port.run /\ session.current = port.id

(* Repeating a commit after an OSError is always safe: wherever the first  *)
(* attempt stopped, the second is either recognised as a repeat or still   *)
(* acceptable; the retry in the adapter never ends in a conflict.          *)
RetryNeverConflicts == call.pc = "retry" => Accepted(call.req)

(* Message ids derived from the commit id never collide with a different   *)
(* record, because a recovered run commits under a new revision; the one   *)
(* exception is a prepared tool resume that is attached again, which keeps *)
(* the revision it had before the crash.                                   *)
ConflictOnlyOnReattach ==
  call.pc = "message" /\ Clashes(NextMessage)
    => port # NoPort /\ port.run.prepared

(* The conversation of earlier runs survives every admission: a run that   *)
(* the session does not name has no history of its own to lose, and what a *)
(* finished run committed stays in the chain of the session.               *)
HistoryKept == TypeOK /\ UnnamedRunIsFresh /\ TranscriptKept

(* The files agree with each other at every crash point: references only   *)
(* point to stored messages, each stored once, the session's leaf is on    *)
(* the current run's branch, and a receipt announces what is durable       *)
(* (commit_run_boundary writes messages, run.json, session.json, receipt). *)
FilesConsistent ==
  ChainClosed /\ MessageIdsUnique /\ LeafNotAhead /\ ReceiptMeansDurable

(* The adapter may repeat a commit after any OSError: its cached revisions *)
(* are current, the repetition is accepted or recognised, and the message  *)
(* ids it derives clash with nothing but a reattached tool resume's.       *)
RetrySafe == PortCurrent /\ RetryNeverConflicts /\ ConflictOnlyOnReattach

-----------------------------------------------------------------------------
(* Steps *)

(* A finished run never changes again, in particular no retry, recovery or *)
(* late commit brings it back (_RUN_TRANSITIONS, commit_run_boundary).     *)
TerminalFrozen ==
  [][\A r \in RunIds : IsTerminal(runs[r]) => runs'[r] = runs[r]]_vars

(* Every write of run.json is the next revision and keeps the transcript:  *)
(* the old cursor stays in the chain of the new one.                       *)
RunsOnlyExtend ==
  [][\A r \in RunIds : runs'[r] # runs[r] =>
       /\ runs'[r].rev = runs[r].rev + 1
       /\ runs[r].cursor = NoMsg \/ runs[r].cursor \in Chain(runs'[r].cursor)]_vars
-----------------------------------------------------------------------------
(* Progress *)

(* A run whose admission was cut off between run.json and session.json is  *)
(* bound to its session in the end, by a prompt with the same request id.  *)
AdmissionRepaired ==
  \A r \in RunIds :
    IsLive(runs[r]) /\ session.current # r ~> session.current = r

(* Once the workspace stays as an active run's checkpoint has it, the run  *)
(* is executing again or finished in the end, whatever was interrupted (or *)
(* it has used up the revisions of the bound).  In a workspace that stays  *)
(* changed it is stuck: _ensure_workspace_recovery refuses to continue it. *)
ActiveRunRecovers ==
  <>[]WorkspaceAsRecorded =>
    \A r \in RunIds :
      IsLive(runs[r]) ~> port.id = r \/ ~IsLive(runs[r]) \/ runs[r].rev >= MaxRev

(* No interruption of the files is final: cut-off admissions are repaired, *)
(* also in a changed workspace, and active runs execute again once the     *)
(* workspace is as recorded, under retries of the same request.            *)
RunsRecover == AdmissionRepaired /\ ActiveRunRecovers

-----------------------------------------------------------------------------
(* A run as its callers see it: one transition per write of run.json.      *)
Ledger == INSTANCE SessionLedger WITH
  phase <- [r \in RunIds |-> runs[r].status],
  revision <- [r \in RunIds |-> runs[r].rev]

(* The file protocol implements the run lifecycle, however its writes are  *)
(* cut, repeated or repaired (validate_run_transition, begin_run).         *)
ImplementsLedger == Ledger!Spec

=============================================================================
