----------------------------- MODULE RemoteBridge -----------------------------
(***************************************************************************)
(* The DingTalk bridge (interfaces/dingtalk/bridge.py, transport.py): chat  *)
(* messages, which the service may deliver again, each handled by a task of *)
(* its own that streams replies; one of them at a time talks to the runtime.*)
(***************************************************************************)
EXTENDS Naturals, Sequences, FiniteSets, SequencesExt

CONSTANTS Prompts, Approvals,  \* message ids of prompts and of approvals
          MaxTracked,          \* message ids that are remembered
          MaxCopies,           \* deliveries of one message
          AllowDirty

VARIABLES tracked,    \* remembered ids, oldest first
          state,      \* "processing" or "completed" of a remembered id
          holder,     \* the message whose task holds the run lock, and its stage
          session,    \* what the session's run does, as the gateway has it
          dirty,      \* the working tree has uncommitted changes
          copies,     \* deliveries of a message so far
          sent,       \* dispatches to the runtime for a message
          excused     \* failures of a message's task, and ids that were forgotten

bridgeVars == << tracked, state, holder, session, dirty, copies, sent, excused >>

Messages == Prompts \cup Approvals
Free == [ msg |-> "none", stage |-> "none" ]

Init ==
    /\ tracked = << >> /\ state = [ m \in Messages |-> "none" ] /\ holder = Free
    /\ session = "none" /\ dirty \in BOOLEAN /\ copies = [ m \in Messages |-> 0 ]
    /\ sent = [ m \in Messages |-> 0 ] /\ excused = [ m \in Messages |-> 0 ]

-----------------------------------------------------------------------------
(* Message ids *)

\* _forget_message: the remembered ids without m.
Others(m) ==
    IF \E i \in DOMAIN tracked : tracked[i] = m
    THEN RemoveAt(tracked, CHOOSE i \in DOMAIN tracked : tracked[i] = m)
    ELSE tracked

\* _remember_message: the id moves to the end, the oldest ids are dropped whatever their
\* state is.
Remember(m, s) ==
    LET moved == Append(Others(m), m)
        lost == IF Len(moved) > MaxTracked THEN { Head(moved) } ELSE { }
    IN  /\ tracked' = IF lost = { } THEN moved ELSE Tail(moved)
        /\ state' = [ x \in Messages |-> IF x \in lost THEN "none" ELSE IF x = m THEN s ELSE state[x] ]
        /\ excused' = [ x \in Messages |-> IF x \in lost THEN excused[x] + 1 ELSE excused[x] ]

\* A plausible bug: only what was answered counts as a duplicate.
KnownIfCompleted(m) == state[m] = "completed"

Known(m) == state[m] # "none"

-----------------------------------------------------------------------------
(* Handling *)

Delivered(m) == copies[m] < MaxCopies /\ copies' = [ copies EXCEPT ![m] = @ + 1 ]

Duplicate(m) ==
    /\ Known(m) /\ Delivered(m)
    /\ UNCHANGED << tracked, state, holder, session, dirty, sent, excused >>

\* Refused with one reply: another run, a dirty tree, also for a prompt that answers a
\* question of the run, an approval without a session.
Refuse(m) ==
    /\ ~Known(m) /\ Delivered(m) /\ Remember(m, "completed")
    /\ \/ holder # Free
       \/ m \in Prompts /\ dirty /\ ~AllowDirty
       \/ m \in Approvals /\ session = "none"
    /\ UNCHANGED << holder, session, dirty, sent >>

\* The lock is taken without waiting; the session is opened, the reply that announces the
\* run is sent before it is dispatched.
Accept(m) ==
    /\ ~Known(m) /\ Delivered(m) /\ Remember(m, "processing")
    /\ holder = Free /\ holder' = [ msg |-> m, stage |-> "announcing" ]
    /\ m \in Prompts => ~dirty \/ AllowDirty
    /\ m \in Approvals => session # "none"
    /\ session' = IF session = "none" THEN "idle" ELSE session
    /\ UNCHANGED << dirty, sent >>

\* What the runtime does with the action is up to it: a prompt may be the answer to a
\* question, and an approval may be unknown.  A run that is still winding up refuses it.
Dispatch ==
    /\ holder.stage = "announcing"
    /\ \/ session # "winding" /\ session' = "running"
          /\ holder' = [ holder EXCEPT !.stage = "streaming" ]
       \/ session = "winding" /\ session' = session
          /\ holder' = [ holder EXCEPT !.stage = "refused" ]
    /\ sent' = [ sent EXCEPT ![holder.msg] = @ + 1 ]
    /\ UNCHANGED << tracked, state, dirty, copies, excused >>

\* What is left of the run when its frames are read no more: nothing, or it waits, or its
\* resources are released only when the generator of the frames is closed.
Left == IF session = "running" THEN { "idle", "asks", "approval", "winding" } ELSE { session }

\* The run ends, waits, fails or is cancelled (cancel does not take the lock); after a
\* failed frame nothing more is read.
Finish ==
    /\ holder.stage \in { "streaming", "refused" } /\ holder' = Free
    /\ Remember(holder.msg, "completed")
    /\ session' \in Left
    /\ UNCHANGED << dirty, copies, sent >>

\* An exception is answered with an error, and the message may come again.
Fail ==
    /\ holder # Free /\ holder' = Free
    /\ tracked' = Others(holder.msg)
    /\ state' = [ state EXCEPT ![holder.msg] = "none" ]
    /\ excused' = [ excused EXCEPT ![holder.msg] = @ + 1 ]
    /\ session' \in Left
    /\ UNCHANGED << dirty, copies, sent >>

\* A reply cannot be delivered: the transport drops the stream of replies; when the
\* generators are closed, the lock is freed before the frames of the run are closed.  The
\* message stays marked as being processed.
ReplyLost ==
    /\ holder # Free /\ holder' = Free
    /\ session' \in Left
    /\ UNCHANGED << tracked, state, dirty, copies, sent, excused >>

\* The generator of the frames is closed, and has released the resources of the run.
WindUp ==
    /\ session = "winding" /\ session' = "idle"
    /\ UNCHANGED << tracked, state, holder, dirty, copies, sent, excused >>

\* The run writes files; the user edits, or commits, whenever he likes.
Change == dirty' = ~dirty /\ UNCHANGED << tracked, state, holder, session, copies, sent,
                                          excused >>

-----------------------------------------------------------------------------
Next ==
    \/ \E m \in Messages : Duplicate(m) \/ Refuse(m) \/ Accept(m)
    \/ Dispatch \/ Finish \/ Fail \/ ReplyLost \/ WindUp \/ Change

Spec == Init /\ [][Next]_bridgeVars

TypeOK ==
    /\ Range(tracked) = { m \in Messages : state[m] # "none" } /\ Len(tracked) <= MaxTracked
    /\ holder.msg \in Messages \cup { "none" }
    /\ session \in { "none", "idle", "running", "asks", "approval", "winding" }

(* However often a message is delivered, it is acted on once, unless its     *)
(* handling failed with an exception or its id was pushed out by newer ones; *)
(* the run of the session is that of the message whose task holds the lock   *)
(* and reads its frames, or nobody reads it, and then it only winds up and   *)
(* takes no other message; the message of that task is known                 *)
(* (iter_replies, _remember_message, _handle_prompt, _handle_approval,       *)
(* RuntimeGateway.dispatch).                                                 *)
ActedOnOnce ==
    /\ \A m \in Messages : sent[m] <= 1 + excused[m]
    /\ session = "running" => holder.stage = "streaming"
    /\ holder.stage = "streaming" => session = "running"
    /\ holder # Free => Known(holder.msg) \/ excused[holder.msg] > 0
=============================================================================
