------------------------------ MODULE WebEvents ------------------------------
(***************************************************************************)
(* One session of the web backend (interfaces/web/service.py, events.py,    *)
(* routes/events.py): requests start dispatches in the background, their    *)
(* frames become events of a bounded hub, and a browser follows them over a *)
(* connection that may drop at any time.                                    *)
(* An event is a number; the sequence number it carries is its position.    *)
(***************************************************************************)
EXTENDS Naturals, Sequences, FiniteSets, SequencesExt

CONSTANTS Capacity,    \* events the hub keeps
          QueueSize,   \* events that wait for one browser
          MaxEvents,   \* bound of the events
          MaxDrops     \* bound of lost connections and restarts

VARIABLES task,        \* the dispatch of the session, and the cancellation
          pending,     \* the runtime waits for an approval
          resolution,  \* a decision is announced with the next frame
          published,   \* events so far
          kept,        \* events in the hub
          queue, wire, \* what waits in the browser's queue, and on the connection
          link,        \* "off", "on", or "ending" once the route has left
          have,        \* events the browser has applied or a snapshot covered
          last,        \* its last event id
          drops

webVars == << task, pending, resolution, published, kept, queue, wire, link, have,
              last, drops >>

Event(e) == [ kind |-> "event", n |-> e ]
Sync == [ kind |-> "sync_required", n |-> 0 ]
Snapshot == [ kind |-> "session.snapshot", n |-> published ]
NoTask == "none"

Init ==
    /\ task = [ run |-> NoTask, cancel |-> FALSE ] /\ pending = FALSE /\ resolution = FALSE
    /\ published = 0 /\ kept = << >> /\ queue = << >> /\ wire = << >> /\ link = "off"
    /\ have = { } /\ last = 0 /\ drops = 0

stream == << queue, wire, link, have, last, drops >>
work == << task, pending, resolution >>

-----------------------------------------------------------------------------
(* EventHub *)

\* A plausible bug: a full queue loses its oldest event.
EnqueuedLossy(q, e) == Append(IF Len(q) = QueueSize THEN Tail(q) ELSE q, Event(e))

\* publish: a full queue is replaced by the barrier.
Enqueued(q, e) == IF Len(q) = QueueSize THEN << Sync >> ELSE Append(q, Event(e))

\* The hub keeps the newest events.
Keep(all) == SubSeq(all, 1 + (IF Len(all) > Capacity THEN Len(all) - Capacity ELSE 0), Len(all))

\* One or two events of one step of the task; publishing never suspends.
Publish(n) ==
    LET first == Enqueued(queue, published + 1)
    IN  /\ published + n <= MaxEvents /\ published' = published + n
        /\ kept' = Keep(kept \o [ i \in 1..n |-> published + i ])
        /\ queue' = IF link # "on" THEN queue
                    ELSE IF n = 1 THEN first ELSE Enqueued(first, published + 2)

-----------------------------------------------------------------------------
(* Requests and their dispatches *)

\* A second request is refused while the task of the first has not ended.
SubmitPrompt ==
    /\ task.run = NoTask /\ ~pending /\ task' = [ task EXCEPT !.run = "prompt" ]
    /\ UNCHANGED << pending, resolution, published, kept, stream >>

\* The decision is noted before it is known whether the dispatch can start.
DecideApproval ==
    /\ pending /\ resolution' = TRUE
    /\ task' = IF task.run = NoTask THEN [ task EXCEPT !.run = "approve" ] ELSE task
    /\ UNCHANGED << pending, published, kept, stream >>

\* One cancellation at a time; it does not wait for the dispatch.
Cancel ==
    /\ ~task.cancel /\ task' = [ task EXCEPT !.cancel = TRUE ]
    /\ UNCHANGED << pending, resolution, published, kept, stream >>

\* The tool runtime suspends a call before any frame says so.
Suspend ==
    /\ task.run # NoTask /\ ~pending /\ pending' = TRUE
    /\ UNCHANGED << task, resolution, published, kept, stream >>

TakeDecision ==
    /\ task.run = "approve" /\ pending /\ pending' = FALSE
    /\ task' = [ task EXCEPT !.run = "prompt" ]
    /\ UNCHANGED << resolution, published, kept, stream >>

\* A frame of either task; the first one that is no failure announces the decision.
Frame(failed) ==
    /\ task.run # NoTask \/ task.cancel
    /\ IF resolution /\ ~failed
       THEN Publish(2) /\ resolution' = FALSE
       ELSE Publish(1) /\ UNCHANGED resolution
    /\ UNCHANGED << task, pending, wire, link, have, last, drops >>

TaskEnds ==
    /\ task.run # NoTask /\ task' = [ task EXCEPT !.run = NoTask ]
    /\ UNCHANGED << pending, resolution, published, kept, stream >>

CancelEnds ==
    /\ task.cancel /\ task' = [ task EXCEPT !.cancel = FALSE ]
    /\ pending' \in { pending, FALSE }
    /\ UNCHANGED << resolution, published, kept, stream >>

\* An exception: the task is forgotten, then the error and a snapshot are published.
TaskFails ==
    /\ task.run # NoTask /\ task' = [ task EXCEPT !.run = NoTask ] /\ resolution' = FALSE
    /\ Publish(2)
    /\ UNCHANGED << pending, wire, link, have, last, drops >>

-----------------------------------------------------------------------------
(* The event route and the browser (web/src/events/client.ts) *)

\* replay_after: the events kept after the last one of the browser.
Later ==
    LET i == CHOOSE i \in DOMAIN kept : kept[i] = last
    IN  SubSeq(kept, i + 1, Len(kept))

\* Replay and subscription are one step; an id that the hub does not know, or none, is
\* answered with a snapshot of the session's state.
Connect ==
    /\ link = "off" /\ link' = "on" /\ queue' = << >>
    /\ wire' = IF last \in Range(kept)
               THEN [ i \in DOMAIN Later |-> Event(Later[i]) ]
               ELSE << Snapshot >>
    /\ UNCHANGED << work, published, kept, have, last, drops >>

\* The route ends after the barrier.
Deliver ==
    /\ link = "on" /\ queue # << >>
    /\ wire' = Append(wire, Head(queue)) /\ queue' = Tail(queue)
    /\ link' = IF Head(queue) = Sync THEN "ending" ELSE link
    /\ UNCHANGED << work, published, kept, have, last, drops >>

\* What the browser has when it has read an item.
Shows(item) ==
    CASE item.kind = "event" -> { item.n }
      [] item.kind = "session.snapshot" -> 1..item.n
      [] item.kind = "sync_required" -> { }

\* Neither the barrier nor a snapshot becomes the last event id.
Receive ==
    /\ wire # << >> /\ wire' = Tail(wire)
    /\ have' = have \cup Shows(Head(wire))
    /\ last' = IF Head(wire).kind = "event" THEN Head(wire).n ELSE last
    /\ UNCHANGED << work, published, kept, queue, link, drops >>

Drop ==
    /\ link # "off" /\ link' = "off" /\ wire' = << >> /\ queue' = << >>
    /\ \/ link = "ending" /\ wire = << >> /\ UNCHANGED drops
       \/ drops < MaxDrops /\ drops' = drops + 1
    /\ UNCHANGED << work, published, kept, have, last >>

\* The backend starts again with an empty hub.
Restart ==
    /\ drops < MaxDrops /\ drops' = drops + 1
    /\ task' = [ run |-> NoTask, cancel |-> FALSE ] /\ resolution' = FALSE /\ kept' = << >>
    /\ link' = "off" /\ wire' = << >> /\ queue' = << >>
    /\ UNCHANGED << pending, published, have, last >>

-----------------------------------------------------------------------------
Next ==
    \/ SubmitPrompt \/ DecideApproval \/ Cancel \/ Suspend \/ TakeDecision
    \/ (\E failed \in BOOLEAN : Frame(failed)) \/ TaskEnds \/ CancelEnds \/ TaskFails
    \/ Connect \/ Deliver \/ Receive \/ Drop \/ Restart

Spec == Init /\ [][Next]_webVars

TypeOK ==
    /\ task.run \in { NoTask, "prompt", "approve" } /\ published \in 0..MaxEvents
    /\ Len(kept) <= Capacity /\ Len(queue) <= QueueSize
    /\ link \in { "off", "on", "ending" } /\ have \subseteq 1..published

Coming == UNION { Shows(x) : x \in Range(wire \o queue) }

(* A browser never misses an event without being told: while it is connected *)
(* it has, or is about to read, every event so far, unless the barrier that  *)
(* makes it connect again is on its way; and what the barrier cost it comes  *)
(* again after its last event id, which is the last of those it has          *)
(* (EventHub.publish, subscribe_after, session_events).                      *)
NothingMissed ==
    /\ link = "on" /\ Sync \notin Range(queue) => have \cup Coming = 1..published
    /\ 1..last \subseteq have
=============================================================================
