----------------------------- MODULE ModelCalls -----------------------------
(***************************************************************************)
(* One model action: the provider's task that reads the response and pushes *)
(* events (llm/providers, llm/stream.py), the adapter that turns them into  *)
(* LLM events (llm/adapter.py), the retrying port of the runtime            *)
(* (runtime/model.py) and the Core step that consumes them                  *)
(* (core/model_step.py), while the run may be cancelled.                    *)
(***************************************************************************)
EXTENDS Naturals, Sequences, FiniteSets, SequencesExt

CONSTANTS MaxRetries, MaxBlocks   \* configured retries; blocks of a response

VARIABLES purpose,   \* "reasoning", or "finalization", whose events are buffered
          streaming, \* the model streams; one that does not only gives its message
          attempt,   \* number of the attempt, from 1
          provider,  \* the background task of the attempt
          message,   \* the assistant message that it fills
          queue,     \* events of the attempt that the adapter has not taken
          result,    \* the future of the stream
          closed,
          buffer,    \* events held back in the finalization
          seen,      \* events that Core was given, with their attempts
          proposals, \* attempts whose memory proposals the sink was given
          outcome    \* how the action ended for Core

modelVars == << purpose, streaming, attempt, provider, message, queue, result, closed, buffer,
                seen, proposals, outcome >>

Blocks == { "text", "thinking", "toolcall" }
\* An event is about the block of the message at a position, 0 if about none.
Event(kind, position) == [ event |-> kind, at |-> position ]
Sentinel == Event("end", 0)
\* Classes of provider errors (classify_llm_error): what may be tried again, and what
\* may not.
Retryable == { "rate limit", "provider", "timeout", "network" }
Fatal == { "auth", "context length", "unknown" }
NoResult == "none"

Init ==
    /\ purpose \in { "reasoning", "finalization" } /\ streaming \in BOOLEAN
    /\ attempt = 0 /\ provider = "none"
    /\ message = << >> /\ queue = << >> /\ result = NoResult /\ closed = FALSE
    /\ buffer = << >> /\ seen = << >> /\ proposals = { } /\ outcome = "none"

-----------------------------------------------------------------------------
(* The provider's task *)

Push(event) == IF closed THEN UNCHANGED queue ELSE queue' = Append(queue, event)

\* stream_openai_compatible, stream_anthropic: nothing is sent before the task runs.
Connect ==
    /\ provider = "started" /\ provider' = "reading" /\ Push(Event("start", 0))
    /\ UNCHANGED << purpose, streaming, attempt, message, result, closed, buffer, seen, proposals,
                    outcome >>

\* A block of the response begins.
ReadBlock(block) ==
    /\ provider = "reading" /\ Len(message) < MaxBlocks
    /\ message' = Append(message, [ kind |-> block, told |-> FALSE, marked |-> FALSE ])
    /\ UNCHANGED << purpose, streaming, attempt, provider, queue, result, closed, buffer,
                    seen, proposals, outcome >>

\* A text or thinking is told by its deltas (the first stands for all of them), a tool call
\* when its arguments are whole, which may be at the end of the response.  A call whose
\* arguments are no JSON object is marked.  Empty and redacted blocks are never told.
TellBlock(i, whole) ==
    /\ provider = "reading" /\ ~message[i].told
    /\ message[i].kind = "toolcall" \/ whole
    /\ message' = [ message EXCEPT ![i] = [ @ EXCEPT !.told = TRUE, !.marked = ~whole ] ]
    /\ Push(Event(message[i].kind, i))
    /\ UNCHANGED << purpose, streaming, attempt, provider, result, closed, buffer, seen,
                    proposals, outcome >>

EndStream(value) ==
    /\ provider' = "ended"
    /\ IF closed THEN UNCHANGED << queue, result, closed >>
       ELSE /\ queue' = Append(queue, Sentinel) /\ result' = value /\ closed' = TRUE

ReadEnd ==
    /\ provider = "reading" /\ EndStream("message")
    /\ UNCHANGED << purpose, streaming, attempt, message, buffer, seen, proposals, outcome >>

\* Any exception, before the response or in the middle of it, becomes error_info of the
\* message, which is then the result.
ReadFails(error) ==
    /\ provider \in { "started", "reading" } /\ EndStream(error)
    /\ UNCHANGED << purpose, streaming, attempt, message, buffer, seen, proposals, outcome >>

-----------------------------------------------------------------------------
(* The adapter, the retrying port and Core, which run in one task *)

\* RetryingModelPort.stream: the next attempt; Core has not seen the ones before.
NextAttempt ==
    /\ attempt' = attempt + 1 /\ provider' = "started" /\ message' = << >> /\ queue' = << >>
    /\ result' = NoResult /\ closed' = FALSE /\ buffer' = << >>

Start ==
    /\ attempt = 0 /\ outcome = "none" /\ NextAttempt
    /\ UNCHANGED << purpose, streaming, seen, proposals, outcome >>

Committed == \E i \in DOMAIN seen : seen[i].event \in Blocks

Shown(event) == [ event |-> event.event, at |-> event.at, attempt |-> attempt ]

\* An event of the stream goes to Core, or into the buffer of a finalization.
TakeEvent ==
    /\ outcome = "none" /\ streaming /\ queue # << >> /\ Head(queue) # Sentinel
    /\ queue' = Tail(queue)
    /\ IF purpose = "finalization"
       THEN buffer' = Append(buffer, Head(queue)) /\ UNCHANGED seen
       ELSE seen' = Append(seen, Shown(Head(queue)))
            /\ UNCHANGED buffer
    /\ UNCHANGED << purpose, streaming, attempt, provider, message, result, closed, proposals, outcome >>

\* The stream has ended and has a result; without streaming, the result is awaited.
AtEnd ==
    /\ outcome = "none" /\ result # NoResult
    /\ streaming => queue # << >> /\ Head(queue) = Sentinel

\* _extract_memory_sidecar: the final answer may carry proposals, which are cut out of it.
SinkProposals == proposals' = proposals \cup { attempt }

\* The final answer without its memory proposals is given to Core as one text, if any is
\* left; the proposals go to the sink.
TakeMessage ==
    /\ AtEnd /\ result = "message" /\ outcome' = "completed"
    /\ IF purpose = "finalization"
       THEN /\ \E text \in { << >>, << Shown(Event("text", 0)) >> } :
                 seen' = (IF streaming THEN << Shown(Event("start", 0)) >> ELSE << >>) \o text
            /\ SinkProposals
       ELSE UNCHANGED << seen, proposals >>
    /\ UNCHANGED << purpose, streaming, attempt, provider, message, queue, result, closed,
                    buffer >>

(* A plausible bug: an attempt is repeated although Core has seen part of it. *)
MayRetryAlways(error) == error \in Retryable /\ attempt <= MaxRetries

\* Whatever the user has seen is not repeated.
MayRetry(error) ==
    /\ error \in Retryable /\ attempt <= MaxRetries
    /\ purpose = "finalization" \/ ~Committed

Retry ==
    /\ AtEnd /\ result # "message" /\ MayRetry(result)
    /\ NextAttempt
    /\ UNCHANGED << purpose, streaming, seen, proposals, outcome >>

\* In a finalization that fails the buffered events come with the failure.
TakeFailure ==
    /\ AtEnd /\ result # "message" /\ ~MayRetry(result)
    /\ outcome' = "failed"
    /\ seen' = seen \o [ i \in DOMAIN buffer |-> Shown(buffer[i]) ]
    /\ UNCHANGED << purpose, streaming, attempt, provider, message, queue, result, closed,
                    buffer, proposals >>

StopProvider == provider' = "ended" /\ closed' = TRUE

\* The task is cancelled while it waits for the stream: the adapter's finally block cancels
\* the provider's task and waits for it (aclose).  Or while Core hands on an event, so that
\* the generators are left behind; or while it waits for a result without streaming, and
\* nobody stops the provider.
Cancel ==
    /\ outcome = "none" /\ attempt > 0 /\ outcome' = "cancelled"
    /\ \/ streaming /\ StopProvider
       \/ (~streaming \/ seen # << >>) /\ UNCHANGED << provider, closed >>
    /\ UNCHANGED << purpose, streaming, attempt, message, queue, result, buffer, seen,
                    proposals >>

\* asyncio closes the generators that were left behind.
CloseGenerators ==
    /\ outcome = "cancelled" /\ streaming /\ provider # "ended" /\ StopProvider
    /\ UNCHANGED << purpose, streaming, attempt, message, queue, result, buffer, seen,
                    proposals, outcome >>

-----------------------------------------------------------------------------
Next ==
    \/ Start \/ Connect \/ ReadEnd
    \/ \E block \in Blocks : ReadBlock(block)
    \/ \E i \in DOMAIN message, whole \in BOOLEAN : TellBlock(i, whole)
    \/ \E error \in Retryable \cup Fatal : ReadFails(error)
    \/ TakeEvent \/ TakeMessage \/ Retry \/ TakeFailure \/ Cancel \/ CloseGenerators

Spec == Init /\ [][Next]_modelVars

TypeOK ==
    /\ attempt \in 0..(MaxRetries + 1) /\ provider \in { "none", "started", "reading", "ended" }
    /\ Len(message) <= MaxBlocks /\ result \in Retryable \cup Fatal \cup { NoResult, "message" }
    /\ \A i \in DOMAIN seen : seen[i].attempt \in 1..attempt
    /\ outcome \in { "none", "completed", "failed", "cancelled" }

(* Core sees the blocks of one attempt only: of a message that was streamed  *)
(* those that the provider told, and no others, of one that was not streamed *)
(* none.  Memory proposals are only of a message it gets; and when the       *)
(* action has completed or failed nothing works for it any more              *)
(* (RetryingModelPort.stream, _stream_finalization, ProviderModelPort).      *)
OneAttemptShown ==
    /\ \A i, j \in DOMAIN seen :
         { seen[i].event, seen[j].event } \subseteq Blocks => seen[i].attempt = seen[j].attempt
    /\ outcome = "completed" /\ purpose = "reasoning" =>
         { seen[k] : k \in { k \in DOMAIN seen : seen[k].event \in Blocks } } =
           { Shown(Event(message[i].kind, i)) :
               i \in { i \in DOMAIN message : streaming /\ message[i].told } }
    /\ proposals \subseteq (IF outcome = "completed" THEN { attempt } ELSE { })
    /\ outcome \in { "completed", "failed" } => provider = "ended"
=============================================================================
