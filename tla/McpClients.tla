----------------------------- MODULE McpClients -----------------------------
(***************************************************************************)
(* The MCP servers of a session (extensions/mcp/client.py, transport.py,    *)
(* adapter.py): discovery at the first prompt, under the manager's lock,   *)
(* the tools that become part of the registry, their calls, and closing.    *)
(* Servers are external; they answer, fail or answer nonsense.              *)
(***************************************************************************)
EXTENDS Naturals, FiniteSets

CONSTANTS NServers, MaxCuts   \* servers, in their order; cancelled discoveries

VARIABLES server,     \* every server's runtime: state, transport, offered tools
          opened,     \* transports that were made
          open,       \* transports whose connections are not closed
          discovery,  \* the server that is looked at, or 0, its attempt and transport
          ready,      \* the manager has discovered all servers
          registry,   \* registered tools
          said,       \* diagnostics
          call,       \* a tool call: server, tool, how often it was sent, how it ended
          closed,     \* the session was closed
          cuts        \* discoveries that something else than their end has stopped

mcpVars == << server, opened, open, discovery, ready, registry, said, call, closed, cuts >>

Servers == 1..NServers
\* Tools a server may offer: in allow_tools and well-formed, allowed but refused by the
\* registry or the adapter (its schema, its policy, a name that is taken), not allowed,
\* and one whose definition list_tools refuses.
Tools == { "good", "unfit", "foreign", "malformed" }
Allowed == { "good", "unfit" }

NoDiscovery == [ at |-> 0, attempt |-> 0, transport |-> 0 ]
NoCall == [ server |-> 0, tool |-> "none", sent |-> 0, end |-> "none" ]

Init ==
    /\ server = [ s \in Servers |-> [ state |-> "disconnected", transport |-> 0, tools |-> { } ] ]
    /\ opened = 0 /\ open = { } /\ discovery = NoDiscovery /\ ready = FALSE /\ registry = { }
    /\ said = { } /\ call = NoCall /\ closed = FALSE /\ cuts = 0

Becomes(s, state, transport, tools) ==
    server' = [ server EXCEPT ![s] = [ state |-> state, transport |-> transport, tools |-> tools ] ]
Say(s, what) == said' = said \cup { << s, what >> }

-----------------------------------------------------------------------------
(* Discovery *)

\* ensure_ready: the first prompt, or /tools, takes the lock; once all servers were looked
\* at there is nothing to do.
EnsureReady ==
    /\ ~ready /\ ~closed /\ discovery.at = 0 /\ call.end # "open"
    /\ discovery' = [ NoDiscovery EXCEPT !.at = 1 ]
    /\ UNCHANGED << server, opened, open, ready, registry, said, call, closed, cuts >>

\* The next server, or the end of the discovery.
Proceed ==
    IF discovery.at = NServers
    THEN discovery' = NoDiscovery /\ ready' = TRUE
    ELSE discovery' = [ NoDiscovery EXCEPT !.at = discovery.at + 1 ] /\ UNCHANGED ready

Looking(s) == discovery.at = s /\ discovery.transport # 0
Untried(s) == discovery.at = s /\ discovery.transport = 0

\* The variable with its token is not set.
NoCredential(s) ==
    /\ Untried(s) /\ discovery.attempt = 0
    /\ Becomes(s, "failed", server[s].transport, server[s].tools)
    /\ Say(s, "failed") /\ Proceed
    /\ UNCHANGED << opened, open, registry, call, closed, cuts >>

\* Transports are numbered; initialize and tools/list are sent.
Connect(s) ==
    /\ Untried(s)
    /\ opened' = opened + 1 /\ open' = open \cup { opened' }
    /\ discovery' = [ discovery EXCEPT !.attempt = @ + 1, !.transport = opened' ]
    /\ server' = [ server EXCEPT ![s].state = "connecting" ]
    /\ UNCHANGED << ready, registry, said, call, closed, cuts >>

\* The server's tools become registrations one by one; one that is refused leaves a
\* diagnostic and the others are registered.  A server that is discovered again finds its
\* names taken.
Discovered(s, offered) ==
    /\ Looking(s)
    /\ Becomes(s, "ready", discovery.transport, offered \cap Allowed)
    /\ registry' = registry \cup { << s, t >> : t \in offered \cap { "good" } }
    /\ said' = said \cup { << s, t >> : t \in offered \cap { "unfit", "malformed" } }
                    \cup { << s, t >> : t \in { x \in offered \cap { "good" } : << s, x >> \in registry } }
    /\ Proceed
    /\ UNCHANGED << opened, open, call, closed, cuts >>

\* A plausible bug: the transport of a failed attempt is forgotten.
AttemptFailsUnclosed(s, retryable) ==
    /\ Looking(s)
    /\ IF retryable /\ discovery.attempt < 2
       THEN /\ discovery' = [ discovery EXCEPT !.transport = 0 ]
            /\ UNCHANGED << server, said, ready >>
       ELSE /\ Becomes(s, "failed", server[s].transport, server[s].tools)
            /\ Say(s, "failed") /\ Proceed
    /\ UNCHANGED << opened, open, registry, call, closed, cuts >>

\* MCPTransportError: a timeout, a connection or a status that may pass is tried once more
\* on another transport; a protocol error, or the second attempt, fails the server.
AttemptFails(s, retryable) ==
    /\ Looking(s)
    /\ open' = open \ { discovery.transport }
    /\ IF retryable /\ discovery.attempt < 2
       THEN /\ discovery' = [ discovery EXCEPT !.transport = 0 ]
            /\ UNCHANGED << server, said, ready >>
       ELSE /\ Becomes(s, "failed", server[s].transport, server[s].tools)
            /\ Say(s, "failed") /\ Proceed
    /\ UNCHANGED << opened, registry, call, closed, cuts >>

\* Any other exception (a data line of the event stream that is no JSON) or a cancellation
\* of the prompt ends the discovery as it is; the next prompt starts it again.
DiscoveryCut ==
    /\ discovery.at # 0 /\ cuts < MaxCuts /\ cuts' = cuts + 1
    /\ discovery' = NoDiscovery
    /\ UNCHANGED << server, opened, open, ready, registry, said, call, closed >>

-----------------------------------------------------------------------------
(* Calls *)

\* A registered tool is called; discovery precedes every prompt, so it is over.
CallTool(s, t) ==
    /\ << s, t >> \in registry /\ call.end # "open" /\ discovery.at = 0 /\ ready /\ ~closed
    /\ call' = IF server[s].state # "ready" \/ server[s].transport = 0
               THEN [ server |-> s, tool |-> t, sent |-> 0, end |-> "unavailable" ]
               ELSE [ server |-> s, tool |-> t, sent |-> 1, end |-> "open" ]
    /\ UNCHANGED << server, opened, open, discovery, ready, registry, said, closed, cuts >>

\* The handler's answer; an error is the call's error, retryable or not, and nothing is
\* sent a second time.
CallEnds(end) ==
    /\ call.end = "open" /\ call' = [ call EXCEPT !.end = end ]
    /\ UNCHANGED << server, opened, open, discovery, ready, registry, said, closed, cuts >>

-----------------------------------------------------------------------------
\* The session is closed once its calls are over.  aclose does not take the lock: what a
\* discovery has open is not known to it, and the discovery goes on.
Close ==
    /\ ~closed /\ call.end # "open" /\ closed' = TRUE
    /\ open' = open \ { server[s].transport : s \in Servers }
    /\ server' = [ s \in Servers |-> [ server[s] EXCEPT !.state = "closed", !.transport = 0 ] ]
    /\ ready' = FALSE
    /\ cuts' = IF discovery.at = 0 THEN cuts ELSE cuts + 1
    /\ UNCHANGED << opened, discovery, registry, said, call >>

Next ==
    \/ EnsureReady \/ DiscoveryCut \/ Close
    \/ \E s \in Servers :
         \/ NoCredential(s) \/ Connect(s)
         \/ \E offered \in SUBSET Tools : Discovered(s, offered)
         \/ \E retryable \in BOOLEAN : AttemptFails(s, retryable)
         \/ \E t \in Tools : CallTool(s, t)
    \/ \E end \in { "ok", "failed", "retryable" } : CallEnds(end)

Spec == Init /\ [][Next]_mcpVars

TypeOK ==
    /\ \A s \in Servers : server[s].state \in { "disconnected", "connecting", "ready", "failed", "closed" }
    /\ open \subseteq 1..opened /\ registry \subseteq Servers \X Tools
    /\ discovery.at \in 0..NServers /\ discovery.attempt \in 0..2

(* Every connection that is open belongs to a server that is ready or is     *)
(* being looked at, and a closed session has none, as long as no discovery   *)
(* was cut short; no server is tried more than twice; when discovery is over *)
(* every server is ready or has a diagnostic, and so has every allowed tool  *)
(* of a ready one that is not registered, whatever else its server offered;  *)
(* only allowed tools are registered, and no call is sent twice              *)
(* (_initialize_server, _connect_and_discover, call_tool, aclose).           *)
ServersAreAccounted ==
    /\ cuts = 0 =>
         /\ open = ({ discovery.transport } \cup { server[s].transport : s \in Servers }) \ { 0 }
         /\ opened <= 2 * NServers
    /\ ready /\ ~closed => \A s \in Servers :
         \/ server[s].state = "ready"
            /\ \A t \in server[s].tools : << s, t >> \in registry \cup said
         \/ server[s].state = "failed" /\ << s, "failed" >> \in said
    /\ \A s \in Servers, t \in Tools : << s, t >> \in registry => t \in Allowed
    /\ call.sent <= 1
=============================================================================
