---------------------------- MODULE ShellCommands ----------------------------
(***************************************************************************)
(* The command tools (tools/builtins/shell.py): how a command is assessed   *)
(* (tools/sandbox.py) and permitted (tools/security.py), and how its process *)
(* is started, watched, stopped and reported.  A shell text is a chain of   *)
(* segments, each with the class that the prefix tables give it and the     *)
(* status it would exit with.                                               *)
(***************************************************************************)
EXTENDS Naturals, Sequences, FiniteSets, SequencesExt

CONSTANTS MaxSegments, MaxCancels

VARIABLES call,      \* the tool call: tool, chain, connectors, what it touches, permissions
          pc,        \* where its handler is
          proc,      \* its process
          stubborn,  \* the process ignores a request to terminate
          effects,   \* reported effects: their kinds and statuses
          report,    \* the verification report of the result
          outcome,
          cancels    \* times the call was cancelled

shellVars == << call, pc, proc, stubborn, effects, report, outcome, cancels >>

Safe == { "verification", "read_only", "mutation" }
\* _first_command steps over settings of the directory and of PYTHONPATH.
Settings == { "directory", "environment" }
Harmless == Safe \cup Settings
\* A redirection or a pipe makes its text "redirected".
Classes == Harmless \cup { "high_risk", "redirected", "unknown" }
Segments == [ class : Classes, ok : BOOLEAN ]
\* A newline is taken away before the text is split; "&" and $( ) are judged as it is.
Connectors == { "and", "or", "then", "line" }
Touched == { "workspace", "internal", "sensitive", "outside" }
PermissionModes == { "read-only", "ask", "auto" }
NoReport == "none"

-----------------------------------------------------------------------------
(* Assessment *)

\* Where _first_command splits: the first command and those behind &&, || and ;.
Heads(chain, connectors) == { i \in DOMAIN chain : i = 1 \/ connectors[i - 1] # "line" }

\* The class of the text that begins at a head: its prefix decides, whatever is joined to
\* it; a redirection in it counts unless a setting of PYTHONPATH swallows the rest.
PartClass(chain, connectors, i) ==
    LET joined == { j \in DOMAIN chain : j >= i /\ \A k \in (i + 1)..j : connectors[k - 1] = "line" }
    IN  IF chain[i].class # "environment" /\ \E j \in joined : chain[j].class = "redirected"
        THEN "unknown" ELSE chain[i].class

(* A plausible bug: a chain is judged by its first command.                  *)
ShellClassOfFirst(chain, connectors) ==
    IF chain[1].class \in Settings THEN "unknown" ELSE PartClass(chain, connectors, 1)

\* _classify_shell_syntax with _first_command: the whole text is searched for the
\* dangerous patterns; a chain counts as its most powerful part if all of them are
\* known, directory and PYTHONPATH settings aside.
ShellClass(chain, connectors) ==
    LET heads == Heads(chain, connectors)
        classes == { PartClass(chain, connectors, i) : i \in heads }
    IN  IF "high_risk" \in { s.class : s \in Range(chain) } THEN "high_risk"
        ELSE IF heads = { 1 }
             THEN IF classes \subseteq Settings THEN "unknown" ELSE PartClass(chain, connectors, 1)
        ELSE IF classes \subseteq Settings \/ ~(classes \subseteq Harmless) THEN "unknown"
        ELSE IF "mutation" \in classes THEN "mutation"
        ELSE IF "verification" \in classes THEN "verification" ELSE "read_only"

Profile(class) ==
    CASE class = "verification" -> "repository_execution"
      [] class = "read_only"    -> "inspection"
      [] class = "mutation"     -> "repository_execution"
      [] class = "high_risk"    -> "destructive"
      [] OTHER                  -> "unknown"

\* An argv command has the profile of the table of _parse_argv_profile; only
\* executions of the repository can be verifications.
ArgvProfiles == { "inspection", "repository_execution", "bounded_mutation", "external_effect",
                  "destructive", "unknown" }

\* assess_command
Assess(c) ==
    LET class == ShellClass(c.chain, c.connectors)
        profile == IF c.tool = "bash" THEN Profile(class) ELSE c.profile
    IN  [ profile |-> profile,
          verification |-> IF c.tool = "bash" THEN class = "verification" ELSE c.verification,
          risk |-> CASE profile = "inspection" -> "low"
                     [] profile \in { "repository_execution", "bounded_mutation" } -> "medium"
                     [] OTHER -> "high",
          effects |-> { "process_spawn", "filesystem_read" }
              \cup (IF profile \in { "inspection", "destructive" } THEN { }
                    ELSE { "filesystem_write" })
              \cup (IF profile \in { "repository_execution", "external_effect", "unknown" }
                    THEN { "network_access", "external_state_write" } ELSE { }) ]

\* WorkspaceSandbox: arguments that look like paths must lie in the workspace, must not
\* be sensitive, and only an inspection may name the internal directories.
PathAllowed(touched, mutating) ==
    /\ touched \notin { "outside", "sensitive" }
    /\ mutating => touched # "internal"

\* validate_shell_command searches the text for sensitive names, and for internal ones
\* together with something that writes.
AdmittedShell(c) == c.touched # "sensitive" /\ ~(c.touched = "internal" /\ c.writes)

\* validate_controlled_command looks at the working directory and at every argument.
AdmittedArgv(c) ==
    /\ Assess(c).profile # "unknown" /\ c.cwd = "workspace"
    /\ PathAllowed(c.touched, Assess(c).profile # "inspection")

Admitted(c) ==
    /\ c.timeoutValid /\ Assess(c).profile # "destructive"
    /\ IF c.tool = "bash" THEN AdmittedShell(c) ELSE AdmittedArgv(c)

-----------------------------------------------------------------------------
(* Permission *)

\* _permission_engine: what the configured permission mode denies, asks for and allows.
Mutating == { "filesystem_write", "filesystem_delete", "process_spawn", "external_state_write" }
SensitiveReads == { "network_access", "credential_access", "external_state_read" }
Denied(mode) == IF mode = "read-only" THEN Mutating \cup { "credential_access" } ELSE { }
AskedFor(mode) ==
    CASE mode = "read-only" -> { "network_access", "external_state_read" }
      [] mode = "ask"       -> Mutating \cup SensitiveReads
      [] mode = "auto"      -> SensitiveReads
AllowedProfiles(mode) ==
    IF mode = "auto" THEN { "inspection", "bounded_mutation" } ELSE { }

\* PermissionEngine.decide for a call of one of the command tools, whose policy asks on
\* medium risk; bash has the base risk "medium" and all effects.
Decide(c) ==
    LET a == Assess(c)
        wanted == IF c.tool = "command" THEN a.effects
                  ELSE { "process_spawn", "filesystem_read", "filesystem_write",
                         "network_access", "external_state_write" }
    IN  IF c.permissions = "read-only" \/ wanted \cap Denied(c.permissions) # { } THEN "deny"
        ELSE IF wanted \cap AskedFor(c.permissions) # { } THEN "ask"
        ELSE IF c.tool = "command" /\ a.profile \in AllowedProfiles(c.permissions) THEN "allow"
        ELSE IF c.tool = "bash" \/ a.risk \in { "medium", "high" } THEN "ask" ELSE "allow"

\* All chains with everything else as it mostly is; a single command with all the rest.
BashCalls ==
    { c \in [ tool : { "bash" }, chain : UNION { [ 1..n -> Segments ] : n \in 1..MaxSegments },
              connectors : UNION { [ 1..n -> Connectors ] : n \in 0..(MaxSegments - 1) },
              touched : Touched, writes : BOOLEAN, cwd : { "workspace" }, timeoutValid : BOOLEAN,
              profile : { "unknown" }, verification : { FALSE }, permissions : PermissionModes ] :
        /\ Len(c.connectors) = Len(c.chain) - 1
        /\ \/ c.touched = "workspace" /\ c.writes /\ c.timeoutValid /\ c.permissions = "auto"
           \/ c.chain = << [ class |-> "unknown", ok |-> TRUE ] >> }

CommandCalls ==
    { c \in [ tool : { "command" }, chain : [ 1..1 -> [ class : { "unknown" }, ok : BOOLEAN ] ],
              connectors : { << >> }, touched : Touched, writes : { FALSE },
              cwd : { "workspace", "internal" }, timeoutValid : { TRUE },
              profile : ArgvProfiles, verification : BOOLEAN, permissions : PermissionModes ] :
        c.verification => c.profile = "repository_execution" }

Calls == BashCalls \cup CommandCalls

-----------------------------------------------------------------------------
(* The process *)

\* What a shell returns after one more segment, and for the chain.
ExitsAfter(ok, connector, segment) ==
    CASE connector = "and"  -> ok /\ segment.ok
      [] connector = "or"   -> ok \/ segment.ok
      [] connector \in { "then", "line" } -> segment.ok

ExitsZero ==
    LET ok[n \in DOMAIN call.chain] ==
          IF n = 1 THEN call.chain[1].ok
          ELSE ExitsAfter(ok[n - 1], call.connectors[n - 1], call.chain[n])
    IN  ok[Len(call.chain)]

Init ==
    /\ call \in Calls /\ pc = "new" /\ proc = "none" /\ stubborn \in BOOLEAN
    /\ effects = { } /\ report = NoReport /\ outcome = "none" /\ cancels = 0

\* The assessment is made once for the access and again by the handler; the process is
\* then started in a thread.
Handle ==
    /\ pc = "new"
    /\ pc' = IF ~Admitted(call) \/ Decide(call) = "deny" THEN "done"
             ELSE IF Decide(call) = "ask" THEN "asking" ELSE "spawning"
    /\ outcome' = IF pc' = "done" THEN "rejected" ELSE outcome
    /\ UNCHANGED << call, proc, stubborn, effects, report, cancels >>

Answer(approved) ==
    /\ pc = "asking"
    /\ IF approved THEN pc' = "spawning" /\ UNCHANGED outcome
                   ELSE pc' = "done" /\ outcome' = "rejected"
    /\ UNCHANGED << call, proc, stubborn, effects, report, cancels >>

ThreadStarts ==
    /\ proc = "none" /\ (pc = "spawning" \/ (pc = "done" /\ outcome = "abandoned"))
    /\ proc' = "running"
    /\ UNCHANGED << call, pc, stubborn, effects, report, outcome, cancels >>

\* The handler goes on: the cleanup is registered and the start reported.
Register ==
    /\ pc = "spawning" /\ proc # "none"
    /\ pc' = "waiting"
    /\ effects' = effects \cup { [ kind |-> "process_spawn", status |-> "started" ] }
    /\ UNCHANGED << call, proc, stubborn, report, outcome, cancels >>

ProcessEnds ==
    /\ proc = "running" /\ proc' = "exited"
    /\ UNCHANGED << call, pc, stubborn, effects, report, outcome, cancels >>

\* bash reports all effects a shell may have; command those of its profile.
Inferred(c) ==
    { [ kind |-> k, status |-> IF k = "filesystem_read" THEN "completed" ELSE "unknown" ] :
        k \in IF c.tool = "bash"
              THEN { "filesystem_read", "filesystem_write", "network_access",
                     "external_state_write" }
              ELSE Assess(c).effects \ { "process_spawn" } }

Collect ==
    /\ pc = "waiting" /\ proc = "exited" /\ pc' = "done"
    /\ effects' = effects \cup Inferred(call)
    /\ outcome' = IF ExitsZero THEN "ok" ELSE "exit_nonzero"
    /\ report' = IF ~Assess(call).verification THEN NoReport
                 ELSE IF ExitsZero THEN "passed" ELSE "failed"
    /\ UNCHANGED << call, proc, stubborn, cancels >>

\* The deadline of communicate(): the handler runs the cleanup itself.
Deadline ==
    /\ pc = "waiting" /\ pc' = "stopping" /\ outcome' = "timeout"
    /\ UNCHANGED << call, proc, stubborn, effects, report, cancels >>

Terminate ==
    /\ pc = "stopping" /\ proc = "running" /\ ~stubborn /\ proc' = "killed"
    /\ UNCHANGED << call, pc, stubborn, effects, report, outcome, cancels >>

\* Two seconds later.
Kill ==
    /\ pc = "stopping" /\ proc = "running" /\ stubborn /\ proc' = "killed"
    /\ UNCHANGED << call, pc, stubborn, effects, report, outcome, cancels >>

Stopped ==
    /\ pc = "stopping" /\ proc # "running" /\ pc' = "done"
    /\ UNCHANGED << call, proc, stubborn, effects, report, outcome, cancels >>

\* The call is cancelled: while the thread starts the process nothing is registered yet;
\* afterwards the runtime runs the cleanup, also after a cancellation of the handler's
\* own; a cancellation of the runtime's cleanup leaves the process as it is.
Cancel ==
    /\ cancels < MaxCancels /\ cancels' = cancels + 1
    /\ \/ /\ pc = "spawning" /\ pc' = "done" /\ outcome' = "abandoned"
       \/ /\ pc = "waiting" /\ pc' = "stopping" /\ outcome' = "cancelled"
       \/ /\ pc = "stopping" /\ outcome = "timeout" /\ outcome' = "cancelled" /\ UNCHANGED pc
       \/ /\ pc = "stopping" /\ outcome = "cancelled" /\ outcome' = "abandoned" /\ pc' = "done"
    /\ UNCHANGED << call, proc, stubborn, effects, report >>

Next ==
    \/ Handle \/ (\E approved \in BOOLEAN : Answer(approved)) \/ ThreadStarts \/ Register \/ ProcessEnds \/ Collect
    \/ Deadline \/ Terminate \/ Kill \/ Stopped \/ Cancel

Spec == Init /\ [][Next]_shellVars

TypeOK ==
    /\ call.tool \in { "bash", "command" } /\ pc \in { "new", "asking", "spawning", "waiting", "stopping", "done" }
    /\ proc \in { "none", "running", "exited", "killed" }
    /\ report \in { NoReport, "passed", "failed" }
    /\ outcome \in { "none", "rejected", "abandoned", "timeout", "cancelled", "ok", "exit_nonzero" }

(* A passed verification comes from a command that ran to its end; of what   *)
(* stands at its beginning and behind every &&, || and ;, some is a check    *)
(* and all are checks, inspections and settings, and if it has no other      *)
(* connectors than && no check failed.  (What a newline, & or $( ) joins to  *)
(* one of them is not judged at all.)  A command that names what it must not *)
(* touch never runs; and when a call that was not given up in the middle of  *)
(* starting or stopping its process is over, the process is over too         *)
(* (validate_shell_command, validate_controlled_command,                     *)
(* _collect_process_result and its cleanup).                                 *)
CommandsAreHonest ==
    /\ report = "passed" =>
         /\ proc = "exited"
         /\ call.tool = "bash" =>
              /\ { call.chain[i].class : i \in Heads(call.chain, call.connectors) }
                    \subseteq { "verification", "read_only" } \cup Settings
              /\ \E i \in Heads(call.chain, call.connectors) : call.chain[i].class = "verification"
              /\ Range(call.connectors) \subseteq { "and" } => \A s \in Range(call.chain) : s.ok
    /\ proc # "none" =>
         /\ call.touched # "sensitive" /\ (call.tool = "command" => call.touched # "outside")
         /\ call.tool = "bash" => \A s \in Range(call.chain) : s.class # "high_risk"
         /\ call.permissions # "read-only"
    /\ pc = "done" /\ outcome # "abandoned" => proc # "running"
    /\ [ kind |-> "filesystem_write", status |-> "unknown" ] \in effects => proc = "exited"

=============================================================================
