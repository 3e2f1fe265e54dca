----------------------------- MODULE MCWorkspace -----------------------------
(***************************************************************************)
(* Instances of the modules about files for TLC: the files of a session,   *)
(* rollback, the file tools, the command tools, what the model is shown of *)
(* messages and files, long-term memories, the agents that explore a       *)
(* workspace, and the tools that a session offers. They share no state, so *)
(* a behaviour runs one of them, or one of the parts that MCServices adds, *)
(* which the first state chooses.                                          *)
(***************************************************************************)
EXTENDS Naturals, Services, Workspace, Contexts

\* What runs propose to remember.
Proposals ==
    { [ scope |-> "user", type |-> "profile", key |-> "a", text |-> "b" ],
      [ scope |-> "project", type |-> "experience", key |-> "a", text |-> "b" ],
      [ scope |-> "user", type |-> "experience", key |-> "b", text |-> "secret" ] }

\* The tools of the catalog's sources; an extension or a server may claim any name.
From(source, name, version, modes) ==
    [ name |-> name, source |-> source, version |-> version, modes |-> modes ]
Bash == From("builtin", "bash", 1, { "execute" })
Plan == From("builtin", "propose_plan", 1, { "plan" })
BuiltinTools == { Bash }
LateTools == { Plan }
ExtensionTools ==
    { << >>,
      << From("extension", "lint", 1, { "execute" }), From("extension", "bash", 1, { "execute" }) >>,
      << From("extension", "lint", 2, { "execute" }), From("extension", "propose_plan", 1, { "plan" }),
         From("extension", "m", 1, { "execute" }) >> }
ServerTools ==
    { << >>, << From("mcp", "m", 1, { "execute" }), From("mcp", "lint", 1, { "execute" }) >> }
Package(name, command, valid) == [ name |-> name, command |-> command, valid |-> valid ]
SkillPackages ==
    { << >>, << Package("s", "c", TRUE), Package("c", "none", TRUE), Package("s", "d", TRUE),
                Package("e", "c", TRUE), Package("f", "f", FALSE) >> }

\* What one answer of the model may call.
AnswerTools == { << "read", "output" >>, << "edit" >> }

VARIABLES part

logsVars == << logsLog, stored, writing, logsState, writes >>
rollbackVars == << rollbackHead, index, work, ignored, rollbackPc, baseline,
                   affected, meta, rollbackTodo, rollbackResult, start, mine, count >>
editsVars == << file, op, before, editsReported, editsOutcome, spoiled, budget >>
shellVars == << shellCall, shellPc, proc, stubborn, effects, report, shellOutcome, cancels >>
contextVars == << contextLog, snapshot, files, checkpoint, archived, shown, behind,
                  crashes >>
setVars == << disk, setHead, commits, results, observed, setEvidence, active, setLast,
              setReported, changes >>
memoryVars == << records, next, memoryTodo, word, cut, memoryCuts >>
exploreVars == << exploreFile, agents, reports, batch, job, found, exploreOutcome,
                  exploreBudget >>
catalogVars == << extensions, packages, catalogRegistry, revision, skills, warnings,
                  discovered, catalogShown, request, ran, catalogOpened >>

\* The variables of the parts that are not run stay as they begin.
AnyCall ==
    [ tool |-> "bash", chain |-> << [ class |-> "unknown", ok |-> TRUE ] >>,
      connectors |-> << >>, touched |-> "workspace", writes |-> TRUE, cwd |-> "workspace",
      timeoutValid |-> TRUE, profile |-> "unknown", verification |-> FALSE,
      permissions |-> "auto" ]

WorkspaceInit ==
    /\ Logs!Init
    /\ Rollback!Init /\ (part # "rollback" => \A f \in RunFiles : work[f] = "none")
    /\ IF part = "edits" THEN TRUE ELSE file = [ p \in Paths |-> Edits!Written(<< >>) ]
    /\ Edits!Init
    /\ IF part = "shell" THEN TRUE ELSE shellCall = AnyCall /\ stubborn = FALSE
    /\ Shell!Init
    /\ Windows!Init /\ Sets!Init
    /\ (part # "set" => \A f \in TrackedFiles : setHead[f] = Sets!Text)
    /\ Memories!Init
    /\ IF part = "catalog" THEN TRUE ELSE extensions = << >> /\ packages = << >>
    /\ Catalogs!Init
    /\ Explorations!Init /\ (part # "explore" => \A a \in AgentIds : reports[a] = << >>)

WorkspaceNext ==
    \/ /\ part = "logs" /\ Logs!Next
       /\ UNCHANGED << part, rollbackVars, editsVars, shellVars, contextVars,
                       setVars, memoryVars, exploreVars, catalogVars >>
    \/ /\ part = "rollback" /\ Rollback!Next
       /\ UNCHANGED << part, logsVars, editsVars, shellVars, contextVars, setVars,
                       memoryVars, exploreVars, catalogVars >>
    \/ /\ part = "edits" /\ Edits!Next
       /\ UNCHANGED << part, logsVars, rollbackVars, shellVars, contextVars, setVars,
                       memoryVars, exploreVars, catalogVars >>
    \/ /\ part = "shell" /\ Shell!Next
       /\ UNCHANGED << part, logsVars, rollbackVars, editsVars, contextVars, setVars,
                       memoryVars, exploreVars, catalogVars >>
    \/ /\ part = "context" /\ Windows!Next
       /\ UNCHANGED << part, logsVars, rollbackVars, editsVars, shellVars, setVars,
                       memoryVars, exploreVars, catalogVars >>
    \/ /\ part = "set" /\ Sets!Next
       /\ UNCHANGED << part, logsVars, rollbackVars, editsVars, shellVars,
                       contextVars, memoryVars, exploreVars, catalogVars >>
    \/ /\ part = "memory" /\ Memories!Next
       /\ UNCHANGED << part, logsVars, rollbackVars, editsVars, shellVars,
                       contextVars, setVars, exploreVars, catalogVars >>
    \/ /\ part = "explore" /\ Explorations!Next
       /\ UNCHANGED << part, logsVars, rollbackVars, editsVars, shellVars,
                       contextVars, setVars, memoryVars, catalogVars >>
    \/ /\ part = "catalog" /\ Catalogs!Next
       /\ UNCHANGED << part, logsVars, rollbackVars, editsVars, shellVars,
                       contextVars, setVars, memoryVars, exploreVars >>

workspaceVars == << logsVars, rollbackVars, editsVars, shellVars, contextVars, setVars,
                    memoryVars, exploreVars, catalogVars >>

(* filesystem.py:165: the last line of a log may be incomplete (SessionLogs). *)
LogsStayReadable == part = "logs" => Logs!LogsStayReadable

=============================================================================
