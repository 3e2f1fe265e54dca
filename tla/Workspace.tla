------------------------------ MODULE Workspace ------------------------------
(***************************************************************************)
(* The modules about the files of a session and of the workspace, the      *)
(* agents that explore it and the tools that its files add, that           *)
(* WorkspaceProofs is about, with what each of them promises. They share   *)
(* no state.                                                               *)
(***************************************************************************)

CONSTANTS LogRecords, MaxFaults,                                \* of SessionLogs
          Paths, Words, MaxText, MaxPatch, MaxOps, MaxErrors,   \* of FileEdits
          MaxSegments, MaxCancels,                              \* of ShellCommands
          Texts, Proposed, Limit, MaxRecords, MaxLosses,        \* of MemoryRecords
          AgentIds, AgentScopes, SourceFiles, MaxTasks, MaxParallel, MaxDispatches,
          MaxFileChanges,                                       \* of Exploration
          Builtins, Late, Extensions, Packages, Offered, MaxRegistered, MaxOpened   \* of ToolCatalog

VARIABLES logsLog, stored, writing, logsState, writes,
          file, op, before, editsReported, editsOutcome, spoiled, budget,
          shellCall, shellPc, proc, stubborn, effects, report, shellOutcome, cancels,
          records, next, memoryTodo, word, cut, memoryCuts,
          exploreFile, agents, reports, batch, job, found, exploreOutcome, exploreBudget,
          extensions, packages, catalogRegistry, revision, skills, warnings,
          discovered, catalogShown, request, ran, catalogOpened

Logs == INSTANCE SessionLogs WITH log <- logsLog, state <- logsState, Records <- LogRecords
Edits == INSTANCE FileEdits WITH
    reported <- editsReported, outcome <- editsOutcome, MaxEdits <- MaxPatch
Shell == INSTANCE ShellCommands WITH call <- shellCall, pc <- shellPc, outcome <- shellOutcome
Memories == INSTANCE MemoryRecords WITH todo <- memoryTodo, cuts <- memoryCuts, MaxCuts <- MaxLosses
Explorations == INSTANCE Exploration WITH
    file <- exploreFile, outcome <- exploreOutcome, budget <- exploreBudget,
    Ids <- AgentIds, Scopes <- AgentScopes, Files <- SourceFiles, MaxChanges <- MaxFileChanges
Catalogs == INSTANCE ToolCatalog WITH
    shown <- catalogShown, registry <- catalogRegistry, opened <- catalogOpened,
    MaxRevision <- MaxRegistered

(* What a log still gives when it can be read (SessionLogs).                 *)
StoredIsRead == Logs!TypeOK /\ Logs!StoredIsRead

(* A tool reports what it did: a file tool its changes, undoing those it     *)
(* could not finish (FileEdits), a command what it ran, may touch and leaves *)
(* behind (ShellCommands).                                                   *)
ToolsAreHonest ==
    /\ Edits!TypeOK /\ Edits!EditsAreHonest
    /\ Shell!TypeOK /\ Shell!CommandsAreHonest

(* What is recalled is the user's last word (MemoryRecords).                 *)
RecallIsTheUsersWord == Memories!TypeOK /\ Memories!RecallIsTheUsersWord

(* Every task of a batch is accounted for (Exploration).                     *)
BatchesAreAccounted == Explorations!TypeOK /\ Explorations!BatchesAreAccounted

(* A call runs the tool the model was shown (ToolCatalog).                   *)
CallsRunWhatWasShown == Catalogs!TypeOK /\ Catalogs!CallsRunWhatWasShown
===============================================================================
