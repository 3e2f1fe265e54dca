------------------------------ MODULE ToolCatalog ------------------------------
(***************************************************************************)
(* The tools a session offers: built-in ones, those of skills, extensions  *)
(* and MCP servers, put together when the session is opened                *)
(* (runtime/builder.py, tools/registry.py, extensions), shown to the model *)
(* as a catalog, and looked up again when a call runs, perhaps after an    *)
(* approval and in another process.                                        *)
(***************************************************************************)
EXTENDS Naturals, Sequences, FiniteSets, SequencesExt

CONSTANTS Builtins, Late,      \* built-in tools, registered first and last
          Extensions,          \* what the workspace's extensions may contain
          Packages,            \* what its skill directories may contain
          Offered,             \* what the MCP servers may offer
          MaxRevision, MaxOpened   \* bounds

VARIABLES extensions, packages,   \* files of the workspace
          registry,               \* tools by name
          revision,               \* counts registrations
          skills,                 \* packages of the skill catalog, in their order
          warnings,               \* what was not taken in
          discovered,             \* the MCP servers were asked
          shown,                  \* the catalog the model has seen
          request,                \* a call that waits for its approval
          ran,                    \* the last call
          opened

catalogVars == << extensions, packages, registry, revision, skills, warnings, discovered,
                  shown, request, ran, opened >>

Reserved == { t.name : t \in Late }
None == [ state |-> "none" ]
Empty == [ n \in { } |-> None ]

\* A tool declares its name, where it comes from, its version and its modes.
Tool(name, source, version, modes) ==
    [ name |-> name, source |-> source, version |-> version, modes |-> modes ]

-----------------------------------------------------------------------------
(* The registry *)

\* Reserved names are for built-in tools, and no name is given twice.
Refuses(tools, t) ==
    \/ t.name \in Reserved /\ t.source # "builtin"
    \/ t.name \in DOMAIN tools

\* A registration's id is a digest of the declaration and of the revision.
Register(old, t) ==
    IF Refuses(old.tools, t) THEN [ old EXCEPT !.warnings = @ \cup { t } ]
    ELSE [ old EXCEPT !.count = @ + 1,
             !.tools = [ n \in DOMAIN old.tools \cup { t.name } |->
                           IF n = t.name THEN [ tool |-> t, id |-> << t, old.count + 1 >> ]
                           ELSE old.tools[n] ] ]

RegisterAll(old, tools) ==
    LET after[n \in 0..Len(tools)] == IF n = 0 THEN old ELSE Register(after[n - 1], tools[n])
    IN  after[Len(tools)]

-----------------------------------------------------------------------------
(* Skills *)

\* A package whose manifest is refused, whose name or command is taken, is an
\* error; the others are loaded.
AddPackage(old, p) ==
    IF \/ ~p.valid
       \/ \E q \in Range(old.skills) :
            q.name = p.name \/ (p.command # "none" /\ q.command = p.command)
    THEN [ old EXCEPT !.errors = @ \cup { p } ]
    ELSE [ old EXCEPT !.skills = Append(@, p) ]

NoSkills == [ skills |-> << >>, errors |-> { } ]
LoadSkills(found) ==
    LET after[n \in 0..Len(found)] == IF n = 0 THEN NoSkills ELSE AddPackage(after[n - 1], found[n])
    IN  after[Len(found)]

\* By name, then by command.
Find(list, key) ==
    LET named == { p \in Range(list) : p.name = key }
        commanded == { p \in Range(list) : p.command = key }
    IN  IF named # { } THEN named ELSE commanded

SkillTools(list) ==
    IF list = << >> THEN << >>
    ELSE << Tool("load_skill", "skill", 1, { "plan", "execute" }),
            Tool("read_skill_resource", "skill", 1, { "plan", "execute" }) >>

-----------------------------------------------------------------------------
(* Opening a session *)

\* Built-in tools, the skills' two, the extensions' tools one by one; then
\* those for plans, questions and exploration.
Assembled ==
    LET loaded == LoadSkills(packages)
        first == RegisterAll([ tools |-> Empty, count |-> 0, warnings |-> { } ], SetToSeq(Builtins))
        second == RegisterAll(first, SkillTools(loaded.skills) \o extensions)
    IN  [ registry |-> RegisterAll(second, SetToSeq(Late)), loaded |-> loaded ]

Open ==
    /\ opened < MaxOpened /\ opened' = opened + 1
    /\ registry' = Assembled.registry.tools /\ revision' = Assembled.registry.count
    /\ skills' = Assembled.loaded.skills
    /\ warnings' = Assembled.registry.warnings \cup Assembled.loaded.errors
    /\ discovered' = FALSE /\ shown' = Empty /\ ran' = None
    /\ UNCHANGED << extensions, packages, request >>

Init ==
    /\ extensions \in Extensions /\ packages \in Packages
    /\ registry = Empty /\ revision = 0 /\ skills = << >> /\ warnings = { }
    /\ discovered = FALSE /\ shown = Empty /\ request = None /\ ran = None /\ opened = 0

\* The files of the workspace take effect when the session is opened again.
ChangeFiles ==
    /\ opened > 0 /\ extensions' \in Extensions /\ packages' \in Packages
    /\ UNCHANGED << registry, revision, skills, warnings, discovered, shown, request, ran, opened >>

\* Before a prompt; not before an approval or a continuation.
Discover(offer) ==
    /\ opened > 0 /\ ~discovered /\ discovered' = TRUE
    /\ LET new == RegisterAll([ tools |-> registry, count |-> revision, warnings |-> warnings ], offer)
       IN  /\ new.count <= MaxRevision
           /\ registry' = new.tools /\ revision' = new.count /\ warnings' = new.warnings
    /\ UNCHANGED << extensions, packages, skills, shown, request, ran, opened >>

-----------------------------------------------------------------------------
(* Calls *)

Snapshot(mode) == { n \in DOMAIN registry : mode \in registry[n].tool.modes }

ShowCatalog(mode) ==
    /\ opened > 0 /\ shown' = [ n \in Snapshot(mode) |-> registry[n] ]
    /\ UNCHANGED << extensions, packages, registry, revision, skills, warnings, discovered,
                    request, ran, opened >>

\* A name that was not in the catalog has no registration.
Requested(name) ==
    IF name \in DOMAIN shown
    THEN [ state |-> "waiting", name |-> name, id |-> shown[name].id, seen |-> shown[name].tool ]
    ELSE [ state |-> "waiting", name |-> name, id |-> << >>, seen |-> None ]

(* A plausible bug: the tool is looked up by its name.                       *)
MaterializeByName(r) ==
    IF r.name \notin DOMAIN registry THEN "not_found" ELSE "found"

Materialize(r) ==
    IF r.name \notin DOMAIN registry THEN "not_found"
    ELSE IF registry[r.name].id # r.id THEN "stale" ELSE "found"

Runs(r) ==
    ran' = IF Materialize(r) = "found"
           THEN [ state |-> "ran", seen |-> r.seen, tool |-> registry[r.name].tool ]
           ELSE [ state |-> Materialize(r), seen |-> r.seen ]

Call(name) ==
    /\ shown # Empty /\ Runs(Requested(name))
    /\ UNCHANGED << extensions, packages, registry, revision, skills, warnings, discovered,
                    shown, request, opened >>

\* The call waits for its approval, which the checkpoint keeps.
Suspend(name) ==
    /\ shown # Empty /\ request = None /\ Materialize(Requested(name)) = "found"
    /\ request' = Requested(name)
    /\ UNCHANGED << extensions, packages, registry, revision, skills, warnings, discovered,
                    shown, ran, opened >>

\* An approval looks the registration up again.
Resume ==
    /\ opened > 0 /\ request # None /\ request' = None /\ Runs(request)
    /\ UNCHANGED << extensions, packages, registry, revision, skills, warnings, discovered,
                    shown, opened >>

Names == { t.name : t \in Builtins \cup Late }
           \cup UNION { { t.name : t \in Range(x) } : x \in Extensions \cup Offered }

Next ==
    \/ Open \/ ChangeFiles \/ Resume
    \/ \E offer \in Offered : Discover(offer)
    \/ \E mode \in { "plan", "execute" } : ShowCatalog(mode)
    \/ \E name \in Names : Call(name) \/ Suspend(name)

Spec == Init /\ [][Next]_catalogVars

-----------------------------------------------------------------------------
(* Properties *)

TypeOK ==
    /\ revision \in Nat /\ opened \in 0..MaxOpened /\ discovered \in BOOLEAN
    /\ \A n \in DOMAIN registry : registry[n].tool.name = n

(* A call runs the tool the model was shown, or none: also when it waited    *)
(* for its approval while the session was opened again with other extensions *)
(* or servers. The built-in tools are there whatever the others offer, no    *)
(* two registrations have one number, no two skills answer to one name or    *)
(* command, and a skill is found by its own name (ToolRegistry,              *)
(* build_runtime_tools, SkillCatalog).                                       *)
CallsRunWhatWasShown ==
    /\ ran.state = "ran" => ran.tool = ran.seen
    /\ opened > 0 =>
         /\ \A t \in Builtins \cup Late : t.name \in DOMAIN registry /\ registry[t.name].tool = t
         /\ \A n, m \in DOMAIN registry : n # m => registry[n].id[2] # registry[m].id[2]
    /\ \A i, j \in DOMAIN skills : i # j =>
         /\ skills[i].name # skills[j].name
         /\ skills[i].command # "none" => skills[i].command # skills[j].command
    /\ \A p \in Range(skills) : Find(skills, p.name) = { p }
=============================================================================
