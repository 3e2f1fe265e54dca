----------------------------- MODULE MCServices -----------------------------
(***************************************************************************)
(* Instances of the modules about the services around the Core loop for    *)
(* TLC: the plan, model calls, MCP servers, the web backend, the chat      *)
(* bridge, the commands of a session and an evaluation suite. They share   *)
(* no state, so a behaviour runs one of them, or one of the parts of       *)
(* MCWorkspace, which the first state chooses.                             *)
(***************************************************************************)
EXTENDS MCWorkspace

CONSTANTS Parts   \* the parts that are run

\* A task, a scenario and a case of context compression.
EvaluationSuite ==
    << [ variants |-> 1, steps |-> << "prompt", "check" >> ],
       [ variants |-> 1, steps |-> << "prompt", "restart", "edit", "prompt", "check" >> ],
       [ variants |-> 2, steps |-> << "prompt", "check" >> ] >>

planVars == << plan, evidence, raised >>
modelVars == << purpose, streaming, attempt, provider, message, modelQueue, result, modelClosed,
                buffer, seen, proposals, outcome >>
mcpVars == << server, opened, open, discovery, ready, registry, said, call, closed, cuts >>
webVars == << task, pending, resolution, published, kept, queue, wire, link, have, last,
              drops >>
bridgeVars == << tracked, state, holder, session, dirty, copies, sent, excused >>
commandsVars == << commandsDisk, ctl, exec, todo, follow, runs, commandsCrashes >>
evaluationVars == << policy, pc, at, evaluationSession, checks, verdicts, spaces,
                     stuck, rows, summary, wrong >>

ServicesInit ==
    /\ Plans!Init /\ Models!Init /\ Mcp!Init /\ Web!Init /\ Bridge!Init /\ Evaluations!Init
    /\ Commands!Init
    /\ purpose = "finalization" \/ ~streaming => part = "model"
    /\ dirty => part = "bridge"
    /\ policy # "all" => part = "evaluation"

ServicesNext ==
    \/ /\ part = "plan" /\ Plans!Next
       /\ UNCHANGED << part, modelVars, mcpVars, webVars, bridgeVars,
                       commandsVars, evaluationVars >>
    \/ /\ part = "model" /\ Models!Next
       /\ UNCHANGED << part, planVars, mcpVars, webVars, bridgeVars,
                       commandsVars, evaluationVars >>
    \/ /\ part = "mcp" /\ Mcp!Next
       /\ UNCHANGED << part, planVars, modelVars, webVars, bridgeVars,
                       commandsVars, evaluationVars >>
    \/ /\ part = "web" /\ Web!Next
       /\ UNCHANGED << part, planVars, modelVars, mcpVars, bridgeVars,
                       commandsVars, evaluationVars >>
    \/ /\ part = "bridge" /\ Bridge!Next
       /\ UNCHANGED << part, planVars, modelVars, mcpVars, webVars,
                       commandsVars, evaluationVars >>
    \/ /\ part = "commands" /\ Commands!Next
       /\ UNCHANGED << part, planVars, modelVars, mcpVars, webVars,
                       bridgeVars, evaluationVars >>
    \/ /\ part = "evaluation" /\ Evaluations!Next
       /\ UNCHANGED << part, planVars, modelVars, mcpVars, webVars,
                       bridgeVars, commandsVars >>

servicesVars == << planVars, modelVars, mcpVars, webVars, bridgeVars,
                   commandsVars, evaluationVars >>

Init == part \in Parts /\ WorkspaceInit /\ ServicesInit
Next ==
    \/ WorkspaceNext /\ UNCHANGED servicesVars
    \/ ServicesNext /\ UNCHANGED workspaceVars
vars == << part, workspaceVars, servicesVars >>

Spec == Init /\ [][Next]_vars

(* docs/design/1core-design.md:326: an invalid plan command is rejected      *)
(* (PlanSteps).                                                              *)
CommandsAnswered == part = "plan" => Plans!TypeOK /\ Plans!CommandsAnswered

=============================================================================
