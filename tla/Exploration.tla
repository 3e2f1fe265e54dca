----------------------------- MODULE Exploration -----------------------------
(***************************************************************************)
(* Exploration subagents (runtime/subagents/runner.py, tools.py): a plan    *)
(* mode tool call dispatches a batch of read-only tasks that run in         *)
(* parallel, and keeps their reports for later batches of the session.      *)
(***************************************************************************)
EXTENDS Naturals, Sequences, FiniteSets, SequencesExt

CONSTANTS Ids, Scopes, Files, MaxTasks, MaxParallel, MaxDispatches, MaxChanges

VARIABLES file,     \* contents of the workspace files, as versions
          agents,   \* registered agents and the scope of each
          reports,  \* stored reports of every agent
          batch,    \* the dispatch: tasks, reuse mode, store when it began
          job,      \* what becomes of each of its tasks
          found,    \* what is reported of each
          outcome,  \* how the dispatch ended
          budget

exploreVars == << file, agents, reports, batch, job, found, outcome, budget >>

Tasks == [ id : Ids, scope : Scopes, critical : BOOLEAN ]
Statuses == { "completed", "failed", "invalid_output" }
Outside == "outside"      \* a path that is not in the workspace
Citations == { { }, Files, { Outside } }
NoScope == "none"
NoBatch == [ tasks |-> << >>, reuse |-> "auto", stored |-> << >> ]
Focus(scope) == Files

\* The store outlives the batches of a session: one agent may have a report already; one
\* of invalid output is reused like a failed one.
Init ==
    /\ file = [ f \in Files |-> 0 ]
    /\ \E known \in SUBSET Ids, scope \in Scopes, status \in { "completed", "failed" } :
         /\ Cardinality(known) <= 1
         /\ agents = [ a \in Ids |-> IF a \in known THEN scope ELSE NoScope ]
         /\ reports = [ a \in Ids |->
                          IF a \in known
                          THEN << [ status |-> status, agent |-> a, evidence |-> file ] >>
                          ELSE << >> ]
    /\ batch = NoBatch /\ job = << >> /\ found = << >> /\ outcome = "none"
    /\ budget = [ dispatches |-> MaxDispatches, changes |-> MaxChanges ]

-----------------------------------------------------------------------------
(* The store *)

\* report_is_stale: a file that the report cites has changed since it was stored.
Stale(report) == \E f \in DOMAIN report.evidence : file[f] # report.evidence[f]

Latest(a) == IF reports[a] = << >> THEN { } ELSE { Last(reports[a]) }

\* _cached_report_for: the agent's own last report, or that of an agent of the scope.
Cached(task) ==
    IF Latest(task.id) # { } THEN Latest(task.id)
    ELSE LET peers == { a \in Ids : agents[a] = task.scope }
         IN  IF peers = { } THEN { } ELSE Latest(CHOOSE a \in peers : TRUE)

-----------------------------------------------------------------------------
(* A batch *)

\* A task repeats the agent or the scope of one before it that is no duplicate itself.
Repeats(tasks, i, dup) ==
    \E j \in 1..(i - 1) \ dup :
        tasks[j].id = tasks[i].id \/ tasks[j].scope = tasks[i].scope
Duplicates(tasks) ==
    CHOOSE dup \in SUBSET DOMAIN tasks :
        \A i \in DOMAIN tasks : i \in dup <=> Repeats(tasks, i, dup)

\* The call's handler is at work; it may outlive a call that was cancelled.
Busy == outcome \in { "running", "stopping" }

\* The third reuse mode, force_refresh, differs from no_reuse in the prompts only.
Dispatch(tasks, reuse) ==
    /\ ~Busy /\ budget.dispatches > 0
    /\ budget' = [ budget EXCEPT !.dispatches = @ - 1 ]
    /\ batch' = [ tasks |-> tasks, reuse |-> reuse, stored |-> reports ]
    /\ LET Reused(i) == reuse = "auto" /\ \E r \in Cached(tasks[i]) : ~Stale(r)
       IN  /\ job' = [ i \in DOMAIN tasks |->
                         IF i \in Duplicates(tasks) THEN "duplicate"
                         ELSE IF Reused(i) THEN "reused" ELSE "waiting" ]
           /\ found' = [ i \in DOMAIN tasks |->
                         IF i \notin Duplicates(tasks) /\ Reused(i)
                         THEN LET r == CHOOSE r \in Cached(tasks[i]) : TRUE
                              IN  [ status |-> r.status, agent |-> r.agent,
                                    cited |-> DOMAIN r.evidence ]
                         ELSE [ status |-> "none", agent |-> tasks[i].id, cited |-> { } ] ]
    /\ outcome' = "running"
    /\ UNCHANGED << file, agents, reports >>

Running == { i \in DOMAIN job : job[i] = "running" }

\* run_one holds a slot of the semaphore.
Start(i) ==
    /\ Busy /\ job[i] = "waiting" /\ Cardinality(Running) < MaxParallel
    /\ job' = [ job EXCEPT ![i] = "running" ]
    /\ UNCHANGED << file, agents, reports, batch, found, outcome, budget >>

\* SubagentRunner.run: the subagent's Core run ends, with an answer that can be read or
\* not; an exception, the deadline or a run that waits for the user is a failure.
Finish(i, status, cited) ==
    /\ Busy /\ job[i] = "running"
    /\ status = "invalid_output" => cited = { }
    /\ job' = [ job EXCEPT ![i] = "finished" ]
    /\ found' = [ found EXCEPT ![i].status = status, ![i].cited = cited ]
    /\ UNCHANGED << file, agents, reports, batch, outcome, budget >>

\* The hashes of the cited files, or else of those the task is about, are taken now.
Stored(i) ==
    LET paths == IF found[i].cited = { } THEN Focus(batch.tasks[i].scope) ELSE found[i].cited
    IN  [ status |-> found[i].status, agent |-> batch.tasks[i].id,
          evidence |-> [ f \in paths |-> file[f] ] ]

\* All tasks are over: reports are stored in order; one that cites a path outside the
\* workspace makes the whole call invalid, and the reports behind it are lost.
Fresh == { i \in DOMAIN job : job[i] = "finished" }
Escaping == { i \in Fresh : Outside \in found[i].cited }
Before(i) == \A j \in Escaping : i < j

\* A report is registered with the scope of the first task of its agent.
FirstOf(a) ==
    CHOOSE i \in DOMAIN batch.tasks :
        batch.tasks[i].id = a /\ \A j \in DOMAIN batch.tasks : batch.tasks[j].id = a => i <= j

Gather ==
    /\ Busy /\ \A i \in DOMAIN job : job[i] \in { "duplicate", "reused", "finished" }
    /\ reports' = [ a \in Ids |->
                      reports[a] \o SetToSeq({ Stored(i) : i \in { j \in Fresh :
                                                  Before(j) /\ batch.tasks[j].id = a } }) ]
    /\ agents' = [ a \in Ids |->
                     IF \E j \in Fresh : (\A k \in Escaping : j <= k) /\ batch.tasks[j].id = a
                     THEN batch.tasks[FirstOf(a)].scope ELSE agents[a] ]
    /\ outcome' = IF outcome = "stopping" THEN "cancelled"
                  ELSE IF Escaping = { } THEN "ok" ELSE "invalid_request"
    /\ UNCHANGED << file, batch, job, found, budget >>

\* The call is cancelled or times out.  Its handler, which looks at the token only before and
\* after the batch, has a grace period; a second cancellation leaves it alone with its tasks.
Stop ==
    /\ outcome = "running" /\ outcome' = "stopping"
    /\ UNCHANGED << file, agents, reports, batch, job, found, budget >>

\* The grace period is over: gather cancels the tasks and waits for them.
Cancel ==
    /\ outcome = "stopping" /\ outcome' = "cancelled"
    /\ job' = [ i \in DOMAIN job |-> IF job[i] \in { "waiting", "running" } THEN "cancelled"
                                     ELSE job[i] ]
    /\ UNCHANGED << file, agents, reports, batch, found, budget >>

\* Somebody changes a file of the workspace; subagents cannot (RestrictedToolPort).
Change(f) ==
    /\ budget.changes > 0 /\ budget' = [ budget EXCEPT !.changes = @ - 1 ]
    /\ file' = [ file EXCEPT ![f] = @ + 1 ]
    /\ UNCHANGED << agents, reports, batch, job, found, outcome >>

Next ==
    \/ \E n \in 1..MaxTasks : \E tasks \in [ 1..n -> Tasks ] :
         \E reuse \in { "auto", "no_reuse" } : Dispatch(tasks, reuse)
    \/ \E i \in DOMAIN job :
         \/ Start(i)
         \/ \E status \in Statuses, cited \in Citations : Finish(i, status, cited)
    \/ Gather \/ Stop \/ Cancel \/ (\E f \in Files : Change(f))

Spec == Init /\ [][Next]_exploreVars

-----------------------------------------------------------------------------
(* A plausible bug: a batch fails only if nothing at all was completed.      *)
BatchStatusLenient(tasks, failures, done) ==
    IF failures # { } /\ ~done THEN "failed" ELSE IF failures # { } THEN "partial_failed" ELSE "completed"

\* _batch_status: failures are those of the agents the reports name.
BatchStatus(tasks, failures, done) ==
    IF (\E i \in DOMAIN tasks : tasks[i].critical /\ tasks[i].id \in failures)
       \/ (failures # { } /\ ~done) THEN "failed"
    ELSE IF failures # { } THEN "partial_failed" ELSE "completed"

TheBatchStatus ==
    BatchStatus(batch.tasks, { r.agent : r \in { x \in Range(found) : x.status \in { "failed", "invalid_output" } } },
                \E r \in Range(found) : r.status = "completed")

TypeOK ==
    /\ outcome \in { "none", "running", "stopping", "ok", "invalid_request", "cancelled" }
    /\ DOMAIN job = DOMAIN batch.tasks /\ DOMAIN found = DOMAIN job
    /\ \A a \in Ids : agents[a] \in Scopes \cup { NoScope }

\* The report of a task is the one that its agent got in the batch.
Kept(i) ==
    LET a == batch.tasks[i].id
    IN  Len(reports[a]) = Len(batch.stored[a]) + 1 /\ \E r \in Latest(a) : r.status = found[i].status

(* No more tasks run than slots exist, and none when the handler is over; a  *)
(* call that succeeds has a report for every task that is no duplicate, all  *)
(* fresh ones are stored, once and as the last of their agents, a batch that *)
(* counts as completed has no failed report, and one with a critical task    *)
(* that failed counts as failed; a cancelled call stores the reports of all  *)
(* its tasks, up to one that escapes, or of none                             *)
(* (ExplorationCoordinator.dispatch, _run_parallel, _batch_status,           *)
(* _stop_task).                                                              *)
BatchesAreAccounted ==
    /\ Cardinality(Running) <= MaxParallel
    /\ ~Busy => Running = { }
    /\ outcome = "cancelled" =>
         \/ reports = batch.stored
         \/ \A i \in DOMAIN job : job[i] # "cancelled" /\ (i \in Fresh /\ Before(i) => Kept(i))
    /\ outcome = "ok" =>
         /\ \A i \in DOMAIN job : job[i] # "duplicate" => found[i].status \in Statuses
         /\ \A i \in Fresh : Kept(i)
         /\ TheBatchStatus = "completed" => \A i \in DOMAIN found : found[i].status \in { "none", "completed" }
         /\ (\E i \in Fresh : batch.tasks[i].critical /\ found[i].status # "completed")
              => TheBatchStatus = "failed"
=============================================================================
