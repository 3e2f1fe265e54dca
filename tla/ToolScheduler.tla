---------------------------- MODULE ToolScheduler ----------------------------
(***************************************************************************)
(* The execution controller of the tools of one session                    *)
(* (tools/execution.py): a bounded queue, a semaphore of the session, a    *)
(* semaphore per limited group, a lock per serial group, deadlines and     *)
(* cancellation.  Every call is a task of its own; a step is what a task   *)
(* does between two awaits.                                                *)
(***************************************************************************)
EXTENDS Naturals, FiniteSets

CONSTANTS Jobs,        \* tool calls that are executed
          Slots,       \* max_parallel_per_session
          MaxPending,  \* max_pending_per_session
          GroupSlots,  \* max_parallel of the limited group
          MaxCancels,  \* how often one call's task is cancelled
          Mixes        \* the policies that the calls may have

VARIABLES policy,   \* concurrency policy of a call
          at,       \* where the call's task is
          held,     \* semaphores and locks that the call has acquired
          due,      \* the call's deadline has passed
          handler,  \* the task that runs the handler
          end,      \* how run() ended
          cancels   \* cancellations of the call's task so far

jobVars == << policy, at, held, due, handler, end, cancels >>

\* A plain parallel tool, one of a group with max_parallel (an MCP server), and
\* one of a serial group (workspace writes, the shell).
Policies == { "parallel", "limited", "serial" }

(* Plausible bugs: wrong versions of the definitions of their names.        *)
NeedsNoGroup(j) == IF policy[j] = "serial" THEN { "slot", "lock" } ELSE { "slot" }
-----------------------------------------------------------------------------

\* What a call must acquire, in this order.
Needs(j) == CASE policy[j] = "parallel" -> { "slot" }
              [] policy[j] = "limited"  -> { "slot", "group" }
              [] policy[j] = "serial"   -> { "slot", "lock" }

Waits == { "slot", "group", "lock" }
Pending == { j \in Jobs : at[j] \in Waits }
Holders(r) == { j \in Jobs : r \in held[j] }
Capacity == [ slot |-> Slots, group |-> GroupSlots, lock |-> 1 ]

SchedulerInit ==
    /\ policy \in Mixes
    /\ at = [ j \in Jobs |-> "new" ]
    /\ held = [ j \in Jobs |-> { } ]
    /\ due = [ j \in Jobs |-> FALSE ]
    /\ handler = [ j \in Jobs |-> "none" ]
    /\ end = [ j \in Jobs |-> "none" ]
    /\ cancels = [ j \in Jobs |-> 0 ]

\* The call's task leaves run() and gives back what it holds.
Leave(j, how) ==
    /\ at' = [ at EXCEPT ![j] = "done" ]
    /\ end' = [ end EXCEPT ![j] = how ]
    /\ held' = [ held EXCEPT ![j] = { } ]

\* run() is on its way out: only the cleanup is left.
CleanUp(j, how) ==
    /\ at' = [ at EXCEPT ![j] = "cleanup" ]
    /\ end' = [ end EXCEPT ![j] = how ]

-----------------------------------------------------------------------------
(* Queueing *)

Submit(j) ==
    /\ at[j] = "new"
    /\ IF Cardinality(Pending) >= MaxPending
       THEN Leave(j, "queue full")
       ELSE at' = [ at EXCEPT ![j] = "slot" ] /\ UNCHANGED << held, end >>
    /\ UNCHANGED << policy, due, handler, cancels >>

\* With the last resource the call goes on to start its handler, unless the
\* deadline has passed by then; _wait_acquire does not try after the deadline.
Acquire(j) ==
    LET r == at[j]
        rest == Needs(j) \ (held[j] \cup { r })
    IN  /\ r \in Waits /\ ~due[j]
        /\ Cardinality(Holders(r)) < Capacity[r]
        /\ held' = [ held EXCEPT ![j] = @ \cup { r } ]
        /\ \/ /\ rest # { }
              /\ at' = [ at EXCEPT ![j] = CHOOSE n \in rest : TRUE ]
              /\ UNCHANGED << handler, end >>
           \/ /\ rest = { }
              /\ at' = [ at EXCEPT ![j] = "running" ]
              /\ handler' = [ handler EXCEPT ![j] = "running" ]
              /\ UNCHANGED end
           \/ rest = { } /\ CleanUp(j, "timed out") /\ UNCHANGED handler
        /\ UNCHANGED << policy, due, cancels >>

\* A plausible bug: the lock of a serial group is awaited without a timeout.
QueueTimeoutExceptLock(j) ==
    /\ at[j] \in { "slot", "group" } /\ due[j]
    /\ Leave(j, "queue timeout")
    /\ UNCHANGED << policy, due, handler, cancels >>

QueueTimeout(j) ==
    /\ at[j] \in Waits /\ due[j]
    /\ Leave(j, "queue timeout")
    /\ UNCHANGED << policy, due, handler, cancels >>

DeadlinePasses(j) ==
    /\ at[j] \in Waits \cup { "running" } /\ ~due[j]
    /\ due' = [ due EXCEPT ![j] = TRUE ]
    /\ UNCHANGED << policy, at, held, handler, end, cancels >>

-----------------------------------------------------------------------------
(* Execution *)

HandlerEnds(j) ==
    /\ handler[j] = "running"
    /\ handler' = [ handler EXCEPT ![j] = "ended" ]
    /\ UNCHANGED << policy, at, held, due, end, cancels >>

Return(j) ==
    /\ at[j] = "running" /\ handler[j] = "ended"
    /\ CleanUp(j, "returned")
    /\ UNCHANGED << policy, held, due, handler, cancels >>

\* The token is set and the handler gets its grace period (_stop_task).
ExecutionTimeout(j) ==
    /\ at[j] = "running" /\ due[j] /\ handler[j] = "running"
    /\ at' = [ at EXCEPT ![j] = "grace" ]
    /\ end' = [ end EXCEPT ![j] = "timed out" ]
    /\ UNCHANGED << policy, held, due, handler, cancels >>

\* After the grace period the handler's task is cancelled and awaited.
GraceEnds(j) ==
    /\ at[j] = "grace" /\ handler[j] = "running"
    /\ at' = [ at EXCEPT ![j] = "forced" ]
    /\ UNCHANGED << policy, held, due, handler, end, cancels >>

Stopped(j) ==
    /\ at[j] \in { "grace", "forced" } /\ handler[j] = "ended"
    /\ CleanUp(j, end[j])
    /\ UNCHANGED << policy, held, due, handler, cancels >>

\* Cleanup callbacks run for at most the grace period, then the lease is released.
Release(j) ==
    /\ at[j] = "cleanup"
    /\ Leave(j, end[j])
    /\ UNCHANGED << policy, due, handler, cancels >>

-----------------------------------------------------------------------------
(* Cancellation of the call's own task: first after the run's grace period, *)
(* once more when the run's resources are released.                         *)

Cancelled(j) ==
    /\ cancels[j] < MaxCancels
    /\ cancels' = [ cancels EXCEPT ![j] = @ + 1 ]

\* _acquire gives back what it holds on a timeout only.
CancelWaiting(j) ==
    /\ at[j] \in Waits /\ Cancelled(j)
    /\ at' = [ at EXCEPT ![j] = "done" ]
    /\ end' = [ end EXCEPT ![j] = "raised" ]
    /\ UNCHANGED << policy, held, due, handler >>

CancelRunning(j) ==
    /\ at[j] = "running" /\ Cancelled(j)
    /\ at' = [ at EXCEPT ![j] = "grace" ]
    /\ end' = [ end EXCEPT ![j] = "cancelled" ]
    /\ UNCHANGED << policy, held, due, handler >>

\* _stop_task swallows a cancellation that arrives during the grace period, and
\* leaves the handler running.
CancelInGrace(j) ==
    /\ at[j] = "grace" /\ Cancelled(j)
    /\ CleanUp(j, end[j])
    /\ UNCHANGED << policy, held, due, handler >>

\* A cancellation during the cleanup skips the release of the lease.
CancelCleanup(j) ==
    /\ at[j] = "cleanup" /\ Cancelled(j)
    /\ at' = [ at EXCEPT ![j] = "done" ]
    /\ end' = [ end EXCEPT ![j] = "raised" ]
    /\ UNCHANGED << policy, held, due, handler >>

-----------------------------------------------------------------------------
\* What happens by itself: time passes, and a handler ends at the latest when its
\* task has been cancelled.
Advance(j) ==
    \/ Submit(j) \/ QueueTimeout(j) \/ DeadlinePasses(j)
    \/ Return(j) \/ ExecutionTimeout(j)
    \/ GraceEnds(j) \/ Stopped(j) \/ Release(j)
    \/ at[j] = "forced" /\ HandlerEnds(j)

Step(j) ==
    \/ Advance(j) \/ Acquire(j) \/ HandlerEnds(j)
    \/ CancelWaiting(j) \/ CancelRunning(j) \/ CancelInGrace(j) \/ CancelCleanup(j)

SchedulerNext == \E j \in Jobs : Step(j)

SchedulerSpec == SchedulerInit /\ [][SchedulerNext]_jobVars

-----------------------------------------------------------------------------
SchedulerTypeOK ==
    /\ policy \in [ Jobs -> Policies ]
    /\ at \in [ Jobs -> Waits \cup { "new", "running", "grace", "forced", "cleanup", "done" } ]
    /\ held \in [ Jobs -> SUBSET Waits ] /\ \A j \in Jobs : held[j] \subseteq Needs(j)
    /\ due \in [ Jobs -> BOOLEAN ]
    /\ handler \in [ Jobs -> { "none", "running", "ended" } ]
    /\ end \in [ Jobs -> { "none", "queue full", "queue timeout", "timed out",
                           "returned", "cancelled", "raised" } ]
    /\ cancels \in [ Jobs -> 0..MaxCancels ]

Running(p) == { j \in Jobs : handler[j] = "running" /\ policy[j] \in p }

Abandoned(j) == handler[j] = "running" /\ at[j] \notin { "running", "grace", "forced" }

(* Never more handlers run at once than the session, a limited group and a  *)
(* serial group allow, whatever times out or is cancelled; only a handler   *)
(* whose call was cancelled in its grace period runs on without a lease     *)
(* (_acquire, _stop_task).                                                  *)
WithinLimits ==
    \/ \E j \in Jobs : Abandoned(j) /\ cancels[j] > 0
    \/ /\ Cardinality(Running(Policies)) <= Slots
       /\ Cardinality(Running({ "limited" })) <= GroupSlots
       /\ Cardinality(Running({ "serial" })) <= 1

(* However a call ends by itself (result, full queue, timeout in the queue   *)
(* or in the handler), it has given back all it acquired and its handler has *)
(* ended (_acquire, _Lease.release, _stop_task).                             *)
LeaseReturned ==
    \A j \in Jobs : at[j] = "done" /\ cancels[j] = 0 =>
        held[j] = { } /\ handler[j] # "running"

(* The limits hold, and what a call acquired within them is given back.      *)
LimitsRespected == SchedulerTypeOK /\ WithinLimits /\ LeaseReturned

(* Every call ends: no combination of limits, serial groups and resources    *)
(* that were lost makes one wait longer than its deadline.                   *)
EveryJobEnds == \A j \in Jobs : at[j] = "slot" ~> at[j] = "done"

(* execution.py:241 (_Lease): all concurrency resources that were acquired   *)
(* are correctly returned after a tool's execution.                          *)
SlotsReturned == \A j \in Jobs : at[j] = "done" /\ handler[j] = "ended" => held[j] = { }
=============================================================================
