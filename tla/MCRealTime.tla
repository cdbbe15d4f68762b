---------------------------- MODULE MCRealTime ----------------------------
(***************************************************************************)
(* The real-time class between CPUs and groups in one run of TLC, each     *)
(* component on its own: part says which of them moves.  "balance" pushes  *)
(* and pulls tasks, "quota" shares the run time of a group between CPUs,   *)
(* "groups" admits limits into the tree of groups.  A property is about    *)
(* the states of its component.                                            *)
(***************************************************************************)
EXTENDS Integers, Sequences, FiniteSets, TLC

CONSTANT Parts                              \* the parts of this run
CONSTANTS r1, r2, r3, ga, gb
CONSTANTS RbTask, RbCpus, RbPrio, MAX_RT_PRIO, RT_MAX_TRIES, RbAffine,
          RbModes                           \* RtBalance
CONSTANTS RtCpus, RUNTIME_INF, RtPeriod, RtRuntime, NewRuntimes, RtDelta,
          RtMaxTime, RtModes                \* RtQuota
CONSTANTS Groups, GroupTasks, Periods, Runtimes, GlobalWrites, RG_INF  \* RtGroups

VARIABLE part
VARIABLES rbmode, rb, job
VARIABLES rtmode, quota, rtrq, ptimer, line, wanting, reset
VARIABLES band, global, defperiod, handler, gwriter, member

Balance == INSTANCE RtBalance
Quota == INSTANCE RtQuota
Promises == INSTANCE RtGroups

ASSUME Balance!RtBalanceAssumption
ASSUME Quota!RtQuotaAssumption
ASSUME Promises!RtGroupsAssumption

MCRuntimes == {-1, 0, 2}

\* The third pair fails the sanity check of the sysctls: it is stored, seen by
\* the others, and put back.
MCGlobalWrites == {<<4, 3>>, <<4, -1>>, <<4, 5>>}

\* r1 is the real-time task whose affinity is changed.
RtSym == Permutations({r2, r3}) \cup Permutations({ga, gb})

\* Bound: where one real-time task changes its affinity, the others may use
\* every CPU; in the other behaviours a task may also be bound to one.
OthersAnywhere ==
  part = "balance" /\ rbmode = "affinity" =>
    \A t \in RbTask \ RbAffine : rb.task[t].mask = Balance!RbCpu

BalanceVars == <<rbmode, rb, job>>
QuotaVars == <<rtmode, quota, rtrq, ptimer, line, wanting, reset>>
PromisesVars == <<band, global, defperiod, handler, gwriter, member>>

\* A component that does not move has no state.
NoState == 0

NoBalance ==
  /\ rbmode = NoState /\ rb = NoState /\ job = NoState

NoQuota ==
  /\ rtmode = NoState /\ quota = NoState /\ rtrq = NoState
  /\ ptimer = NoState /\ line = NoState /\ wanting = NoState /\ reset = NoState

NoPromises ==
  /\ band = NoState /\ global = NoState /\ defperiod = NoState
  /\ handler = NoState /\ gwriter = NoState /\ member = NoState

MCInit ==
  /\ part \in Parts
  /\ \/ part = "balance" /\ Balance!RtBalanceInit /\ NoQuota /\ NoPromises
     \/ part = "quota" /\ Quota!RtQuotaInit /\ NoBalance /\ NoPromises
     \/ part = "groups" /\ Promises!RtGroupsInit /\ NoBalance /\ NoQuota

MCNext ==
  \/ part = "balance" /\ Balance!RtBalanceNext /\ UNCHANGED <<part, QuotaVars, PromisesVars>>
  \/ part = "quota" /\ Quota!RtQuotaNext /\ UNCHANGED <<part, BalanceVars, PromisesVars>>
  \/ part = "groups" /\ Promises!RtGroupsNext /\ UNCHANGED <<part, BalanceVars, QuotaVars>>

MCVars == <<part, BalanceVars, QuotaVars, PromisesVars>>
MCSpec == MCInit /\ [][MCNext]_MCVars
-----------------------------------------------------------------------------
(* RtBalance *)

\* The list of pushable tasks, the priority read without the lock and the mask
\* of overloaded CPUs are exact (enqueue_pushable_task, update_rt_migration).
BalanceStateExact == part = "balance" => Balance!BalanceStateExact

\* When all is quiet, no task waits while a CPU it may use runs a lower one; in
\* the behaviours in which tasks wake up and sleep, but no affinity or priority
\* is changed (push_rt_task, pull_rt_task).
NobodyWaitsBelow == part = "balance" => Balance!NobodyWaitsBelow

\* No task is moved while it runs, nor to a CPU it may not use
\* (find_lock_lowest_rq).
RunningStaysPut == [][part = "balance" => Balance!MoveStep]_MCVars

(* RtQuota *)

\* Run time is neither made nor lost, unless a queue that takes part is enabled
\* a second time (do_balance_runtime, __disable_runtime, __enable_runtime).
RunTimeExact == part = "quota" => Quota!RunTimeExact

\* A group that is kept off its queue has a timer that puts it back
\* (start_rt_bandwidth, do_sched_rt_period_timer).
ThrottledIsWatched == part = "quota" => Quota!ThrottledIsWatched

(* RtGroups *)

\* No group promises more than it has, whatever the sysctls are set to
\* meanwhile (tg_rt_schedulable, sched_rt_handler).
PromisesNest == part = "groups" => Promises!PromisesNest

\* No group has more than the global limit
\* (tg_rt_schedulable, sched_rt_handler).
GlobalLimitHolds == part = "groups" => Promises!GlobalLimitHolds
=============================================================================
