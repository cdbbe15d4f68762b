---------------------------- MODULE SchedAccount ----------------------------
(***************************************************************************)
(* Execution-time accounting.  ran[p] is the time p has really had the     *)
(* CPU since it was forked; sum_exec_runtime is what update_curr_wrr,      *)
(* update_curr_rt and the fair class have charged to it.                   *)
(***************************************************************************)
EXTENDS Sched

CONSTANT MaxCharged   \* bound on sum_exec_runtime

VARIABLE ran

allvars == <<task, rq, ran>>

AccountInit == Init /\ ran = [p \in Task |-> 0]

Fresh(p) == task'[p].newborn \/ task'[p].state = "DEAD"

AccountNext ==
  /\ Next
  /\ ran' = [p \in Task |->
               IF Fresh(p) THEN 0
               ELSE IF p = Curr THEN ran[p] + (rq'.clock_task - rq.clock_task)
               ELSE ran[p]]
  /\ \A p \in Task : task'[p].sum_exec_runtime =< MaxCharged

AccountSpec == AccountInit /\ [][AccountNext]_allvars

OffCpu == {p \in Task : Alive(p) /\ p # Curr}

\* Every way off the CPU - preemption, sleep, yield, a change of class - charges
\* the time since the last update: a task is never charged less than it ran.
NoTimeLost == \A p \in OffCpu : task[p].sum_exec_runtime >= ran[p]
=============================================================================
