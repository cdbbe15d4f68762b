------------------------------ MODULE RtGroups ------------------------------
(***************************************************************************)
(* The real-time bandwidth of the task-group tree (CONFIG_RT_GROUP_SCHED): *)
(* the writes of cpu.rt_runtime_us and cpu.rt_period_us, the global limit  *)
(* behind /proc/sys/kernel/sched_rt_*, and the tasks that enter a group or *)
(* become real-time in it. Admission is checked over the whole tree with   *)
(* rt_constraints_mutex held; the values a writer starts from, the sysctl  *)
(* variables and the checks on a task are read outside of it.              *)
(***************************************************************************)
EXTENDS Integers, FiniteSets, FiniteSetsExt, TLC

CONSTANTS
    Groups,         \* the task groups that may be created
    GroupTasks,     \* user tasks
    Periods,        \* periods written; 0 is refused
    Runtimes,       \* run times written; a negative one means no limit
    GlobalWrites,   \* <<period, runtime>> pairs the two sysctls are set to; the
                    \* period stays positive, which proc_dointvec() does not ask for
    RG_INF          \* RUNTIME_INF

\* What the constants must satisfy.
RtGroupsAssumption ==
    /\ Periods \subseteq Nat /\ Runtimes \subseteq Int
    /\ \A r \in Runtimes \cup Periods : r < RG_INF
    /\ \A w \in GlobalWrites : w[1] > 0

VARIABLES
    band,       \* rt_bandwidth of every group that exists, and its parent
    global,     \* sysctl_sched_rt_period and sysctl_sched_rt_runtime
    defperiod,  \* def_rt_bandwidth.rt_period, which a new group starts with
    handler,    \* the sysctl write in progress: the values to go back to
    gwriter,     \* the write of a group's file in progress
    member      \* the group of each task, its policy, and the check it has passed

rgvars == <<band, global, defperiod, handler, gwriter, member>>

Root == "root_task_group"
Existing == DOMAIN band
ChildrenOf(g) == {c \in Existing : band[c].parent = g}

\* A negative sysctl switches the limit off.
global_rt_runtime(g) == IF g.runtime < 0 THEN RG_INF ELSE g.runtime
rt_bandwidth_enabled == global.runtime >= 0

\* runtime and period as a fraction of 2^20, rounded down.
to_ratio(period, runtime) == IF runtime = RG_INF THEN 2^20 ELSE (runtime * 2^20) \div period

NoHandler == [busy |-> FALSE, period |-> 0, runtime |-> 0]
NoWriter == [busy |-> FALSE, group |-> Root, period |-> 0, runtime |-> 0]

RtGroupsInit ==
    /\ global \in {[period |-> w[1], runtime |-> w[2]] : w \in {v \in GlobalWrites : v[2] <= v[1] /\ v[2] # 0}}
    /\ band = Root :> [period |-> global.period, runtime |-> global_rt_runtime(global), parent |-> "none"]
    /\ defperiod = global.period
    /\ handler = NoHandler
    /\ gwriter = NoWriter
    /\ member = [t \in GroupTasks |-> [group |-> Root, rt |-> FALSE, checked |-> "nothing", to |-> Root]]

(***************************************************************************)
(* Admission                                                               *)
(***************************************************************************)

\* task_rq(p)->rt is the root group's queue whatever group p is in, and the
\* kernel's own threads keep the root group real-time.
tg_has_rt_tasks(g) == g = Root

\* Mutant form: only the root group's children are added up.
RootSumOnly(b, g) ==
    IF g # Root THEN 0 ELSE MapThenSumSet(LAMBDA c : to_ratio(b[c].period, b[c].runtime), ChildrenOf(g))
children_ratio(b, g) == MapThenSumSet(LAMBDA c : to_ratio(b[c].period, b[c].runtime), ChildrenOf(g))

tg_rt_schedulable(b, g) ==
    /\ b[g].runtime <= b[g].period \/ b[g].runtime = RG_INF
    /\ ~(rt_bandwidth_enabled /\ b[g].runtime = 0 /\ tg_has_rt_tasks(g))
    /\ to_ratio(b[g].period, b[g].runtime) <= to_ratio(global.period, global_rt_runtime(global))
    /\ children_ratio(b, g) <= to_ratio(b[g].period, b[g].runtime)

__rt_schedulable(b) == \A g \in Existing : tg_rt_schedulable(b, g)

(***************************************************************************)
(* Writes of a group's files                                               *)
(***************************************************************************)

\* cpu.rt_runtime_us: the period is the group's at this moment.
sched_group_set_rt_runtime(g, us) ==
    /\ ~gwriter.busy
    /\ gwriter' = [busy |-> TRUE, group |-> g, period |-> band[g].period, runtime |-> IF us < 0 THEN RG_INF ELSE us]
    /\ UNCHANGED <<band, global, defperiod, handler, member>>

\* cpu.rt_period_us: the run time is the group's at this moment.
sched_group_set_rt_period(g, us) ==
    /\ ~gwriter.busy /\ us # 0
    /\ gwriter' = [busy |-> TRUE, group |-> g, period |-> us, runtime |-> band[g].runtime]
    /\ UNCHANGED <<band, global, defperiod, handler, member>>

\* Checked and committed with rt_constraints_mutex held, or refused.
tg_set_rt_bandwidth ==
    /\ gwriter.busy
    /\ gwriter' = NoWriter
    /\ LET b == [band EXCEPT ![gwriter.group].period = gwriter.period, ![gwriter.group].runtime = gwriter.runtime]
       IN band' = IF __rt_schedulable(b) THEN b ELSE band
    /\ UNCHANGED <<global, defperiod, handler, member>>

(***************************************************************************)
(* The global limit                                                        *)
(***************************************************************************)

\* proc_dointvec() has stored the new value of one of the two sysctls; nothing
\* has been checked.
sched_rt_handler(period, runtime) ==
    /\ ~handler.busy
    /\ period = global.period \/ runtime = global.runtime
    /\ handler' = [busy |-> TRUE, period |-> global.period, runtime |-> global.runtime]
    /\ global' = [period |-> period, runtime |-> runtime]
    /\ UNCHANGED <<band, defperiod, gwriter, member>>

sched_rt_global_constraints ==
    /\ global.period > 0
    /\ global_rt_runtime(global) <= global.period \/ global_rt_runtime(global) = RG_INF
    /\ __rt_schedulable(band)

\* The value is kept when the tree fits under it, and put back otherwise.
sched_rt_handler_done ==
    /\ handler.busy
    /\ handler' = NoHandler
    /\ IF sched_rt_global_constraints
       THEN defperiod' = global.period /\ UNCHANGED global
       ELSE global' = [period |-> handler.period, runtime |-> handler.runtime] /\ UNCHANGED defperiod
    /\ UNCHANGED <<band, gwriter, member>>

(***************************************************************************)
(* Groups and tasks come and go                                            *)
(***************************************************************************)

\* A new group has the default period and no run time.
alloc_rt_sched_group(parent) == [period |-> defperiod, runtime |-> 0, parent |-> parent]

cpu_cgroup_create(g, parent) ==
    /\ g \notin Existing
    /\ band' = band @@ (g :> alloc_rt_sched_group(parent))
    /\ UNCHANGED <<global, defperiod, handler, gwriter, member>>

\* cgroup removes a group that nothing is in.
cpu_cgroup_destroy(g) ==
    /\ g # Root /\ ChildrenOf(g) = {} /\ ~(gwriter.busy /\ gwriter.group = g)
    /\ \A t \in GroupTasks : member[t].group # g /\ member[t].to # g
    /\ band' = [x \in Existing \ {g} |-> band[x]]
    /\ UNCHANGED <<global, defperiod, handler, gwriter, member>>

\* sched_rt_can_attach() lets the task into the group.
cpu_cgroup_can_attach(t, g) ==
    /\ member[t].checked = "nothing" /\ member[t].group # g
    /\ ~(member[t].rt /\ band[g].runtime = 0)
    /\ member' = [member EXCEPT ![t].checked = "attach", ![t].to = g]
    /\ UNCHANGED <<band, global, defperiod, handler, gwriter>>

cpu_cgroup_attach(t) ==
    /\ member[t].checked = "attach"
    /\ member' = [member EXCEPT ![t].checked = "nothing", ![t].group = member[t].to, ![t].to = Root]
    /\ UNCHANGED <<band, global, defperiod, handler, gwriter>>

\* sched_setscheduler() by a user: a group with no run time takes no
\* real-time task.
__sched_setscheduler(t, rt) ==
    /\ ~(rt_bandwidth_enabled /\ rt /\ band[member[t].group].runtime = 0)
    /\ member[t].rt # rt
    /\ member' = [member EXCEPT ![t].rt = rt]
    /\ UNCHANGED <<band, global, defperiod, handler, gwriter>>

RtGroupsNext ==
    \/ \E g \in Existing : \/ \E us \in Runtimes : sched_group_set_rt_runtime(g, us)
                           \/ \E us \in Periods : sched_group_set_rt_period(g, us)
                           \/ cpu_cgroup_destroy(g)
                           \/ \E n \in Groups : cpu_cgroup_create(n, g)
                           \/ \E t \in GroupTasks : cpu_cgroup_can_attach(t, g)
    \/ tg_set_rt_bandwidth
    \/ \E w \in GlobalWrites : sched_rt_handler(w[1], w[2])
    \/ sched_rt_handler_done
    \/ \E t \in GroupTasks : \/ cpu_cgroup_attach(t)
                             \/ \E rt \in BOOLEAN : __sched_setscheduler(t, rt)

RtGroupsSpec == RtGroupsInit /\ [][RtGroupsNext]_rgvars

(***************************************************************************)
(* Properties                                                              *)
(***************************************************************************)

(* Whatever writers of the groups, of the global limit and creators of      *)
(* groups do at the same time, no group's children are promised more than   *)
(* the group has, and the root group, with the kernel's own real-time       *)
(* threads, is never left without run time while the limit is on            *)
(* (tg_rt_schedulable, tg_set_rt_bandwidth, sched_rt_handler).              *)
PromisesNest ==
    /\ \A g \in Existing : /\ MapThenSumSet(LAMBDA c : to_ratio(band[c].period, band[c].runtime), ChildrenOf(g))
                                <= to_ratio(band[g].period, band[g].runtime)
                           /\ band[g].runtime = RG_INF \/ band[g].runtime <= band[g].period
    /\ ~handler.busy /\ rt_bandwidth_enabled => band[Root].runtime # 0

(* "Nobody can have more than the global setting allows" (core.c:7638) once *)
(* the sysctl handler is done. The handler stores a value before it checks  *)
(* it: a group write that comes in between is admitted against the stored   *)
(* value, and keeps what it got when the value is put back                  *)
(* (sched_rt_handler, tg_set_rt_bandwidth).                                 *)
GlobalLimitHolds ==
    ~handler.busy =>
      \A g \in Existing : to_ratio(band[g].period, band[g].runtime)
                            <= to_ratio(global.period, global_rt_runtime(global))
=============================================================================
