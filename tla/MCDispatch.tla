----------------------------- MODULE MCDispatch -----------------------------
(***************************************************************************)
(* The Process Scheduler's core.c in one run of TLC: the dispatcher, the   *)
(* system calls that change a task's policy, and utilization clamping.     *)
(* part says which of them moves; a property is about the states of its    *)
(* component.                                                              *)
(***************************************************************************)
EXTENDS Integers, Sequences, FiniteSets, TLC

CONSTANTS p1, p2, cpu0, cpu1, s1, s2, k1, k2, g1, g2

CONSTANT Parts  \* the components that move

CONSTANTS Task, Cpu, Idle, Stopper, None, LONG_RANGE, Modes  \* Dispatch
CONSTANTS SsTask, SsFirst, SsCaller, SsNone, SsUnpriv, SsNice, SS_MAX_RT,
          SsAttr  \* SetSched
CONSTANTS UTask, UGroup, URoot, UParent, UNone, CAPACITY, UCLAMP_BUCKETS,
          UClass, USettings, UDefaults, Percent  \* Uclamp

VARIABLE part
VARIABLES mode, task, rq, pi_lock, switch, hot, swap
VARIABLES tsk, waits, call
VARIABLES used, default, tg, req, uc, class, group, queued, urq, ujob,
          ustale

Core == INSTANCE Dispatch
Policy == INSTANCE SetSched
Clamps == INSTANCE Uclamp

ASSUME Core!DispatchAssumption /\ Policy!SsAssumption /\ Clamps!UAssumption

\* Every optional operation of Dispatch, with the others it races against.
MCModes == {{"exit"}, {"ctx", "fork", "busy", "tick"}, {"yield", "busy", "exec"},
            {"swap", "busy", "exec"}, {"wake_q", "solo"}, {"affinity", "solo"},
            {"hotplug", "solo"}, {"hotplug", "exec", "busy", "solo"},
            {"kick", "poll", "solo"}, {"load", "solo"}}

MCAttribute(policy, nice, priority, reset) ==
  [policy |-> policy, nice |-> nice, priority |-> priority, reset |-> reset,
   keep |-> FALSE]
MCAttr == {MCAttribute("NORMAL", 1, 0, TRUE), MCAttribute("FIFO", 0, 2, FALSE),
           MCAttribute("DEADLINE", 0, 0, FALSE), MCAttribute("-1", 0, 1, FALSE)}

\* g2 is below g1.
MCParent == g1 :> URoot @@ g2 :> g1
MCSettings == {<<>>, "min" :> 2 @@ "max" :> 2}
MCDefaults == {<<1, 3>>}

DispatchSym == Permutations({p1, p2}) \cup Permutations({cpu0, cpu1})

\* Bound: one wakeup is under way at a time.  Two can still wait on a wake list.
OneWakeup ==
  part = "dispatch" =>
    Cardinality({p \in Task : task[p].waking \/ pi_lock[p] # "free"}) <= 1

\* Bound: one reschedule IPI is in flight at a time.
OneIpi == part = "dispatch" => Cardinality({c \in Cpu : rq[c].ipi}) <= 1

\* Bound: at most one task is in a group other than the root, and at most one
\* of those groups has a limit of its own.
OneGrouped ==
  part = "uclamp" =>
    /\ Cardinality({p \in UTask : group[p] # URoot}) <= 1
    /\ Cardinality({g \in UGroup : tg[g].live /\ \E id \in Clamps!Clamp :
                        tg[g].req[id] # Clamps!uclamp_none(id)}) <= 1

CoreVars == <<mode, task, rq, pi_lock, switch, hot, swap>>
PolicyVars == <<tsk, waits, call>>
ClampsVars == <<used, default, tg, req, uc, class, group, queued, urq, ujob, ustale>>

\* A component that does not move has no state.
NoState == 0

NoCore ==
  /\ mode = NoState /\ task = NoState /\ rq = NoState
  /\ pi_lock = NoState /\ switch = NoState /\ hot = NoState
  /\ swap = NoState

NoPolicy ==
  /\ tsk = NoState /\ waits = NoState /\ call = NoState

NoClamps ==
  /\ used = NoState /\ default = NoState /\ tg = NoState
  /\ req = NoState /\ uc = NoState /\ class = NoState /\ group = NoState
  /\ queued = NoState /\ urq = NoState /\ ujob = NoState
  /\ ustale = NoState

CpusInit ==
  /\ part \in Parts
  /\ \/ part = "dispatch" /\ Core!Init /\ NoPolicy /\ NoClamps
     \/ part = "policy" /\ Policy!SsInit /\ NoCore /\ NoClamps
     \/ part = "uclamp" /\ Clamps!UInit /\ NoCore /\ NoPolicy

CpusNext ==
  \/ part = "dispatch" /\ Core!Next
     /\ UNCHANGED <<part, PolicyVars, ClampsVars>>
  \/ part = "policy" /\ Policy!SsNext
     /\ UNCHANGED <<part, CoreVars, ClampsVars>>
  \/ part = "uclamp" /\ Clamps!UNext
     /\ UNCHANGED <<part, CoreVars, PolicyVars>>

CpusSpec ==
  CpusInit /\ [][CpusNext]_<<part, CoreVars, PolicyVars, ClampsVars>>
-----------------------------------------------------------------------------
(* Dispatch *)

\* A task is in the registers of at most one CPU, and on_cpu says so
\* (finish_task, try_to_wake_up).
OneCpuAtATime == part = "dispatch" => Core!OneCpuAtATime

\* A task is on the queue of its CPU exactly while on_rq says so
\* (move_queued_task, ttwu_remote).
QueuesFollowTasks == part = "dispatch" => Core!QueuesFollowTasks

\* A sleeper whose condition is true is being woken, and a CPU with work does
\* not stay idle (try_to_wake_up, resched_curr).
NobodyForgotten == part = "dispatch" => Core!NobodyForgotten

\* A task runs on a CPU of its mask, and on none that went offline
\* (is_cpu_allowed, migrate_tasks).
PlacedWhereAllowed == part = "dispatch" => Core!PlacedWhereAllowed

\* Sleepers, waits for I/O, choices of a task and its last reference are
\* counted once (ttwu_do_activate, __schedule, finish_task_switch).
CountedOnce == part = "dispatch" => Core!CountedOnce

(* SetSched *)

\* Policy, priority and class of a task say the same
\* (__sched_setscheduler, rt_mutex_setprio).
PolicyAgrees == part = "policy" => Policy!PolicyAgrees

\* A task runs at its own priority or at that of the task it holds up
\* (rt_mutex_setprio).
BoostExact == part = "policy" => Policy!BoostExact

(* Uclamp *)

\* The clamps of the runqueue, its buckets, its tasks and the groups agree
\* (uclamp_rq_inc_id, uclamp_rq_dec_id, cpu_util_update_eff).
ClampsExact == part = "uclamp" => Clamps!ClampsExact
=============================================================================
