# A verification project for the Linux-Kernel course projects

The repository holds five changes to the Linux kernel. This directory holds
TLA+ models of them, TLC configurations that check the models on small
instances, and proofs, checked by TLAPS, about the largest of them: the
scheduler of the Android kernel with its weighted round-robin (WRR) class.

Contents: [parts of the system](#1-the-parts-of-the-system),
[modules](#2-modules), [runs](#3-runs), [bounds](#4-bounds),
[fairness](#5-fairness-and-deadlock), [proofs](#6-proofs),
[findings](#7-findings), [not modelled](#8-what-is-not-modelled).

Short names used below for the long source paths:

| name | path |
|---|---|
| `core.c`, `rt.c`, `wrr.c`, `sched.h` | `src/project_Android Kernel Scheduler/scheduler/sched/` |
| `ps/core.c`, `ps/fork.c`, `ps/base.c` | `src/project_Process Scheduler/src/` |
| `super.c` | `src/project_File system/src/super.c` |
| `watch.c` | `src/project_Benchmark/src/watch.c` |
| `mtest.c`, `maptest.c` | `src/project_memory space/{mtest,maptest}/` |

## 1. The parts of the system

**Android kernel scheduler** (`core.c`, `rt.c`, `wrr.c`). The core calls the
classes through `p->sched_class`. Every entry point takes `rq->lock` with
interrupts off; on one CPU it is atomic, and what interleaves is the order of
the tick, the timers, wakeups, the system calls of the running task and
`__schedule()`. The configuration in the repository
(`goldfish_armv7_defconfig`) is one CPU, preemptible, with `CGROUP_SCHED` and
`RT_GROUP_SCHED`; `HZ` is 100, so a foreground slice is 10 ticks and a
background slice 1 tick. `rt.c` also has the code for several CPUs
(`CONFIG_SMP`). It is modelled as an SMP build would run it, in modules of its
own (`RtQuota`, `RtBalance`), so that no statement mixes the two builds.

**Process Scheduler kernel** (`ps/*`, a 5.x kernel, several CPUs) adds the
counter `ctx` to every task, reset in `copy_process()`, incremented in
`__schedule()` and printed by `/proc/<pid>/ctx`. The files that carry the change
are the core of the scheduler, of `fork()` and of the proc file system.

**romfs** (`super.c`) adds three module parameters: a name left out of listings,
a name whose pages are shifted by one when they are filled, and a name made
executable by its lookup.

**watch driver** (`watch.c`) measures CPU time and accessed pages of one process.
**Memory drivers**: `mtest.c` reads and writes a byte of a process, `maptest.c`
maps one page of its own.

The test programs, benchmarks and scripts of the repository only call these.

## 2. Modules

Each component is a module with its state, `Init`, one action per entry point
or step, `Next` and its properties. The state variables and actions keep the
names of the source. A variable, or a field, that is there for a property only
is said to be so where it is declared.

| module | code | what a step is |
|---|---|---|
| `Sched` | `core.c`, `wrr.c`, `rt.c` on one CPU; the fair class, which is not in the repository, as an external class that keeps a set of tasks and may pick any | a whole entry point |
| `SchedAccount` | `Sched` with the time each task really had the CPU | the same |
| `RoundRobin` | the order the WRR run list promises, abstractly | one scheduling event |
| `WaitQueue` | wait queues and completions, `core.c` | one critical section of the queue's lock |
| `LoadAvg` | load averages with idle CPUs that miss ticks, `core.c` | one tick, idle entry or exit, or global update |
| `RtQuota` | run time of one group shared between CPUs, its timer, hotplug, `rt.c` | up to the next release of `rt_runtime_lock` |
| `RtBalance` | pushing and pulling of real-time tasks, `rt.c` | up to the next release of a runqueue lock |
| `RtGroups` | the tree of group limits and the sysctls above it, `core.c` | up to the next release of `rt_constraints_mutex`; reads outside it are steps |
| `Dispatch` | wakeup, context switch, affinity, exec balancing, swapping, hotplug, `ctx`, `ps/core.c` | what one CPU does between two points another can observe |
| `SetSched` | policy, nice value and priority inheritance, `ps/core.c` | check, change, adjust: the three critical sections of `__sched_setscheduler` |
| `Uclamp` | utilisation clamps of tasks, groups and system, `ps/core.c` | fast path: one enqueue; slow path: one group or one task |
| `CopyProcess` | `copy_process` with all error labels, vfork, unshare, exit, `oom_score_adj`, `ps/fork.c`, `ps/base.c` | one acquired or released resource |
| `MmLife` | `mm_struct`: duplication, users and references, `ps/fork.c`, `ps/base.c` | one mapping, one reference |
| `ProcPid` | listings, lookup and timers of `/proc/<pid>`, `ps/base.c` | one RCU section |
| `ProcMem` | `cmdline`, `environ`, `mem` and `oom_adj`, `ps/base.c` | one `read()` or `write()` |
| `Romfs` | `super.c` | one VFS callback |
| `Watch` | `watch.c` | one access to shared data |
| `MemDrivers` | `mtest.c`, `maptest.c` | one command, access or mapping |
| `SchedLists`, `SchedTasks`, `SchedProofs` | proofs about `Sched` | |

### Sched in more detail

`task` maps every `task_struct` slot to its scheduling fields; `rq` is the
runqueue. Three fields stand for more than one of the code: `newborn` (between
`sched_fork` and `wake_up_new_task`), `waiter` (the priority of the top waiter
on an `rt_mutex` the task holds) and `time_slice` (`wrr.time_slice` and
`rt.time_slice`, which no task uses at the same time).

The class callbacks are operators from a scheduler state `st = [task, rq]` to
the next, because the code composes them: `sched_setscheduler` is
`dequeue_task`, `put_prev_task`, a change of the fields, `set_curr_task`,
`enqueue_task`, `check_class_changed`, in this order. What the code takes from
outside the model (whether real-time run time is used up, whether the fair
class wants to preempt) is a value `e` of `Env` or a bound variable of the
action. The priority array of the real-time class is one list; the task picked
is the first one of the best priority.

### Components of one run

The MC modules put components that do not share state into one run: a variable
`part` says which one moves, and a property speaks about the states of its
part. In `MCSched` the parts are instances of `Sched` over the same slots and
slices, so the invariants of `Sched` speak about the states of all of them. `Romfs`, `Watch`, `MemDrivers`, `ProcPid`, `RtQuota`, `RtBalance`,
`LoadAvg`, `WaitQueue` and `Dispatch` also have modes: sets of operations that
race with each other, chosen in the initial state, which keep the state space
small without leaving an operation out.

## 3. Runs

Six runs pass. The state counts are those of the whole run.

### `entry_points` (MCSched)

Every entry point of the Android scheduler in any order, in four parts: `wrr`
(policy, nice value and group changes), `sleep` (workqueue workers, both sleep
states, SCHED_RR), `rt` (three classes, throttling, priority inheritance,
SCHED_RESET_ON_FORK) and `time` (`SchedAccount` with a clock).

| property | says |
|---|---|
| `QueuesAgree` | `on_rq`, the class pointer and the run lists agree |
| `CountersAgree` | `wrr_nr_running`, `total_weight`, `nr_running`, `nr_uninterruptible` are exact |
| `SliceFollowsGroup` | a queued WRR task has the weight of its present group and at least one tick left |
| `NoLostWakeup` | every runnable task is queued, whichever of sleep, preemption and wakeup comes first |
| `FairGivesWay` | the idle task or a fair task never keeps the CPU, without a pending reschedule, from a queued WRR task or a real-time task that may run |
| `ClassAgrees` | class, policy and effective priority agree |
| `PreemptionKeepsQueued` | a task leaves the runqueue only by its own `schedule()` |
| `NoTimeLost` | a task off the CPU was charged at least what it ran |

`FairGivesWay` says nothing of a *WRR* task that keeps the CPU from a real-time
one: the code does let it (`rt_to_wrr` in section 7). `ClassAgrees` leaves open
in which class a SCHED_WRR task is, because a fork or the end of a boost leaves
it in the fair class (`wrr_fork` in section 7). `NoTimeLost` bounds the charge
from below only; from above the code does not (section 7).

### `served` (MCServed)

`EveryWrrServed`: a queued WRR task gets the CPU or leaves the queue.
`EveryRtRecovers`: a queued real-time task does not wait for ever behind other
classes; it asks for the CPU to go to *some* real-time task, because one of
lower priority may rightly starve. `FirstComeFirstServed`: `Sched` implements
`RoundRobin` under `queue <- rq.queue`.

### `real_time` (MCRealTime)

| property | says |
|---|---|
| `BalanceStateExact` | the pushable tasks, the priority read without the lock (`PushableExact`) and the mask of overloaded CPUs (`OverloadExact`) are exact |
| `RunningStaysPut` | a choice made under one lock never moves a running task, nor a task to a CPU it may not use |
| `NobodyWaitsBelow` | when nothing is under way, no task waits while a CPU it may use runs a lower one; for wakeups and sleeps only, since a change of affinity or priority is not followed by a push in the code |
| `RunTimeExact` | lent run time is neither made nor lost (`RuntimeConserved`), and without hotplug no queue has more than its period (`NoMoreThanThePeriod`). A second `__enable_runtime` on a queue that takes part already is exempt: it resets the run time while others still hold what was lent |
| `PromisesNest` | no group promises its children more than it has, with concurrent writers of groups and sysctls |

### `dispatch` (MCDispatch)

| property | says |
|---|---|
| `OneCpuAtATime` | a task is in the registers of one CPU at most |
| `QueuesFollowTasks` | a task is on the queue of its CPU exactly while `on_rq` says so |
| `NobodyForgotten` | a sleeper whose condition holds is being woken (`WakeupNotLost`), a CPU with work is not left idle (`IdleIsKicked`) |
| `PlacedWhereAllowed` | tasks run in their mask (`AffinityKept`), and not on a CPU that is gone (`OfflineIsEmpty`) |
| `CountedOnce` | sleepers, waits for I/O, `ctx` and last references are counted once (`UninterruptibleAddsUp`, `IowaitPerCpu`, `CtxCountsChoices`, `DeadStaysDead`) |
| `PolicyAgrees` | policy, priority and class agree (`PriorityMatchesPolicy`, `ClassFollowsPrio`) |
| `BoostExact` | a lock holder runs at its own priority or that of the best waiter |
| `ClampsExact` | buckets, cached clamp, idle clamp, group limits and nesting agree (`BucketsCountTasks`, `CachedClampIsMax`, `IdleHoldsClamp`, `GroupLimitReaches`, `LimitsNest`) |

`GroupLimitReaches` exempts a runnable task that was counted before the last
write of a sysctl and whose group's clamps did not change by it:
`ps/core.c:1230-1234` says that "We update all RUNNABLE tasks only when task
groups are in use. Otherwise, keep it simple and do just a lazy update at each
next task enqueue time." In the bounds of the run the exemption is needed: a
task whose request lies between the old and the new default, in a group with a
lower limit, keeps the old clamp until it is enqueued again.

### `processes_and_files` (MCFiles)

| property | says |
|---|---|
| `SharingExact` | a failing fork gives back what it took (`NothingLeaks`), reference counts are the holders (`RefsExact`), processes with one mm have one `oom_score_adj` (`OomAdjShared`), no child keeps a pointer into a finished vfork (`VforkFrame`) |
| `ListingsExact` | `/proc` and `/proc/<pid>/task` list every task that stays, once, and readers neither leak nor lose references |
| `WalkFindsLiving` | a name resolves to the living task with that number, not to an earlier user of it |
| `ReadBackExact` | `cmdline`, `environ`, `mem` and `oom_adj`, read in pieces, give back what is there (`CmdlineWhole`, `EnvironWhole`, `OomAdjNear`) |
| `NothingOutlives` | no inode, page or dentry outlives its mount, no inode the module's cache |
| `NameDecides` | a file with one name is shifted, on all pages, and made executable exactly when the parameters name it (`SoleNameDecides`, `ExecExact`) |
| `ListingExact` | a romfs listing has each entry once and hides what is hidden, wherever the buffer filled up |
| `TaskStaysAllocated` | the watched task is not freed while the driver can reach it |
| `AnswersExact` | a reader of `/proc/watch` that nobody overlaps gets one whole answer, the last pass over the threads is exact, accessed pages are counted once |
| `DriversExact` | `mtest` answers the byte at the address, `maptest` maps no freed page |

What these exempt, because the code does:

- `ListingsExact`: a listing of `/proc/<pid>/task` may miss threads when the
  thread it stopped at leaves the group, or a thread of the group calls
  `exec()`, while the listing is under way (`first_tid` counts from the start
  then).
- `WalkFindsLiving`: a thread that calls `exec()` between its lookup and
  `proc_pid_make_inode` gets a dentry that names its leader's `struct pid`; the
  history field `overtaken` records exactly those names.
- `ReadBackExact`: of an environment with an unreadable page, `environ` gives
  a prefix.
- `NameDecides`: files with several names (`linked_page`, section 7), and what
  was cached when a parameter was written.
- `AnswersExact`: what a repeated pass of the sequence lock has added stays in
  the sum (section 7), overlapping readers, and a page accessed between the
  read of its bit and the clearing.
- `DriversExact`: a mapping made before there is a page (section 7).

### `eventually` (MCLive)

| property | says |
|---|---|
| `MemoryExact` | users and references of every mm are exact, none is used after it is gone, commit charge and `total_vm` are those of the mappings that stay, executable and module references balance |
| `MemoryReturned` | an mm without users is torn down |
| `SignalsExact` | every completion is consumed once (`ConsumedExactly`), and while some are left a waiter is awake (`WakeupCoversDone`) |
| `WaitsEnd` | a signalled wait ends (`SignalServed`), and so does a wait with a timeout (`TimedWaitEnds`) |
| `LoadSumExact` | every CPU's contribution is in exactly one counter (`NoDeltaLost`, `SampleKept`), and catching up with *n* missed periods differs by at most *n* units from *n* single updates (`CatchUpAccurate`) |
| `AveragesSettle` | a runqueue's averages settle on its weight |

### Runs that end in a violation

`wrr_fork` (MCSched, `MCSchedFork.cfg`), `global_limit` and `rt_unwatched`
(MCRealTime, `MCRealTimeLimit.cfg` and `MCRealTimeTimer.cfg`), `symlink_page`,
`linked_page` and `mtest_write` (MCFiles, `MCFilesPage.cfg`,
`MCFilesLink.cfg`, `MCFilesWrite.cfg`). Each checks one sentence of the
repository that the code does not keep; section 7 says which.

## 4. Bounds

| run | states | bounds |
|---|---|---|
| `entry_points` | 86 870 | 3 task slots; `wrr`, `rt`, `time` use 2 of them (`TwoSlots`), `sleep` all, two as workers. Slices of 2 and 1 ticks; nice 0 and 1; real-time priority 10 and a waiter at 69; clock and charged time up to 1 |
| `served` | 16 296 | 3 WRR tasks with slices of 1 tick; 2 tasks of all classes with slices of 2 |
| `real_time` | 781 034 | 3 real-time tasks, 2 CPUs, priorities 1 and 2; period 4, run time 3, charged 4 at a time, new limits 0 and none; 2 groups and the root, runtimes -1, 0, 2, periods 0 and 2, three global writes |
| `dispatch` | 695 303 | 2 tasks, 2 CPUs, `ctx` and `nr_uninterruptible` modulo 3, ten sets of racing operations, one wakeup and one IPI in flight; 2 tasks with 2 callers, one unprivileged, and four attributes; 2 tasks in 2 nested groups, capacity 4 in 2 buckets, one task outside the root group |
| `processes_and_files` | 477 928 | fork: 3 task structures, `max_threads` 2, two overlapping calls of `copy_process`, 4 objects of each kind, four sets of clone flags; `/proc`: 3 tasks, numbers up to 3 of which 2 is reused and 3 hidden; 7 addresses with pages of 3, reads of 1, 2 and 5 bytes; an image of 5 entries, one file of 2 pages, links of links; 2 readers and a writer of `/proc/watch`, 3 threads, 3 ticks, 3 pages; 2 openers, 2 mappers, pages and words of 2 bytes |
| `eventually` | 219 312 | 2 tasks, 3 mm structures, 2 mappings, 1 open file, 1 CPU with kernel threads; 2 waiters and 2 completions; 2 CPUs, `LOAD_FREQ` 2, sleeps of 5 and 61 ticks, which is up to 29 missed periods |

*Why they are enough.* Two actors give every pair of a caller and a target, and
a slot used again by fork after exit; three give a queue in which order and a
bystander matter, and a second waiter behind the first. Two slice lengths tell
foreground from background; two priorities give every comparison, with a tie.
Two CPUs give every race of a lock that is dropped and taken again; the code
never holds more than two runqueue locks. Two nested groups give a limit that
comes from above and one that is its own. A period of 4 with a run time of 3
and charges of 4 makes a queue exceed its run time in one charge and exceed it
after borrowing. `UINT_RANGE` is 8 in place of 2^32: above every slice, so that
a decrement from 0 is seen. `LONG_RANGE` is 3: `ctx` and the per-CPU
`nr_uninterruptible` do wrap, and are compared modulo 3. `DoneMod` is so far
above `MaxSignals` that `done` does not wrap within the bound. `CpKeeps` is empty: neither the global init nor a kernel thread is among
the tasks whose `oom_score_adj` is compared.

State constraints, each explained in its MC module, cut six places:
`OthersAnywhere`, `OneWakeup`, `OneIpi`, `OneGrouped`, `FewDentries` (two names
in the dentry cache while pages are read) and `OneFieldMore`. No liveness
property is checked under a constraint or under symmetry.

*Symmetry* is over slots that no constant tells apart.

## 5. Fairness and deadlock

- `served`: weak fairness of `scheduler_tick` and `sched_rt_period_timer`
  (the timer hardware keeps interrupting) and of `preempt_schedule` (in a
  preemptible kernel a pending reschedule is taken at the next return from
  interrupt, which the next tick provides). Nothing is assumed of tasks: they
  may run, sleep or yield for ever.
- `eventually`: weak fairness of the rest of `mmput` (the exiting task or the
  workqueue goes on), of a waiter that was made runnable and of its timer (the
  scheduler and the timer wheel run them), and of the tick that updates
  `cpu_load`. Nothing is assumed of whoever completes or signals.

Deadlock is checked in `dispatch`: some CPU or caller can always take a step. The other
runs switch it off, because their systems may rightly stop: all tasks have
exited and the CPU idles, all calls are done, or a bounded counter has reached
its bound.

## 6. Proofs

`SchedProofs` proves about `Sched`, for every finite set of tasks, every set of
groups, nice values, priorities and policies and every slice length:

| theorem | establishes | run |
|---|---|---|
| `Invariance` | the inductive invariant `Inv` holds in every reachable state | |
| `TypeCorrect` | `TypeOK`; in particular the slice stays an unsigned int | |
| `ListsConsistent` | `QueuesAgree` | `entry_points` |
| `CountersExact` | `CountersAgree` | `entry_points` |
| `SlicesInRange` | `SliceFollowsGroup`: the unsigned decrement never wraps | `entry_points` |
| `WakeupsKept` | `NoLostWakeup` | `entry_points` |
| `ClassesFollowPriority` | `ClassAgrees` | `entry_points` |

*Assumptions* (named in `Sched`, evaluated by TLC): there are finitely many
tasks, the idle task is none of them, `Root` is a group and not a background
group, priorities are in the kernel's ranges with nice 0 among them, and a
slice is at least one tick and fits an unsigned int.

*Argument.* The properties are not inductive by themselves, and inside an
entry point they do not even hold: between `dequeue_task` and `enqueue_task` a
task has `on_rq` set and is on no list. So `SchedLists` states everything
about a state `st` and an explicit set `S` of queued tasks: `OnLists(st, S)`
says that the lists hold exactly `S`, each task in the list of its class, and
that the counters count `S`. There is one lemma per callback: enqueueing takes
`OnLists(st, S)` to `S \cup {p}`, dequeueing to `S \ {p}`, and `update_curr`,
`put_prev_task`, `set_curr_task`, `check_preempt_curr` and
`check_class_changed` keep it (`Keeps`). `SchedTasks` adds the lives of tasks
(activation, wakeup, `__schedule()`, ticks) and states the inductive
invariant `Inv`:

- `Consistent`: `OnLists` for the tasks with `on_rq` set, over states in which
  every task has the right types and relations (class against policy and
  priority, `normal_prio` equal to what `normal_prio()` computes, and, once a
  weight is set, a slice in range: a task may re-enter the queue without being
  given a new slice);
- `Quiet`: a forked task that has not been woken is runnable and off the queue,
  every other runnable task is on it, `nr_uninterruptible` is exact; needed
  for `wake_up_new_task` and for a wakeup that finds its task still queued;
- `DeadOff`: a dead task is off the queue; needed for fork into a free slot;
- `CurrQueued`: the current task is on the queue; needed for ticks, yields
  and `schedule()`.

`SchedProofs` has one lemma per action (`SchedulerTick` ... `SetUserNice`),
`InitInv` for the boot state, and `InvSafety` for what `Inv` implies; the
temporal theorems follow from these.

*Only model-checked*: the liveness properties (`EveryWrrServed`,
`EveryRtRecovers`, `MemoryReturned`, `WaitsEnd`, `AveragesSettle`), which are
out of the prover's reach; `FairGivesWay`, `PreemptionKeepsQueued`,
`FirstComeFirstServed` and `NoTimeLost` of `Sched`; and all properties of the
other modules.

## 7. Findings

Six runs end in a violation of what a comment of the code, or the use the
repository makes of it, says.

- `wrr_fork`: the child of a SCHED_WRR task keeps the policy but runs in the
  fair class (`core.c:1776`); asking for SCHED_WRR again then does nothing. The
  benchmark forks after it has set the policy.
- `global_limit`: `sched_rt_handler` stores a limit before it checks it; a group
  write that comes in between is admitted against the stored value and stays
  when the limit is put back (`core.c:7638`, "Nobody can have more than the
  global setting allows").
- `rt_unwatched`: a real-time group can be throttled while its period timer is
  stopped, and nothing puts it back (`rt.c:810`).
- `symlink_page`: the page of a symbolic link is read without a `struct file`;
  `romfs_readpage` takes the name from it without a test (`super.c:139`).
- `linked_page`: a page is shifted by the name of whoever reads it first, and
  shown so under every hard link (`super.c:139`).
- `mtest_write`: the store of a byte is a store of a word, beyond the end of the
  page too, and goes to frame 0 when the entry is not present (`mtest.c:167`).

Met while reading, without a run, because no line of the repository promises
otherwise:

- SCHED_RESET_ON_FORK does not revert SCHED_WRR (`core.c:1755`); after a
  deboost a SCHED_WRR task stays in the fair class (`core.c:4003`); a boosted
  task that is switched to SCHED_WRR leaves the real-time class
  (`core.c:4196`).
- `rt_to_wrr`: a running real-time task that switches itself to SCHED_WRR keeps
  the CPU without a pending reschedule while real-time tasks wait
  (`wrr.c:227`).
- `sched_rr_get_interval` reports the background slice for foreground tasks
  outside the root group (`wrr.c:255`).
- A WRR task that is picked is next charged the whole value of the clock,
  because `put_prev_task_wrr` leaves `exec_start` at 0 (`wrr.c:148`).
- With a throttled group, `migrate_tasks` never ends when its CPU goes down
  (`"stuck"` in `RtQuota`).
- `watch.c`: a repeated pass of the sequence lock adds to the sum of the first
  (lines 67-79); one output buffer for all openers (line 14); a task that has
  exited, or a pid that was used again, is measured as before (lines 161, 183).
- `maptest.c`: the entry is visible before the page is allocated (line 43), and
  the page is freed under mappings (line 66).
- `ps/base.c`: a read of `environ` that meets an unreadable page drops bytes it
  has passed (973-988); a thread's exec leaves a dentry that names its leader
  (1780, 1841).

## 8. What is not modelled

- *Android kernel, `core.c`*: CPU time accounting (2709-3162),
  `sched_setaffinity` (4549-4706), scheduling domains (5867-6906), bandwidth of
  the fair class (7966-8173), `cpuacct` (8282-8483), `sched_rr_get_interval`.
  Most of it is not compiled into the configured build, or changes no state
  that the classes read. A real-time period of 0 written to the sysctl (a
  division by zero in `to_ratio`) is excluded by assumption.
- *Process Scheduler kernel*: tick accounting, scheduling domains and the
  bandwidth files of the fair class in `ps/core.c`; stack caches, pidfd files,
  the argument checks of `clone3` and sysctls in `ps/fork.c`; `map_files`
  (1934-2263) and the files that only format a field in `ps/base.c`.
- *romfs*: `statfs` and remount, which change no state.
- *Drivers*: `watch_init`, `watch_exit`, `mtest_init`, `mtest_exit`, which
  register and remove one proc entry.
- *Memory ordering*: steps are sequentially consistent; the barriers of the
  code are taken to do what their comments say.
- `printk`, statistics, tracing, formatting, the cgroup and proc file systems
  themselves, test programs, benchmarks and scripts.
