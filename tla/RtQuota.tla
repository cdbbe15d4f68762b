------------------------------ MODULE RtQuota ------------------------------
(***************************************************************************)
(* The run time of one real-time task group on the CPUs of a root domain,  *)
(* as the CONFIG_SMP and CONFIG_RT_GROUP_SCHED build of rt.c shares it:    *)
(* a queue that has used up its run time borrows what its neighbours can   *)
(* spare, the period timer gives every queue its run time back, and a CPU  *)
(* that goes down takes back what it lent before it stops lending.         *)
(*                                                                         *)
(* The run times are only changed with rt_b->rt_runtime_lock held, so one  *)
(* borrowing or one reclaiming is a step; the rq lock of the CPU that is   *)
(* charged, or whose turn it is in the timer, is held from step to step    *)
(* (pc), and so is its place in the borrowing when its own rt_runtime_lock *)
(* is dropped.                                                             *)
(***************************************************************************)
EXTENDS Integers, FiniteSets, FiniteSetsExt, SequencesExt

CONSTANTS
    RtCpus,         \* the number of CPUs of the root domain, numbered from 1
    RUNTIME_INF,    \* stands for (u64)~0ULL, larger than any run time or time
    RtPeriod,       \* rt_period, in units of time
    RtRuntime,      \* the run time the group starts with
    NewRuntimes,    \* the run times written to cpu.rt_runtime_us
    RtDelta,        \* the execution times charged by one update
    RtMaxTime,      \* bound: rt_time that is charged any further
    RtModes         \* the hotplug operations explored, one kind per behaviour:
                    \* none ("share"), CPUs go down ("down"), one comes back ("online")

\* What the constants must satisfy.
RtQuotaAssumption ==
    /\ RtCpus \in Nat \ {0} /\ RtPeriod \in Nat \ {0}
    /\ RtRuntime \in 0..RtPeriod
    /\ NewRuntimes \subseteq (0..RtPeriod) \cup {RUNTIME_INF}
    /\ RUNTIME_INF > RtMaxTime + RtCpus * RtPeriod
    /\ RtModes \subseteq {"share", "down", "online"}

VARIABLES
    rtmode,     \* the disturbance of this behaviour
    quota,      \* rt_b->rt_runtime, what every queue is given per period
    rtrq,       \* the group's rt_rq of each CPU, and the CPU's rq lock
    ptimer,     \* rt_b->rt_period_timer and the walk of its handler
    line,       \* where each CPU is in a hotplug operation
    wanting,    \* what a disabled queue could not reclaim
    reset       \* a queue that lent or borrowed was enabled a second time

rqvars == <<rtmode, quota, rtrq, ptimer, line, wanting, reset>>

Cpu == 1..RtCpus
CpuOrder == [c \in Cpu |-> c]

\* Every queue has its run time in its own hands, and nothing runs. In the
\* mode "online" the first CPU was taken down before.
RtQuotaInit ==
    /\ rtmode \in RtModes
    /\ quota = RtRuntime
    /\ rtrq = [c \in Cpu |->
                 [rt_runtime |-> IF rtmode = "online" /\ c = 1 THEN RUNTIME_INF ELSE RtRuntime,
                  rt_time |-> 0, rt_throttled |-> FALSE, rt_nr_running |-> 0, rt_nr_boosted |-> 0, queued |-> FALSE, curr |-> FALSE, pc |-> "unlocked"]]
    /\ ptimer = [state |-> "off", cpu |-> 0, idle |-> FALSE, throttled |-> FALSE, overrun |-> 1]
    /\ line = [c \in Cpu |-> IF rtmode = "online" /\ c = 1 THEN "dead" ELSE "online"]
    /\ wanting = 0
    /\ reset = FALSE

Unlocked(c) == rtrq[c].pc = "unlocked"
rt_rq_throttled(q) == q.rt_throttled /\ q.rt_nr_boosted = 0
Running == \A c \in Cpu : line[c] # "stuck"

(***************************************************************************)
(* Tasks come and go                                                       *)
(***************************************************************************)

\* The timer is armed unless it is armed already or in its handler, in which
\* case the handler is relied upon to arm it again.
start_rt_bandwidth(t) == IF t.state = "off" /\ quota # RUNTIME_INF THEN [t EXCEPT !.state = "armed"] ELSE t

\* A task of the group wakes up on c. The group's entity is only queued when
\* the group may run.
enqueue_rt_entity(c, boosted) ==
    /\ Running /\ Unlocked(c) /\ line[c] # "dead" /\ rtrq[c].rt_nr_running = 0
    /\ LET q == [rtrq[c] EXCEPT !.rt_nr_running = 1, !.rt_nr_boosted = boosted]
       IN rtrq' = [rtrq EXCEPT ![c] = [q EXCEPT !.queued = ~rt_rq_throttled(q)]]
    /\ ptimer' = start_rt_bandwidth(ptimer)
    /\ UNCHANGED <<rtmode, quota, line, wanting, reset>>

dequeue_rt_entity(c) ==
    /\ Running /\ Unlocked(c) /\ rtrq[c].rt_nr_running = 1
    /\ rtrq' = [rtrq EXCEPT ![c].rt_nr_running = 0, ![c].rt_nr_boosted = 0, ![c].queued = FALSE, ![c].curr = FALSE]
    /\ UNCHANGED <<rtmode, quota, ptimer, line, wanting, reset>>

\* The CPU picks the group's task, or leaves it when its entity is gone.
pick_next_rt(c) ==
    /\ Running /\ Unlocked(c) /\ rtrq[c].curr # rtrq[c].queued
    /\ rtrq' = [rtrq EXCEPT ![c].curr = rtrq[c].queued]
    /\ UNCHANGED <<rtmode, quota, ptimer, line, wanting, reset>>

(***************************************************************************)
(* Charging and borrowing                                                  *)
(***************************************************************************)

spare(q, i) == q[i].rt_runtime - q[i].rt_time

\* 1/n of the spare time of i, and no more than fills my period.
share(q, me, i) == Min({spare(q, i) \div RtCpus, RtPeriod - q[me].rt_runtime})

\* One neighbour of do_balance_runtime's loop, which ends once the period is full.
BorrowFrom(q, me, i) ==
    IF i = me \/ q[i].rt_runtime = RUNTIME_INF \/ spare(q, i) <= 0 \/ q[me].rt_runtime = RtPeriod
    THEN q
    ELSE [q EXCEPT ![i].rt_runtime = @ - share(q, me, i),
                   ![me].rt_runtime = @ + share(q, me, i)]

BorrowAll(q, me) == FoldLeft(LAMBDA r, i : BorrowFrom(r, me, i), q, CpuOrder)

\* The time is charged; a queue over its run time goes on to borrow.
update_curr_rt(c, delta) ==
    /\ Running /\ Unlocked(c) /\ rtrq[c].curr /\ rtrq[c].rt_runtime # RUNTIME_INF
    /\ rtrq[c].rt_time < RtMaxTime
    /\ LET q == rtrq[c]
           exceeded == /\ ~q.rt_throttled
                       /\ q.rt_runtime < RtPeriod
                       /\ q.rt_time + delta > q.rt_runtime
       IN rtrq' = [rtrq EXCEPT ![c].rt_time = @ + delta,
                               ![c].pc = IF exceeded THEN "borrow" ELSE "unlocked"]
    /\ UNCHANGED <<rtmode, quota, ptimer, line, wanting, reset>>

\* With rt_b->rt_runtime_lock held over all the neighbours.
do_balance_runtime(c) ==
    /\ Running /\ rtrq[c].pc \in {"borrow", "timer_borrow"}
    /\ rtrq' = [BorrowAll(rtrq, c) EXCEPT ![c].pc = IF @ = "borrow" THEN "judge" ELSE "replenish"]
    /\ UNCHANGED <<rtmode, quota, ptimer, line, wanting, reset>>

\* Back from borrowing: the group is throttled when it is still over, unless
\* it was given nothing at all.
sched_rt_runtime_exceeded(c) ==
    /\ Running /\ rtrq[c].pc = "judge"
    /\ LET q == rtrq[c]
           over == q.rt_runtime # RUNTIME_INF /\ q.rt_time > q.rt_runtime
           judged == [q EXCEPT !.pc = "unlocked",
                               !.rt_throttled = @ \/ (over /\ quota # 0),
                               !.rt_time = IF over /\ quota = 0 THEN 0 ELSE @]
       IN rtrq' = [rtrq EXCEPT ![c] = [judged EXCEPT !.queued = @ /\ ~(over /\ rt_rq_throttled(judged))]]
    /\ UNCHANGED <<rtmode, quota, ptimer, line, wanting, reset>>

(***************************************************************************)
(* The period timer                                                        *)
(***************************************************************************)

sched_rt_period_timer(overrun) ==
    /\ Running /\ ptimer.state = "armed"
    /\ ptimer' = [state |-> "firing", cpu |-> 1, idle |-> TRUE, throttled |-> FALSE, overrun |-> overrun]
    /\ UNCHANGED <<rtmode, quota, rtrq, line, wanting, reset>>

\* Does the queue keep the timer going?
keeps_timer(q) == q.rt_time > 0 \/ q.rt_nr_running > 0

\* A turn of the walk ends: run time is given back, a throttled queue that is
\* under its run time again is queued.
Replenish(c) ==
    LET q == rtrq[c]
        left == q.rt_time - Min({q.rt_time, ptimer.overrun * q.rt_runtime})
        free == q.rt_throttled /\ left < q.rt_runtime
        given == IF q.rt_time > 0
                 THEN [q EXCEPT !.rt_time = left, !.rt_throttled = @ /\ ~free]
                 ELSE q
        enqueue == IF q.rt_time > 0 THEN free ELSE ~rt_rq_throttled(q)
    IN /\ rtrq' = [rtrq EXCEPT ![c] = [given EXCEPT !.pc = "unlocked",
                                                    !.queued = @ \/ (enqueue /\ q.rt_nr_running > 0)]]
       /\ ptimer' = [ptimer EXCEPT !.cpu = @ + 1,
                                   !.idle = @ /\ ~keeps_timer(given),
                                   !.throttled = @ \/ given.rt_throttled]
       /\ UNCHANGED <<rtmode, quota, line, wanting, reset>>

\* The handler takes the rq lock of the next CPU; a throttled queue that is
\* over its run time borrows first.
do_sched_rt_period_timer(c) ==
    /\ Running /\ ptimer.state = "firing" /\ ptimer.cpu = c
    /\ LET borrows == rtrq[c].rt_throttled /\ rtrq[c].rt_time > rtrq[c].rt_runtime
       IN \/ /\ Unlocked(c) /\ borrows
             /\ rtrq' = [rtrq EXCEPT ![c].pc = "timer_borrow"]
             /\ UNCHANGED <<rtmode, quota, ptimer, line, wanting, reset>>
          \/ /\ \/ Unlocked(c) /\ ~borrows
                \/ rtrq[c].pc = "replenish"
             /\ Replenish(c)

\* After the last CPU the handler goes round again when more periods have
\* passed, and otherwise says whether the timer restarts.
sched_rt_period_timer_done ==
    /\ Running /\ ptimer.state = "firing" /\ ptimer.cpu > RtCpus
    /\ LET idle == \/ ~ptimer.throttled /\ quota = RUNTIME_INF
                   \/ ptimer.idle
       IN \/ ptimer' = [state |-> IF idle THEN "off" ELSE "armed", cpu |-> 0, idle |-> FALSE,
                        throttled |-> FALSE, overrun |-> 1]
          \/ ptimer' = [ptimer EXCEPT !.cpu = 1, !.idle = TRUE, !.throttled = FALSE]
    /\ UNCHANGED <<rtmode, quota, rtrq, line, wanting, reset>>

(***************************************************************************)
(* The group's bandwidth is written                                        *)
(***************************************************************************)

\* Every possible CPU is given the new run time, disabled ones included.
tg_set_runtime(rt_runtime) ==
    /\ Running
    /\ quota' = rt_runtime
    /\ rtrq' = [c \in Cpu |-> [rtrq[c] EXCEPT !.rt_runtime = rt_runtime]]
    /\ UNCHANGED <<rtmode, ptimer, line, wanting, reset>>

(***************************************************************************)
(* CPUs go down and come back                                              *)
(***************************************************************************)

\* One neighbour of the greedy reclaim: w is what is still wanted. A negative
\* want is handed to the first neighbour.
ReclaimFrom(s, me, i) ==
    IF i = me \/ s.q[i].rt_runtime = RUNTIME_INF \/ s.want = 0
    THEN s
    ELSE LET diff == IF s.want > 0 THEN Min({s.q[i].rt_runtime, s.want}) ELSE s.want
         IN [q |-> [s.q EXCEPT ![i].rt_runtime = @ - diff], want |-> s.want - diff]

\* Mutant form: what was borrowed is not given back.
OnlyWhatItLent(c) ==
    IF rtrq[c].rt_runtime = RUNTIME_INF \/ quota < rtrq[c].rt_runtime THEN 0 ELSE quota - rtrq[c].rt_runtime
want(c) == IF rtrq[c].rt_runtime = RUNTIME_INF THEN 0 ELSE quota - rtrq[c].rt_runtime

__disable_runtime(c) ==
    LET s == FoldLeft(LAMBDA r, i : ReclaimFrom(r, c, i), [q |-> rtrq, want |-> want(c)], CpuOrder)
    IN /\ rtrq' = [s.q EXCEPT ![c].rt_runtime = RUNTIME_INF]
       /\ wanting' = s.want

\* What the queue holds by now, borrowed or lent, is forgotten.
__enable_runtime(c) ==
    /\ rtrq' = [rtrq EXCEPT ![c].rt_runtime = quota, ![c].rt_time = 0, ![c].rt_throttled = FALSE]
    /\ reset' = (reset \/ rtrq[c].rt_runtime \notin {quota, RUNTIME_INF})
    /\ UNCHANGED wanting

\* update_runtime() on CPU_DOWN_PREPARE; another CPU stays up.
cpu_down_prepare(c) ==
    /\ Running /\ rtmode = "down" /\ Unlocked(c)
    /\ line[c] = "online" /\ \E d \in Cpu \ {c} : line[d] = "online"
    /\ line' = [line EXCEPT ![c] = "down_prepared"]
    /\ __disable_runtime(c)
    /\ UNCHANGED <<rtmode, quota, ptimer, reset>>

\* update_runtime() on CPU_DOWN_FAILED.
cpu_down_failed(c) ==
    /\ Running /\ line[c] = "down_prepared" /\ Unlocked(c)
    /\ line' = [line EXCEPT ![c] = "online"]
    /\ __enable_runtime(c)
    /\ UNCHANGED <<rtmode, quota, ptimer>>

\* Whether the loop that empties the runqueue comes to its end: it does not
\* find the tasks of a throttled group, for it goes by pick_next_task().
migrate_tasks(c) == rtrq[c].rt_nr_running > 0 => rtrq[c].queued

\* migration_call() on CPU_DYING, with the other CPUs stopped: rq_offline_rt()
\* disables the queue again, and the tasks leave.
cpu_dying(c) ==
    /\ Running /\ line[c] = "down_prepared" /\ \A d \in Cpu : Unlocked(d)
    /\ IF ~migrate_tasks(c)
       THEN /\ line' = [line EXCEPT ![c] = "stuck"]
            /\ UNCHANGED <<rtrq, wanting>>
       ELSE /\ line' = [line EXCEPT ![c] = "dead"]
            /\ LET s == FoldLeft(LAMBDA r, i : ReclaimFrom(r, c, i), [q |-> rtrq, want |-> want(c)], CpuOrder)
               IN /\ rtrq' = [s.q EXCEPT ![c].rt_runtime = RUNTIME_INF, ![c].rt_nr_running = 0,
                                         ![c].rt_nr_boosted = 0, ![c].queued = FALSE, ![c].curr = FALSE]
                  /\ wanting' = s.want
    /\ UNCHANGED <<rtmode, quota, ptimer, reset>>

\* migration_call() on CPU_ONLINE: set_rq_online() enables the queue.
set_rq_online(c) ==
    /\ Running /\ rtmode = "online" /\ line[c] = "dead" /\ Unlocked(c)
    /\ line' = [line EXCEPT ![c] = "migration_called"]
    /\ __enable_runtime(c)
    /\ UNCHANGED <<rtmode, quota, ptimer>>

\* update_runtime() on CPU_ONLINE, a later notifier of the same event.
enable_runtime(c) ==
    /\ Running /\ line[c] = "migration_called" /\ Unlocked(c)
    /\ line' = [line EXCEPT ![c] = "online"]
    /\ __enable_runtime(c)
    /\ UNCHANGED <<rtmode, quota, ptimer>>

RtQuotaNext ==
    \/ \E c \in Cpu :
         \/ \E boosted \in 0..1 : enqueue_rt_entity(c, boosted)
         \/ dequeue_rt_entity(c)
         \/ pick_next_rt(c)
         \/ \E delta \in RtDelta : update_curr_rt(c, delta)
         \/ do_balance_runtime(c)
         \/ sched_rt_runtime_exceeded(c)
         \/ do_sched_rt_period_timer(c)
         \/ cpu_down_prepare(c)
         \/ cpu_down_failed(c)
         \/ cpu_dying(c)
         \/ set_rq_online(c)
         \/ enable_runtime(c)
    \/ \E overrun \in 1..2 : sched_rt_period_timer(overrun)
    \/ sched_rt_period_timer_done
    \/ \E r \in NewRuntimes : tg_set_runtime(r)

RtQuotaSpec == RtQuotaInit /\ [][RtQuotaNext]_rqvars

(***************************************************************************)
(* Properties                                                              *)
(***************************************************************************)

Lending == {c \in Cpu : rtrq[c].rt_runtime # RUNTIME_INF}

(* Borrowing, taking back, new limits and CPUs that go down only move run   *)
(* time about: what the queues that take part hold together is what they    *)
(* were given together, and a queue that is disabled reclaims all it lent   *)
(* (do_balance_runtime, BUG_ON(want) in __disable_runtime). The one leak is *)
(* __enable_runtime on a queue that takes part already: set_rq_online() has *)
(* enabled it before the CPU_ONLINE notifier does, or a new limit was       *)
(* written while it was disabled.                                           *)
RuntimeConserved ==
    ~reset =>
    /\ MapThenSumSet(LAMBDA c : rtrq[c].rt_runtime, Lending) =
         IF quota = RUNTIME_INF THEN 0 ELSE Cardinality(Lending) * quota
    /\ wanting = 0

(* As long as no CPU is taken away or brought back, no queue ever holds     *)
(* more run time than its period has, which would exempt it from throttling *)
(* for good (do_balance_runtime, sched_rt_runtime_exceeded).                *)
NoMoreThanThePeriod ==
    rtmode = "share" => \A c \in Lending : rtrq[c].rt_runtime \in 0..RtPeriod

(* Run time is neither made nor lost, except by a second __enable_runtime,  *)
(* and without hotplug not borrowed beyond a period.                        *)
RunTimeExact == RuntimeConserved /\ NoMoreThanThePeriod

(* A group that has tasks on a CPU and is kept off its queue is put back by *)
(* the period timer, which is armed or in its handler: its tasks are allowed *)
(* their part of every period (core.c:285). The code loses the timer when   *)
(* an enqueue finds it in its handler and leaves it alone while the handler, *)
(* which has seen that CPU idle, decides to stop; and when the task came    *)
(* while the group had no limit, and the limit is set while the task runs   *)
(* (start_rt_bandwidth, do_sched_rt_period_timer, tg_set_rt_bandwidth).     *)
ThrottledIsWatched ==
    \A c \in Cpu : rtrq[c].rt_nr_running > 0 /\ ~rtrq[c].queued => ptimer.state # "off"
=============================================================================
