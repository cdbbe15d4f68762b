------------------------------ MODULE RtBalance ------------------------------
(***************************************************************************)
(* Real-time tasks on several runqueues: the CONFIG_SMP part of rt.c. A    *)
(* CPU that drops to a lower priority pulls waiting tasks from overloaded  *)
(* CPUs, a CPU with tasks that wait pushes them away, and a wakeup picks a *)
(* CPU first. double_lock_balance() drops the lock of the first runqueue   *)
(* before it takes both (CONFIG_PREEMPT), so every choice of a task and a  *)
(* CPU is made with one lock and carried out later with two: a step of     *)
(* this module ends wherever a runqueue lock is dropped.                   *)
(*                                                                         *)
(* Tasks of one priority wait in a set: their order is Sched's subject.    *)
(***************************************************************************)
EXTENDS Integers, FiniteSets, FiniteSetsExt

CONSTANTS
    RbTask,         \* real-time tasks
    RbCpus,         \* the number of CPUs, numbered from 1
    RbPrio,         \* their priorities: a small number is a high priority
    MAX_RT_PRIO,    \* the priority of whatever else runs
    RT_MAX_TRIES,   \* attempts of find_lock_lowest_rq
    RbAffine,       \* bound: the tasks whose affinity is changed
    RbModes         \* what disturbs the tasks: "wake", "affinity", "prio"

\* What the constants must satisfy.
RtBalanceAssumption ==
    /\ RbCpus \in Nat \ {0} /\ RT_MAX_TRIES \in Nat \ {0}
    /\ RbPrio \subseteq 0..(MAX_RT_PRIO - 1)
    /\ RbModes \subseteq {"wake", "affinity", "prio"}

VARIABLES
    rbmode,     \* the disturbance of this behaviour
    rb,         \* tasks and runqueues
    job         \* what each CPU, and the waker, is in the middle of

rbvars == <<rbmode, rb, job>>

RbCpu == 1..RbCpus
Waker == RbCpus + 1        \* a wakeup, or a system call, on some CPU
Actor == RbCpu \cup {Waker}
RbIdle == "idle"             \* no real-time task runs
Masks == SUBSET RbCpu \ {{}}

NoJob == [pc |-> "none", cpu |-> 1, task |-> RbIdle, to |-> 1, tries |-> 0, after |-> "none"]

Queued(s, c) == {t \in RbTask : s.task[t].on_rq /\ s.task[t].cpu = c}
Prios(s, T) == {s.task[t].prio : t \in T}
highest_prio(s, c) == Min(Prios(s, Queued(s, c)) \cup {MAX_RT_PRIO})
curr_prio(s, c) == IF s.curr[c] = RbIdle THEN MAX_RT_PRIO ELSE s.task[s.curr[c]].prio
Migratory(s, t) == Cardinality(s.task[t].mask) > 1

RtBalanceInit ==
    /\ rbmode \in RbModes
    /\ \E prio \in [RbTask -> RbPrio], mask \in [RbTask -> {RbCpu, {1}}] :
         rb = [task |-> [t \in RbTask |-> [cpu |-> 1, on_rq |-> FALSE, prio |-> prio[t], mask |-> mask[t]]],
               curr |-> [c \in RbCpu |-> RbIdle], resched |-> [c \in RbCpu |-> FALSE],
               pushable |-> [c \in RbCpu |-> {}], next |-> [c \in RbCpu |-> MAX_RT_PRIO],
               migratory |-> [c \in RbCpu |-> 0], total |-> [c \in RbCpu |-> 0], rto |-> {}]
    /\ job = [a \in Actor |-> NoJob]

(***************************************************************************)
(* The bookkeeping of a runqueue                                           *)
(***************************************************************************)

enqueue_pushable_task(s, c, t) ==
    [s EXCEPT !.pushable[c] = @ \cup {t}, !.next[c] = Min({@, s.task[t].prio})]

dequeue_pushable_task(s, c, t) ==
    [s EXCEPT !.pushable[c] = @ \ {t},
              !.next[c] = Min(Prios(s, s.pushable[c] \ {t}) \cup {MAX_RT_PRIO})]

\* A CPU with a task that could leave and more than one task is overloaded.
update_rt_migration(s, c) ==
    [s EXCEPT !.rto = IF s.migratory[c] > 0 /\ s.total[c] > 1 THEN @ \cup {c} ELSE @ \ {c}]

enqueue_task_rt(s, c, t) ==
    LET on == [s EXCEPT !.task[t].on_rq = TRUE, !.task[t].cpu = c, !.total[c] = @ + 1,
                        !.migratory[c] = @ + (IF Migratory(s, t) THEN 1 ELSE 0)]
        counted == update_rt_migration(on, c)
    IN IF s.curr[c] # t /\ Migratory(s, t) THEN enqueue_pushable_task(counted, c, t) ELSE counted

dequeue_task_rt(s, c, t) ==
    LET off == [s EXCEPT !.task[t].on_rq = FALSE, !.total[c] = @ - 1,
                         !.migratory[c] = @ - (IF Migratory(s, t) THEN 1 ELSE 0)]
    IN dequeue_pushable_task(update_rt_migration(off, c), c, t)

MoveTask(s, t, to) == enqueue_task_rt(dequeue_task_rt(s, s.task[t].cpu, t), to, t)

\* The CPUs of the lowest priority below the task's that the task may use.
cpupri_find(s, t) ==
    LET lower == {d \in s.task[t].mask : highest_prio(s, d) > s.task[t].prio}
    IN {d \in lower : \A e \in lower : highest_prio(s, e) <= highest_prio(s, d)}

\* The CPU it last ran on if it is among them, otherwise whichever the topology
\* prefers; none for a task that is bound to one CPU.
find_lowest_rq(s, t) ==
    IF ~Migratory(s, t) THEN {}
    ELSE IF s.task[t].cpu \in cpupri_find(s, t) THEN {s.task[t].cpu} ELSE cpupri_find(s, t)

\* A task of equal priority that is bound here makes a current task that
\* could go elsewhere give way.
check_preempt_equal_prio(s, c, t) ==
    /\ s.task[t].prio = curr_prio(s, c) /\ ~s.resched[c]
    /\ Migratory(s, s.curr[c])
    /\ ~(Migratory(s, t) /\ cpupri_find(s, t) # {})
    /\ cpupri_find(s, s.curr[c]) # {}

check_preempt_curr_rt(s, c, t) ==
    [s EXCEPT !.resched[c] = @ \/ s.task[t].prio < curr_prio(s, c) \/ check_preempt_equal_prio(s, c, t)]

(***************************************************************************)
(* Choosing the next task, pulling                                         *)
(***************************************************************************)

\* put_prev_task_rt() and pick_next_task_rt() for the task picked, next.
PutPrev(s, c) ==
    IF s.curr[c] # RbIdle /\ s.curr[c] \in Queued(s, c) /\ Migratory(s, s.curr[c])
    THEN enqueue_pushable_task(s, c, s.curr[c])
    ELSE s

MayPick(s, c) == IF Queued(s, c) = {} THEN {RbIdle} ELSE {t \in Queued(s, c) : s.task[t].prio = highest_prio(s, c)}

Switch(s, c, next) ==
    LET put == [PutPrev(s, c) EXCEPT !.curr[c] = next, !.resched[c] = FALSE]
    IN IF next = RbIdle THEN put ELSE dequeue_pushable_task(put, c, next)

\* The rq lock is released by the switch; post_schedule_rt() takes it again
\* when there was something to push.
pick_next_task_rt(a, s, c) ==
    \E next \in MayPick(s, c) :
      /\ rb' = Switch(s, c, next)
      /\ job' = [job EXCEPT ![a] = IF rb'.pushable[c] # {} THEN [NoJob EXCEPT !.pc = "push", !.cpu = c] ELSE NoJob]

\* The next CPU worth locking: overloaded, with a task that beats all of ours.
PullFrom(s, c, from) == {d \in s.rto : d # c /\ d >= from /\ s.next[d] < highest_prio(s, c)}

\* What follows the loop of pull_rt_task.
PullDone(a, s, c, after, t) ==
    CASE after = "pick"    -> pick_next_task_rt(a, s, c)
      [] after = "resched" -> /\ rb' = IF curr_prio(s, c) > highest_prio(s, c) /\ s.curr[c] = t
                                       THEN [s EXCEPT !.resched[c] = TRUE] ELSE s
                              /\ job' = [job EXCEPT ![a] = NoJob]

\* The loop of pull_rt_task from a CPU on: our lock is dropped to take both.
PullLoop(a, s, c, from, after, t) ==
    IF PullFrom(s, c, from) = {}
    THEN PullDone(a, s, c, after, t)
    ELSE /\ rb' = s
         /\ job' = [job EXCEPT ![a] = [pc |-> "pull", cpu |-> c, task |-> t, to |-> Min(PullFrom(s, c, from)),
                                       tries |-> 0, after |-> after]]

\* The highest task on the other CPU that does not run there and may run here,
\* unless it is about to preempt its own CPU.
Pullable(s, d, c) ==
    LET can == {t \in Queued(s, d) : t # s.curr[d] /\ c \in s.task[t].mask /\ Migratory(s, t)}
    IN {t \in can : /\ s.task[t].prio = Min(Prios(s, can))
                    /\ s.task[t].prio < highest_prio(s, c)
                    /\ s.task[t].prio >= curr_prio(s, d)
                    /\ Cardinality(Queued(s, d)) > 1}

\* Both locks are held: move a task, and go on with the next CPU.
pull_rt_task(a) ==
    /\ job[a].pc = "pull"
    /\ LET c == job[a].cpu
           d == job[a].to
       IN IF Pullable(rb, d, c) = {}
          THEN PullLoop(a, rb, c, d + 1, job[a].after, job[a].task)
          ELSE \E t \in Pullable(rb, d, c) :
                 PullLoop(a, MoveTask(rb, t, c), c, d + 1, job[a].after, job[a].task)
    /\ UNCHANGED rbmode

\* schedule() on c: the current task stops, or gives way. A real-time task
\* that leaves the CPU at a lower priority pulls first (pre_schedule_rt).
schedule(c, sleeps) ==
    /\ job[c].pc = "none"
    /\ IF sleeps THEN rb.curr[c] # RbIdle /\ rb.task[rb.curr[c]].on_rq ELSE rb.resched[c]
    /\ LET s == IF sleeps THEN dequeue_task_rt(rb, c, rb.curr[c]) ELSE rb
       IN IF rb.curr[c] # RbIdle /\ highest_prio(s, c) > curr_prio(s, c)
          THEN PullLoop(c, s, c, 1, "pick", RbIdle)
          ELSE pick_next_task_rt(c, s, c)
    /\ UNCHANGED rbmode

(***************************************************************************)
(* Pushing                                                                 *)
(***************************************************************************)

FirstPushable(s, c) == {t \in s.pushable[c] : s.task[t].prio = Min(Prios(s, s.pushable[c]))}

Finish(a) == job' = [job EXCEPT ![a] = NoJob]

\* Our lock is dropped to take both: the task and the CPU it was given.
TakeBoth(a, t, d, tries) ==
    job' = [job EXCEPT ![a] = [@ EXCEPT !.pc = "push_lock", !.task = t, !.to = d, !.tries = tries]]

Targets(c, t) == find_lowest_rq(rb, t) \ {c}

\* The task to push has slipped in above the current one, or is given a CPU
\* if there is one.
PushTask(a, c, t) ==
    IF rb.task[t].prio < curr_prio(rb, c)
    THEN rb' = [rb EXCEPT !.resched[c] = TRUE] /\ Finish(a)
    ELSE /\ UNCHANGED rb
         /\ \/ Targets(c, t) = {} /\ Finish(a)
            \/ \E d \in Targets(c, t) : TakeBoth(a, t, d, 0)

\* find_lock_lowest_rq came back with nothing: stop, unless something else has
\* become the next task to push.
NoLowest(a, c, t) ==
    \/ /\ rb.pushable[c] = {} \/ (t \in FirstPushable(rb, c) /\ rb.task[t].cpu = c)
       /\ UNCHANGED rb /\ Finish(a)
    \/ \E n \in FirstPushable(rb, c) \ {t} : PushTask(a, c, n)

push_rt_task(a) ==
    /\ job[a].pc = "push"
    /\ LET c == job[a].cpu
       IN IF c \notin rb.rto \/ rb.pushable[c] = {}
          THEN UNCHANGED rb /\ Finish(a)
          ELSE \E t \in FirstPushable(rb, c) : PushTask(a, c, t)
    /\ UNCHANGED rbmode

\* Is the task chosen with one lock still to be moved, now that both are held?
\* Mutant form: it may have started to run meanwhile.
StillQueued(t, c, d) == rb.task[t].cpu = c /\ d \in rb.task[t].mask /\ rb.task[t].on_rq
still_pushable(t, c, d) ==
    /\ rb.task[t].cpu = c
    /\ d \in rb.task[t].mask
    /\ rb.curr[c] # t
    /\ rb.task[t].on_rq

find_lock_lowest_rq(a) ==
    /\ job[a].pc = "push_lock"
    /\ LET c == job[a].cpu
           t == job[a].task
           d == job[a].to
       IN IF ~still_pushable(t, c, d)
          THEN NoLowest(a, c, t)
          ELSE IF highest_prio(rb, d) > rb.task[t].prio
          THEN /\ rb' = [MoveTask(rb, t, d) EXCEPT !.resched[d] = TRUE]
               /\ job' = [job EXCEPT ![a] = [NoJob EXCEPT !.pc = "push", !.cpu = c]]
          ELSE IF job[a].tries + 1 = RT_MAX_TRIES \/ Targets(c, t) = {}
          THEN NoLowest(a, c, t)
          ELSE UNCHANGED rb /\ \E e \in Targets(c, t) : TakeBoth(a, t, e, job[a].tries + 1)
    /\ UNCHANGED rbmode

(***************************************************************************)
(* Wakeups, affinity, priority                                             *)
(***************************************************************************)

\* The CPU a woken task is sent to: away from a current task it cannot preempt.
WakeCpus(s, t) ==
    LET p == s.task[t]
        c == s.curr[p.cpu]
        away == /\ Migratory(s, t) /\ c # RbIdle
                /\ ~Migratory(s, c) \/ s.task[c].prio <= p.prio
        to == IF away /\ find_lowest_rq(s, t) # {} THEN find_lowest_rq(s, t) ELSE {p.cpu}
    IN IF to \subseteq p.mask THEN to ELSE p.mask

select_task_rq_rt(t) ==
    /\ job[Waker].pc = "none" /\ ~rb.task[t].on_rq /\ \A c \in RbCpu : rb.curr[c] # t
    /\ \E d \in WakeCpus(rb, t) : job' = [job EXCEPT ![Waker] = [NoJob EXCEPT !.pc = "wake", !.task = t, !.to = d]]
    /\ UNCHANGED <<rbmode, rb>>

\* activate_task(), check_preempt_curr_rt() and task_woken_rt().
\* Mutant form: nothing is pushed.
PushesNever(s, c, t) == FALSE
task_woken_rt(s, c, t) ==
    /\ ~s.resched[c] /\ s.pushable[c] # {} /\ Migratory(s, t)
    /\ s.curr[c] # RbIdle
    /\ ~Migratory(s, s.curr[c]) \/ curr_prio(s, c) <= s.task[t].prio

ttwu_do_activate ==
    /\ job[Waker].pc = "wake"
    /\ LET c == job[Waker].to
           t == job[Waker].task
           s == check_preempt_curr_rt(enqueue_task_rt(rb, c, t), c, t)
       IN /\ rb' = s
          /\ job' = [job EXCEPT ![Waker] = IF task_woken_rt(s, c, t) THEN [NoJob EXCEPT !.pc = "push", !.cpu = c] ELSE NoJob]
    /\ UNCHANGED rbmode

\* Mutant form: the counter is not told of a task that waits.
MigratoryKept(s, c, t, mask) == s.migratory[c]
new_migratory(s, c, t, mask) ==
    s.migratory[c] + (IF ~Migratory(s, t) /\ Cardinality(mask) > 1 THEN 1
                      ELSE IF Migratory(s, t) /\ Cardinality(mask) <= 1 THEN -1 ELSE 0)

set_cpus_allowed_rt(t, mask) ==
    /\ rbmode = "affinity" /\ t \in RbAffine /\ rb.task[t].mask # mask
    /\ ~(job[Waker].pc = "wake" /\ job[Waker].task = t)
    /\ LET c == rb.task[t].cpu
           new == [rb EXCEPT !.task[t].mask = mask]
           waits == IF rb.curr[c] = t THEN new
                    ELSE LET off == IF Migratory(rb, t) THEN dequeue_pushable_task(new, c, t) ELSE new
                         IN IF Cardinality(mask) > 1 THEN enqueue_pushable_task(off, c, t) ELSE off
       IN rb' = IF rb.task[t].on_rq /\ Cardinality(mask) # Cardinality(rb.task[t].mask)
                THEN update_rt_migration([waits EXCEPT !.migratory[c] = new_migratory(rb, c, t, mask)], c)
                ELSE new
    /\ UNCHANGED <<rbmode, job>>

\* The stopper takes a task away from a CPU it may no longer use.
migration_cpu_stop(t) ==
    /\ rb.task[t].on_rq /\ rb.task[t].cpu \notin rb.task[t].mask
    /\ job[rb.task[t].cpu].pc = "none"
    /\ \E d \in rb.task[t].mask :
         LET c == rb.task[t].cpu
             stopped == IF rb.curr[c] = t THEN [rb EXCEPT !.curr[c] = RbIdle, !.resched[c] = TRUE] ELSE rb
         IN rb' = check_preempt_curr_rt(MoveTask(stopped, t, d), d, t)
    /\ UNCHANGED <<rbmode, job>>

\* rt_mutex_setprio() or sched_setscheduler() within the class, and prio_changed_rt().
prio_changed_rt(t, prio) ==
    /\ rbmode = "prio" /\ job[Waker].pc = "none" /\ rb.task[t].prio # prio
    /\ LET c == rb.task[t].cpu
           set == [rb EXCEPT !.task[t].prio = prio]
           s == IF rb.task[t].on_rq
                THEN enqueue_task_rt([dequeue_task_rt(rb, c, t) EXCEPT !.task[t].prio = prio], c, t)
                ELSE set
       IN IF ~rb.task[t].on_rq THEN rb' = set /\ UNCHANGED job
          ELSE IF rb.curr[c] # t
          THEN rb' = [s EXCEPT !.resched[c] = @ \/ prio < curr_prio(s, c)] /\ UNCHANGED job
          ELSE IF rb.task[t].prio < prio
          THEN PullLoop(Waker, s, c, 1, "resched", t)
          ELSE rb' = s /\ UNCHANGED job
    /\ UNCHANGED rbmode

RtBalanceNext ==
    \/ \E c \in RbCpu, sleeps \in BOOLEAN : schedule(c, sleeps)
    \/ \E a \in Actor : pull_rt_task(a) \/ push_rt_task(a) \/ find_lock_lowest_rq(a)
    \/ \E t \in RbTask : \/ select_task_rq_rt(t)
                         \/ \E mask \in Masks : set_cpus_allowed_rt(t, mask)
                         \/ migration_cpu_stop(t)
                         \/ \E prio \in RbPrio : prio_changed_rt(t, prio)
    \/ ttwu_do_activate

RtBalanceSpec == RtBalanceInit /\ [][RtBalanceNext]_rbvars

(***************************************************************************)
(* Properties                                                              *)
(***************************************************************************)

(* The assertions of pick_next_pushable_task, and their converse: whenever  *)
(* a runqueue lock is free, the tasks listed as pushable are the tasks that *)
(* wait there and may leave, a task that runs is never among them, and the  *)
(* priority other CPUs read without the lock is that of the first           *)
(* (enqueue_pushable_task, dequeue_pushable_task, set_cpus_allowed_rt).     *)
PushableExact ==
    \A c \in RbCpu :
      /\ rb.pushable[c] = {t \in Queued(rb, c) : t # rb.curr[c] /\ Migratory(rb, t)}
      /\ rb.next[c] = Min(Prios(rb, rb.pushable[c]) \cup {MAX_RT_PRIO})

(* The mask of overloaded CPUs, the only ones that are pulled from, names   *)
(* exactly the CPUs with several tasks of which one may leave, through all  *)
(* changes of affinity of tasks that run, wait or sleep                     *)
(* (update_rt_migration, set_cpus_allowed_rt).                              *)
OverloadExact ==
    rb.rto = {c \in RbCpu : /\ Cardinality(Queued(rb, c)) > 1
                            /\ \E t \in Queued(rb, c) : Migratory(rb, t)}

(* A task whose CPU was chosen under one lock is never moved while it runs, *)
(* nor to a CPU it may not use, whatever happened before both locks were    *)
(* held (find_lock_lowest_rq, pull_rt_task).                                *)
MoveStep ==
    \A t \in RbTask : rb.task[t].on_rq /\ rb'.task[t].cpu # rb.task[t].cpu =>
        /\ rb'.task[t].cpu \in rb.task[t].mask
        /\ rb.task[t].cpu \in rb.task[t].mask => \A c \in RbCpu : rb.curr[c] # t

(* When all is quiet - nobody is pushing, pulling or waking, and no CPU is  *)
(* about to reschedule - no task waits while a CPU it may use runs          *)
(* something of lower priority (schedule, pull_rt_task, push_rt_task,       *)
(* task_woken_rt).                                                          *)
Quiet == /\ \A a \in Actor : job[a] = NoJob
         /\ \A c \in RbCpu : ~rb.resched[c]
NobodyWaitsBelow ==
    rbmode = "wake" /\ Quiet =>
      \A c \in RbCpu : \A t \in Queued(rb, c) :
        t # rb.curr[c] => \A d \in rb.task[t].mask : curr_prio(rb, d) <= rb.task[t].prio

(* What one CPU tells the others about its real-time tasks is exact         *)
(* (enqueue_pushable_task, update_rt_migration).                            *)
BalanceStateExact == PushableExact /\ OverloadExact
=============================================================================
