------------------------------- MODULE Sched -------------------------------
(***************************************************************************)
(* The scheduler core of the Android kernel tree (core.c) with its         *)
(* weighted round-robin class (wrr.c), the real-time class (rt.c) and, as  *)
(* an external component, the fair class.  The build is the one of         *)
(* goldfish_armv7_defconfig: one CPU, preemptible, control groups.         *)
(*                                                                         *)
(* Every scheduler entry point runs under rq->lock with interrupts off, so *)
(* on one CPU it is one atomic step.  What interleaves is the order of the *)
(* entry points: the timer tick, wakeups from interrupts, system calls of  *)
(* the current task, and __schedule() itself.                              *)
(*                                                                         *)
(* The entry points are compositions of the class callbacks, so the        *)
(* callbacks are operators from a scheduler state st = [task, rq] to the   *)
(* next one, and an action makes the composed result the next state.       *)
(***************************************************************************)
EXTENDS Integers, Sequences, FiniteSets

CONSTANTS
  Task,               \* task_struct slots
  InitTask,           \* the slots in use at the start
  Worker,             \* slots whose tasks are workqueue workers (PF_WQ_WORKER)
  Idle,               \* rq->idle
  None,               \* "no task"
  Group,              \* task groups (cpu cgroups)
  Root,               \* the root task group, path "/"
  Background,         \* groups whose path has 'b' after the slash
  RtGroup,            \* groups with a non-zero rt_runtime
  StaticPrio,         \* static_prio values reachable by nice
  RtPriority,         \* rt_priority values asked for
  Policy,             \* policies asked for in sched_setscheduler
  ResetOnFork,        \* values asked for the flag SCHED_RESET_ON_FORK
  SleepState,         \* states a task waits in
  WaiterPrio,         \* prio of the top waiter of an rt_mutex
  RtBandwidth,        \* rt_bandwidth_enabled()
  MaxClock,           \* bound on rq->clock_task
  WRR_FG_TIMESLICE,   \* 100 * HZ / 1000
  WRR_BG_TIMESLICE,   \* 10 * HZ / 1000
  UINT_RANGE          \* number of values of an unsigned int

MAX_RT_PRIO == 100
MAX_PRIO == 140
RtPolicy == {"FIFO", "RR"}

ASSUME TaskAssumption ==
  /\ IsFiniteSet(Task) /\ InitTask \subseteq Task /\ Worker \subseteq Task
  /\ Idle \notin Task /\ None \notin Task /\ None # Idle

ASSUME GroupAssumption ==
  /\ Root \in Group
  /\ Background \subseteq Group \ {Root} /\ RtGroup \subseteq Group

ASSUME PrioAssumption ==
  /\ StaticPrio \subseteq MAX_RT_PRIO .. MAX_PRIO - 1 /\ 120 \in StaticPrio
  /\ RtPriority \subseteq 1 .. MAX_RT_PRIO - 1
  /\ Policy \subseteq {"NORMAL", "WRR"} \cup RtPolicy
  /\ WaiterPrio \subseteq 0 .. MAX_PRIO - 1
  /\ RtBandwidth \in BOOLEAN /\ ResetOnFork \subseteq BOOLEAN
  /\ SleepState \subseteq {"INTERRUPTIBLE", "UNINTERRUPTIBLE"}

\* The divisions by 1000 leave at least one tick: HZ is at least 100.
ASSUME SliceAssumption ==
  /\ MaxClock \in Nat
  /\ WRR_FG_TIMESLICE \in Nat \ {0} /\ WRR_BG_TIMESLICE \in Nat \ {0}
  /\ UINT_RANGE \in Nat
  /\ UINT_RANGE > WRR_FG_TIMESLICE /\ UINT_RANGE > WRR_BG_TIMESLICE

VARIABLES
  task,   \* [Task -> the scheduling fields of task_struct]
  rq      \* the runqueue of the one CPU

vars == <<task, rq>>
St == [task |-> task, rq |-> rq]

Become(st) == task' = st.task /\ rq' = st.rq

(***************************************************************************)
(* linux/list.h on the run lists.                                          *)
(***************************************************************************)
Members(q) == {q[i] : i \in DOMAIN q}
Position(q, p) == CHOOSE i \in DOMAIN q : q[i] = p
list_add(q, p) == <<p>> \o q
list_add_tail(q, p) == Append(q, p)
list_del(q, p) ==
  [i \in 1 .. Len(q) - 1 |-> IF i < Position(q, p) THEN q[i] ELSE q[i + 1]]
\* Mutant: the entry is linked at its new place but not unlinked.
list_move_tail_linked(q, p) == list_add_tail(q, p)
list_move_tail(q, p) == list_add_tail(list_del(q, p), p)

(***************************************************************************)
(* Priorities.                                                             *)
(***************************************************************************)
rt_prio(prio) == prio < MAX_RT_PRIO

normal_prio(t) ==
  IF t.policy \in RtPolicy THEN MAX_RT_PRIO - 1 - t.rt_priority
                           ELSE t.static_prio

\* rt_mutex_getprio: the top waiter's priority when it is the more urgent.
rt_mutex_getprio(t) == IF t.waiter < t.normal_prio THEN t.waiter ELSE t.normal_prio

\* effective_prio, which also refreshes normal_prio.
WithEffectivePrio(t) ==
  [t EXCEPT !.normal_prio = normal_prio(t),
            !.prio = IF rt_prio(t.prio) THEN t.prio ELSE normal_prio(t)]

(***************************************************************************)
(* A task at boot, and a slot that no task uses: the fields of a freed     *)
(* task_struct are not read again.                                         *)
(***************************************************************************)
BootTask(alive) ==
  [state |-> IF alive THEN "RUNNING" ELSE "DEAD", on_rq |-> alive,
   newborn |-> FALSE, policy |-> "NORMAL", class |-> "fair", static_prio |-> 120,
   normal_prio |-> 120, prio |-> 120, rt_priority |-> 0, waiter |-> MAX_PRIO,
   reset_on_fork |-> FALSE, group |-> Root, weight |-> 0, time_slice |-> 0,
   exec_start |-> 0, sum_exec_runtime |-> 0]

(***************************************************************************)
(* The current task, which may be the idle task.                           *)
(***************************************************************************)
CurrClass(st) == IF st.rq.curr = Idle THEN "idle" ELSE st.task[st.rq.curr].class
CurrPrio(st) == IF st.rq.curr = Idle THEN MAX_PRIO ELSE st.task[st.rq.curr].prio

(***************************************************************************)
(* What the code leaves to components outside the tree, as one choice per  *)
(* entry point: whether the real-time runqueue has used up its runtime     *)
(* (over), whether the fair class wants to preempt its own current task    *)
(* (preempt).  Time is abstracted, and so is the slice of a SCHED_RR task: *)
(* it may run out at any tick (expired).                                   *)
(***************************************************************************)
Env ==
  [over    : IF RtBandwidth /\ CurrClass(St) = "rt" THEN BOOLEAN ELSE {FALSE},
   expired : IF "RR" \in Policy /\ CurrClass(St) = "rt" THEN BOOLEAN ELSE {FALSE},
   preempt : IF CurrClass(St) = "fair" THEN BOOLEAN ELSE {FALSE}]

resched_task(st) == [st EXCEPT !.rq.need_resched = TRUE]
ReschedIf(cond, st) == IF cond THEN resched_task(st) ELSE st

\* The time since exec_start is charged to the current task; a clock that went
\* backwards charges nothing.
Delta(st) ==
  LET d == st.rq.clock_task - st.task[st.rq.curr].exec_start
  IN  IF d < 0 THEN 0 ELSE d

Charge(st) ==
  LET t == st.task[st.rq.curr]
  IN  [st EXCEPT !.task[st.rq.curr] =
         [t EXCEPT !.sum_exec_runtime = t.sum_exec_runtime + Delta(st),
                   !.exec_start = st.rq.clock_task]]

inc_nr_running(st) == [st EXCEPT !.rq.nr_running = @ + 1]
dec_nr_running(st) == [st EXCEPT !.rq.nr_running = @ - 1]

-----------------------------------------------------------------------------
(***************************************************************************)
(* The weighted round-robin class.                                         *)
(***************************************************************************)
update_curr_wrr(st) == IF CurrClass(st) = "wrr" THEN Charge(st) ELSE st

group_weight(g) == IF g \in Background THEN 1 ELSE 10
weight_slice(w) == IF w = 1 THEN WRR_BG_TIMESLICE ELSE WRR_FG_TIMESLICE

\* Mutants: the weight is accounted before it is refreshed; the weight of the
\* first enqueue stays; the task is always linked at the head.
enqueue_wrr_entity_early(st, p, head) ==
  LET w  == group_weight(st.task[p].group)
      s1 == IF st.task[p].weight = w THEN st
            ELSE [st EXCEPT !.task[p] = [@ EXCEPT !.weight = w,
                                                  !.time_slice = weight_slice(w)]]
  IN  [s1 EXCEPT !.rq.queue = IF head THEN list_add(@, p) ELSE list_add_tail(@, p),
                 !.rq.total_weight = @ + st.task[p].weight,
                 !.rq.wrr_nr_running = @ + 1]

enqueue_wrr_entity_once(st, p, head) ==
  LET w  == IF st.task[p].weight = 0 THEN group_weight(st.task[p].group)
                                     ELSE st.task[p].weight
      s1 == IF st.task[p].weight = w THEN st
            ELSE [st EXCEPT !.task[p] = [@ EXCEPT !.weight = w,
                                                  !.time_slice = weight_slice(w)]]
  IN  [s1 EXCEPT !.rq.queue = IF head THEN list_add(@, p) ELSE list_add_tail(@, p),
                 !.rq.total_weight = @ + w,
                 !.rq.wrr_nr_running = @ + 1]

enqueue_wrr_entity_head(st, p, head) ==
  LET w  == group_weight(st.task[p].group)
      s1 == IF st.task[p].weight = w THEN st
            ELSE [st EXCEPT !.task[p] = [@ EXCEPT !.weight = w,
                                                  !.time_slice = weight_slice(w)]]
  IN  [s1 EXCEPT !.rq.queue = list_add(@, p),
                 !.rq.total_weight = @ + w,
                 !.rq.wrr_nr_running = @ + 1]

\* A task whose weight is not the one of its group gets the group's weight
\* and a fresh time slice; then it joins the queue.
enqueue_wrr_entity(st, p, head) ==
  LET w  == group_weight(st.task[p].group)
      s1 == IF st.task[p].weight = w THEN st
            ELSE [st EXCEPT !.task[p] = [@ EXCEPT !.weight = w,
                                                  !.time_slice = weight_slice(w)]]
  IN  [s1 EXCEPT !.rq.queue = IF head THEN list_add(@, p) ELSE list_add_tail(@, p),
                 !.rq.total_weight = @ + w,
                 !.rq.wrr_nr_running = @ + 1]

enqueue_task_wrr(st, p, head) == inc_nr_running(enqueue_wrr_entity(st, p, head))

dequeue_wrr_entity(st, p) ==
  [st EXCEPT !.rq.queue = list_del(@, p),
             !.rq.total_weight = @ - st.task[p].weight,
             !.rq.wrr_nr_running = @ - 1]

dequeue_task_wrr(st, p) == dec_nr_running(dequeue_wrr_entity(update_curr_wrr(st), p))

\* Mutant: list_move in place of list_move_tail.
requeue_task_wrr_head(st, p) == [st EXCEPT !.rq.queue = list_add(list_del(@, p), p)]
requeue_task_wrr(st, p) == [st EXCEPT !.rq.queue = list_move_tail(@, p)]

\* --p->wrr.time_slice on an unsigned int.
DecSlice(n) == IF n = 0 THEN UINT_RANGE - 1 ELSE n - 1

task_tick_wrr(st, p) ==
  LET s1   == update_curr_wrr(st)
      left == DecSlice(st.task[p].time_slice)
      full == [s1 EXCEPT !.task[p].time_slice = weight_slice(st.task[p].weight)]
  IN  IF left # 0 THEN [s1 EXCEPT !.task[p].time_slice = left]
      ELSE IF Len(st.rq.queue) > 1
           THEN resched_task(requeue_task_wrr(full, p))
           ELSE full

\* Mutant: the time since the last update is not charged.
put_prev_task_wrr_uncharged(st) == [st EXCEPT !.task[st.rq.curr].exec_start = 0]

put_prev_task_wrr(st) ==
  LET s1 == update_curr_wrr(st)
  IN  [s1 EXCEPT !.task[st.rq.curr].exec_start = 0]

\* The weight is set again from the group, outside the accounting.
switched_to_wrr(st, p) ==
  IF st.task[p].on_rq /\ st.rq.curr # p
  THEN [resched_task(st) EXCEPT !.task[p].weight = group_weight(st.task[p].group)]
  ELSE st

-----------------------------------------------------------------------------
(***************************************************************************)
(* The real-time class.  One list in queueing order stands for the array   *)
(* of lists: the queue of a priority is the sublist of its tasks.          *)
(***************************************************************************)
Boosted(st) ==
  \E p \in Members(st.rq.rt) : st.task[p].prio # st.task[p].normal_prio

rt_rq_throttled(st) == st.rq.rt_throttled /\ ~Boosted(st)

\* sched_rt_runtime_exceeded: the runqueue is throttled, and a task that may
\* not go on is asked to reschedule.
update_curr_rt(st, e) ==
  IF CurrClass(st) # "rt" THEN st
  ELSE LET s1 == [Charge(st) EXCEPT !.rq.rt_throttled = @ \/ e.over]
       IN  ReschedIf(RtBandwidth /\ rt_rq_throttled(s1), s1)

enqueue_task_rt(st, p, head) ==
  inc_nr_running([st EXCEPT !.rq.rt = IF head THEN list_add(@, p)
                                              ELSE list_add_tail(@, p)])

dequeue_task_rt(st, p, e) ==
  LET s1 == update_curr_rt(st, e)
  IN  dec_nr_running([s1 EXCEPT !.rq.rt = list_del(@, p)])

requeue_task_rt(st, p) == [st EXCEPT !.rq.rt = list_move_tail(@, p)]

\* The first task of the most urgent non-empty priority.
pick_next_rt_entity(st) ==
  LET q     == st.rq.rt
      Prio(i) == st.task[q[i]].prio
      First(i) == \A j \in DOMAIN q : Prio(i) < Prio(j) \/ (Prio(i) = Prio(j) /\ i =< j)
  IN  q[CHOOSE i \in DOMAIN q : First(i)]

highest_prio(st) == st.task[pick_next_rt_entity(st)].prio

task_tick_rt(st, p, e) ==
  LET s1     == update_curr_rt(st, e)
      others == {q \in Members(s1.rq.rt) \ {p} : s1.task[q].prio = s1.task[p].prio}
  IN  IF st.task[p].policy = "RR" /\ e.expired /\ others # {}
      THEN resched_task(requeue_task_rt(s1, p))
      ELSE s1

switched_to_rt(st, p) ==
  ReschedIf(/\ st.task[p].on_rq /\ st.rq.curr # p
            /\ st.task[p].prio < CurrPrio(st), st)

prio_changed_rt(st, p, oldprio) ==
  ReschedIf(/\ st.task[p].on_rq
            /\ IF st.rq.curr = p THEN oldprio < st.task[p].prio
                                 ELSE st.task[p].prio < CurrPrio(st), st)

-----------------------------------------------------------------------------
(***************************************************************************)
(* The fair class, which is outside the tree: a set of runnable tasks, of  *)
(* which it may pick any.                                                  *)
(***************************************************************************)
update_curr_fair(st) == IF CurrClass(st) = "fair" THEN Charge(st) ELSE st
enqueue_task_fair(st, p) == inc_nr_running([st EXCEPT !.rq.fair = @ \cup {p}])
dequeue_task_fair(st, p) ==
  dec_nr_running([update_curr_fair(st) EXCEPT !.rq.fair = @ \ {p}])

-----------------------------------------------------------------------------
(***************************************************************************)
(* core.c: dispatch to the class of the task.                              *)
(***************************************************************************)
enqueue_task(st, p, head) ==
  CASE st.task[p].class = "rt"   -> enqueue_task_rt(st, p, head)
    [] st.task[p].class = "wrr"  -> enqueue_task_wrr(st, p, head)
    [] st.task[p].class = "fair" -> enqueue_task_fair(st, p)

dequeue_task(st, p, e) ==
  CASE st.task[p].class = "rt"   -> dequeue_task_rt(st, p, e)
    [] st.task[p].class = "wrr"  -> dequeue_task_wrr(st, p)
    [] st.task[p].class = "fair" -> dequeue_task_fair(st, p)

put_prev_task(st, e) ==
  CASE CurrClass(st) = "rt"   -> update_curr_rt(st, e)
    [] CurrClass(st) = "wrr"  -> put_prev_task_wrr(st)
    [] CurrClass(st) = "fair" -> update_curr_fair(st)
    [] CurrClass(st) = "idle" -> st

\* set_curr_task is the same in every class.
set_curr_task(st) == [st EXCEPT !.task[st.rq.curr].exec_start = st.rq.clock_task]

activate_task(st, p) ==
  LET s1 == IF st.task[p].state = "UNINTERRUPTIBLE"
            THEN [st EXCEPT !.rq.nr_uninterruptible = @ - 1] ELSE st
  IN  [enqueue_task(s1, p, FALSE) EXCEPT !.task[p].on_rq = TRUE]

deactivate_task(st, p, e) ==
  LET s1 == IF st.task[p].state = "UNINTERRUPTIBLE"
            THEN [st EXCEPT !.rq.nr_uninterruptible = @ + 1] ELSE st
  IN  [dequeue_task(s1, p, e) EXCEPT !.task[p].on_rq = FALSE]

\* for_each_class runs from the most urgent class down.
ClassRank == [rt |-> 1, wrr |-> 2, fair |-> 3, idle |-> 4]

check_preempt_curr(st, p, e) ==
  LET mine == st.task[p].class
      its  == CurrClass(st)
  IN  CASE mine = its /\ its = "rt"   -> ReschedIf(st.task[p].prio < CurrPrio(st), st)
        [] mine = its /\ its = "wrr"  -> st
        [] mine = its /\ its = "fair" -> ReschedIf(e.preempt, st)
        [] mine # its -> ReschedIf(ClassRank[mine] < ClassRank[its], st)

\* External: what fair.c does of a task that joins it or changes priority.
switched_to_fair(st, p, e) ==
  IF ~st.task[p].on_rq THEN st
  ELSE IF st.rq.curr = p THEN resched_task(st)
  ELSE check_preempt_curr(st, p, e)

prio_changed_fair(st, p, oldprio, e) ==
  IF ~st.task[p].on_rq THEN st
  ELSE IF st.rq.curr = p THEN ReschedIf(oldprio < st.task[p].prio, st)
  ELSE check_preempt_curr(st, p, e)

check_class_changed(st, p, prev_class, oldprio, e) ==
  LET c == st.task[p].class
  IN  IF prev_class # c
      THEN CASE c = "rt"   -> switched_to_rt(st, p)
             [] c = "wrr"  -> switched_to_wrr(st, p)
             [] c = "fair" -> switched_to_fair(st, p, e)
      ELSE IF oldprio = st.task[p].prio THEN st
      ELSE CASE c = "rt"   -> prio_changed_rt(st, p, oldprio)
             [] c = "wrr"  -> st
             [] c = "fair" -> prio_changed_fair(st, p, oldprio, e)

(***************************************************************************)
(* The frame that sched_setscheduler, rt_mutex_setprio and sched_move_task *)
(* share: off the queue, a change t of the fields, back on the queue.      *)
(***************************************************************************)
TakeOff(st, p, e) ==
  LET s1 == IF st.task[p].on_rq THEN dequeue_task(st, p, e) ELSE st
  IN  IF st.rq.curr = p THEN put_prev_task(s1, e) ELSE s1

PutBack(st, p, t, head) ==
  LET s1 == [st EXCEPT !.task[p] = t]
      s2 == IF st.rq.curr = p THEN set_curr_task(s1) ELSE s1
  IN  IF t.on_rq THEN enqueue_task(s2, p, head) ELSE s2

ttwu_do_wakeup(st, p, e) ==
  [check_preempt_curr(st, p, e) EXCEPT !.task[p].state = "RUNNING"]

Asleep(t) == t.state \in {"INTERRUPTIBLE", "UNINTERRUPTIBLE"}

\* Mutant: the worker is made runnable but not queued.
try_to_wake_up_local_unqueued(st, p, e) ==
  IF p \notin Task \/ p = st.rq.curr \/ ~Asleep(st.task[p]) THEN st
  ELSE ttwu_do_wakeup(st, p, e)

try_to_wake_up_local(st, p, e) ==
  IF p \notin Task \/ p = st.rq.curr \/ ~Asleep(st.task[p]) THEN st
  ELSE ttwu_do_wakeup(IF st.task[p].on_rq THEN st ELSE activate_task(st, p), p, e)

\* The tasks pick_next_task may return: one, except that the choice among
\* fair tasks is left open.
pick_next_task(st) ==
  LET r == st.rq
  IN  IF r.nr_running = Cardinality(r.fair) /\ r.fair # {} THEN r.fair
      ELSE IF r.rt # <<>> /\ ~rt_rq_throttled(st) THEN {pick_next_rt_entity(st)}
      ELSE IF r.wrr_nr_running # 0 THEN {Head(r.queue)}
      ELSE IF r.fair # {} THEN r.fair
      ELSE {Idle}

\* The classes other than WRR note when the picked task starts to run.
Started(st, next) ==
  IF next = Idle THEN st
  ELSE IF st.task[next].class = "wrr" THEN st
  ELSE [st EXCEPT !.task[next].exec_start = st.rq.clock_task]

\* Mutant: PREEMPT_ACTIVE is not looked at.
LeaveCpu_preempted(st, preempt_active, signal, worker, e) ==
  LET prev == st.rq.curr
  IN  IF prev = Idle THEN st
      ELSE IF st.task[prev].state = "RUNNING" THEN st
      ELSE IF st.task[prev].state = "INTERRUPTIBLE" /\ signal
           THEN [st EXCEPT !.task[prev].state = "RUNNING"]
      ELSE deactivate_task(st, prev, e)

\* The first half of __schedule: a task that is not runnable leaves the queue,
\* unless it is being preempted (PREEMPT_ACTIVE) or has a signal pending.
LeaveCpu(st, preempt_active, signal, worker, e) ==
  LET prev == st.rq.curr
  IN  IF prev = Idle \/ preempt_active THEN st
      ELSE IF st.task[prev].state = "RUNNING" THEN st
      ELSE IF st.task[prev].state = "INTERRUPTIBLE" /\ signal
           THEN [st EXCEPT !.task[prev].state = "RUNNING"]
      ELSE IF prev \in Worker
           THEN try_to_wake_up_local(deactivate_task(st, prev, e), worker, e)
      ELSE deactivate_task(st, prev, e)

\* finish_task_switch drops the last reference to a task that has exited.
finish_task_switch(st, prev) ==
  IF prev = Idle THEN st
  ELSE IF st.task[prev].state = "DEAD" THEN [st EXCEPT !.task[prev] = BootTask(FALSE)]
  ELSE st

\* The second half: the next task gets the CPU.
SwitchTo(st, next) ==
  finish_task_switch([Started(st, next) EXCEPT !.rq.curr = next, !.rq.need_resched = FALSE],
                     st.rq.curr)

__schedule(st, preempt_active) ==
  \E signal \in BOOLEAN, worker \in Worker \cup {None}, e \in Env :
    LET s1 == put_prev_task(LeaveCpu(st, preempt_active, signal, worker, e), e)
    IN  \E next \in pick_next_task(s1) : Become(SwitchTo(s1, next))

-----------------------------------------------------------------------------
(***************************************************************************)
(* The steps.  Curr is the task that makes a system call.                  *)
(***************************************************************************)
Curr == rq.curr
InTask == Curr \in Task
Alive(p) == task[p].state # "DEAD"

\* The timer interrupt.
scheduler_tick ==
  /\ InTask
  /\ \E e \in Env :
       Become(CASE task[Curr].class = "rt"   -> task_tick_rt(St, Curr, e)
                [] task[Curr].class = "wrr"  -> task_tick_wrr(St, Curr)
                [] task[Curr].class = "fair" -> ReschedIf(e.preempt, update_curr_fair(St)))

\* Time passes between two entries of the scheduler.
sched_clock ==
  /\ rq.clock_task < MaxClock
  /\ rq' = [rq EXCEPT !.clock_task = @ + 1]
  /\ UNCHANGED task

\* Mutant: the runqueue is unthrottled, but nobody is asked to reschedule.
sched_rt_period_timer_quiet ==
  /\ RtBandwidth
  /\ Become([St EXCEPT !.rq.rt_throttled = FALSE])

\* The period timer of the real-time bandwidth.  rt_time is not kept here
\* (RtQuota keeps it): an expiry that leaves rt_time at or above the runtime,
\* and so the runqueue throttled, changes nothing and is a stuttering step.
\* There is one list of real-time tasks, so no group's entity to put back.
sched_rt_period_timer ==
  /\ RtBandwidth
  /\ LET s1 == [St EXCEPT !.rq.rt_throttled = FALSE]
     IN  Become(IF rq.rt = <<>> THEN s1
                ELSE ReschedIf(highest_prio(s1) < CurrPrio(s1), s1))

\* set_current_state() before a wait, and finish_wait() when there is nothing
\* to wait for after all.
set_current_state(state) ==
  /\ InTask /\ task[Curr].state # state
  /\ task' = [task EXCEPT ![Curr].state = state]
  /\ UNCHANGED rq

schedule ==
  /\ InTask \/ rq.need_resched
  /\ __schedule(St, FALSE)

preempt_schedule ==
  /\ rq.need_resched
  /\ __schedule(St, TRUE)

\* From an interrupt handler or from the current task.
try_to_wake_up(p) ==
  /\ Asleep(task[p])
  /\ \E e \in Env :
       Become(ttwu_do_wakeup(IF task[p].on_rq THEN St ELSE activate_task(St, p), p, e))

\* The child is a copy of its parent; sched_fork then sets what differs.
sched_fork(t) ==
  LET copy  == [t EXCEPT !.on_rq = FALSE, !.state = "RUNNING", !.newborn = TRUE,
                         !.waiter = MAX_PRIO, !.prio = t.normal_prio,
                         !.exec_start = 0, !.sum_exec_runtime = 0]
      sp    == IF t.policy \in RtPolicy \/ t.static_prio < 120 THEN 120 ELSE t.static_prio
      reset == [copy EXCEPT !.policy = IF t.policy \in RtPolicy THEN "NORMAL" ELSE t.policy,
                            !.rt_priority = IF t.policy \in RtPolicy THEN 0 ELSE t.rt_priority,
                            !.static_prio = sp, !.prio = sp, !.normal_prio = sp,
                            !.reset_on_fork = FALSE]
      child == IF t.reset_on_fork THEN reset ELSE copy
      placed == IF rt_prio(child.prio) THEN child ELSE [child EXCEPT !.class = "fair"]
  IN  IF placed.class = "wrr" THEN [placed EXCEPT !.time_slice = 0] ELSE placed

do_fork(c) ==
  /\ InTask /\ task[Curr].state = "RUNNING"
  /\ task[c].state = "DEAD" /\ ~task[c].on_rq /\ c # Curr
  /\ task' = [task EXCEPT ![c] = sched_fork(task[Curr])]
  /\ UNCHANGED rq

wake_up_new_task(c) ==
  /\ task[c].newborn
  /\ \E e \in Env :
       LET s1 == activate_task([St EXCEPT !.task[c].newborn = FALSE], c)
       IN  Become(check_preempt_curr(s1, c, e))

\* A task that is exiting goes back to the root group.
cpu_cgroup_exit(st, p, e) ==
  LET s0 == TakeOff(st, p, e)
  IN  PutBack(s0, p, [s0.task[p] EXCEPT !.group = Root], FALSE)

\* External: the end of a task, the group left and off the CPU for good.  What
\* happens between the two is what happens between sched_move_task() to the
\* root group and do_exit.
do_exit ==
  /\ InTask /\ task[Curr].state = "RUNNING" /\ task[Curr].waiter = MAX_PRIO
  /\ \E e \in Env :
       __schedule([cpu_cgroup_exit(St, Curr, e) EXCEPT !.task[Curr].state = "DEAD"], FALSE)

yield_task(st, p) ==
  CASE st.task[p].class = "rt"   -> requeue_task_rt(st, p)
    [] st.task[p].class = "wrr"  -> requeue_task_wrr(st, p)
    [] st.task[p].class = "fair" -> st

sched_yield ==
  /\ InTask /\ task[Curr].state = "RUNNING"
  /\ __schedule(yield_task(St, Curr), FALSE)

\* Mutant: the class follows the policy, not the priority.
__setscheduler_unboosted(t, policy, priority) ==
  LET t1 == [t EXCEPT !.policy = policy, !.rt_priority = priority]
      t2 == [t1 EXCEPT !.normal_prio = normal_prio(t1)]
      t3 == [t2 EXCEPT !.prio = rt_mutex_getprio(t2)]
  IN  [t3 EXCEPT !.class = CASE policy = "WRR" -> "wrr"
                             [] policy \in RtPolicy -> "rt"
                             [] OTHER -> "fair"]

\* The new fields of a task that changes policy.
__setscheduler(t, policy, priority) ==
  LET t1 == [t EXCEPT !.policy = policy, !.rt_priority = priority]
      t2 == [t1 EXCEPT !.normal_prio = normal_prio(t1)]
      t3 == [t2 EXCEPT !.prio = rt_mutex_getprio(t2)]
  IN  [t3 EXCEPT !.class = IF policy = "WRR" THEN "wrr"
                           ELSE IF rt_prio(t3.prio) THEN "rt" ELSE "fair"]

\* The call by a caller with the permission for it.  The runqueue lock is held
\* from the second reading of the policy to the end, so the recheck loop is one
\* step (SetSched has the steps apart); every group counts for the real-time
\* check, autogroups are not modelled.
sched_setscheduler(p, policy, priority, reset) ==
  /\ InTask /\ Alive(p)
  /\ (policy \in RtPolicy) = (priority # 0)
  /\ ~(policy = task[p].policy
        /\ (policy \notin RtPolicy \/ priority = task[p].rt_priority))
  /\ (RtBandwidth /\ policy \in RtPolicy) => task[p].group \in RtGroup
  /\ \E e \in Env :
       LET s0 == TakeOff(St, p, e)
           t  == __setscheduler([s0.task[p] EXCEPT !.reset_on_fork = reset], policy, priority)
           s1 == PutBack(s0, p, t, FALSE)
       IN  Become(check_class_changed(s1, p, task[p].class, task[p].prio, e))

set_user_nice(p, prio) ==
  /\ InTask /\ Alive(p) /\ prio # task[p].static_prio
  /\ \E e \in Env :
       LET s0    == IF task[p].on_rq THEN dequeue_task(St, p, e) ELSE St
           t     == WithEffectivePrio([s0.task[p] EXCEPT !.static_prio = prio])
           delta == t.prio - task[p].prio
           s1    == [s0 EXCEPT !.task[p] = t]
       IN  Become(IF task[p].policy \in RtPolicy
                  THEN [St EXCEPT !.task[p].static_prio = prio]
                  ELSE IF ~task[p].on_rq THEN s1
                  ELSE ReschedIf(delta < 0 \/ (delta > 0 /\ Curr = p),
                                 enqueue_task(s1, p, FALSE)))

\* __rt_mutex_adjust_prio: the top waiter of a lock that p holds changes, and
\* rt_mutex_setprio follows when that changes p's priority.
rt_mutex_setprio(p, waiter) ==
  /\ InTask /\ Alive(p) /\ waiter # task[p].waiter
  /\ \E e \in Env :
       LET prio == rt_mutex_getprio([task[p] EXCEPT !.waiter = waiter])
           s0   == TakeOff(St, p, e)
           t    == [s0.task[p] EXCEPT !.waiter = waiter, !.prio = prio,
                                      !.class = IF rt_prio(prio) THEN "rt" ELSE "fair"]
           s1   == PutBack(s0, p, t, task[p].prio < prio)
       IN  Become(IF prio = task[p].prio THEN [St EXCEPT !.task[p].waiter = waiter]
                  ELSE check_class_changed(s1, p, task[p].class, task[p].prio, e))

\* A cgroup attach, which sched_rt_can_attach may refuse.
sched_move_task(p, g) ==
  /\ InTask /\ Alive(p) /\ g # task[p].group
  /\ rt_prio(task[p].prio) => g \in RtGroup
  /\ \E e \in Env :
       LET s0 == TakeOff(St, p, e)
       IN  Become(PutBack(s0, p, [s0.task[p] EXCEPT !.group = g], FALSE))

-----------------------------------------------------------------------------
Init ==
  /\ task = [p \in Task |-> BootTask(p \in InitTask)]
  /\ rq = [curr |-> Idle, clock_task |-> 0, need_resched |-> TRUE, nr_running |-> Cardinality(InitTask),
           nr_uninterruptible |-> 0, queue |-> <<>>, wrr_nr_running |-> 0,
           total_weight |-> 0, rt |-> <<>>, rt_throttled |-> FALSE, fair |-> InitTask]

Interrupt ==
  \/ scheduler_tick
  \/ sched_clock
  \/ sched_rt_period_timer
  \/ \E p \in Task : try_to_wake_up(p)

Reschedule == schedule \/ preempt_schedule

Lifecycle ==
  \/ \E state \in SleepState \cup {"RUNNING"} : set_current_state(state)
  \/ \E c \in Task : do_fork(c) \/ wake_up_new_task(c)
  \/ do_exit
  \/ sched_yield

Reconfigure ==
  \E p \in Task :
    \/ \E policy \in Policy, priority \in RtPriority \cup {0}, reset \in ResetOnFork :
         sched_setscheduler(p, policy, priority, reset)
    \/ \E prio \in StaticPrio : set_user_nice(p, prio)
    \/ \E waiter \in WaiterPrio \cup {MAX_PRIO} : rt_mutex_setprio(p, waiter)
    \/ \E g \in Group : sched_move_task(p, g)

Next == Interrupt \/ Reschedule \/ Lifecycle \/ Reconfigure

Spec == Init /\ [][Next]_vars

(***************************************************************************)
(* Fairness: the timer interrupts keep coming, and a pending reschedule is *)
(* taken at the next preemption point.                                     *)
(***************************************************************************)
FairSpec ==
  /\ Spec
  /\ WF_vars(scheduler_tick)
  /\ WF_vars(sched_rt_period_timer)
  /\ WF_vars(preempt_schedule)

-----------------------------------------------------------------------------
(***************************************************************************)
(* Properties.                                                             *)
(***************************************************************************)
Queued(class) == {p \in Task : task[p].on_rq /\ task[p].class = class}

TaskRecord ==
  [state : {"RUNNING", "INTERRUPTIBLE", "UNINTERRUPTIBLE", "DEAD"},
   on_rq : BOOLEAN, newborn : BOOLEAN,
   policy : {"NORMAL", "WRR"} \cup RtPolicy, class : {"rt", "wrr", "fair"},
   static_prio : StaticPrio, normal_prio : 0 .. MAX_PRIO - 1, prio : 0 .. MAX_PRIO - 1,
   rt_priority : RtPriority \cup {0}, waiter : WaiterPrio \cup {MAX_PRIO},
   reset_on_fork : BOOLEAN, group : Group, weight : {0, 1, 10},
   time_slice : 0 .. UINT_RANGE - 1, exec_start : Nat, sum_exec_runtime : Nat]

RqRecord ==
  [curr : Task \cup {Idle}, clock_task : Nat, need_resched : BOOLEAN, nr_running : Int,
   nr_uninterruptible : Int, queue : Seq(Task), wrr_nr_running : Int,
   total_weight : Int, rt : Seq(Task), rt_throttled : BOOLEAN, fair : SUBSET Task]

\* The fields of task_struct and of struct rq keep their types.
TypeOK == task \in [Task -> TaskRecord] /\ rq \in RqRecord

\* p->on_rq, p->sched_class and the run lists of the classes agree: a task is
\* linked into exactly the list of its class, once, exactly when on_rq is set.
QueuesAgree ==
  /\ Members(rq.queue) = Queued("wrr")
  /\ Members(rq.rt) = Queued("rt")
  /\ rq.fair = Queued("fair")
  /\ \A i, j \in DOMAIN rq.queue : rq.queue[i] = rq.queue[j] => i = j
  /\ \A i, j \in DOMAIN rq.rt : rq.rt[i] = rq.rt[j] => i = j

Weighing(w) == {p \in Queued("wrr") : task[p].weight = w}

\* The counters of the runqueue are the counts they stand for, through every
\* dequeue and enqueue that wakeup, sleep, renice, boost, policy and group
\* changes compose: wrr_nr_running, total_weight (the sum of the weights of
\* the queued tasks), nr_running and nr_uninterruptible.
CountersAgree ==
  /\ rq.wrr_nr_running = Len(rq.queue)
  /\ rq.total_weight = Cardinality(Weighing(1)) + 10 * Cardinality(Weighing(10))
  /\ rq.nr_running = Cardinality({p \in Task : task[p].on_rq})
  /\ rq.nr_uninterruptible =
       Cardinality({p \in Task : task[p].state = "UNINTERRUPTIBLE" /\ ~task[p].on_rq})

\* A queued WRR task has the weight of the group it is in now, and between one
\* tick and the full slice of that weight left: the unsigned decrement in
\* task_tick_wrr never starts from 0.
SliceFollowsGroup ==
  \A p \in Queued("wrr") :
    /\ task[p].weight = group_weight(task[p].group)
    /\ task[p].time_slice \in 1 .. weight_slice(task[p].weight)

\* A runnable task is on the runqueue, unless its fork has not finished: no
\* wakeup is lost, whichever of set_current_state, schedule, preemption and
\* try_to_wake_up comes first; and the current task is always on it.
NoLostWakeup ==
  /\ \A p \in Task : task[p].state = "RUNNING" => task[p].on_rq \/ task[p].newborn
  /\ InTask => task[Curr].on_rq

\* The CPU never stays with the idle task or a fair task while a WRR task, or a
\* real-time task of a runqueue that is not throttled, is queued: the pending
\* reschedule has been asked for.
FairGivesWay ==
  CurrClass(St) \in {"fair", "idle"} =>
    \/ rq.need_resched
    \/ /\ rq.queue = <<>>
       /\ rq.rt # <<>> => rq.rt_throttled
       /\ Curr = Idle => rq.fair = {}

\* The class of a task against its policy and priority: only SCHED_WRR tasks
\* are in the WRR class (so get_rr_interval_wrr always returns a value), a
\* task in the real-time class has a real-time priority, one in the fair class
\* has not, and a SCHED_FIFO or SCHED_RR task is in the real-time class.
ClassAgrees ==
  \A p \in Task :
    /\ task[p].class = "wrr" => task[p].policy = "WRR"
    /\ task[p].class = "rt" => rt_prio(task[p].prio)
    /\ task[p].class = "fair" => ~rt_prio(task[p].prio)
    /\ task[p].policy \in RtPolicy => task[p].class = "rt"

\* A task leaves the runqueue only by its own call of schedule(), never by what
\* another task or an interrupt does to it; and preemption keeps it queued even
\* when it has already announced that it will sleep (PREEMPT_ACTIVE).
KeepsQueued ==
  /\ preempt_schedule => \A p \in Task : task[p].on_rq => task'[p].on_rq
  /\ \A p \in Task : task[p].on_rq /\ ~task'[p].on_rq => p = Curr

\* The WRR run list is first come, first served, whichever entry points run:
\* RoundRobin is what the class promises (list_add_tail, list_move_tail).
RR == INSTANCE RoundRobin WITH queue <- rq.queue
FirstComeFirstServed == RR!Spec

(***************************************************************************)
(* What the benchmark relies on and the code does not do.                  *)
(***************************************************************************)
\* A SCHED_WRR task that is on the runqueue and not boosted is served by the
\* WRR class, however it became one: by its own call or by fork.
WrrPolicyIsWrrClass ==
  \A p \in Task :
    task[p].policy = "WRR" /\ task[p].on_rq /\ task[p].waiter = MAX_PRIO
      => task[p].class = "wrr"
=============================================================================
