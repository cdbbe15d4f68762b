------------------------------ MODULE Dispatch ------------------------------
(***************************************************************************)
(* The multiprocessor core of the desktop kernel's scheduler               *)
(* (project_Process Scheduler/src/core.c): wakeups, context switches, CPU  *)
(* affinity with its stopper thread, exec balancing, task swapping and CPU *)
(* hotplug.  A step is what one CPU does between two points another CPU    *)
(* can observe: a critical section of a runqueue lock is one step unless   *)
(* it spans the stack switch, p->pi_lock is held across steps, and the     *)
(* fields try_to_wake_up reads without the runqueue lock (state, on_rq,    *)
(* on_cpu, the wake list) change in steps of their own.  Which of several  *)
(* queued tasks a scheduling class picks, and which allowed CPU it selects *)
(* for a wakeup, is left open.  Memory is sequentially consistent: the     *)
(* code's barriers are taken to do what their comments say.                *)
(***************************************************************************)
EXTENDS Integers, FiniteSets, FiniteSetsExt

CONSTANTS
    Task,       \* task_structs
    Cpu,        \* cpu_possible_mask
    Idle,       \* what curr is while a CPU runs its idle thread
    Stopper,    \* what curr is while a CPU runs its stopper thread
    None,       \* no context switch, no stopper work, no swap
    LONG_RANGE, \* rq->nr_uninterruptible is an unsigned long and wraps
    Modes       \* sets of the optional operations a behaviour may contain

\* A stop_one_cpu() request, one that the stopper works on, the two sides of a
\* migrate_swap(), and the context switch that holds a runqueue lock.
Stop == [task : Task, dest : Cpu]
Work == [task : Task, dest : Cpu, moving : BOOLEAN]
Swap == {w \in [src : Task, dst : Task, src_cpu : Cpu, dst_cpu : Cpu] :
           w.src # w.dst /\ w.src_cpu # w.dst_cpu}
Switch == [prev : Task \cup {Idle, Stopper}, done : BOOLEAN, dead : BOOLEAN]

DispatchAssumption ==
    /\ IsFiniteSet(Task) /\ LONG_RANGE \in Nat \ {0} /\ Cpu # {}
    /\ Idle \notin Task /\ Stopper \notin Task /\ Idle # Stopper
    /\ None \notin Cpu \cup Work \cup Swap \cup Switch

VARIABLES
    mode,       \* the optional operations of this behaviour
    task,       \* the task_structs
    rq,         \* the runqueues, with the per-CPU flags of their CPU
    pi_lock,    \* where the holder of p->pi_lock is, or "free"
    switch,     \* the context switch that holds rq->lock, or None
    hot,        \* where each CPU is between cpu_active and offline
    swap        \* the migrate_swap() in flight, or None

vars == <<mode, task, rq, pi_lock, switch, hot, swap>>

Sleeping == {"INTERRUPTIBLE", "UNINTERRUPTIBLE", "IO"}

\* What the tasks of this behaviour sleep in.
SleepStates ==
    IF "busy" \in mode THEN {}
    ELSE IF "load" \in mode THEN {"UNINTERRUPTIBLE", "IO"} ELSE {"INTERRUPTIBLE"}

Loads == {"UNINTERRUPTIBLE", "IO"}

active == {c \in Cpu : hot[c] = "up"}

online == {c \in Cpu : hot[c] # "offline"}

\* A counter of context switches; it advances where a behaviour watches it.
Count(n) == IF "ctx" \in mode THEN (n + 1) % LONG_RANGE ELSE n

\* task_struct right after copy_process() and sched_fork(), when it is not yet
\* visible to anybody.  again counts the times the running task was chosen
\* again; the kernel does not keep it.
NewTask(c, m) ==
    [state |-> "NEW", on_rq |-> "NO", on_cpu |-> FALSE, cpu |-> c, mask |-> m,
     load |-> FALSE, drops |-> 0, pc |-> "run", cond |-> FALSE,
     waking |-> FALSE, wake_q |-> FALSE, ctx |-> 0, csw |-> 0, again |-> 0]

Unused == [NewTask(None, Cpu) EXCEPT !.state = "UNUSED"]

IdleRq == [curr |-> Idle, queue |-> {}, resched |-> FALSE, idle |-> "busy",
           ipi |-> FALSE, wake_list |-> {}, stop |-> {}, work |-> None,
           nr_uninterruptible |-> 0, nr_iowait |-> 0]

Locked(c) == switch[c] # None

\* p runs the code between two calls of the scheduler on CPU c.
Runs(c, p) == rq[c].curr = p /\ ~Locked(c)

----------------------------------------------------------------------------
\* Reschedule requests

\* set_nr_and_not_polling: an idle CPU that polls the flag needs no IPI.
resched_curr(r) ==
    IF r.resched THEN r
    ELSE [r EXCEPT !.resched = TRUE, !.ipi = r.ipi \/ r.idle # "poll"]

\* set_nr_if_polling, and the IPI when the idle thread does not poll.
kick_idle(r) ==
    IF r.idle = "poll" THEN [r EXCEPT !.resched = TRUE]
    ELSE [r EXCEPT !.ipi = TRUE]

\* Idle is below every class and the stopper above: only between two tasks
\* does the class decide.
check_preempt_curr(r) ==
    CASE r.curr = Idle    -> {resched_curr(r)}
      [] r.curr = Stopper -> {r}
      [] OTHER            -> {r, resched_curr(r)}

\* stop_one_cpu(): the stopper thread is woken on its CPU.
QueueStop(r, w) == resched_curr([r EXCEPT !.stop = @ \cup {w}])

----------------------------------------------------------------------------
\* Enqueueing woken tasks.  Both operators map a pair of task and rq to the
\* set of pairs that can follow.

St(t, r) == [task |-> t, rq |-> r]

\* ttwu_do_activate of the tasks W on CPU c, which leave c's wake list.
ttwu_do_activate(s, c, W) ==
    LET t == [p \in Task |-> IF p \in W
                 THEN [s.task[p] EXCEPT !.state = "RUNNING", !.on_rq = "QUEUED"]
                 ELSE s.task[p]]
        r == [s.rq[c] EXCEPT
                 !.queue = @ \cup W,
                 !.wake_list = @ \ W,
                 !.nr_uninterruptible =
                    (@ - Cardinality({p \in W : s.task[p].load})) % LONG_RANGE]
    IN  IF W = {} THEN {s}
        ELSE {St(t, [s.rq EXCEPT ![c] = x]) : x \in check_preempt_curr(r)}

sched_ttwu_pending(s, c) == ttwu_do_activate(s, c, s.rq[c].wake_list)

\* select_task_rq: a CPU the task is allowed on, and the mask, which
\* select_fallback_rq() widens when no allowed CPU is active.
select_task_rq(p) ==
    LET ok == task[p].mask \cap active
    IN  IF ok # {} THEN {[cpu |-> c, mask |-> task[p].mask] : c \in ok}
        ELSE {[cpu |-> c, mask |-> Cpu] : c \in active}

\* cpu_active() not tested again.
MaskOnly(p, c) == c \in task[p].mask

is_cpu_allowed(p, c) == c \in task[p].mask /\ c \in active

----------------------------------------------------------------------------
\* What the running task does between two calls of the scheduler.  A wait is
\* the loop of set_current_state()'s comment: set the state, test the
\* condition, schedule().

set_current_state(c, st) ==
    /\ rq[c].curr \in Task /\ ~Locked(c)
    /\ LET p == rq[c].curr
       IN  /\ task[p].pc = "run"
           /\ task' = [task EXCEPT ![p].state = st, ![p].pc = "check"]
    /\ UNCHANGED <<mode, rq, pi_lock, switch, hot, swap>>

\* The condition is found true: the wait ends and consumes it.
finish_wait(c) ==
    /\ rq[c].curr \in Task /\ ~Locked(c)
    /\ LET p == rq[c].curr
       IN  /\ task[p].pc = "check" /\ task[p].cond
           /\ task' = [task EXCEPT ![p].state = "RUNNING", ![p].pc = "run",
                                   ![p].cond = FALSE]
    /\ UNCHANGED <<mode, rq, pi_lock, switch, hot, swap>>

\* The condition is found false: the task will call schedule().
commit_wait(c) ==
    /\ rq[c].curr \in Task /\ ~Locked(c)
    /\ LET p == rq[c].curr
       IN  /\ task[p].pc = "check" /\ ~task[p].cond
           /\ task' = [task EXCEPT ![p].pc = "sleep"]
    /\ UNCHANGED <<mode, rq, pi_lock, switch, hot, swap>>

set_special_state(p) == pi_lock[p] = "free"

\* set_special_state(TASK_DEAD) takes p->pi_lock; then __schedule(false).
\* Some task, init in the end, stays.
do_task_dead(c) ==
    /\ "exit" \in mode
    /\ \E q \in Task \ {rq[c].curr} : task[q].state \notin {"UNUSED", "DEAD"}
    /\ rq[c].curr \in Task /\ ~Locked(c)
    /\ LET p == rq[c].curr
       IN  /\ task[p].pc = "run" /\ set_special_state(p)
           /\ task' = [task EXCEPT ![p].state = "DEAD", ![p].pc = "dead"]
    /\ UNCHANGED <<mode, rq, pi_lock, switch, hot, swap>>

\* dup_task_struct() copied the parent's counters.
InheritedCtx(p) == task[p].ctx

\* p->ctx = 0 in copy_process().
fork_ctx(p) == 0

\* fork() by the running task: sched_fork() and wake_up_new_task().
wake_up_new_task(c, p) ==
    /\ "fork" \in mode
    /\ rq[c].curr \in Task /\ ~Locked(c) /\ task[p].state = "UNUSED"
    /\ task[rq[c].curr].pc = "run"
    /\ \E x \in select_task_rq(rq[c].curr) :
         /\ ~Locked(x.cpu)
         /\ \E s \in ttwu_do_activate(
                       St([task EXCEPT ![p] = [NewTask(x.cpu, x.mask) EXCEPT
                                                 !.ctx = fork_ctx(rq[c].curr)]], rq),
                       x.cpu, {p}) :
              task' = s.task /\ rq' = s.rq
    /\ UNCHANGED <<mode, pi_lock, switch, hot, swap>>

\* The last reference goes: put_task_struct() of a dead task.
release_task(p) ==
    /\ task[p].state = "DEAD" /\ task[p].drops > 0 /\ ~task[p].on_cpu
    /\ ~task[p].waking /\ ~task[p].wake_q /\ pi_lock[p] = "free"
    /\ \A c \in Cpu : /\ \A w \in rq[c].stop : w.task # p
                      /\ rq[c].work # None => rq[c].work.task # p
    /\ (swap # None => p \notin {swap.src, swap.dst})
    /\ task' = [task EXCEPT ![p] = Unused]
    /\ UNCHANGED <<mode, rq, pi_lock, switch, hot, swap>>

----------------------------------------------------------------------------
\* __schedule and the context switch

\* The test of preempt left out.
SleepsAnyway(p, preempt) == task[p].state # "RUNNING"

MaySleep(p, preempt) == ~preempt /\ task[p].state # "RUNNING"

\* A task that called schedule() with a sleeping state leaves the queue,
\* unless a signal is pending; one that is preempted never does.
LeaveCpu(c, preempt) ==
    LET p == rq[c].curr
        io == task[p].state = "IO"
        off == St([task EXCEPT ![p].on_rq = "NO", ![p].pc = IF @ = "dead" THEN @ ELSE "run"],
                  [rq EXCEPT ![c].queue = @ \ {p},
                     ![c].nr_uninterruptible =
                       (@ + (IF task[p].state \in Loads THEN 1 ELSE 0)) % LONG_RANGE,
                     ![c].nr_iowait = @ + (IF io THEN 1 ELSE 0)])
        signalled == St([task EXCEPT ![p].state = "RUNNING", ![p].pc = "run"], rq)
    IN  IF p \notin Task THEN {St(task, rq)}
        ELSE IF ~MaySleep(p, preempt)
             THEN {St([task EXCEPT ![p].pc = IF preempt THEN @ ELSE "run"], rq)}
        ELSE {off} \cup (IF task[p].state = "INTERRUPTIBLE" THEN {signalled} ELSE {})

StopWanted(c, r) ==
    r.stop # {} \/ r.work # None \/ hot[c] = "inactive" \/ (swap # None /\ c \in {swap.src_cpu, swap.dst_cpu})

pick_next_task(c, r) ==
    IF StopWanted(c, r) THEN {Stopper}
    ELSE IF r.queue # {} THEN r.queue
    ELSE {Idle}

\* The counters of prev and next: next->ctx for being chosen, nvcsw or nivcsw
\* of prev, here one, for the switch.
CountSwitch(t, prev, next) ==
    [p \in Task |->
       [t[p] EXCEPT !.ctx = IF p = next THEN Count(@) ELSE @,
                    !.csw = IF p = prev /\ p # next THEN Count(@) ELSE @,
                    !.again = IF p = prev /\ p = next THEN Count(@) ELSE @]]

\* rq->lock is held from here to finish_lock_switch() when the CPU switches.
__schedule(c, preempt) ==
    LET prev == rq[c].curr
    IN  \E s \in LeaveCpu(c, preempt) : \E next \in pick_next_task(c, s.rq[c]) :
          /\ LET t == CountSwitch(s.task, prev, next)
             IN  task' = IF next \in Task THEN [t EXCEPT ![next].on_cpu = TRUE] ELSE t
          /\ rq' = [s.rq EXCEPT ![c].curr = next, ![c].resched = FALSE,
                                ![c].idle = IF next = Idle THEN "busy" ELSE "run"]
          /\ switch' = IF next = prev THEN switch
                       ELSE [switch EXCEPT ![c] = [prev |-> prev, done |-> FALSE, dead |-> FALSE]]
          /\ UNCHANGED <<mode, pi_lock, hot, swap>>

schedule(c) ==
    /\ ~Locked(c)
    /\ CASE rq[c].curr = Idle    -> rq[c].idle = "busy" /\ rq[c].resched
         [] rq[c].curr = Stopper -> ~StopWanted(c, rq[c])
         [] OTHER                -> task[rq[c].curr].pc \in {"sleep", "dead"}
    /\ __schedule(c, FALSE)

\* preempt_schedule(), and the return from an interrupt.
preempt_schedule(c) ==
    /\ ~Locked(c) /\ rq[c].resched
    /\ rq[c].curr \in Task /\ task[rq[c].curr].pc # "dead"
    /\ __schedule(c, TRUE)

\* finish_task(): the state of prev is read first, then on_cpu is cleared.
finish_task(c) ==
    /\ Locked(c) /\ ~switch[c].done
    /\ LET p == switch[c].prev
       IN  /\ task' = IF p \in Task THEN [task EXCEPT ![p].on_cpu = FALSE] ELSE task
           /\ switch' = [switch EXCEPT ![c].done = TRUE,
                                       ![c].dead = p \in Task /\ task[p].state = "DEAD"]
    /\ UNCHANGED <<mode, rq, pi_lock, hot, swap>>

prev_state_dead(c) == switch[c].dead

\* finish_lock_switch() unlocks; a dead prev loses the scheduler's reference.
finish_task_switch(c) ==
    /\ Locked(c) /\ switch[c].done
    /\ task' = IF prev_state_dead(c) THEN [task EXCEPT ![switch[c].prev].drops = @ + 1] ELSE task
    /\ switch' = [switch EXCEPT ![c] = None]
    /\ UNCHANGED <<mode, rq, pi_lock, hot, swap>>

\* task_tick() of the class may ask for a reschedule.
scheduler_tick(c) ==
    /\ "tick" \in mode
    /\ ~Locked(c) /\ rq[c].curr \in Task /\ ~rq[c].resched
    /\ rq' = [rq EXCEPT ![c] = resched_curr(@)]
    /\ UNCHANGED <<mode, task, pi_lock, switch, hot, swap>>

\* yield_to() makes p's CPU reschedule when p is queued and not running, then
\* the caller calls schedule() in TASK_RUNNING.
yield_to(c, p) ==
    /\ "yield" \in mode
    /\ rq[c].curr \in Task \ {p} /\ task[rq[c].curr].pc = "run"
    /\ ~task[p].on_cpu /\ task[p].state = "RUNNING" /\ task[p].on_rq = "QUEUED"
    /\ LET d == task[p].cpu
       IN  /\ ~Locked(c) /\ ~Locked(d)
           /\ Cardinality(rq[c].queue) # 1 \/ Cardinality(rq[d].queue) # 1
           /\ rq' = LET r == [rq EXCEPT ![d] = IF c = d THEN @ ELSE resched_curr(@)]
                    IN  [r EXCEPT ![c].resched = TRUE]
    /\ UNCHANGED <<mode, task, pi_lock, switch, hot, swap>>

----------------------------------------------------------------------------
\* The idle loop (kernel/sched/idle.c, as core.c relies on it) and the IPI

idle_enter(c) ==
    /\ Runs(c, Idle) /\ rq[c].idle = "busy" /\ ~rq[c].resched /\ c \in online
    /\ \E how \in IF "poll" \in mode THEN {"poll", "halt"} ELSE {"halt"} : rq' = [rq EXCEPT ![c].idle = how]
    /\ UNCHANGED <<mode, task, pi_lock, switch, hot, swap>>

\* The polling idle thread sees TIF_NEED_RESCHED and keeps its promise.
idle_exit(c) ==
    /\ Runs(c, Idle) /\ rq[c].idle = "poll" /\ rq[c].resched
    /\ \E s \in sched_ttwu_pending(St(task, [rq EXCEPT ![c].idle = "busy"]), c) :
         task' = s.task /\ rq' = s.rq
    /\ UNCHANGED <<mode, pi_lock, switch, hot, swap>>

scheduler_ipi(c) ==
    /\ rq[c].ipi /\ ~Locked(c)
    /\ \E s \in sched_ttwu_pending(
                  St(task, [rq EXCEPT ![c].ipi = FALSE,
                                      ![c].idle = IF @ = "halt" THEN "busy" ELSE @]), c) :
         task' = s.task /\ rq' = s.rq
    /\ UNCHANGED <<mode, pi_lock, switch, hot, swap>>

wake_up_if_idle(c) ==
    /\ "kick" \in mode
    /\ Runs(c, Idle) /\ rq' = [rq EXCEPT ![c] = kick_idle(@)]
    /\ UNCHANGED <<mode, task, pi_lock, switch, hot, swap>>

----------------------------------------------------------------------------
\* Wakeups.  A waker sets the condition, then calls wake_up_process() itself
\* or through a wake_q.

set_condition(p) ==
    /\ task[p].state \notin {"UNUSED", "DEAD"} /\ ~task[p].cond
    /\ task' = [task EXCEPT ![p].cond = TRUE, ![p].waking = TRUE]
    /\ UNCHANGED <<mode, rq, pi_lock, switch, hot, swap>>

\* __wake_q_add: a task already on some wake_q is left to that wakeup.
wake_q_add(p) ==
    /\ "wake_q" \in mode
    /\ task[p].state \notin {"UNUSED", "DEAD"} /\ ~task[p].cond
    /\ task' = [task EXCEPT ![p].cond = TRUE, ![p].wake_q = TRUE]
    /\ UNCHANGED <<mode, rq, pi_lock, switch, hot, swap>>

\* wake_up_q: the node is cleared before the task is woken.
wake_up_q(p) ==
    /\ task[p].wake_q
    /\ task' = [task EXCEPT ![p].wake_q = FALSE, ![p].waking = TRUE]
    /\ UNCHANGED <<mode, rq, pi_lock, switch, hot, swap>>

\* try_to_wake_up(p, TASK_NORMAL) by somebody else, up to the state test.
try_to_wake_up(p) ==
    /\ task[p].waking /\ pi_lock[p] = "free"
    /\ task' = [task EXCEPT ![p].waking = FALSE]
    /\ pi_lock' = IF task[p].state \in Sleeping THEN [pi_lock EXCEPT ![p] = "on_rq"] ELSE pi_lock
    /\ UNCHANGED <<mode, rq, switch, hot, swap>>

\* p == current: the state is simply set, without p->pi_lock.
try_to_wake_up_current(c) ==
    /\ rq[c].curr \in Task /\ ~Locked(c) /\ task[rq[c].curr].waking
    /\ task' = [task EXCEPT ![rq[c].curr].waking = FALSE,
                            ![rq[c].curr].state = IF @ \in Sleeping THEN "RUNNING" ELSE @]
    /\ UNCHANGED <<mode, rq, pi_lock, switch, hot, swap>>

\* p->on_rq && ttwu_remote(p)
ttwu_remote(p) ==
    /\ pi_lock[p] = "on_rq"
    /\ \/ /\ task[p].on_rq = "NO"
          /\ pi_lock' = [pi_lock EXCEPT ![p] = "on_cpu"]
          /\ UNCHANGED <<task, rq>>
       \/ /\ task[p].on_rq = "QUEUED" /\ ~Locked(task[p].cpu)
          /\ pi_lock' = [pi_lock EXCEPT ![p] = "free"]
          /\ task' = [task EXCEPT ![p].state = "RUNNING"]
          /\ \E r \in check_preempt_curr(rq[task[p].cpu]) : rq' = [rq EXCEPT ![task[p].cpu] = r]
    /\ UNCHANGED <<mode, switch, hot, swap>>

\* The wait for on_cpu left out.
NoWait(p) == TRUE

wait_on_cpu(p) == ~task[p].on_cpu

task_contributes_to_load(p) == task[p].state \in Loads

\* task_rq(p) before set_task_cpu().
iowait_rq(p, new) == task[p].cpu

\* smp_cond_load_acquire(&p->on_cpu, !VAL), TASK_WAKING and the new CPU.
ttwu_select(p) ==
    /\ pi_lock[p] = "on_cpu" /\ wait_on_cpu(p)
    /\ \E x \in select_task_rq(p) :
         /\ task' = [task EXCEPT ![p].load = task_contributes_to_load(p), ![p].state = "WAKING",
                                 ![p].cpu = x.cpu, ![p].mask = x.mask]
         /\ rq' = [rq EXCEPT ![iowait_rq(p, x.cpu)].nr_iowait =
                                @ - (IF task[p].state = "IO" THEN 1 ELSE 0)]
    /\ pi_lock' = [pi_lock EXCEPT ![p] = "queue"]
    /\ UNCHANGED <<mode, switch, hot, swap>>

\* ttwu_queue_remote: only the first task on the list sends the IPI.
ttwu_queue_remote(p) ==
    /\ pi_lock[p] = "queue"
    /\ LET c == task[p].cpu
           r == [rq[c] EXCEPT !.wake_list = @ \cup {p}]
       IN  rq' = [rq EXCEPT ![c] = IF rq[c].wake_list = {} THEN kick_idle(r) ELSE r]
    /\ pi_lock' = [pi_lock EXCEPT ![p] = "free"]
    /\ UNCHANGED <<mode, task, switch, hot, swap>>

\* ttwu_queue when the waker shares a cache with the CPU.
ttwu_queue(p) ==
    /\ pi_lock[p] = "queue" /\ ~Locked(task[p].cpu)
    /\ \E s \in ttwu_do_activate(St(task, rq), task[p].cpu, {p}) : task' = s.task /\ rq' = s.rq
    /\ pi_lock' = [pi_lock EXCEPT ![p] = "free"]
    /\ UNCHANGED <<mode, switch, hot, swap>>

----------------------------------------------------------------------------
\* Affinity, exec balancing and the stopper

\* task_rq_lock(): both locks are free and p is not between two queues.
TaskRqFree(p) == pi_lock[p] = "free" /\ ~Locked(task[p].cpu) /\ task[p].on_rq # "MIGRATING"

\* The first half of move_queued_task, up to rq_unlock(rq): p is on no queue.
move_queued_task(p, d) ==
    /\ task' = [task EXCEPT ![p].on_rq = "MIGRATING", ![p].cpu = d]
    /\ pi_lock' = [pi_lock EXCEPT ![p] = "move"]

needs_stopper(p) == task[p].on_cpu \/ task[p].state = "WAKING"

\* __set_cpus_allowed_ptr: a running task, or one on a wake list, needs the
\* stopper; a queued one is moved here; a sleeping one moves when it wakes.
__set_cpus_allowed_ptr(p, m) ==
    /\ task[p].state \notin {"UNUSED", "DEAD"} /\ TaskRqFree(p)
    /\ m # task[p].mask
    /\ \E d \in m \cap active :
         LET c == task[p].cpu
             t == [task EXCEPT ![p].mask = m]
         IN  \/ /\ c \in m \/ (~needs_stopper(p) /\ task[p].on_rq = "NO")
                /\ task' = t /\ UNCHANGED <<rq, pi_lock>>
             \/ /\ c \notin m /\ needs_stopper(p)
                /\ task' = t /\ UNCHANGED pi_lock
                /\ rq' = [rq EXCEPT ![c] = QueueStop(@, [task |-> p, dest |-> d])]
             \/ /\ c \notin m /\ ~needs_stopper(p) /\ task[p].on_rq = "QUEUED"
                /\ task' = [t EXCEPT ![p].on_rq = "MIGRATING", ![p].cpu = d]
                /\ pi_lock' = [pi_lock EXCEPT ![p] = "move"]
                /\ rq' = [rq EXCEPT ![c].queue = @ \ {p}]
    /\ UNCHANGED <<mode, switch, hot, swap>>

sched_setaffinity(p) ==
    /\ "affinity" \in mode
    /\ \E m \in (SUBSET Cpu) \ {{}} : __set_cpus_allowed_ptr(p, m)

\* The second half of move_queued_task, under the new runqueue's lock; the
\* stopper that asked for the move has then finished its work.
move_finish(p) ==
    /\ pi_lock[p] = "move" /\ ~Locked(task[p].cpu)
    /\ LET c == task[p].cpu
       IN  \E r \in check_preempt_curr([rq[c] EXCEPT !.queue = @ \cup {p}]) :
             rq' = [d \in Cpu |->
                      LET x == IF d = c THEN r ELSE rq[d]
                      IN  IF x.work # None /\ x.work.task = p /\ x.work.moving
                          THEN [x EXCEPT !.work = None] ELSE x]
    /\ task' = [task EXCEPT ![p].on_rq = "QUEUED"]
    /\ pi_lock' = [pi_lock EXCEPT ![p] = "free"]
    /\ UNCHANGED <<mode, switch, hot, swap>>

\* sched_exec: the class's choice, then the stopper, without any lock.
sched_exec(c) ==
    /\ "exec" \in mode
    /\ rq[c].curr \in Task /\ ~Locked(c)
    /\ LET p == rq[c].curr
       IN  /\ task[p].pc = "run" /\ pi_lock[p] = "free"
           /\ \E d \in (task[p].mask \cap active) \ {c} :
                rq' = [rq EXCEPT ![c] = QueueStop(@, [task |-> p, dest |-> d])]
    /\ UNCHANGED <<mode, task, pi_lock, switch, hot, swap>>

\* migration_cpu_stop, first part: pending wakeups are enqueued before the
\* task is looked at.
migration_cpu_stop(c) ==
    /\ Runs(c, Stopper) /\ rq[c].work = None
    /\ \E w \in rq[c].stop :
         \E s \in sched_ttwu_pending(
                    St(task, [rq EXCEPT ![c].stop = @ \ {w},
                                ![c].work = [task |-> w.task, dest |-> w.dest, moving |-> FALSE]]), c) :
           task' = s.task /\ rq' = s.rq
    /\ UNCHANGED <<mode, pi_lock, switch, hot, swap>>

\* The task's runqueue is not looked at again.
AnyRq(p, c) == TRUE

on_this_rq(p, c) == task[p].cpu = c

\* migration_cpu_stop under both locks, with __migrate_task.
__migrate_task(c) ==
    /\ Runs(c, Stopper) /\ rq[c].work # None /\ ~rq[c].work.moving
    /\ LET p == rq[c].work.task
           d == rq[c].work.dest
       IN  /\ pi_lock[p] = "free"
           /\ IF on_this_rq(p, c) /\ task[p].on_rq = "QUEUED" /\ is_cpu_allowed(p, d) /\ d # c
              THEN /\ move_queued_task(p, d)
                   /\ rq' = [rq EXCEPT ![c].queue = @ \ {p}, ![c].work.moving = TRUE]
              ELSE rq' = [rq EXCEPT ![c].work = None] /\ UNCHANGED <<task, pi_lock>>
    /\ UNCHANGED <<mode, switch, hot, swap>>

\* migrate_swap: its tests hold no lock.
migrate_swap(p, q) ==
    /\ "swap" \in mode /\ swap = None /\ p # q
    /\ {task[p].state, task[q].state} \cap {"UNUSED", "DEAD"} = {}
    /\ LET c == task[p].cpu
           d == task[q].cpu
       IN  /\ c # d /\ {c, d} \subseteq active
           /\ d \in task[p].mask /\ c \in task[q].mask
           /\ swap' = [src |-> p, dst |-> q, src_cpu |-> c, dst_cpu |-> d]
           /\ rq' = [rq EXCEPT ![c] = resched_curr(@), ![d] = resched_curr(@)]
    /\ UNCHANGED <<mode, task, pi_lock, switch, hot>>

swap_valid(w) ==
    /\ {w.src_cpu, w.dst_cpu} \subseteq active
    /\ task[w.src].cpu = w.src_cpu /\ task[w.dst].cpu = w.dst_cpu
    /\ w.dst_cpu \in task[w.src].mask /\ w.src_cpu \in task[w.dst].mask

\* migrate_swap_stop, once the stoppers of both CPUs run: the locks are taken
\* and everything is tested again.
migrate_swap_stop ==
    /\ swap # None
    /\ Runs(swap.src_cpu, Stopper) /\ Runs(swap.dst_cpu, Stopper)
    /\ LET p == swap.src
           q == swap.dst
           c == swap.src_cpu
           d == swap.dst_cpu
           pm == task[p].on_rq = "QUEUED"
           qm == task[q].on_rq = "QUEUED"
       IN  /\ pi_lock[p] = "free" /\ pi_lock[q] = "free"
           /\ IF swap_valid(swap)
              THEN /\ task' = [task EXCEPT ![p].cpu = IF pm THEN d ELSE @,
                                           ![q].cpu = IF qm THEN c ELSE @]
                   /\ rq' = [rq EXCEPT
                        ![c].queue = (@ \ {p}) \cup (IF qm THEN {q} ELSE {}),
                        ![d].queue = (@ \ {q}) \cup (IF pm THEN {p} ELSE {})]
              ELSE UNCHANGED <<task, rq>>
    /\ swap' = None
    /\ UNCHANGED <<mode, pi_lock, switch, hot>>

----------------------------------------------------------------------------
\* CPU hotplug

\* sched_cpu_deactivate: cpu_active_mask first, then synchronize_rcu().
sched_cpu_deactivate(c) ==
    /\ "hotplug" \in mode
    /\ hot[c] = "up" /\ active # {c}
    /\ hot' = [hot EXCEPT ![c] = "draining"]
    /\ UNCHANGED <<mode, task, rq, pi_lock, switch, swap>>

rcu_readers_done(c) == \A p \in Task : pi_lock[p] \in {"queue", "move"} => task[p].cpu # c

\* synchronize_rcu() returns when nobody who chose c is still on the way to
\* its queue; cpuset_cpu_inactive() may then refuse, and c is active again.
synchronize_rcu(c) ==
    /\ hot[c] = "draining"
    /\ rcu_readers_done(c)
    /\ \/ /\ hot' = [hot EXCEPT ![c] = "inactive"]
          /\ rq' = [rq EXCEPT ![c] = resched_curr(@)]
       \/ hot' = [hot EXCEPT ![c] = "up"] /\ UNCHANGED rq
    /\ UNCHANGED <<mode, task, pi_lock, switch, swap>>

\* stop_machine(): no lock is held and c's stopper runs sched_cpu_dying().
\* migrate_tasks() moves every queued task with select_fallback_rq().
sched_cpu_dying(c) ==
    /\ hot[c] = "inactive"
    /\ \A p \in Task : pi_lock[p] = "free"
    /\ \A d \in Cpu : ~Locked(d)
    /\ rq[c].curr = Stopper /\ rq[c].stop = {} /\ rq[c].work = None /\ swap = None
    /\ \E s \in sched_ttwu_pending(St(task, rq), c) :
         LET Q == s.rq[c].queue
         IN  \E dest \in [Q -> active] :
               /\ \A p \in Q : s.task[p].mask \cap active # {} => dest[p] \in s.task[p].mask
               /\ task' = [p \in Task |-> IF p \in Q
                     THEN [s.task[p] EXCEPT !.cpu = dest[p],
                             !.mask = IF @ \cap active = {} THEN Cpu ELSE @]
                     ELSE s.task[p]]
               /\ rq' = [d \in Cpu |->
                     IF d = c THEN [s.rq[c] EXCEPT !.queue = {}]
                     ELSE LET moved == {p \in Q : dest[p] = d}
                          IN  IF moved = {} THEN s.rq[d]
                              ELSE resched_curr([s.rq[d] EXCEPT !.queue = @ \cup moved])]
    /\ hot' = [hot EXCEPT ![c] = "offline"]
    /\ UNCHANGED <<mode, pi_lock, switch, swap>>

sched_cpu_starting(c) ==
    /\ hot[c] = "offline"
    /\ hot' = [hot EXCEPT ![c] = "starting"]
    /\ UNCHANGED <<mode, task, rq, pi_lock, switch, swap>>

sched_cpu_activate(c) ==
    /\ hot[c] = "starting"
    /\ hot' = [hot EXCEPT ![c] = "up"]
    /\ UNCHANGED <<mode, task, rq, pi_lock, switch, swap>>

----------------------------------------------------------------------------

\* One task runs on one CPU; the other CPUs idle.
Init ==
    /\ mode \in Modes
    /\ \E boot \in Task, c \in Cpu :
         /\ task = [p \in Task |-> IF p = boot \/ {"fork", "solo"} \cap mode = {}
                      THEN [NewTask(c, Cpu) EXCEPT !.state = "RUNNING", !.on_rq = "QUEUED",
                                                   !.on_cpu = (p = boot),
                                                   !.ctx = IF p = boot THEN 1 ELSE 0]
                      ELSE Unused]
         /\ rq = [d \in Cpu |-> IF d = c
                    THEN [IdleRq EXCEPT !.curr = boot, !.idle = "run",
                            !.queue = {p \in Task : task[p].on_rq = "QUEUED"}]
                    ELSE IdleRq]
    /\ pi_lock = [p \in Task |-> "free"]
    /\ switch = [c \in Cpu |-> None]
    /\ hot = [c \in Cpu |-> "up"]
    /\ swap = None

CpuStep(c) ==
    \/ \E st \in SleepStates : set_current_state(c, st)
    \/ finish_wait(c) \/ commit_wait(c) \/ do_task_dead(c)
    \/ schedule(c) \/ preempt_schedule(c) \/ finish_task(c) \/ finish_task_switch(c)
    \/ scheduler_tick(c) \/ idle_enter(c) \/ idle_exit(c) \/ scheduler_ipi(c)
    \/ wake_up_if_idle(c) \/ try_to_wake_up_current(c)
    \/ sched_exec(c) \/ migration_cpu_stop(c) \/ __migrate_task(c)
    \/ sched_cpu_deactivate(c) \/ synchronize_rcu(c) \/ sched_cpu_dying(c)
    \/ sched_cpu_starting(c) \/ sched_cpu_activate(c)
    \/ \E p \in Task : wake_up_new_task(c, p) \/ yield_to(c, p)

TaskStep(p) ==
    \/ set_condition(p) \/ wake_q_add(p) \/ wake_up_q(p) \/ try_to_wake_up(p)
    \/ ttwu_remote(p) \/ ttwu_select(p) \/ ttwu_queue_remote(p) \/ ttwu_queue(p)
    \/ sched_setaffinity(p) \/ move_finish(p) \/ release_task(p)
    \/ \E q \in Task : migrate_swap(p, q)

Next == (\E c \in Cpu : CpuStep(c)) \/ (\E p \in Task : TaskStep(p)) \/ migrate_swap_stop

Spec == Init /\ [][Next]_vars

----------------------------------------------------------------------------
\* Properties

Rq ==
    [curr : Task \cup {Idle, Stopper}, queue : SUBSET Task, resched : BOOLEAN,
     idle : {"busy", "poll", "halt", "run"}, ipi : BOOLEAN, wake_list : SUBSET Task,
     stop : SUBSET Stop, work : {None} \cup Work,
     nr_uninterruptible : 0..LONG_RANGE - 1, nr_iowait : Int]

\* The context of p is in CPU c's registers, or still being saved there.
Holds(c, p) ==
    \/ rq[c].curr = p
    \/ Locked(c) /\ switch[c].prev = p /\ ~switch[c].done

\* A task is in the registers of at most one CPU, and p->on_cpu, which a waker
\* spins on without the runqueue lock, says exactly whether there is one.
OneCpuAtATime ==
    \A p \in Task : LET on == {c \in Cpu : Holds(c, p)}
                    IN  Cardinality(on) =< 1 /\ (task[p].on_cpu <=> on # {})

\* A task is on the queue of the CPU task_cpu() names when p->on_rq says so,
\* and on no other, whoever moved it: waker, affinity call, stopper, swap or
\* hotplug.
QueuesFollowTasks ==
    /\ rq \in [Cpu -> Rq]
    /\ \A p \in Task, c \in Cpu :
         p \in rq[c].queue <=> task[p].on_rq = "QUEUED" /\ task[p].cpu = c

\* try_to_wake_up's promise: a task that sleeps although its condition is true
\* has a wakeup on the way, and one that is TASK_WAKING is with its waker or
\* on the wake list of its CPU.
WakeupNotLost ==
    \A p \in Task :
      /\ task[p].state \in Sleeping /\ task[p].on_rq = "NO" /\ task[p].cond
           => task[p].waking \/ task[p].wake_q \/ pi_lock[p] # "free"
      /\ task[p].state = "WAKING"
           => pi_lock[p] = "queue" \/ p \in rq[task[p].cpu].wake_list

\* An idle CPU with queued or pending tasks is on its way to schedule(): it
\* has an IPI coming, sees the flag it polls, or is already awake with it set.
IdleIsKicked ==
    \A c \in Cpu :
      Runs(c, Idle) /\ (rq[c].queue # {} \/ rq[c].wake_list # {})
        => rq[c].ipi \/ (rq[c].resched /\ rq[c].idle \in {"poll", "busy"})

\* The per-CPU nr_uninterruptible may wrap below zero, but their sum is the number
\* of uninterruptible sleepers, wakeups in flight included.
UninterruptibleAddsUp ==
    FoldSet(LAMBDA c, n : n + rq[c].nr_uninterruptible, 0, Cpu) % LONG_RANGE =
      Cardinality({p \in Task :
        \/ task[p].on_rq = "NO" /\ task[p].state \in Loads
        \/ task[p].state = "WAKING" /\ task[p].load})

\* nr_iowait counts the tasks that wait for I/O on that very CPU.
IowaitPerCpu ==
    \A c \in Cpu : rq[c].nr_iowait =
      Cardinality({p \in Task : task[p].on_rq = "NO" /\ task[p].state = "IO" /\ task[p].cpu = c})

\* Without hotplug, a task runs on a CPU outside its mask only until the
\* stopper it was told to wait for has run.
AffinityKept ==
    "hotplug" \notin mode =>
      \A c \in Cpu, p \in Task :
        rq[c].curr = p /\ c \notin task[p].mask
          => \E w \in rq[c].stop \cup ({rq[c].work} \ {None}) : w.task = p

\* A task that called do_task_dead() stays TASK_DEAD (the BUG() after its last
\* __schedule() is not reached), and the scheduler drops its reference once.
DeadStaysDead ==
    \A p \in Task : /\ task[p].pc = "dead" => task[p].state = "DEAD"
                    /\ task[p].drops =< 1
                    /\ task[p].state # "DEAD" => task[p].drops = 0

\* Nothing is left on a CPU that went offline: no queued task, no pending
\* wakeup, no running task, and no waker on its way there.
OfflineIsEmpty ==
    \A c \in Cpu \ online :
      /\ rq[c].queue = {} /\ rq[c].wake_list = {} /\ rq[c].curr \notin Task
      /\ \A p \in Task : pi_lock[p] \in {"queue", "move"} => task[p].cpu # c

\* /proc/PID/ctx is the number of times the scheduler chose the task: once for
\* every switch away from it, once for every time it was chosen again while it
\* ran, and once more while it runs.  A child starts from zero.
CtxCountsChoices ==
    "ctx" \in mode =>
      \A p \in Task :
        task[p].ctx = (task[p].csw + task[p].again
                        + (IF \E c \in Cpu : rq[c].curr = p THEN 1 ELSE 0)) % LONG_RANGE

\* Nobody is forgotten: a sleeper whose condition is true is being woken, and
\* a CPU with work does not stay idle (try_to_wake_up, resched_curr).
NobodyForgotten == WakeupNotLost /\ IdleIsKicked

\* A task runs where it may: on a CPU of its mask, and on none that went
\* offline (is_cpu_allowed, migrate_tasks).
PlacedWhereAllowed == AffinityKept /\ OfflineIsEmpty

\* What the scheduler counts is counted once, whichever CPU does it: sleepers,
\* waits for I/O, choices of a task, and the last reference to a dead one
\* (ttwu_do_activate, __schedule, finish_task_switch).
CountedOnce ==
    UninterruptibleAddsUp /\ IowaitPerCpu /\ CtxCountsChoices /\ DeadStaysDead
============================================================================
