---------------------------- MODULE SchedProofs ----------------------------
(***************************************************************************)
(* The safety properties of Sched, proved for every number of tasks, every *)
(* set of groups, priorities and policies, and every slice length: each    *)
(* action preserves the inductive invariant Inv of SchedTasks, and Inv     *)
(* implies the properties.                                                 *)
(***************************************************************************)
EXTENDS SchedTasks

\* scheduler_tick preserves Inv.
LEMMA SchedulerTick == Inv(St) /\ scheduler_tick => Inv(St)'
<1> SUFFICES ASSUME Inv(St), scheduler_tick PROVE Inv(St)'
  OBVIOUS
<1> DEFINE Result(e) ==
             CASE task[Curr].class = "rt"   -> task_tick_rt(St, Curr, e)
               [] task[Curr].class = "wrr"  -> task_tick_wrr(St, Curr)
               [] task[Curr].class = "fair" -> ReschedIf(e.preempt, update_curr_fair(St))
<1>1. InTask /\ \E e \in Env : Become(Result(e))
  BY ZenonT(40) DEF scheduler_tick
<1>2. PICK e \in Env : Become(Result(e))
  BY <1>1, ZenonT(40)
<1>3. /\ St \in State /\ St.task = task /\ Curr \in OnRq(St) /\ Curr \in Task /\ EnvOK(e)
  BY <1>1, StFacts
<1>4. CASE task[Curr].class = "rt"
  <2>1. Inv(task_tick_rt(St, Curr, e))
    BY <1>3, <1>4, TickRt, WentInv
  <2> QED BY <1>2, <1>4, <2>1, BecomeInv
<1>5. CASE task[Curr].class = "wrr"
  <2>1. Inv(task_tick_wrr(St, Curr))
    BY <1>3, <1>5, TickWrr, WentInv
  <2> QED BY <1>2, <1>5, <2>1, BecomeInv
<1>6. CASE task[Curr].class = "fair"
  <2> DEFINE s1 == update_curr_fair(St)
  <2>1. Keeps(St, s1)
    BY <1>3, UpdateCurrKeeps
  <2> HIDE DEF s1
  <2>2. Keeps(s1, ReschedIf(e.preempt, s1))
    BY <2>1, ReschedKeeps, ZenonT(40) DEF Keeps
  <2>3. Keeps(St, ReschedIf(e.preempt, s1))
    BY <2>1, <2>2, KeepsTrans
  <2>4. Become(ReschedIf(e.preempt, s1))
    BY <1>2, <1>6 DEF s1
  <2> QED BY <2>3, <2>4, KeepsInv
<1>7. task[Curr].class \in {"rt", "wrr", "fair"}
  BY <1>3 DEF State, TaskType, TaskRecord
<1> QED BY <1>4, <1>5, <1>6, <1>7

\* The advance of the clock preserves Inv.
LEMMA SchedClock == Inv(St) /\ sched_clock => Inv(St)'
<1> SUFFICES ASSUME Inv(St), sched_clock PROVE Inv(St)'
  OBVIOUS
<1> DEFINE s2 == [St EXCEPT !.rq.clock_task = @ + 1]
<1>1. St \in State /\ St.task = task /\ St.rq = rq
  BY StFacts
<1>2. St.rq.clock_task + 1 \in Nat
  BY <1>1 DEF State, RqRecord
<1>3. Keeps(St, s2)
  BY <1>1, <1>2, ZenonT(40) DEF Keeps, SameLists, SameTasks, State, RqRecord
<1>4. Become(s2)
  BY <1>1 DEF Become, sched_clock, State
<1> QED BY <1>3, <1>4, KeepsInv

\* sched_rt_period_timer preserves Inv.
LEMMA PeriodTimer == Inv(St) /\ sched_rt_period_timer => Inv(St)'
<1> SUFFICES ASSUME Inv(St), sched_rt_period_timer PROVE Inv(St)'
  OBVIOUS
<1> DEFINE s1 == [St EXCEPT !.rq.rt_throttled = FALSE]
           b  == highest_prio(s1) < CurrPrio(s1)
<1>1. St \in State
  BY StFacts
<1>2. Keeps(St, s1)
  BY <1>1, ZenonT(40) DEF Keeps, SameLists, SameTasks, State, RqRecord
<1>3. Become(IF rq.rt = <<>> THEN s1 ELSE ReschedIf(b, s1))
  BY DEF sched_rt_period_timer
<1> HIDE DEF s1, b
<1>4. Keeps(s1, ReschedIf(b, s1))
  BY <1>2, ReschedKeeps DEF Keeps
<1>5. Keeps(St, ReschedIf(b, s1))
  BY <1>2, <1>4, KeepsTrans
<1> QED BY <1>2, <1>3, <1>5, KeepsInv

\* A wakeup ends in Inv.
LEMMA WokenInv ==
  ASSUME NEW st, Inv(st), NEW s2, Woken(st, s2)
  PROVE  Inv(s2)
<1>1. DeadOff(s2)
  BY DEF Inv, Woken, DeadOff
<1>2. CurrQueued(s2)
  BY DEF Inv, Woken, CurrQueued
<1> QED BY <1>1, <1>2 DEF Inv, Woken

\* try_to_wake_up preserves Inv.
LEMMA TryToWakeUp ==
  ASSUME NEW p \in Task, Inv(St), try_to_wake_up(p)
  PROVE  Inv(St)'
<1>1. St.task = task /\ Consistent(St) /\ Quiet(St) /\ Asleep(St.task[p])
  BY StFacts DEF Inv, try_to_wake_up
<1>2. PICK e \in Env : Become(ttwu_do_wakeup(IF St.task[p].on_rq THEN St ELSE activate_task(St, p), p, e))
  BY <1>1 DEF try_to_wake_up
<1>3. Woken(St, ttwu_do_wakeup(IF St.task[p].on_rq THEN St ELSE activate_task(St, p), p, e))
  BY <1>1, WakeUp
<1> QED BY <1>2, <1>3, WokenInv, BecomeInv

\* A call of __schedule() from a state that is Inv but for a current task on
\* its way out ends in Inv.
LEMMA ScheduleStep ==
  ASSUME NEW st, Consistent(st), Quiet(st), CurrQueued(st), NEW preempt_active \in BOOLEAN,
         DeadLeaves(st, preempt_active), \A e \in Env : EnvOK(e), __schedule(st, preempt_active)
  PROVE  Inv(St)'
<1>1. PICK signal \in BOOLEAN, worker \in Worker \cup {None}, e \in Env :
        \E next \in pick_next_task(put_prev_task(LeaveCpu(st, preempt_active, signal, worker, e), e)) :
          Become(SwitchTo(put_prev_task(LeaveCpu(st, preempt_active, signal, worker, e), e), next))
  BY DEF __schedule
<1>2. PICK next \in pick_next_task(put_prev_task(LeaveCpu(st, preempt_active, signal, worker, e), e)) :
          Become(SwitchTo(put_prev_task(LeaveCpu(st, preempt_active, signal, worker, e), e), next))
  BY <1>1
<1>3. Inv(SwitchTo(put_prev_task(LeaveCpu(st, preempt_active, signal, worker, e), e), next))
  BY ScheduleInv
<1> QED BY <1>2, <1>3, BecomeInv

\* In a state of Inv no dead task is queued.
LEMMA InvDeadLeaves ==
  ASSUME NEW st, Inv(st)
  PROVE  \A preempt_active : DeadLeaves(st, preempt_active)
BY DEF Inv, DeadOff, DeadLeaves

\* schedule() and preempt_schedule() preserve Inv.
LEMMA Schedule == Inv(St) /\ (schedule \/ preempt_schedule) => Inv(St)'
<1> SUFFICES ASSUME Inv(St), schedule \/ preempt_schedule PROVE Inv(St)'
  OBVIOUS
<1>1. \A e \in Env : EnvOK(e)
  BY StFacts
<1>2. PICK preempt_active \in BOOLEAN : __schedule(St, preempt_active)
  BY ZenonT(40) DEF schedule, preempt_schedule
<1>3. DeadLeaves(St, preempt_active)
  BY InvDeadLeaves
<1> QED BY <1>1, <1>2, <1>3, ScheduleStep DEF Inv

\* set_current_state preserves Inv.
LEMMA SetCurrentState ==
  ASSUME NEW state \in SleepState \cup {"RUNNING"}, Inv(St), set_current_state(state)
  PROVE  Inv(St)'
<1> DEFINE s2 == [St EXCEPT !.task[Curr].state = state]
<1>1. /\ St \in State /\ St.task = task /\ St.rq = rq /\ Consistent(St)
      /\ Curr \in OnRq(St) /\ Curr \in Task
  BY StFacts DEF set_current_state
<1>2. state \in TaskState /\ state # "DEAD"
  BY PrioAssumption DEF TaskState
<1>3. /\ s2 \in State /\ SameLists(St, s2) /\ s2.rq = St.rq
      /\ s2.task[Curr].state = state
      /\ s2.task[Curr].on_rq = St.task[Curr].on_rq /\ s2.task[Curr].newborn = St.task[Curr].newborn
      /\ \A q \in Task \ {Curr} : s2.task[q] = St.task[q]
  BY <1>1, <1>2, SetState
<1>4. Become(s2)
  BY <1>1 DEF Become, set_current_state, State
<1> HIDE DEF s2
<1>5. OnRq(s2) = OnRq(St) /\ OnRq(St) \in SUBSET Task
  BY <1>3 DEF OnRq
<1>6. Consistent(s2)
  BY <1>1, <1>3, <1>5, SameListsOnLists DEF Consistent
<1>7. St.task[Curr].on_rq /\ ~St.task[Curr].newborn
  BY <1>1 DEF OnRq, Inv, Quiet, NewbornWaits
<1>8. Sleepers(s2) = Sleepers(St)
  BY <1>3, <1>7, ZenonT(40) DEF Sleepers
<1>9. Quiet(s2)
  BY <1>3, <1>7, <1>8, ZenonT(40) DEF Inv, Quiet, NewbornWaits, RunnableQueued, SleepersCounted
<1>10. DeadOff(s2)
  BY <1>2, <1>3 DEF Inv, DeadOff
<1>11. CurrQueued(s2)
  BY <1>1, <1>3, <1>7 DEF CurrQueued, Curr
<1> QED BY <1>4, <1>6, <1>9, <1>10, <1>11, BecomeInv DEF Inv

\* do_fork preserves Inv: the child is not queued yet.
LEMMA DoFork ==
  ASSUME NEW c \in Task, Inv(St), do_fork(c)
  PROVE  Inv(St)'
<1> DEFINE t  == sched_fork(task[Curr])
           s2 == [St EXCEPT !.task[c] = t]
<1>1. St \in State /\ St.task = task /\ St.rq = rq /\ Consistent(St) /\ Curr \in Task
  BY StFacts DEF do_fork
<1>2. St.task[c].state = "DEAD" /\ ~St.task[c].on_rq /\ c # St.rq.curr
  BY <1>1 DEF do_fork, Curr
<1>3. task[Curr] \in TaskType
  BY <1>1 DEF State
<1>4. t \in TaskType /\ ~t.on_rq /\ t.state = "RUNNING" /\ t.newborn
  BY <1>3, ForkType
<1>b. Become(s2)
  BY <1>1 DEF Become, do_fork, State
<1> HIDE DEF t
<1>5. /\ s2 \in State /\ s2.rq = St.rq /\ s2.task[c] = t
      /\ \A q \in Task \ {c} : s2.task[q] = St.task[q]
  BY <1>1, <1>4, PutTask
<1>6. OnLists(s2, OnRq(St))
  <2>1. OnRq(St) \in SUBSET Task /\ c \in Task \ OnRq(St)
    BY <1>2 DEF OnRq
  <2> QED BY <1>1, <1>4, <2>1, ChangeTask DEF Consistent
<1> HIDE DEF s2
<1>7. OnRq(s2) = OnRq(St) /\ Sleepers(s2) = Sleepers(St)
  BY <1>2, <1>4, <1>5 DEF OnRq, Sleepers
<1>8. Consistent(s2)
  BY <1>5, <1>6, <1>7 DEF Consistent
<1>9. Quiet(s2)
  BY <1>4, <1>5, <1>7, ZenonT(40) DEF Inv, Quiet, NewbornWaits, RunnableQueued, SleepersCounted
<1>10. DeadOff(s2)
  BY <1>4, <1>5 DEF Inv, DeadOff
<1>11. CurrQueued(s2)
  BY <1>2, <1>5 DEF Inv, CurrQueued
<1> QED BY <1>b, <1>8, <1>9, <1>10, <1>11, BecomeInv DEF Inv

\* wake_up_new_task preserves Inv.
LEMMA WakeUpNewTask ==
  ASSUME NEW c \in Task, Inv(St), wake_up_new_task(c)
  PROVE  Inv(St)'
<1> DEFINE s0 == [St EXCEPT !.task[c].newborn = FALSE]
           s1 == activate_task(s0, c)
<1>1. St \in State /\ St.task = task /\ Consistent(St)
  BY StFacts
<1>2. St.task[c].newborn /\ ~St.task[c].on_rq /\ St.task[c].state = "RUNNING"
  BY <1>1 DEF wake_up_new_task, Inv, Quiet, NewbornWaits
<1>3. PICK e \in Env : Become(check_preempt_curr(s1, c, e))
  BY DEF wake_up_new_task
<1>4. /\ s0 \in State /\ SameLists(St, s0) /\ s0.rq = St.rq /\ s0.task[c].newborn = FALSE
      /\ s0.task[c].on_rq = St.task[c].on_rq /\ s0.task[c].state = St.task[c].state
      /\ \A q \in Task \ {c} : s0.task[q] = St.task[q]
  BY <1>1, SetNewborn, ZenonT(40)
<1> HIDE DEF s0
<1>5. Consistent(s0) /\ SleepersCounted(s0)
  <2>1. OnRq(s0) = OnRq(St) /\ OnRq(St) \in SUBSET Task /\ Sleepers(s0) = Sleepers(St)
    BY <1>4 DEF OnRq, Sleepers
  <2>2. OnLists(s0, OnRq(St))
    BY <1>1, <1>4, <2>1, SameListsOnLists DEF Consistent
  <2> QED BY <1>4, <2>1, <2>2 DEF Consistent, Inv, Quiet, SleepersCounted
<1>6. ~s0.task[c].on_rq
  BY <1>2, <1>4
<1>7. Queueing(s0, s1, c, TRUE)
  BY <1>5, <1>6, ActivateTask, ZenonT(40)
<1> HIDE DEF s1
<1>8. Inv(s1)
  <2>1. Consistent(s1) /\ SleepersCounted(s1)
    BY <1>5, <1>7 DEF Queueing
  <2>a. /\ s1.task[c].on_rq /\ ~s1.task[c].newborn /\ s1.task[c].state = "RUNNING"
        /\ s1.rq.curr = St.rq.curr
    BY <1>2, <1>4, <1>7 DEF Queueing
  <2>b. \A q \in Task \ {c} : /\ s1.task[q].on_rq = St.task[q].on_rq
                              /\ s1.task[q].newborn = St.task[q].newborn
                              /\ s1.task[q].state = St.task[q].state
    <3> SUFFICES ASSUME NEW q \in Task \ {c}
                 PROVE  /\ s1.task[q].on_rq = St.task[q].on_rq
                        /\ s1.task[q].newborn = St.task[q].newborn
                        /\ s1.task[q].state = St.task[q].state
      BY ZenonT(40)
    <3>1. s0.task[q] = St.task[q]
      BY <1>4, ZenonT(40)
    <3>2. /\ s1.task[q].on_rq = s0.task[q].on_rq
          /\ s1.task[q].newborn = s0.task[q].newborn
          /\ s1.task[q].state = s0.task[q].state
      BY <1>7 DEF Queueing
    <3> QED BY <3>1, <3>2, ZenonT(40)
  <2>2. NewbornWaits(s1) /\ RunnableQueued(s1)
    <3>1. NewbornWaits(St) /\ RunnableQueued(St)
      BY ZenonT(40) DEF Inv, Quiet
    <3> QED BY <2>a, <2>b, <3>1 DEF NewbornWaits, RunnableQueued
  <2>3. DeadOff(s1) /\ CurrQueued(s1)
    <3>1. DeadOff(St) /\ CurrQueued(St)
      BY ZenonT(40) DEF Inv
    <3> QED BY <2>a, <2>b, <3>1 DEF DeadOff, CurrQueued
  <2> QED BY <2>1, <2>2, <2>3 DEF Inv, Quiet
<1>9. Inv(check_preempt_curr(s1, c, e))
  BY <1>8, CheckPreemptKeeps, KeepsConsistent, SameLifeInv DEF Inv, Consistent
<1> QED BY <1>3, <1>9, BecomeInv

\* do_exit, with the schedule() it never returns from, preserves Inv.
LEMMA DoExit == Inv(St) /\ do_exit => Inv(St)'
<1> SUFFICES ASSUME Inv(St), do_exit PROVE Inv(St)'
  OBVIOUS
<1>1. /\ St \in State /\ St.task = task /\ St.rq = rq /\ Consistent(St)
      /\ Curr \in Task /\ Curr \in OnRq(St) /\ \A e \in Env : EnvOK(e)
  BY StFacts DEF do_exit
<1>2. PICK e \in Env :
        __schedule([cpu_cgroup_exit(St, Curr, e) EXCEPT !.task[Curr].state = "DEAD"], FALSE)
  BY ZenonT(40) DEF do_exit
<1> DEFINE s0 == TakeOff(St, Curr, e)
           t  == [s0.task[Curr] EXCEPT !.group = Root]
           s1 == PutBack(s0, Curr, t, FALSE)
           s2 == [s1 EXCEPT !.task[Curr].state = "DEAD"]
<1>3. __schedule(s2, FALSE)
  BY <1>2, ZenonT(40) DEF cpu_cgroup_exit
<1>4. Went(St, s0, OnRq(St) \ {Curr})
  BY <1>1, TakeOffWent
<1> HIDE DEF s0
<1>5. t \in TaskType /\ SameRun(s0.task[Curr], t)
  BY <1>1, <1>4, SetGroupType, GroupAssumption DEF Went, State
<1> HIDE DEF t
<1>6. /\ t.on_rq = St.task[Curr].on_rq /\ t.state = St.task[Curr].state
      /\ t.newborn = St.task[Curr].newborn
  BY <1>1, <1>4, <1>5 DEF SameRun, Went, SameTasks
<1>7. Consistent(s1) /\ SameLife(St, s1)
  BY <1>1, <1>4, <1>5, <1>6, Moved, ZenonT(40)
<1> HIDE DEF s1
<1>8. Inv(s1)
  BY <1>7, SameLifeInv
<1>9. /\ s2 \in State /\ SameLists(s1, s2) /\ s2.rq = s1.rq
      /\ s2.task[Curr].state = "DEAD"
      /\ s2.task[Curr].on_rq = s1.task[Curr].on_rq /\ s2.task[Curr].newborn = s1.task[Curr].newborn
      /\ \A q \in Task \ {Curr} : s2.task[q] = s1.task[q]
  <2>1. s1 \in State /\ "DEAD" \in TaskState /\ Curr \in Task
    BY <1>1, <1>7 DEF Consistent, TaskState
  <2> HIDE DEF s2
  <2> QED BY <2>1, SetState DEF s2
<1> HIDE DEF s2
<1>10. s1.rq.curr = Curr /\ s1.task[Curr].on_rq /\ ~s1.task[Curr].newborn
  BY <1>1, <1>7, <1>8 DEF SameLife, Curr, OnRq, Inv, Quiet, NewbornWaits
<1>11. Consistent(s2)
  <2>1. OnRq(s2) = OnRq(s1) /\ OnRq(s1) \in SUBSET Task
    BY <1>9 DEF OnRq
  <2> QED BY <1>7, <1>9, <2>1, SameListsOnLists DEF Consistent
<1>12. Quiet(s2)
  <2>1. Sleepers(s2) = Sleepers(s1)
    BY <1>9, <1>10 DEF Sleepers
  <2> QED BY <1>8, <1>9, <1>10, <2>1, ZenonT(40) DEF Inv, Quiet, NewbornWaits, RunnableQueued, SleepersCounted
<1>13. CurrQueued(s2)
  BY <1>9, <1>10, ZenonT(40) DEF CurrQueued
<1>14. DeadLeaves(s2, FALSE)
  BY <1>8, <1>9, <1>10 DEF Inv, DeadOff, DeadLeaves
<1> QED BY <1>1, <1>3, <1>11, <1>12, <1>13, <1>14, ScheduleStep, ZenonT(40)

\* sched_yield, with its schedule(), preserves Inv.
LEMMA SchedYield == Inv(St) /\ sched_yield => Inv(St)'
<1> SUFFICES ASSUME Inv(St), sched_yield PROVE Inv(St)'
  OBVIOUS
<1>1. /\ St \in State /\ Curr \in Task /\ Curr \in OnRq(St) /\ \A e \in Env : EnvOK(e)
      /\ OnLists(St, OnRq(St)) /\ OnRq(St) \in SUBSET Task
  BY StFacts DEF sched_yield
<1> DEFINE s1 == yield_task(St, Curr)
<1>2. __schedule(s1, FALSE)
  BY ZenonT(40) DEF sched_yield
<1>3. Went(St, St, OnRq(St))
  BY <1>1 DEF Went, SameTasks
<1>4. St.task[Curr].class \in {"rt", "wrr", "fair"}
  BY <1>1 DEF State, TaskType, TaskRecord
<1>5. Went(St, s1, OnRq(St))
  BY <1>1, <1>3, <1>4, Requeue DEF yield_task
<1> HIDE DEF s1
<1>6. Inv(s1)
  BY <1>5, WentInv
<1>7. DeadLeaves(s1, FALSE)
  BY <1>6, InvDeadLeaves, ZenonT(40)
<1> QED BY <1>1, <1>2, <1>6, <1>7, ScheduleStep, ZenonT(40) DEF Inv

\* A reconfiguration that may change the class ends in Inv.
LEMMA MovedClass ==
  ASSUME Inv(St), NEW p \in Task, NEW s0, Went(St, s0, OnRq(St) \ {p}),
         NEW t \in TaskType, SameRun(s0.task[p], t), NEW head \in BOOLEAN
  PROVE  /\ Inv(PutBack(s0, p, t, head))
         /\ \A class, oldprio, e :
              Inv(check_class_changed(PutBack(s0, p, t, head), p, class, oldprio, e))
<1> DEFINE s1 == PutBack(s0, p, t, head)
<1>1. t.on_rq = St.task[p].on_rq /\ t.state = St.task[p].state /\ t.newborn = St.task[p].newborn
  BY DEF SameRun, Went, SameTasks
<1>2. Consistent(s1) /\ SameLife(St, s1)
  BY <1>1, Moved DEF Inv
<1> HIDE DEF s1
<1>3. Inv(s1)
  BY <1>2, SameLifeInv
<1>4. ASSUME NEW class, NEW oldprio, NEW e
      PROVE  Inv(check_class_changed(s1, p, class, oldprio, e))
  <2>1. s1 \in State /\ OnLists(s1, OnRq(s1)) /\ OnRq(s1) \in SUBSET Task
        /\ (s1.task[p].on_rq => p \in OnRq(s1))
    BY <1>2 DEF Consistent, OnRq
  <2>2. Keeps(s1, check_class_changed(s1, p, class, oldprio, e))
    BY <2>1, ClassChangedKeeps
  <2> QED BY <1>2, <1>3, <2>2, KeepsConsistent, SameLifeInv
<1> QED BY <1>3, <1>4 DEF s1

\* sched_setscheduler preserves Inv.
LEMMA SchedSetscheduler ==
  ASSUME NEW p \in Task, NEW policy \in Policy, NEW priority \in RtPriority \cup {0},
         NEW reset \in ResetOnFork, Inv(St), sched_setscheduler(p, policy, priority, reset)
  PROVE  Inv(St)'
<1>1. St \in State /\ Consistent(St) /\ \A e \in Env : EnvOK(e)
  BY StFacts
<1>2. PICK e \in Env :
        LET s0 == TakeOff(St, p, e)
            t  == __setscheduler([s0.task[p] EXCEPT !.reset_on_fork = reset], policy, priority)
            s1 == PutBack(s0, p, t, FALSE)
        IN  Become(check_class_changed(s1, p, task[p].class, task[p].prio, e))
  BY ZenonT(40) DEF sched_setscheduler
<1> DEFINE s0 == TakeOff(St, p, e)
           t  == __setscheduler([s0.task[p] EXCEPT !.reset_on_fork = reset], policy, priority)
           s1 == PutBack(s0, p, t, FALSE)
<1>3. Become(check_class_changed(s1, p, task[p].class, task[p].prio, e))
  BY <1>2, ZenonT(40)
<1>4. Went(St, s0, OnRq(St) \ {p})
  BY <1>1, TakeOffWent
<1> HIDE DEF s0
<1>5. s0.task[p] \in TaskType /\ reset \in BOOLEAN
  BY <1>4, PrioAssumption DEF Went, State
<1>6. t \in TaskType /\ SameRun(s0.task[p], t)
  BY <1>5, SetSchedulerType
<1> HIDE DEF t
<1>7. Inv(check_class_changed(s1, p, task[p].class, task[p].prio, e))
  BY <1>4, <1>6, MovedClass, ZenonT(40)
<1> QED BY <1>3, <1>7, BecomeInv, ZenonT(40)

\* rt_mutex_setprio preserves Inv, boosting and deboosting.
LEMMA RtMutexSetprio ==
  ASSUME NEW p \in Task, NEW waiter \in WaiterPrio \cup {MAX_PRIO}, Inv(St),
         rt_mutex_setprio(p, waiter)
  PROVE  Inv(St)'
<1>1. St \in State /\ Consistent(St) /\ St.task = task /\ \A e \in Env : EnvOK(e)
  BY StFacts
<1> DEFINE prio == rt_mutex_getprio([task[p] EXCEPT !.waiter = waiter])
<1>2. PICK e \in Env :
       LET s0   == TakeOff(St, p, e)
           t    == [s0.task[p] EXCEPT !.waiter = waiter, !.prio = prio,
                                      !.class = IF rt_prio(prio) THEN "rt" ELSE "fair"]
           s1   == PutBack(s0, p, t, task[p].prio < prio)
       IN  Become(IF prio = task[p].prio THEN [St EXCEPT !.task[p].waiter = waiter]
                  ELSE check_class_changed(s1, p, task[p].class, task[p].prio, e))
  BY ZenonT(40) DEF rt_mutex_setprio
<1> DEFINE s0 == TakeOff(St, p, e)
           t  == [s0.task[p] EXCEPT !.waiter = waiter, !.prio = prio,
                                    !.class = IF rt_prio(prio) THEN "rt" ELSE "fair"]
           s1 == PutBack(s0, p, t, task[p].prio < prio)
           same == [St EXCEPT !.task[p].waiter = waiter]
<1>3. Become(IF prio = task[p].prio THEN same
             ELSE check_class_changed(s1, p, task[p].class, task[p].prio, e))
  BY <1>2
<1>4. Went(St, s0, OnRq(St) \ {p})
  BY <1>1, TakeOffWent
<1> HIDE DEF s0
<1>5. s0.task[p] \in TaskType /\ task[p] \in TaskType /\ s0.task[p].policy = task[p].policy
  BY <1>1, <1>4 DEF Went, State, SameTasks
<1>p. prio = rt_mutex_getprio([task[p] EXCEPT !.waiter = waiter])
  OBVIOUS
<1> HIDE DEF prio
<1>6. t \in TaskType /\ SameRun(s0.task[p], t)
  BY <1>5, <1>p, SetPrioType, ZenonT(40)
<1> HIDE DEF t
<1>7. Inv(check_class_changed(s1, p, task[p].class, task[p].prio, e))
  <2>1. (task[p].prio < prio) \in BOOLEAN
    OBVIOUS
  <2> QED BY <1>4, <1>6, <2>1, MovedClass, ZenonT(40)
<1> HIDE DEF s1
<1>8. Inv(same)
  <2> DEFINE v == [task[p] EXCEPT !.waiter = waiter]
  <2>1. /\ v \in TaskType /\ SameRun(task[p], v)
        /\ v.class = task[p].class /\ v.weight = task[p].weight /\ v.group = task[p].group
    BY <1>5, SetWaiter
  <2>2. same = [St EXCEPT !.task[p] = v]
    BY <1>1 DEF State
  <2> HIDE DEF v, same
  <2>3. /\ same \in State /\ same.rq = St.rq /\ same.task[p] = v
        /\ \A q \in Task \ {p} : same.task[q] = St.task[q]
    BY <1>1, <2>1, <2>2, PutTask
  <2>4. SameLists(St, same) /\ SameLife(St, same)
    BY <1>1, <2>1, <2>3 DEF SameLists, SameLife, SameRun
  <2>5. OnRq(same) = OnRq(St) /\ OnRq(St) \in SUBSET Task
    BY <2>4, SameLifeOnRq DEF OnRq
  <2>6. Consistent(same)
    BY <1>1, <2>3, <2>4, <2>5, SameListsOnLists DEF Consistent
  <2> QED BY <2>4, <2>6, SameLifeInv
<1> QED BY <1>3, <1>7, <1>8, BecomeInv

\* sched_move_task preserves Inv.
LEMMA SchedMoveTask ==
  ASSUME NEW p \in Task, NEW g \in Group, Inv(St), sched_move_task(p, g)
  PROVE  Inv(St)'
<1>1. St \in State /\ Consistent(St) /\ \A e \in Env : EnvOK(e)
  BY StFacts
<1>2. PICK e \in Env :
        LET s0 == TakeOff(St, p, e)
        IN  Become(PutBack(s0, p, [s0.task[p] EXCEPT !.group = g], FALSE))
  BY ZenonT(40) DEF sched_move_task
<1> DEFINE s0 == TakeOff(St, p, e)
           t  == [s0.task[p] EXCEPT !.group = g]
<1>3. Become(PutBack(s0, p, t, FALSE))
  BY <1>2, ZenonT(40)
<1>4. Went(St, s0, OnRq(St) \ {p})
  BY <1>1, TakeOffWent
<1> HIDE DEF s0
<1>5. s0.task[p] \in TaskType
  BY <1>4 DEF Went, State
<1>6. t \in TaskType /\ SameRun(s0.task[p], t)
  BY <1>5, SetGroupType
<1> HIDE DEF t
<1>7. Inv(PutBack(s0, p, t, FALSE))
  BY <1>4, <1>6, MovedClass, ZenonT(40)
<1> QED BY <1>3, <1>7, BecomeInv, ZenonT(40)

\* set_user_nice preserves Inv.
LEMMA SetUserNice ==
  ASSUME NEW p \in Task, NEW prio \in StaticPrio, Inv(St), set_user_nice(p, prio)
  PROVE  Inv(St)'
<1>1. /\ St \in State /\ Consistent(St) /\ St.task = task /\ OnLists(St, OnRq(St))
      /\ \A e \in Env : EnvOK(e)
  BY StFacts
<1>2. PICK e \in Env :
       LET s0    == IF task[p].on_rq THEN dequeue_task(St, p, e) ELSE St
           t     == WithEffectivePrio([s0.task[p] EXCEPT !.static_prio = prio])
           delta == t.prio - task[p].prio
           s1    == [s0 EXCEPT !.task[p] = t]
       IN  Become(IF task[p].policy \in RtPolicy
                  THEN [St EXCEPT !.task[p].static_prio = prio]
                  ELSE IF ~task[p].on_rq THEN s1
                  ELSE ReschedIf(delta < 0 \/ (delta > 0 /\ Curr = p),
                                 enqueue_task(s1, p, FALSE)))
  BY ZenonT(40) DEF set_user_nice
<1> DEFINE S     == OnRq(St) \ {p}
           s0    == IF task[p].on_rq THEN dequeue_task(St, p, e) ELSE St
           t     == WithEffectivePrio([s0.task[p] EXCEPT !.static_prio = prio])
           delta == t.prio - task[p].prio
           s1    == [s0 EXCEPT !.task[p] = t]
           s2    == enqueue_task(s1, p, FALSE)
           s3    == ReschedIf(delta < 0 \/ (delta > 0 /\ Curr = p), s2)
           same  == [St EXCEPT !.task[p].static_prio = prio]
<1>3. Become(IF task[p].policy \in RtPolicy THEN same ELSE IF ~task[p].on_rq THEN s1 ELSE s3)
  BY <1>2, ZenonT(40)
<1>4. /\ S \in SUBSET Task /\ p \in Task \ S /\ OnRq(St) \in SUBSET Task
      /\ (task[p].on_rq => p \in OnRq(St)) /\ (~task[p].on_rq => S = OnRq(St))
      /\ (task[p].on_rq => S \cup {p} = OnRq(St))
  BY <1>1 DEF OnRq
<1>5. Went(St, s0, S)
  <2>1. CASE task[p].on_rq
    BY <1>1, <1>4, <2>1, DequeueTask DEF Went
  <2>2. CASE ~task[p].on_rq
    BY <1>1, <1>4, <2>2 DEF Went, SameTasks
  <2> QED BY <2>1, <2>2
<1> HIDE DEF s0, S
<1>6. s0 \in State /\ OnLists(s0, S) /\ s0.task[p] \in TaskType /\ task[p] \in TaskType
      /\ SameTasks(St, s0)
  BY <1>1, <1>5 DEF Went, State
<1>7. t \in TaskType /\ SameRun(s0.task[p], t)
  BY <1>6, SetNiceType
<1> HIDE DEF t
<1>8. /\ s1 \in State /\ OnLists(s1, S) /\ s1.rq = s0.rq /\ s1.task[p] = t
      /\ \A q \in Task \ {p} : s1.task[q] = s0.task[q]
  BY <1>4, <1>6, <1>7, PutTask, ChangeTask
<1> HIDE DEF s1
<1>9. SameLife(St, s1)
  BY <1>6, <1>7, <1>8, ZenonT(40) DEF SameLife, SameTasks, SameRun
<1>10. CASE task[p].policy \in RtPolicy
  <2> DEFINE v == [task[p] EXCEPT !.static_prio = prio]
  <2>1. /\ v \in TaskType
    BY <1>6, <1>10, SetNiceType
  <2>2. /\ SameRun(task[p], v)
        /\ v.class = task[p].class /\ v.weight = task[p].weight /\ v.group = task[p].group
    BY <1>6 DEF TaskType, TaskRecord, SameRun
  <2>3. same = [St EXCEPT !.task[p] = v]
    BY <1>1 DEF State
  <2> HIDE DEF v, same
  <2>4. /\ same \in State /\ same.rq = St.rq /\ same.task[p] = v
        /\ \A q \in Task \ {p} : same.task[q] = St.task[q]
    BY <1>1, <2>1, <2>3, PutTask
  <2>5. SameLists(St, same) /\ SameLife(St, same)
    BY <1>1, <2>2, <2>4, ZenonT(40) DEF SameLists, SameLife, SameRun
  <2>6. OnRq(same) = OnRq(St)
    BY <2>5, SameLifeOnRq
  <2>7. Consistent(same)
    BY <1>1, <1>4, <2>4, <2>5, <2>6, SameListsOnLists DEF Consistent
  <2> QED BY <1>3, <1>10, <2>5, <2>7, SameLifeInv, BecomeInv, ZenonT(40)
<1>11. CASE task[p].policy \notin RtPolicy /\ ~task[p].on_rq
  <2>1. Consistent(s1)
    BY <1>4, <1>8, <1>9, <1>11, SameLifeOnRq DEF Consistent
  <2> QED BY <1>3, <1>9, <1>11, <2>1, SameLifeInv, BecomeInv
<1>12. CASE task[p].policy \notin RtPolicy /\ task[p].on_rq
  <2>1. Went(s1, s2, OnRq(St))
    <3>1. s2 \in State /\ OnLists(s2, S \cup {p}) /\ SameTasks(s1, s2)
      BY <1>4, <1>8, EnqueueTask, ZenonT(40)
    <3> QED BY <1>4, <1>12, <3>1, ZenonT(40) DEF Went
  <2> HIDE DEF s2
  <2>2. Keeps(s2, s3)
    BY <2>1, ReschedKeeps DEF Went
  <2> HIDE DEF s3
  <2>3. Went(s1, s3, OnRq(St))
    BY <1>4, <2>1, <2>2, KeepsWent
  <2>4. SameLife(St, s3)
    BY <1>9, <2>3, SameTasksSameLife, SameLifeTrans DEF Went
  <2>5. Consistent(s3)
    BY <2>3, <2>4, SameLifeOnRq DEF Consistent, Went
  <2> QED BY <1>3, <1>12, <2>4, <2>5, SameLifeInv, BecomeInv
<1> QED BY <1>10, <1>11, <1>12

\* The state at boot satisfies Inv.
LEMMA InitInv == Init => Inv(St)
<1> SUFFICES ASSUME Init PROVE Inv(St)
  OBVIOUS
<1>1. St.task = [p \in Task |-> BootTask(p \in InitTask)] /\ St.rq = rq
  BY DEF St, Init
<1>2. \A p \in Task : /\ p \in InitTask => St.task[p] = BootTask(TRUE)
                      /\ p \notin InitTask => St.task[p] = BootTask(FALSE)
  <2> SUFFICES ASSUME NEW p \in Task
               PROVE  /\ p \in InitTask => St.task[p] = BootTask(TRUE)
                      /\ p \notin InitTask => St.task[p] = BootTask(FALSE)
    BY ZenonT(40)
  <2>1. St.task[p] = BootTask(p \in InitTask)
    BY <1>1
  <2>2. CASE p \in InitTask
    <3>1. (p \in InitTask) = TRUE
      BY <2>2
    <3> QED BY <2>1, <2>2, <3>1, ZenonT(40)
  <2>3. CASE p \notin InitTask
    <3>1. (p \in InitTask) = FALSE
      BY <2>3
    <3> QED BY <2>1, <2>3, <3>1, ZenonT(40)
  <2> QED BY <2>2, <2>3, ZenonT(40)
<1>3. /\ InitTask \subseteq Task /\ IsFiniteSet(InitTask) /\ Cardinality(InitTask) \in Nat
  BY TaskAssumption, FS_Subset, FS_CardinalityType
<1>4. /\ rq.curr = Idle /\ rq.nr_running = Cardinality(InitTask) /\ rq.nr_uninterruptible = 0
      /\ rq.queue = <<>> /\ rq.rt = <<>> /\ rq.fair = InitTask
      /\ rq.wrr_nr_running = 0 /\ rq.total_weight = 0 /\ rq \in RqRecord
  <2> HIDE DEF Cardinality
  <2>1. <<>> \in Seq(Task) /\ Cardinality(InitTask) \in Int
    BY <1>3
  <2> DEFINE n == Cardinality(InitTask)
  <2>2. rq = [curr |-> Idle, clock_task |-> 0, need_resched |-> TRUE, nr_running |-> n,
              nr_uninterruptible |-> 0, queue |-> <<>>, wrr_nr_running |-> 0,
              total_weight |-> 0, rt |-> <<>>, rt_throttled |-> FALSE, fair |-> InitTask]
    BY ZenonT(40) DEF Init
  <2>3. n \in Int
    BY <2>1
  <2> HIDE DEF n
  <2>4. rq \in RqRecord
    BY <1>3, <2>1, <2>2, <2>3 DEF RqRecord
  <2>5. /\ rq.curr = Idle /\ rq.nr_running = n /\ rq.nr_uninterruptible = 0
        /\ rq.queue = <<>> /\ rq.rt = <<>> /\ rq.fair = InitTask
        /\ rq.wrr_nr_running = 0 /\ rq.total_weight = 0
    BY <2>2
  <2> QED BY <2>4, <2>5, ZenonT(40) DEF n
<1>5. St \in State
  <2>1. \A p \in Task : St.task[p] \in TaskType
    BY <1>2, BootTaskType, ZenonT(40)
  <2> QED BY <1>1, <1>4, <2>1 DEF State, St
<1>6. \A p \in Task : /\ (St.task[p].on_rq <=> p \in InitTask) /\ St.task[p].class = "fair"
                      /\ St.task[p].newborn = FALSE
                      /\ St.task[p].state = IF p \in InitTask THEN "RUNNING" ELSE "DEAD"
  <2> SUFFICES ASSUME NEW p \in Task
               PROVE  /\ (St.task[p].on_rq <=> p \in InitTask) /\ St.task[p].class = "fair"
                      /\ St.task[p].newborn = FALSE
                      /\ St.task[p].state = IF p \in InitTask THEN "RUNNING" ELSE "DEAD"
    BY ZenonT(40)
  <2>1. /\ BootTask(TRUE).on_rq = TRUE /\ BootTask(TRUE).class = "fair"
        /\ BootTask(TRUE).newborn = FALSE /\ BootTask(TRUE).state = "RUNNING"
    BY DEF BootTask
  <2>2. /\ BootTask(FALSE).on_rq = FALSE /\ BootTask(FALSE).class = "fair"
        /\ BootTask(FALSE).newborn = FALSE /\ BootTask(FALSE).state = "DEAD"
    BY DEF BootTask
  <2>3. CASE p \in InitTask
    BY <1>2, <2>1, <2>3, ZenonT(40)
  <2>4. CASE p \notin InitTask
    BY <1>2, <2>2, <2>4, ZenonT(40)
  <2> QED BY <2>3, <2>4, ZenonT(40)
<1>7. OnRq(St) = InitTask /\ Sleepers(St) = {}
  BY <1>3, <1>6 DEF OnRq, Sleepers
<1>8. /\ OfClass(St, InitTask, "wrr") = {} /\ OfClass(St, InitTask, "rt") = {}
      /\ OfClass(St, InitTask, "fair") = InitTask
  BY <1>3, <1>6 DEF OfClass
<1>9. OfWeight(St, InitTask, 1) = {} /\ OfWeight(St, InitTask, 10) = {}
  BY <1>8 DEF OfWeight
<1>10. Cardinality({}) = 0
  BY FS_EmptySet
<1>11. OnLists(St, InitTask)
  <2>1. Linked(St, InitTask)
    BY <1>1, <1>4, <1>8 DEF Linked, Members, Distinct
  <2>2. Counted(St, InitTask)
    <3>1. Len(<<>>) = 0 /\ 0 + 10 * 0 = 0
      OBVIOUS
    <3> QED BY <1>1, <1>4, <1>9, <1>10, <3>1, ZenonT(40) DEF Counted
  <2> QED BY <1>8, <2>1, <2>2 DEF OnLists, Weighed
<1>12. Quiet(St)
  BY <1>1, <1>4, <1>6, <1>7, <1>10 DEF Quiet, NewbornWaits, RunnableQueued, SleepersCounted
<1>13. DeadOff(St) /\ CurrQueued(St)
  BY <1>1, <1>4, <1>6, TaskAssumption DEF DeadOff, CurrQueued
<1> QED BY <1>5, <1>7, <1>11, <1>12, <1>13 DEF Inv, Consistent

\* Every step of the scheduler preserves Inv.
LEMMA NextInv == Inv(St) /\ [Next]_vars => Inv(St)'
<1> SUFFICES ASSUME Inv(St), [Next]_vars PROVE Inv(St)'
  OBVIOUS
<1>1. CASE Interrupt
  BY <1>1, SchedulerTick, SchedClock, PeriodTimer, TryToWakeUp DEF Interrupt
<1>2. CASE Reschedule
  BY <1>2, Schedule DEF Reschedule
<1>3. CASE Lifecycle
  BY <1>3, SetCurrentState, DoFork, WakeUpNewTask, DoExit, SchedYield DEF Lifecycle
<1>4. CASE Reconfigure
  BY <1>4, SchedSetscheduler, SetUserNice, RtMutexSetprio, SchedMoveTask DEF Reconfigure
<1>5. CASE UNCHANGED vars
  BY <1>5 DEF vars, St
<1> QED BY <1>1, <1>2, <1>3, <1>4, <1>5 DEF Next

\* The inductive invariant holds in every state the scheduler reaches.
THEOREM Invariance == Spec => []Inv(St)
BY InitInv, NextInv, PTL DEF Spec

\* The inductive invariant implies the safety properties.
LEMMA InvSafety ==
  ASSUME Inv(St)
  PROVE  TypeOK /\ QueuesAgree /\ CountersAgree /\ SliceFollowsGroup /\ NoLostWakeup /\ ClassAgrees
<1>1. /\ St \in State /\ St.task = task /\ St.rq = rq
      /\ Linked(St, OnRq(St)) /\ Counted(St, OnRq(St)) /\ Weighed(St, OnRq(St))
      /\ Quiet(St) /\ CurrQueued(St)
  BY StFacts DEF OnLists, Inv
<1>2. \A p \in Task : task[p] \in TaskRecord /\ TaskOK(task[p])
  BY <1>1 DEF State, TaskType
<1>3. \A class : Queued(class) = OfClass(St, OnRq(St), class)
  BY <1>1 DEF Queued, OfClass, OnRq
<1>4. \A w : Weighing(w) = OfWeight(St, OnRq(St), w)
  BY <1>1, <1>3 DEF Weighing, OfWeight
<1>5. TypeOK
  BY <1>1 DEF TypeOK, State, TaskType
<1>6. QueuesAgree
  BY <1>1, <1>3, ZenonT(40) DEF QueuesAgree, Linked, Distinct
<1>7. CountersAgree
  <2>1. OnRq(St) = {p \in Task : task[p].on_rq}
    BY <1>1 DEF OnRq
  <2>2. Sleepers(St) = {p \in Task : task[p].state = "UNINTERRUPTIBLE" /\ ~task[p].on_rq}
    BY <1>1 DEF Sleepers
  <2> QED BY <1>1, <1>4, <2>1, <2>2, ZenonT(40) DEF CountersAgree, Counted, Quiet, SleepersCounted
<1>8. SliceFollowsGroup
  <2> SUFFICES ASSUME NEW p \in Queued("wrr")
               PROVE  /\ task[p].weight = group_weight(task[p].group)
                      /\ task[p].time_slice \in 1 .. weight_slice(task[p].weight)
    BY DEF SliceFollowsGroup
  <2>1. p \in Task
    BY DEF Queued
  <2>2. task[p].weight = group_weight(task[p].group)
    BY <1>1, <1>3 DEF Weighed
  <2>3. task[p].weight # 0
    BY <2>2 DEF group_weight
  <2> QED BY <1>2, <2>1, <2>2, <2>3 DEF TaskOK
<1>9. NoLostWakeup
  BY <1>1 DEF NoLostWakeup, Quiet, RunnableQueued, CurrQueued, InTask, Curr, State, RqRecord
<1>10. ClassAgrees
  BY <1>2, ZenonT(40) DEF ClassAgrees, TaskOK
<1> QED BY <1>5, <1>6, <1>7, <1>8, <1>9, <1>10

\* The fields of task_struct and struct rq keep their types.
THEOREM TypeCorrect == Spec => []TypeOK
BY Invariance, InvSafety, PTL

\* on_rq, the class of a task and the run lists agree after every entry
\* point, for any number of tasks, groups and priorities.
THEOREM ListsConsistent == Spec => []QueuesAgree
BY Invariance, InvSafety, PTL

\* wrr_nr_running, total_weight, nr_running and nr_uninterruptible are exact
\* after every entry point: no path counts a task twice or forgets one.
THEOREM CountersExact == Spec => []CountersAgree
BY Invariance, InvSafety, PTL

\* A queued WRR task has the weight of its present group and a slice of at
\* least one tick: the unsigned decrement of task_tick_wrr never wraps.
THEOREM SlicesInRange == Spec => []SliceFollowsGroup
BY Invariance, InvSafety, PTL

\* No wakeup is lost: a runnable task whose fork has finished is on the
\* runqueue, and so is the current task.
THEOREM WakeupsKept == Spec => []NoLostWakeup
BY Invariance, InvSafety, PTL

\* The class of a task agrees with its policy and its effective priority
\* through policy changes, renices, boosts and forks.
THEOREM ClassesFollowPriority == Spec => []ClassAgrees
BY Invariance, InvSafety, PTL
=============================================================================
