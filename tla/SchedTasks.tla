---------------------------- MODULE SchedTasks -----------------------------
(***************************************************************************)
(* Lemmas about the lives of tasks: what activate_task, deactivate_task,   *)
(* the wakeups, __schedule() and the reconfigurations do to a scheduler    *)
(* state, and the types of the fields they compute.  They keep the         *)
(* inductive invariant Inv, which adds to the lists (Consistent) what ties *)
(* them to the tasks: the range of slices also for WRR tasks that are not  *)
(* queued, and the lives of tasks between fork, wakeup, sleep and exit     *)
(* (Quiet, DeadOff, CurrQueued).                                           *)
(***************************************************************************)
EXTENDS SchedLists

\* The tasks whose on_rq is set.
OnRq(st) == {p \in Task : st.task[p].on_rq}

\* From st to s2 every task keeps its state, on_rq and newborn mark.
SameLife(st, s2) ==
  /\ s2.rq.curr = st.rq.curr
  /\ s2.rq.nr_uninterruptible = st.rq.nr_uninterruptible
  /\ \A q \in Task : /\ s2.task[q].state = st.task[q].state
                     /\ s2.task[q].on_rq = st.task[q].on_rq
                     /\ s2.task[q].newborn = st.task[q].newborn

\* The lists hold exactly the tasks whose on_rq is set.
Consistent(st) == st \in State /\ OnLists(st, OnRq(st))

\* SameLife asks for less than SameTasks.
LEMMA SameTasksSameLife ==
  ASSUME NEW st, NEW s2, SameTasks(st, s2)
  PROVE  SameLife(st, s2)
BY DEF SameTasks, SameLife

\* SameLife is transitive.
LEMMA SameLifeTrans ==
  ASSUME NEW st, NEW s2, NEW s3, SameLife(st, s2), SameLife(s2, s3)
  PROVE  SameLife(st, s3)
BY DEF SameLife

\* SameLife keeps the set of tasks with on_rq set.
LEMMA SameLifeOnRq ==
  ASSUME NEW st, NEW s2, SameLife(st, s2)
  PROVE  OnRq(s2) = OnRq(st)
BY DEF SameLife, OnRq

\* A callback that keeps the lists keeps them consistent with on_rq.
LEMMA KeepsConsistent ==
  ASSUME NEW st, NEW s2, Consistent(st), Keeps(st, s2)
  PROVE  Consistent(s2) /\ SameLife(st, s2)
<1>1. SameLife(st, s2)
  BY SameTasksSameLife DEF Keeps
<1>2. OnRq(st) \in SUBSET Task
  BY DEF OnRq
<1>3. OnLists(s2, OnRq(st))
  BY <1>2, SameListsOnLists DEF Consistent, Keeps
<1> QED BY <1>1, <1>3, SameLifeOnRq DEF Consistent, Keeps

\* The first half of a reconfiguration, dequeue_task and put_prev_task, takes
\* p off the lists while its on_rq stays set.
LEMMA TakeOffWent ==
  ASSUME NEW st, Consistent(st), NEW p \in Task, NEW e, EnvOK(e)
  PROVE  Went(st, TakeOff(st, p, e), OnRq(st) \ {p})
<1> DEFINE S  == OnRq(st)
           s1 == IF st.task[p].on_rq THEN dequeue_task(st, p, e) ELSE st
<1>1. S \in SUBSET Task /\ S \ {p} \in SUBSET Task /\ (st.task[p].on_rq <=> p \in S)
  BY DEF OnRq
<1>2. st \in State /\ OnLists(st, S)
  BY DEF Consistent
<1> HIDE DEF S
<1>3. Went(st, s1, S \ {p})
  <2>1. CASE st.task[p].on_rq
    BY <1>1, <1>2, <2>1, DequeueTask DEF Went
  <2>2. CASE ~st.task[p].on_rq
    <3>1. S \ {p} = S
      BY <1>1, <2>2
    <3> QED BY <1>2, <2>2, <3>1 DEF Went, SameTasks
  <2> QED BY <2>1, <2>2
<1> HIDE DEF s1
<1>4. Keeps(s1, put_prev_task(s1, e))
  BY <1>3, PutPrevKeeps DEF Went
<1>5. Went(st, put_prev_task(s1, e), S \ {p})
  BY <1>1, <1>3, <1>4, KeepsWent
<1> QED BY <1>3, <1>5 DEF TakeOff, s1, S

\* The second half, set_curr_task and enqueue_task, puts p back if its on_rq
\* is set.
LEMMA PutBackWent ==
  ASSUME NEW st \in State, NEW S \in SUBSET Task, NEW p \in Task \ S, OnLists(st, S),
         NEW t \in TaskType, NEW head \in BOOLEAN
  PROVE  Went([st EXCEPT !.task[p] = t], PutBack(st, p, t, head), IF t.on_rq THEN S \cup {p} ELSE S)
<1> DEFINE s1 == [st EXCEPT !.task[p] = t]
           s2 == IF st.rq.curr = p THEN set_curr_task(s1) ELSE s1
<1>1. s1 \in State /\ OnLists(s1, S) /\ s1.rq = st.rq
  BY PutTask, ChangeTask
<1>2. PutBack(st, p, t, head) = IF t.on_rq THEN enqueue_task(s2, p, head) ELSE s2
  BY DEF PutBack
<1> HIDE DEF s1
<1>3. Keeps(s1, s2)
  BY <1>1, SetCurrKeeps, KeepsRefl
<1> HIDE DEF s2
<1>4. Went(s1, s2, S)
  BY <1>1, <1>3, SameListsOnLists DEF Went, Keeps
<1>5. Went(s1, enqueue_task(s2, p, head), S \cup {p})
  <2>1. /\ enqueue_task(s2, p, head) \in State /\ OnLists(enqueue_task(s2, p, head), S \cup {p})
        /\ SameTasks(s2, enqueue_task(s2, p, head))
    BY <1>4, EnqueueTask DEF Went
  <2> QED BY <1>4, <2>1, SameTasksTrans DEF Went
<1> QED BY <1>2, <1>4, <1>5 DEF s1

\* A reconfiguration that takes p off, changes it and puts it back ends with
\* lists that agree with on_rq.
LEMMA Moved ==
  ASSUME NEW st, Consistent(st), NEW p \in Task, NEW s0, Went(st, s0, OnRq(st) \ {p}),
         NEW t \in TaskType, t.on_rq = st.task[p].on_rq, t.state = st.task[p].state,
         t.newborn = st.task[p].newborn, NEW head \in BOOLEAN
  PROVE  Consistent(PutBack(s0, p, t, head)) /\ SameLife(st, PutBack(s0, p, t, head))
<1> DEFINE S  == OnRq(st) \ {p}
           s1 == [s0 EXCEPT !.task[p] = t]
           s2 == PutBack(s0, p, t, head)
           R  == IF t.on_rq THEN S \cup {p} ELSE S
<1>1. S \in SUBSET Task /\ p \in Task \ S /\ R = OnRq(st)
  BY DEF OnRq
<1>2. s0 \in State /\ OnLists(s0, S) /\ SameTasks(st, s0)
  BY DEF Went
<1>3. SameLife(st, s1)
  <2>1. /\ s1.rq = s0.rq /\ s1.task[p] = t
        /\ \A q \in Task \ {p} : s1.task[q] = s0.task[q]
    <3>1. s0 \in State
      BY <1>2
    <3> QED BY <3>1 DEF State
  <2> HIDE DEF s1
  <2> QED BY <1>2, <2>1 DEF SameTasks, SameLife
<1> HIDE DEF S
<1>4. Went(s1, s2, R)
  BY <1>1, <1>2, PutBackWent, ZenonT(40)
<1> HIDE DEF s1, s2, R
<1>5. SameLife(st, s2)
  BY <1>3, <1>4, SameTasksSameLife, SameLifeTrans DEF Went
<1>6. OnRq(s2) = R
  BY <1>1, <1>5, SameLifeOnRq
<1> QED BY <1>4, <1>5, <1>6 DEF Consistent, Went, s2

\* The values of the state field.
TaskState == {"RUNNING", "INTERRUPTIBLE", "UNINTERRUPTIBLE", "DEAD"}

\* Writing on_rq changes that field of p and nothing else.
LEMMA SetOnRq ==
  ASSUME NEW st \in State, NEW p \in Task, NEW b \in BOOLEAN
  PROVE  LET s2 == [st EXCEPT !.task[p].on_rq = b]
         IN  /\ s2 \in State /\ SameLists(st, s2) /\ s2.rq = st.rq
             /\ s2.task[p].on_rq = b
             /\ s2.task[p].state = st.task[p].state /\ s2.task[p].newborn = st.task[p].newborn
             /\ \A q \in Task \ {p} : s2.task[q] = st.task[q]
<1> DEFINE u  == st.task[p]
           t  == [u EXCEPT !.on_rq = b]
           s2 == [st EXCEPT !.task[p] = t]
<1>1. u \in TaskType
  BY DEF State
<1>2. /\ t \in TaskType /\ t.on_rq = b /\ t.state = u.state /\ t.newborn = u.newborn
      /\ t.class = u.class /\ t.weight = u.weight /\ t.group = u.group
  BY <1>1 DEF TaskType, TaskRecord, TaskOK, normal_prio
<1> HIDE DEF t
<1>3. /\ s2 \in State /\ s2.rq = st.rq /\ s2.task[p] = t
      /\ \A q \in Task \ {p} : s2.task[q] = st.task[q]
  BY <1>2, PutTask
<1>4. SameLists(st, s2)
  BY <1>2, <1>3 DEF SameLists
<1> QED BY <1>2, <1>3, <1>4, ZenonT(40) DEF t

\* Writing state changes that field of p and nothing else.
LEMMA SetState ==
  ASSUME NEW st \in State, NEW p \in Task, NEW x \in TaskState
  PROVE  LET s2 == [st EXCEPT !.task[p].state = x]
         IN  /\ s2 \in State /\ SameLists(st, s2) /\ s2.rq = st.rq
             /\ s2.task[p].state = x
             /\ s2.task[p].on_rq = st.task[p].on_rq /\ s2.task[p].newborn = st.task[p].newborn
             /\ \A q \in Task \ {p} : s2.task[q] = st.task[q]
<1> DEFINE u  == st.task[p]
           t  == [u EXCEPT !.state = x]
           s2 == [st EXCEPT !.task[p] = t]
<1>1. u \in TaskType
  BY DEF State
<1>2. /\ t \in TaskType /\ t.state = x /\ t.on_rq = u.on_rq /\ t.newborn = u.newborn
      /\ t.class = u.class /\ t.weight = u.weight /\ t.group = u.group
  BY <1>1 DEF TaskState, TaskType, TaskRecord, TaskOK, normal_prio
<1> HIDE DEF t
<1>3. /\ s2 \in State /\ s2.rq = st.rq /\ s2.task[p] = t
      /\ \A q \in Task \ {p} : s2.task[q] = st.task[q]
  BY <1>2, PutTask
<1>4. SameLists(st, s2)
  BY <1>2, <1>3 DEF SameLists
<1> QED BY <1>2, <1>3, <1>4, ZenonT(40) DEF t

\* Ending the fork of p changes that mark of p and nothing else.
LEMMA SetNewborn ==
  ASSUME NEW st \in State, NEW p \in Task, NEW b \in BOOLEAN
  PROVE  LET s2 == [st EXCEPT !.task[p].newborn = b]
         IN  /\ s2 \in State /\ SameLists(st, s2) /\ s2.rq = st.rq
             /\ s2.task[p].newborn = b
             /\ s2.task[p].on_rq = st.task[p].on_rq /\ s2.task[p].state = st.task[p].state
             /\ \A q \in Task \ {p} : s2.task[q] = st.task[q]
<1> DEFINE u  == st.task[p]
           t  == [u EXCEPT !.newborn = b]
           s2 == [st EXCEPT !.task[p] = t]
<1>1. u \in TaskType
  BY DEF State
<1>2. /\ t \in TaskType /\ t.newborn = b /\ t.on_rq = u.on_rq /\ t.state = u.state
      /\ t.class = u.class /\ t.weight = u.weight /\ t.group = u.group
  BY <1>1 DEF TaskType, TaskRecord, TaskOK, normal_prio
<1> HIDE DEF t
<1>3. /\ s2 \in State /\ s2.rq = st.rq /\ s2.task[p] = t
      /\ \A q \in Task \ {p} : s2.task[q] = st.task[q]
  BY <1>2, PutTask
<1>4. SameLists(st, s2)
  BY <1>2, <1>3 DEF SameLists
<1> QED BY <1>2, <1>3, <1>4, ZenonT(40) DEF t

\* Writing nr_uninterruptible changes that counter and nothing else.
LEMMA SetNrUninterruptible ==
  ASSUME NEW st \in State, NEW n \in Int
  PROVE  LET s2 == [st EXCEPT !.rq.nr_uninterruptible = n]
         IN  /\ s2 \in State /\ SameLists(st, s2) /\ s2.task = st.task
             /\ s2.rq.curr = st.rq.curr /\ s2.rq.nr_uninterruptible = n
BY ZenonT(40) DEF State, RqRecord, SameLists

\* The tasks nr_uninterruptible counts.
Sleepers(st) == {p \in Task : st.task[p].state = "UNINTERRUPTIBLE" /\ ~st.task[p].on_rq}
SleepersCounted(st) == st.rq.nr_uninterruptible = Cardinality(Sleepers(st))

\* s2 is st, but for p, which is queued in s2 when b holds and not queued when it does not.
Queueing(st, s2, p, b) ==
  /\ Consistent(s2)
  /\ s2.rq.curr = st.rq.curr
  /\ s2.task[p].on_rq = b
  /\ \A q \in Task \ {p} : s2.task[q].on_rq = st.task[q].on_rq
  /\ \A q \in Task : s2.task[q].state = st.task[q].state /\ s2.task[q].newborn = st.task[q].newborn
  /\ SleepersCounted(st) => SleepersCounted(s2)

\* activate_task sets on_rq, queues p and takes it off nr_uninterruptible
\* when it was counted there.
LEMMA ActivateTask ==
  ASSUME NEW st, Consistent(st), NEW p \in Task, ~st.task[p].on_rq
  PROVE  Queueing(st, activate_task(st, p), p, TRUE)
<1> DEFINE S  == OnRq(st)
           s1 == IF st.task[p].state = "UNINTERRUPTIBLE"
                 THEN [st EXCEPT !.rq.nr_uninterruptible = @ - 1] ELSE st
           s2 == enqueue_task(s1, p, FALSE)
           s3 == [s2 EXCEPT !.task[p].on_rq = TRUE]
<1>1. S \in SUBSET Task /\ p \in Task \ S /\ st \in State /\ OnLists(st, S)
  BY DEF OnRq, Consistent
<1>2. st.rq.nr_uninterruptible \in Int /\ st.rq.nr_uninterruptible - 1 \in Int
  BY <1>1 DEF State, RqRecord
<1>3. /\ s1 \in State /\ SameLists(st, s1) /\ s1.task = st.task /\ s1.rq.curr = st.rq.curr
      /\ st.task[p].state = "UNINTERRUPTIBLE" => s1.rq.nr_uninterruptible = st.rq.nr_uninterruptible - 1
      /\ st.task[p].state # "UNINTERRUPTIBLE" => s1.rq.nr_uninterruptible = st.rq.nr_uninterruptible
  BY <1>1, <1>2, SetNrUninterruptible, KeepsRefl, ZenonT(40) DEF Keeps
<1> HIDE DEF S, s1
<1>4. OnLists(s1, S)
  BY <1>1, <1>3, SameListsOnLists
<1>5. s2 \in State /\ OnLists(s2, S \cup {p}) /\ SameTasks(s1, s2)
  BY <1>1, <1>3, <1>4, EnqueueTask, ZenonT(40)
<1> HIDE DEF s2
<1>6. /\ s3 \in State /\ SameLists(s2, s3) /\ s3.rq = s2.rq
      /\ s3.task[p].on_rq = TRUE
      /\ s3.task[p].state = s2.task[p].state /\ s3.task[p].newborn = s2.task[p].newborn
      /\ \A q \in Task \ {p} : s3.task[q] = s2.task[q]
  BY <1>5, SetOnRq, ZenonT(40)
<1> HIDE DEF s3
<1>7. OnLists(s3, S \cup {p})
  BY <1>1, <1>5, <1>6, SameListsOnLists
<1>8. /\ s3.rq.curr = st.rq.curr /\ s3.rq.nr_uninterruptible = s1.rq.nr_uninterruptible
      /\ \A q \in Task \ {p} : s3.task[q].on_rq = st.task[q].on_rq
      /\ \A q \in Task : s3.task[q].state = st.task[q].state /\ s3.task[q].newborn = st.task[q].newborn
  BY <1>3, <1>5, <1>6 DEF SameTasks
<1>9. OnRq(s3) = S \cup {p}
  BY <1>6, <1>8 DEF OnRq, S
<1>10. ASSUME SleepersCounted(st) PROVE SleepersCounted(s3)
  <2>1. Sleepers(st) \in SUBSET Task
    BY DEF Sleepers
  <2>2. CASE st.task[p].state = "UNINTERRUPTIBLE"
    <3>1. Sleepers(s3) = Sleepers(st) \ {p} /\ p \in Sleepers(st)
      BY <1>1, <1>6, <1>8, <2>2 DEF Sleepers
    <3> QED BY <1>3, <1>8, <1>10, <2>1, <2>2, <3>1, Cards DEF SleepersCounted
  <2>3. CASE st.task[p].state # "UNINTERRUPTIBLE"
    <3>1. Sleepers(s3) = Sleepers(st)
      BY <1>6, <1>8, <2>3 DEF Sleepers
    <3> QED BY <1>3, <1>8, <1>10, <2>3, <3>1 DEF SleepersCounted
  <2> QED BY <2>2, <2>3
<1>11. Queueing(st, s3, p, TRUE)
  BY <1>6, <1>7, <1>8, <1>9, <1>10 DEF Queueing, Consistent
<1> QED BY <1>11, ZenonT(40) DEF activate_task, s3, s2, s1

\* deactivate_task clears on_rq, takes p off the lists and counts it in
\* nr_uninterruptible when its state says so.
LEMMA DeactivateTask ==
  ASSUME NEW st, Consistent(st), NEW p \in OnRq(st), NEW e, EnvOK(e)
  PROVE  Queueing(st, deactivate_task(st, p, e), p, FALSE)
<1> DEFINE S  == OnRq(st)
           s1 == IF st.task[p].state = "UNINTERRUPTIBLE"
                 THEN [st EXCEPT !.rq.nr_uninterruptible = @ + 1] ELSE st
           s2 == dequeue_task(s1, p, e)
           s3 == [s2 EXCEPT !.task[p].on_rq = FALSE]
<1>1. /\ S \in SUBSET Task /\ p \in S /\ S \ {p} \in SUBSET Task /\ st \in State /\ OnLists(st, S)
      /\ p \in Task /\ st.task[p].on_rq
  BY DEF OnRq, Consistent
<1>2. st.rq.nr_uninterruptible \in Int /\ st.rq.nr_uninterruptible + 1 \in Int
  BY <1>1 DEF State, RqRecord
<1>3. /\ s1 \in State /\ SameLists(st, s1) /\ s1.task = st.task /\ s1.rq.curr = st.rq.curr
      /\ st.task[p].state = "UNINTERRUPTIBLE" => s1.rq.nr_uninterruptible = st.rq.nr_uninterruptible + 1
      /\ st.task[p].state # "UNINTERRUPTIBLE" => s1.rq.nr_uninterruptible = st.rq.nr_uninterruptible
  BY <1>1, <1>2, SetNrUninterruptible, KeepsRefl, ZenonT(40) DEF Keeps
<1> HIDE DEF S, s1
<1>4. OnLists(s1, S)
  BY <1>1, <1>3, SameListsOnLists
<1>5. s2 \in State /\ OnLists(s2, S \ {p}) /\ SameTasks(s1, s2)
  BY <1>1, <1>3, <1>4, DequeueTask
<1> HIDE DEF s2
<1>6. /\ s3 \in State /\ SameLists(s2, s3) /\ s3.rq = s2.rq
      /\ s3.task[p].on_rq = FALSE
      /\ s3.task[p].state = s2.task[p].state /\ s3.task[p].newborn = s2.task[p].newborn
      /\ \A q \in Task \ {p} : s3.task[q] = s2.task[q]
  BY <1>1, <1>5, SetOnRq, ZenonT(40)
<1> HIDE DEF s3
<1>7. OnLists(s3, S \ {p})
  BY <1>1, <1>5, <1>6, SameListsOnLists
<1>8. /\ s3.rq.curr = st.rq.curr /\ s3.rq.nr_uninterruptible = s1.rq.nr_uninterruptible
      /\ \A q \in Task \ {p} : s3.task[q].on_rq = st.task[q].on_rq
      /\ \A q \in Task : s3.task[q].state = st.task[q].state /\ s3.task[q].newborn = st.task[q].newborn
  BY <1>3, <1>5, <1>6 DEF SameTasks
<1>9. OnRq(s3) = S \ {p}
  BY <1>6, <1>8 DEF OnRq, S
<1>10. ASSUME SleepersCounted(st) PROVE SleepersCounted(s3)
  <2>1. Sleepers(st) \in SUBSET Task
    BY DEF Sleepers
  <2>2. CASE st.task[p].state = "UNINTERRUPTIBLE"
    <3>1. Sleepers(s3) = Sleepers(st) \cup {p} /\ p \notin Sleepers(st)
      BY <1>1, <1>6, <1>8, <2>2 DEF Sleepers
    <3> QED BY <1>1, <1>3, <1>8, <1>10, <2>1, <2>2, <3>1, Cards DEF SleepersCounted
  <2>3. CASE st.task[p].state # "UNINTERRUPTIBLE"
    <3>1. Sleepers(s3) = Sleepers(st)
      BY <1>6, <1>8, <2>3 DEF Sleepers
    <3> QED BY <1>3, <1>8, <1>10, <2>3, <3>1 DEF SleepersCounted
  <2> QED BY <2>2, <2>3
<1>11. Queueing(st, s3, p, FALSE)
  BY <1>6, <1>7, <1>8, <1>9, <1>10 DEF Queueing, Consistent
<1> QED BY <1>11, ZenonT(40) DEF deactivate_task, s3, s2, s1

\* A task whose fork has not finished is runnable and not queued; every other
\* runnable task is queued; nr_uninterruptible is exact.
NewbornWaits(st) ==
  \A p \in Task : st.task[p].newborn => ~st.task[p].on_rq /\ st.task[p].state = "RUNNING"
RunnableQueued(st) ==
  \A p \in Task : st.task[p].state = "RUNNING" => st.task[p].on_rq \/ st.task[p].newborn
Quiet(st) == NewbornWaits(st) /\ RunnableQueued(st) /\ SleepersCounted(st)
\* Between the steps a dead task is off the runqueue.
DeadOff(st) == \A p \in Task : st.task[p].state = "DEAD" => ~st.task[p].on_rq
\* The current task, unless idle, is on the runqueue.
CurrQueued(st) == st.rq.curr \in Task => st.task[st.rq.curr].on_rq

\* The inductive invariant.
Inv(st) == Consistent(st) /\ Quiet(st) /\ DeadOff(st) /\ CurrQueued(st)

\* The parts of Inv other than Consistent depend on SameLife only.
LEMMA SameLifeQuiet ==
  ASSUME NEW st, NEW s2, SameLife(st, s2)
  PROVE  /\ Quiet(st) => Quiet(s2)
         /\ DeadOff(st) => DeadOff(s2)
         /\ CurrQueued(st) => CurrQueued(s2)
<1>1. Sleepers(s2) = Sleepers(st)
  BY DEF SameLife, Sleepers
<1>2. Quiet(st) => Quiet(s2)
  BY <1>1 DEF SameLife, Quiet, NewbornWaits, RunnableQueued, SleepersCounted
<1> QED BY <1>2 DEF SameLife, DeadOff, CurrQueued

\* A step that keeps the lives and ends consistent keeps Inv.
LEMMA SameLifeInv ==
  ASSUME NEW st, NEW s2, Inv(st), SameLife(st, s2), Consistent(s2)
  PROVE  Inv(s2)
BY SameLifeQuiet DEF Inv

\* Setting a queued task to TASK_RUNNING at the end of a wakeup establishes
\* the invariant again.
LEMMA MakeRunning ==
  ASSUME NEW st, Consistent(st), NEW p \in Task, st.task[p].on_rq, ~st.task[p].newborn,
         NewbornWaits(st), \A q \in Task \ {p} : st.task[q].state = "RUNNING" => st.task[q].on_rq \/ st.task[q].newborn,
         SleepersCounted(st)
  PROVE  LET s2 == [st EXCEPT !.task[p].state = "RUNNING"]
         IN  /\ Consistent(s2) /\ Quiet(s2) /\ s2.rq.curr = st.rq.curr
             /\ s2.task[p].state = "RUNNING" /\ s2.task[p].on_rq
             /\ \A q \in Task \ {p} : s2.task[q] = st.task[q]
<1> DEFINE s2 == [st EXCEPT !.task[p].state = "RUNNING"]
<1>1. /\ s2 \in State /\ SameLists(st, s2) /\ s2.rq = st.rq
      /\ s2.task[p].state = "RUNNING"
      /\ s2.task[p].on_rq = st.task[p].on_rq /\ s2.task[p].newborn = st.task[p].newborn
      /\ \A q \in Task \ {p} : s2.task[q] = st.task[q]
  BY SetState, ZenonT(40) DEF Consistent, TaskState
<1> HIDE DEF s2
<1>2. OnRq(s2) = OnRq(st) /\ OnRq(st) \in SUBSET Task
  BY <1>1, ZenonT(40) DEF OnRq
<1>3. Consistent(s2)
  BY <1>1, <1>2, SameListsOnLists DEF Consistent
<1>4. Sleepers(s2) = Sleepers(st)
  BY <1>1 DEF Sleepers
<1>5. Quiet(s2)
  BY <1>1, <1>4, ZenonT(40) DEF Quiet, NewbornWaits, RunnableQueued, SleepersCounted
<1> QED BY <1>1, <1>3, <1>5 DEF s2

\* Nobody leaves the queue or dies.
Woken(st, s2) ==
  /\ Consistent(s2) /\ Quiet(s2) /\ s2.rq.curr = st.rq.curr
  /\ \A q \in Task : st.task[q].on_rq => s2.task[q].on_rq
  /\ \A q \in Task : s2.task[q].state = "DEAD" =>
       st.task[q].state = "DEAD" /\ (s2.task[q].on_rq => st.task[q].on_rq)

\* A wakeup, of a task that has left the runqueue or one that has only
\* announced its sleep, ends with the task runnable and queued.
LEMMA WakeUp ==
  ASSUME NEW st, Consistent(st), Quiet(st), NEW p \in Task, Asleep(st.task[p]), NEW e
  PROVE  Woken(st, ttwu_do_wakeup(IF st.task[p].on_rq THEN st ELSE activate_task(st, p), p, e))
<1> DEFINE s1 == IF st.task[p].on_rq THEN st ELSE activate_task(st, p)
           s2 == check_preempt_curr(s1, p, e)
           s3 == [s2 EXCEPT !.task[p].state = "RUNNING"]
<1>1. ~st.task[p].newborn /\ st.task[p].state # "RUNNING" /\ st.task[p].state # "DEAD"
  BY DEF Quiet, NewbornWaits, Asleep
<1>2. Queueing(st, s1, p, TRUE)
  <2>1. CASE st.task[p].on_rq
    BY <2>1 DEF Queueing, Consistent
  <2>2. CASE ~st.task[p].on_rq
    BY <2>2, ActivateTask, ZenonT(40)
  <2> QED BY <2>1, <2>2, ZenonT(40)
<1> HIDE DEF s1
<1>3. Consistent(s2) /\ SameLife(s1, s2)
  BY <1>2, CheckPreemptKeeps, KeepsConsistent DEF Queueing, Consistent
<1> HIDE DEF s2
<1>4. /\ s2.rq.curr = st.rq.curr /\ s2.task[p].on_rq
      /\ \A q \in Task \ {p} : s2.task[q].on_rq = st.task[q].on_rq
      /\ \A q \in Task : s2.task[q].state = st.task[q].state /\ s2.task[q].newborn = st.task[q].newborn
  BY <1>2, <1>3 DEF Queueing, SameLife
<1>5. SleepersCounted(s2)
  <2>1. Sleepers(s2) = Sleepers(s1)
    BY <1>3 DEF SameLife, Sleepers
  <2> QED BY <1>2, <1>3, <2>1 DEF Queueing, SameLife, SleepersCounted, Quiet
<1>6. NewbornWaits(s2)
  BY <1>1, <1>4 DEF Quiet, NewbornWaits
<1>7. \A q \in Task \ {p} : s2.task[q].state = "RUNNING" => s2.task[q].on_rq \/ s2.task[q].newborn
  BY <1>4 DEF Quiet, RunnableQueued
<1>8. /\ Consistent(s3) /\ Quiet(s3) /\ s3.rq.curr = s2.rq.curr
      /\ s3.task[p].state = "RUNNING" /\ s3.task[p].on_rq
      /\ \A q \in Task \ {p} : s3.task[q] = s2.task[q]
  <2>1. ~s2.task[p].newborn
    BY <1>1, <1>4
  <2> QED BY <1>3, <1>4, <1>5, <1>6, <1>7, <2>1, MakeRunning, ZenonT(40)
<1> HIDE DEF s3
<1>9. Woken(st, s3)
  BY <1>4, <1>8 DEF Woken
<1> QED BY <1>9 DEF ttwu_do_wakeup, s3, s2, s1

\* try_to_wake_up_local keeps what LeaveCpu needs.
LEMMA WakeUpLocal ==
  ASSUME NEW st, Consistent(st), Quiet(st), NEW p, NEW e
  PROVE  Woken(st, try_to_wake_up_local(st, p, e))
<1>1. Woken(st, st)
  BY DEF Woken
<1> QED BY <1>1, WakeUp DEF try_to_wake_up_local

\* A non-empty set of naturals has a least member.
LEMMA Least ==
  ASSUME NEW T \in SUBSET Nat, T # {}
  PROVE  \E m \in T : \A n \in T : m =< n
<1> DEFINE R == OpToRel(<, Nat)
<1>1. IsWellFoundedOn(R, Nat)
  BY NatLessThanWellFounded, ZenonT(40)
<1>2. \A m, n \in Nat : n < m => <<n, m>> \in R
  BY DEF OpToRel
<1> HIDE DEF R
<1>3. PICK m \in T : \A n \in T : <<n, m>> \notin R
  BY <1>1, WFMin, ZenonT(40)
<1>4. \A n \in T : ~(n < m)
  BY <1>2, <1>3, ZenonT(40)
<1> QED BY <1>4

\* Priorities are naturals.
LEMMA PrioNat ==
  ASSUME NEW st \in State
  PROVE  \A p \in Task : st.task[p].prio \in Nat
<1> SUFFICES ASSUME NEW p \in Task PROVE st.task[p].prio \in Nat
  OBVIOUS
<1> DEFINE t == st.task[p]
<1>1. t \in TaskRecord
  BY DEF State, TaskType
<1> HIDE DEF t
<1>2. t.prio \in Nat
  BY <1>1 DEF TaskRecord, MAX_PRIO
<1> QED BY <1>2 DEF t

\* The real-time task picked is one of the real-time list.
LEMMA PickRt ==
  ASSUME NEW st \in State, st.rq.rt # <<>>
  PROVE  pick_next_rt_entity(st) \in Members(st.rq.rt)
<1> DEFINE q == st.rq.rt
           Prio(i) == st.task[q[i]].prio
           First(i) == \A j \in DOMAIN q : Prio(i) < Prio(j) \/ (Prio(i) = Prio(j) /\ i =< j)
<1>1. q \in Seq(Task) /\ DOMAIN q = 1 .. Len(q) /\ Len(q) \in Nat /\ 1 \in DOMAIN q
  BY DEF State, RqRecord
<1>2. \A i \in DOMAIN q : Prio(i) \in Nat
  <2>1. \A p \in Task : st.task[p].prio \in Nat
    BY PrioNat
  <2>2. \A i \in DOMAIN q : q[i] \in Task
    BY <1>1
  <2> QED BY <2>1, <2>2, ZenonT(40)
<1> HIDE DEF q, Prio
<1>3. PICK m \in {Prio(i) : i \in DOMAIN q} : \A n \in {Prio(i) : i \in DOMAIN q} : m =< n
  <2>1. {Prio(i) : i \in DOMAIN q} \in SUBSET Nat /\ {Prio(i) : i \in DOMAIN q} # {}
    BY <1>1, <1>2
  <2> QED BY <2>1, Least, ZenonT(40)
<1>4. PICK k \in {i \in DOMAIN q : Prio(i) = m} : \A n \in {i \in DOMAIN q : Prio(i) = m} : k =< n
  <2>1. {i \in DOMAIN q : Prio(i) = m} \in SUBSET Nat /\ {i \in DOMAIN q : Prio(i) = m} # {}
    BY <1>1, <1>3
  <2> QED BY <2>1, Least, ZenonT(40)
<1>5. k \in DOMAIN q /\ First(k)
  <2> SUFFICES ASSUME NEW j \in DOMAIN q PROVE Prio(k) < Prio(j) \/ (Prio(k) = Prio(j) /\ k =< j)
    BY <1>4
  <2>1. Prio(k) = m /\ m \in Nat /\ Prio(j) \in Nat /\ m =< Prio(j)
    BY <1>2, <1>3, <1>4
  <2>2. Prio(j) = m => k =< j
    BY <1>4
  <2> QED BY <2>1, <2>2
<1> HIDE DEF First
<1>6. (CHOOSE i \in DOMAIN q : First(i)) \in DOMAIN q
  BY <1>5
<1>7. pick_next_rt_entity(st) = q[CHOOSE i \in DOMAIN q : First(i)]
  BY DEF pick_next_rt_entity, q, Prio, First
<1> QED BY <1>6, <1>7, ZenonT(40) DEF Members, q

\* pick_next_task returns the idle task or a task with on_rq set.
LEMMA PickNext ==
  ASSUME NEW st, Consistent(st), NEW next \in pick_next_task(st)
  PROVE  next = Idle \/ next \in OnRq(st)
<1> DEFINE S == OnRq(st)
<1>1. st \in State /\ Linked(st, S) /\ st.rq.wrr_nr_running = Len(st.rq.queue)
  BY DEF Consistent, OnLists, Counted
<1> HIDE DEF S
<1>2. Members(st.rq.queue) \subseteq S /\ Members(st.rq.rt) \subseteq S /\ st.rq.fair \subseteq S
  BY <1>1 DEF Linked, OfClass
<1>3. st.rq.rt # <<>> => pick_next_rt_entity(st) \in S
  BY <1>1, <1>2, PickRt
<1>4. st.rq.wrr_nr_running # 0 => Head(st.rq.queue) \in S
  <2>1. st.rq.queue \in Seq(Task)
    BY <1>1 DEF State, RqRecord
  <2>2. ASSUME Len(st.rq.queue) # 0 PROVE Head(st.rq.queue) \in Members(st.rq.queue)
    BY <2>1, <2>2, SMTT(30) DEF Members
  <2> QED BY <1>1, <1>2, <2>2
<1> QED BY <1>2, <1>3, <1>4 DEF pick_next_task, S

\* A dead task that is still queued is the current one on its way out of
\* schedule().
DeadLeaves(st, preempt_active) ==
  \A p \in Task : st.task[p].state = "DEAD" /\ st.task[p].on_rq => p = st.rq.curr /\ ~preempt_active

\* The part of __schedule() that takes a sleeping previous task off the
\* runqueue keeps the invariant, and leaves no dead task on it.
LEMMA LeaveCpuLemma ==
  ASSUME NEW st, Consistent(st), Quiet(st), CurrQueued(st), NEW preempt_active \in BOOLEAN,
         DeadLeaves(st, preempt_active), NEW signal, NEW worker, NEW e, EnvOK(e)
  PROVE  LET s2 == LeaveCpu(st, preempt_active, signal, worker, e)
         IN  Consistent(s2) /\ Quiet(s2) /\ DeadOff(s2) /\ s2.rq.curr = st.rq.curr
<1> DEFINE prev == st.rq.curr
<1>1. prev \in Task \cup {Idle}
  BY SMTT(30) DEF Consistent, State, RqRecord
<1>2. CASE prev = Idle \/ preempt_active
  <2>1. DeadOff(st)
    BY <1>2, TaskAssumption DEF DeadLeaves, DeadOff
  <2> QED BY <1>2, <2>1 DEF LeaveCpu
<1>3. CASE prev \in Task /\ ~preempt_active /\ st.task[prev].state = "RUNNING"
  <2>1. DeadOff(st)
    BY <1>3 DEF DeadLeaves, DeadOff
  <2> QED BY <1>3, <2>1, TaskAssumption DEF LeaveCpu
<1>4. CASE prev \in Task /\ ~preempt_active /\ st.task[prev].state = "INTERRUPTIBLE" /\ signal
  <2> DEFINE s2 == [st EXCEPT !.task[prev].state = "RUNNING"]
  <2>1. s2 = LeaveCpu(st, preempt_active, signal, worker, e)
    BY <1>4, TaskAssumption DEF LeaveCpu
  <2>2. st.task[prev].on_rq /\ ~st.task[prev].newborn
    BY <1>4 DEF CurrQueued, Quiet, NewbornWaits
  <2>3. /\ Consistent(s2) /\ Quiet(s2) /\ s2.rq.curr = st.rq.curr
        /\ s2.task[prev].state = "RUNNING"
        /\ \A q \in Task \ {prev} : s2.task[q] = st.task[q]
    BY <1>4, <2>2, MakeRunning, ZenonT(30) DEF Quiet, RunnableQueued
  <2> HIDE DEF s2
  <2>4. DeadOff(s2)
    BY <2>3 DEF DeadLeaves, DeadOff
  <2> QED BY <2>1, <2>3, <2>4
<1>5. CASE /\ prev \in Task /\ ~preempt_active /\ st.task[prev].state # "RUNNING"
           /\ ~(st.task[prev].state = "INTERRUPTIBLE" /\ signal)
  <2> DEFINE s1 == deactivate_task(st, prev, e)
             s2 == try_to_wake_up_local(s1, worker, e)
  <2>1. LeaveCpu(st, preempt_active, signal, worker, e) = IF prev \in Worker THEN s2 ELSE s1
    BY <1>5, TaskAssumption DEF LeaveCpu
  <2>2. Queueing(st, s1, prev, FALSE)
    <3>1. prev \in OnRq(st)
      BY <1>5 DEF CurrQueued, OnRq
    <3> QED BY <3>1, DeactivateTask, ZenonT(40)
  <2> HIDE DEF s1
  <2>3. Consistent(s1) /\ s1.rq.curr = st.rq.curr
    BY <2>2, SMTT(30) DEF Queueing
  <2>4. Quiet(s1)
    BY <1>5, <2>2 DEF Quiet, NewbornWaits, RunnableQueued, Queueing
  <2>5. DeadOff(s1)
    BY <1>5, <2>2 DEF DeadOff, DeadLeaves, Queueing
  <2>6. Woken(s1, s2)
    BY <2>3, <2>4, WakeUpLocal
  <2> HIDE DEF s2
  <2>7. Consistent(s2) /\ Quiet(s2) /\ DeadOff(s2) /\ s2.rq.curr = st.rq.curr
    BY <2>3, <2>5, <2>6 DEF Woken, DeadOff
  <2> QED BY <2>1, <2>3, <2>4, <2>5, <2>7
<1> QED BY <1>1, <1>2, <1>3, <1>4, <1>5

\* The tasks of the boot have fields that agree.
LEMMA BootTaskType == \A alive \in BOOLEAN : BootTask(alive) \in TaskType
<1> SUFFICES ASSUME NEW alive \in BOOLEAN PROVE BootTask(alive) \in TaskType
  OBVIOUS
<1>1. BootTask(alive) \in TaskRecord
  BY GroupAssumption, PrioAssumption, SliceAssumption DEF BootTask, TaskRecord, MAX_PRIO
<1>2. TaskOK(BootTask(alive))
  BY DEF BootTask, TaskOK, normal_prio, rt_prio, MAX_RT_PRIO, MAX_PRIO, RtPolicy
<1> QED BY <1>1, <1>2 DEF TaskType

\* Writing rq->curr and clearing the reschedule flag touch nothing else.
LEMMA SetCurr ==
  ASSUME NEW st \in State, NEW next \in Task \cup {Idle}
  PROVE  LET s2 == [st EXCEPT !.rq.curr = next, !.rq.need_resched = FALSE]
         IN  /\ s2 \in State /\ SameLists(st, s2) /\ s2.task = st.task /\ s2.rq.curr = next
             /\ s2.rq.nr_uninterruptible = st.rq.nr_uninterruptible
<1> DEFINE s2 == [st EXCEPT !.rq.curr = next, !.rq.need_resched = FALSE]
<1>1. s2 \in State
  BY ZenonT(40) DEF State, RqRecord
<1>2. s2.task = st.task /\ s2.rq.curr = next /\ SameLists(st, s2)
  BY ZenonT(40) DEF State, RqRecord, SameLists
<1>3. s2.rq.nr_uninterruptible = st.rq.nr_uninterruptible
  BY ZenonT(40) DEF State, RqRecord
<1> QED BY <1>1, <1>2, <1>3

\* Switching to a queued task or to idle ends in Inv.
LEMMA SwitchToInv ==
  ASSUME NEW st, Consistent(st), Quiet(st), DeadOff(st), NEW next,
         next = Idle \/ next \in OnRq(st)
  PROVE  Inv(SwitchTo(st, next))
<1> DEFINE s1 == Started(st, next)
           s2 == [s1 EXCEPT !.rq.curr = next, !.rq.need_resched = FALSE]
           prev == st.rq.curr
           s3 == [s2 EXCEPT !.task[prev] = BootTask(FALSE)]
<1>1. Consistent(s1) /\ SameLife(st, s1)
  <2>1. next # Idle => next \in Task
    BY DEF OnRq
  <2>2. st \in State /\ st.rq.clock_task \in Nat
    BY DEF Consistent, State, RqRecord
  <2>3. Keeps(st, s1)
    BY <2>1, <2>2, ReaccountKeeps, KeepsRefl, ZenonT(40) DEF Started
  <2> QED BY <2>3, KeepsConsistent
<1>2. Quiet(s1) /\ DeadOff(s1) /\ OnRq(s1) = OnRq(st)
  BY <1>1, SameLifeQuiet, SameLifeOnRq
<1> HIDE DEF s1
<1>3. /\ s2 \in State /\ SameLists(s1, s2) /\ s2.task = s1.task /\ s2.rq.curr = next
      /\ s2.rq.nr_uninterruptible = s1.rq.nr_uninterruptible
  <2>1. next \in Task \cup {Idle}
    BY DEF OnRq
  <2> QED BY <1>1, <2>1, SetCurr, ZenonT(40) DEF Consistent
<1> HIDE DEF s2
<1>4. Inv(s2)
  <2>1. OnRq(s2) = OnRq(s1) /\ OnRq(s1) \in SUBSET Task /\ Sleepers(s2) = Sleepers(s1)
    BY <1>3 DEF OnRq, Sleepers
  <2>2. Consistent(s2)
    BY <1>1, <1>3, <2>1, SameListsOnLists, SMTT(30) DEF Consistent
  <2>3. Quiet(s2) /\ DeadOff(s2)
    BY <1>2, <1>3, <2>1 DEF Quiet, NewbornWaits, RunnableQueued, SleepersCounted, DeadOff
  <2>4. CurrQueued(s2)
    <3>1. next \in Task => next \in OnRq(s2)
      BY <1>2, <2>1, TaskAssumption
    <3> QED BY <1>3, <3>1 DEF CurrQueued, OnRq
  <2> QED BY <2>2, <2>3, <2>4 DEF Inv
<1>5. ASSUME prev # Idle, s2.task[prev].state = "DEAD"
      PROVE  Inv(s3)
  <2>1. prev \in Task
    BY <1>5 DEF Consistent, State, RqRecord
  <2>2. ~s2.task[prev].on_rq
    BY <1>4, <1>5, <2>1 DEF Inv, DeadOff
  <2> DEFINE t == BootTask(FALSE)
  <2>3. t \in TaskType /\ t.state = "DEAD" /\ ~t.on_rq /\ ~t.newborn
    BY BootTaskType, ZenonT(40) DEF BootTask
  <2> HIDE DEF t
  <2>4. /\ s3 \in State /\ s3.rq = s2.rq /\ s3.task[prev] = t
        /\ \A q \in Task \ {prev} : s3.task[q] = s2.task[q]
    <3>1. s3 = [s2 EXCEPT !.task[prev] = t] /\ s2 \in State
      BY <1>3 DEF t
    <3> HIDE DEF s3, prev
    <3> QED BY <2>1, <2>3, <3>1 DEF State
  <2>5. OnLists(s3, OnRq(s2))
    <3>1. OnRq(s2) \in SUBSET Task /\ prev \in Task \ OnRq(s2)
      BY <2>1, <2>2, SMTT(30) DEF OnRq
    <3> QED BY <1>3, <1>4, <2>3, <3>1, ChangeTask, ZenonT(40) DEF Inv, Consistent, t
  <2> HIDE DEF s3
  <2>6. OnRq(s3) = OnRq(s2) /\ Sleepers(s3) = Sleepers(s2)
    BY <1>5, <2>2, <2>3, <2>4 DEF OnRq, Sleepers
  <2>7. Consistent(s3)
    BY <2>4, <2>5, <2>6, SMTT(30) DEF Consistent
  <2>8. Quiet(s3) /\ DeadOff(s3)
    BY <1>4, <2>3, <2>4, <2>6
       DEF Inv, Quiet, NewbornWaits, RunnableQueued, SleepersCounted, DeadOff
  <2>9. CurrQueued(s3)
    BY <1>4, <2>2, <2>4 DEF Inv, CurrQueued
  <2> QED BY <2>7, <2>8, <2>9 DEF Inv
<1> QED BY <1>4, <1>5 DEF SwitchTo, finish_task_switch, s1, s2, s3

\* __schedule() as a whole ends in Inv.
LEMMA ScheduleInv ==
  ASSUME NEW st, Consistent(st), Quiet(st), CurrQueued(st), NEW preempt_active \in BOOLEAN,
         DeadLeaves(st, preempt_active), NEW signal, NEW worker, NEW e, EnvOK(e),
         NEW next \in pick_next_task(put_prev_task(LeaveCpu(st, preempt_active, signal, worker, e), e))
  PROVE  Inv(SwitchTo(put_prev_task(LeaveCpu(st, preempt_active, signal, worker, e), e), next))
<1> DEFINE s1 == LeaveCpu(st, preempt_active, signal, worker, e)
           s2 == put_prev_task(s1, e)
<1>1. Consistent(s1) /\ Quiet(s1) /\ DeadOff(s1)
  BY LeaveCpuLemma
<1> HIDE DEF s1
<1>2. Keeps(s1, s2)
  BY <1>1, PutPrevKeeps DEF Consistent
<1>3. Consistent(s2) /\ SameLife(s1, s2)
  BY <1>1, <1>2, KeepsConsistent
<1>4. Quiet(s2) /\ DeadOff(s2)
  BY <1>1, <1>3, SameLifeQuiet
<1>5. next \in pick_next_task(s2)
  BY DEF s1
<1> HIDE DEF s2
<1>6. next = Idle \/ next \in OnRq(s2)
  BY <1>3, <1>5, PickNext
<1> QED BY <1>3, <1>4, <1>6, SwitchToInv DEF s2, s1

-----------------------------------------------------------------------------
\* An action whose result satisfies Inv preserves it.
LEMMA BecomeInv ==
  ASSUME NEW s2, Inv(s2), Become(s2)
  PROVE  Inv(St)'
<1>1. s2 = [task |-> s2.task, rq |-> s2.rq]
  BY DEF Inv, Consistent, State
<1>2. St' = s2
  BY <1>1 DEF St, Become
<1> QED BY <1>2

\* What Inv says of the current state, in the form the lemmas need.
LEMMA StFacts ==
  ASSUME Inv(St)
  PROVE  /\ St \in State /\ St.task = task /\ St.rq = rq /\ Consistent(St)
         /\ InTask => Curr \in OnRq(St) /\ Curr \in Task
         /\ OnLists(St, OnRq(St)) /\ OnRq(St) \in SUBSET Task
         /\ \A e \in Env : EnvOK(e)
<1>1. St.task = task /\ St.rq = rq /\ St \in State /\ Consistent(St)
  BY DEF St, Inv, Consistent
<1>2. InTask => Curr \in OnRq(St) /\ Curr \in Task
  BY <1>1 DEF InTask, Curr, OnRq, Inv, CurrQueued
<1>3. \A e \in Env : EnvOK(e)
  BY ZenonT(40) DEF Env, EnvOK
<1> QED BY <1>1, <1>2, <1>3 DEF Inv, Consistent, OnRq

\* An action that keeps the lists preserves Inv.
LEMMA KeepsInv ==
  ASSUME Inv(St), NEW s2, Keeps(St, s2), Become(s2)
  PROVE  Inv(St)'
BY KeepsConsistent, SameLifeInv, BecomeInv DEF Inv

\* A step that keeps lives and tasks on the lists preserves Inv.
LEMMA WentInv ==
  ASSUME NEW st, Inv(st), NEW s2, Went(st, s2, OnRq(st))
  PROVE  Inv(s2)
<1>1. SameLife(st, s2)
  BY SameTasksSameLife DEF Went
<1>2. OnRq(s2) = OnRq(st)
  BY <1>1, SameLifeOnRq
<1>3. Consistent(s2)
  BY <1>2 DEF Went, Consistent
<1> QED BY <1>1, <1>3, SameLifeInv

\* task_tick_wrr keeps the tasks on the lists, whether the slice runs out or
\* not.
LEMMA TickWrr ==
  ASSUME NEW st, Inv(st), NEW p \in OnRq(st), st.task[p].class = "wrr"
  PROVE  Went(st, task_tick_wrr(st, p), OnRq(st))
<1> DEFINE S    == OnRq(st)
           s1   == update_curr_wrr(st)
           left == DecSlice(st.task[p].time_slice)
           u    == s1.task[p]
<1>0. S \in SUBSET Task /\ p \in S /\ p \in Task /\ st \in State /\ OnLists(st, S)
  BY DEF Inv, Consistent, OnRq
<1>1. Keeps(st, s1)
  BY <1>0, UpdateCurrKeeps, SMTT(30)
<1>2. s1 \in State /\ OnLists(s1, S) /\ s1.task[p].class = "wrr" /\ s1.task[p].weight = st.task[p].weight
  BY <1>0, <1>1, SameListsOnLists, SMTT(30) DEF Keeps, SameLists
<1>3. st.task[p].weight \in {1, 10} /\ st.task[p].time_slice \in 1 .. weight_slice(st.task[p].weight)
  <2>1. st.task[p].weight \in {1, 10}
    BY <1>0 DEF OnLists, Weighed, OfClass, group_weight
  <2>2. TaskOK(st.task[p])
    BY <1>0 DEF State, TaskType
  <2> QED BY <2>1, <2>2 DEF TaskOK
<1> HIDE DEF S, s1
<1>4. ASSUME NEW n \in 1 .. weight_slice(st.task[p].weight)
      PROVE  Keeps(s1, [s1 EXCEPT !.task[p].time_slice = n])
  <2> DEFINE t == [u EXCEPT !.time_slice = n]
  <2>1. n \in 0 .. UINT_RANGE - 1 /\ u \in TaskType
    BY <1>0, <1>2, <1>3, SliceAssumption DEF State, weight_slice
  <2>2. t \in TaskRecord
    BY <2>1, SMTT(30) DEF TaskType, TaskRecord
  <2>3. TaskOK(t)
    BY <1>2, <2>1 DEF TaskType, TaskRecord, TaskOK, normal_prio
  <2>4. /\ t.state = u.state /\ t.on_rq = u.on_rq /\ t.newborn = u.newborn /\ t.class = u.class
        /\ t.policy = u.policy /\ t.weight = u.weight /\ t.group = u.group
    BY <2>1 DEF TaskType, TaskRecord
  <2> HIDE DEF t
  <2> DEFINE s2 == [s1 EXCEPT !.task[p] = t]
  <2>5. /\ s2 \in State /\ s2.rq = s1.rq /\ s2.task[p] = t
        /\ \A q \in Task \ {p} : s2.task[q] = s1.task[q]
    BY <1>0, <1>2, <2>2, <2>3, PutTask, SMTT(30) DEF TaskType
  <2> HIDE DEF s2
  <2>6. Keeps(s1, s2)
    BY <2>4, <2>5 DEF Keeps, SameLists, SameTasks
  <2> QED BY <2>6 DEF s2, t
<1>5. left = st.task[p].time_slice - 1 /\ (left # 0 => left \in 1 .. weight_slice(st.task[p].weight))
  BY <1>3, SliceAssumption DEF DecSlice, weight_slice
<1>6. weight_slice(st.task[p].weight) \in 1 .. weight_slice(st.task[p].weight)
  BY SliceAssumption DEF weight_slice
<1> DEFINE full == [s1 EXCEPT !.task[p].time_slice = weight_slice(st.task[p].weight)]
           part == [s1 EXCEPT !.task[p].time_slice = left]
<1>7. task_tick_wrr(st, p) = IF left # 0 THEN part
                             ELSE IF Len(st.rq.queue) > 1 THEN resched_task(requeue_task_wrr(full, p))
                             ELSE full
  BY DEF task_tick_wrr, s1
<1>8. left # 0 => Keeps(s1, part)
  BY <1>4, <1>5
<1>9. Keeps(s1, full)
  BY <1>4, <1>6
<1> HIDE DEF left, full, part, u
<1>10. Went(st, full, S) /\ (left # 0 => Went(st, part, S))
  <2>1. Went(st, s1, S)
    BY <1>1, <1>2 DEF Went, Keeps
  <2> QED BY <1>0, <1>8, <1>9, <2>1, KeepsWent
<1>11. Went(st, resched_task(requeue_task_wrr(full, p)), S)
  <2> DEFINE r == requeue_task_wrr(full, p)
  <2>1. full.task[p].class = "wrr"
    BY <1>0, <1>2, <1>9 DEF Keeps, SameLists
  <2>2. Went(full, r, S)
    BY <1>0, <1>10, <2>1, Requeue, SMTT(30) DEF Went
  <2>3. Went(st, r, S)
    BY <1>10, <2>2, SameTasksTrans DEF Went
  <2> HIDE DEF r
  <2>4. Keeps(r, resched_task(r))
    BY <2>3, ReschedKeeps, SMTT(30) DEF Went
  <2>5. Went(st, resched_task(r), S)
    BY <1>0, <2>3, <2>4, KeepsWent
  <2> QED BY <2>5 DEF r
<1>12. Went(st, task_tick_wrr(st, p), S)
  BY <1>7, <1>10, <1>11
<1> QED BY <1>12 DEF S

\* So does task_tick_rt.
LEMMA TickRt ==
  ASSUME NEW st, Inv(st), NEW p \in OnRq(st), st.task[p].class = "rt", NEW e, EnvOK(e)
  PROVE  Went(st, task_tick_rt(st, p, e), OnRq(st))
<1> DEFINE S  == OnRq(st)
           s1 == update_curr_rt(st, e)
           r  == requeue_task_rt(s1, p)
<1>0. S \in SUBSET Task /\ p \in S /\ p \in Task /\ st \in State /\ OnLists(st, S)
  BY DEF Inv, Consistent, OnRq
<1> HIDE DEF S
<1>1. Keeps(st, s1)
  BY <1>0, UpdateCurrRtKeeps
<1>2. s1 \in State /\ OnLists(s1, S) /\ s1.task[p].class = "rt"
  <2> HIDE DEF s1
  <2>1. s1 \in State /\ SameLists(st, s1)
    BY <1>1, ZenonT(40) DEF Keeps
  <2>2. OnLists(s1, S)
    BY <1>0, <2>1, SameListsOnLists, ZenonT(40)
  <2>3. s1.task[p].class = st.task[p].class
    BY <1>0, <2>1, ZenonT(40) DEF SameLists
  <2> QED BY <2>1, <2>2, <2>3, ZenonT(40)
<1>3. task_tick_rt(st, p, e) = resched_task(r) \/ task_tick_rt(st, p, e) = s1
  BY DEF task_tick_rt
<1> HIDE DEF s1
<1>4. Went(st, s1, S)
  BY <1>1, <1>2 DEF Went, Keeps
<1>5. Went(st, r, S)
  <2>1. Went(s1, r, S)
    BY <1>0, <1>2, Requeue
  <2> QED BY <1>4, <2>1, SameTasksTrans DEF Went
<1> HIDE DEF r
<1>6. Went(st, resched_task(r), S)
  <2>1. Keeps(r, resched_task(r))
    BY <1>5, ReschedKeeps DEF Went
  <2> QED BY <1>0, <1>5, <2>1, KeepsWent
<1>7. Went(st, task_tick_rt(st, p, e), S)
  BY <1>3, <1>4, <1>6
<1> QED BY <1>7 DEF S
=============================================================================
