---------------------------- MODULE SchedLists -----------------------------
(***************************************************************************)
(* Lemmas about the scheduler's building blocks: the list operations, the  *)
(* fields of a task that the system calls compute, the class callbacks     *)
(* and the dispatching enqueue_task and dequeue_task, each as a function   *)
(* from a scheduler state to the next.  The invariant they keep,           *)
(* OnLists(st, S), has the set S of queued tasks as a parameter: inside an *)
(* entry point, between dequeue_task and enqueue_task, S is not the set of *)
(* tasks whose on_rq is set.                                               *)
(***************************************************************************)
EXTENDS Sched, TLAPS, FiniteSetTheorems

\* No task is linked twice into the list q.
Distinct(q) == \A i, j \in DOMAIN q : q[i] = q[j] => i = j

\* list_del takes exactly the given entry out of a list without duplicates.
LEMMA ListDel ==
  ASSUME NEW q \in Seq(Task), NEW p \in Members(q), Distinct(q)
  PROVE  /\ list_del(q, p) \in Seq(Task)
         /\ Len(list_del(q, p)) = Len(q) - 1
         /\ Members(list_del(q, p)) = Members(q) \ {p}
         /\ Distinct(list_del(q, p))
<1> DEFINE k == Position(q, p)
           d == list_del(q, p)
<1>1. k \in 1 .. Len(q) /\ q[k] = p
  BY DEF Members, Position
<1>2. \A i \in 1 .. Len(q) : q[i] = p => i = k
  BY <1>1 DEF Distinct
<1>3. d = [i \in 1 .. Len(q) - 1 |-> IF i < k THEN q[i] ELSE q[i + 1]]
  BY DEF list_del
<1> HIDE DEF k
<1>4. d \in Seq(Task) /\ Len(d) = Len(q) - 1
  BY <1>1, <1>3
<1>5. Members(d) = Members(q) \ {p}
  <2>1. ASSUME NEW i \in DOMAIN d PROVE d[i] \in Members(q) \ {p}
    BY <1>1, <1>2, <1>3, <1>4 DEF Members
  <2>2. ASSUME NEW i \in DOMAIN q, q[i] # p PROVE q[i] \in Members(d)
    <3>1. CASE i < k
      BY <3>1, <1>1, <1>3, <1>4, <2>2 DEF Members
    <3>2. CASE i > k
      <4>1. i - 1 \in DOMAIN d /\ d[i - 1] = q[i]
        BY <3>2, <1>1, <1>3, <1>4
      <4> QED BY <4>1 DEF Members
    <3> QED BY <3>1, <3>2, <1>1, <2>2
  <2> QED BY <2>1, <2>2 DEF Members
<1>6. Distinct(d)
  <2> SUFFICES ASSUME NEW i \in DOMAIN d, NEW j \in DOMAIN d, d[i] = d[j] PROVE i = j
    BY DEF Distinct
  <2> QED BY <1>1, <1>3, <1>4 DEF Distinct
<1> QED BY <1>4, <1>5, <1>6

\* list_add_tail adds exactly the given entry and links nothing twice.
LEMMA ListAddTail ==
  ASSUME NEW q \in Seq(Task), NEW p \in Task, p \notin Members(q), Distinct(q)
  PROVE  /\ list_add_tail(q, p) \in Seq(Task)
         /\ Len(list_add_tail(q, p)) = Len(q) + 1
         /\ Members(list_add_tail(q, p)) = Members(q) \cup {p}
         /\ Distinct(list_add_tail(q, p))
<1> DEFINE a == list_add_tail(q, p)
<1>1. a \in Seq(Task) /\ Len(a) = Len(q) + 1
  BY DEF list_add_tail
<1>2. \A i \in 1 .. Len(q) : a[i] = q[i]
  BY DEF list_add_tail
<1>3. a[Len(q) + 1] = p
  BY DEF list_add_tail
<1> HIDE DEF a
<1>4. DOMAIN a = 1 .. Len(q) + 1 /\ DOMAIN q = 1 .. Len(q) /\ Len(q) \in Nat
  BY <1>1
<1>5. Members(a) = Members(q) \cup {p}
  <2>1. ASSUME NEW i \in DOMAIN a PROVE a[i] \in Members(q) \cup {p}
    BY <1>2, <1>3, <1>4 DEF Members
  <2>2. ASSUME NEW i \in DOMAIN q PROVE q[i] \in Members(a)
    BY <1>2, <1>4 DEF Members
  <2>3. p \in Members(a)
    BY <1>3, <1>4 DEF Members
  <2> QED BY <2>1, <2>2, <2>3 DEF Members
<1>6. Distinct(a)
  BY <1>2, <1>3, <1>4 DEF Distinct, Members
<1> QED BY <1>1, <1>5, <1>6 DEF a

\* list_add adds exactly the given entry and links nothing twice.
LEMMA ListAdd ==
  ASSUME NEW q \in Seq(Task), NEW p \in Task, p \notin Members(q), Distinct(q)
  PROVE  /\ list_add(q, p) \in Seq(Task)
         /\ Len(list_add(q, p)) = Len(q) + 1
         /\ Members(list_add(q, p)) = Members(q) \cup {p}
         /\ Distinct(list_add(q, p))
<1> DEFINE a == list_add(q, p)
<1>1. a \in Seq(Task) /\ Len(a) = Len(q) + 1
  BY DEF list_add
<1>2. \A i \in 2 .. Len(q) + 1 : a[i] = q[i - 1]
  BY DEF list_add
<1>3. a[1] = p
  BY DEF list_add
<1> HIDE DEF a
<1>4. DOMAIN a = 1 .. Len(q) + 1 /\ DOMAIN q = 1 .. Len(q) /\ Len(q) \in Nat
  BY <1>1
<1>5. Members(a) = Members(q) \cup {p}
  <2>1. ASSUME NEW i \in DOMAIN a PROVE a[i] \in Members(q) \cup {p}
    BY <1>2, <1>3, <1>4 DEF Members
  <2>2. ASSUME NEW i \in DOMAIN q PROVE q[i] \in Members(a)
    <3>1. i + 1 \in DOMAIN a /\ a[i + 1] = q[i]
      BY <1>2, <1>4
    <3> QED BY <3>1 DEF Members
  <2>3. p \in Members(a)
    BY <1>3, <1>4 DEF Members
  <2> QED BY <2>1, <2>2, <2>3 DEF Members
<1>6. Distinct(a)
  BY <1>2, <1>3, <1>4 DEF Distinct, Members
<1> QED BY <1>1, <1>5, <1>6 DEF a

\* The scheduling fields of one task agree with each other: its class with
\* its policy and priority (ClassAgrees), normal_prio with what normal_prio()
\* computes, and a slice that has been given is between one tick and the full
\* slice of the weight.
TaskOK(t) ==
  /\ t.class = "wrr" => t.policy = "WRR"
  /\ t.class = "rt" => rt_prio(t.prio)
  /\ t.class = "fair" => ~rt_prio(t.prio)
  /\ t.policy \in RtPolicy => t.class = "rt"
  /\ t.normal_prio = normal_prio(t)
  /\ t.weight # 0 => t.time_slice \in 1 .. weight_slice(t.weight)

TaskType == {t \in TaskRecord : TaskOK(t)}

-----------------------------------------------------------------------------
\* From u to t the task keeps its state, on_rq and newborn mark.
SameRun(u, t) == t.on_rq = u.on_rq /\ t.state = u.state /\ t.newborn = u.newborn

\* normal_prio() returns a real-time priority exactly for the real-time
\* policies.
LEMMA NormalPrioRange ==
  ASSUME NEW t \in TaskRecord
  PROVE  /\ normal_prio(t) \in 0 .. MAX_PRIO - 1
         /\ rt_prio(normal_prio(t)) <=> t.policy \in RtPolicy
<1>1. t.static_prio \in MAX_RT_PRIO .. MAX_PRIO - 1 /\ t.rt_priority \in 0 .. MAX_RT_PRIO - 1
  <2> DEFINE r == t.rt_priority
  <2>1. t.static_prio \in StaticPrio /\ r \in RtPriority \cup {0}
    BY DEF TaskRecord
  <2>2. StaticPrio \subseteq MAX_RT_PRIO .. MAX_PRIO - 1 /\ RtPriority \subseteq 1 .. MAX_RT_PRIO - 1
    BY PrioAssumption
  <2> HIDE DEF r
  <2>3. r \in 0 .. MAX_RT_PRIO - 1
    <3>1. CASE r = 0
      BY <3>1 DEF MAX_RT_PRIO
    <3>2. CASE r \in RtPriority
      <4>1. r \in 1 .. MAX_RT_PRIO - 1
        BY <2>2, <3>2
      <4> QED BY <4>1 DEF MAX_RT_PRIO
    <3> QED BY <2>1, <3>1, <3>2
  <2> QED BY <2>1, <2>2, <2>3, ZenonT(40) DEF r
<1> QED BY <1>1 DEF normal_prio, rt_prio, MAX_RT_PRIO, MAX_PRIO

\* rt_mutex_getprio() never returns a priority worse than normal_prio.
LEMMA GetPrioRange ==
  ASSUME NEW t \in TaskRecord
  PROVE  /\ rt_mutex_getprio(t) \in 0 .. MAX_PRIO - 1
         /\ rt_mutex_getprio(t) =< t.normal_prio
<1> DEFINE w == t.waiter
           n == t.normal_prio
<1>1. w \in WaiterPrio \cup {MAX_PRIO} /\ n \in 0 .. MAX_PRIO - 1
  BY DEF TaskRecord
<1>2. WaiterPrio \subseteq 0 .. MAX_PRIO - 1
  BY PrioAssumption
<1>3. rt_mutex_getprio(t) = IF w < n THEN w ELSE n
  BY DEF rt_mutex_getprio
<1> HIDE DEF w, n
<1>4. w \in 0 .. MAX_PRIO
  BY <1>1, <1>2 DEF MAX_PRIO
<1>5. w < n => w \in 0 .. MAX_PRIO - 1
  BY <1>1, <1>4 DEF MAX_PRIO
<1>6. w \in Int /\ n \in Int
  BY <1>1, <1>4 DEF MAX_PRIO
<1> QED BY <1>1, <1>3, <1>5, <1>6 DEF n

\* __setscheduler leaves class, policy and priority in agreement.
LEMMA SetSchedulerType ==
  ASSUME NEW v \in TaskType, NEW reset \in BOOLEAN, NEW policy \in Policy,
         NEW priority \in RtPriority \cup {0}
  PROVE  LET t == __setscheduler([v EXCEPT !.reset_on_fork = reset], policy, priority)
         IN  t \in TaskType /\ SameRun(v, t)
<1> DEFINE u  == [v EXCEPT !.reset_on_fork = reset]
           t1 == [u EXCEPT !.policy = policy, !.rt_priority = priority]
           n  == normal_prio(t1)
           t2 == [t1 EXCEPT !.normal_prio = n]
           q  == rt_mutex_getprio(t2)
           t3 == [t2 EXCEPT !.prio = q]
           c  == IF policy = "WRR" THEN "wrr" ELSE IF rt_prio(t3.prio) THEN "rt" ELSE "fair"
           t  == [t3 EXCEPT !.class = c]
<1>0. t = __setscheduler(u, policy, priority)
  BY ZenonT(40) DEF __setscheduler
<1>1. u \in TaskRecord /\ SameRun(v, u) /\ u.weight = v.weight /\ u.time_slice = v.time_slice
  BY DEF TaskType, TaskRecord, SameRun
<1> HIDE DEF u
<1>2. policy \in {"NORMAL", "WRR"} \cup RtPolicy
  BY PrioAssumption
<1>3. t1 \in TaskRecord
  BY <1>1, <1>2, ZenonT(40) DEF TaskRecord
<1>4. /\ SameRun(u, t1) /\ t1.weight = u.weight /\ t1.time_slice = u.time_slice
      /\ t1.policy = policy /\ t1.rt_priority = priority /\ t1.static_prio = u.static_prio
  BY <1>1, ZenonT(40) DEF TaskRecord, SameRun
<1> HIDE DEF t1
<1>5. n \in 0 .. MAX_PRIO - 1 /\ (rt_prio(n) <=> policy \in RtPolicy)
  BY <1>3, <1>4, NormalPrioRange
<1>n. n = normal_prio(t1)
  OBVIOUS
<1> HIDE DEF n
<1>6. /\ t2 \in TaskRecord /\ SameRun(t1, t2) /\ t2.weight = t1.weight
      /\ t2.time_slice = t1.time_slice /\ t2.policy = t1.policy
      /\ t2.rt_priority = t1.rt_priority /\ t2.static_prio = t1.static_prio /\ t2.normal_prio = n
  BY <1>3, <1>5 DEF TaskRecord, SameRun
<1> HIDE DEF t2
<1>7. q \in 0 .. MAX_PRIO - 1 /\ q =< n
  BY <1>6, GetPrioRange
<1> HIDE DEF q
<1>8. /\ t3 \in TaskRecord /\ SameRun(t2, t3) /\ t3.weight = t2.weight
      /\ t3.time_slice = t2.time_slice /\ t3.policy = t2.policy /\ t3.rt_priority = t2.rt_priority
      /\ t3.static_prio = t2.static_prio /\ t3.normal_prio = n /\ t3.prio = q
  BY <1>6, <1>7 DEF TaskRecord, SameRun
<1>9. c \in {"wrr", "rt", "fair"} /\ c = IF policy = "WRR" THEN "wrr" ELSE IF rt_prio(q) THEN "rt" ELSE "fair"
  BY <1>8
<1> HIDE DEF t3, c
<1>10. /\ t \in TaskRecord /\ SameRun(t3, t) /\ t.weight = t3.weight
       /\ t.time_slice = t3.time_slice /\ t.policy = t3.policy /\ t.rt_priority = t3.rt_priority
       /\ t.static_prio = t3.static_prio /\ t.normal_prio = n /\ t.prio = q /\ t.class = c
  BY <1>8, <1>9 DEF TaskRecord, SameRun
<1> HIDE DEF t
<1>11. TaskOK(t)
  <2>1. normal_prio(t) = n
    BY <1>n, <1>4, <1>6, <1>8, <1>10 DEF normal_prio
  <2>2. t.weight # 0 => t.time_slice \in 1 .. weight_slice(t.weight)
    BY <1>1, <1>4, <1>6, <1>8, <1>10 DEF TaskType, TaskOK
  <2>3. t.policy = policy
    BY <1>4, <1>6, <1>8, <1>10
  <2>4. rt_prio(n) => rt_prio(q)
    BY <1>5, <1>7 DEF rt_prio, MAX_RT_PRIO, MAX_PRIO
  <2>5. policy \in RtPolicy => c = "rt"
    BY <1>5, <1>9, <2>4 DEF RtPolicy
  <2> QED BY <1>9, <1>10, <2>1, <2>2, <2>3, <2>5 DEF TaskOK
<1>12. SameRun(v, t)
  BY <1>1, <1>4, <1>6, <1>8, <1>10 DEF SameRun
<1> QED BY <1>0, <1>10, <1>11, <1>12 DEF TaskType, u

\* A nice change leaves class, policy and priority in agreement.
LEMMA SetNiceType ==
  ASSUME NEW v \in TaskType, NEW prio \in StaticPrio
  PROVE  /\ LET t == WithEffectivePrio([v EXCEPT !.static_prio = prio])
             IN  t \in TaskType /\ SameRun(v, t)
         /\ v.policy \in RtPolicy => [v EXCEPT !.static_prio = prio] \in TaskType
<1> DEFINE u == [v EXCEPT !.static_prio = prio]
           n == normal_prio(u)
           q == IF rt_prio(u.prio) THEN u.prio ELSE n
           t == [u EXCEPT !.normal_prio = n, !.prio = q]
<1>0. t = WithEffectivePrio(u)
  BY DEF WithEffectivePrio
<1>1. /\ u \in TaskRecord /\ SameRun(v, u) /\ u.weight = v.weight /\ u.time_slice = v.time_slice
      /\ u.policy = v.policy /\ u.rt_priority = v.rt_priority /\ u.prio = v.prio
      /\ u.class = v.class /\ u.normal_prio = v.normal_prio
  BY DEF TaskType, TaskRecord, SameRun
<1>2. v.policy \in RtPolicy => u \in TaskType
  BY <1>1, ZenonT(40) DEF TaskType, TaskOK, normal_prio
<1>p. u.static_prio = prio
  BY DEF TaskType, TaskRecord
<1> HIDE DEF u
<1>3. n \in 0 .. MAX_PRIO - 1 /\ (rt_prio(n) <=> v.policy \in RtPolicy)
  BY <1>1, NormalPrioRange
<1>4. q \in 0 .. MAX_PRIO - 1
  BY <1>1, <1>3 DEF TaskRecord
<1>n. n = normal_prio(u) /\ q = IF rt_prio(v.prio) THEN v.prio ELSE n
  BY <1>1
<1> HIDE DEF n, q
<1>5. t \in TaskRecord
  BY <1>1, <1>3, <1>4, ZenonT(40) DEF TaskRecord
<1>6. /\ SameRun(u, t) /\ t.weight = u.weight /\ t.time_slice = u.time_slice
      /\ t.policy = u.policy /\ t.rt_priority = u.rt_priority /\ t.class = u.class
      /\ t.static_prio = u.static_prio /\ t.normal_prio = n /\ t.prio = q
  BY <1>1, ZenonT(40) DEF TaskRecord, SameRun
<1> HIDE DEF t
<1>7. TaskOK(t)
  <2>1. normal_prio(t) = n
    BY <1>n, <1>6 DEF normal_prio
  <2>2. t.weight # 0 => t.time_slice \in 1 .. weight_slice(t.weight)
    BY <1>1, <1>6 DEF TaskType, TaskOK
  <2>3. /\ t.class = v.class /\ t.policy = v.policy
        /\ v.class = "wrr" => v.policy = "WRR"
        /\ v.class = "rt" => rt_prio(v.prio)
        /\ v.class = "fair" => ~rt_prio(v.prio)
        /\ v.policy \in RtPolicy => v.class = "rt"
    BY <1>1, <1>6 DEF TaskType, TaskOK
  <2>4. v.class = "fair" => ~rt_prio(n)
    BY <1>3, <2>3
  <2> QED BY <1>n, <1>6, <2>1, <2>2, <2>3, <2>4 DEF TaskOK
<1>8. SameRun(v, t)
  BY <1>1, <1>6 DEF SameRun
<1> QED BY <1>0, <1>2, <1>5, <1>7, <1>8 DEF TaskType, u

\* A new top waiter alone changes nothing the invariant reads.
LEMMA SetWaiter ==
  ASSUME NEW u \in TaskType, NEW waiter \in WaiterPrio \cup {MAX_PRIO}
  PROVE  LET t == [u EXCEPT !.waiter = waiter]
         IN  t \in TaskType /\ SameRun(u, t) /\ t.normal_prio = u.normal_prio
                /\ t.class = u.class /\ t.weight = u.weight /\ t.group = u.group
BY DEF TaskType, TaskRecord, TaskOK, normal_prio, SameRun

\* rt_mutex_setprio leaves class and priority in agreement, boosted or
\* deboosted.
LEMMA SetPrioType ==
  ASSUME NEW u \in TaskType, NEW v \in TaskType, v.policy = u.policy,
         NEW waiter \in WaiterPrio \cup {MAX_PRIO},
         NEW prio, prio = rt_mutex_getprio([u EXCEPT !.waiter = waiter])
  PROVE  LET t == [v EXCEPT !.waiter = waiter, !.prio = prio,
                            !.class = IF rt_prio(prio) THEN "rt" ELSE "fair"]
         IN  t \in TaskType /\ SameRun(v, t)
<1> DEFINE c == IF rt_prio(prio) THEN "rt" ELSE "fair"
           t == [v EXCEPT !.waiter = waiter, !.prio = prio, !.class = c]
<1>1. prio \in 0 .. MAX_PRIO - 1 /\ prio =< u.normal_prio
  <2> DEFINE w == [u EXCEPT !.waiter = waiter]
  <2>1. w \in TaskRecord /\ w.normal_prio = u.normal_prio
    BY SetWaiter DEF TaskType
  <2> HIDE DEF w
  <2>2. prio = rt_mutex_getprio(w)
    BY DEF w
  <2> QED BY <2>1, <2>2, GetPrioRange
<1>2. c \in {"rt", "fair"} /\ (c = "rt" <=> rt_prio(prio))
  OBVIOUS
<1> HIDE DEF c
<1>3. t \in TaskRecord
  BY <1>1, <1>2, ZenonT(40) DEF TaskType, TaskRecord
<1>4. /\ SameRun(v, t) /\ t.weight = v.weight /\ t.time_slice = v.time_slice
      /\ t.policy = v.policy /\ t.rt_priority = v.rt_priority /\ t.class = c
      /\ t.static_prio = v.static_prio /\ t.normal_prio = v.normal_prio /\ t.prio = prio
  BY ZenonT(40) DEF TaskType, TaskRecord, SameRun
<1> HIDE DEF t
<1>5. v.policy \in RtPolicy => rt_prio(prio)
  <2> DEFINE n == u.normal_prio
  <2>1. n \in 0 .. MAX_PRIO - 1 /\ (u.policy \in RtPolicy => rt_prio(n))
    BY NormalPrioRange DEF TaskType, TaskOK, TaskRecord
  <2>2. prio =< n
    BY <1>1
  <2> HIDE DEF n
  <2> QED BY <1>1, <2>1, <2>2 DEF rt_prio, MAX_RT_PRIO, MAX_PRIO
<1>6. TaskOK(t)
  <2>1. normal_prio(t) = normal_prio(v)
    BY <1>4 DEF normal_prio
  <2>2. TaskOK(v)
    BY DEF TaskType
  <2> QED BY <1>2, <1>4, <1>5, <2>1, <2>2 DEF TaskOK
<1> QED BY <1>3, <1>4, <1>6 DEF TaskType, c, t

\* A change of task group leaves class, policy and priority in agreement.
LEMMA SetGroupType ==
  ASSUME NEW v \in TaskType, NEW g \in Group
  PROVE  LET t == [v EXCEPT !.group = g] IN t \in TaskType /\ SameRun(v, t)
BY DEF TaskType, TaskRecord, TaskOK, normal_prio, SameRun

\* sched_fork gives the child fields that agree, whatever its parent.
LEMMA ForkType ==
  ASSUME NEW u \in TaskType
  PROVE  LET t == sched_fork(u)
         IN  t \in TaskType /\ ~t.on_rq /\ t.state = "RUNNING" /\ t.newborn
<1> DEFINE copy  == [u EXCEPT !.on_rq = FALSE, !.state = "RUNNING", !.newborn = TRUE,
                              !.waiter = MAX_PRIO, !.prio = u.normal_prio,
                              !.exec_start = 0, !.sum_exec_runtime = 0]
           sp    == IF u.policy \in RtPolicy \/ u.static_prio < 120 THEN 120 ELSE u.static_prio
           x     == IF u.policy \in RtPolicy THEN "NORMAL" ELSE u.policy
           y     == IF u.policy \in RtPolicy THEN 0 ELSE u.rt_priority
           reset == [copy EXCEPT !.policy = x, !.rt_priority = y, !.static_prio = sp, !.prio = sp,
                                 !.normal_prio = sp, !.reset_on_fork = FALSE]
           child == IF u.reset_on_fork THEN reset ELSE copy
           placed == IF rt_prio(child.prio) THEN child ELSE [child EXCEPT !.class = "fair"]
<1>0. sched_fork(u) = IF placed.class = "wrr" THEN [placed EXCEPT !.time_slice = 0] ELSE placed
  BY ZenonT(40) DEF sched_fork
<1>1. u \in TaskRecord /\ TaskOK(u)
  BY DEF TaskType
<1>2. copy \in TaskRecord
  <2>1. 0 \in Nat /\ MAX_PRIO \in WaiterPrio \cup {MAX_PRIO} /\ u.normal_prio \in 0 .. MAX_PRIO - 1
    BY <1>1 DEF TaskRecord
  <2> QED BY <1>1, <2>1, ZenonT(40) DEF TaskRecord
<1>3. /\ copy.on_rq = FALSE /\ copy.state = "RUNNING" /\ copy.newborn = TRUE
      /\ copy.prio = u.normal_prio /\ copy.normal_prio = u.normal_prio
      /\ copy.policy = u.policy /\ copy.static_prio = u.static_prio
      /\ copy.rt_priority = u.rt_priority /\ copy.class = u.class
      /\ copy.weight = u.weight /\ copy.time_slice = u.time_slice
  BY <1>1, ZenonT(40) DEF TaskRecord
<1>4. /\ sp \in StaticPrio /\ sp \in 0 .. MAX_PRIO - 1 /\ ~rt_prio(sp)
      /\ x \in {"NORMAL", "WRR"} \cup RtPolicy /\ x \notin RtPolicy
      /\ y \in RtPriority \cup {0}
  <2>1. sp \in StaticPrio
    BY <1>1, PrioAssumption DEF TaskRecord
  <2>2. StaticPrio \subseteq MAX_RT_PRIO .. MAX_PRIO - 1
    BY PrioAssumption
  <2>3. x \in {"NORMAL", "WRR"} \cup RtPolicy /\ x \notin RtPolicy /\ y \in RtPriority \cup {0}
    BY <1>1 DEF TaskRecord, RtPolicy
  <2> HIDE DEF sp
  <2>4. sp \in MAX_RT_PRIO .. MAX_PRIO - 1
    BY <2>1, <2>2
  <2> QED BY <2>1, <2>3, <2>4 DEF MAX_RT_PRIO, MAX_PRIO, rt_prio
<1> HIDE DEF copy, sp, x, y
<1>5. reset \in TaskRecord
  BY <1>2, <1>4, ZenonT(40) DEF TaskRecord
<1>6. /\ reset.on_rq = copy.on_rq /\ reset.state = copy.state /\ reset.newborn = copy.newborn
      /\ reset.prio = sp /\ reset.normal_prio = sp /\ reset.policy = x /\ reset.static_prio = sp
      /\ reset.class = copy.class
      /\ reset.weight = copy.weight /\ reset.time_slice = copy.time_slice
  BY <1>2, ZenonT(40) DEF TaskRecord
<1> HIDE DEF reset
<1>7. /\ child \in TaskRecord /\ child.on_rq = FALSE /\ child.state = "RUNNING" /\ child.newborn = TRUE
      /\ child.class = u.class /\ child.weight = u.weight /\ child.time_slice = u.time_slice
  BY <1>2, <1>3, <1>5, <1>6
<1>8. /\ child.normal_prio = normal_prio(child) /\ child.prio = child.normal_prio
      /\ child.policy \in RtPolicy => child.policy = u.policy
  <2>1. CASE u.reset_on_fork
    BY <1>4, <1>6, <2>1 DEF normal_prio
  <2>2. CASE ~u.reset_on_fork
    <3>1. normal_prio(copy) = normal_prio(u)
      BY <1>3 DEF normal_prio
    <3> QED BY <1>1, <1>3, <2>2, <3>1 DEF TaskOK
  <2> QED BY <2>1, <2>2
<1> HIDE DEF child
<1>9. rt_prio(child.prio) <=> child.policy \in RtPolicy
  BY <1>7, <1>8, NormalPrioRange
<1>10. /\ placed \in TaskRecord /\ placed.on_rq = FALSE /\ placed.state = "RUNNING"
       /\ placed.newborn = TRUE /\ placed.weight = u.weight /\ placed.time_slice = u.time_slice
       /\ placed.policy = child.policy /\ placed.prio = child.prio
       /\ placed.normal_prio = child.normal_prio /\ placed.static_prio = child.static_prio
       /\ placed.rt_priority = child.rt_priority
       /\ placed.class = IF rt_prio(child.prio) THEN u.class ELSE "fair"
  BY <1>7 DEF TaskRecord
<1> HIDE DEF placed
<1>11. rt_prio(child.prio) => u.class = "rt"
  BY <1>1, <1>8, <1>9 DEF TaskOK
<1>12. TaskOK(placed) /\ placed.class # "wrr"
  <2>1. normal_prio(placed) = normal_prio(child)
    BY <1>10 DEF normal_prio
  <2>2. placed.weight # 0 => placed.time_slice \in 1 .. weight_slice(placed.weight)
    BY <1>1, <1>10 DEF TaskOK
  <2> QED BY <1>8, <1>9, <1>10, <1>11, <2>1, <2>2 DEF TaskOK
<1> QED BY <1>0, <1>10, <1>12 DEF TaskType

-----------------------------------------------------------------------------
\* The scheduler states the callbacks work on.
State == [task : [Task -> TaskType], rq : RqRecord]

\* The tasks of S in a class, and the WRR tasks of S with a weight.
OfClass(st, S, class) == {p \in S : st.task[p].class = class}
OfWeight(st, S, w) == {p \in OfClass(st, S, "wrr") : st.task[p].weight = w}

\* The run lists hold the tasks of S, each in the list of its class.
Linked(st, S) ==
  /\ Members(st.rq.queue) = OfClass(st, S, "wrr")
  /\ Members(st.rq.rt) = OfClass(st, S, "rt")
  /\ st.rq.fair = OfClass(st, S, "fair")
  /\ Distinct(st.rq.queue)
  /\ Distinct(st.rq.rt)

\* nr_running, wrr_nr_running and total_weight count the tasks of S.
Counted(st, S) ==
  /\ st.rq.wrr_nr_running = Len(st.rq.queue)
  /\ st.rq.nr_running = Cardinality(S)
  /\ st.rq.total_weight = Cardinality(OfWeight(st, S, 1)) + 10 * Cardinality(OfWeight(st, S, 10))

\* The WRR tasks of S have the weight of their group.
Weighed(st, S) ==
  \A p \in OfClass(st, S, "wrr") : st.task[p].weight = group_weight(st.task[p].group)

\* The run queue holds exactly the tasks of S. S is a parameter because
\* between dequeue_task and enqueue_task it is not the set of tasks with
\* on_rq set.
OnLists(st, S) == Linked(st, S) /\ Counted(st, S) /\ Weighed(st, S)

\* From st to s2 nothing changes that OnLists looks at.
SameLists(st, s2) ==
  /\ s2.rq.queue = st.rq.queue /\ s2.rq.rt = st.rq.rt /\ s2.rq.fair = st.rq.fair
  /\ s2.rq.wrr_nr_running = st.rq.wrr_nr_running
  /\ s2.rq.nr_running = st.rq.nr_running
  /\ s2.rq.total_weight = st.rq.total_weight
  /\ \A q \in Task : /\ s2.task[q].class = st.task[q].class
                     /\ s2.task[q].weight = st.task[q].weight
                     /\ s2.task[q].group = st.task[q].group

\* From st to s2 no task changes its state, on_rq, class or policy, and the
\* current task stays.
SameTasks(st, s2) ==
  /\ s2.rq.curr = st.rq.curr
  /\ s2.rq.nr_uninterruptible = st.rq.nr_uninterruptible
  /\ \A q \in Task : /\ s2.task[q].state = st.task[q].state
                     /\ s2.task[q].on_rq = st.task[q].on_rq
                     /\ s2.task[q].newborn = st.task[q].newborn
                     /\ s2.task[q].class = st.task[q].class
                     /\ s2.task[q].policy = st.task[q].policy

\* What OnLists does not look at does not matter to it.
LEMMA SameListsOnLists ==
  ASSUME NEW st, NEW s2, NEW S \in SUBSET Task, OnLists(st, S), SameLists(st, s2)
  PROVE  OnLists(s2, S)
<1>1. \A class : OfClass(s2, S, class) = OfClass(st, S, class)
  BY DEF OfClass, SameLists
<1>2. \A w : OfWeight(s2, S, w) = OfWeight(st, S, w)
  BY <1>1 DEF OfWeight, OfClass, SameLists
<1>3. Weighed(s2, S)
  BY <1>1 DEF Weighed, OnLists, SameLists, OfClass
<1> QED
  BY <1>1, <1>2, <1>3 DEF OnLists, Linked, Counted, SameLists

\* A callback that leaves the lists, the counters and the tasks' lives alone.
Keeps(st, s2) == s2 \in State /\ SameLists(st, s2) /\ SameTasks(st, s2)

\* Doing nothing (an early return) keeps the lists.
LEMMA KeepsRefl == ASSUME NEW st \in State PROVE Keeps(st, st)
BY DEF Keeps, SameLists, SameTasks

\* Two callbacks in a row that keep the lists keep them.
LEMMA KeepsTrans ==
  ASSUME NEW st, NEW s2, NEW s3, Keeps(st, s2), Keeps(s2, s3)
  PROVE  Keeps(st, s3)
BY DEF Keeps, SameLists, SameTasks

\* Charging run time and restarting exec_start keep the fields of a task in
\* agreement.
LEMMA Reaccounted ==
  ASSUME NEW u \in TaskType, NEW a \in Nat, NEW b \in Nat
  PROVE  /\ [u EXCEPT !.sum_exec_runtime = a, !.exec_start = b] \in TaskType
         /\ [u EXCEPT !.exec_start = b] \in TaskType
<1>1. ASSUME NEW t \in TaskRecord,
             t.class = u.class, t.policy = u.policy, t.prio = u.prio,
             t.normal_prio = u.normal_prio, t.static_prio = u.static_prio,
             t.rt_priority = u.rt_priority, t.weight = u.weight, t.time_slice = u.time_slice
      PROVE  t \in TaskType
  BY <1>1 DEF TaskType, TaskOK, normal_prio
<1> DEFINE t == [u EXCEPT !.sum_exec_runtime = a, !.exec_start = b]
           r == [u EXCEPT !.exec_start = b]
<1>2. t \in TaskRecord /\ r \in TaskRecord
  BY ZenonT(40) DEF TaskType, TaskRecord
<1>3. /\ t.class = u.class /\ t.policy = u.policy /\ t.prio = u.prio
      /\ t.normal_prio = u.normal_prio /\ t.static_prio = u.static_prio
      /\ t.rt_priority = u.rt_priority /\ t.weight = u.weight /\ t.time_slice = u.time_slice
  BY ZenonT(40) DEF TaskType, TaskRecord
<1>4. /\ r.class = u.class /\ r.policy = u.policy /\ r.prio = u.prio
      /\ r.normal_prio = u.normal_prio /\ r.static_prio = u.static_prio
      /\ r.rt_priority = u.rt_priority /\ r.weight = u.weight /\ r.time_slice = u.time_slice
  BY ZenonT(40) DEF TaskType, TaskRecord
<1> QED BY <1>1, <1>2, <1>3, <1>4, ZenonT(40)

\* A state with another record for one task.
LEMMA PutTask ==
  ASSUME NEW st \in State, NEW p \in Task, NEW t \in TaskType
  PROVE  LET s2 == [st EXCEPT !.task[p] = t]
         IN  /\ s2 \in State /\ s2.rq = st.rq
             /\ s2.task = [st.task EXCEPT ![p] = t]
             /\ s2.task[p] = t /\ \A q \in Task \ {p} : s2.task[q] = st.task[q]
BY DEF State

\* Charging run time to a task keeps the lists.
LEMMA ReaccountKeeps ==
  ASSUME NEW st \in State, NEW c \in Task, NEW a \in Nat, NEW b \in Nat
  PROVE  /\ Keeps(st, [st EXCEPT !.task[c] =
                         [st.task[c] EXCEPT !.sum_exec_runtime = a, !.exec_start = b]])
         /\ Keeps(st, [st EXCEPT !.task[c].exec_start = b])
<1> DEFINE u == st.task[c]
           t == [u EXCEPT !.sum_exec_runtime = a, !.exec_start = b]
           r == [u EXCEPT !.exec_start = b]
<1>1. u \in TaskType
  BY DEF State
<1>2. t \in TaskType /\ r \in TaskType
  BY <1>1, Reaccounted, ZenonT(40)
<1>3. /\ t.class = u.class /\ t.weight = u.weight /\ t.group = u.group
      /\ t.state = u.state /\ t.on_rq = u.on_rq /\ t.newborn = u.newborn
      /\ t.policy = u.policy /\ r.policy = u.policy
      /\ r.class = u.class /\ r.weight = u.weight /\ r.group = u.group
      /\ r.state = u.state /\ r.on_rq = u.on_rq /\ r.newborn = u.newborn
  BY <1>1, ZenonT(40) DEF TaskType, TaskRecord
<1> HIDE DEF t, r
<1>4. Keeps(st, [st EXCEPT !.task[c] = t])
  BY <1>2, <1>3, PutTask DEF Keeps, SameLists, SameTasks
<1>5. Keeps(st, [st EXCEPT !.task[c] = r])
  BY <1>2, <1>3, PutTask DEF Keeps, SameLists, SameTasks
<1> QED
  BY <1>4, <1>5 DEF t, r

\* The accounting part of the update_curr functions keeps the lists.
LEMMA ChargeKeeps ==
  ASSUME NEW st \in State, st.rq.curr \in Task
  PROVE  Keeps(st, Charge(st))
<1> DEFINE a == st.task[st.rq.curr].sum_exec_runtime + Delta(st)
<1>1. st.task[st.rq.curr] \in TaskRecord /\ st.rq.clock_task \in Nat
  BY DEF State, RqRecord, TaskType
<1>2. a \in Nat
  BY <1>1 DEF Delta, TaskRecord
<1> HIDE DEF a
<1>3. Keeps(st, [st EXCEPT !.task[st.rq.curr] =
                   [st.task[st.rq.curr] EXCEPT !.sum_exec_runtime = a,
                                               !.exec_start = st.rq.clock_task]])
  BY <1>1, <1>2, ReaccountKeeps, ZenonT(40)
<1> QED BY <1>3 DEF Charge, a

\* Setting TIF_NEED_RESCHED keeps the lists.
LEMMA ReschedKeeps ==
  ASSUME NEW st \in State
  PROVE  Keeps(st, resched_task(st)) /\ \A b : Keeps(st, ReschedIf(b, st))
<1>1. Keeps(st, resched_task(st))
  BY ZenonT(40) DEF resched_task, Keeps, SameLists, SameTasks, State, RqRecord
<1> QED BY <1>1, KeepsRefl DEF ReschedIf

\* update_curr_wrr and the update_curr of the fair class keep the lists.
LEMMA UpdateCurrKeeps ==
  ASSUME NEW st \in State
  PROVE  /\ Keeps(st, update_curr_wrr(st))
         /\ Keeps(st, update_curr_fair(st))
<1>1. CurrClass(st) # "idle" => st.rq.curr \in Task
  BY DEF CurrClass, State, RqRecord
<1> QED BY <1>1, ChargeKeeps, KeepsRefl DEF update_curr_wrr, update_curr_fair

\* What the environment chooses for a step is a possible choice.
EnvOK(e) == e.over \in BOOLEAN

\* update_curr_rt keeps the lists, throttling included: a throttled runqueue
\* keeps its tasks linked.
LEMMA UpdateCurrRtKeeps ==
  ASSUME NEW st \in State, NEW e, EnvOK(e)
  PROVE  Keeps(st, update_curr_rt(st, e))
<1>1. CurrClass(st) # "idle" => st.rq.curr \in Task
  BY DEF CurrClass, State, RqRecord
<1>3. ASSUME CurrClass(st) = "rt" PROVE Keeps(st, update_curr_rt(st, e))
  <2> DEFINE c  == Charge(st)
             s1 == [c EXCEPT !.rq.rt_throttled = @ \/ e.over]
  <2>1. Keeps(st, c)
    BY <1>1, <1>3, ChargeKeeps
  <2> HIDE DEF c
  <2>2. c.rq.rt_throttled \in BOOLEAN
    BY <2>1 DEF Keeps, State, RqRecord
  <2>3. Keeps(c, s1)
    BY <2>1, <2>2, ZenonT(40) DEF EnvOK, Keeps, SameLists, SameTasks, State, RqRecord
  <2> HIDE DEF s1
  <2>5. Keeps(s1, ReschedIf(RtBandwidth /\ rt_rq_throttled(s1), s1))
    BY <2>3, ReschedKeeps, KeepsRefl DEF Keeps, ReschedIf
  <2> QED BY <1>3, <2>1, <2>3, <2>5, KeepsTrans DEF update_curr_rt, c, s1
<1> QED BY <1>3, KeepsRefl DEF update_curr_rt

\* put_prev_task of every class keeps the lists.
LEMMA PutPrevKeeps ==
  ASSUME NEW st \in State, NEW e, EnvOK(e)
  PROVE  Keeps(st, put_prev_task(st, e))
<1>1. CurrClass(st) \in {"rt", "wrr", "fair", "idle"} /\ (CurrClass(st) # "idle" => st.rq.curr \in Task)
  BY DEF CurrClass, State, RqRecord, TaskType, TaskRecord
<1>2. CASE CurrClass(st) = "wrr"
  <2> DEFINE s1 == update_curr_wrr(st)
  <2>1. Keeps(st, s1)
    BY UpdateCurrKeeps
  <2> HIDE DEF s1
  <2>2. Keeps(s1, [s1 EXCEPT !.task[st.rq.curr].exec_start = 0])
    BY <1>1, <1>2, <2>1, ReaccountKeeps, ZenonT(40) DEF Keeps
  <2> QED BY <1>2, <2>1, <2>2, KeepsTrans DEF put_prev_task, put_prev_task_wrr, s1
<1> QED BY <1>1, <1>2, UpdateCurrKeeps, UpdateCurrRtKeeps, KeepsRefl DEF put_prev_task

\* set_curr_task of every class keeps the lists.
LEMMA SetCurrKeeps ==
  ASSUME NEW st \in State, st.rq.curr \in Task
  PROVE  Keeps(st, set_curr_task(st))
BY ReaccountKeeps, ZenonT(40) DEF set_curr_task, State, RqRecord

-----------------------------------------------------------------------------
\* Sets of tasks are finite; adding or removing one task changes the count by
\* one.
LEMMA Cards ==
  ASSUME NEW X \in SUBSET Task, NEW p \in Task
  PROVE  /\ Cardinality(X) \in Nat
         /\ p \notin X => Cardinality(X \cup {p}) = Cardinality(X) + 1
         /\ p \in X => Cardinality(X \ {p}) = Cardinality(X) - 1
<1>1. IsFiniteSet(X)
  BY TaskAssumption, FS_Subset
<1> QED BY <1>1, FS_CardinalityType, FS_AddElement, FS_RemoveElement

\* The tasks of a class or weight are tasks of S.
LEMMA Subsets ==
  ASSUME NEW st, NEW S \in SUBSET Task
  PROVE  /\ \A c : OfClass(st, S, c) \in SUBSET Task /\ OfClass(st, S, c) \subseteq S
         /\ \A w : OfWeight(st, S, w) \in SUBSET Task /\ OfWeight(st, S, w) \subseteq S
BY DEF OfClass, OfWeight

\* inc_nr_running and dec_nr_running change nr_running by one and nothing
\* else.
LEMMA NrRunning ==
  ASSUME NEW st \in State
  PROVE  /\ inc_nr_running(st) \in State
         /\ dec_nr_running(st) \in State
         /\ inc_nr_running(st).task = st.task
         /\ dec_nr_running(st).task = st.task
         /\ inc_nr_running(st).rq = [st.rq EXCEPT !.nr_running = st.rq.nr_running + 1]
         /\ dec_nr_running(st).rq = [st.rq EXCEPT !.nr_running = st.rq.nr_running - 1]
<1>1. ASSUME NEW n \in Int
      PROVE  /\ [st EXCEPT !.rq.nr_running = n] \in State
             /\ [st EXCEPT !.rq.nr_running = n].task = st.task
             /\ [st EXCEPT !.rq.nr_running = n].rq = [st.rq EXCEPT !.nr_running = n]
  BY ZenonT(40) DEF State, RqRecord
<1>2. st.rq.nr_running + 1 \in Int /\ st.rq.nr_running - 1 \in Int
  BY SMTT(30) DEF State, RqRecord
<1> QED BY <1>1, <1>2 DEF inc_nr_running, dec_nr_running

\* dequeue_task_wrr takes p off the queue, off wrr_nr_running and its weight
\* off total_weight.
LEMMA DequeueWrr ==
  ASSUME NEW st \in State, NEW S \in SUBSET Task, NEW p \in S, OnLists(st, S),
         st.task[p].class = "wrr"
  PROVE  LET s2 == dequeue_task_wrr(st, p)
         IN  s2 \in State /\ OnLists(s2, S \ {p}) /\ SameTasks(st, s2)
<1> DEFINE u  == update_curr_wrr(st)
           s1 == dequeue_wrr_entity(u, p)
           s2 == dec_nr_running(s1)
           w  == u.task[p].weight
<1>1. Keeps(st, u)
  BY UpdateCurrKeeps
<1>2. u \in State /\ OnLists(u, S) /\ u.task[p].class = "wrr"
  BY <1>1, SameListsOnLists DEF Keeps, SameTasks
<1> HIDE DEF u
<1>3. w \in {1, 10}
  BY <1>2 DEF OnLists, Weighed, OfClass, group_weight
<1> HIDE DEF w
<1>4. /\ s1.task = u.task /\ s1.rq.curr = u.rq.curr /\ s1.rq.nr_uninterruptible = u.rq.nr_uninterruptible
      /\ s1.rq.queue = list_del(u.rq.queue, p) /\ s1.rq.rt = u.rq.rt /\ s1.rq.fair = u.rq.fair
      /\ s1.rq.wrr_nr_running = u.rq.wrr_nr_running - 1 /\ s1.rq.nr_running = u.rq.nr_running
      /\ s1.rq.total_weight = u.rq.total_weight - w
  BY <1>2, ZenonT(40) DEF dequeue_wrr_entity, State, RqRecord, w
<1>5. p \in Members(u.rq.queue) /\ Distinct(u.rq.queue) /\ u.rq.queue \in Seq(Task)
  BY <1>2 DEF OnLists, Linked, OfClass, State, RqRecord
<1>6. /\ list_del(u.rq.queue, p) \in Seq(Task)
      /\ Len(list_del(u.rq.queue, p)) = Len(u.rq.queue) - 1
      /\ Members(list_del(u.rq.queue, p)) = Members(u.rq.queue) \ {p}
      /\ Distinct(list_del(u.rq.queue, p))
  BY <1>5, ListDel
<1>7. s1 \in State
  <2> DEFINE q == list_del(u.rq.queue, p)
             a == u.rq.total_weight - w
             b == u.rq.wrr_nr_running - 1
  <2>0. u.rq.total_weight \in Int /\ u.rq.wrr_nr_running \in Int
    BY <1>2 DEF State, RqRecord
  <2>1. q \in Seq(Task) /\ a \in Int /\ b \in Int
    BY <1>3, <1>6, <2>0
  <2> HIDE DEF q, a, b
  <2>2. [u EXCEPT !.rq.queue = q, !.rq.total_weight = a, !.rq.wrr_nr_running = b] \in State
    BY <1>2, <2>1, ZenonT(40) DEF State, RqRecord
  <2> QED BY <2>2 DEF dequeue_wrr_entity, q, a, b, w
<1> HIDE DEF s1
<1>8. /\ s2 \in State
      /\ s2.task = s1.task /\ s2.rq.curr = s1.rq.curr
      /\ s2.rq.nr_uninterruptible = s1.rq.nr_uninterruptible
      /\ s2.rq.queue = s1.rq.queue /\ s2.rq.rt = s1.rq.rt /\ s2.rq.fair = s1.rq.fair
      /\ s2.rq.wrr_nr_running = s1.rq.wrr_nr_running /\ s2.rq.nr_running = s1.rq.nr_running - 1
      /\ s2.rq.total_weight = s1.rq.total_weight
  <2>1. s2 \in State /\ s2.task = s1.task /\ s2.rq = [s1.rq EXCEPT !.nr_running = s1.rq.nr_running - 1]
    BY <1>7, NrRunning, ZenonT(40)
  <2>2. s1.rq \in RqRecord
    BY <1>7, SMTT(30) DEF State
  <2> QED BY <2>1, <2>2 DEF RqRecord
<1> HIDE DEF s2
<1>9. SameTasks(st, s2)
  BY <1>1, <1>4, <1>8 DEF Keeps, SameTasks
<1>10. /\ \A c : OfClass(s2, S \ {p}, c) = OfClass(u, S, c) \ {p}
       /\ \A x : OfWeight(s2, S \ {p}, x) = OfWeight(u, S, x) \ {p}
  <2>1. s2.task = u.task
    BY <1>4, <1>8
  <2> QED BY <2>1, SMTT(30) DEF OfClass, OfWeight
<1>11. Linked(s2, S \ {p})
  <2>1. p \notin OfClass(u, S, "rt") /\ p \notin OfClass(u, S, "fair")
    BY <1>2 DEF OfClass
  <2>2. Linked(u, S)
    BY <1>2 DEF OnLists
  <2>3. OfClass(s2, S \ {p}, "rt") = OfClass(u, S, "rt") /\ OfClass(s2, S \ {p}, "fair") = OfClass(u, S, "fair")
    BY <1>10, <2>1
  <2> QED BY <1>4, <1>6, <1>8, <1>10, <2>2, <2>3, ZenonT(40) DEF Linked
<1>12. Counted(s2, S \ {p})
  <2> DEFINE one == OfWeight(u, S, 1)
             ten == OfWeight(u, S, 10)
  <2>1. /\ w = 1 => p \in one /\ p \notin ten
        /\ w = 10 => p \in ten /\ p \notin one
    BY <1>2 DEF OfWeight, OfClass, w
  <2>a. one \in SUBSET Task /\ ten \in SUBSET Task
    BY Subsets
  <2> HIDE DEF one, ten
  <2>2. /\ Cardinality(S \ {p}) = Cardinality(S) - 1
        /\ Cardinality(one) \in Nat /\ Cardinality(ten) \in Nat
        /\ w = 1 => Cardinality(one \ {p}) = Cardinality(one) - 1 /\ ten \ {p} = ten
        /\ w = 10 => Cardinality(ten \ {p}) = Cardinality(ten) - 1 /\ one \ {p} = one
    BY <2>1, <2>a, Cards, ZenonT(40)
  <2>3. /\ u.rq.wrr_nr_running = Len(u.rq.queue) /\ u.rq.nr_running = Cardinality(S)
        /\ u.rq.total_weight = Cardinality(one) + 10 * Cardinality(ten)
    BY <1>2 DEF OnLists, Counted, one, ten
  <2>4. s2.rq.total_weight = Cardinality(one \ {p}) + 10 * Cardinality(ten \ {p})
    <3>0. Cardinality(one) \in Nat /\ Cardinality(ten) \in Nat
      BY <2>2
    <3>1. s2.rq.total_weight = Cardinality(one) + 10 * Cardinality(ten) - w
      <4>1. s2.rq.total_weight = u.rq.total_weight - w
        BY <1>4, <1>8
      <4>2. u.rq.total_weight = Cardinality(one) + 10 * Cardinality(ten)
        BY <2>3
      <4> QED BY <3>0, <4>1, <4>2, <1>3
    <3>2. CASE w = 1
      <4>1. Cardinality(one \ {p}) = Cardinality(one) - 1 /\ Cardinality(ten \ {p}) = Cardinality(ten)
        BY <3>2, <2>2, ZenonT(40)
      <4> QED BY <3>0, <3>1, <3>2, <4>1
    <3>3. CASE w = 10
      <4>1. Cardinality(ten \ {p}) = Cardinality(ten) - 1 /\ Cardinality(one \ {p}) = Cardinality(one)
        BY <3>3, <2>2, ZenonT(40)
      <4> QED BY <3>0, <3>1, <3>3, <4>1
    <3> QED BY <1>3, <3>2, <3>3
  <2> QED BY <2>2, <2>3, <2>4, <1>4, <1>6, <1>8, <1>10, ZenonT(30) DEF Counted, one, ten
<1>13. Weighed(s2, S \ {p})
  BY <1>2, <1>4, <1>8, <1>10 DEF Weighed, OnLists
<1> QED
  BY <1>8, <1>9, <1>11, <1>12, <1>13 DEF OnLists, dequeue_task_wrr, s1, s2, u

\* Two steps in a row that keep the tasks' lives keep them.
LEMMA SameTasksTrans ==
  ASSUME NEW st, NEW s2, NEW s3, SameTasks(st, s2), SameTasks(s2, s3)
  PROVE  SameTasks(st, s3)
BY DEF SameTasks

\* A task that is not on the lists can be changed at will: the reason that
\* every reconfiguration dequeues its task first.
LEMMA ChangeTask ==
  ASSUME NEW st \in State, NEW S \in SUBSET Task, NEW p \in Task \ S, NEW t \in TaskType,
         OnLists(st, S)
  PROVE  OnLists([st EXCEPT !.task[p] = t], S)
<1> DEFINE s2 == [st EXCEPT !.task[p] = t]
<1>1. s2.rq = st.rq /\ \A q \in S : s2.task[q] = st.task[q]
  BY PutTask
<1> HIDE DEF s2
<1>2. /\ \A c : OfClass(s2, S, c) = OfClass(st, S, c)
      /\ \A w : OfWeight(s2, S, w) = OfWeight(st, S, w)
  BY <1>1 DEF OfClass, OfWeight
<1>3. Weighed(s2, S)
  BY <1>1, <1>2 DEF OnLists, Weighed, OfClass
<1>4. Linked(s2, S) /\ Counted(s2, S)
  BY <1>1, <1>2 DEF OnLists, Linked, Counted
<1> QED BY <1>3, <1>4 DEF OnLists, s2

\* Giving a task a weight and the full slice of that weight keeps its fields
\* in agreement.
LEMMA NewSlice ==
  ASSUME NEW u \in TaskType, NEW w \in {1, 10}, NEW t,
         t = [u EXCEPT !.weight = w, !.time_slice = weight_slice(w)]
  PROVE  /\ t \in TaskType
         /\ t.state = u.state /\ t.on_rq = u.on_rq /\ t.newborn = u.newborn
         /\ t.class = u.class /\ t.policy = u.policy /\ t.group = u.group /\ t.weight = w
<1> DEFINE n == weight_slice(w)
           r == [u EXCEPT !.weight = w, !.time_slice = n]
<1>1. n \in 1 .. n /\ n \in 0 .. UINT_RANGE - 1
  BY SliceAssumption DEF weight_slice
<1>2. n = weight_slice(w) /\ t = r
  OBVIOUS
<1> HIDE DEF n
<1>3. r \in TaskRecord /\ u \in TaskRecord /\ w \in {0, 1, 10}
  BY <1>1, ZenonT(40) DEF TaskType, TaskRecord
<1>4. /\ r.state = u.state /\ r.on_rq = u.on_rq /\ r.newborn = u.newborn
      /\ r.class = u.class /\ r.policy = u.policy /\ r.group = u.group /\ r.weight = w
      /\ r.prio = u.prio /\ r.normal_prio = u.normal_prio /\ r.static_prio = u.static_prio
      /\ r.rt_priority = u.rt_priority /\ r.time_slice = n
  BY <1>3, ZenonT(40) DEF TaskRecord
<1> HIDE DEF r
<1>5. TaskOK(r)
  BY <1>1, <1>2, <1>4, SMTT(30) DEF TaskType, TaskOK, normal_prio
<1> QED BY <1>2, <1>3, <1>4, <1>5 DEF TaskType

\* enqueue_task_wrr puts p on the queue with the weight of its group and
\* counts it, whether or not it is handed a new slice.
LEMMA EnqueueWrr ==
  ASSUME NEW st \in State, NEW S \in SUBSET Task, NEW p \in Task \ S, OnLists(st, S),
         st.task[p].class = "wrr", NEW head \in BOOLEAN
  PROVE  LET s2 == enqueue_task_wrr(st, p, head)
         IN  s2 \in State /\ OnLists(s2, S \cup {p}) /\ SameTasks(st, s2)
<1> DEFINE w  == group_weight(st.task[p].group)
           t  == [st.task[p] EXCEPT !.weight = w, !.time_slice = weight_slice(w)]
           u  == IF st.task[p].weight = w THEN st ELSE [st EXCEPT !.task[p] = t]
           s1 == enqueue_wrr_entity(st, p, head)
           s2 == inc_nr_running(s1)
           l  == IF head THEN list_add(u.rq.queue, p) ELSE list_add_tail(u.rq.queue, p)
<1>1. w \in {1, 10}
  BY SMTT(30) DEF group_weight
<1>2. /\ u \in State /\ OnLists(u, S) /\ SameTasks(st, u)
      /\ u.task[p].class = "wrr" /\ u.task[p].weight = w /\ w = group_weight(u.task[p].group)
  <2>1. CASE st.task[p].weight = w
    BY <2>1 DEF SameTasks
  <2>2. CASE st.task[p].weight # w
    <3>1. st.task[p] \in TaskType
      BY DEF State
    <3>0. t = [st.task[p] EXCEPT !.weight = w, !.time_slice = weight_slice(w)]
      OBVIOUS
    <3> HIDE DEF w, t
    <3>2. /\ t \in TaskType
          /\ t.state = st.task[p].state /\ t.on_rq = st.task[p].on_rq
          /\ t.newborn = st.task[p].newborn /\ t.class = st.task[p].class
          /\ t.policy = st.task[p].policy /\ t.group = st.task[p].group /\ t.weight = w
      BY <1>1, <3>0, <3>1, NewSlice, ZenonT(30)
    <3>3. u = [st EXCEPT !.task[p] = t]
      BY <2>2
    <3> HIDE DEF u
    <3>4. /\ u \in State /\ u.rq = st.rq /\ u.task[p] = t
          /\ \A q \in Task \ {p} : u.task[q] = st.task[q]
      BY <3>2, <3>3, PutTask
    <3>5. OnLists(u, S)
      BY <3>2, <3>3, ChangeTask
    <3>6. SameTasks(st, u)
      BY <3>2, <3>4 DEF SameTasks
    <3> QED BY <3>2, <3>4, <3>5, <3>6 DEF w
  <2> QED BY <2>1, <2>2
<1>3. s1 = [u EXCEPT !.rq.queue = l, !.rq.total_weight = u.rq.total_weight + w,
                     !.rq.wrr_nr_running = u.rq.wrr_nr_running + 1]
  BY ZenonT(40) DEF enqueue_wrr_entity
<1> HIDE DEF w, u, s1
<1>4. /\ s1.task = u.task /\ s1.rq.curr = u.rq.curr /\ s1.rq.nr_uninterruptible = u.rq.nr_uninterruptible
      /\ s1.rq.queue = l /\ s1.rq.rt = u.rq.rt /\ s1.rq.fair = u.rq.fair
      /\ s1.rq.wrr_nr_running = u.rq.wrr_nr_running + 1 /\ s1.rq.nr_running = u.rq.nr_running
      /\ s1.rq.total_weight = u.rq.total_weight + w
  <2> HIDE DEF l
  <2> QED BY <1>2, <1>3, ZenonT(40) DEF State, RqRecord
<1>5. p \notin Members(u.rq.queue) /\ Distinct(u.rq.queue) /\ u.rq.queue \in Seq(Task)
  BY <1>2 DEF OnLists, Linked, OfClass, State, RqRecord
<1>6. /\ l \in Seq(Task) /\ Len(l) = Len(u.rq.queue) + 1
      /\ Members(l) = Members(u.rq.queue) \cup {p} /\ Distinct(l)
  BY <1>5, ListAdd, ListAddTail
<1> HIDE DEF l
<1>7. s1 \in State
  <2> DEFINE a == u.rq.total_weight + w
             b == u.rq.wrr_nr_running + 1
  <2>1. a \in Int /\ b \in Int
    <3>1. u.rq.total_weight \in Int /\ u.rq.wrr_nr_running \in Int
      BY <1>2 DEF State, RqRecord
    <3> QED BY <1>1, <3>1, SMTT(30)
  <2> HIDE DEF a, b
  <2>2. [u EXCEPT !.rq.queue = l, !.rq.total_weight = a, !.rq.wrr_nr_running = b] \in State
    BY <1>2, <1>6, <2>1, ZenonT(40) DEF State, RqRecord
  <2> QED BY <1>3, <2>2 DEF a, b
<1>8. /\ s2 \in State
      /\ s2.task = s1.task /\ s2.rq.curr = s1.rq.curr
      /\ s2.rq.nr_uninterruptible = s1.rq.nr_uninterruptible
      /\ s2.rq.queue = s1.rq.queue /\ s2.rq.rt = s1.rq.rt /\ s2.rq.fair = s1.rq.fair
      /\ s2.rq.wrr_nr_running = s1.rq.wrr_nr_running /\ s2.rq.nr_running = s1.rq.nr_running + 1
      /\ s2.rq.total_weight = s1.rq.total_weight
  <2>1. s2 \in State /\ s2.task = s1.task /\ s2.rq = [s1.rq EXCEPT !.nr_running = s1.rq.nr_running + 1]
    BY <1>7, NrRunning, ZenonT(40)
  <2>2. s1.rq \in RqRecord
    BY <1>7 DEF State
  <2> QED BY <2>1, <2>2 DEF RqRecord
<1> HIDE DEF s2
<1>9. SameTasks(st, s2)
  <2>1. SameTasks(u, s2)
    BY <1>4, <1>8 DEF SameTasks
  <2> QED BY <1>2, <2>1, SameTasksTrans
<1>10. /\ OfClass(s2, S \cup {p}, "rt") = OfClass(u, S, "rt")
       /\ OfClass(s2, S \cup {p}, "fair") = OfClass(u, S, "fair")
       /\ OfClass(s2, S \cup {p}, "wrr") = OfClass(u, S, "wrr") \cup {p}
       /\ w = 1 => /\ OfWeight(s2, S \cup {p}, 1) = OfWeight(u, S, 1) \cup {p}
                    /\ OfWeight(s2, S \cup {p}, 10) = OfWeight(u, S, 10)
       /\ w = 10 => /\ OfWeight(s2, S \cup {p}, 1) = OfWeight(u, S, 1)
                     /\ OfWeight(s2, S \cup {p}, 10) = OfWeight(u, S, 10) \cup {p}
  <2>1. s2.task = u.task
    BY <1>4, <1>8
  <2>2. s2.task[p].class = "wrr" /\ s2.task[p].weight = w
    BY <1>2, <2>1
  <2>3. \A q \in S : s2.task[q] = u.task[q]
    BY <2>1
  <2> QED BY <2>2, <2>3 DEF OfClass, OfWeight
<1>11. Linked(s2, S \cup {p})
  BY <1>2, <1>4, <1>6, <1>8, <1>10, ZenonT(40) DEF OnLists, Linked
<1>12. Counted(s2, S \cup {p})
  <2> DEFINE one == OfWeight(u, S, 1)
             ten == OfWeight(u, S, 10)
  <2>a. one \in SUBSET Task /\ ten \in SUBSET Task /\ p \notin one /\ p \notin ten
    BY Subsets
  <2>b. /\ w = 1 => OfWeight(s2, S \cup {p}, 1) = one \cup {p} /\ OfWeight(s2, S \cup {p}, 10) = ten
        /\ w = 10 => OfWeight(s2, S \cup {p}, 1) = one /\ OfWeight(s2, S \cup {p}, 10) = ten \cup {p}
    BY <1>1, <1>10
  <2>3. /\ u.rq.wrr_nr_running = Len(u.rq.queue) /\ u.rq.nr_running = Cardinality(S)
        /\ u.rq.total_weight = Cardinality(one) + 10 * Cardinality(ten)
    BY <1>2 DEF OnLists, Counted
  <2> HIDE DEF one, ten
  <2>2. /\ Cardinality(S \cup {p}) = Cardinality(S) + 1
        /\ Cardinality(one) \in Nat /\ Cardinality(ten) \in Nat
        /\ Cardinality(one \cup {p}) = Cardinality(one) + 1
        /\ Cardinality(ten \cup {p}) = Cardinality(ten) + 1
    BY <2>a, Cards, ZenonT(40)
  <2>4. s2.rq.total_weight = Cardinality(OfWeight(s2, S \cup {p}, 1))
                              + 10 * Cardinality(OfWeight(s2, S \cup {p}, 10))
    <3>0. Cardinality(one) \in Nat /\ Cardinality(ten) \in Nat
      BY <2>2
    <3>1. s2.rq.total_weight = Cardinality(one) + 10 * Cardinality(ten) + w
      <4>1. s2.rq.total_weight = u.rq.total_weight + w
        BY <1>4, <1>8
      <4>2. u.rq.total_weight = Cardinality(one) + 10 * Cardinality(ten)
        BY <2>3
      <4> QED BY <3>0, <4>1, <4>2, <1>1
    <3>2. CASE w = 1
      <4>1. /\ Cardinality(OfWeight(s2, S \cup {p}, 1)) = Cardinality(one) + 1
            /\ Cardinality(OfWeight(s2, S \cup {p}, 10)) = Cardinality(ten)
        BY <3>2, <2>2, <2>b, ZenonT(40)
      <4> QED BY <3>0, <3>1, <3>2, <4>1
    <3>3. CASE w = 10
      <4>1. /\ Cardinality(OfWeight(s2, S \cup {p}, 1)) = Cardinality(one)
            /\ Cardinality(OfWeight(s2, S \cup {p}, 10)) = Cardinality(ten) + 1
        BY <3>3, <2>2, <2>b, ZenonT(40)
      <4> QED BY <3>0, <3>1, <3>3, <4>1
    <3> QED BY <1>1, <3>2, <3>3
  <2> QED BY <2>2, <2>3, <2>4, <1>4, <1>6, <1>8 DEF Counted
<1>13. Weighed(s2, S \cup {p})
  BY <1>2, <1>4, <1>8, <1>10 DEF Weighed, OnLists, OfClass
<1> QED
  BY <1>8, <1>9, <1>11, <1>12, <1>13 DEF OnLists, enqueue_task_wrr, s1, s2

\* What inc_nr_running leaves alone, field by field.
LEMMA IncNrRunning ==
  ASSUME NEW st \in State, NEW s2, s2 = inc_nr_running(st)
  PROVE  /\ s2 \in State /\ s2.task = st.task /\ s2.rq.curr = st.rq.curr
         /\ s2.rq.nr_uninterruptible = st.rq.nr_uninterruptible
         /\ s2.rq.queue = st.rq.queue /\ s2.rq.rt = st.rq.rt /\ s2.rq.fair = st.rq.fair
         /\ s2.rq.wrr_nr_running = st.rq.wrr_nr_running /\ s2.rq.nr_running = st.rq.nr_running + 1
         /\ s2.rq.total_weight = st.rq.total_weight
<1>1. s2 \in State /\ s2.task = st.task /\ s2.rq = [st.rq EXCEPT !.nr_running = st.rq.nr_running + 1]
  BY NrRunning, ZenonT(40)
<1>2. st.rq \in RqRecord
  BY DEF State
<1> QED BY <1>1, <1>2 DEF RqRecord

\* What dec_nr_running leaves alone, field by field.
LEMMA DecNrRunning ==
  ASSUME NEW st \in State, NEW s2, s2 = dec_nr_running(st)
  PROVE  /\ s2 \in State /\ s2.task = st.task /\ s2.rq.curr = st.rq.curr
         /\ s2.rq.nr_uninterruptible = st.rq.nr_uninterruptible
         /\ s2.rq.queue = st.rq.queue /\ s2.rq.rt = st.rq.rt /\ s2.rq.fair = st.rq.fair
         /\ s2.rq.wrr_nr_running = st.rq.wrr_nr_running /\ s2.rq.nr_running = st.rq.nr_running - 1
         /\ s2.rq.total_weight = st.rq.total_weight
<1>1. s2 \in State /\ s2.task = st.task /\ s2.rq = [st.rq EXCEPT !.nr_running = st.rq.nr_running - 1]
  BY NrRunning, ZenonT(40)
<1>2. st.rq \in RqRecord
  BY DEF State
<1> QED BY <1>1, <1>2 DEF RqRecord

\* From st to s2 nr_running changes by d, and nothing of the WRR class
\* changes.
WrrAside(st, s2, d) ==
  /\ s2.task = st.task /\ s2.rq.queue = st.rq.queue
  /\ s2.rq.wrr_nr_running = st.rq.wrr_nr_running /\ s2.rq.total_weight = st.rq.total_weight
  /\ s2.rq.nr_running = st.rq.nr_running + d

\* In s2 the task p has joined the tasks of its class.
Joins(st, s2, S, p) ==
  \A c \in {"wrr", "rt", "fair"} :
    /\ st.task[p].class # c => OfClass(s2, S \cup {p}, c) = OfClass(st, S, c)
    /\ st.task[p].class = c => OfClass(s2, S \cup {p}, c) = OfClass(st, S, c) \cup {p}

\* In s2 the task p has left the tasks of its class.
Leaves(st, s2, S, p) ==
  \A c \in {"wrr", "rt", "fair"} :
    /\ st.task[p].class # c => OfClass(s2, S \ {p}, c) = OfClass(st, S, c)
    /\ st.task[p].class = c => OfClass(s2, S \ {p}, c) = OfClass(st, S, c) \ {p}

\* Queueing a task of another class keeps the WRR counters right.
LEMMA EnqueueOther ==
  ASSUME NEW st \in State, NEW S \in SUBSET Task, NEW p \in Task \ S, OnLists(st, S),
         st.task[p].class # "wrr", NEW s2, WrrAside(st, s2, 1)
  PROVE  /\ Counted(s2, S \cup {p}) /\ Weighed(s2, S \cup {p})
         /\ Joins(st, s2, S, p)
<1>1. Joins(st, s2, S, p)
  BY DEF Joins, OfClass, WrrAside
<1>2. OfClass(s2, S \cup {p}, "wrr") = OfClass(st, S, "wrr")
  BY <1>1 DEF Joins
<1>3. \A w \in {1, 10} : OfWeight(s2, S \cup {p}, w) = OfWeight(st, S, w)
  BY <1>2 DEF OfWeight, WrrAside
<1>4. Weighed(s2, S \cup {p})
  BY <1>2 DEF Weighed, OnLists, WrrAside
<1>5. Cardinality(S \cup {p}) = Cardinality(S) + 1 /\ Cardinality(S) \in Nat
  BY Cards
<1>6. Counted(s2, S \cup {p})
  BY <1>3, <1>5 DEF Counted, OnLists, WrrAside
<1> QED BY <1>1, <1>4, <1>6

\* Taking off a task of another class keeps the WRR counters right.
LEMMA DequeueOther ==
  ASSUME NEW st \in State, NEW S \in SUBSET Task, NEW p \in S, OnLists(st, S),
         st.task[p].class # "wrr", NEW s2, WrrAside(st, s2, -1)
  PROVE  /\ Counted(s2, S \ {p}) /\ Weighed(s2, S \ {p})
         /\ Leaves(st, s2, S, p)
<1>1. Leaves(st, s2, S, p)
  BY DEF Leaves, OfClass, WrrAside
<1>2. OfClass(s2, S \ {p}, "wrr") = OfClass(st, S, "wrr")
  BY <1>1 DEF Leaves
<1>3. \A w \in {1, 10} : OfWeight(s2, S \ {p}, w) = OfWeight(st, S, w)
  BY <1>2 DEF OfWeight, WrrAside
<1>4. Weighed(s2, S \ {p})
  BY <1>2 DEF Weighed, OnLists, WrrAside
<1>5. Cardinality(S \ {p}) = Cardinality(S) - 1 /\ Cardinality(S) \in Nat
  BY Cards
<1>6. Counted(s2, S \ {p})
  BY <1>3, <1>5, SMTT(30) DEF Counted, OnLists, WrrAside
<1> QED BY <1>1, <1>4, <1>6

\* enqueue_task_rt puts p on the real-time list, at its head or tail.
LEMMA EnqueueRt ==
  ASSUME NEW st \in State, NEW S \in SUBSET Task, NEW p \in Task \ S, OnLists(st, S),
         st.task[p].class = "rt", NEW head \in BOOLEAN
  PROVE  LET s2 == enqueue_task_rt(st, p, head)
         IN  s2 \in State /\ OnLists(s2, S \cup {p}) /\ SameTasks(st, s2)
<1> DEFINE l  == IF head THEN list_add(st.rq.rt, p) ELSE list_add_tail(st.rq.rt, p)
           s1 == [st EXCEPT !.rq.rt = l]
           s2 == inc_nr_running(s1)
<1>1. s2 = enqueue_task_rt(st, p, head)
  BY ZenonT(40) DEF enqueue_task_rt
<1>2. p \notin Members(st.rq.rt) /\ Distinct(st.rq.rt) /\ st.rq.rt \in Seq(Task)
  BY DEF OnLists, Linked, OfClass, State, RqRecord
<1>3. /\ l \in Seq(Task) /\ Members(l) = Members(st.rq.rt) \cup {p} /\ Distinct(l)
  BY <1>2, ListAdd, ListAddTail
<1> HIDE DEF l
<1>4. /\ s1 \in State /\ s1.task = st.task /\ s1.rq = [st.rq EXCEPT !.rt = l]
  BY <1>3, ZenonT(40) DEF State, RqRecord
<1>5. /\ s1.rq.curr = st.rq.curr /\ s1.rq.nr_uninterruptible = st.rq.nr_uninterruptible
      /\ s1.rq.queue = st.rq.queue /\ s1.rq.rt = l /\ s1.rq.fair = st.rq.fair
      /\ s1.rq.wrr_nr_running = st.rq.wrr_nr_running /\ s1.rq.nr_running = st.rq.nr_running
      /\ s1.rq.total_weight = st.rq.total_weight
  BY <1>4, ZenonT(40) DEF State, RqRecord
<1> HIDE DEF s1
<1>6. /\ s2 \in State /\ s2.task = s1.task /\ s2.rq.curr = s1.rq.curr
      /\ s2.rq.nr_uninterruptible = s1.rq.nr_uninterruptible
      /\ s2.rq.queue = s1.rq.queue /\ s2.rq.rt = s1.rq.rt /\ s2.rq.fair = s1.rq.fair
      /\ s2.rq.wrr_nr_running = s1.rq.wrr_nr_running /\ s2.rq.nr_running = s1.rq.nr_running + 1
      /\ s2.rq.total_weight = s1.rq.total_weight
  BY <1>4, IncNrRunning, ZenonT(40)
<1> HIDE DEF s2
<1>7. SameTasks(st, s2)
  BY <1>4, <1>5, <1>6 DEF SameTasks
<1>8. /\ Counted(s2, S \cup {p}) /\ Weighed(s2, S \cup {p})
      /\ OfClass(s2, S \cup {p}, "wrr") = OfClass(st, S, "wrr")
      /\ OfClass(s2, S \cup {p}, "fair") = OfClass(st, S, "fair")
      /\ OfClass(s2, S \cup {p}, "rt") = OfClass(st, S, "rt") \cup {p}
  <2>1. WrrAside(st, s2, 1)
    BY <1>4, <1>5, <1>6 DEF WrrAside
  <2>2. st.task[p].class # "wrr"
    OBVIOUS
  <2>3. Counted(s2, S \cup {p}) /\ Weighed(s2, S \cup {p}) /\ Joins(st, s2, S, p)
    BY <2>1, <2>2, EnqueueOther
  <2> QED BY <2>3 DEF Joins
<1>9. Linked(s2, S \cup {p})
  BY <1>3, <1>5, <1>6, <1>8, ZenonT(40) DEF OnLists, Linked
<1> QED BY <1>1, <1>6, <1>7, <1>8, <1>9 DEF OnLists

\* Queueing in the fair class puts p into its tree.
LEMMA EnqueueFair ==
  ASSUME NEW st \in State, NEW S \in SUBSET Task, NEW p \in Task \ S, OnLists(st, S),
         st.task[p].class = "fair"
  PROVE  LET s2 == enqueue_task_fair(st, p)
         IN  s2 \in State /\ OnLists(s2, S \cup {p}) /\ SameTasks(st, s2)
<1> DEFINE s1 == [st EXCEPT !.rq.fair = @ \cup {p}]
           s2 == inc_nr_running(s1)
<1>4. /\ s1 \in State /\ s1.task = st.task /\ s1.rq = [st.rq EXCEPT !.fair = @ \cup {p}]
  BY ZenonT(40) DEF State, RqRecord
<1>5. /\ s1.rq.curr = st.rq.curr /\ s1.rq.nr_uninterruptible = st.rq.nr_uninterruptible
      /\ s1.rq.queue = st.rq.queue /\ s1.rq.rt = st.rq.rt /\ s1.rq.fair = st.rq.fair \cup {p}
      /\ s1.rq.wrr_nr_running = st.rq.wrr_nr_running /\ s1.rq.nr_running = st.rq.nr_running
      /\ s1.rq.total_weight = st.rq.total_weight
  BY <1>4 DEF State, RqRecord
<1> HIDE DEF s1
<1>6. /\ s2 \in State /\ s2.task = s1.task /\ s2.rq.curr = s1.rq.curr
      /\ s2.rq.nr_uninterruptible = s1.rq.nr_uninterruptible
      /\ s2.rq.queue = s1.rq.queue /\ s2.rq.rt = s1.rq.rt /\ s2.rq.fair = s1.rq.fair
      /\ s2.rq.wrr_nr_running = s1.rq.wrr_nr_running /\ s2.rq.nr_running = s1.rq.nr_running + 1
      /\ s2.rq.total_weight = s1.rq.total_weight
  BY <1>4, IncNrRunning, ZenonT(40)
<1> HIDE DEF s2
<1>7. SameTasks(st, s2)
  BY <1>4, <1>5, <1>6 DEF SameTasks
<1>8. /\ Counted(s2, S \cup {p}) /\ Weighed(s2, S \cup {p})
      /\ OfClass(s2, S \cup {p}, "wrr") = OfClass(st, S, "wrr")
      /\ OfClass(s2, S \cup {p}, "rt") = OfClass(st, S, "rt")
      /\ OfClass(s2, S \cup {p}, "fair") = OfClass(st, S, "fair") \cup {p}
  <2>1. WrrAside(st, s2, 1)
    BY <1>4, <1>5, <1>6 DEF WrrAside
  <2>2. st.task[p].class # "wrr"
    OBVIOUS
  <2>3. Counted(s2, S \cup {p}) /\ Weighed(s2, S \cup {p}) /\ Joins(st, s2, S, p)
    BY <2>1, <2>2, EnqueueOther
  <2> QED BY <2>3 DEF Joins
<1>9. Linked(s2, S \cup {p})
  BY <1>5, <1>6, <1>8, ZenonT(40) DEF OnLists, Linked
<1> QED BY <1>6, <1>7, <1>8, <1>9 DEF OnLists, enqueue_task_fair, s2, s1

\* dequeue_task_rt takes p off the real-time list.
LEMMA DequeueRt ==
  ASSUME NEW st \in State, NEW S \in SUBSET Task, NEW p \in S, OnLists(st, S),
         st.task[p].class = "rt", NEW e, EnvOK(e)
  PROVE  LET s2 == dequeue_task_rt(st, p, e)
         IN  s2 \in State /\ OnLists(s2, S \ {p}) /\ SameTasks(st, s2)
<1> DEFINE u  == update_curr_rt(st, e)
           l  == list_del(u.rq.rt, p)
           s1 == [u EXCEPT !.rq.rt = l]
           s2 == dec_nr_running(s1)
<1>1. s2 = dequeue_task_rt(st, p, e)
  BY DEF dequeue_task_rt
<1>2. Keeps(st, u)
  BY UpdateCurrRtKeeps
<1> HIDE DEF u
<1>3. u \in State /\ OnLists(u, S) /\ u.task[p].class = "rt"
  BY <1>2, SameListsOnLists DEF Keeps, SameTasks
<1>4. p \in Members(u.rq.rt) /\ Distinct(u.rq.rt) /\ u.rq.rt \in Seq(Task)
  BY <1>3 DEF OnLists, Linked, OfClass, State, RqRecord
<1>5. l \in Seq(Task) /\ Members(l) = Members(u.rq.rt) \ {p} /\ Distinct(l)
  BY <1>4, ListDel
<1> HIDE DEF l
<1>6. s1 \in State /\ s1.task = u.task /\ s1.rq = [u.rq EXCEPT !.rt = l]
  BY <1>3, <1>5, ZenonT(40) DEF State, RqRecord
<1>7. /\ s1.rq.curr = u.rq.curr /\ s1.rq.nr_uninterruptible = u.rq.nr_uninterruptible
      /\ s1.rq.queue = u.rq.queue /\ s1.rq.rt = l /\ s1.rq.fair = u.rq.fair
      /\ s1.rq.wrr_nr_running = u.rq.wrr_nr_running /\ s1.rq.nr_running = u.rq.nr_running
      /\ s1.rq.total_weight = u.rq.total_weight
  BY <1>3, <1>6, ZenonT(40) DEF State, RqRecord
<1> HIDE DEF s1
<1>8. /\ s2 \in State /\ s2.task = s1.task /\ s2.rq.curr = s1.rq.curr
      /\ s2.rq.nr_uninterruptible = s1.rq.nr_uninterruptible
      /\ s2.rq.queue = s1.rq.queue /\ s2.rq.rt = s1.rq.rt /\ s2.rq.fair = s1.rq.fair
      /\ s2.rq.wrr_nr_running = s1.rq.wrr_nr_running /\ s2.rq.nr_running = s1.rq.nr_running - 1
      /\ s2.rq.total_weight = s1.rq.total_weight
  BY <1>6, DecNrRunning, ZenonT(40)
<1> HIDE DEF s2
<1>9. SameTasks(st, s2)
  <2>1. SameTasks(u, s2)
    BY <1>6, <1>7, <1>8 DEF SameTasks
  <2> QED BY <1>2, <2>1, SameTasksTrans DEF Keeps
<1>10. Counted(s2, S \ {p}) /\ Weighed(s2, S \ {p}) /\ Leaves(u, s2, S, p)
  <2>1. WrrAside(u, s2, -1)
    BY <1>3, <1>6, <1>7, <1>8, ZenonT(40) DEF WrrAside, State, RqRecord
  <2>2. u.task[p].class # "wrr"
    BY <1>3
  <2> QED BY <1>3, <2>1, <2>2, DequeueOther
<1>11. Linked(s2, S \ {p})
  <2>1. /\ OfClass(s2, S \ {p}, "wrr") = OfClass(u, S, "wrr")
        /\ OfClass(s2, S \ {p}, "fair") = OfClass(u, S, "fair")
        /\ OfClass(s2, S \ {p}, "rt") = OfClass(u, S, "rt") \ {p}
    BY <1>3, <1>10, SMTT(30) DEF Leaves
  <2> QED BY <1>3, <1>5, <1>7, <1>8, <2>1, ZenonT(40) DEF OnLists, Linked
<1> QED BY <1>1, <1>8, <1>9, <1>10, <1>11 DEF OnLists

\* Dequeueing from the fair class takes p out of its tree.
LEMMA DequeueFair ==
  ASSUME NEW st \in State, NEW S \in SUBSET Task, NEW p \in S, OnLists(st, S),
         st.task[p].class = "fair"
  PROVE  LET s2 == dequeue_task_fair(st, p)
         IN  s2 \in State /\ OnLists(s2, S \ {p}) /\ SameTasks(st, s2)
<1> DEFINE u  == update_curr_fair(st)
           s1 == [u EXCEPT !.rq.fair = @ \ {p}]
           s2 == dec_nr_running(s1)
<1>1. s2 = dequeue_task_fair(st, p)
  BY DEF dequeue_task_fair
<1>2. Keeps(st, u)
  BY UpdateCurrKeeps
<1> HIDE DEF u
<1>3. u \in State /\ OnLists(u, S) /\ u.task[p].class = "fair"
  BY <1>2, SameListsOnLists DEF Keeps, SameTasks
<1>6. s1 \in State /\ s1.task = u.task /\ s1.rq = [u.rq EXCEPT !.fair = @ \ {p}]
  BY <1>3, ZenonT(40) DEF State, RqRecord
<1>7. /\ s1.rq.curr = u.rq.curr /\ s1.rq.nr_uninterruptible = u.rq.nr_uninterruptible
      /\ s1.rq.queue = u.rq.queue /\ s1.rq.rt = u.rq.rt /\ s1.rq.fair = u.rq.fair \ {p}
      /\ s1.rq.wrr_nr_running = u.rq.wrr_nr_running /\ s1.rq.nr_running = u.rq.nr_running
      /\ s1.rq.total_weight = u.rq.total_weight
  BY <1>3, <1>6, ZenonT(40) DEF State, RqRecord
<1> HIDE DEF s1
<1>8. /\ s2 \in State /\ s2.task = s1.task /\ s2.rq.curr = s1.rq.curr
      /\ s2.rq.nr_uninterruptible = s1.rq.nr_uninterruptible
      /\ s2.rq.queue = s1.rq.queue /\ s2.rq.rt = s1.rq.rt /\ s2.rq.fair = s1.rq.fair
      /\ s2.rq.wrr_nr_running = s1.rq.wrr_nr_running /\ s2.rq.nr_running = s1.rq.nr_running - 1
      /\ s2.rq.total_weight = s1.rq.total_weight
  BY <1>6, DecNrRunning, ZenonT(40)
<1> HIDE DEF s2
<1>9. SameTasks(st, s2)
  <2>1. SameTasks(u, s2)
    BY <1>6, <1>7, <1>8 DEF SameTasks
  <2> QED BY <1>2, <2>1, SameTasksTrans DEF Keeps
<1>10. Counted(s2, S \ {p}) /\ Weighed(s2, S \ {p}) /\ Leaves(u, s2, S, p)
  <2>1. WrrAside(u, s2, -1)
    BY <1>3, <1>6, <1>7, <1>8, ZenonT(40) DEF WrrAside, State, RqRecord
  <2>2. u.task[p].class # "wrr"
    BY <1>3, SMTT(30)
  <2> QED BY <1>3, <2>1, <2>2, DequeueOther
<1>11. Linked(s2, S \ {p})
  <2>1. /\ OfClass(s2, S \ {p}, "wrr") = OfClass(u, S, "wrr")
        /\ OfClass(s2, S \ {p}, "rt") = OfClass(u, S, "rt")
        /\ OfClass(s2, S \ {p}, "fair") = OfClass(u, S, "fair") \ {p}
    BY <1>3, <1>10 DEF Leaves
  <2> QED BY <1>3, <1>7, <1>8, <2>1, SMTT(30) DEF OnLists, Linked
<1> QED BY <1>1, <1>8, <1>9, <1>10, <1>11 DEF OnLists

\* enqueue_task puts p on the lists, whatever its class.
LEMMA EnqueueTask ==
  ASSUME NEW st \in State, NEW S \in SUBSET Task, NEW p \in Task \ S, OnLists(st, S),
         NEW head \in BOOLEAN
  PROVE  LET s2 == enqueue_task(st, p, head)
         IN  s2 \in State /\ OnLists(s2, S \cup {p}) /\ SameTasks(st, s2)
<1>1. st.task[p].class \in {"rt", "wrr", "fair"}
  BY DEF State, TaskType, TaskRecord
<1> QED BY <1>1, EnqueueRt, EnqueueWrr, EnqueueFair DEF enqueue_task

\* dequeue_task takes p off the lists, whatever its class.
LEMMA DequeueTask ==
  ASSUME NEW st \in State, NEW S \in SUBSET Task, NEW p \in S, OnLists(st, S),
         NEW e, EnvOK(e)
  PROVE  LET s2 == dequeue_task(st, p, e)
         IN  s2 \in State /\ OnLists(s2, S \ {p}) /\ SameTasks(st, s2)
<1>1. st.task[p].class \in {"rt", "wrr", "fair"}
  BY DEF State, TaskType, TaskRecord
<1> QED BY <1>1, DequeueRt, DequeueWrr, DequeueFair DEF dequeue_task

\* s2 is reached from st with the tasks' lives unchanged and S on the lists.
Went(st, s2, S) == s2 \in State /\ OnLists(s2, S) /\ SameTasks(st, s2)

\* Went, followed by a callback that keeps the lists.
LEMMA KeepsWent ==
  ASSUME NEW st, NEW s1, NEW s2, NEW S \in SUBSET Task, Went(st, s1, S), Keeps(s1, s2)
  PROVE  Went(st, s2, S)
BY SameListsOnLists, SameTasksTrans DEF Went, Keeps

\* list_move_tail keeps the members of the list.
LEMMA ListMoveTail ==
  ASSUME NEW q \in Seq(Task), NEW p \in Members(q), Distinct(q), p \in Task
  PROVE  /\ list_move_tail(q, p) \in Seq(Task)
         /\ Len(list_move_tail(q, p)) = Len(q)
         /\ Members(list_move_tail(q, p)) = Members(q)
         /\ Distinct(list_move_tail(q, p))
<1> DEFINE d == list_del(q, p)
<1>1. d \in Seq(Task) /\ Len(d) = Len(q) - 1 /\ Members(d) = Members(q) \ {p} /\ Distinct(d)
  BY ListDel
<1> HIDE DEF d
<1>2. /\ list_add_tail(d, p) \in Seq(Task) /\ Len(list_add_tail(d, p)) = Len(d) + 1
      /\ Members(list_add_tail(d, p)) = Members(d) \cup {p} /\ Distinct(list_add_tail(d, p))
  BY <1>1, ListAddTail
<1>3. Len(d) \in Nat /\ Len(q) \in Nat
  BY <1>1
<1>4. Members(d) \cup {p} = Members(q)
  BY <1>1
<1> QED BY <1>1, <1>2, <1>3, <1>4 DEF list_move_tail, d

\* requeue_task_wrr and requeue_task_rt keep the same tasks on the lists.
LEMMA Requeue ==
  ASSUME NEW st \in State, NEW S \in SUBSET Task, NEW p \in S, OnLists(st, S)
  PROVE  /\ st.task[p].class = "wrr" => Went(st, requeue_task_wrr(st, p), S)
         /\ st.task[p].class = "rt" => Went(st, requeue_task_rt(st, p), S)
<1>1. ASSUME st.task[p].class = "wrr"
      PROVE  Went(st, requeue_task_wrr(st, p), S)
  <2> DEFINE l  == list_move_tail(st.rq.queue, p)
             s2 == [st EXCEPT !.rq.queue = l]
  <2>1. st.rq.queue \in Seq(Task) /\ p \in Members(st.rq.queue) /\ Distinct(st.rq.queue)
    BY <1>1 DEF OnLists, Linked, OfClass, State, RqRecord
  <2>2. /\ l \in Seq(Task) /\ Len(l) = Len(st.rq.queue)
        /\ Members(l) = Members(st.rq.queue) /\ Distinct(l)
    BY <2>1, ListMoveTail
  <2> HIDE DEF l
  <2>3. s2 \in State /\ s2.task = st.task /\ s2.rq = [st.rq EXCEPT !.queue = l] /\ st.rq \in RqRecord
    BY <2>2, ZenonT(40) DEF State, RqRecord
  <2> HIDE DEF s2
  <2>4. /\ \A c : OfClass(s2, S, c) = OfClass(st, S, c)
        /\ \A w : OfWeight(s2, S, w) = OfWeight(st, S, w)
    BY <2>3 DEF OfClass, OfWeight
  <2>5. Linked(s2, S) /\ Counted(s2, S) /\ Weighed(s2, S)
    BY <2>2, <2>3, <2>4 DEF OnLists, Linked, Counted, Weighed, RqRecord
  <2>6. SameTasks(st, s2)
    BY <2>3 DEF SameTasks, RqRecord
  <2> QED BY <2>3, <2>5, <2>6 DEF Went, OnLists, requeue_task_wrr, s2, l
<1>2. ASSUME st.task[p].class = "rt"
      PROVE  Went(st, requeue_task_rt(st, p), S)
  <2> DEFINE l  == list_move_tail(st.rq.rt, p)
             s2 == [st EXCEPT !.rq.rt = l]
  <2>1. st.rq.rt \in Seq(Task) /\ p \in Members(st.rq.rt) /\ Distinct(st.rq.rt)
    BY <1>2 DEF OnLists, Linked, OfClass, State, RqRecord
  <2>2. /\ l \in Seq(Task)
        /\ Members(l) = Members(st.rq.rt) /\ Distinct(l)
    BY <2>1, ListMoveTail
  <2> HIDE DEF l
  <2>3. s2 \in State /\ s2.task = st.task /\ s2.rq = [st.rq EXCEPT !.rt = l] /\ st.rq \in RqRecord
    BY <2>2, ZenonT(40) DEF State, RqRecord
  <2> HIDE DEF s2
  <2>4. /\ \A c : OfClass(s2, S, c) = OfClass(st, S, c)
        /\ \A w : OfWeight(s2, S, w) = OfWeight(st, S, w)
    BY <2>3 DEF OfClass, OfWeight
  <2>5. Linked(s2, S) /\ Counted(s2, S) /\ Weighed(s2, S)
    BY <2>2, <2>3, <2>4 DEF OnLists, Linked, Counted, Weighed, RqRecord
  <2>6. SameTasks(st, s2)
    BY <2>3 DEF SameTasks, RqRecord
  <2> QED BY <2>3, <2>5, <2>6 DEF Went, OnLists, requeue_task_rt, s2, l
<1> QED BY <1>1, <1>2

\* check_preempt_curr at most asks for a reschedule.
LEMMA CheckPreemptKeeps ==
  ASSUME NEW st \in State, NEW p \in Task, NEW e
  PROVE  Keeps(st, check_preempt_curr(st, p, e))
<1>1. st.task[p].class \in {"rt", "wrr", "fair"} /\ CurrClass(st) \in {"rt", "wrr", "fair", "idle"}
  BY DEF State, RqRecord, TaskType, TaskRecord, CurrClass
<1> QED BY <1>1, ReschedKeeps, KeepsRefl DEF check_preempt_curr

\* switched_to_wrr keeps the lists: the weight it writes is the one the
\* enqueue before it has written.
LEMMA SwitchedToWrrKeeps ==
  ASSUME NEW st \in State, NEW S \in SUBSET Task, NEW p \in Task, OnLists(st, S),
         st.task[p].class = "wrr", st.task[p].on_rq => p \in S
  PROVE  Keeps(st, switched_to_wrr(st, p))
<1> DEFINE r == resched_task(st)
<1>1. Keeps(st, r) /\ r.task = st.task
  BY ReschedKeeps DEF resched_task, State
<1>2. ASSUME st.task[p].on_rq, st.rq.curr # p
      PROVE  [r EXCEPT !.task[p].weight = group_weight(st.task[p].group)] = r
  <2>1. st.task[p].weight = group_weight(st.task[p].group)
    BY <1>2 DEF OnLists, Weighed, OfClass
  <2> HIDE DEF r
  <2> QED BY <1>1, <2>1 DEF Keeps, State, TaskType, TaskRecord
<1> QED BY <1>1, <1>2, KeepsRefl DEF switched_to_wrr

\* check_class_changed keeps the lists.
LEMMA ClassChangedKeeps ==
  ASSUME NEW st \in State, NEW S \in SUBSET Task, NEW p \in Task, OnLists(st, S),
         st.task[p].on_rq => p \in S, NEW prev_class, NEW oldprio, NEW e
  PROVE  Keeps(st, check_class_changed(st, p, prev_class, oldprio, e))
<1>1. st.task[p].class \in {"rt", "wrr", "fair"}
  BY DEF State, TaskType, TaskRecord
<1>2. Keeps(st, switched_to_rt(st, p)) /\ Keeps(st, prio_changed_rt(st, p, oldprio))
  BY ReschedKeeps, ZenonT(40) DEF switched_to_rt, prio_changed_rt
<1>3. Keeps(st, switched_to_fair(st, p, e)) /\ Keeps(st, prio_changed_fair(st, p, oldprio, e))
  BY ReschedKeeps, KeepsRefl, CheckPreemptKeeps DEF switched_to_fair, prio_changed_fair
<1>4. st.task[p].class = "wrr" => Keeps(st, switched_to_wrr(st, p))
  BY SwitchedToWrrKeeps
<1> QED BY <1>1, <1>2, <1>3, <1>4, KeepsRefl DEF check_class_changed
=============================================================================
