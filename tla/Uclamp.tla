------------------------------- MODULE Uclamp -------------------------------
(***************************************************************************)
(* Utilization clamping (project_Process Scheduler/src/core.c, CONFIG_     *)
(* UCLAMP_TASK and CONFIG_UCLAMP_TASK_GROUP) on one runqueue: the buckets  *)
(* that refcount the clamps of runnable tasks, the runqueue's cached       *)
(* clamp, the static key that switches the accounting on while tasks are   *)
(* already queued, and the slow path that pushes a new group or system     *)
(* limit into the runnable tasks one task at a time.                       *)
(***************************************************************************)
EXTENDS Integers, SequencesExt

CONSTANTS
    UTask,           \* tasks
    UGroup,          \* task groups other than the root
    URoot,           \* root_task_group
    UParent,         \* the parent of each group of UGroup
    UNone,           \* no slow path in progress
    CAPACITY,        \* SCHED_CAPACITY_SCALE
    UCLAMP_BUCKETS,
    UClass,          \* the classes a task may get; "dl" has no uclamp_enabled
    USettings,       \* what uclamp_setattr sets: nothing, one clamp or both
    UDefaults,       \* what is written to the two sysctls, as <<min, max>>
    Percent          \* what is written to cpu.uclamp.*, in hundredths of a percent

\* What the constants must satisfy.
UAssumption ==
    /\ CAPACITY \in Nat \ {0} /\ UCLAMP_BUCKETS \in 1..CAPACITY
    /\ URoot \notin UGroup /\ UParent \in [UGroup -> UGroup \cup {URoot}]
    /\ UClass \subseteq {"fair", "rt", "dl"} /\ "fair" \in UClass
    /\ USettings \subseteq UNION {[ids -> 0..CAPACITY] : ids \in SUBSET {"min", "max"}}
    /\ UDefaults \subseteq (0..CAPACITY) \X (0..CAPACITY)

VARIABLES
    used,       \* sched_uclamp_used
    default,    \* uclamp_default
    tg,         \* task groups: uclamp_req and uclamp, by clamp id
    req,        \* p->uclamp_req
    uc,         \* p->uclamp
    class,      \* the task's class; "dl" is the one without uclamp_enabled
    group,      \* task_group(p)
    queued,     \* the tasks on the runqueue
    urq,        \* rq->uclamp: value and buckets, and UCLAMP_FLAG_IDLE
    ujob,        \* cpu_util_update_eff in progress: groups and tasks still to do
    ustale       \* tasks whose clamp predates the last write of a sysctl

uvars == <<used, default, tg, req, uc, class, group, queued, urq, ujob, ustale>>

Clamp == {"min", "max"}

Buckets == 0..UCLAMP_BUCKETS - 1

Least(a, b) == IF a < b THEN a ELSE b

\* DIV_ROUND_CLOSEST(SCHED_CAPACITY_SCALE, UCLAMP_BUCKETS)
UCLAMP_BUCKET_DELTA == (CAPACITY + UCLAMP_BUCKETS \div 2) \div UCLAMP_BUCKETS

uclamp_bucket_id(v) == Least(v \div UCLAMP_BUCKET_DELTA, UCLAMP_BUCKETS - 1)

uclamp_none(id) == IF id = "min" THEN 0 ELSE CAPACITY

----------------------------------------------------------------------------
\* Effective values

\* Of a request v by a task of group g.
uclamp_tg_restrict(v, g) ==
    LET lo == tg[g].eff["min"]
        hi == tg[g].eff["max"]
    IN  IF g = URoot THEN v ELSE IF v < lo THEN lo ELSE IF v > hi THEN hi ELSE v

uclamp_eff_get(v, g, id) == Least(uclamp_tg_restrict(v, g), default[id])

Eff(p, id) == uclamp_eff_get(req[p][id].value, group[p], id)

\* The operators below map a record [uc, rq] to the next one, under rq->lock.
UAt(u, r) == [uc |-> u, rq |-> r]

\* The clamp of a task that is not counted; its other fields are not read.
Uncounted == [value |-> 0, bucket |-> 0, active |-> FALSE]

\* The value of an empty bucket is not read before it is set again.
EmptyBucket == [tasks |-> 0, value |-> 0]

Full(b) == {k \in Buckets : b[k].tasks > 0}

\* uclamp_rq_max_value, with uclamp_idle_value when no bucket is left.
uclamp_rq_max_value(r, id, v) ==
    LET full == Full(r.bucket[id])
    IN  IF full # {} THEN [r EXCEPT !.value[id] = r.bucket[id][Max(full)].value]
        ELSE IF id = "max" THEN [r EXCEPT !.idle = TRUE, !.value[id] = v]
        ELSE [r EXCEPT !.value[id] = uclamp_none("min")]

bucket_add(b, v) ==
    [tasks |-> b.tasks + 1, value |-> IF b.tasks = 0 \/ v > b.value THEN v ELSE b.value]

uclamp_idle_reset(r, id, v) == IF r.idle THEN v ELSE r.value[id]

\* v is the effective value.
uclamp_rq_inc_id(s, p, id, v) ==
    LET k == uclamp_bucket_id(v)
        held == uclamp_idle_reset(s.rq, id, v)
    IN  UAt([s.uc EXCEPT ![p][id] = [value |-> v, bucket |-> k, active |-> TRUE]],
           [s.rq EXCEPT !.bucket[id][k] = bucket_add(@, v),
                        !.value[id] = IF v > held THEN v ELSE held])

uncounted(e) == ~e.active

uclamp_rq_dec_id(s, p, id) ==
    LET e == s.uc[p][id]
        b == s.rq.bucket[id][e.bucket]
        r == [s.rq EXCEPT !.bucket[id][e.bucket] =
                IF b.tasks < 2 THEN EmptyBucket ELSE [@ EXCEPT !.tasks = @ - 1]]
    IN  IF uncounted(e) THEN s
        ELSE UAt([s.uc EXCEPT ![p][id] = Uncounted],
                IF r.bucket[id][e.bucket].tasks = 0 /\ b.value >= r.value[id]
                THEN uclamp_rq_max_value(r, id, e.value) ELSE r)

\* The key is on and the class has clamps.
Counts(on, c) == on /\ c # "dl"

\* v are the effective values.
uclamp_rq_inc(s, p, v) ==
    LET n == uclamp_rq_inc_id(uclamp_rq_inc_id(s, p, "min", v["min"]), p, "max", v["max"])
    IN  [n EXCEPT !.rq.idle = FALSE]

uclamp_rq_dec(s, p) ==
    IF ~Counts(used, class[p]) THEN s
    ELSE uclamp_rq_dec_id(uclamp_rq_dec_id(s, p, "min"), p, "max")

clear_idle(r, id) == IF id = "max" THEN [r EXCEPT !.idle = FALSE] ELSE r

uclamp_rq_reinc_id(s, p, id) ==
    IF uncounted(s.uc[p][id]) THEN s
    ELSE LET n == uclamp_rq_inc_id(uclamp_rq_dec_id(s, p, id), p, id, Eff(p, id))
         IN  [n EXCEPT !.rq = clear_idle(n.rq, id)]

Apply(s) == uc' = s.uc /\ urq' = s.rq

Here == UAt(uc, urq)

----------------------------------------------------------------------------
\* The fast path

enqueue_task(p) ==
    /\ p \notin queued
    /\ queued' = queued \cup {p}
    /\ IF Counts(used, class[p])
       THEN Apply(uclamp_rq_inc(Here, p, [id \in Clamp |-> Eff(p, id)])) /\ ustale' = ustale \ {p}
       ELSE UNCHANGED <<uc, urq, ustale>>
    /\ UNCHANGED <<used, default, tg, req, class, group, ujob>>

dequeue_task(p) ==
    /\ p \in queued
    /\ queued' = queued \ {p}
    /\ Apply(uclamp_rq_dec(Here, p))
    /\ UNCHANGED <<used, default, tg, req, class, group, ujob, ustale>>

----------------------------------------------------------------------------
\* sched_setattr: validation, then the change between dequeue and enqueue

uclamp_validate(p, lo, hi) == lo =< hi /\ hi =< CAPACITY

\* __setscheduler_uclamp: defaults for what the user has not set, then what
\* the user sets.
__setscheduler_uclamp(p, c, set) ==
    [id \in Clamp |->
       IF id \in DOMAIN set THEN [value |-> set[id], user |-> TRUE]
       ELSE IF req[p][id].user THEN req[p][id]
       ELSE [value |-> IF c = "rt" /\ id = "min" THEN CAPACITY ELSE uclamp_none(id),
             user |-> FALSE]]

\* Off the queue as the task was, on again as it is now.
Requeue(p, nreq, nclass, ngroup) ==
    LET off == IF p \in queued THEN uclamp_rq_dec(Here, p) ELSE Here
    IN  IF p \in queued /\ Counts(used', nclass)
        THEN /\ Apply(uclamp_rq_inc(off, p,
                        [id \in Clamp |-> uclamp_eff_get(nreq[id].value, ngroup, id)]))
             /\ ustale' = ustale \ {p}
        ELSE Apply(off) /\ UNCHANGED ustale

uclamp_setattr(p, c, set) ==
    LET lo == IF "min" \in DOMAIN set THEN set["min"] ELSE req[p]["min"].value
        hi == IF "max" \in DOMAIN set THEN set["max"] ELSE req[p]["max"].value
    IN  /\ DOMAIN set # {} => uclamp_validate(p, lo, hi)
        /\ used' = (used \/ DOMAIN set # {})
        /\ req' = [req EXCEPT ![p] = __setscheduler_uclamp(p, c, set)]
        /\ class' = [class EXCEPT ![p] = c]
        /\ Requeue(p, req'[p], c, group[p])
        /\ UNCHANGED <<default, tg, group, queued, ujob>>

\* cpu_cgroup_attach -> sched_move_task
sched_move_task(p, g) ==
    /\ g # group[p] /\ tg[g].live
    /\ group' = [group EXCEPT ![p] = g]
    /\ used' = used
    /\ Requeue(p, req[p], class[p], g)
    /\ UNCHANGED <<default, tg, req, class, queued, ujob>>

\* A child of q takes p's slot: uclamp_fork.
uclamp_fork(p, q, reset) ==
    /\ p \notin queued /\ p # q
    /\ uc' = [uc EXCEPT ![p] = [id \in Clamp |-> Uncounted]]
    /\ req' = [req EXCEPT ![p] =
         IF reset THEN [id \in Clamp |-> [value |-> uclamp_none(id), user |-> FALSE]]
         ELSE req[q]]
    /\ class' = [class EXCEPT ![p] = IF reset THEN "fair" ELSE class[q]]
    /\ group' = [group EXCEPT ![p] = group[q]]
    /\ UNCHANGED <<used, default, tg, queued, urq, ujob, ustale>>

----------------------------------------------------------------------------
\* The slow path, under uclamp_mutex: ujob is not UNone

\* The groups above each group, up to the root.
Above[g \in UGroup] ==
    {UParent[g]} \cup IF UParent[g] = URoot THEN {} ELSE Above[UParent[g]]

\* g and all groups below it in the order of css_for_each_descendant_pre: a group
\* comes after its parent, and what is below it follows it at once.
Preorder(g) ==
    <<g>> \o CHOOSE q \in SetToSeqs({h \in UGroup : tg[h].live /\ g \in Above[h]}) :
      \A i \in DOMAIN q, j \in DOMAIN q :
        /\ q[i] \in Above[q[j]] => i < j
        /\ i < j /\ q[i] \in Above[q[j]] => \A k \in i + 1..j : q[i] \in Above[q[k]]

\* The new group starts with its parent's effective clamps.
alloc_uclamp_sched_group(parent) ==
    [live |-> TRUE, req |-> [id \in Clamp |-> uclamp_none(id)], eff |-> parent.eff]

\* cpu_cgroup_css_alloc and cpu_cgroup_css_online.
cpu_cgroup_css_online(g) ==
    /\ ujob = UNone /\ ~tg[g].live /\ tg[UParent[g]].live
    /\ tg' = [tg EXCEPT ![g] = alloc_uclamp_sched_group(tg[UParent[g]])]
    /\ ujob' = [groups |-> <<g>>, tasks |-> {}]
    /\ UNCHANGED <<used, default, req, uc, class, group, queued, urq, ustale>>

cpu_uclamp_write(g, id, percent) ==
    LET util == (percent * CAPACITY + 5000) \div 10000
    IN  /\ ujob = UNone /\ percent =< 10000 /\ tg[g].live
        /\ used' = TRUE
        /\ tg' = [tg EXCEPT ![g].req[id] = util]
        /\ ujob' = [groups |-> Preorder(g), tasks |-> {}]
        /\ UNCHANGED <<default, req, uc, class, group, queued, urq, ustale>>

\* A rejected write leaves both limits as they were.
sysctl_sched_uclamp_handler(lo, hi) ==
    /\ ujob = UNone
    /\ lo =< hi /\ hi =< CAPACITY
    /\ <<lo, hi>> # <<default["min"], default["max"]>>
    /\ used' = TRUE
    /\ default' = [default EXCEPT !["min"] = lo, !["max"] = hi]
    /\ tg' = [tg EXCEPT ![URoot].req = [id \in Clamp |-> IF id = "min" THEN lo ELSE hi]]
    /\ ujob' = [groups |-> Preorder(URoot), tasks |-> {}]
    /\ ustale' = {p \in UTask : uc[p]["max"].active}
    /\ UNCHANGED <<req, uc, class, group, queued, urq>>

min_capped(lo, hi) == Least(lo, hi)

\* Only the limit is compared, not the protection.
OnlyMax(old, new) == old["max"] # new["max"]

eff_changed(old, new) == old # new

\* One group of cpu_util_update_eff: its new effective clamps; a group whose
\* clamps do not change ends the walk below it.
cpu_util_update_eff ==
    /\ ujob # UNone /\ ujob.tasks = {} /\ ujob.groups # <<>>
    /\ LET g == Head(ujob.groups)
           cap(id) == IF g = URoot THEN tg[g].req[id]
                      ELSE Least(tg[g].req[id], tg[UParent[g]].eff[id])
           eff == [id \in Clamp |-> IF id = "min" THEN min_capped(cap("min"), cap("max"))
                                    ELSE cap("max")]
           changed == eff_changed(tg[g].eff, eff)
       IN  /\ tg' = [tg EXCEPT ![g].eff = eff]
           /\ ujob' = [groups |-> SelectSeq(Tail(ujob.groups),
                                   LAMBDA h : changed \/ g \notin Above[h]),
                      tasks |-> IF changed THEN {p \in UTask : group[p] = g} ELSE {}]
    /\ UNCHANGED <<used, default, req, uc, class, group, queued, urq, ustale>>

\* uclamp_update_active under task_rq_lock, for one task of the group.
uclamp_update_active(p) ==
    /\ ujob # UNone /\ p \in ujob.tasks
    /\ ujob' = [ujob EXCEPT !.tasks = @ \ {p}]
    /\ Apply(uclamp_rq_reinc_id(uclamp_rq_reinc_id(Here, p, "min"), p, "max"))
    /\ ustale' = IF uc[p]["max"].active THEN ustale \ {p} ELSE ustale
    /\ UNCHANGED <<used, default, tg, req, class, group, queued>>

update_eff_done ==
    /\ ujob # UNone /\ ujob.tasks = {} /\ ujob.groups = <<>>
    /\ ujob' = UNone
    /\ UNCHANGED <<used, default, tg, req, uc, class, group, queued, urq, ustale>>

----------------------------------------------------------------------------
\* init_uclamp and init_uclamp_rq
UInit ==
    /\ used = FALSE
    /\ default = [id \in Clamp |-> CAPACITY]
    /\ tg = [g \in UGroup \cup {URoot} |->
               [live |-> g = URoot, req |-> [id \in Clamp |-> CAPACITY],
                eff |-> [id \in Clamp |-> CAPACITY]]]
    /\ req = [p \in UTask |-> [id \in Clamp |-> [value |-> uclamp_none(id), user |-> FALSE]]]
    /\ uc = [p \in UTask |-> [id \in Clamp |-> Uncounted]]
    /\ class = [p \in UTask |-> "fair"]
    /\ group = [p \in UTask |-> URoot]
    /\ queued = {}
    /\ urq = [value |-> [id \in Clamp |-> uclamp_none(id)], idle |-> TRUE,
              bucket |-> [id \in Clamp |-> [k \in Buckets |-> EmptyBucket]]]
    /\ ujob = UNone
    /\ ustale = {}

UNext ==
    \/ \E p \in UTask :
         \/ enqueue_task(p) \/ dequeue_task(p) \/ uclamp_update_active(p)
         \/ \E c \in UClass, set \in USettings : uclamp_setattr(p, c, set)
         \/ \E g \in UGroup \cup {URoot} : sched_move_task(p, g)
         \/ \E q \in UTask, reset \in BOOLEAN : uclamp_fork(p, q, reset)
    \/ \E g \in UGroup, id \in Clamp, percent \in Percent : cpu_uclamp_write(g, id, percent)
    \/ \E d \in UDefaults : sysctl_sched_uclamp_handler(d[1], d[2])
    \/ cpu_util_update_eff \/ update_eff_done
    \/ \E g \in UGroup : cpu_cgroup_css_online(g)

USpec == UInit /\ [][UNext]_uvars

----------------------------------------------------------------------------
\* Properties

Active(id) == {p \in UTask : uc[p][id].active}

\* A bucket counts exactly the runnable tasks that refer to it, also for tasks
\* that were queued before the static key was switched on ("Must not decrement
\* bucket->tasks here").
BucketsCountTasks ==
    /\ \A id \in Clamp : Active(id) \subseteq queued
    /\ \A id \in Clamp, k \in Buckets :
         urq.bucket[id][k].tasks = Cardinality({p \in Active(id) : uc[p][id].bucket = k})

\* The runqueue's cached clamp is the largest value of a bucket in use, and no
\* runnable task in a bucket has a larger one: what the frequency governor
\* reads never falls below what a task was granted (both SCHED_WARN_ONs).
CachedClampIsMax ==
    \A id \in Clamp :
      LET full == Full(urq.bucket[id])
      IN  /\ full # {} => urq.value[id] = Max({urq.bucket[id][k].value : k \in full})
          /\ \A p \in Active(id) : uc[p][id].value =< urq.bucket[id][uc[p][id].bucket].value

\* The last max-clamp is held exactly while no task is counted, so the first
\* task to come replaces it.
IdleHoldsClamp == urq.idle <=> Active("max") = {}

\* A runnable task has the clamp its request, its group and the system allow
\* now, unless the walk that brings it a new limit has not reached it yet, or a
\* sysctl was written since it was counted that left the clamps of its group as
\* they were: such a task follows "at each next task enqueue time", as
\* sysctl_sched_uclamp_handler says.
GroupLimitReaches ==
    \A p \in UTask, id \in Clamp :
      uc[p][id].active /\ p \notin ustale /\ ujob = UNone => uc[p][id].value = Eff(p, id)

\* Once a walk is over, a group's protection is within its limit and both are
\* within its parent's effective clamps.
LimitsNest ==
    ujob = UNone =>
      \A g \in UGroup :
        tg[g].live => /\ tg[g].eff["min"] =< tg[g].eff["max"]
                      /\ \A id \in Clamp : tg[g].eff[id] =< tg[UParent[g]].eff[id]

\* The clamps of the runqueue, its buckets, the tasks in them and the groups
\* above those agree (uclamp_rq_inc_id, uclamp_rq_dec_id, cpu_util_update_eff).
ClampsExact ==
    /\ BucketsCountTasks /\ CachedClampIsMax /\ IdleHoldsClamp
    /\ GroupLimitReaches /\ LimitsNest
=============================================================================
