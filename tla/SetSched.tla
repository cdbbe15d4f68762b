------------------------------ MODULE SetSched ------------------------------
(***************************************************************************)
(* How a task's policy, nice value and priority change: nice, the          *)
(* sched_setscheduler family, fork and the rt_mutex boost of the process   *)
(* scheduler's core.c.                                                     *)
(*                                                                         *)
(* A call of __sched_setscheduler is three steps, because the code reads   *)
(* the task before it takes the run queue's lock and repairs the boosts of *)
(* the lock owner only after it dropped it: check, change, adjust.         *)
(* Between them the other callers run.  The rtmutex code that decides whom *)
(* a waiter boosts is outside the repository and is modelled from its one  *)
(* call, rt_mutex_setprio.                                                 *)
(*                                                                         *)
(* The policies stand for their kind: NORMAL for the fair ones, FIFO for   *)
(* the real-time ones, DEADLINE.                                           *)
(***************************************************************************)
EXTENDS Integers, FiniteSets, FiniteSetsExt

CONSTANTS
    SsTask,       \* the tasks; one exists at boot, the others are forked
    SsFirst,      \* the task that exists at boot
    SsCaller,     \* the contexts that may have a call in flight
    SsNone,       \* no task
    SsUnpriv,     \* the callers without CAP_SYS_NICE and with zero limits
    SsNice,       \* the nice values, 0 and some above or below it
    SS_MAX_RT,    \* MAX_RT_PRIO: real-time priorities are 1 .. SS_MAX_RT - 1
    SsAttr        \* the sched_attr arguments of the calls

\* What the constants must satisfy.
SsAssumption ==
    /\ IsFiniteSet(SsTask) /\ SsFirst \in SsTask /\ SsNone \notin SsTask
    /\ SsUnpriv \subseteq SsCaller
    /\ SsNice \subseteq Int /\ 0 \in SsNice /\ IsFiniteSet(SsNice)
    /\ SS_MAX_RT \in Nat \ {0, 1}
    /\ SsAttr \subseteq
          [policy : {"NORMAL", "FIFO", "DEADLINE", "-1"}, nice : SsNice,
           priority : 0 .. SS_MAX_RT - 1, reset : BOOLEAN, keep : BOOLEAN]

VARIABLES
    tsk,      \* the scheduling fields of every task
    waits,    \* the rt_mutex each task is blocked on, named by its owner
    call      \* the __sched_setscheduler call of every caller

ssvars == <<tsk, waits, call>>

SETPARAM_POLICY == "-1"

(***************************************************************************)
(* Priorities.  NICE_TO_PRIO places nice 0 in the middle of the range      *)
(* above the real-time priorities.                                         *)
(***************************************************************************)
NICE_TO_PRIO(nice) == SS_MAX_RT + nice - Min(SsNice)
dl_prio(prio) == prio < 0
rt_prio(prio) == prio < SS_MAX_RT

normal_prio(t) ==
    CASE t.policy = "DEADLINE" -> -1
      [] t.policy = "FIFO" -> SS_MAX_RT - 1 - t.rt_priority
      [] OTHER -> NICE_TO_PRIO(t.nice)

\* A boost to a real-time priority survives; any other is recomputed.
effective_prio(t) == IF rt_prio(t.prio) THEN t.prio ELSE normal_prio(t)

class_of_prio(prio) ==
    IF dl_prio(prio) THEN "dl" ELSE IF rt_prio(prio) THEN "rt" ELSE "fair"

\* __rt_effective_prio: the better of a priority and the donor's own.
rt_effective_prio(donor, prio) ==
    IF donor = SsNone THEN prio ELSE Min({prio, tsk[donor].prio})

Waiters(p) == {d \in SsTask : waits[d].on = p}

SsIdleCall == [pc |-> "none"]

SsInit ==
    /\ tsk = [p \in SsTask |->
                [alive |-> p = SsFirst, policy |-> "NORMAL", nice |-> 0,
                 rt_priority |-> 0, normal_prio |-> NICE_TO_PRIO(0),
                 prio |-> NICE_TO_PRIO(0), class |-> "fair", reset |-> FALSE,
                 donor |-> SsNone, boosted |-> FALSE]]
    /\ waits = [p \in SsTask |-> [on |-> SsNone, prio |-> 0]]
    /\ call = [c \in SsCaller |-> SsIdleCall]

(***************************************************************************)
(* rt_mutex_setprio: nothing to do when the donor and the effective        *)
(* priority are what they were, unless the priority is a deadline one.     *)
(* earlier says whether the donor's deadline is before the task's own.     *)
(***************************************************************************)
setprio_bails(t, donor, prio) ==
    t.donor = donor /\ prio = t.prio /\ ~dl_prio(prio)

rt_mutex_setprio(t, donor, prio, earlier) ==
    IF setprio_bails(t, donor, prio) THEN t
    ELSE IF prio = t.prio /\ ~dl_prio(prio) THEN [t EXCEPT !.donor = donor]
    ELSE [t EXCEPT !.donor = donor, !.prio = prio,
                   !.class = class_of_prio(prio),
                   !.boosted = IF dl_prio(prio)
                               THEN ~dl_prio(t.normal_prio) \/ earlier
                               ELSE IF dl_prio(t.prio) THEN FALSE ELSE @]

\* The donor's deadline matters only when it has one.
DeadlineOrders(donor) ==
    IF donor # SsNone /\ dl_prio(tsk[donor].prio) THEN BOOLEAN ELSE {FALSE}

TopWaiter(w, p) ==
    LET W == {d \in SsTask : w[d].on = p} IN
    IF W = {} THEN SsNone
    ELSE CHOOSE d \in W : \A e \in W : w[d].prio <= w[e].prio

\* The owner's boost follows the waiters, with the owner's pi_lock held.
AdjustOwner(w, p) ==
    LET donor == TopWaiter(w, p) IN
    \E earlier \in DeadlineOrders(donor) :
        tsk' = [tsk EXCEPT ![p] =
                  rt_mutex_setprio(@, donor,
                      rt_effective_prio(donor, @.normal_prio), earlier)]

\* External: a task blocks on an rt_mutex that p holds.
rt_mutex_lock(d, p) ==
    /\ d # p /\ tsk[d].alive /\ tsk[p].alive
    /\ waits[d].on = SsNone /\ waits[p].on = SsNone /\ Waiters(d) = {}
    /\ waits' = [waits EXCEPT ![d] = [on |-> p, prio |-> tsk[d].prio]]
    /\ AdjustOwner(waits', p)
    /\ UNCHANGED call

\* External: p releases it to its top waiter and is boosted no longer.
rt_mutex_unlock(p) ==
    /\ Waiters(p) # {}
    /\ waits' = [d \in SsTask |->
                    IF waits[d].on = p THEN [on |-> SsNone, prio |-> 0]
                    ELSE waits[d]]
    /\ AdjustOwner(waits', p)
    /\ UNCHANGED call

(***************************************************************************)
(* nice and setpriority.  A real-time or deadline task only remembers the  *)
(* value.                                                                  *)
(***************************************************************************)
set_user_nice(p, nice) ==
    /\ tsk[p].alive /\ tsk[p].nice # nice
    /\ LET set == [tsk[p] EXCEPT !.nice = nice] IN
       tsk' = [tsk EXCEPT ![p] =
                IF set.policy # "NORMAL" THEN set
                ELSE [set EXCEPT !.normal_prio = normal_prio(set),
                                 !.prio = effective_prio(set)]]
    /\ UNCHANGED <<waits, call>>

(***************************************************************************)
(* __sched_setscheduler.                                                   *)
(***************************************************************************)
\* Without CAP_SYS_NICE and with limits of zero a caller only lowers.
permitted(c, t, policy, attr, reset) ==
    c \in SsUnpriv =>
        /\ policy = "NORMAL" => attr.nice >= t.nice
        /\ policy = "FIFO" =>
              policy = t.policy /\ attr.priority <= t.rt_priority
        /\ policy # "DEADLINE"
        /\ t.reset => reset

valid_params(policy, attr) ==
    (policy = "FIFO") = (attr.priority # 0)

\* recheck: everything up to task_rq_lock, on values read without the lock.
\* A policy below zero stands for the task's own, remembered in oldpolicy.
recheck(c, p, attr, policy) ==
    LET t == tsk[p]
        own == policy = SETPARAM_POLICY
        want == IF own THEN t.policy ELSE policy
        reset == IF own THEN t.reset ELSE attr.reset
    IN  IF valid_params(want, attr) /\ permitted(c, t, want, attr, reset)
        THEN [pc |-> "change", p |-> p, attr |-> attr, policy |-> want,
              oldpolicy |-> IF own THEN want ELSE SETPARAM_POLICY,
              reset |-> reset]
        ELSE SsIdleCall

\* sched_setattr, and sched_setscheduler and sched_setparam, whose attr
\* carries the nice value the task has now and keeps no parameters.
sched_setattr(c, p, attr) ==
    /\ call[c].pc = "none" /\ tsk[p].alive
    /\ call' = [call EXCEPT ![c] = recheck(c, p, attr, attr.policy)]
    /\ UNCHANGED <<tsk, waits>>

_sched_setscheduler(c, p, attr) ==
    sched_setattr(c, p, [attr EXCEPT !.nice = tsk[p].nice, !.keep = FALSE])

\* The same policy with the same parameters only stores reset_on_fork.
nothing_changes(k, t) ==
    /\ k.policy = t.policy
    /\ k.policy = "NORMAL" => k.attr.nice = t.nice
    /\ k.policy = "FIFO" => k.attr.priority = t.rt_priority

RecheckSkipped(k, t) == FALSE

policy_changed(k, t) ==
    k.oldpolicy # SETPARAM_POLICY /\ k.oldpolicy # t.policy

__setscheduler_params(t, attr) ==
    LET policy == IF attr.policy = SETPARAM_POLICY THEN t.policy
                  ELSE attr.policy
        set == [t EXCEPT !.policy = policy, !.rt_priority = attr.priority,
                         !.nice = IF policy = "NORMAL" THEN attr.nice ELSE @]
    IN  [set EXCEPT !.normal_prio = normal_prio(set)]

BoostDropped(t) == t.normal_prio

boosted_prio(t) == rt_effective_prio(t.donor, t.normal_prio)

setscheduler_class(t, prio) == class_of_prio(prio)

\* __setscheduler: KEEP_PARAMS changes nothing, the boost is kept.
__setscheduler(t, attr) ==
    LET set == __setscheduler_params(t, attr)
        prio == boosted_prio(set)
    IN  IF attr.keep THEN t
        ELSE [set EXCEPT !.prio = prio,
                         !.class = setscheduler_class(set, prio)]

\* The part under the lock: recheck, refuse, or change.
setscheduler_locked(c) ==
    LET k == call[c]
        t == tsk[k.p]
        end(pc) == call' = [call EXCEPT ![c] =
                              IF pc = "adjust" THEN [pc |-> pc, p |-> k.p]
                              ELSE SsIdleCall]
    IN  /\ k.pc = "change"
        /\ UNCHANGED waits
        /\ \/ /\ nothing_changes(k, t)
              /\ k.policy # "DEADLINE"
              /\ tsk' = [tsk EXCEPT ![k.p].reset = k.reset]
              /\ end("none")
           \/ /\ ~nothing_changes(k, t) \/ k.policy = "DEADLINE"
              /\ policy_changed(k, t)
              /\ call' = [call EXCEPT ![c] =
                            recheck(c, k.p, k.attr, SETPARAM_POLICY)]
              /\ UNCHANGED tsk
           \/ /\ ~nothing_changes(k, t) \/ k.policy = "DEADLINE"
              /\ ~policy_changed(k, t)
              /\ tsk' = [tsk EXCEPT ![k.p] =
                           [__setscheduler(t, k.attr) EXCEPT !.reset = k.reset]]
              /\ end("adjust")
           \/ \* no runtime in the group, no deadline bandwidth
              /\ k.policy # "NORMAL" \/ t.class = "dl"
              /\ UNCHANGED tsk
              /\ end("none")

\* External, rt_mutex_adjust_pi: the changed task, if it waits, requeues itself and
\* passes its new priority to the owner.
rt_mutex_adjust_pi(c) ==
    LET d == call[c].p
        p == waits[d].on
    IN  /\ call[c].pc = "adjust"
        /\ call' = [call EXCEPT ![c] = SsIdleCall]
        /\ IF p = SsNone
           THEN UNCHANGED <<tsk, waits>>
           ELSE /\ waits' = [waits EXCEPT ![d].prio = tsk[d].prio]
                /\ AdjustOwner(waits', p)

(***************************************************************************)
(* sched_fork: the child starts at the parent's normal priority, so that a *)
(* boost does not leak, and reset_on_fork brings it back to SCHED_NORMAL.  *)
(* A deadline parent that does not reset cannot fork.                      *)
(***************************************************************************)
sched_fork(p, child) ==
    LET t == tsk[p]
        copy == [t EXCEPT !.prio = t.normal_prio, !.donor = SsNone,
                          !.boosted = FALSE]
        zero == [copy EXCEPT !.policy = "NORMAL", !.rt_priority = 0,
                             !.reset = FALSE,
                             !.nice = IF t.policy # "NORMAL" \/ @ < 0
                                      THEN 0 ELSE @]
        young == IF t.reset
                 THEN [zero EXCEPT !.normal_prio = normal_prio(zero),
                                   !.prio = normal_prio(zero)]
                 ELSE copy
    IN  /\ t.alive /\ ~tsk[child].alive /\ waits[p].on = SsNone
        /\ ~dl_prio(young.prio)
        /\ tsk' = [tsk EXCEPT ![child] =
                     [young EXCEPT !.class = class_of_prio(young.prio)]]
        /\ UNCHANGED <<waits, call>>

SsNext ==
    \/ \E p \in SsTask, nice \in SsNice : set_user_nice(p, nice)
    \/ \E c \in SsCaller, p \in SsTask, attr \in SsAttr :
          \/ sched_setattr(c, p, attr)
          \/ _sched_setscheduler(c, p, attr)
    \/ \E c \in SsCaller : setscheduler_locked(c) \/ rt_mutex_adjust_pi(c)
    \/ \E d, p \in SsTask : rt_mutex_lock(d, p) \/ sched_fork(p, d)
    \/ \E p \in SsTask : rt_mutex_unlock(p)

SsSpec == SsInit /\ [][SsNext]_ssvars

-----------------------------------------------------------------------------
(***************************************************************************)
(* Properties.                                                             *)
(***************************************************************************)

\* A task has a real-time priority exactly when its policy is real-time,
\* although sched_setparam checked the priority against a policy it read
\* before it had the lock (the recheck of __sched_setscheduler).
PriorityMatchesPolicy ==
    \A p \in SsTask : (tsk[p].policy = "FIFO") = (tsk[p].rt_priority # 0)

\* The class that schedules a task is the one of its effective priority,
\* whatever mix of boosts, policy changes and nice values led there.
ClassFollowsPrio ==
    \A p \in SsTask : tsk[p].class = class_of_prio(tsk[p].prio)

\* Once no call has a boost left to pass on, a task runs at its own
\* priority or at that of the real-time task it holds up, the better one,
\* and a task that holds up nobody runs at its own (__setscheduler keeps the
\* boost, rt_mutex_setprio ends it).
BoostExact ==
    (\A c \in SsCaller : call[c].pc # "adjust") =>
        \A p \in SsTask :
            LET t == tsk[p]
                best == Min({t.normal_prio} \cup {tsk[d].prio : d \in Waiters(p)})
            IN  /\ Waiters(p) = {} => t.prio = t.normal_prio /\ t.donor = SsNone
                /\ rt_prio(best) => t.prio = best

\* Policy, priority and class of a task say the same, whoever changed which
\* of them last (__sched_setscheduler, rt_mutex_setprio, set_user_nice).
PolicyAgrees == PriorityMatchesPolicy /\ ClassFollowsPrio
=============================================================================
