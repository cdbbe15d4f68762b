----------------------------- MODULE WaitQueue ------------------------------
(***************************************************************************)
(* Wait queues and completions of the Android kernel's core.c.  Everything *)
(* under the queue's lock is one step; between the steps tasks sleep, are  *)
(* woken, time out and get signals.  wqmode chooses what the queue is used *)
(* for: "completion" is a struct completion with waiters of every flavour, *)
(* "queue" a bare wait queue with sleep_on() callers and exclusive waiters.*)
(***************************************************************************)
EXTENDS Integers, Sequences, SequencesExt, FiniteSets

CONSTANTS WqTask,
          DoneMod,          \* 2^w for the w bits of an unsigned int
          MaxSignals,       \* bound on the calls of complete() and complete_all()
          WqFlavour,        \* of the waits: TASK_UNINTERRUPTIBLE "U", _INTERRUPTIBLE "I", _KILLABLE "K"
          WqSignals,        \* of "signal" and "kill"
          WqModes

ASSUME WaitAssumption ==
  /\ IsFiniteSet(WqTask)
  /\ DoneMod \in Nat /\ DoneMod > 2
  /\ WqFlavour \subseteq {"U", "I", "K"}

VARIABLES wqmode,
          wqueue,           \* tasks on the queue, head first
          exclusive,        \* those of them that are WQ_FLAG_EXCLUSIVE
          wstate,           \* task -> "R" or the state it sleeps in
          flavour,          \* task -> the state its wait asks for
          timed,            \* tasks whose wait has a timeout
          expired,          \* those whose timeout is used up
          pending,          \* task -> "none", "signal" or "kill"
          done,             \* x->done
          calls,            \* of complete() and complete_all()
          owed              \* signals given and not yet consumed by a wait

wqvars == <<wqmode, wqueue, exclusive, wstate, flavour, timed, expired, pending,
            done, calls, owed>>

Waiting == {t \in WqTask : \E i \in 1 .. Len(wqueue) : wqueue[i] = t}
Sleeping == {t \in Waiting : wstate[t] # "R"}
Woken == {t \in Waiting : wstate[t] = "R"}

-----------------------------------------------------------------------------
(* Waking *)

\* The states that TASK_NORMAL and TASK_INTERRUPTIBLE wake; killable sleep is
\* uninterruptible to a wake-up.
Wakes(mode) == IF mode = "normal" THEN {"U", "I", "K"} ELSE {"I"}

CountsAll(mode, i) == {j \in 1 .. i - 1 : wqueue[j] \in exclusive}

\* Exclusive waiters before the i-th that this scan has really woken: a task
\* that already runs does not use up nr_exclusive.
exclusive_woken(mode, i) ==
  {j \in 1 .. i - 1 : wqueue[j] \in exclusive /\ wstate[wqueue[j]] \in Wakes(mode)}

\* nr = 0 wakes everything, since the counter passes 0 downwards.
__wake_up_common(mode, nr) ==
  {wqueue[i] : i \in {k \in 1 .. Len(wqueue) :
     /\ wstate[wqueue[k]] \in Wakes(mode)
     /\ nr = 0 \/ Cardinality(exclusive_woken(mode, k)) < nr}}

Awake(ts) == [t \in WqTask |-> IF t \in ts THEN "R" ELSE wstate[t]]

\* __wake_up() and its synchronous and locked variants.
__wake_up(mode, nr) ==
  /\ wqmode = "queue"
  /\ wstate' = Awake(__wake_up_common(mode, nr))
  /\ UNCHANGED <<wqmode, wqueue, exclusive, flavour, timed, expired, pending, done,
                 calls, owed>>

\* x->done++ on an unsigned int.
done_more == (done + 1) % DoneMod

complete ==
  /\ wqmode = "completion" /\ calls < MaxSignals
  /\ done' = done_more
  /\ calls' = calls + 1 /\ owed' = owed + 1
  /\ wstate' = Awake(__wake_up_common("normal", 1))
  /\ UNCHANGED <<wqmode, wqueue, exclusive, flavour, timed, expired, pending>>

\* UINT_MAX/2 signals at once, for everybody.
Half == (DoneMod - 1) \div 2

complete_all ==
  /\ wqmode = "completion" /\ calls < MaxSignals
  /\ done' = (done + Half) % DoneMod
  /\ calls' = calls + 1 /\ owed' = owed + Half
  /\ wstate' = Awake(__wake_up_common("normal", 0))
  /\ UNCHANGED <<wqmode, wqueue, exclusive, flavour, timed, expired, pending>>
-----------------------------------------------------------------------------
(* Waiting for a completion *)

signal_pending_state(t, f) ==
  \/ f = "I" /\ pending[t] # "none"
  \/ f = "K" /\ pending[t] = "kill"

\* One signal is consumed under the lock.
take ==
  done' = done - 1 /\ owed' = owed - 1

\* The wait is over: what it asked for is forgotten.
Forget(t) ==
  /\ timed' = timed \ {t} /\ expired' = expired \ {t}
  /\ flavour' = [flavour EXCEPT ![t] = "U"]

\* The task's entry is unlinked.
__remove_wait_queue(q, t) == RemoveAt(q, CHOOSE i \in DOMAIN q : q[i] = t)

Leave(t) ==
  /\ wqueue' = __remove_wait_queue(wqueue, t)
  /\ exclusive' = exclusive \ {t}
  /\ Forget(t)

\* The flavours of wait_for_completion(): at once when there is a signal,
\* otherwise on the queue's tail, unless -ERESTARTSYS at once.
wait_for_common(t, f, limited) ==
  /\ wqmode = "completion" /\ t \notin Waiting
  /\ \/ done > 0 /\ take /\ UNCHANGED <<wqueue, exclusive, wstate, timed, flavour>>
     \/ /\ done = 0 /\ ~ signal_pending_state(t, f)
        /\ wqueue' = Append(wqueue, t) /\ exclusive' = exclusive \cup {t}
        /\ wstate' = [wstate EXCEPT ![t] = f]
        /\ timed' = IF limited THEN timed \cup {t} ELSE timed
        /\ flavour' = [flavour EXCEPT ![t] = f]
        /\ UNCHANGED <<done, owed>>
  /\ UNCHANGED <<wqmode, expired, pending, calls>>

NotExpired(t) == done = 0 /\ t \notin expired

\* The test under the lock after waking: only without a signal to consume does
\* the waiter look at the timeout and at pending signals.
none_done(t) == done = 0

\* The loop goes on while there is time.
time_left(t) == t \notin expired

\* schedule_timeout() returned and the lock is held again.  Time may also have
\* run out while the woken task waited for the processor.
do_wait_for_common(t) ==
  /\ wqmode = "completion" /\ t \in Woken
  /\ \/ ~ none_done(t) /\ Leave(t) /\ take /\ UNCHANGED wstate
     \/ /\ none_done(t)                                 \* 0, or -ERESTARTSYS
        /\ t \in timed \/ signal_pending_state(t, flavour[t])
        /\ Leave(t)
        /\ UNCHANGED <<wstate, done, owed>>
     \/ /\ none_done(t) /\ time_left(t)
        /\ ~ signal_pending_state(t, flavour[t])
        /\ wstate' = [wstate EXCEPT ![t] = flavour[t]]
        /\ UNCHANGED <<wqueue, exclusive, timed, expired, flavour, done, owed>>
  /\ UNCHANGED <<wqmode, pending, calls>>

try_wait_for_completion(t) ==
  /\ wqmode = "completion" /\ t \notin Waiting /\ done > 0
  /\ take
  /\ UNCHANGED <<wqmode, wqueue, exclusive, wstate, flavour, timed, expired, pending,
                 calls>>
-----------------------------------------------------------------------------
(* A bare wait queue *)

\* sleep_on_common() queues itself at the head.
queue_non_exclusive(t) == <<t>> \o wqueue

sleep_on_common(t, f, limited) ==
  /\ wqmode = "queue" /\ t \notin Waiting
  /\ wqueue' = queue_non_exclusive(t)
  /\ wstate' = [wstate EXCEPT ![t] = f]
  /\ timed' = IF limited THEN timed \cup {t} ELSE timed
  /\ UNCHANGED <<wqmode, exclusive, flavour, expired, pending, done, calls, owed>>

\* External: prepare_to_wait_exclusive() queues at the tail.
prepare_to_wait_exclusive(t) ==
  /\ wqmode = "queue" /\ t \notin Waiting
  /\ wqueue' = Append(wqueue, t) /\ exclusive' = exclusive \cup {t}
  /\ wstate' = [wstate EXCEPT ![t] = "U"]
  /\ UNCHANGED <<wqmode, flavour, timed, expired, pending, done, calls, owed>>

sleep_return(t) ==
  /\ wqmode = "queue" /\ t \in Woken
  /\ Leave(t)
  /\ UNCHANGED <<wqmode, wstate, pending, done, calls, owed>>
-----------------------------------------------------------------------------
(* External: the timer of schedule_timeout(), and signals. *)

process_timeout(t) ==
  /\ t \in Sleeping /\ t \in timed \ expired
  /\ expired' = expired \cup {t}
  /\ wstate' = [wstate EXCEPT ![t] = "R"]
  /\ UNCHANGED <<wqmode, wqueue, exclusive, flavour, timed, pending, done,
                 calls, owed>>

signal_wake_up(t, s) ==
  /\ pending[t] = "none" /\ wqmode = "completion"
  /\ pending' = [pending EXCEPT ![t] = s]
  /\ wstate' = [wstate EXCEPT ![t] =
       IF @ = "I" \/ (@ = "K" /\ s = "kill") THEN "R" ELSE @]
  /\ UNCHANGED <<wqmode, wqueue, exclusive, flavour, timed, expired, done, calls, owed>>

handle_signal(t) ==
  /\ pending[t] # "none" /\ t \notin Waiting
  /\ pending' = [pending EXCEPT ![t] = "none"]
  /\ UNCHANGED <<wqmode, wqueue, exclusive, wstate, flavour, timed, expired, done,
                 calls, owed>>
-----------------------------------------------------------------------------
WaitInit ==
  /\ wqmode \in WqModes
  /\ wqueue = <<>> /\ exclusive = {}
  /\ wstate = [t \in WqTask |-> "R"] /\ flavour = [t \in WqTask |-> "U"]
  /\ timed = {} /\ expired = {}
  /\ pending = [t \in WqTask |-> "none"]
  /\ done = 0 /\ calls = 0 /\ owed = 0

WaitNext ==
  \/ complete \/ complete_all
  \/ \E mode \in {"normal", "interruptible"}, nr \in 0 .. 2 : __wake_up(mode, nr)
  \/ \E t \in WqTask :
       \/ do_wait_for_common(t) \/ try_wait_for_completion(t)
       \/ sleep_return(t) \/ prepare_to_wait_exclusive(t)
       \/ process_timeout(t) \/ handle_signal(t)
       \/ \E s \in WqSignals : signal_wake_up(t, s)
       \/ \E f \in WqFlavour, limited \in BOOLEAN :
            wait_for_common(t, f, limited) \/ sleep_on_common(t, f, limited)

\* A woken task runs and takes the lock; a timer fires.  Signals and
\* completions need not come.
WaitFairness ==
  \A t \in WqTask : WF_wqvars(do_wait_for_common(t)) /\ WF_wqvars(process_timeout(t))

WaitSpec == WaitInit /\ [][WaitNext]_wqvars /\ WaitFairness
-----------------------------------------------------------------------------
(* Properties *)

\* Every wait that reports success has consumed one signal of its own, and a
\* wait that times out or is interrupted none, also when the timeout or the
\* signal comes together with complete(); x->done is what is left, as long as
\* the calls are too few to make it wrap around.
ConsumedExactly ==
  done = owed

\* As long as a waiter of a completion sleeps, every signal not yet consumed
\* has a woken waiter to take it: complete() never spends its one wake-up on a
\* task that was running anyway.
WakeupCoversDone ==
  wqmode = "completion" /\ Sleeping # {} => done <= Cardinality(Woken)

\* A signal is consumed as long as somebody waits for one.
SignalServed ==
  (done > 0 /\ Waiting # {}) ~> (done = 0 \/ Waiting = {})

\* A wait with a timeout comes to an end, woken or not.
TimedWaitEnds ==
  \A t \in WqTask : (wqmode = "completion" /\ t \in Waiting /\ t \in timed) ~> (t \notin Waiting)

\* A completion neither loses nor invents a signal, and has a waiter awake for
\* each that is left (do_wait_for_common, complete).
SignalsExact == ConsumedExactly /\ WakeupCoversDone

\* Whoever waits for a signal that came, or for a limited time, comes back.
WaitsEnd == SignalServed /\ TimedWaitEnds
=============================================================================
