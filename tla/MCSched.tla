------------------------------ MODULE MCSched ------------------------------
(***************************************************************************)
(* Sched in one run of TLC, in four parts; part says which of them moves.  *)
(* "wrr" is the instance of the cfg: two tasks that change policy, nice    *)
(* value and group.  "sleep" has two workqueue workers and a third task    *)
(* that sleep in both states, with SCHED_RR; "rt" two tasks of all         *)
(* classes, with throttling and priority inheritance; "time" is            *)
(* SchedAccount, two tasks of all classes and a clock.  The parts have the *)
(* slots and slices of the cfg and no other groups, so that the invariants *)
(* of Sched, as the cfg instantiates them, are about the states of all.    *)
(***************************************************************************)
EXTENDS Sched, TLC

CONSTANT Parts                              \* the parts of this run
CONSTANTS tA, tB, tC, top, bg, TimeClock, MaxCharged

VARIABLES part, ran

Sleep == INSTANCE Sched WITH
  InitTask <- Task, Worker <- {tA, tB}, Group <- {top}, Background <- {},
  RtGroup <- {top}, StaticPrio <- {120}, RtPriority <- {10},
  Policy <- {"NORMAL", "RR"}, SleepState <- {"INTERRUPTIBLE", "UNINTERRUPTIBLE"}

Real == INSTANCE Sched WITH
  Group <- {top}, Background <- {}, RtGroup <- {top}, StaticPrio <- {120},
  RtPriority <- {10}, Policy <- {"NORMAL", "WRR", "FIFO"},
  ResetOnFork <- {TRUE}, WaiterPrio <- {69}, RtBandwidth <- TRUE

Account == INSTANCE SchedAccount WITH
  Group <- {top}, Background <- {}, RtGroup <- {top}, StaticPrio <- {120},
  RtPriority <- {10}, Policy <- {"NORMAL", "WRR", "FIFO"}, MaxClock <- TimeClock

ASSUME Sleep!TaskAssumption /\ Sleep!GroupAssumption /\ Sleep!PrioAssumption
ASSUME Real!TaskAssumption /\ Real!GroupAssumption /\ Real!PrioAssumption
ASSUME Account!TaskAssumption /\ Account!PrioAssumption /\ Account!SliceAssumption

SlotSym == Permutations({tA, tB})

\* SchedAccount only: the time a task has had the CPU.
NoTime == ran = 0

\* Bound: only the workers have a third slot beside them.
TwoSlots == task'[tC].state = "DEAD"

MCInit ==
  /\ part \in Parts
  /\ \/ part = "wrr" /\ Init /\ NoTime
     \/ part = "sleep" /\ Sleep!Init /\ NoTime
     \/ part = "rt" /\ Real!Init /\ NoTime
     \/ part = "time" /\ Account!AccountInit

MCNext ==
  \/ part = "wrr" /\ Next /\ TwoSlots /\ UNCHANGED <<part, ran>>
  \/ part = "sleep" /\ Sleep!Next /\ UNCHANGED <<part, ran>>
  \/ part = "rt" /\ Real!Next /\ TwoSlots /\ UNCHANGED <<part, ran>>
  \/ part = "time" /\ Account!AccountNext /\ TwoSlots /\ UNCHANGED part

MCVars == <<part, vars, ran>>
MCSpec == MCInit /\ [][MCNext]_MCVars
-----------------------------------------------------------------------------
\* Preemption leaves a task queued, and nobody else takes it off the runqueue
\* (__schedule with PREEMPT_ACTIVE).
PreemptionKeepsQueued ==
  [][/\ part = "wrr" => KeepsQueued
     /\ part = "sleep" => Sleep!KeepsQueued
     /\ part = "rt" => Real!KeepsQueued]_MCVars

\* No time on the CPU goes uncharged (put_prev_task_wrr, update_curr_rt).
NoTimeLost == part = "time" => Account!NoTimeLost
=============================================================================
