------------------------------ MODULE MCServed ------------------------------
(***************************************************************************)
(* Who waits for the CPU gets it.  Sched twice in one run of TLC; part     *)
(* says which instance moves.  "wrr" is the one of the cfg: three WRR      *)
(* tasks of one group that are preempted, yield, sleep, wake, fork and     *)
(* exit; there are no renices, boosts and group changes.  "rt" has two     *)
(* tasks that change between all classes, and real-time throttling.        *)
(***************************************************************************)
EXTENDS Sched, TLC

CONSTANTS
  tA, tB, tC, top,
  Watched           \* the WRR tasks whose waits are checked.  No action tells
                    \* the slots apart, so that one of them stands for all.

VARIABLE part

Rt == INSTANCE Sched WITH
  Task <- {tA, tB}, InitTask <- {tA, tB}, Policy <- {"NORMAL", "WRR", "FIFO"},
  RtPriority <- {10}, RtBandwidth <- TRUE, WRR_FG_TIMESLICE <- 2

ASSUME Rt!TaskAssumption /\ Rt!PrioAssumption /\ Rt!SliceAssumption
ASSUME Watched \subseteq Task

ServedInit ==
  \/ part = "wrr" /\ Init
  \/ part = "rt" /\ Rt!Init

ServedNext ==
  \/ part = "wrr" /\ Next /\ UNCHANGED part
  \/ part = "rt" /\ Rt!Next /\ UNCHANGED part

Tick == (part = "wrr" /\ scheduler_tick) \/ (part = "rt" /\ Rt!scheduler_tick)
Period == part = "rt" /\ Rt!sched_rt_period_timer
Preempt == (part = "wrr" /\ preempt_schedule) \/ (part = "rt" /\ Rt!preempt_schedule)

\* The fairness of FairSpec, for the part that moves.
ServedSpec ==
  /\ ServedInit /\ [][ServedNext]_<<part, vars>>
  /\ WF_vars(Tick) /\ WF_vars(Period) /\ WF_vars(Preempt)

\* A WRR task that waits for the CPU gets it or leaves the queue: the slice of
\* every task ahead of it runs out (task_tick_wrr, pick_next_task_wrr).
EveryWrrServed ==
  \A p \in Watched :
    (part = "wrr" /\ p \in Queued("wrr"))
      ~> (part = "wrr" => (Curr = p \/ p \notin Queued("wrr")))

\* A runnable real-time task does not wait for ever behind the other classes:
\* at the latest the bandwidth timer gives the CPU to one
\* (sched_rt_period_timer, pick_next_task).
EveryRtRecovers ==
  (part = "rt" /\ rq.rt # <<>>) ~> (CurrClass(St) = "rt" \/ rq.rt = <<>>)
=============================================================================
