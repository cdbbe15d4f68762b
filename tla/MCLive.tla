------------------------------- MODULE MCLive -------------------------------
(***************************************************************************)
(* Memory maps, wait queues and load averages in one run of TLC, each on   *)
(* its own: part says which of them moves, the others stay as they         *)
(* started.                                                                *)
(***************************************************************************)
EXTENDS MmLife, WaitQueue, LoadAvg

CONSTANTS t1, t2, f1, m1, m2, m3        \* MmLife: tasks, a file, memory maps

VARIABLE part

MmLayout == <<"account", "dontcopy">>

LiveInit ==
  /\ part \in {"mm", "wait", "load"}
  /\ MmInit   /\ (part # "mm" => mmof[t1] = m1)
  /\ WaitInit /\ (part # "wait" => wqmode = "queue")
  /\ LoadInit /\ (part # "load" => lamode = "nohz")

LiveNext ==
  \/ part = "mm"   /\ MmNext   /\ UNCHANGED <<part, wqvars, lavars>>
  \/ part = "wait" /\ WaitNext /\ UNCHANGED <<part, mmvars, lavars>>
  \/ part = "load" /\ LoadNext /\ UNCHANGED <<part, mmvars, wqvars>>

\* The fairness of MmSpec, WaitSpec and LoadSpec, for the part that moves.
LiveFairness ==
  /\ \A m \in Mm : WF_mmvars(part = "mm" /\ __mmput(m))
  /\ \A t \in WqTask : /\ WF_wqvars(part = "wait" /\ do_wait_for_common(t))
                       /\ WF_wqvars(part = "wait" /\ process_timeout(t))
  /\ WF_lavars(part = "load" /\ update_cpu_load(0))

LiveSpec == LiveInit /\ [][LiveNext]_<<part, mmvars, wqvars, lavars>> /\ LiveFairness
=============================================================================
