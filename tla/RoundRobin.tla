----------------------------- MODULE RoundRobin -----------------------------
(***************************************************************************)
(* What the weighted round-robin class promises about order, whatever      *)
(* causes a scheduling event: the run queue is first come, first served.   *)
(* One event takes at most one task out and puts at most one task in, at   *)
(* the tail; nobody else changes place, so nobody is overtaken while       *)
(* waiting.                                                                *)
(***************************************************************************)
EXTENDS Naturals, Sequences

CONSTANT Task

VARIABLE queue

In(q, p) == \E i \in DOMAIN q : q[i] = p

\* q with the first p deleted.
Without(q, p) ==
  [i \in 1 .. Len(q) - 1 |-> IF \E j \in 1 .. i : q[j] = p THEN q[i + 1] ELSE q[i]]

\* The queue after at most one task has left it.
Remaining == {queue} \cup {Without(queue, p) : p \in {q \in Task : In(queue, q)}}

Stay == queue' \in Remaining
Join(p) == \E q \in Remaining : ~In(q, p) /\ queue' = Append(q, p)

Init == queue = <<>>
Next == Stay \/ \E p \in Task : Join(p)

Spec == Init /\ [][Next]_queue
=============================================================================
