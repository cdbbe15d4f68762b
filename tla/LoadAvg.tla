------------------------------ MODULE LoadAvg -------------------------------
(***************************************************************************)
(* The load averages of the Android kernel's core.c.  Every CPU folds what *)
(* changed of its active count into calc_load_tasks at its first tick in   *)
(* the sample window, or, going idle without a tick, into one of two idle  *)
(* deltas; ten ticks after the window opened the timekeeping CPU folds the *)
(* old idle delta, updates avenrun and flips the deltas.  lamode "nohz" is *)
(* this global average, "tick" the five averages of one runqueue's weight. *)
(***************************************************************************)
EXTENDS Integers, Sequences, FiniteSets, FiniteSetsExt

CONSTANTS LaCpus,
          LOAD_FREQ,        \* ticks between windows
          LaWindow,         \* ticks that a window is open
          LaMaxJiffies,     \* the last jiffy that ends is before this one
          LaActive,         \* values of nr_running + nr_uninterruptible of a CPU
          LaWeight,         \* weights a runqueue has
          LaMissed,         \* ticks missed in a row by one CPU
          LaSleep,          \* ticks missed in a row by all CPUs
          LaModes

FSHIFT == 11
FIXED_1 == 2^FSHIFT
EXP == <<1884, 2014, 2037>>             \* 1, 5 and 15 minutes
CPU_LOAD_IDX_MAX == 5

VARIABLES lamode,
          jiffies,
          lrq,              \* cpu -> its part of struct rq
          calc_load_tasks,
          calc_load_idle,   \* the two idle deltas
          calc_load_idx,
          calc_load_update,
          avenrun,
          sampled,          \* what each CPU has put into the coming sample
          raced,            \* a CPU entered idle across the flip of the index
          exact,            \* avenrun with every missed period folded singly,
                            \* and how many were missed
          cpu_load          \* [weight, avg] of one runqueue, and whether it slept

lavars == <<lamode, jiffies, lrq, calc_load_tasks, calc_load_idle, calc_load_idx,
            calc_load_update, avenrun, sampled, raced, exact, cpu_load>>

-----------------------------------------------------------------------------
(* The arithmetic *)

\* a1 = a0 * e + a * (1 - e), rounded to the nearest.
calc_load(load, exp, active) ==
  (load * exp + active * (FIXED_1 - exp) + 2^(FSHIFT - 1)) \div FIXED_1

round_mul(x, y) == (x * y + 2^(FSHIFT - 1)) \div FIXED_1

\* x^n in as many steps as n has bits.
fixed_power[n \in Nat, x \in 0 .. FIXED_1] ==
  IF n = 0 THEN FIXED_1
  ELSE LET rest == IF n = 1 THEN FIXED_1 ELSE fixed_power[n \div 2, round_mul(x, x)]
       IN  IF n % 2 = 1 THEN round_mul(rest, x) ELSE rest
fixed_power_int(x, n) == fixed_power[n, x]

calc_load_n(load, exp, active, n) == calc_load(load, fixed_power_int(exp, n), active)

\* The reference: n periods one after the other.
folded[n \in Nat, load \in Nat, exp \in Nat, active \in Nat] ==
  IF n = 0 THEN load ELSE calc_load(folded[n - 1, load, exp, active], exp, active)
-----------------------------------------------------------------------------
(* Folding a CPU's change *)

DeltaKept(c) == lrq[c].active

\* calc_load_fold_active(): the delta is returned and remembered as folded.
folded_active(c) == lrq[c].active - lrq[c].calc_load_active

\* The idle delta that is written: in the window already the next one.
calc_load_write_idx(idx) ==
  (IF jiffies < calc_load_update THEN idx ELSE idx + 1) % 2

calc_load_account_active(c) ==
  /\ lamode = "nohz" /\ lrq[c].pc = "busy" /\ jiffies >= lrq[c].update
  /\ calc_load_tasks' = calc_load_tasks + folded_active(c)
  /\ lrq' = [lrq EXCEPT ![c].calc_load_active = lrq[c].active,
                        ![c].update = @ + LOAD_FREQ]
  /\ sampled' = [sampled EXCEPT ![c] = @ + folded_active(c)]
  /\ UNCHANGED <<lamode, jiffies, calc_load_idle, calc_load_idx, calc_load_update,
                 avenrun, raced, exact, cpu_load>>

\* Entering idle reads the index first and the update time after it.
calc_load_enter_idle(c) ==
  /\ lamode = "nohz" /\ lrq[c].pc = "busy"
  /\ lrq' = [lrq EXCEPT ![c].calc_load_active = lrq[c].active, ![c].pc = "entering",
                        ![c].delta = folded_active(c), ![c].idx = calc_load_idx]
  /\ UNCHANGED <<lamode, jiffies, calc_load_tasks, calc_load_idle, calc_load_idx,
                 calc_load_update, avenrun, sampled, raced, exact, cpu_load>>

idle_delta(c) ==
  /\ lrq[c].pc = "entering"
  /\ LET i == calc_load_write_idx(lrq[c].idx) IN
     /\ calc_load_idle' = [calc_load_idle EXCEPT ![i] = @ + lrq[c].delta]
     /\ sampled' = IF jiffies < calc_load_update
                   THEN [sampled EXCEPT ![c] = @ + lrq[c].delta] ELSE sampled
  /\ raced' = (raced \/ lrq[c].idx # calc_load_idx)
  /\ lrq' = [lrq EXCEPT ![c].pc = "idle", ![c].delta = 0, ![c].idx = 0]
  /\ UNCHANGED <<lamode, jiffies, calc_load_tasks, calc_load_idx, calc_load_update,
                 avenrun, exact, cpu_load>>

\* A CPU that wakes in the window, or after it, skips to the next one.
calc_load_exit_idle(c) ==
  /\ lrq[c].pc = "idle"
  /\ lrq' = [lrq EXCEPT ![c].pc = "busy", ![c].update =
       IF jiffies < lrq[c].update THEN @
       ELSE IF jiffies < calc_load_update + LaWindow
            THEN calc_load_update + LOAD_FREQ ELSE calc_load_update]
  /\ UNCHANGED <<lamode, jiffies, calc_load_tasks, calc_load_idle, calc_load_idx,
                 calc_load_update, avenrun, sampled, raced, exact, cpu_load>>

\* External: tasks come to, leave and block on a busy CPU.
work(c, n) ==
  /\ lamode = "nohz" /\ lrq[c].pc = "busy" /\ lrq[c].active # n
  /\ lrq' = [lrq EXCEPT ![c].active = n]
  /\ UNCHANGED <<lamode, jiffies, calc_load_tasks, calc_load_idle, calc_load_idx,
                 calc_load_update, avenrun, sampled, raced, exact, cpu_load>>
-----------------------------------------------------------------------------
(* The timekeeping CPU *)

Positive(n) == IF n > 0 THEN n * FIXED_1 ELSE 0

\* Periods that ended while every CPU was idle, after the one just folded.
periods_missed(now, update) ==
  IF now < update + LaWindow THEN 0
  ELSE 1 + (now - update - LaWindow) \div LOAD_FREQ

\* do_timer(): the clock advances by the ticks that passed, more than one only
\* when every CPU slept, and calc_global_load() follows: the old idle delta is
\* folded, avenrun updated, missed periods caught up and the index flipped.
calc_global_load(ticks) ==
  /\ lamode = "nohz" /\ jiffies < LaMaxJiffies
  /\ ticks > 1 => \A c \in LaCpus : lrq[c].pc = "idle"
  /\ jiffies' = jiffies + ticks
  /\ IF jiffies' < calc_load_update + LaWindow
     THEN UNCHANGED <<calc_load_tasks, calc_load_idle, calc_load_idx, calc_load_update,
                      avenrun, sampled, exact>>
     ELSE LET read == calc_load_idx % 2
              active == Positive(calc_load_tasks + calc_load_idle[read])
              next == calc_load_update + LOAD_FREQ
              n == periods_missed(jiffies', next)
              once == [k \in 1 .. 3 |-> calc_load(avenrun[k], EXP[k], active)]
          IN  /\ calc_load_tasks' = calc_load_tasks + calc_load_idle[read]
              /\ calc_load_idle' = [calc_load_idle EXCEPT ![read] = 0]
              /\ calc_load_idx' = calc_load_idx + 1
              /\ calc_load_update' = next + n * LOAD_FREQ
              /\ avenrun' = [k \in 1 .. 3 |-> IF n = 0 THEN once[k]
                               ELSE calc_load_n(once[k], EXP[k], active, n)]
              /\ exact' = [load |-> [k \in 1 .. 3 |-> folded[n, once[k], EXP[k], active]],
                           missed |-> n]
              /\ sampled' = [c \in LaCpus |-> lrq[c].calc_load_active - lrq[c].delta]
  /\ UNCHANGED <<lamode, lrq, raced, cpu_load>>
-----------------------------------------------------------------------------
(* The averages of a runqueue's weight *)

degrade_zero_ticks == <<8, 32, 64, 128>>
degrade_factor == <<<<64, 32, 8, 0, 0, 0, 0, 0>>, <<96, 72, 40, 12, 1, 0, 0, 0>>,
                    <<112, 98, 75, 43, 15, 1, 0, 0>>, <<120, 112, 98, 76, 45, 16, 2, 0>>>>

degraded[load \in Nat, missed \in 0 .. 128, i \in 1 .. 4, j \in 1 .. 9] ==
  IF missed = 0 THEN load
  ELSE degraded[IF missed % 2 = 1 THEN (load * degrade_factor[i][j]) \div 128 ELSE load,
                missed \div 2, i, j + 1]

decay_load_missed(load, missed, i) ==
  IF missed = 0 THEN load
  ELSE IF missed >= degrade_zero_ticks[i] THEN 0
  ELSE IF i = 1 THEN load \div 2^missed
  ELSE degraded[load, missed, i, 1]

NotRounded(new, old, i) == new

\* The division is rounded up while the load increases.
rounded(new, old, i) == IF new > old THEN new + 2^i - 1 ELSE new

averaged(new, old, i) == (old * (2^i - 1) + rounded(new, old, i)) \div 2^i

\* update_cpu_load() on a tick that ends so many ticks without one.
update_cpu_load(missed) ==
  /\ lamode = "tick"
  /\ missed > 0 => cpu_load.slept
  /\ cpu_load' = [cpu_load EXCEPT !.slept = FALSE, !.avg = [i \in 0 .. CPU_LOAD_IDX_MAX - 1 |->
       IF i = 0 THEN cpu_load.weight
       ELSE averaged(cpu_load.weight, decay_load_missed(cpu_load.avg[i], missed, i), i)]]
  /\ UNCHANGED <<lamode, jiffies, lrq, calc_load_tasks, calc_load_idle, calc_load_idx,
                 calc_load_update, avenrun, sampled, raced, exact>>
-----------------------------------------------------------------------------
LoadInit ==
  /\ lamode \in LaModes
  /\ jiffies = 0
  /\ lrq = [c \in LaCpus |-> [pc |-> "busy", active |-> 0, calc_load_active |-> 0,
                              update |-> LOAD_FREQ, delta |-> 0, idx |-> 0]]
  /\ calc_load_tasks = 0 /\ calc_load_idle = [i \in 0 .. 1 |-> 0]
  /\ calc_load_idx = 0 /\ calc_load_update = LOAD_FREQ
  /\ avenrun = <<0, 0, 0>> /\ exact = [load |-> <<0, 0, 0>>, missed |-> 0]
  /\ sampled = [c \in LaCpus |-> 0] /\ raced = FALSE
  /\ \E w, v \in LaWeight :
       cpu_load = IF lamode = "tick"
                  THEN [weight |-> w, slept |-> TRUE, avg |-> [i \in 0 .. CPU_LOAD_IDX_MAX - 1 |-> v]]
                  ELSE [weight |-> Min(LaWeight), slept |-> FALSE,
                        avg |-> [i \in 0 .. CPU_LOAD_IDX_MAX - 1 |-> 0]]

LoadNext ==
  \/ \E c \in LaCpus :
       \/ calc_load_account_active(c) \/ calc_load_enter_idle(c) \/ idle_delta(c)
       \/ calc_load_exit_idle(c)
       \/ \E n \in LaActive : work(c, n)
  \/ \E ticks \in {1} \cup LaSleep : calc_global_load(ticks)
  \/ \E missed \in LaMissed : update_cpu_load(missed)

\* The tick comes.
LoadSpec == LoadInit /\ [][LoadNext]_lavars /\ WF_lavars(update_cpu_load(0))
-----------------------------------------------------------------------------
(* Properties *)

SumCpu(Op(_)) == MapThenSumSet(Op, LaCpus)

\* "being late doesn't loose the delta": whatever the CPUs and the timekeeper
\* do between each other's steps, calc_load_tasks and the two idle deltas
\* together account for every task the CPUs have folded, each once.
NoDeltaLost ==
  calc_load_tasks + calc_load_idle[0] + calc_load_idle[1]
    = SumCpu(LAMBDA c : lrq[c].calc_load_active - lrq[c].delta)

\* A CPU that was sampled in the open window and goes idle before the
\* timekeeper reads the sum is still counted in it: its negative delta waits in
\* the other counter.  Only a CPU that read the index before a flip and the
\* time after it is late by one window.
SampleKept ==
  ~ raced => calc_load_tasks + calc_load_idle[calc_load_idx % 2] = SumCpu(LAMBDA c : sampled[c])

\* Catching up with n missed periods at once by raising the factor to the n-th
\* power (fixed_power_int) gives what n single updates give, up to half a unit
\* for the rounding of each of them on either side.
CatchUpAccurate ==
  \A k \in 1 .. 3 : avenrun[k] - exact.load[k] \in -exact.missed .. exact.missed

\* The averages of a runqueue settle on its weight, from above and from below;
\* the rounding keeps them from stopping short.
AveragesSettle ==
  (lamode = "tick") ~> (\A i \in DOMAIN cpu_load.avg : cpu_load.avg[i] = cpu_load.weight)

\* The load average is computed from every runnable task once, also after
\* periods without a tick (calc_load_fold_active, calc_load_n).
LoadSumExact == NoDeltaLost /\ SampleKept /\ CatchUpAccurate
=============================================================================
