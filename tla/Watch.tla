------------------------------- MODULE Watch --------------------------------
(***************************************************************************)
(* The /proc/watch driver of watch.c.  Writing a pid chooses the process   *)
(* that is measured; reading from position 0 measures it anew, puts five   *)
(* fields into one buffer that all openers share, and copies from it.      *)
(* Nothing is locked: readers, a writer, the measured process and the      *)
(* processor's page table walker interleave between the accesses.          *)
(* wmode splits the behaviours: "text" is the buffer that several openers  *)
(* share, "life" the measured task's end and its pid's reuse, "cpu" is     *)
(* cpu_measure against ticks and exiting threads, "ram" is ram_measure     *)
(* against page accesses.                                                  *)
(***************************************************************************)
EXTENDS Integers, Sequences, FiniteSets, FiniteSetsExt

CONSTANTS WTasks,       \* processes, each with one life
          WPids,        \* pid numbers, reused after a process was reaped
          WReaders,     \* openers that read
          WLone,        \* the one of them that reads in "life"
          WLens,        \* lengths passed to read()
          WMaxRefs,     \* bound on the references a task collects
          WThreads,     \* threads of the measured process
          WMaxTicks,    \* bound on the clock ticks charged
          WPages,       \* pages of the measured process
          WUnmapped,    \* those whose table walk ends early
          WModes

Fields == 5             \* page count, utime, stime, cutime, cstime
MaxText == Fields * Cardinality(WReaders)   \* the longest text readers can make
NoTask == "no task"

VARIABLES wmode,
          proc,         \* task -> [st, nr, refs]
          watch,        \* [taskp, pid, output, out_len] of the driver
          reader,       \* opener -> its file position and what it has read
          writer,       \* the opener that writes a pid
          times,        \* [sig, thread, seq] of the measured thread group
          cpu,          \* a run of cpu_measure
          ram           \* page table and a run of ram_measure

wvars == <<wmode, proc, watch, reader, writer, times, cpu, ram>>

NewReader == [pc |-> "open", pos |-> 0, got |-> <<>>, k |-> 0,
              alone |-> FALSE, minus |-> FALSE]
NoCpu == [pc |-> "idle", pass |-> 0, seq |-> 0, sum |-> 0, left |-> {}, start |-> 0,
          first |-> 0]

-----------------------------------------------------------------------------
(* The measured processes *)

Attached(nr) == {t \in WTasks : proc[t].nr = nr /\ proc[t].st \in {"live", "zombie"}}

\* External: a process is created, exits (its mm goes), and is reaped.
fork_task(t, nr) ==
  /\ proc[t].st = "none" /\ Attached(nr) = {}
  /\ proc' = [proc EXCEPT ![t] = [st |-> "live", nr |-> nr, refs |-> 1]]
  /\ UNCHANGED <<wmode, watch, reader, writer, times, cpu, ram>>

exit_task(t) ==
  /\ proc[t].st = "live"
  /\ proc' = [proc EXCEPT ![t].st = "zombie"]
  /\ UNCHANGED <<wmode, watch, reader, writer, times, cpu, ram>>

reap_task(t) ==
  /\ proc[t].st = "zombie"
  /\ proc' = [proc EXCEPT ![t].st = IF proc[t].refs = 1 THEN "freed" ELSE "reaped",
                          ![t].refs = @ - 1]
  /\ UNCHANGED <<wmode, watch, reader, writer, times, cpu, ram>>

\* A task whose memory map can be walked.
measurable(t) == t # NoTask /\ proc[t].st = "live"

\* A pid is found as long as a task is attached to it.
find_get_pid(nr) == Attached(nr) # {}
-----------------------------------------------------------------------------
(* Writing a pid *)

NotTaken == 0

\* get_pid_task() takes a reference, which the driver never drops.
task_reference == 1

watch_write(nr) ==
  /\ writer.pc = "idle"
  /\ \A t \in Attached(nr) : proc[t].refs < WMaxRefs
  /\ writer' = [pc |-> "pid", nr |-> nr]
  /\ IF Attached(nr) = {}
     THEN watch' = [watch EXCEPT !.taskp = NoTask] /\ UNCHANGED proc
     ELSE \E t \in Attached(nr) :
            /\ watch' = [watch EXCEPT !.taskp = t]
            /\ proc' = [proc EXCEPT ![t].refs = @ + task_reference]
  /\ UNCHANGED <<wmode, reader, times, cpu, ram>>

write_pid ==
  /\ writer.pc = "pid"
  /\ watch' = [watch EXCEPT !.pid = writer.nr]
  /\ writer' = [writer EXCEPT !.pc = "measure"]
  /\ UNCHANGED <<wmode, proc, reader, times, cpu, ram>>

\* The first measurement clears the accessed bits; it walks taskp as it is now.
write_measure ==
  /\ writer.pc = "measure"
  /\ writer' = IF find_get_pid(writer.nr) /\ ~ measurable(watch.taskp)
               THEN [writer EXCEPT !.pc = "dead"] ELSE [pc |-> "idle", nr |-> 0]
  /\ UNCHANGED <<wmode, proc, watch, reader, times, cpu, ram>>
-----------------------------------------------------------------------------
(* Reading *)

\* The five fields of one answer.
answer(who) == [i \in 1 .. Fields |-> <<who, i>>]

\* What an opener has read is followed only as long as no other writes to the
\* buffer.
disturbed(o) == [reader[o] EXCEPT !.alone = FALSE, !.got = <<>>]

\* A read at position 0 decides between a measurement and five times -1.
watch_read(r) ==
  /\ reader[r].pc = "open" /\ reader[r].pos = 0
  /\ LET found == find_get_pid(watch.pid) IN
     /\ reader' = [o \in WReaders |->
          IF o = r
          THEN [reader[r] EXCEPT
                  !.pc = IF ~ found THEN "copy"
                         ELSE IF measurable(watch.taskp) THEN "fields" ELSE "dead",
                  !.k = 0, !.alone = TRUE, !.minus = ~ found]
          ELSE disturbed(o)]
     /\ watch' = IF found THEN watch
                 ELSE [watch EXCEPT !.output = answer("-1"),
                                    !.out_len = Fields]
  /\ UNCHANGED <<wmode, proc, writer, times, cpu, ram>>

\* int2char() writes one field at out_len and ends the text after it.
int2char(r) ==
  /\ reader[r].pc = "fields"
  /\ LET at == IF reader[r].k = 0 THEN 0 ELSE watch.out_len IN
     watch' = [watch EXCEPT
       !.output = Append(SubSeq(watch.output, 1, at), <<r, reader[r].k + 1>>),
       !.out_len = at + 1]
  /\ reader' = [o \in WReaders |->
       IF o = r THEN [reader[r] EXCEPT !.k = @ + 1,
                                       !.pc = IF reader[r].k + 1 = Fields THEN "copy" ELSE @]
       ELSE disturbed(o)]
  /\ UNCHANGED <<wmode, proc, writer, times, cpu, ram>>

\* A later read() of the same opener goes straight to the copy.
read_more(r) ==
  /\ reader[r].pc = "open" /\ reader[r].pos > 0
  /\ reader' = [reader EXCEPT ![r].pc = "copy"]
  /\ UNCHANGED <<wmode, proc, watch, writer, times, cpu, ram>>

\* The field that is copied as the i-th of this call.
copied(pos, i) == pos + i

\* out_len - *pos is compared as unsigned: a position past a shortened text
\* copies len bytes, whatever they are.
watch_count(pos, len) ==
  IF watch.out_len < pos \/ watch.out_len - pos > len THEN len ELSE watch.out_len - pos

copy_to_user(r, len) ==
  /\ reader[r].pc = "copy"
  /\ LET pos == reader[r].pos
         n == watch_count(pos, len)
         at(i) == copied(pos, i) IN
     /\ pos + n <= MaxText                  \* a bound for one who reads junk
     /\ reader' = [reader EXCEPT ![r] =
          [@ EXCEPT !.got = IF ~ reader[r].alone THEN <<>>
                            ELSE @ \o [i \in 1 .. n |-> IF at(i) <= Len(watch.output)
                                                        THEN watch.output[at(i)] ELSE <<"junk", i>>],
                    !.pos = @ + n,
                    !.pc = IF n = 0 THEN "end" ELSE "open"]]
  /\ UNCHANGED <<wmode, proc, watch, writer, times, cpu, ram>>

\* External: the opener closes the file and opens it again.
watch_reopen(r) ==
  /\ reader[r].pc \in {"open", "end"} /\ reader[r] # NewReader
  /\ reader' = [reader EXCEPT ![r] = NewReader]
  /\ UNCHANGED <<wmode, proc, watch, writer, times, cpu, ram>>
-----------------------------------------------------------------------------
(* cpu_measure *)

Total == times.sig + MapThenSumSet(LAMBDA t : times.thread[t], times.alive)

\* External: the tick charges a running thread; an exiting thread moves its
\* time to the signal struct and leaves the list, under stats_lock.
account_time(t) ==
  /\ t \in times.alive /\ Total < WMaxTicks
  /\ times' = [times EXCEPT !.thread[t] = @ + 1]
  /\ UNCHANGED <<wmode, proc, watch, reader, writer, cpu, ram>>

exit_signal(t) ==
  /\ t \in times.alive /\ Cardinality(times.alive) > 1
  /\ cpu.pass < 2 \/ cpu.pc = "done"       \* the second pass holds the lock
  /\ times' = [times EXCEPT !.sig = @ + times.thread[t], !.thread[t] = 0,
                            !.alive = @ \ {t}, !.seq = @ + 1]
  /\ UNCHANGED <<wmode, proc, watch, reader, writer, cpu, ram>>

cpu_measure ==
  /\ cpu.pc = "idle"
  /\ cpu' = [NoCpu EXCEPT !.pc = "sig", !.pass = 1, !.seq = times.seq, !.start = Total]
  /\ UNCHANGED <<wmode, proc, watch, reader, writer, times, ram>>

add_sig ==
  /\ cpu.pc = "sig"
  /\ cpu' = [cpu EXCEPT !.sum = @ + times.sig, !.left = times.alive, !.pc = "threads"]
  /\ UNCHANGED <<wmode, proc, watch, reader, writer, times, ram>>

\* A thread that left the list after the walk began is passed by.
add_thread(t) ==
  /\ cpu.pc = "threads" /\ t \in cpu.left
  /\ cpu' = [cpu EXCEPT !.left = @ \ {t},
                        !.sum = @ + (IF t \in times.alive THEN times.thread[t] ELSE 0)]
  /\ UNCHANGED <<wmode, proc, watch, reader, writer, times, ram>>

NeverRetries == FALSE

\* The lockless pass is repeated, with the lock, when a thread exited meanwhile.
need_seqretry == cpu.pass = 1 /\ cpu.seq # times.seq

\* The sums are not reset before the second pass; first, which only a property
\* reads, remembers what the first has left in them.
done_seqretry ==
  /\ cpu.pc = "threads" /\ cpu.left = {}
  /\ cpu' = IF need_seqretry THEN [cpu EXCEPT !.pc = "sig", !.pass = 2, !.first = cpu.sum]
            ELSE [cpu EXCEPT !.pc = "done"]
  /\ UNCHANGED <<wmode, proc, watch, reader, writer, times, ram>>
-----------------------------------------------------------------------------
(* ram_measure.  Pages are numbered along the list of areas.               *)

\* External: the processor sets the accessed bit of a mapped page.
touch(p) ==
  /\ p \notin WUnmapped
  /\ ram' = [ram EXCEPT !.bit = @ \cup {p}, !.fresh = @ \cup {p}]
  /\ UNCHANGED <<wmode, proc, watch, reader, writer, times, cpu>>

ram_measure ==
  /\ ram.at = 0
  /\ ram' = [ram EXCEPT !.at = 1, !.count = 0, !.expected = {}]
  /\ UNCHANGED <<wmode, proc, watch, reader, writer, times, cpu>>

\* The walk down the table: a hole at any level skips the page.
walk_page ==
  /\ ram.at \in WPages /\ ~ ram.flag
  /\ ram' = IF ram.at \in WUnmapped THEN [ram EXCEPT !.at = @ + 1]
            ELSE [ram EXCEPT !.flag = TRUE, !.count = @ + (IF ram.at \in ram.bit THEN 1 ELSE 0),
                             !.expected = IF ram.at \in ram.fresh THEN @ \cup {ram.at} ELSE @]
  /\ UNCHANGED <<wmode, proc, watch, reader, writer, times, cpu>>

\* The accessed bit is cleared after it was read.
clear_accessed(p) == ram.bit \ {p}

clear_page ==
  /\ ram.flag
  /\ ram' = [ram EXCEPT !.flag = FALSE, !.at = @ + 1, !.bit = clear_accessed(ram.at),
                        !.fresh = @ \ {ram.at}]
  /\ UNCHANGED <<wmode, proc, watch, reader, writer, times, cpu>>

ram_return ==
  /\ ram.at = Cardinality(WPages) + 1
  /\ ram' = [ram EXCEPT !.at = 0]
  /\ UNCHANGED <<wmode, proc, watch, reader, writer, times, cpu>>
-----------------------------------------------------------------------------
WatchInit ==
  /\ wmode \in WModes
  /\ proc = [t \in WTasks |-> [st |-> "none", nr |-> 0, refs |-> 0]]
  /\ watch = [taskp |-> NoTask, pid |-> 0, output |-> <<>>, out_len |-> 0]
  /\ reader = [r \in WReaders |-> NewReader]
  /\ writer = [pc |-> "idle", nr |-> 0]
  /\ times = [sig |-> 0, thread |-> [t \in WThreads |-> 0], alive |-> WThreads, seq |-> 0]
  /\ cpu = NoCpu
  /\ ram = [bit |-> {}, fresh |-> {}, at |-> 0, flag |-> FALSE, count |-> 0,
            expected |-> {}]

WReading(r) ==
  \/ watch_read(r) \/ int2char(r) \/ read_more(r) \/ watch_reopen(r)
  \/ \E len \in WLens : copy_to_user(r, len)

Writing == write_pid \/ write_measure \/ \E nr \in WPids : watch_write(nr)

\* Several openers and a process that appears.
TextNext ==
  \/ \E t \in WTasks, nr \in WPids : fork_task(t, nr)
  \/ Writing
  \/ \E r \in WReaders : WReading(r)

\* One opener and processes that come and go.
LifeNext ==
  \/ \E t \in WTasks : exit_task(t) \/ reap_task(t) \/ \E nr \in WPids : fork_task(t, nr)
  \/ Writing
  \/ WReading(WLone)

CpuNext ==
  \/ \E t \in WThreads : account_time(t) \/ exit_signal(t) \/ add_thread(t)
  \/ cpu_measure \/ add_sig \/ done_seqretry

RamNext ==
  \/ \E p \in WPages : touch(p)
  \/ ram_measure \/ walk_page \/ clear_page \/ ram_return

WatchNext ==
  \/ wmode = "text" /\ TextNext
  \/ wmode = "life" /\ LifeNext
  \/ wmode = "cpu" /\ CpuNext
  \/ wmode = "ram" /\ RamNext

WatchSpec == WatchInit /\ [][WatchNext]_wvars
-----------------------------------------------------------------------------
(* Properties *)

\* The task that proc_write() remembers is never freed while the driver can
\* still reach it, however long ago its process exited and was reaped.
TaskStaysAllocated ==
  watch.taskp # NoTask => proc[watch.taskp].st # "freed"

\* An opener reads one whole answer of its own, in whatever pieces it asks for
\* it, unless another opener writes to the shared buffer meanwhile (nothing
\* keeps it from that: proc_read takes no lock).
LoneReaderWhole ==
  \A r \in WReaders : reader[r].pc = "end" /\ reader[r].alone =>
    reader[r].got = answer(IF reader[r].minus THEN "-1" ELSE r)

\* The last pass of cpu_measure() finds all time of the group, each part once:
\* at least what was used when the measurement began, at most what is used
\* now, also when a thread exits between the read of the signal struct and the
\* walk over the threads.  What a pass that had to be repeated has added stays
\* in the sum on top of that.
PassExact ==
  cpu.pc = "done" => cpu.start <= cpu.sum - cpu.first /\ cpu.sum - cpu.first <= Total

\* A walk of ram_measure() counts the mapped pages accessed since the walk
\* before passed them, each once.  An access between the read of the bit and
\* its clearing is in neither count.
AccessedCounted ==
  ram.at = Cardinality(WPages) + 1 => ram.count = Cardinality(ram.expected)

\* What the driver measures is complete, and what it answers to a lone reader
\* is whole (cpu_measure, ram_measure, proc_read).
AnswersExact == LoneReaderWhole /\ PassExact /\ AccessedCounted
=============================================================================
