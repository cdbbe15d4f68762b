------------------------------ MODULE ProcPid ------------------------------
(***************************************************************************)
(* The directories of /proc/PID (base.c) while processes fork, exec, exit  *)
(* and pid numbers are used again: the listing of /proc and of             *)
(* /proc/PID/task, the lookup of a name through the dentry cache, and the  *)
(* seq_file of /proc/PID/timers.  Whatever runs under one rcu_read_lock()  *)
(* or lock is one step; everything else interleaves.                       *)
(*                                                                         *)
(* fork, exit and exec are outside the repository's base.c and are as      *)
(* simple as its code allows.  A struct pid is a number with the           *)
(* generation of its use.                                                  *)
(***************************************************************************)
EXTENDS Integers, SequencesExt

CONSTANTS
    PpTask,     \* task_structs
    PpNone,     \* no task, no dentry
    PpMaxNr,    \* pid numbers are 1 .. PpMaxNr
    PpReused,   \* the numbers that are used twice
    PpMaxOut,   \* a bound on the listing of a group that calls exec
    PpHidden,   \* the pid numbers of the users hidepid keeps from the reader
    PpModes     \* which file a behaviour reads

\* What the constants must satisfy.
PpAssumption ==
    /\ PpNone \notin PpTask /\ PpHidden \subseteq 1..PpMaxNr
    /\ PpMaxNr \in Nat \ {0} /\ PpMaxOut \in Nat /\ PpReused \subseteq 1..PpMaxNr
    /\ PpModes \subseteq {"readdir", "task", "lookup", "timers"}

VARIABLES
    ppmode,   \* the file this behaviour reads
    tk,       \* the task_structs
    owner,    \* pid_task() of every number
    gen,      \* the generation of every number
    threads,  \* the thread list of every thread group, the leader first
    rdr       \* the reader

ppvars == <<ppmode, tk, owner, gen, threads, rdr>>

Nr == 1..PpMaxNr

Free == [nr |-> 0, tgid |-> 0, leads |-> FALSE, state |-> "free", refs |-> 0]

\* pid_task() of a struct pid: nothing once the number was given up.
pid_task(p) == IF gen[p.nr] = p.gen THEN owner[p.nr] ELSE PpNone

PidOf(t) == [nr |-> tk[t].nr, gen |-> gen[tk[t].nr]]

get_task_struct(s, t) == [s EXCEPT ![t].refs = @ + 1]

\* The last reference frees a released task_struct.
put_task_struct(s, t) ==
    [s EXCEPT ![t] = IF @.state = "released" /\ @.refs = 1 THEN Free
                     ELSE [@ EXCEPT !.refs = @ - 1]]

Move(s, from, to) ==
    LET a == IF from = PpNone THEN s ELSE put_task_struct(s, from)
    IN  IF to = PpNone THEN a ELSE get_task_struct(a, to)

----------------------------------------------------------------------------
(***************************************************************************)
(* External: processes.                                                    *)
(***************************************************************************)
fork(t, n, tgid) ==
    /\ tk[t].state = "free" /\ owner[n] = PpNone /\ gen[n] < (IF n \in PpReused THEN 2 ELSE 1)
    /\ tgid # n => owner[tgid] # PpNone /\ tk[owner[tgid]].tgid = tgid
                   /\ tk[owner[tgid]].state = "alive" /\ tk[owner[tgid]].leads
    /\ tk' = [tk EXCEPT ![t] = [nr |-> n, tgid |-> tgid, leads |-> tgid = n,
                                state |-> "alive", refs |-> 0]]
    /\ owner' = [owner EXCEPT ![n] = t]
    /\ gen' = [gen EXCEPT ![n] = @ + 1]
    /\ threads' = [threads EXCEPT ![tgid] = Append(@, t)]
    /\ UNCHANGED <<ppmode, rdr>>

\* External: a thread stops running; a leader only after its other threads.
exit(t) ==
    /\ tk[t].state = "alive"
    /\ tk[t].leads => Len(threads[tk[t].tgid]) = 1
    /\ tk' = [tk EXCEPT ![t].state = "zombie"]
    /\ UNCHANGED <<ppmode, owner, gen, threads, rdr>>

\* The flushed dentry: /proc/@pid, before the task lets go of its pid.
proc_flush_task(r, t) ==
    IF ppmode = "lookup" THEN [r EXCEPT !.dcache[tk[t].nr] = PpNone] ELSE r

\* External: release_task flushes the dentries first.
release_task(t) ==
    /\ tk[t].state = "zombie"
    /\ \A u \in PpTask : tk[u].state = "alive" /\ tk[u].nr = tk[t].nr => tk[u].leads
    /\ tk' = [tk EXCEPT ![t].state = "flushed"]
    /\ rdr' = proc_flush_task(rdr, t)
    /\ UNCHANGED <<ppmode, owner, gen, threads>>

\* What the properties remember of a listing of /proc/1/task: the threads it
\* owes, whether the thread it stood at left the group, and whether an exec
\* was under way.
Left(r, t, exec) ==
    IF ppmode = "task" /\ tk[t].tgid = 1 /\ r.started
    THEN [r EXCEPT !.watch = @ \ {t}, !.exec = @ \/ exec,
                   !.left = @ \/ t = r.task \/ r.version = tk[t].nr] ELSE r

\* External: then, with the sighand lock, it unhashes the task.
__unhash_process(t) ==
    /\ tk[t].state = "flushed" /\ ~(ppmode = "timers" /\ rdr.locked = t)
    /\ tk' = IF tk[t].refs = 0 THEN [tk EXCEPT ![t] = Free]
             ELSE [tk EXCEPT ![t].state = "released"]
    /\ owner' = [n \in Nr |-> IF owner[n] = t THEN PpNone ELSE owner[n]]
    /\ threads' = [threads EXCEPT ![tk[t].tgid] = SelectSeq(@, LAMBDA u : u # t)]
    /\ rdr' = Left(rdr, t, FALSE)
    /\ UNCHANGED <<ppmode, gen>>

\* What WalkStep remembers: the name whose lookup found t, not yet instantiated.
Overtaken(r, t) ==
    IF ppmode = "lookup" /\ r.pc = "instantiate" /\ r.task = t
    THEN [r EXCEPT !.overtaken = @ \cup {r.name}] ELSE r

\* External, exec by a thread: de_thread() waited for the others, the leader
\* is a zombie; t takes the leader's pid over and gives its own up.  For a
\* moment, which only next_tgid is written for, the task of the leader's pid
\* is not the leader.
de_thread(t) ==
    /\ tk[t].state = "alive" /\ ~tk[t].leads /\ Len(threads[tk[t].tgid]) = 2
    /\ LET l == owner[tk[t].tgid]
       IN  /\ tk[l].state = "alive"
           /\ tk' = [tk EXCEPT ![t].nr = tk[t].tgid, ![t].leads = ppmode # "readdir",
                                   ![l].state = "zombie", ![l].leads = FALSE]
           /\ owner' = [owner EXCEPT ![tk[t].tgid] = t, ![tk[t].nr] = PpNone]
           /\ threads' = [threads EXCEPT ![tk[t].tgid] = <<t, l>>]
    /\ rdr' = Overtaken(Left(rdr, t, TRUE), t)
    /\ UNCHANGED <<ppmode, gen>>

\* External: the new leader is marked as such.
become_leader(t) ==
    /\ tk[t].state = "alive" /\ tk[t].nr = tk[t].tgid /\ ~tk[t].leads
    /\ tk' = [tk EXCEPT ![t].leads = TRUE]
    /\ UNCHANGED <<ppmode, owner, gen, threads, rdr>>

----------------------------------------------------------------------------
(***************************************************************************)
(* The listing of /proc: proc_pid_readdir and next_tgid.  pos is ctx->pos  *)
(* less TGID_OFFSET.  watch holds the processes that were there at the     *)
(* first call and still are.                                               *)
(***************************************************************************)
\* The test that fails while the pid is handed over.
LeadsGroup(t) == tk[t].leads

has_group_leader_pid(t) == tk[t].nr = tk[t].tgid

Leaders == {n \in Nr : owner[n] # PpNone /\ tk[owner[n]].tgid = n}

proc_pid_readdir ==
    /\ ppmode = "readdir" /\ rdr.pc = "user" /\ rdr.pos =< PpMaxNr
    /\ rdr' = [rdr EXCEPT !.pc = "find", !.tgid = rdr.pos, !.started = TRUE,
                 !.watch = IF rdr.started THEN @
                           ELSE {[nr |-> n, gen |-> gen[n]] : n \in Leaders \ PpHidden}]
    /\ UNCHANGED <<ppmode, tk, owner, gen, threads>>

\* One round of next_tgid's retry loop; the reference to the task before is
\* put first.
next_tgid ==
    /\ ppmode = "readdir" /\ rdr.pc = "find"
    /\ LET used == {n \in Nr : n >= rdr.tgid /\ owner[n] # PpNone}
           n == CHOOSE m \in used : \A k \in used : m =< k
           t == owner[n]
       IN  IF used = {}
           THEN /\ tk' = Move(tk, rdr.task, PpNone)
                /\ rdr' = [rdr EXCEPT !.pc = "user", !.pos = PpMaxNr + 1, !.task = PpNone]
           ELSE IF has_group_leader_pid(t)
           THEN /\ tk' = Move(tk, rdr.task, t)
                /\ rdr' = [rdr EXCEPT !.pc = "fill", !.tgid = n, !.task = t]
           ELSE /\ tk' = Move(tk, rdr.task, PpNone)
                /\ rdr' = [rdr EXCEPT !.tgid = n + 1, !.task = PpNone]
    /\ UNCHANGED <<ppmode, owner, gen, threads>>

\* The body of the loop: a hidden process is passed over, a full buffer ends
\* the call at this process.
readdir_fill ==
    /\ ppmode = "readdir" /\ rdr.pc = "fill"
    /\ \/ /\ rdr.tgid \in PpHidden
          /\ rdr' = [rdr EXCEPT !.pc = "find", !.tgid = @ + 1]
          /\ UNCHANGED tk
       \/ /\ rdr.tgid \notin PpHidden
          /\ rdr' = [rdr EXCEPT !.pc = "find", !.pos = rdr.tgid, !.tgid = @ + 1,
                                !.out = Append(@, rdr.tgid)]
          /\ UNCHANGED tk
       \/ /\ rdr.tgid \notin PpHidden
          /\ rdr' = [rdr EXCEPT !.pc = "user", !.pos = rdr.tgid, !.task = PpNone]
          /\ tk' = put_task_struct(tk, rdr.task)
    /\ UNCHANGED <<ppmode, owner, gen, threads>>

----------------------------------------------------------------------------
(***************************************************************************)
(* The listing of /proc/PID/task, of number 1: proc_task_readdir,          *)
(* first_tid and next_tid.  pos is ctx->pos - 2, version is f_version.     *)
(***************************************************************************)
\* Where in the group's list to start, PpNone for nowhere.
first_tid(pid, tid, nr) ==
    LET task == pid_task(pid)
        list == threads[tk[task].tgid]
    IN  IF task = PpNone THEN PpNone
        ELSE IF tid # 0 /\ nr # 0 /\ owner[tid] # PpNone /\ tk[owner[tid]].tgid = tk[task].tgid
             THEN owner[tid]
        ELSE IF nr >= Len(list) THEN PpNone
        ELSE list[nr + 1]

saved_tid(t) == tk[t].nr

proc_task_readdir ==
    /\ ppmode = "task" /\ rdr.pc = "user" /\ ~rdr.end
    /\ LET t == first_tid(rdr.pid, rdr.version, rdr.pos)
       IN  IF pid_task(rdr.pid) = PpNone \/ t = PpNone
           THEN /\ rdr' = [rdr EXCEPT !.end = TRUE, !.version = 0]
                /\ UNCHANGED tk
           ELSE /\ rdr' = [rdr EXCEPT !.pc = "fill", !.task = t, !.version = 0,
                             !.started = TRUE,
                             !.watch = IF rdr.started THEN @ ELSE ToSet(threads[1]),
                             !.exec = @ \/ \E u \in ToSet(threads[1]) :
                                              tk[u].nr = 1 /\ ~tk[u].leads]
                /\ tk' = get_task_struct(tk, t)
    /\ UNCHANGED <<ppmode, owner, gen, threads>>

\* proc_fill_cache emits the thread, or has no room.
task_fill ==
    /\ ppmode = "task" /\ rdr.pc = "fill"
    /\ \/ /\ Len(rdr.out) < PpMaxOut
          /\ rdr' = [rdr EXCEPT !.pc = "next", !.out = Append(@, [task |-> rdr.task, pid |-> PidOf(rdr.task)])]
          /\ UNCHANGED tk
       \/ /\ rdr' = [rdr EXCEPT !.pc = "user", !.task = PpNone, !.version = saved_tid(rdr.task)]
          /\ tk' = put_task_struct(tk, rdr.task)
    /\ UNCHANGED <<ppmode, owner, gen, threads>>

\* pid_alive() fails once the task was unhashed; the leader ends the circle.
next_tid ==
    /\ ppmode = "task" /\ rdr.pc = "next"
    /\ LET list == threads[tk[rdr.task].tgid]
           at == {i \in DOMAIN list : list[i] = rdr.task}
           i == CHOOSE k \in at : TRUE
           next == list[(i % Len(list)) + 1]
           pos == IF tk[rdr.task].state = "released" \/ tk[next].leads THEN PpNone ELSE next
       IN  /\ tk' = Move(tk, rdr.task, pos)
           /\ rdr' = [rdr EXCEPT !.pos = @ + 1, !.task = pos,
                                 !.pc = IF pos = PpNone THEN "user" ELSE "fill",
                                 !.end = pos = PpNone]
    /\ UNCHANGED <<ppmode, owner, gen, threads>>

----------------------------------------------------------------------------
(***************************************************************************)
(* A path walk to /proc/n through the dentry cache.                        *)
(***************************************************************************)
\* The cached dentry is taken as it is.
NotRevalidated(p) == TRUE

pid_revalidate(p) == pid_task(p) # PpNone

\* A cached dentry is revalidated; one that is not valid is dropped and the
\* walk goes on to proc_pid_lookup, which finds the task of the number.
lookup(n) ==
    /\ ppmode = "lookup" /\ rdr.pc = "user"
    /\ IF rdr.dcache[n] # PpNone /\ pid_revalidate(rdr.dcache[n])
       THEN /\ rdr' = [rdr EXCEPT !.pc = "got", !.name = n, !.pid = rdr.dcache[n]]
            /\ UNCHANGED tk
       ELSE IF owner[n] = PpNone
       THEN /\ rdr' = [rdr EXCEPT !.dcache[n] = PpNone, !.overtaken = @ \ {n}]
            /\ UNCHANGED tk
       ELSE /\ rdr' = [rdr EXCEPT !.pc = "instantiate", !.name = n, !.task = owner[n],
                                  !.dcache[n] = PpNone, !.overtaken = @ \ {n}]
            /\ tk' = get_task_struct(tk, owner[n])
    /\ UNCHANGED <<ppmode, owner, gen, threads>>

\* proc_pid_make_inode: the pid the task has by now, none after its release.
proc_pid_instantiate ==
    /\ ppmode = "lookup" /\ rdr.pc = "instantiate"
    /\ tk' = put_task_struct(tk, rdr.task)
    /\ IF tk[rdr.task].state = "released"
       THEN rdr' = [rdr EXCEPT !.pc = "user", !.task = PpNone]
       ELSE rdr' = [rdr EXCEPT !.pc = "got", !.dcache[rdr.name] = PidOf(rdr.task),
                               !.pid = PidOf(rdr.task), !.task = PpNone]
    /\ UNCHANGED <<ppmode, owner, gen, threads>>

\* dput: pid_delete_dentry keeps no dentry of a dead process.
dput ==
    /\ ppmode = "lookup" /\ rdr.pc = "got"
    /\ rdr' = [rdr EXCEPT !.pc = "user", !.pid = PpNone,
                 !.dcache[rdr.name] = IF @ # PpNone /\ pid_task(@) = PpNone THEN PpNone ELSE @]
    /\ UNCHANGED <<ppmode, tk, owner, gen, threads>>

----------------------------------------------------------------------------
(***************************************************************************)
(* /proc/PID/timers, of number 1.                                          *)
(***************************************************************************)
\* External, lock_task_sighand: fails once the task gave its sighand up.
Lockable(t) == tk[t].state # "released"

timers_start ==
    /\ ppmode = "timers" /\ rdr.pc = "user"
    /\ LET t == pid_task(rdr.pid)
       IN  IF t = PpNone THEN rdr' = [rdr EXCEPT !.pc = "stop"] /\ UNCHANGED tk
           ELSE /\ rdr' = [rdr EXCEPT !.pc = "lock", !.task = t]
                /\ tk' = get_task_struct(tk, t)
    /\ UNCHANGED <<ppmode, owner, gen, threads>>

timers_lock ==
    /\ ppmode = "timers" /\ rdr.pc = "lock"
    /\ rdr' = IF Lockable(rdr.task)
              THEN [rdr EXCEPT !.pc = "show", !.locked = rdr.task]
              ELSE [rdr EXCEPT !.pc = "stop"]
    /\ UNCHANGED <<ppmode, tk, owner, gen, threads>>

\* timers_next walks signal->posix_timers with the lock held.
timers_next ==
    /\ ppmode = "timers" /\ rdr.pc = "show"
    /\ rdr' = [rdr EXCEPT !.pc = "stop"]
    /\ UNCHANGED <<ppmode, tk, owner, gen, threads>>

has_ref(t) == rdr.task # PpNone

\* The seq_file code calls stop after a failed start, too.
timers_stop ==
    /\ ppmode = "timers" /\ rdr.pc = "stop"
    /\ tk' = IF has_ref(rdr.task) THEN put_task_struct(tk, rdr.task) ELSE tk
    /\ rdr' = [rdr EXCEPT !.pc = "user", !.locked = PpNone, !.task = PpNone]
    /\ UNCHANGED <<ppmode, owner, gen, threads>>

----------------------------------------------------------------------------
\* Task structs are created one by one; number 1 is always there at first.
PpInit ==
    /\ ppmode \in PpModes
    /\ gen = [n \in Nr |-> IF n = 1 THEN 1 ELSE 0]
    /\ \E t \in PpTask :
         /\ tk = [u \in PpTask |-> IF u = t THEN [nr |-> 1, tgid |-> 1, leads |-> TRUE,
                                                  state |-> "alive", refs |-> 0] ELSE Free]
         /\ owner = [n \in Nr |-> IF n = 1 THEN t ELSE PpNone]
         /\ threads = [n \in Nr |-> IF n = 1 THEN <<t>> ELSE <<>>]
    /\ rdr = [pc |-> "user", task |-> PpNone, pid |-> [nr |-> 1, gen |-> 1],
              pos |-> IF ppmode = "task" THEN 0 ELSE 1, tgid |-> 1, version |-> 0, end |-> FALSE, out |-> <<>>,
              name |-> 1, locked |-> PpNone, started |-> FALSE, watch |-> {},
              left |-> FALSE, exec |-> FALSE, overtaken |-> {}, dcache |-> [n \in Nr |-> PpNone]]

PpNext ==
    \/ \E t \in PpTask :
         \/ \E n, tgid \in Nr : fork(t, n, tgid)
         \/ exit(t) \/ release_task(t) \/ __unhash_process(t) \/ de_thread(t) \/ become_leader(t)
    \/ proc_pid_readdir \/ next_tgid \/ readdir_fill
    \/ proc_task_readdir \/ task_fill \/ next_tid
    \/ (\E n \in Nr : lookup(n)) \/ proc_pid_instantiate \/ dput
    \/ timers_start \/ timers_lock \/ timers_next \/ timers_stop

PpSpec == PpInit /\ [][PpNext]_ppvars

----------------------------------------------------------------------------
\* A listing of /proc, in as many calls as it takes, is in ascending order
\* without duplicates, and shows every visible process that was there from
\* its first call to its end, exec or not (next_tgid).
ListingComplete ==
    ppmode = "readdir" =>
        /\ \A i, j \in DOMAIN rdr.out : i < j => rdr.out[i] < rdr.out[j]
        /\ rdr.pos > PpMaxNr =>
              \A p \in rdr.watch : pid_task(p) # PpNone => p.nr \in ToSet(rdr.out)

\* A listing of /proc/PID/task never shows a thread twice, whatever threads
\* come and go while it is interrupted, unless an exec is under way; and it
\* shows every thread that was there from its first call to its end, unless
\* the very thread it stood at left (first_tid, next_tid and f_version).
ThreadsListedOnce ==
    ppmode = "task" =>
        /\ ~rdr.exec => \A i, j \in DOMAIN rdr.out : rdr.out[i] = rdr.out[j] => i = j
        /\ rdr.end /\ rdr.started /\ ~rdr.left /\ ~rdr.exec =>
              rdr.watch \subseteq {p.task : p \in ToSet(rdr.out)}

\* A walk to /proc/n ends with the process that has the number at that
\* moment, never with an earlier user of it (pid_revalidate; proc_flush_task
\* "is just an optimization").  One dentry is excepted: when a thread that the
\* lookup has found takes its leader's pid over before proc_pid_make_inode
\* reads its pid, the dentry n names the leader's pid (base.c:1780), and
\* pid_revalidate, which looks at the inode's pid only, accepts it as long as
\* that process lives, even when n is used again (base.c:1841).
WalkStep ==
    rdr.pc # "got" /\ rdr'.pc = "got" =>
        /\ pid_task(rdr'.pid) # PpNone
        /\ rdr'.pid.nr = rdr'.name \/ rdr'.name \in rdr.overtaken

\* The reader holds one reference to the task it is at and none otherwise,
\* after an error, too, and that task_struct is not freed under it.
ReaderRefsExact ==
    \A t \in PpTask : /\ tk[t].refs = (IF rdr.task = t THEN 1 ELSE 0)
                      /\ tk[t].state = "free" => rdr.task # t

\* A listing of /proc or of /proc/PID/task is complete and repeats nothing,
\* and its reader neither loses nor keeps a task.
ListingsExact == ListingComplete /\ ThreadsListedOnce /\ ReaderRefsExact
=============================================================================
