---------------------------- MODULE CopyProcess ----------------------------
(***************************************************************************)
(* fork.c: copy_process acquires what a child needs one thing at a time,   *)
(* and a failure at any point must give back exactly what was acquired, in *)
(* the order of the bad_fork labels.  Other tasks fork, exit, unshare and  *)
(* write oom_score_adj in between, and share the counted structures.       *)
(*                                                                         *)
(* files, fs, sighand, signal and mm are shared structures with a          *)
(* reference count.  Everything else copy_process acquires belongs to the  *)
(* child alone; opaque counts how many of each are out.                    *)
(***************************************************************************)
EXTENDS Integers, FiniteSets, FiniteSetsExt, Sequences, SequencesExt

CONSTANTS
    CpTask,          \* the task structures there is memory for
    CpInit,          \* the first task
    CpKeeps,         \* the global init and the kernel threads of CpTask
    CpNone,          \* no task, no structure
    CpFlags,         \* the sets of clone flags that callers use
    CpUnshareFlags,  \* the sets of flags that unshare is called with
    MaxThreads,      \* max_threads
    MaxForks,        \* how many copy_process calls overlap, a bound
    MaxObjs,         \* how many structures of a kind there are at a time, a bound
    CpAdj            \* the values written to oom_score_adj

\* What the constants must satisfy.
CpAssumption ==
    /\ CpInit \in CpTask /\ CpNone \notin CpTask /\ IsFiniteSet(CpTask)
    /\ CpKeeps \subseteq CpTask
    /\ MaxThreads \in Nat \ {0} /\ MaxForks \in Nat \ {0} /\ MaxObjs \in Nat \ {0}
    /\ CpAdj \subseteq Int

VARIABLES
    pr,         \* every task: its state, the structures it points to, its
                \* group_leader, whether vfork_done is set, and (only for the
                \* properties) whether it came from vfork
    refs,       \* the reference counts of the shared structures
    opaque,     \* how many of each private resource are out
    nr_threads, \* the number of visible tasks
    oom,        \* oom_score_adj of the signal structures
    multi,      \* the mm structures with MMF_MULTIPROCESS
    fk,         \* the copy_process call of every task
    un          \* the unshare call of every task

cpvars == <<pr, refs, opaque, nr_threads, oom, multi, fk, un>>

Shared == {"files", "fs", "sighand", "signal", "mm"}
Obj == 1 .. MaxObjs

\* The clone flag that shares a structure with the parent.
ShareFlag == [files |-> "FILES", fs |-> "FS", sighand |-> "SIGHAND",
              signal |-> "THREAD", mm |-> "VM"]

(***************************************************************************)
(* The steps of copy_process in order, with the label that each jumps to   *)
(* when it fails; a label names the first thing given back.                *)
(***************************************************************************)
CopySteps ==
    << [name |-> "task",       label |-> "out"],
       [name |-> "creds",      label |-> "free"],
       [name |-> "limit",      label |-> "creds"],
       [name |-> "mempolicy",  label |-> "delayacct"],
       [name |-> "sched",      label |-> "mempolicy"],
       [name |-> "perf",       label |-> "mempolicy"],
       [name |-> "audit",      label |-> "perf"],
       [name |-> "security",   label |-> "audit"],
       [name |-> "semundo",    label |-> "security"],
       [name |-> "files",      label |-> "semundo"],
       [name |-> "fs",         label |-> "files"],
       [name |-> "sighand",    label |-> "fs"],
       [name |-> "signal",     label |-> "sighand"],
       [name |-> "mm",         label |-> "signal"],
       [name |-> "namespaces", label |-> "mm"],
       [name |-> "io",         label |-> "namespaces"],
       [name |-> "thread",     label |-> "io"],
       [name |-> "pid",        label |-> "thread"],
       [name |-> "pidfd",      label |-> "pid"],
       [name |-> "put_user",   label |-> "pidfd"],
       [name |-> "cgroup",     label |-> "threadgroup"],
       [name |-> "publish",    label |-> "cgroup"] >>

\* The code from bad_fork_cancel_cgroup to fork_out.
BadFork ==
    << "cgroup", "threadgroup", "pidfd", "pid", "thread", "io", "namespaces",
       "mm", "signal", "sighand", "fs", "files", "semundo", "security",
       "audit", "perf", "mempolicy", "delayacct", "creds", "free", "out" >>

LabelIndex(label) == CHOOSE i \in DOMAIN BadFork : BadFork[i] = label

\* The private resources: taken by the step of their name (delayacct by the
\* one after the limit, task by dup_task_struct and freed at "free").
Private == {"task", "creds", "delayacct", "mempolicy", "perf", "audit",
            "security", "semundo", "namespaces", "io", "thread", "pid",
            "pidfd", "cgroup"}

CpLive == {t \in CpTask : pr[t].st = "live"}
Forking == {t \in CpTask : fk[t].pc # 0}

\* The call is at its n-th step after the child is visible.
InFork(t, n) == fk[t].pc = Len(CopySteps) + n

\* Woken: wake_up_new_task has been called for it.
CpRunnable(t) ==
    t \in CpLive /\ \A p \in Forking : fk[p].child = t => InFork(p, 3)

NoPtr == [k \in Shared |-> CpNone]
CpIdleFork == [pc |-> 0]
CpIdleUn == [pc |-> "none"]

CpInitial ==
    /\ pr = [t \in CpTask |->
              [st |-> IF t = CpInit THEN "live" ELSE "none",
               vfork_done |-> FALSE, byvfork |-> FALSE, leader |-> t,
               ptr |-> IF t = CpInit THEN [k \in Shared |-> 1] ELSE NoPtr]]
    /\ refs = [k \in Shared |-> [o \in Obj |-> IF o = 1 THEN 1 ELSE 0]]
    /\ opaque = [r \in Private |-> IF r \in {"pidfd", "cgroup"} THEN 0 ELSE 1]
    /\ nr_threads = 1
    /\ oom = [o \in Obj |-> Min(CpAdj)]
    /\ multi = {}
    /\ fk = [t \in CpTask |-> CpIdleFork]
    /\ un = [t \in CpTask |-> CpIdleUn]

NewObj(k) == CHOOSE o \in Obj : refs[k][o] = 0

(***************************************************************************)
(* Entry: the flag combinations that copy_process refuses.                 *)
(***************************************************************************)
clone_flags_valid(flags) ==
    /\ "THREAD" \in flags => "SIGHAND" \in flags
    /\ "SIGHAND" \in flags => "VM" \in flags
    /\ "PIDFD" \in flags => "THREAD" \notin flags

_do_fork(t, flags) ==
    /\ CpRunnable(t) /\ fk[t].pc = 0 /\ un[t].pc = "none"
    /\ Cardinality(Forking) < MaxForks
    /\ clone_flags_valid(flags)
    /\ \E c \in CpTask :
          /\ pr[c].st = "none"
          \* the waiter and the threads of a dead leader hold a reference
          /\ \A p \in Forking : fk[p].child # c
          /\ \A p \in CpTask \ {c} : pr[p].leader # c
          /\ pr' = [pr EXCEPT ![c].st = "new"]
          /\ fk' = [fk EXCEPT ![t] = [pc |-> 1, flags |-> flags, child |-> c]]
    /\ UNCHANGED <<refs, opaque, nr_threads, oom, multi, un>>

(***************************************************************************)
(* A step that succeeds.                                                   *)
(***************************************************************************)
StepName(t) == CopySteps[fk[t].pc].name

\* copy_files, copy_fs, copy_mm: share the parent's structure or make one.
copy_shared(t, k) ==
    LET c == fk[t].child
        share == ShareFlag[k] \in fk[t].flags
        o == IF share THEN pr[t].ptr[k] ELSE NewObj(k)
    IN  /\ pr' = [pr EXCEPT ![c].ptr[k] = o]
        /\ refs' = [refs EXCEPT ![k][o] = @ + 1]
        \* mm_init keeps only the flags of MMF_INIT_MASK
        /\ multi' = IF k = "mm" /\ ~share THEN multi \ {o} ELSE multi
        /\ UNCHANGED <<opaque, oom>>

copy_sighand(t) == copy_shared(t, "sighand")

SharesOnlyPointer(k, flags) == k = "signal" /\ "THREAD" \in flags

\* A thread's signal is the parent's, and is counted only when the thread is
\* published; a new one starts with the parent's oom_score_adj.
copy_signal(t) ==
    LET c == fk[t].child
        thread == SharesOnlyPointer("signal", fk[t].flags)
        o == IF thread THEN pr[t].ptr.signal ELSE NewObj("signal")
    IN  /\ pr' = [pr EXCEPT ![c].ptr["signal"] = o]
        /\ refs' = IF thread THEN refs ELSE [refs EXCEPT !["signal"][o] = 1]
        /\ oom' = IF thread THEN oom ELSE [oom EXCEPT ![o] = oom[pr[t].ptr.signal]]
        /\ UNCHANGED <<opaque, multi>>

\* The private resources a step acquires.
StepTakes(t, name) ==
    CASE name = "limit" -> {"delayacct"}
      [] name = "pidfd" -> IF "PIDFD" \in fk[t].flags THEN {"pidfd"} ELSE {}
      [] OTHER -> {name} \cap Private

copy_private(t, name) ==
    /\ opaque' = [r \in Private |->
                    opaque[r] + IF r \in StepTakes(t, name) THEN 1 ELSE 0]
    /\ UNCHANGED <<pr, refs, oom, multi>>

Advance(t) == fk' = [fk EXCEPT ![t].pc = @ + 1]

limit_reached == nr_threads >= MaxThreads

copy_step(t) ==
    LET name == StepName(t) IN
    /\ fk[t].pc \in 1 .. Len(CopySteps) - 1
    /\ name = "limit" => ~limit_reached
    /\ CASE name = "signal" -> copy_signal(t)
         [] name = "sighand" -> copy_sighand(t)
         [] name \in Shared \ {"signal", "sighand"} -> copy_shared(t, name)
         [] OTHER -> copy_private(t, name)
    /\ Advance(t)
    /\ UNCHANGED <<nr_threads, un>>

(***************************************************************************)
(* Past the last point of failure, under the tasklist lock: the child is   *)
(* visible.  A new thread is counted in its signal structure.  The cgroup  *)
(* reservation turns into membership.                                      *)
(***************************************************************************)
publish(t) ==
    LET c == fk[t].child
        thread == "THREAD" \in fk[t].flags
    IN  /\ fk[t].pc = Len(CopySteps)
        /\ pr' = [pr EXCEPT ![c].st = "live",
                            ![c].leader = IF thread THEN pr[t].leader ELSE c,
                            ![c].byvfork = "VFORK" \in fk[t].flags \/
                               (pr[t].byvfork /\ "VM" \in fk[t].flags)]
        /\ refs' = IF thread
                   THEN [refs EXCEPT !["signal"][pr[c].ptr.signal] = @ + 1]
                   ELSE refs
        /\ nr_threads' = nr_threads + 1
        \* the reservation is used up; the pidfd is installed
        /\ opaque' = [opaque EXCEPT !["cgroup"] = @ - 1,
                        !["pidfd"] = IF "PIDFD" \in fk[t].flags
                                     THEN @ - 1 ELSE @]
        /\ fk' = [fk EXCEPT ![t].pc = Len(CopySteps) + 1]
        /\ UNCHANGED <<oom, multi, un>>

\* copy_oom_score_adj: a process that shares the mm takes the value its
\* parent has now, and the mm is marked.
oom_copies(flags) ==
    "VM" \in flags /\ "THREAD" \notin flags /\ "VFORK" \notin flags

copy_oom_score_adj(t) ==
    LET c == fk[t].child IN
    /\ fk[t].pc = Len(CopySteps) + 1
    /\ fk' = [fk EXCEPT ![t].pc = @ + 1]
    /\ IF oom_copies(fk[t].flags)
       THEN /\ multi' = multi \cup {pr[c].ptr.mm}
            /\ oom' = [oom EXCEPT ![pr[c].ptr.signal] = oom[pr[t].ptr.signal]]
       ELSE UNCHANGED <<multi, oom>>
    /\ UNCHANGED <<pr, refs, opaque, nr_threads, un>>

(***************************************************************************)
(* The rest of _do_fork: the child is woken, and a vfork waits on a        *)
(* completion on its own stack until the child has left the mm or a signal *)
(* kills the wait; then the child must forget the completion.              *)
(***************************************************************************)
wake_child(t) ==
    /\ InFork(t, 2)
    /\ IF "VFORK" \in fk[t].flags
       THEN /\ pr' = [pr EXCEPT ![fk[t].child].vfork_done = TRUE]
            /\ Advance(t)
       ELSE fk' = [fk EXCEPT ![t] = CpIdleFork] /\ UNCHANGED pr
    /\ UNCHANGED <<refs, opaque, nr_threads, oom, multi, un>>

forget_completion(t) == [pr EXCEPT ![fk[t].child].vfork_done = FALSE]

\* The second disjunct is the killed wait, which may come after the child's
\* complete: both hold the child's task_lock.
wait_for_vfork_done(t) ==
    /\ InFork(t, 3)
    /\ \/ ~pr[fk[t].child].vfork_done /\ UNCHANGED pr
       \/ pr' = forget_completion(t)
    /\ fk' = [fk EXCEPT ![t] = CpIdleFork]
    /\ UNCHANGED <<refs, opaque, nr_threads, oom, multi, un>>

\* External: execve leaves the mm for a new one (exec_mm_release).
exec_mmap(t) ==
    LET o == NewObj("mm") IN
    /\ CpRunnable(t) /\ t # CpInit /\ fk[t].pc = 0 /\ un[t].pc = "none"
    /\ refs.signal[pr[t].ptr.signal] = 1
    /\ pr' = [pr EXCEPT ![t].ptr.mm = o, ![t].vfork_done = FALSE,
                        ![t].byvfork = FALSE]
    /\ refs' = [refs EXCEPT !["mm"] = [@ EXCEPT ![pr[t].ptr.mm] = @ - 1,
                                               ![o] = 1]]
    /\ multi' = multi \ {o}
    /\ UNCHANGED <<opaque, nr_threads, oom, fk, un>>

(***************************************************************************)
(* A step that fails: everything from its label on is given back, under    *)
(* the conditions of the code.  The step "limit" fails when the limit is   *)
(* reached; those that make a pidfd may fail when one is asked for, and    *)
(* any other may.                                                          *)
(***************************************************************************)
SignalKept(step) == IF step.name = "mm" THEN "sighand" ELSE step.label

bad_fork_label(step) == step.label

GivenBack(t, label) ==
    {BadFork[i] : i \in LabelIndex(label) .. Len(BadFork)}
        \ ((IF "PIDFD" \in fk[t].flags THEN {} ELSE {"pidfd"}) \cup
           (IF "THREAD" \in fk[t].flags THEN {"signal"} ELSE {}))

bad_fork(t) ==
    LET c == fk[t].child
        back == GivenBack(t, bad_fork_label(CopySteps[fk[t].pc]))
        private == IF "free" \in back THEN back \cup {"task"} ELSE back
    IN  /\ fk[t].pc \in 1 .. Len(CopySteps)
        /\ StepName(t) = "limit" => limit_reached
        /\ StepName(t) \in {"pidfd", "put_user"} => "PIDFD" \in fk[t].flags
        /\ opaque' = [r \in Private |->
                         opaque[r] - IF r \in private THEN 1 ELSE 0]
        /\ refs' = [k \in Shared |-> [o \in Obj |->
                       refs[k][o] - IF k \in back /\ pr[c].ptr[k] = o
                                    THEN 1 ELSE 0]]
        /\ pr' = [pr EXCEPT ![c].st = "none", ![c].ptr = NoPtr]
        /\ fk' = [fk EXCEPT ![t] = CpIdleFork]
        /\ UNCHANGED <<nr_threads, oom, multi, un>>

(***************************************************************************)
(* unshare: copies of what is shared are made first, and installed         *)
(* together; a failure in between frees the copies.                        *)
(***************************************************************************)
must_unshare(k, n) == n > 1

ksys_unshare(t, flags) ==
    LET ks == {k \in {"files", "fs"} : ShareFlag[k] \in flags /\
                   must_unshare(k, refs[k][pr[t].ptr[k]])}
    IN  /\ CpRunnable(t) /\ fk[t].pc = 0 /\ un[t].pc = "none"
        /\ un' = [un EXCEPT ![t] = [pc |-> "copied", flags |-> flags,
                     new |-> [k \in ks |-> NewObj(k)]]]
        /\ refs' = [k \in Shared |->
                       IF k \in ks THEN [refs[k] EXCEPT ![NewObj(k)] = 1]
                       ELSE refs[k]]
        /\ UNCHANGED <<pr, opaque, nr_threads, oom, multi, fk>>

unshare_install(t) ==
    LET new == un[t].new IN
    /\ un[t].pc = "copied"
    /\ pr' = [pr EXCEPT ![t].ptr = [k \in Shared |->
                 IF k \in DOMAIN new THEN new[k] ELSE @[k]]]
    /\ refs' = [k \in Shared |->
                   IF k \in DOMAIN new
                   THEN [refs[k] EXCEPT ![pr[t].ptr[k]] = @ - 1] ELSE refs[k]]
    /\ un' = [un EXCEPT ![t] = CpIdleUn]
    /\ UNCHANGED <<opaque, nr_threads, oom, multi, fk>>

bad_unshare(t) ==
    /\ un[t].pc = "copied"
    /\ refs' = [k \in Shared |->
                   IF k \in DOMAIN un[t].new
                   THEN [refs[k] EXCEPT ![un[t].new[k]] = @ - 1] ELSE refs[k]]
    /\ un' = [un EXCEPT ![t] = CpIdleUn]
    /\ UNCHANGED <<pr, opaque, nr_threads, oom, multi, fk>>

(***************************************************************************)
(* __set_oom_adj of /proc/<pid>/oom_score_adj, under oom_adj_mutex.  A     *)
(* task whose vfork is not done has vfork_done set; the processes that     *)
(* share the mm are visited, through their leaders, only when the mm is    *)
(* marked.  The global init and kernel threads keep their value.           *)
(***************************************************************************)
untouched(leader) == leader \in CpKeeps \/ pr[leader].vfork_done

OomReaches(t) ==
    {pr[t].ptr.signal} \cup
    IF pr[t].vfork_done \/ pr[t].ptr.mm \notin multi THEN {}
    ELSE {pr[q].ptr.signal : q \in
            {p \in CpLive : pr[p].ptr.mm = pr[t].ptr.mm /\ ~untouched(pr[p].leader)}}

__set_oom_adj(t, adj) ==
    /\ t \in CpLive
    /\ oom' = [o \in Obj |-> IF o \in OomReaches(t) THEN adj ELSE oom[o]]
    /\ UNCHANGED <<pr, refs, opaque, nr_threads, multi, fk, un>>

\* External: do_exit and release_task drop every reference through
\* mmput, exit_files, exit_fs, __cleanup_sighand and put_task_struct.
do_exit(t) ==
    /\ CpRunnable(t) /\ t # CpInit /\ fk[t].pc = 0 /\ un[t].pc = "none"
    /\ refs' = [k \in Shared |-> [refs[k] EXCEPT ![pr[t].ptr[k]] = @ - 1]]
    /\ opaque' = [r \in Private |->
                     opaque[r] - IF r \in {"pidfd", "cgroup"} THEN 0 ELSE 1]
    /\ pr' = [pr EXCEPT ![t].st = "none", ![t].ptr = NoPtr,
                        ![t].vfork_done = FALSE, ![t].byvfork = FALSE,
                        ![t].leader = t]
    /\ nr_threads' = nr_threads - 1
    /\ UNCHANGED <<oom, multi, fk, un>>

CpNext ==
    \E t \in CpTask :
        \/ \E flags \in CpFlags : _do_fork(t, flags)
        \/ copy_step(t)
        \/ publish(t)
        \/ copy_oom_score_adj(t)
        \/ wake_child(t)
        \/ wait_for_vfork_done(t)
        \/ exec_mmap(t)
        \/ bad_fork(t)
        \/ \E flags \in CpUnshareFlags : ksys_unshare(t, flags)
        \/ unshare_install(t)
        \/ bad_unshare(t)
        \/ \E adj \in CpAdj : __set_oom_adj(t, adj)
        \/ do_exit(t)

CpSpec == CpInitial /\ [][CpNext]_cpvars

-----------------------------------------------------------------------------
(***************************************************************************)
(* Properties.                                                             *)
(***************************************************************************)
Builds(t) == fk[t].pc \in 1 .. Len(CopySteps)

Took(r) ==
    {t \in CpTask : Builds(t) /\ \E i \in 1 .. fk[t].pc - 1 :
                                  r \in StepTakes(t, CopySteps[i].name)}

\* copy_process gives back exactly what it took, whichever of its steps
\* fails and whatever the other callers do meanwhile: each private resource
\* is out once for every visible task that keeps it and once for every call
\* that has taken it.
NothingLeaks ==
    \A r \in Private :
        opaque[r] = Cardinality(Took(r)) +
                    IF r \in {"pidfd", "cgroup"} THEN 0 ELSE Cardinality(CpLive)

\* The tasks that hold a reference to structure o, and the copies that an
\* unshare has not installed yet.
Holders(k, o) ==
    {t \in CpTask :
        /\ pr[t].ptr[k] = o
        /\ \/ pr[t].st = "live"
           \/ pr[t].st = "new" /\ ~\E p \in Forking :
                 fk[p].child = t /\ SharesOnlyPointer(k, fk[p].flags)}

\* A reference count is the number of holders, so that a structure is freed
\* with its last holder and not before, through every failed fork, unshare
\* and exit.
RefsExact ==
    \A k \in Shared, o \in Obj :
        refs[k][o] = Cardinality(Holders(k, o)) +
                     Cardinality({t \in CpTask : un[t].pc = "copied" /\
                                    k \in DOMAIN un[t].new /\ un[t].new[k] = o})

\* Processes that share an mm, other than through vfork, and that are not
\* among those the walk leaves alone, have the same
\* oom_score_adj once copy_oom_score_adj of the last of them has run,
\* whether the value was written before, during or after the clone.
OomAdjShared ==
    \A t, u \in CpLive :
        (/\ pr[t].ptr.mm = pr[u].ptr.mm
         /\ ~pr[t].byvfork /\ ~pr[u].byvfork
         /\ {pr[t].leader, pr[u].leader} \cap CpKeeps = {}
         /\ \A p \in CpTask : InFork(p, 1) => fk[p].child \notin {t, u})
        => oom[pr[t].ptr.signal] = oom[pr[u].ptr.signal]

\* A child never has a pointer to the completion of a vfork that is no
\* longer on its parent's stack, even when the wait was killed.
VforkFrame ==
    \A c \in CpTask : pr[c].vfork_done =>
        \E p \in CpTask : fk[p].pc # 0 /\ fk[p].child = c /\ InFork(p, 3)

\* What parent and child share, and what each has for itself, is accounted
\* for through every failing step of fork, unshare and exit (copy_process).
SharingExact == NothingLeaks /\ RefsExact /\ OomAdjShared /\ VforkFrame
=============================================================================
