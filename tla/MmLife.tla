------------------------------- MODULE MmLife -------------------------------
(***************************************************************************)
(* The life of an mm_struct: fork.c duplicates it mapping by mapping and   *)
(* undoes a duplication that fails, tasks and /proc readers use it, CPUs   *)
(* that run kernel threads borrow it, and it goes in two stages: the last  *)
(* user (mm_users) tears the mappings down, the last reference (mm_count)  *)
(* frees the structure.                                                    *)
(*                                                                         *)
(* Every process starts with the same mappings, Layout: "account" is       *)
(* charged against the committed memory, "dontcopy" is not duplicated.     *)
(***************************************************************************)
EXTENDS Integers, FiniteSets, FiniteSetsExt, Sequences

CONSTANTS
    MTask,     \* the user tasks
    MFirst,    \* the one that exists at the start
    MFile,     \* open files of /proc/<pid>/mem, environ and auxv
    MCpu,      \* the CPUs that run kernel threads
    Mm,        \* the mm structures there is memory for
    MNone,     \* no mm
    Layout     \* the mappings of a process

ASSUME MmAssumption ==
    /\ MFirst \in MTask /\ MNone \notin Mm /\ IsFiniteSet(Mm) /\ Mm # {}
    /\ IsFiniteSet(MTask) /\ IsFiniteSet(MFile) /\ IsFiniteSet(MCpu)
    /\ Layout \in Seq({"account", "dontcopy", "plain"})

VARIABLES
    mm,         \* the mm structures
    mmof,       \* task->mm
    dup,        \* the dup_mm call of each task
    file,       \* the mm each open file points to, and what its user does
    lazy,       \* rq->curr->active_mm of a CPU that runs a kernel thread
    putting,    \* the mms whose last user is gone, with work left to do
    committed,  \* the committed memory
    exe_refs,   \* references to the executable's file
    mod_refs    \* references to the binfmt module

mmvars == <<mm, mmof, dup, file, lazy, putting, committed, exe_refs, mod_refs>>

Accounted(v) == {i \in v : Layout[i] = "account"}

MmFree == [st |-> "free", users |-> 0, count |-> 0, vma |-> {}, total_vm |-> 0,
           exe |-> FALSE, binfmt |-> FALSE]
MmFull == [st |-> "used", users |-> 1, count |-> 1, vma |-> DOMAIN Layout,
           total_vm |-> Len(Layout), exe |-> TRUE, binfmt |-> TRUE]
NoDup == [pc |-> 0, m |-> MNone, from |-> MNone, charge |-> 0]
NoFile == [m |-> MNone, pc |-> "closed"]

MmInit ==
    \E m1 \in Mm :
        /\ mm = [m \in Mm |-> IF m = m1 THEN MmFull ELSE MmFree]
        /\ mmof = [t \in MTask |-> IF t = MFirst THEN m1 ELSE MNone]
        /\ dup = [t \in MTask |-> NoDup]
        /\ file = [f \in MFile |-> NoFile]
        /\ lazy = [c \in MCpu |-> MNone]
        /\ putting = {}
        /\ committed = Cardinality(Accounted(DOMAIN Layout))
        /\ exe_refs = 1
        /\ mod_refs = 1

FreeMm == {m \in Mm : mm[m].st = "free"}

(***************************************************************************)
(* References.  mmdrop frees the structure with the last one.              *)
(***************************************************************************)
mmget(r) == [r EXCEPT !.users = @ + 1]
mmgrab(r) == [r EXCEPT !.count = @ + 1]
mmdrop(r) == IF r.count = 1 THEN MmFree ELSE [r EXCEPT !.count = @ - 1]

\* The last user leaves __mmput to be done, at once or by a work item.
mmput(s, m) == [s EXCEPT ![m].users = @ - 1]
WorkForgotten(s, m) == {}

PutLast(s, m) == IF s[m].users = 1 THEN {m} ELSE {}

\* __mmput: the mappings, the file and the module go, then the reference
\* that the users held together.
__mmput(m) ==
    /\ m \in putting
    /\ putting' = putting \ {m}
    /\ committed' = committed - Cardinality(Accounted(mm[m].vma))
    /\ exe_refs' = exe_refs - IF mm[m].exe THEN 1 ELSE 0
    /\ mod_refs' = mod_refs - IF mm[m].binfmt THEN 1 ELSE 0
    /\ mm' = [mm EXCEPT ![m] =
                mmdrop([@ EXCEPT !.st = "torn", !.vma = {}, !.exe = FALSE,
                                 !.binfmt = FALSE])]
    /\ UNCHANGED <<mmof, dup, file, lazy>>

(***************************************************************************)
(* copy_mm.  A clone with CLONE_VM takes a reference.  dup_mm copies the   *)
(* structure, so the new one begins with the old one's pointers, and       *)
(* mm_init clears the ones whose reference it does not hold.               *)
(***************************************************************************)
MIdle(t) == dup[t].pc = 0

copy_mm_shared(t, c) ==
    /\ mmof[t] # MNone /\ MIdle(t) /\ mmof[c] = MNone
    /\ mm' = [mm EXCEPT ![mmof[t]] = mmget(@)]
    /\ mmof' = [mmof EXCEPT ![c] = mmof[t]]
    /\ UNCHANGED <<dup, file, lazy, putting, committed, exe_refs, mod_refs>>

mm_init(r) == [r EXCEPT !.users = 1, !.count = 1, !.vma = {}, !.exe = FALSE]

dup_mm(t) ==
    /\ mmof[t] # MNone /\ MIdle(t)
    /\ \E m \in FreeMm :
          /\ mm' = [mm EXCEPT ![m] = mm_init(mm[mmof[t]])]
          /\ dup' = [dup EXCEPT ![t] = [pc |-> 1, m |-> m, from |-> mmof[t],
                                        charge |-> 0]]
    /\ UNCHANGED <<mmof, file, lazy, putting, committed, exe_refs, mod_refs>>

At(t) == dup[t].pc - 1
AtMapping(t) == dup[t].pc >= 2 /\ At(t) \in DOMAIN Layout

\* The place of the next mapping that the old mm has, or of the end.
NextPlace(d) ==
    LET after == {i \in mm[d.from].vma : i >= d.pc} IN
    IF after = {} THEN Len(Layout) + 2 ELSE Min(after) + 1

\* dup_mmap once it has the parent's mmap_sem: the file, then one mapping
\* after the other.
dup_mmap_begin(t) ==
    LET m == dup[t].m IN
    /\ dup[t].pc = 1
    /\ mm' = [mm EXCEPT ![m].exe = mm[dup[t].from].exe]
    /\ exe_refs' = exe_refs + IF mm[dup[t].from].exe THEN 1 ELSE 0
    /\ dup' = [dup EXCEPT ![t].pc = NextPlace(dup[t])]
    /\ UNCHANGED <<mmof, file, lazy, putting, committed, mod_refs>>

skip_stat(n) == n - 1

dup_skip(t) ==
    /\ AtMapping(t) /\ Layout[At(t)] = "dontcopy" /\ dup[t].charge = 0
    /\ mm' = [mm EXCEPT ![dup[t].m].total_vm = skip_stat(@)]
    /\ dup' = [dup EXCEPT ![t].pc = NextPlace(dup[t])]
    /\ UNCHANGED <<mmof, file, lazy, putting, committed, exe_refs, mod_refs>>

\* security_vm_enough_memory_mm charges the mapping before it is copied.
dup_charge(t) ==
    /\ AtMapping(t) /\ Layout[At(t)] = "account" /\ dup[t].charge = 0
    /\ committed' = committed + 1
    /\ dup' = [dup EXCEPT ![t].charge = 1]
    /\ UNCHANGED <<mm, mmof, file, lazy, putting, exe_refs, mod_refs>>

next_mapping(d) == [d EXCEPT !.pc = NextPlace(d), !.charge = 0]

dup_link(t) ==
    /\ AtMapping(t)
    /\ \/ Layout[At(t)] = "account" /\ dup[t].charge = 1
       \/ Layout[At(t)] = "plain"
    /\ mm' = [mm EXCEPT ![dup[t].m].vma = @ \cup {At(t)}]
    /\ dup' = [dup EXCEPT ![t] = next_mapping(@)]
    /\ UNCHANGED <<mmof, file, lazy, putting, committed, exe_refs, mod_refs>>

\* The end of dup_mm: the module, and the child has its mm.
dup_mm_done(t, c) ==
    LET m == dup[t].m IN
    /\ dup[t].pc = Len(Layout) + 2
    /\ mmof[c] = MNone
    /\ mod_refs' = mod_refs + IF mm[m].binfmt THEN 1 ELSE 0
    /\ mmof' = [mmof EXCEPT ![c] = m]
    /\ dup' = [dup EXCEPT ![t] = NoDup]
    /\ UNCHANGED <<mm, file, lazy, putting, committed, exe_refs>>

\* fail_nomem and the other failures: the charge of the mapping that was not
\* linked goes back, the module was not taken, and mmput undoes the rest.
free_pt(r) == [r EXCEPT !.binfmt = FALSE]

dup_mm_fails(t) ==
    LET m == dup[t].m
        s == [mm EXCEPT ![m] = free_pt(@)]
    IN  /\ ~MIdle(t)
        /\ committed' = committed - dup[t].charge
        /\ mm' = mmput(s, m)
        /\ putting' = putting \cup PutLast(s, m)
        /\ dup' = [dup EXCEPT ![t] = NoDup]
        /\ UNCHANGED <<mmof, file, lazy, exe_refs, mod_refs>>

(***************************************************************************)
(* A task that exits, and one that executes a new program (external users  *)
(* of mmput and mm_alloc).                                                 *)
(***************************************************************************)
exit_mm(t) ==
    /\ mmof[t] # MNone /\ MIdle(t)
    /\ mm' = mmput(mm, mmof[t])
    /\ putting' = putting \cup PutLast(mm, mmof[t])
    /\ mmof' = [mmof EXCEPT ![t] = MNone]
    /\ UNCHANGED <<dup, file, lazy, committed, exe_refs, mod_refs>>

mm_alloc(t) ==
    /\ mmof[t] # MNone /\ MIdle(t)
    /\ \E m \in FreeMm :
          /\ mm' = [mmput(mm, mmof[t]) EXCEPT ![m] = MmFull]
          /\ mmof' = [mmof EXCEPT ![t] = m]
    /\ putting' = putting \cup PutLast(mm, mmof[t])
    /\ committed' = committed + Cardinality(Accounted(DOMAIN Layout))
    /\ exe_refs' = exe_refs + 1
    /\ mod_refs' = mod_refs + 1
    /\ UNCHANGED <<dup, file, lazy>>

(***************************************************************************)
(* context_switch and finish_task_switch: a kernel thread keeps the mm of  *)
(* the task before it with mmgrab, the switch away from it is followed by  *)
(* mmdrop.                                                                 *)
(***************************************************************************)
context_switch_to_kernel(c, t) ==
    /\ lazy[c] = MNone /\ mmof[t] # MNone
    /\ mm' = [mm EXCEPT ![mmof[t]] = mmgrab(@)]
    /\ lazy' = [lazy EXCEPT ![c] = mmof[t]]
    /\ UNCHANGED <<mmof, dup, file, putting, committed, exe_refs, mod_refs>>

context_switch_to_user(c) ==
    /\ lazy[c] # MNone
    /\ mm' = [mm EXCEPT ![lazy[c]] = mmdrop(@)]
    /\ lazy' = [lazy EXCEPT ![c] = MNone]
    /\ UNCHANGED <<mmof, dup, file, putting, committed, exe_refs, mod_refs>>

(***************************************************************************)
(* /proc/<pid>/mem, environ, auxv.  Opening turns a use into a reference:  *)
(* mm_access, then mmgrab, then mmput.  Reading needs the mappings, so it  *)
(* takes a use unless there is none left.                                  *)
(***************************************************************************)
proc_mem_open(f, t) ==
    /\ file[f].pc = "closed" /\ mmof[t] # MNone
    /\ mm' = [mm EXCEPT ![mmof[t]] = mmget(@)]
    /\ file' = [file EXCEPT ![f] = [m |-> mmof[t], pc |-> "opening"]]
    /\ UNCHANGED <<mmof, dup, lazy, putting, committed, exe_refs, mod_refs>>

NotGrabbed(r) == r

pin_struct(r) == mmgrab(r)

proc_mem_opened(f) ==
    LET m == file[f].m
        s == [mm EXCEPT ![m] = pin_struct(@)]
    IN  /\ file[f].pc = "opening"
        /\ mm' = mmput(s, m)
        /\ putting' = putting \cup PutLast(s, m)
        /\ file' = [file EXCEPT ![f].pc = "open"]
        /\ UNCHANGED <<mmof, dup, lazy, committed, exe_refs, mod_refs>>

mmget_not_zero(r) == r.users > 0

mem_rw(f) ==
    LET m == file[f].m IN
    /\ file[f].pc = "open"
    /\ mmget_not_zero(mm[m])
    /\ mm' = [mm EXCEPT ![m] = mmget(@)]
    /\ file' = [file EXCEPT ![f].pc = "copying"]
    /\ UNCHANGED <<mmof, dup, lazy, putting, committed, exe_refs, mod_refs>>

mem_rw_done(f) ==
    LET m == file[f].m IN
    /\ file[f].pc = "copying"
    /\ mm' = mmput(mm, m)
    /\ putting' = putting \cup PutLast(mm, m)
    /\ file' = [file EXCEPT ![f].pc = "open"]
    /\ UNCHANGED <<mmof, dup, lazy, committed, exe_refs, mod_refs>>

mem_release(f) ==
    /\ file[f].pc = "open"
    /\ mm' = [mm EXCEPT ![file[f].m] = mmdrop(@)]
    /\ file' = [file EXCEPT ![f] = NoFile]
    /\ UNCHANGED <<mmof, dup, lazy, putting, committed, exe_refs, mod_refs>>

MmNext ==
    \/ \E m \in Mm : __mmput(m)
    \/ \E t, c \in MTask : copy_mm_shared(t, c) \/ dup_mm_done(t, c)
    \/ \E t \in MTask :
          \/ dup_mm(t) \/ dup_mmap_begin(t) \/ dup_skip(t) \/ dup_charge(t)
          \/ dup_link(t) \/ dup_mm_fails(t) \/ exit_mm(t) \/ mm_alloc(t)
    \/ \E c \in MCpu : context_switch_to_user(c) \/
          \E t \in MTask : context_switch_to_kernel(c, t)
    \/ \E f \in MFile :
          \/ \E t \in MTask : proc_mem_open(f, t)
          \/ proc_mem_opened(f) \/ mem_rw(f) \/ mem_rw_done(f) \/ mem_release(f)

MmSpec == MmInit /\ [][MmNext]_mmvars /\ \A m \in Mm : WF_mmvars(__mmput(m))

-----------------------------------------------------------------------------
(***************************************************************************)
(* Properties.                                                             *)
(***************************************************************************)
Reading(f) == file[f].pc \in {"opening", "copying"}

\* mm_users counts the tasks, the duplications and the readers at work, and
\* mm_count the files and lazy CPUs plus one for all the users together: no
\* path of fork, exit, exec, /proc or the scheduler loses one or takes one
\* too many.
MmCountsExact ==
    \A m \in Mm :
        LET users == Cardinality({t \in MTask : mmof[t] = m}) +
                     Cardinality({t \in MTask : dup[t].m = m}) +
                     Cardinality({f \in MFile : file[f].m = m /\ Reading(f)})
        IN  /\ mm[m].users = users
            /\ mm[m].count =
                 Cardinality({f \in MFile : file[f].m = m /\
                                 file[f].pc \in {"open", "copying"}}) +
                 Cardinality({c \in MCpu : lazy[c] = m}) +
                 IF users > 0 \/ m \in putting THEN 1 ELSE 0

\* The mappings are there while a reader of /proc/<pid>/mem copies or a task
\* runs on them, and the structure is there while anybody points to it.
MmNotGone ==
    /\ \A f \in MFile : file[f].m # MNone => mm[file[f].m].st # "free"
    /\ \A f \in MFile : Reading(f) => mm[file[f].m].st = "used"
    /\ \A t \in MTask : mmof[t] # MNone => mm[mmof[t]].st = "used"
    /\ \A c \in MCpu : lazy[c] # MNone => mm[lazy[c]].st # "free"

\* Memory is committed once for every accounted mapping that exists and for
\* the one a dup_mmap is about to link, whichever step of it fails.
CommitExact ==
    committed =
        Cardinality({p \in Mm \X DOMAIN Layout :
                        p[2] \in Accounted(mm[p[1]].vma)}) +
        Cardinality({t \in MTask : dup[t].charge = 1})

\* The address space a task has is as large as total_vm says, although
\* dup_mmap starts from the parent's size and takes off what it skips.
TotalVmExact ==
    \A t \in MTask : mmof[t] # MNone =>
        mm[mmof[t]].total_vm = Cardinality(mm[mmof[t]].vma)

\* The executable's file and the binfmt module are referenced once for every
\* mm that will put them, a half-made copy included: dup_mm copies the
\* pointers of the old mm before it holds anything.
ExeAndModuleExact ==
    /\ exe_refs = Cardinality({m \in Mm : mm[m].exe})
    /\ mod_refs = Cardinality({m \in Mm : mm[m].binfmt /\
                                  \A t \in MTask : dup[t].m # m})

\* An mm that nobody uses any more gives its mappings back, however many
\* /proc files still point to it: opening one pins the structure and not the
\* memory.
MemoryReturned ==
    \A m \in Mm : (mm[m].users = 0) ~> (mm[m].vma = {} \/ mm[m].users > 0)

\* Whatever refers to a memory map, and whatever a memory map refers to, is
\* counted exactly, so that it is there as long as somebody needs it.
MemoryExact ==
    MmCountsExact /\ MmNotGone /\ CommitExact /\ TotalVmExact /\ ExeAndModuleExact
=============================================================================
