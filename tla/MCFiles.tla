------------------------------ MODULE MCFiles -------------------------------
(***************************************************************************)
(* Process creation, the files of /proc, the file system and the drivers in *)
(* one run of TLC, each on its own: part says which of them moves.  A      *)
(* property is about the states of its component.                          *)
(***************************************************************************)
EXTENDS Integers, Sequences, FiniteSets, TLC

CONSTANTS c1, c2, c3, d1, d2, d3

CONSTANT Parts  \* the components that move

CONSTANTS CpTask, CpInit, CpKeeps, CpNone, CpFlags, CpUnshareFlags, MaxThreads,
          MaxForks, MaxObjs, CpAdj  \* CopyProcess
CONSTANTS PpTask, PpNone, PpMaxNr, PpReused, PpMaxOut, PpHidden, PpModes  \* ProcPid
CONSTANTS PmTop, PM_PAGE, PmCount  \* ProcMem
CONSTANTS Image, RootPos, RfPages, RfParams, RfModes  \* Romfs
CONSTANTS WTasks, WPids, WReaders, WLone, WLens, WMaxRefs, WThreads,
          WMaxTicks, WPages, WUnmapped, WModes  \* Watch
CONSTANTS DOpeners, DPages, DPageSize, DWord, DBytes, DMappers, DModes  \* MemDrivers

VARIABLE part
VARIABLES pr, refs, opaque, nr_threads, oom, multi, fk, un
VARIABLES ppmode, tk, owner, gen, threads, rdr
VARIABLES pm, pfile, oomadj
VARIABLES rfmode, module, param, mount, inode, freeing, dentry, page,
          listing, oops, stale
VARIABLES wmode, proc, watch, reader, writer, times, cpu, ram
VARIABLES dmode, mem, pte, output, opener, drv, mapped

Fork == INSTANCE CopyProcess
Pids == INSTANCE ProcPid
Mems == INSTANCE ProcMem
Rom == INSTANCE Romfs
Watcher == INSTANCE Watch
Drivers == INSTANCE MemDrivers

ASSUME Fork!CpAssumption
ASSUME Pids!PpAssumption
ASSUME Mems!PmAssumption

MCFlags == {{}, {"VM", "VFORK"}, {"VM", "FS", "PIDFD"},
            {"VM", "SIGHAND", "THREAD", "FILES", "FS"}}
MCUnshare == {{"FILES", "FS"}}

\* c1 is the first process.
FileSym == Permutations({c2, c3}) \cup Permutations({d1, d2, d3})

\* An image with a file of two pages, a file of one with a link to it and a
\* link to that link, and a symbolic link.
RfHeader(n, next, t, spec, x, size) ==
  [name |-> n, next |-> next, type |-> t, spec |-> spec, exec |-> x, size |-> size]
RfImage == <<RfHeader(".", 0, "dir", 2, TRUE, 0),
             RfHeader("file", 3, "reg", 0, FALSE, 2),
             RfHeader("prog", 4, "reg", 0, FALSE, 1),
             RfHeader("link", 5, "hrd", 3, FALSE, 0),
             RfHeader("last", 6, "hrd", 4, FALSE, 0),
             RfHeader("sym", 0, "sym", 0, FALSE, 1)>>

\* The values of each parameter; in the second, the encrypted file has links.
MCParams == [hided |-> {"(null)", "last"}, encrypted |-> {"(null)", "file"},
             exec |-> {"(null)", "last"}]
MCLinked == [MCParams EXCEPT !.encrypted = {"last"}]

\* Bound: while pages are read, at most two names are in the dentry cache.
FewDentries ==
  part = "romfs" /\ rfmode = "read" =>
    Cardinality({n \in Rom!Names : dentry[n] # Rom!Unknown}) <= 2

\* Bound: two readers that write into one buffer make it one field too long.
OneFieldMore == part = "watch" => watch.out_len <= Watcher!Fields + 1

ForkVars == <<pr, refs, opaque, nr_threads, oom, multi, fk, un>>
PidsVars == <<ppmode, tk, owner, gen, threads, rdr>>
MemsVars == <<pm, pfile, oomadj>>
RomVars == <<rfmode, module, param, mount, inode, freeing, dentry, page, listing, oops,
  stale>>
WatcherVars == <<wmode, proc, watch, reader, writer, times, cpu, ram>>
DriversVars == <<dmode, mem, pte, output, opener, drv, mapped>>

\* A component that does not move has no state.
NoState == 0

NoFork ==
  /\ pr = NoState /\ refs = NoState /\ opaque = NoState
  /\ nr_threads = NoState /\ oom = NoState /\ multi = NoState
  /\ fk = NoState /\ un = NoState

NoPids ==
  /\ ppmode = NoState /\ tk = NoState /\ owner = NoState
  /\ gen = NoState /\ threads = NoState /\ rdr = NoState

NoMems ==
  /\ pm = NoState /\ pfile = NoState /\ oomadj = NoState

NoRom ==
  /\ rfmode = NoState /\ module = NoState /\ param = NoState
  /\ mount = NoState /\ inode = NoState /\ freeing = NoState
  /\ dentry = NoState /\ page = NoState /\ listing = NoState
  /\ oops = NoState /\ stale = NoState

NoWatcher ==
  /\ wmode = NoState /\ proc = NoState /\ watch = NoState
  /\ reader = NoState /\ writer = NoState /\ times = NoState
  /\ cpu = NoState /\ ram = NoState

NoDrivers ==
  /\ dmode = NoState /\ mem = NoState /\ pte = NoState
  /\ output = NoState /\ opener = NoState /\ drv = NoState
  /\ mapped = NoState

FileInit ==
  /\ part \in Parts
  /\ \/ part = "fork" /\ Fork!CpInitial /\ NoPids /\ NoMems /\ NoRom /\ NoWatcher /\ NoDrivers
     \/ part = "pid" /\ Pids!PpInit /\ NoFork /\ NoMems /\ NoRom /\ NoWatcher /\ NoDrivers
     \/ part = "mem" /\ Mems!PmInit /\ NoFork /\ NoPids /\ NoRom /\ NoWatcher /\ NoDrivers
     \/ part = "romfs" /\ Rom!RomfsInit /\ NoFork /\ NoPids /\ NoMems /\ NoWatcher /\ NoDrivers
     \/ part = "watch" /\ Watcher!WatchInit /\ NoFork /\ NoPids /\ NoMems /\ NoRom /\ NoDrivers
     \/ part = "drivers" /\ Drivers!MemInit /\ NoFork /\ NoPids /\ NoMems /\ NoRom /\ NoWatcher

FileNext ==
  \/ part = "fork" /\ Fork!CpNext
     /\ UNCHANGED <<part, PidsVars, MemsVars, RomVars, WatcherVars, DriversVars>>
  \/ part = "pid" /\ Pids!PpNext
     /\ UNCHANGED <<part, ForkVars, MemsVars, RomVars, WatcherVars, DriversVars>>
  \/ part = "mem" /\ Mems!PmNext
     /\ UNCHANGED <<part, ForkVars, PidsVars, RomVars, WatcherVars, DriversVars>>
  \/ part = "romfs" /\ Rom!RomfsNext
     /\ UNCHANGED <<part, ForkVars, PidsVars, MemsVars, WatcherVars, DriversVars>>
  \/ part = "watch" /\ Watcher!WatchNext
     /\ UNCHANGED <<part, ForkVars, PidsVars, MemsVars, RomVars, DriversVars>>
  \/ part = "drivers" /\ Drivers!MemNext
     /\ UNCHANGED <<part, ForkVars, PidsVars, MemsVars, RomVars, WatcherVars>>

FileSpec ==
  FileInit /\ [][FileNext]_<<part, ForkVars, PidsVars, MemsVars, RomVars, WatcherVars, DriversVars>>
-----------------------------------------------------------------------------
(* CopyProcess *)

\* What parent and child share, and what each has for itself, is accounted for
\* through every failing step of fork, unshare and exit (copy_process).
SharingExact == part = "fork" => Fork!SharingExact

(* ProcPid *)

\* A listing of /proc or /proc/PID/task is complete and repeats nothing, and
\* its reader neither loses nor keeps a task (next_tgid, next_tid).  That of
\* /proc/PID/task is excused when the thread it stopped at leaves the group or
\* a thread of the group calls exec while it is under way.
ListingsExact == part = "pid" => Pids!ListingsExact

\* A name resolves to the live task that has the number, not to an earlier user
\* of it in the dentry cache (pid_revalidate), unless an exec overtook the
\* lookup that made the dentry (WalkStep).
WalkFindsLiving == [][part = "pid" => Pids!WalkStep]_<<part, PidsVars>>

(* ProcMem *)

\* What is read from cmdline, environ, mem and oom_adj in pieces is what is
\* there (get_mm_cmdline, environ_read, mem_rw, oom_adj_read); of an environ
\* with an unreadable page, a prefix of it.
ReadBackExact == part = "mem" => Mems!ReadBackExact

(* Romfs *)

\* No inode, page or dentry outlives its mount, and no inode the cache
\* (romfs_kill_sb, exit_romfs_fs).
NothingOutlives == part = "romfs" => Rom!NothingOutlives

\* A file with one name is read shifted exactly when that is
\* encrypted_file_name, and the file that exec_file_name names becomes
\* executable, and no other (romfs_readpage, romfs_lookup).
NameDecides == part = "romfs" => Rom!NameDecides

\* A listing has what was never hidden and not what was always hidden, once,
\* wherever the buffer filled up (romfs_readdir).
ListingExact == part = "romfs" => Rom!ListingExact

\* "the file's name = encrypted_file_name and no PageError" (romfs_readpage),
\* for a file with several names too.  What the code does not do: the pages
\* are the file's and keep what the first name made of them.
ContentFollowsName == part = "romfs" => Rom!ContentFollowsName

\* "read a page worth of data from the image" (romfs_readpage): no task that
\* reads a page faults there.  What the code does not do for a symbolic link.
ReadpageReturns == part = "romfs" => Rom!ReadpageReturns

(* Watch *)

\* The watched task is not freed while the driver can reach it (proc_write).
TaskStaysAllocated == part = "watch" => Watcher!TaskStaysAllocated

\* What the driver measures is complete, and what it answers to a lone reader
\* is whole (cpu_measure, ram_measure, proc_read).
AnswersExact == part = "watch" => Watcher!AnswersExact

(* MemDrivers *)

\* A read command answers the byte at the address, when the page is there and
\* no other command comes in between, and the page of the module cannot be
\* mapped once it was given back (get_addr, proc_read, maptest_exit).
DriversExact == part = "drivers" => Drivers!DriversExact

\* "write the value to the specified address" (mtest.c): nothing else changes.
\* What the code does not do: it stores a whole word, and through an entry
\* that is not present.
WritesTheByte == part = "drivers" => Drivers!WritesTheByte
=============================================================================
