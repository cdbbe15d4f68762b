----------------------------- MODULE MemDrivers -----------------------------
(***************************************************************************)
(* The two drivers of the memory space project.  mtest.c takes commands    *)
(* that read or write a byte of a process through the kernel's mapping of  *)
(* its page, and keeps the answer in one buffer for all openers.           *)
(* maptest.c maps one page, filled when the module is loaded.  Neither     *)
(* takes a lock or a reference on what it uses: the process and the other  *)
(* openers run between the steps.  dmode chooses the driver.               *)
(***************************************************************************)
EXTENDS Integers, Sequences, FiniteSets

CONSTANTS DOpeners,     \* openers of /proc/mtest
          DPages,       \* virtual pages of the target process, 0 .. n
          DPageSize,    \* bytes of a page
          DWord,        \* bytes of an unsigned long
          DBytes,       \* byte values, 0 among them
          DMappers,     \* processes that map /proc/maptest
          DModes

Off == 0 .. DPageSize - 1
Frames == 0 .. Cardinality(DPages) + 1   \* all but the first and the last are the target's
Own(v) == v + 1
Hole == -1                               \* no table of page table entries
Empty == -2                              \* an entry that is not present
Addrs == 0 .. DPageSize * Cardinality(DPages) - 1

VARIABLES dmode,
          mem,          \* frame -> offset -> byte
          pte,          \* virtual page of the target -> frame, empty entry or hole
          output,       \* the answer buffer of mtest.c, as a sequence of bytes
          opener,       \* opener of /proc/mtest -> its command and position
          drv,          \* maptest.c: [st, entry, page]
          mapped        \* process -> what the page was when it mapped /proc/maptest

dvars == <<dmode, mem, pte, output, opener, drv, mapped>>

Idle == [pc |-> "idle", op |-> "r", addr |-> 0, val |-> 0, frame |-> Hole, pos |-> 0,
         got |-> <<>>, saw |-> Hole, beyond |-> FALSE]
Resting == {"idle", "answered", "read", "written"}   \* no command under way
NotMapped == "not mapped"

-----------------------------------------------------------------------------
(* mtest.c: a command *)

WholePage(addr) == 0
PageOf(addr) == addr \div DPageSize

\* addr & ~PAGE_MASK, which is or-ed to the page's kernel address.
kernel_offset(addr) == addr % DPageSize

\* Whether an entry is present is not looked at: an empty one names frame 0.
get_addr(entry) == IF entry = Empty THEN 0 ELSE entry

\* The command is parsed and the page's kernel address is taken.  Arguments
\* that are missing or no numbers leave the variables uninitialised, which
\* is any of the values; a missing process, or the -1 that stands for a hole,
\* is dereferenced.
proc_write(o, op, found, addr, val) ==
  /\ opener[o].pc \in Resting /\ opener[o].pos = 0
  /\ opener' = [opener EXCEPT ![o] =
       IF found /\ pte[PageOf(addr)] # Hole
       THEN [Idle EXCEPT !.pc = "access", !.op = op, !.addr = addr, !.val = val,
                         !.frame = get_addr(pte[PageOf(addr)])]
       ELSE [Idle EXCEPT !.pc = "dead"]]
  /\ UNCHANGED <<dmode, mem, pte, output, drv, mapped>>

\* output[0] = *vaddr: one byte and the terminator.
text(byte) == IF byte = 0 THEN <<>> ELSE <<byte>>

\* The answers of other openers are replaced.
superseded(o) ==
  [p \in DOpeners |->
     IF p # o /\ opener[p].pc = "answered" THEN [opener[p] EXCEPT !.pc = "read", !.saw = Hole]
     ELSE opener[p]]

read_access(o) ==
  /\ opener[o].pc = "access" /\ opener[o].op = "r"
  /\ LET c == opener[o]
         byte == mem[c.frame][kernel_offset(c.addr)]
         same == pte[PageOf(c.addr)] = c.frame IN
     /\ output' = text(byte)
     /\ opener' = [superseded(o) EXCEPT ![o] =
          [Idle EXCEPT !.pc = IF same THEN "answered" ELSE "read", !.addr = c.addr,
                       !.saw = IF same THEN mem[pte[PageOf(c.addr)]][c.addr % DPageSize]
                               ELSE Hole]]
  /\ UNCHANGED <<dmode, mem, pte, drv, mapped>>

\* *vaddr = (char)content stores a whole unsigned long.
stored(off) == off .. (off + DWord - 1)

\* A store past the page's end goes on into the next frame.  The upper bytes
\* of a value below 128 are zero.
write_access(o) ==
  /\ opener[o].pc = "access" /\ opener[o].op = "w"
  /\ LET c == opener[o]
         base == c.frame * DPageSize
         hit == {base + i : i \in stored(kernel_offset(c.addr))} IN
     /\ mem' = [f \in Frames |-> [i \in Off |->
          IF f * DPageSize + i \in hit
          THEN IF f * DPageSize + i = base + kernel_offset(c.addr) THEN c.val ELSE 0
          ELSE mem[f][i]]]
     /\ opener' = [opener EXCEPT ![o] =
          [Idle EXCEPT !.pc = "written", !.beyond = \E f \in Frames, i \in Off :
             mem'[f][i] # mem[f][i] /\ <<f, i>> # <<pte[PageOf(c.addr)], c.addr % DPageSize>>]]
  /\ UNCHANGED <<dmode, pte, output, drv, mapped>>
-----------------------------------------------------------------------------
(* mtest.c: reading the answer *)

\* The rest of the answer after *pos; a position past it wraps to all that
\* was asked for, and the copy starts at the buffer's beginning.
count(o) == IF Len(output) < opener[o].pos THEN 1 ELSE Len(output) - opener[o].pos

proc_read(o) ==
  /\ opener[o].pc \in {"answered", "read"} /\ opener[o].pos + count(o) <= 2
  /\ opener' = [opener EXCEPT ![o] =
       [@ EXCEPT !.pos = @ + count(o),
                 !.got = IF count(o) = 0 THEN @ ELSE Append(@, IF output = <<>> THEN 0 ELSE output[1])]]
  /\ UNCHANGED <<dmode, mem, pte, output, drv, mapped>>

\* External: the opener closes and opens the file.
reopen(o) ==
  /\ opener[o].pc \in Resting /\ opener[o] # Idle
  /\ opener' = [opener EXCEPT ![o] = Idle]
  /\ UNCHANGED <<dmode, mem, pte, output, drv, mapped>>

\* External: the target stores a byte, and its page is taken from it, the table
\* that held the entry too when nothing else is in it, and given back.
user_store(addr, val) ==
  /\ pte[PageOf(addr)] \in Frames
  /\ mem' = [mem EXCEPT ![pte[PageOf(addr)]][addr % DPageSize] = val]
  /\ UNCHANGED <<dmode, pte, output, opener, drv, mapped>>

unmap_page(v) ==
  /\ pte[v] \in Frames
  /\ pte' \in {[pte EXCEPT ![v] = Empty], [pte EXCEPT ![v] = Hole]}
  /\ UNCHANGED <<dmode, mem, output, opener, drv, mapped>>

fault_in(v) ==
  /\ pte[v] \notin Frames
  /\ pte' = [pte EXCEPT ![v] = Own(v)]
  /\ UNCHANGED <<dmode, mem, output, opener, drv, mapped>>
-----------------------------------------------------------------------------
(* maptest.c *)

maptest_init ==
  /\ drv.st = "out"
  /\ drv' = [st |-> "entry", entry |-> TRUE, page |-> "null"]
  /\ UNCHANGED <<dmode, mem, pte, output, opener, mapped>>

\* The page is allocated and filled after the entry is visible.
init_page ==
  /\ drv.st = "entry"
  /\ \/ drv' = [drv EXCEPT !.st = "in", !.page = "allocated"]
     \/ drv' = [drv EXCEPT !.st = "dead"]      \* no page: kmap of a null page
  /\ UNCHANGED <<dmode, mem, pte, output, opener, mapped>>

proc_mmap(p) ==
  /\ drv.entry /\ mapped[p] = NotMapped
  /\ mapped' = [mapped EXCEPT ![p] = drv.page]
  /\ UNCHANGED <<dmode, mem, pte, output, opener, drv>>

munmap(p) ==
  /\ mapped[p] # NotMapped
  /\ mapped' = [mapped EXCEPT ![p] = NotMapped]
  /\ UNCHANGED <<dmode, mem, pte, output, opener, drv>>

\* proc_remove() comes before the page is freed.
removing == [st |-> "removing", entry |-> FALSE, page |-> "allocated"]

maptest_exit ==
  /\ drv.st = "in"
  /\ drv' = removing
  /\ UNCHANGED <<dmode, mem, pte, output, opener, mapped>>

\* The page goes although processes may have it mapped.
free_page ==
  /\ drv.st = "removing"
  /\ drv' = [drv EXCEPT !.st = "out", !.page = "freed"]
  /\ UNCHANGED <<dmode, mem, pte, output, opener, mapped>>
-----------------------------------------------------------------------------
MemInit ==
  /\ dmode \in DModes
  /\ mem = [f \in Frames |-> [i \in Off |-> 0]]
  /\ pte = [v \in DPages |-> Own(v)]
  /\ output = <<>>
  /\ opener = [o \in DOpeners |-> Idle]
  /\ drv = [st |-> "out", entry |-> FALSE, page |-> "null"]
  /\ mapped = [p \in DMappers |-> NotMapped]

MtestNext ==
  \/ \E o \in DOpeners :
       \/ \E op \in {"r", "w"}, found \in BOOLEAN, a \in Addrs, b \in DBytes :
            proc_write(o, op, found, a, IF op = "r" THEN 0 ELSE b)
       \/ read_access(o) \/ write_access(o) \/ proc_read(o) \/ reopen(o)
  \/ \E a \in Addrs, b \in DBytes : user_store(a, b)
  \/ \E v \in DPages : unmap_page(v) \/ fault_in(v)

MaptestNext ==
  \/ maptest_init \/ init_page \/ maptest_exit \/ free_page
  \/ \E p \in DMappers : proc_mmap(p) \/ munmap(p)

MemNext ==
  \/ dmode = "mtest" /\ MtestNext
  \/ dmode = "maptest" /\ MaptestNext

MemSpec == MemInit /\ [][MemNext]_dvars
-----------------------------------------------------------------------------
(* Properties *)

\* A read command whose page stayed in memory, and that no other command
\* overtook, answers the byte that the target had at the address, once, and
\* nothing when that byte is zero (get_addr, proc_read).
AnswerIsTheByte ==
  \A o \in DOpeners : opener[o].pc = "answered" =>
    \/ opener[o].pos = 0 /\ opener[o].got = <<>> /\ output = text(opener[o].saw)
    \/ opener[o].got = text(opener[o].saw)

\* Nobody maps the page of the module after it was given back, however loads,
\* mappings and removals interleave (maptest_exit).
FreedPageUnreachable == \A p \in DMappers : mapped[p] # "freed"

\* What a user reaches through either driver is the target's byte, and the
\* module's page only while it has one.
DriversExact == AnswerIsTheByte /\ FreedPageUnreachable

\* "write the value to the specified address" (proc_write): a write command
\* changes the byte of the target at that address and nothing else.
WritesTheByte == \A o \in DOpeners : ~opener[o].beyond
=============================================================================
