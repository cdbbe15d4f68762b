------------------------------ MODULE ProcMem ------------------------------
(***************************************************************************)
(* What a read of /proc/PID/cmdline, environ and mem returns (base.c), and *)
(* the two scales of the oom adjustment.  A file is read from the start in *)
(* calls of any size until one returns nothing.  A byte is named by its    *)
(* address, so that what was read also says from where.  The bounds of the *)
(* argument and environment areas are the ones prctl() can leave behind.   *)
(***************************************************************************)
EXTENDS Integers, SequencesExt

CONSTANTS
    PmTop,      \* the addresses are 0 .. PmTop - 1
    PM_PAGE,    \* PAGE_SIZE
    PmCount     \* the sizes of the reads

\* What the constants must satisfy.
PmAssumption == PmTop \in Nat \ {0} /\ PM_PAGE \in Nat \ {0} /\ PmCount \subseteq Nat \ {0}

VARIABLES
    pm,    \* the memory: its areas, where bytes are NUL, where a hole begins
    pfile,  \* the open file: kind, position, what was read, whether it ended
    oomadj    \* the oom_adj written last and the oom_score_adj it became

pmvars == <<pm, pfile, oomadj>>

Lower(a, b) == IF a < b THEN a ELSE b

\* The n addresses from a on.
Bytes(a, n) == [i \in 1..n |-> a + i - 1]

\* External, access_remote_vm: how many of n bytes at a can be read.
access_remote_vm(a, n) ==
    IF a >= pm.hole THEN 0 ELSE Lower(n, pm.hole - a)

(***************************************************************************)
(* cmdline.                                                                *)
(***************************************************************************)
\* The length of the string at a, its NUL included when it is among the got
\* bytes.
strnlen_nul(a, got) ==
    LET nul == {i \in 1..got : a + i - 1 \in pm.nul}
    IN  IF nul = {} THEN got ELSE CHOOSE i \in nul : \A j \in nul : i =< j

get_mm_proctitle(count, pos) ==
    LET got == access_remote_vm(pm.arg_start, PM_PAGE)
        len == strnlen_nul(pm.arg_start, got)
    IN  IF pos >= PM_PAGE \/ len =< pos THEN <<>>
        ELSE Bytes(pm.arg_start + pos, Lower(count, len - pos))

\* The end of what setproctitle() may have overwritten: the environment only
\* when it follows the arguments.
overflow_end ==
    IF pm.env_start # pm.arg_end \/ pm.env_end < pm.env_start
    THEN pm.arg_end ELSE pm.env_end

\* Page by page until count, or a page that cannot be read.
RECURSIVE read_pages(_, _)
read_pages(a, count) ==
    LET got == access_remote_vm(a, Lower(PM_PAGE, count))
    IN  IF count = 0 \/ got = 0 THEN <<>>
        ELSE Bytes(a, got) \o read_pages(a + got, count - got)

in_arguments(a, count) == Lower(count, pm.arg_end - a)

get_mm_cmdline(count, pos) ==
    LET len == overflow_end - pm.arg_start
        n == Lower(count, len - pos)
        a == pm.arg_start + pos
    IN  IF pm.env_end = 0 \/ pm.arg_start >= pm.arg_end \/ pos >= len THEN <<>>
        ELSE IF access_remote_vm(pm.arg_end - 1, 1) = 1 /\ pm.arg_end - 1 \notin pm.nul
             THEN get_mm_proctitle(n, pos)
        ELSE IF a >= pm.arg_end THEN <<>>
        ELSE read_pages(a, in_arguments(a, n))

(***************************************************************************)
(* environ and mem.  Both store the position they reached; environ_read    *)
(* reports nothing when a later page fails, mem_rw what it copied.         *)
(***************************************************************************)
\* The position within the area is forgotten.
FromItsStart(src) == pm.env_end - pm.env_start

environ_left(src) == pm.env_end - (pm.env_start + src)

RECURSIVE environ_loop(_, _, _)
environ_loop(src, count, out) ==
    LET this_len == Lower(Lower(PM_PAGE, count), environ_left(src))
        got == access_remote_vm(pm.env_start + src, this_len)
    IN  IF count = 0 \/ src >= pm.env_end - pm.env_start THEN [out |-> out, pos |-> src]
        ELSE IF got = 0 THEN [out |-> <<>>, pos |-> src]
        ELSE environ_loop(src + got, count - got, out \o Bytes(pm.env_start + src, got))

environ_read(count, pos) ==
    IF pm.env_end = 0 THEN [out |-> <<>>, pos |-> pos]
    ELSE environ_loop(pos, count, <<>>)

mem_rw_pages(count, pos) ==
    LET out == read_pages(pos, count) IN [out |-> out, pos |-> pos + Len(out)]

\* proc_pid_cmdline_read moves the position by what it returned.
cmdline_read(count, pos) ==
    LET out == get_mm_cmdline(count, pos) IN [out |-> out, pos |-> pos + Len(out)]

----------------------------------------------------------------------------
(***************************************************************************)
(* oom_adj, -17 to 15, is kept as an oom_score_adj, -1000 to 1000.         *)
(***************************************************************************)
OOM_DISABLE == -17
OOM_ADJUST_MIN == -16
OOM_ADJUST_MAX == 15
OOM_SCORE_ADJ_MAX == 1000

\* C's division truncates towards zero.
Div(a, b) == IF a >= 0 THEN a \div b ELSE -((-a) \div b)

oom_adj_to_score(adj) ==
    IF adj = OOM_ADJUST_MAX THEN OOM_SCORE_ADJ_MAX
    ELSE Div(adj * OOM_SCORE_ADJ_MAX, -OOM_DISABLE)

oom_adj_read(score) ==
    IF score = OOM_SCORE_ADJ_MAX THEN OOM_ADJUST_MAX
    ELSE Div(score * (-OOM_DISABLE), OOM_SCORE_ADJ_MAX)

oom_adj_write(adj) ==
    /\ pfile.kind = "oom" /\ adj \in OOM_ADJUST_MIN..OOM_ADJUST_MAX \cup {OOM_DISABLE}
    /\ oomadj' = [written |-> adj, score |-> oom_adj_to_score(adj)]
    /\ UNCHANGED <<pm, pfile>>

oom_score_adj_write(score) ==
    /\ pfile.kind = "oom" /\ score \in (-OOM_SCORE_ADJ_MAX)..OOM_SCORE_ADJ_MAX
    /\ oomadj' = [written |-> oom_adj_read(score), score |-> score]
    /\ UNCHANGED <<pm, pfile>>

----------------------------------------------------------------------------
\* The areas: arguments from address 1, the environment behind them or apart.
Areas ==
    {[nul |-> nul, hole |-> hole, arg_start |-> 1, arg_end |-> ae,
      env_start |-> es, env_end |-> ee] :
        nul \in SUBSET (1..PmTop - 1), hole \in {1, PmTop - 2, PmTop},
        ae \in 1..PmTop - 2, es \in 2..PmTop - 1, ee \in {0} \cup 2..PmTop}

PmInit ==
    /\ pm \in {a \in Areas : /\ a.env_end # 0 => a.env_start =< a.env_end
                             /\ a.arg_end =< a.env_start}
    /\ \E kind \in {"cmdline", "environ", "mem", "oom"} :
         /\ kind \in {"environ", "mem", "oom"} => pm.nul = {}
         /\ kind \in {"mem", "oom"} => pm.arg_end = 1 /\ pm.env_start = 2 /\ pm.env_end = 0
         /\ pfile = [kind |-> kind, pos |-> 0, out |-> <<>>, end |-> FALSE]
    /\ oomadj = [written |-> 0, score |-> 0]

\* One read(2) of an open file.
read_call(count) ==
    LET r == CASE pfile.kind = "cmdline" -> cmdline_read(count, pfile.pos)
               [] pfile.kind = "environ" -> environ_read(count, pfile.pos)
               [] pfile.kind = "mem"     -> mem_rw_pages(count, pfile.pos)
    IN  /\ pfile.kind # "oom" /\ ~pfile.end
        /\ pfile' = [pfile EXCEPT !.pos = r.pos, !.out = @ \o r.out, !.end = r.out = <<>>]
        /\ UNCHANGED <<pm, oomadj>>

PmNext ==
    \/ \E count \in PmCount : read_call(count)
    \/ \E adj \in OOM_DISABLE..OOM_ADJUST_MAX : oom_adj_write(adj)
    \/ \E score \in {-1000, -999, -1, 1, 58, 59, 941, 999, 1000} : oom_score_adj_write(score)

PmSpec == PmInit /\ [][PmNext]_pmvars

----------------------------------------------------------------------------
\* What a file holds, said without positions, pages and counts.
PmReadable(a, b) == Bytes(a, Lower(b, pm.hole) - a)

Whole ==
    LET title == {a \in pm.arg_start..Lower(overflow_end, pm.arg_start + PM_PAGE) - 1 :
                    \A b \in pm.arg_start..a - 1 : b \notin pm.nul}
    IN  CASE pfile.kind = "cmdline" ->
               IF pm.env_end = 0 \/ pm.arg_start >= pm.arg_end \/ pm.arg_start >= pm.hole THEN <<>>
               ELSE IF pm.arg_end - 1 < pm.hole /\ pm.arg_end - 1 \notin pm.nul
                    THEN PmReadable(pm.arg_start, pm.arg_start + Cardinality(title))
               ELSE PmReadable(pm.arg_start, pm.arg_end)
          [] pfile.kind = "environ" ->
               IF pm.env_end = 0 THEN <<>> ELSE PmReadable(pm.env_start, pm.env_end)
          [] pfile.kind = "mem" -> PmReadable(0, PmTop)
          [] OTHER -> <<>>

\* However a reader splits cmdline into reads, it gets the same bytes: the
\* arguments, or the title that replaced them up to its NUL, one page or the
\* end of the environment, and never a byte of the environment otherwise.
CmdlineWhole ==
    pfile.kind = "cmdline" =>
        IsPrefix(pfile.out, Whole) /\ (pfile.end => pfile.out = Whole)

\* The same for mem, up to the first page that cannot be read, and for environ:
\* no byte is repeated or passed over.  A read of environ that meets an
\* unreadable page returns nothing and yet moves the position past the bytes it
\* had copied (base.c:973-988), so that environ is complete is only said of an
\* environment that can be read throughout.
EnvironWhole ==
    pfile.kind \in {"mem", "environ"} =>
        /\ IsPrefix(pfile.out, Whole)
        /\ pfile.end /\ (pfile.kind = "mem" \/ pm.env_end =< pm.hole) => pfile.out = Whole

\* oom_adj_write and oom_adj_read: what is read back is at most one step nearer
\* to zero, and both ends of the scale are attained exactly.
OomAdjNear ==
    LET adj == oom_adj_read(oomadj.score)
    IN  /\ oomadj.written - adj \in {-1, 0, 1}
        /\ oomadj.written = OOM_DISABLE <=> adj = OOM_DISABLE
        /\ oomadj.written = OOM_ADJUST_MAX <=> adj = OOM_ADJUST_MAX

\* What is read from the files of a process, in whatever pieces, is what is
\* in its memory (all of it, but for the environ of EnvironWhole), and oom_adj reads back what was written, or one less.
ReadBackExact == CmdlineWhole /\ EnvironWhole /\ OomAdjNear
=============================================================================
