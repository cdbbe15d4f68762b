------------------------------- MODULE Romfs --------------------------------
(***************************************************************************)
(* The read-only file system of super.c with its three module parameters:  *)
(* a name left out of listings, a name whose pages are shifted by one      *)
(* while they are filled, and a name made executable when it is looked up. *)
(* The image is a list of headers, one per entry; inode numbers are        *)
(* positions in it.  The page cache, the dentry cache and the life of an   *)
(* inode are the VFS's and are modelled as far as the callbacks see them.  *)
(* rfmode splits the behaviours: "life" loads, mounts and unloads, "look"  *)
(* looks names up while exec_file_name is written through sysfs,           *)
(* "read" reads pages while encrypted_file_name is, "list" lists a         *)
(* directory while hided_file_name is.                                     *)
(***************************************************************************)
EXTENDS Integers, Sequences, FiniteSets

CONSTANTS Image,        \* position -> [name, next, type, spec, exec, size]
          RootPos,      \* where the image's first header is
          RfPages,      \* pages of one file that are read
          RfParams,     \* the values each parameter is given, NULL among them
          RfModes

NULL == "(null)"
OtherName == "."        \* given, and no entry's name
Pos == DOMAIN Image
maxoff == Cardinality(Pos) + 1
Names == {Image[p].name : p \in Pos \ {RootPos}}
Pages == 0 .. RfPages - 1

VARIABLES rfmode,
          module,       \* [st, cache, registered] of romfs.ko
          param,        \* the three module parameters
          mount,        \* the one superblock being made or in use
          inode,        \* position -> inode in the inode cache
          freeing,      \* inodes evicted, their RCU callback still to run
          dentry,       \* name -> what the dentry cache says of it
          page,         \* <<position, index>> -> page of the page cache
          listing,      \* an open directory and what it has returned
          oops,         \* callbacks in which a task faulted
          stale         \* inodes cached when a parameter was last written

rfvars == <<rfmode, module, param, mount, inode, freeing, dentry, page,
            listing, oops, stale>>

NoInode == [cached |-> FALSE, exec |-> FALSE]
NoPage == [st |-> "absent", data |-> "none"]
NoListing == [open |-> FALSE, pos |-> 0, out |-> <<>>, hidden |-> {},
              always |-> {}, failed |-> FALSE]
NoMount == [pc |-> "none", via |-> "none", rsb |-> 0]

\* Values of a dentry other than a position; the last two are left behind
\* by a task that died looking the name up, without and with its inode.
Unknown == 0
Dead == -1
DeadWithInode == -2
-----------------------------------------------------------------------------
(* Inodes *)

\* A chain of hard links is followed to the header that is not one.
RECURSIVE hard_link_target(_)
hard_link_target(pos) ==
  IF Image[pos].type # "hrd" THEN pos ELSE hard_link_target(Image[pos].spec)

\* The executable bit that the header's type and flag give a new inode.
mode_exec(pos) ==
  \/ Image[pos].type \in {"dir", "reg"} /\ Image[pos].exec
  \/ Image[pos].type = "sym"

\* The inode that romfs_iget returns: a cached one as it is, a new one filled.
iget_inode(pos) ==
  IF inode[pos].cached THEN inode[pos]
  ELSE [cached |-> TRUE, exec |-> mode_exec(pos)]

\* External: the VFS evicts an inode; its memory goes back after a grace period.
evict(ps) ==
  /\ inode' = [p \in Pos |-> IF p \in ps THEN NoInode ELSE inode[p]]
  /\ freeing' = IF rfmode = "life" THEN freeing \cup {p \in ps : inode[p].cached}
                ELSE freeing
  /\ page' = [k \in Pos \X Pages |-> IF k[1] \in ps THEN NoPage ELSE page[k]]
  /\ stale' = stale \ ps

\* The callback of RCU gives the inode back to the slab cache.
romfs_free_inode ==
  /\ \E p \in freeing : freeing' = freeing \ {p}
  /\ UNCHANGED <<rfmode, module, param, mount, inode, dentry, page, listing,
                 oops, stale>>
-----------------------------------------------------------------------------
(* Loading and unloading *)

init_romfs_fs ==
  /\ module.st = "out"
  /\ \/ module' = [st |-> "in", cache |-> TRUE, registered |-> TRUE]
     \/ UNCHANGED module         \* no cache, or no registration: undone
  /\ UNCHANGED <<rfmode, param, mount, inode, freeing, dentry, page, listing,
                 oops, stale>>

\* External: rmmod succeeds only when no mount holds the module.
exit_romfs_fs ==
  /\ module.st = "in" /\ mount.pc = "none"
  /\ module' = [module EXCEPT !.st = "barrier", !.registered = FALSE]
  /\ UNCHANGED <<rfmode, param, mount, inode, freeing, dentry, page, listing,
                 oops, stale>>

BarrierSkipped == TRUE

\* rcu_barrier() returns when the callbacks queued before it have run.
rcu_barrier == freeing = {}

exit_cache ==
  /\ module.st = "barrier" /\ rcu_barrier
  /\ module' = [module EXCEPT !.st = "out", !.cache = FALSE]
  /\ UNCHANGED <<rfmode, param, mount, inode, freeing, dentry, page, listing,
                 oops, stale>>
-----------------------------------------------------------------------------
(* Mounting *)

\* What reading and checking the image's superblock can come to.
SbResults == {"ok", "enomem", "eio", "toobig", "badimage"}

\* The 512-byte buffer is allocated unless kmalloc fails, and every path
\* that has it frees it.
rsb_freed(res) == IF res = "enomem" THEN 0 ELSE 1
rsb_allocated(res) == IF res = "enomem" THEN 0 ELSE 1

ToBlock(via, res) == via = "mtd" /\ res \in {"notmtd", "toobig", "badimage"}

romfs_get_tree ==
  /\ module.registered /\ mount.pc = "none"
  /\ mount' = [mount EXCEPT !.pc = "read", !.via = "mtd"]
  /\ UNCHANGED <<rfmode, module, param, inode, freeing, dentry, page, listing,
                 oops, stale>>

\* The first half of romfs_fill_super, up to the buffer's kfree.  A failure
\* destroys the superblock; -EINVAL from the MTD attempt tries the block device.
romfs_fill_super(res) ==
  /\ mount.pc = "read"
  /\ res = "toobig" => mount.via = "mtd"
  /\ res = "notmtd" => mount.via = "mtd"
  /\ mount' = [pc  |-> IF res = "ok" THEN "root"
                       ELSE IF ToBlock(mount.via, res) THEN "read" ELSE "none",
               via |-> IF res = "ok" THEN mount.via
                       ELSE IF ToBlock(mount.via, res) THEN "bdev" ELSE "none",
               rsb |-> IF res = "notmtd" THEN mount.rsb
                       ELSE mount.rsb + rsb_allocated(res) - rsb_freed(res)]
  /\ UNCHANGED <<rfmode, module, param, inode, freeing, dentry, page, listing,
                 oops, stale>>

\* The second half: the root inode and its dentry.
fill_root ==
  /\ mount.pc = "root"
  /\ \/ /\ mount' = [mount EXCEPT !.pc = "mounted"]
        /\ inode' = [inode EXCEPT ![RootPos] = iget_inode(RootPos)]
        /\ UNCHANGED freeing
     \/ mount' = NoMount /\ UNCHANGED <<inode, freeing>>     \* romfs_iget failed
     \/ /\ mount' = NoMount                                  \* d_make_root failed
        /\ freeing' = freeing \cup {RootPos} /\ UNCHANGED inode
  /\ UNCHANGED <<rfmode, module, param, dentry, page, listing, oops, stale>>

\* The device the superblock is on chooses how it is destroyed, and destroying
\* it evicts every inode.
killed == {p \in Pos : mount.via \in {"mtd", "bdev"}}

romfs_kill_sb ==
  /\ mount.pc = "mounted" /\ oops = {} /\ ~ listing.open
  /\ mount' = [NoMount EXCEPT !.rsb = mount.rsb]
  /\ evict(killed)
  /\ dentry' = [n \in Names |-> Unknown]
  /\ UNCHANGED <<rfmode, module, param, listing, oops>>
-----------------------------------------------------------------------------
(* Lookup *)

Entry(n) == CHOOSE p \in Pos \ {RootPos} : Image[p].name = n

\* The bit after the lookup: the parameter adds it to whatever inode was found.
lookup_exec(pos, n) == iget_inode(pos).exec \/ param.exec = n

\* The list was walked to the name; the inode behind it may fail to be read,
\* and the executable bit is written through the result all the same.  An
\* error met on the way is returned and changes nothing.
romfs_lookup(n) ==
  /\ mount.pc = "mounted" /\ dentry[n] = Unknown
  /\ LET pos == hard_link_target(Entry(n)) IN
     \/ /\ param.exec = NULL
        /\ oops' = oops \cup {"lookup"} /\ dentry' = [dentry EXCEPT ![n] = DeadWithInode]
        /\ inode' = [inode EXCEPT ![pos] = iget_inode(pos)]
     \/ /\ param.exec # NULL
        /\ inode' = [inode EXCEPT ![pos] = [cached |-> TRUE, exec |-> lookup_exec(pos, n)]]
        /\ dentry' = [dentry EXCEPT ![n] = pos]
        /\ UNCHANGED oops
     \/ /\ param.exec = n \/ param.exec = NULL      \* romfs_iget gave an error
        /\ oops' = oops \cup {"lookup"} /\ dentry' = [dentry EXCEPT ![n] = Dead]
        /\ UNCHANGED inode
  /\ UNCHANGED <<rfmode, module, param, mount, freeing, page, listing, stale>>

\* External: an unused dentry is dropped, then the inode nothing names.
shrink_dentry(n) ==
  /\ dentry[n] \in Pos
  /\ dentry' = [dentry EXCEPT ![n] = Unknown]
  /\ UNCHANGED <<rfmode, module, param, mount, inode, freeing, page, listing,
                 oops, stale>>

evict_inode(p) ==
  /\ inode[p].cached /\ p # RootPos
  /\ \A n \in Names :
       dentry[n] # p /\ (dentry[n] = DeadWithInode => hard_link_target(Entry(n)) # p)
  /\ \A i \in Pages : page[p, i].st # "locked"
  /\ evict({p})
  /\ UNCHANGED <<rfmode, module, param, mount, dentry, listing, oops>>
-----------------------------------------------------------------------------
(* Reading a page.  The page is locked from before the call until the end  *)
(* of it; a fault leaves it locked.                                        *)

\* Only the first page is shifted.
FirstPageOnly(n, i) == n = param.encrypted /\ i = 0

\* The whole page is shifted when the opened name is the parameter's.
encrypts(n, i) == n = param.encrypted

\* What the page holds once it is filled: zeroes beyond the end of the file.
filled(n, p, i) ==
  IF i >= Image[p].size THEN "zero"
  ELSE IF encrypts(n, i) THEN "shifted" ELSE "plain"

Readable(p, i) == inode[p].cached /\ page[p, i].st \in {"absent", "error"}

romfs_readpage(n, i) ==
  /\ dentry[n] \in Pos /\ Image[dentry[n]].type = "reg"
  /\ LET p == dentry[n] IN
     /\ Readable(p, i)
     /\ \/ /\ i < Image[p].size /\ param.encrypted = NULL
           /\ page' = [page EXCEPT ![p, i] = [st |-> "locked", data |-> "none"]]
           /\ oops' = oops \cup {"readpage"}
        \/ /\ i >= Image[p].size \/ param.encrypted # NULL
           /\ page' = [page EXCEPT ![p, i] = [st |-> "uptodate", data |-> filled(n, p, i)]]
           /\ UNCHANGED oops
        \/ /\ i < Image[p].size /\ param.encrypted # NULL    \* the device failed
           /\ page' = [page EXCEPT ![p, i] = [st |-> "error", data |-> "zero"]]
           /\ UNCHANGED oops
  /\ UNCHANGED <<rfmode, module, param, mount, inode, freeing, dentry, listing,
                 stale>>

\* Following a symbolic link fills its page for no open file: the page cache
\* passes a null file, whose name is read.
symlink_readpage(n) ==
  /\ dentry[n] \in Pos /\ Image[dentry[n]].type = "sym"
  /\ LET p == dentry[n] IN
     /\ Readable(p, 0)
     /\ IF Image[p].size > 0
        THEN /\ page' = [page EXCEPT ![p, 0] = [st |-> "locked", data |-> "none"]]
             /\ oops' = oops \cup {"readpage"}
        ELSE /\ page' = [page EXCEPT ![p, 0] = [st |-> "uptodate", data |-> "zero"]]
             /\ UNCHANGED oops
  /\ UNCHANGED <<rfmode, module, param, mount, inode, freeing, dentry, listing,
                 stale>>
-----------------------------------------------------------------------------
(* Listing *)

dir_open ==
  /\ mount.pc = "mounted" /\ ~ listing.open
  /\ listing' = [NoListing EXCEPT !.open = TRUE, !.hidden = {param.hided},
                                  !.always = {param.hided}]
  /\ UNCHANGED <<rfmode, module, param, mount, inode, freeing, dentry, page,
                 oops, stale>>

PosPassed(at) == Image[at].next

\* ctx->pos as a full buffer leaves it: at the entry that did not fit.
pos_when_full(at) == at

first_entry == IF listing.pos = 0 THEN Image[RootPos].spec ELSE listing.pos
at_end(pos) == pos = 0 \/ pos >= maxoff

\* One turn of the loop: the entry is skipped, emitted, does not fit, or
\* cannot be read, which ends the call as the end of the directory does.
romfs_readdir ==
  /\ listing.open /\ listing.pos < maxoff /\ "readdir" \notin oops
  /\ LET at == first_entry IN
     IF at_end(at)
     THEN listing' = [listing EXCEPT !.pos = maxoff] /\ UNCHANGED oops
     ELSE LET after == IF at_end(Image[at].next) THEN maxoff ELSE Image[at].next IN
       \/ /\ listing' = [listing EXCEPT !.pos = at, !.failed = TRUE]
          /\ UNCHANGED oops
       \/ /\ param.hided = NULL
          /\ oops' = oops \cup {"readdir"} /\ listing' = [listing EXCEPT !.pos = at]
       \/ /\ param.hided = Image[at].name
          /\ listing' = [listing EXCEPT !.pos = after]
          /\ UNCHANGED oops
       \/ /\ param.hided \notin {NULL, Image[at].name}
          /\ \/ listing' = [listing EXCEPT !.pos = after,
                                           !.out = Append(@, Image[at].name)]
             \/ listing' = [listing EXCEPT !.pos = pos_when_full(at)]
          /\ UNCHANGED oops
  /\ UNCHANGED <<rfmode, module, param, mount, inode, freeing, dentry, page,
                 stale>>

dir_release ==
  /\ listing.open /\ "readdir" \notin oops
  /\ listing' = NoListing
  /\ UNCHANGED <<rfmode, module, param, mount, inode, freeing, dentry, page,
                 oops, stale>>

\* The parameters are writable in sysfs (module_param(..., charp, 0644)).
param_set_charp(f, v) ==
  /\ v # NULL /\ param[f] # v
  /\ param' = [param EXCEPT ![f] = v]
  /\ stale' = {p \in Pos : inode[p].cached}
  /\ listing' = IF f = "hided" /\ listing.open
                THEN [listing EXCEPT !.hidden = @ \cup {v}, !.always = @ \cap {v}]
                ELSE listing
  /\ UNCHANGED <<rfmode, module, mount, inode, freeing, dentry, page, oops>>
-----------------------------------------------------------------------------
\* Not loaded, or loaded and mounted, with any of the parameters given.
RomfsInit ==
  /\ rfmode \in RfModes
  /\ module = IF rfmode = "life" THEN [st |-> "out", cache |-> FALSE, registered |-> FALSE]
              ELSE [st |-> "in", cache |-> TRUE, registered |-> TRUE]
  /\ \E h \in RfParams.hided, c \in RfParams.encrypted, x \in RfParams.exec :
       param = [hided |-> IF rfmode = "list" THEN h ELSE NULL,
                encrypted |-> IF rfmode = "read" THEN c ELSE NULL,
                exec |-> IF rfmode = "list" THEN NULL
                         ELSE IF rfmode = "read" THEN OtherName ELSE x]
  /\ mount = IF rfmode = "life" THEN NoMount
             ELSE [pc |-> "mounted", via |-> "bdev", rsb |-> 0]
  /\ inode = [p \in Pos |-> IF rfmode # "life" /\ p = RootPos
                            THEN [cached |-> TRUE, exec |-> mode_exec(p)] ELSE NoInode]
  /\ freeing = {} /\ dentry = [n \in Names |-> Unknown]
  /\ page = [k \in Pos \X Pages |-> NoPage]
  /\ listing = NoListing /\ oops = {} /\ stale = {}

\* Loading, mounting, looking up, unmounting and unloading.
RfLifeNext ==
  \/ init_romfs_fs \/ exit_romfs_fs \/ exit_cache
  \/ romfs_get_tree \/ fill_root \/ romfs_kill_sb
  \/ \E res \in SbResults \cup {"notmtd"} : romfs_fill_super(res)
  \/ \E n \in Names : romfs_lookup(n) \/ shrink_dentry(n)
  \/ \E p \in Pos : evict_inode(p)
  \/ romfs_free_inode

\* Lookups, and the caches shrinking, while exec_file_name changes.
LookNext ==
  \/ \E n \in Names : romfs_lookup(n) \/ shrink_dentry(n)
  \/ \E p \in Pos : evict_inode(p)
  \/ \E v \in RfParams.exec : param_set_charp("exec", v)

\* The same with page reads, while encrypted_file_name changes.
ReadNext ==
  \/ \E n \in Names : romfs_lookup(n) \/ shrink_dentry(n) \/ symlink_readpage(n)
  \/ \E n \in Names, i \in Pages : romfs_readpage(n, i)
  \/ \E p \in Pos : evict_inode(p)
  \/ \E v \in RfParams.encrypted : param_set_charp("encrypted", v)

ListNext ==
  \/ dir_open \/ romfs_readdir \/ dir_release
  \/ \E v \in RfParams.hided : param_set_charp("hided", v)

RomfsNext ==
  \/ rfmode = "life" /\ RfLifeNext
  \/ rfmode = "look" /\ LookNext
  \/ rfmode = "read" /\ ReadNext
  \/ rfmode = "list" /\ ListNext

RomfsSpec == RomfsInit /\ [][RomfsNext]_rfvars
-----------------------------------------------------------------------------
(* Properties *)

\* The slab cache of exit_romfs_fs is destroyed after every inode in it was
\* given back, those whose RCU callback was pending at rmmod included.
CacheOutlivesInodes ==
  ~ module.cache => freeing = {} /\ \A p \in Pos : ~ inode[p].cached

\* Whatever way a mount fails or ends, the superblock's buffer, inodes, pages
\* and dentries are gone with it.
NothingHeldUnmounted ==
  mount.pc = "none" =>
    /\ mount.rsb = 0
    /\ \A p \in Pos : ~ inode[p].cached
    /\ \A n \in Names : dentry[n] = Unknown
    /\ \A k \in Pos \X Pages : page[k] = NoPage

\* n is one of the names of the file at p.
IsName(n, p) == n \in Names /\ hard_link_target(Entry(n)) = p

\* What is read under name n follows encrypted_file_name on every page, unless
\* the page was cached when the parameter was written.
Follows(n) ==
  \A i \in Pages :
    /\ dentry[n] \in Pos \ stale
    /\ i < Image[dentry[n]].size
    /\ page[dentry[n], i].st = "uptodate"
    => (page[dentry[n], i].data = "shifted") <=> (n = param.encrypted)

\* A file with one name is read shifted on all of its pages exactly when that
\* name is the parameter's (romfs_readpage).
SoleNameDecides ==
  \A n \in Names : Follows(n) \/ \E m \in Names \ {n} : IsName(m, dentry[n])

\* The comment of romfs_readpage: a page is shifted if the file's name is
\* encrypted_file_name and no PageError happened, for every name of a file.
ContentFollowsName == \A n \in Names : Follows(n)

\* While the parameter stays, the file that exec_file_name names is executable
\* from the lookup of that name on, also when its inode was cached before
\* through another link, and no file becomes executable otherwise; only an
\* inode that was cached when the parameter was written may differ
\* (romfs_lookup, romfs_iget).
ExecExact ==
  /\ \A n \in Names :
       dentry[n] \in Pos \ stale /\ param.exec = n => inode[dentry[n]].exec
  /\ \A p \in Pos \ stale :
       inode[p].exec => mode_exec(p) \/ IsName(param.exec, p)

\* The file that a parameter names is the one it acts on, wherever the page and
\* inode caches were shrunk before (romfs_readpage, romfs_lookup).
NameDecides == SoleNameDecides /\ ExecExact

\* A listing read to its end without a device error has every entry that was
\* at no time hidden, none that was hidden all along, and no entry twice,
\* wherever the reader's buffer filled up and the name was changed.
ListingExact ==
  /\ \A i, j \in 1 .. Len(listing.out) : listing.out[i] = listing.out[j] => i = j
  /\ \A i \in 1 .. Len(listing.out) : listing.out[i] \notin listing.always
  /\ listing.open /\ listing.pos = maxoff /\ ~ listing.failed =>
       \A n \in Names \ listing.hidden : \E i \in 1 .. Len(listing.out) : listing.out[i] = n

\* "read a page worth of data from the image": with the parameter given, no
\* task that reads a page through this file system faults in romfs_readpage.
ReadpageReturns ==
  param.encrypted # NULL /\ stale = {} => "readpage" \notin oops

\* Nothing outlives what it was made from: no inode, page or dentry its mount,
\* and no inode the cache of the module (romfs_kill_sb, exit_romfs_fs).
NothingOutlives == CacheOutlivesInodes /\ NothingHeldUnmounted
=============================================================================
