-------------------------------- MODULE Sfs --------------------------------
(***************************************************************************)
(* The simple file system of kern/fs/sfs, one operation at a time: the     *)
(* free map, inodes in memory and on disk, direct and indirect blocks, the *)
(* root directory, hard links, reclaiming, syncing and mounting.           *)
(*                                                                         *)
(* Every function of the code is an operator that gives the set of its     *)
(* outcomes: the file system it leaves, its error code ("panic" where the  *)
(* code panics or an assertion fails) and its result.  Reads may fail at   *)
(* any point, memory and space may run out.  Writes of blocks do not fail: *)
(* sfs_rwblock never reports a failed write (see SfsRetry).                *)
(*                                                                         *)
(* A block holds one unit of data or one directory entry, so sfs_io is one *)
(* block at a time; how it cuts a request into blocks is in SfsIo.         *)
(***************************************************************************)
EXTENDS Naturals, Sequences, FiniteSets, FiniteSetsExt

CONSTANTS NBlocks,             \* sp_nblocks
          NDIRECT, DBPERIDB,   \* direct blocks, and blocks per indirect block
          Name, Datum,
          WriteAt,             \* the blocks of a file that are written
          TruncateTo,          \* the lengths files are truncated to
          MaxHeld,             \* bound on the references to one vnode
          MaxLost              \* bound on the blocks that are leaked

ASSUME SfsAssumption ==
  /\ NBlocks \in Nat /\ NBlocks > 3
  /\ NDIRECT \in Nat \ {0} /\ DBPERIDB \in Nat \ {0}
  /\ WriteAt \subseteq Nat /\ TruncateTo \subseteq Nat
  /\ MaxHeld \in Nat /\ MaxLost \in Nat

SB == 0
ROOT == 1
MAP == 2
NOINO == 0
Block == 0..(NBlocks - 1)
MaxFile == NDIRECT + DBPERIDB

\* What a block may hold.
Zero == [kind |-> "zero"]
Garbage == [kind |-> "garbage"]    \* what is out of date: see Stale
Data(x) == [kind |-> "data", x |-> x]
Entry(n, ino) == [kind |-> "dir", name |-> n, ino |-> ino]
Indirect(m) == [kind |-> "indirect", map |-> m]
Freemap(used) == [kind |-> "map", used |-> used]
NewInode(type) ==
  [kind |-> "inode", type |-> type, linkcount |-> 0, size |-> 0,
   direct |-> [i \in 0..(NDIRECT - 1) |-> 0], indirect |-> 0]

VARIABLES fs,       \* disk, and in memory: map, mapdirty, vn (the loaded vnodes), mounted;
                    \* and as history: lost, the blocks leaked by a failing sfs_makeobj
          held,     \* the references to vnodes that callers have
          panic     \* "no" or why the kernel stopped

sfs_vars == <<fs, held, panic>>

NoVnodes == <<>>
Super == [kind |-> "super"]

\* mksfs: the superblock, an empty root directory, and the free map with the
\* blocks these three take.
writesuper(disk) == [disk EXCEPT ![SB] = Super]
writerootdir(disk) == [disk EXCEPT ![ROOT] = [NewInode("dir") EXCEPT !.linkcount = 1]]
writebitmap(disk) == [disk EXCEPT ![MAP] = Freemap({SB, ROOT, MAP})]
MkDisk == writebitmap(writerootdir(writesuper([b \in Block |-> Garbage])))
----------------------------------------------------------------------------
(* Outcomes and how they follow each other.                                *)
Nothing == [kind |-> "nothing"]
Blk(b) == [b |-> b]
Ok(f, r) == {[fs |-> f, err |-> "ok", r |-> r]}
Err(f, e) == {[fs |-> f, err |-> e, r |-> Nothing]}
\* Errors that stop the kernel: an assertion or an inconsistency it found, or
\* an I/O error after which the code gives up.
Stops == {"panic", "gives_up"}
Asserted(c, f, r) == IF c THEN Ok(f, r) ELSE Err(f, "panic")

\* Next on the file system and result of a success; an error is returned.
Then(outs, Next(_, _)) ==
  UNION {IF o.err = "ok" THEN Next(o.fs, o.r) ELSE {o} : o \in outs}

\* Cleanup in any case, keeping the error code and result.
Finally(outs, Cleanup(_)) ==
  UNION {IF o.err \in Stops THEN {o}
         ELSE {IF p.err \in Stops THEN p ELSE [p EXCEPT !.err = o.err, !.r = o.r]
               : p \in Cleanup(o.fs)}
         : o \in outs}

sfs_rblock(f, b) == Ok(f, f.disk[b]) \cup Err(f, "EIO")
sfs_wblock(f, b, x) == Ok([f EXCEPT !.disk[b] = x], Nothing)
----------------------------------------------------------------------------
(* Space allocation and block mapping.                                     *)

\* The blocks hold what is out of date: they were freed, or their contents
\* have changed in memory and are to be written back.  What it is makes no
\* difference as long as nobody reads it.
Stale(f, blocks) == [f EXCEPT !.disk = [b \in Block |-> IF b \in blocks THEN Garbage ELSE @[b]]]

SetMap(f, used) == Stale([f EXCEPT !.map = used, !.mapdirty = TRUE], {MAP})

sfs_balloc(f) ==
  LET free == Block \ f.map
      b == Min(free)
  IN  IF free = {} THEN Err(f, "ENOSPC")
      ELSE Then(sfs_wblock(SetMap(f, f.map \cup {b}), b, Zero),
                LAMBDA g, r : Ok(g, Blk(b)))

\* sfs_bfree of several blocks, each of which must be marked.
sfs_bfree(f, blocks) ==
  Asserted(blocks \subseteq f.map, Stale(SetMap(f, f.map \ blocks), blocks), Nothing)

sfs_bused(f, b) == b \in f.map

SetInode(f, ino, i) == Stale([f EXCEPT !.vn[ino].i = i, !.vn[ino].dirty = TRUE], {ino})
BlockMap(x) == IF x.kind = "indirect" THEN x.map ELSE [j \in 0..(DBPERIDB - 1) |-> 0]

\* The block there is at fileblock of inode i, or 0.
BlockAt(f, i, fileblock) ==
  IF fileblock < NDIRECT THEN i.direct[fileblock]
  ELSE IF i.indirect = 0 THEN 0
  ELSE BlockMap(f.disk[i.indirect])[fileblock - NDIRECT]

HandBack(f, b) == Asserted(b # 0 => sfs_bused(f, b), f, Blk(b))

DirectBlock(f, ino, fileblock, doalloc) ==
  LET i == f.vn[ino].i
      b == i.direct[fileblock]
  IN  IF b = 0 /\ doalloc
      THEN Then(sfs_balloc(f), LAMBDA g, n :
             HandBack(SetInode(g, ino, [i EXCEPT !.direct[fileblock] = n.b]), n.b))
      ELSE HandBack(f, b)

\* The indirect block, allocated or loaded.
IndirectBlock(f, ino) ==
  LET i == f.vn[ino].i
  IN  IF i.indirect = 0
      THEN Then(sfs_balloc(f), LAMBDA g, n :
             Ok(SetInode(g, ino, [i EXCEPT !.indirect = n.b]), [at |-> n.b, map |-> BlockMap(Zero)]))
      ELSE Then(sfs_rblock(f, i.indirect), LAMBDA g, x :
             Ok(g, [at |-> i.indirect, map |-> BlockMap(x)]))

sfs_bmap_NoWriteBack(f, ino, fileblock, doalloc) ==    \* mutant: the indirect block stays in memory
  IF fileblock < NDIRECT THEN DirectBlock(f, ino, fileblock, doalloc)
  ELSE IF fileblock >= MaxFile THEN Err(f, "EINVAL")
  ELSE IF f.vn[ino].i.indirect = 0 /\ ~doalloc THEN Ok(f, Blk(0))
  ELSE Then(IndirectBlock(f, ino), LAMBDA g, id :
         LET b == id.map[fileblock - NDIRECT]
         IN  IF b = 0 /\ doalloc THEN sfs_balloc(g) ELSE HandBack(g, b))

sfs_bmap(f, ino, fileblock, doalloc) ==
  IF fileblock < NDIRECT THEN DirectBlock(f, ino, fileblock, doalloc)
  ELSE IF fileblock >= MaxFile THEN Err(f, "EINVAL")
  ELSE IF f.vn[ino].i.indirect = 0 /\ ~doalloc THEN Ok(f, Blk(0))
  ELSE Then(IndirectBlock(f, ino), LAMBDA g, id :
         LET off == fileblock - NDIRECT
             b == id.map[off]
         IN  IF b = 0 /\ doalloc
             THEN Then(sfs_balloc(g), LAMBDA h, n :
                    Then(sfs_wblock(h, id.at, Indirect([id.map EXCEPT ![off] = n.b])),
                         LAMBDA k, r : HandBack(k, n.b)))
             ELSE HandBack(g, b))
----------------------------------------------------------------------------
(* File and directory I/O.                                                 *)

sfs_io_write_Shrinks(f, ino, pos, x) ==    \* mutant: the size is where the write ended
  {IF o.err = "ok" THEN [o EXCEPT !.fs = SetInode(o.fs, ino, [@.vn[ino].i EXCEPT !.size = pos + 1])]
   ELSE o
   : o \in Then(sfs_bmap(f, ino, pos, TRUE), LAMBDA g, b :
                  sfs_wblock(g, b.b, x) \cup Err(g, "EIO"))}

\* sfs_io, writing at pos.  A block written in part, as a directory entry is,
\* is read first, and that or the copy from user memory may fail; the size
\* follows uio_offset whether or not the write succeeded.
sfs_io_write(f, ino, pos, x) ==
  LET outs == Then(sfs_bmap(f, ino, pos, TRUE), LAMBDA g, b :
                sfs_wblock(g, b.b, x) \cup Err(g, "EIO"))
      offset(o) == IF o.err = "ok" THEN pos + 1 ELSE pos
  IN  {IF offset(o) > o.fs.vn[ino].i.size
         THEN [o EXCEPT !.fs = SetInode(o.fs, ino, [@.vn[ino].i EXCEPT !.size = offset(o)])]
         ELSE o
       : o \in outs}

\* What reading a block gives: zeros where none is mapped.
Contents(f, i, fileblock) ==
  LET b == BlockAt(f, i, fileblock) IN IF b = 0 THEN Zero ELSE f.disk[b]

sfs_dir_nentries(f) == f.vn[ROOT].i.size

\* The inode number and slot of a name, NOINO if there is none, and a free
\* slot, the last one, or none: sfs_readdir of every slot.
sfs_dir_findname(f, name) ==
  LET i == f.vn[ROOT].i
      slots == 0..(sfs_dir_nentries(f) - 1)
      entry(s) == Contents(f, i, s)
      found == {s \in slots : entry(s).kind = "dir" /\ entry(s).name = name}
      empty == {s \in slots : entry(s).kind # "dir"}
  IN  Err(f, "EIO") \cup
      Asserted(/\ \A s \in slots : BlockAt(f, i, s) \in f.map \cup {0}
               /\ Cardinality(found) <= 1,
               f,
               [ino |-> IF found = {} THEN NOINO ELSE entry(Max(found)).ino,
                slot |-> IF found = {} THEN 0 ELSE Max(found),
                free |-> IF empty = {} THEN sfs_dir_nentries(f) ELSE Max(empty)])

sfs_dir_link_NoCheck(f, name, ino) ==    \* mutant: the name may exist already
  Then(sfs_dir_findname(f, name), LAMBDA g, d :
    Then(sfs_io_write(g, ROOT, d.free, Entry(name, ino)), LAMBDA h, r : Ok(h, [slot |-> d.free])))

sfs_dir_link(f, name, ino) ==
  Then(sfs_dir_findname(f, name), LAMBDA g, d :
    IF d.ino # NOINO THEN Err(g, "EEXIST")
    ELSE Then(sfs_io_write(g, ROOT, d.free, Entry(name, ino)), LAMBDA h, r : Ok(h, [slot |-> d.free])))

sfs_dir_unlink(f, slot) == sfs_io_write(f, ROOT, slot, Zero)
----------------------------------------------------------------------------
(* Vnodes: loading, truncating, reclaiming.                                *)

AddVnode(f, ino, i, dirty) ==
  [f EXCEPT !.vn = [v \in DOMAIN @ \cup {ino} |->
                      IF v = ino THEN [i |-> i, dirty |-> dirty, ref |-> 1] ELSE @[v]]]

\* type is "inval" except for a new object, whose block is zeroed.
sfs_loadvnode(f, ino, type) ==
  IF ~(DOMAIN f.vn \subseteq f.map) THEN Err(f, "panic")
  ELSE IF ino \in DOMAIN f.vn
  THEN Asserted(type = "inval", [f EXCEPT !.vn[ino].ref = @ + 1], Blk(ino))
  ELSE IF ~sfs_bused(f, ino) THEN Err(f, "panic")
  ELSE Err(f, "ENOMEM") \cup
       Then(sfs_rblock(f, ino), LAMBDA g, x :
         IF type = "inval"
         THEN IF x.kind = "inode" THEN Ok(AddVnode(g, ino, x, FALSE), Blk(ino)) ELSE Err(g, "panic")
         ELSE IF x = Zero THEN Ok(AddVnode(g, ino, NewInode(type), TRUE), Blk(ino))
         ELSE Err(g, "panic"))

sfs_lookonce(f, name) ==
  Then(sfs_dir_findname(f, name), LAMBDA g, d :
    IF d.ino = NOINO THEN Err(g, "ENOENT")
    ELSE Then(sfs_loadvnode(g, d.ino, "inval"), LAMBDA h, v :
           Asserted(h.vn[v.b].i.linkcount # 0, h, [ino |-> v.b, slot |-> d.slot])))

\* The block stays allocated when the vnode cannot be loaded.
sfs_makeobj(f, type) ==
  Then(sfs_balloc(f), LAMBDA g, ino :
    {IF o.err = "ok" THEN o ELSE [o EXCEPT !.fs.lost = @ \cup {ino.b}]
     : o \in sfs_loadvnode(g, ino.b, type)})

TruncateDirect(f, ino, blocklen) ==
  LET i == f.vn[ino].i
      past == {k \in DOMAIN i.direct : k >= blocklen /\ i.direct[k] # 0}
  IN  IF past = {} THEN Ok(f, Nothing)
      ELSE Then(sfs_bfree(f, {i.direct[k] : k \in past}), LAMBDA g, r :
             Ok(SetInode(g, ino, [i EXCEPT !.direct = [k \in DOMAIN @ |-> IF k \in past THEN 0 ELSE @[k]]]), Nothing))

TruncateIndirect(f, ino, blocklen) ==
  LET idblock == f.vn[ino].i.indirect
  IN  IF ~(blocklen < NDIRECT + DBPERIDB - 1 /\ idblock # 0) THEN Ok(f, Nothing)
      ELSE Then(sfs_rblock(f, idblock), LAMBDA g, x :
             LET map == BlockMap(x)
                 past == {j \in DOMAIN map : blocklen < NDIRECT + j /\ map[j] # 0}
                 left == [j \in DOMAIN map |-> IF j \in past THEN 0 ELSE map[j]]
             IN  Then(sfs_bfree(g, {map[j] : j \in past}), LAMBDA h, r :
                   IF \A j \in DOMAIN left : left[j] = 0
                   THEN Then(sfs_bfree(h, {idblock}), LAMBDA k, q :
                          Ok(SetInode(k, ino, [k.vn[ino].i EXCEPT !.indirect = 0]), Nothing))
                   ELSE IF past # {} THEN sfs_wblock(h, idblock, Indirect(left))
                   ELSE Ok(h, Nothing)))

sfs_truncate_DirectOnly(f, ino, len) ==    \* mutant: the indirect block is forgotten
  Then(TruncateDirect(f, ino, len), LAMBDA g, r :
    Ok(SetInode(g, ino, [g.vn[ino].i EXCEPT !.size = len, !.indirect = 0]), Nothing))

sfs_truncate(f, ino, len) ==
  Then(TruncateDirect(f, ino, len), LAMBDA g, r :
    Then(TruncateIndirect(g, ino, len), LAMBDA h, q :
      Ok(SetInode(h, ino, [h.vn[ino].i EXCEPT !.size = len]), Nothing)))

sfs_sync_inode(f, ino) ==
  IF f.vn[ino].dirty
  THEN Then(sfs_wblock(f, ino, f.vn[ino].i), LAMBDA g, r : Ok([g EXCEPT !.vn[ino].dirty = FALSE], Nothing))
  ELSE Ok(f, Nothing)

DropVnode(f, ino) == [f EXCEPT !.vn = [v \in DOMAIN @ \ {ino} |-> @[v]]]

\* With one operation at a time nobody picks the vnode up meanwhile.
sfs_reclaim(f, ino) ==
  LET unlinked == f.vn[ino].i.linkcount = 0
  IN  Then(IF unlinked THEN sfs_truncate(f, ino, 0) ELSE Ok(f, Nothing), LAMBDA g, r :
        Then(sfs_sync_inode(g, ino), LAMBDA h, q :
          Then(IF unlinked THEN sfs_bfree(h, {ino}) ELSE Ok(h, Nothing), LAMBDA k, p :
            Ok(DropVnode(k, ino), Nothing))))

\* VOP_DECREF; a failing reclaim is only reported, and leaves the vnode.
vnode_decref_Late(f, ino) ==    \* mutant: the vnode is reclaimed one reference late
  IF f.vn[ino].ref > 0 THEN Ok([f EXCEPT !.vn[ino].ref = @ - 1], Nothing)
  ELSE {IF o.err \in Stops THEN o ELSE [o EXCEPT !.err = "ok"] : o \in sfs_reclaim(f, ino)}

vnode_decref(f, ino) ==
  IF f.vn[ino].ref > 1 THEN Ok([f EXCEPT !.vn[ino].ref = @ - 1], Nothing)
  ELSE {IF o.err \in Stops THEN o ELSE [o EXCEPT !.err = "ok"] : o \in sfs_reclaim(f, ino)}
----------------------------------------------------------------------------
(* Operations on the directory.                                            *)

AddLinks(f, ino, n) == SetInode(f, ino, [f.vn[ino].i EXCEPT !.linkcount = @ + n])
DropLink(f, ino) ==
  Asserted(f.vn[ino].i.linkcount > 0, SetInode(f, ino, [f.vn[ino].i EXCEPT !.linkcount = @ - 1]), Nothing)

sfs_creat(f, name, excl) ==
  Then(sfs_dir_findname(f, name), LAMBDA g, d :
    IF d.ino # NOINO
    THEN IF excl THEN Err(g, "EEXIST") ELSE sfs_loadvnode(g, d.ino, "inval")
    ELSE Then(sfs_makeobj(g, "file"), LAMBDA h, v :
           UNION {IF o.err = "ok" THEN Ok(AddLinks(o.fs, v.b, 1), v)
                  ELSE Finally({o}, LAMBDA k : vnode_decref(k, v.b))
                  : o \in sfs_dir_link(h, name, v.b)}))

sfs_link_NoCount(f, name, ino) ==    \* mutant: the link count is not raised
  Then(sfs_dir_link(f, name, ino), LAMBDA g, r : Ok(g, Nothing))

sfs_link(f, name, ino) ==
  Then(sfs_dir_link(f, name, ino), LAMBDA g, r : Ok(AddLinks(g, ino, 1), Nothing))

sfs_remove(f, name) ==
  Then(sfs_lookonce(f, name), LAMBDA g, victim :
    Finally(Then(sfs_dir_unlink(g, victim.slot), LAMBDA h, r : DropLink(h, victim.ino)),
            LAMBDA h : vnode_decref(h, victim.ino)))

\* What rename does when the old entry cannot be erased: it erases the new one.
RenameUndone(f, ino, slot2, err) ==
  {IF p.err = "ok" THEN [p EXCEPT !.err = err, !.fs.vn[ino].i.linkcount = @ - 1]
   ELSE [p EXCEPT !.err = "gives_up"]
   : p \in sfs_dir_unlink(f, slot2)}

sfs_rename(f, n1, n2) ==
  Then(sfs_lookonce(f, n1), LAMBDA g, g1 :
    Finally(Then(sfs_dir_link(g, n2, g1.ino), LAMBDA h, new :
              UNION {IF o.err = "ok" THEN DropLink(o.fs, g1.ino)
                     ELSE RenameUndone(o.fs, g1.ino, new.slot, o.err)
                     : o \in sfs_dir_unlink(AddLinks(h, g1.ino, 1), g1.slot)}),
            LAMBDA h : vnode_decref(h, g1.ino)))
----------------------------------------------------------------------------
(* Syncing and mounting.                                                   *)

sfs_sync(f) ==
  LET synced == [f EXCEPT !.disk = [b \in Block |-> IF b \in DOMAIN f.vn /\ f.vn[b].dirty
                                                    THEN f.vn[b].i ELSE @[b]],
                          !.vn = [v \in DOMAIN @ |-> [@[v] EXCEPT !.dirty = FALSE]]]
  IN  IF f.mapdirty
      THEN Then(sfs_wblock(synced, MAP, Freemap(f.map)), LAMBDA g, r :
             Ok([g EXCEPT !.mapdirty = FALSE], Nothing))
      ELSE Ok(synced, Nothing)

sfs_unmount(f) ==
  IF DOMAIN f.vn # {} THEN Err(f, "EBUSY")
  ELSE Asserted(~f.mapdirty, [f EXCEPT !.mounted = FALSE, !.map = {}], Nothing)

\* A map that is out of date would be used as it is; here it stops the model.
sfs_domount(f) ==
  Err(f, "ENOMEM") \cup
  Then(sfs_rblock(f, SB), LAMBDA g, super :
    IF super # Super THEN Err(g, "EINVAL")
    ELSE Then(sfs_rblock(g, MAP), LAMBDA h, x :
           IF x.kind # "map" THEN Err(h, "panic")
           ELSE Ok([h EXCEPT !.map = x.used, !.mapdirty = FALSE, !.vn = NoVnodes, !.mounted = TRUE], Nothing)))
----------------------------------------------------------------------------
(* The callers: the VFS layer, which has looked the names up.              *)

SfsInit ==
  /\ fs = [disk |-> MkDisk, map |-> {}, mapdirty |-> FALSE, vn |-> NoVnodes, mounted |-> FALSE,
           lost |-> {}]
  /\ held = [b \in Block |-> 0]
  /\ panic = "no"

\* The caller sees the error; the kernel goes on unless it stops.
Left(o) == [fs |-> o.fs, panic |-> IF o.err \in Stops THEN o.err ELSE "no"]
Runs(outs) ==
  \E s \in {Left(o) : o \in outs} :
    /\ Cardinality(s.fs.lost) <= MaxLost
    /\ fs' = s.fs /\ panic' = s.panic

\* An operation on a held directory; it hands back no vnode.
Changes(outs) == fs.mounted /\ held[ROOT] > 0 /\ Runs(outs) /\ UNCHANGED held
\* An operation whose success hands back a reference.
Hands(outs) ==
  \E o \in outs :
    /\ Runs({o})
    /\ held' = IF o.err = "ok" THEN [held EXCEPT ![o.r.b] = @ + 1] ELSE held
    /\ \A b \in Block : held'[b] <= MaxHeld

sfs_getroot(f) ==
  {IF o.err \in {"ok", "panic"} THEN o ELSE [o EXCEPT !.err = "gives_up"]
   : o \in sfs_loadvnode(f, ROOT, "inval")}
GetRoot == fs.mounted /\ Hands(sfs_getroot(fs))
Creat(name, excl) == fs.mounted /\ held[ROOT] > 0 /\ Hands(sfs_creat(fs, name, excl))
Lookup(name) ==
  /\ fs.mounted /\ held[ROOT] > 0
  /\ Hands(Then(sfs_lookonce(fs, name), LAMBDA g, d : Ok(g, Blk(d.ino))))
File(ino) == ino # ROOT /\ held[ino] > 0
WriteFile(ino, pos, x) == File(ino) /\ Runs(sfs_io_write(fs, ino, pos, Data(x))) /\ UNCHANGED held
TruncateFile(ino, len) == File(ino) /\ Runs(sfs_truncate(fs, ino, len)) /\ UNCHANGED held
\* vfs_close: sfs_close syncs the inode, and the reference is dropped.
Close(ino) ==
  /\ held[ino] > 0
  /\ Runs(Then(sfs_sync_inode(fs, ino), LAMBDA g, r : vnode_decref(g, ino)))
  /\ held' = [held EXCEPT ![ino] = @ - 1]
Fsync(ino) == held[ino] > 0 /\ Runs(sfs_sync_inode(fs, ino)) /\ UNCHANGED held
Sync == fs.mounted /\ Runs(sfs_sync(fs)) /\ UNCHANGED held
Mount == ~fs.mounted /\ Runs(sfs_domount(fs)) /\ UNCHANGED held
Unmount == fs.mounted /\ Runs(Then(sfs_sync(fs), LAMBDA g, r : sfs_unmount(g))) /\ UNCHANGED held

\* vfs_link looks the file up by a name before it calls sfs_link.
SfsNext ==
  /\ panic = "no"
  /\ \/ Mount \/ Unmount \/ Sync \/ GetRoot
     \/ \E n \in Name :
          \/ Lookup(n)
          \/ \E excl \in BOOLEAN : Creat(n, excl)
          \/ Changes(sfs_remove(fs, n))
          \/ \E m \in Name : Changes(sfs_rename(fs, n, m))
          \/ \E ino \in Block : File(ino) /\ fs.vn[ino].i.linkcount > 0 /\ Changes(sfs_link(fs, n, ino))
     \/ \E ino \in Block :
          \/ Close(ino) \/ Fsync(ino)
          \/ \E pos \in WriteAt, x \in Datum : WriteFile(ino, pos, x)
          \/ \E len \in TruncateTo : TruncateFile(ino, len)

SfsSpec == SfsInit /\ [][SfsNext]_sfs_vars
----------------------------------------------------------------------------
InodeIn(f, ino) == IF ino \in DOMAIN f.vn THEN f.vn[ino].i ELSE f.disk[ino]
EntriesIn(f) ==
  {Contents(f, InodeIn(f, ROOT), s) : s \in 0..(InodeIn(f, ROOT).size - 1)} \ {Zero}
InodeOf(ino) == InodeIn(fs, ino)
Mapped(ino) == {k \in 0..(MaxFile - 1) : BlockAt(fs, InodeOf(ino), k) # 0}
Entries == EntriesIn(fs)
Inodes == {ROOT} \cup DOMAIN fs.vn \cup {e.ino : e \in Entries}

(* Type invariant.                                                         *)
SfsTypeOK ==
  /\ fs.map \subseteq Block
  /\ \A ino \in DOMAIN fs.vn :
       LET v == fs.vn[ino]
       IN  /\ v.ref \in Nat \ {0} /\ v.dirty \in BOOLEAN
           /\ v.i.kind = "inode" /\ v.i.linkcount \in Nat /\ v.i.size \in 0..MaxFile
           /\ \A k \in DOMAIN v.i.direct : v.i.direct[k] \in Block
           /\ v.i.indirect \in Block
  /\ held \in [Block -> 0..MaxHeld]
  /\ panic \in Stops \cup {"no"}
  /\ fs.lost \subseteq Block

\* No assertion fails and no check of the file system finds an inconsistency:
\* no block that is mapped is marked free, none is freed twice, no inode is in
\* an unallocated block, a file found in the directory has links, a name is
\* there once.  (That the code gives up on an I/O error is not excluded.)
NoPanic == panic # "panic"

Owners(b) ==
    (IF b \in {SB, MAP} THEN 1 ELSE 0)
  + (IF b \in Inodes THEN 1 ELSE 0)
  + FoldSet(LAMBDA ino, n : n + (IF InodeOf(ino).indirect = b THEN 1 ELSE 0)
              + Cardinality({k \in Mapped(ino) : BlockAt(fs, InodeOf(ino), k) = b}),
            0, Inodes)
UsedBlocks == IF fs.mounted THEN fs.map ELSE fs.disk[MAP].used
NamesOf(ino) ==
  Cardinality({s \in 0..(InodeOf(ROOT).size - 1) :
                 LET e == Contents(fs, InodeOf(ROOT), s) IN e # Zero /\ e.ino = ino})

\* What the operations of the file system account for, after every one that
\* succeeds or fails: the blocks in use are the superblock, the map, the inodes,
\* and the data and indirect blocks, each with one owner, and those a failing
\* sfs_makeobj lost; the link count of a file is the number of its names.
BlocksAndLinksExact ==
  /\ \A b \in Block \ {0} : Owners(b) = IF b \in UsedBlocks \ fs.lost THEN 1 ELSE 0
  /\ \A ino \in Inodes \ {ROOT} : InodeOf(ino).linkcount = NamesOf(ino)

Visible == {e.ino : e \in Entries} \cup {ino \in Block \ {ROOT} : held[ino] > 0}

\* An operation that reports success has been done, in whatever state it is
\* called: the block written is the one that is read back, a truncated file has
\* its new length, a removed name is gone, and a renamed file has the new name.
SuccessMeansDone ==
  LET Done(outs, P(_)) == \A o \in outs : o.err = "ok" => P(o.fs)
      Files(f, n) == {e.ino : e \in {d \in EntriesIn(f) : d.name = n}}
  IN  /\ \A ino \in {i \in Block : File(i)} :
           /\ \A pos \in WriteAt, x \in Datum :
                Done(sfs_io_write(fs, ino, pos, Data(x)),
                     LAMBDA f : /\ Contents(f, InodeIn(f, ino), pos) = Data(x)
                                /\ InodeIn(f, ino).size > pos)
           /\ \A len \in TruncateTo :
                Done(sfs_truncate(fs, ino, len), LAMBDA f : InodeIn(f, ino).size = len)
      /\ fs.mounted /\ held[ROOT] > 0 =>
           \A n \in Name :
             /\ Done(sfs_remove(fs, n), LAMBDA f : Files(f, n) = {})
             /\ \A m \in Name :
                  Done(sfs_rename(fs, n, m),
                       LAMBDA f : Files(f, m) = Files(fs, n) /\ Files(f, n) = {})

\* The file system is the abstract one of Files: whatever happens to blocks,
\* a write, a creation, a removal or an unmount and mount changes no other
\* file, and a file keeps what it holds until an operation on it.
AbstractFiles == INSTANCE Files WITH
  MaxBlocks <- MaxFile,
  Datum <- {Data(x) : x \in Datum},
  dir <- LET es == Entries
         IN  [n \in {e.name : e \in es} |-> (CHOOSE e \in es : e.name = n).ino],
  contents <- [ino \in Visible |->
                 LET i == InodeOf(ino)
                 IN  [k \in 1..i.size |-> Contents(fs, i, k - 1)]]
ImplementsFiles == AbstractFiles!FilesSpec
============================================================================
