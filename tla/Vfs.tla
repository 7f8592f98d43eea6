-------------------------------- MODULE Vfs --------------------------------
(***************************************************************************)
(* References to vnodes above the file systems: the device table of        *)
(* vfslist.c, path translation (vfslookup.c), the current and the boot     *)
(* directory (vfscwd.c), the operations on paths (vfspath.c) and the       *)
(* counts of vnode.c, used by several threads at once.                     *)
(*                                                                         *)
(* A file system is seen through its vnodes: a root directory and one      *)
(* file.  Loading and reclaiming a vnode is one step here; SfsVnodes has   *)
(* the steps SFS really takes.  A path is where it starts and whether a    *)
(* name follows.  A count changes under vn_countlock, so a change is one   *)
(* step; VOP_DECREFs that follow each other are taken together.  The boot  *)
(* directory is read and its reference counted under bootfs_lock: one step. *)
(***************************************************************************)
EXTENDS Integers, Sequences, FiniteSets, FiniteSetsExt, Ends

CONSTANTS VfsThread, FirstThread,
          EmuFs,       \* the names vfs_addfs added: file systems for ever
          Disk,        \* the mountable devices
          PlainDev,    \* the devices that are not mountable
          NoVnode, NoThread,
          MaxOpen,     \* bound on the files a thread has open
          MaxOrphans   \* bound on the VOP_RECLAIMs that fail

Vnode == ((EmuFs \cup Disk) \X {"root", "file"}) \cup ((Disk \cup PlainDev) \X {"dev"})

ASSUME VfsAssumption ==
  /\ FirstThread \in VfsThread
  /\ NoThread \notin VfsThread /\ NoVnode \notin Vnode
  /\ IsFiniteSet(VfsThread) /\ IsFiniteSet(Vnode)
  /\ MaxOpen \in Nat /\ MaxOrphans \in Nat

FsOf(v) == v[1]
Root(x) == <<x, "root">>
DevVnode(x) == <<x, "dev">>
OnFs(v) == v[2] # "dev"
S_ISDIR(v) == v[2] = "root"

VARIABLES
  mounted,         \* the disks with a kd_fs
  knowndevs_lock,  \* its holder
  refcount,        \* vn_refcount; 0: the vnode is not in memory
  opencount,
  orphans,         \* vnodes whose VOP_RECLAIM failed: the last reference stays
  t_cwd, bootfs_vnode,
  alive,
  files,           \* files[t][v]: how often t has v open
  held,            \* the references in t's local variables, oldest first
  call,            \* what t is doing: its lookups and where it is
  todo             \* the disks the holder of the lock has still to unmount

vfs_vars == <<mounted, knowndevs_lock, refcount, opencount, orphans, t_cwd,
              bootfs_vnode, alive, files, held, call, todo>>

\* The lookups of the operations on paths, in order.  Which operation it is
\* shows only when they are done.
OneVnode == <<"lookup">>                     \* open, readlink, chdir, setbootfs
OneParent == <<"lookparent">>                \* open with O_CREAT, remove, symlink, ...
TwoParents == <<"lookparent", "lookparent">> \* rename
VnodeAndParent == <<"lookup", "lookparent">> \* link

At(lookups, at) == [lookups |-> lookups, at |-> at, n |-> 0]
Idle == At(<<>>, "idle")

VfsInit ==
  /\ mounted = {}
  /\ knowndevs_lock = NoThread
  \* vfs_doadd makes one vnode per device, and the table keeps its reference
  /\ refcount = [v \in Vnode |-> IF OnFs(v) THEN 0 ELSE 1]
  /\ opencount = [v \in Vnode |-> 0]
  /\ orphans = {}
  /\ t_cwd = [t \in VfsThread |-> NoVnode]
  /\ bootfs_vnode = NoVnode
  /\ alive = {FirstThread}
  /\ files = [t \in VfsThread |-> [v \in Vnode |-> 0]]
  /\ held = [t \in VfsThread |-> <<>>]
  /\ call = [t \in VfsThread |-> Idle]
  /\ todo = {}
----------------------------------------------------------------------------
(* Counts: vnode_init, vnode_incref, vnode_decref and VOP_RECLAIM.         *)

Times(v, s) == Cardinality({i \in DOMAIN s : s[i] = v})

\* The references in gained are taken and those in lost are dropped.  The
\* last one is dropped by VOP_RECLAIM, which removes the vnode from memory,
\* or fails, and then leaves it there with its count of 1.
Count(gained, lost) ==
  LET left == [v \in Vnode |-> refcount[v] + Times(v, gained) - Times(v, lost)]
      last == {v \in Vnode : left[v] = 0 /\ Times(v, lost) > 0}
  IN  \E failed \in SUBSET last :
        /\ refcount' = [v \in Vnode |-> IF v \in failed THEN 1 ELSE left[v]]
        /\ orphans' = orphans \cup failed
        /\ Cardinality(orphans') <= MaxOrphans

One(v) == IF v = NoVnode THEN <<>> ELSE <<v>>
----------------------------------------------------------------------------
(* Path translation.                                                       *)

Begin(t, lookups) ==
  /\ call[t] = Idle
  /\ call' = [call EXCEPT ![t] = [lookups |-> lookups, at |-> "look", n |-> 1]]
  /\ UNCHANGED <<mounted, knowndevs_lock, refcount, opencount, orphans, t_cwd,
                 bootfs_vnode, alive, files, held, todo>>

InLookup(t, half) ==
  /\ call[t].at = "look"
  /\ Len(held[t]) = call[t].n - 1 + half

\* The vnode a device name stands for, or NoVnode with ENXIO or ENODEV.
vfs_getroot(name) ==
  CASE name \in EmuFs \cup mounted -> Root(name)
    [] name \in PlainDev -> DevVnode(name)
    [] name \in Disk \X {"raw"} -> DevVnode(name[1])
    [] OTHER -> NoVnode
DeviceNames == EmuFs \cup Disk \cup PlainDev \cup (Disk \X {"raw"})

\* vn starts the lookup, or is NoVnode and the lookup fails.
StartAt(t, vn) ==
  /\ InLookup(t, 0)
  /\ Count(One(vn), <<>>)
  /\ IF vn = NoVnode
       THEN /\ call' = [call EXCEPT ![t] = At(@.lookups, "failed")]
            /\ UNCHANGED held
       ELSE /\ held' = [held EXCEPT ![t] = Append(@, vn)]
            /\ UNCHANGED call
  /\ UNCHANGED <<mounted, knowndevs_lock, opencount, t_cwd, bootfs_vnode, alive,
                 files, todo>>

getdevice(t) ==
  \/ StartAt(t, t_cwd[t])                        \* name
  \/ StartAt(t, bootfs_vnode)                    \* /name
  \/ StartAt(t, IF t_cwd[t] = NoVnode THEN NoVnode
                ELSE Root(FsOf(t_cwd[t])))       \* :name
  \/ /\ knowndevs_lock = NoThread                \* device:name
     /\ \E name \in DeviceNames : StartAt(t, vfs_getroot(name))

\* What VOP_LOOKUP, VOP_LOOKPARENT or VOP_CREAT on the vnode v can hand back;
\* NoVnode stands for an error.
Found(v, how) ==
  {NoVnode} \cup (IF ~S_ISDIR(v) THEN {}
                  ELSE IF how = "lookparent" THEN {v} ELSE {<<FsOf(v), "file">>})

LookedUp(t, v, lost) ==
  /\ Count(One(v), lost)
  /\ held' = [held EXCEPT ![t] = Front(@) \o One(v)]
  /\ call' = [call EXCEPT ![t] = IF v = NoVnode THEN At(@.lookups, "failed")
                                 ELSE IF @.n < Len(@.lookups) THEN [call[t] EXCEPT !.n = @ + 1]
                                 ELSE At(@.lookups, "found")]
  /\ UNCHANGED <<mounted, knowndevs_lock, opencount, t_cwd, bootfs_vnode, alive,
                 files, todo>>

vfs_lookup(t) ==
  /\ InLookup(t, 1)
  /\ call[t].lookups[call[t].n] = "lookup"
  /\ LET startvn == Last(held[t])
     IN  \/ LookedUp(t, startvn, <<startvn>>)    \* no name: startvn itself
         \/ \E v \in Found(startvn, "lookup") : LookedUp(t, v, <<startvn>>)

vfs_lookparent(t) ==
  /\ InLookup(t, 1)
  /\ call[t].lookups[call[t].n] = "lookparent"
  /\ LET startvn == Last(held[t])
     IN  \E v \in Found(startvn, "lookparent") : LookedUp(t, v, <<startvn>>)

\* The caller's error path drops what an earlier lookup found.
LookupFailed(t) ==
  /\ call[t].at = "failed"
  /\ Count(<<>>, held[t])
  /\ held' = [held EXCEPT ![t] = <<>>]
  /\ call' = [call EXCEPT ![t] = Idle]
  /\ UNCHANGED <<mounted, knowndevs_lock, opencount, t_cwd, bootfs_vnode, alive,
                 files, todo>>
----------------------------------------------------------------------------
(* The operations on paths, once their lookups are done.                   *)

Ready(t, lookups) == call[t] = At(lookups, "found")
Done(t) ==
  /\ held' = [held EXCEPT ![t] = <<>>]
  /\ call' = [call EXCEPT ![t] = Idle]

\* VOP_REMOVE, VOP_SYMLINK, VOP_MKDIR, VOP_RMDIR, VOP_READLINK, VOP_RENAME and
\* VOP_LINK, whatever they return, or EXDEV; then the VOP_DECREFs.
Entries(t) ==
  /\ call[t].at = "found"
  /\ Count(<<>>, held[t])
  /\ Done(t)
  /\ UNCHANGED <<mounted, knowndevs_lock, opencount, t_cwd, bootfs_vnode, alive,
                 files, todo>>

\* vfs_open with O_CREAT, up to VOP_OPEN.
Creat(t) ==
  /\ Ready(t, OneParent)
  /\ LET dir == held[t][1]
     IN  \E v \in Found(dir, "lookup") :
           /\ Count(One(v), <<dir>>)
           /\ held' = [held EXCEPT ![t] = One(v)]
           /\ call' = [call EXCEPT ![t] = IF v = NoVnode THEN Idle
                                          ELSE At(OneVnode, "open")]
  /\ UNCHANGED <<mounted, knowndevs_lock, opencount, t_cwd, bootfs_vnode, alive,
                 files, todo>>

vfs_open_TruncLeak(t) ==    \* mutant: a failed truncation leaves the file open
  /\ Ready(t, OneVnode) \/ call[t] = At(OneVnode, "open")
  /\ LET vn == held[t][1]
     IN  \/ /\ Count(<<>>, <<vn>>)
            /\ Done(t)
            /\ UNCHANGED <<opencount, files>>
         \/ /\ Count(<<>>, <<vn>>)
            /\ Done(t)
            /\ opencount' = [opencount EXCEPT ![vn] = @ + 1]
            /\ UNCHANGED files
  /\ UNCHANGED <<mounted, knowndevs_lock, t_cwd, bootfs_vnode, alive, todo>>

\* VOP_OPEN or VOP_TRUNCATE fails and the reference is dropped, the open
\* count being back where it was; or the reference becomes that of the file.
vfs_open(t) ==
  /\ Ready(t, OneVnode) \/ call[t] = At(OneVnode, "open")
  /\ LET vn == held[t][1]
     IN  \/ /\ Count(<<>>, <<vn>>)
            /\ Done(t)
            /\ UNCHANGED <<opencount, files>>
         \/ /\ FoldSet(LAMBDA v, n : n + files[t][v], 0, Vnode) < MaxOpen
            /\ opencount' = [opencount EXCEPT ![vn] = @ + 1]
            /\ files' = [files EXCEPT ![t][vn] = @ + 1]
            /\ Done(t)
            /\ UNCHANGED <<refcount, orphans>>
  /\ UNCHANGED <<mounted, knowndevs_lock, t_cwd, bootfs_vnode, alive, todo>>

vfs_close(t, vn) ==
  /\ call[t] = Idle
  /\ files[t][vn] > 0
  /\ opencount' = [opencount EXCEPT ![vn] = @ - 1]
  /\ files' = [files EXCEPT ![t][vn] = @ - 1]
  /\ Count(<<>>, <<vn>>)
  /\ UNCHANGED <<mounted, knowndevs_lock, t_cwd, bootfs_vnode, alive, held, call,
                 todo>>

vfs_chdir_AnyVnode(t) ==    \* mutant: the type is not looked at
  /\ Ready(t, OneVnode)
  /\ t_cwd' = [t_cwd EXCEPT ![t] = held[t][1]]
  /\ Count(held[t], One(t_cwd[t]) \o held[t])
  /\ held' = [held EXCEPT ![t] = <<>>]
  /\ \E next \in {Idle, At(<<>>, "boot")} : call' = [call EXCEPT ![t] = next]
  /\ UNCHANGED <<mounted, knowndevs_lock, opencount, bootfs_vnode, alive, files, todo>>

\* vfs_setcurdir and the VOP_DECREF of what the lookup found; in vfs_setbootfs
\* more follows.
vfs_chdir(t) ==
  /\ Ready(t, OneVnode)
  /\ IF S_ISDIR(held[t][1])
       THEN /\ t_cwd' = [t_cwd EXCEPT ![t] = held[t][1]]
            /\ Count(held[t], One(t_cwd[t]) \o held[t])
            /\ \E next \in {Idle, At(<<>>, "boot")} : call' = [call EXCEPT ![t] = next]
       ELSE /\ Count(<<>>, held[t])
            /\ call' = [call EXCEPT ![t] = Idle]
            /\ UNCHANGED t_cwd
  /\ held' = [held EXCEPT ![t] = <<>>]
  /\ UNCHANGED <<mounted, knowndevs_lock, opencount, bootfs_vnode, alive, files, todo>>

\* The rest of vfs_setbootfs: vfs_getcurdir and change_bootfs.
vfs_setbootfs(t) ==
  /\ call[t] = At(<<>>, "boot")
  /\ bootfs_vnode' = t_cwd[t]
  /\ Count(One(t_cwd[t]), One(bootfs_vnode))
  /\ Done(t)
  /\ UNCHANGED <<mounted, knowndevs_lock, opencount, t_cwd, alive, files, todo>>

vfs_clearbootfs(t) ==
  /\ call[t] = Idle
  /\ bootfs_vnode # NoVnode
  /\ bootfs_vnode' = NoVnode
  /\ Count(<<>>, <<bootfs_vnode>>)
  /\ UNCHANGED <<mounted, knowndevs_lock, opencount, t_cwd, alive, files, held, call,
                 todo>>

\* vfs_clearcurdir, and what thread_exit does about the current directory.
vfs_clearcurdir(t) ==
  /\ call[t] = Idle
  /\ t_cwd[t] # NoVnode
  /\ t_cwd' = [t_cwd EXCEPT ![t] = NoVnode]
  /\ Count(<<>>, <<t_cwd[t]>>)
  /\ UNCHANGED <<mounted, knowndevs_lock, opencount, bootfs_vnode, alive, files, held,
                 call, todo>>

thread_exit_cwd(t) ==
  /\ call[t] = Idle
  /\ t # FirstThread
  /\ \A v \in Vnode : files[t][v] = 0
  /\ alive' = alive \ {t}
  /\ t_cwd' = [t_cwd EXCEPT ![t] = NoVnode]
  /\ Count(<<>>, One(t_cwd[t]))
  /\ UNCHANGED <<mounted, knowndevs_lock, opencount, bootfs_vnode, files, held, call,
                 todo>>

thread_fork_cwd_NoIncref(t, u) ==    \* mutant: the child shares the reference
  /\ call[t] = Idle
  /\ u \notin alive
  /\ alive' = alive \cup {u}
  /\ t_cwd' = [t_cwd EXCEPT ![u] = t_cwd[t]]
  /\ UNCHANGED <<mounted, knowndevs_lock, refcount, opencount, orphans, bootfs_vnode,
                 files, held, call, todo>>

\* The child inherits the current directory.
thread_fork_cwd(t, u) ==
  /\ call[t] = Idle
  /\ u \notin alive
  /\ alive' = alive \cup {u}
  /\ t_cwd' = [t_cwd EXCEPT ![u] = t_cwd[t]]
  /\ Count(One(t_cwd[t]), <<>>)
  /\ UNCHANGED <<mounted, knowndevs_lock, opencount, bootfs_vnode, files, held, call,
                 todo>>
----------------------------------------------------------------------------
(* Mounting and unmounting, under knowndevs_lock.                          *)

vfs_mount(t, d) ==
  /\ call[t] = Idle
  /\ knowndevs_lock = NoThread
  /\ d \notin mounted
  /\ mounted' = mounted \cup {d}
  /\ UNCHANGED <<knowndevs_lock, refcount, opencount, orphans, t_cwd, bootfs_vnode,
                 alive, files, held, call, todo>>

\* vfs_unmount of one disk or vfs_unmountall.
vfs_unmount(t, disks) ==
  /\ call[t] = Idle
  /\ knowndevs_lock = NoThread
  /\ disks \cap mounted # {}
  /\ knowndevs_lock' = t
  /\ todo' = disks \cap mounted
  /\ call' = [call EXCEPT ![t] = At(<<>>, "sync")]
  /\ UNCHANGED <<mounted, refcount, opencount, orphans, t_cwd, bootfs_vnode, alive,
                 files, held>>

\* FSOP_SYNC: the next disk, or not, when it fails (twice in vfs_unmountall).
Sync(t) ==
  /\ call[t] = At(<<>>, "sync")
  /\ \/ /\ todo # {}
        /\ call' = [call EXCEPT ![t].at = "synced"]
        /\ UNCHANGED <<todo, knowndevs_lock>>
     \/ \E d \in todo :
          /\ todo' = todo \ {d}
          /\ UNCHANGED <<call, knowndevs_lock>>
     \/ /\ todo = {}
        /\ knowndevs_lock' = NoThread
        /\ call' = [call EXCEPT ![t] = Idle]
        /\ UNCHANGED todo
  /\ UNCHANGED <<mounted, refcount, opencount, orphans, t_cwd, bootfs_vnode, alive,
                 files, held>>

Loaded(d) == {v \in Vnode : OnFs(v) /\ FsOf(v) = d /\ refcount[v] > 0}

FSOP_UNMOUNT_NotBusy(t) ==    \* mutant: EBUSY only for open files
  /\ call[t] = At(<<>>, "synced")
  /\ \E d \in todo :
       /\ todo' = todo \ {d}
       /\ mounted' = IF \A v \in Loaded(d) : opencount[v] = 0 THEN mounted \ {d} ELSE mounted
  /\ call' = [call EXCEPT ![t].at = "sync"]
  /\ UNCHANGED <<knowndevs_lock, refcount, opencount, orphans, t_cwd, bootfs_vnode,
                 alive, files, held>>

\* FSOP_UNMOUNT: EBUSY while there are vnodes, and then kd_fs is kept.
FSOP_UNMOUNT(t) ==
  /\ call[t] = At(<<>>, "synced")
  /\ \E d \in todo :
       /\ todo' = todo \ {d}
       /\ mounted' = IF Loaded(d) = {} THEN mounted \ {d} ELSE mounted
  /\ call' = [call EXCEPT ![t].at = "sync"]
  /\ UNCHANGED <<knowndevs_lock, refcount, opencount, orphans, t_cwd, bootfs_vnode,
                 alive, files, held>>

VfsStep(t) ==
  \/ \E lookups \in {OneVnode, OneParent, TwoParents, VnodeAndParent} : Begin(t, lookups)
  \/ getdevice(t)
  \/ vfs_lookup(t)
  \/ vfs_lookparent(t)
  \/ LookupFailed(t)
  \/ Entries(t)
  \/ Creat(t)
  \/ vfs_open(t)
  \/ \E v \in Vnode : vfs_close(t, v)
  \/ vfs_chdir(t)
  \/ vfs_setbootfs(t)
  \/ vfs_clearbootfs(t)
  \/ vfs_clearcurdir(t)
  \/ thread_exit_cwd(t)
  \/ \E u \in VfsThread : thread_fork_cwd(t, u)
  \/ \E d \in Disk : vfs_mount(t, d)
  \/ \E disks \in {{d} : d \in Disk} \cup {Disk} : vfs_unmount(t, disks)
  \/ Sync(t)
  \/ FSOP_UNMOUNT(t)

VfsNext == \E t \in alive : VfsStep(t)
VfsSpec == VfsInit /\ [][VfsNext]_vfs_vars
----------------------------------------------------------------------------
(* Type invariant; no count goes below zero (vnode_decref's and            *)
(* vnode_decopen's assertions).                                            *)
VfsTypeOK ==
  /\ mounted \subseteq Disk /\ todo \subseteq Disk
  /\ knowndevs_lock \in VfsThread \cup {NoThread}
  /\ refcount \in [Vnode -> Nat] /\ opencount \in [Vnode -> Nat]
  /\ orphans \subseteq Vnode
  /\ t_cwd \in [VfsThread -> Vnode \cup {NoVnode}]
  /\ bootfs_vnode \in Vnode \cup {NoVnode}
  /\ alive \subseteq VfsThread
  /\ files \in [VfsThread -> [Vnode -> 0..MaxOpen]]
  /\ \A t \in VfsThread : held[t] \in Seq(Vnode) /\ Len(held[t]) <= 2

\* The references to v there are: current directories, the boot directory,
\* open files, the local variables of calls in progress, the device table's.
References(v) ==
    Cardinality({t \in VfsThread : t_cwd[t] = v})
  + (IF bootfs_vnode = v THEN 1 ELSE 0)
  + FoldSet(LAMBDA t, n : n + (files[t][v] + Times(v, held[t])), 0, VfsThread)
  + (IF OnFs(v) THEN 0 ELSE 1)

\* vn_refcount is the number of references and vn_opencount that of open
\* files, on every path through every operation, so that no vnode is freed in
\* use and none stays for ever; a vnode whose reclaim failed counts one more.
RefcountExact ==
  \A v \in Vnode :
    /\ refcount[v] = References(v) + (IF v \in orphans THEN 1 ELSE 0)
    /\ opencount[v] = FoldSet(LAMBDA t, n : n + files[t][v], 0, VfsThread)

\* A file system with a vnode in memory is mounted, whichever path translation
\* was under way when the unmount began; the current directory and the boot
\* directory are directories of a file system (the assertions of getdevice and
\* vfs_getcwd).
FsInUseIsMounted ==
  /\ \A v \in Vnode : OnFs(v) /\ refcount[v] > 0 => FsOf(v) \in EmuFs \cup mounted
  /\ \A v \in {t_cwd[t] : t \in VfsThread} \cup {bootfs_vnode} : v # NoVnode => S_ISDIR(v)
============================================================================
