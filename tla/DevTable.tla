------------------------------ MODULE DevTable ------------------------------
(* The table of known devices (fs/vfs/vfslist.c): the names under which     *)
(* devices and file systems are found, mounting and unmounting, sync.  Every *)
(* operation holds knowndevs_lock from its first look at the table to its    *)
(* last, so that each is one step.  A name is a sequence of parts: mkrawname *)
(* appends one.  What FSOP_SYNC, FSOP_UNMOUNT and the mount function answer  *)
(* is the file system's choice; memory that runs out leaves the table alone. *)
EXTENDS Naturals, Sequences

CONSTANTS DevNames,    \* the names drivers call vfs_adddev and vfs_addfs with
          VolumeNames,    \* the names volumes have
          NoName,         \* the NULL name
          NoFs,           \* the NULL file system
          MaxDevices      \* bound: devices in the table

\* The raw name of a device.
mkrawname(name) == Append(name, "raw")

\* Names are strings in parts; NULL is neither a name nor a file system.
ASSUME DevTableAssumption ==
  /\ DevNames \subseteq Seq(STRING)
  /\ NoName # <<"null">> /\ \A n \in DevNames : NoName \notin {n, mkrawname(n)}
  /\ NoFs \notin [volname : VolumeNames \cup {NoName}]
  /\ MaxDevices \in Nat \ {0}

VARIABLES
  knowndevs,    \* the array of struct knowndev
  unsynced,     \* devices whose file system changed since its sync last said 0
  dropped       \* devices whose file system the last step unmounted

tab_dev_vars == <<knowndevs, unsynced, dropped>>

Kd(name, raw, dev, fs) == [kd_name |-> name, kd_rawname |-> raw, kd_device |-> dev, kd_fs |-> fs]

\* vfs_bootstrap: devnull_create adds "null".
vfs_bootstrap ==
  /\ knowndevs = <<Kd(<<"null">>, NoName, TRUE, NoFs)>>
  /\ unsynced = {}
  /\ dropped = {}

\* FSOP_GETVOLNAME of a device's file system, if it has one.
VolnameOf(kd) == IF kd.kd_fs = NoFs THEN NoName ELSE kd.kd_fs.volname
NamesOf(kd) == {kd.kd_name, kd.kd_rawname, VolnameOf(kd)} \ {NoName}

badnames_VolumeAndName(names) ==    \* mutant: raw names are not compared
  \E i \in DOMAIN knowndevs :
    names \cap ({knowndevs[i].kd_name, VolnameOf(knowndevs[i])} \ {NoName}) # {}

\* badnames, with samestring3: NULL is no name.
badnames(names) == \E i \in DOMAIN knowndevs : (names \ {NoName}) \cap NamesOf(knowndevs[i]) # {}

\* vfs_doadd of a device (vfs_adddev) or of a file system (vfs_addfs): an
\* entry, or EEXIST.
vfs_doadd(dname, mountable, dev, fs) ==
  LET kd == Kd(dname, IF mountable THEN mkrawname(dname) ELSE NoName, dev, fs)
  IN  /\ Len(knowndevs) < MaxDevices
      /\ ~badnames(NamesOf(kd))
      /\ knowndevs' = Append(knowndevs, kd)
      /\ dropped' = {}
      /\ UNCHANGED unsynced

vfs_adddev(dname, mountable) == vfs_doadd(dname, mountable, TRUE, NoFs)
vfs_addfs(dname, volname) == vfs_doadd(dname, FALSE, FALSE, [volname |-> volname])

\* findmount: the entries that are mountable and have the name (0 or 1 of them).
findmount(devname) ==
  {i \in DOMAIN knowndevs : knowndevs[i].kd_rawname # NoName /\ knowndevs[i].kd_name = devname}

\* vfs_mount: the mount function hands back a file system, or it fails.
vfs_mount_dev(devname) ==
  \E i \in findmount(devname), volname \in VolumeNames \cup {NoName} :
    /\ knowndevs[i].kd_fs = NoFs
    /\ knowndevs' = [knowndevs EXCEPT ![i].kd_fs = [volname |-> volname]]
    /\ dropped' = {}
    /\ UNCHANGED unsynced

Synced(i, answer) ==
  IF answer = 0 THEN unsynced \ {knowndevs[i].kd_name} ELSE unsynced

\* vfs_unmount: sync, then unmount; either may fail, and the file system stays.
vfs_unmount_dev(devname) ==
  \E i \in findmount(devname), sync \in 0..1, unmount \in 0..1 :
    /\ knowndevs[i].kd_fs # NoFs
    /\ unsynced' = Synced(i, sync)
    /\ IF sync = 0 /\ unmount = 0
       THEN /\ knowndevs' = [knowndevs EXCEPT ![i].kd_fs = NoFs]
            /\ dropped' = {devname}
       ELSE dropped' = {} /\ UNCHANGED knowndevs

Mounted == {i \in DOMAIN knowndevs : knowndevs[i].kd_rawname # NoName /\ knowndevs[i].kd_fs # NoFs}

vfs_unmountall_DropsUnsynced ==    \* mutant: goes on after the second failure
  \E sync, unmount \in [Mounted -> 0..1] :
    LET gone == {i \in Mounted : unmount[i] = 0}
    IN  /\ knowndevs' = [i \in DOMAIN knowndevs |->
                           IF i \in gone THEN [knowndevs[i] EXCEPT !.kd_fs = NoFs] ELSE knowndevs[i]]
        /\ unsynced' = unsynced \ {knowndevs[i].kd_name : i \in {j \in Mounted : sync[j] = 0}}
        /\ dropped' = {knowndevs[i].kd_name : i \in gone}

\* vfs_unmountall: each mounted device in turn; a sync that fails is tried a
\* second time, and a device that cannot be synced or unmounted is left.
vfs_unmountall ==
  \E sync, unmount \in [Mounted -> 0..1] :
    LET gone == {i \in Mounted : sync[i] = 0 /\ unmount[i] = 0}
    IN  /\ knowndevs' = [i \in DOMAIN knowndevs |->
                           IF i \in gone THEN [knowndevs[i] EXCEPT !.kd_fs = NoFs] ELSE knowndevs[i]]
        /\ unsynced' = unsynced \ {knowndevs[i].kd_name : i \in {j \in Mounted : sync[j] = 0}}
        /\ dropped' = {knowndevs[i].kd_name : i \in gone}

\* vfs_sync: every file system, and what each answers is not looked at.
vfs_sync ==
  \E failed \in SUBSET unsynced : unsynced' = failed /\ dropped' = {} /\ UNCHANGED knowndevs

\* A file system in use (external): something on it changes.
Modify ==
  \E i \in DOMAIN knowndevs :
    /\ knowndevs[i].kd_fs # NoFs
    /\ unsynced' = unsynced \cup {knowndevs[i].kd_name}
    /\ dropped' = {}
    /\ UNCHANGED knowndevs

DevTableNext ==
  \/ \E n \in DevNames, mountable \in BOOLEAN : vfs_adddev(n, mountable)
  \/ \E n \in DevNames, v \in VolumeNames \cup {NoName} : vfs_addfs(n, v)
  \/ \E n \in DevNames : vfs_mount_dev(n)
  \/ \E n \in DevNames : vfs_unmount_dev(n)
  \/ vfs_unmountall
  \/ vfs_sync
  \/ Modify

DevTableSpec == vfs_bootstrap /\ [][DevTableNext]_tab_dev_vars
----------------------------------------------------------------------------
(* Finding a device by name.                                               *)

\* What one entry answers for a name, "next" when it is none of its names.
Answer(kd, devname) ==
  IF kd.kd_fs # NoFs /\ devname \in {kd.kd_name, VolnameOf(kd)} THEN <<"root", kd.kd_name>>
  ELSE IF kd.kd_fs = NoFs /\ kd.kd_rawname # NoName /\ kd.kd_name = devname THEN <<"ENXIO">>
  ELSE IF kd.kd_name = devname \/ kd.kd_rawname = devname THEN <<"device", kd.kd_name>>
  ELSE <<"next">>

\* vfs_getroot: the first entry that answers, or ENODEV.
vfs_getroot(devname) ==
  LET answers == {i \in DOMAIN knowndevs : Answer(knowndevs[i], devname) # <<"next">>}
  IN  IF answers = {} THEN <<"ENODEV">>
      ELSE Answer(knowndevs[CHOOSE i \in answers : \A j \in answers : i <= j], devname)

\* vfs_getdevname, and the name vfs_getcwd prints before the colon.
vfs_getdevname(i) == knowndevs[i].kd_name
vfs_getcwd_name(i) ==
  IF VolnameOf(knowndevs[i]) # NoName THEN VolnameOf(knowndevs[i]) ELSE vfs_getdevname(i)

\* The volume names that are some other name too: vfs_mount does not look.
Clashes ==
  {i \in DOMAIN knowndevs :
     /\ VolnameOf(knowndevs[i]) # NoName
     /\ \/ VolnameOf(knowndevs[i]) = knowndevs[i].kd_rawname
        \/ \E j \in DOMAIN knowndevs \ {i} : VolnameOf(knowndevs[i]) \in NamesOf(knowndevs[j])}

\* What the comment of struct knowndev says of one device's names.
AsDocumented(kd) ==
  /\ kd.kd_fs # NoFs =>
       /\ vfs_getroot(kd.kd_name) = <<"root", kd.kd_name>>
       /\ VolnameOf(kd) # NoName => vfs_getroot(VolnameOf(kd)) = <<"root", kd.kd_name>>
  /\ kd.kd_rawname # NoName =>
       /\ kd.kd_fs = NoFs => vfs_getroot(kd.kd_name) = <<"ENXIO">>
       /\ vfs_getroot(kd.kd_rawname) = <<"device", kd.kd_name>>
  /\ (kd.kd_rawname = NoName /\ kd.kd_fs = NoFs) =>
       vfs_getroot(kd.kd_name) = <<"device", kd.kd_name>>
----------------------------------------------------------------------------
(* Type invariant.                                                         *)
DevTableTypeOK ==
  /\ Len(knowndevs) \in 1..MaxDevices
  /\ \A i \in DOMAIN knowndevs : knowndevs[i].kd_rawname # NoName => knowndevs[i].kd_device
  /\ unsynced \subseteq {knowndevs[i].kd_name : i \in DOMAIN knowndevs}

\* As long as no volume has a name that is taken, every device and file
\* system is found under each of its names, whatever was added, mounted and
\* unmounted before, and the name pwd prints leads back to the same root.  A
\* file system is dropped from the table only with nothing left to write: the
\* sync before it said 0, in vfs_unmount and for each device of vfs_unmountall.
NamesResolve ==
  /\ Clashes = {} =>
       \A i \in DOMAIN knowndevs :
         /\ AsDocumented(knowndevs[i])
         /\ knowndevs[i].kd_fs # NoFs =>
              vfs_getroot(vfs_getcwd_name(i)) = <<"root", vfs_getdevname(i)>>
  /\ dropped \cap unsynced = {}
============================================================================
