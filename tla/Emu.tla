-------------------------------- MODULE Emu --------------------------------
(***************************************************************************)
(* The emulator file system kern/dev/lamebus/emu.c: a card that opens host *)
(* files by handle, and a table of vnodes, one for each handle.  Every     *)
(* request goes through one set of registers, under e_lock, and is         *)
(* completed by an interrupt.  Semaphores and locks are the atomic ones of *)
(* thread/synch.c.  File contents are left out; a transfer counts in units *)
(* of EMU_MAXIO.                                                           *)
(***************************************************************************)
EXTENDS Naturals, FiniteSets, FiniteSetsExt

CONSTANTS EmuThread,
          Handle, RootHandle,     \* EMU_ROOTHANDLE
          Ev,                     \* the memory of vnodes
          RootEv,                 \* ef_root
          CloseRetries,           \* 10 in emu_close
          MaxResid,               \* bound: the longest transfer
          EmuCalls,               \* bound: the calls of all threads
          Nobody

ASSUME EmuAssumption ==
  /\ RootHandle \in Handle /\ RootEv \in Ev
  /\ Nobody \notin EmuThread
  /\ CloseRetries \in Nat /\ MaxResid \in Nat /\ EmuCalls \in Nat

VARIABLES
  at, arg,       \* per thread: where it is, and the locals of its call
  held,          \* per thread, how many references it has to each vnode
  calls,         \* calls left
  e_lock, e_sem, e_result,
  ev,            \* the vnodes: free, or their handle, type and vn_refcount
  ef_vnodes,     \* the table
  reg,           \* the registers of the card
  opened,        \* the card: what each handle is open on
  stuck,         \* history: handles and vnodes given up after failing closes
  emu_panic

emu_thr == <<at, arg, held, calls>>
emu_drv == <<e_lock, e_sem, e_result>>
emu_mem == <<ev, ef_vnodes, stuck>>
emu_card == <<reg, opened>>
emu_vars == <<emu_thr, emu_drv, emu_mem, emu_card, emu_panic>>

NoArg == [op |-> "none", h |-> RootHandle, v |-> RootEv, resid |-> 0, tries |-> 0, err |-> "ok", kind |-> "file"]
Vnode(h, kind) == [st |-> "live", h |-> h, kind |-> kind, ref |-> 1]
FreeEv == [st |-> "free", h |-> RootHandle, kind |-> "file", ref |-> 0]

\* After config_emu and emufs_addtovfs, which load the root directory; it is also
\* the current directory of every thread.
EmuInit ==
  /\ at = [t \in EmuThread |-> "idle"]
  /\ arg = [t \in EmuThread |-> NoArg]
  /\ held = [t \in EmuThread |-> [v \in Ev |-> IF v = RootEv THEN 1 ELSE 0]]
  /\ calls = EmuCalls
  /\ e_lock = Nobody /\ e_sem = 0 /\ e_result = "none"
  /\ ev = [v \in Ev |-> IF v = RootEv
                          THEN [Vnode(RootHandle, "dir") EXCEPT !.ref = 1 + Cardinality(EmuThread)]
                          ELSE FreeEv]
  /\ ef_vnodes = {RootEv}
  /\ reg = [op |-> "none", h |-> RootHandle, kind |-> "dir", st |-> "idle", code |-> "none"]
  /\ opened = [h \in Handle |-> IF h = RootHandle THEN "dir" ELSE "no"]
  /\ stuck = [h |-> {}, v |-> {}]
  /\ emu_panic = FALSE

EmuGoto(t, label) == at' = [at EXCEPT ![t] = label]
Idle(t) == at[t] = "idle" /\ calls > 0 /\ ~emu_panic
Unlock(t) == e_lock' = Nobody /\ UNCHANGED <<e_sem, e_result>>
EmuReturn(t) == EmuGoto(t, "idle") /\ arg' = [arg EXCEPT ![t] = NoArg]
Called == calls' = calls - 1
Incref(v) == ev' = [ev EXCEPT ![v].ref = @ + 1]
Hold(t, v) == held' = [held EXCEPT ![t][v] = @ + 1]

\* FSOP_GETROOT
emufs_getroot(t) ==
  /\ Idle(t) /\ Called
  /\ Incref(RootEv) /\ Hold(t, RootEv)
  /\ UNCHANGED <<at, arg, ef_vnodes, stuck, emu_drv, emu_card, emu_panic>>

\* The two function tables: what an operation that reaches the card sends to
\* it.  All others return an errno or a constant without touching anything.
emufs_fileops == {"read", "write", "getsize", "trunc"}
emufs_dirops == {"readdir", "getsize"}
Ops(kind) == IF kind = "dir" THEN emufs_dirops ELSE emufs_fileops

Request(t, v, op, resid) ==
  /\ arg' = [arg EXCEPT ![t] = [NoArg EXCEPT !.op = op, !.h = ev[v].h, !.v = v, !.resid = resid]]
  /\ EmuGoto(t, "io")

\* VOP_READ, VOP_WRITE, which loop over the uio and do nothing when it is
\* empty, and VOP_GETDIRENTRY, which asks for one name.
emufs_transfer(t) ==
  /\ Idle(t) /\ Called
  /\ \E v \in {x \in Ev : held[t][x] > 0} : \E op \in Ops(ev[v].kind) \ {"getsize", "trunc"} :
       \E resid \in IF op = "readdir" THEN {1} ELSE 1..MaxResid : Request(t, v, op, resid)
  /\ UNCHANGED <<held, emu_drv, emu_mem, emu_card, emu_panic>>

\* VOP_STAT and VOP_TRUNCATE.
emufs_attributes(t) ==
  /\ Idle(t) /\ Called
  /\ \E v \in {x \in Ev : held[t][x] > 0} :
       \E op \in Ops(ev[v].kind) \cap {"getsize", "trunc"} : Request(t, v, op, 1)
  /\ UNCHANGED <<held, emu_drv, emu_mem, emu_card, emu_panic>>

\* VOP_LOOKUP and VOP_CREAT on a directory, up to emu_open.
emufs_lookup(t) ==
  /\ Idle(t) /\ Called
  /\ \E v \in {x \in Ev : held[t][x] > 0 /\ ev[x].kind = "dir"} : \E op \in {"open", "create"} :
       arg' = [arg EXCEPT ![t] = [NoArg EXCEPT !.op = op, !.h = ev[v].h, !.v = v]]
  /\ EmuGoto(t, "open")
  /\ UNCHANGED <<held, emu_drv, emu_mem, emu_card, emu_panic>>

\* VOP_LOOKPARENT of a name without a directory part; with one it is a lookup.
emufs_lookparent(t) ==
  /\ Idle(t) /\ Called
  /\ \E v \in {x \in Ev : held[t][x] > 0 /\ ev[x].kind = "dir"} : Incref(v) /\ Hold(t, v)
  /\ UNCHANGED <<at, arg, ef_vnodes, stuck, emu_drv, emu_card, emu_panic>>

\* vnode_decref: the last reference stays in the count for the reclaim.
emu_decref(t) ==
  /\ at[t] = "idle" /\ ~emu_panic
  /\ \E v \in {x \in Ev : held[t][x] > 0} :
       /\ held' = [held EXCEPT ![t][v] = @ - 1]
       /\ \/ /\ ev[v].ref > 1
             /\ ev' = [ev EXCEPT ![v].ref = @ - 1]
             /\ UNCHANGED <<at, arg>>
          \/ /\ ev[v].ref = 1
             /\ EmuGoto(t, "reclaim")
             /\ arg' = [arg EXCEPT ![t] = [NoArg EXCEPT !.op = "close", !.h = ev[v].h, !.v = v]]
             /\ UNCHANGED ev
  /\ UNCHANGED <<calls, ef_vnodes, stuck, emu_drv, emu_card, emu_panic>>

\* lock_acquire(e_lock), which each of the routines begins with.
emu_acquire(t) ==
  /\ at[t] \in {"open", "io", "load", "close", "reclaim"}
  /\ e_lock = Nobody
  /\ e_lock' = t
  /\ EmuGoto(t, CASE at[t] = "load" -> "loading" [] at[t] = "reclaim" -> "reclaiming" [] OTHER -> "issue")
  /\ UNCHANGED <<arg, held, calls, e_sem, e_result, emu_mem, emu_card, emu_panic>>

\* The registers and, last, REG_OPER.
emu_wreg(t) ==
  /\ at[t] = "issue"
  /\ reg' = [reg EXCEPT !.op = arg[t].op, !.h = arg[t].h, !.st = "busy"]
  /\ EmuGoto(t, "wait")
  /\ UNCHANGED <<arg, held, calls, emu_drv, emu_mem, opened, emu_panic>>

\* emu_write's uiomove, before the operation, fails.
WriteFaults(t) ==
  /\ at[t] = "issue" /\ arg[t].op = "write"
  /\ EmuReturn(t) /\ Unlock(t)
  /\ UNCHANGED <<held, calls, emu_mem, emu_card, emu_panic>>

\* External: the card.  An open gives an unused handle, or that of the root
\* directory; an error leaves everything as it was.
CardOpens(h, kind) ==
  /\ reg.op \in {"open", "create"}
  /\ \/ h = RootHandle /\ kind = "dir" /\ reg.op = "open"
     \/ opened[h] = "no" /\ (reg.op = "create" => kind = "file")
  /\ opened' = [opened EXCEPT ![h] = kind]
  /\ reg' = [reg EXCEPT !.h = h, !.kind = kind, !.st = "done", !.code = "SUCCESS"]

CardOther ==
  /\ reg.op \notin {"open", "create"}
  /\ opened' = IF reg.op = "close" THEN [opened EXCEPT ![reg.h] = "no"] ELSE opened
  /\ reg' = [reg EXCEPT !.st = "done", !.code = "SUCCESS"]

CardFails(code) ==
  /\ code = "BADPATH" => reg.op \in {"open", "create"}
  /\ reg' = [reg EXCEPT !.st = "done", !.code = code]
  /\ UNCHANGED opened

Card ==
  /\ reg.st = "busy"
  /\ IF opened[reg.h] = "no"
     THEN CardFails("BADHANDLE")
     ELSE \/ \E h \in Handle, kind \in {"file", "dir"} : CardOpens(h, kind)
          \/ CardOther
          \/ \E code \in {"BADPATH", "MEDIA"} : CardFails(code)
  /\ UNCHANGED <<emu_thr, emu_drv, emu_mem, emu_panic>>

emu_irq_NoV ==    \* mutant: the semaphore is not raised
  /\ reg.st = "done"
  /\ e_result' = reg.code
  /\ reg' = [reg EXCEPT !.st = "idle", !.code = "none"]
  /\ UNCHANGED <<emu_thr, e_lock, e_sem, emu_mem, opened, emu_panic>>

emu_irq ==
  /\ reg.st = "done"
  /\ e_result' = reg.code
  /\ reg' = [reg EXCEPT !.st = "idle", !.code = "none"]
  /\ e_sem' = e_sem + 1
  /\ UNCHANGED <<emu_thr, e_lock, emu_mem, opened, emu_panic>>

translate_err(code) ==
  CASE code = "SUCCESS" -> "ok"
    [] code \in {"BADHANDLE", "BADOP", "BADSIZE"} -> "panic"
    [] code = "BADPATH" -> "ENOENT"
    [] code = "MEDIA" -> "EIO"

emu_waitdone(t) ==
  /\ at[t] = "wait" /\ e_sem > 0
  /\ e_sem' = e_sem - 1
  /\ LET err == translate_err(e_result) IN
       /\ emu_panic' = (err = "panic")
       /\ arg' = [arg EXCEPT ![t].err = err]
  /\ EmuGoto(t, "after")
  /\ UNCHANGED <<held, calls, e_lock, e_result, emu_mem, emu_card>>

\* The end of emu_open: the new handle, then emufs_loadvnode.
emu_open(t) ==
  /\ at[t] = "after" /\ arg[t].op \in {"open", "create"} /\ ~emu_panic
  /\ Unlock(t)
  /\ IF arg[t].err = "ok"
     THEN arg' = [arg EXCEPT ![t].h = reg.h, ![t].kind = reg.kind] /\ EmuGoto(t, "load")
     ELSE EmuReturn(t)
  /\ UNCHANGED <<held, calls, emu_mem, emu_card, emu_panic>>

\* The end of a transfer: uiomove may fail; the loops of emufs_read and
\* emufs_write stop when a round moves nothing or the uio is used up.
emu_doread(t) ==
  /\ at[t] = "after" /\ arg[t].op \notin {"open", "create", "close"} /\ ~emu_panic
  /\ Unlock(t)
  /\ \/ EmuReturn(t)
     \/ /\ arg[t].err = "ok" /\ arg[t].op \in {"read", "write"} /\ arg[t].resid > 1
        /\ arg' = [arg EXCEPT ![t].resid = @ - 1]
        /\ EmuGoto(t, "io")
  /\ UNCHANGED <<held, calls, emu_mem, emu_card, emu_panic>>

\* The search of ef_vnodes under e_lock.
Loaded(h) == {v \in ef_vnodes : ev[v].h = h}

emufs_loadvnode_NoSearch(t) ==    \* mutant: always makes a new vnode
  /\ at[t] = "loading"
  /\ Unlock(t)
  /\ \E v \in {x \in Ev : ev[x].st = "free"} :
       /\ ev' = [ev EXCEPT ![v] = Vnode(arg[t].h, arg[t].kind)]
       /\ ef_vnodes' = ef_vnodes \cup {v}
       /\ Hold(t, v) /\ EmuReturn(t)
  /\ UNCHANGED <<calls, stuck, emu_card, emu_panic>>

emufs_loadvnode(t) ==
  /\ at[t] = "loading"
  /\ Unlock(t)
  /\ \/ \E v \in Loaded(arg[t].h) :
          Incref(v) /\ Hold(t, v) /\ EmuReturn(t) /\ UNCHANGED ef_vnodes
     \/ /\ Loaded(arg[t].h) = {}
        /\ \/ \E v \in {x \in Ev : ev[x].st = "free"} :
                /\ ev' = [ev EXCEPT ![v] = Vnode(arg[t].h, arg[t].kind)]
                /\ ef_vnodes' = ef_vnodes \cup {v}
                /\ Hold(t, v) /\ EmuReturn(t)
           \/ \* kmalloc, VOP_INIT or array_add fails
              /\ EmuGoto(t, "close")
              /\ arg' = [arg EXCEPT ![t] = [@ EXCEPT !.op = "close", !.v = RootEv]]
              /\ UNCHANGED <<ev, ef_vnodes, held>>
  /\ UNCHANGED <<calls, stuck, emu_card, emu_panic>>

\* The check of the count under both locks; EBUSY if it is no longer 1.
emufs_reclaim(t) ==
  /\ at[t] = "reclaiming"
  /\ IF ev[arg[t].v].ref # 1
     THEN EmuReturn(t) /\ Unlock(t)
     ELSE EmuGoto(t, "issue") /\ UNCHANGED <<arg, emu_drv>>
  /\ UNCHANGED <<held, calls, emu_mem, emu_card, emu_panic>>

Closing(t) == at[t] = "after" /\ arg[t].op = "close" /\ ~emu_panic

emu_close_Retry(t) ==
  /\ Closing(t) /\ arg[t].err = "EIO" /\ arg[t].tries < CloseRetries
  /\ arg' = [arg EXCEPT ![t].tries = @ + 1]
  /\ EmuGoto(t, "issue")
  /\ UNCHANGED <<held, calls, emu_drv, emu_mem, emu_card, emu_panic>>

CloseOver(t) == Closing(t) /\ (arg[t].err = "EIO" => arg[t].tries = CloseRetries)

\* emu_close for a handle that got no vnode; its result is ignored.
CloseUnloaded(t) ==
  /\ CloseOver(t) /\ arg[t].v = RootEv
  /\ Unlock(t) /\ EmuReturn(t)
  /\ stuck' = IF arg[t].err = "ok" THEN stuck ELSE [stuck EXCEPT !.h = @ \cup {arg[t].h}]
  /\ UNCHANGED <<held, calls, ev, ef_vnodes, emu_card, emu_panic>>

\* The rest of emufs_reclaim: out of the table; after an error it stays there.
ReclaimClosed(t) ==
  /\ CloseOver(t) /\ arg[t].v # RootEv
  /\ Unlock(t)
  /\ IF arg[t].err = "ok"
     THEN EmuGoto(t, "kill") /\ ef_vnodes' = ef_vnodes \ {arg[t].v} /\ UNCHANGED <<arg, stuck>>
     ELSE EmuReturn(t) /\ stuck' = [stuck EXCEPT !.v = @ \cup {arg[t].v}] /\ UNCHANGED ef_vnodes
  /\ UNCHANGED <<held, calls, ev, emu_card, emu_panic>>

\* VOP_KILL, with its assertion, and kfree.
ReclaimKills(t) ==
  /\ at[t] = "kill"
  /\ emu_panic' = (ev[arg[t].v].ref # 1)
  /\ ev' = [ev EXCEPT ![arg[t].v] = FreeEv]
  /\ EmuReturn(t)
  /\ UNCHANGED <<held, calls, ef_vnodes, stuck, emu_drv, emu_card>>

EmuRun(t) ==
  \/ emu_acquire(t) \/ emu_wreg(t) \/ WriteFaults(t) \/ emu_waitdone(t) \/ emu_open(t)
  \/ emu_doread(t) \/ emufs_loadvnode(t) \/ emufs_reclaim(t) \/ emu_close_Retry(t)
  \/ CloseUnloaded(t) \/ ReclaimClosed(t) \/ ReclaimKills(t)

EmuNext ==
  \/ Card \/ emu_irq
  \/ \E t \in EmuThread :
       \/ emufs_getroot(t) \/ emufs_transfer(t) \/ emufs_attributes(t) \/ emufs_lookup(t) \/ emufs_lookparent(t)
       \/ emu_decref(t) \/ EmuRun(t)
----------------------------------------------------------------------------
(* Type invariant.                                                         *)
EmuTypeOK ==
  /\ at \in [EmuThread -> {"idle", "open", "io", "load", "close", "reclaim", "issue", "wait",
                           "after", "loading", "reclaiming", "kill"}]
  /\ held \in [EmuThread -> [Ev -> Nat]]
  /\ e_lock \in EmuThread \cup {Nobody}
  /\ e_sem \in 0..1
  /\ ef_vnodes \subseteq Ev
  /\ opened \in [Handle -> {"no", "file", "dir"}]
  /\ emu_panic \in BOOLEAN

Reclaimer(v) == {t \in EmuThread : arg[t].op = "close" /\ arg[t].v = v}
References(v) == MapThenSumSet(LAMBDA t : held[t][v], EmuThread)

\* Handles that a thread got from emu_open and has not yet given to a vnode or
\* back to the card.
InTransit ==
  {arg[t].h : t \in {x \in EmuThread : at[x] \in {"load", "loading"}} \cup Reclaimer(RootEv)}
  \cup {reg.h : t \in {x \in EmuThread : at[x] \in {"wait", "after"} /\ arg[x].op \in {"open", "create"}}}

\* The table and the card agree, whatever fails: the card never reports a fatal
\* code and no vnode is destroyed in use; every open handle has a vnode, or
\* somebody who is about to give it one or to close it, unless all retries of
\* its close failed; no two vnodes have one handle, and a vnode in the table has
\* an open one until its reclaim closes it.  The reference count is exact.
HandlesExact ==
  /\ ~emu_panic
  /\ \A h \in Handle : opened[h] # "no" =>
       h \in {ev[v].h : v \in ef_vnodes} \cup InTransit \cup stuck.h
  /\ \A v, w \in ef_vnodes : ev[v].h = ev[w].h => v = w
  /\ \A v \in ef_vnodes : opened[ev[v].h] # "no" \/ Reclaimer(v) # {}
  /\ \A v \in Ev : ev[v].st = "live" =>
       ev[v].ref = References(v) + Cardinality(Reclaimer(v))
                   + (IF v = RootEv THEN 1 - Cardinality(Reclaimer(v)) ELSE 0)
                   + (IF v \in stuck.v THEN 1 ELSE 0)

\* Every call has returned, through any number of chunks, retries and other
\* threads' requests.
EmuReturned == emu_panic \/ \A t \in EmuThread : at[t] = "idle"
============================================================================
