-------------------------------- MODULE Lhd --------------------------------
(***************************************************************************)
(* The disk driver kern/dev/lamebus/lhd.c and its card.  Threads share one *)
(* on-card sector buffer and one result word; the semaphores lh_clear and  *)
(* lh_done, taken atomically as thread/synch.c implements them, keep their *)
(* transfers apart.                                                        *)
(***************************************************************************)
EXTENDS Naturals, Sequences, FiniteSets

CONSTANTS LhdThread,
          Blocks,      \* d_blocks, the number of sectors
          Requests,    \* the requests a thread may make
          NoData         \* what a sector held at the start

ASSUME LhdAssumption ==
  /\ Blocks \in Nat \ {0}
  /\ NoData \notin LhdThread
  /\ Requests \subseteq [rw : {"read", "write"}, aligned : BOOLEAN, sector : Nat, len : Nat]

VARIABLES
  req,        \* per thread, its uio
  lhd_pc,
  done,       \* per thread, sectors finished: i of the loop in lhd_io
  moved,      \* per thread, what uiomove has given it
  result,     \* per thread, what lhd_io returned
  lh_clear, lh_done, lh_result,
  buf,        \* the on-card buffer
  sect, stat, \* the card's registers; ISWRITE is part of stat
  disk,
  fate        \* history: whether the operation of the current user failed

thr == <<req, lhd_pc, done, moved, result>>
drv == <<lh_clear, lh_done, lh_result>>
card == <<buf, sect, stat, disk, fate>>
lhd_vars == <<thr, drv, card>>

Sectors == 0..(Blocks - 1)
OldDisk == [s \in Sectors |-> <<NoData, s>>]

\* After config_lhd.
LhdInit ==
  /\ req \in [LhdThread -> Requests]
  /\ lhd_pc = [t \in LhdThread |-> "start"]
  /\ done = [t \in LhdThread |-> 0]
  /\ moved = [t \in LhdThread |-> <<>>]
  /\ result = [t \in LhdThread |-> "none"]
  /\ lh_clear = 1 /\ lh_done = 0 /\ lh_result = "none"
  /\ buf = NoData /\ sect = 0 /\ stat = "idle"
  /\ disk = OldDisk
  /\ fate = "none"

LhdGoto(t, label) == lhd_pc' = [lhd_pc EXCEPT ![t] = label]

LhdReturn(t, r) ==
  /\ LhdGoto(t, "returned")
  /\ result' = [result EXCEPT ![t] = r]

\* The checks at the top of lhd_io.
lhd_io(t) ==
  /\ lhd_pc[t] = "start"
  /\ IF ~req[t].aligned \/ req[t].sector + req[t].len > Blocks
     THEN LhdReturn(t, "EINVAL")
     ELSE LhdGoto(t, "loop") /\ UNCHANGED result
  /\ UNCHANGED <<req, done, moved, drv, card>>

LoopEnds(t) ==
  /\ lhd_pc[t] = "loop" /\ done[t] = req[t].len
  /\ LhdReturn(t, "ok")
  /\ UNCHANGED <<req, done, moved, drv, card>>

TakeDevice_NoP(t) ==    \* mutant: does not wait until the device is clear
  /\ lhd_pc[t] = "loop" /\ done[t] < req[t].len
  /\ LhdGoto(t, IF req[t].rw = "write" THEN "fill" ELSE "go")
  /\ UNCHANGED <<req, done, moved, result, drv, card>>

\* P(lh_clear)
TakeDevice(t) ==
  /\ lhd_pc[t] = "loop" /\ done[t] < req[t].len
  /\ lh_clear > 0
  /\ lh_clear' = lh_clear - 1
  /\ LhdGoto(t, IF req[t].rw = "write" THEN "fill" ELSE "go")
  /\ UNCHANGED <<req, done, moved, result, lh_done, lh_result, card>>

\* uiomove to the buffer; it may fail, and the device is given back.
FillBuffer(t) ==
  /\ lhd_pc[t] = "fill"
  /\ \/ buf' = <<t, done[t] + 1>> /\ LhdGoto(t, "go") /\ UNCHANGED <<result, lh_clear>>
     \/ LhdReturn(t, "EFAULT") /\ lh_clear' = lh_clear + 1 /\ UNCHANGED buf
  /\ UNCHANGED <<req, done, moved, lh_done, lh_result, sect, stat, disk, fate>>

\* The sector register, and the status register that starts the operation.
StartOperation(t) ==
  /\ lhd_pc[t] = "go"
  /\ sect' = req[t].sector + done[t]
  /\ stat' = IF req[t].rw = "write" THEN "writing" ELSE "reading"
  /\ LhdGoto(t, "wait")
  /\ UNCHANGED <<req, done, moved, result, drv, buf, disk, fate>>

\* P(lh_done)
AwaitDone(t) ==
  /\ lhd_pc[t] = "wait"
  /\ lh_done > 0
  /\ lh_done' = lh_done - 1
  /\ LhdGoto(t, "finish")
  /\ UNCHANGED <<req, done, moved, result, lh_clear, lh_result, card>>

\* The result word, uiomove from the buffer (which may fail), V(lh_clear).
FinishSector(t) ==
  /\ lhd_pc[t] = "finish"
  /\ \/ /\ lh_result = "ok"
        /\ moved' = IF req[t].rw = "read" THEN [moved EXCEPT ![t] = Append(@, buf)] ELSE moved
        /\ done' = [done EXCEPT ![t] = @ + 1]
        /\ LhdGoto(t, "loop")
        /\ UNCHANGED result
     \/ /\ lh_result # "ok"
        /\ LhdReturn(t, lh_result)
        /\ UNCHANGED <<moved, done>>
     \/ /\ lh_result = "ok" /\ req[t].rw = "read"
        /\ LhdReturn(t, "EFAULT")
        /\ UNCHANGED <<moved, done>>
  /\ lh_clear' = lh_clear + 1
  /\ UNCHANGED <<req, lh_done, lh_result, card>>

\* External: the card carries the operation out, or reports an error.  (It
\* reports INVSECT for a sector past the end, which the check of lhd_io excludes.)
Operate ==
  /\ stat \in {"reading", "writing"}
  /\ sect \in Sectors
  /\ \/ /\ stat' = "OK" /\ fate' = "ok"
        /\ IF stat = "writing"
           THEN disk' = [disk EXCEPT ![sect] = buf] /\ UNCHANGED buf
           ELSE buf' = disk[sect] /\ UNCHANGED disk
     \/ /\ stat' = "MEDIA" /\ fate' = "EIO"
        /\ UNCHANGED <<buf, disk>>
  /\ UNCHANGED <<thr, drv, sect>>

lhd_code_to_errno(code) ==
  CASE code = "OK" -> "ok"
    [] code = "INVSECT" -> "EINVAL"
    [] code = "MEDIA" -> "EIO"

lhd_irq_NoV ==    \* mutant: lhd_iodone leaves out the V
  /\ stat \in {"OK", "INVSECT", "MEDIA"}
  /\ stat' = "idle"
  /\ lh_result' = lhd_code_to_errno(stat)
  /\ UNCHANGED <<thr, lh_clear, lh_done, buf, sect, disk, fate>>

lhd_irq_NoAck ==    \* mutant: the status register is not cleared
  /\ stat \in {"OK", "INVSECT", "MEDIA"}
  /\ lh_done < 3
  /\ lh_result' = lhd_code_to_errno(stat)
  /\ lh_done' = lh_done + 1
  /\ UNCHANGED <<thr, lh_clear, card>>

\* lhd_irq with lhd_iodone.
lhd_irq ==
  /\ stat \in {"OK", "INVSECT", "MEDIA"}
  /\ stat' = "idle"
  /\ lh_result' = lhd_code_to_errno(stat)
  /\ lh_done' = lh_done + 1
  /\ UNCHANGED <<thr, lh_clear, buf, sect, disk, fate>>

LhdStep(t) ==
  \/ lhd_io(t) \/ LoopEnds(t) \/ TakeDevice(t) \/ FillBuffer(t)
  \/ StartOperation(t) \/ AwaitDone(t) \/ FinishSector(t)

LhdNext == Operate \/ lhd_irq \/ \E t \in LhdThread : LhdStep(t)

LhdSpec == LhdInit /\ [][LhdNext]_lhd_vars

\* Threads are scheduled (RunnableRuns in Threads), the card answers, and its
\* interrupt is served.
FairLhdSpec ==
  /\ LhdSpec
  /\ WF_lhd_vars(Operate) /\ WF_lhd_vars(lhd_irq)
  /\ \A t \in LhdThread : WF_lhd_vars(LhdStep(t))
----------------------------------------------------------------------------
(* Type invariant.                                                         *)
LhdTypeOK ==
  /\ req \in [LhdThread -> Requests]
  /\ lhd_pc \in [LhdThread -> {"start", "loop", "fill", "go", "wait", "finish", "returned"}]
  /\ done \in [LhdThread -> Nat]
  /\ result \in [LhdThread -> {"none", "ok", "EINVAL", "EIO", "EFAULT"}]
  /\ lh_clear \in 0..1 /\ lh_done \in 0..1
  /\ lh_result \in {"none", "ok", "EINVAL", "EIO"}
  /\ sect \in Nat
  /\ stat \in {"idle", "reading", "writing", "OK", "INVSECT", "MEDIA"}
  /\ fate \in {"none", "ok", "EINVAL", "EIO"}

Using == {t \in LhdThread : lhd_pc[t] \in {"fill", "go", "wait", "finish"}}

\* The completion that a thread waits for is that of its own operation: it is
\* under way, or finished and not yet served, or counted in lh_done, and in no
\* other case is lh_done raised or the card busy; and the result the thread
\* then reads is not one of an earlier operation.
CompletionIsOwn ==
  /\ (lh_done > 0 \/ stat # "idle") => \E t \in Using : lhd_pc[t] = "wait"
  /\ \A t \in Using : lhd_pc[t] = "wait" => (lh_done > 0) # (stat # "idle")
  /\ \A t \in Using : lhd_pc[t] = "finish" => lh_result = fate

Disk == INSTANCE AtomicDisk WITH Thread <- LhdThread

\* Each sector is transferred atomically, and to and from the right request,
\* although all requests go through one buffer.
ImplementsAtomicDisk == Disk!DSpec

\* Every request has returned, with an error or without.
EveryIOReturned == \A t \in LhdThread : lhd_pc[t] = "returned"
============================================================================
