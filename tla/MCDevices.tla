----------------------------- MODULE MCDevices -----------------------------
(* The device drivers for TLC: the serial port, the disk and the emulated     *)
(* file system.  They share no state but the interrupt line, so that each     *)
(* behaviour is about one of them, the subject.                               *)
EXTENDS MCConsole, Lhd, Emu

VARIABLE subject

\* Reads and writes that overlap, end at the last sector, pass it, are empty
\* or are not aligned.
MCRequests ==
  {[rw |-> "write", aligned |-> TRUE, sector |-> 0, len |-> 2],
   [rw |-> "read", aligned |-> TRUE, sector |-> 0, len |-> 2],
   [rw |-> "write", aligned |-> TRUE, sector |-> 1, len |-> 1],
   [rw |-> "read", aligned |-> TRUE, sector |-> 1, len |-> 2],
   [rw |-> "read", aligned |-> TRUE, sector |-> 2, len |-> 0],
   [rw |-> "write", aligned |-> FALSE, sector |-> 0, len |-> 1]}

dev_vars == <<subject, con_vars, lhd_vars, emu_vars>>

DevInit ==
  /\ subject \in {"console", "lhd", "emu"}
  /\ ConInit
  /\ LhdInit
  /\ subject # "lhd" => \A t \in LhdThread : req[t] = CHOOSE r \in Requests : TRUE
  /\ EmuInit

DevNext ==
  /\ UNCHANGED subject
  /\ \/ subject = "console" /\ ConNext /\ UNCHANGED <<lhd_vars, emu_vars>>
     \/ subject = "lhd" /\ LhdNext /\ UNCHANGED <<con_vars, emu_vars>>
     \/ subject = "emu" /\ EmuNext /\ UNCHANGED <<con_vars, lhd_vars>>

\* What goes on by itself: the code that runs, the cards and the interrupts.
DevFairness ==
  /\ \A t \in ConThread : WF_con_vars(subject = "console" /\ ~panicked /\ ConStep(t))
  /\ WF_con_vars(subject = "console" /\ ~panicked /\ lser_irq)
  /\ WF_con_vars(subject = "console" /\ ~panicked /\ Transmitted)
  /\ \A t \in LhdThread : WF_lhd_vars(subject = "lhd" /\ LhdStep(t))
  /\ WF_lhd_vars(subject = "lhd" /\ Operate)
  /\ WF_lhd_vars(subject = "lhd" /\ lhd_irq)
  /\ \A t \in EmuThread : WF_emu_vars(subject = "emu" /\ EmuRun(t))
  /\ WF_emu_vars(subject = "emu" /\ Card)
  /\ WF_emu_vars(subject = "emu" /\ emu_irq)

DevSpec == DevInit /\ [][DevNext]_dev_vars /\ DevFairness
----------------------------------------------------------------------------
(* What the drivers believe of their cards is so, with handlers, other       *)
(* threads and errors in between: the serial port is busy only with an       *)
(* interrupt to come and its one unit is somewhere, a disk request gets its  *)
(* own completion and result.  (With the type invariants.)                   *)
CardsAgree ==
  /\ ConTypeOK /\ LhdTypeOK /\ EmuTypeOK
  /\ OneUnit /\ BusyMeansInterrupt
  /\ CompletionIsOwn

(* Every call of the drivers that sleeps for an interrupt returns: printing  *)
(* once there is a console, waiting for a key that comes, disk transfers     *)
(* after an error of another request too, and emufs operations.              *)
DriversReturn ==
  /\ \/ subject = "console" /\ the_console
     \/ subject = "lhd" /\ \E t \in LhdThread : lhd_pc[t] # "start"
     \/ subject = "emu" /\ ~EmuReturned
     ~> \/ subject = "console" /\ EverybodyPrinted
        \/ subject = "lhd" /\ EveryIOReturned
        \/ subject = "emu" /\ EmuReturned
  /\ LastKeyDelivered
============================================================================
