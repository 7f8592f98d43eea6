------------------------------ MODULE Console ------------------------------
(***************************************************************************)
(* The system console: kern/dev/generic/console.c on the serial port       *)
(* driver kern/dev/lamebus/lser.c, with its users: the boot thread, user   *)
(* reads and writes through con_io, and kprintf.                           *)
(*                                                                         *)
(* P, V and the locks are the atomic operations that thread/synch.c        *)
(* implements (SynchRefinesAtomic in SynchProofs).  Interrupts are taken   *)
(* between any two actions; what runs at splhigh is one action.            *)
(***************************************************************************)
EXTENDS Naturals, Sequences, FiniteSets

CONSTANTS Writer,     \* threads in con_io with UIO_WRITE
          Reader,     \* threads in con_io with UIO_READ
          Printer,    \* threads in kprintf with interrupts on
          Boot,       \* the boot thread, printing before there is a console
          Handler,    \* printing in an interrupt handler or at splhigh
          Text,       \* what each of Writer, Printer and Boot prints
          Want,       \* uio_resid of a read
          Keys,       \* what is typed, in order
          MaxPolled,  \* bound on the characters that Handler prints
          DELAYBUFSIZE,
          NULL

Outputter == Writer \cup Printer \cup {Boot}
ConThread == Outputter \cup Reader

ASSUME ConsoleAssumption ==
  /\ Boot \notin Writer \cup Printer /\ Reader \cap Outputter = {}
  /\ Writer \cap Printer = {} /\ Handler \notin ConThread /\ NULL \notin ConThread
  /\ Text \in [Outputter -> Seq({"a", "\n"})]
  /\ Len(Text[Boot]) <= DELAYBUFSIZE
  /\ \A t \in Printer : Text[t] # <<>>
  /\ Keys \in Seq({"a", "\r"})
  /\ Want \in Nat \ {0} /\ MaxPolled \in Nat /\ DELAYBUFSIZE \in Nat

VARIABLES
  con_pc,
  todo,        \* what each outputter has not begun to put
  pending,     \* the characters of the putch calls it is making now
  the_console, delayed_outbuf,
  cs_wsem, cs_rsem, cs_gotchar,      \* a key is known by its place in Keys
  con_userlock_read, con_userlock_write, kprintf_lock,
  ls_wbusy,
  sending, wirq, rchar, rirq,        \* the card: in transmission, registers
  wire,        \* what has left the card
  handed,      \* history: what the drivers wrote to the character register
  typed,       \* keys typed so far
  delivered,   \* history: keys that readers got, in order
  resid, polled, panicked

thrvars == <<con_pc, todo, pending, resid>>
locks == <<con_userlock_read, con_userlock_write, kprintf_lock>>
sems == <<cs_wsem, cs_rsem, cs_gotchar>>
output == <<sending, wirq, wire, handed>>
input == <<rchar, rirq, typed, delivered>>
boot == <<the_console, delayed_outbuf>>
others == <<polled, panicked>>
con_vars == <<thrvars, locks, sems, output, input, boot, others, ls_wbusy>>

\* The state after config_lser, and config_con's semaphores and locks.
ConInit ==
  /\ con_pc = [t \in ConThread |-> IF t = Boot THEN "early" ELSE "start"]
  /\ todo = Text
  /\ pending = [t \in Outputter |-> <<>>]
  /\ resid = [t \in Reader |-> Want]
  /\ the_console = FALSE /\ delayed_outbuf = <<>>
  /\ cs_wsem = 1 /\ cs_rsem = 0 /\ cs_gotchar = 0
  /\ con_userlock_read = NULL /\ con_userlock_write = NULL /\ kprintf_lock = NULL
  /\ ls_wbusy = FALSE
  /\ sending = <<>> /\ wirq = FALSE /\ wire = <<>> /\ handed = <<>>
  /\ rchar = 0 /\ rirq = FALSE /\ typed = 0 /\ delivered = <<>>
  /\ polled = 0 /\ panicked = FALSE

ConGoto(t, label) == con_pc' = [con_pc EXCEPT ![t] = label]
----------------------------------------------------------------------------
(* Before there is a console                                               *)

\* The assert on delayed_outbuf_pos is the guard.
putch_delayed(t) ==
  /\ t = Boot /\ con_pc[t] = "early" /\ todo[t] # <<>>
  /\ Len(delayed_outbuf) < DELAYBUFSIZE
  /\ delayed_outbuf' = Append(delayed_outbuf, Head(todo[t]))
  /\ todo' = [todo EXCEPT ![t] = Tail(@)]
  /\ UNCHANGED <<con_pc, pending, resid, the_console, locks, sems, output, input, others,
                 ls_wbusy>>

config_con_NoFlush(t) ==    \* mutant: the early output is dropped
  /\ t = Boot /\ con_pc[t] = "early" /\ todo[t] = <<>>
  /\ the_console' = TRUE
  /\ delayed_outbuf' = <<>>
  /\ ConGoto(t, "done")
  /\ UNCHANGED <<todo, pending, resid, locks, sems, output, input, others, ls_wbusy>>

\* flush_delay_buf puts the buffer's characters one after the other.
config_con(t) ==
  /\ t = Boot /\ con_pc[t] = "early" /\ todo[t] = <<>>
  /\ the_console' = TRUE
  /\ pending' = [pending EXCEPT ![t] = delayed_outbuf]
  /\ delayed_outbuf' = <<>>
  /\ ConGoto(t, IF delayed_outbuf = <<>> THEN "done" ELSE "put")
  /\ UNCHANGED <<todo, resid, locks, sems, output, input, others, ls_wbusy>>

Up == con_pc[Boot] = "done"
----------------------------------------------------------------------------
(* Output                                                                  *)

\* kprintf takes its lock, and console_send puts every character.
kprintf(t) ==
  /\ t \in Printer /\ Up /\ con_pc[t] = "start"
  /\ kprintf_lock = NULL
  /\ kprintf_lock' = t
  /\ pending' = [pending EXCEPT ![t] = todo[t]]
  /\ todo' = [todo EXCEPT ![t] = <<>>]
  /\ ConGoto(t, "put")
  /\ UNCHANGED <<resid, con_userlock_read, con_userlock_write, sems, output, input, boot,
                 others, ls_wbusy>>

kprintf_return(t) ==
  /\ t \in Printer /\ con_pc[t] = "printed"
  /\ kprintf_lock' = NULL
  /\ ConGoto(t, "done")
  /\ UNCHANGED <<todo, pending, resid, con_userlock_read, con_userlock_write, sems, output,
                 input, boot, others, ls_wbusy>>

con_io_write_NoLock(t) ==    \* mutant: user writes are not serialised
  /\ t \in Writer /\ Up /\ con_pc[t] = "start"
  /\ ConGoto(t, "char")
  /\ UNCHANGED <<todo, pending, resid, locks, sems, output, input, boot, others, ls_wbusy>>

con_io_write(t) ==
  /\ t \in Writer /\ Up /\ con_pc[t] = "start"
  /\ con_userlock_write = NULL
  /\ con_userlock_write' = t
  /\ ConGoto(t, "char")
  /\ UNCHANGED <<todo, pending, resid, con_userlock_read, kprintf_lock, sems, output, input,
                 boot, others, ls_wbusy>>

Translated(c) == IF c = "\n" THEN <<"\r", "\n">> ELSE <<c>>

\* One turn of con_io's loop: uiomove gets a character from the user.
con_io_char(t) ==
  /\ t \in Writer /\ con_pc[t] = "char" /\ todo[t] # <<>>
  /\ pending' = [pending EXCEPT ![t] = Translated(Head(todo[t]))]
  /\ todo' = [todo EXCEPT ![t] = Tail(@)]
  /\ ConGoto(t, "put")
  /\ UNCHANGED <<resid, locks, sems, output, input, boot, others, ls_wbusy>>

\* uio_resid is 0, or uiomove failed.
con_io_written(t) ==
  /\ t \in Writer /\ con_pc[t] = "char"
  /\ con_userlock_write' = NULL
  /\ ConGoto(t, IF todo[t] = <<>> THEN "done" ELSE "failed")
  /\ UNCHANGED <<todo, pending, resid, con_userlock_read, kprintf_lock, sems, output, input,
                 boot, others, ls_wbusy>>

\* putch_intr: P(cs_wsem), and then cs_send.
putch_intr(t) ==
  /\ t \in Outputter /\ con_pc[t] = "put"
  /\ cs_wsem > 0
  /\ cs_wsem' = cs_wsem - 1
  /\ ConGoto(t, "send")
  /\ UNCHANGED <<todo, pending, resid, locks, cs_rsem, cs_gotchar, output, input, boot,
                 others, ls_wbusy>>

\* The card loses what it is sending when another character is written.
CharRegister(t, c) ==
  /\ sending' = <<<<t, c>>>>
  /\ handed' = Append(handed, <<t, c>>)

AfterPut(t) ==
  IF Len(pending[t]) > 1 THEN "put"
  ELSE IF t \in Writer THEN "char"
  ELSE IF t \in Printer THEN "printed"
  ELSE "done"

lser_write(t) ==
  /\ t \in Outputter /\ con_pc[t] = "send"
  /\ IF ls_wbusy
     THEN panicked' = TRUE /\ UNCHANGED <<thrvars, ls_wbusy, sending, handed>>
     ELSE /\ ls_wbusy' = TRUE
          /\ CharRegister(t, Head(pending[t]))
          /\ pending' = [pending EXCEPT ![t] = Tail(@)]
          /\ ConGoto(t, AfterPut(t))
          /\ UNCHANGED <<todo, resid, panicked>>
  /\ UNCHANGED <<locks, sems, wirq, wire, input, boot, polled>>

lser_writepolled_ClearsIrq ==    \* mutant: swallows the pending interrupt
  /\ the_console /\ polled < MaxPolled
  /\ polled' = polled + 1
  /\ wire' = wire \o sending \o <<<<Handler, "p">>>>
  /\ handed' = Append(handed, <<Handler, "p">>)
  /\ sending' = <<>>
  /\ wirq' = FALSE
  /\ UNCHANGED <<thrvars, locks, sems, input, boot, panicked, ls_wbusy>>

\* The card sends what it was given before, then this, while we spin.  Its
\* ready condition is left set only if an interrupt was due already.
lser_writepolled ==
  /\ the_console /\ polled < MaxPolled
  /\ polled' = polled + 1
  /\ wire' = wire \o sending \o <<<<Handler, "p">>>>
  /\ handed' = Append(handed, <<Handler, "p">>)
  /\ sending' = <<>>
  /\ wirq' = ls_wbusy
  /\ UNCHANGED <<thrvars, locks, sems, input, boot, panicked, ls_wbusy>>
----------------------------------------------------------------------------
(* Input                                                                   *)

con_io_read(t) ==
  /\ t \in Reader /\ Up /\ con_pc[t] = "start"
  /\ con_userlock_read = NULL
  /\ con_userlock_read' = t
  /\ ConGoto(t, "get")
  /\ UNCHANGED <<todo, pending, resid, con_userlock_write, kprintf_lock, sems, output, input,
                 boot, others, ls_wbusy>>

\* getch_intr: P(cs_rsem), and then a read of cs_gotchar.
getch_intr(t) ==
  /\ t \in Reader /\ con_pc[t] = "get"
  /\ cs_rsem > 0
  /\ cs_rsem' = cs_rsem - 1
  /\ ConGoto(t, "got")
  /\ UNCHANGED <<todo, pending, resid, locks, cs_wsem, cs_gotchar, output, input, boot,
                 others, ls_wbusy>>

\* A carriage return is handed on as a newline, which ends the read, as a
\* failing uiomove does.
GotChar(t) ==
  /\ t \in Reader /\ con_pc[t] = "got"
  /\ \/ /\ delivered' = Append(delivered, cs_gotchar)
        /\ resid' = [resid EXCEPT ![t] = @ - 1]
        /\ IF resid[t] = 1 \/ Keys[cs_gotchar] = "\r"
           THEN ConGoto(t, "done") /\ con_userlock_read' = NULL
           ELSE ConGoto(t, "get") /\ UNCHANGED con_userlock_read
     \/ /\ ConGoto(t, "failed") /\ con_userlock_read' = NULL
        /\ UNCHANGED <<delivered, resid>>
  /\ UNCHANGED <<todo, pending, con_userlock_write, kprintf_lock, sems, output, rchar, rirq,
                 typed, boot, others, ls_wbusy>>
----------------------------------------------------------------------------
(* The interrupt handler, and the card                                     *)

lser_irq_NoInput ==    \* mutant: con_input leaves out the V
  /\ wirq \/ rirq
  /\ wirq' = FALSE /\ rirq' = FALSE
  /\ ls_wbusy' = (ls_wbusy /\ ~wirq)
  /\ cs_wsem' = IF wirq THEN cs_wsem + 1 ELSE cs_wsem
  /\ cs_gotchar' = IF rirq THEN rchar ELSE cs_gotchar
  /\ UNCHANGED <<thrvars, locks, cs_rsem, sending, wire, handed, rchar, typed, delivered, boot,
                 others>>

\* What the handler calls when it finds the card has sent, or has received.
con_start(done) == cs_wsem' = IF done THEN cs_wsem + 1 ELSE cs_wsem
con_input(come, ch) ==
  IF come THEN cs_gotchar' = ch /\ cs_rsem' = cs_rsem + 1 ELSE UNCHANGED <<cs_gotchar, cs_rsem>>

lser_irq ==
  /\ wirq \/ rirq
  /\ wirq' = FALSE /\ rirq' = FALSE
  /\ ls_wbusy' = (ls_wbusy /\ ~wirq)
  /\ con_start(wirq) /\ con_input(rirq, rchar)
  /\ UNCHANGED <<thrvars, locks, sending, wire, handed, rchar, typed, delivered, boot, others>>

\* External: the card finishes sending.
Transmitted ==
  /\ sending # <<>>
  /\ wire' = wire \o sending
  /\ sending' = <<>>
  /\ wirq' = TRUE
  /\ UNCHANGED <<thrvars, locks, sems, handed, input, boot, others, ls_wbusy>>

\* External: a key is struck; the card has one receive register.
Struck ==
  /\ the_console /\ typed < Len(Keys)
  /\ typed' = typed + 1
  /\ rchar' = typed + 1
  /\ rirq' = TRUE
  /\ UNCHANGED <<thrvars, locks, sems, output, delivered, boot, others, ls_wbusy>>
----------------------------------------------------------------------------
ConStep(t) ==
  \/ putch_delayed(t) \/ config_con(t)
  \/ kprintf(t) \/ kprintf_return(t)
  \/ con_io_write(t) \/ con_io_char(t) \/ con_io_written(t)
  \/ putch_intr(t) \/ lser_write(t)
  \/ con_io_read(t) \/ getch_intr(t) \/ GotChar(t)

ConNext ==
  /\ ~panicked
  /\ \/ \E t \in ConThread : ConStep(t)
     \/ lser_writepolled
     \/ lser_irq
     \/ Transmitted
     \/ Struck

ConSpec == ConInit /\ [][ConNext]_con_vars

\* The scheduler runs every thread (RunnableRuns in Threads), the card
\* answers, and its interrupt line stays raised until it is served.
ConFairness ==
  /\ \A t \in ConThread : WF_con_vars(ConStep(t))
  /\ WF_con_vars(lser_irq)
  /\ WF_con_vars(Transmitted)

FairConSpec == ConSpec /\ ConFairness
----------------------------------------------------------------------------
(* Type invariant.                                                         *)
ConTypeOK ==
  /\ con_pc \in [ConThread -> {"early", "start", "char", "put", "send", "printed", "get", "got",
                        "done", "failed"}]
  /\ todo \in [Outputter -> Seq({"a", "\n"})]
  /\ pending \in [Outputter -> Seq({"a", "\n", "\r"})]
  /\ resid \in [Reader -> 0..Want]
  /\ the_console \in BOOLEAN
  /\ delayed_outbuf \in Seq({"a", "\n"})
  /\ cs_wsem \in 0..1
  /\ cs_rsem \in 0..Len(Keys)
  /\ cs_gotchar \in 0..Len(Keys)
  /\ con_userlock_read \in Reader \cup {NULL}
  /\ con_userlock_write \in Writer \cup {NULL}
  /\ kprintf_lock \in Printer \cup {NULL}
  /\ ls_wbusy \in BOOLEAN /\ wirq \in BOOLEAN /\ rirq \in BOOLEAN
  /\ Len(sending) \in 0..1
  /\ rchar \in 0..Len(Keys) /\ typed \in 0..Len(Keys)
  /\ polled \in 0..MaxPolled
  /\ panicked \in BOOLEAN

Sending == {t \in Outputter : con_pc[t] = "send"}

\* "It's the job of the driver attached to us to not write until we call
\* ls_start" (lser.c): the semaphore's one unit is in the semaphore, with a
\* thread about to send, or with the card, so lser_write never panics, with
\* any number of threads printing and handlers printing in between.
OneUnit ==
  /\ cs_wsem + Cardinality(Sending) + (IF ls_wbusy THEN 1 ELSE 0) = 1
  /\ ~panicked

\* A character is written to the card only when the one before has left it:
\* nothing is lost between the interrupt-driven and the polled output.
NothingOverwritten == wire \o sending = handed

\* While the card is busy for a thread an interrupt is certain to come, so
\* the unit of cs_wsem comes back, polled output or not.
BusyMeansInterrupt == ls_wbusy <=> (sending # <<>> \/ wirq)

\* The characters of t among those of w.
From(t, w) ==
  LET from[n \in 0..Len(w)] ==
        IF n = 0 THEN <<>>
        ELSE IF w[n][1] = t THEN Append(from[n - 1], w[n][2]) ELSE from[n - 1]
  IN  from[Len(w)]

Expansion(s) ==
  LET put[n \in 0..Len(s)] ==
        IF n = 0 THEN <<>>
        ELSE put[n - 1] \o (IF s[n] = "\n" THEN <<"\r", "\n">> ELSE <<s[n]>>)
  IN  put[Len(s)]

\* A call that has returned has put all of its characters on the wire, in
\* order, each newline of a user's write preceded by a carriage return, and
\* what was printed before there was a console comes out when there is one.
PrintedInFull ==
  \A t \in Outputter :
    con_pc[t] = "done" =>
      From(t, wire \o sending) = IF t \in Writer THEN Expansion(Text[t]) ELSE Text[t]

\* "Lock so user I/Os are atomic" (console.c): on the wire no user's write has
\* another user's inside it.
WritesAtomic ==
  LET w == wire \o sending
  IN  \A i, j, k \in 1..Len(w) :
        i < j /\ j < k /\ w[i][1] = w[k][1] /\ w[i][1] \in Writer /\ w[j][1] \in Writer
          => w[j][1] = w[i][1]

\* What is printed comes out once, in full and in order, with polled and
\* interrupt-driven output mixed, and no user's write inside another's.
OutputExact == NothingOverwritten /\ PrintedInFull /\ WritesAtomic

\* Every write and every kprintf has returned.
EverybodyPrinted == \A t \in Outputter : con_pc[t] \in {"done", "failed"}

\* However fast the keys come, the last one is not lost: a reader that is
\* still waiting after it gets it.
LastKeyDelivered ==
  (Keys # <<>> /\ typed = Len(Keys))
    ~> \/ \A t \in Reader : con_pc[t] \in {"done", "failed"}
       \/ delivered # <<>> /\ delivered[Len(delivered)] = Len(Keys)
============================================================================
