----------------------------- MODULE Interrupts -----------------------------
(***************************************************************************)
(* Traps, interrupt levels and interrupt dispatch: arch/mips/mips/spl.c,   *)
(* trap.c, interrupt.c, pcb.c, syscall.c and dev/lamebus/lamebus.c.  The   *)
(* processor's interrupt enable bit and the kernel's record of it, curspl, *)
(* are separate, and change in separate steps, so that interrupts happen   *)
(* between them.  Every thread has a stack of the code it is in: kernel or *)
(* user code, system calls, faults and interrupts.  The timer's interrupt  *)
(* switches threads in the middle of lamebus_interrupt.                    *)
(***************************************************************************)
EXTENDS Naturals, Sequences, Ends

CONSTANTS IThread,        \* threads
          Main,           \* the one that boots and attaches the drivers
          Cards,          \* what is in each slot of the bus
          Drivers,        \* the attach routines, in the order of the configuration
          LB_CONTROLLER_SLOT,
          MaxDuds,        \* 10000 in lamebus_interrupt
          MaxStrays,      \* bound: interrupts that no slot asserts
          NoThread

ASSUME InterruptsAssumption ==
  /\ Main \in IThread /\ NoThread \notin IThread
  /\ Cards \in Seq(STRING) /\ Drivers \in Seq([card : STRING, irq : BOOLEAN])
  /\ LB_CONTROLLER_SLOT \in DOMAIN Cards
  /\ MaxDuds \in Nat /\ MaxStrays \in Nat

VARIABLES
  ie,             \* the processor takes interrupts: CST_IEc
  curspl, in_interrupt,
  curkstack,      \* whose stack the next trap from user mode will use
  curthread,      \* or NoThread, in the idle loop
  onstack,        \* the thread whose stack the processor is on
  stk,            \* the code each thread is in, innermost last
  pcb,            \* saved in_interrupt and curkstack of each thread
  ready, asleep,
  slotsinuse, irqfuncs,   \* the slots that are marked, and that have a handler
  probing,        \* the drivers still to be probed for
  asserting,      \* the slots that assert their interrupt
  strays, duds,
  crash           \* why the kernel has panicked

cpu == <<ie, curspl, in_interrupt>>
sched == <<curkstack, curthread, onstack, pcb, ready, asleep>>
bus == <<slotsinuse, irqfuncs, probing, asserting, strays, duds>>
int_vars == <<cpu, sched, stk, bus, crash>>

Slots == DOMAIN Cards
Frame(f, pc) == [f |-> f, pc |-> pc, ie |-> ie, spl |-> curspl, old_in |-> in_interrupt,
                 slot |-> 0, irqs |-> {}, dud |-> 0]
Base(pc) == [f |-> "kern", pc |-> pc, ie |-> TRUE, spl |-> 0, old_in |-> 0,
             slot |-> 0, irqs |-> {}, dud |-> 0]

Top == Last(stk[onstack])
At(pc) == crash = "no" /\ Top.pc = pc
SetTop(fr) == stk' = [stk EXCEPT ![onstack] = Append(Front(@), fr)]
Goto(pc) == SetTop([Top EXCEPT !.pc = pc])
Push(fr) == stk' = [stk EXCEPT ![onstack] = Append(@, fr)]
Panics(why) == crash' = why /\ UNCHANGED <<cpu, sched, stk, bus>>

\* The drivers' attach routines: the card each looks for, the revisions it
\* accepts (here whether it accepts the card's) and whether it hooks the interrupt.
attach_emu_to_lamebus == [card |-> "emu", irq |-> TRUE]
attach_ltrace_to_lamebus == [card |-> "ltrace", irq |-> FALSE]
attach_ltimer_to_lamebus == [card |-> "ltimer", irq |-> TRUE]
attach_lrandom_to_lamebus == [card |-> "lrandom", irq |-> FALSE]
attach_lhd_to_lamebus == [card |-> "lhd", irq |-> TRUE]
attach_lser_to_lamebus == [card |-> "lser", irq |-> TRUE]

\* machdep_dev_bootstrap: lamebus_init, then spl0 and the probes.
IntInit ==
  /\ ie = FALSE /\ curspl = 1 /\ in_interrupt = 0
  /\ curkstack = Main /\ curthread = Main /\ onstack = Main
  /\ stk = [t \in IThread |-> <<Base("start")>>]
  /\ pcb = [t \in IThread |-> [kstack |-> t, ininterrupt |-> 0]]
  /\ ready = IThread \ {Main} /\ asleep = {}
  /\ slotsinuse = {LB_CONTROLLER_SLOT} /\ irqfuncs = {}
  /\ probing = Drivers
  /\ asserting = {} /\ strays = 0 /\ duds = 0
  /\ crash = "no"
----------------------------------------------------------------------------
(* spl.c                                                                   *)

\* splx, first the status register, then curspl.  The level that is restored
\* is always that of code in which interrupts are on.
splhigh_off == At("run") /\ ie' = FALSE /\ Goto("off") /\ UNCHANGED <<curspl, in_interrupt, sched, bus, crash>>
splhigh_set == At("off") /\ curspl' = 1 /\ Goto("high") /\ UNCHANGED <<ie, in_interrupt, sched, bus, crash>>

splx_on ==
  /\ At("high") \/ At("start") \/ (At("enter") /\ Top.spl = 0)
  /\ ie' = TRUE
  /\ Goto("on")
  /\ UNCHANGED <<curspl, in_interrupt, sched, bus, crash>>

splx_set == At("on") /\ curspl' = 0 /\ Goto("run") /\ UNCHANGED <<ie, in_interrupt, sched, bus, crash>>

\* cpu_idle: on and off again, while the scheduler has nobody to run.
cpu_idle_on ==
  /\ At("idle") /\ ready = {}
  /\ ie' = TRUE
  /\ Goto("idle_on")
  /\ UNCHANGED <<curspl, in_interrupt, sched, bus, crash>>

cpu_idle_off ==
  /\ At("idle_on")
  /\ ie' = FALSE
  /\ Goto("idle")
  /\ UNCHANGED <<curspl, in_interrupt, sched, bus, crash>>
----------------------------------------------------------------------------
(* thread.c and pcb.c: switching, with interrupts off                      *)

md_switch_KeepsInInterrupt(nu) ==    \* mutant: in_interrupt is not saved and restored
  /\ UNCHANGED in_interrupt
  /\ curkstack' = pcb[nu].kstack
  /\ pcb' = IF nu = onstack THEN pcb ELSE [pcb EXCEPT ![onstack].kstack = curkstack]

md_switch(nu) ==
  IF nu = onstack
  THEN UNCHANGED <<in_interrupt, curkstack, pcb>>
  ELSE /\ pcb' = [pcb EXCEPT ![onstack] = [kstack |-> curkstack, ininterrupt |-> in_interrupt]]
       /\ curkstack' = pcb[nu].kstack
       /\ in_interrupt' = pcb[nu].ininterrupt

\* switch.S: the registers are saved on the old stack, restored from the new.
mips_switch(nu) == onstack' = nu

\* The end of mi_switch: the scheduler's choice runs.
RunNext(able) ==
  \E nu \in able :
    /\ ready' = able \ {nu}
    /\ curthread' = nu /\ mips_switch(nu)
    /\ md_switch(nu)

\* mi_switch with the state the thread goes to; back is where it will go on.
\* In the idle loop it returns at once.
mi_switch(ready2, asleep2, back) ==
  IF curthread = NoThread
  THEN Goto(back) /\ UNCHANGED <<curkstack, curthread, onstack, pcb, in_interrupt>>
       /\ ready' = ready /\ asleep' = asleep
  ELSE /\ asleep' = asleep2
       /\ IF ready2 # {}
          THEN Goto(back) /\ RunNext(ready2)
          ELSE Goto("idle") /\ ready' = {} /\ curthread' = NoThread
               /\ UNCHANGED <<curkstack, onstack, pcb, in_interrupt>>

\* thread_sleep, by code that has raised the level.
thread_sleep ==
  /\ At("high") /\ Top.f \in {"kern", "sys"} /\ probing = <<>>
  /\ mi_switch(ready, asleep \cup {curthread}, "high")
  /\ UNCHANGED <<ie, curspl, bus, crash>>

\* The scheduler finds somebody after idling; the thread that idled goes on
\* where it called mi_switch.
scheduler ==
  /\ At("idle") /\ ready # {}
  /\ Goto("high")
  /\ RunNext(ready)
  /\ UNCHANGED <<ie, curspl, asleep, bus, crash>>

Wakeup == ready' = ready \cup asleep /\ asleep' = {}
----------------------------------------------------------------------------
(* trap.c and syscall.c                                                    *)

\* exception.S: the processor has turned interrupts off and saved the enable bit,
\* which the frame on the stack keeps; the return restores it from there.
common_exception(f, pc) == Push(Frame(f, pc)) /\ ie' = FALSE
exception_return == ie' = Top.ie /\ stk' = [stk EXCEPT ![onstack] = Front(@)]

\* The beginning of mips_trap: it saves curspl, in the frame here, and raises it.
Trap(f, pc) == common_exception(f, pc) /\ curspl' = 1

\* A system call from user mode, or a fault on a user address in user mode or
\* in copyin and copyout.  "enter" is the splx(savespl).
TrapSys == At("run") /\ Top.f = "user" /\ Trap("sys", "enter") /\ UNCHANGED <<in_interrupt, sched, bus, crash>>
TrapFault == At("run") /\ Top.f \in {"user", "sys"} /\ Trap("fault", "enter") /\ UNCHANGED <<in_interrupt, sched, bus, crash>>

mips_trap_done_KeepsSpl ==    \* mutant: curspl is left high
  /\ exception_return
  /\ curspl' = 1
  /\ crash' = IF curkstack = onstack THEN "no" ELSE "stack"

\* done: interrupts off, curspl of the old context, the check of the stack, and
\* the return from the exception.
mips_trap_done ==
  /\ exception_return
  /\ curspl' = Top.spl
  /\ crash' = IF curkstack = onstack THEN "no" ELSE "stack"

\* mips_syscall, with its assertions; or vm_fault was successful, or failed and
\* the faulting code continues in copyfail.
mips_trap ==
  /\ At("run") /\ Top.f \in {"sys", "fault"}
  /\ IF Top.f = "sys" /\ curspl # 0
     THEN Panics("spl")
     ELSE mips_trap_done /\ UNCHANGED <<in_interrupt, sched, bus>>

\* vm_fault without an address space returns from its splhigh section.
vm_fault_NoSpace ==
  /\ At("high") /\ Top.f = "fault"
  /\ mips_trap_done
  /\ UNCHANGED <<in_interrupt, sched, bus>>

\* A fault in user mode that cannot be resolved.
kill_curthread ==
  /\ At("run") /\ Top.f = "fault" /\ stk[onstack][Len(stk[onstack]) - 1].f = "user"
  /\ Panics("fatal")

\* mips_usermode: splhigh, curspl to 0, and the exception return.
mips_usermode ==
  /\ At("run") /\ Top.f = "kern" /\ onstack # Main
  /\ ie' = TRUE /\ curspl' = 0
  /\ SetTop([Top EXCEPT !.f = "user"])
  /\ UNCHANGED <<in_interrupt, sched, bus, crash>>
----------------------------------------------------------------------------
(* interrupt.c and lamebus.c                                               *)

\* The interrupt line: a slot asserts it, or (stray) none does.
mips_interrupt ==
  /\ crash = "no" /\ ie
  /\ \/ asserting # {} /\ UNCHANGED strays
     \/ asserting = {} /\ strays < MaxStrays /\ strays' = strays + 1
  /\ Trap("irq", "bus")
  /\ in_interrupt' = 1
  /\ UNCHANGED <<sched, slotsinuse, irqfuncs, probing, asserting, duds, crash>>

\* lamebus_interrupt reads the pending interrupts; with none, it returns.
lamebus_interrupt ==
  /\ At("bus")
  /\ IF asserting = {}
     THEN duds' = duds + 1 /\ Goto("out")
     ELSE SetTop([Top EXCEPT !.pc = "loop", !.irqs = asserting, !.slot = 1]) /\ UNCHANGED duds
  /\ UNCHANGED <<cpu, sched, slotsinuse, irqfuncs, probing, asserting, strays, crash>>

Pending_FirstOnly ==    \* mutant: one slot in each interrupt
  {s \in Top.irqs : s >= Top.slot /\ \A r \in Top.irqs : s <= r}

Pending == {s \in Top.irqs : s >= Top.slot}
NextSlot == CHOOSE s \in Pending : \A r \in Pending : s <= r

\* A slot without a driver or without a handler.
DudSlot ==
  /\ At("loop") /\ Pending # {} /\ NextSlot \notin slotsinuse \cap irqfuncs
  /\ duds' = duds + 1
  /\ SetTop([Top EXCEPT !.dud = @ + 1, !.slot = NextSlot + 1])
  /\ UNCHANGED <<cpu, sched, slotsinuse, irqfuncs, probing, asserting, strays, crash>>

\* A driver's handler: it quiets its card.  The timer's calls hardclock, which
\* yields; the others wake threads.
CallHandler ==
  /\ At("loop") /\ Pending # {} /\ NextSlot \in slotsinuse \cap irqfuncs
  /\ asserting' = asserting \ {NextSlot}
  /\ IF Cards[NextSlot] = "ltimer"
     THEN mi_switch(ready \cup {curthread}, asleep, "reload")
     ELSE Wakeup /\ Goto("reload") /\ UNCHANGED <<in_interrupt, curkstack, curthread, onstack, pcb>>
  /\ UNCHANGED <<ie, curspl, slotsinuse, irqfuncs, probing, strays, duds, crash>>

\* "if we just called hardclock, it might have changed under us"
ReloadIrqs ==
  /\ At("reload")
  /\ SetTop([Top EXCEPT !.pc = "loop", !.irqs = asserting, !.slot = NextSlot + 1])
  /\ UNCHANGED <<cpu, sched, bus, crash>>

\* The end of lamebus_interrupt.
CheckDuds ==
  /\ At("loop") /\ Pending = {}
  /\ duds' = IF Top.dud = 0 THEN 0 ELSE duds
  /\ IF duds' > MaxDuds
     THEN crash' = "duds" /\ UNCHANGED stk
     ELSE Goto("out") /\ UNCHANGED crash
  /\ UNCHANGED <<cpu, sched, slotsinuse, irqfuncs, probing, asserting, strays>>

\* The end of mips_interrupt and of mips_trap.
InterruptReturns ==
  /\ At("out")
  /\ in_interrupt' = Top.old_in
  /\ mips_trap_done
  /\ UNCHANGED <<sched, bus>>

\* External: a card asserts its interrupt.
CardAsserts ==
  /\ crash = "no"
  /\ \E s \in {x \in Slots : Cards[x] \notin {"none", "controller"}} \ asserting : asserting' = asserting \cup {s}
  /\ UNCHANGED <<cpu, sched, stk, slotsinuse, irqfuncs, probing, strays, duds, crash>>

\* lamebus_probe: unmarked slots with the card.
lamebus_probe(card) == {s \in Slots \ slotsinuse : Cards[s] = card}

\* An attach routine up to lamebus_mark, on the first such slot; if there is
\* none, or no memory, the next driver's turn comes.
lamebus_mark ==
  /\ At("run") /\ onstack = Main /\ Top.f = "kern" /\ probing # <<>>
  /\ Head(probing).irq => \A s \in slotsinuse \ irqfuncs : Cards[s] # Head(probing).card
  /\ \/ \E s \in lamebus_probe(Head(probing).card) :
          /\ \A r \in lamebus_probe(Head(probing).card) : s <= r
          /\ slotsinuse' = slotsinuse \cup {s}
          /\ UNCHANGED probing
     \/ probing' = Tail(probing) /\ UNCHANGED slotsinuse
  /\ UNCHANGED <<cpu, sched, stk, irqfuncs, asserting, strays, duds, crash>>

\* The rest of the attach routine of a driver with a handler.
lamebus_attach_interrupt ==
  /\ At("run") /\ onstack = Main /\ Top.f = "kern" /\ probing # <<>> /\ Head(probing).irq
  /\ \E s \in slotsinuse \ irqfuncs :
       /\ Cards[s] = Head(probing).card
       /\ irqfuncs' = irqfuncs \cup {s}
  /\ UNCHANGED <<cpu, sched, stk, slotsinuse, probing, asserting, strays, duds, crash>>

Instruction ==
  \/ splhigh_off \/ splhigh_set \/ splx_on \/ splx_set \/ cpu_idle_on \/ cpu_idle_off
  \/ thread_sleep \/ scheduler \/ TrapSys \/ TrapFault \/ mips_trap \/ vm_fault_NoSpace
  \/ kill_curthread \/ mips_usermode \/ lamebus_interrupt \/ DudSlot \/ CallHandler
  \/ ReloadIrqs \/ CheckDuds \/ InterruptReturns \/ lamebus_mark \/ lamebus_attach_interrupt

IntNext == Instruction \/ mips_interrupt \/ CardAsserts

\* The processor executes instructions, and takes an interrupt that is pending
\* whenever it is enabled.
IntFairness == WF_int_vars(Instruction) /\ SF_int_vars(mips_interrupt)

IntSpec == IntInit /\ [][IntNext]_int_vars
----------------------------------------------------------------------------
(* Type invariant.                                                         *)
IntTypeOK ==
  /\ ie \in BOOLEAN /\ curspl \in 0..1 /\ in_interrupt \in 0..1
  /\ curkstack \in IThread /\ onstack \in IThread /\ curthread \in IThread \cup {NoThread}
  /\ \A t \in IThread : stk[t] # <<>>
  /\ ready \subseteq IThread /\ asleep \subseteq IThread
  /\ slotsinuse \subseteq Slots /\ irqfuncs \subseteq slotsinuse /\ asserting \subseteq Slots
  /\ duds \in Nat /\ strays \in 0..MaxStrays
  /\ crash \in {"no", "spl", "stack", "fatal", "duds"}

InHandler == Top.f = "irq"

\* What the comments of spl.c and mips_trap argue: whatever interrupts, faults
\* and switches come in between, code that runs at level 0 has interrupts on and
\* code that has raised the level has them off; curspl is 0 only there, and
\* in_interrupt is set in handlers and nowhere else; the kernel stack for the
\* next trap is the current thread's; no assertion about the level or the stack
\* fails.
LevelsTrue ==
  /\ IntTypeOK
  /\ crash \notin {"spl", "stack"}
  /\ crash = "no" =>
       /\ Top.pc = "run" => ie /\ curspl = 0
       /\ Top.pc \in {"high", "idle", "enter", "start"} => ~ie /\ curspl = 1
       /\ InHandler => ~ie /\ curspl = 1 /\ in_interrupt = 1
       /\ ~InHandler => in_interrupt = 0
       /\ curkstack = onstack

\* A card with a handler is served, also when the pass over the slots that
\* would serve it is switched away from in the middle.
InterruptServed ==
  \A s \in Slots \ {LB_CONTROLLER_SLOT} : (s \in irqfuncs \cap asserting) ~> (s \notin asserting \/ crash # "no")

\* "it's better to panic and hopefully reset the system than to loop forever":
\* with more than the allowed number of dud interrupts, lamebus_interrupt does
\* not return.
TooManyDudsPanic ==
  (crash = "no" /\ \A t \in IThread : \A i \in DOMAIN stk[t] : stk[t][i].f # "irq") => duds <= MaxDuds
============================================================================
