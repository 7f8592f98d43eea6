---------------------------- MODULE KernelProofs ----------------------------
(***************************************************************************)
(* Proofs about single parts of the kernel: whatever interrupts, faults    *)
(* and switches come in between, the level the kernel records is the       *)
(* processor's; lhd.c transfers every sector atomically, for the request   *)
(* it belongs to; a panic goes on alone; and every name of a device or a   *)
(* volume leads to what has it.                                            *)
(***************************************************************************)
EXTENDS Interrupts, Lhd, Shutdown, DevTable, Integers, TLAPS

----------------------------------------------------------------------------
(* The stacks of trap frames.                                              *)

HandlerPcs == {"bus", "loop", "reload", "out"}
CodePcs == {"start", "run", "off", "high", "on", "enter", "idle", "idle_on"}

\* A frame has these fields and no others.
IsFrame(fr) ==
  fr = [f |-> fr.f, pc |-> fr.pc, ie |-> fr.ie, spl |-> fr.spl, old_in |-> fr.old_in,
        slot |-> fr.slot, irqs |-> fr.irqs, dud |-> fr.dud]

FrameOK(fr) ==
  /\ IsFrame(fr)
  /\ \/ fr.f = "irq" /\ fr.pc \in HandlerPcs
     \/ fr.f \in {"kern", "user", "sys", "fault"} /\ fr.pc \in CodePcs

\* What an exception saved, on top of the code it came from: interrupts were on
\* and no handler was running; curspl was 0, or the code was an splx or an idle
\* loop that had turned interrupts on while curspl was still 1.
Saved(below, fr) ==
  /\ fr.f \in {"sys", "fault", "irq"} /\ fr.ie = TRUE /\ fr.old_in = 0
  /\ \/ below.pc = "run" /\ fr.spl = 0
     \/ below.pc \in {"on", "idle_on"} /\ fr.f = "irq" /\ fr.spl = 1
  /\ below.f # "irq"

Items(s) == {s[i] : i \in 1..Len(s)}

StackOK(s) ==
  /\ s \in Seq(Items(s)) /\ s # <<>>
  /\ \A i \in 1..Len(s) : FrameOK(s[i])
  /\ s[1].f \in {"kern", "user"}
  /\ \A i \in 1..(Len(s) - 1) : Saved(s[i], s[i + 1])

\* The processor and the kernel's record of it, by where the running code is.
CpuOK(top) ==
  /\ top.pc \in {"run", "on", "idle_on"} => ie = TRUE
  /\ top.pc \notin {"run", "on", "idle_on"} => ie = FALSE
  /\ curspl = IF top.pc \in {"run", "off"} THEN 0 ELSE 1
  /\ in_interrupt = IF top.f = "irq" THEN 1 ELSE 0

\* A thread that does not run was switched away from, with interrupts off.
SwitchedAway(t) ==
  /\ Last(stk[t]).pc \in {"start", "high", "reload"}
  /\ pcb[t] = [kstack |-> t, ininterrupt |-> IF Last(stk[t]).f = "irq" THEN 1 ELSE 0]

ThreadsOK ==
  /\ stk = [t \in IThread |-> stk[t]] /\ pcb = [t \in IThread |-> pcb[t]]
  /\ \A t \in IThread : StackOK(stk[t])
  /\ CpuOK(Top)
  /\ curkstack = onstack
  /\ curthread # NoThread => curthread = onstack
  /\ \A t \in IThread \ {onstack} : SwitchedAway(t)

RestOK ==
  /\ onstack \in IThread /\ curthread \in IThread \cup {NoThread}
  /\ ready \subseteq IThread /\ asleep \subseteq IThread
  /\ slotsinuse \subseteq Slots /\ irqfuncs \subseteq slotsinuse /\ asserting \subseteq Slots
  /\ duds \in Nat /\ strays \in 0..MaxStrays
  /\ crash \in {"no", "fatal", "duds"}

\* The inductive invariant behind LevelsTrue.
IntInv == RestOK /\ ThreadsOK
----------------------------------------------------------------------------
(* Stacks                                                                  *)

\* A stack is a list of its frames, and of any set that has them.
LEMMA SeqOfItems ==
  ASSUME NEW R, NEW s \in Seq(R)
  PROVE  s \in Seq(Items(s))
<1>1. Len(s) \in Nat /\ s = [i \in 1..Len(s) |-> s[i]]
  OBVIOUS
<1>2. \A i \in 1..Len(s) : s[i] \in Items(s)
  BY Zenon DEF Items
<1> QED
  BY <1>1, <1>2

\* A stack of frames of one kind is one of any wider kind.
LEMMA SeqGrows ==
  ASSUME NEW S, NEW T, S \subseteq T, NEW s \in Seq(S)
  PROVE  s \in Seq(T)
<1>1. Len(s) \in Nat /\ s = [i \in 1..Len(s) |-> s[i]] /\ \A i \in 1..Len(s) : s[i] \in S
  OBVIOUS
<1> QED
  BY <1>1

\* The innermost frame of a stack, and the ones below it.
LEMMA StackTop ==
  ASSUME NEW s, StackOK(s)
  PROVE  /\ Len(s) \in Nat \ {0} /\ s \in Seq(Items(s))
         /\ FrameOK(Last(s)) /\ Last(s) = s[Len(s)]
         /\ Front(s) \in Seq(Items(s)) /\ Len(Front(s)) = Len(s) - 1
         /\ \A i \in 1..(Len(s) - 1) : Front(s)[i] = s[i]
<1>1. s \in Seq(Items(s)) /\ s # <<>> /\ \A i \in 1..Len(s) : FrameOK(s[i])
  BY Zenon DEF StackOK
<1> DEFINE R == Items(s)
<1>2. s \in Seq(R)
  BY <1>1, Zenon
<1> HIDE DEF R
<1>3. Len(s) \in Nat \ {0}
  BY <1>1, <1>2
<1>4. /\ Front(s) \in Seq(R) /\ Len(Front(s)) = Len(s) - 1
      /\ \A i \in 1..(Len(s) - 1) : Front(s)[i] = s[i]
  <2> DEFINE n == Len(s) - 1
  <2>1. n \in Nat /\ \A i \in 1..n : s[i] \in R
    BY <1>2, <1>3
  <2> HIDE DEF n
  <2>2. /\ SubSeq(s, 1, n) \in Seq(R)
        /\ Len(SubSeq(s, 1, n)) = IF 1 <= n THEN n - 1 + 1 ELSE 0
        /\ \A i \in 1..(n - 1 + 1) : SubSeq(s, 1, n)[i] = s[1 + i - 1]
    BY <2>1
  <2>3. /\ Len(SubSeq(s, 1, n)) = n
        /\ \A i \in 1..n : SubSeq(s, 1, n)[i] = s[i]
    BY <2>1, <2>2
  <2> QED
    BY <2>2, <2>3, Zenon DEF Front, n
<1>5. Last(s) = s[Len(s)]
  BY Zenon DEF Last
<1>6. Len(s) \in 1..Len(s)
  BY <1>3
<1>7. FrameOK(s[Len(s)])
  BY <1>1, <1>6, Zenon
<1> QED
  BY <1>1, <1>3, <1>4, <1>5, <1>7, Zenon DEF R

\* The innermost frame goes on: its code is at another place, and what the
\* exception saved stays.
LEMMA TopChanges ==
  ASSUME NEW s, StackOK(s), NEW fr, FrameOK(fr),
         \/ fr.f = Last(s).f
         \/ fr.f = "user" /\ Last(s).f = "kern",
         fr.ie = Last(s).ie, fr.spl = Last(s).spl, fr.old_in = Last(s).old_in
  PROVE  /\ StackOK(Append(Front(s), fr)) /\ Last(Append(Front(s), fr)) = fr
         /\ Len(Append(Front(s), fr)) = Len(s)
<1> DEFINE R == Items(s) \cup {fr}
           n == Len(s)
           r == Append(Front(s), fr)
<1>1. /\ n \in Nat \ {0} /\ Last(s) = s[n]
      /\ Front(s) \in Seq(Items(s)) /\ Len(Front(s)) = n - 1
      /\ \A i \in 1..(n - 1) : Front(s)[i] = s[i]
  BY StackTop, Zenon
<1>2. Front(s) \in Seq(R)
  BY <1>1, SeqGrows, Zenon
<1>3. fr \in R
  BY Zenon
<1> HIDE DEF R
<1>4. /\ r \in Seq(R) /\ Len(r) = n /\ r[n] = fr
      /\ \A i \in 1..(n - 1) : r[i] = s[i]
  <2>1. r \in Seq(R) /\ Len(r) = Len(Front(s)) + 1
    BY <1>2, <1>3
  <2>2. Len(r) = n
    BY <1>1, <2>1
  <2>3. \A i \in 1..Len(Front(s)) : r[i] = Front(s)[i]
    BY <1>2, <1>3
  <2>4. r[Len(Front(s)) + 1] = fr
    BY <1>2, <1>3
  <2>5. Len(Front(s)) = n - 1 /\ n - 1 + 1 = n
    BY <1>1
  <2> QED
    BY <1>1, <2>1, <2>2, <2>3, <2>4, <2>5, Zenon
<1> HIDE DEF r, n
<1>5. r \in Seq(Items(r)) /\ r # <<>>
  BY <1>1, <1>4, SeqOfItems, Zenon
<1>6. \A i \in 1..Len(r) : FrameOK(r[i])
  <2> SUFFICES ASSUME NEW i \in 1..n PROVE FrameOK(r[i])
    BY <1>4, Zenon
  <2>1. CASE i = n
    BY <1>4, <2>1, Zenon
  <2>2. CASE i # n
    <3>1. i \in 1..(n - 1) /\ i \in 1..n
      BY <1>1, <2>2
    <3> QED BY <1>4, <3>1, Zenon DEF StackOK, n
  <2> QED BY <2>1, <2>2, Zenon
<1>7. r[1].f \in {"kern", "user"}
  <2>1. s[1].f \in {"kern", "user"}
    BY Zenon DEF StackOK
  <2>2. CASE n = 1
    BY <1>1, <1>4, <2>1, <2>2, Zenon
  <2>3. CASE n # 1
    <3>1. 1 \in 1..(n - 1)
      BY <1>1, <2>3
    <3> QED BY <1>4, <2>1, <3>1, Zenon
  <2> QED BY <2>2, <2>3, Zenon
<1>8. \A i \in 1..(Len(r) - 1) : Saved(r[i], r[i + 1])
  <2> SUFFICES ASSUME NEW i \in 1..(n - 1) PROVE Saved(r[i], r[i + 1])
    BY <1>4, Zenon
  <2>1. Saved(s[i], s[i + 1]) /\ r[i] = s[i]
    BY <1>4, Zenon DEF StackOK, n
  <2>2. CASE i + 1 = n
    <3>1. Saved(s[i], Last(s)) /\ r[i + 1] = fr
      BY <1>1, <1>4, <2>1, <2>2, Zenon
    <3>2. fr.f = Last(s).f
      BY <3>1, Zenon DEF Saved
    <3> QED
      BY <2>1, <3>1, <3>2 DEF Saved
  <2>3. CASE i + 1 # n
    <3>1. i + 1 \in 1..(n - 1)
      BY <1>1, <2>3
    <3> QED BY <1>4, <2>1, <3>1, Zenon
  <2> QED BY <2>2, <2>3, Zenon
<1>9. StackOK(r)
  BY <1>5, <1>6, <1>7, <1>8, Zenon DEF StackOK
<1>10. Last(r) = fr /\ Len(r) = n
  BY <1>4, Zenon DEF Last
<1> QED
  BY <1>9, <1>10, Zenon DEF r, n

\* An exception puts its frame on the stack of the code it comes from.
LEMMA TopPushed ==
  ASSUME NEW s, StackOK(s), NEW fr, FrameOK(fr), Saved(Last(s), fr)
  PROVE  StackOK(Append(s, fr)) /\ Last(Append(s, fr)) = fr
<1> DEFINE R == Items(s) \cup {fr}
           n == Len(s)
           r == Append(s, fr)
<1>1. n \in Nat \ {0} /\ Last(s) = s[n] /\ s \in Seq(Items(s))
  BY StackTop, Zenon
<1>2. s \in Seq(R)
  BY <1>1, SeqGrows, Zenon
<1>3. fr \in R
  BY Zenon
<1> HIDE DEF R
<1>4. r \in Seq(R) /\ Len(r) = n + 1 /\ r[n + 1] = fr /\ \A i \in 1..n : r[i] = s[i]
  BY <1>2, <1>3
<1> HIDE DEF r, n
<1>5. r \in Seq(Items(r)) /\ r # <<>>
  BY <1>1, <1>4, SeqOfItems
<1>6. \A i \in 1..Len(r) : FrameOK(r[i])
  <2> SUFFICES ASSUME NEW i \in 1..(n + 1) PROVE FrameOK(r[i])
    BY <1>4, Zenon
  <2>1. CASE i = n + 1
    BY <1>4, <2>1, Zenon
  <2>2. CASE i # n + 1
    <3>1. i \in 1..n
      BY <1>1, <2>2
    <3> QED BY <1>4, <3>1, Zenon DEF StackOK, n
  <2> QED BY <2>1, <2>2, Zenon
<1>7. r[1].f \in {"kern", "user"}
  <2>1. s[1].f \in {"kern", "user"} /\ 1 \in 1..n
    BY <1>1 DEF StackOK
  <2> QED BY <1>4, <2>1, Zenon
<1>8. \A i \in 1..(Len(r) - 1) : Saved(r[i], r[i + 1])
  <2> SUFFICES ASSUME NEW i \in 1..n PROVE Saved(r[i], r[i + 1])
    BY <1>1, <1>4
  <2>1. CASE i = n
    BY <1>1, <1>4, <2>1, Zenon
  <2>2. CASE i # n
    <3>1. i \in 1..(n - 1) /\ i + 1 \in 1..n
      BY <1>1, <2>2
    <3>2. Saved(s[i], s[i + 1])
      BY <3>1, Zenon DEF StackOK, n
    <3> QED BY <1>4, <3>1, <3>2, Zenon
  <2> QED BY <2>1, <2>2, Zenon
<1>9. StackOK(r) /\ Last(r) = fr
  BY <1>4, <1>5, <1>6, <1>7, <1>8, Zenon DEF StackOK, Last
<1> QED
  BY <1>9, Zenon DEF r

\* The return from an exception goes to the code it came from.
LEMMA TopPopped ==
  ASSUME NEW s, StackOK(s), Last(s).f \in {"sys", "fault", "irq"}
  PROVE  StackOK(Front(s)) /\ Saved(Last(Front(s)), Last(s))
<1> DEFINE n == Len(s)
           r == Front(s)
<1>1. /\ n \in Nat \ {0} /\ Last(s) = s[n] /\ r \in Seq(Items(s))
      /\ Len(r) = n - 1 /\ \A i \in 1..(n - 1) : r[i] = s[i]
  BY StackTop, Zenon
<1>2. s[1].f \in {"kern", "user"}
  BY Zenon DEF StackOK
<1>3. n - 1 \in Nat \ {0} /\ 1 \in 1..(n - 1) /\ n - 1 \in 1..(n - 1) /\ n - 1 + 1 = n
  BY <1>1, <1>2
<1> HIDE DEF r, n
<1>4. r \in Seq(Items(r)) /\ r # <<>>
  BY <1>1, <1>3, SeqOfItems, Zenon
<1>5. \A i \in 1..Len(r) : FrameOK(r[i])
  <2> SUFFICES ASSUME NEW i \in 1..(n - 1) PROVE FrameOK(r[i])
    BY <1>1, Zenon
  <2>1. i \in 1..n
    BY <1>1
  <2> QED BY <1>1, <2>1, Zenon DEF StackOK, n
<1>6. r[1].f \in {"kern", "user"}
  BY <1>1, <1>2, <1>3, Zenon
<1>7. \A i \in 1..(Len(r) - 1) : Saved(r[i], r[i + 1])
  <2> SUFFICES ASSUME NEW i \in 1..(n - 1 - 1) PROVE Saved(r[i], r[i + 1])
    BY <1>1, Zenon
  <2>1. i \in 1..(n - 1) /\ i + 1 \in 1..(n - 1)
    BY <1>1
  <2>2. Saved(s[i], s[i + 1])
    BY <2>1, Zenon DEF StackOK, n
  <2> QED BY <1>1, <2>1, <2>2, Zenon
<1>8. StackOK(r)
  BY <1>4, <1>5, <1>6, <1>7, Zenon DEF StackOK
<1>9. Saved(s[n - 1], s[n - 1 + 1])
  BY <1>3, Zenon DEF StackOK, n
<1>10. Last(r) = s[n - 1]
  BY <1>1, <1>3, Zenon DEF Last
<1> QED
  BY <1>1, <1>3, <1>8, <1>9, <1>10, Zenon DEF r
----------------------------------------------------------------------------
(* Steps of the processor                                                  *)

\* The processor's state that belongs to a frame, after a step.
CpuNext(top) ==
  /\ top.pc \in {"run", "on", "idle_on"} => ie' = TRUE
  /\ top.pc \notin {"run", "on", "idle_on"} => ie' = FALSE
  /\ curspl' = IF top.pc \in {"run", "off"} THEN 0 ELSE 1
  /\ in_interrupt' = IF top.f = "irq" THEN 1 ELSE 0

\* The running code, as the invariant knows it.
LEMMA Running ==
  ASSUME IntInv
  PROVE  /\ onstack \in IThread /\ StackOK(stk[onstack]) /\ FrameOK(Top) /\ CpuOK(Top)
         /\ Top = Last(stk[onstack]) /\ curkstack = onstack
<1>1. onstack \in IThread /\ StackOK(stk[onstack]) /\ CpuOK(Top) /\ curkstack = onstack
  BY Zenon DEF IntInv, RestOK, ThreadsOK
<1>2. FrameOK(Last(stk[onstack]))
  BY <1>1, StackTop, Zenon
<1> QED
  BY <1>1, <1>2, Zenon DEF Top

\* A step of the running thread on its own stack.
LEMMA OwnStack ==
  ASSUME IntInv, NEW r, StackOK(r), stk' = [stk EXCEPT ![onstack] = r],
         UNCHANGED <<curkstack, onstack, pcb>>, curthread' \in {curthread, NoThread},
         CpuNext(Last(r))
  PROVE  ThreadsOK'
<1>1. ThreadsOK /\ onstack \in IThread
  BY Zenon DEF IntInv, RestOK
<1>2. stk = [t \in IThread |-> stk[t]] /\ pcb = [t \in IThread |-> pcb[t]]
  BY <1>1, Zenon DEF ThreadsOK
<1>3. stk' = [t \in IThread |-> stk'[t]] /\ stk'[onstack] = r
      /\ \A t \in IThread \ {onstack} : stk'[t] = stk[t]
  BY <1>1, <1>2, Zenon
<1>4. pcb' = [t \in IThread |-> pcb'[t]]
  BY <1>2, Zenon
<1>5. ASSUME NEW t \in IThread PROVE StackOK(stk'[t])
  BY <1>1, <1>3, Zenon DEF ThreadsOK
<1>6. Top' = Last(r)
  BY <1>3, Zenon DEF Top
<1>7. CpuOK(Top)'
  BY <1>6, Zenon DEF CpuOK, CpuNext
<1>8. ASSUME NEW t \in IThread, t # onstack' PROVE SwitchedAway(t)'
  <2>1. SwitchedAway(t) /\ stk'[t] = stk[t] /\ pcb'[t] = pcb[t]
    BY <1>1, <1>3, <1>8, Zenon DEF ThreadsOK
  <2> QED
    BY <2>1, Zenon DEF SwitchedAway
<1>9. curkstack' = onstack' /\ (curthread' # NoThread => curthread' = onstack')
  BY <1>1, Zenon DEF ThreadsOK
<1> QED
  BY <1>3, <1>4, <1>5, <1>7, <1>8, <1>9, Zenon DEF ThreadsOK

\* The end of mi_switch: whoever is chosen was switched away from with
\* interrupts off and curspl high, and md_switch restores the rest.
LEMMA Switched ==
  ASSUME IntInv, NEW r, StackOK(r), stk' = [stk EXCEPT ![onstack] = r],
         Last(r).pc \in {"high", "reload"}, CpuOK(Last(r)),
         UNCHANGED <<ie, curspl>>, NEW able \in SUBSET IThread, RunNext(able)
  PROVE  /\ ThreadsOK'
         /\ onstack' \in IThread /\ curthread' \in IThread /\ ready' \subseteq IThread
<1>1. /\ ThreadsOK /\ onstack \in IThread /\ curkstack = onstack
      /\ stk = [t \in IThread |-> stk[t]] /\ pcb = [t \in IThread |-> pcb[t]]
  BY Zenon DEF IntInv, RestOK, ThreadsOK
<1>2. PICK nu \in able : ready' = able \ {nu} /\ curthread' = nu /\ onstack' = nu /\ md_switch(nu)
  BY Zenon DEF RunNext, mips_switch
<1>3. nu \in IThread
  BY Zenon
<1>4. stk' = [t \in IThread |-> stk'[t]] /\ stk'[onstack] = r
      /\ \A t \in IThread \ {onstack} : stk'[t] = stk[t]
  BY <1>1, Zenon
<1>5. ASSUME NEW t \in IThread PROVE StackOK(stk'[t])
  BY <1>1, <1>4, Zenon DEF ThreadsOK
<1>6. ~ie' /\ curspl' = 1 /\ in_interrupt = (IF Last(r).f = "irq" THEN 1 ELSE 0)
  BY Zenon DEF CpuOK
<1>7. CASE nu = onstack
  <2>1. in_interrupt' = in_interrupt /\ curkstack' = curkstack /\ pcb' = pcb /\ onstack' = onstack
    BY <1>2, <1>7, Zenon DEF md_switch
  <2>2. Top' = Last(r)
    BY <1>4, <2>1, Zenon DEF Top
  <2>3. CpuOK(Top)'
    BY <1>6, <2>1, <2>2, Zenon DEF CpuOK
  <2>4. ASSUME NEW t \in IThread, t # onstack' PROVE SwitchedAway(t)'
    <3>1. SwitchedAway(t) /\ stk'[t] = stk[t] /\ pcb'[t] = pcb[t]
      BY <1>1, <1>4, <2>1, <2>4, Zenon DEF ThreadsOK
    <3> QED
      BY <3>1, Zenon DEF SwitchedAway
  <2>5. pcb' = [t \in IThread |-> pcb'[t]]
    BY <1>1, <2>1, Zenon
  <2>6. curkstack' = onstack' /\ curthread' = onstack'
    BY <1>1, <1>2, <1>7, <2>1, Zenon
  <2>7. ThreadsOK'
    BY <1>4, <1>5, <2>3, <2>4, <2>5, <2>6, Zenon DEF ThreadsOK
  <2> QED
    BY <1>2, <1>3, <2>7, Zenon
<1>8. CASE nu # onstack
  <2>1. /\ pcb' = [pcb EXCEPT ![onstack] = [kstack |-> curkstack, ininterrupt |-> in_interrupt]]
        /\ curkstack' = pcb[nu].kstack /\ in_interrupt' = pcb[nu].ininterrupt
    BY <1>2, <1>8, Zenon DEF md_switch
  <2>2. SwitchedAway(nu) /\ stk'[nu] = stk[nu]
    BY <1>1, <1>3, <1>4, <1>8, Zenon DEF ThreadsOK
  <2>3. Top' = Last(stk[nu])
    BY <1>2, <2>2, Zenon DEF Top
  <2>4. /\ Last(stk[nu]).pc \in {"start", "high", "reload"}
        /\ in_interrupt' = (IF Last(stk[nu]).f = "irq" THEN 1 ELSE 0) /\ curkstack' = nu
    BY <2>1, <2>2 DEF SwitchedAway
  <2>5. CpuOK(Top)'
    BY <1>6, <2>3, <2>4, Zenon DEF CpuOK
  <2>6. pcb' = [t \in IThread |-> pcb'[t]]
        /\ pcb'[onstack] = [kstack |-> onstack, ininterrupt |-> in_interrupt]
        /\ \A t \in IThread \ {onstack} : pcb'[t] = pcb[t]
    BY <1>1, <2>1, Zenon
  <2>7. ASSUME NEW t \in IThread, t # onstack' PROVE SwitchedAway(t)'
    <3>1. CASE t = onstack
      <4>1. stk'[t] = r /\ pcb'[t] = [kstack |-> t, ininterrupt |-> IF Last(r).f = "irq" THEN 1 ELSE 0]
        BY <1>4, <1>6, <2>6, <3>1, Zenon
      <4> QED
        BY <4>1, Zenon DEF SwitchedAway
    <3>2. CASE t # onstack
      <4>1. SwitchedAway(t) /\ stk'[t] = stk[t] /\ pcb'[t] = pcb[t]
        BY <1>1, <1>4, <2>6, <3>2, Zenon DEF ThreadsOK
      <4> QED
        BY <4>1, Zenon DEF SwitchedAway
    <3> QED
      BY <3>1, <3>2, Zenon
  <2>8. ThreadsOK'
    BY <1>2, <1>4, <1>5, <2>4, <2>5, <2>6, <2>7, Zenon DEF ThreadsOK
  <2> QED
    BY <1>2, <1>3, <2>8, Zenon
<1> QED
  BY <1>7, <1>8, Zenon

\* SetTop changes the innermost frame of the running thread.
LEMMA TopSet ==
  ASSUME IntInv, NEW fr, SetTop(fr), FrameOK(fr),
         \/ fr.f = Top.f
         \/ fr.f = "user" /\ Top.f = "kern",
         fr.ie = Top.ie, fr.spl = Top.spl, fr.old_in = Top.old_in
  PROVE  \E r : StackOK(r) /\ Last(r) = fr /\ stk' = [stk EXCEPT ![onstack] = r]
<1> DEFINE r == Append(Front(stk[onstack]), fr)
<1>1. StackOK(stk[onstack]) /\ Top = Last(stk[onstack])
  BY Running, Zenon
<1>2. StackOK(r) /\ Last(r) = fr
  BY <1>1, TopChanges, Zenon
<1>3. stk' = [stk EXCEPT ![onstack] = r]
  BY Zenon DEF SetTop
<1> QED
  BY <1>2, <1>3, Zenon

\* Where code and handlers may be.
MayBeAt(pc) ==
  \/ Top.f = "irq" /\ pc \in HandlerPcs
  \/ Top.f # "irq" /\ pc \in CodePcs

\* Goto moves the innermost code to another place and leaves the rest of its frame.
LEMMA WentTo ==
  ASSUME IntInv, NEW pc, MayBeAt(pc), Goto(pc)
  PROVE  \E r : /\ StackOK(r) /\ stk' = [stk EXCEPT ![onstack] = r]
                /\ Last(r).pc = pc /\ Last(r).f = Top.f
<1> DEFINE fr == [Top EXCEPT !.pc = pc]
<1>1. FrameOK(Top)
  BY Running, Zenon
<1>2. fr.f = Top.f /\ fr.pc = pc /\ fr.ie = Top.ie /\ fr.spl = Top.spl /\ fr.old_in = Top.old_in
      /\ IsFrame(fr)
  BY <1>1 DEF FrameOK, IsFrame
<1>3. SetTop(fr)
  BY Zenon DEF Goto
<1> HIDE DEF fr
<1>4. FrameOK(fr)
  BY <1>1, <1>2, Zenon DEF FrameOK, MayBeAt
<1> QED
  BY <1>2, <1>3, <1>4, TopSet, Zenon

\* A step from one place to another in the same code.
LEMMA OnItsWay ==
  ASSUME IntInv, NEW pc, MayBeAt(pc), Goto(pc),
         UNCHANGED <<curkstack, curthread, onstack, pcb, in_interrupt>>,
         pc \in {"run", "on", "idle_on"} => ie' = TRUE,
         pc \notin {"run", "on", "idle_on"} => ie' = FALSE,
         curspl' = IF pc \in {"run", "off"} THEN 0 ELSE 1
  PROVE  ThreadsOK'
<1>1. PICK r : /\ StackOK(r) /\ stk' = [stk EXCEPT ![onstack] = r]
               /\ Last(r).pc = pc /\ Last(r).f = Top.f
  BY WentTo, Zenon
<1>2. CpuOK(Top)
  BY Running, Zenon
<1>3. CpuNext(Last(r))
  BY <1>1, <1>2, Zenon DEF CpuNext, CpuOK
<1> QED
  BY <1>1, <1>3, OwnStack, Zenon

\* The values of the processor at each place.
LEMMA AtPlaces ==
  ASSUME IntInv, NEW pc, At(pc)
  PROVE  /\ crash = "no" /\ Top.pc = pc /\ (Top.f = "irq" <=> pc \in HandlerPcs)
         /\ Top.f \in {"kern", "user", "sys", "fault", "irq"}
         /\ pc \in {"run", "on", "idle_on"} => ie = TRUE
         /\ pc \notin {"run", "on", "idle_on"} => ie = FALSE
         /\ curspl = (IF pc \in {"run", "off"} THEN 0 ELSE 1)
         /\ in_interrupt = (IF Top.f = "irq" THEN 1 ELSE 0)
<1>1. FrameOK(Top) /\ CpuOK(Top) /\ crash = "no" /\ Top.pc = pc
  BY Running, Zenon DEF At
<1>2. (Top.f = "irq" <=> pc \in HandlerPcs) /\ Top.f \in {"kern", "user", "sys", "fault", "irq"}
  BY <1>1, Zenon DEF FrameOK, HandlerPcs, CodePcs
<1> QED
  BY <1>1, <1>2, Zenon DEF CpuOK

\* The rest of the state, when a step leaves it alone.
LEMMA RestKept ==
  ASSUME IntInv, UNCHANGED <<curthread, onstack, ready, asleep, bus, crash>>
  PROVE  RestOK'
  BY Zenon DEF IntInv, RestOK, bus

\* A step of spl.c or of the idle loop, from one place of code to another.
LEMMA LevelStep ==
  ASSUME IntInv, NEW old \in CodePcs, NEW pc \in CodePcs, At(old), Goto(pc),
         UNCHANGED <<in_interrupt, sched, bus, crash>>,
         pc \in {"run", "on", "idle_on"} => ie' = TRUE,
         pc \notin {"run", "on", "idle_on"} => ie' = FALSE,
         curspl' = IF pc \in {"run", "off"} THEN 0 ELSE 1
  PROVE  IntInv'
<1>1. RestOK'
  BY RestKept, Zenon DEF sched
<1>2. UNCHANGED <<curkstack, curthread, onstack, pcb, in_interrupt>>
  BY Zenon DEF sched
<1>3. MayBeAt(pc)
  <2>1. Top.f = "irq" <=> old \in HandlerPcs
    BY AtPlaces, Zenon
  <2> QED
    BY <2>1, Zenon DEF MayBeAt, HandlerPcs, CodePcs
<1>4. ThreadsOK'
  BY <1>2, <1>3, OnItsWay, Zenon
<1> QED
  BY <1>1, <1>4, Zenon DEF IntInv

\* spl.c and the idle loop.
LEMMA LevelSteps ==
  ASSUME IntInv,
         \/ splhigh_off \/ splhigh_set \/ splx_on \/ splx_set \/ cpu_idle_on \/ cpu_idle_off
  PROVE  IntInv'
<1>1. UNCHANGED <<in_interrupt, sched, bus, crash>>
  BY Zenon DEF splhigh_off, splhigh_set, splx_on, splx_set, cpu_idle_on, cpu_idle_off
<1>2. CASE splhigh_off
  <2>1. At("run") /\ ie' = FALSE /\ Goto("off") /\ curspl' = curspl
    BY <1>2, Zenon DEF splhigh_off
  <2>2. curspl = 0
    BY <2>1, Running, Zenon DEF At, CpuOK
  <2> QED BY <1>1, <2>1, <2>2, LevelStep, Zenon DEF CodePcs
<1>3. CASE splhigh_set
  <2>1. At("off") /\ ie' = ie /\ Goto("high") /\ curspl' = 1
    BY <1>3, Zenon DEF splhigh_set
  <2>2. ie = FALSE
    BY <2>1, Running, Zenon DEF At, CpuOK
  <2> QED BY <1>1, <2>1, <2>2, LevelStep, Zenon DEF CodePcs
<1>4. CASE splx_on
  <2>1. PICK pc \in {"high", "start", "enter"} : At(pc)
    BY <1>4, Zenon DEF splx_on
  <2>2. ie' = TRUE /\ Goto("on") /\ curspl' = curspl
    BY <1>4, Zenon DEF splx_on
  <2>3. curspl = 1
    BY <2>1, Running, Zenon DEF At, CpuOK
  <2>4. pc \in CodePcs
    BY Zenon DEF CodePcs
  <2> QED BY <1>1, <2>1, <2>2, <2>3, <2>4, LevelStep, Zenon DEF CodePcs
<1>5. CASE splx_set
  <2>1. At("on") /\ ie' = ie /\ Goto("run") /\ curspl' = 0
    BY <1>5, Zenon DEF splx_set
  <2>2. ie = TRUE
    BY <2>1, Running, Zenon DEF At, CpuOK
  <2> QED BY <1>1, <2>1, <2>2, LevelStep, Zenon DEF CodePcs
<1>6. CASE cpu_idle_on
  <2>1. At("idle") /\ ie' = TRUE /\ Goto("idle_on") /\ curspl' = curspl
    BY <1>6, Zenon DEF cpu_idle_on
  <2>2. curspl = 1
    BY <2>1, Running, Zenon DEF At, CpuOK
  <2> QED BY <1>1, <2>1, <2>2, LevelStep, Zenon DEF CodePcs
<1>7. CASE cpu_idle_off
  <2>1. At("idle_on") /\ ie' = FALSE /\ Goto("idle") /\ curspl' = curspl
    BY <1>7, Zenon DEF cpu_idle_off
  <2>2. curspl = 1
    BY <2>1, Running, Zenon DEF At, CpuOK
  <2> QED BY <1>1, <2>1, <2>2, LevelStep, Zenon DEF CodePcs
<1> QED
  BY <1>2, <1>3, <1>4, <1>5, <1>6, <1>7, Zenon
----------------------------------------------------------------------------
(* Traps and interrupts                                                    *)

\* The beginning of an exception saves what its return will restore.
LEMMA Trapped ==
  ASSUME IntInv, NEW f, NEW pc,
         \/ f = "irq" /\ pc = "bus"
         \/ f \in {"sys", "fault"} /\ pc = "enter",
         Saved(Top, Frame(f, pc)), Trap(f, pc), UNCHANGED sched,
         in_interrupt' = IF f = "irq" THEN 1 ELSE 0
  PROVE  ThreadsOK'
<1> DEFINE fr == Frame(f, pc)
           r == Append(stk[onstack], fr)
<1>1. StackOK(stk[onstack]) /\ Top = Last(stk[onstack])
  BY Running, Zenon
<1>2. fr.f = f /\ fr.pc = pc /\ IsFrame(fr)
  BY Zenon DEF Frame, IsFrame
<1>3. stk' = [stk EXCEPT ![onstack] = r] /\ ie' = FALSE /\ curspl' = 1
  BY Zenon DEF Trap, common_exception, Push
<1>4. UNCHANGED <<curkstack, curthread, onstack, pcb>>
  BY Zenon DEF sched
<1>5. Saved(Last(stk[onstack]), fr)
  BY <1>1, Zenon
<1> HIDE DEF fr
<1>6. FrameOK(fr)
  BY <1>2, Zenon DEF FrameOK, HandlerPcs, CodePcs
<1>7. StackOK(r) /\ Last(r) = fr
  BY <1>1, <1>5, <1>6, TopPushed, Zenon
<1> HIDE DEF r
<1>8. CpuNext(Last(r))
  BY <1>2, <1>3, <1>7, Zenon DEF CpuNext
<1> QED
  BY <1>3, <1>4, <1>7, <1>8, OwnStack, Zenon

\* The end of mips_trap: interrupts and curspl are those of the code returned to.
LEMMA TrapReturned ==
  ASSUME IntInv, Top.f \in {"sys", "fault", "irq"}, mips_trap_done, UNCHANGED sched,
         in_interrupt' = 0
  PROVE  ThreadsOK' /\ crash' = "no"
<1> DEFINE r == Front(stk[onstack])
<1>1. StackOK(stk[onstack]) /\ Top = Last(stk[onstack]) /\ curkstack = onstack
  BY Running, Zenon
<1>2. StackOK(r) /\ Saved(Last(r), Top)
  BY <1>1, TopPopped, Zenon
<1>3. /\ stk' = [stk EXCEPT ![onstack] = r] /\ ie' = Top.ie /\ curspl' = Top.spl
      /\ crash' = "no"
  BY <1>1, Zenon DEF mips_trap_done, exception_return
<1>4. UNCHANGED <<curkstack, curthread, onstack, pcb>>
  BY Zenon DEF sched
<1> HIDE DEF r
<1>5. CpuNext(Last(r))
  BY <1>2, <1>3, Zenon DEF CpuNext, Saved
<1> QED
  BY <1>2, <1>3, <1>4, <1>5, OwnStack, Zenon

\* A panic leaves the state as it is.
LEMMA Panicked ==
  ASSUME IntInv, UNCHANGED <<cpu, sched, stk>>, RestOK'
  PROVE  IntInv'
<1>1. ThreadsOK /\ UNCHANGED <<ie, curspl, in_interrupt, curkstack, curthread, onstack, pcb, stk>>
  BY Zenon DEF IntInv, cpu, sched
<1>2. Top' = Top
  BY <1>1, Zenon DEF Top
<1>3. CpuOK(Top)'
  BY <1>1, <1>2, Zenon DEF ThreadsOK, CpuOK
<1>4. ASSUME NEW t \in IThread, t # onstack' PROVE SwitchedAway(t)'
  BY <1>1, <1>4, Zenon DEF ThreadsOK, SwitchedAway
<1>5. ThreadsOK'
  BY <1>1, <1>3, <1>4, Zenon DEF ThreadsOK
<1> QED
  BY <1>5, Zenon DEF IntInv

\* trap.c and syscall.c.
LEMMA TrapSteps ==
  ASSUME IntInv,
         \/ TrapSys \/ TrapFault \/ mips_trap \/ vm_fault_NoSpace \/ kill_curthread
         \/ mips_usermode
  PROVE  IntInv'
<1>1. CASE TrapSys \/ TrapFault
  <2>1. PICK f \in {"sys", "fault"} : Trap(f, "enter")
    BY <1>1, Zenon DEF TrapSys, TrapFault
  <2>2. At("run") /\ Top.f \in {"user", "sys"} /\ UNCHANGED <<in_interrupt, sched, bus, crash>>
    BY <1>1, Zenon DEF TrapSys, TrapFault
  <2>3. Top.pc = "run" /\ CpuOK(Top)
    BY <2>2, Running, Zenon DEF At
  <2>4. ie = TRUE /\ curspl = 0 /\ in_interrupt = 0
    BY <2>2, <2>3, Zenon DEF CpuOK
  <2>5. Saved(Top, Frame(f, "enter"))
    BY <2>2, <2>3, <2>4, Zenon DEF Saved, Frame
  <2>6. ThreadsOK'
    BY <2>1, <2>2, <2>4, <2>5, Trapped, Zenon
  <2>7. RestOK'
    BY <2>2, RestKept, Zenon DEF sched
  <2> QED
    BY <2>6, <2>7, Zenon DEF IntInv
<1>2. CASE mips_trap \/ vm_fault_NoSpace
  <2>1. PICK pc \in {"run", "high"} : At(pc) /\ Top.f \in {"sys", "fault"}
    BY <1>2, Zenon DEF mips_trap, vm_fault_NoSpace
  <2>2. CpuOK(Top) /\ Top.pc = pc
    BY <2>1, Running, Zenon DEF At
  <2>3. in_interrupt = 0 /\ (Top.pc = "run" => curspl = 0)
    BY <2>1, <2>2, Zenon DEF CpuOK
  <2>4. mips_trap_done /\ UNCHANGED <<in_interrupt, sched, bus>>
    BY <1>2, <2>3, Zenon DEF mips_trap, vm_fault_NoSpace, At
  <2>5. ThreadsOK' /\ crash' = "no"
    BY <2>1, <2>3, <2>4, TrapReturned, Zenon
  <2>6. crash' = crash
    BY <2>1, <2>5, Zenon DEF At
  <2>7. RestOK'
    BY <2>4, <2>6, RestKept, Zenon DEF sched
  <2> QED
    BY <2>5, <2>7, Zenon DEF IntInv
<1>3. CASE kill_curthread
  <2>1. crash' = "fatal" /\ UNCHANGED <<cpu, sched, stk, bus>>
    BY <1>3, Zenon DEF kill_curthread, Panics
  <2>2. RestOK'
    BY <2>1, Zenon DEF IntInv, RestOK, sched, bus
  <2> QED
    BY <2>1, <2>2, Panicked, Zenon
<1>4. CASE mips_usermode
  <2> DEFINE fr == [Top EXCEPT !.f = "user"]
  <2>1. /\ At("run") /\ Top.f = "kern" /\ ie' = TRUE /\ curspl' = 0 /\ SetTop(fr)
        /\ UNCHANGED <<in_interrupt, sched, bus, crash>>
    BY <1>4, Zenon DEF mips_usermode
  <2>2. FrameOK(Top) /\ CpuOK(Top) /\ Top.pc = "run"
    BY <2>1, Running, Zenon DEF At
  <2>3. /\ fr.f = "user" /\ fr.pc = "run" /\ IsFrame(fr)
        /\ fr.ie = Top.ie /\ fr.spl = Top.spl /\ fr.old_in = Top.old_in
    BY <2>2 DEF FrameOK, IsFrame
  <2> HIDE DEF fr
  <2>4. FrameOK(fr)
    BY <2>3, Zenon DEF FrameOK, CodePcs
  <2>5. PICK r : StackOK(r) /\ Last(r) = fr /\ stk' = [stk EXCEPT ![onstack] = r]
    BY <2>1, <2>3, <2>4, TopSet, Zenon
  <2>6. CpuNext(Last(r))
    BY <2>1, <2>2, <2>3, <2>5, Zenon DEF CpuNext, CpuOK
  <2>7. ThreadsOK'
    BY <2>1, <2>5, <2>6, OwnStack, Zenon DEF sched
  <2>8. RestOK'
    BY <2>1, RestKept, Zenon DEF sched
  <2> QED
    BY <2>7, <2>8, Zenon DEF IntInv
<1> QED
  BY <1>1, <1>2, <1>3, <1>4, Zenon
----------------------------------------------------------------------------
(* Switching                                                               *)

\* mi_switch, called with interrupts off at a place the thread can come back to.
LEMMA MiSwitched ==
  ASSUME IntInv, NEW ready2 \in SUBSET IThread, NEW back \in {"high", "reload"},
         NEW asleep2, curthread # NoThread => asleep2 \subseteq IThread,
         MayBeAt(back), back = "high" \/ (curthread # NoThread => ready2 # {}),
         ie = FALSE, curspl = 1, UNCHANGED <<ie, curspl>>, mi_switch(ready2, asleep2, back)
  PROVE  /\ ThreadsOK'
         /\ onstack' \in IThread /\ curthread' \in IThread \cup {NoThread}
         /\ ready' \subseteq IThread /\ asleep' \subseteq IThread
<1>1. /\ onstack \in IThread /\ curthread \in IThread \cup {NoThread}
      /\ ready \subseteq IThread /\ asleep \subseteq IThread
  BY Zenon DEF IntInv, RestOK
<1>2. CpuOK(Top)
  BY Running, Zenon
<1>3. CASE curthread = NoThread
  <2>1. /\ Goto(back) /\ UNCHANGED <<curkstack, curthread, onstack, pcb, in_interrupt>>
        /\ ready' = ready /\ asleep' = asleep
    BY <1>3, Zenon DEF mi_switch
  <2>2. ThreadsOK'
    BY <2>1, OnItsWay, Zenon
  <2> QED
    BY <1>1, <2>1, <2>2, Zenon
<1>4. CASE curthread # NoThread /\ ready2 # {}
  <2>1. Goto(back) /\ RunNext(ready2) /\ asleep' = asleep2
    BY <1>4, Zenon DEF mi_switch
  <2>2. PICK r : /\ StackOK(r) /\ stk' = [stk EXCEPT ![onstack] = r]
                 /\ Last(r).pc = back /\ Last(r).f = Top.f
    BY <2>1, WentTo, Zenon
  <2>3. CpuOK(Last(r))
    BY <1>2, <2>2, Zenon DEF CpuOK
  <2>4. ThreadsOK' /\ onstack' \in IThread /\ curthread' \in IThread /\ ready' \subseteq IThread
    BY <2>1, <2>2, <2>3, Switched, Zenon
  <2> QED
    BY <1>4, <2>1, <2>4, Zenon
<1>5. CASE curthread # NoThread /\ ready2 = {}
  <2>1. /\ Goto("idle") /\ ready' = {} /\ curthread' = NoThread /\ asleep' = asleep2
        /\ UNCHANGED <<curkstack, onstack, pcb, in_interrupt>>
    BY <1>5, Zenon DEF mi_switch
  <2>2. Top.f # "irq" /\ MayBeAt("idle")
    BY <1>5, Zenon DEF MayBeAt, HandlerPcs, CodePcs
  <2>3. PICK r : /\ StackOK(r) /\ stk' = [stk EXCEPT ![onstack] = r]
                 /\ Last(r).pc = "idle" /\ Last(r).f = Top.f
    BY <2>1, <2>2, WentTo, Zenon
  <2>4. CpuNext(Last(r))
    BY <1>2, <2>1, <2>3, Zenon DEF CpuOK, CpuNext
  <2>5. ThreadsOK'
    BY <2>1, <2>3, <2>4, OwnStack, Zenon
  <2> QED
    BY <1>1, <1>5, <2>1, <2>5, Zenon
<1> QED
  BY <1>3, <1>4, <1>5, Zenon

\* thread_sleep, and the scheduler after the idle loop.
LEMMA SwitchSteps ==
  ASSUME IntInv, thread_sleep \/ scheduler
  PROVE  IntInv'
<1>1. /\ onstack \in IThread /\ curthread \in IThread \cup {NoThread}
      /\ ready \subseteq IThread /\ asleep \subseteq IThread
  BY Zenon DEF IntInv, RestOK
<1>2. CASE thread_sleep
  <2>1. /\ At("high") /\ Top.f \in {"kern", "sys"} /\ UNCHANGED <<ie, curspl, bus, crash>>
        /\ mi_switch(ready, asleep \cup {curthread}, "high")
    BY <1>2, Zenon DEF thread_sleep
  <2>2. ie = FALSE /\ curspl = 1
    BY <2>1, Running, Zenon DEF At, CpuOK
  <2>3. MayBeAt("high")
    BY <2>1, Zenon DEF MayBeAt, CodePcs
  <2>4. curthread # NoThread => asleep \cup {curthread} \subseteq IThread
    BY <1>1, Zenon
  <2>5. /\ ThreadsOK'
        /\ onstack' \in IThread /\ curthread' \in IThread \cup {NoThread}
        /\ ready' \subseteq IThread /\ asleep' \subseteq IThread
    BY <1>1, <2>1, <2>2, <2>3, <2>4, MiSwitched, Zenon
  <2>6. RestOK'
    BY <2>1, <2>5, Zenon DEF IntInv, RestOK, bus
  <2> QED
    BY <2>5, <2>6, Zenon DEF IntInv
<1>3. CASE scheduler
  <2>1. At("idle") /\ Goto("high") /\ RunNext(ready) /\ UNCHANGED <<ie, curspl, asleep, bus, crash>>
    BY <1>3, Zenon DEF scheduler
  <2>2. CpuOK(Top) /\ FrameOK(Top) /\ Top.pc = "idle"
    BY <2>1, Running, Zenon DEF At
  <2>3. MayBeAt("high") /\ Top.f # "irq"
    BY <2>2, Zenon DEF MayBeAt, CodePcs, HandlerPcs, FrameOK
  <2>4. PICK r : /\ StackOK(r) /\ stk' = [stk EXCEPT ![onstack] = r]
                 /\ Last(r).pc = "high" /\ Last(r).f = Top.f
    BY <2>1, <2>3, WentTo, Zenon
  <2>5. CpuOK(Last(r))
    BY <2>2, <2>4, Zenon DEF CpuOK
  <2>6. ThreadsOK' /\ onstack' \in IThread /\ curthread' \in IThread /\ ready' \subseteq IThread
    BY <1>1, <2>1, <2>4, <2>5, Switched, Zenon
  <2>7. RestOK'
    BY <2>1, <2>6, Zenon DEF IntInv, RestOK, bus
  <2> QED
    BY <2>6, <2>7, Zenon DEF IntInv
<1> QED
  BY <1>2, <1>3, Zenon
----------------------------------------------------------------------------
(* interrupt.c and lamebus.c                                               *)

\* A frame that is the same but for what lamebus_interrupt keeps in it.
Kept(a, fr) ==
  /\ IsFrame(a) /\ a.f = fr.f /\ a.pc = fr.pc
  /\ a.ie = fr.ie /\ a.spl = fr.spl /\ a.old_in = fr.old_in

\* What the pass over the slots writes in its frame leaves the rest of it alone.
LEMMA PassFields ==
  ASSUME NEW fr, IsFrame(fr), NEW x
  PROVE  /\ Kept([fr EXCEPT !.irqs = x], fr) /\ Kept([fr EXCEPT !.slot = x], fr)
         /\ Kept([fr EXCEPT !.dud = x], fr)
<1>1. Kept([fr EXCEPT !.irqs = x], fr)
  BY DEF IsFrame, Kept
<1>2. Kept([fr EXCEPT !.slot = x], fr)
  BY DEF IsFrame, Kept
<1>3. Kept([fr EXCEPT !.dud = x], fr)
  BY DEF IsFrame, Kept
<1> QED
  BY <1>1, <1>2, <1>3, Zenon

\* So does going to another place.
LEMMA PlaceChanged ==
  ASSUME NEW fr, IsFrame(fr), NEW pc
  PROVE  LET a == [fr EXCEPT !.pc = pc]
         IN  IsFrame(a) /\ a.f = fr.f /\ a.pc = pc /\ a.ie = fr.ie /\ a.spl = fr.spl
             /\ a.old_in = fr.old_in
  BY DEF IsFrame

\* A step of lamebus_interrupt inside its pass over the slots.
LEMMA PassGoesOn ==
  ASSUME IntInv, Top.f = "irq", NEW fr, SetTop(fr), IsFrame(fr),
         fr.f = "irq", fr.pc \in HandlerPcs,
         fr.ie = Top.ie, fr.spl = Top.spl, fr.old_in = Top.old_in,
         UNCHANGED <<cpu, sched>>
  PROVE  ThreadsOK'
<1>1. FrameOK(fr)
  BY Zenon DEF FrameOK
<1>2. PICK r : StackOK(r) /\ Last(r) = fr /\ stk' = [stk EXCEPT ![onstack] = r]
  BY <1>1, TopSet, Zenon
<1>3. CpuOK(Top) /\ FrameOK(Top)
  BY Running, Zenon
<1>4. ie' = FALSE /\ curspl' = 1 /\ in_interrupt' = 1
  BY <1>3, Zenon DEF CpuOK, FrameOK, HandlerPcs, cpu
<1>5. CpuNext(Last(r))
  BY <1>2, <1>4, Zenon DEF CpuNext, HandlerPcs
<1> QED
  BY <1>2, <1>5, OwnStack, Zenon DEF sched

\* mips_interrupt and the steps of lamebus_interrupt that change its frame.
LEMMA PassSteps ==
  ASSUME IntInv, mips_interrupt \/ lamebus_interrupt \/ DudSlot \/ ReloadIrqs
  PROVE  IntInv'
<1>1. CASE mips_interrupt
  <2>1. /\ crash = "no" /\ ie /\ Trap("irq", "bus") /\ in_interrupt' = 1
        /\ strays' \in {strays, strays + 1} /\ (strays' # strays => strays < MaxStrays)
        /\ UNCHANGED <<sched, slotsinuse, irqfuncs, probing, asserting, duds, crash>>
    BY <1>1, Zenon DEF mips_interrupt
  <2>2. CpuOK(Top) /\ FrameOK(Top)
    BY Running, Zenon
  <2>3. Top.pc \in {"run", "on", "idle_on"} /\ ie = TRUE
    BY <2>1, <2>2, Zenon DEF CpuOK
  <2>4. Top.f # "irq" /\ in_interrupt = 0
        /\ curspl = (IF Top.pc = "run" THEN 0 ELSE 1)
    BY <2>2, <2>3, Zenon DEF CpuOK, FrameOK, HandlerPcs
  <2>5. Saved(Top, Frame("irq", "bus"))
    BY <2>3, <2>4, Zenon DEF Saved, Frame
  <2>6. ThreadsOK'
    BY <2>1, <2>5, Trapped, Zenon
  <2>7. strays' \in 0..MaxStrays
    BY <2>1, InterruptsAssumption DEF IntInv, RestOK
  <2>8. RestOK'
    BY <2>1, <2>7, Zenon DEF IntInv, RestOK, sched
  <2> QED
    BY <2>6, <2>8, Zenon DEF IntInv
<1>2. ASSUME NEW pc \in HandlerPcs, At(pc), NEW fr, SetTop(fr),
             IsFrame(Top) => IsFrame(fr) /\ fr.f = Top.f /\ fr.pc \in HandlerPcs /\ fr.ie = Top.ie
                             /\ fr.spl = Top.spl /\ fr.old_in = Top.old_in,
             UNCHANGED <<cpu, sched, slotsinuse, irqfuncs, asserting, strays, crash>>,
             duds' \in Nat
      PROVE  IntInv'
  <2>1. Top.f = "irq" /\ IsFrame(Top)
    BY <1>2, Running, Zenon DEF At, FrameOK, HandlerPcs, CodePcs
  <2>2. ThreadsOK'
    BY <1>2, <2>1, PassGoesOn, Zenon
  <2>3. RestOK'
    BY <1>2, Zenon DEF IntInv, RestOK, sched
  <2> QED
    BY <2>2, <2>3, Zenon DEF IntInv
<1>3. duds \in Nat /\ duds + 1 \in Nat
  BY DEF IntInv, RestOK
<1>4. CASE lamebus_interrupt /\ asserting = {}
  <2>1. /\ At("bus") /\ SetTop([Top EXCEPT !.pc = "out"]) /\ duds' = duds + 1
        /\ UNCHANGED <<cpu, sched, slotsinuse, irqfuncs, asserting, strays, crash>>
    BY <1>4, Zenon DEF lamebus_interrupt, Goto
  <2> DEFINE fr == [Top EXCEPT !.pc = "out"]
  <2>2. IsFrame(Top) => IsFrame(fr) /\ fr.f = Top.f /\ fr.pc \in HandlerPcs /\ fr.ie = Top.ie
                        /\ fr.spl = Top.spl /\ fr.old_in = Top.old_in
    BY DEF IsFrame, HandlerPcs
  <2> HIDE DEF fr
  <2>3. "bus" \in HandlerPcs /\ SetTop(fr)
    BY <2>1, Zenon DEF HandlerPcs, fr
  <2> QED
    BY <1>2, <1>3, <2>1, <2>2, <2>3, Zenon
<1>5. CASE lamebus_interrupt /\ asserting # {}
  <2> DEFINE fr == [Top EXCEPT !.pc = "loop", !.irqs = asserting, !.slot = 1]
  <2>1. /\ At("bus") /\ SetTop(fr) /\ duds' = duds
        /\ UNCHANGED <<cpu, sched, slotsinuse, irqfuncs, asserting, strays, crash>>
    BY <1>5, Zenon DEF lamebus_interrupt
  <2>2. IsFrame(Top) => IsFrame(fr) /\ fr.f = Top.f /\ fr.pc \in HandlerPcs /\ fr.ie = Top.ie
                        /\ fr.spl = Top.spl /\ fr.old_in = Top.old_in
    <3> DEFINE a == [Top EXCEPT !.pc = "loop"]
               b == [a EXCEPT !.irqs = asserting]
    <3> SUFFICES ASSUME IsFrame(Top)
                 PROVE  /\ IsFrame(fr) /\ fr.f = Top.f /\ fr.pc \in HandlerPcs /\ fr.ie = Top.ie
                        /\ fr.spl = Top.spl /\ fr.old_in = Top.old_in
      BY Zenon
    <3>1. /\ IsFrame(a) /\ a.f = Top.f /\ a.pc = "loop" /\ a.ie = Top.ie /\ a.spl = Top.spl
          /\ a.old_in = Top.old_in
      BY PlaceChanged, Zenon
    <3> HIDE DEF a
    <3>2. Kept(b, a)
      BY <3>1, PassFields, Zenon
    <3> HIDE DEF b
    <3>3. Kept([b EXCEPT !.slot = 1], b)
      BY <3>2, PassFields, Zenon DEF Kept
    <3>4. fr = [b EXCEPT !.slot = 1]
      BY Zenon DEF a, b
    <3> HIDE DEF fr
    <3> QED
      BY <3>1, <3>2, <3>3, <3>4, Zenon DEF Kept, HandlerPcs
  <2> HIDE DEF fr
  <2>3. "bus" \in HandlerPcs
    BY Zenon DEF HandlerPcs
  <2> QED
    BY <1>2, <1>3, <2>1, <2>2, <2>3, Zenon
<1>6. CASE DudSlot
  <2> DEFINE fr == [Top EXCEPT !.dud = @ + 1, !.slot = NextSlot + 1]
  <2>1. /\ At("loop") /\ SetTop(fr) /\ duds' = duds + 1
        /\ UNCHANGED <<cpu, sched, slotsinuse, irqfuncs, asserting, strays, crash>>
    BY <1>6, Zenon DEF DudSlot
  <2>2. Top.pc = "loop"
    BY <2>1, Zenon DEF At
  <2>3. IsFrame(Top) => IsFrame(fr) /\ fr.f = Top.f /\ fr.pc \in HandlerPcs /\ fr.ie = Top.ie
                        /\ fr.spl = Top.spl /\ fr.old_in = Top.old_in
    <3> DEFINE a == [Top EXCEPT !.dud = @ + 1]
    <3> SUFFICES ASSUME IsFrame(Top)
                 PROVE  /\ IsFrame(fr) /\ fr.f = Top.f /\ fr.pc \in HandlerPcs /\ fr.ie = Top.ie
                        /\ fr.spl = Top.spl /\ fr.old_in = Top.old_in
      BY Zenon
    <3>1. Kept(a, Top)
      BY PassFields, Zenon
    <3> HIDE DEF a
    <3>2. Kept([a EXCEPT !.slot = NextSlot + 1], a)
      BY <3>1, PassFields, Zenon DEF Kept
    <3>3. fr = [a EXCEPT !.slot = NextSlot + 1]
      BY Zenon DEF a
    <3> HIDE DEF fr
    <3> QED
      BY <2>2, <3>1, <3>2, <3>3, Zenon DEF Kept, HandlerPcs
  <2> HIDE DEF fr
  <2>4. "loop" \in HandlerPcs
    BY Zenon DEF HandlerPcs
  <2> QED
    BY <1>2, <1>3, <2>1, <2>3, <2>4, Zenon
<1>7. CASE ReloadIrqs
  <2> DEFINE fr == [Top EXCEPT !.pc = "loop", !.irqs = asserting, !.slot = NextSlot + 1]
  <2>1. At("reload") /\ SetTop(fr) /\ UNCHANGED <<cpu, sched, bus, crash>>
    BY <1>7, Zenon DEF ReloadIrqs
  <2>2. duds' = duds /\ UNCHANGED <<slotsinuse, irqfuncs, asserting, strays>>
    BY <2>1, Zenon DEF bus
  <2>3. IsFrame(Top) => IsFrame(fr) /\ fr.f = Top.f /\ fr.pc \in HandlerPcs /\ fr.ie = Top.ie
                        /\ fr.spl = Top.spl /\ fr.old_in = Top.old_in
    <3> DEFINE a == [Top EXCEPT !.pc = "loop"]
               b == [a EXCEPT !.irqs = asserting]
    <3> SUFFICES ASSUME IsFrame(Top)
                 PROVE  /\ IsFrame(fr) /\ fr.f = Top.f /\ fr.pc \in HandlerPcs /\ fr.ie = Top.ie
                        /\ fr.spl = Top.spl /\ fr.old_in = Top.old_in
      BY Zenon
    <3>1. /\ IsFrame(a) /\ a.f = Top.f /\ a.pc = "loop" /\ a.ie = Top.ie /\ a.spl = Top.spl
          /\ a.old_in = Top.old_in
      BY PlaceChanged, Zenon
    <3> HIDE DEF a
    <3>2. Kept(b, a)
      BY <3>1, PassFields, Zenon
    <3> HIDE DEF b
    <3>3. Kept([b EXCEPT !.slot = NextSlot + 1], b)
      BY <3>2, PassFields, Zenon DEF Kept
    <3>4. fr = [b EXCEPT !.slot = NextSlot + 1]
      BY Zenon DEF a, b
    <3> HIDE DEF fr
    <3> QED
      BY <3>1, <3>2, <3>3, <3>4, Zenon DEF Kept, HandlerPcs
  <2> HIDE DEF fr
  <2>4. "reload" \in HandlerPcs
    BY Zenon DEF HandlerPcs
  <2> QED
    BY <1>2, <1>3, <2>1, <2>2, <2>3, <2>4, Zenon
<1> QED
  BY <1>1, <1>4, <1>5, <1>6, <1>7, Zenon

\* The handlers, the timer's switch among them, the end of the pass, the return
\* from the interrupt.
LEMMA HandlerSteps ==
  ASSUME IntInv, CallHandler \/ CheckDuds \/ InterruptReturns
  PROVE  IntInv'
<1>1. CASE CallHandler
  <2>1. /\ At("loop") /\ asserting' = asserting \ {NextSlot}
        /\ UNCHANGED <<ie, curspl, slotsinuse, irqfuncs, strays, duds, crash>>
        /\ \/ mi_switch(ready \cup {curthread}, asleep, "reload")
           \/ /\ Wakeup /\ Goto("reload")
              /\ UNCHANGED <<in_interrupt, curkstack, curthread, onstack, pcb>>
    BY <1>1, Zenon DEF CallHandler
  <2>2. FrameOK(Top) /\ CpuOK(Top) /\ Top.pc = "loop"
    BY <2>1, Running, Zenon DEF At
  <2>3. Top.f = "irq" /\ ie = FALSE /\ curspl = 1 /\ MayBeAt("reload")
    BY <2>2, Zenon DEF FrameOK, CpuOK, CodePcs, HandlerPcs, MayBeAt
  <2>4. /\ onstack \in IThread /\ curthread \in IThread \cup {NoThread}
        /\ ready \subseteq IThread /\ asleep \subseteq IThread
    BY Zenon DEF IntInv, RestOK
  <2>5. /\ ThreadsOK'
        /\ onstack' \in IThread /\ curthread' \in IThread \cup {NoThread}
        /\ ready' \subseteq IThread /\ asleep' \subseteq IThread
    <3>1. CASE mi_switch(ready \cup {curthread}, asleep, "reload") /\ curthread # NoThread
      <4>1. ready \cup {curthread} \in SUBSET IThread /\ ready \cup {curthread} # {}
        BY <2>4, <3>1, Zenon
      <4> QED
        BY <2>1, <2>3, <2>4, <3>1, <4>1, MiSwitched, Zenon
    <3>2. CASE mi_switch(ready \cup {curthread}, asleep, "reload") /\ curthread = NoThread
      <4>1. /\ Goto("reload") /\ UNCHANGED <<curkstack, curthread, onstack, pcb, in_interrupt>>
            /\ ready' = ready /\ asleep' = asleep
        BY <3>2, Zenon DEF mi_switch
      <4>2. ThreadsOK'
        BY <2>1, <2>3, <4>1, OnItsWay, Zenon
      <4> QED
        BY <2>4, <4>1, <4>2, Zenon
    <3>3. CASE /\ Wakeup /\ Goto("reload")
               /\ UNCHANGED <<in_interrupt, curkstack, curthread, onstack, pcb>>
      <4>1. ready' \subseteq IThread /\ asleep' \subseteq IThread
        BY <2>4, <3>3, Zenon DEF Wakeup
      <4>2. ThreadsOK'
        BY <2>1, <2>3, <3>3, OnItsWay, Zenon
      <4> QED
        BY <2>4, <3>3, <4>1, <4>2, Zenon
    <3> QED
      BY <2>1, <3>1, <3>2, <3>3, Zenon
  <2>6. RestOK'
    BY <2>1, <2>5, Zenon DEF IntInv, RestOK
  <2> QED
    BY <2>5, <2>6, Zenon DEF IntInv
<1>2. CASE CheckDuds
  <2>1. /\ At("loop") /\ duds' \in {0, duds}
        /\ \/ crash' = "duds" /\ UNCHANGED stk
           \/ Goto("out") /\ UNCHANGED crash
        /\ UNCHANGED <<cpu, sched, slotsinuse, irqfuncs, asserting, strays>>
    BY <1>2, Zenon DEF CheckDuds
  <2>2. RestOK'
    BY <2>1 DEF IntInv, RestOK, sched
  <2>3. CASE crash' = "duds" /\ UNCHANGED stk
    BY <2>1, <2>2, <2>3, Panicked, Zenon
  <2>4. CASE Goto("out") /\ UNCHANGED crash
    <3>1. FrameOK(Top) /\ CpuOK(Top) /\ Top.pc = "loop"
      BY <2>1, Running, Zenon DEF At
    <3>2. ie = FALSE /\ curspl = 1 /\ MayBeAt("out")
      BY <3>1, Zenon DEF FrameOK, CpuOK, CodePcs, HandlerPcs, MayBeAt
    <3>3. UNCHANGED <<ie, curspl, curkstack, curthread, onstack, pcb, in_interrupt>>
      BY <2>1, Zenon DEF cpu, sched
    <3>4. ThreadsOK'
      BY <2>4, <3>2, <3>3, OnItsWay, Zenon
    <3> QED
      BY <2>2, <3>4, Zenon DEF IntInv
  <2> QED
    BY <2>1, <2>3, <2>4, Zenon
<1>3. CASE InterruptReturns
  <2>1. At("out") /\ in_interrupt' = Top.old_in /\ mips_trap_done /\ UNCHANGED <<sched, bus>>
    BY <1>3, Zenon DEF InterruptReturns
  <2>2. FrameOK(Top) /\ Top.pc = "out" /\ StackOK(stk[onstack]) /\ Top = Last(stk[onstack])
    BY <2>1, Running, Zenon DEF At
  <2>3. Top.f = "irq"
    BY <2>2, Zenon DEF FrameOK, CodePcs, HandlerPcs
  <2>4. Saved(Last(Front(stk[onstack])), Top)
    BY <2>2, <2>3, TopPopped, Zenon
  <2>5. in_interrupt' = 0
    BY <2>1, <2>4, Zenon DEF Saved
  <2>6. ThreadsOK' /\ crash' = "no"
    BY <2>1, <2>3, <2>5, TrapReturned, Zenon
  <2>7. crash' = crash
    BY <2>1, <2>6, Zenon DEF At
  <2>8. RestOK'
    BY <2>1, <2>7, RestKept, Zenon DEF sched
  <2> QED
    BY <2>6, <2>8, Zenon DEF IntInv
<1> QED
  BY <1>1, <1>2, <1>3, Zenon

\* The cards and the drivers that attach leave the processor alone.
LEMMA BusSteps ==
  ASSUME IntInv, CardAsserts \/ lamebus_mark \/ lamebus_attach_interrupt
  PROVE  IntInv'
<1>1. UNCHANGED <<cpu, sched, stk, strays, duds, crash>>
  BY Zenon DEF CardAsserts, lamebus_mark, lamebus_attach_interrupt
<1>2. RestOK
  BY Zenon DEF IntInv
<1>3. CASE CardAsserts
  <2>1. asserting' \subseteq Slots /\ UNCHANGED <<slotsinuse, irqfuncs>>
    BY <1>2, <1>3, Zenon DEF CardAsserts, RestOK
  <2>2. RestOK'
    BY <1>1, <1>2, <2>1, Zenon DEF RestOK, sched
  <2> QED
    BY <1>1, <2>2, Panicked, Zenon
<1>4. CASE lamebus_mark
  <2>1. slotsinuse' \subseteq Slots /\ slotsinuse \subseteq slotsinuse' /\ UNCHANGED <<irqfuncs, asserting>>
    BY <1>2, <1>4, Zenon DEF lamebus_mark, lamebus_probe, RestOK
  <2>2. RestOK'
    BY <1>1, <1>2, <2>1, Zenon DEF RestOK, sched
  <2> QED
    BY <1>1, <2>2, Panicked, Zenon
<1>5. CASE lamebus_attach_interrupt
  <2>1. irqfuncs' \subseteq slotsinuse /\ UNCHANGED <<slotsinuse, asserting>>
    BY <1>2, <1>5, Zenon DEF lamebus_attach_interrupt, RestOK
  <2>2. RestOK'
    BY <1>1, <1>2, <2>1, Zenon DEF RestOK, sched
  <2> QED
    BY <1>1, <2>2, Panicked, Zenon
<1> QED
  BY <1>3, <1>4, <1>5, Zenon
----------------------------------------------------------------------------
\* The bootstrap begins with interrupts off and every other thread not yet run.
LEMMA IntInvInit == IntInit => IntInv
<1> SUFFICES ASSUME IntInit PROVE IntInv
  BY Zenon
<1> DEFINE b == Base("start")
<1>1. b.f = "kern" /\ b.pc = "start" /\ IsFrame(b)
  BY Zenon DEF Base, IsFrame
<1>2. stk = [t \in IThread |-> <<b>>] /\ onstack = Main /\ Main \in IThread
  BY InterruptsAssumption, Zenon DEF IntInit
<1> HIDE DEF b
<1>3. FrameOK(b)
  BY <1>1, Zenon DEF FrameOK, CodePcs
<1>4. /\ <<b>> \in Seq({b}) /\ Len(<<b>>) = 1 /\ <<b>>[1] = b /\ <<b>> # <<>>
  OBVIOUS
<1>5. <<b>> \in Seq(Items(<<b>>))
  BY <1>4, SeqOfItems, Zenon
<1>6. StackOK(<<b>>)
  BY <1>1, <1>3, <1>4, <1>5 DEF StackOK
<1>7. Last(<<b>>) = b
  BY <1>4, Zenon DEF Last
<1>8. Top = b
  BY <1>2, <1>7, Zenon DEF Top
<1>9. CpuOK(Top)
  BY <1>1, <1>8, Zenon DEF CpuOK, IntInit
<1>10. ASSUME NEW t \in IThread PROVE SwitchedAway(t)
  BY <1>1, <1>2, <1>7, Zenon DEF SwitchedAway, IntInit
<1>11. ThreadsOK
  BY <1>2, <1>6, <1>9, <1>10, Zenon DEF ThreadsOK, IntInit
<1>12. RestOK
  BY InterruptsAssumption DEF RestOK, IntInit, Slots
<1> QED
  BY <1>11, <1>12, Zenon DEF IntInv

\* Every step of the processor and of the cards keeps the invariant.
LEMMA IntInvStep == IntInv /\ [IntNext]_int_vars => IntInv'
<1> SUFFICES ASSUME IntInv, [IntNext]_int_vars PROVE IntInv'
  BY Zenon
<1>1. CASE UNCHANGED int_vars
  <2>1. UNCHANGED <<cpu, sched, stk, bus, crash>>
    BY <1>1, Zenon DEF int_vars
  <2>2. RestOK'
    BY <2>1, RestKept, Zenon DEF sched
  <2> QED
    BY <2>1, <2>2, Panicked, Zenon
<1>2. CASE Instruction
  BY <1>2, LevelSteps, SwitchSteps, TrapSteps, PassSteps, HandlerSteps, BusSteps, Zenon DEF Instruction
<1>3. CASE mips_interrupt \/ CardAsserts
  BY <1>3, PassSteps, BusSteps, Zenon
<1> QED
  BY <1>1, <1>2, <1>3, Zenon DEF IntNext

\* What the invariant says of the processor's level.
LEMMA LevelsAreTrue == IntInv => LevelsTrue
<1> SUFFICES ASSUME IntInv PROVE LevelsTrue
  BY Zenon
<1>1. RestOK /\ FrameOK(Top) /\ CpuOK(Top) /\ curkstack = onstack
  BY Running, Zenon DEF IntInv
<1>2. ie \in BOOLEAN /\ curspl \in 0..1 /\ in_interrupt \in 0..1
  <2>1. ie = TRUE \/ ie = FALSE
    BY <1>1, Zenon DEF CpuOK
  <2>2. curspl \in 0..1 /\ in_interrupt \in 0..1
    BY <1>1 DEF CpuOK
  <2> QED
    BY <2>1, <2>2, Zenon
<1>3. \A t \in IThread : stk[t] # <<>>
  BY Zenon DEF IntInv, ThreadsOK, StackOK
<1>4. IntTypeOK /\ crash \notin {"spl", "stack"}
  BY <1>1, <1>2, <1>3, Zenon DEF IntTypeOK, RestOK
<1>5. Top.pc = "run" => ie /\ curspl = 0
  BY <1>1, Zenon DEF CpuOK
<1>6. Top.pc \in {"high", "idle", "enter", "start"} => ~ie /\ curspl = 1
  BY <1>1, Zenon DEF CpuOK
<1>7. InHandler => ~ie /\ curspl = 1 /\ in_interrupt = 1
  BY <1>1, Zenon DEF CpuOK, InHandler, FrameOK, HandlerPcs
<1>8. ~InHandler => in_interrupt = 0
  BY <1>1, Zenon DEF CpuOK, InHandler
<1> QED
  BY <1>1, <1>4, <1>5, <1>6, <1>7, <1>8, Zenon DEF LevelsTrue

\* However deep exceptions nest and whoever is switched to inside a handler, each
\* stack is one the returns can unwind: what mips_trap saved is the level and the
\* enable bit of the code below it, handlers do not nest, and a thread that is
\* not running was left with interrupts off.
THEOREM IntInvariant == IntSpec => []IntInv
  BY IntInvInit, IntInvStep, PTL DEF IntSpec

\* spl.c, trap.c and pcb.c, for any threads, cards and drivers: curspl is the
\* processor's level wherever code relies on it, in_interrupt is set in handlers
\* only, and no assertion about the level or the kernel stack fails.
THEOREM LevelsAlwaysTrue == IntSpec => []LevelsTrue
  BY IntInvariant, LevelsAreTrue, PTL

----------------------------------------------------------------------------
(* lhd.c: the inductive invariant.                                         *)

Busy == {"fill", "go", "wait", "finish"}
Data == {NoData} \cup ({NoData} \cup LhdThread) \X Nat

DataTypeOK ==
  /\ moved \in [LhdThread -> Seq(Data)]
  /\ buf \in Data
  /\ disk \in [Sectors -> Data]

\* Between P(lh_clear) and V(lh_clear) there is one thread.
OneUser ==
  /\ lh_clear = 1 \/ \E t \in LhdThread : lhd_pc[t] \in Busy
  /\ \A t \in LhdThread : lhd_pc[t] \in Busy => lh_clear = 0
  /\ \A t, u \in LhdThread : lhd_pc[t] \in Busy /\ lhd_pc[u] \in Busy => t = u

\* The checks of lhd_io hold for as long as its loop runs.
InRange(t) ==
  /\ lhd_pc[t] \in Busy \cup {"loop"} =>
       req[t].sector + req[t].len <= Blocks /\ done[t] <= req[t].len
  /\ lhd_pc[t] \in Busy => done[t] < req[t].len
  /\ lhd_pc[t] = "start" => done[t] = 0
  /\ lhd_pc[t] = "fill" => req[t].rw = "write"
  /\ req[t].rw = "read" => Len(moved[t]) = done[t]

\* The card and the driver's result word, while thread t uses the device.
Serves(t) ==
  /\ lhd_pc[t] \in {"fill", "go", "finish"} => stat = "idle" /\ lh_done = 0
  /\ lhd_pc[t] \in {"wait", "finish"} => sect = req[t].sector + done[t]
  /\ lhd_pc[t] = "wait" =>
       /\ (lh_done > 0) # (stat # "idle")
       /\ stat = "reading" => req[t].rw = "read"
       /\ stat = "writing" => req[t].rw = "write"
       /\ stat = "OK" => fate = "ok"
       /\ stat = "MEDIA" => fate = "EIO"
       /\ stat # "INVSECT"
       /\ lh_done > 0 => lh_result = fate
  /\ lhd_pc[t] = "finish" => lh_result = fate
  /\ req[t].rw = "write" /\ (lhd_pc[t] = "go" \/ (lhd_pc[t] = "wait" /\ stat = "writing")) =>
       buf = <<t, done[t] + 1>>
  /\ req[t].rw = "read" /\ fate = "ok" /\
       (lhd_pc[t] = "finish" \/ (lhd_pc[t] = "wait" /\ (stat = "OK" \/ lh_done > 0))) =>
       buf = disk[sect]

LhdInv ==
  /\ LhdTypeOK
  /\ DataTypeOK
  /\ OneUser
  /\ \A t \in LhdThread : InRange(t)
  /\ \A t \in LhdThread : lhd_pc[t] \in Busy => Serves(t)
  /\ lh_clear = 1 => stat = "idle" /\ lh_done = 0

\* After config_lhd nothing is under way.
LEMMA LhdInvInit == LhdInit => LhdInv
<1> SUFFICES ASSUME LhdInit PROVE LhdInv
  BY Zenon
<1> USE DEF LhdInit
<1>1. LhdTypeOK
  BY DEF LhdTypeOK
<1>2. DataTypeOK
  BY LhdAssumption DEF DataTypeOK, Data, Sectors, OldDisk
<1>3. OneUser /\ (lh_clear = 1 => stat = "idle" /\ lh_done = 0)
  BY Zenon DEF OneUser, Busy
<1>4. \A t \in LhdThread : InRange(t)
  BY Zenon DEF InRange, Busy
<1>5. \A t \in LhdThread : lhd_pc[t] \in Busy => Serves(t)
  BY Zenon DEF Busy
<1> QED
  BY <1>1, <1>2, <1>3, <1>4, <1>5, Zenon DEF LhdInv

\* The fields of a request.
LEMMA RequestType ==
  ASSUME LhdTypeOK, NEW t \in LhdThread
  PROVE  /\ req[t].rw \in {"read", "write"}
         /\ req[t].sector \in Nat /\ req[t].len \in Nat
         /\ done[t] \in Nat
  BY LhdAssumption DEF LhdTypeOK


\* Only thread t moves.
OthersStay(t) ==
  /\ req' = req
  /\ \A u \in LhdThread \ {t} :
       lhd_pc'[u] = lhd_pc[u] /\ done'[u] = done[u] /\ moved'[u] = moved[u]

\* A step of a thread that does not have the device and does not take it.
LEMMA IdleStep ==
  ASSUME LhdInv, NEW t \in LhdThread, LhdTypeOK', DataTypeOK', OthersStay(t),
         UNCHANGED <<drv, card>>, lhd_pc[t] \notin Busy, lhd_pc'[t] \notin Busy,
         InRange(t)'
  PROVE  LhdInv'
<1>1. ASSUME NEW u \in LhdThread PROVE InRange(u)'
  BY <1>1 DEF OthersStay, LhdInv, InRange
<1>2. OneUser'
  BY Zenon DEF OthersStay, LhdInv, OneUser, drv
<1>3. ASSUME NEW u \in LhdThread, lhd_pc'[u] \in Busy PROVE Serves(u)'
  <2>1. u # t /\ lhd_pc'[u] = lhd_pc[u] /\ done'[u] = done[u] /\ req' = req
    BY <1>3, Zenon DEF OthersStay
  <2>2. Serves(u)
    BY <1>3, <2>1, Zenon DEF LhdInv
  <2> QED
    BY <2>1, <2>2, Zenon DEF Serves, drv, card
<1>4. (lh_clear = 1 => stat = "idle" /\ lh_done = 0)'
  BY Zenon DEF LhdInv, drv, card
<1> QED
  BY <1>1, <1>2, <1>3, <1>4, Zenon DEF LhdInv

\* A step of the thread that has the device, or takes it.
LEMMA UserStep ==
  ASSUME LhdInv, NEW t \in LhdThread, LhdTypeOK', DataTypeOK', OthersStay(t),
         lhd_pc[t] \in Busy \/ lh_clear = 1,
         lhd_pc'[t] \in Busy => lh_clear' = 0 /\ Serves(t)',
         lhd_pc'[t] \notin Busy => lh_clear' = 1 /\ stat' = "idle" /\ lh_done' = 0,
         InRange(t)'
  PROVE  LhdInv'
<1>1. ASSUME NEW u \in LhdThread PROVE InRange(u)'
  BY <1>1, Zenon DEF OthersStay, LhdInv, InRange
<1>2. ASSUME NEW u \in LhdThread, u # t PROVE lhd_pc[u] \notin Busy /\ lhd_pc'[u] \notin Busy
  BY <1>2 DEF OthersStay, LhdInv, OneUser
<1>3. OneUser'
  BY <1>2, Zenon DEF OneUser
<1>4. ASSUME NEW u \in LhdThread, lhd_pc'[u] \in Busy PROVE Serves(u)'
  BY <1>2, <1>4, Zenon
<1>5. (lh_clear = 1 => stat = "idle" /\ lh_done = 0)'
  OBVIOUS
<1> QED
  BY <1>1, <1>3, <1>4, <1>5, Zenon DEF LhdInv

\* The steps of a thread t in lhd_io keep the invariant.
LEMMA LhdThreadStep ==
  ASSUME LhdInv, NEW t \in LhdThread, LhdStep(t)
  PROVE  LhdInv'
<1> USE DEF thr, drv, card
<1>0. LhdTypeOK /\ DataTypeOK /\ OneUser /\ InRange(t)
  BY Zenon DEF LhdInv
<1>s. lhd_pc[t] \in Busy => Serves(t) /\ lh_clear = 0
  BY Zenon DEF LhdInv, OneUser
<1>c. lh_clear = 1 => stat = "idle" /\ lh_done = 0
  BY Zenon DEF LhdInv
<1>q. /\ req[t].rw \in {"read", "write"}
      /\ req[t].sector \in Nat /\ req[t].len \in Nat /\ done[t] \in Nat
  BY <1>0, RequestType, Zenon
<1>b. Blocks \in Nat
  BY LhdAssumption, Zenon
<1>1. CASE lhd_io(t)
  <2>1. /\ lhd_pc[t] = "start"
        /\ \/ /\ lhd_pc' = [lhd_pc EXCEPT ![t] = "returned"]
              /\ result' = [result EXCEPT ![t] = "EINVAL"]
           \/ /\ lhd_pc' = [lhd_pc EXCEPT ![t] = "loop"] /\ result' = result
              /\ ~(req[t].sector + req[t].len > Blocks)
        /\ UNCHANGED <<req, done, moved, drv, card>>
    BY <1>1, Zenon DEF lhd_io, LhdReturn, LhdGoto
  <2>2. LhdTypeOK' /\ DataTypeOK'
    BY <1>0, <2>1, Zenon DEF LhdTypeOK, DataTypeOK
  <2>3. InRange(t)'
    BY <1>0, <1>q, <1>b, <2>1 DEF InRange, LhdTypeOK, Busy
  <2>4. OthersStay(t) /\ lhd_pc[t] \notin Busy /\ lhd_pc'[t] \notin Busy
    BY <1>0, <2>1, Zenon DEF OthersStay, LhdTypeOK, Busy
  <2> QED
    BY <2>1, <2>2, <2>3, <2>4, IdleStep, Zenon
<1>2. CASE LoopEnds(t)
  <2>1. /\ lhd_pc[t] = "loop" /\ lhd_pc' = [lhd_pc EXCEPT ![t] = "returned"]
        /\ result' = [result EXCEPT ![t] = "ok"]
        /\ UNCHANGED <<req, done, moved, drv, card>>
    BY <1>2, Zenon DEF LoopEnds, LhdReturn, LhdGoto
  <2>2. LhdTypeOK' /\ DataTypeOK'
    BY <1>0, <2>1, Zenon DEF LhdTypeOK, DataTypeOK
  <2>3. InRange(t)'
    BY <1>0, <2>1, Zenon DEF InRange, LhdTypeOK, Busy
  <2>4. OthersStay(t) /\ lhd_pc[t] \notin Busy /\ lhd_pc'[t] \notin Busy
    BY <1>0, <2>1, Zenon DEF OthersStay, LhdTypeOK, Busy
  <2> QED
    BY <2>1, <2>2, <2>3, <2>4, IdleStep, Zenon
<1>3. CASE TakeDevice(t)
  <2>1. /\ lhd_pc[t] = "loop" /\ done[t] < req[t].len
        /\ lh_clear = 1 /\ lh_clear' = 0
        /\ lhd_pc' = [lhd_pc EXCEPT ![t] = IF req[t].rw = "write" THEN "fill" ELSE "go"]
        /\ UNCHANGED <<req, done, moved, result, lh_done, lh_result, card>>
    BY <1>0, <1>3 DEF TakeDevice, LhdGoto, LhdTypeOK
  <2>2. LhdTypeOK' /\ DataTypeOK'
    BY <1>0, <2>1 DEF LhdTypeOK, DataTypeOK
  <2>3. /\ InRange(t)' /\ Serves(t)' /\ lhd_pc'[t] \in Busy
    BY <1>0, <1>q, <1>c, <2>1, Zenon DEF InRange, Serves, LhdTypeOK, Busy
  <2>4. OthersStay(t)
    BY <1>0, <2>1, Zenon DEF OthersStay, LhdTypeOK
  <2> QED
    BY <2>1, <2>2, <2>3, <2>4, UserStep, Zenon
<1>4. CASE FillBuffer(t)
  <2>1. /\ lhd_pc[t] = "fill"
        /\ UNCHANGED <<req, done, moved, lh_done, lh_result, sect, stat, disk, fate>>
    BY <1>4, Zenon DEF FillBuffer
  <2>2. lhd_pc[t] \in Busy /\ stat = "idle" /\ lh_done = 0 /\ lh_clear = 0
    BY <1>s, <2>1, Zenon DEF Busy, Serves
  <2>3. OthersStay(t)
    BY <1>0, <1>4, Zenon DEF FillBuffer, LhdReturn, LhdGoto, OthersStay, LhdTypeOK
  <2>4. CASE buf' = <<t, done[t] + 1>> /\ LhdGoto(t, "go") /\ UNCHANGED <<result, lh_clear>>
    <3>1. LhdTypeOK'
      BY <1>0, <2>1, <2>4, Zenon DEF LhdTypeOK, LhdGoto
    <3>2. <<t, done[t] + 1>> \in Data
      BY <1>q DEF Data
    <3>3. DataTypeOK'
      BY <1>0, <2>1, <2>4, <3>2, Zenon DEF DataTypeOK
    <3>4. InRange(t)' /\ Serves(t)' /\ lhd_pc'[t] \in Busy
      BY <1>0, <1>q, <2>1, <2>2, <2>4, Zenon DEF InRange, Serves, LhdTypeOK, Busy, LhdGoto
    <3> QED
      BY <2>2, <2>3, <2>4, <3>1, <3>3, <3>4, UserStep, Zenon
  <2>5. CASE LhdReturn(t, "EFAULT") /\ lh_clear' = lh_clear + 1 /\ UNCHANGED buf
    <3>1. LhdTypeOK' /\ DataTypeOK'
      BY <1>0, <2>1, <2>2, <2>5 DEF LhdTypeOK, DataTypeOK, LhdGoto, LhdReturn
    <3>2. InRange(t)' /\ lhd_pc'[t] \notin Busy
      BY <1>0, <2>1, <2>5, Zenon DEF InRange, LhdTypeOK, Busy, LhdGoto, LhdReturn
    <3> QED
      BY <2>1, <2>2, <2>3, <2>5, <3>1, <3>2, UserStep
  <2> QED
    BY <1>4, <2>4, <2>5, Zenon DEF FillBuffer
<1>5. CASE StartOperation(t)
  <2>1. /\ lhd_pc[t] = "go" /\ lhd_pc' = [lhd_pc EXCEPT ![t] = "wait"]
        /\ sect' = req[t].sector + done[t]
        /\ stat' = IF req[t].rw = "write" THEN "writing" ELSE "reading"
        /\ UNCHANGED <<req, done, moved, result, drv, buf, disk, fate>>
    BY <1>5, Zenon DEF StartOperation, LhdGoto
  <2>2. lhd_pc[t] \in Busy /\ stat = "idle" /\ lh_done = 0 /\ lh_clear = 0
    BY <1>s, <2>1, Zenon DEF Busy, Serves
  <2>3. LhdTypeOK' /\ DataTypeOK'
    BY <1>0, <1>q, <2>1 DEF LhdTypeOK, DataTypeOK
  <2>4. InRange(t)' /\ lhd_pc'[t] \in Busy
    BY <1>0, <2>1, Zenon DEF InRange, LhdTypeOK, Busy
  <2>5. Serves(t)'
    BY <1>0, <1>s, <1>q, <2>1, <2>2 DEF Serves, LhdTypeOK, Busy
  <2>6. OthersStay(t)
    BY <1>0, <2>1, Zenon DEF OthersStay, LhdTypeOK
  <2> QED
    BY <2>1, <2>2, <2>3, <2>4, <2>5, <2>6, UserStep, Zenon
<1>6. CASE AwaitDone(t)
  <2>1. /\ lhd_pc[t] = "wait" /\ lhd_pc' = [lhd_pc EXCEPT ![t] = "finish"]
        /\ lh_done = 1 /\ lh_done' = 0
        /\ UNCHANGED <<req, done, moved, result, lh_clear, lh_result, card>>
    BY <1>0, <1>6 DEF AwaitDone, LhdGoto, LhdTypeOK
  <2>2. lhd_pc[t] \in Busy /\ lh_clear = 0
    BY <1>s, <2>1, Zenon DEF Busy
  <2>3. LhdTypeOK' /\ DataTypeOK'
    BY <1>0, <2>1 DEF LhdTypeOK, DataTypeOK
  <2>4. InRange(t)' /\ lhd_pc'[t] \in Busy
    BY <1>0, <2>1, Zenon DEF InRange, LhdTypeOK, Busy
  <2>5. Serves(t)'
    BY <1>0, <1>s, <2>1, <2>2 DEF Serves, LhdTypeOK
  <2>6. OthersStay(t)
    BY <1>0, <2>1, Zenon DEF OthersStay, LhdTypeOK
  <2> QED
    BY <2>1, <2>2, <2>3, <2>4, <2>5, <2>6, UserStep, Zenon
<1>7. CASE FinishSector(t)
  <2>1. /\ lhd_pc[t] = "finish" /\ lh_clear' = lh_clear + 1
        /\ UNCHANGED <<req, lh_done, lh_result, card>>
    BY <1>7, Zenon DEF FinishSector
  <2>2. lhd_pc[t] \in Busy /\ stat = "idle" /\ lh_done = 0 /\ lh_clear = 0
    BY <1>s, <2>1, Zenon DEF Busy, Serves
  <2>3. OthersStay(t)
    BY <1>0, <1>7 DEF FinishSector, LhdReturn, LhdGoto, OthersStay, LhdTypeOK, DataTypeOK
  <2>4. CASE /\ lh_result = "ok" /\ UNCHANGED result
             /\ moved' = IF req[t].rw = "read" THEN [moved EXCEPT ![t] = Append(@, buf)]
                         ELSE moved
             /\ done' = [done EXCEPT ![t] = @ + 1]
             /\ LhdGoto(t, "loop")
    <3>1. LhdTypeOK'
      BY <1>0, <1>q, <2>1, <2>2, <2>4 DEF LhdTypeOK, LhdGoto
    <3>2. Append(moved[t], buf) \in Seq(Data) /\ Len(Append(moved[t], buf)) = Len(moved[t]) + 1
      BY <1>0 DEF DataTypeOK
    <3>3. DataTypeOK'
      BY <1>0, <2>1, <2>4, <3>2, Zenon DEF DataTypeOK
    <3>4. moved'[t] = IF req[t].rw = "read" THEN Append(moved[t], buf) ELSE moved[t]
      BY <1>0, <2>4, Zenon DEF DataTypeOK
    <3>a. lhd_pc'[t] = "loop" /\ done'[t] = done[t] + 1 /\ req' = req
      BY <1>0, <2>1, <2>4, Zenon DEF LhdTypeOK, LhdGoto
    <3>b. /\ req[t].sector + req[t].len <= Blocks /\ done[t] < req[t].len
          /\ req[t].rw = "read" => Len(moved[t]) = done[t]
      BY <1>0, <2>1, Zenon DEF InRange, Busy
    <3>c. req[t].rw = "read" => Len(moved'[t]) = done'[t]
      BY <3>2, <3>4, <3>a, <3>b, Zenon
    <3>5. InRange(t)' /\ lhd_pc'[t] \notin Busy
      BY <1>q, <3>a, <3>b, <3>c DEF InRange, Busy
    <3> QED
      BY <2>1, <2>2, <2>3, <3>1, <3>3, <3>5, UserStep
  <2>5. CASE /\ UNCHANGED <<moved, done>>
             /\ \/ LhdReturn(t, "EFAULT")
                \/ lh_result # "ok" /\ LhdReturn(t, lh_result)
    <3>1. /\ result' \in [LhdThread -> {"none", "ok", "EINVAL", "EIO", "EFAULT"}]
          /\ lhd_pc' = [lhd_pc EXCEPT ![t] = "returned"]
      BY <1>0, <2>5, Zenon DEF LhdTypeOK, LhdGoto, LhdReturn
    <3>2. LhdTypeOK' /\ DataTypeOK'
      BY <1>0, <2>1, <2>2, <2>5, <3>1 DEF LhdTypeOK, DataTypeOK
    <3>3. InRange(t)' /\ lhd_pc'[t] \notin Busy
      BY <1>0, <2>1, <2>5, Zenon DEF InRange, LhdTypeOK, Busy, LhdGoto, LhdReturn
    <3> QED
      BY <2>1, <2>2, <2>3, <3>2, <3>3, UserStep
  <2> QED
    BY <1>7, <2>4, <2>5, Zenon DEF FinishSector
<1> QED
  BY <1>1, <1>2, <1>3, <1>4, <1>5, <1>6, <1>7, Zenon DEF LhdStep

\* While the card is not idle, the one thread that uses it waits for it.
LEMMA CardHasUser ==
  ASSUME LhdInv, stat # "idle"
  PROVE  \E t \in LhdThread : lhd_pc[t] = "wait" /\ Serves(t) /\ InRange(t)
<1>1. lh_clear # 1
  BY Zenon DEF LhdInv
<1>2. PICK t \in LhdThread : lhd_pc[t] \in Busy
  BY <1>1, Zenon DEF LhdInv, OneUser
<1>3. Serves(t) /\ InRange(t)
  BY <1>2, Zenon DEF LhdInv
<1> QED
  BY <1>2, <1>3, Zenon DEF Serves, Busy

\* A step of the card or of its interrupt handler, for the thread t that waits.
LEMMA CardStep ==
  ASSUME LhdInv, NEW t \in LhdThread, lhd_pc[t] = "wait",
         LhdTypeOK', DataTypeOK', UNCHANGED <<thr, lh_clear>>, Serves(t)'
  PROVE  LhdInv'
<1>1. OthersStay(t) /\ lhd_pc[t] \in Busy /\ lhd_pc'[t] \in Busy
  BY Zenon DEF OthersStay, thr, Busy
<1>2. lh_clear' = 0
  BY <1>1, Zenon DEF LhdInv, OneUser
<1>3. InRange(t)'
  BY Zenon DEF LhdInv, InRange, thr
<1> QED
  BY <1>1, <1>2, <1>3, UserStep, Zenon

\* What Operate and lhd_irq do keeps the invariant.
LEMMA LhdCardStep ==
  ASSUME LhdInv, Operate \/ lhd_irq
  PROVE  LhdInv'
<1> USE DEF thr, drv, card
<1>0. LhdTypeOK /\ DataTypeOK
  BY Zenon DEF LhdInv
<1>1. stat # "idle"
  BY Zenon DEF Operate, lhd_irq
<1>2. PICK t \in LhdThread : lhd_pc[t] = "wait" /\ Serves(t) /\ InRange(t)
  BY <1>1, CardHasUser, Zenon
<1>3. lh_done = 0
  BY <1>0, <1>1, <1>2 DEF Serves, LhdTypeOK
<1>4. CASE Operate
  <2>1. /\ stat \in {"reading", "writing"} /\ sect \in Sectors
        /\ UNCHANGED <<thr, drv, sect>>
    BY <1>4, Zenon DEF Operate
  <2>2. CASE /\ stat' = "OK" /\ fate' = "ok"
             /\ stat = "writing" /\ disk' = [disk EXCEPT ![sect] = buf] /\ UNCHANGED buf
    <3>1. LhdTypeOK' /\ DataTypeOK'
      BY <1>0, <2>1, <2>2, Zenon DEF LhdTypeOK, DataTypeOK
    <3>2. Serves(t)'
      BY <1>2, <1>3, <2>1, <2>2, Zenon DEF Serves
    <3> QED
      BY <1>2, <2>1, <3>1, <3>2, CardStep, Zenon
  <2>3. CASE /\ stat' = "OK" /\ fate' = "ok"
             /\ stat = "reading" /\ buf' = disk[sect] /\ UNCHANGED disk
    <3>1. LhdTypeOK' /\ DataTypeOK'
      BY <1>0, <2>1, <2>3, Zenon DEF LhdTypeOK, DataTypeOK
    <3>2. Serves(t)'
      BY <1>2, <1>3, <2>1, <2>3, Zenon DEF Serves
    <3> QED
      BY <1>2, <2>1, <3>1, <3>2, CardStep, Zenon
  <2>4. CASE stat' = "MEDIA" /\ fate' = "EIO" /\ UNCHANGED <<buf, disk>>
    <3>1. LhdTypeOK' /\ DataTypeOK'
      BY <1>0, <2>1, <2>4, Zenon DEF LhdTypeOK, DataTypeOK
    <3>2. Serves(t)'
      BY <1>2, <1>3, <2>1, <2>4, Zenon DEF Serves
    <3> QED
      BY <1>2, <2>1, <3>1, <3>2, CardStep, Zenon
  <2> QED
    BY <1>4, <2>1, <2>2, <2>3, <2>4, Zenon DEF Operate
<1>5. CASE lhd_irq
  <2>1. /\ stat \in {"OK", "MEDIA"} /\ stat' = "idle" /\ lh_done' = 1
        /\ UNCHANGED <<thr, lh_clear, buf, sect, disk, fate>>
    BY <1>2, <1>3, <1>5 DEF lhd_irq, Serves
  <2>2. lh_result' = fate /\ fate \in {"ok", "EIO"}
    BY <1>2, <1>5, <2>1, Zenon DEF lhd_irq, lhd_code_to_errno, Serves
  <2>3. LhdTypeOK' /\ DataTypeOK'
    BY <1>0, <2>1, <2>2 DEF LhdTypeOK, DataTypeOK
  <2>4. Serves(t)'
    BY <1>2, <1>3, <2>1, <2>2 DEF Serves
  <2> QED
    BY <1>2, <2>1, <2>3, <2>4, CardStep, Zenon
<1> QED
  BY <1>4, <1>5, Zenon

\* Every step of the threads and of the card keeps the invariant.
LEMMA LhdInvStep == LhdInv /\ [LhdNext]_lhd_vars => LhdInv'
<1> SUFFICES ASSUME LhdInv, [LhdNext]_lhd_vars PROVE LhdInv'
  BY Zenon
<1>1. CASE UNCHANGED lhd_vars
  BY <1>1 DEF lhd_vars, thr, drv, card, LhdInv, LhdTypeOK, DataTypeOK, OneUser, InRange,
     Serves, Sectors
<1> QED
  BY <1>1, LhdThreadStep, LhdCardStep, Zenon DEF LhdNext

\* The driver, for every number of threads, sectors and requests: one thread at
\* a time has the device, and the card and the result word serve that thread.
THEOREM LhdInvariant == LhdSpec => []LhdInv
  BY LhdInvInit, LhdInvStep, PTL DEF LhdSpec

\* A thread that P(lh_done) lets go on was woken for its own operation, and the
\* lh_result it then reads is that operation's (lhd_irq, lhd_iodone).
THEOREM LhdCompletion == LhdSpec => []CompletionIsOwn
<1>1. LhdInv => CompletionIsOwn
  <2> SUFFICES ASSUME LhdInv PROVE CompletionIsOwn
    BY Zenon
  <2>1. ASSUME lh_done > 0 \/ stat # "idle" PROVE \E t \in Using : lhd_pc[t] = "wait"
    <3>1. PICK t \in LhdThread : lhd_pc[t] \in Busy /\ Serves(t)
      BY <2>1 DEF LhdInv, OneUser
    <3>2. lhd_pc[t] = "wait"
      BY <2>1, <3>1 DEF Serves, Busy
    <3> QED
      BY <3>2, Zenon DEF Using
  <2>2. ASSUME NEW t \in Using PROVE t \in LhdThread /\ Serves(t)
    BY <2>2, Zenon DEF Using, Busy, LhdInv
  <2> QED
    BY <2>1, <2>2, Zenon DEF CompletionIsOwn, Serves
<1> QED
  BY <1>1, LhdInvariant, PTL

\* Each step of the driver and the card transfers a sector, or nothing.
LEMMA LhdRefines ==
  ASSUME LhdInv, [LhdNext]_lhd_vars
  PROVE  [Disk!DNext]_<<req, disk, moved>>
<1> USE DEF thr, drv, card
<1>0. LhdTypeOK /\ DataTypeOK
  BY Zenon DEF LhdInv
<1>1. CASE Operate
  <2>1. PICK t \in LhdThread : lhd_pc[t] = "wait" /\ Serves(t) /\ InRange(t)
    BY <1>1, CardHasUser, Zenon DEF Operate
  <2>2. CASE stat = "writing" /\ disk' = [disk EXCEPT ![sect] = buf]
    <3>1. /\ req[t].rw = "write" /\ buf = <<t, done[t] + 1>>
          /\ sect = req[t].sector + done[t] /\ done[t] < req[t].len
      BY <2>1, <2>2, Zenon DEF Serves, InRange, Busy
    <3>2. /\ req[t].sector \in Nat /\ req[t].len \in Nat /\ done[t] \in Nat
      BY <1>0, RequestType, Zenon
    <3> DEFINE i == done[t] + 1
    <3>3. i \in 1..req[t].len /\ sect = req[t].sector + i - 1
      BY <3>1, <3>2
    <3>4. disk' = [disk EXCEPT ![req[t].sector + i - 1] = <<t, i>>]
      BY <2>2, <3>1, <3>3, Zenon
    <3>5. UNCHANGED <<req, moved>>
      BY <1>1, Zenon DEF Operate
    <3> HIDE DEF i
    <3>6. Disk!WriteSector(t)
      BY <3>1, <3>3, <3>4, <3>5, Zenon DEF Disk!WriteSector
    <3> QED
      BY <3>6, Zenon DEF Disk!DNext
  <2>3. CASE UNCHANGED disk
    BY <1>1, <2>3, Zenon DEF Operate
  <2> QED
    BY <1>1, <2>2, <2>3, Zenon DEF Operate
<1>2. CASE lhd_irq
  BY <1>2, Zenon DEF lhd_irq
<1>3. ASSUME NEW t \in LhdThread, FinishSector(t)
      PROVE  [Disk!DNext]_<<req, disk, moved>>
  <2>1. lhd_pc[t] = "finish" /\ Serves(t) /\ InRange(t) /\ UNCHANGED <<req, disk>>
    BY <1>3, Zenon DEF FinishSector, LhdInv, Busy
  <2>2. CASE moved' = moved
    BY <2>1, <2>2, Zenon
  <2>3. CASE moved' # moved
    <3>1. /\ lh_result = "ok" /\ req[t].rw = "read"
          /\ moved' = [moved EXCEPT ![t] = Append(@, buf)]
      BY <1>3, <2>3, Zenon DEF FinishSector
    <3>2. /\ buf = disk[req[t].sector + Len(moved[t])] /\ Len(moved[t]) < req[t].len
      BY <2>1, <3>1, Zenon DEF Serves, InRange, Busy
    <3>3. Disk!ReadSector(t)
      BY <2>1, <3>1, <3>2, Zenon DEF Disk!ReadSector
    <3> QED
      BY <3>3, Zenon DEF Disk!DNext
  <2> QED
    BY <2>2, <2>3, Zenon
<1>4. ASSUME NEW t \in LhdThread, LhdStep(t), ~FinishSector(t)
      PROVE  UNCHANGED <<req, disk, moved>>
  BY <1>4, Zenon DEF LhdStep, lhd_io, LoopEnds, TakeDevice, FillBuffer, StartOperation, AwaitDone
<1>5. CASE UNCHANGED lhd_vars
  BY <1>5, Zenon DEF lhd_vars
<1> QED
  BY <1>1, <1>2, <1>3, <1>4, <1>5, Zenon DEF LhdNext

\* For every number of threads and sectors, each sector is read or written at
\* one instant, with the sector and the data of the thread's own request,
\* although all requests share the card's buffer and the driver's result word.
THEOREM LhdIsAtomicDisk == LhdSpec => ImplementsAtomicDisk
<1>1. LhdInit => Disk!DInit
  BY Zenon DEF LhdInit, Disk!DInit
<1> QED
  BY <1>1, LhdRefines, LhdInvariant, PTL DEF LhdSpec, ImplementsAtomicDisk, Disk!DSpec
----------------------------------------------------------------------------
(* Shutdown: what panic leaves of the other threads.                       *)

OneRunning == \A t, u \in SThread : state[t] = "running" /\ state[u] = "running" => t = u

Whereabouts == {"thread", "acquire", "io", "iodone", "release", "panic", "shutdown"}

\* The types of the other variables.
OtherTypes ==
  /\ wchan \in [SThread -> {"none", "lock", "disk_clear", "lh_done"}]
  /\ whereabouts \in [SThread -> Whereabouts]
  /\ caller \in [SThread -> {"thread", "shutdown", "panic"}]
  /\ lock \in SThread \cup {NoOne} /\ disk_clear \in SThread \cup {NoOne}
  /\ evil \in 0..5 /\ power \in {"on", "off", "halted"}

StopInv ==
  /\ state \in [SThread -> {"running", "ready", "asleep", "dropped"}]
  /\ OtherTypes
  /\ OneRunning
  /\ PanicsAlone

\* Nobody brings a dropped thread back.
DroppedStays == \A t \in SThread : state[t] = "dropped" => state'[t] = "dropped"

\* What a step may do to the states of the threads.
LEMMA StopStates ==
  ASSUME StopInv, StopNext
  PROVE  /\ state' \in [SThread -> {"running", "ready", "asleep", "dropped"}]
         /\ OneRunning' /\ DroppedStays
<1>0. /\ state \in [SThread -> {"running", "ready", "asleep", "dropped"}]
      /\ OneRunning
  BY Zenon DEF StopInv
<1>1. ASSUME NEW t \in SThread, lock_acquire_known(t)
      PROVE  state' = state \/ state' = [state EXCEPT ![t] = "asleep"]
  BY <1>1, Zenon DEF lock_acquire_known, thread_sleep_on
<1>2. ASSUME NEW t \in SThread, UseDisk(t)
      PROVE  state' = state \/ state' = [state EXCEPT ![t] = "asleep"]
  BY <1>2, Zenon DEF UseDisk, thread_sleep_on
<1>3. ASSUME NEW t \in SThread, Runs(t, "acquire") \/ Runs(t, "io"),
             state' = [state EXCEPT ![t] = "asleep"]
      PROVE  /\ state' \in [SThread -> {"running", "ready", "asleep", "dropped"}]
             /\ OneRunning' /\ DroppedStays
  BY <1>0, <1>3, Zenon DEF Runs, OneRunning, DroppedStays
<1>4. ASSUME NEW addr, thread_wakeup_on(addr)
      PROVE  /\ state' \in [SThread -> {"running", "ready", "asleep", "dropped"}]
             /\ OneRunning' /\ DroppedStays
  BY <1>0, <1>4, Zenon DEF thread_wakeup_on, OneRunning, DroppedStays
<1>5. ASSUME NEW t \in SThread, panic(t) \/ shutdown(t)
      PROVE  /\ state' \in [SThread -> {"running", "ready", "asleep", "dropped"}]
             /\ OneRunning' /\ DroppedStays
  BY <1>0, <1>5 DEF panic, shutdown, thread_panic, thread_shutdown, scheduler_shutdown,
     thread_killall, scheduler_killall, OneRunning, DroppedStays
<1>6. ASSUME NEW t \in SThread, scheduler_runs(t)
      PROVE  /\ state' \in [SThread -> {"running", "ready", "asleep", "dropped"}]
             /\ OneRunning' /\ DroppedStays
  BY <1>0, <1>6, Zenon DEF scheduler_runs, OneRunning, DroppedStays
<1>7. ASSUME NEW t \in SThread, hardclock_yields(t)
      PROVE  /\ state' \in [SThread -> {"running", "ready", "asleep", "dropped"}]
             /\ OneRunning' /\ DroppedStays
  BY <1>0, <1>7, Zenon DEF hardclock_yields, OneRunning, DroppedStays
<1>8. ASSUME state' = state
      PROVE  /\ state' \in [SThread -> {"running", "ready", "asleep", "dropped"}]
             /\ OneRunning' /\ DroppedStays
  BY <1>0, <1>8, Zenon DEF OneRunning, DroppedStays
<1>9. CASE lhd_irq_wakes
  BY <1>4, <1>9, Zenon DEF lhd_irq_wakes
<1>10. ASSUME NEW t \in SThread, StopStep(t)
       PROVE  /\ state' \in [SThread -> {"running", "ready", "asleep", "dropped"}]
              /\ OneRunning' /\ DroppedStays
  <2>1. CASE lock_acquire_known(t)
    <3>1. Runs(t, "acquire")
      BY <2>1, Zenon DEF lock_acquire_known
    <3> QED
      BY <1>1, <1>3, <1>8, <2>1, <3>1, Zenon
  <2>2. CASE UseDisk(t)
    <3>1. Runs(t, "io")
      BY <2>2, Zenon DEF UseDisk
    <3> QED
      BY <1>2, <1>3, <1>8, <2>2, <3>1, Zenon
  <2>3. CASE DiskDone(t) \/ lock_release_known(t)
    BY <1>4, <2>3, Zenon DEF DiskDone, lock_release_known
  <2>4. CASE panic(t) \/ shutdown(t)
    BY <1>5, <2>4, Zenon
  <2>5. CASE SyncPanics(t)
    BY <1>8, <2>5, Zenon DEF SyncPanics
  <2> QED
    BY <1>10, <2>1, <2>2, <2>3, <2>4, <2>5, Zenon DEF StopStep
<1> QED
  BY <1>6, <1>7, <1>8, <1>9, <1>10, Zenon DEF StopNext, BeginVfs, BeginIo, BeginPanic

\* thread_panic leaves no thread but the running one; after it, evil is at least 2
\* and only a thread that is not dropped can change.
LEMMA PanicsAloneStep ==
  ASSUME StopInv, StopNext
  PROVE  PanicsAlone'
<1>0. /\ state \in [SThread -> {"running", "ready", "asleep", "dropped"}]
      /\ evil \in 0..5 /\ OneRunning /\ PanicsAlone
  BY Zenon DEF StopInv, OtherTypes
<1>1. DroppedStays
  BY StopStates, Zenon
<1>2. CASE evil >= 2
  <2>1. PICK t \in SThread : \A u \in SThread \ {t} : state[u] = "dropped"
    BY <1>0, <1>2, Zenon DEF PanicsAlone
  <2> QED
    BY <1>1, <2>1, Zenon DEF DroppedStays, PanicsAlone
<1>3. CASE evil < 2 /\ evil' = evil
  BY <1>0, <1>3 DEF PanicsAlone
<1>4. CASE evil < 2 /\ evil' # evil
  <2>1. PICK t \in SThread : panic(t)
    BY <1>4, Zenon DEF StopNext, StopStep, lock_acquire_known, UseDisk, DiskDone,
       lock_release_known, SyncPanics, shutdown, scheduler_runs, hardclock_yields,
       BeginVfs, BeginIo, BeginPanic, lhd_irq_wakes
  <2>2. evil' = evil + 1 /\ state[t] = "running"
    BY <2>1, Zenon DEF panic, StageAfter, Runs
  <2>3. CASE evil = 1
    <3>1. state' = thread_panic(state)
      BY <2>1, <2>3, Zenon DEF panic
    <3>2. ASSUME NEW u \in SThread \ {t} PROVE state'[u] = "dropped"
      BY <1>0, <2>2, <3>1, Zenon DEF thread_panic, thread_killall, scheduler_killall, OneRunning
    <3> QED
      BY <3>2, Zenon DEF PanicsAlone
  <2>4. CASE evil # 1
    BY <1>0, <1>4, <2>2, <2>4 DEF PanicsAlone
  <2> QED
    BY <2>3, <2>4, Zenon
<1> QED
  BY <1>0, <1>2, <1>3, <1>4

\* The types of the other variables are kept.
LEMMA OtherTypesStep ==
  ASSUME StopInv, StopNext
  PROVE  OtherTypes'
<1> USE DEF OtherTypes, Whereabouts
<1>0. OtherTypes
  BY Zenon DEF StopInv
<1>1. ASSUME NEW t \in SThread, lock_acquire_known(t) PROVE OtherTypes'
  BY <1>0, <1>1, Zenon DEF lock_acquire_known, MovesTo, thread_sleep_on
<1>2. ASSUME NEW t \in SThread, UseDisk(t) PROVE OtherTypes'
  BY <1>0, <1>2 DEF UseDisk, MovesTo, thread_sleep_on, Finished, Returned
<1>3. ASSUME NEW t \in SThread, DiskDone(t) PROVE OtherTypes'
  BY <1>0, <1>3 DEF DiskDone, MovesTo, thread_wakeup_on, Finished, Returned
<1>4. ASSUME NEW t \in SThread, lock_release_known(t) PROVE OtherTypes'
  BY <1>0, <1>4, Zenon DEF lock_release_known, MovesTo, thread_wakeup_on, Returned
<1>5. ASSUME NEW t \in SThread, panic(t) PROVE OtherTypes'
  BY <1>0, <1>5 DEF panic, MovesTo, StageAfter, md_panic, md_poweroff
<1>6. ASSUME NEW t \in SThread, SyncPanics(t) PROVE OtherTypes'
  BY <1>0, <1>6, Zenon DEF SyncPanics, MovesTo
<1>7. ASSUME NEW t \in SThread, shutdown(t) PROVE OtherTypes'
  BY <1>0, <1>7, Zenon DEF shutdown, md_poweroff, md_reboot, md_halt
<1>8. ASSUME NEW t \in SThread, scheduler_runs(t) PROVE OtherTypes'
  BY <1>0, <1>8, Zenon DEF scheduler_runs
<1>9. ASSUME NEW t \in SThread, hardclock_yields(t) PROVE OtherTypes'
  BY <1>0, <1>9, Zenon DEF hardclock_yields
<1>10. ASSUME NEW t \in SThread, BeginIo(t) PROVE OtherTypes'
  BY <1>0, <1>10, Zenon DEF BeginIo, MovesTo
<1>11. ASSUME NEW t \in SThread, NEW who \in {"thread", "shutdown"}, BeginVfs(t, who)
       PROVE  OtherTypes'
  BY <1>0, <1>11, Zenon DEF BeginVfs, MovesTo
<1>12. ASSUME NEW t \in SThread, NEW inside \in BOOLEAN, BeginPanic(t, inside)
       PROVE  OtherTypes'
  BY <1>0, <1>12, Zenon DEF BeginPanic, MovesTo
<1>13. ASSUME lhd_irq_wakes PROVE OtherTypes'
  BY <1>0, <1>13, Zenon DEF lhd_irq_wakes, thread_wakeup_on
<1> QED
  BY <1>1, <1>2, <1>3, <1>4, <1>5, <1>6, <1>7, <1>8, <1>9, <1>10, <1>11, <1>12, <1>13, Zenon
  DEF StopNext, StopStep

\* The step of the whole invariant.
LEMMA StopInvStep == StopInv /\ [StopNext]_stop_vars => StopInv'
<1> SUFFICES ASSUME StopInv, [StopNext]_stop_vars PROVE StopInv'
  BY Zenon
<1>1. CASE UNCHANGED stop_vars
  BY <1>1, Zenon DEF stop_vars, StopInv, OtherTypes, OneRunning, PanicsAlone
<1>2. CASE StopNext
  <2>1. /\ state' \in [SThread -> {"running", "ready", "asleep", "dropped"}]
        /\ OneRunning' /\ PanicsAlone'
    BY <1>2, StopStates, PanicsAloneStep, Zenon
  <2>2. OtherTypes'
    BY <1>2, OtherTypesStep, Zenon
  <2> QED
    BY <2>1, <2>2, Zenon DEF StopInv
<1> QED
  BY <1>1, <1>2, Zenon

\* The threads and the stages of panic, for every set of threads.
THEOREM StopInvariant == StopSpec => []StopInv
<1>1. kernel_booted => StopInv
  BY DEF kernel_booted, StopInv, OtherTypes, Whereabouts, OneRunning, PanicsAlone
<1> QED
  BY <1>1, StopInvStep, PTL DEF StopSpec

\* Once thread_panic has run, every thread but the one that panics stays dropped,
\* though the sync that panic does sleeps, takes interrupts and wakes sleepers.
THEOREM PanicGoesOnAlone == StopSpec => []PanicsAlone
<1>1. StopInv => PanicsAlone
  BY Zenon DEF StopInv
<1> QED
  BY <1>1, StopInvariant, PTL

\* No step of the system brings back a thread that thread_killall or the
\* scheduler's killall dropped on the floor.
THEOREM DroppedForGood == StopSpec => [][DroppedStays]_stop_vars
<1>1. StopInv /\ [StopNext]_stop_vars => [DroppedStays]_stop_vars
  BY StopStates, Zenon
<1> QED
  BY <1>1, StopInvariant, PTL DEF StopSpec
----------------------------------------------------------------------------
(* The names of the known devices (fs/vfs/vfslist.c).                      *)

\* The names drivers give, and the raw names mkrawname makes of them.
GivenNames == {<<"null">>} \cup DevNames
RawNames == {mkrawname(n) : n \in DevNames}

Entry == [kd_name : GivenNames, kd_rawname : RawNames \cup {NoName}, kd_device : BOOLEAN,
          kd_fs : {NoFs} \cup [volname : VolumeNames \cup {NoName}]]

\* The names a device has for good: the volume name comes and goes.
FixedNames(kd) == {kd.kd_name, kd.kd_rawname} \ {NoName}

\* An entry as vfs_doadd makes them and vfs_mount and vfs_unmount change them.
EntryOK(kd) ==
  /\ kd.kd_name \notin {NoName, kd.kd_rawname}
  /\ kd.kd_rawname # NoName => kd.kd_device

\* No two devices share a name that either has for good.
NamesApart(kds) ==
  \A i, j \in DOMAIN kds : i # j => FixedNames(kds[i]) \cap FixedNames(kds[j]) = {}

NamesIn(kds) == {kds[i].kd_name : i \in DOMAIN kds}

TableOK(kds) ==
  /\ kds \in Seq(Entry)
  /\ Len(kds) \in 1..MaxDevices
  /\ \A i \in DOMAIN kds : EntryOK(kds[i])
  /\ NamesApart(kds)

\* What every step keeps: the entries as they are made, no name that a device
\* has for good twice in the table, and nothing unsynced dropped.
DevTableInv ==
  /\ TableOK(knowndevs)
  /\ unsynced \subseteq NamesIn(knowndevs)
  /\ dropped \cap unsynced = {}

\* A table in which only file systems came or went.
SameButFs(kds, new) ==
  /\ DOMAIN new = DOMAIN kds
  /\ new \in Seq(Entry)
  /\ \A i \in DOMAIN kds : /\ new[i].kd_name = kds[i].kd_name
                           /\ new[i].kd_rawname = kds[i].kd_rawname
                           /\ new[i].kd_device = kds[i].kd_device

\* vfs_mount and vfs_unmount leave the names of a device alone.
LEMMA NewFs ==
  ASSUME NEW kd \in Entry, NEW fs \in {NoFs} \cup [volname : VolumeNames \cup {NoName}]
  PROVE  LET new == [kd EXCEPT !.kd_fs = fs]
         IN  /\ new \in Entry
             /\ new.kd_name = kd.kd_name /\ new.kd_rawname = kd.kd_rawname /\ new.kd_device = kd.kd_device
BY Zenon DEF Entry

\* Such a table is as good as it was.
LEMMA SameNames ==
  ASSUME NEW kds, NEW new, TableOK(kds), SameButFs(kds, new)
  PROVE  TableOK(new) /\ NamesIn(new) = NamesIn(kds)
<1>1. Len(new) = Len(kds)
  BY DEF TableOK, SameButFs
<1>2. \A i \in DOMAIN new : EntryOK(new[i]) /\ FixedNames(new[i]) = FixedNames(kds[i])
  BY Zenon DEF TableOK, EntryOK, FixedNames, SameButFs
<1>3. NamesApart(new)
  BY <1>2, Zenon DEF TableOK, NamesApart, SameButFs
<1>4. NamesIn(new) = NamesIn(kds)
  BY DEF NamesIn, SameButFs
<1> QED
  BY <1>1, <1>2, <1>3, <1>4, Zenon DEF TableOK, SameButFs

\* One device's file system comes or goes.
LEMMA OneNewFs ==
  ASSUME TableOK(knowndevs), NEW i \in DOMAIN knowndevs,
         NEW fs \in {NoFs} \cup [volname : VolumeNames \cup {NoName}],
         knowndevs' = [knowndevs EXCEPT ![i].kd_fs = fs]
  PROVE  TableOK(knowndevs') /\ NamesIn(knowndevs') = NamesIn(knowndevs)
<1> DEFINE new == [knowndevs[i] EXCEPT !.kd_fs = fs]
<1>1. knowndevs \in Seq(Entry) /\ knowndevs[i] \in Entry
  BY DEF TableOK
<1>2. /\ new \in Entry /\ new.kd_name = knowndevs[i].kd_name
      /\ new.kd_rawname = knowndevs[i].kd_rawname /\ new.kd_device = knowndevs[i].kd_device
  BY <1>1, NewFs, Zenon
<1>3. knowndevs' = [knowndevs EXCEPT ![i] = new]
  BY Zenon
<1> HIDE DEF new
<1>4. /\ DOMAIN knowndevs' = DOMAIN knowndevs /\ knowndevs' \in Seq(Entry) /\ knowndevs'[i] = new
      /\ \A j \in DOMAIN knowndevs : j # i => knowndevs'[j] = knowndevs[j]
  BY <1>1, <1>2, <1>3
<1>5. SameButFs(knowndevs, knowndevs')
  BY <1>2, <1>4, Zenon DEF SameButFs
<1> QED
  BY <1>5, SameNames, Zenon

\* A name that a driver gives is not NULL and not a raw name of its own.
LEMMA DriverNames ==
  ASSUME NEW n \in DevNames
  PROVE  n \in GivenNames /\ mkrawname(n) \in RawNames /\ n \notin {NoName, mkrawname(n)} /\ mkrawname(n) # NoName
<1>1. n \in Seq(STRING \cup {"raw"})
  BY DevTableAssumption
<1>2. mkrawname(n) # n
  BY <1>1 DEF mkrawname
<1>3. n \in GivenNames /\ mkrawname(n) \in RawNames
  BY Zenon DEF GivenNames, RawNames
<1>4. n # NoName /\ mkrawname(n) # NoName
  BY DevTableAssumption, Zenon
<1> QED
  BY <1>2, <1>3, <1>4, Zenon

\* A device or a file system that vfs_doadd puts at the end of the table.
LEMMA AddedEntry ==
  ASSUME DevTableInv, NEW dname \in DevNames, NEW mountable \in BOOLEAN, NEW dev \in BOOLEAN,
         NEW fs \in {NoFs} \cup [volname : VolumeNames \cup {NoName}],
         mountable => dev, vfs_doadd(dname, mountable, dev, fs)
  PROVE  DevTableInv'
<1> DEFINE kd == Kd(dname, IF mountable THEN mkrawname(dname) ELSE NoName, dev, fs)
<1>1. kd \in Entry /\ EntryOK(kd)
  <2> DEFINE raw == IF mountable THEN mkrawname(dname) ELSE NoName
  <2>1. raw \in RawNames \cup {NoName} /\ raw # dname /\ (raw # NoName => dev)
    BY DriverNames, Zenon
  <2>2. dname \in GivenNames /\ dname # NoName
    BY DriverNames, Zenon
  <2>3. kd = Kd(dname, raw, dev, fs)
    BY Zenon
  <2> HIDE DEF raw, kd
  <2>4. kd.kd_name = dname /\ kd.kd_rawname = raw /\ kd.kd_device = dev
    BY <2>3, Zenon DEF Kd
  <2>5. kd \in Entry
    BY <2>1, <2>2, <2>3 DEF Kd, Entry
  <2> QED BY <2>1, <2>2, <2>4, <2>5, Zenon DEF EntryOK
<1>2. FixedNames(kd) \subseteq NamesOf(kd) \ {NoName}
  BY Zenon DEF FixedNames, NamesOf
<1>3. \A i \in DOMAIN knowndevs : FixedNames(knowndevs[i]) \subseteq NamesOf(knowndevs[i])
  BY Zenon DEF FixedNames, NamesOf
<1>4. \A i \in DOMAIN knowndevs : FixedNames(kd) \cap FixedNames(knowndevs[i]) = {}
  <2>1. ~badnames(NamesOf(kd))
    BY Zenon DEF vfs_doadd
  <2> HIDE DEF kd
  <2> QED BY <1>2, <1>3, <2>1, Zenon DEF badnames
<1>5. knowndevs' = Append(knowndevs, kd) /\ Len(knowndevs) < MaxDevices /\ dropped' = {} /\ unsynced' = unsynced
  BY Zenon DEF vfs_doadd
<1> HIDE DEF kd
<1>6. knowndevs \in Seq(Entry) /\ Len(knowndevs) \in 1..MaxDevices
  BY Zenon DEF DevTableInv, TableOK
<1>7. /\ knowndevs' \in Seq(Entry) /\ Len(knowndevs') \in 1..MaxDevices
      /\ DOMAIN knowndevs' = DOMAIN knowndevs \cup {Len(knowndevs) + 1}
      /\ \A i \in DOMAIN knowndevs : knowndevs'[i] = knowndevs[i]
      /\ knowndevs'[Len(knowndevs) + 1] = kd
  BY <1>1, <1>5, <1>6, DevTableAssumption
<1>8. TableOK(knowndevs')
  <2>1. \A i \in DOMAIN knowndevs' : EntryOK(knowndevs'[i])
    BY <1>1, <1>7, Zenon DEF DevTableInv, TableOK
  <2>2. NamesApart(knowndevs')
    BY <1>4, <1>7, Zenon DEF DevTableInv, TableOK, NamesApart
  <2> QED BY <1>7, <2>1, <2>2, Zenon DEF TableOK
<1>9. unsynced' \subseteq NamesIn(knowndevs')
  <2>1. NamesIn(knowndevs) \subseteq NamesIn(knowndevs')
    BY <1>7, Zenon DEF NamesIn
  <2> QED BY <1>5, <2>1, Zenon DEF DevTableInv
<1> QED
  BY <1>5, <1>8, <1>9, Zenon DEF DevTableInv

\* Every operation on the table, of drivers, mounts and unmounts, keeps the
\* names in it apart.
LEMMA DevTableStep == DevTableInv /\ [DevTableNext]_tab_dev_vars => DevTableInv'
<1> SUFFICES ASSUME DevTableInv, [DevTableNext]_tab_dev_vars PROVE DevTableInv'
  BY Zenon
<1>a. knowndevs \in Seq(Entry) /\ DOMAIN knowndevs = 1..Len(knowndevs)
  BY DEF DevTableInv, TableOK
<1>b. \A i \in DOMAIN knowndevs : knowndevs[i] \in Entry
  BY <1>a
<1>1. ASSUME NEW n \in DevNames, NEW mountable \in BOOLEAN, vfs_adddev(n, mountable)
      PROVE  DevTableInv'
  BY <1>1, AddedEntry, Zenon DEF vfs_adddev
<1>2. ASSUME NEW n \in DevNames, NEW v \in VolumeNames \cup {NoName}, vfs_addfs(n, v)
      PROVE  DevTableInv'
  <2>1. [volname |-> v] \in [volname : VolumeNames \cup {NoName}]
    BY Zenon
  <2> QED BY <1>2, <2>1, AddedEntry, Zenon DEF vfs_addfs
<1>3. ASSUME NEW n \in DevNames, vfs_mount_dev(n) PROVE DevTableInv'
  <2>1. PICK i \in findmount(n), v \in VolumeNames \cup {NoName} :
          /\ knowndevs' = [knowndevs EXCEPT ![i].kd_fs = [volname |-> v]]
          /\ dropped' = {} /\ unsynced' = unsynced
    BY <1>3, Zenon DEF vfs_mount_dev
  <2>2. i \in DOMAIN knowndevs
    BY Zenon DEF findmount
  <2>3. [volname |-> v] \in {NoFs} \cup [volname : VolumeNames \cup {NoName}]
    BY Zenon
  <2>4. TableOK(knowndevs') /\ NamesIn(knowndevs') = NamesIn(knowndevs)
    BY <2>1, <2>2, <2>3, OneNewFs, Zenon DEF DevTableInv
  <2> QED BY <2>1, <2>4, Zenon DEF DevTableInv
<1>4. ASSUME NEW n \in DevNames, vfs_unmount_dev(n) PROVE DevTableInv'
  <2>1. PICK i \in findmount(n), sync \in 0..1, unmount \in 0..1 :
          /\ unsynced' = Synced(i, sync)
          /\ IF sync = 0 /\ unmount = 0
             THEN knowndevs' = [knowndevs EXCEPT ![i].kd_fs = NoFs] /\ dropped' = {n}
             ELSE dropped' = {} /\ UNCHANGED knowndevs
    BY <1>4, Zenon DEF vfs_unmount_dev
  <2>2. i \in DOMAIN knowndevs /\ knowndevs[i].kd_name = n
    BY Zenon DEF findmount
  <2>3. unsynced' \subseteq unsynced /\ (sync = 0 => n \notin unsynced')
    BY <2>1, <2>2, Zenon DEF Synced
  <2>4. CASE sync = 0 /\ unmount = 0
    <3>1. knowndevs' = [knowndevs EXCEPT ![i].kd_fs = NoFs] /\ dropped' = {n}
      BY <2>1, <2>4, Zenon
    <3>3. TableOK(knowndevs') /\ NamesIn(knowndevs') = NamesIn(knowndevs)
      BY <2>2, <3>1, OneNewFs, Zenon DEF DevTableInv
    <3> QED BY <2>3, <2>4, <3>1, <3>3, Zenon DEF DevTableInv
  <2>5. CASE ~(sync = 0 /\ unmount = 0)
    <3>1. dropped' = {} /\ knowndevs' = knowndevs
      BY <2>1, <2>5, Zenon
    <3> QED BY <2>3, <3>1, Zenon DEF DevTableInv
  <2> QED BY <2>4, <2>5, Zenon
<1>5. CASE vfs_unmountall
  <2>1. PICK sync \in [Mounted -> 0..1], unmount \in [Mounted -> 0..1] :
          /\ knowndevs' = [i \in DOMAIN knowndevs |->
                             IF i \in {j \in Mounted : sync[j] = 0 /\ unmount[j] = 0}
                             THEN [knowndevs[i] EXCEPT !.kd_fs = NoFs] ELSE knowndevs[i]]
          /\ unsynced' = unsynced \ {knowndevs[i].kd_name : i \in {j \in Mounted : sync[j] = 0}}
          /\ dropped' = {knowndevs[i].kd_name : i \in {j \in Mounted : sync[j] = 0 /\ unmount[j] = 0}}
    BY <1>5, Zenon DEF vfs_unmountall
  <2>2. /\ DOMAIN knowndevs' = DOMAIN knowndevs
        /\ \A j \in DOMAIN knowndevs : /\ knowndevs'[j] \in Entry
                                       /\ knowndevs'[j].kd_name = knowndevs[j].kd_name
                                       /\ knowndevs'[j].kd_rawname = knowndevs[j].kd_rawname
                                       /\ knowndevs'[j].kd_device = knowndevs[j].kd_device
    BY <1>b, <2>1, NewFs, Zenon
  <2>3. knowndevs' \in Seq(Entry)
    BY <1>a, <2>1, <2>2
  <2>6. SameButFs(knowndevs, knowndevs')
    BY <2>2, <2>3, Zenon DEF SameButFs
  <2>4. TableOK(knowndevs') /\ NamesIn(knowndevs') = NamesIn(knowndevs)
    BY <2>6, SameNames, Zenon DEF DevTableInv
  <2>5. dropped' \cap unsynced' = {} /\ unsynced' \subseteq unsynced
    BY <2>1, Zenon
  <2> QED BY <2>4, <2>5, Zenon DEF DevTableInv
<1>6. CASE vfs_sync
  BY <1>6, Zenon DEF vfs_sync, DevTableInv
<1>7. CASE Modify
  BY <1>7, Zenon DEF Modify, DevTableInv, NamesIn
<1>8. CASE UNCHANGED tab_dev_vars
  BY <1>8, Zenon DEF tab_dev_vars, DevTableInv
<1> QED
  BY <1>1, <1>2, <1>3, <1>4, <1>5, <1>6, <1>7, <1>8, Zenon DEF DevTableNext

\* The table as vfs_bootstrap leaves it, with the null device alone.
LEMMA DevTableInitially == vfs_bootstrap => DevTableInv
<1> SUFFICES ASSUME vfs_bootstrap PROVE DevTableInv
  BY Zenon
<1> DEFINE null == Kd(<<"null">>, NoName, TRUE, NoFs)
<1>1. null \in Entry /\ EntryOK(null)
  <2>1. <<"null">> \in GivenNames
    BY Zenon DEF GivenNames
  <2>2. <<"null">> # NoName
    BY DevTableAssumption, Zenon
  <2>3. null \in Entry /\ null.kd_name = <<"null">> /\ null.kd_rawname = NoName
    BY <2>1, Zenon DEF Kd, Entry
  <2> HIDE DEF null
  <2> QED BY <2>2, <2>3, Zenon DEF EntryOK
<1>2. knowndevs = <<null>> /\ unsynced = {} /\ dropped = {}
  BY Zenon DEF vfs_bootstrap
<1> HIDE DEF null
<1>3. knowndevs \in Seq(Entry) /\ Len(knowndevs) \in 1..MaxDevices /\ DOMAIN knowndevs = {1} /\ knowndevs[1] = null
  BY <1>1, <1>2, DevTableAssumption
<1> QED
  BY <1>1, <1>2, <1>3, Zenon DEF DevTableInv, TableOK, NamesApart, NamesIn

\* What vfs_getroot answers for a name that one entry alone answers for.
LEMMA OnlyAnswer ==
  ASSUME NEW n, NEW i \in DOMAIN knowndevs, knowndevs \in Seq(Entry),
         Answer(knowndevs[i], n) # <<"next">>,
         \A j \in DOMAIN knowndevs : j # i => Answer(knowndevs[j], n) = <<"next">>
  PROVE  vfs_getroot(n) = Answer(knowndevs[i], n)
<1> DEFINE I == {j \in DOMAIN knowndevs : Answer(knowndevs[j], n) # <<"next">>}
<1>1. I = {i}
  BY Zenon
<1>2. i <= i
  OBVIOUS
<1>3. (CHOOSE j \in I : \A k \in I : j <= k) = i
  BY <1>1, <1>2, Zenon
<1> QED
  BY <1>1, <1>3, Zenon DEF vfs_getroot

\* An entry has no answer for a name it does not have.
LEMMA NotItsName ==
  ASSUME NEW kd, NEW n, n # NoName, n \notin NamesOf(kd)
  PROVE  Answer(kd, n) = <<"next">>
BY Zenon DEF Answer, NamesOf

\* While no volume has a name that is taken, no two devices share any name.
LEMMA AllNamesApart ==
  ASSUME DevTableInv, Clashes = {}, NEW i \in DOMAIN knowndevs, NEW j \in DOMAIN knowndevs, j # i,
         NEW n \in NamesOf(knowndevs[i])
  PROVE  n \notin NamesOf(knowndevs[j])
<1>1. FixedNames(knowndevs[i]) \cap FixedNames(knowndevs[j]) = {}
  BY Zenon DEF DevTableInv, TableOK, NamesApart
<1>2. \/ VolnameOf(knowndevs[i]) = NoName
      \/ VolnameOf(knowndevs[i]) \notin NamesOf(knowndevs[j])
  BY Zenon DEF Clashes
<1>3. \/ VolnameOf(knowndevs[j]) = NoName
      \/ VolnameOf(knowndevs[j]) \notin NamesOf(knowndevs[i])
  BY Zenon DEF Clashes
<1> QED
  BY <1>1, <1>2, <1>3, Zenon DEF NamesOf, FixedNames

\* So vfs_getroot gives what the device that has the name answers.
LEMMA FoundByName ==
  ASSUME DevTableInv, Clashes = {}, NEW i \in DOMAIN knowndevs, NEW n \in NamesOf(knowndevs[i]),
         Answer(knowndevs[i], n) # <<"next">>
  PROVE  vfs_getroot(n) = Answer(knowndevs[i], n)
<1>1. n # NoName
  BY Zenon DEF NamesOf
<1>2. \A j \in DOMAIN knowndevs : j # i => Answer(knowndevs[j], n) = <<"next">>
  BY <1>1, AllNamesApart, NotItsName, Zenon
<1>3. knowndevs \in Seq(Entry)
  BY Zenon DEF DevTableInv, TableOK
<1> QED
  BY <1>2, <1>3, OnlyAnswer, Zenon

\* Where the names are apart, vfs_getroot finds what each of them stands for.
LEMMA NamesFound == DevTableInv => NamesResolve
<1> SUFFICES ASSUME DevTableInv PROVE NamesResolve
  BY Zenon
<1> SUFFICES ASSUME Clashes = {}, NEW i \in DOMAIN knowndevs
             PROVE  /\ AsDocumented(knowndevs[i])
                    /\ knowndevs[i].kd_fs # NoFs =>
                         vfs_getroot(vfs_getcwd_name(i)) = <<"root", vfs_getdevname(i)>>
  BY Zenon DEF NamesResolve, DevTableInv
<1> DEFINE kd == knowndevs[i]
<1>1. kd.kd_name \notin {NoName, kd.kd_rawname}
  BY Zenon DEF DevTableInv, TableOK, EntryOK
<1>2. VolnameOf(kd) = NoName \/ VolnameOf(kd) # kd.kd_rawname
  BY Zenon DEF Clashes
<1>3. kd.kd_name \in NamesOf(kd) /\ \A n \in {kd.kd_rawname, VolnameOf(kd)} : n # NoName => n \in NamesOf(kd)
  BY <1>1, Zenon DEF NamesOf
<1>4. \A a, b : <<"root", a>> # <<"next">> /\ <<"device", a>> # <<"next">> /\ <<"ENXIO">> # <<"next">>
  BY Zenon
<1>5. \A n \in NamesOf(kd) : Answer(kd, n) # <<"next">> => vfs_getroot(n) = Answer(kd, n)
  BY FoundByName, Zenon
<1> HIDE DEF kd
<1>6. ASSUME kd.kd_fs # NoFs
      PROVE  /\ vfs_getroot(kd.kd_name) = <<"root", kd.kd_name>>
             /\ VolnameOf(kd) # NoName => vfs_getroot(VolnameOf(kd)) = <<"root", kd.kd_name>>
  <2>1. Answer(kd, kd.kd_name) = <<"root", kd.kd_name>> /\ Answer(kd, VolnameOf(kd)) = <<"root", kd.kd_name>>
    BY <1>6, Zenon DEF Answer
  <2> QED BY <1>3, <1>4, <1>5, <2>1, Zenon
<1>7. ASSUME kd.kd_rawname # NoName
      PROVE  /\ kd.kd_fs = NoFs => vfs_getroot(kd.kd_name) = <<"ENXIO">>
             /\ vfs_getroot(kd.kd_rawname) = <<"device", kd.kd_name>>
  <2>1. kd.kd_fs = NoFs => Answer(kd, kd.kd_name) = <<"ENXIO">>
    BY <1>7, Zenon DEF Answer
  <2>2. kd.kd_rawname # VolnameOf(kd)
    BY <1>2, <1>7, Zenon
  <2>3. Answer(kd, kd.kd_rawname) = <<"device", kd.kd_name>>
    BY <1>1, <1>7, <2>2, Zenon DEF Answer
  <2> QED BY <1>3, <1>4, <1>5, <1>7, <2>1, <2>3, Zenon
<1>8. ASSUME kd.kd_rawname = NoName, kd.kd_fs = NoFs
      PROVE  vfs_getroot(kd.kd_name) = <<"device", kd.kd_name>>
  <2>1. Answer(kd, kd.kd_name) = <<"device", kd.kd_name>>
    BY <1>8, Zenon DEF Answer
  <2> QED BY <1>3, <1>4, <1>5, <2>1, Zenon
<1>9. AsDocumented(kd)
  BY <1>6, <1>7, <1>8, Zenon DEF AsDocumented
<1>10. kd.kd_fs # NoFs => vfs_getroot(vfs_getcwd_name(i)) = <<"root", vfs_getdevname(i)>>
  BY <1>6, Zenon DEF vfs_getcwd_name, vfs_getdevname, kd
<1> QED
  BY <1>9, <1>10, Zenon DEF kd

\* Whatever was added, mounted, unmounted and synced before: while no volume
\* has a name that is taken, vfs_getroot finds every device and file system
\* under each of its names, and the name vfs_getcwd prints leads back; and a
\* file system leaves the table only with nothing left to write.
THEOREM NamesAlwaysResolve == DevTableSpec => []NamesResolve
<1>1. DevTableSpec => []DevTableInv
  BY DevTableInitially, DevTableStep, PTL DEF DevTableSpec
<1> QED
  BY <1>1, NamesFound, PTL
=============================================================================
