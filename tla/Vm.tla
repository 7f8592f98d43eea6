--------------------------------- MODULE Vm ---------------------------------
(***************************************************************************)
(* Address spaces and program loading: arch/mips/mips/dumbvm.c and ram.c,  *)
(* userprog/loadelf.c and runprogram.c.  Threads load programs byte by     *)
(* byte through the TLB, which belongs to whoever ran last until           *)
(* as_activate empties it; threads are switched between any two steps.     *)
(***************************************************************************)
EXTENDS Integers, Sequences, FiniteSets

CONSTANTS VThread,
          Programs,          \* the executables: sequences of segments
          PageBytes,
          USERSTACK,         \* the end of the stack, a page boundary
          DUMBVM_STACKPAGES,
          NUM_TLB,
          FreePages,          \* lastpaddr, in pages
          AddrPages,         \* pages that an address can name: where paddr_t wraps
          NoSpace

ASSUME VmAssumption ==
  /\ PageBytes \in Nat \ {0} /\ NUM_TLB \in Nat /\ FreePages \in Nat
  /\ AddrPages > 2 * FreePages
  /\ USERSTACK % PageBytes = 0
  /\ \A p \in Programs : \A i \in DOMAIN p : p[i].file <= p[i].mem

VARIABLES
  doing,       \* what each thread is doing
  prog, seg, pos,   \* the program it loads, the segment and the byte in it
  vmspace,     \* t_vmspace
  image,       \* what a thread has put where, by virtual address: its own view
  vm_running,
  tlb,         \* virtual page -> physical page
  mem,         \* physical memory
  firstpaddr,  \* in pages
  vm_panic

ctl == <<doing, prog, seg, pos>>
vm_vars == <<ctl, vmspace, image, vm_running, tlb, mem, firstpaddr, vm_panic>>

Page(a) == a \div PageBytes
Garbage == "junk"     \* what is in memory that nobody has written
Empty == <<>>      \* a TLB, or an image, without entries

as_create ==
  [as_vbase1 |-> 0, as_pbase1 |-> 0, as_npages1 |-> 0,
   as_vbase2 |-> 0, as_pbase2 |-> 0, as_npages2 |-> 0, as_stackpbase |-> 0]

VmInit ==
  /\ doing = [t \in VThread |-> "new"]
  /\ prog \in [VThread -> Programs]
  /\ seg = [t \in VThread |-> 1] /\ pos = [t \in VThread |-> 0]
  /\ vmspace = [t \in VThread |-> NoSpace]
  /\ image = [t \in VThread |-> Empty]
  /\ vm_running \in VThread
  /\ tlb = Empty
  /\ mem = [a \in 0..(FreePages * PageBytes - 1) |-> Garbage]
  /\ firstpaddr = 1
  /\ vm_panic = FALSE

\* ram_stealmem for a sequence of requests: the address of each, 0 from the
\* first that does not fit, and where memory starts after them.
ram_stealmem(first, n) == (first + n) % AddrPages <= FreePages
getppages(ns) ==
  LET from[i \in 0..Len(ns)] ==
        IF i = 0 THEN [first |-> firstpaddr, got |-> <<>>]
        ELSE LET s == from[i - 1]
             IN  IF Len(s.got) = i - 1 /\ ram_stealmem(s.first, ns[i])
                 THEN [first |-> (s.first + ns[i]) % AddrPages, got |-> Append(s.got, s.first)]
                 ELSE s
  IN  from[Len(ns)]

\* The region in pages, in the first slot that is free; RegionFits says there is one.
RegionFits(as) == as.as_vbase1 = 0 \/ as.as_vbase2 = 0
as_define_region(as, s) ==
  LET page == Page(s.vaddr)
      npages == Page(s.mem + (s.vaddr % PageBytes) + PageBytes - 1)
  IN  IF as.as_vbase1 = 0 THEN [as EXCEPT !.as_vbase1 = page, !.as_npages1 = npages]
      ELSE [as EXCEPT !.as_vbase2 = page, !.as_npages2 = npages]

\* Memory for both regions and the stack, up to the first that does not fit.
as_prepare_load(as, got) ==
  [as EXCEPT !.as_pbase1 = IF Len(got) >= 1 THEN got[1] ELSE 0,
             !.as_pbase2 = IF Len(got) >= 2 THEN got[2] ELSE 0,
             !.as_stackpbase = IF Len(got) >= 3 THEN got[3] ELSE 0]

Wanted(as) == <<as.as_npages1, as.as_npages2, DUMBVM_STACKPAGES>>

\* Where vm_fault finds a page: region 1, region 2, the stack, or nowhere.
StackBase == Page(USERSTACK) - DUMBVM_STACKPAGES
FramesOf(as, p) ==
  IF p >= as.as_vbase1 /\ p < as.as_vbase1 + as.as_npages1 THEN {as.as_pbase1 + (p - as.as_vbase1)}
  ELSE IF p >= as.as_vbase2 /\ p < as.as_vbase2 + as.as_npages2 THEN {as.as_pbase2 + (p - as.as_vbase2)}
  ELSE IF p >= StackBase /\ p < Page(USERSTACK) THEN {as.as_stackpbase + (p - StackBase)}
  ELSE {}

SetUp(as) == \A f \in DOMAIN as : as[f] # 0
----------------------------------------------------------------------------
Acts(t, what) == vm_running = t /\ ~vm_panic /\ doing[t] = what
Becomes(t, what) == doing' = [doing EXCEPT ![t] = what]

\* thread_exit destroys the address space; its memory is not given back.
Fails(t) == Becomes(t, "dead") /\ vmspace' = [vmspace EXCEPT ![t] = NoSpace]

\* runprogram up to load_elf.  Without memory for the address space it returns.
runprogram_NoActivate(t) ==    \* mutant: the TLB keeps its entries
  /\ Acts(t, "new")
  /\ vmspace' = [vmspace EXCEPT ![t] = as_create]
  /\ Becomes(t, "define")
  /\ UNCHANGED <<tlb, prog, seg, pos, image, vm_running, mem, firstpaddr, vm_panic>>

runprogram(t) ==
  /\ Acts(t, "new")
  /\ \/ /\ vmspace' = [vmspace EXCEPT ![t] = as_create]
        /\ tlb' = Empty
        /\ Becomes(t, "define")
     \/ Becomes(t, "dead") /\ UNCHANGED <<tlb, vmspace>>
  /\ UNCHANGED <<prog, seg, pos, image, vm_running, mem, firstpaddr, vm_panic>>

\* load_elf, first pass: a header is read, which may fail, and its region defined.
load_elf_Define(t) ==
  /\ Acts(t, "define") /\ seg[t] <= Len(prog[t])
  /\ \/ /\ RegionFits(vmspace[t])
        /\ vmspace' = [vmspace EXCEPT ![t] = as_define_region(@, prog[t][seg[t]])]
        /\ seg' = [seg EXCEPT ![t] = @ + 1]
        /\ UNCHANGED doing
     \/ Fails(t) /\ UNCHANGED seg
  /\ UNCHANGED <<prog, pos, image, vm_running, tlb, mem, firstpaddr, vm_panic>>

load_elf_Prepare(t) ==
  /\ Acts(t, "define") /\ seg[t] > Len(prog[t])
  /\ LET got == getppages(Wanted(vmspace[t]))
     IN  /\ firstpaddr' = got.first
         /\ IF Len(got.got) = 3
            THEN /\ vmspace' = [vmspace EXCEPT ![t] = as_prepare_load(@, got.got)]
                 /\ seg' = [seg EXCEPT ![t] = 1]
                 /\ Becomes(t, "load")
            ELSE Fails(t) /\ UNCHANGED seg
  /\ UNCHANGED <<prog, pos, image, vm_running, tlb, mem, vm_panic>>

\* vm_fault, in its splhigh section: the assertions, the lookup and a free entry
\* of the TLB.  A copy in the loader that fails makes it fail; a program is killed,
\* which panics.
vm_fault(t, a) ==
  LET frames == FramesOf(vmspace[t], Page(a))
  IN  IF ~SetUp(vmspace[t])
      THEN vm_panic' = TRUE /\ UNCHANGED <<tlb, doing, vmspace>>
      ELSE IF frames # {} /\ Cardinality(DOMAIN tlb) < NUM_TLB
      THEN /\ tlb' = [p \in DOMAIN tlb \cup {Page(a)} |->
                        IF p = Page(a) THEN CHOOSE f \in frames : TRUE ELSE tlb[p]]
           /\ UNCHANGED <<vm_panic, doing, vmspace>>
      ELSE IF doing[t] = "user"
      THEN vm_panic' = TRUE /\ UNCHANGED <<tlb, doing, vmspace>>
      ELSE Fails(t) /\ UNCHANGED <<tlb, vm_panic>>

Put(img, a, v) == [x \in DOMAIN img \cup {a} |-> IF x = a THEN v ELSE img[x]]

\* A store to a user address, through the TLB.
Store(t, a, v) ==
  /\ Page(a) \in DOMAIN tlb
  /\ mem' = [mem EXCEPT ![tlb[Page(a)] * PageBytes + (a % PageBytes)] = v]
  /\ image' = [image EXCEPT ![t] = Put(@, a, v)]

\* The bytes of the file, and zeros after them.
load_segment(s, i) == IF i < s.file THEN "file" ELSE "zero"

\* load_elf, second pass: the next byte of the segment.
load_elf_Load(t) ==
  LET s == prog[t][seg[t]]
      a == s.vaddr + pos[t]
  IN  /\ Acts(t, "load") /\ seg[t] <= Len(prog[t]) /\ pos[t] < s.mem
      /\ IF Page(a) \in DOMAIN tlb
         THEN /\ Store(t, a, load_segment(s, pos[t]))
              /\ pos' = [pos EXCEPT ![t] = @ + 1]
              /\ UNCHANGED <<tlb, vm_panic, doing, vmspace>>
         ELSE vm_fault(t, a) /\ UNCHANGED <<mem, image, pos>>
      /\ UNCHANGED <<prog, seg, vm_running, firstpaddr>>

load_elf_NextSegment(t) ==
  /\ Acts(t, "load") /\ seg[t] <= Len(prog[t]) /\ pos[t] = prog[t][seg[t]].mem
  /\ seg' = [seg EXCEPT ![t] = @ + 1]
  /\ pos' = [pos EXCEPT ![t] = 0]
  /\ UNCHANGED <<doing, prog, vmspace, image, vm_running, tlb, mem, firstpaddr, vm_panic>>

\* A read of the file fails, or is short.
load_elf_Fails(t) ==
  /\ Acts(t, "load") /\ seg[t] <= Len(prog[t]) /\ pos[t] = 0
  /\ Fails(t)
  /\ UNCHANGED <<prog, seg, pos, image, vm_running, tlb, mem, firstpaddr, vm_panic>>

\* as_define_stack and md_usermode.
Usermode(t) ==
  /\ Acts(t, "load") /\ seg[t] > Len(prog[t])
  /\ Becomes(t, "user")
  /\ UNCHANGED <<prog, seg, pos, vmspace, image, vm_running, tlb, mem, firstpaddr, vm_panic>>

\* The program writes to its last byte of data or to its stack.
UserStore(t) ==
  /\ Acts(t, "user")
  /\ LET last == prog[t][Len(prog[t])]
     IN  \E a \in {last.vaddr + last.mem - 1, USERSTACK - 1} :
           IF Page(a) \in DOMAIN tlb
           THEN Store(t, a, t) /\ UNCHANGED <<tlb, vm_panic, doing, vmspace>>
           ELSE vm_fault(t, a) /\ UNCHANGED <<mem, image>>
  /\ UNCHANGED <<prog, seg, pos, vm_running, firstpaddr>>

thread_exit_as(t) ==
  /\ Acts(t, "user")
  /\ Fails(t)
  /\ UNCHANGED <<prog, seg, pos, image, vm_running, tlb, mem, firstpaddr, vm_panic>>

CopyFrames(from, to, n) ==
  {<<(to + i) * PageBytes + b, (from + i) * PageBytes + b>> : i \in 0..(n - 1), b \in 0..(PageBytes - 1)}

\* as_copy for a child that runs the same program.
as_copy(t, u) ==
  LET old == vmspace[t]
      got == getppages(Wanted(old))
      new == as_prepare_load(old, got.got)
      copies == CopyFrames(old.as_pbase1, new.as_pbase1, old.as_npages1)
                \cup CopyFrames(old.as_pbase2, new.as_pbase2, old.as_npages2)
                \cup CopyFrames(old.as_stackpbase, new.as_stackpbase, DUMBVM_STACKPAGES)
  IN  /\ Acts(t, "user") /\ doing[u] = "new"
      /\ firstpaddr' = got.first
      /\ IF Len(got.got) = 3
         THEN /\ vmspace' = [vmspace EXCEPT ![u] = new]
              /\ mem' = [a \in DOMAIN mem |->
                           IF \E c \in copies : c[1] = a THEN mem[(CHOOSE c \in copies : c[1] = a)[2]] ELSE mem[a]]
              /\ image' = [image EXCEPT ![u] = image[t]]
              /\ prog' = [prog EXCEPT ![u] = prog[t]]
              /\ Becomes(u, "user")
         ELSE UNCHANGED <<vmspace, mem, image, prog, doing>>
      /\ UNCHANGED <<seg, pos, vm_running, tlb, vm_panic>>

\* The end of mi_switch: a thread with an address space empties the TLB.
as_activate(u) == IF vmspace[u] # NoSpace THEN Empty ELSE tlb

SwitchTo(u) ==
  /\ ~vm_panic /\ u # vm_running /\ doing[u] # "dead"
  /\ vm_running' = u
  /\ tlb' = as_activate(u)
  /\ UNCHANGED <<ctl, vmspace, image, mem, firstpaddr, vm_panic>>

VmStep(t) ==
  \/ runprogram(t) \/ load_elf_Define(t) \/ load_elf_Prepare(t) \/ load_elf_Load(t)
  \/ load_elf_NextSegment(t) \/ load_elf_Fails(t) \/ Usermode(t) \/ UserStore(t) \/ thread_exit_as(t)
  \/ \E u \in VThread : as_copy(t, u)

VmNext == \E t \in VThread : VmStep(t) \/ SwitchTo(t)

VmSpec == VmInit /\ [][VmNext]_vm_vars
----------------------------------------------------------------------------
(* Type invariant.                                                         *)
VmTypeOK ==
  /\ doing \in [VThread -> {"new", "define", "load", "user", "dead"}]
  /\ \A t \in VThread : doing[t] \in {"define", "load", "user"} => DOMAIN vmspace[t] = DOMAIN as_create
  /\ \A p \in DOMAIN tlb : tlb[p] \in 1..(FreePages - 1)
  /\ Cardinality(DOMAIN tlb) <= NUM_TLB
  /\ firstpaddr \in 1..FreePages

\* What a thread reads back at an address it has loaded or written, through the
\* TLB while it runs, is what it put there: no other program's loading, writing,
\* exiting or forking shows, and no entry of the TLB outlives its owner.  A
\* program that runs has all of its segments mapped, and each byte comes from the
\* file or was cleared: none is what was in memory before.
ProgramMemory ==
  \A t \in VThread : doing[t] \in {"load", "user"} =>
    /\ \A a \in DOMAIN image[t] :
         LET frames == IF vm_running = t /\ Page(a) \in DOMAIN tlb THEN {tlb[Page(a)]}
                       ELSE FramesOf(vmspace[t], Page(a))
         IN  \A f \in frames : mem[f * PageBytes + (a % PageBytes)] = image[t][a]
    /\ doing[t] = "user" =>
         \A i \in DOMAIN prog[t] : \A b \in 0..(prog[t][i].mem - 1) :
           LET a == prog[t][i].vaddr + b
           IN  /\ a \in DOMAIN image[t] /\ image[t][a] # Garbage
               /\ FramesOf(vmspace[t], Page(a)) # {}
============================================================================
