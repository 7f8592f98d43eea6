----------------------------- MODULE MCKernel -----------------------------
(* The smaller parts of the kernel for TLC: data structures, allocators,     *)
(* address spaces, the way the system stops, and the algorithms that are     *)
(* pure functions.  They share no state, so that each behaviour is about one *)
(* of them, the subject; the pure functions are evaluated on all inputs.     *)
EXTENDS Queue, ThreadTables, SfsIo, Kheap, Containers, Menu, Printf, LibcRandom, Drivers, Vm, Shutdown, DevTable

VARIABLES subject,
          input      \* of a pure function, a record

kernel_vars == <<subject, input, qvars, tab_vars, sio_vars, heap_vars, cont_vars, vm_vars, stop_vars, tab_dev_vars>>

SeqsUpTo(S, n) == UNION {[1..k -> S] : k \in 0..n}
----------------------------------------------------------------------------
(* The inputs.                                                             *)

MCsizes == <<2, 4>>
MCcmdtable == {[name |-> <<"q">>, nargs |-> {1, 2}]}

\* Programs of two segments, one of them with pages not in the file and ending
\* in a page of its own; of two short ones, so that two such programs fit in
\* memory; of one; and of three, one more than dumbvm has.
Segment(vaddr, memsize, filesize) == [vaddr |-> vaddr, mem |-> memsize, file |-> filesize]
MCPrograms ==
  {<<Segment(2, 2, 2), Segment(7, 2, 1)>>,
   <<Segment(2, 1, 1), Segment(4, 1, 0)>>,
   <<Segment(2, 1, 1)>>,
   <<Segment(2, 1, 1), Segment(4, 1, 0), Segment(6, 1, 0)>>}

\* A disk, an emulated file system, and a device with the raw name of the disk;
\* volumes named like these, and not.
MCDevNames == {<<"lhd0">>, <<"emu0">>, <<"lhd0", "raw">>}
MCVolumeNames == {<<"vol">>, <<"lhd0">>, <<"emu0">>}

\* User memory with one byte that is not mapped and one that ends a string.
Memory(nul, bad) ==
  [x \in 0..(VaddrSpace - 1) |->
     IF x = bad THEN Unmapped ELSE IF x = nul THEN Terminator
     ELSE <<"a", "b", "c", "d", "e", "f", "g", "h">>[x + 1]]
CopyInputs ==
  [kind : {"copy"}, a : 0..7, n : 0..4, nul : 0..5, bad : 0..5, seg : {"sys", "user"}, extra : 0..1]
CopyUio(i) ==
  [mk_kuio(i.n + i.extra, 0, "read") EXCEPT !.seg = i.seg, !.base = i.a, !.resid = i.n]

\* Copies that overlap in every way; strings at 0 and 3 of a memory.
Numbered == [a \in 0..9 |-> a]
TwoTexts(s, t) ==
  [a \in 0..11 |-> IF a < Len(s) THEN s[a + 1]
                  ELSE IF a \in 3..(2 + Len(t)) THEN t[a - 2] ELSE NUL]
Codes == [c \in {NUL, "a", "b"} |-> IF c = NUL THEN 0 ELSE IF c = "a" THEN 1 ELSE 2]
\* Programs of three calls that set up two arrays for generators of every type,
\* or too small for any, seed them and switch between them and the library's.
MCdegrees == <<0, 4, 3, 5>>
MCseps == <<0, 1, 2, 3>>
MCBREAKS == <<2, 4, 5, 6>>
RandomCalls ==
  [op : {"srandom"}, seed : {3}, draws : {1, 4}]
  \cup [op : {"initstate"}, a : {"A"}, seed : {5}, n : {1, 2, 4}, draws : {1, 4}]
  \cup [op : {"initstate"}, a : {"B"}, seed : {6}, n : {4, 6}, draws : {1, 4}]
  \cup [op : {"setstate"}, a : Arrays \cup {randtbl}, draws : {1, 4}]
LibcInputs ==
  [kind : {"move"}, dst : 0..5, src : 0..5, len : 0..4]
  \cup [kind : {"texts"}, s : SeqsUpTo({"a", "b"}, 2), t : SeqsUpTo({"a", "b"}, 2), ch : {"a", NUL}]
  \cup [kind : {"number"}, flags : {<<>>, <<"-">>, <<"0">>, <<"#">>, <<"#", "0">>, <<"-", "0">>},
        width : {<<>>, <<"1">>, <<"5">>, <<"1", "0">>}, ch : {"d", "u", "x", "o"}, arg : 0..(UINT - 1)]
  \cup [kind : {"streams"}, calls : {s \in SeqsUpTo(RandomCalls, 3) : ProperCalls(s)}]
  \cup [kind : {"snprintf"}, buf : 0..2, len : 0..7, arg : 0..(UINT - 1)]

CommandInputs ==
  [kind : {"line"}, line : SeqsUpTo({"q", " ", ";"}, 6), isargs : BOOLEAN]
  \cup [kind : {"keys"}, keys : SeqsUpTo({"a", " ", "DEL", "^C", "^U", "^W", "\n"}, 4)]
  \cup [kind : {"interval"}, t1 : 0..11, t2 : 0..11]

TestDevices ==
  {[kind |-> "lhd", d_blocks |-> b, d_blocksize |-> 2] : b \in 1..9}
  \cup [kind : {"null", "random"}, d_blocks : {0}, d_blocksize : {1}]
DriverInputs ==
  [kind : {"random"}, seed : 1..(MODULUS - 1), n : 0..7, bad : {6, 7}]
  \cup [kind : {"device"}, d : TestDevices, pos : (-(W \div 2))..(W \div 2 - 1), n : 0..6, rw : {"read", "write"}]
  \cup [kind : {"clock"}, t1 : 0..23, dt : 0..7, du : 0..7]
  \cup [kind : {"screen"}, text : SeqsUpTo({"a", "b", "\n"}, 6), w : {2}, h : {1, 2}]

Inputs == CopyInputs \cup LibcInputs \cup CommandInputs \cup DriverInputs
----------------------------------------------------------------------------
KernelInit ==
  /\ subject \in {"queue", "tables", "sfs_io", "kheap", "containers", "vm", "shutdown", "names", "functions"}
  /\ input = [kind |-> "none"]
  /\ q_create
  /\ TabInit
  /\ SfsIoInit
  /\ HeapInit
  /\ ContInit
  /\ VmInit
  /\ subject # "vm" => /\ vm_running = CHOOSE t \in VThread : TRUE
                       /\ \A t \in VThread : prog[t] = CHOOSE p \in Programs : TRUE
  /\ kernel_booted
  /\ vfs_bootstrap

Evaluate ==
  IF input.kind = "none" THEN input' \in Inputs ELSE input' = [kind |-> "none"]

KernelNext ==
  /\ UNCHANGED subject
  /\ \/ subject = "queue" /\ QNext /\ UNCHANGED <<input, tab_vars, sio_vars, heap_vars, cont_vars, vm_vars, stop_vars, tab_dev_vars>>
     \/ subject = "tables" /\ TabNext /\ UNCHANGED <<input, qvars, sio_vars, heap_vars, cont_vars, vm_vars, stop_vars, tab_dev_vars>>
     \/ subject = "sfs_io" /\ SfsIoNext /\ UNCHANGED <<input, qvars, tab_vars, heap_vars, cont_vars, vm_vars, stop_vars, tab_dev_vars>>
     \/ subject = "kheap" /\ HeapNext /\ UNCHANGED <<input, qvars, tab_vars, sio_vars, cont_vars, vm_vars, stop_vars, tab_dev_vars>>
     \/ subject = "containers" /\ ContNext /\ UNCHANGED <<input, qvars, tab_vars, sio_vars, heap_vars, vm_vars, stop_vars, tab_dev_vars>>
     \/ subject = "vm" /\ VmNext /\ UNCHANGED <<input, qvars, tab_vars, sio_vars, heap_vars, cont_vars, stop_vars, tab_dev_vars>>
     \/ subject = "shutdown" /\ StopNext /\ UNCHANGED <<input, qvars, tab_vars, sio_vars, heap_vars, cont_vars, vm_vars, tab_dev_vars>>
     \/ subject = "names" /\ DevTableNext /\ UNCHANGED <<input, qvars, tab_vars, sio_vars, heap_vars, cont_vars, vm_vars, stop_vars>>
     \/ subject = "functions" /\ Evaluate /\ UNCHANGED <<qvars, tab_vars, sio_vars, heap_vars, cont_vars, vm_vars, stop_vars, tab_dev_vars>>

\* StopFairness of Shutdown, while it is the subject.
KernelFairness ==
  /\ \A t \in SThread :
       /\ SF_stop_vars(subject = "shutdown" /\ StopStep(t))
       /\ SF_stop_vars(subject = "shutdown" /\ scheduler_runs(t))
       /\ WF_stop_vars(subject = "shutdown" /\ hardclock_yields(t))
  /\ WF_stop_vars(subject = "shutdown" /\ lhd_irq_wakes)

KernelSpec == KernelInit /\ [][KernelNext]_kernel_vars /\ KernelFairness
----------------------------------------------------------------------------
(* The type invariants of the components.                                  *)
KernelTypeOK == QTypeOK /\ TabTypeOK /\ SfsIoTypeOK /\ HeapTypeOK /\ ContTypeOK /\ VmTypeOK /\ StopTypeOK /\ DevTableTypeOK

(* copyin, copyout, copyinstr and uiomovezeros for regions that wrap, cross  *)
(* USERTOP or touch an unmapped byte: exactly the accessible ones are copied *)
(* in full, nothing outside the region is written and the uio accounts for   *)
(* what was moved.                                                           *)
UserMemoryExact ==
  input.kind = "copy" =>
    LET um == Memory(input.nul, input.bad)
    IN  /\ CopyExact(um, input.a, [i \in 1..input.n |-> i])
        /\ StringExact(um, input.a, input.n)
        /\ UioExact(um, input.n, CopyUio(input))

(* memcpy, memmove and the string functions copy and compare what they say,  *)
(* in words or bytes and for every overlap; printf's fields, whatever flags  *)
(* and width, read back as the number, and snprintf stays in its buffer; and *)
(* a program that switches between arrays of random() draws from each the    *)
(* stream it would draw from that array alone.                               *)
LibcExact ==
  CASE input.kind = "move" -> CopyingExact(Numbered, input.dst, input.src, input.len)
    [] input.kind = "texts" -> TextsExact(TwoTexts(input.s, input.t), 0, 3, 6, input.ch, Codes)
    [] input.kind = "number" -> NumberExact(input.flags, input.width, input.ch, input.arg)
    [] input.kind = "streams" -> StreamsExact(input.calls)
    [] input.kind = "snprintf" -> SnprintfExact([a \in 0..12 |-> "z"], input.buf, input.len, input.arg)
    [] OTHER -> TRUE

(* The menu runs the commands of a line in order with their own words, what  *)
(* kgets returns is what the terminal shows, and the times it prints are     *)
(* differences.                                                              *)
CommandsExact ==
  CASE input.kind = "line" -> LineExact(input.line, input.isargs)
    [] input.kind = "keys" -> EchoExact(input.keys, 4)
    [] input.kind = "interval" ->
         input.t1 <= input.t2 =>
           IntervalExact(input.t1 \div 4, input.t1 % 4, input.t2 \div 4, input.t2 % 4, 4)
    [] OTHER -> TRUE

(* Seeks, transfers and sizes of devices agree with each other, gettime      *)
(* returns a time at which it read the clock, the random generator is the    *)
(* multiplicative one, and the screen shows the end of what was written.     *)
DriversExact ==
  CASE input.kind = "random" -> RandomExact(Memory(8, input.bad), input.seed, mk_kuio(input.n, 0, "read"))
    [] input.kind = "device" -> DeviceExact(input.d, input.pos, input.n, input.rw)
    [] input.kind = "clock" -> ClockExact(input.t1, input.t1 + input.dt, input.t1 + input.dt + input.du)
    [] input.kind = "screen" -> ScreenExact(input.text, input.w, input.h)
    [] OTHER -> TRUE
============================================================================
