------------------------------- MODULE UserMem ------------------------------
(***************************************************************************)
(* Moving data between the kernel and user memory: lib/copyinout.c and     *)
(* userprog/uio.c.  User memory is a function on addresses; some addresses *)
(* are not mapped, so that touching them longjmps out of the copy.         *)
(***************************************************************************)
EXTENDS Naturals, Sequences, SequencesExt, FiniteSetsExt

CONSTANTS VaddrSpace,   \* the number of addresses: vaddr_t wraps there
          USERTOP,
          ZeroBytes         \* sizeof(zeros) in uiomovezeros

Unmapped == "unmapped"
Terminator == "nul"
OK == "ok"
EFAULT == "EFAULT"
ENAMETOOLONG == "ENAMETOOLONG"

\* The region from bot may wrap, may start in the kernel, or may run into it.
copycheck_NoWrap(bot, len) ==    \* mutant: regions that wrap pass
  LET top == (bot + len + VaddrSpace - 1) % VaddrSpace
  IN  IF bot >= USERTOP THEN [err |-> EFAULT, stoplen |-> len]
      ELSE [err |-> OK, stoplen |-> IF top >= USERTOP THEN USERTOP - bot ELSE len]

copycheck(bot, len) ==
  LET top == (bot + len + VaddrSpace - 1) % VaddrSpace
  IN  IF top < bot \/ bot >= USERTOP THEN [err |-> EFAULT, stoplen |-> len]
      ELSE [err |-> OK, stoplen |-> IF top >= USERTOP THEN USERTOP - bot ELSE len]

\* copyfail: a copy of the n bytes at a ends at the first that is not mapped.
copyfail(um, a, n) == \E i \in 0..(n - 1) : um[(a + i) % VaddrSpace] = Unmapped

Bytes(um, a, n) == [i \in 1..n |-> um[(a + i - 1) % VaddrSpace]]

copyin(um, usersrc, len) ==
  LET c == copycheck(usersrc, len)
  IN  IF c.err # OK \/ c.stoplen # len \/ copyfail(um, usersrc, len)
      THEN [err |-> EFAULT]
      ELSE [err |-> OK, dest |-> Bytes(um, usersrc, len)]

\* The same towards user memory; what was stored before a fault stays.
Stored(um, a, data) == [x \in DOMAIN um |-> IF x >= a /\ x < a + Len(data) THEN data[x - a + 1] ELSE um[x]]
copyout(um, data, userdest) ==
  LET c == copycheck(userdest, Len(data))
      good == {n \in 0..Len(data) : ~copyfail(um, userdest, n)}
  IN  IF c.err # OK \/ c.stoplen # Len(data)
      THEN [err |-> EFAULT, um |-> um]
      ELSE [err |-> IF Len(data) \in good THEN OK ELSE EFAULT,
            um |-> Stored(um, userdest, SubSeq(data, 1, Max(good)))]

\* Copy up to a Terminator, the end of the buffer or the end of user space; reads are of
\* the source and writes to the destination, either of which may fault.
copystr(um, a, src, maxlen, stoplen) ==
  LET limit == Min({maxlen, stoplen})
      nuls == {i \in 1..limit : src[i] = Terminator}
      touched == IF nuls = {} THEN limit ELSE Min(nuls)
  IN  IF copyfail(um, a, touched) THEN [err |-> EFAULT]
      ELSE IF nuls # {} THEN [err |-> OK, gotlen |-> Min(nuls)]
      ELSE [err |-> IF stoplen < maxlen THEN EFAULT ELSE ENAMETOOLONG]

copyinstr(um, usersrc, len) ==
  LET c == copycheck(usersrc, len)
  IN  IF c.err # OK THEN [err |-> c.err]
      ELSE copystr(um, usersrc, Bytes(um, usersrc, len), len, c.stoplen)

copyoutstr(um, src, userdest, len) ==
  LET c == copycheck(userdest, len)
  IN  IF c.err # OK THEN [err |-> c.err]
      ELSE copystr(um, userdest, src, len, c.stoplen)

mk_kuio(len, pos, rw) ==
  [base |-> 0, len |-> len, offset |-> pos, resid |-> len, seg |-> "sys", rw |-> rw]

\* uiomove of data (for UIO_READ) to where the uio points.  With one iovec the
\* loop runs at most twice, the second time to find the iovec used up.
uiomove(um, data, uio) ==
  LET size == Min({uio.len, Len(data)})
      piece == SubSeq(data, 1, size)
      out == IF uio.seg = "sys" THEN [err |-> OK, um |-> Stored(um, uio.base, piece)]
             ELSE copyout(um, piece, uio.base)
      moved == [uio EXCEPT !.base = @ + size, !.len = @ - size,
                           !.resid = @ - size, !.offset = @ + size]
  IN  IF data = <<>> \/ uio.resid = 0 THEN [err |-> OK, um |-> um, uio |-> uio]
      ELSE IF size = 0 THEN [err |-> "panic", um |-> um, uio |-> uio]
      ELSE IF out.err # OK THEN [err |-> out.err, um |-> out.um, uio |-> uio]
      ELSE IF size < Len(data) /\ moved.resid > 0 THEN [err |-> "panic", um |-> out.um, uio |-> moved]
      ELSE [err |-> OK, um |-> out.um, uio |-> moved]

Zeros(n) == [i \in 1..n |-> Terminator]
uiomovezeros(um, n, uio) ==
  LET after[k \in 0..n] ==    \* k bytes still to go
        IF k = n THEN [err |-> OK, um |-> um, uio |-> uio]
        ELSE LET before == after[Min({n, k + ZeroBytes})]
                 amt == IF k + ZeroBytes <= n THEN ZeroBytes ELSE n - k
             IN  IF before.err # OK THEN before ELSE uiomove(before.um, Zeros(amt), before.uio)
  IN  after[0]
----------------------------------------------------------------------------
(* What they should do.                                                    *)

InUserSpace(a, n) == \A i \in 0..(n - 1) : a + i < USERTOP
Accessible(um, a, n) == InUserSpace(a, n) /\ ~copyfail(um, a, n)

\* copyin and copyout succeed for the non-empty regions that are in user space and
\* mapped, and then copy them; copyout touches nothing else in any case.
CopyExact(um, a, data) ==
  LET n == Len(data)
      in == copyin(um, a, n)
      out == copyout(um, data, a)
  IN  /\ (in.err = OK) <=> (n > 0 /\ Accessible(um, a, n))
      /\ in.err = OK => in.dest = [i \in 1..n |-> um[a + i - 1]]
      /\ (out.err = OK) <=> (n > 0 /\ Accessible(um, a, n))
      /\ out.err = OK => \A i \in 1..n : out.um[a + i - 1] = data[i]
      /\ \A x \in DOMAIN um : (x < a \/ x >= a + n \/ x >= USERTOP) => out.um[x] = um[x]

\* copyinstr finds the string with its Terminator if it ends within the buffer and within
\* user space; it is too long if the whole buffer could be read; else it faults.
StringExact(um, a, n) ==
  LET r == copyinstr(um, a, n)
      ends == {i \in 1..n : a + i - 1 < USERTOP /\ um[a + i - 1] = Terminator}
  IN  n > 0 =>
        /\ (r.err = OK) <=> (ends # {} /\ Accessible(um, a, Min(ends)))
        /\ r.err = OK => r.gotlen = Min(ends)
        /\ (r.err = ENAMETOOLONG) <=> (ends = {} /\ Accessible(um, a, n))

\* A uio whose resid is covered by its buffer, which exists if it is the kernel's: the bytes moved are accounted for
\* everywhere, and a transfer that fails leaves the uio as it was.
UioExact(um, n, uio) ==
  LET r == uiomovezeros(um, n, uio)
      done == r.uio.offset - uio.offset
  IN  (uio.seg = "sys" => uio.base + uio.len <= VaddrSpace) =>
      /\ r.err # "panic"
      /\ r.err = OK => done = n
      /\ r.uio.resid = uio.resid - done /\ r.uio.len = uio.len - done /\ r.uio.base = uio.base + done
      /\ \A i \in 0..(done - 1) : r.um[uio.base + i] = Terminator
============================================================================
