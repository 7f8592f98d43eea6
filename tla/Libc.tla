-------------------------------- MODULE Libc --------------------------------
(* The memory and string functions shared by the kernel and the C library   *)
(* (lib/libc), on a memory of bytes: a function from addresses to bytes.     *)
(* A string at an address ends before the first NUL.  Copies go one unit, a  *)
(* word or a byte, after the other, so that overlapping regions matter.      *)
EXTENDS Integers, Sequences, SequencesExt

CONSTANTS WORD,     \* sizeof(long)
          UINT      \* 2^32 on the machine: where unsigned arithmetic wraps

NUL == "NUL"

Upto(n) == [i \in 1..n |-> i]
Aligned3(a, b, n) == a % WORD = 0 /\ b % WORD = 0 /\ n % WORD = 0
MoveBytes(mem, d, s, n) == [a \in DOMAIN mem |-> IF a \in d..(d + n - 1) THEN mem[s + (a - d)] ELSE mem[a]]

\* memcpy: forwards, in words where everything is aligned.
memcpy(mem, dst, src, len) ==
  LET unit == IF Aligned3(dst, src, len) THEN WORD ELSE 1
  IN  FoldLeft(LAMBDA m, i : MoveBytes(m, dst + (i - 1) * unit, src + (i - 1) * unit, unit),
                     mem, Upto(len \div unit))

memmove_Forwards(mem, dst, src, len) == memcpy(mem, dst, src, len)    \* mutant: always front to back

\* memmove: memcpy when the destination is below the source, else back to front.
memmove(mem, dst, src, len) ==
  LET unit == IF Aligned3(dst, src, len) THEN WORD ELSE 1
      n == len \div unit
  IN  IF dst < src THEN memcpy(mem, dst, src, len)
      ELSE FoldLeft(LAMBDA m, i : MoveBytes(m, dst + (n - i) * unit, src + (n - i) * unit, unit),
                          mem, Upto(n))

\* bzero and memset.
memset(mem, ptr, ch, len) == [a \in DOMAIN mem |-> IF a \in ptr..(ptr + len - 1) THEN ch ELSE mem[a]]
bzero(mem, block, len) ==
  LET unit == IF Aligned3(block, 0, len) THEN WORD ELSE 1
  IN  FoldLeft(LAMBDA m, i : memset(m, block + (i - 1) * unit, NUL, unit),
                     mem, Upto(len \div unit))

\* The first address from a on whose byte is one of a set, or is not: where
\* the loops of the string functions stop.
FirstIn(mem, a, set) ==
  CHOOSE b \in DOMAIN mem : b >= a /\ mem[b] \in set /\ \A c \in a..(b - 1) : mem[c] \notin set
FirstNotIn(mem, a, set) ==
  CHOOSE b \in DOMAIN mem : b >= a /\ mem[b] \notin set /\ \A c \in a..(b - 1) : mem[c] \in set

strlen(mem, s) == FirstIn(mem, s, {NUL}) - s
Text(mem, s) == [i \in 1..strlen(mem, s) |-> mem[s + i - 1]]

strcpy(mem, dest, src) == MoveBytes(mem, dest, src, strlen(mem, src) + 1)
strcat(mem, dest, src) == strcpy(mem, dest + strlen(mem, dest), src)

\* strchr and strrchr: an address or -1, and both find the terminator.
strchr(mem, s, ch) ==
  LET a == FirstIn(mem, s, {ch, NUL}) IN IF mem[a] = ch THEN a ELSE -1
strrchr(mem, s, ch) ==
  LET at == {i \in s..(s + strlen(mem, s)) : mem[i] = ch}
  IN  IF at = {} THEN -1 ELSE CHOOSE a \in at : \A b \in at : b <= a

\* strcmp, with an order of the characters (NUL is 0).
strcmp(mem, a, b, code) ==
  LET i == CHOOSE i \in 0..strlen(mem, a) :
             /\ mem[a + i] = NUL \/ mem[a + i] # mem[b + i]
             /\ \A j \in 0..(i - 1) : mem[a + j] = mem[b + j]
      ca == code[mem[a + i]]
      cb == code[mem[b + i]]
  IN  IF ca > cb THEN 1 ELSE IF ca = cb THEN 0 ELSE -1

strtok_r_KeepsTail(mem, string, seps, context) ==    \* mutant: the context is not moved past the NUL
  LET start == IF string # -1 THEN string ELSE context
      head == IF start = -1 THEN -1 ELSE FirstNotIn(mem, start, seps)
      tail == IF head = -1 THEN -1 ELSE FirstIn(mem, head, seps \cup {NUL})
  IN  IF start = -1 THEN [mem |-> mem, ret |-> -1, context |-> -1]
      ELSE IF mem[head] = NUL THEN [mem |-> mem, ret |-> -1, context |-> -1]
      ELSE IF mem[tail] = NUL THEN [mem |-> mem, ret |-> head, context |-> -1]
      ELSE [mem |-> [mem EXCEPT ![tail] = NUL], ret |-> head, context |-> tail]

\* strtok_r: the next word; the separator after it becomes its terminator.
\* -1 is the NULL pointer, as argument, as context and as result.
strtok_r(mem, string, seps, context) ==
  LET start == IF string # -1 THEN string ELSE context
      head == IF start = -1 THEN -1 ELSE FirstNotIn(mem, start, seps)
      tail == IF head = -1 THEN -1 ELSE FirstIn(mem, head, seps \cup {NUL})
  IN  IF start = -1 THEN [mem |-> mem, ret |-> -1, context |-> -1]
      ELSE IF mem[head] = NUL THEN [mem |-> mem, ret |-> -1, context |-> -1]
      ELSE IF mem[tail] = NUL THEN [mem |-> mem, ret |-> head, context |-> -1]
      ELSE [mem |-> [mem EXCEPT ![tail] = NUL], ret |-> head, context |-> tail + 1]

Digits == <<"0", "1", "2", "3", "4", "5", "6", "7", "8", "9">>
DigitOf(ch) == SelectInSeq(Digits, LAMBDA d : d = ch) - 1

\* atoi: blanks, a sign, digits up to the first other character; unsigned
\* arithmetic, whose value the result is read from.
atoi(mem, s) ==
  LET a == FirstNotIn(mem, s, {" ", "\t"})
      b == IF mem[a] \in {"-", "+"} THEN a + 1 ELSE a
      e == FirstNotIn(mem, b, Range(Digits))
      val == FoldLeft(LAMBDA v, ch : (v * 10 + DigitOf(ch)) % UINT, 0, [i \in 1..(e - b) |-> mem[b + i - 1]])
      u == IF mem[a] = "-" THEN (UINT - val) % UINT ELSE val
  IN  IF u >= UINT \div 2 THEN u - UINT ELSE u
----------------------------------------------------------------------------
(* What the functions are for, as reference definitions.                   *)

\* memmove is a copy of the region as it was, however the regions overlap
\* and whether words or bytes are moved; so is memcpy where they do not overlap,
\* and where the destination is below (memmove relies on it).
CopyingExact(mem, dst, src, len) ==
  /\ memmove(mem, dst, src, len) = MoveBytes(mem, dst, src, len)
  /\ (dst < src \/ src + len <= dst) => memcpy(mem, dst, src, len) = MoveBytes(mem, dst, src, len)
  /\ bzero(mem, dst, len) = memset(mem, dst, NUL, len)

\* Two strings in a memory: copied behind one another they make the
\* concatenation, searches find the first and the last occurrence, and
\* comparison is the dictionary's, antisymmetric and 0 only for equal texts.
TextsExact(mem, a, b, to, ch, code) ==
  LET joined == strcat(strcpy(mem, to, a), to, b)
      ta == Text(mem, a)
      tb == Text(mem, b)
  IN  /\ Text(joined, to) = ta \o tb
      /\ \A x \in DOMAIN mem : x < to \/ x > to + Len(ta) + Len(tb) => joined[x] = mem[x]
      /\ strchr(mem, a, ch) - a =
           (IF ch \in Range(ta) THEN SelectInSeq(ta, LAMBDA c : c = ch) - 1
            ELSE IF ch = NUL THEN Len(ta) ELSE -1 - a)
      /\ strrchr(mem, a, ch) - a =
           (IF ch \in Range(ta) THEN SelectLastInSeq(ta, LAMBDA c : c = ch) - 1
            ELSE IF ch = NUL THEN Len(ta) ELSE -1 - a)
      /\ strcmp(mem, a, b, code) = -strcmp(mem, b, a, code)
      /\ strcmp(mem, a, b, code) = 0 <=> ta = tb
      /\ (IsStrictPrefix(ta, tb) => strcmp(mem, a, b, code) = -1)
============================================================================
