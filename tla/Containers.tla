----------------------------- MODULE Containers -----------------------------
(***************************************************************************)
(* lib/bitmap.c, a set of numbers in words of bits, and lib/array.c, a     *)
(* sequence in a vector that is replaced as it grows.  A word is the set   *)
(* of its bits that are set.  Every allocation may fail.                   *)
(***************************************************************************)
EXTENDS Naturals, Sequences, SequencesExt, FiniteSetsExt

CONSTANTS NBITS,           \* of the bitmap
          BITS_PER_WORD,
          Guys,            \* what is put into the array
          ShrinkAbove,     \* 16 in array_setsize
          MaxGuys          \* bound: members of the array

Unset == "unset"           \* a slot of a fresh vector

VARIABLES
  v, marked, nmarked,      \* the words; the numbers marked, and how many times
  arr, guys                \* the array; the sequence it should be

bm_vars == <<v, marked, nmarked>>
arr_vars == <<arr, guys>>
cont_vars == <<bm_vars, arr_vars>>

DIVROUNDUP(a, b) == (a + b - 1) \div b
Words == DIVROUNDUP(NBITS, BITS_PER_WORD)
Word == 0..(BITS_PER_WORD - 1)

\* The bits past the end are marked for good.
bitmap_create ==
  v = [ix \in 0..(Words - 1) |-> {j \in Word : ix * BITS_PER_WORD + j >= NBITS}]

array_create == arr = [num |-> 0, max |-> 0, v |-> <<>>]

ContInit == bitmap_create /\ marked = {} /\ nmarked = 0 /\ array_create /\ guys = <<>>

bitmap_translate(bitno) == [ix |-> bitno \div BITS_PER_WORD, bit |-> bitno % BITS_PER_WORD]
bitmap_isset(bitno) == LET t == bitmap_translate(bitno) IN t.bit \in v[t.ix]

\* The first word that is not full, and the first bit of it; or ENOSPC.
bitmap_alloc ==
  LET free == {ix \in DOMAIN v : v[ix] # Word}
      ix == Min(free)
      off == Min(Word \ v[ix])
  IN  /\ free # {}
      /\ v' = [v EXCEPT ![ix] = @ \cup {off}]
      /\ marked' = marked \cup {ix * BITS_PER_WORD + off}
      /\ nmarked' = nmarked + 1
      /\ UNCHANGED arr_vars

\* Of a bit the caller knows to be clear, and of one it knows to be set.
bitmap_mark(i) ==
  LET t == bitmap_translate(i)
  IN  /\ i \notin marked
      /\ v' = [v EXCEPT ![t.ix] = @ \cup {t.bit}]
      /\ marked' = marked \cup {i} /\ nmarked' = nmarked + 1
      /\ UNCHANGED arr_vars

bitmap_unmark(i) ==
  LET t == bitmap_translate(i)
  IN  /\ i \in marked
      /\ v' = [v EXCEPT ![t.ix] = @ \ {t.bit}]
      /\ marked' = marked \ {i} /\ nmarked' = nmarked - 1
      /\ UNCHANGED arr_vars
----------------------------------------------------------------------------
NewMax(a, n) ==
  LET grown[k \in 0..n] == IF k = 0 THEN a.max ELSE IF grown[k - 1] >= n THEN grown[k - 1] ELSE (grown[k - 1] + 1) * 2
  IN  grown[n]

\* A vector of at least n slots, with the members copied.
array_preallocate(a, n) ==
  [a EXCEPT !.max = NewMax(a, n),
            !.v = [i \in 1..NewMax(a, n) |-> IF i <= a.num THEN a.v[i] ELSE Unset]]

array_setsize(a, n) ==
  [IF n > a.max THEN array_preallocate(a, n)
   ELSE IF n = 0 /\ a.max > ShrinkAbove THEN [a EXCEPT !.v = <<>>, !.max = 0]
   ELSE a EXCEPT !.num = n]

\* Callers that preallocate, set the size, store, add and remove.  Those that
\* allocate may fail, and then change nothing.
Preallocate(n) == arr' = array_preallocate(arr, n) /\ UNCHANGED <<guys, bm_vars>>

Setsize(n) ==
  /\ arr' = array_setsize(arr, n)
  /\ guys' = [i \in 1..n |-> IF i <= Len(guys) THEN guys[i] ELSE arr'.v[i]]
  /\ UNCHANGED bm_vars

array_setguy(i, g) ==
  /\ i <= arr.num
  /\ arr' = [arr EXCEPT !.v[i] = g]
  /\ guys' = [guys EXCEPT ![i] = g]
  /\ UNCHANGED bm_vars

array_add(g) ==
  /\ arr.num < MaxGuys
  /\ LET a == array_setsize(arr, arr.num + 1)
     IN  arr' = [a EXCEPT !.v[arr.num + 1] = g]
  /\ guys' = Append(guys, g)
  /\ UNCHANGED bm_vars

array_remove_MovesOneLess(i) ==    \* mutant: the last member is not moved down
  /\ i <= arr.num
  /\ arr' = [arr EXCEPT !.num = @ - 1,
                        !.v = [j \in DOMAIN @ |-> IF j >= i /\ j + 1 < arr.num THEN @[j + 1] ELSE @[j]]]
  /\ guys' = RemoveAt(guys, i)
  /\ UNCHANGED bm_vars

array_remove(i) ==
  /\ i <= arr.num
  /\ arr' = [arr EXCEPT !.num = @ - 1,
                        !.v = [j \in DOMAIN @ |-> IF j >= i /\ j < arr.num THEN @[j + 1] ELSE @[j]]]
  /\ guys' = RemoveAt(guys, i)
  /\ UNCHANGED bm_vars

ContNext ==
  \/ bitmap_alloc
  \/ \E i \in 0..(NBITS - 1) : bitmap_mark(i) \/ bitmap_unmark(i)
  \/ \E n \in 0..MaxGuys : Preallocate(n) \/ Setsize(n)
  \/ \E i \in 1..MaxGuys : array_remove(i) \/ (\E g \in Guys : array_setguy(i, g))
  \/ \E g \in Guys : array_add(g)
----------------------------------------------------------------------------
(* Type invariant.                                                         *)
ContTypeOK ==
  /\ v \in [0..(Words - 1) -> SUBSET Word]
  /\ arr.num \in 0..arr.max /\ Len(arr.v) = arr.max

\* The bitmap is the set of what was marked, each number once and below the size:
\* what bitmap_alloc returns was free, and it finds nothing only when all are
\* taken.  The array is the sequence of what was put into it, through every
\* growth, shrinking and removal.
ContainersExact ==
  /\ \A i \in 0..(NBITS - 1) : bitmap_isset(i) <=> i \in marked
  /\ marked \subseteq 0..(NBITS - 1) /\ nmarked = Cardinality(marked)
  /\ (\A ix \in DOMAIN v : v[ix] = Word) <=> marked = 0..(NBITS - 1)
  /\ guys = SubSeq(arr.v, 1, arr.num)
============================================================================
