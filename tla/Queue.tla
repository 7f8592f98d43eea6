------------------------------- MODULE Queue -------------------------------
(***************************************************************************)
(* The ring buffer of kern/lib/queue.c, with the run queue's use of it: a  *)
(* queue that is enlarged in advance or when it is full, and whose         *)
(* allocations may fail.                                                   *)
(***************************************************************************)
EXTENDS Naturals, Sequences

CONSTANTS Elem,       \* the pointers that are queued
          Junk,       \* what a slot holds that was never written
          CreateSize, \* the argument of q_create
          MaxSize     \* bound on the argument of q_preallocate and on the size

ASSUME QueueAssumption ==
  /\ Junk \notin Elem
  /\ CreateSize \in Nat \ {0}
  /\ MaxSize \in Nat

VARIABLES size, nextwrite, nextread, data,
          got      \* the pointer q_remhead returned last

qvars == <<size, nextwrite, nextread, data, got>>

Slots(n) == [0..(n - 1) -> Elem \cup {Junk}]

q_create ==
  /\ size = CreateSize
  /\ nextwrite = 0 /\ nextread = 0
  /\ data = [i \in 0..(CreateSize - 1) |-> Junk]
  /\ got = Junk

q_empty == nextwrite = nextread

\* The slots in use, from nextread round to nextwrite.
Used == (nextwrite + size - nextread) % size
Contents == [i \in 1..Used |-> data[(nextread + i - 1) % size]]

\* The size q_grow ends up with.
NewSize(target) ==
  LET nsize[n \in Nat] == IF n < target THEN nsize[n * 2] ELSE n
  IN  nsize[size]

\* The new ring of n slots, with the old members from slot 0 on.
Moved(n) ==
  [i \in 0..(n - 1) |-> IF i < Used THEN data[(nextread + i) % size] ELSE Junk]

\* Nothing changes when the queue is large enough or the kmalloc fails.
q_preallocate(n) ==
  /\ n > size
  /\ NewSize(n) <= MaxSize
  /\ size' = NewSize(n)
  /\ data' = Moved(NewSize(n))
  /\ nextread' = 0
  /\ nextwrite' = Used
  /\ UNCHANGED got

AddInPlace_NoGap(x) ==    \* mutant: the last free slot is used too
  /\ data' = [data EXCEPT ![nextwrite] = x]
  /\ nextwrite' = (nextwrite + 1) % size
  /\ UNCHANGED <<size, nextread, got>>

AddInPlace(x) ==
  /\ (nextwrite + 1) % size # nextread
  /\ data' = [data EXCEPT ![nextwrite] = x]
  /\ nextwrite' = (nextwrite + 1) % size
  /\ UNCHANGED <<size, nextread, got>>

\* q_grow and then the addition to the new ring.
GrowAndAdd(x) ==
  LET n == NewSize(size + 1)
  IN  /\ (nextwrite + 1) % size = nextread
      /\ n <= MaxSize
      /\ size' = n
      /\ data' = [Moved(n) EXCEPT ![Used] = x]
      /\ nextread' = 0
      /\ nextwrite' = (Used + 1) % n
      /\ UNCHANGED got

q_addtail(x) == AddInPlace(x) \/ GrowAndAdd(x)

q_remhead ==
  /\ ~q_empty
  /\ got' = data[nextread]
  /\ nextread' = (nextread + 1) % size
  /\ UNCHANGED <<size, nextwrite, data>>

QNext ==
  \/ \E x \in Elem : q_addtail(x)
  \/ q_remhead
  \/ \E n \in 1..MaxSize : q_preallocate(n)

QSpec == q_create /\ [][QNext]_qvars
----------------------------------------------------------------------------
(* Type invariant.                                                         *)
QTypeOK ==
  /\ size \in Nat \ {0}
  /\ nextwrite \in 0..(size - 1)
  /\ nextread \in 0..(size - 1)
  /\ data \in Slots(size)
  /\ got \in Elem \cup {Junk}

F == INSTANCE Fifo WITH contents <- Contents, Nothing <- Junk

\* The ring is a first-in first-out queue, however it wraps and grows.
ImplementsFifo == F!FifoSpec
============================================================================
