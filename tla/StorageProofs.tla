--------------------------- MODULE StorageProofs ---------------------------
(***************************************************************************)
(* Proofs about the storage of the kernel's lists: the ring buffer of      *)
(* lib/queue.c is a first-in first-out queue, and the lists of the thread  *)
(* system always have room for what they hold.  And what sfs_io transfers  *)
(* from or to a file is accounted for.                                     *)
(***************************************************************************)
EXTENDS Queue, ThreadTables, SfsIo, InductionFacts

----------------------------------------------------------------------------
(* The loops that double a size.                                           *)

\* The loop of q_grow, from n slots: at least target slots, and no fewer.
LEMMA DoublingFacts ==
  ASSUME NEW n \in Nat \ {0}, NEW target \in Nat
  PROVE  /\ SlotsGrown(n, target) \in Nat \ {0}
         /\ SlotsGrown(n, target) >= n
         /\ SlotsGrown(n, target) >= target
<1> DEFINE D == Nat \ {0}
           g == [m \in Nat |-> m * 2]
           f == CHOOSE f : f = [m \in Nat |-> IF m < target THEN f[m * 2] ELSE m]
<1>1. SlotsGrown(n, target) = f[n]
  BY Zenon DEF SlotsGrown
<1>2. \E h : h = [m \in Nat |-> IF m < target THEN h[m * 2] ELSE m]
  <2>1. g \in [Nat -> Nat] /\ \A m \in Nat : m < target => g[m] >= m
    OBVIOUS
  <2>2. PICK h : h = [m \in Nat |-> IF m < target THEN h[g[m]] ELSE m]
    <3> HIDE DEF g
    <3> QED BY <2>1, LoopDefined, Zenon
  <2>3. h = [m \in Nat |-> IF m < target THEN h[m * 2] ELSE m]
    BY <2>2, Zenon
  <2> QED
    BY <2>3, Zenon
<1>3. f = [m \in Nat |-> IF m < target THEN f[m * 2] ELSE m]
  BY <1>2, Zenon
<1> HIDE DEF f
<1>4. LoopOf(target, g, f)
  BY <1>3, Zenon DEF LoopOf
<1>5. g \in [Nat -> Nat] /\ Climbs(target, g, D)
  BY DEF Climbs
<1>6. \A m \in D : f[m] \in D /\ f[m] >= target /\ f[m] >= m
  <2> HIDE DEF g, D
  <2> QED BY <1>4, <1>5, LoopReaches, Zenon
<1> QED
  BY <1>1, <1>6, Zenon

\* The loop of array_preallocate, from max: room for num members, and no less.
LEMMA PreallocatedFacts ==
  ASSUME NEW max \in Nat, NEW num \in Nat
  PROVE  /\ MaxPreallocated(max, num) \in Nat
         /\ MaxPreallocated(max, num) >= max
         /\ MaxPreallocated(max, num) >= num
<1> DEFINE D == Nat
           g == [m \in Nat |-> (m + 1) * 2]
           f == CHOOSE f : f = [m \in Nat |-> IF num > m THEN f[(m + 1) * 2] ELSE m]
<1>1. MaxPreallocated(max, num) = f[max]
  BY Zenon DEF MaxPreallocated
<1>2. \E h : h = [m \in Nat |-> IF num > m THEN h[(m + 1) * 2] ELSE m]
  <2>1. g \in [Nat -> Nat] /\ \A m \in Nat : m < num => g[m] >= m
    OBVIOUS
  <2>2. PICK h : h = [m \in Nat |-> IF m < num THEN h[g[m]] ELSE m]
    <3> HIDE DEF g
    <3> QED BY <2>1, LoopDefined, Zenon
  <2>3. h = [m \in Nat |-> IF num > m THEN h[(m + 1) * 2] ELSE m]
    BY <2>2, Zenon
  <2> QED
    BY <2>3, Zenon
<1>3. f = [m \in Nat |-> IF num > m THEN f[(m + 1) * 2] ELSE m]
  BY <1>2, Zenon
<1> HIDE DEF f
<1>4. LoopOf(num, g, f)
  BY <1>3, Zenon DEF LoopOf
<1>5. g \in [Nat -> Nat] /\ Climbs(num, g, D)
  BY DEF Climbs
<1>6. \A m \in D : f[m] \in D /\ f[m] >= num /\ f[m] >= m
  <2> HIDE DEF g, D
  <2> QED BY <1>4, <1>5, LoopReaches, Zenon
<1> QED
  BY <1>1, <1>6, Zenon
----------------------------------------------------------------------------
(* The lists of the thread system.                                         *)

\* Every thread that counts in numthreads runs, is queued or is asleep.
EveryThreadListed ==
  numthreads = asleep + Len(runqueue) + (IF running THEN 1 ELSE 0)

TabInv == TabTypeOK /\ EveryThreadListed /\ NoOverflow

\* q_addtail to a ring that has room for its n members: one more slot than the
\* members it then has, and no fewer slots than before.
LEMMA AddedFacts ==
  ASSUME NEW n \in Nat \ {0}, NEW len \in Nat, len < n
  PROVE  /\ SlotsAdded(n, len) \in Nat \ {0}
         /\ len + 1 < SlotsAdded(n, len)
<1>1. CASE len + 1 = n
  <2>1. SlotsAdded(n, len) = SlotsGrown(n, n + 1)
    BY <1>1, Zenon DEF SlotsAdded, Full
  <2>2. SlotsGrown(n, n + 1) \in Nat \ {0} /\ SlotsGrown(n, n + 1) >= n + 1
    BY DoublingFacts
  <2> QED
    BY <2>1, <2>2
<1>2. CASE len + 1 # n
  BY <1>2 DEF SlotsAdded, Full
<1> QED
  BY <1>1, <1>2, Zenon

\* q_preallocate to n slots or more.
LEMMA SlotsPreallocatedFacts ==
  ASSUME NEW n \in Nat \ {0}, NEW target \in Nat
  PROVE  /\ SlotsPreallocated(n, target) \in Nat \ {0}
         /\ SlotsPreallocated(n, target) >= n
<1>1. SlotsGrown(n, target) \in Nat \ {0} /\ SlotsGrown(n, target) >= n
  BY DoublingFacts, Zenon
<1> QED
  BY <1>1 DEF SlotsPreallocated

\* The scheduler takes the next thread from the run queue q: what runs and what
\* is queued are together the members of q, and the zombies still have room.
LEMMA SwitchFacts ==
  ASSUME NEW q \in Seq({"new", "old"}), NEW z \in Nat, NEW zm \in Nat, z <= zm,
         q = <<>> => runqueue = <<>>, Switch(q, z, zm)
  PROVE  /\ running' \in BOOLEAN
         /\ runqueue' \in Seq({"new", "old"})
         /\ Len(runqueue') + (IF running' THEN 1 ELSE 0) = Len(q)
         /\ Len(runqueue') \in Nat
         /\ Len(runqueue') <= Len(q)
         /\ dead' \in Nat /\ zombiesmax' \in Nat
         /\ dead' <= z /\ dead' <= zombiesmax'
<1>1. CASE q = <<>>
  <2>1. /\ running' = FALSE /\ runqueue' = <<>> /\ dead' = z /\ zombiesmax' = zm
        /\ Len(q) = 0 /\ Len(runqueue') = 0 /\ runqueue' \in Seq({"new", "old"})
    BY <1>1 DEF Switch
  <2>2. running' \in BOOLEAN /\ (IF running' THEN 1 ELSE 0) = 0
    BY <2>1, Zenon
  <2> QED
    BY <2>1, <2>2
<1>2. CASE q # <<>>
  <2>1. running' = TRUE /\ runqueue' = Tail(q)
    BY <1>2, Zenon DEF Switch
  <2>2. /\ Len(q) \in Nat \ {0}
        /\ Tail(q) \in Seq({"new", "old"})
        /\ Len(Tail(q)) = Len(q) - 1
    BY <1>2
  <2>3. \/ dead' = 0 /\ zombiesmax' = Emptied(zm)
        \/ dead' = z /\ zombiesmax' = zm
    BY <1>2, Zenon DEF Switch
  <2>4. Emptied(zm) \in Nat
    BY Zenon DEF Emptied
  <2> QED
    BY <2>1, <2>2, <2>3, <2>4
<1> QED
  BY <1>1, <1>2, Zenon

\* One thread more on the run queue.
LEMMA QueueAppend ==
  ASSUME NEW q \in Seq({"new", "old"}), NEW x \in {"new", "old"}
  PROVE  Append(q, x) \in Seq({"new", "old"}) /\ Len(Append(q, x)) = Len(q) + 1
  OBVIOUS

\* The lists of the thread system stay as TabInv says in every step: the sizes
\* they are given cover every thread on them.
LEMMA TabInvStep == TabInv /\ [TabNext]_tab_vars => TabInv'
<1> SUFFICES ASSUME TabInv, [TabNext]_tab_vars PROVE TabInv'
  BY Zenon
<1> USE TablesAssumption
<1>0. /\ Len(runqueue) \in Nat /\ slots \in Nat \ {0}
      /\ asleep \in Nat /\ dead \in Nat /\ numthreads \in Nat
      /\ sleepersmax \in Nat /\ zombiesmax \in Nat
      /\ runqueue \in Seq({"new", "old"}) /\ running \in BOOLEAN
      /\ Len(runqueue) < slots /\ asleep <= sleepersmax /\ dead <= zombiesmax
      /\ numthreads >= 1 /\ numthreads <= MaxThreads
      /\ dead <= MaxDead
      /\ short \subseteq {"runqueue", "sleepers", "zombies"}
  BY DEF TabInv, TabTypeOK, NoOverflow
<1>n. numthreads + 1 \in Nat /\ asleep + 1 \in Nat /\ dead + 1 \in Nat
  BY <1>0
<1>t. numthreads = asleep + Len(runqueue) + (IF running THEN 1 ELSE 0)
  BY Zenon DEF TabInv, EveryThreadListed
<1>1. CASE ForkFails
  <2>1. /\ MaxPreallocated(sleepersmax, numthreads + 1) \in Nat
        /\ MaxPreallocated(sleepersmax, numthreads + 1) >= sleepersmax
        /\ MaxPreallocated(zombiesmax, numthreads + 1) \in Nat
        /\ MaxPreallocated(zombiesmax, numthreads + 1) >= zombiesmax
    BY <1>0, <1>n, PreallocatedFacts, Zenon
  <2>2. /\ SlotsPreallocated(slots, numthreads + 1) \in Nat
        /\ SlotsPreallocated(slots, numthreads + 1) >= slots
    BY <1>0, <1>n, SlotsPreallocatedFacts, Zenon
  <2>3. /\ sleepersmax' \in Nat /\ sleepersmax' >= sleepersmax
        /\ zombiesmax' \in Nat /\ zombiesmax' >= zombiesmax
        /\ slots' \in Nat /\ slots' >= slots
    BY <1>0, <1>1, <2>1, <2>2 DEF ForkFails
  <2>4. UNCHANGED <<numthreads, running, runqueue, asleep, dead, short>>
    BY <1>1, Zenon DEF ForkFails
  <2>a. EveryThreadListed'
    BY <1>0, <1>t, <2>3, <2>4, Zenon DEF EveryThreadListed
  <2>b. NoOverflow'
    BY <1>0, <1>t, <2>3, <2>4 DEF NoOverflow
  <2>c. TabTypeOK'
    BY <1>0, <1>t, <2>3, <2>4, <2>a DEF TabTypeOK, EveryThreadListed
  <2> QED
    BY <2>a, <2>b, <2>c, Zenon DEF TabInv
<1>2. CASE thread_fork
  <2>1. /\ sleepersmax' \in Nat /\ sleepersmax' >= sleepersmax
        /\ zombiesmax' \in Nat /\ zombiesmax' >= zombiesmax
    BY <1>0, <1>n, <1>2, PreallocatedFacts, Zenon DEF thread_fork
  <2> DEFINE n == SlotsPreallocated(slots, numthreads + 1)
  <2>2. n \in Nat \ {0} /\ n >= slots
    BY <1>0, <1>n, SlotsPreallocatedFacts, Zenon
  <2>3. slots' = SlotsAdded(n, Len(runqueue))
    BY <1>2, Zenon DEF thread_fork
  <2> HIDE DEF n
  <2>4. slots' \in Nat /\ Len(runqueue) + 1 < slots'
    <3>1. Len(runqueue) < n
      BY <1>0, <2>2
    <3>2. SlotsAdded(n, Len(runqueue)) \in Nat /\ Len(runqueue) + 1 < SlotsAdded(n, Len(runqueue))
      BY <1>0, <2>2, <3>1, AddedFacts, Zenon
    <3> QED
      BY <2>3, <3>2, Zenon
  <2>5. /\ runqueue' \in Seq({"new", "old"})
        /\ Len(runqueue') = Len(runqueue) + 1
    BY <1>0, <1>2, QueueAppend, Zenon DEF thread_fork
  <2>6. /\ numthreads' = numthreads + 1 /\ numthreads < MaxThreads
        /\ UNCHANGED <<running, asleep, dead, short>>
    BY <1>2, Zenon DEF thread_fork
  <2>a. EveryThreadListed'
    <3> DEFINE k == IF running THEN 1 ELSE 0
    <3>1. k \in Nat
      BY Zenon
    <3>2. numthreads = asleep + Len(runqueue) + k
      BY <1>t, Zenon
    <3> HIDE DEF k
    <3>3. numthreads' = asleep + Len(runqueue') + k
      BY <1>0, <2>5, <2>6, <3>1, <3>2
    <3> QED BY <2>6, <3>3, Zenon DEF EveryThreadListed, k
  <2>b. NoOverflow'
    <3>1. Len(runqueue') < slots'
      BY <2>4, <2>5, Zenon
    <3>2. asleep' <= sleepersmax' /\ dead' <= zombiesmax'
      BY <1>0, <2>1, <2>6
    <3> QED BY <3>1, <3>2, Zenon DEF NoOverflow
  <2>c. TabTypeOK'
    BY <1>0, <1>t, <2>1, <2>4, <2>5, <2>6, <2>a DEF TabTypeOK, EveryThreadListed
  <2> QED
    BY <2>a, <2>b, <2>c, Zenon DEF TabInv
<1>3. CASE thread_yield
  <2> DEFINE q == Append(runqueue, "old")
  <2>1. q \in Seq({"new", "old"}) /\ Len(q) = Len(runqueue) + 1
    BY <1>0, QueueAppend, Zenon
  <2>2. q # <<>> /\ Switch(q, dead, zombiesmax)
    BY <1>0, <1>3, <2>1 DEF thread_yield
  <2> HIDE DEF q
  <2>3. /\ running' \in BOOLEAN
        /\ runqueue' \in Seq({"new", "old"})
        /\ Len(runqueue') + (IF running' THEN 1 ELSE 0) = Len(runqueue) + 1
        /\ Len(runqueue') \in Nat /\ Len(runqueue') <= Len(runqueue) + 1
        /\ dead' \in Nat /\ zombiesmax' \in Nat
        /\ dead' <= dead /\ dead' <= zombiesmax'
    BY <1>0, <2>1, <2>2, SwitchFacts, Zenon
  <2>4. slots' \in Nat /\ Len(runqueue) + 1 < slots'
    <3>1. slots' = SlotsAdded(slots, Len(runqueue))
      BY <1>3, Zenon DEF thread_yield
    <3> QED
      BY <1>0, <3>1, AddedFacts, Zenon
  <2>5. running /\ UNCHANGED <<numthreads, asleep, sleepersmax>>
    BY <1>3, Zenon DEF thread_yield
  <2>6. short' \subseteq {"runqueue", "sleepers", "zombies"}
    BY <1>0, <1>3, Zenon DEF thread_yield, Short
  <2>a. EveryThreadListed'
    <3> DEFINE k == IF running' THEN 1 ELSE 0
    <3>1. k \in Nat
      BY Zenon
    <3>2. numthreads = asleep + Len(runqueue) + 1
      BY <1>t, <2>5, Zenon
    <3>3. Len(runqueue') + k = Len(runqueue) + 1
      BY <2>3, Zenon
    <3> HIDE DEF k
    <3>4. Len(runqueue) \in Nat /\ Len(runqueue') \in Nat /\ asleep \in Nat
          /\ numthreads' = numthreads /\ asleep' = asleep
      BY <1>0, <2>3, <2>5, Zenon
    <3>5. numthreads' = asleep' + Len(runqueue') + k
      <4> HIDE TablesAssumption
      <4> QED BY <3>1, <3>2, <3>3, <3>4
    <3> QED BY <3>5, Zenon DEF EveryThreadListed, k
  <2>b. NoOverflow'
    BY <1>0, <1>t, <2>3, <2>4, <2>5, <2>6 DEF NoOverflow
  <2>c. TabTypeOK'
    BY <1>0, <1>t, <2>3, <2>4, <2>5, <2>6, <2>a DEF TabTypeOK, EveryThreadListed
  <2> QED
    BY <2>a, <2>b, <2>c, Zenon DEF TabInv
<1>4. CASE thread_sleep
  <2>1. /\ sleepersmax' \in Nat /\ sleepersmax' >= asleep + 1
    BY <1>0, <1>n, <1>4, PreallocatedFacts, Zenon DEF thread_sleep, MaxAdded
  <2>2. Switch(runqueue, dead, zombiesmax)
    BY <1>4, Zenon DEF thread_sleep
  <2>3. /\ running' \in BOOLEAN
        /\ runqueue' \in Seq({"new", "old"})
        /\ Len(runqueue') + (IF running' THEN 1 ELSE 0) = Len(runqueue)
        /\ Len(runqueue') \in Nat /\ Len(runqueue') <= Len(runqueue)
        /\ dead' \in Nat /\ zombiesmax' \in Nat
        /\ dead' <= dead /\ dead' <= zombiesmax'
    BY <1>0, <2>2, SwitchFacts, Zenon
  <2>5. running /\ asleep' = asleep + 1 /\ UNCHANGED <<numthreads, slots>>
    BY <1>4, Zenon DEF thread_sleep
  <2>6. short' \subseteq {"runqueue", "sleepers", "zombies"}
    BY <1>0, <1>4, Zenon DEF thread_sleep, Short
  <2>a. EveryThreadListed'
    <3> DEFINE k == IF running' THEN 1 ELSE 0
    <3>1. k \in Nat
      BY Zenon
    <3>2. numthreads = asleep + Len(runqueue) + 1
      BY <1>t, <2>5, Zenon
    <3>3. Len(runqueue') + k = Len(runqueue)
      BY <2>3, Zenon
    <3> HIDE DEF k
    <3>4. Len(runqueue) \in Nat /\ Len(runqueue') \in Nat /\ asleep \in Nat
          /\ numthreads' = numthreads /\ asleep' = asleep + 1
      BY <1>0, <2>3, <2>5, Zenon
    <3>5. numthreads' = asleep' + Len(runqueue') + k
      <4> HIDE TablesAssumption
      <4> QED BY <3>1, <3>2, <3>3, <3>4
    <3> QED BY <3>5, Zenon DEF EveryThreadListed, k
  <2>b. NoOverflow'
    BY <1>0, <1>t, <2>1, <2>3, <2>5, <2>6 DEF NoOverflow
  <2>c. TabTypeOK'
    BY <1>0, <1>t, <2>1, <2>3, <2>5, <2>6, <2>a DEF TabTypeOK, EveryThreadListed
  <2> QED
    BY <2>a, <2>b, <2>c, Zenon DEF TabInv
<1>5. CASE thread_exit
  <2>1. /\ MaxAdded(zombiesmax, dead) \in Nat
        /\ dead + 1 <= MaxAdded(zombiesmax, dead)
    <3>1. /\ MaxPreallocated(zombiesmax, dead + 1) \in Nat
          /\ MaxPreallocated(zombiesmax, dead + 1) >= dead + 1
      BY <1>0, <1>n, PreallocatedFacts, Zenon
    <3> QED
      BY <1>0, <3>1, Zenon DEF MaxAdded
  <2>2. Switch(runqueue, dead + 1, MaxAdded(zombiesmax, dead))
    BY <1>5, Zenon DEF thread_exit
  <2>3. /\ running' \in BOOLEAN
        /\ runqueue' \in Seq({"new", "old"})
        /\ Len(runqueue') + (IF running' THEN 1 ELSE 0) = Len(runqueue)
        /\ Len(runqueue') \in Nat /\ Len(runqueue') <= Len(runqueue)
        /\ dead' \in Nat /\ zombiesmax' \in Nat
        /\ dead' <= dead + 1 /\ dead' <= zombiesmax'
    BY <1>0, <2>1, <2>2, SwitchFacts
  <2>4. asleep > 0 \/ Len(runqueue) > 0
    <3>1. DOMAIN runqueue = 1..Len(runqueue)
      BY <1>0
    <3> QED
      BY <1>0, <1>5, <3>1 DEF thread_exit
  <2>5. /\ running /\ dead < MaxDead /\ numthreads' = numthreads - 1
        /\ UNCHANGED <<asleep, slots, sleepersmax>>
    BY <1>5, Zenon DEF thread_exit
  <2>6. short' \subseteq {"runqueue", "sleepers", "zombies"}
    BY <1>0, <1>5, Zenon DEF thread_exit, Short
  <2>a. EveryThreadListed'
    <3> DEFINE k == IF running' THEN 1 ELSE 0
    <3>1. k \in Nat
      BY Zenon
    <3>2. numthreads = asleep + Len(runqueue) + 1
      BY <1>t, <2>5, Zenon
    <3>3. Len(runqueue') + k = Len(runqueue)
      BY <2>3, Zenon
    <3> HIDE DEF k
    <3>4. Len(runqueue) \in Nat /\ Len(runqueue') \in Nat /\ asleep \in Nat
          /\ numthreads' = numthreads - 1 /\ asleep' = asleep
      BY <1>0, <2>3, <2>5, Zenon
    <3>5. numthreads' = asleep' + Len(runqueue') + k
      <4> HIDE TablesAssumption
      <4> QED BY <3>1, <3>2, <3>3, <3>4
    <3> QED BY <3>5, Zenon DEF EveryThreadListed, k
  <2>b. NoOverflow'
    BY <1>0, <1>t, <2>3, <2>4, <2>5, <2>6 DEF NoOverflow
  <2>c. TabTypeOK'
    BY <1>0, <1>t, <2>3, <2>4, <2>5, <2>6, <2>a DEF TabTypeOK, EveryThreadListed
  <2> QED
    BY <2>a, <2>b, <2>c, Zenon DEF TabInv
<1>6. CASE thread_wakeup
  <2>1. slots' \in Nat /\ Len(runqueue) + 1 < slots'
    BY <1>0, <1>6, AddedFacts, Zenon DEF thread_wakeup
  <2>2. runqueue' \in Seq({"new", "old"}) /\ Len(runqueue') = Len(runqueue) + 1
    BY <1>0, <1>6, QueueAppend, Zenon DEF thread_wakeup
  <2>3. /\ asleep > 0 /\ asleep' = asleep - 1
        /\ UNCHANGED <<numthreads, running, dead, sleepersmax, zombiesmax>>
    BY <1>6, Zenon DEF thread_wakeup
  <2>4. short' \subseteq {"runqueue", "sleepers", "zombies"}
    BY <1>0, <1>6, Zenon DEF thread_wakeup, Short
  <2>a. EveryThreadListed'
    BY <1>0, <1>t, <2>1, <2>2, <2>3, <2>4 DEF EveryThreadListed
  <2>b. NoOverflow'
    BY <1>0, <1>t, <2>1, <2>2, <2>3, <2>4 DEF NoOverflow
  <2>c. TabTypeOK'
    BY <1>0, <1>t, <2>1, <2>2, <2>3, <2>4, <2>a DEF TabTypeOK, EveryThreadListed
  <2> QED
    BY <2>a, <2>b, <2>c, Zenon DEF TabInv
<1>7. CASE LeaveIdle
  <2>1. /\ running' \in BOOLEAN
        /\ runqueue' \in Seq({"new", "old"})
        /\ Len(runqueue') + (IF running' THEN 1 ELSE 0) = Len(runqueue)
        /\ Len(runqueue') \in Nat /\ Len(runqueue') <= Len(runqueue)
        /\ dead' \in Nat /\ zombiesmax' \in Nat
        /\ dead' <= dead /\ dead' <= zombiesmax'
    BY <1>0, <1>7, SwitchFacts, Zenon DEF LeaveIdle
  <2>2. ~running /\ UNCHANGED <<numthreads, asleep, slots, sleepersmax, short>>
    BY <1>7, Zenon DEF LeaveIdle
  <2>a. EveryThreadListed'
    BY <1>0, <1>t, <2>1, <2>2 DEF EveryThreadListed
  <2>b. NoOverflow'
    BY <1>0, <1>t, <2>1, <2>2 DEF NoOverflow
  <2>c. TabTypeOK'
    BY <1>0, <1>t, <2>1, <2>2, <2>a DEF TabTypeOK, EveryThreadListed
  <2> QED
    BY <2>a, <2>b, <2>c, Zenon DEF TabInv
<1>8. CASE UNCHANGED tab_vars
  BY <1>8, Zenon DEF tab_vars, TabInv, TabTypeOK, EveryThreadListed, NoOverflow
<1> QED
  BY <1>1, <1>2, <1>3, <1>4, <1>5, <1>6, <1>7, <1>8 DEF TabNext

\* The lists of the thread system hold every thread and always have room for it.
THEOREM TabInvariant == TabSpec => []TabInv
<1>1. TabInit => TabInv
  BY TablesAssumption DEF TabInit, TabInv, TabTypeOK, EveryThreadListed, NoOverflow
<1> QED
  BY <1>1, TabInvStep, PTL DEF TabSpec

\* However the threads fork, sleep, wake and exit, the ring of the run queue
\* never runs into its own members and the arrays of sleepers and zombies are
\* never shorter than what they hold (lib/queue.c, lib/array.c, thread.c).
THEOREM TablesNeverOverflow == TabSpec => []NoOverflow
<1>1. TabInv => NoOverflow
  BY Zenon DEF TabInv
<1> QED
  BY <1>1, TabInvariant, PTL
----------------------------------------------------------------------------
(* The ring buffer.                                                        *)

\* The size q_grow gives the ring.
LEMMA NewSizeFacts ==
  ASSUME size \in Nat \ {0}, NEW target \in Nat
  PROVE  /\ NewSize(target) \in Nat \ {0}
         /\ NewSize(target) >= size
         /\ NewSize(target) >= target
<1>1. NewSize(target) = SlotsGrown(size, target)
  BY Zenon DEF NewSize, SlotsGrown
<1> QED
  BY <1>1, DoublingFacts, Zenon

\* An index that is at most one round ahead, wrapped.
LEMMA Wrapped ==
  ASSUME NEW n \in Nat \ {0}, NEW a \in 0..(2 * n - 1)
  PROVE  a % n = IF a < n THEN a ELSE a - n
<1>1. CASE a < n
  BY <1>1, Z3
<1>2. CASE a >= n
  BY <1>2, Z3
<1> QED
  BY <1>1, <1>2

\* The slots in use.
LEMMA UsedIs ==
  ASSUME QTypeOK
  PROVE  /\ Used = IF nextwrite < nextread THEN nextwrite + size - nextread
                   ELSE nextwrite - nextread
         /\ Used \in 0..(size - 1)
<1> DEFINE a == nextwrite + size - nextread
<1>1. /\ size \in Nat \ {0} /\ nextwrite \in 0..(size - 1) /\ nextread \in 0..(size - 1)
      /\ a \in 0..(2 * size - 1)
  BY DEF QTypeOK
<1>2. Used = a % size
  BY Zenon DEF Used
<1>3. a % size = IF a < size THEN a ELSE a - size
  <2> HIDE DEF a
  <2> QED BY <1>1, Wrapped, Zenon
<1> QED
  BY <1>1, <1>2, <1>3

\* The slot the i-th member of the queue is in.
Slot(i) == IF nextread + i - 1 < size THEN nextread + i - 1 ELSE nextread + i - 1 - size

\* The queue as a sequence, and where its members are.
RingIs ==
  /\ Used = IF nextwrite < nextread THEN nextwrite + size - nextread
            ELSE nextwrite - nextread
  /\ Used \in 0..(size - 1)
  /\ Contents \in Seq(Elem \cup {Junk})
  /\ Len(Contents) = Used
  /\ \A i \in 1..Used : Contents[i] = data[Slot(i)]

\* The modulo arithmetic of queue.c, unfolded.
LEMMA RingFacts == QTypeOK => RingIs
<1> SUFFICES ASSUME QTypeOK PROVE RingIs
  BY Zenon
<1>1. /\ size \in Nat \ {0} /\ nextread \in 0..(size - 1) /\ Used \in 0..(size - 1)
      /\ data \in [0..(size - 1) -> Elem \cup {Junk}]
  BY UsedIs, Zenon DEF QTypeOK, Slots
<1>2. ASSUME NEW i \in 1..Used
      PROVE  (nextread + i - 1) % size = Slot(i) /\ Slot(i) \in 0..(size - 1)
  <2> DEFINE a == nextread + i - 1
  <2>1. a \in 0..(2 * size - 1)
    BY <1>1
  <2>2. a % size = IF a < size THEN a ELSE a - size
    <3> HIDE DEF a
    <3> QED BY <1>1, <2>1, Wrapped, Zenon
  <2> QED
    BY <1>1, <2>1, <2>2 DEF Slot
<1>3. Contents = [i \in 1..Used |-> data[Slot(i)]]
  BY <1>2, Zenon DEF Contents
<1>4. \A i \in 1..Used : data[Slot(i)] \in Elem \cup {Junk}
  BY <1>1, <1>2, Zenon
<1> HIDE DEF Slot
<1> QED
  BY <1>1, <1>3, <1>4, UsedIs DEF RingIs

\* Two sequences with the same members are the same queue.
LEMMA SameQueue ==
  ASSUME NEW S, NEW q \in Seq(S), NEW r \in Seq(S), Len(q) = Len(r),
         \A i \in 1..Len(q) : q[i] = r[i]
  PROVE  q = r
  OBVIOUS

\* q_addtail into a free slot.
LEMMA AddInPlaceFacts ==
  ASSUME QTypeOK, NEW x \in Elem, AddInPlace(x)
  PROVE  QTypeOK' /\ Contents' = Append(Contents, x) /\ got' = got
<1> DEFINE w == nextwrite + 1
<1>1. /\ size \in Nat \ {0} /\ nextwrite \in 0..(size - 1) /\ nextread \in 0..(size - 1)
      /\ data \in [0..(size - 1) -> Elem \cup {Junk}] /\ w \in 0..(2 * size - 1)
  BY DEF QTypeOK, Slots
<1>2. w % size = IF w < size THEN w ELSE w - size
  <2> HIDE DEF w
  <2> QED BY <1>1, Wrapped, Zenon
<1>3. /\ nextwrite' = w % size /\ w % size # nextread
      /\ data' = [data EXCEPT ![nextwrite] = x]
      /\ size' = size /\ nextread' = nextread /\ got' = got
  BY Zenon DEF AddInPlace
<1>4. nextwrite' \in 0..(size - 1)
  BY <1>1, <1>2, <1>3
<1>5. data' \in [0..(size - 1) -> Elem \cup {Junk}]
  BY <1>1, <1>3, Zenon
<1>6. QTypeOK'
  BY <1>1, <1>3, <1>4, <1>5, Zenon DEF QTypeOK, Slots
<1>7. RingIs /\ RingIs'
  BY <1>6, RingFacts, PTL
<1>8. Used' = Used + 1 /\ Used \in 0..(size - 1)
  <2>1. /\ Used = IF nextwrite < nextread THEN nextwrite + size - nextread
                  ELSE nextwrite - nextread
        /\ Used' = IF nextwrite' < nextread' THEN nextwrite' + size' - nextread'
                   ELSE nextwrite' - nextread'
        /\ Used \in 0..(size - 1)
    BY <1>7, Zenon DEF RingIs
  <2> QED
    BY <1>1, <1>2, <1>3, <2>1
<1>9. ASSUME NEW i \in 1..Used PROVE Contents'[i] = Contents[i]
  <2>1. Slot(i)' = Slot(i) /\ Slot(i) # nextwrite /\ Slot(i) \in 0..(size - 1)
    BY <1>1, <1>3, <1>7 DEF RingIs, Slot
  <2>2. i \in 1..Used'
    BY <1>8
  <2>3. Contents'[i] = data'[Slot(i)'] /\ Contents[i] = data[Slot(i)]
    BY <1>7, <2>2, Zenon DEF RingIs
  <2> QED
    BY <1>1, <1>3, <2>1, <2>3, Zenon
<1>10. Contents'[Used + 1] = x
  <2> SUFFICES ASSUME NEW k \in Nat, k = Used + 1 PROVE Contents'[k] = x
    BY <1>8
  <2>1. Slot(k)' = nextwrite
    <3>1. Used = IF nextwrite < nextread THEN nextwrite + size - nextread
                 ELSE nextwrite - nextread
      BY <1>7, Zenon DEF RingIs
    <3> QED
      BY <1>1, <1>3, <3>1 DEF Slot
  <2>2. k \in 1..Used'
    BY <1>8
  <2>3. Contents'[k] = data'[Slot(k)']
    BY <1>7, <2>2, Zenon DEF RingIs
  <2> QED
    BY <1>1, <1>3, <2>1, <2>3, Zenon
<1>11. Contents' = Append(Contents, x)
  <2>1. /\ Contents \in Seq(Elem \cup {Junk}) /\ Contents' \in Seq(Elem \cup {Junk})
        /\ Len(Contents) = Used /\ Len(Contents') = Used + 1 /\ Used \in Nat
    BY <1>7, <1>8 DEF RingIs
  <2>2. /\ Append(Contents, x) \in Seq(Elem \cup {Junk})
        /\ Len(Append(Contents, x)) = Used + 1
        /\ \A i \in 1..Used : Append(Contents, x)[i] = Contents[i]
        /\ Append(Contents, x)[Used + 1] = x
    BY <2>1
  <2>3. \A i \in 1..(Used + 1) : Contents'[i] = Append(Contents, x)[i]
    BY <1>9, <1>10, <2>1, <2>2
  <2> QED
    BY <2>1, <2>2, <2>3, SameQueue, Zenon
<1> QED
  BY <1>3, <1>6, <1>11, Zenon

\* q_remhead takes the first member.
LEMMA RemheadFacts ==
  ASSUME QTypeOK, q_remhead
  PROVE  /\ QTypeOK' /\ Contents # <<>>
         /\ got' = Head(Contents) /\ Contents' = Tail(Contents)
<1> DEFINE r == nextread + 1
<1>1. /\ size \in Nat \ {0} /\ nextwrite \in 0..(size - 1) /\ nextread \in 0..(size - 1)
      /\ data \in [0..(size - 1) -> Elem \cup {Junk}] /\ r \in 0..(2 * size - 1)
  BY DEF QTypeOK, Slots
<1>2. r % size = IF r < size THEN r ELSE r - size
  <2> HIDE DEF r
  <2> QED BY <1>1, Wrapped, Zenon
<1>3. /\ nextread' = r % size /\ nextwrite # nextread /\ got' = data[nextread]
      /\ size' = size /\ nextwrite' = nextwrite /\ data' = data
  BY Zenon DEF q_remhead, q_empty
<1>4. nextread' \in 0..(size - 1)
  BY <1>1, <1>2, <1>3
<1>5. got' \in Elem \cup {Junk}
  BY <1>1, <1>3, Zenon
<1>6. QTypeOK'
  BY <1>1, <1>3, <1>4, <1>5, Zenon DEF QTypeOK, Slots
<1>7. RingIs /\ RingIs'
  BY <1>6, RingFacts, PTL
<1>8. Used' = Used - 1 /\ Used \in 1..(size - 1)
  <2>1. /\ Used = IF nextwrite < nextread THEN nextwrite + size - nextread
                  ELSE nextwrite - nextread
        /\ Used' = IF nextwrite' < nextread' THEN nextwrite' + size' - nextread'
                   ELSE nextwrite' - nextread'
        /\ Used \in 0..(size - 1)
    BY <1>7, Zenon DEF RingIs
  <2> QED
    BY <1>1, <1>2, <1>3, <2>1
<1>9. /\ Contents \in Seq(Elem \cup {Junk}) /\ Contents' \in Seq(Elem \cup {Junk})
      /\ Len(Contents) = Used /\ Len(Contents') = Used - 1
  BY <1>7, <1>8, Zenon DEF RingIs
<1>10. Contents # <<>> /\ Contents[1] = data[nextread]
  <2>1. Slot(1) = nextread
    BY <1>1 DEF Slot
  <2>2. 1 \in 1..Used
    BY <1>8
  <2>3. Contents[1] = data[Slot(1)]
    BY <1>7, <2>2, Zenon DEF RingIs
  <2>4. Len(Contents) # 0
    BY <1>8, <1>9
  <2> QED
    BY <1>9, <2>1, <2>3, <2>4
<1>11. ASSUME NEW i \in 1..(Used - 1) PROVE Contents'[i] = Contents[i + 1]
  <2>1. i \in 1..Used' /\ i + 1 \in 1..Used
    BY <1>8
  <2>2. Slot(i)' = Slot(i + 1)
    BY <1>1, <1>2, <1>3, <1>8 DEF Slot
  <2>3. Contents'[i] = data'[Slot(i)']
    BY <1>7, <2>1, Zenon DEF RingIs
  <2>4. Contents[i + 1] = data[Slot(i + 1)]
    BY <1>7, <2>1, Zenon DEF RingIs
  <2> QED
    BY <1>3, <2>2, <2>3, <2>4, Zenon
<1>12. Contents' = Tail(Contents)
  <2>1. /\ Tail(Contents) \in Seq(Elem \cup {Junk})
        /\ Len(Tail(Contents)) = Used - 1
        /\ \A i \in 1..(Used - 1) : Tail(Contents)[i] = Contents[i + 1]
    BY <1>8, <1>9, <1>10
  <2> QED
    BY <1>9, <1>11, <2>1, SameQueue, Zenon
<1>13. got' = Head(Contents)
  BY <1>3, <1>9, <1>10
<1> QED
  BY <1>6, <1>10, <1>12, <1>13, Zenon

\* The ring q_grow copies the members to: they are there, from slot 0 on.
LEMMA MovedFacts ==
  ASSUME QTypeOK, NEW n \in Nat, n >= size
  PROVE  /\ Moved(n) \in [0..(n - 1) -> Elem \cup {Junk}]
         /\ \A i \in 1..Used : Moved(n)[i - 1] = Contents[i]
<1>1. /\ size \in Nat \ {0} /\ nextread \in 0..(size - 1)
      /\ data \in [0..(size - 1) -> Elem \cup {Junk}] /\ Used \in 0..(size - 1)
  BY UsedIs, Zenon DEF QTypeOK, Slots
<1>2. ASSUME NEW i \in 0..(Used - 1)
      PROVE  (nextread + i) % size = Slot(i + 1) /\ Slot(i + 1) \in 0..(size - 1)
  <2> DEFINE a == nextread + i
  <2>1. a \in 0..(2 * size - 1)
    BY <1>1
  <2>2. a % size = IF a < size THEN a ELSE a - size
    <3> HIDE DEF a
    <3> QED BY <1>1, <2>1, Wrapped, Zenon
  <2> QED
    BY <1>1, <2>1, <2>2 DEF Slot
<1>3. Moved(n) = [i \in 0..(n - 1) |-> IF i < Used THEN data[Slot(i + 1)] ELSE Junk]
  <2>1. \A i \in 0..(n - 1) : i < Used => i \in 0..(Used - 1)
    BY <1>1
  <2> HIDE DEF Slot
  <2> QED
    BY <1>2, <2>1, Zenon DEF Moved
<1>4. \A i \in 0..(n - 1) : i < Used => data[Slot(i + 1)] \in Elem \cup {Junk}
  BY <1>1, <1>2
<1>5. Moved(n) \in [0..(n - 1) -> Elem \cup {Junk}]
  BY <1>3, <1>4, Zenon
<1>6. ASSUME NEW i \in 1..Used PROVE Moved(n)[i - 1] = Contents[i]
  <2>1. i - 1 \in 0..(n - 1) /\ i - 1 < Used /\ (i - 1) + 1 = i
    BY <1>1
  <2>2. Moved(n)[i - 1] = data[Slot(i)]
    BY <1>3, <2>1, Zenon
  <2>3. Contents[i] = data[Slot(i)]
    BY RingFacts, Zenon DEF RingIs
  <2> QED
    BY <2>2, <2>3, Zenon
<1> QED
  BY <1>5, <1>6, Zenon

\* q_preallocate moves the members and changes nothing that can be seen.
LEMMA PreallocateFacts ==
  ASSUME QTypeOK, NEW n \in Nat, q_preallocate(n)
  PROVE  QTypeOK' /\ Contents' = Contents /\ got' = got
<1> DEFINE m == NewSize(n)
<1>1. /\ size' = m /\ data' = Moved(m) /\ nextread' = 0 /\ nextwrite' = Used /\ got' = got
  BY Zenon DEF q_preallocate
<1>2. m \in Nat \ {0} /\ m >= size /\ size \in Nat \ {0} /\ got \in Elem \cup {Junk}
  BY NewSizeFacts, Zenon DEF QTypeOK
<1> HIDE DEF m
<1>3. /\ Moved(m) \in [0..(m - 1) -> Elem \cup {Junk}]
      /\ \A i \in 1..Used : Moved(m)[i - 1] = Contents[i]
  BY <1>2, MovedFacts, Zenon
<1>4. Used \in 0..(size - 1)
  BY UsedIs, Zenon
<1>5. QTypeOK'
  BY <1>1, <1>2, <1>3, <1>4 DEF QTypeOK, Slots
<1>6. RingIs /\ RingIs'
  BY <1>5, RingFacts, PTL
<1>7. Used' = Used
  <2>1. Used' = IF nextwrite' < nextread' THEN nextwrite' + size' - nextread'
                ELSE nextwrite' - nextread'
    BY <1>6, Zenon DEF RingIs
  <2> QED
    BY <1>1, <1>4, <2>1
<1>8. ASSUME NEW i \in 1..Used PROVE Contents'[i] = Contents[i]
  <2>1. Slot(i)' = i - 1
    BY <1>1, <1>2, <1>4 DEF Slot
  <2>2. i \in 1..Used'
    BY <1>7, Zenon
  <2>3. Contents'[i] = data'[Slot(i)']
    BY <1>6, <2>2, Zenon DEF RingIs
  <2> QED
    BY <1>1, <1>3, <2>1, <2>3, Zenon
<1>9. Contents' = Contents
  <2>1. /\ Contents \in Seq(Elem \cup {Junk}) /\ Contents' \in Seq(Elem \cup {Junk})
        /\ Len(Contents) = Used /\ Len(Contents') = Used
    BY <1>6, <1>7, Zenon DEF RingIs
  <2> QED
    BY <1>8, <2>1, SameQueue, Zenon
<1> QED
  BY <1>1, <1>5, <1>9, Zenon

\* q_addtail to a full ring: q_grow, and then the addition.
LEMMA GrowAndAddFacts ==
  ASSUME QTypeOK, NEW x \in Elem, GrowAndAdd(x)
  PROVE  QTypeOK' /\ Contents' = Append(Contents, x) /\ got' = got
<1> DEFINE m == NewSize(size + 1)
           w == nextwrite + 1
<1>1. /\ size' = m /\ data' = [Moved(m) EXCEPT ![Used] = x] /\ nextread' = 0
      /\ nextwrite' = (Used + 1) % m /\ got' = got /\ w % size = nextread
  BY Zenon DEF GrowAndAdd
<1>2. /\ size \in Nat \ {0} /\ nextwrite \in 0..(size - 1) /\ nextread \in 0..(size - 1)
      /\ w \in 0..(2 * size - 1) /\ size + 1 \in Nat /\ got \in Elem \cup {Junk}
  BY DEF QTypeOK
<1>3. m \in Nat \ {0} /\ m >= size + 1
  BY <1>2, NewSizeFacts, Zenon
<1> HIDE DEF m
<1>4. w % size = IF w < size THEN w ELSE w - size
  <2> HIDE DEF w
  <2> QED BY <1>2, Wrapped, Zenon
<1>5. Used = size - 1
  BY <1>1, <1>2, <1>4, UsedIs
<1>6. nextwrite' = size
  <2>1. Used + 1 = size /\ size \in 0..(2 * m - 1) /\ size < m
    BY <1>2, <1>3, <1>5
  <2>2. size % m = size
    BY <1>3, <2>1, Wrapped, Zenon
  <2> QED
    BY <1>1, <2>1, <2>2, Zenon
<1>7. /\ Moved(m) \in [0..(m - 1) -> Elem \cup {Junk}]
      /\ \A i \in 1..Used : Moved(m)[i - 1] = Contents[i]
  <2>1. m >= size
    BY <1>2, <1>3
  <2> QED
    BY <1>3, <2>1, MovedFacts, Zenon
<1>8. data' \in [0..(m - 1) -> Elem \cup {Junk}]
  BY <1>1, <1>7, Zenon
<1>9. QTypeOK'
  BY <1>1, <1>2, <1>3, <1>6, <1>8 DEF QTypeOK, Slots
<1>10. RingIs /\ RingIs'
  BY <1>9, RingFacts, PTL
<1>11. Used' = Used + 1
  <2>1. Used' = IF nextwrite' < nextread' THEN nextwrite' + size' - nextread'
                ELSE nextwrite' - nextread'
    BY <1>10, Zenon DEF RingIs
  <2> QED
    BY <1>1, <1>2, <1>5, <1>6, <2>1
<1>12. ASSUME NEW i \in 1..(Used + 1) PROVE Contents'[i] = data'[i - 1]
  <2>1. Slot(i)' = i - 1
    BY <1>1, <1>2, <1>3, <1>5 DEF Slot
  <2>2. i \in 1..Used'
    BY <1>11, Zenon
  <2>3. Contents'[i] = data'[Slot(i)']
    BY <1>10, <2>2, Zenon DEF RingIs
  <2> QED
    BY <2>1, <2>3, Zenon
<1>13. ASSUME NEW i \in 1..Used PROVE Contents'[i] = Contents[i]
  <2>1. i \in 1..(Used + 1) /\ i - 1 \in 0..(m - 1) /\ i - 1 # Used
    BY <1>2, <1>3, <1>5
  <2> QED
    BY <1>1, <1>7, <1>12, <2>1, Zenon
<1>14. Contents'[Used + 1] = x
  <2>1. Used + 1 \in 1..(Used + 1) /\ (Used + 1) - 1 = Used /\ Used \in 0..(m - 1)
    BY <1>2, <1>3, <1>5
  <2>2. Contents'[Used + 1] = data'[Used]
    BY <1>12, <2>1, Zenon
  <2> QED
    BY <1>1, <1>7, <2>1, <2>2, Zenon
<1>15. Contents' = Append(Contents, x)
  <2>1. /\ Contents \in Seq(Elem \cup {Junk}) /\ Contents' \in Seq(Elem \cup {Junk})
        /\ Len(Contents) = Used /\ Len(Contents') = Used + 1 /\ Used \in Nat
    BY <1>10, <1>11 DEF RingIs
  <2>2. /\ Append(Contents, x) \in Seq(Elem \cup {Junk})
        /\ Len(Append(Contents, x)) = Used + 1
        /\ \A i \in 1..Used : Append(Contents, x)[i] = Contents[i]
        /\ Append(Contents, x)[Used + 1] = x
    BY <2>1
  <2>3. \A i \in 1..(Used + 1) : Contents'[i] = Append(Contents, x)[i]
    BY <1>13, <1>14, <2>1, <2>2
  <2> QED
    BY <2>1, <2>2, <2>3, SameQueue, Zenon
<1> QED
  BY <1>1, <1>9, <1>15, Zenon

\* Each operation of the ring keeps its indices in range and is the operation of
\* the queue it implements, or none.
LEMMA QStep ==
  ASSUME QTypeOK, [QNext]_qvars
  PROVE  QTypeOK' /\ [F!FifoNext]_<<Contents, got>>
<1>1. ASSUME NEW x \in Elem, q_addtail(x) PROVE QTypeOK' /\ F!Put(x)
  <2>1. QTypeOK' /\ Contents' = Append(Contents, x) /\ got' = got
    BY <1>1, AddInPlaceFacts, GrowAndAddFacts, Zenon DEF q_addtail
  <2> QED
    BY <2>1, Zenon DEF F!Put
<1>2. ASSUME q_remhead PROVE QTypeOK' /\ F!Get
  BY <1>2, RemheadFacts, Zenon DEF F!Get
<1>3. ASSUME NEW n \in 1..MaxSize, q_preallocate(n)
      PROVE  QTypeOK' /\ UNCHANGED <<Contents, got>>
  BY <1>3, PreallocateFacts, QueueAssumption
<1>4. ASSUME UNCHANGED qvars PROVE QTypeOK' /\ UNCHANGED <<Contents, got>>
  BY <1>4, Zenon DEF qvars, QTypeOK, Slots, Contents, Used
<1> QED
  BY <1>1, <1>2, <1>3, <1>4, Zenon DEF QNext, F!FifoNext

\* A queue that q_create made holds nothing.
LEMMA QInit == q_create => QTypeOK /\ F!FifoInit
<1> SUFFICES ASSUME q_create PROVE QTypeOK /\ F!FifoInit
  BY Zenon
<1>1. QTypeOK
  BY QueueAssumption DEF q_create, QTypeOK, Slots
<1>2. Used = 0
  BY <1>1, UsedIs, QueueAssumption DEF q_create
<1>3. Contents = <<>>
  <2>1. Contents \in Seq(Elem \cup {Junk}) /\ Len(Contents) = 0
    BY <1>1, <1>2, RingFacts, Zenon DEF RingIs
  <2> QED
    BY <2>1
<1> QED
  BY <1>1, <1>3, Zenon DEF F!FifoInit, q_create

\* In every reachable state the indices of the ring are slots of it (queue.c
\* computes them modulo its size, which q_grow changes).
THEOREM RingInRange == QSpec => []QTypeOK
  BY QInit, QStep, PTL DEF QSpec

\* For every set of pointers and every size, the ring buffer of queue.c is the
\* first-in first-out queue that queue.h promises, however it wraps, is enlarged
\* in advance or grows when it is full.
THEOREM RingIsFifo == QSpec => ImplementsFifo
  BY QInit, QStep, RingInRange, PTL DEF QSpec, ImplementsFifo, F!FifoSpec
----------------------------------------------------------------------------
(* sfs_io: the accounts of a transfer.                                     *)

\* The whole blocks: each starts at a block, and what is left after them is
\* less than one.
BlocksLeft ==
  /\ uio_offset % BLOCKSIZE = 0
  /\ nblocks * BLOCKSIZE <= uio_resid
  /\ uio_resid < nblocks * BLOCKSIZE + BLOCKSIZE

\* uio_offset and uio_resid against the request and the size of the file.
Accounts ==
  /\ off0 <= uio_offset /\ off0 + len0 <= MaxPos
  /\ moved = off0..(uio_offset - 1)
  /\ stage # "done" => /\ uio_offset + uio_resid + extraresid = off0 + len0
                       /\ sfi_size = size0
  /\ stage = "eof" => uio_offset = off0 /\ extraresid = 0
  /\ rw = "read" /\ stage \notin {"eof", "done"} => uio_offset + uio_resid <= size0
  /\ stage = "done" =>
       /\ uio_offset + uio_resid = off0 + len0
       /\ rw = "read" => sfi_size = size0 /\ (uio_offset = off0 \/ uio_offset <= size0)
       /\ rw = "write" => sfi_size = (IF uio_offset > size0 THEN uio_offset ELSE size0)

Stages ==
  /\ stage = "leading" /\ extraresid > 0 => uio_resid > 0
  /\ stage = "whole" => uio_resid = 0 \/ uio_offset % BLOCKSIZE = 0
  /\ stage = "blocks" => BlocksLeft

SfsIoInv == SfsIoTypeOK /\ Accounts /\ Stages

\* The position after the rest of a block, or after a whole one, is a block's.
LEMMA BlockBoundary ==
  ASSUME NEW n \in Nat \ {0}, NEW a \in Nat
  PROVE  /\ a % n \in 0..(n - 1)
         /\ (a + (n - (a % n))) % n = 0
         /\ a % n = 0 => (a + n) % n = 0
<1>1. a = (n * (a \div n)) + (a % n) /\ a \div n \in Nat /\ a % n \in 0..(n - 1)
  BY Z3
<1> DEFINE q == a \div n
           r == a % n
<1>2. a + (n - r) = n * (q + 1)
  BY <1>1, Z3
<1>3. \A k \in Nat : (n * k) % n = 0
  BY Z3
<1>4. (n * (q + 1)) % n = 0
  BY <1>1, <1>3
<1> QED
  BY <1>1, <1>2, <1>4

\* What uio_resid \div BLOCKSIZE leaves.
LEMMA WholeBlocks ==
  ASSUME NEW n \in Nat \ {0}, NEW a \in Nat
  PROVE  /\ a \div n \in Nat
         /\ (a \div n) * n <= a
         /\ a < (a \div n) * n + n
  BY Z3

\* uiomove by n bytes of what is left.
LEMMA MoveFacts ==
  ASSUME SfsIoTypeOK, Accounts, stage # "done", NEW n \in Nat, n <= uio_resid, Move(n)
  PROVE  /\ uio_offset' = uio_offset + n /\ uio_resid' = uio_resid - n
         /\ uio_offset' \in Nat /\ uio_resid' \in Nat
         /\ moved' = off0..(uio_offset' - 1)
         /\ moved' \subseteq 0..MaxPos
<1>1. /\ uio_offset \in Nat /\ uio_resid \in Nat /\ extraresid \in Nat
      /\ off0 \in Nat /\ len0 \in Nat /\ MaxPos \in Nat
      /\ off0 <= uio_offset /\ moved = off0..(uio_offset - 1)
      /\ uio_offset + uio_resid + extraresid = off0 + len0 /\ off0 + len0 <= MaxPos
  BY SfsIoAssumption, Zenon DEF SfsIoTypeOK, Accounts
<1>2. /\ uio_offset' = uio_offset + n /\ uio_resid' = uio_resid - n
      /\ moved' = moved \cup (uio_offset..(uio_offset + n - 1))
  BY Zenon DEF Move
<1>3. moved' = off0..(uio_offset' - 1)
  BY <1>1, <1>2
<1> QED
  BY <1>1, <1>2, <1>3

\* The new accounts after a move of n bytes, or none, to another stage of sfs_io.
LEMMA MovedOn ==
  ASSUME SfsIoInv, stage \notin {"eof", "done"},
         stage' \in {"leading", "whole", "blocks", "out"},
         NEW n \in Nat, n <= uio_resid, Move(n),
         UNCHANGED <<request, extraresid, sfi_size>>, nblocks' \in Nat
  PROVE  SfsIoTypeOK' /\ Accounts'
<1>1. SfsIoTypeOK /\ Accounts
  BY Zenon DEF SfsIoInv
<1>2. /\ uio_offset' = uio_offset + n /\ uio_resid' = uio_resid - n
      /\ uio_offset' \in Nat /\ uio_resid' \in Nat
      /\ moved' = off0..(uio_offset' - 1)
      /\ moved' \subseteq 0..MaxPos
  BY <1>1, MoveFacts, Zenon
<1>3. SfsIoTypeOK'
  BY <1>1, <1>2, Zenon DEF SfsIoTypeOK, request
<1>4. Accounts'
  BY <1>1, <1>2, SfsIoAssumption DEF SfsIoTypeOK, Accounts, request
<1> QED
  BY <1>3, <1>4, Zenon

\* A step that fails before the uio advances moves 0 bytes.
LEMMA NoMove ==
  ASSUME SfsIoTypeOK, UNCHANGED <<moved, uio_offset, uio_resid>>
  PROVE  Move(0) /\ 0 \in Nat /\ 0 <= uio_resid
<1>1. uio_offset..(uio_offset + 0 - 1) = {}
  BY DEF SfsIoTypeOK
<1> QED
  BY <1>1 DEF SfsIoTypeOK, Move

\* Every step of sfs_io keeps the accounts, and every stage begins as it assumes.
LEMMA SfsIoStep == SfsIoInv /\ [SfsIoNext]_sio_vars => SfsIoInv'
<1> SUFFICES ASSUME SfsIoInv, [SfsIoNext]_sio_vars PROVE SfsIoInv'
  BY Zenon
<1>t. SfsIoTypeOK /\ Accounts /\ Stages
  BY Zenon DEF SfsIoInv
<1>b. BLOCKSIZE \in Nat \ {0} /\ MaxPos \in Nat
  BY SfsIoAssumption, Zenon
<1>1. CASE Call
  <2>1. PICK d \in {"read", "write"}, off \in 0..MaxPos, len \in 0..MaxPos :
          /\ off + len <= MaxPos
          /\ rw' = d /\ off0' = off /\ len0' = len
          /\ uio_offset' = off /\ uio_resid' = len
    BY <1>1, Zenon DEF Call
  <2>2. /\ size0' = sfi_size /\ extraresid' = 0 /\ nblocks' = 0 /\ moved' = {}
        /\ stage' = "eof" /\ sfi_size' = sfi_size
    BY <1>1, Zenon DEF Call
  <2>3. SfsIoTypeOK'
    BY <1>t, <1>b, <2>1, <2>2 DEF SfsIoTypeOK
  <2>4. off..(off - 1) = {}
    BY <1>b
  <2>5. Accounts'
    BY <1>t, <1>b, <2>1, <2>2, <2>4 DEF SfsIoTypeOK, Accounts
  <2>6. Stages'
    BY <2>2, Zenon DEF Stages
  <2> QED
    BY <2>3, <2>5, <2>6, Zenon DEF SfsIoInv
<1>2. CASE CheckEof
  <2>1. /\ stage = "eof" /\ UNCHANGED <<request, uio_offset, sfi_size, nblocks, moved>>
        /\ stage' \in {"done", "leading"} /\ (stage' = "done" => rw = "read")
    BY <1>2, Zenon DEF CheckEof
  <2>2. \/ uio_resid' = uio_resid /\ extraresid' = extraresid
           /\ (stage' = "leading" /\ rw = "read" => uio_offset + uio_resid <= sfi_size)
        \/ /\ rw = "read" /\ uio_offset < sfi_size /\ uio_offset + uio_resid > sfi_size
           /\ extraresid' = uio_offset + uio_resid - sfi_size
           /\ uio_resid' = uio_resid - (uio_offset + uio_resid - sfi_size)
           /\ stage' = "leading"
    BY <1>2, <1>t DEF CheckEof, SfsIoTypeOK
  <2>3. SfsIoTypeOK'
    BY <1>t, <2>1, <2>2 DEF SfsIoTypeOK, Accounts, request
  <2>4. Accounts'
    BY <1>t, <1>b, <2>1, <2>2 DEF SfsIoTypeOK, Accounts, request
  <2>5. Stages'
    BY <1>t, <2>1, <2>2 DEF SfsIoTypeOK, Accounts, Stages
  <2> QED
    BY <2>3, <2>4, <2>5, Zenon DEF SfsIoInv
<1>3. CASE LeadingPartial
  <2> DEFINE blkoff == uio_offset % BLOCKSIZE
             rest == BLOCKSIZE - blkoff
             len == IF rest > uio_resid THEN uio_resid ELSE rest
  <2>1. /\ stage = "leading" /\ UNCHANGED <<request, extraresid, sfi_size, nblocks>>
        /\ \/ blkoff # 0 /\ Move(len) /\ stage' = "whole"
           \/ stage' = "out" /\ UNCHANGED <<moved, uio_offset, uio_resid>>
           \/ blkoff = 0 /\ stage' = "whole" /\ UNCHANGED <<moved, uio_offset, uio_resid>>
    BY <1>3, Zenon DEF LeadingPartial, sfs_partialio
  <2>2. blkoff \in 0..(BLOCKSIZE - 1) /\ (uio_offset + rest) % BLOCKSIZE = 0
    BY <1>t, <1>b, BlockBoundary, Zenon DEF SfsIoTypeOK
  <2> HIDE DEF blkoff
  <2>3. len \in Nat /\ len <= uio_resid /\ (len = uio_resid \/ len = rest)
    BY <1>t, <1>b, <2>2 DEF SfsIoTypeOK
  <2> HIDE DEF len, rest
  <2>4. nblocks' \in Nat
    BY <1>t, <2>1, Zenon DEF SfsIoTypeOK
  <2>5. CASE blkoff # 0 /\ Move(len) /\ stage' = "whole"
    <3>1. SfsIoTypeOK' /\ Accounts'
      BY <2>1, <2>3, <2>4, <2>5, MovedOn, Zenon
    <3>2. uio_offset' = uio_offset + len /\ uio_resid' = uio_resid - len
      BY <2>5, Zenon DEF Move
    <3>3. uio_resid' = 0 \/ uio_offset' % BLOCKSIZE = 0
      BY <1>t, <2>2, <2>3, <3>2 DEF SfsIoTypeOK
    <3>4. Stages'
      BY <2>5, <3>3, Zenon DEF Stages
    <3> QED
      BY <3>1, <3>4, Zenon DEF SfsIoInv
  <2>6. CASE UNCHANGED <<moved, uio_offset, uio_resid>> /\ (stage' = "out" \/ (blkoff = 0 /\ stage' = "whole"))
    <3>1. SfsIoTypeOK' /\ Accounts'
      BY <1>t, <2>1, <2>4, <2>6, NoMove, MovedOn, Zenon
    <3>2. Stages'
      BY <2>6, Zenon DEF Stages, blkoff
    <3> QED
      BY <3>1, <3>2, Zenon DEF SfsIoInv
  <2> QED
    BY <2>1, <2>5, <2>6, Zenon
<1>4. CASE CountBlocks
  <2>1. /\ stage = "whole" /\ stage' = IF uio_resid = 0 THEN "out" ELSE "blocks"
        /\ nblocks' = uio_resid \div BLOCKSIZE
        /\ UNCHANGED <<request, uio_offset, uio_resid, extraresid, sfi_size, moved>>
    BY <1>4, Zenon DEF CountBlocks
  <2>2. /\ nblocks' \in Nat /\ nblocks' * BLOCKSIZE <= uio_resid
        /\ uio_resid < nblocks' * BLOCKSIZE + BLOCKSIZE
    BY <1>t, <1>b, <2>1, WholeBlocks, Zenon DEF SfsIoTypeOK
  <2>3. SfsIoTypeOK' /\ Accounts'
    BY <1>t, <2>1, <2>2, NoMove, MovedOn
  <2>4. Stages'
    BY <1>t, <2>1, <2>2, Zenon DEF Stages, BlocksLeft
  <2> QED
    BY <2>3, <2>4, Zenon DEF SfsIoInv
<1>5. CASE WholeBlock
  <2>1. /\ stage = "blocks" /\ nblocks > 0 /\ nblocks' = nblocks - 1
        /\ UNCHANGED <<request, extraresid, sfi_size>>
        /\ \/ Move(BLOCKSIZE) /\ stage' = "blocks"
           \/ \E k \in 0..(BLOCKSIZE - 1) : Move(k) /\ stage' = "out"
    BY <1>5, Zenon DEF WholeBlock, sfs_blockio
  <2>2. /\ nblocks \in Nat /\ uio_resid \in Nat /\ uio_offset \in Nat
        /\ nblocks * BLOCKSIZE <= uio_resid
        /\ uio_resid < nblocks * BLOCKSIZE + BLOCKSIZE
        /\ uio_offset % BLOCKSIZE = 0
    BY <1>t, <2>1, Zenon DEF SfsIoTypeOK, Stages, BlocksLeft
  <2>3. /\ (nblocks - 1) * BLOCKSIZE = nblocks * BLOCKSIZE - BLOCKSIZE
        /\ (nblocks - 1) * BLOCKSIZE \in Nat /\ nblocks * BLOCKSIZE \in Nat
        /\ nblocks' \in Nat
    BY <1>b, <2>1, <2>2, Z3
  <2>4. BLOCKSIZE <= uio_resid
    BY <1>b, <2>2, <2>3
  <2>5. CASE Move(BLOCKSIZE) /\ stage' = "blocks"
    <3>1. SfsIoTypeOK' /\ Accounts'
      BY <1>b, <2>1, <2>3, <2>4, <2>5, MovedOn
    <3>2. uio_offset' = uio_offset + BLOCKSIZE /\ uio_resid' = uio_resid - BLOCKSIZE
      BY <2>5, Zenon DEF Move
    <3>3. uio_offset' % BLOCKSIZE = 0
      BY <1>b, <2>2, <3>2, BlockBoundary, Zenon
    <3> DEFINE left == (nblocks - 1) * BLOCKSIZE
    <3>4. nblocks' * BLOCKSIZE = left /\ left \in Nat
      BY <2>1, <2>3, Zenon
    <3>5. left <= uio_resid' /\ uio_resid' < left + BLOCKSIZE
      <4>1. left = nblocks * BLOCKSIZE - BLOCKSIZE
        BY <2>3, Zenon
      <4> HIDE DEF left
      <4> QED BY <1>b, <2>2, <2>3, <3>2, <4>1
    <3>6. Stages'
      BY <2>5, <3>3, <3>4, <3>5, Zenon DEF Stages, BlocksLeft
    <3> QED
      BY <3>1, <3>6, Zenon DEF SfsIoInv
  <2>6. ASSUME NEW k \in 0..(BLOCKSIZE - 1), Move(k), stage' = "out" PROVE SfsIoInv'
    <3>1. k \in Nat /\ k <= uio_resid
      BY <1>b, <2>2, <2>4
    <3>2. SfsIoTypeOK' /\ Accounts'
      BY <2>1, <2>3, <2>6, <3>1, MovedOn, Zenon
    <3>3. Stages'
      BY <2>6, Zenon DEF Stages
    <3> QED
      BY <3>2, <3>3, Zenon DEF SfsIoInv
  <2> QED
    BY <2>1, <2>5, <2>6, Zenon
<1>6. CASE TrailingPartial
  <2>1. /\ stage = "blocks" /\ stage' = "out"
        /\ UNCHANGED <<request, extraresid, sfi_size, nblocks>>
        /\ Move(uio_resid) \/ UNCHANGED <<moved, uio_offset, uio_resid>>
    BY <1>6, Zenon DEF TrailingPartial, sfs_partialio
  <2>2. nblocks' \in Nat /\ uio_resid \in Nat
    BY <1>t, <2>1, Zenon DEF SfsIoTypeOK
  <2>3. SfsIoTypeOK' /\ Accounts'
    BY <1>t, <2>1, <2>2, NoMove, MovedOn
  <2>4. Stages'
    BY <2>1, Zenon DEF Stages
  <2> QED
    BY <2>3, <2>4, Zenon DEF SfsIoInv
<1>7. CASE Out
  <2>1. /\ stage = "out" /\ stage' = "done" /\ uio_resid' = uio_resid + extraresid
        /\ sfi_size' = IF rw = "write" /\ uio_offset > sfi_size THEN uio_offset ELSE sfi_size
        /\ UNCHANGED <<request, uio_offset, extraresid, nblocks, moved>>
    BY <1>7, Zenon DEF Out
  <2>2. SfsIoTypeOK'
    BY <1>t, <2>1 DEF SfsIoTypeOK, request
  <2>3. Accounts'
    BY <1>t, <2>1 DEF SfsIoTypeOK, Accounts, request
  <2>4. Stages'
    BY <2>1, Zenon DEF Stages
  <2> QED
    BY <2>2, <2>3, <2>4, Zenon DEF SfsIoInv
<1>8. CASE UNCHANGED sio_vars
  BY <1>8 DEF sio_vars, request, SfsIoInv, SfsIoTypeOK, Accounts, Stages, BlocksLeft
<1> QED
  BY <1>1, <1>2, <1>3, <1>4, <1>5, <1>6, <1>7, <1>8, Zenon DEF SfsIoNext

\* What the assertions and the account of a transfer say, from the invariant.
LEMMA AccountsAre == SfsIoInv => TransferAccounted
<1> SUFFICES ASSUME SfsIoInv PROVE TransferAccounted
  BY Zenon
<1>t. SfsIoTypeOK /\ Accounts /\ Stages
  BY Zenon DEF SfsIoInv
<1>1. Cardinality(moved) = uio_offset - off0
  <2>1. /\ moved = off0..(uio_offset - 1) /\ off0 <= uio_offset
        /\ off0 \in Int /\ uio_offset \in Int /\ uio_offset - 1 \in Int
    BY <1>t DEF SfsIoTypeOK, Accounts
  <2>2. uio_offset - off0 \in Nat /\ off0 + (uio_offset - off0) - 1 = uio_offset - 1
    BY <2>1
  <2>3. Cardinality(off0..(off0 + (uio_offset - off0) - 1)) = uio_offset - off0
    BY <2>1, <2>2, CardinalityOfInterval, Zenon
  <2> QED
    BY <2>1, <2>2, <2>3, Zenon
<1>2. Aligned
  BY <1>t, SfsIoAssumption DEF Aligned, SfsIoTypeOK, Accounts, Stages, BlocksLeft
<1> QED
  BY <1>t, <1>1, <1>2 DEF TransferAccounted, SfsIoTypeOK, Accounts

\* sfs_io, for every block size, request and failure: what it transfers is a
\* prefix of the request, its assertions hold, and on return uio_resid and the
\* size of the file say exactly what was moved.
THEOREM TransfersAccounted == SfsIoSpec => []TransferAccounted
<1>1. SfsIoInit => SfsIoInv
  BY SfsIoAssumption DEF SfsIoInit, SfsIoInv, SfsIoTypeOK, Accounts, Stages
<1> QED
  BY <1>1, SfsIoStep, AccountsAre, PTL DEF SfsIoSpec
============================================================================
