---------------------------- MODULE ThreadTables ----------------------------
(***************************************************************************)
(* The storage of the thread system's lists: the ring of the run queue     *)
(* (lib/queue.c) and the arrays of sleepers and zombies (lib/array.c),     *)
(* which thread_fork enlarges in advance so that mi_switch and             *)
(* thread_wakeup never have to allocate.  A thread is only "new" or "old"  *)
(* here: whether it has run before is all that the storage depends on.     *)
(***************************************************************************)
EXTENDS Naturals, Sequences

CONSTANTS InitialSlots,   \* slots of the run queue at boot: 32
          KeptMax,        \* an emptied array up to this size is kept: 16
          MaxThreads,     \* bound on the threads at one time
          MaxDead         \* bound on the zombies at one time

ASSUME TablesAssumption ==
  /\ InitialSlots \in Nat \ {0}
  /\ KeptMax \in Nat
  /\ MaxThreads \in Nat \ {0}
  /\ MaxDead \in Nat

VARIABLES
  numthreads,
  running,       \* curthread is not NULL
  runqueue,      \* of each queued thread, whether it is "new" or "old"
  asleep,        \* num of the array sleepers
  dead,          \* num of the array zombies
  slots,         \* size of the run queue's ring
  sleepersmax,   \* max of the array sleepers
  zombiesmax,    \* max of the array zombies
  short          \* the lists that were too small in mi_switch or thread_wakeup

tab_vars == <<numthreads, running, runqueue, asleep, dead, slots, sleepersmax,
          zombiesmax, short>>

TabInit ==
  /\ numthreads = 1
  /\ running = TRUE
  /\ runqueue = <<>> /\ asleep = 0 /\ dead = 0
  /\ slots = InitialSlots
  /\ sleepersmax = 0 /\ zombiesmax = 0
  /\ short = {}
----------------------------------------------------------------------------
(* lib/queue.c and lib/array.c.                                            *)

\* The loop of q_grow: double the slots until there are enough.
SlotsGrown(size, target) ==
  LET nsize[n \in Nat] == IF n < target THEN nsize[n * 2] ELSE n
  IN  nsize[size]

SlotsPreallocated(size, n) == IF n > size THEN SlotsGrown(size, n) ELSE size

Full_NoGap(size, n) == n = size    \* mutant: every slot is used

\* A ring of n slots is full with n - 1 members: nextwrite never catches up
\* with nextread.
Full(size, n) == n + 1 = size

SlotsAdded(size, n) == IF Full(size, n) THEN SlotsGrown(size, size + 1) ELSE size

MaxPreallocated(max, nguys) ==
  LET newmax[n \in Nat] == IF nguys > n THEN newmax[(n + 1) * 2] ELSE n
  IN  newmax[max]

MaxAdded(max, num) == MaxPreallocated(max, num + 1)

\* array_setsize(a, 0), which frees the storage of a large array.
Emptied(max) == IF max > KeptMax THEN 0 ELSE max
----------------------------------------------------------------------------
(* thread_fork: the storage first, then the new thread on the run queue.   *)

\* Each allocation may fail, and the fork with it; what was enlarged stays so.
\* make_runnable, the last, allocates only when the ring is full all the same.
ForkFails ==
  /\ running
  /\ numthreads < MaxThreads
  /\ \/ UNCHANGED <<sleepersmax, zombiesmax, slots>>
     \/ /\ sleepersmax' = MaxPreallocated(sleepersmax, numthreads + 1)
        /\ zombiesmax' \in {zombiesmax, MaxPreallocated(zombiesmax, numthreads + 1)}
        /\ slots' \in {slots} \cup {n \in {SlotsPreallocated(slots, numthreads + 1)} :
                                     /\ Full(n, Len(runqueue))
                                     /\ zombiesmax' = MaxPreallocated(zombiesmax, numthreads + 1)}
  /\ UNCHANGED <<numthreads, running, runqueue, asleep, dead, short>>

thread_fork ==
  /\ running
  /\ numthreads < MaxThreads
  /\ sleepersmax' = MaxPreallocated(sleepersmax, numthreads + 1)
  /\ zombiesmax' = MaxPreallocated(zombiesmax, numthreads + 1)
  /\ slots' = SlotsAdded(SlotsPreallocated(slots, numthreads + 1), Len(runqueue))
  /\ runqueue' = Append(runqueue, "new")
  /\ numthreads' = numthreads + 1
  /\ UNCHANGED <<running, asleep, dead, short>>
----------------------------------------------------------------------------
(* mi_switch: the old thread on its list, the next one from the run queue. *)

\* q is the run queue, z threads are dead and the array of zombies has room
\* for zm when scheduler() is called.  A thread that has run before comes out
\* in mi_switch and exorcises the zombies; a new one starts elsewhere.
Switch(q, z, zm) ==
  \/ /\ q = <<>>
     /\ running' = FALSE
     /\ UNCHANGED runqueue
     /\ dead' = z
     /\ zombiesmax' = zm
  \/ /\ q # <<>>
     /\ running' = TRUE
     /\ runqueue' = Tail(q)
     /\ \/ /\ Head(q) = "old"
           /\ dead' = 0
           /\ zombiesmax' = Emptied(zm)
        \/ /\ Head(q) = "new"
           /\ dead' = z
           /\ zombiesmax' = zm

Short(list, needed) == short' = short \cup (IF needed THEN {list} ELSE {})

\* Also the end of hardclock, when it has interrupted a thread.
thread_yield ==
  /\ running
  /\ slots' = SlotsAdded(slots, Len(runqueue))
  /\ Short("runqueue", Full(slots, Len(runqueue)))
  /\ Switch(Append(runqueue, "old"), dead, zombiesmax)
  /\ UNCHANGED <<numthreads, asleep, sleepersmax>>

thread_sleep ==
  /\ running
  /\ sleepersmax' = MaxAdded(sleepersmax, asleep)
  /\ Short("sleepers", asleep + 1 > sleepersmax)
  /\ asleep' = asleep + 1
  /\ Switch(runqueue, dead, zombiesmax)
  /\ UNCHANGED <<numthreads, slots>>

\* The boot thread does not exit: some thread that has run is left.
thread_exit ==
  /\ running
  /\ dead < MaxDead
  /\ asleep > 0 \/ \E i \in DOMAIN runqueue : runqueue[i] = "old"
  /\ numthreads' = numthreads - 1
  /\ Short("zombies", dead + 1 > zombiesmax)
  /\ Switch(runqueue, dead + 1, MaxAdded(zombiesmax, dead))
  /\ UNCHANGED <<asleep, slots, sleepersmax>>

\* One turn of thread_wakeup's loop: interrupts are off for all of them, so
\* that an interrupt wakes several threads before the scheduler runs again.
thread_wakeup ==
  /\ asleep > 0
  /\ asleep' = asleep - 1
  /\ slots' = SlotsAdded(slots, Len(runqueue))
  /\ Short("runqueue", Full(slots, Len(runqueue)))
  /\ runqueue' = Append(runqueue, "old")
  /\ UNCHANGED <<numthreads, running, dead, sleepersmax, zombiesmax>>

LeaveIdle ==
  /\ ~running
  /\ runqueue # <<>>
  /\ Switch(runqueue, dead, zombiesmax)
  /\ UNCHANGED <<numthreads, asleep, slots, sleepersmax, short>>

TabNext ==
  \/ thread_fork \/ ForkFails
  \/ thread_yield \/ thread_sleep \/ thread_exit \/ thread_wakeup
  \/ LeaveIdle

TabSpec == TabInit /\ [][TabNext]_tab_vars
----------------------------------------------------------------------------
(* Type invariant.                                                         *)
TabTypeOK ==
  /\ numthreads \in 1..MaxThreads
  /\ running \in BOOLEAN
  /\ runqueue \in Seq({"new", "old"}) /\ Len(runqueue) <= MaxThreads
  /\ asleep \in 0..MaxThreads /\ dead \in 0..MaxDead
  /\ slots \in Nat /\ sleepersmax \in Nat /\ zombiesmax \in Nat
  /\ short \subseteq {"runqueue", "sleepers", "zombies"}

\* The ring never runs into its own members and the arrays have room for what
\* they hold, although the counter they are sized by goes down when a thread
\* exits and its structure is still on a list.
NoOverflow ==
  /\ Len(runqueue) < slots
  /\ asleep <= sleepersmax
  /\ dead <= zombiesmax

\* "Stash the current thread on whatever list it's supposed to go on.  Because
\* we preallocate during thread_fork, this should not fail" (mi_switch), and
\* "This is done only to ensure that make_runnable() does not fail"
\* (scheduler_preallocate): neither ever has to enlarge its list.
ForkPreallocates == short \cap {"runqueue", "zombies"} = {}
============================================================================
