------------------------------- MODULE Synch -------------------------------
(***************************************************************************)
(* Semaphores and locks: kern/thread/synch.c on top of the thread system.  *)
(*                                                                         *)
(* Each function holds splhigh from its first look at the object to its    *)
(* last, except while thread_sleep has the processor elsewhere.  A thread  *)
(* that slept is back in the while loop of its function with interrupts    *)
(* off (pc "sleep"), and t_sleepaddr still names the object.               *)
(***************************************************************************)
EXTENDS Threads

CONSTANTS Sem,             \* semaphores
          Lock,            \* locks
          initial_count,   \* of each semaphore, the argument of sem_create
          MaxCount         \* bound on a semaphore's count

ASSUME SynchAssumption ==
  /\ Sem \cup Lock \subseteq Addr
  /\ Sem \cap Lock = {}
  /\ Lbolt \notin Sem \cup Lock
  /\ MaxCount \in Nat \ {0}
  /\ initial_count \in [Sem -> 0..MaxCount]

VARIABLES
  count,    \* of each semaphore
  lock_,    \* 1 when the lock is free, 0 when it is taken
  owner,
  holds     \* the locks each thread has acquired and not released, as it
            \* sees it: not in the code, which knows only owner

synchvars == <<count, lock_, owner, holds>>
vars == <<threadvars, synchvars>>

SynchInit ==
  /\ Init
  /\ count = initial_count
  /\ lock_ = [l \in Lock |-> 1]
  /\ owner = [l \in Lock |-> NULL]
  /\ holds = [t \in Thread |-> {}]

\* The thread goes on after thread_sleep, or never slept.
GoesOn(t) ==
  /\ pc' = [pc EXCEPT ![t] = "run"]
  /\ t_sleepaddr' = [t_sleepaddr EXCEPT ![t] = NULL]
  /\ UNCHANGED <<curthread, runqueue, sleepers, zombies, allocated, stack>>

\* At the head of the while loop: on entry, or woken from its sleep there.
AtLoop(t, a) ==
  /\ curthread = t
  /\ pc[t] \in {"run", "sleep"}
  /\ pc[t] = "sleep" => t_sleepaddr[t] = a

\* Called by a thread, or by an interrupt handler of a device.
WakeUpAll(a) ==
  /\ thread_wakeup(a)
  /\ UNCHANGED <<curthread, zombies, allocated, numthreads, stack, t_sleepaddr,
                 pc, secs, lbolt_counter>>
----------------------------------------------------------------------------
(* Semaphores.                                                             *)

P_NoLoop(t, s) ==    \* mutant: "if" for "while"
  /\ AtLoop(t, s)
  /\ \/ /\ pc[t] = "run" /\ count[s] = 0
        /\ SleepOn(t, s, "sleep")
        /\ UNCHANGED count
     \/ /\ pc[t] = "sleep" \/ count[s] > 0
        /\ count' = [count EXCEPT ![s] = @ - 1]
        /\ GoesOn(t)
  /\ UNCHANGED <<numthreads, secs, lbolt_counter, lock_, owner, holds>>

P(t, s) ==
  /\ AtLoop(t, s)
  /\ \/ /\ count[s] = 0
        /\ SleepOn(t, s, "sleep")
        /\ UNCHANGED count
     \/ /\ count[s] > 0
        /\ count' = [count EXCEPT ![s] = @ - 1]
        /\ GoesOn(t)
  /\ UNCHANGED <<numthreads, secs, lbolt_counter, lock_, owner, holds>>

V_NoWakeup(s) ==    \* mutant: the thread_wakeup is left out
  /\ InterruptsOn
  /\ count[s] < MaxCount
  /\ count' = [count EXCEPT ![s] = @ + 1]
  /\ UNCHANGED <<threadvars, lock_, owner, holds>>

V(s) ==
  /\ InterruptsOn
  /\ count[s] < MaxCount
  /\ count' = [count EXCEPT ![s] = @ + 1]
  /\ WakeUpAll(s)
  /\ UNCHANGED <<lock_, owner, holds>>
----------------------------------------------------------------------------
(* Locks.                                                                  *)

lock_acquire_NoLoop(t, l) ==    \* mutant: "if" for "while"
  /\ AtLoop(t, l)
  /\ pc[t] = "run" => owner[l] # t
  /\ \/ /\ pc[t] = "run" /\ lock_[l] = 0
        /\ SleepOn(t, l, "sleep")
        /\ UNCHANGED <<lock_, owner, holds>>
     \/ /\ pc[t] = "sleep" \/ lock_[l] = 1
        /\ lock_' = [lock_ EXCEPT ![l] = 0]
        /\ owner' = [owner EXCEPT ![l] = t]
        /\ holds' = [holds EXCEPT ![t] = @ \cup {l}]
        /\ GoesOn(t)
  /\ UNCHANGED <<numthreads, secs, lbolt_counter, count>>

\* A thread that owns the lock panics here, so it gets no further.
lock_acquire(t, l) ==
  /\ AtLoop(t, l)
  /\ pc[t] = "run" => owner[l] # t
  /\ \/ /\ lock_[l] = 0
        /\ SleepOn(t, l, "sleep")
        /\ UNCHANGED <<lock_, owner, holds>>
     \/ /\ lock_[l] = 1
        /\ lock_' = [lock_ EXCEPT ![l] = 0]
        /\ owner' = [owner EXCEPT ![l] = t]
        /\ holds' = [holds EXCEPT ![t] = @ \cup {l}]
        /\ GoesOn(t)
  /\ UNCHANGED <<numthreads, secs, lbolt_counter, count>>

lock_release_NoWakeup(t, l) ==    \* mutant: the thread_wakeup is left out
  /\ Running(t)
  /\ lock_' = [lock_ EXCEPT ![l] = 1]
  /\ owner' = [owner EXCEPT ![l] = NULL]
  /\ holds' = [holds EXCEPT ![t] = @ \ {l}]
  /\ UNCHANGED <<threadvars, count>>

\* "assert(lock->owner = curthread)" is an assignment, which never fails.
lock_release(t, l) ==
  /\ Running(t)
  /\ lock_' = [lock_ EXCEPT ![l] = 1]
  /\ owner' = [owner EXCEPT ![l] = NULL]
  /\ holds' = [holds EXCEPT ![t] = @ \ {l}]
  /\ WakeUpAll(l)
  /\ UNCHANGED count

lock_do_i_hold(t, l) == owner[l] = t
----------------------------------------------------------------------------
(* Threads that use them as synch.h says: they release only the locks they *)
(* hold, and hold none when they exit.                                     *)

\* The thread system goes on around them.
Scheduling ==
  /\ \/ \E t \in Thread : holds[t] = {} /\ thread_exit(t)
     \/ \E t, new \in Thread : thread_fork(t, new)
     \/ \E t \in Thread : thread_yield(t)
     \/ \E t \in Thread, n \in 1..MaxSecs : clocksleep(t, n)
     \/ \E t \in Thread : clocksleep_loop(t)
     \/ LeaveIdle
     \/ hardclock
  /\ UNCHANGED synchvars

Using ==
  \/ \E t \in Thread, s \in Sem : P(t, s)
  \/ \E s \in Sem : V(s)
  \/ \E t \in Thread, l \in Lock : l \notin holds[t] /\ lock_acquire(t, l)

SynchNext ==
  \/ Scheduling
  \/ Using
  \/ \E t \in Thread, l \in Lock : l \in holds[t] /\ lock_release(t, l)

SynchSpec == SynchInit /\ [][SynchNext]_vars

\* The thread system's fairness, and a thread that is back in its while loop
\* goes on: it has the processor, with interrupts off.
Loops(t) ==
  \/ pc[t] = "sleep" /\ \E s \in Sem : P(t, s)
  \/ pc[t] = "sleep" /\ \E l \in Lock : lock_acquire(t, l)
  \/ clocksleep_loop(t) /\ UNCHANGED synchvars

SynchFairness ==
  /\ SF_vars(hardclock /\ UNCHANGED synchvars)
  /\ WF_vars(LeaveIdle /\ UNCHANGED synchvars)
  /\ \A t \in Thread : WF_vars(Loops(t))

FairSynchSpec == SynchSpec /\ SynchFairness

\* Threads that release any lock, which lock_release lets them do.
CarelessNext ==
  \/ Scheduling
  \/ Using
  \/ \E t \in Thread, l \in Lock : lock_release(t, l)

CarelessSpec == SynchInit /\ [][CarelessNext]_vars
----------------------------------------------------------------------------
(* Type invariant.                                                         *)
SynchTypeOK ==
  /\ TypeOK
  /\ count \in [Sem -> 0..MaxCount]
  /\ lock_ \in [Lock -> {0, 1}]
  /\ owner \in [Lock -> Thread \cup {NULL}]
  /\ holds \in [Thread -> SUBSET Lock]

\* Nobody sleeps through what it waits for: no thread is asleep on a
\* semaphore that counts, or on a lock that is free (P, V, lock_acquire and
\* lock_release look and sleep, or change and wake, without interruption).
NoLostWakeup ==
  /\ \A s \in Sem : count[s] > 0 => SleepingOn(s) = {}
  /\ \A l \in Lock : lock_[l] = 1 => SleepingOn(l) = {}

\* "Only one thread can hold the lock at the same time" (synch.h): whoever
\* has acquired the lock and not released it is its owner, the lock is taken
\* exactly then, and lock_do_i_hold tells the truth.
MutualExclusion ==
  \A l \in Lock :
    /\ \A t \in Thread : l \in holds[t] <=> lock_do_i_hold(t, l)
    /\ lock_[l] = 0 <=> owner[l] # NULL

\* The owner of a lock is a thread that can still release it: it exists and
\* has not exited, whatever the scheduler does while it holds the lock.
OwnerLives ==
  \A l \in Lock : owner[l] # NULL => owner[l] \in allocated \ zombies

\* What a thread's place says of where it is in the code: a structure that is
\* free is nowhere, a zombie is past thread_exit, and a thread that sleeps,
\* or has been woken and not run yet, does so in P or lock_acquire.
PcTells ==
  \A t \in Thread :
    /\ t \notin allocated => pc[t] = "none"
    /\ t \in zombies => pc[t] = "exit"
    /\ pc[t] = "sleep" => t_sleepaddr[t] \in Sem \cup Lock

\* The inductive invariant of the semaphores and locks.
SynchInv ==
  /\ ThreadsInv
  /\ SynchTypeOK
  /\ NoLostWakeup
  /\ MutualExclusion
  /\ OwnerLives
  /\ PcTells

\* Refinement: without the scheduler, the operations of synch.h are atomic.
\* A thread waits from the moment it first sleeps until it has what it wants.
waiting ==
  [t \in Thread |-> IF pc[t] = "sleep" THEN t_sleepaddr[t] ELSE NULL]

Abs == INSTANCE AtomicSynch WITH holder <- owner

\* P, V, lock_acquire and lock_release do what the atomic operations do.
ImplementsAtomic == Abs!ASpec

\* And what is there to be taken is taken by somebody who waits for it.
ImplementsAtomicFairly == Abs!AFairSpec
============================================================================
