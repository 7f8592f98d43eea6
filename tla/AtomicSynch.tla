---------------------------- MODULE AtomicSynch ----------------------------
(***************************************************************************)
(* What kern/include/synch.h promises of semaphores and locks: operations  *)
(* that are atomic, among threads that wait for what they cannot have yet. *)
(* There is no scheduler and no sleeping here.                             *)
(***************************************************************************)
EXTENDS Naturals

CONSTANTS Thread, Sem, Lock, NULL, initial_count

VARIABLES count, holder, waiting

avars == <<count, holder, waiting>>

AInit ==
  /\ count = initial_count
  /\ holder = [l \in Lock |-> NULL]
  /\ waiting = [t \in Thread |-> NULL]

Available(o) == IF o \in Sem THEN count[o] > 0 ELSE holder[o] = NULL

\* A thread that finds the object taken begins to wait for it.
Wait(t, o) ==
  /\ waiting[t] = NULL
  /\ ~Available(o)
  /\ waiting' = [waiting EXCEPT ![t] = o]
  /\ UNCHANGED <<count, holder>>

\* "Get the lock", or "decrement count": at once, or after a wait.
Take(t, o) ==
  /\ waiting[t] \in {NULL, o}
  /\ Available(o)
  /\ waiting' = [waiting EXCEPT ![t] = NULL]
  /\ \/ /\ o \in Sem
        /\ count' = [count EXCEPT ![o] = @ - 1]
        /\ UNCHANGED holder
     \/ /\ o \in Lock
        /\ holder' = [holder EXCEPT ![o] = t]
        /\ UNCHANGED count

Increment(s) ==
  /\ count' = [count EXCEPT ![s] = @ + 1]
  /\ UNCHANGED <<holder, waiting>>

Release(t, l) ==
  /\ waiting[t] = NULL
  /\ holder[l] = t
  /\ holder' = [holder EXCEPT ![l] = NULL]
  /\ UNCHANGED <<count, waiting>>

ANext ==
  \/ \E t \in Thread, o \in Sem \cup Lock : Wait(t, o) \/ Take(t, o)
  \/ \E s \in Sem : Increment(s)
  \/ \E t \in Thread, l \in Lock : Release(t, l)

ASpec == AInit /\ [][ANext]_avars

\* What stays available while somebody waits for it is taken by one of those
\* who wait.  Which one is not said: any of them may wait for ever.
AFairness ==
  \A o \in Sem \cup Lock :
    WF_avars(\E t \in Thread : waiting[t] = o /\ Take(t, o))

AFairSpec == ASpec /\ AFairness
============================================================================
