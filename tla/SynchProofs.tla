---------------------------- MODULE SynchProofs ----------------------------
(***************************************************************************)
(* Proofs about semaphores and locks: no wakeup is lost, one thread at a   *)
(* time holds a lock, and the operations implement the atomic ones.        *)
(***************************************************************************)
EXTENDS Synch, ThreadsProofs

----------------------------------------------------------------------------
(* What the thread system's steps do to the threads that wait.             *)

\* A switch to another thread destroys only zombies, and leaves every thread
\* where it is in the code unless it starts or is destroyed.
LEMMA SwitchPc ==
  ASSUME NEW ready \in Seq(Thread), NEW dead \in SUBSET Thread,
         NEW pcs \in [Thread -> Where],
         mi_switch(ready, dead, pcs),
         \A t \in Thread : t \notin allocated => pcs[t] = "none",
         \A t \in dead : pcs[t] = "exit"
  PROVE  /\ \A t \in Thread : t \notin allocated' => pc'[t] = "none"
         /\ \A t \in zombies' : pc'[t] = "exit"
         /\ \A t \in Thread : pc'[t] = "sleep" <=> pcs[t] = "sleep"
<1>1. CASE ready = <<>>
  BY <1>1, Zenon DEF mi_switch
<1>2. CASE ready # <<>>
  <2> DEFINE next == Head(ready)
  <2>1. next \in Thread
    BY <1>2
  <2>2. SwitchTo(next, Tail(ready), dead, pcs)
    BY <1>2, Zenon DEF mi_switch
  <2> HIDE DEF next
  <2>3. CASE pcs[next] # "start"
    BY <2>1, <2>2, <2>3, Zenon DEF SwitchTo, exorcise
  <2>4. CASE pcs[next] = "start"
    BY <2>1, <2>2, <2>4 DEF SwitchTo, exorcise
  <2> QED
    BY <2>3, <2>4, Zenon
<1> QED
  BY <1>1, <1>2, Zenon

\* A switch loses no thread but the dead.
LEMMA SwitchAlive ==
  ASSUME NEW ready, NEW dead, NEW pcs, mi_switch(ready, dead, pcs)
  PROVE  allocated' \ zombies' = allocated \ dead
BY Zenon DEF mi_switch, SwitchTo, exorcise

\* Whoever goes to sleep joins the sleepers of that address and no other.
LEMMA SleepOnFacts ==
  ASSUME SynchInv, NEW t \in Thread, NEW a \in Addr,
         NEW w \in {"sleep", "clocksleep"},
         curthread = t, SleepOn(t, a, w)
  PROVE  /\ SleepingOn(a)' \subseteq SleepingOn(a) \cup {t}
         /\ \A x \in Addr \ {a} : SleepingOn(x)' \subseteq SleepingOn(x)
         /\ allocated' \ zombies' = allocated \ zombies
         /\ \A u \in Thread : u \notin allocated' => pc'[u] = "none"
         /\ \A u \in zombies' : pc'[u] = "exit"
         /\ \A u \in Thread : pc'[u] = "sleep" <=> IF u = t THEN w = "sleep"
                                                            ELSE pc[u] = "sleep"
         /\ t_sleepaddr' = [t_sleepaddr EXCEPT ![t] = a]
<1> DEFINE pcs == [pc EXCEPT ![t] = w]
<1>1. /\ t_sleepaddr' = [t_sleepaddr EXCEPT ![t] = a]
      /\ sleepers' = Append(sleepers, t)
      /\ mi_switch(runqueue, zombies, pcs)
  BY Zenon DEF SleepOn
<1>2. Range(sleepers') = Range(sleepers) \cup {t} /\ Range(sleepers) \subseteq Thread
  <2>1. sleepers \in Seq(Thread)
    BY Zenon DEF SynchInv, ThreadsInv, TypeOK
  <2>2. Range(sleepers) \subseteq Thread
    BY <2>1 DEF Range
  <2> QED
    BY <1>1, <2>1, <2>2, AppendFacts
<1>3. t \in allocated \ zombies
  BY ThreadAssumption DEF SynchInv, ThreadsInv, OnePlace, Placed, Current, TypeOK, ThreadAssumption
<1>4. /\ pcs \in [Thread -> Where]
      /\ \A u \in Thread : u \notin allocated => pcs[u] = "none"
      /\ \A u \in zombies : pcs[u] = "exit"
  BY <1>3 DEF SynchInv, ThreadsInv, TypeOK, PcTells, Where
<1>5. \A u \in Thread : pcs[u] = "sleep" <=> IF u = t THEN w = "sleep"
                                                      ELSE pc[u] = "sleep"
  BY Zenon DEF SynchInv, ThreadsInv, TypeOK
<1>6. /\ SleepingOn(a)' \subseteq SleepingOn(a) \cup {t}
      /\ \A x \in Addr \ {a} : SleepingOn(x)' \subseteq SleepingOn(x)
  BY <1>1, <1>2 DEF SleepingOn, SynchInv, ThreadsInv, TypeOK
<1> HIDE DEF pcs
<1>7. runqueue \in Seq(Thread) /\ zombies \in SUBSET Thread
  BY Zenon DEF SynchInv, ThreadsInv, TypeOK
<1>8. allocated' \ zombies' = allocated \ zombies
  BY <1>1, SwitchAlive, Zenon
<1>9. \A u \in Thread : u \notin allocated' => pc'[u] = "none"
  BY <1>1, <1>4, <1>7, SwitchPc, Zenon
<1>10. \A u \in zombies' : pc'[u] = "exit"
  BY <1>1, <1>4, <1>7, SwitchPc, Zenon
<1>11. \A u \in Thread : pc'[u] = "sleep" <=> pcs[u] = "sleep"
  BY <1>1, <1>4, <1>7, SwitchPc
<1> QED
  BY <1>1, <1>5, <1>6, <1>8, <1>9, <1>10, <1>11

\* thread_wakeup leaves nobody asleep on the address, and puts nobody to sleep.
LEMMA WakeupSleeping ==
  ASSUME SynchInv, NEW a \in Addr, NEW w \in Wakeups(a), sleepers' = w.left,
         UNCHANGED t_sleepaddr
  PROVE  /\ SleepingOn(a)' = {}
         /\ \A x \in Addr : SleepingOn(x)' \subseteq SleepingOn(x)
<1>1. Range(sleepers') = Range(sleepers) \ SleepingOn(a)
  BY Zenon DEF Wakeups, InOrder
<1> QED
  BY <1>1, Zenon DEF SleepingOn

\* A step that moves no thread into or out of P and lock_acquire.
LEMMA WaitingSame ==
  ASSUME SynchInv,
         \A t \in Thread : pc'[t] = "sleep" <=> pc[t] = "sleep",
         \A t \in Thread : pc[t] = "sleep" => t_sleepaddr'[t] = t_sleepaddr[t],
         \A t \in Thread : t \notin allocated' => pc'[t] = "none",
         \A t \in zombies' : pc'[t] = "exit",
         zombies' \subseteq Thread
  PROVE  PcTells' /\ waiting' = waiting
<1>1. PcTells'
  BY Zenon DEF SynchInv, PcTells
<1>2. waiting' = waiting
  BY Zenon DEF waiting
<1> QED
  BY <1>1, <1>2

\* What the semaphores and locks need of a step of the thread system: it puts
\* nobody to sleep on them, destroys nobody who holds a lock, and neither
\* begins nor ends a wait.
Calm ==
  /\ \A x \in Sem \cup Lock : SleepingOn(x)' \subseteq SleepingOn(x)
  /\ \A t \in allocated \ zombies : holds[t] # {} => t \in allocated' \ zombies'
  /\ PcTells'
  /\ waiting' = waiting

\* The steps that only switch to another thread.
LEMMA SwitchCalm ==
  ASSUME SynchInv, NEW ready \in Seq(Thread), NEW dead \in SUBSET Thread,
         NEW pcs \in [Thread -> Where], mi_switch(ready, dead, pcs),
         \A t \in Thread : t \notin allocated => pcs[t] = "none",
         \A t \in dead : pcs[t] = "exit",
         \A t \in dead \ zombies : holds[t] = {},
         \A t \in Thread : pcs[t] = "sleep" <=> pc[t] = "sleep",
         UNCHANGED t_sleepaddr,
         \A x \in Sem \cup Lock : SleepingOn(x)' \subseteq SleepingOn(x),
         ThreadsInv'
  PROVE  Calm
<1>1. allocated' \ zombies' = allocated \ dead
  BY SwitchAlive, Zenon
<1>2. \A t \in Thread : t \notin allocated' => pc'[t] = "none"
  BY SwitchPc, Zenon
<1>3. \A t \in zombies' : pc'[t] = "exit"
  BY SwitchPc, Zenon
<1>4. \A t \in Thread : pc'[t] = "sleep" <=> pcs[t] = "sleep"
  BY SwitchPc, Zenon
<1>5. zombies' \subseteq Thread
  BY Zenon DEF ThreadsInv, TypeOK
<1>6. PcTells' /\ waiting' = waiting
  BY <1>2, <1>3, <1>4, <1>5, WaitingSame
<1>7. \A t \in allocated \ zombies : holds[t] # {} => t \in allocated' \ zombies'
  BY <1>1, Zenon
<1> QED
  BY <1>6, <1>7 DEF Calm

\* Every thread is nowhere, past thread_exit, or alive, as PcTells says.
LEMMA PcFacts ==
  ASSUME SynchInv
  PROVE  /\ \A t \in Thread : t \notin allocated => pc[t] = "none"
         /\ \A t \in zombies : pc[t] = "exit"
         /\ pc \in [Thread -> Where]
         /\ runqueue \in Seq(Thread)
         /\ zombies \in SUBSET Thread
         /\ \A t \in Thread : curthread = t => t \in allocated \ zombies
<1>1. \A t \in Thread : curthread = t => t \in allocated \ zombies
  BY ThreadAssumption DEF SynchInv, ThreadsInv, OnePlace, Placed, Current
<1> QED
  BY <1>1 DEF SynchInv, ThreadsInv, TypeOK, PcTells

\* thread_exit, by a thread that holds no lock, is calm.
LEMMA ExitCalm ==
  ASSUME SynchInv, NEW t \in Thread, holds[t] = {}, thread_exit(t), ThreadsInv'
  PROVE  Calm
<1> DEFINE pcs == [pc EXCEPT ![t] = "exit"]
           dead == zombies \cup {t}
<1>1. /\ curthread = t /\ pc[t] = "run" /\ mi_switch(runqueue, dead, pcs)
      /\ UNCHANGED <<sleepers, t_sleepaddr>>
  BY Zenon DEF thread_exit, Running
<1>2. /\ pcs \in [Thread -> Where] /\ dead \in SUBSET Thread
      /\ \A u \in Thread : u \notin allocated => pcs[u] = "none"
      /\ \A u \in dead : pcs[u] = "exit"
      /\ \A u \in dead \ zombies : holds[u] = {}
      /\ \A u \in Thread : pcs[u] = "sleep" <=> pc[u] = "sleep"
  BY <1>1, PcFacts DEF Where
<1>3. \A x \in Sem \cup Lock : SleepingOn(x)' \subseteq SleepingOn(x)
  BY <1>1, Zenon DEF SleepingOn
<1> HIDE DEF pcs, dead
<1> QED
  BY <1>1, <1>2, <1>3, PcFacts, SwitchCalm

\* thread_fork is calm: the new thread waits for nothing.
LEMMA ForkCalm ==
  ASSUME SynchInv, NEW t \in Thread, NEW new \in Thread, thread_fork(t, new),
         ThreadsInv'
  PROVE  Calm
<1>1. /\ new \notin allocated /\ allocated' = allocated \cup {new}
      /\ pc' = [pc EXCEPT ![new] = "start"]
      /\ t_sleepaddr' = [t_sleepaddr EXCEPT ![new] = NULL]
      /\ UNCHANGED <<sleepers, zombies>>
  BY DEF thread_fork
<1>2. /\ pc[new] = "none" /\ new \notin zombies /\ new \notin Range(sleepers)
      /\ Range(sleepers) \subseteq Thread
      /\ t_sleepaddr \in [Thread -> Addr \cup {NULL}]
  BY <1>1, PcFacts, Zenon DEF SynchInv, ThreadsInv, OnePlace, Placed, TypeOK
<1>3. PcTells' /\ waiting' = waiting
  <2>1. \A u \in Thread : pc'[u] = "sleep" <=> pc[u] = "sleep"
    BY <1>1, <1>2, PcFacts
  <2>2. \A u \in Thread : pc[u] = "sleep" => t_sleepaddr'[u] = t_sleepaddr[u]
    BY <1>1, <1>2, Zenon
  <2>3. /\ \A u \in Thread : u \notin allocated' => pc'[u] = "none"
        /\ \A u \in zombies' : pc'[u] = "exit"
        /\ zombies' \subseteq Thread
    BY <1>1, <1>2, PcFacts
  <2> QED
    BY <2>1, <2>2, <2>3, WaitingSame
<1>4. \A x \in Sem \cup Lock : SleepingOn(x)' \subseteq SleepingOn(x)
  BY <1>1, <1>2 DEF SleepingOn
<1> QED
  BY <1>1, <1>3, <1>4 DEF Calm

\* thread_yield is calm.
LEMMA YieldCalm ==
  ASSUME SynchInv, NEW t \in Thread, thread_yield(t), ThreadsInv'
  PROVE  Calm
<1> DEFINE ready == Append(runqueue, t)
<1>1. mi_switch(ready, zombies, pc) /\ UNCHANGED <<sleepers, t_sleepaddr>>
  BY Zenon DEF thread_yield
<1>2. ready \in Seq(Thread)
  BY PcFacts, AppendFacts
<1>3. \A x \in Sem \cup Lock : SleepingOn(x)' \subseteq SleepingOn(x)
  BY <1>1 DEF SleepingOn
<1> HIDE DEF ready
<1> QED
  BY <1>1, <1>2, <1>3, PcFacts, SwitchCalm

\* Leaving the idle loop is calm.
LEMMA LeaveIdleCalm ==
  ASSUME SynchInv, LeaveIdle, ThreadsInv'
  PROVE  Calm
<1>1. mi_switch(runqueue, zombies, pc) /\ UNCHANGED <<sleepers, t_sleepaddr>>
  BY Zenon DEF LeaveIdle, mi_switch
<1>2. \A x \in Sem \cup Lock : SleepingOn(x)' \subseteq SleepingOn(x)
  BY <1>1, Zenon DEF SleepingOn
<1> QED
  BY <1>1, <1>2, PcFacts, SwitchCalm

\* clocksleep is calm: it sleeps on lbolt, which is neither a semaphore nor a lock.
LEMMA ClocksleepCalm ==
  ASSUME SynchInv, NEW t \in Thread, curthread = t, pc[t] # "sleep",
         SleepOn(t, Lbolt, "clocksleep"), ThreadsInv'
  PROVE  Calm
<1>1. Lbolt \in Addr /\ Sem \cup Lock \subseteq Addr \ {Lbolt}
  BY ThreadAssumption, SynchAssumption, Zenon DEF ThreadAssumption, SynchAssumption
<1>2. \A x \in Sem \cup Lock : SleepingOn(x)' \subseteq SleepingOn(x)
  BY <1>1, SleepOnFacts
<1>3. allocated' \ zombies' = allocated \ zombies
  BY <1>1, SleepOnFacts
<1>4. /\ \A u \in Thread : u \notin allocated' => pc'[u] = "none"
      /\ \A u \in zombies' : pc'[u] = "exit"
  BY <1>1, SleepOnFacts
<1>5. \A u \in Thread : pc'[u] = "sleep" <=> pc[u] = "sleep"
  BY <1>1, SleepOnFacts
<1>6. \A u \in Thread : pc[u] = "sleep" => t_sleepaddr'[u] = t_sleepaddr[u]
  BY Zenon DEF SleepOn, SynchInv, ThreadsInv, TypeOK
<1>7. zombies' \subseteq Thread
  BY Zenon DEF ThreadsInv, TypeOK
<1>8. PcTells' /\ waiting' = waiting
  BY <1>4, <1>5, <1>6, <1>7, WaitingSame
<1> QED
  BY <1>2, <1>3, <1>8 DEF Calm

\* The last turn of clocksleep's loop, which returns, is calm.
LEMMA ClocksleepReturnCalm ==
  ASSUME SynchInv, NEW t \in Thread, clocksleep_loop(t), secs[t] = 1
  PROVE  Calm
<1>1. /\ curthread = t /\ pc[t] = "clocksleep"
      /\ pc' = [pc EXCEPT ![t] = "run"]
      /\ t_sleepaddr' = [t_sleepaddr EXCEPT ![t] = NULL]
      /\ UNCHANGED <<sleepers, zombies, allocated>>
  BY DEF clocksleep_loop, SynchInv, ThreadsInv, TypeOK
<1>2. /\ t \in allocated \ zombies /\ t \notin Range(sleepers)
      /\ Range(sleepers) \subseteq Thread
      /\ t_sleepaddr \in [Thread -> Addr \cup {NULL}]
  BY <1>1, ThreadAssumption
     DEF SynchInv, ThreadsInv, OnePlace, Placed, Current, TypeOK
<1>3. \A x \in Sem \cup Lock : SleepingOn(x)' \subseteq SleepingOn(x)
  BY <1>1, <1>2 DEF SleepingOn
<1>4. /\ \A u \in Thread : pc'[u] = "sleep" <=> pc[u] = "sleep"
      /\ \A u \in Thread : pc[u] = "sleep" => t_sleepaddr'[u] = t_sleepaddr[u]
      /\ \A u \in Thread : u \notin allocated' => pc'[u] = "none"
      /\ \A u \in zombies' : pc'[u] = "exit"
      /\ zombies' \subseteq Thread
  BY <1>1, <1>2, PcFacts
<1>5. PcTells' /\ waiting' = waiting
  BY <1>4, WaitingSame
<1> QED
  BY <1>1, <1>3, <1>5 DEF Calm

\* The preemption at the end of hardclock is calm.
LEMMA YieldToCalm ==
  ASSUME SynchInv, NEW ready \in Seq(Thread), YieldTo(ready), UNCHANGED t_sleepaddr,
         \A x \in Sem \cup Lock : SleepingOn(x)' \subseteq SleepingOn(x),
         ThreadsInv'
  PROVE  Calm
<1>1. CASE curthread # NULL
  <2> DEFINE queue == Append(ready, curthread)
  <2>1. curthread \in Thread
    BY <1>1 DEF SynchInv, ThreadsInv, TypeOK
  <2>2. mi_switch(queue, zombies, pc) /\ queue \in Seq(Thread)
    BY <1>1, <2>1, AppendFacts DEF YieldTo
  <2> HIDE DEF queue
  <2> QED
    BY <2>2, PcFacts, SwitchCalm
<1>2. CASE curthread = NULL
  <2>1. UNCHANGED <<zombies, allocated, pc>>
    BY <1>2, Zenon DEF YieldTo
  <2>2. PcTells' /\ waiting' = waiting
    BY <2>1, PcFacts, WaitingSame
  <2> QED
    BY <2>1, <2>2 DEF Calm
<1> QED
  BY <1>1, <1>2

\* hardclock is calm: it wakes only those that sleep on lbolt.
LEMMA HardclockCalm ==
  ASSUME SynchInv, hardclock, ThreadsInv'
  PROVE  Calm
<1>1. UNCHANGED t_sleepaddr /\ Sem \cup Lock \subseteq Addr /\ Lbolt \in Addr
  BY ThreadAssumption, SynchAssumption DEF hardclock, SynchAssumption, ThreadAssumption
<1>2. CASE UNCHANGED sleepers /\ YieldTo(runqueue)
  <2>1. \A x \in Sem \cup Lock : SleepingOn(x)' \subseteq SleepingOn(x)
    BY <1>1, <1>2 DEF SleepingOn
  <2> QED
    BY <1>1, <1>2, <2>1, PcFacts, YieldToCalm
<1>3. ASSUME NEW w \in Wakeups(Lbolt), sleepers' = w.left, YieldTo(runqueue \o w.woken)
      PROVE  Calm
  <2> DEFINE ready == runqueue \o w.woken
  <2>1. ready \in Seq(Thread)
    BY <1>1, ThreadAssumption, WakeupFacts DEF SynchInv
  <2>2. \A x \in Sem \cup Lock : SleepingOn(x)' \subseteq SleepingOn(x)
    BY <1>1, <1>3, WakeupSleeping
  <2>3. YieldTo(ready)
    BY <1>3, Zenon
  <2> HIDE DEF ready
  <2> QED
    BY <1>1, <2>1, <2>2, <2>3, YieldToCalm
<1> QED
  BY <1>2, <1>3 DEF hardclock
----------------------------------------------------------------------------
(* The four ways the semaphores and locks use the thread system.           *)

\* Every step of the thread system alone is calm.
LEMMA SchedulingCalm ==
  ASSUME SynchInv, Scheduling
  PROVE  ThreadsInv' /\ Calm
<1> USE ThreadAssumption
<1>0. ThreadsInv
  BY Zenon DEF SynchInv
<1>1. ASSUME NEW t \in Thread, holds[t] = {}, thread_exit(t)
      PROVE  ThreadsInv' /\ Calm
  BY <1>0, <1>1, ExitInv, ExitCalm
<1>2. ASSUME NEW t \in Thread, NEW new \in Thread, thread_fork(t, new)
      PROVE  ThreadsInv' /\ Calm
  BY <1>0, <1>2, ForkInv, ForkCalm
<1>3. ASSUME NEW t \in Thread, thread_yield(t)
      PROVE  ThreadsInv' /\ Calm
  BY <1>0, <1>3, YieldInv, YieldCalm
<1>4. ASSUME NEW t \in Thread, NEW n \in 1..MaxSecs, clocksleep(t, n)
      PROVE  ThreadsInv' /\ Calm
  <2>1. ThreadsInv'
    BY <1>0, <1>4, ClocksleepInv
  <2>2. curthread = t /\ pc[t] # "sleep" /\ SleepOn(t, Lbolt, "clocksleep")
    BY <1>4, Zenon DEF clocksleep, Running
  <2> QED
    BY <2>1, <2>2, ClocksleepCalm
<1>5. ASSUME NEW t \in Thread, clocksleep_loop(t)
      PROVE  ThreadsInv' /\ Calm
  <2>1. ThreadsInv'
    BY <1>0, <1>5, ClocksleepInv
  <2>2. CASE secs[t] = 1
    BY <1>5, <2>1, <2>2, ClocksleepReturnCalm
  <2>3. CASE secs[t] # 1
    <3>1. curthread = t /\ pc[t] # "sleep" /\ SleepOn(t, Lbolt, "clocksleep")
      BY <1>5, <2>3 DEF clocksleep_loop
    <3> QED
      BY <2>1, <3>1, ClocksleepCalm
  <2> QED
    BY <2>2, <2>3, Zenon
<1>6. CASE LeaveIdle
  BY <1>0, <1>6, LeaveIdleInv, LeaveIdleCalm
<1>7. CASE hardclock
  BY <1>0, <1>7, HardclockInv, HardclockCalm
<1> QED
  BY <1>1, <1>2, <1>3, <1>4, <1>5, <1>6, <1>7 DEF Scheduling

\* At the head of its loop a thread waits for that object or for nothing.
LEMMA AtLoopFacts ==
  ASSUME SynchInv, NEW t \in Thread, NEW a \in Sem \cup Lock, AtLoop(t, a)
  PROVE  /\ curthread = t /\ t \in allocated \ zombies /\ t \notin Range(sleepers)
         /\ waiting[t] = IF pc[t] = "sleep" THEN a ELSE NULL
         /\ a \in Addr /\ a # NULL
<1>1. curthread = t /\ a \in Addr /\ a # NULL
  BY ThreadAssumption, SynchAssumption DEF AtLoop, ThreadAssumption, SynchAssumption
<1>2. t \in allocated \ zombies /\ t \notin Range(sleepers)
  BY <1>1, ThreadAssumption DEF SynchInv, ThreadsInv, OnePlace, Placed, Current, TypeOK
<1>3. waiting[t] = IF pc[t] = "sleep" THEN a ELSE NULL
  BY Zenon DEF AtLoop, waiting
<1> QED
  BY <1>1, <1>2, <1>3

\* It sleeps there.
LEMMA LoopSleeps ==
  ASSUME SynchInv, NEW t \in Thread, NEW a \in Sem \cup Lock, AtLoop(t, a),
         SleepOn(t, a, "sleep"), UNCHANGED <<numthreads, secs, lbolt_counter>>
  PROVE  /\ ThreadsInv' /\ PcTells'
         /\ \A x \in (Sem \cup Lock) \ {a} : SleepingOn(x)' \subseteq SleepingOn(x)
         /\ allocated' \ zombies' = allocated \ zombies
         /\ waiting' = [waiting EXCEPT ![t] = a]
<1>1. /\ curthread = t /\ a \in Addr
  BY AtLoopFacts, Zenon
<1>2. ThreadsInv'
  <2>1. secs[t] \in 0..MaxSecs /\ secs' = [secs EXCEPT ![t] = secs[t]] /\ ThreadsInv
    BY Zenon DEF SynchInv, ThreadsInv, TypeOK
  <2> QED
    BY <1>1, <2>1, ThreadAssumption, SleepOnInv, Zenon
<1>3. \A x \in (Sem \cup Lock) \ {a} : SleepingOn(x)' \subseteq SleepingOn(x)
  BY <1>1, SleepOnFacts, SynchAssumption DEF SynchAssumption
<1>4. allocated' \ zombies' = allocated \ zombies
  BY <1>1, SleepOnFacts
<1>5. /\ \A u \in Thread : u \notin allocated' => pc'[u] = "none"
      /\ \A u \in zombies' : pc'[u] = "exit"
  BY <1>1, SleepOnFacts, Zenon
<1>6. \A u \in Thread : pc'[u] = "sleep" <=> (u = t \/ pc[u] = "sleep")
  BY <1>1, SleepOnFacts
<1>7. /\ t_sleepaddr' = [t_sleepaddr EXCEPT ![t] = a]
      /\ t_sleepaddr \in [Thread -> Addr \cup {NULL}]
  BY Zenon DEF SleepOn, SynchInv, ThreadsInv, TypeOK
<1>8. PcTells'
  BY <1>2, <1>5, <1>6, <1>7 DEF SynchInv, PcTells
<1>9. waiting' = [waiting EXCEPT ![t] = a]
  BY <1>6, <1>7, Zenon DEF waiting
<1> QED
  BY <1>2, <1>3, <1>4, <1>8, <1>9

\* It goes on.
LEMMA LoopGoesOn ==
  ASSUME SynchInv, NEW t \in Thread, NEW a \in Sem \cup Lock, AtLoop(t, a),
         GoesOn(t), UNCHANGED <<numthreads, secs, lbolt_counter>>
  PROVE  /\ ThreadsInv' /\ PcTells'
         /\ \A x \in Sem \cup Lock : SleepingOn(x)' \subseteq SleepingOn(x)
         /\ allocated' \ zombies' = allocated \ zombies
         /\ waiting' = [waiting EXCEPT ![t] = NULL]
<1>1. /\ curthread = t /\ t \in allocated \ zombies /\ t \notin Range(sleepers)
  BY AtLoopFacts, Zenon
<1>2. ThreadsInv'
  <2>1. secs' \in [Thread -> 0..MaxSecs] /\ ThreadsInv
    BY Zenon DEF SynchInv, ThreadsInv, TypeOK
  <2> QED
    BY <1>1, <2>1, ThreadAssumption, SleepReturnsInv, Zenon DEF GoesOn
<1>3. /\ pc' = [pc EXCEPT ![t] = "run"]
      /\ t_sleepaddr' = [t_sleepaddr EXCEPT ![t] = NULL]
      /\ UNCHANGED <<sleepers, zombies, allocated>>
      /\ t_sleepaddr \in [Thread -> Addr \cup {NULL}]
      /\ pc \in [Thread -> Where]
      /\ Range(sleepers) \subseteq Thread
  BY DEF GoesOn, SynchInv, ThreadsInv, TypeOK, Range
<1>4. \A x \in Sem \cup Lock : SleepingOn(x)' \subseteq SleepingOn(x)
  BY <1>1, <1>3, Zenon DEF SleepingOn
<1>5. PcTells'
  BY <1>1, <1>3, Zenon DEF SynchInv, PcTells
<1>6. waiting' = [waiting EXCEPT ![t] = NULL]
  BY <1>3, Zenon DEF waiting
<1> QED
  BY <1>2, <1>3, <1>4, <1>5, <1>6

\* Somebody wakes everybody who sleeps on the object.
LEMMA WakeUpAllFacts ==
  ASSUME SynchInv, NEW a \in Sem \cup Lock, WakeUpAll(a)
  PROVE  /\ ThreadsInv' /\ PcTells'
         /\ SleepingOn(a)' = {}
         /\ \A x \in Sem \cup Lock : SleepingOn(x)' \subseteq SleepingOn(x)
         /\ allocated' \ zombies' = allocated \ zombies
         /\ waiting' = waiting
<1>1. a \in Addr /\ Sem \cup Lock \subseteq Addr
  BY SynchAssumption DEF SynchAssumption
<1>2. /\ thread_wakeup(a)
      /\ UNCHANGED <<curthread, zombies, allocated, numthreads, stack,
                     t_sleepaddr, pc, secs, lbolt_counter>>
  BY Zenon DEF WakeUpAll
<1>3. ThreadsInv'
  BY <1>1, <1>2, ThreadAssumption, WakeupInv DEF SynchInv
<1>4. PICK w \in Wakeups(a) : sleepers' = w.left
  BY <1>2 DEF thread_wakeup
<1>5. /\ SleepingOn(a)' = {}
      /\ \A x \in Sem \cup Lock : SleepingOn(x)' \subseteq SleepingOn(x)
  BY <1>1, <1>2, <1>4, WakeupSleeping
<1>6. PcTells' /\ waiting' = waiting
  BY <1>2 DEF SynchInv, PcTells, waiting
<1> QED
  BY <1>2, <1>3, <1>5, <1>6
----------------------------------------------------------------------------
(* Each operation keeps the invariant and is an atomic step, or none.      *)

\* The conjuncts of the invariant about the objects, which no thread that
\* only sleeps or is switched to can break.
LEMMA ObjectsKept ==
  ASSUME SynchInv, ThreadsInv', PcTells', UNCHANGED synchvars,
         \A l \in Lock : owner[l] # NULL => owner[l] \in allocated' \ zombies',
         \A s \in Sem : count[s] > 0 => SleepingOn(s)' = {},
         \A l \in Lock : lock_[l] = 1 => SleepingOn(l)' = {}
  PROVE  SynchInv'
<1>1. SynchTypeOK'
  BY Zenon DEF SynchInv, SynchTypeOK, ThreadsInv, synchvars
<1>2. NoLostWakeup' /\ OwnerLives'
  BY Zenon DEF NoLostWakeup, OwnerLives, synchvars
<1>3. MutualExclusion'
  BY Zenon DEF SynchInv, MutualExclusion, lock_do_i_hold, synchvars
<1> QED
  BY <1>1, <1>2, <1>3 DEF SynchInv

\* The steps of the thread system keep the inductive invariant of the semaphores and locks.
LEMMA SchedulingStep ==
  ASSUME SynchInv, Scheduling
  PROVE  SynchInv' /\ UNCHANGED Abs!avars
<1>1. ThreadsInv' /\ Calm /\ UNCHANGED synchvars
  BY SchedulingCalm DEF Scheduling
<1>2. \A l \in Lock : owner[l] # NULL => owner[l] \in allocated' \ zombies'
  BY <1>1 DEF SynchInv, SynchTypeOK, MutualExclusion, OwnerLives, lock_do_i_hold, Calm
<1>3. /\ \A s \in Sem : count[s] > 0 => SleepingOn(s)' = {}
      /\ \A l \in Lock : lock_[l] = 1 => SleepingOn(l)' = {}
  BY <1>1, Zenon DEF SynchInv, NoLostWakeup, Calm
<1>4. SynchInv'
  BY <1>1, <1>2, <1>3, ObjectsKept DEF Calm
<1>5. UNCHANGED Abs!avars
  BY <1>1, Zenon DEF Calm, synchvars, Abs!avars
<1> QED
  BY <1>4, <1>5

\* P keeps the inductive invariant, whether it sleeps or takes a unit.
LEMMA PStep ==
  ASSUME SynchInv, NEW t \in Thread, NEW s \in Sem, P(t, s)
  PROVE  SynchInv' /\ [Abs!ANext]_(Abs!avars)
<1>1. /\ AtLoop(t, s) /\ s \in Sem \cup Lock
      /\ UNCHANGED <<numthreads, secs, lbolt_counter, lock_, owner, holds>>
  BY Zenon DEF P
<1>2. waiting[t] = IF pc[t] = "sleep" THEN s ELSE NULL
  BY <1>1, AtLoopFacts
<1>3. CASE count[s] = 0
  <2>1. SleepOn(t, s, "sleep") /\ UNCHANGED count
    BY <1>3 DEF P
  <2>2. /\ ThreadsInv' /\ PcTells'
        /\ \A x \in (Sem \cup Lock) \ {s} : SleepingOn(x)' \subseteq SleepingOn(x)
        /\ allocated' \ zombies' = allocated \ zombies
        /\ waiting' = [waiting EXCEPT ![t] = s]
    BY <1>1, <2>1, LoopSleeps, Zenon
  <2>3. /\ \A x \in Sem : count[x] > 0 => SleepingOn(x)' = {}
        /\ \A l \in Lock : lock_[l] = 1 => SleepingOn(l)' = {}
    BY <1>3, <2>2, SynchAssumption DEF SynchInv, NoLostWakeup, SynchAssumption
  <2>4. SynchInv'
    BY <1>1, <2>1, <2>2, <2>3, ObjectsKept, Zenon DEF synchvars, SynchInv, OwnerLives
  <2>5. CASE pc[t] = "sleep"
    BY <1>1, <1>2, <2>1, <2>2, <2>4, <2>5, Zenon DEF Abs!avars, waiting
  <2>6. CASE pc[t] # "sleep"
    <3>1. Abs!Wait(t, s)
      BY <1>1, <1>2, <1>3, <2>1, <2>2, <2>6 DEF Abs!Wait, Abs!Available
    <3> QED
      BY <3>1, <2>4 DEF Abs!ANext
  <2> QED
    BY <2>5, <2>6
<1>4. CASE count[s] # 0
  <2>1. count[s] > 0 /\ count' = [count EXCEPT ![s] = @ - 1] /\ GoesOn(t)
    BY <1>4, Zenon DEF P
  <2>2. /\ ThreadsInv' /\ PcTells'
        /\ \A x \in Sem \cup Lock : SleepingOn(x)' \subseteq SleepingOn(x)
        /\ allocated' \ zombies' = allocated \ zombies
        /\ waiting' = [waiting EXCEPT ![t] = NULL]
    BY <1>1, <2>1, LoopGoesOn
  <2>3. SynchTypeOK'
    BY <1>1, <2>1, <2>2, SynchAssumption
       DEF SynchInv, SynchTypeOK, ThreadsInv, SynchAssumption
  <2>4. NoLostWakeup'
    BY <1>1, <2>1, <2>2 DEF SynchInv, NoLostWakeup, SynchTypeOK
  <2>5. MutualExclusion' /\ OwnerLives'
    BY <1>1, <2>2 DEF SynchInv, MutualExclusion, OwnerLives, lock_do_i_hold
  <2>6. Abs!Take(t, s)
    BY <1>1, <1>2, <2>1, <2>2 DEF Abs!Take, Abs!Available
  <2> QED
    BY <1>1, <2>2, <2>3, <2>4, <2>5, <2>6 DEF SynchInv, Abs!ANext
<1> QED
  BY <1>3, <1>4

\* V keeps the inductive invariant: it wakes all that sleep on the semaphore.
LEMMA VStep ==
  ASSUME SynchInv, NEW s \in Sem, V(s)
  PROVE  SynchInv' /\ [Abs!ANext]_(Abs!avars)
<1>1. /\ count[s] < MaxCount /\ count' = [count EXCEPT ![s] = @ + 1]
      /\ WakeUpAll(s) /\ s \in Sem \cup Lock
      /\ UNCHANGED <<lock_, owner, holds>>
  BY Zenon DEF V
<1>2. /\ ThreadsInv' /\ PcTells'
      /\ SleepingOn(s)' = {}
      /\ \A x \in Sem \cup Lock : SleepingOn(x)' \subseteq SleepingOn(x)
      /\ allocated' \ zombies' = allocated \ zombies
      /\ waiting' = waiting
  BY <1>1, WakeUpAllFacts
<1>3. SynchTypeOK'
  BY <1>1, <1>2, SynchAssumption
     DEF SynchInv, SynchTypeOK, ThreadsInv, SynchAssumption
<1>4. NoLostWakeup'
  BY <1>1, <1>2 DEF SynchInv, NoLostWakeup, SynchTypeOK
<1>5. MutualExclusion' /\ OwnerLives'
  BY <1>1, <1>2 DEF SynchInv, MutualExclusion, OwnerLives, lock_do_i_hold
<1>6. Abs!Increment(s)
  BY <1>1, <1>2 DEF Abs!Increment
<1> QED
  BY <1>2, <1>3, <1>4, <1>5, <1>6 DEF SynchInv, Abs!ANext

\* lock_acquire keeps the inductive invariant, whether it sleeps or takes the lock.
LEMMA AcquireStep ==
  ASSUME SynchInv, NEW t \in Thread, NEW l \in Lock, l \notin holds[t],
         lock_acquire(t, l)
  PROVE  SynchInv' /\ [Abs!ANext]_(Abs!avars)
<1>1. /\ AtLoop(t, l) /\ l \in Sem \cup Lock /\ l \notin Sem
      /\ UNCHANGED <<numthreads, secs, lbolt_counter, count>>
  BY SynchAssumption, Zenon DEF lock_acquire, SynchAssumption
<1>2. /\ waiting[t] = IF pc[t] = "sleep" THEN l ELSE NULL
      /\ t \in allocated \ zombies
  BY <1>1, AtLoopFacts
<1>3. CASE lock_[l] = 0
  <2>1. SleepOn(t, l, "sleep") /\ UNCHANGED <<lock_, owner, holds>> /\ owner[l] # NULL
    BY <1>3 DEF lock_acquire, SynchInv, MutualExclusion
  <2>2. /\ ThreadsInv' /\ PcTells'
        /\ \A x \in (Sem \cup Lock) \ {l} : SleepingOn(x)' \subseteq SleepingOn(x)
        /\ allocated' \ zombies' = allocated \ zombies
        /\ waiting' = [waiting EXCEPT ![t] = l]
    BY <1>1, <2>1, LoopSleeps, Zenon
  <2>3. /\ \A x \in Sem : count[x] > 0 => SleepingOn(x)' = {}
        /\ \A x \in Lock : lock_[x] = 1 => SleepingOn(x)' = {}
    BY <1>1, <1>3, <2>2 DEF SynchInv, NoLostWakeup
  <2>4. SynchInv'
    BY <1>1, <2>1, <2>2, <2>3, ObjectsKept DEF synchvars, SynchInv, OwnerLives
  <2>5. CASE pc[t] = "sleep"
    BY <1>1, <1>2, <2>1, <2>2, <2>4, <2>5, Zenon DEF Abs!avars, waiting
  <2>6. CASE pc[t] # "sleep"
    <3>1. Abs!Wait(t, l)
      BY <1>1, <1>2, <2>1, <2>2, <2>6 DEF Abs!Wait, Abs!Available
    <3> QED
      BY <1>1, <3>1, <2>4, Zenon DEF Abs!ANext
  <2> QED
    BY <2>5, <2>6
<1>4. CASE lock_[l] # 0
  <2>1. /\ lock_' = [lock_ EXCEPT ![l] = 0]
        /\ owner' = [owner EXCEPT ![l] = t]
        /\ holds' = [holds EXCEPT ![t] = @ \cup {l}]
        /\ GoesOn(t)
    BY <1>4, Zenon DEF lock_acquire
  <2>2. /\ ThreadsInv' /\ PcTells'
        /\ \A x \in Sem \cup Lock : SleepingOn(x)' \subseteq SleepingOn(x)
        /\ allocated' \ zombies' = allocated \ zombies
        /\ waiting' = [waiting EXCEPT ![t] = NULL]
    BY <1>1, <2>1, LoopGoesOn
  <2>3. owner[l] = NULL
    BY <1>4 DEF SynchInv, MutualExclusion, SynchTypeOK
  <2>4. SynchTypeOK'
    BY <1>1, <2>1, <2>2 DEF SynchInv, SynchTypeOK, ThreadsInv
  <2>5. NoLostWakeup'
    BY <1>1, <2>1, <2>2 DEF SynchInv, NoLostWakeup, SynchTypeOK
  <2>6. MutualExclusion'
    BY <2>1, <2>3, ThreadAssumption
       DEF SynchInv, MutualExclusion, SynchTypeOK, lock_do_i_hold, ThreadAssumption
  <2>7. OwnerLives'
    BY <1>2, <2>1, <2>2 DEF SynchInv, OwnerLives, SynchTypeOK
  <2>8. Abs!Take(t, l)
    BY <1>1, <1>2, <2>1, <2>2, <2>3 DEF Abs!Take, Abs!Available
  <2> QED
    BY <1>1, <2>2, <2>4, <2>5, <2>6, <2>7, <2>8, Zenon DEF SynchInv, Abs!ANext
<1> QED
  BY <1>3, <1>4

\* lock_release by the holder keeps the inductive invariant.
LEMMA ReleaseStep ==
  ASSUME SynchInv, NEW t \in Thread, NEW l \in Lock, l \in holds[t],
         lock_release(t, l)
  PROVE  SynchInv' /\ [Abs!ANext]_(Abs!avars)
<1>1. /\ pc[t] = "run" /\ l \in Sem \cup Lock
      /\ lock_' = [lock_ EXCEPT ![l] = 1]
      /\ owner' = [owner EXCEPT ![l] = NULL]
      /\ holds' = [holds EXCEPT ![t] = @ \ {l}]
      /\ WakeUpAll(l) /\ UNCHANGED count
  BY Zenon DEF lock_release, Running
<1>2. /\ ThreadsInv' /\ PcTells'
      /\ SleepingOn(l)' = {}
      /\ \A x \in Sem \cup Lock : SleepingOn(x)' \subseteq SleepingOn(x)
      /\ allocated' \ zombies' = allocated \ zombies
      /\ waiting' = waiting
  BY <1>1, WakeUpAllFacts
<1>3. owner[l] = t
  BY Zenon DEF SynchInv, MutualExclusion, lock_do_i_hold
<1>4. SynchTypeOK'
  BY <1>1, <1>2 DEF SynchInv, SynchTypeOK, ThreadsInv
<1>5. NoLostWakeup'
  BY <1>1, <1>2 DEF SynchInv, NoLostWakeup, SynchTypeOK
<1>6. MutualExclusion'
  BY <1>1, <1>3, ThreadAssumption
     DEF SynchInv, MutualExclusion, SynchTypeOK, lock_do_i_hold, ThreadAssumption
<1>7. OwnerLives'
  BY <1>1, <1>2, Zenon DEF SynchInv, OwnerLives, SynchTypeOK
<1>8. Abs!Release(t, l)
  BY <1>1, <1>2, <1>3 DEF Abs!Release, waiting
<1> QED
  BY <1>2, <1>4, <1>5, <1>6, <1>7, <1>8, Zenon DEF SynchInv, Abs!ANext
----------------------------------------------------------------------------
(* The theorems.                                                           *)

\* sem_create and lock_create establish the inductive invariant.
LEMMA SynchInitInv ==
  ASSUME SynchInit
  PROVE  SynchInv /\ Abs!AInit
<1>1. ThreadsInv
  BY ThreadAssumption, InitInv DEF SynchInit
<1>2. Range(sleepers) = {}
  BY DEF SynchInit, Init, Range
<1>3. SynchTypeOK
  BY <1>1, SynchAssumption DEF SynchInit, SynchTypeOK, ThreadsInv, SynchAssumption
<1>4. NoLostWakeup
  BY <1>2, Zenon DEF NoLostWakeup, SleepingOn
<1>5. MutualExclusion /\ OwnerLives
  BY ThreadAssumption
     DEF SynchInit, MutualExclusion, OwnerLives, lock_do_i_hold, ThreadAssumption
<1>6. PcTells /\ waiting = [t \in Thread |-> NULL]
  BY Zenon DEF SynchInit, Init, PcTells, waiting
<1> QED
  BY <1>1, <1>3, <1>4, <1>5, <1>6 DEF SynchInv, SynchInit, Abs!AInit

\* Every step keeps the inductive invariant of the semaphores and locks.
LEMMA SynchStep ==
  ASSUME SynchInv, [SynchNext]_vars
  PROVE  SynchInv' /\ [Abs!ANext]_(Abs!avars)
<1>1. CASE Scheduling
  BY <1>1, SchedulingStep
<1>2. CASE Using
  BY <1>2, PStep, VStep, AcquireStep DEF Using
<1>3. ASSUME NEW t \in Thread, NEW l \in Lock, l \in holds[t], lock_release(t, l)
      PROVE  SynchInv' /\ [Abs!ANext]_(Abs!avars)
  BY <1>3, ReleaseStep
<1>4. CASE UNCHANGED vars
  <2>1. ThreadsInv'
    BY <1>4 DEF vars, threadvars, tables, SynchInv, ThreadsInv, TypeOK, OnePlace,
                Placed, Current, StackInUse, SleepersFindable, CountsThreads
  <2>2. PcTells' /\ waiting' = waiting
    BY <1>4, Zenon DEF vars, threadvars, tables, SynchInv, PcTells, waiting
  <2>3. \A x : SleepingOn(x)' = SleepingOn(x)
    BY <1>4 DEF vars, threadvars, SleepingOn
  <2>4. SynchInv'
    BY <1>4, <2>1, <2>2, <2>3, ObjectsKept
       DEF vars, synchvars, threadvars, tables, SynchInv, OwnerLives, NoLostWakeup
  <2> QED
    BY <1>4, <2>2, <2>4 DEF vars, synchvars, Abs!avars
<1> QED
  BY <1>1, <1>2, <1>3, <1>4 DEF SynchNext

\* P, V, lock_acquire, lock_release and the thread system around them keep
\* the inductive invariant.
THEOREM SynchInvariant == SynchSpec => []SynchInv
<1>1. SynchInit => SynchInv
  BY SynchInitInv, Zenon
<1>2. SynchInv /\ [SynchNext]_vars => SynchInv'
  BY SynchStep, Zenon
<1> QED
  BY <1>1, <1>2, PTL DEF SynchSpec

\* The counts, lock words and owners keep their types; a count never goes
\* below zero, which is the assertion of P.
THEOREM SynchTypeCorrect == SynchSpec => []SynchTypeOK
<1>1. SynchInv => SynchTypeOK
  BY Zenon DEF SynchInv
<1> QED
  BY <1>1, SynchInvariant, PTL

\* No thread is asleep on a semaphore that counts or a lock that is free.
THEOREM WakeupsNotLost == SynchSpec => []NoLostWakeup
<1>1. SynchInv => NoLostWakeup
  BY Zenon DEF SynchInv
<1> QED
  BY <1>1, SynchInvariant, PTL

\* One thread at a time holds a lock, and lock_do_i_hold knows which.
THEOREM LocksExclude == SynchSpec => []MutualExclusion
<1>1. SynchInv => MutualExclusion
  BY Zenon DEF SynchInv
<1> QED
  BY <1>1, SynchInvariant, PTL

\* The owner of a lock has not exited.
THEOREM OwnersLive == SynchSpec => []OwnerLives
<1>1. SynchInv => OwnerLives
  BY Zenon DEF SynchInv
<1> QED
  BY <1>1, SynchInvariant, PTL

\* The semaphores and locks of synch.c, with their sleeping, waking and
\* preemption, implement the atomic operations synch.h describes.
THEOREM SynchRefinesAtomic == SynchSpec => ImplementsAtomic
<1>1. SynchInit => Abs!AInit
  BY SynchInitInv, Zenon
<1>2. SynchInv /\ [SynchNext]_vars => [Abs!ANext]_(Abs!avars)
  BY SynchStep, Zenon
<1> QED
  BY <1>1, <1>2, SynchInvariant, PTL DEF SynchSpec, ImplementsAtomic, Abs!ASpec
============================================================================
