------------------------------ MODULE Threads ------------------------------
(***************************************************************************)
(* The kernel thread system: kern/thread/thread.c, scheduler.c and         *)
(* hardclock.c, on the one processor of the machine.                       *)
(*                                                                         *)
(* Code between splhigh and splx cannot be interrupted, so it is one       *)
(* action, up to the point where mi_switch gives the processor away.  What *)
(* can be interrupted is a thread at interrupt level 0 (pc "run") and the  *)
(* idle loop, in which curthread is NULL.  A thread that wakes up inside   *)
(* thread_sleep still runs with interrupts off, until its caller has gone  *)
(* through its critical section.                                           *)
(***************************************************************************)
EXTENDS Naturals, Sequences, FiniteSets, Functions

CONSTANTS Thread,    \* thread structures
          Boot,      \* the first thread, <boot/menu>
          Addr,      \* sleep addresses
          Lbolt,     \* the address of lbolt, woken once a second
          NULL,
          HZ,        \* clock ticks per second
          MaxSecs    \* bound on the argument of clocksleep

ASSUME ThreadAssumption ==
  /\ IsFiniteSet(Thread)
  /\ Boot \in Thread
  /\ NULL \notin Thread
  /\ NULL \notin Addr
  /\ Lbolt \in Addr
  /\ HZ \in Nat \ {0}
  /\ MaxSecs \in Nat \ {0}

VARIABLES
  curthread,      \* the running thread, NULL while the scheduler idles
  runqueue,       \* runnable threads, the next one to run first
  sleepers,       \* the array of sleeping threads
  zombies,        \* threads that have exited and are not yet destroyed
  allocated,      \* thread structures (with their stacks) not yet freed
  numthreads,     \* the counter thread_fork preallocates by
  stack,          \* the thread on whose kernel stack the processor runs
  t_sleepaddr,    \* where each thread sleeps
  pc,             \* what each thread is in the middle of
  secs,           \* num_secs left in clocksleep
  lbolt_counter

tables == <<curthread, runqueue, zombies, allocated, stack, pc>>
threadvars == <<tables, sleepers, numthreads, t_sleepaddr, secs, lbolt_counter>>

\* "none": no thread structure; "start": forked, never run; "run": outside
\* the thread system, interrupts on; "sleep" and "clocksleep": inside a
\* critical section that called thread_sleep; "exit": past thread_exit.
Where == {"none", "start", "run", "sleep", "clocksleep", "exit"}

Init ==
  /\ curthread = Boot
  /\ runqueue = <<>>
  /\ sleepers = <<>>
  /\ zombies = {}
  /\ allocated = {Boot}
  /\ numthreads = 1
  /\ stack = Boot
  /\ t_sleepaddr = [t \in Thread |-> NULL]
  /\ pc = [t \in Thread |-> IF t = Boot THEN "run" ELSE "none"]
  /\ secs = [t \in Thread |-> 0]
  /\ lbolt_counter = 0

Running(t) == curthread = t /\ pc[t] = "run"

\* curspl is 0, or the idle loop has opened the window of cpu_idle.
InterruptsOn == \A t \in Thread : curthread = t => pc[t] = "run"
----------------------------------------------------------------------------
\* Destroys every zombie; called on the stack of the thread switched to.
exorcise(dead) ==
  /\ zombies' = {}
  /\ allocated' = allocated \ dead

\* The rest of mi_switch once the old thread is on its list: scheduler()
\* takes the head of the run queue, md_switch moves to its stack, and a
\* thread that has run before exorcises the zombies.  A new one goes to
\* mi_threadstart instead.  With nothing runnable the scheduler idles, on
\* the stack of the old thread.
SwitchTo(next, rest, dead, pcs) ==
  /\ curthread' = next
  /\ runqueue' = rest
  /\ stack' = next
  /\ \/ /\ pcs[next] # "start"
        /\ exorcise(dead)
        /\ pc' = [t \in Thread |-> IF t \in dead THEN "none" ELSE pcs[t]]
     \/ /\ pcs[next] = "start"
        /\ zombies' = dead
        /\ UNCHANGED allocated
        /\ pc' = [pcs EXCEPT ![next] = "run"]

\* Mutant: the queue is served from the wrong end.
mi_switch_LastFirst(ready, dead, pcs) ==
  \/ /\ ready # <<>>
     /\ SwitchTo(ready[Len(ready)], SubSeq(ready, 1, Len(ready) - 1), dead, pcs)
  \/ /\ ready = <<>>
     /\ curthread' = NULL
     /\ runqueue' = ready
     /\ zombies' = dead
     /\ pc' = pcs
     /\ UNCHANGED <<stack, allocated>>

\* Mutant: the zombies are destroyed before the switch has left their stacks.
mi_switch_ExorciseEarly(ready, dead, pcs) ==
  \/ /\ ready # <<>>
     /\ SwitchTo(Head(ready), Tail(ready), dead, pcs)
  \/ /\ ready = <<>>
     /\ curthread' = NULL
     /\ runqueue' = ready
     /\ exorcise(dead)
     /\ pc' = pcs
     /\ UNCHANGED stack

mi_switch(ready, dead, pcs) ==
  \/ /\ ready # <<>>
     /\ SwitchTo(Head(ready), Tail(ready), dead, pcs)
  \/ /\ ready = <<>>
     /\ curthread' = NULL
     /\ runqueue' = ready
     /\ zombies' = dead
     /\ pc' = pcs
     /\ UNCHANGED <<stack, allocated>>

\* scheduler() leaves its idle loop when an interrupt has made a thread
\* runnable.
LeaveIdle ==
  /\ curthread = NULL
  /\ runqueue # <<>>
  /\ SwitchTo(Head(runqueue), Tail(runqueue), zombies, pc)
  /\ UNCHANGED <<sleepers, numthreads, t_sleepaddr, secs, lbolt_counter>>

\* thread_sleep up to the context switch: the caller has interrupts off.
SleepOn(t, a, w) ==
  /\ t_sleepaddr' = [t_sleepaddr EXCEPT ![t] = a]
  /\ sleepers' = Append(sleepers, t)
  /\ mi_switch(runqueue, zombies, [pc EXCEPT ![t] = w])

\* The members S of list, in the order they have in it.
InOrder(list, S) ==
  LET Pos(x) == CHOOSE i \in DOMAIN list : list[i] = x
  IN  {r \in [1..Cardinality(S) -> S] :
         /\ Range(r) = S
         /\ \A i, j \in DOMAIN r : i < j => Pos(r[i]) < Pos(r[j])}

SleepingOn(a) == {t \in Range(sleepers) : t_sleepaddr[t] = a}

Wakeups_NoRemove(a) ==    \* mutant: the array_remove is forgotten
  [woken : InOrder(sleepers, SleepingOn(a)), left : {sleepers}]

\* thread_wakeup scans sleepers from the front and moves every thread that
\* sleeps on the address to the end of the run queue.
Wakeups(a) ==
  [woken : InOrder(sleepers, SleepingOn(a)),
   left  : InOrder(sleepers, Range(sleepers) \ SleepingOn(a))]

thread_wakeup(a) ==
  \E w \in Wakeups(a) :
    /\ sleepers' = w.left
    /\ runqueue' = runqueue \o w.woken
----------------------------------------------------------------------------
(* What a running thread calls.                                            *)

\* thread_fork when its allocations succeed; when one fails it undoes what
\* it did and returns an error, which is no step of this model.
thread_fork(t, new) ==
  /\ Running(t)
  /\ new \in Thread \ allocated
  /\ allocated' = allocated \cup {new}
  /\ pc' = [pc EXCEPT ![new] = "start"]
  /\ t_sleepaddr' = [t_sleepaddr EXCEPT ![new] = NULL]
  /\ runqueue' = Append(runqueue, new)
  /\ numthreads' = numthreads + 1
  /\ UNCHANGED <<curthread, sleepers, zombies, stack, secs, lbolt_counter>>

\* The boot thread runs the menu loop for ever; every other one ends here.
thread_exit(t) ==
  /\ Running(t)
  /\ t # Boot
  /\ numthreads' = numthreads - 1
  /\ mi_switch(runqueue, zombies \cup {t}, [pc EXCEPT ![t] = "exit"])
  /\ UNCHANGED <<sleepers, t_sleepaddr, secs, lbolt_counter>>

thread_yield(t) ==
  /\ Running(t)
  /\ mi_switch(Append(runqueue, t), zombies, pc)
  /\ UNCHANGED <<sleepers, numthreads, t_sleepaddr, secs, lbolt_counter>>

clocksleep(t, n) ==
  /\ Running(t)
  /\ secs' = [secs EXCEPT ![t] = n]
  /\ SleepOn(t, Lbolt, "clocksleep")
  /\ UNCHANGED <<numthreads, lbolt_counter>>

\* thread_sleep returns inside the loop of clocksleep.
clocksleep_loop(t) ==
  /\ curthread = t
  /\ pc[t] = "clocksleep"
  /\ secs' = [secs EXCEPT ![t] = @ - 1]
  /\ \/ /\ secs[t] > 1
        /\ SleepOn(t, Lbolt, "clocksleep")
     \/ /\ secs[t] = 1
        /\ pc' = [pc EXCEPT ![t] = "run"]
        /\ t_sleepaddr' = [t_sleepaddr EXCEPT ![t] = NULL]
        /\ UNCHANGED <<curthread, runqueue, sleepers, zombies, allocated, stack>>
  /\ UNCHANGED <<numthreads, lbolt_counter>>
----------------------------------------------------------------------------
(* The timer interrupt.                                                    *)

YieldTo_NoPreemption(ready) ==    \* mutant: the thread_yield is left out
  /\ runqueue' = ready
  /\ UNCHANGED <<curthread, zombies, allocated, stack, pc>>

\* The thread_yield at the end of hardclock: in the idle loop curthread is
\* NULL and mi_switch returns at once.
YieldTo(ready) ==
  \/ /\ curthread # NULL
     /\ mi_switch(Append(ready, curthread), zombies, pc)
  \/ /\ curthread = NULL
     /\ runqueue' = ready
     /\ UNCHANGED <<curthread, zombies, allocated, stack, pc>>

hardclock_NoReset ==    \* mutant: lbolt_counter is not reset
  /\ InterruptsOn
  /\ lbolt_counter' = lbolt_counter + 1
  /\ UNCHANGED sleepers
  /\ YieldTo(runqueue)
  /\ UNCHANGED <<numthreads, t_sleepaddr, secs>>

hardclock_NoWakeup ==    \* mutant: nobody is woken when the second is over
  /\ InterruptsOn
  /\ lbolt_counter' = (lbolt_counter + 1) % HZ
  /\ UNCHANGED sleepers
  /\ YieldTo(runqueue)
  /\ UNCHANGED <<numthreads, t_sleepaddr, secs>>

hardclock ==
  /\ InterruptsOn
  /\ \/ /\ lbolt_counter + 1 < HZ
        /\ lbolt_counter' = lbolt_counter + 1
        /\ UNCHANGED sleepers
        /\ YieldTo(runqueue)
     \/ /\ lbolt_counter + 1 >= HZ
        /\ lbolt_counter' = 0
        /\ \E w \in Wakeups(Lbolt) :
             /\ sleepers' = w.left
             /\ YieldTo(runqueue \o w.woken)
  /\ UNCHANGED <<numthreads, t_sleepaddr, secs>>
----------------------------------------------------------------------------
(* A caller of thread_sleep and thread_wakeup that uses them as they are   *)
(* documented: interrupts off around both (kern/test/tt3.c is one).        *)

Sleep(t, a) ==
  /\ Running(t)
  /\ SleepOn(t, a, "sleep")
  /\ UNCHANGED <<numthreads, secs, lbolt_counter>>

SleepReturns(t) ==
  /\ curthread = t
  /\ pc[t] = "sleep"
  /\ pc' = [pc EXCEPT ![t] = "run"]
  /\ t_sleepaddr' = [t_sleepaddr EXCEPT ![t] = NULL]
  /\ UNCHANGED <<curthread, runqueue, sleepers, zombies, allocated, numthreads,
                 stack, secs, lbolt_counter>>

\* From a thread, or from an interrupt handler: also in the idle loop.
Wakeup(a) ==
  /\ InterruptsOn
  /\ thread_wakeup(a)
  /\ UNCHANGED <<curthread, zombies, allocated, numthreads, stack, t_sleepaddr,
                 pc, secs, lbolt_counter>>

ThreadStep(t) ==
  \/ \E new \in Thread : thread_fork(t, new)
  \/ thread_exit(t)
  \/ thread_yield(t)
  \/ \E n \in 1..MaxSecs : clocksleep(t, n)
  \/ clocksleep_loop(t)

Next ==
  \/ \E t \in Thread : ThreadStep(t)
  \/ \E t \in Thread, a \in Addr : Sleep(t, a)
  \/ \E t \in Thread : SleepReturns(t)
  \/ \E a \in Addr : Wakeup(a)
  \/ LeaveIdle
  \/ hardclock

Spec == Init /\ [][Next]_threadvars

\* The timer keeps interrupting, and its line stays up until the interrupt
\* is taken: it cannot be missed for ever by interrupts being off when it
\* comes.  The idle loop leaves when it can, and code that runs with
\* interrupts off goes on.
Fairness ==
  /\ SF_threadvars(hardclock)
  /\ WF_threadvars(LeaveIdle)
  /\ \A t \in Thread : WF_threadvars(SleepReturns(t) \/ clocksleep_loop(t))

FairSpec == Spec /\ Fairness
----------------------------------------------------------------------------
(* Type invariant.                                                         *)
TypeOK ==
  /\ curthread \in Thread \cup {NULL}
  /\ runqueue \in Seq(Thread)
  /\ sleepers \in Seq(Thread)
  /\ zombies \subseteq Thread
  /\ allocated \subseteq Thread
  /\ numthreads \in Nat
  /\ stack \in Thread
  /\ t_sleepaddr \in [Thread -> Addr \cup {NULL}]
  /\ pc \in [Thread -> Where]
  /\ secs \in [Thread -> 0..MaxSecs]
  /\ lbolt_counter \in 0..(HZ - 1)

Current == {curthread} \ {NULL}

\* The threads in all are shared out: each is the one in cur, or once on the
\* run queue rq, or once among the sleepers sl, or a zombie in zo.
Placed(cur, rq, sl, zo, all) ==
  /\ IsInjective(rq)
  /\ IsInjective(sl)
  /\ Range(rq) \cap Range(sl) = {}
  /\ zo \cap (Range(rq) \cup Range(sl)) = {}
  /\ cur \cap (Range(rq) \cup Range(sl) \cup zo) = {}
  /\ all = Range(rq) \cup Range(sl) \cup zo \cup cur

\* Every thread that exists is in exactly one place: mi_switch, thread_wakeup
\* and thread_fork move threads between the lists; one on two of them would
\* run twice, one on none would never run again.
OnePlace == Placed(Current, runqueue, sleepers, zombies, allocated)

\* The processor never runs on the stack of a destroyed thread, not even
\* while the scheduler idles on the stack of a thread that has exited
\* (thread_destroy: "Freeing the stack you're actually using to run would
\* be... inadvisable").
StackInUse ==
  /\ stack \in allocated
  /\ curthread # NULL => stack = curthread

\* Every sleeper waits at an address some thread_wakeup can name, inside a
\* call that expects to be woken: what thread_wakeup compares t_sleepaddr with.
SleepersFindable ==
  \A t \in Range(sleepers) :
    /\ t_sleepaddr[t] \in Addr
    /\ pc[t] \in {"sleep", "clocksleep"}
    /\ pc[t] = "clocksleep" => t_sleepaddr[t] = Lbolt /\ secs[t] > 0

\* numthreads, by which thread_fork sizes the lists, counts the threads that
\* have not exited, so the run queue and the sleepers fit.
CountsThreads == numthreads = Cardinality(allocated \ zombies)

\* The inductive invariant of the thread system.
ThreadsInv ==
  TypeOK /\ OnePlace /\ StackInUse /\ SleepersFindable /\ CountsThreads

Ahead(q, t, u) == \E i, j \in DOMAIN q : i < j /\ q[i] = t /\ q[j] = u

\* Nobody overtakes on the run queue: of two queued threads the first is
\* still ahead after any step, unless it has just been given the processor.
NoOvertaking ==
  [][\A t, u \in Thread :
       Ahead(runqueue, t, u) => Ahead(runqueue', t, u) \/ curthread' = t]_threadvars

\* A runnable thread runs after a while: hardclock preempts whoever holds
\* the processor, and the queue is served in order.
RunnableRuns ==
  \A t \in Thread : t \in Range(runqueue) ~> curthread = t

\* clocksleep returns: hardclock wakes the sleepers on lbolt every HZ ticks.
ClocksleepReturns ==
  \A t \in Thread : pc[t] = "clocksleep" ~> pc[t] = "run"
============================================================================
