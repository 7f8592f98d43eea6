--------------------------- MODULE ThreadsProofs ---------------------------
(***************************************************************************)
(* Proofs about the thread system: for every set of threads and every      *)
(* sleep address, each thread is in exactly one place and the processor    *)
(* never runs on a freed stack.                                            *)
(***************************************************************************)
EXTENDS Threads, InductionFacts

----------------------------------------------------------------------------
(* Facts about the lists.                                                  *)

\* What q_addtail and array_add do to the members of a list.
LEMMA AppendFacts ==
  ASSUME NEW S, NEW q \in Seq(S), NEW x \in S
  PROVE  /\ Append(q, x) \in Seq(S)
         /\ Range(Append(q, x)) = Range(q) \cup {x}
         /\ IsInjective(q) /\ x \notin Range(q) => IsInjective(Append(q, x))
<1>1. /\ Append(q, x) \in Seq(S)
      /\ Len(Append(q, x)) = Len(q) + 1
      /\ \A i \in 1..Len(q) : Append(q, x)[i] = q[i]
      /\ Append(q, x)[Len(q) + 1] = x
  OBVIOUS
<1>2. DOMAIN q = 1..Len(q) /\ DOMAIN Append(q, x) = 1..(Len(q) + 1) /\ Len(q) \in Nat
  BY <1>1
<1>3. Range(Append(q, x)) = Range(q) \cup {x}
  BY <1>1, <1>2 DEF Range
<1>4. IsInjective(q) /\ x \notin Range(q) => IsInjective(Append(q, x))
  BY <1>1, <1>2 DEF Range, IsInjective
<1> QED
  BY <1>1, <1>3, <1>4, Zenon

\* What q_remhead leaves of a list without repetitions.
LEMMA HeadTailFacts ==
  ASSUME NEW S, NEW q \in Seq(S), q # <<>>, IsInjective(q)
  PROVE  /\ Head(q) \in S
         /\ Head(q) \in Range(q)
         /\ Tail(q) \in Seq(S)
         /\ Range(Tail(q)) = Range(q) \ {Head(q)}
         /\ IsInjective(Tail(q))
<1>1. /\ Head(q) \in S
      /\ Tail(q) \in Seq(S)
      /\ Len(Tail(q)) = Len(q) - 1
      /\ \A i \in 1..Len(Tail(q)) : Tail(q)[i] = q[i + 1]
  OBVIOUS
<1>2. /\ Len(q) \in Nat \ {0}
      /\ DOMAIN q = 1..Len(q)
      /\ DOMAIN Tail(q) = 1..(Len(q) - 1)
  BY <1>1
<1>3. Head(q) = q[1]
  BY <1>2
<1>4. IsInjective(Tail(q))
  BY <1>1, <1>2 DEF IsInjective
<1>5. Range(Tail(q)) = Range(q) \ {Head(q)}
  <2>1. ASSUME NEW x \in Range(q), x # q[1]
        PROVE  x \in Range(Tail(q))
    <3>1. PICK i \in 1..Len(q) : q[i] = x
      BY <1>2, Zenon DEF Range
    <3>2. i - 1 \in 1..(Len(q) - 1) /\ Tail(q)[i - 1] = x
      BY <3>1, <2>1, <1>1, <1>2
    <3> QED
      BY <3>2, <1>2, Zenon DEF Range
  <2>2. ASSUME NEW x \in Range(Tail(q))
        PROVE  x \in Range(q) /\ x # q[1]
    <3>1. PICK i \in 1..(Len(q) - 1) : Tail(q)[i] = x
      BY <1>2, Zenon DEF Range
    <3>2. i + 1 \in 1..Len(q) /\ q[i + 1] = x /\ i + 1 # 1
      BY <3>1, <1>1, <1>2
    <3> QED
      BY <3>2, <1>2 DEF Range, IsInjective
  <2> QED
    BY <2>1, <2>2, <1>3, Zenon
<1>6. Head(q) \in Range(q)
  BY <1>2, <1>3 DEF Range
<1> QED
  BY <1>1, <1>4, <1>5, <1>6, Zenon

\* Two lists without a common member, one after the other.
LEMMA ConcatFacts ==
  ASSUME NEW S, NEW q \in Seq(S), NEW r \in Seq(S)
  PROVE  /\ q \o r \in Seq(S)
         /\ Range(q \o r) = Range(q) \cup Range(r)
         /\ IsInjective(q) /\ IsInjective(r) /\ Range(q) \cap Range(r) = {}
              => IsInjective(q \o r)
<1>1. /\ q \o r \in Seq(S)
      /\ Len(q \o r) = Len(q) + Len(r)
      /\ \A i \in 1..(Len(q) + Len(r)) :
           (q \o r)[i] = IF i <= Len(q) THEN q[i] ELSE r[i - Len(q)]
  OBVIOUS
<1>2. /\ Len(q) \in Nat /\ Len(r) \in Nat
      /\ DOMAIN q = 1..Len(q) /\ DOMAIN r = 1..Len(r)
      /\ DOMAIN (q \o r) = 1..(Len(q) + Len(r))
  BY <1>1
<1>3. Range(q \o r) = Range(q) \cup Range(r)
  <2>1. ASSUME NEW x \in Range(q \o r) PROVE x \in Range(q) \cup Range(r)
    <3>1. PICK i \in 1..(Len(q) + Len(r)) : (q \o r)[i] = x
      BY <1>2, <2>1, Zenon DEF Range
    <3>2. i \in 1..Len(q) \/ i - Len(q) \in 1..Len(r)
      BY <1>2
    <3> QED BY <1>1, <1>2, <3>1, <3>2 DEF Range
  <2>2. ASSUME NEW i \in 1..Len(q) PROVE q[i] \in Range(q \o r)
    BY <1>1, <1>2 DEF Range
  <2>3. ASSUME NEW i \in 1..Len(r) PROVE r[i] \in Range(q \o r)
    <3>1. i + Len(q) \in 1..(Len(q) + Len(r)) /\ (q \o r)[i + Len(q)] = r[i]
      BY <1>1, <1>2
    <3> QED BY <1>2, <3>1, Zenon DEF Range
  <2>4. ASSUME NEW x \in Range(q) \cup Range(r) PROVE x \in Range(q \o r)
    BY <1>2, <2>2, <2>3, <2>4, Zenon DEF Range
  <2> QED BY <2>1, <2>4, Zenon
<1>4. ASSUME IsInjective(q), IsInjective(r), Range(q) \cap Range(r) = {}
      PROVE  IsInjective(q \o r)
  <2> SUFFICES ASSUME NEW i \in 1..(Len(q) + Len(r)), NEW j \in 1..(Len(q) + Len(r)),
                      (q \o r)[i] = (q \o r)[j]
               PROVE  i = j
    BY <1>2, Zenon DEF IsInjective
  <2>1. CASE i <= Len(q) /\ j <= Len(q)
    BY <2>1, <1>1, <1>2, <1>4 DEF IsInjective
  <2>2. CASE i > Len(q) /\ j > Len(q)
    <3>1. i - Len(q) \in 1..Len(r) /\ j - Len(q) \in 1..Len(r)
      BY <2>2, <1>2
    <3>2. (q \o r)[i] = r[i - Len(q)] /\ (q \o r)[j] = r[j - Len(q)]
      BY <1>1, <1>2, <2>2
    <3>3. i - Len(q) = j - Len(q)
      BY <1>2, <1>4, <3>1, <3>2, Zenon DEF IsInjective
    <3> QED
      BY <3>3, <1>2
  <2>3. CASE i <= Len(q) /\ j > Len(q)
    <3>1. i \in 1..Len(q) /\ j - Len(q) \in 1..Len(r) /\ q[i] = r[j - Len(q)]
      BY <2>3, <1>1, <1>2
    <3>2. q[i] \in Range(q) /\ r[j - Len(q)] \in Range(r)
      BY <3>1, <1>2, Zenon DEF Range
    <3> QED
      BY <3>1, <3>2, <1>4, Zenon
  <2>4. CASE i > Len(q) /\ j <= Len(q)
    <3>1. j \in 1..Len(q) /\ i - Len(q) \in 1..Len(r) /\ q[j] = r[i - Len(q)]
      BY <2>4, <1>1, <1>2
    <3>2. q[j] \in Range(q) /\ r[i - Len(q)] \in Range(r)
      BY <3>1, <1>2, Zenon DEF Range
    <3> QED
      BY <3>1, <3>2, <1>4, Zenon
  <2> QED
    BY <2>1, <2>2, <2>3, <2>4, <1>2
<1> QED
  BY <1>1, <1>3, <1>4, Zenon

\* The part of a list that thread_wakeup moves, or leaves.
LEMMA InOrderFacts ==
  ASSUME NEW T, NEW q \in Seq(T), NEW S \in SUBSET Range(q), IsFiniteSet(S),
         NEW r \in InOrder(q, S)
  PROVE  /\ r \in Seq(T)
         /\ Range(r) = S
         /\ IsInjective(r)
<1> DEFINE Pos(x) == CHOOSE i \in DOMAIN q : q[i] = x
<1>1. Cardinality(S) \in Nat
  BY CardinalityGrows, Zenon
<1>2. /\ r \in [1..Cardinality(S) -> S]
      /\ Range(r) = S
      /\ \A i, j \in DOMAIN r : i < j => Pos(r[i]) < Pos(r[j])
  BY Zenon DEF InOrder
<1>3. S \subseteq T
  BY DEF Range
<1>4. r \in Seq(T)
  <2>1. r \in [1..Cardinality(S) -> T]
    BY <1>2, <1>3, Zenon
  <2> QED
    BY <2>1, <1>1
<1>5. \A x \in S : Pos(x) \in Nat
  <2> SUFFICES ASSUME NEW x \in S PROVE Pos(x) \in Nat
    BY Zenon
  <2>1. \E i \in DOMAIN q : q[i] = x
    BY Zenon DEF Range
  <2>2. Pos(x) \in DOMAIN q
    BY <2>1, Zenon
  <2> QED
    BY <2>2
<1>6. IsInjective(r)
  <2> SUFFICES ASSUME NEW i \in DOMAIN r, NEW j \in DOMAIN r, r[i] = r[j], i # j
               PROVE  FALSE
    BY Zenon DEF IsInjective
  <2>1. i \in Nat /\ j \in Nat /\ r[i] \in S
    BY <1>1, <1>2
  <2>2. Pos(r[i]) \in Nat
    BY <2>1, <1>5, Zenon
  <2> HIDE DEF Pos
  <2>3. CASE i < j
    BY <2>3, <2>2, <1>2
  <2>4. CASE j < i
    BY <2>4, <2>2, <1>2
  <2> QED
    BY <2>1, <2>3, <2>4
<1> QED
  BY <1>2, <1>4, <1>6, Zenon
----------------------------------------------------------------------------
(* Moving a thread from one place to another.                              *)

\* The stack and bookkeeping facts mi_switch establishes, from the lists as
\* they are once the old thread has been stashed on one of them.
LEMMA SwitchFacts ==
  ASSUME ThreadAssumption, allocated \in SUBSET Thread,
         stack \in allocated,
         NEW ready \in Seq(Thread), NEW dead \in SUBSET Thread,
         NEW pcs \in [Thread -> Where],
         Placed({}, ready, sleepers', dead, allocated),
         mi_switch(ready, dead, pcs)
  PROVE  /\ curthread' \in Thread \cup {NULL}
         /\ runqueue' \in Seq(Thread)
         /\ zombies' \in SUBSET Thread
         /\ allocated' \in SUBSET Thread
         /\ pc' \in [Thread -> Where]
         /\ Placed(Current', runqueue', sleepers', zombies', allocated')
         /\ StackInUse'
         /\ allocated' \ zombies' = allocated \ dead
<1>1. CASE ready = <<>>
  BY <1>1, Zenon DEF mi_switch, Placed, Current, StackInUse, ThreadAssumption
<1>2. CASE ready # <<>>
  <2> DEFINE next == Head(ready)
  <2>1. IsInjective(ready)
    BY Zenon DEF Placed
  <2>2. /\ next \in Thread
        /\ next \in Range(ready)
        /\ Tail(ready) \in Seq(Thread)
        /\ Range(Tail(ready)) = Range(ready) \ {next}
        /\ IsInjective(Tail(ready))
    BY <1>2, <2>1, HeadTailFacts, Zenon
  <2>3. SwitchTo(next, Tail(ready), dead, pcs)
    BY <1>2, Zenon DEF mi_switch
  <2>4. Current' = {next} /\ next \notin dead /\ next \in allocated
    BY <2>2, <2>3, Zenon DEF SwitchTo, Current, ThreadAssumption, Placed
  <2> HIDE DEF next
  <2>5. CASE pcs[next] # "start"
    <3>1. zombies' = {} /\ allocated' = allocated \ dead
      BY <2>3, <2>5, Zenon DEF SwitchTo, exorcise
    <3>2. pc' = [t \in Thread |-> IF t \in dead THEN "none" ELSE pcs[t]]
      BY <2>3, <2>5, Zenon DEF SwitchTo, exorcise
    <3>3. pc' \in [Thread -> Where]
      BY <3>2, Zenon DEF Where
    <3>4. Placed(Current', runqueue', sleepers', zombies', allocated')
      BY <2>2, <2>3, <2>4, <3>1 DEF SwitchTo, Placed
    <3>5. StackInUse'
      BY <2>3, <2>4, <3>1, Zenon DEF SwitchTo, StackInUse
    <3> QED
      BY <2>2, <2>3, <3>1, <3>3, <3>4, <3>5, Zenon DEF SwitchTo
  <2>6. CASE pcs[next] = "start"
    <3>1. zombies' = dead /\ allocated' = allocated /\ pc' = [pcs EXCEPT ![next] = "run"]
      BY <2>3, <2>6, Zenon DEF SwitchTo
    <3>2. pc' \in [Thread -> Where]
      BY <3>1, <2>2, Zenon DEF Where
    <3>4. Placed(Current', runqueue', sleepers', zombies', allocated')
      BY <2>2, <2>3, <2>4, <3>1 DEF SwitchTo, Placed
    <3>5. StackInUse'
      BY <2>3, <2>4, <3>1, Zenon DEF SwitchTo, StackInUse
    <3> QED
      BY <2>2, <2>3, <3>1, <3>2, <3>4, <3>5, Zenon DEF SwitchTo
  <2> QED
    BY <2>5, <2>6, Zenon
<1> QED
  BY <1>1, <1>2, Zenon

\* A switch changes nothing in the threads that sleep.
LEMMA SwitchKeepsPc ==
  ASSUME NEW ready \in Seq(Thread), NEW dead, NEW pcs \in [Thread -> Where],
         Placed({}, ready, sleepers', dead, allocated),
         mi_switch(ready, dead, pcs),
         NEW t \in Thread, t \in Range(sleepers')
  PROVE  pc'[t] = pcs[t]
<1>1. CASE ready = <<>>
  BY <1>1, Zenon DEF mi_switch
<1>2. CASE ready # <<>>
  <2>1. SwitchTo(Head(ready), Tail(ready), dead, pcs)
    BY <1>2, Zenon DEF mi_switch
  <2>2. Head(ready) \in Range(ready)
    BY <1>2, HeadTailFacts, Zenon DEF Placed
  <2> QED
    BY <2>1, <2>2, Zenon DEF SwitchTo, Placed
<1> QED
  BY <1>1, <1>2, Zenon

\* A set of threads is finite, so numthreads can count it.
LEMMA FiniteThreads ==
  ASSUME ThreadAssumption, NEW S \in SUBSET Thread
  PROVE  IsFiniteSet(S) /\ Cardinality(S) \in Nat
<1>1. IsFiniteSet(S)
  BY FiniteParts, Zenon DEF ThreadAssumption
<1> QED
  BY <1>1, CardinalityGrows, Zenon

\* What a caller of mi_switch has to see to, with the lists as it leaves them,
\* for the invariant to hold after the switch.
LEMMA SwitchInv ==
  ASSUME ThreadAssumption, ThreadsInv,
         NEW ready \in Seq(Thread), NEW dead \in SUBSET Thread,
         NEW pcs \in [Thread -> Where],
         sleepers' \in Seq(Thread),
         Placed({}, ready, sleepers', dead, allocated),
         mi_switch(ready, dead, pcs),
         t_sleepaddr' \in [Thread -> Addr \cup {NULL}],
         secs' \in [Thread -> 0..MaxSecs],
         lbolt_counter' \in 0..(HZ - 1),
         numthreads' = Cardinality(allocated \ dead),
         \A t \in Range(sleepers') :
           /\ t_sleepaddr'[t] \in Addr
           /\ pcs[t] \in {"sleep", "clocksleep"}
           /\ pcs[t] = "clocksleep" => t_sleepaddr'[t] = Lbolt /\ secs'[t] > 0
  PROVE  ThreadsInv'
<1>1. stack \in allocated /\ allocated \in SUBSET Thread
  BY Zenon DEF ThreadsInv, TypeOK, StackInUse
<1>2. /\ curthread' \in Thread \cup {NULL}
      /\ runqueue' \in Seq(Thread)
      /\ zombies' \in SUBSET Thread
      /\ allocated' \in SUBSET Thread
      /\ pc' \in [Thread -> Where]
  BY <1>1, SwitchFacts, Zenon
<1>3. Placed(Current', runqueue', sleepers', zombies', allocated')
  BY <1>1, SwitchFacts, Zenon
<1>4. StackInUse'
  BY <1>1, SwitchFacts, Zenon
<1>5. allocated' \ zombies' = allocated \ dead
  BY <1>1, SwitchFacts, Zenon
<1>6. Range(sleepers') \subseteq Thread
  BY DEF Range
<1>7. \A t \in Range(sleepers') : pc'[t] = pcs[t]
  BY <1>6, SwitchKeepsPc, Zenon
<1>8. numthreads' \in Nat
  BY <1>1, FiniteThreads, Zenon
<1>9. TypeOK'
  BY <1>2, <1>4, <1>8, Zenon DEF TypeOK, StackInUse
<1>10. OnePlace' /\ CountsThreads'
  BY <1>3, <1>5, Zenon DEF OnePlace, CountsThreads
<1>11. SleepersFindable'
  BY <1>6, <1>7, Zenon DEF SleepersFindable
<1> QED
  BY <1>4, <1>9, <1>10, <1>11, Zenon DEF ThreadsInv
----------------------------------------------------------------------------
(* Every operation preserves the invariant.                                *)

\* thread_fork keeps the inductive invariant: the child is new and goes to the run queue.
LEMMA ForkInv ==
  ASSUME ThreadAssumption, ThreadsInv, NEW t \in Thread, NEW new \in Thread,
         thread_fork(t, new)
  PROVE  ThreadsInv'
<1> USE DEF thread_fork
<1>1. runqueue \in Seq(Thread) /\ new \notin Range(runqueue)
  BY Zenon DEF ThreadsInv, TypeOK, OnePlace, Placed
<1>2. /\ runqueue' \in Seq(Thread)
      /\ Range(runqueue') = Range(runqueue) \cup {new}
      /\ IsInjective(runqueue')
  BY <1>1, AppendFacts DEF ThreadsInv, OnePlace, Placed
<1>3. TypeOK'
  BY <1>2 DEF ThreadsInv, TypeOK, Where
<1>4. OnePlace'
  BY <1>2 DEF ThreadsInv, OnePlace, Placed, Current, Running, ThreadAssumption
<1>5. StackInUse'
  BY Zenon DEF ThreadsInv, StackInUse
<1>6. SleepersFindable'
  <2>1. new \notin Range(sleepers) /\ Range(sleepers) \subseteq Thread
    BY Zenon DEF ThreadsInv, OnePlace, Placed, TypeOK
  <2> QED
    BY <2>1, Zenon DEF ThreadsInv, SleepersFindable, TypeOK
<1>7. CountsThreads'
  <2>1. zombies' = zombies /\ new \notin zombies /\ new \notin allocated
    BY Zenon DEF ThreadsInv, OnePlace, Placed
  <2>2. allocated' \ zombies' = (allocated \ zombies) \cup {new}
    BY <2>1, Zenon
  <2>3. IsFiniteSet(allocated \ zombies)
    BY FiniteThreads, Zenon DEF ThreadsInv, TypeOK
  <2>4. Cardinality(allocated' \ zombies') = Cardinality(allocated \ zombies) + 1
    BY <2>1, <2>2, <2>3, CardinalityGrows, Zenon
  <2> QED
    BY <2>4, Zenon DEF ThreadsInv, CountsThreads
<1> QED
  BY <1>3, <1>4, <1>5, <1>6, <1>7, Zenon DEF ThreadsInv

\* thread_exit keeps the inductive invariant: the zombie is found by exorcise later.
LEMMA ExitInv ==
  ASSUME ThreadAssumption, ThreadsInv, NEW t \in Thread, thread_exit(t)
  PROVE  ThreadsInv'
<1> DEFINE dead == zombies \cup {t}
           pcs == [pc EXCEPT ![t] = "exit"]
<1>1. /\ curthread = t /\ mi_switch(runqueue, dead, pcs)
      /\ UNCHANGED <<sleepers, t_sleepaddr, secs, lbolt_counter>>
      /\ numthreads' = numthreads - 1
  BY Zenon DEF thread_exit, Running
<1>2. Placed({}, runqueue, sleepers, dead, allocated)
  BY <1>1, Zenon DEF ThreadsInv, OnePlace, Placed, Current, ThreadAssumption
<1>3. pcs \in [Thread -> Where] /\ dead \in SUBSET Thread
  BY Zenon DEF ThreadsInv, TypeOK, Where
<1>4. numthreads' = Cardinality(allocated \ dead)
  <2>1. allocated \ dead = (allocated \ zombies) \ {t} /\ t \in allocated \ zombies
    BY <1>1, Zenon DEF ThreadsInv, OnePlace, Placed, Current, ThreadAssumption
  <2>2. IsFiniteSet(allocated \ zombies)
    BY FiniteThreads, Zenon DEF ThreadsInv, TypeOK
  <2>3. /\ Cardinality((allocated \ zombies) \ {t}) \in Nat
        /\ Cardinality(allocated \ zombies) = Cardinality((allocated \ zombies) \ {t}) + 1
    BY <2>1, <2>2, CardinalityShrinks, Zenon
  <2> DEFINE n == Cardinality(allocated \ zombies)
             m == Cardinality((allocated \ zombies) \ {t})
  <2>4. m \in Nat /\ n = m + 1 /\ numthreads = n
    BY <2>3, Zenon DEF ThreadsInv, CountsThreads
  <2>5. m = Cardinality(allocated \ dead)
    BY <2>1, Zenon
  <2> HIDE DEF n, m, dead
  <2> QED
    BY <1>1, <2>4, <2>5
<1>5. \A u \in Range(sleepers) : pcs[u] = pc[u]
  BY <1>2, Zenon DEF Placed, ThreadsInv, TypeOK
<1> HIDE DEF dead, pcs
<1> QED
  BY <1>1, <1>2, <1>3, <1>4, <1>5, SwitchInv, Zenon
     DEF ThreadsInv, TypeOK, SleepersFindable

\* thread_yield keeps the inductive invariant.
LEMMA YieldInv ==
  ASSUME ThreadAssumption, ThreadsInv, NEW t \in Thread, thread_yield(t)
  PROVE  ThreadsInv'
<1> DEFINE ready == Append(runqueue, t)
<1>1. /\ curthread = t /\ mi_switch(ready, zombies, pc)
      /\ UNCHANGED <<sleepers, numthreads, t_sleepaddr, secs, lbolt_counter>>
  BY Zenon DEF thread_yield, Running
<1>2. /\ ready \in Seq(Thread)
      /\ Placed({}, ready, sleepers, zombies, allocated)
  BY <1>1, AppendFacts DEF ThreadsInv, TypeOK, OnePlace, Placed, Current, ThreadAssumption
<1> HIDE DEF ready
<1> QED
  BY <1>1, <1>2, SwitchInv, Zenon
     DEF ThreadsInv, TypeOK, SleepersFindable, CountsThreads

\* thread_sleep, called with interrupts off by the running thread.
LEMMA SleepOnInv ==
  ASSUME ThreadAssumption, ThreadsInv, NEW t \in Thread, NEW a \in Addr,
         NEW w \in {"sleep", "clocksleep"}, NEW n \in 0..MaxSecs,
         w = "clocksleep" => a = Lbolt /\ n > 0,
         curthread = t, SleepOn(t, a, w),
         secs' = [secs EXCEPT ![t] = n],
         UNCHANGED <<numthreads, lbolt_counter>>
  PROVE  ThreadsInv'
<1> DEFINE pcs == [pc EXCEPT ![t] = w]
<1>1. /\ t_sleepaddr' = [t_sleepaddr EXCEPT ![t] = a]
      /\ sleepers' = Append(sleepers, t)
      /\ mi_switch(runqueue, zombies, pcs)
  BY Zenon DEF SleepOn
<1>2. /\ sleepers' \in Seq(Thread)
      /\ Range(sleepers') = Range(sleepers) \cup {t}
      /\ Placed({}, runqueue, sleepers', zombies, allocated)
  BY <1>1, AppendFacts DEF ThreadsInv, TypeOK, OnePlace, Placed, Current, ThreadAssumption
<1>3. pcs \in [Thread -> Where]
  BY Zenon DEF ThreadsInv, TypeOK, Where
<1>4. t \notin Range(sleepers) /\ Range(sleepers) \subseteq Thread
  BY Zenon DEF ThreadsInv, OnePlace, Placed, TypeOK, Current, ThreadAssumption
<1>5. ASSUME NEW u \in Range(sleepers')
      PROVE  /\ t_sleepaddr'[u] \in Addr
             /\ pcs[u] \in {"sleep", "clocksleep"}
             /\ pcs[u] = "clocksleep" => t_sleepaddr'[u] = Lbolt /\ secs'[u] > 0
  BY <1>1, <1>2, <1>4 DEF ThreadsInv, SleepersFindable, TypeOK
<1>6. /\ t_sleepaddr' \in [Thread -> Addr \cup {NULL}]
      /\ secs' \in [Thread -> 0..MaxSecs]
  BY <1>1, Zenon DEF ThreadsInv, TypeOK
<1> HIDE DEF pcs
<1> QED
  BY <1>1, <1>2, <1>3, <1>5, <1>6, SwitchInv, Zenon
     DEF ThreadsInv, TypeOK, CountsThreads

\* Leaving the idle loop of scheduler keeps the inductive invariant.
LEMMA LeaveIdleInv ==
  ASSUME ThreadAssumption, ThreadsInv, LeaveIdle
  PROVE  ThreadsInv'
<1>1. /\ curthread = NULL /\ mi_switch(runqueue, zombies, pc)
      /\ UNCHANGED <<sleepers, numthreads, t_sleepaddr, secs, lbolt_counter>>
  BY Zenon DEF LeaveIdle, mi_switch
<1>2. Placed({}, runqueue, sleepers, zombies, allocated)
  BY <1>1, Zenon DEF ThreadsInv, OnePlace, Current
<1> QED
  BY <1>1, <1>2, SwitchInv, Zenon
     DEF ThreadsInv, TypeOK, SleepersFindable, CountsThreads

\* The two lists thread_wakeup makes, and that no thread is lost in the move.
LEMMA WakeupFacts ==
  ASSUME ThreadAssumption, ThreadsInv, NEW a \in Addr, NEW w \in Wakeups(a)
  PROVE  /\ w.left \in Seq(Thread)
         /\ Range(w.left) \subseteq Range(sleepers)
         /\ runqueue \o w.woken \in Seq(Thread)
         /\ Placed(Current, runqueue \o w.woken, w.left, zombies, allocated)
<1> DEFINE S == SleepingOn(a)
<1>1. Range(sleepers) \in SUBSET Thread /\ sleepers \in Seq(Thread)
  BY DEF ThreadsInv, TypeOK, Range
<1>2. S \in SUBSET Range(sleepers) /\ Range(sleepers) \ S \in SUBSET Range(sleepers)
  BY Zenon DEF SleepingOn
<1>3. IsFiniteSet(S) /\ IsFiniteSet(Range(sleepers) \ S)
  BY <1>1, <1>2, FiniteThreads, Zenon
<1>4. w.woken \in InOrder(sleepers, S) /\ w.left \in InOrder(sleepers, Range(sleepers) \ S)
  BY Zenon DEF Wakeups
<1> HIDE DEF S
<1>5. w.woken \in Seq(Thread) /\ Range(w.woken) = S /\ IsInjective(w.woken)
  BY <1>1, <1>2, <1>3, <1>4, InOrderFacts, Zenon
<1>6. w.left \in Seq(Thread) /\ Range(w.left) = Range(sleepers) \ S /\ IsInjective(w.left)
  BY <1>1, <1>2, <1>3, <1>4, InOrderFacts
<1>7. /\ runqueue \in Seq(Thread) /\ IsInjective(runqueue)
      /\ Range(runqueue) \cap Range(w.woken) = {}
  BY <1>2, <1>5, Zenon DEF ThreadsInv, TypeOK, OnePlace, Placed
<1>8. /\ runqueue \o w.woken \in Seq(Thread)
      /\ Range(runqueue \o w.woken) = Range(runqueue) \cup S
      /\ IsInjective(runqueue \o w.woken)
  BY <1>5, <1>7, ConcatFacts
<1>9. Placed(Current, runqueue \o w.woken, w.left, zombies, allocated)
  BY <1>2, <1>6, <1>8, Zenon DEF ThreadsInv, OnePlace, Placed
<1> QED
  BY <1>6, <1>8, <1>9, Zenon

\* thread_wakeup keeps the inductive invariant: whom it wakes moves to the run queue.
LEMMA WakeupInv ==
  ASSUME ThreadAssumption, ThreadsInv, NEW a \in Addr, thread_wakeup(a),
         UNCHANGED <<curthread, zombies, allocated, numthreads, stack,
                     t_sleepaddr, pc, secs, lbolt_counter>>
  PROVE  ThreadsInv'
<1>1. PICK w \in Wakeups(a) : sleepers' = w.left /\ runqueue' = runqueue \o w.woken
  BY Zenon DEF thread_wakeup
<1>2. /\ sleepers' \in Seq(Thread)
      /\ Range(sleepers') \subseteq Range(sleepers)
      /\ runqueue' \in Seq(Thread)
      /\ Placed(Current, runqueue', sleepers', zombies, allocated)
  BY <1>1, WakeupFacts, Zenon
<1>3. TypeOK'
  BY <1>2, Zenon DEF ThreadsInv, TypeOK
<1>4. OnePlace'
  BY <1>2, Zenon DEF OnePlace, Current
<1>5. SleepersFindable'
  BY <1>2, Zenon DEF ThreadsInv, SleepersFindable
<1>6. StackInUse' /\ CountsThreads'
  BY Zenon DEF ThreadsInv, StackInUse, CountsThreads
<1> QED
  BY <1>3, <1>4, <1>5, <1>6, Zenon DEF ThreadsInv

\* The end of hardclock, whichever threads it has just woken.
LEMMA YieldToInv ==
  ASSUME ThreadAssumption, ThreadsInv,
         NEW ready \in Seq(Thread), sleepers' \in Seq(Thread),
         Range(sleepers') \subseteq Range(sleepers),
         Placed(Current, ready, sleepers', zombies, allocated),
         YieldTo(ready), lbolt_counter' \in 0..(HZ - 1),
         UNCHANGED <<numthreads, t_sleepaddr, secs>>
  PROVE  ThreadsInv'
<1>1. CASE curthread # NULL
  <2> DEFINE queue == Append(ready, curthread)
  <2>1. mi_switch(queue, zombies, pc) /\ curthread \in Thread
    BY <1>1, Zenon DEF YieldTo, ThreadsInv, TypeOK
  <2>2. curthread \notin Range(ready) /\ Current = {curthread}
    BY <1>1, Zenon DEF Placed, Current
  <2>3. queue \in Seq(Thread) /\ Range(queue) = Range(ready) \cup {curthread}
        /\ IsInjective(queue)
    BY <2>1, <2>2, AppendFacts DEF Placed
  <2>4. Placed({}, queue, sleepers', zombies, allocated)
    BY <2>2, <2>3, Zenon DEF Placed
  <2> HIDE DEF queue
  <2> QED
    BY <2>1, <2>3, <2>4, SwitchInv, Zenon
       DEF ThreadsInv, TypeOK, SleepersFindable, CountsThreads
<1>2. CASE curthread = NULL
  <2>1. runqueue' = ready /\ UNCHANGED <<curthread, zombies, allocated, stack, pc>>
    BY <1>2, Zenon DEF YieldTo
  <2>2. TypeOK' /\ OnePlace'
    BY <2>1, Zenon DEF ThreadsInv, TypeOK, OnePlace, Current
  <2>3. SleepersFindable' /\ StackInUse' /\ CountsThreads'
    BY <2>1, Zenon DEF ThreadsInv, SleepersFindable, StackInUse, CountsThreads
  <2> QED
    BY <2>2, <2>3, Zenon DEF ThreadsInv
<1> QED
  BY <1>1, <1>2, Zenon

\* hardclock, with its wakeup of lbolt, keeps the inductive invariant.
LEMMA HardclockInv ==
  ASSUME ThreadAssumption, ThreadsInv, hardclock
  PROVE  ThreadsInv'
<1>1. UNCHANGED <<numthreads, t_sleepaddr, secs>> /\ lbolt_counter' \in 0..(HZ - 1)
  BY DEF hardclock, ThreadsInv, TypeOK, ThreadAssumption
<1>2. CASE UNCHANGED sleepers /\ YieldTo(runqueue)
  <2>1. /\ runqueue \in Seq(Thread) /\ sleepers' \in Seq(Thread)
        /\ Placed(Current, runqueue, sleepers', zombies, allocated)
    BY <1>2, Zenon DEF ThreadsInv, TypeOK, OnePlace
  <2> QED
    BY <1>1, <1>2, <2>1, YieldToInv, Zenon
<1>3. ASSUME NEW w \in Wakeups(Lbolt), sleepers' = w.left, YieldTo(runqueue \o w.woken)
      PROVE  ThreadsInv'
  <2>1. Lbolt \in Addr
    BY Zenon DEF ThreadAssumption
  <2> DEFINE ready == runqueue \o w.woken
  <2>2. /\ ready \in Seq(Thread) /\ sleepers' \in Seq(Thread)
        /\ Range(sleepers') \subseteq Range(sleepers)
        /\ Placed(Current, ready, sleepers', zombies, allocated)
    BY <1>3, <2>1, WakeupFacts, Zenon
  <2>3. YieldTo(ready)
    BY <1>3, Zenon
  <2> HIDE DEF ready
  <2> QED
    BY <1>1, <2>2, <2>3, YieldToInv, Zenon
<1> QED
  BY <1>2, <1>3, Zenon DEF hardclock

\* The return of thread_sleep in its caller keeps the inductive invariant.
LEMMA SleepReturnsInv ==
  ASSUME ThreadAssumption, ThreadsInv, NEW t \in Thread, curthread = t,
         pc' = [pc EXCEPT ![t] = "run"],
         t_sleepaddr' = [t_sleepaddr EXCEPT ![t] = NULL],
         secs' \in [Thread -> 0..MaxSecs],
         \A u \in Thread \ {t} : secs'[u] = secs[u],
         UNCHANGED <<curthread, runqueue, sleepers, zombies, allocated,
                     numthreads, stack, lbolt_counter>>
  PROVE  ThreadsInv'
<1>1. TypeOK'
  BY Zenon DEF ThreadsInv, TypeOK, Where
<1>2. OnePlace' /\ StackInUse' /\ CountsThreads'
  BY Zenon DEF ThreadsInv, OnePlace, Placed, Current, StackInUse, CountsThreads
<1>3. t \notin Range(sleepers) /\ Range(sleepers) \subseteq Thread
  BY Zenon DEF ThreadsInv, OnePlace, Placed, Current, TypeOK, ThreadAssumption
<1>4. SleepersFindable'
  BY <1>3 DEF ThreadsInv, SleepersFindable, TypeOK
<1> QED
  BY <1>1, <1>2, <1>4, Zenon DEF ThreadsInv

\* clocksleep keeps the inductive invariant.
LEMMA ClocksleepInv ==
  ASSUME ThreadAssumption, ThreadsInv, NEW t \in Thread,
         \/ \E n \in 1..MaxSecs : clocksleep(t, n)
         \/ clocksleep_loop(t)
  PROVE  ThreadsInv'
<1>1. Lbolt \in Addr /\ MaxSecs \in Nat /\ secs \in [Thread -> 0..MaxSecs]
  BY Zenon DEF ThreadAssumption, ThreadsInv, TypeOK
<1>2. ASSUME NEW n \in 1..MaxSecs, clocksleep(t, n)
      PROVE  ThreadsInv'
  <2>1. n \in 0..MaxSecs /\ n > 0
    BY <1>1
  <2>2. /\ curthread = t /\ secs' = [secs EXCEPT ![t] = n]
        /\ SleepOn(t, Lbolt, "clocksleep") /\ UNCHANGED <<numthreads, lbolt_counter>>
    BY <1>2, Zenon DEF clocksleep, Running
  <2> QED
    BY <1>1, <2>1, <2>2, SleepOnInv, Zenon
<1>3. CASE clocksleep_loop(t)
  <2> DEFINE n == secs[t] - 1
  <2>1. /\ curthread = t /\ secs' = [secs EXCEPT ![t] = n] /\ n \in 0..MaxSecs
        /\ UNCHANGED <<numthreads, lbolt_counter>>
    BY <1>1, <1>3 DEF clocksleep_loop
  <2>2. CASE secs[t] > 1 /\ SleepOn(t, Lbolt, "clocksleep")
    <3>1. n > 0
      BY <1>1, <2>2
    <3> HIDE DEF n
    <3> QED
      BY <1>1, <2>1, <2>2, <3>1, SleepOnInv, Zenon
  <2>3. CASE /\ pc' = [pc EXCEPT ![t] = "run"]
             /\ t_sleepaddr' = [t_sleepaddr EXCEPT ![t] = NULL]
             /\ UNCHANGED <<curthread, runqueue, sleepers, zombies, allocated, stack>>
    BY <1>1, <2>1, <2>3, SleepReturnsInv, Zenon
  <2> QED
    BY <1>3, <2>2, <2>3, Zenon DEF clocksleep_loop
<1> QED
  BY <1>2, <1>3, Zenon

\* thread_sleep keeps the inductive invariant: the sleeper has an address.
LEMMA SleepInv ==
  ASSUME ThreadAssumption, ThreadsInv, NEW t \in Thread, NEW a \in Addr, Sleep(t, a)
  PROVE  ThreadsInv'
<1>1. /\ curthread = t /\ SleepOn(t, a, "sleep")
      /\ UNCHANGED <<numthreads, secs, lbolt_counter>>
  BY Zenon DEF Sleep, Running
<1>2. secs[t] \in 0..MaxSecs /\ secs' = [secs EXCEPT ![t] = secs[t]]
  BY <1>1, Zenon DEF ThreadsInv, TypeOK
<1> QED
  BY <1>1, <1>2, SleepOnInv, Zenon
----------------------------------------------------------------------------
(* The thread system, for any threads, sleep addresses and clock rate.     *)

\* thread_bootstrap establishes the inductive invariant.
LEMMA InitInv ==
  ASSUME ThreadAssumption, Init
  PROVE  ThreadsInv
<1>1. TypeOK
  <2>1. 0 \in 0..MaxSecs /\ 0 \in 0..(HZ - 1)
    BY DEF ThreadAssumption
  <2> QED
    BY <2>1 DEF Init, TypeOK, ThreadAssumption, Where
<1>2. Range(runqueue) = {} /\ Range(sleepers) = {}
      /\ IsInjective(runqueue) /\ IsInjective(sleepers)
  BY DEF Init, Range, IsInjective
<1>3. OnePlace
  BY <1>2, Zenon DEF Init, OnePlace, Placed, Current, ThreadAssumption
<1>4. StackInUse /\ SleepersFindable
  BY <1>2, Zenon DEF Init, StackInUse, SleepersFindable
<1>5. CountsThreads
  <2>1. allocated \ zombies = {Boot}
    BY Zenon DEF Init
  <2> QED
    BY <2>1, CardinalityOfOne, Zenon DEF Init, CountsThreads
<1> QED
  BY <1>1, <1>3, <1>4, <1>5, Zenon DEF ThreadsInv

\* Every step of the thread system keeps the inductive invariant.
LEMMA StepInv ==
  ASSUME ThreadAssumption, ThreadsInv, [Next]_threadvars
  PROVE  ThreadsInv'
<1>1. ASSUME NEW t \in Thread, ThreadStep(t) PROVE ThreadsInv'
  BY <1>1, ForkInv, ExitInv, YieldInv, ClocksleepInv DEF ThreadStep
<1>2. ASSUME NEW t \in Thread, NEW a \in Addr, Sleep(t, a) PROVE ThreadsInv'
  BY <1>2, SleepInv, Zenon
<1>3. ASSUME NEW t \in Thread, SleepReturns(t) PROVE ThreadsInv'
  <2>1. secs' \in [Thread -> 0..MaxSecs]
    BY <1>3, Zenon DEF SleepReturns, ThreadsInv, TypeOK
  <2> QED
    BY <1>3, <2>1, SleepReturnsInv, Zenon DEF SleepReturns
<1>4. ASSUME NEW a \in Addr, Wakeup(a) PROVE ThreadsInv'
  BY <1>4, WakeupInv DEF Wakeup
<1>5. CASE UNCHANGED threadvars
  BY <1>5 DEF threadvars, tables, ThreadsInv, TypeOK, OnePlace, Placed, Current,
              StackInUse, SleepersFindable, CountsThreads
<1> QED
  BY <1>1, <1>2, <1>3, <1>4, <1>5, LeaveIdleInv, HardclockInv, Zenon DEF Next

\* The conjunction of the invariants below is inductive: no operation of
\* thread.c, scheduler.c or hardclock.c breaks it.
THEOREM ThreadsInvariant == Spec => []ThreadsInv
<1>1. Init => ThreadsInv
  BY ThreadAssumption, InitInv, Zenon
<1>2. ThreadsInv /\ [Next]_threadvars => ThreadsInv'
  BY ThreadAssumption, StepInv, Zenon
<1> QED
  BY <1>1, <1>2, PTL DEF Spec

\* The variables keep their types: the lists hold threads, the clock counter
\* stays below HZ.
THEOREM TypeCorrect == Spec => []TypeOK
<1>1. ThreadsInv => TypeOK
  BY Zenon DEF ThreadsInv
<1> QED
  BY <1>1, ThreadsInvariant, PTL

\* mi_switch, thread_wakeup, thread_fork and exorcise keep every thread in
\* exactly one place: running, on the run queue, asleep, or a zombie.
THEOREM EveryThreadInOnePlace == Spec => []OnePlace
<1>1. ThreadsInv => OnePlace
  BY Zenon DEF ThreadsInv
<1> QED
  BY <1>1, ThreadsInvariant, PTL

\* exorcise never frees the stack the processor runs on, neither after a
\* switch nor while the scheduler idles on the stack of a thread that exited.
THEOREM StackNeverFreed == Spec => []StackInUse
<1>1. ThreadsInv => StackInUse
  BY Zenon DEF ThreadsInv
<1> QED
  BY <1>1, ThreadsInvariant, PTL

\* Whoever sleeps does so at an address a thread_wakeup can name.
THEOREM EverySleeperFindable == Spec => []SleepersFindable
<1>1. ThreadsInv => SleepersFindable
  BY Zenon DEF ThreadsInv
<1> QED
  BY <1>1, ThreadsInvariant, PTL

\* thread_fork and thread_exit keep numthreads equal to the number of threads
\* that have not exited.
THEOREM NumthreadsExact == Spec => []CountsThreads
<1>1. ThreadsInv => CountsThreads
  BY Zenon DEF ThreadsInv
<1> QED
  BY <1>1, ThreadsInvariant, PTL
----------------------------------------------------------------------------
(* The order of the run queue                                              *)

\* r is q with more threads behind it.
Longer(q, r) == q \in Seq(Thread) /\ r \in Seq(Thread) /\ Len(q) <= Len(r)
                  /\ \A i \in 1..Len(q) : r[i] = q[i]

\* q_addtail keeps the order of those who are queued.
LEMMA LongerKeeps ==
  ASSUME NEW q, NEW r, Longer(q, r), NEW t, NEW u, Ahead(q, t, u)
  PROVE  Ahead(r, t, u)
<1>1. PICK i, j \in DOMAIN q : i < j /\ q[i] = t /\ q[j] = u
  BY Zenon DEF Ahead
<1>2. i \in DOMAIN r /\ j \in DOMAIN r /\ r[i] = t /\ r[j] = u
  BY <1>1 DEF Longer
<1> QED
  BY <1>1, <1>2, Zenon DEF Ahead

\* The queues the operations make of the run queue.
LEMMA LongerQueues ==
  ASSUME NEW q \in Seq(Thread)
  PROVE  /\ Longer(q, q)
         /\ \A x \in Thread : Longer(q, Append(q, x))
         /\ \A s \in Seq(Thread) : Longer(q, q \o s)
<1>1. Longer(q, q)
  BY DEF Longer
<1>2. ASSUME NEW x \in Thread PROVE Longer(q, Append(q, x))
  BY DEF Longer
<1>3. ASSUME NEW s \in Seq(Thread) PROVE Longer(q, q \o s)
  BY DEF Longer
<1> QED
  BY <1>1, <1>2, <1>3, Zenon

\* r is longer than q, and s longer than r.
LEMMA LongerTwice ==
  ASSUME NEW q, NEW r, NEW s, Longer(q, r), Longer(r, s)
  PROVE  Longer(q, s)
<1>1. ASSUME NEW i \in 1..Len(q) PROVE s[i] = q[i]
  <2>1. i \in 1..Len(r) /\ r[i] = q[i]
    BY DEF Longer
  <2> QED BY <2>1, Zenon DEF Longer
<1> QED
  BY <1>1 DEF Longer

\* scheduler() serves the head of the queue, and the order of the rest stays.
LEMMA SwitchKeepsOrder ==
  ASSUME NEW ready \in Seq(Thread), NEW dead, NEW pcs, mi_switch(ready, dead, pcs),
         NEW t, NEW u, Ahead(ready, t, u)
  PROVE  Ahead(runqueue', t, u) \/ curthread' = t
<1>1. PICK i, j \in DOMAIN ready : i < j /\ ready[i] = t /\ ready[j] = u
  BY Zenon DEF Ahead
<1>2. ready # <<>>
  BY <1>1
<1>3. curthread' = Head(ready) /\ runqueue' = Tail(ready)
  BY <1>2, Zenon DEF mi_switch, SwitchTo
<1>4. /\ Head(ready) = ready[1] /\ Tail(ready) \in Seq(Thread) /\ Len(Tail(ready)) = Len(ready) - 1
      /\ \A k \in 1..Len(Tail(ready)) : Tail(ready)[k] = ready[k + 1]
  BY <1>2
<1>5. CASE i = 1
  BY <1>1, <1>3, <1>4, <1>5, Zenon
<1>6. CASE i # 1
  <2> DEFINE tl == Tail(ready)
             i2 == i - 1
             j2 == j - 1
  <2>1. i2 \in 1..Len(tl) /\ j2 \in 1..Len(tl) /\ i2 < j2 /\ i2 + 1 = i /\ j2 + 1 = j
    BY <1>1, <1>4, <1>6
  <2>2. tl[i2] = t /\ tl[j2] = u /\ DOMAIN tl = 1..Len(tl)
    BY <1>1, <1>4, <2>1
  <2> HIDE DEF tl, i2, j2
  <2>3. Ahead(tl, t, u)
    BY <2>1, <2>2, Zenon DEF Ahead
  <2> QED BY <1>3, <2>3, Zenon DEF tl
<1> QED
  BY <1>5, <1>6, Zenon

\* Every operation first adds threads behind the run queue, and then either leaves
\* it so or switches to its head.
Orderly ==
  \E ready \in Seq(Thread) :
    /\ Longer(runqueue, ready)
    /\ \/ runqueue' = ready
       \/ \E dead, pcs : mi_switch(ready, dead, pcs)

\* What a wakeup adds is behind those who are queued.
LEMMA WokenBehind ==
  ASSUME ThreadAssumption, ThreadsInv, NEW a \in Addr, NEW w \in Wakeups(a)
  PROVE  Longer(runqueue, runqueue \o w.woken)
<1> DEFINE S == SleepingOn(a)
<1>1. Range(sleepers) \in SUBSET Thread /\ sleepers \in Seq(Thread) /\ runqueue \in Seq(Thread)
  BY DEF ThreadsInv, TypeOK, Range
<1>2. S \in SUBSET Range(sleepers) /\ w.woken \in InOrder(sleepers, S)
  BY Zenon DEF SleepingOn, Wakeups
<1> HIDE DEF S
<1>3. IsFiniteSet(S)
  BY <1>1, <1>2, FiniteThreads, Zenon
<1>4. w.woken \in Seq(Thread)
  BY <1>1, <1>2, <1>3, InOrderFacts, Zenon
<1> QED
  BY <1>1, <1>4, LongerQueues, Zenon

\* The thread_yield of hardclock, with more threads on the queue.
LEMMA YieldToOrderly ==
  ASSUME ThreadAssumption, ThreadsInv, NEW ready, Longer(runqueue, ready), YieldTo(ready)
  PROVE  Orderly
<1>1. ready \in Seq(Thread)
  BY Zenon DEF Longer
<1>2. CASE curthread = NULL
  BY <1>1, <1>2, Zenon DEF YieldTo, Orderly
<1>3. CASE curthread # NULL
  <2> DEFINE r == Append(ready, curthread)
  <2>1. curthread \in Thread
    BY <1>3, Zenon DEF ThreadsInv, TypeOK
  <2>2. r \in Seq(Thread) /\ Longer(ready, r)
    BY <1>1, <2>1, LongerQueues
  <2>3. mi_switch(r, zombies, pc)
    BY <1>3, Zenon DEF YieldTo
  <2> HIDE DEF r
  <2>4. Longer(runqueue, r)
    BY <2>2, LongerTwice, Zenon
  <2> QED BY <2>2, <2>3, <2>4 DEF Orderly
<1> QED
  BY <1>2, <1>3, Zenon

\* One case per operation.
LEMMA StepOrderly ==
  ASSUME ThreadAssumption, ThreadsInv, Next
  PROVE  Orderly
<1>1. runqueue \in Seq(Thread) /\ Longer(runqueue, runqueue)
  BY LongerQueues, Zenon DEF ThreadsInv, TypeOK
<1>2. ASSUME NEW dead, NEW pcs, mi_switch(runqueue, dead, pcs) PROVE Orderly
  BY <1>1, <1>2, Zenon DEF Orderly
<1>3. runqueue' = runqueue => Orderly
  BY <1>1, Zenon DEF Orderly
<1>4. ASSUME NEW t \in Thread, NEW new \in Thread, thread_fork(t, new) PROVE Orderly
  <2>1. runqueue' = Append(runqueue, new) /\ Append(runqueue, new) \in Seq(Thread)
    BY <1>1, <1>4 DEF thread_fork
  <2>2. Longer(runqueue, Append(runqueue, new))
    BY <1>1, LongerQueues, Zenon
  <2> QED BY <2>1, <2>2, Zenon DEF Orderly
<1>5. ASSUME NEW t \in Thread, thread_exit(t) PROVE Orderly
  BY <1>2, <1>5, Zenon DEF thread_exit
<1>6. ASSUME NEW t \in Thread, thread_yield(t) PROVE Orderly
  <2>1. mi_switch(Append(runqueue, t), zombies, pc) /\ Append(runqueue, t) \in Seq(Thread)
    BY <1>1, <1>6 DEF thread_yield
  <2>2. Longer(runqueue, Append(runqueue, t))
    BY <1>1, LongerQueues, Zenon
  <2> QED BY <2>1, <2>2, Zenon DEF Orderly
<1>7. ASSUME NEW t \in Thread, NEW a, NEW p, SleepOn(t, a, p) PROVE Orderly
  BY <1>2, <1>7, Zenon DEF SleepOn
<1>8. ASSUME NEW t \in Thread, NEW n \in 1..MaxSecs, clocksleep(t, n) PROVE Orderly
  BY <1>7, <1>8, Zenon DEF clocksleep
<1>9. ASSUME NEW t \in Thread, clocksleep_loop(t) PROVE Orderly
  <2>1. SleepOn(t, Lbolt, "clocksleep") \/ runqueue' = runqueue
    BY <1>9, Zenon DEF clocksleep_loop
  <2> QED BY <1>3, <1>7, <2>1, Zenon
<1>10. ASSUME NEW t \in Thread, NEW a \in Addr, Sleep(t, a) PROVE Orderly
  BY <1>7, <1>10, Zenon DEF Sleep
<1>11. ASSUME NEW t \in Thread, SleepReturns(t) PROVE Orderly
  BY <1>3, <1>11, Zenon DEF SleepReturns
<1>12. ASSUME NEW a \in Addr, Wakeup(a) PROVE Orderly
  <2>1. PICK w \in Wakeups(a) : runqueue' = runqueue \o w.woken
    BY <1>12, Zenon DEF Wakeup, thread_wakeup
  <2>2. Longer(runqueue, runqueue \o w.woken) /\ runqueue \o w.woken \in Seq(Thread)
    BY WokenBehind, Zenon DEF Longer
  <2> QED BY <2>1, <2>2, Zenon DEF Orderly
<1>13. CASE LeaveIdle
  <2>1. mi_switch(runqueue, zombies, pc)
    BY <1>13, Zenon DEF LeaveIdle, mi_switch
  <2> QED BY <1>2, <2>1, Zenon
<1>14. CASE hardclock
  <2>1. CASE YieldTo(runqueue)
    BY <1>1, <2>1, YieldToOrderly, Zenon
  <2>2. ASSUME NEW w \in Wakeups(Lbolt), YieldTo(runqueue \o w.woken) PROVE Orderly
    <3>1. Lbolt \in Addr
      BY Zenon DEF ThreadAssumption
    <3>2. Longer(runqueue, runqueue \o w.woken)
      BY <3>1, WokenBehind, Zenon
    <3> QED BY <2>2, <3>2, YieldToOrderly, Zenon
  <2> QED BY <1>14, <2>1, <2>2, Zenon DEF hardclock
<1> QED
  BY <1>4, <1>5, <1>6, <1>8, <1>9, <1>10, <1>11, <1>12, <1>13, <1>14 DEF Next, ThreadStep

\* Nobody overtakes on the run queue, whatever thread_yield, thread_wakeup, thread_fork
\* and hardclock do: of two queued threads the first stays ahead until scheduler()
\* gives it the processor.
THEOREM QueueInOrder == Spec => NoOvertaking
<1> DEFINE InTurn == \A t, u \in Thread :
                       Ahead(runqueue, t, u) => Ahead(runqueue', t, u) \/ curthread' = t
<1>1. ASSUME ThreadsInv, [Next]_threadvars PROVE [InTurn]_threadvars
  <2>1. ASSUME Next PROVE InTurn
    <3> SUFFICES ASSUME NEW t \in Thread, NEW u \in Thread, Ahead(runqueue, t, u)
                 PROVE  Ahead(runqueue', t, u) \/ curthread' = t
      BY Zenon
    <3>1. Orderly
      BY <1>1, <2>1, ThreadAssumption, StepOrderly, Zenon
    <3>2. PICK ready \in Seq(Thread) :
             /\ Longer(runqueue, ready)
             /\ runqueue' = ready \/ \E dead, pcs : mi_switch(ready, dead, pcs)
      BY <3>1, Zenon DEF Orderly
    <3>3. Ahead(ready, t, u)
      BY <3>2, LongerKeeps, Zenon
    <3> QED BY <3>2, <3>3, SwitchKeepsOrder, Zenon
  <2> QED BY <1>1, <2>1, Zenon
<1> QED
  BY <1>1, ThreadsInvariant, PTL DEF Spec, NoOvertaking
============================================================================
