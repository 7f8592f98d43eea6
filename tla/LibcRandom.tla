----------------------------- MODULE LibcRandom -----------------------------
(* random, srandom, initstate and setstate of lib/libc/random.c: additive    *)
(* feedback generators that live in arrays of the caller's, one of them at a *)
(* time current.  Element 0 of an array holds the type of its generator and, *)
(* when it is put aside, its rear pointer; the words of the table follow.    *)
EXTENDS Libc, FiniteSets

CONSTANTS degrees, seps,   \* by type, from type 0 on, in sequences
          BREAKS,          \* the least size of an array for each type
          ROUNDS,          \* of the table that srandom discards: 10
          Arrays,          \* of the callers
          randtbl          \* the library's own array

MAX_TYPES == Len(degrees)
RngType == 0..(MAX_TYPES - 1)
deg(type) == degrees[type + 1]
sep(type) == seps[type + 1]
DefaultType == MAX_TYPES - 2

\* The linear congruential step, on the low bits of the word that UINT keeps.
Lcg(x) == ((1103515245 % UINT) * x + 12345) % UINT
----------------------------------------------------------------------------
(* g: the arrays, the current one, its type, and the front and rear pointers *)
(* as indices into the table.                                                *)

random_unlocked(g) ==
  LET a == g.cur
      sum == (g.mem[a][g.f + 1] + g.mem[a][g.r + 1]) % UINT
      low == Lcg(g.mem[a][1]) % (UINT \div 2)
      fwraps == g.f + 1 >= deg(g.type)
      rwraps == ~fwraps /\ g.r + 1 >= deg(g.type)
  IN  IF g.type = 0 THEN [g EXCEPT !.mem[a][1] = low, !.out = Append(@, low)]
      ELSE [g EXCEPT !.mem[a][g.f + 1] = sum,
                     !.f = IF fwraps THEN 0 ELSE @ + 1,
                     !.r = IF rwraps THEN 0 ELSE @ + 1,
                     !.out = Append(@, sum \div 2)]

Draw(g, n) ==
  LET after[i \in 0..n] == IF i = 0 THEN g ELSE random_unlocked(after[i - 1])
  IN  after[n]

srandom_unlocked(g, x) ==
  LET seeded[i \in 1..deg(g.type)] == IF i = 1 THEN x ELSE Lcg(seeded[i - 1])
      filled == [g EXCEPT !.mem[g.cur] = [i \in DOMAIN @ |-> IF i \in DOMAIN seeded THEN seeded[i] ELSE @[i]],
                          !.f = sep(g.type), !.r = 0]
  IN  IF g.type = 0 THEN [g EXCEPT !.mem[g.cur][1] = x]
      ELSE [Draw(filled, ROUNDS * deg(g.type)) EXCEPT !.out = g.out]

Header(g) == IF g.type = 0 THEN 0 ELSE MAX_TYPES * g.r + g.type
Saved(g) == [g EXCEPT !.mem[g.cur][0] = Header(g)]

\* The best generator that n allows; with too little nothing but the saving.
TypeFor(n) == Cardinality({t \in RngType : n >= BREAKS[t + 1]}) - 1
initstate(g, seed, a, n) ==
  IF TypeFor(n) < 0 THEN Saved(g)
  ELSE Saved(srandom_unlocked([Saved(g) EXCEPT !.cur = a, !.type = TypeFor(n)], seed))

setstate_FrontOnly(g, a) ==    \* mutant: the pointers start over
  [Saved(g) EXCEPT !.cur = a, !.type = g.mem[a][0] % MAX_TYPES, !.r = 0,
                   !.f = sep(g.mem[a][0] % MAX_TYPES)]

\* The header of the array is read before the current state is saved.
setstate(g, a) ==
  LET type == g.mem[a][0] % MAX_TYPES
      rear == g.mem[a][0] \div MAX_TYPES
      there == [Saved(g) EXCEPT !.cur = a, !.type = type]
  IN  IF type = 0 THEN there
      ELSE [there EXCEPT !.r = rear, !.f = (rear + sep(type)) % deg(type)]

\* As if from initstate(1, randtbl, ...), which is what the table holds.
RandomAtStart ==
  LET words == 0..deg(MAX_TYPES - 1)
      empty == [mem |-> [a \in Arrays \cup {randtbl} |-> [i \in words |-> 0]],
                cur |-> randtbl, type |-> DefaultType, f |-> 0, r |-> 0, out |-> <<>>]
  IN  Saved(srandom_unlocked(empty, 1))
----------------------------------------------------------------------------
(* The calls of a program, each followed by draws.                         *)
RandomCall(g, c) ==
  CASE c.op = "srandom" -> srandom_unlocked(g, c.seed)
    [] c.op = "initstate" -> initstate(g, c.seed, c.a, c.n)
    [] c.op = "setstate" -> setstate(g, c.a)

RandomRun(calls) ==
  FoldLeft(LAMBDA g, c : Draw(RandomCall(g, c), c.draws), Draw(RandomAtStart, 1), calls).out

(* What they stand for: each array has a stream of its own, in which a word  *)
(* is the sum of those deg and sep before it, whoever draws in between.      *)
Advance(s) ==
  IF s.type = 0 THEN [s EXCEPT !.last = <<Lcg(@[1]) % (UINT \div 2)>>]
  ELSE [s EXCEPT !.last = Append(Tail(@), (@[1] + @[deg(s.type) - sep(s.type) + 1]) % UINT)]
AdvanceBy(s, n) ==
  LET after[i \in 0..n] == IF i = 0 THEN s ELSE Advance(after[i - 1])
  IN  after[n]
Drawn(s) == IF s.type = 0 THEN s.last[1] ELSE s.last[Len(s.last)] \div 2
Stream(type, seed) ==
  LET word[i \in 0..deg(type)] == IF i = 0 THEN seed ELSE Lcg(word[i - 1])
      start == [i \in 1..deg(type) |-> word[(i - 1 + sep(type)) % deg(type)]]
  IN  IF type = 0 THEN [type |-> 0, last |-> <<seed>>]
      ELSE AdvanceBy([type |-> type, last |-> start], ROUNDS * deg(type))

StreamCall(w, c) ==
  CASE c.op = "srandom" -> [w EXCEPT !.of[w.cur] = Stream(@.type, c.seed)]
    [] c.op = "initstate" /\ TypeFor(c.n) >= 0 ->
         [w EXCEPT !.cur = c.a, !.of[c.a] = Stream(TypeFor(c.n), c.seed), !.set = @ \cup {c.a}]
    [] c.op = "setstate" -> [w EXCEPT !.cur = c.a]
    [] OTHER -> w
StreamDraw(w, n) ==
  LET s(i) == AdvanceBy(w.of[w.cur], i)
  IN  [w EXCEPT !.of[w.cur] = s(n), !.out = @ \o [i \in 1..n |-> Drawn(s(i))]]
StreamsAtStart ==
  StreamDraw([of |-> [a \in Arrays \cup {randtbl} |-> Stream(DefaultType, 1)],
              cur |-> randtbl, set |-> {randtbl}, out |-> <<>>], 1)
StreamsAfter(calls) ==
  FoldLeft(LAMBDA w, c : StreamDraw(StreamCall(w, c), c.draws), StreamsAtStart, calls)

\* setstate is called for arrays that initstate has set up.  A call for the
\* current array is left out: it takes the rear pointer from before it is saved.
ProperCalls(calls) ==
  \A i \in 1..Len(calls) :
    LET before == StreamsAfter(SubSeq(calls, 1, i - 1))
    IN  calls[i].op = "setstate" => calls[i].a \in before.set \ {before.cur}

\* Whatever the program switches to and back, seeds or fails to set up, what it
\* draws is what the streams of the arrays give.
StreamsExact(calls) == RandomRun(calls) = StreamsAfter(calls).out
=============================================================================
