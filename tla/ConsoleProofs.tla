---------------------------- MODULE ConsoleProofs ---------------------------
(***************************************************************************)
(* Proofs about the console: what is printed through it and the serial     *)
(* card is on the wire, whole and in order.                                *)
(***************************************************************************)
EXTENDS Console, InductionFacts


----------------------------------------------------------------------------
(* console.c: what a list of characters comes to.                          *)

Char == {"a", "\n", "\r", "p"}
Msg == (Outputter \cup {Handler}) \X Char

\* f computes From(t, w), character by character.
Sorts(t, w, f) ==
  /\ f[0] = <<>>
  /\ \A n \in 1..Len(w) : f[n] = IF w[n][1] = t THEN Append(f[n - 1], w[n][2]) ELSE f[n - 1]

\* From is what going through w computes.
LEMMA FromIs ==
  ASSUME NEW t, NEW w \in Seq(Msg)
  PROVE  \E f \in [0..Len(w) -> Seq(Char)] : Sorts(t, w, f) /\ From(t, w) = f[Len(w)]
<1> DEFINE g == [n \in Nat |-> [s \in Seq(Char) |->
                  IF n \in 1..Len(w) /\ w[n][1] = t THEN Append(s, w[n][2]) ELSE s]]
           body(f, n) == IF n = 0 THEN <<>>
                         ELSE IF w[n][1] = t THEN Append(f[n - 1], w[n][2]) ELSE f[n - 1]
<1>1. g \in [Nat -> [Seq(Char) -> Seq(Char)]]
  <2> SUFFICES ASSUME NEW n \in Nat, NEW s \in Seq(Char) PROVE g[n][s] \in Seq(Char)
    BY Zenon
  <2>1. n \in 1..Len(w) => w[n][2] \in Char
    BY DEF Msg
  <2> QED
    BY <2>1
<1>2. <<>> \in Seq(Char) /\ Len(w) \in Nat
  OBVIOUS
<1>3. PICK f \in [0..Len(w) -> Seq(Char)] :
        f[0] = <<>> /\ \A n \in 1..Len(w) : f[n] = g[n][f[n - 1]]
  <2> DEFINE N == Len(w)
             S == Seq(Char)
             b == <<>>
  <2>1. N \in Nat /\ b \in S /\ g \in [Nat -> [S -> S]]
    BY <1>1, <1>2, Zenon
  <2> HIDE DEF g, N, S, b
  <2>2. PICK f : StepsBy(N, S, b, g, f)
    BY <2>1, StepsDefined, Zenon
  <2> QED BY <2>2, Zenon DEF StepsBy, N, S, b
<1>4. ASSUME NEW n \in 1..Len(w) PROVE f[n] = body(f, n)
  <2>1. n \in Nat /\ n - 1 \in 0..Len(w) /\ f[n - 1] \in Seq(Char) /\ n # 0
    BY <1>3
  <2>2. g[n][f[n - 1]] = IF n \in 1..Len(w) /\ w[n][1] = t THEN Append(f[n - 1], w[n][2])
                         ELSE f[n - 1]
    BY <2>1, Zenon
  <2> HIDE DEF g
  <2> QED
    BY <1>3, <2>1, <2>2, Zenon
<1>5. Sorts(t, w, f)
  BY <1>3, <1>4 DEF Sorts
<1>6. f = [n \in 0..Len(w) |-> body(f, n)]
  <2>0. f[0] = body(f, 0)
    BY <1>3, Zenon
  <2>1. \A n \in 0..Len(w) : f[n] = body(f, n)
    <3> HIDE DEF body
    <3> QED BY <1>2, <1>4, <2>0
  <2> HIDE DEF body
  <2> QED
    BY <2>1, Zenon
<1> DEFINE h == CHOOSE h : h = [n \in 0..Len(w) |-> body(h, n)]
<1>7. h = [n \in 0..Len(w) |-> body(h, n)]
  <2> HIDE DEF body, h
  <2>1. \E x : x = [n \in 0..Len(w) |-> body(x, n)]
    BY <1>6, Zenon
  <2> QED
    BY <2>1, Zenon DEF h
<1>8. From(t, w) = h[Len(w)]
  BY Zenon DEF From
<1> HIDE DEF h
<1>9. \A n \in 0..Len(w) : h[n] = f[n]
  <2>0. \A n \in 0..Len(w) : h[n] = body(h, n)
    <3> HIDE DEF body
    <3> QED BY <1>7, Zenon
  <2>1. h[0] = <<>> /\ \A n \in 1..Len(w) : h[n] = body(h, n)
    <3>1. h[0] = body(h, 0)
      BY <1>2, <2>0
    <3>2. h[0] = <<>>
      BY <3>1, Zenon
    <3> HIDE DEF body
    <3> QED BY <2>0, <3>2
  <2>2. \A n \in 1..Len(w) : h[n - 1] = f[n - 1] => h[n] = f[n]
    BY <1>4, <2>1, Zenon
  <2> QED
    <3> DEFINE N == Len(w)
    <3>1. N \in Nat /\ Alike(N, h, f)
      BY <1>2, <1>3, <2>1, <2>2, Zenon DEF Alike
    <3> HIDE DEF N
    <3>2. \A n \in 0..N : h[n] = f[n]
      BY <3>1, StepsAgree
    <3> QED BY <3>2, Zenon DEF N
<1> QED
  BY <1>2, <1>5, <1>8, <1>9

\* Of no characters t has none; and one more that t gives is the last of t's.
LEMMA FromAppend ==
  ASSUME NEW t
  PROVE  /\ From(t, <<>>) = <<>>
         /\ \A w \in Seq(Msg) : From(t, w) \in Seq(Char)
         /\ \A w \in Seq(Msg), m \in Msg :
              From(t, Append(w, m)) =
                IF m[1] = t THEN Append(From(t, w), m[2]) ELSE From(t, w)
<1>1. From(t, <<>>) = <<>>
  <2>1. <<>> \in Seq(Msg) /\ Len(<<>>) = 0
    OBVIOUS
  <2> DEFINE w == <<>>
  <2> HIDE DEF w
  <2>2. w \in Seq(Msg) /\ Len(w) = 0
    BY <2>1, Zenon DEF w
  <2>3. PICK f \in [0..Len(w) -> Seq(Char)] : Sorts(t, w, f) /\ From(t, w) = f[Len(w)]
    BY <2>2, FromIs, Zenon
  <2>4. From(t, w) = <<>>
    BY <2>2, <2>3, Zenon DEF Sorts
  <2> QED
    BY <2>4, Zenon DEF w
<1>2. \A w \in Seq(Msg) : From(t, w) \in Seq(Char)
  BY FromIs
<1>3. ASSUME NEW w \in Seq(Msg), NEW m \in Msg
      PROVE  From(t, Append(w, m)) =
                IF m[1] = t THEN Append(From(t, w), m[2]) ELSE From(t, w)
  <2> DEFINE v == Append(w, m)
  <2>1. /\ v \in Seq(Msg) /\ Len(v) = Len(w) + 1 /\ Len(w) \in Nat /\ v[Len(w) + 1] = m
        /\ \A n \in 1..Len(w) : v[n] = w[n]
    OBVIOUS
  <2> HIDE DEF v
  <2>2. PICK f \in [0..Len(w) -> Seq(Char)] : Sorts(t, w, f) /\ From(t, w) = f[Len(w)]
    BY FromIs, Zenon
  <2>3. PICK h \in [0..Len(v) -> Seq(Char)] : Sorts(t, v, h) /\ From(t, v) = h[Len(v)]
    BY <2>1, FromIs, Zenon
  <2>4. f[0] = h[0] /\ \A n \in 1..Len(w) : f[n - 1] = h[n - 1] => f[n] = h[n]
    <3>1. f[0] = h[0]
      BY <2>2, <2>3, Zenon DEF Sorts
    <3>2. ASSUME NEW n \in 1..Len(w), f[n - 1] = h[n - 1] PROVE f[n] = h[n]
      <4>1. n \in 1..Len(v) /\ v[n] = w[n]
        BY <2>1
      <4>2. f[n] = IF w[n][1] = t THEN Append(f[n - 1], w[n][2]) ELSE f[n - 1]
        BY <2>2, Zenon DEF Sorts
      <4>3. h[n] = IF v[n][1] = t THEN Append(h[n - 1], v[n][2]) ELSE h[n - 1]
        BY <2>3, <4>1, Zenon DEF Sorts
      <4> QED
        BY <3>2, <4>1, <4>2, <4>3, Zenon
    <3> QED BY <3>1, <3>2, Zenon
  <2>5. h[Len(w)] = f[Len(w)]
    <3> DEFINE N == Len(w)
    <3>1. N \in Nat /\ Alike(N, f, h)
      BY <2>1, <2>4, Zenon DEF Alike
    <3> HIDE DEF N
    <3>2. \A n \in 0..N : f[n] = h[n]
      BY <3>1, StepsAgree
    <3>3. N \in 0..N
      BY <3>1
    <3> QED BY <3>2, <3>3, Zenon DEF N
  <2>6. h[Len(v)] = IF m[1] = t THEN Append(h[Len(w)], m[2]) ELSE h[Len(w)]
    BY <2>1, <2>3 DEF Sorts
  <2> QED
    BY <2>2, <2>3, <2>5, <2>6, Zenon DEF v
<1> QED
  BY <1>1, <1>2, <1>3, Zenon
Ascii == {"a", "\n"}

\* con_io puts one character or two for each that it gets.
LEMMA TranslatedType ==
  ASSUME NEW c \in Ascii
  PROVE  Translated(c) \in Seq({"a", "\n", "\r"}) /\ Translated(c) \in Seq(Char) /\ Translated(c) # <<>>
<1>1. CASE c = "a"
  <2>1. Translated(c) = <<"a">>
    BY <1>1, Zenon DEF Translated
  <2> QED
    BY <2>1 DEF Char
<1>2. CASE c = "\n"
  <2>1. Translated(c) = <<"\r", "\n">>
    BY <1>2, Zenon DEF Translated
  <2> QED
    BY <2>1 DEF Char
<1> QED
  BY <1>1, <1>2, Zenon DEF Ascii

\* f computes Expansion(w), character by character.
Expands(w, f) ==
  /\ f[0] = <<>>
  /\ \A n \in 1..Len(w) : f[n] = f[n - 1] \o Translated(w[n])

\* Expansion is what going through w computes.
LEMMA ExpansionIs ==
  ASSUME NEW w \in Seq(Ascii)
  PROVE  \E f \in [0..Len(w) -> Seq(Char)] : Expands(w, f) /\ Expansion(w) = f[Len(w)]
<1> DEFINE g == [n \in Nat |-> [s \in Seq(Char) |->
                  IF n \in 1..Len(w) THEN s \o Translated(w[n]) ELSE s]]
           body(f, n) == IF n = 0 THEN <<>> ELSE f[n - 1] \o Translated(w[n])
<1>1. g \in [Nat -> [Seq(Char) -> Seq(Char)]]
  <2> SUFFICES ASSUME NEW n \in Nat, NEW s \in Seq(Char) PROVE g[n][s] \in Seq(Char)
    BY Zenon
  <2>1. n \in 1..Len(w) => Translated(w[n]) \in Seq(Char)
    BY TranslatedType
  <2> QED
    BY <2>1
<1>2. <<>> \in Seq(Char) /\ Len(w) \in Nat
  OBVIOUS
<1>3. PICK f \in [0..Len(w) -> Seq(Char)] :
        f[0] = <<>> /\ \A n \in 1..Len(w) : f[n] = g[n][f[n - 1]]
  <2> DEFINE N == Len(w)
             S == Seq(Char)
             b == <<>>
  <2>1. N \in Nat /\ b \in S /\ g \in [Nat -> [S -> S]]
    BY <1>1, <1>2, Zenon
  <2> HIDE DEF g, N, S, b
  <2>2. PICK f : StepsBy(N, S, b, g, f)
    BY <2>1, StepsDefined, Zenon
  <2> QED BY <2>2, Zenon DEF StepsBy, N, S, b
<1>4. ASSUME NEW n \in 1..Len(w) PROVE f[n] = body(f, n)
  <2>1. n \in Nat /\ n - 1 \in 0..Len(w) /\ f[n - 1] \in Seq(Char) /\ n # 0
    BY <1>3
  <2>2. g[n][f[n - 1]] = f[n - 1] \o Translated(w[n])
    BY <2>1, Zenon
  <2> HIDE DEF g
  <2> QED
    BY <1>3, <2>1, <2>2, Zenon
<1>5. Expands(w, f)
  <2>1. ASSUME NEW n \in 1..Len(w) PROVE f[n] = f[n - 1] \o Translated(w[n])
    <3>1. n # 0
      OBVIOUS
    <3> QED BY <1>4, <3>1, Zenon
  <2> QED
    BY <1>3, <2>1, Zenon DEF Expands
<1>6. f = [n \in 0..Len(w) |-> body(f, n)]
  <2>0. f[0] = body(f, 0)
    BY <1>3, Zenon
  <2>1. \A n \in 0..Len(w) : f[n] = body(f, n)
    <3> HIDE DEF body
    <3> QED BY <1>2, <1>4, <2>0
  <2> HIDE DEF body
  <2> QED
    BY <2>1, Zenon
<1> DEFINE h == CHOOSE h : h = [n \in 0..Len(w) |-> body(h, n)]
<1>7. h = [n \in 0..Len(w) |-> body(h, n)]
  <2> HIDE DEF body, h
  <2>1. \E x : x = [n \in 0..Len(w) |-> body(x, n)]
    BY <1>6, Zenon
  <2> QED
    BY <2>1, Zenon DEF h
<1>8. Expansion(w) = h[Len(w)]
  BY Zenon DEF Expansion, Translated
<1> HIDE DEF h
<1>9. \A n \in 0..Len(w) : h[n] = f[n]
  <2>0. \A n \in 0..Len(w) : h[n] = body(h, n)
    <3> HIDE DEF body
    <3> QED BY <1>7, Zenon
  <2>1. h[0] = <<>> /\ \A n \in 1..Len(w) : h[n] = body(h, n)
    <3>1. h[0] = body(h, 0)
      BY <1>2, <2>0
    <3>2. h[0] = <<>>
      BY <3>1, Zenon
    <3> HIDE DEF body
    <3> QED BY <2>0, <3>2
  <2>2. \A n \in 1..Len(w) : h[n - 1] = f[n - 1] => h[n] = f[n]
    BY <1>4, <2>1, Zenon
  <2> QED
    <3> DEFINE N == Len(w)
    <3>1. N \in Nat /\ Alike(N, h, f)
      BY <1>2, <1>3, <2>1, <2>2, Zenon DEF Alike
    <3> HIDE DEF N
    <3>2. \A n \in 0..N : h[n] = f[n]
      BY <3>1, StepsAgree
    <3> QED BY <3>2, Zenon DEF N
<1> QED
  BY <1>2, <1>5, <1>8, <1>9

\* One more character adds what it is translated to.
LEMMA ExpansionAppend ==
  /\ Expansion(<<>>) = <<>>
  /\ \A w \in Seq(Ascii) : Expansion(w) \in Seq(Char)
  /\ \A w \in Seq(Ascii), m \in Ascii :
       Expansion(Append(w, m)) = Expansion(w) \o Translated(m)
<1>1. Expansion(<<>>) = <<>>
  <2>1. <<>> \in Seq(Ascii) /\ Len(<<>>) = 0
    OBVIOUS
  <2> DEFINE w == <<>>
  <2> HIDE DEF w
  <2>2. w \in Seq(Ascii) /\ Len(w) = 0
    BY <2>1, Zenon DEF w
  <2>3. PICK f \in [0..Len(w) -> Seq(Char)] : Expands(w, f) /\ Expansion(w) = f[Len(w)]
    BY <2>2, ExpansionIs, Zenon
  <2>4. Expansion(w) = <<>>
    BY <2>2, <2>3, Zenon DEF Expands
  <2> QED
    BY <2>4, Zenon DEF w
<1>2. \A w \in Seq(Ascii) : Expansion(w) \in Seq(Char)
  BY ExpansionIs
<1>3. ASSUME NEW w \in Seq(Ascii), NEW m \in Ascii
      PROVE  Expansion(Append(w, m)) = Expansion(w) \o Translated(m)
  <2> DEFINE v == Append(w, m)
  <2>1. /\ v \in Seq(Ascii) /\ Len(v) = Len(w) + 1 /\ Len(w) \in Nat /\ v[Len(w) + 1] = m
        /\ \A n \in 1..Len(w) : v[n] = w[n]
    OBVIOUS
  <2> HIDE DEF v
  <2>2. PICK f \in [0..Len(w) -> Seq(Char)] : Expands(w, f) /\ Expansion(w) = f[Len(w)]
    BY ExpansionIs, Zenon
  <2>3. PICK h \in [0..Len(v) -> Seq(Char)] : Expands(v, h) /\ Expansion(v) = h[Len(v)]
    BY <2>1, ExpansionIs, Zenon
  <2>4. f[0] = h[0] /\ \A n \in 1..Len(w) : f[n - 1] = h[n - 1] => f[n] = h[n]
    <3>1. f[0] = h[0]
      BY <2>2, <2>3, Zenon DEF Expands
    <3>2. ASSUME NEW n \in 1..Len(w), f[n - 1] = h[n - 1] PROVE f[n] = h[n]
      <4>1. n \in 1..Len(v) /\ v[n] = w[n]
        BY <2>1
      <4>2. f[n] = f[n - 1] \o Translated(w[n])
        BY <2>2, Zenon DEF Expands
      <4>3. h[n] = h[n - 1] \o Translated(v[n])
        BY <2>3, <4>1, Zenon DEF Expands
      <4> QED
        BY <3>2, <4>1, <4>2, <4>3, Zenon
    <3> QED BY <3>1, <3>2, Zenon
  <2>5. h[Len(w)] = f[Len(w)]
    <3> DEFINE N == Len(w)
    <3>1. N \in Nat /\ Alike(N, f, h)
      BY <2>1, <2>4, Zenon DEF Alike
    <3> HIDE DEF N
    <3>2. \A n \in 0..N : f[n] = h[n]
      BY <3>1, StepsAgree
    <3>3. N \in 0..N
      BY <3>1
    <3> QED BY <3>2, <3>3, Zenon DEF N
  <2>6. h[Len(v)] = h[Len(w)] \o Translated(m)
    <3>1. Len(v) \in 1..Len(v) /\ Len(v) - 1 = Len(w) /\ v[Len(v)] = m
      BY <2>1
    <3>2. h[Len(v)] = h[Len(v) - 1] \o Translated(v[Len(v)])
      BY <2>3, <3>1, Zenon DEF Expands
    <3> QED
      BY <3>1, <3>2, Zenon
  <2> QED
    BY <2>2, <2>3, <2>5, <2>6, Zenon DEF v
<1> QED
  BY <1>1, <1>2, <1>3, Zenon
----------------------------------------------------------------------------
(* console.c and lser.c: the inductive invariant.                          *)

\* The unit of cs_wsem is in the semaphore, with the one thread that is about to
\* call lser_write, or with the card; so lser_write finds ls_wbusy clear.
UnitPlaced ==
  /\ cs_wsem = 1 => ls_wbusy = FALSE
  /\ \A t \in Outputter : con_pc[t] = "send" => cs_wsem = 0 /\ ls_wbusy = FALSE
  /\ \A t, u \in Outputter : con_pc[t] = "send" /\ con_pc[u] = "send" => t = u
  /\ cs_wsem = 1 \/ ls_wbusy = TRUE \/ \E t \in Outputter : con_pc[t] = "send"
  /\ panicked = FALSE

\* The card is busy for the driver until the handler has run, and what the drivers
\* wrote has left it or is being sent.
CardState ==
  /\ wire \in Seq(Msg) /\ sending \in Seq(Msg) /\ handed \in Seq(Msg)
  /\ ls_wbusy = TRUE => sending # <<>> \/ wirq = TRUE
  /\ ls_wbusy = FALSE => sending = <<>> /\ wirq = FALSE
  /\ wirq = TRUE => sending = <<>>
  /\ wire \o sending = handed

\* At most as many keys wait in cs_rsem and in the card as were typed.
KeysWait ==
  /\ rirq = TRUE => cs_rsem + 1 <= typed
  /\ cs_rsem <= typed

\* What a thread's place in the code tells.
WriterPlace(t) ==
  /\ con_pc[t] \in {"start", "char", "put", "send", "done", "failed"}
  /\ con_pc[t] \in {"char", "put", "send"} <=> con_userlock_write = t
  /\ con_pc[t] = "done" => todo[t] = <<>>

PrinterPlace(t) ==
  /\ con_pc[t] \in {"start", "put", "send", "printed", "done"}
  /\ con_pc[t] = "start" => todo[t] = Text[t]
  /\ con_pc[t] # "start" => todo[t] = <<>>

BootPlace ==
  /\ con_pc[Boot] \in {"early", "put", "send", "done"}
  /\ con_pc[Boot] # "early" => todo[Boot] = <<>> /\ delayed_outbuf = <<>>

ReaderPlace(t) ==
  /\ con_pc[t] \in {"start", "get", "got", "done", "failed"}
  /\ con_pc[t] \in {"start", "get", "got"} => resid[t] > 0

ConPlaces ==
  /\ \A t \in Outputter : pending[t] # <<>> <=> con_pc[t] \in {"put", "send"}
  /\ \A t \in Writer : WriterPlace(t)
  /\ \A t \in Printer : PrinterPlace(t)
  /\ BootPlace
  /\ \A t \in Reader : ReaderPlace(t)

\* No write has another inside it; what the holder of the lock has written comes
\* after all other writes, and who has not had it has written nothing.
InTurns ==
  /\ \A i, j, k \in 1..Len(handed) :
       i < j /\ j < k /\ handed[i][1] = handed[k][1] /\ handed[i][1] \in Writer
         /\ handed[j][1] \in Writer => handed[j][1] = handed[i][1]
  /\ \A i, j \in 1..Len(handed) :
       i < j /\ handed[i][1] = con_userlock_write /\ con_userlock_write \in Writer
         /\ handed[j][1] \in Writer => handed[j][1] = handed[i][1]
  /\ \A t \in Writer : con_pc[t] = "start" => \A i \in 1..Len(handed) : handed[i][1] # t

\* What t has put, is putting and has in the delay buffer comes from the part of its
\* text that it has begun.
Later(t) == IF t = Boot THEN pending[t] \o delayed_outbuf ELSE pending[t]
Began(t, s) ==
  /\ s \o todo[t] = Text[t]
  /\ From(t, handed) \o Later(t) = IF t \in Writer THEN Expansion(s) ELSE s
AllThere == \A t \in Outputter : \E s \in Seq(Ascii) : Began(t, s)

ConInv ==
  /\ ConTypeOK /\ UnitPlaced /\ CardState /\ KeysWait /\ ConPlaces /\ InTurns /\ AllThere
\* Who is an outputter, who a reader.
LEMMA ConThreads ==
  /\ \A t \in Outputter : t \in ConThread /\ t \notin Reader /\ t # NULL /\ t # Handler
  /\ \A t \in Reader : t \in ConThread /\ t \notin Outputter
  /\ \A t \in Writer : t \in Outputter /\ t \notin Printer /\ t # Boot
  /\ \A t \in Printer : t \in Outputter /\ t \notin Writer /\ t # Boot
  /\ Boot \in Outputter /\ Boot \notin Writer /\ Boot \notin Printer
  BY ConsoleAssumption, Zenon DEF Outputter, ConThread

\* ConTypeOK in parts: what belongs to the threads, and what they share.
ConPc == {"early", "start", "char", "put", "send", "printed", "get", "got", "done", "failed"}
ThreadTypes ==
  /\ con_pc \in [ConThread -> ConPc]
  /\ todo \in [Outputter -> Seq({"a", "\n"})]
  /\ pending \in [Outputter -> Seq({"a", "\n", "\r"})]
  /\ resid \in [Reader -> 0..Want]
  /\ delayed_outbuf \in Seq({"a", "\n"})
SharedTypes ==
  /\ the_console \in BOOLEAN
  /\ cs_wsem \in 0..1
  /\ cs_rsem \in 0..Len(Keys)
  /\ cs_gotchar \in 0..Len(Keys)
  /\ con_userlock_read \in Reader \cup {NULL}
  /\ con_userlock_write \in Writer \cup {NULL}
  /\ kprintf_lock \in Printer \cup {NULL}
  /\ ls_wbusy \in BOOLEAN /\ wirq \in BOOLEAN /\ rirq \in BOOLEAN
  /\ rchar \in 0..Len(Keys) /\ typed \in 0..Len(Keys)
  /\ polled \in 0..MaxPolled
  /\ panicked \in BOOLEAN

\* The parts are the whole; the card sends one character at a time.
LEMMA ConTypeParts ==
  /\ ConTypeOK <=> (ThreadTypes /\ SharedTypes /\ Len(sending) \in 0..1)
  /\ ConTypeOK' <=> (ThreadTypes' /\ SharedTypes' /\ Len(sending') \in 0..1)
  BY Zenon DEF ConTypeOK, ThreadTypes, SharedTypes, ConPc

\* The state after config_con satisfies the invariant.
LEMMA ConInvInit == ConInit => ConInv
<1> SUFFICES ASSUME ConInit PROVE ConInv
  BY Zenon
<1> USE ConsoleAssumption, ConThreads DEF ConInit
<1>1. ConTypeOK
  <2>1. ThreadTypes
    BY DEF ThreadTypes, ConPc
  <2>2. SharedTypes
    <3>1. 0 \in 0..Len(Keys) /\ 0 \in 0..MaxPolled
      OBVIOUS
    <3>2. /\ the_console = FALSE /\ cs_wsem = 1 /\ cs_rsem = 0 /\ cs_gotchar = 0
          /\ con_userlock_read = NULL /\ con_userlock_write = NULL /\ kprintf_lock = NULL
          /\ ls_wbusy = FALSE /\ wirq = FALSE /\ rirq = FALSE /\ rchar = 0 /\ typed = 0
          /\ polled = 0 /\ panicked = FALSE
      BY Zenon
    <3> HIDE ConsoleAssumption, ConThreads DEF ConInit
    <3>3. /\ cs_wsem \in 0..1 /\ cs_rsem \in 0..Len(Keys) /\ cs_gotchar \in 0..Len(Keys)
          /\ rchar \in 0..Len(Keys) /\ typed \in 0..Len(Keys) /\ polled \in 0..MaxPolled
      BY <3>1, <3>2
    <3> QED
      BY <3>2, <3>3, Zenon DEF SharedTypes
  <2>3. Len(sending) = 0
    BY Zenon
  <2> QED
    BY <2>1, <2>2, <2>3, ConTypeParts
<1>2. UnitPlaced /\ KeysWait
  BY DEF UnitPlaced, KeysWait, ConThread, Outputter
<1>3. CardState
  BY DEF CardState
<1>4. ConPlaces
  BY DEF ConPlaces, ConThread, Outputter, WriterPlace, PrinterPlace, BootPlace, ReaderPlace
<1>5. InTurns
  BY DEF InTurns
<1>6. AllThere
  <2> SUFFICES ASSUME NEW t \in Outputter PROVE Began(t, <<>>) /\ <<>> \in Seq(Ascii)
    BY Zenon DEF AllThere
  <2>1. Later(t) = <<>> /\ From(t, handed) = <<>> /\ Expansion(<<>>) = <<>>
    BY FromAppend, ExpansionAppend DEF Later
  <2>2. <<>> \o todo[t] = Text[t]
    OBVIOUS
  <2> QED
    BY <2>1, <2>2 DEF Began
<1> QED
  BY <1>1, <1>2, <1>3, <1>4, <1>5, <1>6, Zenon DEF ConInv

\* What lser_write does when the card is free.
WritesChar(t) ==
  /\ ls_wbusy = FALSE /\ cs_wsem = 0 /\ con_pc[t] = "send" /\ pending[t] # <<>>
  /\ panicked' = FALSE /\ ls_wbusy' = TRUE
  /\ sending' = <<<<t, Head(pending[t])>>>>
  /\ handed' = Append(handed, <<t, Head(pending[t])>>)
  /\ pending' = [pending EXCEPT ![t] = Tail(pending[t])]
  /\ con_pc' = [con_pc EXCEPT ![t] = AfterPut(t)]
  /\ UNCHANGED <<todo, resid, locks, sems, wirq, wire, input, boot, polled>>

\* lser_write does not panic: the driver is told to write only when it is free.
LEMMA WriteFindsFree ==
  ASSUME ConInv, NEW t, lser_write(t)
  PROVE  t \in Outputter /\ WritesChar(t)
<1>0. t \in Outputter
  BY Zenon DEF lser_write
<1>1. con_pc[t] = "send" /\ ls_wbusy = FALSE /\ cs_wsem = 0 /\ panicked = FALSE
  BY <1>0, Zenon DEF lser_write, ConInv, UnitPlaced
<1>2. pending[t] # <<>>
  BY <1>0, <1>1, Zenon DEF ConInv, ConPlaces
<1> QED
  BY <1>0, <1>1, <1>2, Zenon DEF lser_write, CharRegister, ConGoto, WritesChar

\* Every step of console.c and lser.c keeps the types of the threads' variables.
LEMMA ThreadTypeStep ==
  ASSUME ConInv, ConNext
  PROVE  ThreadTypes'
<1>0. ThreadTypes
  BY ConTypeParts, Zenon DEF ConInv
<1>1. ASSUME NEW t \in ConThread, ConStep(t) PROVE ThreadTypes'
  <2> USE <1>0, ConThreads DEF ThreadTypes, ConPc, ConGoto, thrvars, boot
  <2>1. CASE putch_delayed(t)
    BY <2>1 DEF putch_delayed
  <2>2. CASE config_con(t)
    BY <2>2 DEF config_con
  <2>3. CASE kprintf(t)
    BY <2>3 DEF kprintf
  <2>4. CASE kprintf_return(t)
    BY <2>4, Zenon DEF kprintf_return
  <2>5. CASE con_io_write(t)
    BY <2>5, Zenon DEF con_io_write
  <2>6. CASE con_io_char(t)
    <3>1. t \in Writer /\ t \in Outputter /\ todo[t] # <<>>
      BY <2>6, Zenon DEF con_io_char
    <3>2. Head(todo[t]) \in Ascii
      BY <3>1 DEF Ascii
    <3>3. Translated(Head(todo[t])) \in Seq({"a", "\n", "\r"})
      BY <3>2, TranslatedType, Zenon
    <3> QED
      BY <2>6, <3>1, <3>3 DEF con_io_char
  <2>7. CASE con_io_written(t)
    BY <2>7, Zenon DEF con_io_written
  <2>8. CASE putch_intr(t)
    BY <2>8, Zenon DEF putch_intr
  <2>9. CASE lser_write(t)
    <3>1. t \in Outputter /\ WritesChar(t)
      BY <2>9, WriteFindsFree, Zenon
    <3>2. AfterPut(t) \in ConPc
      BY Zenon DEF AfterPut
    <3> QED
      BY <3>1, <3>2 DEF WritesChar
  <2>10. CASE con_io_read(t)
    BY <2>10, Zenon DEF con_io_read
  <2>11. CASE getch_intr(t)
    BY <2>11, Zenon DEF getch_intr
  <2>12. CASE GotChar(t)
    <3>1. t \in Reader /\ resid[t] \in 1..Want
      BY <2>12, ConsoleAssumption DEF GotChar, ConInv, ConPlaces, ReaderPlace
    <3>a. resid[t] - 1 \in 0..Want
      BY <3>1, ConsoleAssumption
    <3>b. resid' = [resid EXCEPT ![t] = resid[t] - 1] \/ resid' = resid
      BY <2>12, Zenon DEF GotChar
    <3>c. resid \in [Reader -> 0..Want]
      BY Zenon
    <3>d. resid' \in [Reader -> 0..Want]
      BY <3>1, <3>a, <3>b, <3>c, Zenon
    <3>2. resid' \in [Reader -> 0..Want] /\ UNCHANGED <<todo, pending, boot>>
      BY <2>12, <3>d, Zenon DEF GotChar
    <3>3. con_pc' \in [ConThread -> ConPc]
      BY <2>12, <3>1, Zenon DEF GotChar
    <3> QED
      BY <3>2, <3>3, Zenon
  <2> QED
    BY <1>1, <2>1, <2>2, <2>3, <2>4, <2>5, <2>6, <2>7, <2>8, <2>9, <2>10, <2>11, <2>12, Zenon DEF ConStep
<1>2. CASE lser_writepolled \/ lser_irq \/ Transmitted \/ Struck
  BY <1>0, <1>2, Zenon DEF lser_writepolled, lser_irq, Transmitted, Struck, thrvars, boot, ThreadTypes
<1> QED
  BY <1>1, <1>2, Zenon DEF ConNext

\* Every step of console.c and lser.c keeps the types of what the threads share.
LEMMA SharedTypeStep ==
  ASSUME ConInv, ConNext
  PROVE  SharedTypes'
<1>0. SharedTypes
  BY ConTypeParts, Zenon DEF ConInv
<1> USE <1>0 DEF SharedTypes, locks, sems, output, input, boot, others
<1>1. ASSUME NEW t \in ConThread, ConStep(t) PROVE SharedTypes'
  <2>1. CASE putch_delayed(t)
    BY <2>1, Zenon DEF putch_delayed
  <2>2. CASE config_con(t)
    BY <2>2, Zenon DEF config_con
  <2>3. CASE kprintf(t)
    BY <2>3, Zenon DEF kprintf
  <2>4. CASE kprintf_return(t)
    BY <2>4, Zenon DEF kprintf_return
  <2>5. CASE con_io_write(t)
    BY <2>5, Zenon DEF con_io_write
  <2>6. CASE con_io_char(t)
    BY <2>6, Zenon DEF con_io_char
  <2>7. CASE con_io_written(t)
    BY <2>7, Zenon DEF con_io_written
  <2>8. CASE putch_intr(t)
    BY <2>8 DEF putch_intr
  <2>9. CASE lser_write(t)
    <3>1. WritesChar(t)
      BY <2>9, WriteFindsFree, Zenon
    <3> QED
      BY <3>1, Zenon DEF WritesChar
  <2>10. CASE con_io_read(t)
    BY <2>10, Zenon DEF con_io_read
  <2>11. CASE getch_intr(t)
    BY <2>11 DEF getch_intr
  <2>12. CASE GotChar(t)
    BY <2>12, Zenon DEF GotChar
  <2> QED
    BY <1>1, <2>1, <2>2, <2>3, <2>4, <2>5, <2>6, <2>7, <2>8, <2>9, <2>10, <2>11, <2>12, Zenon DEF ConStep
<1>2. CASE lser_writepolled
  BY <1>2, ConsoleAssumption DEF lser_writepolled
<1>3. CASE lser_irq
  <2>1. cs_wsem' \in 0..1
    <3>1. wirq = TRUE => cs_wsem = 0
      BY DEF ConInv, UnitPlaced, CardState
    <3> QED
      BY <1>3, <3>1 DEF lser_irq, con_start
  <2>2. cs_rsem' \in 0..Len(Keys) /\ cs_gotchar' \in 0..Len(Keys)
    BY <1>3, ConsoleAssumption DEF lser_irq, con_input, ConInv, KeysWait
  <2> QED
    BY <1>3, <2>1, <2>2, Zenon DEF lser_irq
<1>4. CASE Transmitted
  BY <1>4, ConsoleAssumption, Zenon DEF Transmitted
<1>5. CASE Struck
  BY <1>5, ConsoleAssumption DEF Struck
<1> QED
  BY <1>1, <1>2, <1>3, <1>4, <1>5, Zenon DEF ConNext
\* The unit of cs_wsem stays where it is, and the card does what it did.
UnitStays ==
  /\ UNCHANGED <<output, cs_wsem, ls_wbusy, panicked>>
  /\ \A u \in Outputter : con_pc'[u] = "send" <=> con_pc[u] = "send"

\* What the threads do besides putch_intr and lser_write leaves the transmitter
\* alone.
LEMMA UnitStaysStep ==
  ASSUME ConInv, NEW t \in ConThread, ConStep(t), ~putch_intr(t), ~lser_write(t)
  PROVE  UnitStays
<1> USE ConThreads DEF UnitStays, sems, output, others, ConGoto
<1>0. con_pc \in [ConThread -> ConPc]
  BY ConTypeParts, Zenon DEF ConInv, ThreadTypes
<1>1. CASE putch_delayed(t)
  BY <1>1, Zenon DEF putch_delayed
<1>2. CASE config_con(t)
  BY <1>0, <1>2, Zenon DEF config_con
<1>3. CASE kprintf(t)
  BY <1>0, <1>3, Zenon DEF kprintf
<1>4. CASE kprintf_return(t)
  BY <1>0, <1>4, Zenon DEF kprintf_return
<1>5. CASE con_io_write(t)
  BY <1>0, <1>5, Zenon DEF con_io_write
<1>6. CASE con_io_char(t)
  BY <1>0, <1>6, Zenon DEF con_io_char
<1>7. CASE con_io_written(t)
  BY <1>0, <1>7, Zenon DEF con_io_written
<1>8. CASE con_io_read(t)
  BY <1>0, <1>8, Zenon DEF con_io_read
<1>9. CASE getch_intr(t)
  BY <1>0, <1>9, Zenon DEF getch_intr
<1>10. CASE GotChar(t)
  BY <1>0, <1>10 DEF GotChar
<1> QED
  BY <1>1, <1>2, <1>3, <1>4, <1>5, <1>6, <1>7, <1>8, <1>9, <1>10, Zenon DEF ConStep

\* The unit of cs_wsem moves from the semaphore to a thread (putch_intr), to the
\* card (lser_write) and back (lser_irq), whatever polled output does in between.
LEMMA UnitStep ==
  ASSUME ConInv, ConNext
  PROVE  UnitPlaced'
<1>0. UnitPlaced /\ SharedTypes /\ con_pc \in [ConThread -> ConPc]
  BY ConTypeParts, Zenon DEF ConInv, ThreadTypes
<1>1. ASSUME NEW t \in ConThread, putch_intr(t) PROVE UnitPlaced'
  <2>1. t \in Outputter /\ cs_wsem = 1 /\ cs_wsem' = 0 /\ ls_wbusy' = ls_wbusy
    BY <1>0, <1>1 DEF putch_intr, SharedTypes
  <2>2. con_pc' = [con_pc EXCEPT ![t] = "send"] /\ panicked' = panicked
    BY <1>1, Zenon DEF putch_intr, ConGoto, others
  <2>3. \A u \in Outputter : con_pc[u] # "send"
    BY <1>0, <2>1 DEF UnitPlaced
  <2> QED
    BY <1>0, <2>1, <2>2, <2>3, ConThreads, Zenon DEF UnitPlaced
<1>2. ASSUME NEW t \in ConThread, lser_write(t) PROVE UnitPlaced'
  <2>1. t \in Outputter /\ WritesChar(t)
    BY <1>2, WriteFindsFree, Zenon
  <2>2. AfterPut(t) # "send"
    BY Zenon DEF AfterPut
  <2>3. \A u \in Outputter : con_pc'[u] # "send"
    BY <1>0, <2>1, <2>2, ConThreads DEF UnitPlaced, WritesChar
  <2> QED
    BY <2>1, <2>3 DEF UnitPlaced, WritesChar, sems
<1>3. CASE UnitStays
  BY <1>0, <1>3, Zenon DEF UnitStays, UnitPlaced
<1>4. CASE lser_writepolled \/ Transmitted \/ Struck
  BY <1>0, <1>4, Zenon DEF lser_writepolled, Transmitted, Struck, UnitPlaced, sems, thrvars, others
<1>5. CASE lser_irq
  <2>1. UNCHANGED <<con_pc, panicked>>
    BY <1>5, Zenon DEF lser_irq, thrvars, others
  <2>2. CASE wirq = TRUE
    <3>1. ls_wbusy = TRUE
      BY <1>0, <2>2, Zenon DEF ConInv, CardState, SharedTypes
    <3>2. cs_wsem = 0 /\ \A u \in Outputter : con_pc[u] # "send"
      BY <1>0, <3>1 DEF UnitPlaced, SharedTypes
    <3>3. cs_wsem' = 1
      BY <1>5, <2>2, <3>2 DEF lser_irq, con_start
    <3>4. ls_wbusy' = FALSE
      BY <1>5, <2>2, Zenon DEF lser_irq
    <3> QED
      BY <1>0, <2>1, <3>2, <3>3, <3>4, Zenon DEF UnitPlaced
  <2>3. CASE wirq = FALSE
    <3>1. cs_wsem' = cs_wsem /\ ls_wbusy' = ls_wbusy
      BY <1>0, <1>5, <2>3, Zenon DEF lser_irq, con_start, SharedTypes
    <3> QED
      BY <1>0, <2>1, <3>1, Zenon DEF UnitPlaced
  <2> QED
    BY <1>0, <2>2, <2>3, Zenon DEF SharedTypes
<1> QED
  BY <1>1, <1>2, <1>3, <1>4, <1>5, UnitStaysStep, Zenon DEF ConNext

\* The card's state follows: an interrupt is due exactly while the driver waits for
\* one, and nothing is written over.
LEMMA CardConStep ==
  ASSUME ConInv, ConNext
  PROVE  CardState' /\ Len(sending') \in 0..1
<1>0. CardState /\ SharedTypes /\ Len(sending) \in 0..1 /\ ThreadTypes
  BY ConTypeParts, Zenon DEF ConInv
<1>1. ASSUME NEW t \in ConThread, lser_write(t) PROVE CardState' /\ Len(sending') \in 0..1
  <2>1. t \in Outputter /\ WritesChar(t)
    BY <1>1, WriteFindsFree, Zenon
  <2> DEFINE m == <<t, Head(pending[t])>>
  <2>2. m \in Msg
    BY <1>0, <2>1 DEF Msg, ThreadTypes, WritesChar, Char
  <2>3. sending = <<>> /\ wirq = FALSE /\ wire = handed
    BY <1>0, <2>1 DEF CardState, WritesChar
  <2>4. sending' = <<m>> /\ handed' = Append(handed, m) /\ wire' = wire /\ wirq' = wirq /\ ls_wbusy' = TRUE
    BY <2>1, Zenon DEF WritesChar
  <2> HIDE DEF m
  <2>5. handed' = wire' \o sending'
    BY <1>0, <2>2, <2>3, <2>4 DEF CardState
  <2> QED
    BY <1>0, <2>2, <2>3, <2>4, <2>5 DEF CardState
<1>2. ASSUME NEW t \in ConThread, putch_intr(t) PROVE CardState' /\ Len(sending') \in 0..1
  BY <1>0, <1>2, Zenon DEF putch_intr, CardState, output
<1>3. CASE UnitStays
  BY <1>0, <1>3, Zenon DEF UnitStays, CardState, output
<1>4. CASE Struck
  BY <1>0, <1>4, Zenon DEF Struck, CardState, output
<1>5. CASE lser_writepolled
  <2> DEFINE m == <<Handler, "p">>
  <2>1. m \in Msg
    BY Zenon DEF Msg, Char
  <2>2. wire' = wire \o sending \o <<m>> /\ handed' = Append(handed, m) /\ sending' = <<>>
    BY <1>5, Zenon DEF lser_writepolled
  <2>3. wirq' = ls_wbusy /\ ls_wbusy' = ls_wbusy
    BY <1>5, Zenon DEF lser_writepolled
  <2> HIDE DEF m
  <2>4. wire' \in Seq(Msg) /\ handed' \in Seq(Msg) /\ wire' \o sending' = handed'
    BY <1>0, <2>1, <2>2 DEF CardState
  <2> QED
    BY <1>0, <2>2, <2>3, <2>4 DEF CardState, SharedTypes
<1>6. CASE lser_irq
  <2>1. UNCHANGED <<wire, sending, handed>> /\ wirq' = FALSE
    BY <1>6, Zenon DEF lser_irq
  <2>2. CASE wirq = TRUE
    <3>1. ls_wbusy' = FALSE /\ sending = <<>>
      BY <1>0, <1>6, <2>2, Zenon DEF lser_irq, CardState
    <3> QED
      BY <1>0, <2>1, <3>1, Zenon DEF CardState
  <2>3. CASE wirq = FALSE
    <3>1. ls_wbusy' = ls_wbusy
      BY <1>0, <1>6, <2>3, Zenon DEF lser_irq, SharedTypes
    <3> QED
      BY <1>0, <2>1, <2>3, <3>1, Zenon DEF CardState
  <2> QED
    BY <1>0, <2>2, <2>3, Zenon DEF SharedTypes
<1>7. CASE Transmitted
  <2>1. wire' = wire \o sending /\ sending' = <<>> /\ handed' = handed /\ wirq' = TRUE /\ ls_wbusy' = ls_wbusy
    BY <1>7, Zenon DEF Transmitted
  <2>2. sending # <<>> /\ ls_wbusy = TRUE
    BY <1>0, <1>7, Zenon DEF Transmitted, CardState, SharedTypes
  <2> QED
    BY <1>0, <2>1, <2>2 DEF CardState
<1> QED
  BY <1>1, <1>2, <1>3, <1>4, <1>5, <1>6, <1>7, UnitStaysStep DEF ConNext

\* A key that was typed is waiting in at most one place.
LEMMA KeysStep ==
  ASSUME ConInv, ConNext
  PROVE  KeysWait'
<1>0. KeysWait /\ SharedTypes /\ Len(Keys) \in Nat
  BY ConTypeParts, ConsoleAssumption DEF ConInv
<1> USE <1>0 DEF KeysWait, SharedTypes, sems, input
<1>1. ASSUME NEW t \in ConThread, ConStep(t), ~getch_intr(t) PROVE UNCHANGED <<cs_rsem, rirq, typed>>
  BY <1>1, Zenon DEF ConStep, putch_delayed, config_con, kprintf, kprintf_return, con_io_write, con_io_char,
     con_io_written, putch_intr, lser_write, con_io_read, GotChar
<1>2. ASSUME NEW t \in ConThread, getch_intr(t) PROVE KeysWait'
  BY <1>2 DEF getch_intr
<1>3. CASE lser_writepolled \/ Transmitted
  BY <1>3, Zenon DEF lser_writepolled, Transmitted
<1>4. CASE lser_irq
  BY <1>4, Zenon DEF lser_irq, con_input
<1>5. CASE Struck
  BY <1>5 DEF Struck
<1> QED
  BY <1>1, <1>2, <1>3, <1>4, <1>5, Zenon DEF ConNext
\* When putch returns, there are more characters to put if there were two.
LEMMA TailLeft ==
  ASSUME NEW S, NEW p \in Seq(S), p # <<>>
  PROVE  Tail(p) # <<>> <=> Len(p) > 1
<1>1. Tail(p) \in Seq(S) /\ Len(Tail(p)) = Len(p) - 1 /\ Len(p) \in Nat \ {0}
  OBVIOUS
<1>2. Tail(p) # <<>> => Len(Tail(p)) \in Nat \ {0}
  BY <1>1
<1>3. Tail(p) = <<>> => Len(Tail(p)) = 0
  <2>1. Len(<<>>) = 0
    BY Zenon
  <2> QED BY <2>1, Zenon
<1> QED
  BY <1>1, <1>2, <1>3

\* Every step of a thread takes it from one place in console.c to the next.
LEMMA PlacesStep ==
  ASSUME ConInv, ConNext
  PROVE  ConPlaces'
<1>0. ThreadTypes /\ ConPlaces /\ con_userlock_write \in Writer \cup {NULL}
  BY ConTypeParts, Zenon DEF ConInv, SharedTypes
<1>1. ASSUME NEW t \in ConThread, ConStep(t) PROVE ConPlaces'
  <2> USE <1>0, ConThreads DEF ConPlaces, WriterPlace, PrinterPlace, BootPlace, ReaderPlace, ConGoto, thrvars,
          locks, boot, ThreadTypes
  <2>1. CASE putch_delayed(t)
    BY <2>1, Zenon DEF putch_delayed
  <2>2. CASE config_con(t)
    <3>1. t = Boot /\ todo[t] = <<>> /\ delayed_outbuf' = <<>> /\ todo' = todo /\ resid' = resid
      BY <2>2, Zenon DEF config_con
    <3>2. UNCHANGED locks /\ pending' = [pending EXCEPT ![Boot] = delayed_outbuf]
      BY <2>2, Zenon DEF config_con
    <3>3. CASE delayed_outbuf = <<>>
      <4>1. con_pc' = [con_pc EXCEPT ![Boot] = "done"]
        BY <2>2, <3>3, Zenon DEF config_con
      <4> QED
        BY <3>1, <3>2, <3>3, <4>1, Zenon
    <3>4. CASE delayed_outbuf # <<>>
      <4>1. con_pc' = [con_pc EXCEPT ![Boot] = "put"]
        BY <2>2, <3>4, Zenon DEF config_con
      <4> QED
        BY <3>1, <3>2, <3>4, <4>1, Zenon
    <3> QED
      BY <3>3, <3>4, Zenon
  <2>3. CASE kprintf(t)
    <3>1. t \in Printer /\ todo[t] # <<>>
      BY <2>3, ConsoleAssumption, Zenon DEF kprintf
    <3> QED
      BY <2>3, <3>1, Zenon DEF kprintf
  <2>4. CASE kprintf_return(t)
    BY <2>4, Zenon DEF kprintf_return
  <2>5. CASE con_io_write(t)
    BY <2>5, Zenon DEF con_io_write
  <2>6. CASE con_io_char(t)
    <3>1. t \in Writer /\ t \in Outputter /\ Head(todo[t]) \in Ascii
      BY <2>6 DEF con_io_char, Ascii
    <3>2. Translated(Head(todo[t])) # <<>>
      BY <3>1, TranslatedType, Zenon
    <3> QED
      BY <2>6, <3>1, <3>2, Zenon DEF con_io_char
  <2>7. CASE con_io_written(t)
    BY <2>7, Zenon DEF con_io_written
  <2>8. CASE putch_intr(t)
    BY <2>8, Zenon DEF putch_intr
  <2>9. CASE lser_write(t)
    <3>1. t \in Outputter /\ WritesChar(t)
      BY <2>9, WriteFindsFree, Zenon
    <3>2. Tail(pending[t]) # <<>> <=> Len(pending[t]) > 1
      <4> DEFINE p == pending[t]
                 S == {"a", "\n", "\r"}
      <4>1. p \in Seq(S) /\ p # <<>>
        BY <3>1, Zenon DEF WritesChar
      <4> HIDE DEF p, S
      <4>2. Tail(p) # <<>> <=> Len(p) > 1
        BY <4>1, TailLeft, Zenon
      <4> QED BY <4>2, Zenon DEF p
    <3>3. t \in Writer \/ t \in Printer \/ t = Boot
      BY <3>1, Zenon DEF Outputter
    <3> QED
      BY <3>1, <3>2, <3>3, Zenon DEF WritesChar, AfterPut
  <2>10. CASE con_io_read(t)
    BY <2>10, Zenon DEF con_io_read
  <2>11. CASE getch_intr(t)
    BY <2>11, Zenon DEF getch_intr
  <2>12. CASE GotChar(t)
    <3>1. t \in Reader /\ UNCHANGED <<todo, pending, con_userlock_write, boot>> /\ con_pc[t] = "got"
      BY <2>12, Zenon DEF GotChar
    <3>2. CASE con_pc' = [con_pc EXCEPT ![t] = "get"]
      <4>1. resid' = [resid EXCEPT ![t] = @ - 1] /\ resid[t] # 1
        BY <2>12, <3>1, <3>2, Zenon DEF GotChar
      <4>2. resid[t] - 1 > 0 /\ resid'[t] = resid[t] - 1
        BY <3>1, <4>1, ConsoleAssumption
      <4> QED
        BY <3>1, <3>2, <4>1, <4>2, Zenon
    <3>3. CASE con_pc' = [con_pc EXCEPT ![t] = "done"] \/ con_pc' = [con_pc EXCEPT ![t] = "failed"]
      <4>1. \A u \in Reader \ {t} : resid'[u] = resid[u]
        BY <2>12, <3>1, Zenon DEF GotChar
      <4>2. /\ \A u \in ConThread \ {t} : con_pc'[u] = con_pc[u]
            /\ con_pc'[t] \in {"done", "failed"}
        BY <3>1, <3>3, Zenon
      <4> QED
        BY <3>1, <4>1, <4>2, Zenon
    <3> QED
      BY <2>12, <3>2, <3>3, Zenon DEF GotChar
  <2> QED
    BY <1>1, <2>1, <2>2, <2>3, <2>4, <2>5, <2>6, <2>7, <2>8, <2>9, <2>10, <2>11, <2>12, Zenon DEF ConStep
<1>2. CASE lser_writepolled \/ lser_irq \/ Transmitted \/ Struck
  BY <1>0, <1>2, Zenon DEF lser_writepolled, lser_irq, Transmitted, Struck, thrvars, boot, locks, ConPlaces,
     WriterPlace, PrinterPlace, BootPlace, ReaderPlace
<1> QED
  BY <1>1, <1>2, Zenon DEF ConNext
\* Another character x from who has the lock, or from none of the writers, keeps the
\* writes apart.
LEMMA TurnsAppend ==
  ASSUME InTurns, handed \in Seq(Msg), NEW x \in Msg, handed' = Append(handed, x),
         con_userlock_write' = con_userlock_write,
         x[1] \in Writer => con_userlock_write = x[1],
         \A u \in Writer : con_pc'[u] = "start" => con_pc[u] = "start" /\ u # x[1]
  PROVE  InTurns'
<1> DEFINE n == Len(handed)
           t == x[1]
           by == [i \in 1..n |-> handed[i][1]]
           by2 == [i \in 1..(n + 1) |-> handed'[i][1]]
<1>1. /\ Len(handed') = n + 1 /\ handed'[n + 1] = x /\ n \in Nat
      /\ \A i \in 1..n : handed'[i] = handed[i]
  OBVIOUS
<1>2. /\ \A i, j, k \in 1..n :
           i < j /\ j < k /\ by[i] = by[k] /\ by[i] \in Writer /\ by[j] \in Writer => by[j] = by[i]
      /\ \A i, j \in 1..n :
           i < j /\ by[i] = con_userlock_write /\ con_userlock_write \in Writer /\ by[j] \in Writer
             => by[j] = by[i]
      /\ \A u \in Writer : con_pc[u] = "start" => \A i \in 1..n : by[i] # u
  <2>1. \A i \in 1..n : by[i] = handed[i][1]
    BY Zenon
  <2> HIDE DEF by
  <2> QED BY <2>1 DEF InTurns
<1>3. by2[n + 1] = t /\ \A i \in 1..n : by2[i] = by[i]
  <2> HIDE DEF n
  <2> QED BY <1>1
<1>4. \A i \in 1..(n + 1) : by2[i] = handed'[i][1]
  BY Zenon
<1>5. (t \in Writer => con_userlock_write = t)
      /\ \A u \in Writer : con_pc'[u] = "start" => con_pc[u] = "start" /\ u # t
  BY Zenon
<1> HIDE DEF n, t, by, by2
<1>6. ASSUME NEW i \in 1..(n + 1), NEW j \in 1..(n + 1), NEW k \in 1..(n + 1),
             i < j, j < k, by2[i] = by2[k], by2[i] \in Writer, by2[j] \in Writer
      PROVE  by2[j] = by2[i]
  <2>1. i \in 1..n /\ j \in 1..n /\ (k \in 1..n \/ k = n + 1)
    BY <1>1, <1>6
  <2> QED
    BY <1>2, <1>3, <1>5, <1>6, <2>1
<1>7. ASSUME NEW i \in 1..(n + 1), NEW j \in 1..(n + 1),
             i < j, by2[i] = con_userlock_write, con_userlock_write \in Writer, by2[j] \in Writer
      PROVE  by2[j] = by2[i]
  <2>1. i \in 1..n /\ (j \in 1..n \/ j = n + 1)
    BY <1>1, <1>7
  <2> QED
    BY <1>2, <1>3, <1>5, <1>7, <2>1, Zenon
<1>8. ASSUME NEW u \in Writer, con_pc'[u] = "start", NEW i \in 1..(n + 1) PROVE by2[i] # u
  <2>1. i \in 1..n \/ i = n + 1
    BY <1>1
  <2> QED
    BY <1>2, <1>3, <1>5, <1>8, <2>1, Zenon
<1> QED
  BY <1>1, <1>4, <1>6, <1>7, <1>8 DEF InTurns

\* A write begins and ends between the writes of others: con_userlock_write.
LEMMA TurnsStep ==
  ASSUME ConInv, ConNext
  PROVE  InTurns'
<1>0. InTurns /\ ConPlaces /\ ThreadTypes /\ CardState
  BY ConTypeParts, Zenon DEF ConInv
<1>1. ASSUME NEW t \in ConThread, lser_write(t) PROVE InTurns'
  <2>1. t \in Outputter /\ WritesChar(t)
    BY <1>1, WriteFindsFree, Zenon
  <2> DEFINE x == <<t, Head(pending[t])>>
  <2>2. x \in Msg
    BY <1>0, <2>1 DEF Msg, ThreadTypes, WritesChar, Char
  <2>3. x[1] = t /\ handed' = Append(handed, x) /\ con_userlock_write' = con_userlock_write
    BY <2>1, Zenon DEF WritesChar, locks
  <2>4. t \in Writer => con_userlock_write = t
    BY <1>0, <2>1, Zenon DEF ConPlaces, WriterPlace, WritesChar
  <2>5. \A u \in Writer : con_pc'[u] = "start" => con_pc[u] = "start" /\ u # t
    <3>1. AfterPut(t) # "start"
      BY Zenon DEF AfterPut
    <3> QED
      BY <1>0, <2>1, <3>1, ConThreads, Zenon DEF WritesChar, ThreadTypes
  <2> HIDE DEF x
  <2> QED
    BY <1>0, <2>2, <2>3, <2>4, <2>5, TurnsAppend, Zenon DEF CardState
<1>2. CASE lser_writepolled
  <2> DEFINE x == <<Handler, "p">>
  <2>1. x \in Msg /\ x[1] = Handler
    BY Zenon DEF Msg, Char
  <2>2. handed' = Append(handed, x) /\ con_userlock_write' = con_userlock_write /\ con_pc' = con_pc
    BY <1>2, Zenon DEF lser_writepolled, locks, thrvars
  <2> HIDE DEF x
  <2> QED
    BY <1>0, <2>1, <2>2, TurnsAppend, ConThreads, Zenon DEF CardState
<1>3. ASSUME NEW t \in ConThread, con_io_write(t) PROVE InTurns'
  <2>1. t \in Writer /\ con_pc[t] = "start" /\ handed' = handed /\ con_userlock_write' = t
    BY <1>3, Zenon DEF con_io_write, output
  <2>2. con_pc' = [con_pc EXCEPT ![t] = "char"]
    BY <1>3, Zenon DEF con_io_write, ConGoto
  <2>3. \A u \in Writer : con_pc'[u] = "start" => con_pc[u] = "start"
    BY <1>0, <2>2, ConThreads, Zenon DEF ThreadTypes
  <2>4. \A i \in 1..Len(handed) : handed[i][1] # t
    BY <1>0, <2>1, Zenon DEF InTurns
  <2>5. \A i, j, k \in 1..Len(handed) :
          i < j /\ j < k /\ handed[i][1] = handed[k][1] /\ handed[i][1] \in Writer
            /\ handed[j][1] \in Writer => handed[j][1] = handed[i][1]
    BY <1>0, Zenon DEF InTurns
  <2>6. \A u \in Writer : con_pc'[u] = "start" => \A i \in 1..Len(handed) : handed[i][1] # u
    BY <1>0, <2>3, Zenon DEF InTurns
  <2> QED
    BY <2>1, <2>4, <2>5, <2>6 DEF InTurns
<1>4. ASSUME NEW t \in ConThread, con_io_written(t) PROVE InTurns'
  <2>1. t \in Writer /\ handed' = handed /\ con_userlock_write' = NULL
    BY <1>4, Zenon DEF con_io_written, output
  <2>2. \A u \in Writer : con_pc'[u] = "start" => con_pc[u] = "start"
    BY <1>0, <1>4, ConThreads, Zenon DEF ThreadTypes, con_io_written, ConGoto
  <2>3. NULL \notin Writer
    BY ConThreads, Zenon
  <2> QED
    BY <1>0, <2>1, <2>2, <2>3 DEF InTurns
<1>5. ASSUME handed' = handed, con_userlock_write' = con_userlock_write,
             \A u \in Writer : con_pc'[u] = "start" => con_pc[u] = "start"
      PROVE  InTurns'
  BY <1>0, <1>5 DEF InTurns
<1>6. CASE lser_irq \/ Transmitted \/ Struck
  BY <1>5, <1>6, Zenon DEF lser_irq, Transmitted, Struck, thrvars, output, locks
<1>7. ASSUME NEW t \in ConThread, ConStep(t), ~lser_write(t), ~con_io_write(t), ~con_io_written(t)
      PROVE  InTurns'
  <2>1. handed' = handed /\ con_userlock_write' = con_userlock_write
    BY <1>7, Zenon DEF ConStep, putch_delayed, config_con, kprintf, kprintf_return, con_io_char, putch_intr,
       con_io_read, getch_intr, GotChar, output, locks
  <2>2. con_pc' = con_pc \/ \E l \in ConPc \ {"start"} : con_pc' = [con_pc EXCEPT ![t] = l]
    BY <1>7, Zenon DEF ConStep, putch_delayed, config_con, kprintf, kprintf_return, con_io_char, putch_intr,
       con_io_read, getch_intr, GotChar, ConGoto, ConPc
  <2>3. \A u \in Writer : con_pc'[u] = "start" => con_pc[u] = "start"
    BY <1>0, <2>2, ConThreads, Zenon DEF ThreadTypes
  <2> QED
    BY <1>5, <2>1, <2>3, Zenon
<1> QED
  BY <1>1, <1>2, <1>3, <1>4, <1>6, <1>7, Zenon DEF ConNext
\* A list whose first character moves to the list before it.
LEMMA HeadMoves ==
  ASSUME NEW S, NEW f \in Seq(S), NEW p \in Seq(S), p # <<>>
  PROVE  Append(f, Head(p)) \o Tail(p) = f \o p
<1>1. Head(p) \in S /\ Tail(p) \in Seq(S) /\ Append(f, Head(p)) \in Seq(S)
  OBVIOUS
<1> QED
  BY <1>1

\* A character at the end of the second list is at the end of both.
LEMMA AppendConcat ==
  ASSUME NEW S, NEW a \in Seq(S), NEW b \in Seq(S), NEW c \in S
  PROVE  a \o Append(b, c) = Append(a \o b, c) /\ a \o b \in Seq(S)
  OBVIOUS

\* What the texts are made of.
LEMMA TextTypes ==
  ASSUME ConInv, NEW t \in Outputter
  PROVE  /\ From(t, handed) \in Seq(Char) /\ pending[t] \in Seq(Char)
         /\ todo[t] \in Seq(Ascii) /\ delayed_outbuf \in Seq(Ascii)
         /\ todo[t] \in Seq(Char) /\ delayed_outbuf \in Seq(Char)
<1>1. ThreadTypes /\ handed \in Seq(Msg)
  BY ConTypeParts, Zenon DEF ConInv, CardState
<1>2. From(t, handed) \in Seq(Char)
  BY <1>1, FromAppend, Zenon
<1>3. pending[t] \in Seq({"a", "\n", "\r"}) /\ todo[t] \in Seq(Ascii) /\ delayed_outbuf \in Seq(Ascii)
  BY <1>1, Zenon DEF ThreadTypes, Ascii
<1>4. \A q \in Seq({"a", "\n", "\r"}) : q \in Seq(Char)
  BY DEF Char
<1>5. \A q \in Seq(Ascii) : q \in Seq(Char)
  BY DEF Char, Ascii
<1> QED
  BY <1>2, <1>3, <1>4, <1>5, Zenon

\* The outputters that a step leaves alone have put, and have to put, what they had.
LEMMA BeganStays ==
  ASSUME NEW t \in Outputter, NEW s, Began(t, s), todo'[t] = todo[t],
         From(t, handed') = From(t, handed), Later(t)' = Later(t)
  PROVE  Began(t, s)'
  BY Zenon DEF Began
\* A step of the outputter t that hands nothing to the card concerns its own text.
LEMMA OwnText ==
  ASSUME ConInv, NEW t \in Outputter, handed' = handed,
         \A u \in Outputter \ {t} : todo'[u] = todo[u] /\ pending'[u] = pending[u],
         t # Boot => delayed_outbuf' = delayed_outbuf,
         \E s \in Seq(Ascii) : Began(t, s)'
  PROVE  AllThere'
<1> SUFFICES ASSUME NEW u \in Outputter PROVE \E s \in Seq(Ascii) : Began(u, s)'
  BY Zenon DEF AllThere
<1>1. CASE u # t
  <2>1. PICK s \in Seq(Ascii) : Began(u, s)
    BY Zenon DEF ConInv, AllThere
  <2>2. Later(u)' = Later(u)
    BY <1>1, Zenon DEF Later
  <2>3. Began(u, s)'
    BY <1>1, <2>1, <2>2, BeganStays, Zenon
  <2> QED
    BY <2>3, Zenon
<1> QED
  BY <1>1, Zenon

\* con_io, kprintf and the boot output take from the text what they put.
LEMMA TakenStep ==
  ASSUME ConInv, NEW t \in ConThread,
         putch_delayed(t) \/ config_con(t) \/ kprintf(t) \/ con_io_char(t)
  PROVE  AllThere'
<1> USE ConThreads
<1>0. ThreadTypes /\ t \in Outputter /\ ConPlaces
  BY ConTypeParts, Zenon DEF ConInv, putch_delayed, config_con, kprintf, con_io_char
<1>1. PICK s \in Seq(Ascii) : Began(t, s)
  BY <1>0, Zenon DEF ConInv, AllThere
<1> DEFINE f == From(t, handed)
           p == pending[t]
           d == delayed_outbuf
           r == todo[t]
           w == IF t \in Writer THEN Expansion(s) ELSE s
<1>2. /\ f \in Seq(Char) /\ p \in Seq(Char) /\ r \in Seq(Ascii) /\ d \in Seq(Ascii)
      /\ r \in Seq(Char) /\ d \in Seq(Char) /\ s \in Seq(Char)
  <2>1. s \in Seq(Char)
    BY <1>1 DEF Char, Ascii
  <2> QED BY <1>0, <1>1, <2>1, TextTypes, Zenon
<1>3. s \o r = Text[t] /\ f \o Later(t) = w
  BY <1>1, Zenon DEF Began
<1>4. CASE putch_delayed(t)
  <2>1. /\ t = Boot /\ t \notin Writer /\ r # <<>> /\ pending' = pending /\ handed' = handed
        /\ delayed_outbuf' = Append(d, Head(r)) /\ todo' = [todo EXCEPT ![t] = Tail(r)]
    BY <1>4, Zenon DEF putch_delayed, output
  <2>2. \A u \in Outputter \ {t} : todo'[u] = todo[u] /\ pending'[u] = pending[u]
    BY <1>0, <2>1, Zenon DEF ThreadTypes
  <2>3. todo'[t] = Tail(r) /\ Later(t)' = p \o Append(d, Head(r)) /\ From(t, handed') = f
    BY <1>0, <2>1, Zenon DEF ThreadTypes, Later
  <2>4. f \o (p \o d) = s
    BY <1>3, <2>1, Zenon DEF Later
  <2> HIDE DEF f, p, d, r
  <2>5. Head(r) \in Ascii /\ Append(s, Head(r)) \in Seq(Ascii) /\ Head(r) \in Char
    BY <1>2, <2>1 DEF Ascii, Char
  <2>6. Append(s, Head(r)) \o Tail(r) = Text[t]
    BY <1>2, <1>3, <2>1, HeadMoves, Zenon
  <2>7. f \o (p \o Append(d, Head(r))) = Append(f \o (p \o d), Head(r))
    <3> DEFINE c == Head(r)
    <3> HIDE DEF c
    <3>1. c \in Char
      BY <2>5, Zenon DEF c
    <3>2. p \o Append(d, c) = Append(p \o d, c) /\ p \o d \in Seq(Char)
      BY <1>2, <3>1, AppendConcat, Zenon
    <3>3. f \o Append(p \o d, c) = Append(f \o (p \o d), c)
      BY <1>2, <3>1, <3>2, AppendConcat
    <3> QED
      BY <3>2, <3>3, Zenon DEF c
  <2>8. PICK v \in Seq(Ascii) : v = Append(s, Head(r))
    BY <2>5, Zenon
  <2>9. Began(t, v)'
    BY <2>1, <2>3, <2>4, <2>6, <2>7, <2>8, Zenon DEF Began
  <2> QED
    BY <1>0, <2>1, <2>2, <2>9, OwnText, Zenon
<1>5. CASE config_con(t)
  <2>1. /\ t = Boot /\ t \notin Writer /\ todo' = todo /\ handed' = handed /\ con_pc[t] = "early"
        /\ delayed_outbuf' = <<>> /\ pending' = [pending EXCEPT ![t] = d]
    BY <1>5, Zenon DEF config_con, output
  <2>2. \A u \in Outputter \ {t} : todo'[u] = todo[u] /\ pending'[u] = pending[u]
    BY <1>0, <2>1, Zenon DEF ThreadTypes
  <2>3. p = <<>>
    BY <1>0, <2>1, Zenon DEF ConPlaces
  <2>4. Later(t) = p \o d /\ Later(t)' = d \o <<>>
    BY <1>0, <2>1, Zenon DEF ThreadTypes, Later
  <2>5. <<>> \o d = d /\ d \o <<>> = d
    BY <1>2
  <2>6. Began(t, s)'
    BY <1>0, <1>1, <2>1, <2>3, <2>4, <2>5, BeganStays, Zenon
  <2> QED
    BY <1>0, <2>1, <2>2, <2>6, OwnText, Zenon
<1>6. CASE kprintf(t)
  <2>1. /\ t \in Printer /\ t # Boot /\ t \notin Writer /\ con_pc[t] = "start"
        /\ pending' = [pending EXCEPT ![t] = r] /\ todo' = [todo EXCEPT ![t] = <<>>]
        /\ handed' = handed /\ delayed_outbuf' = delayed_outbuf
    BY <1>6, Zenon DEF kprintf, output, boot
  <2>2. \A u \in Outputter \ {t} : todo'[u] = todo[u] /\ pending'[u] = pending[u]
    BY <1>0, <2>1, Zenon DEF ThreadTypes
  <2>3. p = <<>>
    BY <1>0, <2>1, Zenon DEF ConPlaces
  <2>4. Later(t) = p /\ Later(t)' = r /\ todo'[t] = <<>> /\ From(t, handed') = f
    BY <1>0, <2>1, Zenon DEF ThreadTypes, Later
  <2> HIDE DEF f, p, r
  <2>5. f = s
    <3>1. f \o <<>> = f
      BY <1>2
    <3>2. Later(t) = <<>> /\ w = s
      BY <2>1, <2>3, <2>4, Zenon
    <3> QED BY <1>3, <3>1, <3>2, Zenon
  <2>6. s \o r \in Seq(Ascii) /\ (s \o r) \o <<>> = s \o r
    BY <1>2
  <2>7. PICK v \in Seq(Ascii) : v = s \o r
    BY <2>6, Zenon
  <2>8. Began(t, v)'
    BY <1>3, <2>1, <2>4, <2>5, <2>6, <2>7, Zenon DEF Began
  <2> QED
    BY <1>0, <2>1, <2>2, <2>8, OwnText
<1>7. CASE con_io_char(t)
  <2>1. /\ t \in Writer /\ t # Boot /\ con_pc[t] = "char" /\ r # <<>>
        /\ pending' = [pending EXCEPT ![t] = Translated(Head(r))]
        /\ todo' = [todo EXCEPT ![t] = Tail(r)]
        /\ handed' = handed /\ delayed_outbuf' = delayed_outbuf
    BY <1>7, Zenon DEF con_io_char, output, boot
  <2>2. \A u \in Outputter \ {t} : todo'[u] = todo[u] /\ pending'[u] = pending[u]
    BY <1>0, <2>1, Zenon DEF ThreadTypes
  <2>3. p = <<>>
    BY <1>0, <2>1, Zenon DEF ConPlaces
  <2>4. /\ Later(t) = p /\ Later(t)' = Translated(Head(r)) /\ todo'[t] = Tail(r)
        /\ From(t, handed') = f
    BY <1>0, <2>1, Zenon DEF ThreadTypes, Later
  <2> HIDE DEF f, p, r
  <2>5. f = Expansion(s)
    <3>1. f \o <<>> = f
      BY <1>2
    <3>2. Later(t) = <<>>
      BY <2>3, <2>4, Zenon
    <3> QED BY <1>3, <2>1, <3>1, <3>2, Zenon
  <2>6. Head(r) \in Ascii /\ Append(s, Head(r)) \in Seq(Ascii)
    BY <1>2, <2>1
  <2>7. Append(s, Head(r)) \o Tail(r) = Text[t]
    BY <1>2, <1>3, <2>1, HeadMoves, Zenon
  <2>8. f \o Translated(Head(r)) = Expansion(Append(s, Head(r)))
    BY <1>1, <2>5, <2>6, ExpansionAppend, Zenon
  <2>9. PICK v \in Seq(Ascii) : v = Append(s, Head(r))
    BY <2>6, Zenon
  <2>10. Began(t, v)'
    BY <2>1, <2>4, <2>7, <2>8, <2>9, Zenon DEF Began
  <2> QED
    BY <1>0, <2>1, <2>2, <2>10, OwnText, Zenon
<1> QED
  BY <1>4, <1>5, <1>6, <1>7, Zenon

\* What is handed to the card is the next character of its outputter, and of no
\* other's.
LEMMA HandedStep ==
  ASSUME ConInv, NEW t, lser_write(t)
  PROVE  AllThere'
<1> USE ConThreads
<1>0. t \in Outputter /\ WritesChar(t) /\ ThreadTypes /\ handed \in Seq(Msg)
  BY WriteFindsFree, ConTypeParts, Zenon DEF ConInv, CardState
<1> DEFINE f == From(t, handed)
           p == pending[t]
           x == <<t, Head(p)>>
<1>1. f \in Seq(Char) /\ p \in Seq(Char)
  BY <1>0, TextTypes, Zenon
<1>2. p # <<>> /\ handed' = Append(handed, x) /\ UNCHANGED <<todo, delayed_outbuf>>
      /\ pending' = [pending EXCEPT ![t] = Tail(p)]
  BY <1>0, Zenon DEF WritesChar, boot
<1>3. x \in Msg /\ x[1] = t /\ x[2] = Head(p)
  BY <1>0, <1>2 DEF Msg, ThreadTypes, Char
<1>4. ASSUME NEW u \in Outputter, u # t PROVE \E s \in Seq(Ascii) : Began(u, s)'
  <2>1. PICK s \in Seq(Ascii) : Began(u, s)
    BY Zenon DEF ConInv, AllThere
  <2>2. From(u, handed') = From(u, handed)
    <3> HIDE DEF x
    <3> QED BY <1>0, <1>2, <1>3, <1>4, FromAppend, Zenon
  <2>3. Later(u)' = Later(u)
    BY <1>0, <1>2, <1>4, Zenon DEF Later, ThreadTypes
  <2> QED
    BY <1>2, <2>1, <2>2, <2>3, BeganStays, Zenon
<1>5. \E s \in Seq(Ascii) : Began(t, s)'
  <2>1. PICK s \in Seq(Ascii) : Began(t, s)
    BY <1>0, Zenon DEF ConInv, AllThere
  <2>2. From(t, handed') = Append(f, Head(p))
    <3> HIDE DEF x
    <3> QED BY <1>0, <1>2, <1>3, FromAppend, Zenon
  <2>3. Later(t) = p /\ Later(t)' = Tail(p)
    <3>1. pending'[t] = Tail(p)
      BY <1>0, <1>2, Zenon DEF ThreadTypes
    <3>2. t = Boot => delayed_outbuf = <<>> /\ delayed_outbuf' = <<>>
      BY <1>0, <1>2, Zenon DEF WritesChar, ConInv, ConPlaces, BootPlace
    <3>3. p \o <<>> = p /\ Tail(p) \o <<>> = Tail(p)
      BY <1>1, <1>2
    <3> QED
      BY <3>1, <3>2, <3>3, Zenon DEF Later
  <2> HIDE DEF f, p
  <2>4. From(t, handed') \o Later(t)' = f \o Later(t)
    BY <1>1, <1>2, <2>2, <2>3, HeadMoves, Zenon
  <2> QED
    BY <1>2, <2>1, <2>4, Zenon DEF Began, f
<1> QED
  BY <1>4, <1>5, Zenon DEF AllThere

\* Every step keeps each outputter's text whole.
LEMMA AllThereStep ==
  ASSUME ConInv, ConNext
  PROVE  AllThere'
<1>1. ASSUME UNCHANGED <<todo, pending, delayed_outbuf, handed>> PROVE AllThere'
  BY <1>1, Zenon DEF ConInv, AllThere, Began, Later
<1>2. CASE lser_irq \/ Transmitted \/ Struck
  BY <1>1, <1>2, Zenon DEF lser_irq, Transmitted, Struck, thrvars, output, boot
<1>3. ASSUME NEW t \in ConThread, ConStep(t) PROVE AllThere'
  <2>1. CASE putch_delayed(t) \/ config_con(t) \/ kprintf(t) \/ con_io_char(t)
    BY <2>1, TakenStep, Zenon
  <2>2. CASE lser_write(t)
    BY <2>2, HandedStep, Zenon
  <2>3. CASE kprintf_return(t) \/ con_io_write(t) \/ con_io_written(t) \/ putch_intr(t)
             \/ con_io_read(t) \/ getch_intr(t) \/ GotChar(t)
    BY <1>1, <2>3, Zenon DEF kprintf_return, con_io_write, con_io_written, putch_intr, con_io_read, getch_intr,
       GotChar, output, boot
  <2> QED
    BY <1>3, <2>1, <2>2, <2>3, Zenon DEF ConStep
<1>4. CASE lser_writepolled
  <2> DEFINE x == <<Handler, "p">>
  <2>1. x \in Msg /\ x[1] = Handler
    BY Zenon DEF Msg, Char
  <2>2. handed' = Append(handed, x) /\ UNCHANGED <<todo, pending, delayed_outbuf>>
    BY <1>4, Zenon DEF lser_writepolled, thrvars, boot
  <2> HIDE DEF x
  <2>3. \A u \in Outputter : From(u, handed') = From(u, handed)
    BY <2>1, <2>2, FromAppend, ConThreads, Zenon DEF ConInv, CardState
  <2> QED
    BY <2>2, <2>3, Zenon DEF ConInv, AllThere, Began, Later
<1> QED
  BY <1>2, <1>3, <1>4, Zenon DEF ConNext
\* Every step of console.c and lser.c keeps the invariant.
LEMMA ConInvStep == ConInv /\ [ConNext]_con_vars => ConInv'
<1>1. ASSUME ConInv, ConNext PROVE ConInv'
  <2>1. ThreadTypes' /\ SharedTypes' /\ CardState' /\ Len(sending') \in 0..1
    BY <1>1, ThreadTypeStep, SharedTypeStep, CardConStep, Zenon
  <2>2. ConTypeOK'
    BY <2>1, ConTypeParts, Zenon
  <2>3. UnitPlaced' /\ KeysWait' /\ ConPlaces' /\ InTurns' /\ AllThere'
    BY <1>1, UnitStep, KeysStep, PlacesStep, TurnsStep, AllThereStep
  <2> QED
    BY <2>1, <2>2, <2>3, Zenon DEF ConInv
<1>2. ASSUME ConInv, UNCHANGED con_vars PROVE ConInv'
  <2> USE <1>2 DEF ConInv, con_vars, thrvars, locks, sems, output, input, boot, others
  <2>1. ConTypeOK'
    BY DEF ConTypeOK
  <2>2. UnitPlaced' /\ CardState' /\ KeysWait'
    BY Zenon DEF UnitPlaced, CardState, KeysWait
  <2>3. ConPlaces'
    BY Zenon DEF ConPlaces, WriterPlace, PrinterPlace, BootPlace, ReaderPlace
  <2>4. InTurns'
    <3>1. handed' = handed /\ con_userlock_write' = con_userlock_write /\ con_pc' = con_pc
      BY Zenon
    <3>2. InTurns
      BY Zenon
    <3> HIDE <1>2
    <3> QED BY <3>1, <3>2 DEF InTurns
  <2>5. ASSUME NEW t \in Outputter, NEW s \in Seq(Ascii), Began(t, s) PROVE Began(t, s)'
    BY <2>5, Zenon DEF Began, Later
  <2>6. AllThere'
    BY <2>5, Zenon DEF AllThere
  <2> QED
    BY <2>1, <2>2, <2>3, <2>4, <2>6, Zenon
<1> QED
  BY <1>1, <1>2, Zenon

\* For any threads, texts and keys: the unit of cs_wsem is in one place, the card's
\* state is the driver's, and every outputter's text is whole, in every state of
\* console.c and lser.c.
THEOREM ConInvariant == ConSpec => []ConInv
  BY ConInvInit, ConInvStep, PTL DEF ConSpec

\* The invariant says where the unit is, and that an interrupt comes while it is
\* with the card.
LEMMA UnitCounted == ConInv => ConTypeOK /\ OneUnit /\ BusyMeansInterrupt
<1> SUFFICES ASSUME ConInv PROVE ConTypeOK /\ OneUnit /\ BusyMeansInterrupt
  BY Zenon
<1>0. ConTypeOK /\ SharedTypes /\ UnitPlaced /\ CardState
  BY ConTypeParts, Zenon DEF ConInv
<1>1. OneUnit
  <2>1. CASE \E t \in Outputter : con_pc[t] = "send"
    <3>1. PICK t \in Outputter : con_pc[t] = "send"
      BY <2>1, Zenon
    <3>2. Sending = {t}
      BY <1>0, <3>1, Zenon DEF UnitPlaced, Sending
    <3>3. Cardinality(Sending) = 1
      BY <3>2, CardinalityOfOne, Zenon
    <3>4. cs_wsem = 0 /\ ls_wbusy = FALSE /\ panicked = FALSE
      BY <1>0, <3>1, Zenon DEF UnitPlaced
    <3> QED
      BY <3>3, <3>4 DEF OneUnit
  <2>2. CASE ~ \E t \in Outputter : con_pc[t] = "send"
    <3>1. Sending = {}
      BY <2>2, Zenon DEF Sending
    <3>2. Cardinality(Sending) = 0
      BY <3>1, CardinalityOfNone, Zenon
    <3>3. panicked = FALSE /\ ((cs_wsem = 1 /\ ls_wbusy = FALSE) \/ (cs_wsem = 0 /\ ls_wbusy = TRUE))
      BY <1>0, <2>2 DEF UnitPlaced, SharedTypes
    <3> QED
      BY <3>2, <3>3 DEF OneUnit
  <2> QED
    BY <2>1, <2>2, Zenon
<1>2. BusyMeansInterrupt
  BY <1>0, Zenon DEF CardState, SharedTypes, BusyMeansInterrupt
<1> QED
  BY <1>0, <1>1, <1>2, Zenon

\* For any number of threads that print: the unit of cs_wsem is never lost or
\* doubled, lser_write never panics, and while the card is busy for the driver its
\* interrupt is sent or due.
THEOREM SerialUnitKept == ConSpec => [](ConTypeOK /\ OneUnit /\ BusyMeansInterrupt)
  BY ConInvariant, UnitCounted, PTL

\* The invariant has the output exact.
LEMMA OutputFollows == ConInv => OutputExact
<1> SUFFICES ASSUME ConInv PROVE OutputExact
  BY Zenon
<1>1. NothingOverwritten
  BY Zenon DEF ConInv, CardState, NothingOverwritten
<1>2. WritesAtomic
  BY <1>1, Zenon DEF ConInv, InTurns, NothingOverwritten, WritesAtomic
<1>3. ASSUME NEW t \in Outputter, con_pc[t] = "done"
      PROVE  From(t, wire \o sending) = IF t \in Writer THEN Expansion(Text[t]) ELSE Text[t]
  <2>1. PICK s \in Seq(Ascii) : Began(t, s)
    BY Zenon DEF ConInv, AllThere
  <2>2. pending[t] = <<>> /\ todo[t] = <<>> /\ (t = Boot => delayed_outbuf = <<>>)
    <3>1. t \in Writer \/ t \in Printer \/ t = Boot
      BY Zenon DEF Outputter
    <3> QED
      BY <1>3, <3>1, Zenon DEF ConInv, ConPlaces, WriterPlace, PrinterPlace, BootPlace
  <2>3. Later(t) = <<>>
    <3>1. <<>> \o <<>> = <<>>
      OBVIOUS
    <3> QED
      BY <2>2, <3>1, Zenon DEF Later
  <2>4. From(t, handed) \in Seq(Char) /\ s \o <<>> = s
    BY TextTypes
  <2>5. From(t, handed) \o <<>> = From(t, handed)
    <3> DEFINE f == From(t, handed)
    <3> HIDE DEF f
    <3>1. f \in Seq(Char)
      BY <2>4, Zenon DEF f
    <3>2. f \o <<>> = f
      BY <3>1
    <3> QED BY <3>2, Zenon DEF f
  <2>6. s = Text[t] /\ From(t, handed) = IF t \in Writer THEN Expansion(s) ELSE s
    BY <2>1, <2>2, <2>3, <2>4, <2>5, Zenon DEF Began
  <2>7. wire \o sending = handed
    BY <1>1, Zenon DEF NothingOverwritten
  <2> QED
    BY <2>6, <2>7, Zenon
<1> QED
  BY <1>1, <1>2, <1>3, Zenon DEF PrintedInFull, OutputExact

\* For any threads and texts: nothing that is printed is lost or written over, a
\* write or kprintf that has returned is on the wire in full and in order, what was
\* printed before config_con too, and no user's write has another inside it.
THEOREM ConsoleOutputExact == ConSpec => []OutputExact
  BY ConInvariant, OutputFollows, PTL
============================================================================
