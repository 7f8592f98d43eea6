----------------------------- MODULE VfsProofs -----------------------------
(***************************************************************************)
(* Proofs about Vfs: every vnode's counts are those of the references and  *)
(* open files there are, on every path through every operation, so that a  *)
(* file system in use stays mounted.                                       *)
(***************************************************************************)
EXTENDS Vfs, InductionFacts

PathLookups == {OneVnode, OneParent, TwoParents, VnodeAndParent}
Places == {"idle", "look", "failed", "found", "open", "boot", "sync", "synced"}

\* What a call that is at c holds in h: after each lookup the vnode it found, and
\* in a lookup perhaps the one it started from.
LocalOK(c, h) ==
  /\ c.at \in {"idle", "boot", "sync", "synced"} => h = <<>>
  /\ c.at \in {"look", "failed", "found"} => c.lookups \in PathLookups
  /\ c.at = "look" => c.n \in 1..Len(c.lookups) /\ Len(h) \in {c.n - 1, c.n}
  /\ c.at = "found" => Len(h) = Len(c.lookups)
  /\ c.at = "open" => Len(h) = 1

CallType == [lookups : PathLookups \cup {<<>>}, at : Places, n : 0..2]

VfsTypes ==
  /\ VfsTypeOK
  /\ held \in [VfsThread -> Seq(Vnode)]
  /\ call \in [VfsThread -> CallType]
----------------------------------------------------------------------------
(* Counting                                                                *)

Is(x, v) == IF x = v THEN 1 ELSE 0

\* How often a vnode is in a list of references.
LEMMA TimesFacts ==
  ASSUME NEW v \in Vnode
  PROVE  /\ Times(v, <<>>) = 0
         /\ \A s \in Seq(Vnode) : Times(v, s) \in Nat
         /\ \A s \in Seq(Vnode), x \in Vnode : Times(v, Append(s, x)) = Times(v, s) + Is(x, v)
<1>1. Times(v, <<>>) = 0
  <2>1. {i \in DOMAIN <<>> : <<>>[i] = v} = {}
    OBVIOUS
  <2> QED BY <2>1, CardinalityOfNone, Zenon DEF Times
<1>2. ASSUME NEW s \in Seq(Vnode)
      PROVE  IsFiniteSet({i \in DOMAIN s : s[i] = v}) /\ Times(v, s) \in Nat
  <2>1. DOMAIN s = 1..Len(s) /\ Len(s) \in Nat
    OBVIOUS
  <2>2. IsFiniteSet(1..Len(s))
    <3>1. IsFiniteSet(1..(1 + Len(s) - 1)) /\ 1 + Len(s) - 1 = Len(s)
      BY <2>1, CardinalityOfInterval
    <3> QED BY <3>1, Zenon
  <2>3. IsFiniteSet({i \in DOMAIN s : s[i] = v})
    BY <2>1, <2>2, FiniteParts, Zenon
  <2> QED BY <2>3, CardinalityGrows, Zenon DEF Times
<1>3. ASSUME NEW s \in Seq(Vnode), NEW x \in Vnode
      PROVE  Times(v, Append(s, x)) = Times(v, s) + Is(x, v)
  <2> DEFINE A == {i \in DOMAIN s : s[i] = v}
             n == Len(s)
             r == Append(s, x)
             B == {i \in DOMAIN r : r[i] = v}
  <2>1. /\ n \in Nat /\ DOMAIN s = 1..n /\ DOMAIN r = 1..(n + 1) /\ r[n + 1] = x
        /\ \A i \in 1..n : r[i] = s[i]
    OBVIOUS
  <2>2. IsFiniteSet(A) /\ Cardinality(A) = Times(v, s) /\ Cardinality(A) \in Nat
    BY <1>2, Zenon DEF Times
  <2>3. Cardinality(B) = Times(v, r)
    BY Zenon DEF Times
  <2>4. n + 1 \notin A
    BY <2>1
  <2> HIDE DEF r, n
  <2>5. CASE x = v
    <3>1. B = A \cup {n + 1}
      BY <2>1, <2>5
    <3> HIDE DEF A, B
    <3>2. Cardinality(B) = Cardinality(A) + 1
      BY <2>2, <2>4, <3>1, CardinalityGrows, Zenon
    <3> QED BY <2>2, <2>3, <2>5, <3>2, Zenon DEF Is, r
  <2>6. CASE x # v
    <3>1. B = A
      BY <2>1, <2>6
    <3> HIDE DEF A, B
    <3> QED BY <2>2, <2>3, <2>6, <3>1 DEF Is, r
  <2> QED BY <2>5, <2>6, Zenon
<1> QED
  BY <1>1, <1>2, <1>3, Zenon

\* The lists the operations make.
LEMMA TimesOfLists ==
  ASSUME NEW v \in Vnode
  PROVE  /\ \A x \in Vnode \cup {NoVnode} : One(x) \in Seq(Vnode) /\ Times(v, One(x)) = Is(x, v)
         /\ \A x \in Vnode : <<x>> \in Seq(Vnode) /\ Times(v, <<x>>) = Is(x, v)
         /\ \A x \in Vnode \cup {NoVnode}, y \in Vnode :
              One(x) \o <<y>> \in Seq(Vnode) /\ Times(v, One(x) \o <<y>>) = Is(x, v) + Is(y, v)
<1>1. <<>> \in Seq(Vnode) /\ v # NoVnode /\ Times(v, <<>>) = 0
  BY TimesFacts, VfsAssumption
<1>2. ASSUME NEW x \in Vnode PROVE <<x>> \in Seq(Vnode) /\ Times(v, <<x>>) = Is(x, v)
  <2>1. <<x>> = Append(<<>>, x)
    OBVIOUS
  <2>2. Times(v, Append(<<>>, x)) = Times(v, <<>>) + Is(x, v)
    BY <1>1, TimesFacts, Zenon
  <2>3. Times(v, <<x>>) = Is(x, v)
    BY <1>1, <2>1, <2>2 DEF Is
  <2> QED BY <2>3
<1>3. ASSUME NEW x \in Vnode \cup {NoVnode} PROVE One(x) \in Seq(Vnode) /\ Times(v, One(x)) = Is(x, v)
  <2>1. CASE x = NoVnode
    BY <1>1, <2>1, Zenon DEF One, Is
  <2>2. CASE x # NoVnode
    BY <1>2, <2>2, Zenon DEF One
  <2> QED BY <2>1, <2>2, Zenon
<1>4. ASSUME NEW x \in Vnode \cup {NoVnode}, NEW y \in Vnode
      PROVE  One(x) \o <<y>> \in Seq(Vnode) /\ Times(v, One(x) \o <<y>>) = Is(x, v) + Is(y, v)
  <2>1. One(x) \in Seq(Vnode) /\ Times(v, One(x)) = Is(x, v)
    BY <1>3, Zenon
  <2>2. One(x) \o <<y>> = Append(One(x), y)
    BY <2>1
  <2>3. Times(v, Append(One(x), y)) = Times(v, One(x)) + Is(y, v)
    BY <2>1, TimesFacts, Zenon
  <2>4. Append(One(x), y) \in Seq(Vnode)
    BY <2>1
  <2> QED BY <2>1, <2>2, <2>3, <2>4, Zenon
<1> QED
  BY <1>2, <1>3, <1>4, Zenon

\* A list that is not empty, its last member and the rest.
LEMMA TimesOfFront ==
  ASSUME NEW v \in Vnode, NEW s \in Seq(Vnode), s # <<>>, NEW x \in Vnode \cup {NoVnode}
  PROVE  /\ Last(s) \in Vnode /\ Front(s) \o One(x) \in Seq(Vnode)
         /\ Len(Front(s) \o One(x)) = IF x = NoVnode THEN Len(s) - 1 ELSE Len(s)
         /\ Times(v, Front(s) \o One(x)) = Times(v, s) - Is(Last(s), v) + Is(x, v)
         /\ Times(v, s) >= Is(Last(s), v)
<1> DEFINE n == Len(s) - 1
           f == Front(s)
<1>1. n \in Nat /\ Len(s) = n + 1 /\ \A i \in 1..n : s[i] \in Vnode
  OBVIOUS
<1> HIDE DEF n
<1>2. /\ SubSeq(s, 1, n) \in Seq(Vnode)
      /\ Len(SubSeq(s, 1, n)) = IF 1 <= n THEN n - 1 + 1 ELSE 0
      /\ \A i \in 1..(n - 1 + 1) : SubSeq(s, 1, n)[i] = s[1 + i - 1]
  BY <1>1
<1>3. f \in Seq(Vnode) /\ Len(f) = n /\ \A i \in 1..n : f[i] = s[i]
  BY <1>1, <1>2 DEF Front, n
<1>4. Last(s) = s[n + 1] /\ Last(s) \in Vnode
  BY <1>1 DEF Last
<1> HIDE DEF f
<1>5. s = Append(f, Last(s))
  <2> DEFINE r == Append(f, Last(s))
  <2>1. r \in Seq(Vnode) /\ Len(r) = n + 1 /\ r[n + 1] = Last(s) /\ \A i \in 1..n : r[i] = f[i]
    BY <1>3, <1>4
  <2> HIDE DEF r
  <2>2. \A i \in 1..(n + 1) : r[i] = s[i]
    BY <1>1, <1>3, <1>4, <2>1
  <2>3. r = s
    BY <1>1, <2>1, <2>2
  <2> QED BY <2>3, Zenon DEF r
<1>6. Times(v, s) = Times(v, f) + Is(Last(s), v) /\ Times(v, f) \in Nat /\ Times(v, s) \in Nat
  BY <1>3, <1>4, <1>5, TimesFacts, Zenon
<1>7. CASE x = NoVnode
  <2>1. f \o One(x) = f
    BY <1>3, <1>7 DEF One
  <2>2. Is(x, v) = 0
    BY <1>7, VfsAssumption, Zenon DEF Is
  <2> QED BY <1>1, <1>3, <1>4, <1>6, <1>7, <2>1, <2>2 DEF Is, f
<1>8. CASE x # NoVnode
  <2>1. f \o One(x) = Append(f, x)
    BY <1>3, <1>8 DEF One
  <2>2. Times(v, Append(f, x)) = Times(v, f) + Is(x, v)
    BY <1>3, <1>8, TimesFacts, Zenon
  <2>3. Append(f, x) \in Seq(Vnode) /\ Len(Append(f, x)) = n + 1
    BY <1>3, <1>8
  <2> QED BY <1>1, <1>3, <1>4, <1>6, <1>8, <2>1, <2>2, <2>3 DEF Is, f
<1> QED BY <1>7, <1>8, Zenon

\* The references and the open files there are, of any current directories, boot
\* directory, open files and local variables.
CwdsOf(cwd, v) == Cardinality({t \in VfsThread : cwd[t] = v})
UsesOf(fs, hd, v) == [t \in VfsThread |-> fs[t][v] + Times(v, hd[t])]
OpensOf(fs, v) == [t \in VfsThread |-> fs[t][v]]
RefsOf(cwd, boot, fs, hd, v) ==
  CwdsOf(cwd, v) + Is(boot, v) + SumOver(VfsThread, UsesOf(fs, hd, v)) + (IF OnFs(v) THEN 0 ELSE 1)

CwdType == [VfsThread -> Vnode \cup {NoVnode}]
FilesType == [VfsThread -> [Vnode -> Nat]]
HeldType == [VfsThread -> Seq(Vnode)]

\* A change of one thread's current directory.
LEMMA CwdMoves ==
  ASSUME NEW cwd \in CwdType, NEW cwd2 \in CwdType, NEW u \in VfsThread,
         \A x \in VfsThread \ {u} : cwd2[x] = cwd[x], NEW v \in Vnode
  PROVE  /\ CwdsOf(cwd, v) \in Nat /\ CwdsOf(cwd2, v) \in Nat
         /\ CwdsOf(cwd2, v) = CwdsOf(cwd, v) + Is(cwd2[u], v) - Is(cwd[u], v)
         /\ CwdsOf(cwd, v) >= Is(cwd[u], v)
<1> DEFINE A == {t \in VfsThread : cwd[t] = v}
           B == {t \in VfsThread : cwd2[t] = v}
           R == A \ {u}
<1>1. IsFiniteSet(A) /\ IsFiniteSet(B) /\ IsFiniteSet(R)
  <2>1. A \subseteq VfsThread /\ B \subseteq VfsThread /\ R \subseteq VfsThread
    BY Zenon
  <2> HIDE DEF A, B, R
  <2> QED BY <2>1, VfsAssumption, FiniteParts, Zenon
<1>2. Cardinality(A) \in Nat /\ Cardinality(B) \in Nat /\ Cardinality(R) \in Nat
  BY <1>1, CardinalityGrows, Zenon
<1>3. R = B \ {u} /\ u \notin R
  BY Zenon
<1>4. cwd[u] = v => A = R \cup {u}
  BY Zenon
<1>5. cwd[u] # v => A = R
  BY Zenon
<1>6. cwd2[u] = v => B = R \cup {u}
  BY Zenon
<1>7. cwd2[u] # v => B = R
  BY <1>3, Zenon
<1>8. CwdsOf(cwd, v) = Cardinality(A) /\ CwdsOf(cwd2, v) = Cardinality(B)
  BY Zenon DEF CwdsOf
<1> HIDE DEF A, B, R
<1>9. Cardinality(R \cup {u}) = Cardinality(R) + 1
  BY <1>1, <1>3, CardinalityGrows, Zenon
<1>10. Cardinality(A) = Cardinality(R) + Is(cwd[u], v)
  <2>1. CASE cwd[u] = v
    BY <1>4, <1>9, <2>1, Zenon DEF Is
  <2>2. CASE cwd[u] # v
    BY <1>2, <1>5, <2>2 DEF Is
  <2> QED BY <2>1, <2>2, Zenon
<1>11. Cardinality(B) = Cardinality(R) + Is(cwd2[u], v)
  BY <1>2, <1>6, <1>7, <1>9 DEF Is
<1> QED
  BY <1>2, <1>8, <1>10, <1>11 DEF Is

\* A change of one thread's open files and local variables.
LEMMA UsesMove ==
  ASSUME NEW fs \in FilesType, NEW fs2 \in FilesType,
         NEW hd \in HeldType, NEW hd2 \in HeldType, NEW t \in VfsThread,
         \A x \in VfsThread \ {t} : fs2[x] = fs[x] /\ hd2[x] = hd[x], NEW v \in Vnode
  PROVE  /\ SumOver(VfsThread, UsesOf(fs, hd, v)) \in Nat
         /\ SumOver(VfsThread, UsesOf(fs2, hd2, v)) \in Nat
         /\ SumOver(VfsThread, UsesOf(fs2, hd2, v)) =
              SumOver(VfsThread, UsesOf(fs, hd, v)) + (fs2[t][v] + Times(v, hd2[t]))
                                                    - (fs[t][v] + Times(v, hd[t]))
         /\ SumOver(VfsThread, UsesOf(fs, hd, v)) >= fs[t][v] + Times(v, hd[t])
<1> DEFINE w == UsesOf(fs, hd, v)
           u == UsesOf(fs2, hd2, v)
<1>1. ASSUME NEW x \in VfsThread
      PROVE  /\ w[x] = fs[x][v] + Times(v, hd[x]) /\ u[x] = fs2[x][v] + Times(v, hd2[x])
             /\ w[x] \in Nat /\ u[x] \in Nat
  <2>1. w[x] = fs[x][v] + Times(v, hd[x]) /\ u[x] = fs2[x][v] + Times(v, hd2[x])
    BY Zenon DEF UsesOf
  <2>2. Times(v, hd[x]) \in Nat /\ Times(v, hd2[x]) \in Nat
    BY TimesFacts, Zenon DEF HeldType
  <2>3. fs[x][v] \in Nat /\ fs2[x][v] \in Nat
    BY Zenon DEF FilesType
  <2> QED BY <2>1, <2>2, <2>3
<1>2. \A x \in VfsThread \ {t} : u[x] = w[x]
  BY <1>1, Zenon
<1> HIDE DEF w, u
<1>3. SumOver(VfsThread, w) \in Nat /\ w[t] <= SumOver(VfsThread, w) /\ SumOver(VfsThread, u) \in Nat
  BY <1>1, VfsAssumption, SumAtLeast, Zenon
<1>4. SumOver(VfsThread, u) = SumOver(VfsThread, w) + u[t] - w[t]
  BY <1>1, <1>2, VfsAssumption, SumChanges
<1> QED
  BY <1>1, <1>3, <1>4, Zenon DEF w, u

RefsMoved(cwd, cwd2, u, boot, boot2, fs, fs2, hd, hd2, t, v) ==
  /\ RefsOf(cwd, boot, fs, hd, v) \in Nat /\ RefsOf(cwd2, boot2, fs2, hd2, v) \in Nat
  /\ RefsOf(cwd2, boot2, fs2, hd2, v) =
       RefsOf(cwd, boot, fs, hd, v)
         + (Is(cwd2[u], v) + Is(boot2, v) + fs2[t][v] + Times(v, hd2[t]))
         - (Is(cwd[u], v) + Is(boot, v) + fs[t][v] + Times(v, hd[t]))
  /\ RefsOf(cwd, boot, fs, hd, v) >=
       Is(cwd[u], v) + Is(boot, v) + fs[t][v] + Times(v, hd[t])

\* The references there are, after a change of the boot directory and of one
\* thread's current directory, open files and local variables.
LEMMA RefsMove ==
  ASSUME NEW cwd \in CwdType, NEW cwd2 \in CwdType, NEW u \in VfsThread,
         \A x \in VfsThread \ {u} : cwd2[x] = cwd[x],
         NEW boot, NEW boot2,
         NEW fs \in FilesType, NEW fs2 \in FilesType,
         NEW hd \in HeldType, NEW hd2 \in HeldType, NEW t \in VfsThread,
         \A x \in VfsThread \ {t} : fs2[x] = fs[x] /\ hd2[x] = hd[x], NEW v \in Vnode
  PROVE  RefsMoved(cwd, cwd2, u, boot, boot2, fs, fs2, hd, hd2, t, v)
<1> DEFINE c == CwdsOf(cwd, v)
           c2 == CwdsOf(cwd2, v)
           m == SumOver(VfsThread, UsesOf(fs, hd, v))
           m2 == SumOver(VfsThread, UsesOf(fs2, hd2, v))
           e == IF OnFs(v) THEN 0 ELSE 1
<1>1. c \in Nat /\ c2 \in Nat /\ c2 = c + Is(cwd2[u], v) - Is(cwd[u], v) /\ c >= Is(cwd[u], v)
  BY CwdMoves, Zenon
<1>2. /\ m \in Nat /\ m2 \in Nat
      /\ m2 = m + (fs2[t][v] + Times(v, hd2[t])) - (fs[t][v] + Times(v, hd[t]))
      /\ m >= fs[t][v] + Times(v, hd[t])
  BY UsesMove
<1>3. /\ Times(v, hd[t]) \in Nat /\ Times(v, hd2[t]) \in Nat /\ fs[t][v] \in Nat /\ fs2[t][v] \in Nat
      /\ e \in Nat
  BY TimesFacts, Zenon DEF HeldType, FilesType
<1>4. \A x : Is(x, v) \in Nat
  BY Zenon DEF Is
<1>5. /\ RefsOf(cwd, boot, fs, hd, v) = c + Is(boot, v) + m + e
      /\ RefsOf(cwd2, boot2, fs2, hd2, v) = c2 + Is(boot2, v) + m2 + e
  BY Zenon DEF RefsOf
<1> HIDE DEF c, c2, m, m2, e
<1> QED
  BY <1>1, <1>2, <1>3, <1>4, <1>5 DEF RefsMoved

\* The open files, after a change of one thread's.
LEMMA OpensMove ==
  ASSUME NEW fs \in FilesType, NEW fs2 \in FilesType, NEW t \in VfsThread,
         \A x \in VfsThread \ {t} : fs2[x] = fs[x], NEW v \in Vnode
  PROVE  /\ SumOver(VfsThread, OpensOf(fs, v)) \in Nat
         /\ SumOver(VfsThread, OpensOf(fs2, v)) \in Nat
         /\ SumOver(VfsThread, OpensOf(fs2, v)) =
              SumOver(VfsThread, OpensOf(fs, v)) + fs2[t][v] - fs[t][v]
<1> DEFINE w == OpensOf(fs, v)
           u == OpensOf(fs2, v)
<1>1. ASSUME NEW x \in VfsThread
      PROVE  w[x] = fs[x][v] /\ u[x] = fs2[x][v] /\ w[x] \in Nat /\ u[x] \in Nat
  BY Zenon DEF OpensOf, FilesType
<1>2. \A x \in VfsThread \ {t} : u[x] = w[x]
  BY <1>1, Zenon
<1> HIDE DEF w, u
<1>3. SumOver(VfsThread, w) \in Nat /\ SumOver(VfsThread, u) \in Nat
  BY <1>1, VfsAssumption, SumAtLeast, Zenon
<1>4. SumOver(VfsThread, u) = SumOver(VfsThread, w) + u[t] - w[t]
  BY <1>1, <1>2, VfsAssumption, SumChanges
<1> QED
  BY <1>1, <1>3, <1>4, Zenon DEF w, u

\* The folds of Vfs are these sums.
LEMMA FoldsAre ==
  ASSUME files \in FilesType, held \in HeldType, NEW v \in Vnode
  PROVE  /\ FoldSet(LAMBDA t, n : n + (files[t][v] + Times(v, held[t])), 0, VfsThread)
              = SumOver(VfsThread, UsesOf(files, held, v))
         /\ FoldSet(LAMBDA t, n : n + files[t][v], 0, VfsThread)
              = SumOver(VfsThread, OpensOf(files, v))
<1> DEFINE w == UsesOf(files, held, v)
           u == OpensOf(files, v)
           p(s) == CHOOSE x \in s : TRUE
           f == CHOOSE f : f = [s \in SUBSET VfsThread |-> IF s = {} THEN 0
                    ELSE f[s \ {p(s)}] + (files[p(s)][v] + Times(v, held[p(s)]))]
           g == CHOOSE g : g = [s \in SUBSET VfsThread |-> IF s = {} THEN 0
                    ELSE g[s \ {p(s)}] + files[p(s)][v]]
<1>1. ASSUME NEW x \in VfsThread
      PROVE  /\ w[x] = files[x][v] + Times(v, held[x]) /\ u[x] = files[x][v]
             /\ w[x] \in Nat /\ u[x] \in Nat
  <2>1. Times(v, held[x]) \in Nat /\ files[x][v] \in Nat
    BY TimesFacts, Zenon DEF HeldType, FilesType
  <2> QED BY <2>1 DEF UsesOf, OpensOf
<1>2. ASSUME NEW s \in SUBSET VfsThread, s # {} PROVE p(s) \in VfsThread /\ p(s) = Pick(s)
  BY <1>2, Zenon DEF Pick
<1>3. FoldSet(LAMBDA t, n : n + (files[t][v] + Times(v, held[t])), 0, VfsThread) = f[VfsThread]
  BY Zenon DEF FoldSet, MapThenFoldSet
<1>4. FoldSet(LAMBDA t, n : n + files[t][v], 0, VfsThread) = g[VfsThread]
  BY Zenon DEF FoldSet, MapThenFoldSet
<1>5. f[VfsThread] = SumOver(VfsThread, w)
  <2> DEFINE F(it) == [s \in SUBSET VfsThread |-> IF s = {} THEN 0
                         ELSE it[s \ {p(s)}] + (files[p(s)][v] + Times(v, held[p(s)]))]
  <2>1. ASSUME NEW it PROVE F(it) = [T \in SUBSET VfsThread |-> IF T = {} THEN 0
                                       ELSE it[T \ {Pick(T)}] + w[Pick(T)]]
    <3>1. ASSUME NEW s \in SUBSET VfsThread, s # {}
          PROVE  files[p(s)][v] + Times(v, held[p(s)]) = w[Pick(s)] /\ p(s) = Pick(s)
      BY <1>1, <1>2, <3>1, Zenon
    <3> HIDE DEF w, p
    <3> QED BY <3>1, Zenon
  <2>2. PICK it : IsSum(VfsThread, w, it)
    <3> HIDE DEF w
    <3> QED BY SumDefined, VfsAssumption, Zenon
  <2>3. it = F(it)
    <3> HIDE DEF F, w
    <3> QED BY <2>1, <2>2, Zenon DEF IsSum
  <2>4. f = CHOOSE f1 : f1 = F(f1)
    BY Zenon
  <2>5. f = F(f)
    <3> HIDE DEF F, f
    <3> QED BY <2>3, <2>4, Zenon
  <2>6. IsSum(VfsThread, w, f)
    <3> HIDE DEF F, w, f
    <3> QED BY <2>1, <2>5, Zenon DEF IsSum
  <2> HIDE DEF f, w
  <2> QED BY <1>1, <2>6, FoldIsSum, VfsAssumption, Zenon
<1>6. g[VfsThread] = SumOver(VfsThread, u)
  <2> DEFINE F(it) == [s \in SUBSET VfsThread |-> IF s = {} THEN 0
                         ELSE it[s \ {p(s)}] + files[p(s)][v]]
  <2>1. ASSUME NEW it PROVE F(it) = [T \in SUBSET VfsThread |-> IF T = {} THEN 0
                                       ELSE it[T \ {Pick(T)}] + u[Pick(T)]]
    <3>1. ASSUME NEW s \in SUBSET VfsThread, s # {}
          PROVE  files[p(s)][v] = u[Pick(s)] /\ p(s) = Pick(s)
      BY <1>1, <1>2, <3>1, Zenon
    <3> HIDE DEF u, p
    <3> QED BY <3>1, Zenon
  <2>2. PICK it : IsSum(VfsThread, u, it)
    <3> HIDE DEF u
    <3> QED BY SumDefined, VfsAssumption, Zenon
  <2>3. it = F(it)
    <3> HIDE DEF F, u
    <3> QED BY <2>1, <2>2, Zenon DEF IsSum
  <2>4. g = CHOOSE f1 : f1 = F(f1)
    BY Zenon
  <2>5. g = F(g)
    <3> HIDE DEF F, g
    <3> QED BY <2>3, <2>4, Zenon
  <2>6. IsSum(VfsThread, u, g)
    <3> HIDE DEF F, u, g
    <3> QED BY <2>1, <2>5, Zenon DEF IsSum
  <2> HIDE DEF g, u
  <2> QED BY <1>1, <2>6, FoldIsSum, VfsAssumption, Zenon
<1> QED
  BY <1>3, <1>4, <1>5, <1>6, Zenon
----------------------------------------------------------------------------
(* The invariant                                                           *)

Refs(v) == RefsOf(t_cwd, bootfs_vnode, files, held, v)
Orphan(v) == IF v \in orphans THEN 1 ELSE 0

\* RefcountExact, with its folds as sums.
Counts ==
  \A v \in Vnode : /\ refcount[v] = Refs(v) + Orphan(v)
                   /\ opencount[v] = SumOver(VfsThread, OpensOf(files, v))

\* A thread that has exited, or has not begun, has no current directory.
Gone == \A t \in VfsThread \ alive : t_cwd[t] = NoVnode

VfsInv ==
  /\ VfsTypes /\ Counts /\ FsInUseIsMounted /\ Gone
  /\ \A t \in VfsThread : LocalOK(call[t], held[t])

\* The types, in the form the lemmas about counting use.
LEMMA InvTypes ==
  ASSUME VfsInv
  PROVE  /\ t_cwd \in CwdType /\ files \in FilesType /\ held \in HeldType
         /\ refcount \in [Vnode -> Nat] /\ opencount \in [Vnode -> Nat]
         /\ files \in [VfsThread -> [Vnode -> 0..MaxOpen]]
         /\ bootfs_vnode \in Vnode \cup {NoVnode} /\ alive \subseteq VfsThread
<1>1. VfsTypeOK /\ held \in [VfsThread -> Seq(Vnode)]
  BY Zenon DEF VfsInv, VfsTypes
<1>2. [VfsThread -> [Vnode -> 0..MaxOpen]] \subseteq FilesType
  BY VfsAssumption DEF FilesType
<1> QED
  BY <1>1, <1>2, Zenon DEF VfsTypeOK, CwdType, HeldType

\* The two forms of the counts.
LEMMA CountsAre == VfsInv => RefcountExact
<1> SUFFICES ASSUME VfsInv, NEW v \in Vnode
             PROVE  /\ refcount[v] = References(v) + (IF v \in orphans THEN 1 ELSE 0)
                    /\ opencount[v] = FoldSet(LAMBDA t, n : n + files[t][v], 0, VfsThread)
  BY Zenon DEF RefcountExact
<1>1. files \in FilesType /\ held \in HeldType
  BY InvTypes, Zenon
<1>2. References(v) = Refs(v)
  BY <1>1, FoldsAre, Zenon DEF References, Refs, RefsOf, CwdsOf, Is
<1>3. FoldSet(LAMBDA t, n : n + files[t][v], 0, VfsThread) = SumOver(VfsThread, OpensOf(files, v))
  BY <1>1, FoldsAre, Zenon
<1>4. refcount[v] = Refs(v) + Orphan(v) /\ opencount[v] = SumOver(VfsThread, OpensOf(files, v))
  BY Zenon DEF VfsInv, Counts
<1> QED
  BY <1>2, <1>3, <1>4, Zenon DEF Orphan

\* A vnode that somebody refers to is in memory.
LEMMA InMemory ==
  ASSUME VfsInv, NEW t \in VfsThread, NEW v \in Vnode,
         t_cwd[t] = v \/ bootfs_vnode = v \/ Times(v, held[t]) > 0
  PROVE  refcount[v] > 0
<1>1. /\ t_cwd \in CwdType /\ files \in FilesType /\ held \in HeldType
  BY InvTypes, Zenon
<1>2. /\ Refs(v) \in Nat
      /\ Refs(v) >= Is(t_cwd[t], v) + Is(bootfs_vnode, v) + files[t][v] + Times(v, held[t])
  <2>1. RefsMoved(t_cwd, t_cwd, t, bootfs_vnode, bootfs_vnode, files, files, held, held, t, v)
    BY <1>1, RefsMove, Zenon
  <2> QED BY <2>1, Zenon DEF RefsMoved, Refs
<1>3. files[t][v] \in Nat /\ Times(v, held[t]) \in Nat
  BY <1>1, TimesFacts, Zenon DEF FilesType, HeldType
<1>4. refcount[v] = Refs(v) + Orphan(v) /\ Orphan(v) \in Nat
  BY Zenon DEF VfsInv, Counts, Orphan
<1>5. Is(t_cwd[t], v) \in Nat /\ Is(bootfs_vnode, v) \in Nat
  BY Zenon DEF Is
<1>6. Is(t_cwd[t], v) = 1 \/ Is(bootfs_vnode, v) = 1 \/ Times(v, held[t]) > 0
  BY Zenon DEF Is
<1> QED
  BY <1>2, <1>3, <1>4, <1>5, <1>6


\* The counts change as Count says, or nothing is counted.
Counted(gained, lost) ==
  \/ Count(gained, lost)
  \/ gained = <<>> /\ lost = <<>> /\ UNCHANGED <<refcount, orphans>>

\* Count keeps vn_refcount exact when the references change as it is told.
LEMMA Accounted ==
  ASSUME VfsInv, NEW gained \in Seq(Vnode), NEW lost \in Seq(Vnode), Counted(gained, lost),
         \A v \in Vnode : /\ Refs(v) \in Nat /\ Refs(v)' \in Nat
                          /\ Refs(v)' = Refs(v) + Times(v, gained) - Times(v, lost)
  PROVE  /\ refcount' \in [Vnode -> Nat] /\ orphans' \subseteq Vnode
         /\ \A v \in Vnode : refcount'[v] = Refs(v)' + Orphan(v)'
         /\ \A v \in Vnode : refcount'[v] > 0 => refcount[v] > 0 \/ Times(v, gained) > 0
<1> DEFINE left == [v \in Vnode |-> refcount[v] + Times(v, gained) - Times(v, lost)]
           last == {v \in Vnode : left[v] = 0 /\ Times(v, lost) > 0}
<1>1. PICK failed \in SUBSET last :
        /\ refcount' = [v \in Vnode |-> IF v \in failed THEN 1 ELSE left[v]]
        /\ orphans' = orphans \cup failed
  <2>1. CASE Count(gained, lost)
    BY <2>1, Zenon DEF Count
  <2>2. CASE gained = <<>> /\ lost = <<>> /\ UNCHANGED <<refcount, orphans>>
    <3>1. refcount \in [Vnode -> Nat]
      BY InvTypes, Zenon
    <3>2. \A v \in Vnode : Times(v, gained) = 0 /\ Times(v, lost) = 0
      BY <2>2, TimesFacts, Zenon
    <3>3. \A v \in Vnode : left[v] = refcount[v]
      BY <3>1, <3>2
    <3>4. refcount' = [v \in Vnode |-> IF v \in {} THEN 1 ELSE left[v]]
      <4> HIDE DEF left
      <4>1. refcount = [v \in Vnode |-> refcount[v]]
        BY <3>1, Zenon
      <4> QED BY <2>2, <3>3, <4>1, Zenon
    <3>5. orphans' = orphans \cup {} /\ {} \in SUBSET last
      BY <2>2, Zenon
    <3> HIDE DEF left, last
    <3> QED BY <3>4, <3>5, Zenon
  <2> QED BY <2>1, <2>2, Zenon DEF Counted
<1>2. orphans \subseteq Vnode /\ refcount \in [Vnode -> Nat]
  BY Zenon DEF VfsInv, VfsTypes, VfsTypeOK
<1>3. ASSUME NEW v \in Vnode
      PROVE  /\ refcount'[v] \in Nat /\ refcount'[v] = Refs(v)' + Orphan(v)'
             /\ refcount'[v] > 0 => refcount[v] > 0 \/ Times(v, gained) > 0
  <2> DEFINE g == Times(v, gained)
             l == Times(v, lost)
             r == refcount[v]
             R == Refs(v)
             Q == Refs(v)'
  <2>1. g \in Nat /\ l \in Nat
    BY TimesFacts, Zenon
  <2>2. r = R + Orphan(v) /\ r \in Nat /\ R \in Nat /\ Q \in Nat /\ Q = R + g - l
    BY <1>2, Zenon DEF VfsInv, Counts
  <2>3. Orphan(v) \in 0..1 /\ (v \in orphans <=> Orphan(v) = 1)
    BY DEF Orphan
  <2>4. Orphan(v)' = IF v \in orphans \/ v \in failed THEN 1 ELSE 0
    BY <1>1, Zenon DEF Orphan
  <2>5. refcount'[v] = IF v \in failed THEN 1 ELSE r + g - l
    BY <1>1, Zenon
  <2>6. v \in failed => r + g - l = 0 /\ l > 0
    BY <1>1, Zenon
  <2> HIDE DEF g, l, r, R, Q
  <2>7. CASE v \in failed
    <3>1. Q = 0 /\ (r > 0 \/ g > 0)
      BY <2>1, <2>2, <2>3, <2>6, <2>7
    <3>2. refcount'[v] = 1 /\ Orphan(v)' = 1
      BY <2>4, <2>5, <2>7, Zenon
    <3> QED BY <3>1, <3>2 DEF g, r, Q
  <2>8. CASE v \notin failed
    <3>1. refcount'[v] = Q + Orphan(v) /\ Orphan(v)' = Orphan(v)
      BY <2>1, <2>2, <2>3, <2>4, <2>5, <2>8
    <3>2. refcount'[v] \in Nat
      BY <2>2, <2>3, <3>1
    <3>3. refcount'[v] = r + g - l
      BY <2>5, <2>8, Zenon
    <3>4. refcount'[v] > 0 => r > 0 \/ g > 0
      BY <2>1, <2>2, <3>3
    <3> QED BY <3>1, <3>2, <3>4, Zenon DEF g, r, Q
  <2> QED BY <2>7, <2>8, Zenon
<1>4. refcount' \in [Vnode -> Nat]
  <2>1. refcount' = [v \in Vnode |-> refcount'[v]]
    BY <1>1, Zenon
  <2> QED BY <1>3, <2>1, Zenon
<1>5. orphans' \subseteq Vnode
  BY <1>1, <1>2, Zenon
<1> QED
  BY <1>3, <1>4, <1>5, Zenon
----------------------------------------------------------------------------
(* A step of one thread                                                    *)

\* The changes a step makes to what is counted, and the balance it must keep with
\* the references it says it gains and loses: d is the new current directory of
\* u, b the new boot directory, fl and h the open files and local variables of t.
Balanced(t, u, d, b, fl, h, gained, lost) ==
  \A v \in Vnode :
    Is(d, v) + Is(b, v) + fl[v] + Times(v, h) + Times(v, lost)
      = Is(t_cwd[u], v) + Is(bootfs_vnode, v) + files[t][v] + Times(v, held[t]) + Times(v, gained)

Changes(t, u, d, b, fl, h) ==
  /\ t_cwd' = [t_cwd EXCEPT ![u] = d]
  /\ bootfs_vnode' = b
  /\ files' = [files EXCEPT ![t] = fl]
  /\ held' = [held EXCEPT ![t] = h]
  /\ opencount' = [v \in Vnode |-> opencount[v] + fl[v] - files[t][v]]

\* A vnode that may be a current directory or the boot directory.
DirOrNone(v) == v = NoVnode \/ (v \in Vnode /\ S_ISDIR(v))

\* The references and the counts after such a step.
LEMMA CountsStep ==
  ASSUME VfsInv, NEW t \in VfsThread, NEW u \in VfsThread,
         NEW d, DirOrNone(d), NEW b, DirOrNone(b),
         NEW fl \in [Vnode -> 0..MaxOpen], NEW h \in Seq(Vnode),
         NEW gained \in Seq(Vnode), NEW lost \in Seq(Vnode),
         Changes(t, u, d, b, fl, h), Balanced(t, u, d, b, fl, h, gained, lost),
         Counted(gained, lost)
  PROVE  /\ Counts' /\ refcount' \in [Vnode -> Nat] /\ orphans' \subseteq Vnode
         /\ opencount' \in [Vnode -> Nat]
         /\ t_cwd' \in CwdType /\ bootfs_vnode' \in Vnode \cup {NoVnode}
         /\ files' \in [VfsThread -> [Vnode -> 0..MaxOpen]] /\ held' \in HeldType
         /\ \A v \in Vnode : refcount'[v] > 0 => refcount[v] > 0 \/ Times(v, gained) > 0
<1>1. /\ t_cwd \in CwdType /\ files \in FilesType /\ held \in HeldType
      /\ opencount \in [Vnode -> Nat] /\ files \in [VfsThread -> [Vnode -> 0..MaxOpen]]
  BY InvTypes, Zenon
<1>2. /\ t_cwd' = [t_cwd EXCEPT ![u] = d] /\ bootfs_vnode' = b
      /\ files' = [files EXCEPT ![t] = fl] /\ held' = [held EXCEPT ![t] = h]
      /\ opencount' = [v \in Vnode |-> opencount[v] + fl[v] - files[t][v]]
  BY Zenon DEF Changes
<1>3. t_cwd' \in CwdType /\ t_cwd'[u] = d /\ \A x \in VfsThread \ {u} : t_cwd'[x] = t_cwd[x]
  BY <1>1, <1>2, Zenon DEF CwdType, DirOrNone
<1>4. held' \in HeldType /\ held'[t] = h /\ \A x \in VfsThread \ {t} : held'[x] = held[x]
  BY <1>1, <1>2, Zenon DEF HeldType
<1>5. /\ files' \in [VfsThread -> [Vnode -> 0..MaxOpen]] /\ files'[t] = fl
      /\ \A x \in VfsThread \ {t} : files'[x] = files[x]
  BY <1>1, <1>2, Zenon
<1>6. files' \in FilesType
  <2>1. [VfsThread -> [Vnode -> 0..MaxOpen]] \subseteq FilesType
    BY VfsAssumption DEF FilesType
  <2> QED BY <1>5, <2>1, Zenon
<1>7. ASSUME NEW v \in Vnode
      PROVE  /\ Refs(v) \in Nat /\ Refs(v)' \in Nat
             /\ Refs(v)' = Refs(v) + Times(v, gained) - Times(v, lost)
  <2> DEFINE R == RefsOf(t_cwd, bootfs_vnode, files, held, v)
             Q == RefsOf(t_cwd', bootfs_vnode', files', held', v)
             d2 == Is(t_cwd'[u], v)
             b2 == Is(bootfs_vnode', v)
             f2 == files'[t][v]
             h2 == Times(v, held'[t])
             d1 == Is(t_cwd[u], v)
             b1 == Is(bootfs_vnode, v)
             f1 == files[t][v]
             h1 == Times(v, held[t])
  <2>1. R \in Nat /\ Q \in Nat /\ Q = R + (d2 + b2 + f2 + h2) - (d1 + b1 + f1 + h1)
    <3>1. RefsMoved(t_cwd, t_cwd', u, bootfs_vnode, bootfs_vnode', files, files', held, held', t, v)
      BY <1>1, <1>3, <1>4, <1>5, <1>6, RefsMove, Zenon
    <3> QED BY <3>1, Zenon DEF RefsMoved
  <2>2. /\ d2 \in Nat /\ b2 \in Nat /\ f2 \in Nat /\ h2 \in Nat
        /\ d1 \in Nat /\ b1 \in Nat /\ f1 \in Nat /\ h1 \in Nat
    BY <1>1, <1>4, <1>6, TimesFacts DEF Is, HeldType, FilesType
  <2>3. d2 + b2 + f2 + h2 + Times(v, lost) = d1 + b1 + f1 + h1 + Times(v, gained)
    <3>1. d2 = Is(d, v) /\ b2 = Is(b, v) /\ f2 = fl[v] /\ h2 = Times(v, h)
      BY <1>2, <1>3, <1>4, <1>5, Zenon
    <3>2. Is(d, v) + Is(b, v) + fl[v] + Times(v, h) + Times(v, lost) = d1 + b1 + f1 + h1 + Times(v, gained)
      BY Zenon DEF Balanced
    <3> HIDE DEF d2, b2, f2, h2, d1, b1, f1, h1
    <3> QED BY <3>1, <3>2, Zenon
  <2>4. Times(v, gained) \in Nat /\ Times(v, lost) \in Nat
    BY TimesFacts, Zenon
  <2>5. Refs(v) = R
    BY Zenon DEF Refs
  <2>6. Refs(v)' = Q
    BY Zenon DEF Refs
  <2> HIDE DEF R, Q, d2, b2, f2, h2, d1, b1, f1, h1
  <2>7. Q = R + Times(v, gained) - Times(v, lost)
    <3> DEFINE g == Times(v, gained)
               l == Times(v, lost)
               n2 == d2 + b2 + f2 + h2
               n1 == d1 + b1 + f1 + h1
    <3>1. n1 \in Nat /\ n2 \in Nat
      BY <2>2
    <3>2. g \in Nat /\ l \in Nat /\ n2 + l = n1 + g /\ Q = R + n2 - n1
      BY <2>1, <2>3, <2>4, Zenon
    <3> HIDE DEF g, l, n1, n2
    <3>3. Q = R + g - l
      BY <2>1, <3>1, <3>2
    <3> QED BY <3>3, Zenon DEF g, l
  <2> QED BY <2>1, <2>5, <2>6, <2>7, Zenon
<1>8. /\ refcount' \in [Vnode -> Nat] /\ orphans' \subseteq Vnode
      /\ \A v \in Vnode : refcount'[v] = Refs(v)' + Orphan(v)'
      /\ \A v \in Vnode : refcount'[v] > 0 => refcount[v] > 0 \/ Times(v, gained) > 0
  BY <1>7, Accounted, Zenon
<1>9. ASSUME NEW v \in Vnode
      PROVE  opencount'[v] = SumOver(VfsThread, OpensOf(files', v)) /\ opencount'[v] \in Nat
  <2>1. /\ SumOver(VfsThread, OpensOf(files', v)) \in Nat
        /\ SumOver(VfsThread, OpensOf(files', v)) =
             SumOver(VfsThread, OpensOf(files, v)) + files'[t][v] - files[t][v]
    BY <1>1, <1>5, <1>6, OpensMove, Zenon
  <2>2. opencount[v] = SumOver(VfsThread, OpensOf(files, v))
    BY Zenon DEF VfsInv, Counts
  <2>3. opencount'[v] = opencount[v] + fl[v] - files[t][v] /\ files'[t][v] = fl[v]
    BY <1>2, <1>5, Zenon
  <2>4. opencount'[v] = SumOver(VfsThread, OpensOf(files', v))
    BY <2>1, <2>2, <2>3, Zenon
  <2> QED BY <2>1, <2>4, Zenon
<1>10. opencount' \in [Vnode -> Nat]
  <2>1. opencount' = [v \in Vnode |-> opencount'[v]]
    BY <1>2, Zenon
  <2> QED BY <1>9, <2>1, Zenon
<1>11. Counts'
  BY <1>8, <1>9, Zenon DEF Counts, OpensOf
<1> QED
  BY <1>2, <1>3, <1>4, <1>5, <1>8, <1>10, <1>11, Zenon DEF DirOrNone

\* Current directories and the boot directory are directories.
LEMMA DirsAre ==
  ASSUME VfsInv
  PROVE  DirOrNone(bootfs_vnode) /\ \A t \in VfsThread : DirOrNone(t_cwd[t])
<1>1. t_cwd \in CwdType /\ bootfs_vnode \in Vnode \cup {NoVnode}
  BY InvTypes, Zenon
<1>2. \A v \in {t_cwd[t] : t \in VfsThread} \cup {bootfs_vnode} : v # NoVnode => S_ISDIR(v)
  BY Zenon DEF VfsInv, FsInUseIsMounted
<1> QED
  BY <1>1, <1>2, Zenon DEF CwdType, DirOrNone

OnMounted(v) == OnFs(v) => FsOf(v) \in EmuFs \cup mounted

\* Such a step keeps the invariant, if what it gains is on a mounted file system.
LEMMA ThreadStep ==
  ASSUME VfsInv, NEW t \in alive, NEW u \in VfsThread,
         NEW d, DirOrNone(d), NEW b, DirOrNone(b),
         NEW fl \in [Vnode -> 0..MaxOpen], NEW h \in Seq(Vnode), Len(h) <= 2,
         NEW gained \in Seq(Vnode), NEW lost \in Seq(Vnode),
         Changes(t, u, d, b, fl, h), Balanced(t, u, d, b, fl, h, gained, lost),
         Counted(gained, lost), \A v \in Vnode : Times(v, gained) > 0 => OnMounted(v),
         NEW c \in CallType, LocalOK(c, h), call' = [call EXCEPT ![t] = c],
         UNCHANGED <<mounted, knowndevs_lock, todo>>, alive' \subseteq VfsThread, Gone'
  PROVE  VfsInv'
<1>1. t \in VfsThread /\ VfsTypes /\ FsInUseIsMounted
  BY InvTypes, Zenon DEF VfsInv
<1>2. /\ Counts' /\ refcount' \in [Vnode -> Nat] /\ orphans' \subseteq Vnode
      /\ opencount' \in [Vnode -> Nat]
      /\ t_cwd' \in CwdType /\ bootfs_vnode' \in Vnode \cup {NoVnode}
      /\ files' \in [VfsThread -> [Vnode -> 0..MaxOpen]] /\ held' \in HeldType
      /\ \A v \in Vnode : refcount'[v] > 0 => refcount[v] > 0 \/ Times(v, gained) > 0
  BY <1>1, CountsStep, Zenon
<1>3. held' = [held EXCEPT ![t] = h] /\ t_cwd' = [t_cwd EXCEPT ![u] = d] /\ bootfs_vnode' = b
  BY Zenon DEF Changes
<1>4. held \in [VfsThread -> Seq(Vnode)] /\ call \in [VfsThread -> CallType] /\ t_cwd \in CwdType
  BY <1>1, InvTypes, Zenon DEF VfsTypes
<1>5. ASSUME NEW x \in VfsThread PROVE LocalOK(call'[x], held'[x]) /\ Len(held'[x]) <= 2
  <2>1. LocalOK(call[x], held[x]) /\ Len(held[x]) <= 2
    BY <1>1, Zenon DEF VfsInv, VfsTypes, VfsTypeOK
  <2>2. CASE x = t
    <3>1. call'[x] = c /\ held'[x] = h
      BY <1>3, <1>4, <2>2, Zenon
    <3> QED BY <3>1, Zenon
  <2>3. CASE x # t
    <3>1. call'[x] = call[x] /\ held'[x] = held[x]
      BY <1>3, <1>4, <2>3, Zenon
    <3> QED BY <2>1, <3>1, Zenon
  <2> QED BY <2>2, <2>3, Zenon
<1>6. call' \in [VfsThread -> CallType]
  BY <1>4, Zenon
<1>7. /\ mounted' \subseteq Disk /\ todo' \subseteq Disk
      /\ knowndevs_lock' \in VfsThread \cup {NoThread}
  BY <1>1, Zenon DEF VfsTypes, VfsTypeOK
<1>8. VfsTypeOK'
  BY <1>2, <1>5, <1>7, Zenon DEF VfsTypeOK, HeldType, CwdType
<1>9. VfsTypes'
  BY <1>2, <1>6, <1>8, Zenon DEF VfsTypes, HeldType
<1>10. ASSUME NEW v \in Vnode, OnFs(v), refcount'[v] > 0 PROVE FsOf(v) \in EmuFs \cup mounted'
  <2>1. refcount[v] > 0 => FsOf(v) \in EmuFs \cup mounted
    BY <1>1, <1>10, Zenon DEF FsInUseIsMounted
  <2> QED BY <1>2, <1>10, <2>1, Zenon DEF OnMounted
<1>11. ASSUME NEW v \in {t_cwd'[x] : x \in VfsThread} \cup {bootfs_vnode'}, v # NoVnode PROVE S_ISDIR(v)
  <2>1. CASE v = b \/ v = d
    BY <1>11, <2>1 DEF DirOrNone
  <2>2. CASE v # b /\ v # d
    <3>1. PICK x \in VfsThread : v = t_cwd'[x]
      BY <1>3, <1>11, <2>2, Zenon
    <3>2. v = t_cwd[x]
      BY <1>3, <1>4, <2>2, <3>1, Zenon DEF CwdType
    <3> QED BY <1>11, <3>2, DirsAre, Zenon DEF DirOrNone
  <2> QED BY <2>1, <2>2, Zenon
<1>12. FsInUseIsMounted'
  BY <1>10, <1>11, Zenon DEF FsInUseIsMounted
<1> QED
  BY <1>2, <1>5, <1>9, <1>12, Zenon DEF VfsInv

\* A step of a call that only changes what it holds.
LEMMA CallStep ==
  ASSUME VfsInv, NEW t \in alive, NEW h \in Seq(Vnode), Len(h) <= 2,
         NEW gained \in Seq(Vnode), NEW lost \in Seq(Vnode),
         held' = [held EXCEPT ![t] = h],
         \A v \in Vnode : Times(v, h) + Times(v, lost) = Times(v, held[t]) + Times(v, gained),
         Counted(gained, lost), \A v \in Vnode : Times(v, gained) > 0 => OnMounted(v),
         NEW c \in CallType, LocalOK(c, h), call' = [call EXCEPT ![t] = c],
         UNCHANGED <<mounted, knowndevs_lock, opencount, t_cwd, bootfs_vnode, alive, files, todo>>
  PROVE  VfsInv'
<1> DEFINE d == t_cwd[t]
           b == bootfs_vnode
           fl == files[t]
<1>1. /\ t_cwd \in CwdType /\ files \in FilesType /\ held \in HeldType /\ opencount \in [Vnode -> Nat]
      /\ files \in [VfsThread -> [Vnode -> 0..MaxOpen]] /\ alive \subseteq VfsThread
  BY InvTypes, Zenon
<1>2. t \in VfsThread /\ fl \in [Vnode -> 0..MaxOpen] /\ DirOrNone(d) /\ DirOrNone(b)
  BY <1>1, DirsAre, Zenon
<1>3. Changes(t, t, d, b, fl, h)
  <2>1. opencount' = [v \in Vnode |-> opencount[v] + fl[v] - files[t][v]]
    <3>1. \A v \in Vnode : opencount[v] + fl[v] - files[t][v] = opencount[v]
      BY <1>1, <1>2, VfsAssumption
    <3> QED BY <1>1, <3>1, Zenon
  <2>2. t_cwd' = [t_cwd EXCEPT ![t] = d] /\ files' = [files EXCEPT ![t] = fl]
    BY <1>1, <1>2, Zenon DEF CwdType
  <2> QED BY <2>1, <2>2, Zenon DEF Changes
<1>4. Balanced(t, t, d, b, fl, h, gained, lost)
  <2> SUFFICES ASSUME NEW v \in Vnode
               PROVE  Is(d, v) + Is(b, v) + fl[v] + Times(v, h) + Times(v, lost)
                        = Is(d, v) + Is(b, v) + fl[v] + Times(v, held[t]) + Times(v, gained)
    BY Zenon DEF Balanced
  <2>1. /\ Times(v, h) \in Nat /\ Times(v, lost) \in Nat /\ Times(v, held[t]) \in Nat
        /\ Times(v, gained) \in Nat /\ fl[v] \in Nat
    BY <1>1, <1>2, TimesFacts, VfsAssumption DEF HeldType
  <2>2. Is(d, v) \in Nat /\ Is(b, v) \in Nat
    BY Zenon DEF Is
  <2>3. Times(v, h) + Times(v, lost) = Times(v, held[t]) + Times(v, gained)
    BY Zenon
  <2> DEFINE x == Is(d, v)
             y == Is(b, v)
             z == fl[v]
             h1 == Times(v, h)
             l1 == Times(v, lost)
             h2 == Times(v, held[t])
             g2 == Times(v, gained)
  <2>4. x \in Nat /\ y \in Nat /\ z \in Nat
    BY <2>1, <2>2, Zenon
  <2>5. h1 \in Nat /\ l1 \in Nat /\ h2 \in Nat /\ g2 \in Nat /\ h1 + l1 = h2 + g2
    BY <2>1, <2>3, Zenon
  <2> HIDE DEF x, y, z, h1, l1, h2, g2
  <2>6. x + y + z + h1 + l1 = x + y + z + h2 + g2
    BY <2>4, <2>5
  <2> QED BY <2>6, Zenon DEF x, y, z, h1, l1, h2, g2
<1>5. Gone'
  BY Zenon DEF VfsInv, Gone
<1> HIDE DEF d, b, fl
<1> QED
  BY <1>1, <1>2, <1>3, <1>4, <1>5, ThreadStep, Zenon
----------------------------------------------------------------------------
(* Path translation                                                        *)

\* The vnodes of a file system, and those of devices.
LEMMA VnodesAre ==
  /\ \A x \in EmuFs \cup Disk : Root(x) \in Vnode /\ FsOf(Root(x)) = x /\ S_ISDIR(Root(x))
  /\ \A x \in Disk \cup PlainDev : DevVnode(x) \in Vnode /\ ~OnFs(DevVnode(x))
  /\ \A v \in Vnode : S_ISDIR(v) =>
       /\ OnFs(v) /\ Root(FsOf(v)) = v /\ FsOf(v) \in EmuFs \cup Disk
       /\ <<FsOf(v), "file">> \in Vnode /\ FsOf(<<FsOf(v), "file">>) = FsOf(v)
BY DEF Vnode, Root, DevVnode, FsOf, OnFs, S_ISDIR

\* What a thread's call is about.
LEMMA CallOf ==
  ASSUME VfsInv, NEW t \in alive
  PROVE  /\ t \in VfsThread /\ held[t] \in Seq(Vnode) /\ Len(held[t]) <= 2 /\ Len(held[t]) \in Nat
         /\ call[t] \in CallType /\ LocalOK(call[t], held[t])
         /\ held \in [VfsThread -> Seq(Vnode)] /\ call \in [VfsThread -> CallType]
<1>1. t \in VfsThread /\ VfsTypes
  BY InvTypes, Zenon DEF VfsInv
<1>2. held \in [VfsThread -> Seq(Vnode)] /\ call \in [VfsThread -> CallType] /\ Len(held[t]) <= 2
  BY <1>1, Zenon DEF VfsTypes, VfsTypeOK
<1>3. LocalOK(call[t], held[t])
  BY <1>1, Zenon DEF VfsInv
<1> QED
  BY <1>1, <1>2, <1>3

\* The calls there are.
LEMMA CallsAre ==
  /\ Idle \in CallType /\ Idle.at = "idle"
  /\ \A l \in PathLookups \cup {<<>>}, p \in Places :
       At(l, p) \in CallType /\ At(l, p).at = p /\ At(l, p).lookups = l
  /\ \A l \in PathLookups : Len(l) \in 1..2
  /\ Len(OneVnode) = 1 /\ Len(OneParent) = 1 /\ OneVnode \in PathLookups /\ OneParent \in PathLookups
<1>1. \A l \in PathLookups : Len(l) \in 1..2
  BY DEF PathLookups, OneVnode, OneParent, TwoParents, VnodeAndParent
<1>2. Len(OneVnode) = 1 /\ Len(OneParent) = 1 /\ OneVnode \in PathLookups /\ OneParent \in PathLookups
  BY Zenon DEF PathLookups, OneVnode, OneParent
<1>3. \A l \in PathLookups \cup {<<>>}, p \in Places :
        At(l, p) \in CallType /\ At(l, p).at = p /\ At(l, p).lookups = l
  BY DEF At, CallType
<1>4. Idle \in CallType /\ Idle.at = "idle"
  BY <1>3 DEF Idle, Places
<1> QED
  BY <1>1, <1>2, <1>3, <1>4, Zenon

\* A vnode in memory is on a mounted file system.
LEMMA StillMounted ==
  ASSUME VfsInv, NEW v \in Vnode, refcount[v] > 0
  PROVE  OnMounted(v)
BY Zenon DEF VfsInv, FsInUseIsMounted, OnMounted

\* A list of at most one vnode that is on a mounted file system.
LEMMA OneMounted ==
  ASSUME NEW x \in Vnode \cup {NoVnode}, x # NoVnode => OnMounted(x)
  PROVE  \A v \in Vnode : Times(v, One(x)) > 0 => OnMounted(v)
<1> SUFFICES ASSUME NEW v \in Vnode, Times(v, One(x)) > 0 PROVE OnMounted(v)
  BY Zenon
<1>1. Times(v, One(x)) = Is(x, v)
  BY TimesOfLists, Zenon
<1>2. x = v
  BY <1>1 DEF Is
<1> QED
  BY <1>2, VfsAssumption, Zenon

\* getdevice hands out a vnode with a reference of its own, or fails.
LEMMA Started ==
  ASSUME VfsInv, NEW t \in alive, NEW vn \in Vnode \cup {NoVnode},
         vn # NoVnode => OnMounted(vn), StartAt(t, vn)
  PROVE  VfsInv'
<1>1. /\ t \in VfsThread /\ held[t] \in Seq(Vnode) /\ Len(held[t]) <= 2 /\ Len(held[t]) \in Nat
      /\ call[t] \in CallType /\ LocalOK(call[t], held[t])
      /\ held \in [VfsThread -> Seq(Vnode)] /\ call \in [VfsThread -> CallType]
  BY CallOf, Zenon
<1>2. /\ call[t].at = "look" /\ call[t].lookups \in PathLookups
      /\ call[t].n \in 1..Len(call[t].lookups) /\ Len(held[t]) = call[t].n - 1
      /\ Len(call[t].lookups) \in 1..2
  BY <1>1, CallsAre DEF StartAt, InLookup, LocalOK, CallType
<1>3. One(vn) \in Seq(Vnode) /\ <<>> \in Seq(Vnode) /\ Counted(One(vn), <<>>)
  BY TimesOfLists, VfsAssumption DEF StartAt, One, Counted
<1>4. \A v \in Vnode : Times(v, One(vn)) > 0 => OnMounted(v)
  BY OneMounted, Zenon
<1>5. UNCHANGED <<mounted, knowndevs_lock, opencount, t_cwd, bootfs_vnode, alive, files, todo>>
  BY Zenon DEF StartAt
<1>6. CASE vn = NoVnode
  <2> DEFINE c == At(call[t].lookups, "failed")
             h == held[t]
  <2>1. call' = [call EXCEPT ![t] = c] /\ held' = [held EXCEPT ![t] = h]
    BY <1>1, <1>6, Zenon DEF StartAt
  <2>a. c \in CallType /\ c.at = "failed" /\ c.lookups = call[t].lookups
    BY <1>2, CallsAre, Zenon DEF Places
  <2>2. c \in CallType /\ LocalOK(c, h)
    BY <1>2, <2>a, Zenon DEF LocalOK
  <2>3. \A v \in Vnode : Times(v, h) + Times(v, <<>>) = Times(v, held[t]) + Times(v, One(vn))
    BY <1>6, Zenon DEF One
  <2> HIDE DEF c, h
  <2>4. h \in Seq(Vnode) /\ Len(h) <= 2
    BY <1>1, Zenon DEF h
  <2> QED BY <1>1, <1>3, <1>4, <1>5, <2>1, <2>2, <2>3, <2>4, CallStep, Zenon
<1>7. CASE vn # NoVnode
  <2> DEFINE c == call[t]
             h == Append(held[t], vn)
  <2>1. call' = [call EXCEPT ![t] = c] /\ held' = [held EXCEPT ![t] = h]
    BY <1>1, <1>7, Zenon DEF StartAt
  <2>2. h \in Seq(Vnode) /\ Len(h) = call[t].n
    <3>1. h \in Seq(Vnode) /\ Len(h) = Len(held[t]) + 1
      BY <1>1, <1>7
    <3> QED BY <1>2, <3>1
  <2>3. c \in CallType /\ LocalOK(c, h) /\ Len(h) <= 2
    <3> HIDE DEF h
    <3>1. Len(h) \in {c.n - 1, c.n}
      BY <2>2, Zenon
    <3>2. Len(h) <= 2
      <4> DEFINE l == Len(call[t].lookups)
      <4>1. l \in 1..2 /\ Len(h) \in 1..l
        BY <1>2, <2>2, Zenon
      <4> HIDE DEF l
      <4> QED BY <4>1
    <3> QED BY <1>1, <1>2, <3>1, <3>2, Zenon DEF LocalOK
  <2>4. \A v \in Vnode : Times(v, h) + Times(v, <<>>) = Times(v, held[t]) + Times(v, One(vn))
    <3> SUFFICES ASSUME NEW v \in Vnode
                 PROVE  Times(v, h) + Times(v, <<>>) = Times(v, held[t]) + Times(v, One(vn))
      BY Zenon
    <3>1. Times(v, h) = Times(v, held[t]) + Is(vn, v) /\ Times(v, <<>>) = 0 /\ Times(v, held[t]) \in Nat
      BY <1>1, <1>7, TimesFacts, Zenon
    <3>2. Times(v, One(vn)) = Is(vn, v) /\ Is(vn, v) \in Nat
      BY TimesOfLists, Zenon DEF Is
    <3> QED BY <3>1, <3>2
  <2> HIDE DEF c, h
  <2> QED BY <1>1, <1>3, <1>4, <1>5, <2>1, <2>2, <2>3, <2>4, CallStep, Zenon
<1> QED
  BY <1>6, <1>7, Zenon

\* getdevice, in each of the forms a path may have.
LEMMA GetdeviceStep ==
  ASSUME VfsInv, NEW t \in alive, getdevice(t)
  PROVE  VfsInv'
<1>1. t \in VfsThread /\ t_cwd \in CwdType /\ bootfs_vnode \in Vnode \cup {NoVnode} /\ mounted \subseteq Disk
  BY CallOf, InvTypes, Zenon DEF VfsInv, VfsTypes, VfsTypeOK
<1>2. t_cwd[t] \in Vnode \cup {NoVnode} /\ (t_cwd[t] # NoVnode => OnMounted(t_cwd[t]) /\ S_ISDIR(t_cwd[t]))
  BY <1>1, InMemory, StillMounted, DirsAre, Zenon DEF CwdType, DirOrNone
<1>3. CASE StartAt(t, t_cwd[t])
  BY <1>2, <1>3, Started, Zenon
<1>4. CASE StartAt(t, bootfs_vnode)
  <2>1. bootfs_vnode # NoVnode => OnMounted(bootfs_vnode)
    BY <1>1, InMemory, StillMounted, Zenon
  <2> QED BY <1>1, <1>4, <2>1, Started, Zenon
<1>5. CASE StartAt(t, IF t_cwd[t] = NoVnode THEN NoVnode ELSE Root(FsOf(t_cwd[t])))
  <2>1. (IF t_cwd[t] = NoVnode THEN NoVnode ELSE Root(FsOf(t_cwd[t]))) = t_cwd[t]
    BY <1>2, VnodesAre, Zenon
  <2> QED BY <1>2, <1>5, <2>1, Started, Zenon
<1>6. ASSUME NEW name \in DeviceNames, StartAt(t, vfs_getroot(name)) PROVE VfsInv'
  <2> DEFINE vn == vfs_getroot(name)
  <2>1. \/ name \in EmuFs \cup mounted /\ vn = Root(name)
        \/ name \in PlainDev /\ vn = DevVnode(name)
        \/ name \in Disk \X {"raw"} /\ vn = DevVnode(name[1])
        \/ vn = NoVnode
    BY DEF vfs_getroot
  <2>2. vn \in Vnode \cup {NoVnode} /\ (vn # NoVnode => OnMounted(vn))
    <3>1. CASE name \in EmuFs \cup mounted /\ vn = Root(name)
      <4>1. Root(name) \in Vnode /\ FsOf(Root(name)) = name
        BY <1>1, <3>1, VnodesAre, Zenon
      <4> QED BY <3>1, <4>1, Zenon DEF OnMounted
    <3>2. CASE name \in PlainDev /\ vn = DevVnode(name)
      BY <3>2, VnodesAre, Zenon DEF OnMounted
    <3>3. CASE name \in Disk \X {"raw"} /\ vn = DevVnode(name[1])
      BY <3>3, VnodesAre, Zenon DEF OnMounted
    <3>4. CASE vn = NoVnode
      BY <3>4, Zenon
    <3> QED BY <2>1, <3>1, <3>2, <3>3, <3>4, Zenon
  <2> HIDE DEF vn
  <2>3. StartAt(t, vn)
    BY <1>6, Zenon DEF vn
  <2> QED BY <2>2, <2>3, Started, Zenon
<1> QED
  BY <1>3, <1>4, <1>5, <1>6, Zenon DEF getdevice

\* A lookup ends: the reference to the vnode it started from is dropped, and one
\* to what it found is held.
LEMMA LookedUpStep ==
  ASSUME VfsInv, NEW t \in alive, NEW x \in Vnode \cup {NoVnode},
         x # NoVnode => OnMounted(x), InLookup(t, 1), LookedUp(t, x, <<Last(held[t])>>)
  PROVE  VfsInv'
<1> DEFINE y == Last(held[t])
           h == Front(held[t]) \o One(x)
           c == IF x = NoVnode THEN At(call[t].lookups, "failed")
                ELSE IF call[t].n < Len(call[t].lookups) THEN [call[t] EXCEPT !.n = @ + 1]
                ELSE At(call[t].lookups, "found")
<1>1. /\ t \in VfsThread /\ held[t] \in Seq(Vnode) /\ Len(held[t]) <= 2 /\ Len(held[t]) \in Nat
      /\ call[t] \in CallType /\ LocalOK(call[t], held[t])
      /\ held \in [VfsThread -> Seq(Vnode)] /\ call \in [VfsThread -> CallType]
  BY CallOf, Zenon
<1>2. /\ call[t].at = "look" /\ call[t].lookups \in PathLookups
      /\ call[t].n \in 1..Len(call[t].lookups) /\ Len(held[t]) = call[t].n
      /\ Len(call[t].lookups) \in 1..2
  BY <1>1, CallsAre DEF InLookup, LocalOK, CallType
<1>3. held[t] # <<>>
  BY <1>1, <1>2
<1>4. ASSUME NEW v \in Vnode
      PROVE  /\ y \in Vnode /\ h \in Seq(Vnode)
             /\ Len(h) = IF x = NoVnode THEN Len(held[t]) - 1 ELSE Len(held[t])
             /\ Times(v, h) = Times(v, held[t]) - Is(y, v) + Is(x, v)
             /\ Times(v, held[t]) >= Is(y, v)
  BY <1>1, <1>3, TimesOfFront, Zenon
<1>5. PICK v0 \in Vnode : TRUE
  BY <1>1, <1>3
<1>6. y \in Vnode /\ h \in Seq(Vnode) /\ Len(h) = IF x = NoVnode THEN Len(held[t]) - 1 ELSE Len(held[t])
  BY <1>4, <1>5, Zenon
<1>7. /\ held' = [held EXCEPT ![t] = h] /\ call' = [call EXCEPT ![t] = c] /\ Counted(One(x), <<y>>)
      /\ UNCHANGED <<mounted, knowndevs_lock, opencount, t_cwd, bootfs_vnode, alive, files, todo>>
  <2>1. held' = [held EXCEPT ![t] = h]
    BY Zenon DEF LookedUp
  <2>2. call' = [call EXCEPT ![t] = c]
    BY Zenon DEF LookedUp
  <2>3. /\ Counted(One(x), <<y>>)
        /\ UNCHANGED <<mounted, knowndevs_lock, opencount, t_cwd, bootfs_vnode, alive, files, todo>>
    BY Zenon DEF LookedUp, Counted
  <2> QED BY <2>1, <2>2, <2>3, Zenon
<1>8. One(x) \in Seq(Vnode) /\ <<y>> \in Seq(Vnode)
  BY <1>5, <1>6, TimesOfLists, Zenon
<1>9. \A v \in Vnode : Times(v, One(x)) > 0 => OnMounted(v)
  BY OneMounted, Zenon
<1> HIDE DEF h, y
<1>10. \A v \in Vnode : Times(v, h) + Times(v, <<y>>) = Times(v, held[t]) + Times(v, One(x))
  <2> SUFFICES ASSUME NEW v \in Vnode
               PROVE  Times(v, h) + Times(v, <<y>>) = Times(v, held[t]) + Times(v, One(x))
    BY Zenon
  <2>1. Times(v, <<y>>) = Is(y, v) /\ Times(v, One(x)) = Is(x, v)
    BY <1>6, TimesOfLists, Zenon
  <2>2. Times(v, held[t]) \in Nat /\ Is(x, v) \in Nat /\ Is(y, v) \in Nat
    BY <1>1, TimesFacts, Zenon DEF Is
  <2>3. Times(v, h) = Times(v, held[t]) - Is(y, v) + Is(x, v)
    BY <1>4, Zenon
  <2> QED BY <2>1, <2>2, <2>3
<1>11. Len(h) <= 2
  BY <1>1, <1>6
<1>12. c \in CallType /\ LocalOK(c, h)
  <2>1. CASE x = NoVnode
    <3>1. c = At(call[t].lookups, "failed")
      BY <2>1, Zenon
    <3> HIDE DEF c
    <3>2. c \in CallType /\ c.at = "failed" /\ c.lookups \in PathLookups
      BY <1>2, <3>1, CallsAre DEF Places
    <3> QED BY <3>2, Zenon DEF LocalOK
  <2>2. CASE x # NoVnode /\ call[t].n < Len(call[t].lookups)
    <3>1. c = [call[t] EXCEPT !.n = @ + 1]
      BY <2>2, Zenon
    <3>2. c.at = "look" /\ c.lookups = call[t].lookups /\ c.n = call[t].n + 1
      BY <1>1, <1>2, <3>1, Zenon DEF CallType
    <3>3. c \in CallType
      <4> DEFINE n == call[t].n
                 l == Len(call[t].lookups)
      <4>1. n \in 1..l /\ l \in 1..2 /\ n < l
        BY <1>2, <2>2, Zenon
      <4> HIDE DEF n, l
      <4>2. n + 1 \in 0..2
        BY <4>1
      <4> HIDE DEF c
      <4>3. call[t] \in CallType /\ c = [call[t] EXCEPT !.n = n + 1]
        BY <1>1, <3>1, Zenon DEF n
      <4> QED BY <4>2, <4>3, Zenon DEF CallType
    <3>4. c.n \in 1..Len(call[t].lookups) /\ Len(h) = c.n - 1
      BY <1>2, <1>6, <2>2, <3>2
    <3> HIDE DEF c
    <3> QED BY <1>2, <3>2, <3>3, <3>4, Zenon DEF LocalOK
  <2>3. CASE x # NoVnode /\ ~(call[t].n < Len(call[t].lookups))
    <3>1. c = At(call[t].lookups, "found")
      BY <2>3, Zenon
    <3>2. Len(h) = Len(call[t].lookups)
      BY <1>2, <1>6, <2>3
    <3> HIDE DEF c
    <3>3. c \in CallType /\ c.at = "found" /\ c.lookups = call[t].lookups
      BY <1>2, <3>1, CallsAre DEF Places
    <3> QED BY <1>2, <3>2, <3>3, Zenon DEF LocalOK
  <2> QED BY <2>1, <2>2, <2>3, Zenon
<1> HIDE DEF c
<1> QED
  BY <1>6, <1>7, <1>8, <1>9, <1>10, <1>11, <1>12, CallStep, Zenon

\* What a call holds last is in memory.
LEMMA HeldLast ==
  ASSUME VfsInv, NEW t \in alive, held[t] # <<>>
  PROVE  /\ Last(held[t]) \in Vnode /\ OnMounted(Last(held[t]))
         /\ Len(held[t]) = 1 => held[t] = <<Last(held[t])>> /\ held[t][1] = Last(held[t])
<1>1. t \in VfsThread /\ held[t] \in Seq(Vnode) /\ Len(held[t]) \in Nat
  BY CallOf, Zenon
<1>2. Last(held[t]) = held[t][Len(held[t])] /\ Last(held[t]) \in Vnode
  BY <1>1 DEF Last
<1>3. Times(Last(held[t]), held[t]) > 0
  <2> DEFINE y == Last(held[t])
  <2>1. y \in Vnode /\ NoVnode \in Vnode \cup {NoVnode}
    BY <1>2, Zenon
  <2>2. Times(y, held[t]) >= Is(y, y) /\ Times(y, held[t]) \in Nat
    BY <1>1, <2>1, TimesOfFront, TimesFacts, Zenon
  <2> HIDE DEF y
  <2>3. Is(y, y) = 1
    BY Zenon DEF Is
  <2>4. Times(y, held[t]) > 0
    BY <2>2, <2>3
  <2> QED BY <2>4, Zenon DEF y
<1>4. OnMounted(Last(held[t]))
  BY <1>1, <1>2, <1>3, InMemory, StillMounted, Zenon
<1>5. Len(held[t]) = 1 => held[t] = <<Last(held[t])>> /\ held[t][1] = Last(held[t])
  BY <1>1, <1>2
<1> QED
  BY <1>2, <1>4, <1>5, Zenon

\* A file system hands out its own vnodes.
LEMMA FoundIs ==
  ASSUME NEW y \in Vnode, OnMounted(y), NEW how, NEW x \in Found(y, how)
  PROVE  x \in Vnode \cup {NoVnode} /\ (x # NoVnode => OnMounted(x))
<1>1. x = NoVnode \/ (S_ISDIR(y) /\ (x = y \/ x = <<FsOf(y), "file">>))
  BY Zenon DEF Found
<1>2. CASE x = NoVnode
  BY <1>2, Zenon
<1>3. CASE S_ISDIR(y) /\ x = y
  BY <1>3, Zenon
<1>4. CASE S_ISDIR(y) /\ x = <<FsOf(y), "file">>
  BY <1>4, VnodesAre, Zenon DEF OnMounted
<1> QED
  BY <1>1, <1>2, <1>3, <1>4, Zenon

\* vfs_lookup and vfs_lookparent.
LEMMA LookupSteps ==
  ASSUME VfsInv, NEW t \in alive, vfs_lookup(t) \/ vfs_lookparent(t)
  PROVE  VfsInv'
<1> DEFINE y == Last(held[t])
<1>1. InLookup(t, 1)
  BY Zenon DEF vfs_lookup, vfs_lookparent
<1>2. held[t] # <<>>
  <2>1. Len(held[t]) >= 1
    BY <1>1, CallOf DEF InLookup, LocalOK
  <2> QED BY <2>1
<1>3. y \in Vnode /\ OnMounted(y)
  BY <1>2, HeldLast, Zenon
<1>4. \/ LookedUp(t, y, <<y>>)
      \/ \E x \in Found(y, "lookup") : LookedUp(t, x, <<y>>)
      \/ \E x \in Found(y, "lookparent") : LookedUp(t, x, <<y>>)
  BY Zenon DEF vfs_lookup, vfs_lookparent
<1>5. CASE LookedUp(t, y, <<y>>)
  BY <1>1, <1>3, <1>5, LookedUpStep, Zenon
<1>6. ASSUME NEW how, NEW x \in Found(y, how), LookedUp(t, x, <<y>>) PROVE VfsInv'
  <2>1. x \in Vnode \cup {NoVnode} /\ (x # NoVnode => OnMounted(x))
    BY <1>3, <1>6, FoundIs, Zenon
  <2> QED BY <1>1, <1>6, <2>1, LookedUpStep, Zenon
<1> QED
  BY <1>4, <1>5, <1>6, Zenon

\* A call ends and drops what it holds.
LEMMA DroppedAll ==
  ASSUME VfsInv, NEW t \in alive, Counted(<<>>, held[t]), Done(t),
         UNCHANGED <<mounted, knowndevs_lock, opencount, t_cwd, bootfs_vnode, alive, files, todo>>
  PROVE  VfsInv'
<1>1. held[t] \in Seq(Vnode) /\ <<>> \in Seq(Vnode) /\ Len(<<>>) <= 2
  BY CallOf
<1>2. \A v \in Vnode : Times(v, <<>>) + Times(v, held[t]) = Times(v, held[t]) + Times(v, <<>>)
  BY <1>1, TimesFacts
<1>3. \A v \in Vnode : Times(v, <<>>) > 0 => OnMounted(v)
  BY TimesFacts
<1>4. Idle \in CallType /\ LocalOK(Idle, <<>>)
  BY CallsAre, Zenon DEF LocalOK
<1>5. held' = [held EXCEPT ![t] = <<>>] /\ call' = [call EXCEPT ![t] = Idle]
  BY Zenon DEF Done
<1> QED
  BY <1>1, <1>2, <1>3, <1>4, <1>5, CallStep, Zenon

\* A call that is only starting.
LEMMA BeginStep ==
  ASSUME VfsInv, NEW t \in alive, NEW lookups \in PathLookups, Begin(t, lookups)
  PROVE  VfsInv'
<1> DEFINE c == [lookups |-> lookups, at |-> "look", n |-> 1]
           h == held[t]
<1>1. /\ t \in VfsThread /\ h \in Seq(Vnode) /\ Len(h) <= 2 /\ LocalOK(call[t], h) /\ call[t] = Idle
      /\ held \in [VfsThread -> Seq(Vnode)]
  BY CallOf, Zenon DEF Begin
<1>2. h = <<>>
  BY <1>1, CallsAre, Zenon DEF LocalOK
<1>3. c \in CallType /\ c.at = "look" /\ c.lookups = lookups /\ c.n = 1
  BY DEF CallType, Places
<1>4. call' = [call EXCEPT ![t] = c] /\ held' = [held EXCEPT ![t] = h]
  BY <1>1, Zenon DEF Begin
<1>5. /\ Counted(<<>>, <<>>)
      /\ UNCHANGED <<mounted, knowndevs_lock, opencount, t_cwd, bootfs_vnode, alive, files, todo>>
  BY Zenon DEF Begin, Counted
<1>6. /\ \A v \in Vnode : Times(v, h) + Times(v, <<>>) = Times(v, held[t]) + Times(v, <<>>)
      /\ \A v \in Vnode : Times(v, <<>>) > 0 => OnMounted(v)
      /\ <<>> \in Seq(Vnode)
  BY TimesFacts
<1> HIDE DEF c, h
<1>7. LocalOK(c, h)
  <2>1. Len(h) = 0 /\ Len(lookups) \in 1..2
    BY <1>2, CallsAre, Zenon
  <2>2. c.n \in 1..Len(c.lookups) /\ Len(h) \in {c.n - 1, c.n}
    <3> DEFINE l == Len(lookups)
               k == Len(h)
    <3>1. l \in 1..2 /\ k = 0
      BY <2>1, Zenon
    <3> HIDE DEF l, k
    <3>2. 1 \in 1..l /\ k \in {1 - 1, 1}
      BY <3>1
    <3> QED BY <1>3, <3>2, Zenon DEF l, k
  <2> QED BY <1>3, <2>2, Zenon DEF LocalOK
<1> QED
  BY <1>1, <1>3, <1>4, <1>5, <1>6, <1>7, CallStep, Zenon

\* vfs_open with O_CREAT: the reference to the directory is exchanged for one to
\* the file.
LEMMA CreatStep ==
  ASSUME VfsInv, NEW t \in alive, Creat(t)
  PROVE  VfsInv'
<1> DEFINE y == held[t][1]
<1>1. /\ t \in VfsThread /\ held[t] \in Seq(Vnode) /\ Len(held[t]) \in Nat
      /\ LocalOK(call[t], held[t]) /\ call[t] = At(OneParent, "found")
  BY CallOf, Zenon DEF Creat, Ready
<1>2. Len(held[t]) = 1
  BY <1>1, CallsAre DEF LocalOK, Places
<1>3. y \in Vnode /\ OnMounted(y) /\ held[t] = <<y>>
  <2>1. held[t] # <<>>
    BY <1>2
  <2> QED BY <1>2, <2>1, HeldLast, Zenon
<1>4. PICK x \in Found(y, "lookup") :
           /\ Count(One(x), <<y>>)
           /\ held' = [held EXCEPT ![t] = One(x)]
           /\ call' = [call EXCEPT ![t] = IF x = NoVnode THEN Idle ELSE At(OneVnode, "open")]
  BY Zenon DEF Creat
<1>5. UNCHANGED <<mounted, knowndevs_lock, opencount, t_cwd, bootfs_vnode, alive, files, todo>>
  BY Zenon DEF Creat
<1> DEFINE h == One(x)
           c == IF x = NoVnode THEN Idle ELSE At(OneVnode, "open")
<1>6. x \in Vnode \cup {NoVnode} /\ (x # NoVnode => OnMounted(x))
  BY <1>3, FoundIs, Zenon
<1>7. h \in Seq(Vnode) /\ Len(h) <= 2 /\ (x = NoVnode => h = <<>>) /\ (x # NoVnode => Len(h) = 1)
  BY <1>6 DEF One
<1>8. c \in CallType /\ LocalOK(c, h)
  <2>1. CASE x = NoVnode
    BY <1>7, <2>1, CallsAre, Zenon DEF LocalOK
  <2>2. CASE x # NoVnode
    BY <1>7, <2>2, CallsAre, Zenon DEF LocalOK, Places
  <2> QED BY <2>1, <2>2, Zenon
<1>9. \A v \in Vnode : Times(v, h) > 0 => OnMounted(v)
  BY <1>6, OneMounted, Zenon
<1> HIDE DEF h, c, y
<1>10. \A v \in Vnode : Times(v, h) + Times(v, <<y>>) = Times(v, held[t]) + Times(v, h)
  <2> SUFFICES ASSUME NEW v \in Vnode
               PROVE  Times(v, h) + Times(v, <<y>>) = Times(v, <<y>>) + Times(v, h)
    BY <1>3, Zenon
  <2>1. Times(v, h) \in Nat /\ Times(v, <<y>>) \in Nat
    BY <1>1, <1>3, <1>7, TimesFacts, Zenon
  <2> QED BY <2>1
<1>11. /\ held' = [held EXCEPT ![t] = h] /\ call' = [call EXCEPT ![t] = c]
       /\ Counted(h, <<y>>) /\ <<y>> \in Seq(Vnode)
  BY <1>3, <1>4 DEF h, c, Counted
<1> QED
  BY <1>5, <1>7, <1>8, <1>9, <1>10, <1>11, CallStep, Zenon
----------------------------------------------------------------------------
(* Current directories and the boot directory                              *)

\* Balanced, without the open files.
DirBalance(t, u, d, b, h, gained, lost) ==
  \A v \in Vnode :
    (Is(d, v) + Is(b, v)) + (Times(v, h) + Times(v, lost))
      = (Is(t_cwd[u], v) + Is(bootfs_vnode, v)) + (Times(v, held[t]) + Times(v, gained))

\* A step that changes a current directory or the boot directory.
LEMMA DirStep ==
  ASSUME VfsInv, NEW t \in alive, NEW u \in VfsThread,
         NEW d, DirOrNone(d), NEW b, DirOrNone(b), NEW h \in Seq(Vnode), Len(h) <= 2,
         NEW gained \in Seq(Vnode), NEW lost \in Seq(Vnode),
         t_cwd' = [t_cwd EXCEPT ![u] = d], bootfs_vnode' = b, held' = [held EXCEPT ![t] = h],
         DirBalance(t, u, d, b, h, gained, lost),
         Counted(gained, lost), \A v \in Vnode : Times(v, gained) > 0 => OnMounted(v),
         NEW c \in CallType, LocalOK(c, h), call' = [call EXCEPT ![t] = c],
         UNCHANGED <<mounted, knowndevs_lock, opencount, files, todo>>,
         alive' \subseteq VfsThread, Gone'
  PROVE  VfsInv'
<1> DEFINE fl == files[t]
<1>1. /\ files \in FilesType /\ held \in HeldType /\ opencount \in [Vnode -> Nat]
      /\ files \in [VfsThread -> [Vnode -> 0..MaxOpen]] /\ alive \subseteq VfsThread
  BY InvTypes, Zenon
<1>2. t \in VfsThread /\ fl \in [Vnode -> 0..MaxOpen]
  BY <1>1, Zenon
<1>3. Changes(t, u, d, b, fl, h)
  <2>1. opencount' = [v \in Vnode |-> opencount[v] + fl[v] - files[t][v]]
    <3>1. \A v \in Vnode : opencount[v] + fl[v] - files[t][v] = opencount[v]
      BY <1>1, <1>2, VfsAssumption
    <3> QED BY <1>1, <3>1, Zenon
  <2>2. files' = [files EXCEPT ![t] = fl]
    BY <1>1, <1>2, Zenon
  <2> QED BY <2>1, <2>2, Zenon DEF Changes
<1>4. Balanced(t, u, d, b, fl, h, gained, lost)
  <2> SUFFICES ASSUME NEW v \in Vnode
               PROVE  Is(d, v) + Is(b, v) + fl[v] + Times(v, h) + Times(v, lost)
                        = Is(t_cwd[u], v) + Is(bootfs_vnode, v) + fl[v] + Times(v, held[t])
                            + Times(v, gained)
    BY Zenon DEF Balanced
  <2> DEFINE x1 == Is(d, v)
             y1 == Is(b, v)
             x2 == Is(t_cwd[u], v)
             y2 == Is(bootfs_vnode, v)
             z == fl[v]
             h1 == Times(v, h)
             l1 == Times(v, lost)
             h2 == Times(v, held[t])
             g2 == Times(v, gained)
  <2>1. h1 \in Nat /\ l1 \in Nat /\ h2 \in Nat /\ g2 \in Nat /\ z \in Nat
    BY <1>1, <1>2, TimesFacts, VfsAssumption DEF HeldType
  <2>2. x1 \in Nat /\ y1 \in Nat /\ x2 \in Nat /\ y2 \in Nat
    BY Zenon DEF Is
  <2>3. (x1 + y1) + (h1 + l1) = (x2 + y2) + (h2 + g2)
    BY Zenon DEF DirBalance
  <2> HIDE DEF x1, y1, x2, y2, z, h1, l1, h2, g2
  <2>4. x1 + y1 + z + h1 + l1 = x2 + y2 + z + h2 + g2
    BY <2>1, <2>2, <2>3
  <2> QED BY <2>4, Zenon DEF x1, y1, x2, y2, z, h1, l1, h2, g2
<1> HIDE DEF fl
<1> QED
  BY <1>2, <1>3, <1>4, ThreadStep, Zenon

\* The call of a thread that is doing nothing, and of one in vfs_setbootfs.
LEMMA CallIsEmpty ==
  ASSUME VfsInv, NEW t \in alive, call[t] = Idle \/ call[t] = At(<<>>, "boot")
  PROVE  /\ t \in VfsThread /\ held[t] = <<>>
         /\ held' = [held EXCEPT ![t] = <<>>] <=> held' = held
         /\ Idle \in CallType /\ LocalOK(Idle, <<>>)
         /\ call[t] = Idle => (call' = [call EXCEPT ![t] = Idle] <=> call' = call)
<1>1. /\ t \in VfsThread /\ LocalOK(call[t], held[t])
      /\ held \in [VfsThread -> Seq(Vnode)] /\ call \in [VfsThread -> CallType]
  BY CallOf, Zenon
<1>2. call[t].at \in {"idle", "boot"}
  BY CallsAre DEF Places
<1>3. held[t] = <<>>
  BY <1>1, <1>2, Zenon DEF LocalOK
<1>4. Idle \in CallType /\ LocalOK(Idle, <<>>)
  BY CallsAre, Zenon DEF LocalOK
<1> QED
  BY <1>1, <1>3, <1>4, Zenon

\* vfs_setbootfs, vfs_clearbootfs, vfs_clearcurdir, thread_exit and thread_fork: what
\* becomes a current directory or the boot directory gains a reference, what was
\* one loses it.
LEMMA Replaced ==
  ASSUME VfsInv, NEW t \in alive, call[t] = Idle \/ call[t] = At(<<>>, "boot"),
         held' = [held EXCEPT ![t] = <<>>], call' = [call EXCEPT ![t] = Idle],
         NEW u \in VfsThread, NEW d, DirOrNone(d), NEW b, DirOrNone(b),
         t_cwd' = [t_cwd EXCEPT ![u] = d], bootfs_vnode' = b,
         NEW x \in Vnode \cup {NoVnode}, NEW y \in Vnode \cup {NoVnode},
         Count(One(x), One(y)), x # NoVnode => OnMounted(x),
         \/ b = bootfs_vnode /\ d = x /\ t_cwd[u] = y
         \/ d = t_cwd[u] /\ b = x /\ bootfs_vnode = y,
         UNCHANGED <<mounted, knowndevs_lock, opencount, files, todo>>,
         alive' \subseteq VfsThread, Gone'
  PROVE  VfsInv'
<1> DEFINE h == <<>>
           g == One(x)
           l == One(y)
<1>1. t \in VfsThread /\ held[t] = <<>> /\ Idle \in CallType /\ LocalOK(Idle, h)
  BY CallIsEmpty, Zenon
<1>2. h \in Seq(Vnode) /\ Len(h) <= 2
  OBVIOUS
<1>3. g \in Seq(Vnode) /\ l \in Seq(Vnode)
  BY VfsAssumption DEF One
<1>4. DirBalance(t, u, d, b, h, g, l)
  <2> SUFFICES ASSUME NEW v \in Vnode
               PROVE  (Is(d, v) + Is(b, v)) + (Times(v, h) + Times(v, l))
                        = (Is(t_cwd[u], v) + Is(bootfs_vnode, v)) + (Times(v, held[t]) + Times(v, g))
    BY Zenon DEF DirBalance
  <2>1. Times(v, h) = 0 /\ Times(v, held[t]) = 0
    BY <1>1, TimesFacts, Zenon
  <2>2. Times(v, l) = Is(y, v) /\ Times(v, g) = Is(x, v)
    BY TimesOfLists, Zenon
  <2>3. Is(d, v) \in Nat /\ Is(b, v) \in Nat /\ Is(x, v) \in Nat /\ Is(y, v) \in Nat
        /\ Is(t_cwd[u], v) \in Nat /\ Is(bootfs_vnode, v) \in Nat
    BY Zenon DEF Is
  <2>4. \/ Is(b, v) = Is(bootfs_vnode, v) /\ Is(d, v) = Is(x, v) /\ Is(t_cwd[u], v) = Is(y, v)
        \/ Is(d, v) = Is(t_cwd[u], v) /\ Is(b, v) = Is(x, v) /\ Is(bootfs_vnode, v) = Is(y, v)
    BY Zenon
  <2>5. CASE Is(b, v) = Is(bootfs_vnode, v) /\ Is(d, v) = Is(x, v) /\ Is(t_cwd[u], v) = Is(y, v)
    BY <2>1, <2>2, <2>3, <2>5
  <2>6. CASE Is(d, v) = Is(t_cwd[u], v) /\ Is(b, v) = Is(x, v) /\ Is(bootfs_vnode, v) = Is(y, v)
    BY <2>1, <2>2, <2>3, <2>6
  <2> QED BY <2>4, <2>5, <2>6, Zenon
<1>5. \A v \in Vnode : Times(v, g) > 0 => OnMounted(v)
  BY OneMounted, Zenon
<1>6. Counted(g, l)
  BY Zenon DEF Counted
<1>7. held' = [held EXCEPT ![t] = h]
  BY Zenon
<1> HIDE DEF h, g, l
<1> QED
  BY <1>1, <1>2, <1>3, <1>4, <1>5, <1>6, <1>7, DirStep, Zenon

\* The operations that replace a current directory or the boot directory.
LEMMA ReplaceSteps ==
  ASSUME VfsInv, NEW t \in alive,
         \/ vfs_setbootfs(t) \/ vfs_clearbootfs(t) \/ vfs_clearcurdir(t) \/ thread_exit_cwd(t)
         \/ \E u \in VfsThread : thread_fork_cwd(t, u)
  PROVE  VfsInv'
<1> DEFINE b0 == bootfs_vnode
           d0 == t_cwd[t]
<1>1. /\ t_cwd \in CwdType /\ b0 \in Vnode \cup {NoVnode} /\ alive \subseteq VfsThread /\ t \in VfsThread
      /\ d0 \in Vnode \cup {NoVnode}
  BY InvTypes, Zenon DEF CwdType
<1>2. DirOrNone(b0) /\ DirOrNone(NoVnode) /\ \A x \in VfsThread : DirOrNone(t_cwd[x])
  BY DirsAre, Zenon DEF DirOrNone
<1>3. d0 # NoVnode => OnMounted(d0)
  BY <1>1, InMemory, StillMounted, Zenon
<1>4. Gone /\ \A x \in VfsThread : t_cwd = [t_cwd EXCEPT ![x] = t_cwd[x]]
  BY <1>1, Zenon DEF VfsInv, CwdType
<1>5. CASE vfs_setbootfs(t)
  <2>1. /\ call[t] = At(<<>>, "boot") /\ bootfs_vnode' = d0 /\ Count(One(d0), One(b0))
        /\ held' = [held EXCEPT ![t] = <<>>] /\ call' = [call EXCEPT ![t] = Idle]
        /\ UNCHANGED <<mounted, knowndevs_lock, opencount, t_cwd, alive, files, todo>>
    BY <1>5, Zenon DEF vfs_setbootfs, Done
  <2>2. t_cwd' = [t_cwd EXCEPT ![t] = d0] /\ Gone' /\ alive' \subseteq VfsThread
    BY <1>1, <1>4, <2>1, Zenon DEF Gone
  <2> QED BY <1>1, <1>2, <1>3, <2>1, <2>2, Replaced, Zenon
<1>6. CASE vfs_clearbootfs(t)
  <2>1. /\ call[t] = Idle /\ bootfs_vnode' = NoVnode /\ Count(<<>>, <<b0>>) /\ b0 # NoVnode
        /\ UNCHANGED <<mounted, knowndevs_lock, opencount, t_cwd, alive, files, held, call, todo>>
    BY <1>6, Zenon DEF vfs_clearbootfs
  <2>2. t_cwd' = [t_cwd EXCEPT ![t] = d0] /\ Gone' /\ alive' \subseteq VfsThread
    BY <1>1, <1>4, <2>1, Zenon DEF Gone
  <2>3. Count(One(NoVnode), One(b0))
    BY <2>1, Zenon DEF One
  <2>4. held' = [held EXCEPT ![t] = <<>>] /\ call' = [call EXCEPT ![t] = Idle]
    BY <2>1, CallIsEmpty, Zenon
  <2> QED BY <1>1, <1>2, <2>1, <2>2, <2>3, <2>4, Replaced, Zenon
<1>7. CASE vfs_clearcurdir(t)
  <2>1. /\ call[t] = Idle /\ t_cwd' = [t_cwd EXCEPT ![t] = NoVnode] /\ Count(<<>>, <<d0>>) /\ d0 # NoVnode
        /\ UNCHANGED <<mounted, knowndevs_lock, opencount, bootfs_vnode, alive, files, held, call, todo>>
    BY <1>7, Zenon DEF vfs_clearcurdir
  <2>2. Gone' /\ alive' \subseteq VfsThread
    BY <1>1, <1>4, <2>1, Zenon DEF Gone, CwdType
  <2>3. Count(One(NoVnode), One(d0))
    BY <2>1, Zenon DEF One
  <2>4. held' = [held EXCEPT ![t] = <<>>] /\ call' = [call EXCEPT ![t] = Idle]
    BY <2>1, CallIsEmpty, Zenon
  <2> QED BY <1>1, <1>2, <2>1, <2>2, <2>3, <2>4, Replaced, Zenon
<1>8. CASE thread_exit_cwd(t)
  <2>1. /\ call[t] = Idle /\ t_cwd' = [t_cwd EXCEPT ![t] = NoVnode] /\ Count(<<>>, One(d0))
        /\ alive' = alive \ {t}
        /\ UNCHANGED <<mounted, knowndevs_lock, opencount, bootfs_vnode, files, held, call, todo>>
    BY <1>8, Zenon DEF thread_exit_cwd
  <2>2. Gone' /\ alive' \subseteq VfsThread
    BY <1>1, <1>4, <2>1, Zenon DEF Gone, CwdType
  <2>3. Count(One(NoVnode), One(d0))
    BY <2>1, Zenon DEF One
  <2>4. held' = [held EXCEPT ![t] = <<>>] /\ call' = [call EXCEPT ![t] = Idle]
    BY <2>1, CallIsEmpty, Zenon
  <2> QED BY <1>1, <1>2, <2>1, <2>2, <2>3, <2>4, Replaced, Zenon
<1>9. ASSUME NEW u \in VfsThread, thread_fork_cwd(t, u) PROVE VfsInv'
  <2>1. /\ call[t] = Idle /\ t_cwd' = [t_cwd EXCEPT ![u] = d0] /\ Count(One(d0), <<>>)
        /\ alive' = alive \cup {u} /\ u \notin alive
        /\ UNCHANGED <<mounted, knowndevs_lock, opencount, bootfs_vnode, files, held, call, todo>>
    BY <1>9, Zenon DEF thread_fork_cwd
  <2>2. Gone' /\ alive' \subseteq VfsThread /\ t_cwd[u] = NoVnode
    BY <1>1, <1>4, <2>1 DEF Gone, CwdType
  <2>3. Count(One(d0), One(NoVnode))
    BY <2>1, Zenon DEF One
  <2>4. held' = [held EXCEPT ![t] = <<>>] /\ call' = [call EXCEPT ![t] = Idle]
    BY <2>1, CallIsEmpty, Zenon
  <2> QED BY <1>1, <1>2, <1>3, <2>1, <2>2, <2>3, <2>4, Replaced, Zenon
<1> QED
  BY <1>5, <1>6, <1>7, <1>8, <1>9, Zenon

\* vfs_chdir: what was looked up becomes the current directory, if it is one.
LEMMA ChdirStep ==
  ASSUME VfsInv, NEW t \in alive, vfs_chdir(t)
  PROVE  VfsInv'
<1> DEFINE y == held[t][1]
<1>1. /\ t \in VfsThread /\ held[t] \in Seq(Vnode) /\ Len(held[t]) \in Nat
      /\ LocalOK(call[t], held[t]) /\ call[t] = At(OneVnode, "found")
  BY CallOf, Zenon DEF vfs_chdir, Ready
<1>2. Len(held[t]) = 1
  BY <1>1, CallsAre DEF LocalOK, Places
<1>3. y \in Vnode /\ OnMounted(y) /\ held[t] = <<y>>
  <2>1. held[t] # <<>>
    BY <1>2
  <2> QED BY <1>2, <2>1, HeldLast, Zenon
<1>4. t_cwd \in CwdType /\ bootfs_vnode \in Vnode \cup {NoVnode} /\ alive \subseteq VfsThread
  BY InvTypes, Zenon
<1>5. CASE ~S_ISDIR(y)
  <2>1. Counted(<<>>, held[t]) /\ Done(t)
    BY <1>5, Zenon DEF vfs_chdir, Done, Counted
  <2>2. UNCHANGED <<mounted, knowndevs_lock, opencount, t_cwd, bootfs_vnode, alive, files, todo>>
    BY <1>5, Zenon DEF vfs_chdir
  <2> QED BY <2>1, <2>2, DroppedAll, Zenon
<1>6. CASE S_ISDIR(y)
  <2> DEFINE d0 == t_cwd[t]
             b == bootfs_vnode
             h == <<>>
             g == <<y>>
             l == One(d0) \o <<y>>
  <2>1. PICK c \in {Idle, At(<<>>, "boot")} : call' = [call EXCEPT ![t] = c]
    BY <1>6, Zenon DEF vfs_chdir
  <2>2. /\ t_cwd' = [t_cwd EXCEPT ![t] = y] /\ Count(g, l) /\ held' = [held EXCEPT ![t] = h]
        /\ UNCHANGED <<mounted, knowndevs_lock, opencount, bootfs_vnode, alive, files, todo>>
    BY <1>3, <1>6, Zenon DEF vfs_chdir
  <2>3. c \in CallType /\ LocalOK(c, h)
    BY <2>1, CallsAre DEF LocalOK, Places
  <2>4. DirOrNone(y) /\ DirOrNone(b) /\ d0 \in Vnode \cup {NoVnode}
    BY <1>1, <1>3, <1>4, <1>6, DirsAre, Zenon DEF DirOrNone, CwdType
  <2>5. g \in Seq(Vnode) /\ l \in Seq(Vnode) /\ h \in Seq(Vnode) /\ Len(h) <= 2
    BY <1>3, <2>4, TimesOfLists
  <2>6. DirBalance(t, t, y, b, h, g, l)
    <3> SUFFICES ASSUME NEW v \in Vnode
                 PROVE  (Is(y, v) + Is(b, v)) + (Times(v, h) + Times(v, l))
                          = (Is(d0, v) + Is(b, v)) + (Times(v, held[t]) + Times(v, g))
      BY Zenon DEF DirBalance
    <3>1. Times(v, h) = 0 /\ Times(v, l) = Is(d0, v) + Is(y, v) /\ Times(v, g) = Is(y, v)
      BY <1>3, <2>4, TimesOfLists, TimesFacts, Zenon
    <3>2. Times(v, held[t]) = Is(y, v)
      BY <1>3, <3>1, Zenon
    <3>3. Is(y, v) \in Nat /\ Is(b, v) \in Nat /\ Is(d0, v) \in Nat
      BY Zenon DEF Is
    <3> HIDE DEF y, b, h, g, l, d0
    <3> QED BY <3>1, <3>2, <3>3
  <2>7. \A v \in Vnode : Times(v, g) > 0 => OnMounted(v)
    <3> SUFFICES ASSUME NEW v \in Vnode, Times(v, g) > 0 PROVE OnMounted(v)
      BY Zenon
    <3>1. Times(v, g) = Is(y, v)
      BY <1>3, TimesOfLists, Zenon
    <3>2. y = v
      BY <3>1 DEF Is
    <3> QED BY <1>3, <3>2, Zenon
  <2>8. Gone' /\ alive' \subseteq VfsThread
    <3>1. Gone
      BY Zenon DEF VfsInv
    <3> QED BY <1>4, <2>2, <3>1, Zenon DEF Gone, CwdType
  <2>9. bootfs_vnode' = b /\ Counted(g, l)
    BY <2>2, Zenon DEF Counted
  <2> HIDE DEF y, b, h, g, l
  <2> QED BY <1>1, <2>1, <2>2, <2>3, <2>4, <2>5, <2>6, <2>7, <2>8, <2>9, DirStep, Zenon
<1> QED
  BY <1>5, <1>6, Zenon
----------------------------------------------------------------------------
(* Open files                                                              *)

\* A step that changes the files a thread has open.
LEMMA FilesStep ==
  ASSUME VfsInv, NEW t \in alive, NEW fl \in [Vnode -> 0..MaxOpen],
         NEW lost \in Seq(Vnode), Counted(<<>>, lost), Done(t),
         files' = [files EXCEPT ![t] = fl],
         opencount' = [v \in Vnode |-> opencount[v] + fl[v] - files[t][v]],
         \A v \in Vnode : fl[v] + Times(v, lost) = files[t][v] + Times(v, held[t]),
         UNCHANGED <<mounted, knowndevs_lock, t_cwd, bootfs_vnode, alive, todo>>
  PROVE  VfsInv'
<1> DEFINE d == t_cwd[t]
           b == bootfs_vnode
           h == <<>>
           g == <<>>
<1>1. /\ t_cwd \in CwdType /\ files \in FilesType /\ held \in HeldType /\ alive \subseteq VfsThread
  BY InvTypes, Zenon
<1>2. t \in VfsThread /\ DirOrNone(d) /\ DirOrNone(b)
  BY <1>1, DirsAre, Zenon
<1>3. Changes(t, t, d, b, fl, h)
  BY <1>1, <1>2, Zenon DEF Changes, Done, CwdType
<1>4. Balanced(t, t, d, b, fl, h, g, lost)
  <2> SUFFICES ASSUME NEW v \in Vnode
               PROVE  Is(d, v) + Is(b, v) + fl[v] + Times(v, h) + Times(v, lost)
                        = Is(d, v) + Is(b, v) + files[t][v] + Times(v, held[t]) + Times(v, g)
    BY Zenon DEF Balanced
  <2> DEFINE x == Is(d, v)
             y == Is(b, v)
             z == fl[v]
             w == files[t][v]
             l1 == Times(v, lost)
             h2 == Times(v, held[t])
  <2>1. l1 \in Nat /\ h2 \in Nat /\ z \in Nat /\ w \in Nat /\ Times(v, h) = 0 /\ Times(v, g) = 0
    <3>1. l1 \in Nat /\ h2 \in Nat /\ Times(v, h) = 0 /\ Times(v, g) = 0
      BY <1>1, <1>2, TimesFacts, Zenon DEF HeldType
    <3>2. fl[v] \in 0..MaxOpen /\ files[t][v] \in Nat
      BY <1>1, <1>2, Zenon DEF FilesType
    <3>3. z \in Nat /\ w \in Nat
      BY <3>2
    <3> QED BY <3>1, <3>3, Zenon
  <2>2. x \in Nat /\ y \in Nat
    BY Zenon DEF Is
  <2>3. z + l1 = w + h2
    BY Zenon
  <2> HIDE DEF x, y, z, w, l1, h2, h, g
  <2>4. x + y + z + Times(v, h) + l1 = x + y + w + h2 + Times(v, g)
    BY <2>1, <2>2, <2>3
  <2> QED BY <2>4, Zenon DEF x, y, z, w, l1, h2
<1>5. Gone' /\ Idle \in CallType /\ LocalOK(Idle, h) /\ call' = [call EXCEPT ![t] = Idle]
  BY CallsAre, Zenon DEF VfsInv, Gone, LocalOK, Done
<1>6. /\ h \in Seq(Vnode) /\ Len(h) <= 2 /\ g \in Seq(Vnode) /\ Counted(g, lost)
      /\ \A v \in Vnode : Times(v, g) > 0 => OnMounted(v)
  <2>1. h \in Seq(Vnode) /\ Len(h) <= 2 /\ g \in Seq(Vnode)
    OBVIOUS
  <2>2. \A v \in Vnode : Times(v, g) = 0
    BY TimesFacts, Zenon
  <2>3. \A v \in Vnode : Times(v, g) > 0 => OnMounted(v)
    BY <2>2
  <2>4. Counted(g, lost)
    BY Zenon
  <2> QED BY <2>1, <2>3, <2>4, Zenon
<1> HIDE DEF d, b, h, g
<1> QED
  BY <1>1, <1>2, <1>3, <1>4, <1>5, <1>6, ThreadStep, Zenon

\* The fold vfs_open's bound is about is the sum of the files a thread has open.
LEMMA OpenFold ==
  ASSUME files \in FilesType, NEW t \in VfsThread
  PROVE  FoldSet(LAMBDA v, n : n + files[t][v], 0, Vnode) = SumOver(Vnode, files[t])
<1> DEFINE w == files[t]
           p(s) == CHOOSE x \in s : TRUE
           g == CHOOSE g : g = [s \in SUBSET Vnode |-> IF s = {} THEN 0
                    ELSE g[s \ {p(s)}] + w[p(s)]]
           F(it) == [s \in SUBSET Vnode |-> IF s = {} THEN 0 ELSE it[s \ {p(s)}] + w[p(s)]]
<1>1. \A x \in Vnode : w[x] \in Nat
  BY Zenon DEF FilesType
<1>2. FoldSet(LAMBDA v, n : n + files[t][v], 0, Vnode) = g[Vnode]
  BY Zenon DEF FoldSet, MapThenFoldSet
<1>3. ASSUME NEW it PROVE F(it) = [T \in SUBSET Vnode |-> IF T = {} THEN 0
                                     ELSE it[T \ {Pick(T)}] + w[Pick(T)]]
  <2>1. ASSUME NEW s \in SUBSET Vnode, s # {} PROVE p(s) = Pick(s)
    BY <2>1, Zenon DEF Pick
  <2> HIDE DEF w, p
  <2> QED BY <2>1, Zenon
<1>4. PICK it : IsSum(Vnode, w, it)
  <2> HIDE DEF w
  <2> QED BY SumDefined, VfsAssumption, Zenon
<1>5. it = F(it)
  <2> HIDE DEF F, w
  <2> QED BY <1>3, <1>4, Zenon DEF IsSum
<1>6. g = CHOOSE f1 : f1 = F(f1)
  BY Zenon
<1>7. g = F(g)
  <2> HIDE DEF F, g
  <2> QED BY <1>5, <1>6, Zenon
<1>8. IsSum(Vnode, w, g)
  <2> HIDE DEF F, w, g
  <2> QED BY <1>3, <1>7, Zenon DEF IsSum
<1> HIDE DEF g, p, F
<1>9. g[Vnode] = SumOver(Vnode, w)
  BY <1>1, <1>8, FoldIsSum, VfsAssumption
<1> QED
  BY <1>2, <1>9, Zenon

\* vfs_open: the reference the lookup gave becomes that of the open file, or is
\* dropped.
LEMMA OpenStep ==
  ASSUME VfsInv, NEW t \in alive, vfs_open(t)
  PROVE  VfsInv'
<1> DEFINE y == held[t][1]
<1>1. /\ t \in VfsThread /\ held[t] \in Seq(Vnode) /\ Len(held[t]) \in Nat
      /\ LocalOK(call[t], held[t])
      /\ call[t] = At(OneVnode, "found") \/ call[t] = At(OneVnode, "open")
  BY CallOf, Zenon DEF vfs_open, Ready
<1>2. Len(held[t]) = 1
  BY <1>1, CallsAre DEF LocalOK, Places
<1>3. y \in Vnode /\ held[t] = <<y>>
  <2>1. held[t] # <<>>
    BY <1>2
  <2> QED BY <1>2, <2>1, HeldLast, Zenon
<1>4. UNCHANGED <<mounted, knowndevs_lock, t_cwd, bootfs_vnode, alive, todo>> /\ Done(t)
  BY Zenon DEF vfs_open
<1>5. CASE Count(<<>>, <<y>>) /\ UNCHANGED <<opencount, files>>
  <2>1. Counted(<<>>, held[t])
    BY <1>3, <1>5, Zenon DEF Counted
  <2> QED BY <1>4, <1>5, <2>1, DroppedAll, Zenon
<1>6. CASE /\ FoldSet(LAMBDA v, n : n + files[t][v], 0, Vnode) < MaxOpen
           /\ opencount' = [opencount EXCEPT ![y] = @ + 1]
           /\ files' = [files EXCEPT ![t][y] = @ + 1]
           /\ UNCHANGED <<refcount, orphans>>
  <2> DEFINE fl == [files[t] EXCEPT ![y] = @ + 1]
             n == SumOver(Vnode, files[t])
             k == files[t][y]
  <2>0. /\ opencount' = [opencount EXCEPT ![y] = @ + 1] /\ files' = [files EXCEPT ![t] = fl]
        /\ refcount' = refcount /\ orphans' = orphans
    BY <1>6, Zenon
  <2>1. /\ files \in [VfsThread -> [Vnode -> 0..MaxOpen]] /\ opencount \in [Vnode -> Nat]
        /\ files \in FilesType
    BY InvTypes, Zenon
  <2>2. files[t][y] < MaxOpen
    <3>1. n < MaxOpen
      BY <1>1, <1>6, <2>1, OpenFold, Zenon
    <3>2. \A v \in Vnode : files[t][v] \in Nat
      BY <1>1, <2>1, Zenon DEF FilesType
    <3>3. n \in Nat /\ k <= n /\ k \in Nat
      BY <1>3, <3>2, SumAtLeast, VfsAssumption
    <3> HIDE DEF n, k
    <3>4. k < MaxOpen
      BY <3>1, <3>3, VfsAssumption
    <3> QED BY <3>4, Zenon DEF k
  <2>a. MaxOpen \in Nat
    BY VfsAssumption, Zenon
  <2>3. files[t] \in [Vnode -> 0..MaxOpen] /\ files[t][y] + 1 \in 0..MaxOpen
    BY <1>1, <1>3, <2>1, <2>2, <2>a
  <2>4. fl \in [Vnode -> 0..MaxOpen] /\ \A v \in Vnode : fl[v] = files[t][v] + Is(y, v)
    BY <1>3, <2>3, VfsAssumption DEF Is
  <2> HIDE DEF fl, y
  <2>6. opencount' = [v \in Vnode |-> opencount[v] + fl[v] - files[t][v]]
    <3>1. \A v \in Vnode : opencount[v] + fl[v] - files[t][v] = opencount[v] + Is(y, v)
      <4> SUFFICES ASSUME NEW v \in Vnode
                   PROVE  opencount[v] + fl[v] - files[t][v] = opencount[v] + Is(y, v)
        BY Zenon
      <4>1. opencount[v] \in Nat /\ files[t][v] \in Nat /\ Is(y, v) \in Nat
        BY <2>1, <2>3, VfsAssumption DEF Is
      <4> QED BY <2>4, <4>1
    <3>2. \A v \in Vnode : opencount'[v] = opencount[v] + Is(y, v)
      BY <1>3, <2>0, <2>1 DEF Is
    <3> QED BY <2>0, <2>1, <3>1, <3>2, Zenon
  <2>7. Counted(<<>>, <<>>) /\ <<>> \in Seq(Vnode)
    BY <2>0 DEF Counted
  <2>8. \A v \in Vnode : fl[v] + Times(v, <<>>) = files[t][v] + Times(v, held[t])
    <3> SUFFICES ASSUME NEW v \in Vnode
                 PROVE  fl[v] + Times(v, <<>>) = files[t][v] + Times(v, <<y>>)
      BY <1>3, Zenon
    <3>1. Times(v, <<>>) = 0 /\ Times(v, <<y>>) = Is(y, v)
      BY <1>3, TimesFacts, TimesOfLists, Zenon
    <3>2. Is(y, v) \in Nat /\ files[t][v] \in Nat
      BY <2>3, VfsAssumption DEF Is
    <3> QED BY <2>4, <3>1, <3>2
  <2> DEFINE l == <<>>
  <2>9. l \in Seq(Vnode) /\ Counted(<<>>, l)
        /\ \A v \in Vnode : fl[v] + Times(v, l) = files[t][v] + Times(v, held[t])
    BY <2>7, <2>8, Zenon
  <2>10. files' = [files EXCEPT ![t] = fl]
    BY <2>0, Zenon
  <2> HIDE DEF l
  <2> QED BY <1>4, <2>4, <2>6, <2>9, <2>10, FilesStep, Zenon
<1> QED
  BY <1>5, <1>6, Zenon DEF vfs_open

\* vfs_close.
LEMMA CloseStep ==
  ASSUME VfsInv, NEW t \in alive, NEW y \in Vnode, vfs_close(t, y)
  PROVE  VfsInv'
<1> DEFINE fl == [files[t] EXCEPT ![y] = @ - 1]
<1>1. /\ call[t] = Idle /\ files[t][y] > 0 /\ Count(<<>>, <<y>>)
      /\ opencount' = [opencount EXCEPT ![y] = @ - 1] /\ files' = [files EXCEPT ![t] = fl]
      /\ UNCHANGED <<mounted, knowndevs_lock, t_cwd, bootfs_vnode, alive, held, call, todo>>
  BY Zenon DEF vfs_close
<1>2. t \in VfsThread /\ held[t] = <<>> /\ Done(t)
  BY <1>1, CallIsEmpty, Zenon DEF Done
<1>3. files \in [VfsThread -> [Vnode -> 0..MaxOpen]] /\ opencount \in [Vnode -> Nat]
  BY InvTypes, Zenon
<1>a. MaxOpen \in Nat
  BY VfsAssumption, Zenon
<1>b. files[t] \in [Vnode -> 0..MaxOpen]
  BY <1>2, <1>3, Zenon
<1>4. files[t] \in [Vnode -> 0..MaxOpen] /\ files[t][y] - 1 \in 0..MaxOpen
  BY <1>1, <1>a, <1>b
<1>5. fl \in [Vnode -> 0..MaxOpen] /\ \A v \in Vnode : fl[v] = files[t][v] - Is(y, v)
  BY <1>4, VfsAssumption DEF Is
<1> HIDE DEF fl
<1>6. opencount' = [v \in Vnode |-> opencount[v] + fl[v] - files[t][v]]
  <2>1. \A v \in Vnode : opencount[v] + fl[v] - files[t][v] = opencount[v] - Is(y, v)
    <3> SUFFICES ASSUME NEW v \in Vnode
                 PROVE  opencount[v] + fl[v] - files[t][v] = opencount[v] - Is(y, v)
      BY Zenon
    <3>1. opencount[v] \in Nat /\ files[t][v] \in Nat /\ Is(y, v) \in Nat
      BY <1>3, <1>4, VfsAssumption DEF Is
    <3> QED BY <1>5, <3>1
  <2>2. \A v \in Vnode : opencount'[v] = opencount[v] - Is(y, v)
    BY <1>1, <1>3 DEF Is
  <2> QED BY <1>1, <1>3, <2>1, <2>2, Zenon
<1>7. Counted(<<>>, <<y>>) /\ <<y>> \in Seq(Vnode)
  BY <1>1 DEF Counted
<1>8. \A v \in Vnode : fl[v] + Times(v, <<y>>) = files[t][v] + Times(v, held[t])
  <2> SUFFICES ASSUME NEW v \in Vnode
               PROVE  fl[v] + Times(v, <<y>>) = files[t][v] + Times(v, <<>>)
    BY <1>2, Zenon
  <2>1. Times(v, <<>>) = 0 /\ Times(v, <<y>>) = Is(y, v)
    BY TimesFacts, TimesOfLists, Zenon
  <2>2. Is(y, v) \in Nat /\ files[t][v] \in Nat
    BY <1>4, VfsAssumption DEF Is
  <2> QED BY <1>5, <2>1, <2>2
<1> DEFINE l == <<y>>
<1>9. l \in Seq(Vnode) /\ Counted(<<>>, l)
      /\ \A v \in Vnode : fl[v] + Times(v, l) = files[t][v] + Times(v, held[t])
  BY <1>7, <1>8, Zenon
<1>10. /\ files' = [files EXCEPT ![t] = fl]
       /\ UNCHANGED <<mounted, knowndevs_lock, t_cwd, bootfs_vnode, alive, todo>>
  BY <1>1, Zenon
<1> HIDE DEF l
<1> QED
  BY <1>2, <1>5, <1>6, <1>9, <1>10, FilesStep, Zenon
----------------------------------------------------------------------------
(* Mounting and unmounting                                                 *)

\* A step that counts nothing and keeps every file system in use mounted.
LEMMA TableStep ==
  ASSUME VfsInv, NEW t \in alive,
         UNCHANGED <<refcount, opencount, orphans, t_cwd, bootfs_vnode, alive, files, held>>,
         mounted' \subseteq Disk, todo' \subseteq Disk, knowndevs_lock' \in VfsThread \cup {NoThread},
         NEW c \in CallType, c.at \in {"idle", "sync", "synced"}, held[t] = <<>>,
         call' = [call EXCEPT ![t] = c],
         \A v \in Vnode : OnFs(v) /\ refcount[v] > 0 => FsOf(v) \in EmuFs \cup mounted'
  PROVE  VfsInv'
<1>1. VfsTypes /\ Counts /\ FsInUseIsMounted /\ Gone /\ t \in VfsThread
  BY InvTypes, Zenon DEF VfsInv
<1>2. VfsTypes'
  BY <1>1, Zenon DEF VfsTypes, VfsTypeOK
<1>3. Counts' /\ Gone'
  BY <1>1, Zenon DEF Counts, Gone, Refs, Orphan
<1>4. FsInUseIsMounted'
  BY <1>1, Zenon DEF FsInUseIsMounted
<1>5. ASSUME NEW x \in VfsThread PROVE LocalOK(call'[x], held'[x])
  <2>1. CASE x = t
    <3>1. call'[x] = c /\ held'[x] = <<>>
      BY <1>1, <2>1, Zenon DEF VfsTypes
    <3> QED BY <3>1, Zenon DEF LocalOK
  <2>2. CASE x # t
    <3>1. call'[x] = call[x] /\ held'[x] = held[x]
      BY <1>1, <2>2, Zenon DEF VfsTypes
    <3> QED BY <3>1, Zenon DEF VfsInv
  <2> QED BY <2>1, <2>2, Zenon
<1> QED
  BY <1>2, <1>3, <1>4, <1>5, Zenon DEF VfsInv

\* The operations of vfslist.c under knowndevs_lock.
LEMMA MountSteps ==
  ASSUME VfsInv, NEW t \in alive,
         \/ \E d \in Disk : vfs_mount(t, d)
         \/ \E disks \in {{d} : d \in Disk} \cup {Disk} : vfs_unmount(t, disks)
         \/ Sync(t) \/ FSOP_UNMOUNT(t)
  PROVE  VfsInv'
<1> DEFINE synced == At(<<>>, "synced")
           syncing == At(<<>>, "sync")
<1>1. /\ t \in VfsThread /\ call[t] \in CallType /\ LocalOK(call[t], held[t])
      /\ call \in [VfsThread -> CallType]
  BY CallOf, Zenon
<1>2. /\ Idle \in CallType /\ Idle.at = "idle" /\ synced \in CallType /\ synced.at = "synced"
      /\ syncing \in CallType /\ syncing.at = "sync"
  BY CallsAre DEF Places
<1>3. /\ mounted \subseteq Disk /\ todo \subseteq Disk /\ knowndevs_lock \in VfsThread \cup {NoThread}
      /\ \A v \in Vnode : OnFs(v) /\ refcount[v] > 0 => FsOf(v) \in EmuFs \cup mounted
  BY Zenon DEF VfsInv, VfsTypes, VfsTypeOK, FsInUseIsMounted
<1>4. [synced EXCEPT !.at = "sync"] = syncing /\ [syncing EXCEPT !.at = "synced"] = synced
  BY DEF At
<1> HIDE DEF synced, syncing
<1>5. call[t] \in {Idle, synced, syncing} => held[t] = <<>>
  BY <1>1, <1>2, Zenon DEF LocalOK
<1>6. ASSUME NEW d \in Disk, vfs_mount(t, d) PROVE VfsInv'
  <2>1. /\ call[t] = Idle /\ mounted' = mounted \cup {d}
        /\ UNCHANGED <<knowndevs_lock, refcount, opencount, orphans, t_cwd, bootfs_vnode,
                       alive, files, held, call, todo>>
    BY <1>6, Zenon DEF vfs_mount
  <2>2. call' = [call EXCEPT ![t] = Idle] /\ held[t] = <<>>
    BY <1>1, <1>5, <2>1, Zenon
  <2>3. /\ mounted' \subseteq Disk /\ todo' \subseteq Disk /\ knowndevs_lock' \in VfsThread \cup {NoThread}
        /\ \A v \in Vnode : OnFs(v) /\ refcount[v] > 0 => FsOf(v) \in EmuFs \cup mounted'
    BY <1>3, <2>1, Zenon
  <2> QED BY <1>2, <2>1, <2>2, <2>3, TableStep, Zenon
<1>7. ASSUME NEW disks \in {{d} : d \in Disk} \cup {Disk}, vfs_unmount(t, disks) PROVE VfsInv'
  <2>1. /\ call[t] = Idle /\ knowndevs_lock' = t /\ todo' = disks \cap mounted
        /\ call' = [call EXCEPT ![t] = syncing]
        /\ UNCHANGED <<mounted, refcount, opencount, orphans, t_cwd, bootfs_vnode, alive, files, held>>
    BY <1>7, Zenon DEF vfs_unmount, syncing
  <2>2. held[t] = <<>>
    BY <1>5, <2>1, Zenon
  <2>3. /\ mounted' \subseteq Disk /\ todo' \subseteq Disk /\ knowndevs_lock' \in VfsThread \cup {NoThread}
        /\ \A v \in Vnode : OnFs(v) /\ refcount[v] > 0 => FsOf(v) \in EmuFs \cup mounted'
    BY <1>1, <1>3, <2>1, Zenon
  <2> QED BY <1>2, <2>1, <2>2, <2>3, TableStep, Zenon
<1>8. CASE Sync(t)
  <2>1. /\ call[t] = syncing
        /\ UNCHANGED <<mounted, refcount, opencount, orphans, t_cwd, bootfs_vnode, alive, files, held>>
    BY <1>8, Zenon DEF Sync, syncing
  <2>2. held[t] = <<>>
    BY <1>5, <2>1, Zenon
  <2>3. PICK c \in {Idle, synced, syncing} : call' = [call EXCEPT ![t] = c]
    <3>1. \/ call' = [call EXCEPT ![t].at = "synced"]
          \/ call' = call
          \/ call' = [call EXCEPT ![t] = Idle]
      BY <1>8, Zenon DEF Sync
    <3>2. [call EXCEPT ![t].at = "synced"] = [call EXCEPT ![t] = synced]
      BY <1>4, <2>1, Zenon
    <3>3. call = [call EXCEPT ![t] = syncing]
      BY <1>1, <2>1, Zenon
    <3> QED BY <3>1, <3>2, <3>3, Zenon
  <2>4. todo' \subseteq todo /\ knowndevs_lock' \in {knowndevs_lock, NoThread}
    BY <1>8, Zenon DEF Sync
  <2>5. /\ mounted' \subseteq Disk /\ todo' \subseteq Disk /\ knowndevs_lock' \in VfsThread \cup {NoThread}
        /\ \A v \in Vnode : OnFs(v) /\ refcount[v] > 0 => FsOf(v) \in EmuFs \cup mounted'
    BY <1>3, <2>1, <2>4, Zenon
  <2>6. c \in CallType /\ c.at \in {"idle", "sync", "synced"}
    BY <1>2, <2>3, Zenon
  <2> QED BY <2>1, <2>2, <2>3, <2>5, <2>6, TableStep, Zenon
<1>9. CASE FSOP_UNMOUNT(t)
  <2>1. /\ call[t] = synced /\ call' = [call EXCEPT ![t].at = "sync"]
        /\ UNCHANGED <<knowndevs_lock, refcount, opencount, orphans, t_cwd, bootfs_vnode,
                       alive, files, held>>
    BY <1>9, Zenon DEF FSOP_UNMOUNT, synced
  <2>2. PICK d \in todo : /\ todo' = todo \ {d}
                          /\ mounted' = IF Loaded(d) = {} THEN mounted \ {d} ELSE mounted
    BY <1>9, Zenon DEF FSOP_UNMOUNT
  <2>3. call' = [call EXCEPT ![t] = syncing] /\ held[t] = <<>>
    BY <1>4, <1>5, <2>1, Zenon
  <2>4. ASSUME NEW v \in Vnode, OnFs(v), refcount[v] > 0 PROVE FsOf(v) \in EmuFs \cup mounted'
    <3>1. FsOf(v) \in EmuFs \cup mounted
      BY <1>3, <2>4, Zenon
    <3>2. CASE Loaded(d) = {}
      <4>1. FsOf(v) # d
        BY <2>4, <3>2, Zenon DEF Loaded
      <4> QED BY <2>2, <3>1, <3>2, <4>1
    <3>3. CASE Loaded(d) # {}
      BY <2>2, <3>1, <3>3, Zenon
    <3> QED BY <3>2, <3>3, Zenon
  <2>5. mounted' \subseteq Disk /\ todo' \subseteq Disk /\ knowndevs_lock' \in VfsThread \cup {NoThread}
    BY <1>3, <2>1, <2>2, Zenon
  <2> QED BY <1>2, <2>1, <2>3, <2>4, <2>5, TableStep, Zenon
<1> QED
  BY <1>6, <1>7, <1>8, <1>9
----------------------------------------------------------------------------
(* The invariant holds                                                     *)

\* vfs_bootstrap: nothing is mounted, and only the device table has references.
LEMMA VfsInvInit == VfsInit => VfsInv
<1> SUFFICES ASSUME VfsInit PROVE VfsInv
  BY Zenon
<1>1. VfsTypeOK
  BY VfsAssumption DEF VfsInit, VfsTypeOK
<1>2. held \in [VfsThread -> Seq(Vnode)] /\ call \in [VfsThread -> CallType]
  BY CallsAre DEF VfsInit
<1>3. \A t \in VfsThread : LocalOK(call[t], held[t])
  BY CallsAre, Zenon DEF VfsInit, LocalOK
<1>4. Gone /\ FsInUseIsMounted
  BY DEF VfsInit, Gone, FsInUseIsMounted
<1>5. ASSUME NEW v \in Vnode
      PROVE  /\ refcount[v] = Refs(v) + Orphan(v)
             /\ opencount[v] = SumOver(VfsThread, OpensOf(files, v))
  <2> DEFINE w == UsesOf(files, held, v)
             u == OpensOf(files, v)
  <2>1. Times(v, <<>>) = 0
    BY TimesFacts, Zenon
  <2>2. \A x \in VfsThread : w[x] = 0 /\ u[x] = 0
    BY <2>1 DEF VfsInit, UsesOf, OpensOf
  <2>3. SumOver(VfsThread, w) = 0 /\ SumOver(VfsThread, u) = 0
    <3> HIDE DEF w, u
    <3> QED BY <2>2, SumOfZeros, VfsAssumption, Zenon
  <2>4. CwdsOf(t_cwd, v) = 0
    <3>1. {t \in VfsThread : t_cwd[t] = v} = {}
      BY VfsAssumption, Zenon DEF VfsInit
    <3> QED BY <3>1, CardinalityOfNone, Zenon DEF CwdsOf
  <2>5. Is(bootfs_vnode, v) = 0 /\ Orphan(v) = 0
    BY VfsAssumption, Zenon DEF VfsInit, Is, Orphan
  <2>6. refcount[v] = (IF OnFs(v) THEN 0 ELSE 1) /\ opencount[v] = 0
    BY Zenon DEF VfsInit
  <2>7. Refs(v) = CwdsOf(t_cwd, v) + Is(bootfs_vnode, v) + SumOver(VfsThread, w)
                    + (IF OnFs(v) THEN 0 ELSE 1)
    BY Zenon DEF Refs, RefsOf
  <2> HIDE DEF w
  <2>8. Refs(v) = IF OnFs(v) THEN 0 ELSE 1
    BY <2>3, <2>4, <2>5, <2>7
  <2> QED BY <2>3, <2>5, <2>6, <2>8
<1>6. Counts
  BY <1>5, Zenon DEF Counts
<1> QED
  BY <1>1, <1>2, <1>3, <1>4, <1>6 DEF VfsInv, VfsTypes

\* Every step of every thread keeps the invariant.
LEMMA VfsInvStep == VfsInv /\ [VfsNext]_vfs_vars => VfsInv'
<1> SUFFICES ASSUME VfsInv, [VfsNext]_vfs_vars PROVE VfsInv'
  BY Zenon
<1>1. CASE UNCHANGED vfs_vars
  BY <1>1, Zenon DEF vfs_vars, VfsInv, VfsTypes, VfsTypeOK, Counts, FsInUseIsMounted, Gone, Refs, Orphan
<1>2. ASSUME NEW t \in alive, VfsStep(t) PROVE VfsInv'
  <2>1. ASSUME NEW lookups \in PathLookups, Begin(t, lookups) PROVE VfsInv'
    BY <2>1, BeginStep, Zenon
  <2>2. CASE getdevice(t)
    BY <2>2, GetdeviceStep, Zenon
  <2>3. CASE vfs_lookup(t) \/ vfs_lookparent(t)
    BY <2>3, LookupSteps, Zenon
  <2>4. CASE LookupFailed(t) \/ Entries(t)
    <3>1. /\ Counted(<<>>, held[t]) /\ Done(t)
          /\ UNCHANGED <<mounted, knowndevs_lock, opencount, t_cwd, bootfs_vnode, alive, files, todo>>
      BY <2>4, Zenon DEF LookupFailed, Entries, Done, Counted
    <3> QED BY <3>1, DroppedAll, Zenon
  <2>5. CASE Creat(t)
    BY <2>5, CreatStep, Zenon
  <2>6. CASE vfs_open(t)
    BY <2>6, OpenStep, Zenon
  <2>7. ASSUME NEW v \in Vnode, vfs_close(t, v) PROVE VfsInv'
    BY <2>7, CloseStep, Zenon
  <2>8. CASE vfs_chdir(t)
    BY <2>8, ChdirStep, Zenon
  <2>9. CASE \/ vfs_setbootfs(t) \/ vfs_clearbootfs(t) \/ vfs_clearcurdir(t) \/ thread_exit_cwd(t)
             \/ \E u \in VfsThread : thread_fork_cwd(t, u)
    BY <2>9, ReplaceSteps, Zenon
  <2>10. CASE \/ \E d \in Disk : vfs_mount(t, d)
              \/ \E disks \in {{d} : d \in Disk} \cup {Disk} : vfs_unmount(t, disks)
              \/ Sync(t) \/ FSOP_UNMOUNT(t)
    BY <2>10, MountSteps, Zenon
  <2> QED
    BY <1>2, <2>1, <2>2, <2>3, <2>4, <2>5, <2>6, <2>7, <2>8, <2>9, <2>10 DEF VfsStep, PathLookups
<1> QED
  BY <1>1, <1>2, Zenon DEF VfsNext

\* The invariant of Vfs, for any threads, file systems and devices: the counts, and
\* which vnodes each call of vfspath.c holds where.
THEOREM VfsInvariant == VfsSpec => []VfsInv
<1> QED
  BY VfsInvInit, VfsInvStep, PTL DEF VfsSpec

\* vn_refcount is the number of references and vn_opencount that of open files, on
\* every path through every operation of vfspath.c, vfscwd.c, vfslookup.c and
\* vfslist.c and for every interleaving of any number of threads: no vnode is
\* reclaimed in use (vnode_decref) and none is leaked.
THEOREM CountsExact == VfsSpec => []RefcountExact
<1> QED
  BY VfsInvariant, CountsAre, PTL

\* A file system with a vnode in memory stays mounted whatever vfs_unmount and path
\* translations overlap, and current and boot directories are directories.
THEOREM InUseStaysMounted == VfsSpec => []FsInUseIsMounted
<1>1. VfsInv => FsInUseIsMounted
  BY Zenon DEF VfsInv
<1> QED
  BY <1>1, VfsInvariant, PTL

\* The types of the state of Vfs: no count goes below zero (the assertions of
\* vnode_decref and vnode_decopen) and no call holds more than two references.
THEOREM VfsTypesHold == VfsSpec => []VfsTypeOK
<1>1. VfsInv => VfsTypeOK
  BY Zenon DEF VfsInv, VfsTypes
<1> QED
  BY <1>1, VfsInvariant, PTL
============================================================================
