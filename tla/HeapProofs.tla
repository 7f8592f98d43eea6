----------------------------- MODULE HeapProofs -----------------------------
(***************************************************************************)
(* Proofs about the kernel heap, lib/kheap.c: what kmalloc hands out is    *)
(* nobody else's, and the consistency checks of the code never fail.       *)
(***************************************************************************)
EXTENDS Kheap, InductionFacts

----------------------------------------------------------------------------
(* The kernel heap (lib/kheap.c).                                          *)

Pageref == [page : Nat, blktype : DOMAIN sizes, freelist_offset : Nat, nfree : Nat]

\* The blocks a page is cut into.
BlocksOf(pr) == {pr.page + i * sizes[pr.blktype] : i \in 0..(PerPage(pr.blktype) - 1)}

\* How much of memory an allocation has.
Length(g) == IF g.size = 0 THEN 1 ELSE g.size

Pointers(gs) == {g.ptr : g \in gs}

\* The pages that were taken before page n.
PagesBefore(n) == {k * PAGE_SIZE : k \in 1..(n - 1)}

\* No element twice.
Once(list) == \A i, j \in DOMAIN list : list[i] = list[j] => i = j

\* fl are the free blocks of a page, in the order in which they are linked.
IsFreeList(pr, links, fl) ==
  /\ fl \in Seq(Nat \ {0})
  /\ Len(fl) = pr.nfree
  /\ Once(fl)
  /\ IF fl = <<>> THEN pr.freelist_offset = INVALID_OFFSET
     ELSE pr.freelist_offset < PAGE_SIZE /\ pr.page + pr.freelist_offset = fl[1]
  /\ \A i \in 1..Len(fl) : links[fl[i]] = IF i < Len(fl) THEN fl[i + 1] ELSE NULL

\* The free list of a page has the blocks that no client holds.
FreeBlocks(pr, links, ptrs, fl) == IsFreeList(pr, links, fl) /\ Refs(fl) = BlocksOf(pr) \ ptrs

PageOK(pr, links, ptrs) ==
  /\ IsFiniteSet(BlocksOf(pr) \cap ptrs)
  /\ Cardinality(BlocksOf(pr) \cap ptrs) + pr.nfree = PerPage(pr.blktype)
  /\ \E fl : FreeBlocks(pr, links, ptrs, fl)

\* The lists of pagerefs: of each size those of that size, and all of them.
ListsOK(refs, inuse, szb, all) ==
  /\ szb \in [DOMAIN sizes -> Seq(1..NPAGEREFS)] /\ all \in Seq(1..NPAGEREFS)
  /\ Once(all) /\ \A bt \in DOMAIN sizes : Once(szb[bt])
  /\ Refs(all) = inuse
  /\ \A bt \in DOMAIN sizes : Refs(szb[bt]) = {r \in inuse : refs[r].blktype = bt}

\* The pages that are cut up are different pages, and were taken.
PagesOK(refs, inuse, first) ==
  /\ refs \in [1..NPAGEREFS -> Pageref] /\ inuse \subseteq 1..NPAGEREFS
  /\ first \in 1..(RamPages + 1)
  /\ \A r \in inuse : refs[r].page \in PagesBefore(first)
  /\ \A r, s \in inuse : refs[r].page = refs[s].page => r = s

\* An allocation is a block of a page that is cut up, or touches none of them.
GivenOK(refs, inuse, first, g) ==
  /\ g \in [ptr : Nat, size : Requests]
  /\ g.ptr >= PAGE_SIZE /\ g.ptr + Length(g) <= first * PAGE_SIZE
  /\ \/ \E r \in inuse : g.ptr \in BlocksOf(refs[r]) /\ g.size <= sizes[refs[r].blktype]
     \/ \A r \in inuse : g.ptr + Length(g) <= refs[r].page \/ refs[r].page + PAGE_SIZE <= g.ptr

Apart(g, h) == g.ptr + Length(g) <= h.ptr \/ h.ptr + Length(h) <= g.ptr

AllApart(gs) == \A g, h \in gs : g # h => Apart(g, h)

HeapOK(refs, inuse, szb, all, links, first, gs) ==
  /\ PagesOK(refs, inuse, first)
  /\ ListsOK(refs, inuse, szb, all)
  /\ links \in [1..((RamPages + 1) * PAGE_SIZE) -> Nat]
  /\ \A g \in gs : GivenOK(refs, inuse, first, g)
  /\ AllApart(gs)
  /\ \A r \in inuse : PageOK(refs[r], links, Pointers(gs))

\* No page is kept with all of its blocks free.
NoneIdle(refs, inuse) == \A r \in inuse : refs[r].nfree < PerPage(refs[r].blktype)

HeapInv ==
  /\ HeapOK(pagerefs, pagerefs_inuse, sizebases, allbase, nextfree, firstpage, given)
  /\ NoneIdle(pagerefs, pagerefs_inuse)
----------------------------------------------------------------------------
\* Multiples of a size are that far apart.
LEMMA Multiples ==
  ASSUME NEW s \in Nat, NEW i \in Nat, NEW j \in Nat
  PROVE  /\ i * s \in Nat /\ (i + 1) * s = i * s + s
         /\ i < j => i * s + s <= j * s
<1>1. i * s \in Nat /\ (i + 1) * s = i * s + s
  BY Z3
<1>2. ASSUME i < j PROVE i * s + s <= j * s
  <2> DEFINE d == j - (i + 1)
  <2>1. d \in Nat /\ j = (i + 1) + d
    BY <1>2
  <2> HIDE DEF d
  <2>2. j * s = (i + 1) * s + d * s /\ d * s \in Nat
    BY <2>1, Z3
  <2> QED BY <1>1, <2>2
<1> QED
  BY <1>1, <1>2, Zenon

\* The blocks of a page fit into it.
LEMMA PerPageFacts ==
  ASSUME NEW bt \in DOMAIN sizes
  PROVE  /\ sizes[bt] \in 1..PAGE_SIZE
         /\ PerPage(bt) \in 1..PAGE_SIZE
         /\ PerPage(bt) * sizes[bt] <= PAGE_SIZE
<1> DEFINE s == sizes[bt]
           n == PAGE_SIZE \div s
<1>1. s \in 1..PAGE_SIZE /\ PAGE_SIZE \in Nat \ {0}
  BY KheapAssumption
<1>2. PerPage(bt) = n
  BY Zenon DEF PerPage
<1> HIDE DEF s
<1>3. n \in Nat /\ n * s <= PAGE_SIZE /\ PAGE_SIZE < n * s + s
  BY <1>1, Z3
<1> HIDE DEF n
<1>4. n # 0
  <2>1. n = 0 => n * s = 0
    BY <1>1
  <2> QED BY <1>1, <1>3, <2>1
<1>5. n <= n * s
  BY <1>1, <1>3, Z3
<1>6. n \in 1..PAGE_SIZE
  BY <1>1, <1>3, <1>4, <1>5
<1> QED
  BY <1>1, <1>2, <1>3, <1>6, Zenon DEF s

\* A block of a page lies in the page, begins at a multiple of the size of its
\* blocks, and overlaps no other block of it.
LEMMA BlockFacts ==
  ASSUME NEW pr \in Pageref, NEW b \in BlocksOf(pr)
  PROVE  /\ b \in Nat /\ pr.page <= b /\ b + sizes[pr.blktype] <= pr.page + PAGE_SIZE
         /\ (b - pr.page) % sizes[pr.blktype] = 0
         /\ \A c \in BlocksOf(pr) : \/ c = b
                                    \/ b + sizes[pr.blktype] <= c
                                    \/ c + sizes[pr.blktype] <= b
<1> DEFINE p == pr.page
           bt == pr.blktype
           s == sizes[bt]
           n == PerPage(bt)
<1>0. p \in Nat /\ bt \in DOMAIN sizes
  BY Zenon DEF Pageref
<1>1. s \in Nat \ {0} /\ n \in Nat \ {0} /\ n * s <= PAGE_SIZE /\ PAGE_SIZE \in Nat
  BY <1>0, PerPageFacts, KheapAssumption
<1>2. BlocksOf(pr) = {p + i * s : i \in 0..(n - 1)}
  BY Zenon DEF BlocksOf
<1> HIDE DEF p, bt, s, n
<1>3. PICK i \in 0..(n - 1) : b = p + i * s
  BY <1>2, Zenon
<1>4. i \in Nat /\ i < n /\ i * s \in Nat /\ i * s + s <= n * s
  BY <1>1, <1>3, Multiples
<1>5. b \in Nat /\ p <= b /\ b - p = i * s
  BY <1>0, <1>3, <1>4
<1>6. b + s <= p + PAGE_SIZE
  BY <1>0, <1>1, <1>3, <1>4, <1>5
<1>7. (b - p) % s = 0
  <2>1. \A k \in Nat : (k * s) % s = 0
    BY <1>1, Z3
  <2> QED BY <1>4, <1>5, <2>1, Zenon
<1>8. ASSUME NEW c \in BlocksOf(pr) PROVE c = b \/ b + s <= c \/ c + s <= b
  <2>1. PICK j \in 0..(n - 1) : c = p + j * s
    BY <1>2, Zenon
  <2>2. j \in Nat /\ j * s \in Nat /\ (i < j => i * s + s <= j * s) /\ (j < i => j * s + s <= i * s)
    BY <1>1, <1>4, <2>1, Multiples
  <2>3. i = j \/ i < j \/ j < i
    BY <1>4, <2>2
  <2> QED BY <1>0, <1>1, <1>3, <1>4, <2>1, <2>2, <2>3
<1> QED
  BY <1>5, <1>6, <1>7, <1>8, Zenon DEF p, bt, s

\* The pages that were taken lie between the first page and the next to take,
\* and do not overlap.
LEMMA PageFacts ==
  ASSUME NEW n \in Nat, NEW p \in PagesBefore(n)
  PROVE  /\ p \in Nat /\ p >= PAGE_SIZE /\ p + PAGE_SIZE <= n * PAGE_SIZE
         /\ \A q \in PagesBefore(n) : q = p \/ p + PAGE_SIZE <= q \/ q + PAGE_SIZE <= p
<1>0. PAGE_SIZE \in Nat \ {0}
  BY KheapAssumption, Zenon
<1>1. PICK k \in 1..(n - 1) : p = k * PAGE_SIZE
  BY Zenon DEF PagesBefore
<1>2. k \in Nat /\ k >= 1 /\ k < n
  BY <1>1
<1>3. p \in Nat /\ p >= PAGE_SIZE
  BY <1>0, <1>1, <1>2, Z3
<1>4. p + PAGE_SIZE <= n * PAGE_SIZE
  BY <1>0, <1>1, <1>2, Multiples, Zenon
<1>5. ASSUME NEW q \in PagesBefore(n) PROVE q = p \/ p + PAGE_SIZE <= q \/ q + PAGE_SIZE <= p
  <2>1. PICK j \in 1..(n - 1) : q = j * PAGE_SIZE
    BY Zenon DEF PagesBefore
  <2>2. j \in Nat
    BY <2>1
  <2>3. /\ k < j => k * PAGE_SIZE + PAGE_SIZE <= j * PAGE_SIZE
        /\ j < k => j * PAGE_SIZE + PAGE_SIZE <= k * PAGE_SIZE
    BY <1>0, <1>2, <2>2, Multiples, Zenon
  <2>4. k = j \/ k < j \/ j < k
    BY <1>2, <2>2
  <2> QED BY <1>1, <2>1, <2>3, <2>4, Zenon
<1> QED
  BY <1>3, <1>4, <1>5, Zenon

\* The first of some natural numbers is one of them.
LEMMA LowestIn ==
  ASSUME NEW S \in SUBSET Nat, S # {}
  PROVE  Lowest(S) \in S
BY LeastNatural, Zenon DEF Lowest

\* A pageref, or a block, put at the head of a list that does not have it.
LEMMA ConsFacts ==
  ASSUME NEW X, NEW x \in X, NEW list \in Seq(X), Once(list), x \notin Refs(list)
  PROVE  LET new == <<x>> \o list
         IN  /\ new \in Seq(X) /\ Len(new) = Len(list) + 1 /\ new[1] = x
             /\ \A i \in 1..Len(list) : new[i + 1] = list[i]
             /\ Once(new) /\ Refs(new) = Refs(list) \cup {x}
<1> DEFINE new == <<x>> \o list
<1>1. /\ new \in Seq(X) /\ Len(new) = Len(list) + 1 /\ new[1] = x /\ Len(list) \in Nat
      /\ DOMAIN new = 1..(Len(list) + 1) /\ DOMAIN list = 1..Len(list)
  OBVIOUS
<1>2. \A i \in 1..Len(list) : new[i + 1] = list[i]
  OBVIOUS
<1> HIDE DEF new
<1>3. ASSUME NEW k \in DOMAIN new PROVE k = 1 \/ (k - 1 \in DOMAIN list /\ new[k] = list[k - 1])
  <2>1. k = 1 \/ (k - 1 \in 1..Len(list) /\ k = (k - 1) + 1)
    BY <1>1
  <2> QED BY <1>1, <1>2, <2>1, Zenon
<1>4. Refs(new) \subseteq Refs(list) \cup {x}
  BY <1>1, <1>3 DEF Refs
<1>5. Refs(list) \cup {x} \subseteq Refs(new)
  <2>1. 1 \in DOMAIN new /\ \A i \in DOMAIN list : i + 1 \in DOMAIN new
    BY <1>1
  <2> QED BY <1>1, <1>2, <2>1 DEF Refs
<1>6. Once(new)
  <2>1. SUFFICES ASSUME NEW i \in DOMAIN new, NEW j \in DOMAIN new, new[i] = new[j] PROVE i = j
    BY Zenon DEF Once
  <2>2. CASE i = 1 \/ j = 1
    BY <1>1, <1>3, <2>1, <2>2, Zenon DEF Refs
  <2>3. CASE i # 1 /\ j # 1
    <3>1. i - 1 = j - 1
      BY <1>3, <2>1, <2>3, Zenon DEF Once
    <3> QED BY <1>1, <3>1
  <2> QED BY <2>2, <2>3, Zenon
<1> QED
  BY <1>1, <1>2, <1>4, <1>5, <1>6, Zenon DEF new

\* A list without one of its pagerefs.
LEMMA UnlinkedFacts ==
  ASSUME NEW X, NEW list \in Seq(X), Once(list), NEW r \in Refs(list)
  PROVE  LET new == Unlinked(list, r)
         IN  new \in Seq(X) /\ Once(new) /\ Refs(new) = Refs(list) \ {r}
<1> DEFINE J == {j \in DOMAIN list : list[j] = r}
           i == Lowest(J)
           new == SubSeq(list, 1, i - 1) \o SubSeq(list, i + 1, Len(list))
<1>0. DOMAIN list = 1..Len(list) /\ Len(list) \in Nat
  OBVIOUS
<1>1. Unlinked(list, r) = new
  BY Zenon DEF Unlinked
<1>2. J \subseteq Nat /\ J # {}
  BY <1>0 DEF Refs
<1>3. i \in DOMAIN list /\ list[i] = r
  BY <1>2, LowestIn, Zenon
<1> HIDE DEF J, i
<1>4. /\ new \in Seq(X) /\ Len(new) = Len(list) - 1 /\ DOMAIN new = 1..(Len(list) - 1)
      /\ \A k \in 1..(Len(list) - 1) : new[k] = IF k < i THEN list[k] ELSE list[k + 1]
  <2>1. i \in 1..Len(list)
    BY <1>0, <1>3, Zenon
  <2> DEFINE a == SubSeq(list, 1, i - 1)
             b == SubSeq(list, i + 1, Len(list))
  <2>2. a \in Seq(X) /\ Len(a) = i - 1 /\ \A k \in 1..(i - 1) : a[k] = list[k]
    BY <2>1
  <2>3. b \in Seq(X) /\ Len(b) = Len(list) - i /\ \A k \in 1..(Len(list) - i) : b[k] = list[i + k]
    BY <2>1
  <2> HIDE DEF a, b
  <2>6. a \o b \in Seq(X) /\ Len(a \o b) = Len(a) + Len(b)
    BY <2>2, <2>3
  <2>7. Len(a \o b) = Len(list) - 1
    BY <1>0, <2>1, <2>2, <2>3, <2>6
  <2>4. a \o b \in Seq(X) /\ Len(a \o b) = Len(list) - 1 /\ DOMAIN (a \o b) = 1..(Len(list) - 1)
    BY <2>6, <2>7
  <2>5. ASSUME NEW k \in 1..(Len(list) - 1) PROVE (a \o b)[k] = IF k < i THEN list[k] ELSE list[k + 1]
    <3>1. CASE k < i
      BY <1>0, <2>1, <2>2, <2>3, <3>1
    <3>2. CASE ~(k < i)
      <4>1. k - (i - 1) \in 1..(Len(list) - i) /\ i + (k - (i - 1)) = k + 1
        BY <1>0, <2>1, <3>2
      <4>2. (a \o b)[k] = b[k - (i - 1)]
        BY <1>0, <2>1, <2>2, <2>3, <3>2, <4>1
      <4> QED BY <2>3, <3>2, <4>1, <4>2, Zenon
    <3> QED BY <3>1, <3>2, Zenon
  <2> QED BY <2>4, <2>5, Zenon DEF a, b
<1> HIDE DEF new
<1>5. \A k \in DOMAIN new : \E m \in DOMAIN list : m # i /\ new[k] = list[m] /\ m = IF k < i THEN k ELSE k + 1
  BY <1>0, <1>3, <1>4
<1>6. \A m \in DOMAIN list : m # i => \E k \in DOMAIN new : new[k] = list[m]
  <2>1. SUFFICES ASSUME NEW m \in DOMAIN list, m # i PROVE \E k \in DOMAIN new : new[k] = list[m]
    BY Zenon
  <2>2. CASE m < i
    <3>1. m \in DOMAIN new /\ new[m] = list[m]
      BY <1>0, <1>3, <1>4, <2>2
    <3> QED BY <3>1, Zenon
  <2>3. CASE ~(m < i)
    <3>1. m - 1 \in DOMAIN new /\ new[m - 1] = list[m]
      BY <1>0, <1>3, <1>4, <2>1, <2>3
    <3> QED BY <3>1, Zenon
  <2> QED BY <2>2, <2>3, Zenon
<1>7. Refs(new) \subseteq Refs(list) \ {r}
  BY <1>3, <1>5 DEF Refs, Once
<1>8. Refs(list) \ {r} \subseteq Refs(new)
  BY <1>3, <1>6, Zenon DEF Refs
<1>9. Once(new)
  <2>1. SUFFICES ASSUME NEW j \in DOMAIN new, NEW k \in DOMAIN new, new[j] = new[k] PROVE j = k
    BY Zenon DEF Once
  <2>2. (IF j < i THEN j ELSE j + 1) = (IF k < i THEN k ELSE k + 1)
    BY <1>5, <2>1, Zenon DEF Once
  <2> QED BY <1>0, <1>3, <1>4, <2>2
<1> QED
  BY <1>1, <1>4, <1>7, <1>8, <1>9, Zenon

\* The first block taken off a list of free blocks.
LEMMA TailFacts ==
  ASSUME NEW X, NEW list \in Seq(X), Once(list), list # <<>>
  PROVE  /\ Tail(list) \in Seq(X) /\ Len(Tail(list)) = Len(list) - 1
         /\ \A i \in 1..(Len(list) - 1) : Tail(list)[i] = list[i + 1]
         /\ Once(Tail(list)) /\ Refs(Tail(list)) = Refs(list) \ {list[1]}
<1> DEFINE new == Tail(list)
<1>1. /\ new \in Seq(X) /\ Len(new) = Len(list) - 1 /\ DOMAIN new = 1..(Len(list) - 1)
      /\ DOMAIN list = 1..Len(list) /\ Len(list) \in Nat \ {0}
  OBVIOUS
<1>2. \A i \in 1..(Len(list) - 1) : new[i] = list[i + 1]
  OBVIOUS
<1> HIDE DEF new
<1>3. \A k \in DOMAIN new : k + 1 \in DOMAIN list /\ k + 1 # 1 /\ new[k] = list[k + 1]
  BY <1>1, <1>2
<1>4. \A m \in DOMAIN list : m # 1 => m - 1 \in DOMAIN new /\ new[m - 1] = list[m]
  BY <1>1, <1>2
<1>5. 1 \in DOMAIN list
  BY <1>1
<1>6. Refs(new) = Refs(list) \ {list[1]}
  <2>1. Refs(new) \subseteq Refs(list) \ {list[1]}
    BY <1>3, <1>5 DEF Refs, Once
  <2>2. Refs(list) \ {list[1]} \subseteq Refs(new)
    BY <1>4 DEF Refs
  <2> QED BY <2>1, <2>2, Zenon
<1>7. Once(new)
  <2>1. SUFFICES ASSUME NEW j \in DOMAIN new, NEW k \in DOMAIN new, new[j] = new[k] PROVE j = k
    BY Zenon DEF Once
  <2>2. j + 1 = k + 1
    BY <1>3, <2>1, Zenon DEF Once
  <2> QED BY <1>1, <2>2
<1> QED
  BY <1>1, <1>2, <1>6, <1>7, Zenon DEF new
----------------------------------------------------------------------------
(* One page that is cut up.                                                *)

\* A step that leaves the blocks of a page alone, and who holds them.
LEMMA PageFrame ==
  ASSUME NEW pr, NEW links, NEW new, NEW ptrs, NEW now, PageOK(pr, links, ptrs),
         \A b \in BlocksOf(pr) : new[b] = links[b],
         BlocksOf(pr) \cap now = BlocksOf(pr) \cap ptrs
  PROVE  PageOK(pr, new, now)
<1>1. PICK fl : FreeBlocks(pr, links, ptrs, fl)
  BY Zenon DEF PageOK
<1>2. BlocksOf(pr) \ now = BlocksOf(pr) \ ptrs
  BY Zenon
<1>3. \A i \in 1..Len(fl) : fl[i] \in BlocksOf(pr)
  <2>1. \A i \in 1..Len(fl) : fl[i] \in Refs(fl)
    BY <1>1 DEF FreeBlocks, IsFreeList, Refs
  <2> QED BY <1>1, <2>1, Zenon DEF FreeBlocks
<1>4. IsFreeList(pr, new, fl)
  BY <1>1, <1>3, Zenon DEF FreeBlocks, IsFreeList
<1>5. FreeBlocks(pr, new, now, fl)
  BY <1>1, <1>2, <1>4, Zenon DEF FreeBlocks
<1> QED
  BY <1>5, Zenon DEF PageOK

\* new is the pageref pr, and later the links, after the first free block, ret,
\* was taken.
Popped(pr, links, ret, new, later) ==
  /\ later = [links EXCEPT ![ret] = NULL]
  /\ ret = pr.page + pr.freelist_offset
  /\ new = [pr EXCEPT !.nfree = @ - 1,
                      !.freelist_offset = IF links[ret] # NULL THEN links[ret] - pr.page ELSE INVALID_OFFSET]

\* subpage_kmalloc takes the first block off the free list of a page.
LEMMA AllocPage ==
  ASSUME NEW pr \in Pageref, NEW links, NEW ptrs, PageOK(pr, links, ptrs), pr.nfree > 0,
         BlocksOf(pr) \subseteq DOMAIN links,
         NEW ret, NEW new, NEW later, Popped(pr, links, ret, new, later)
  PROVE  /\ ret \in BlocksOf(pr) \ ptrs
         /\ new \in Pageref /\ new.page = pr.page /\ new.blktype = pr.blktype /\ new.nfree = pr.nfree - 1
         /\ PageOK(new, later, ptrs \cup {ret})
<1>1. PICK fl : FreeBlocks(pr, links, ptrs, fl)
  BY Zenon DEF PageOK
<1>2. /\ fl \in Seq(Nat \ {0}) /\ Len(fl) = pr.nfree /\ Once(fl)
      /\ \A i \in 1..Len(fl) : links[fl[i]] = IF i < Len(fl) THEN fl[i + 1] ELSE NULL
  BY <1>1, Zenon DEF FreeBlocks, IsFreeList
<1>3. fl # <<>> /\ Len(fl) \in Nat \ {0} /\ 1 \in 1..Len(fl)
  BY <1>2
<1>4. ret = fl[1]
  BY <1>1, <1>3, Zenon DEF FreeBlocks, IsFreeList, Popped
<1>5. \A i \in 1..Len(fl) : fl[i] \in Refs(fl)
  BY <1>2 DEF Refs
<1>6. Refs(fl) = BlocksOf(pr) \ ptrs
  BY <1>1, Zenon DEF FreeBlocks
<1>7. ret \in BlocksOf(pr) \ ptrs
  BY <1>3, <1>4, <1>5, <1>6, Zenon
<1> DEFINE rest == Tail(fl)
<1>8. /\ rest \in Seq(Nat \ {0}) /\ Len(rest) = Len(fl) - 1
      /\ \A i \in 1..(Len(fl) - 1) : rest[i] = fl[i + 1]
      /\ Once(rest) /\ Refs(rest) = Refs(fl) \ {ret}
  BY <1>2, <1>3, <1>4, TailFacts, Zenon
<1> HIDE DEF rest
<1>9. /\ new \in [page : Nat, blktype : DOMAIN sizes, freelist_offset : Int, nfree : Nat]
      /\ new.page = pr.page /\ new.blktype = pr.blktype /\ new.nfree = pr.nfree - 1
      /\ new.freelist_offset = IF links[ret] # NULL THEN links[ret] - pr.page ELSE INVALID_OFFSET
  <2>1. pr.page \in Nat /\ INVALID_OFFSET \in Nat
    BY KheapAssumption, Zenon DEF Pageref, INVALID_OFFSET
  <2>2. links[ret] = NULL \/ links[ret] \in Nat
    BY <1>2, <1>3, <1>4
  <2>3. (IF links[ret] # NULL THEN links[ret] - pr.page ELSE INVALID_OFFSET) \in Int
    BY <2>1, <2>2
  <2> DEFINE off == IF links[ret] # NULL THEN links[ret] - pr.page ELSE INVALID_OFFSET
             m == pr.nfree - 1
  <2>4. off \in Int /\ new = [pr EXCEPT !.nfree = m, !.freelist_offset = off]
    BY <2>3, Zenon DEF Popped
  <2>6. m \in Nat
    BY <1>2, <1>3
  <2> HIDE DEF off, m
  <2>5. /\ new \in [page : Nat, blktype : DOMAIN sizes, freelist_offset : Int, nfree : Nat]
        /\ new.page = pr.page /\ new.blktype = pr.blktype /\ new.nfree = m
        /\ new.freelist_offset = off
    BY <2>4, <2>6, Zenon DEF Pageref
  <2> QED BY <2>5, Zenon DEF off, m
<1>10. ASSUME Len(fl) = 1 PROVE new \in Pageref /\ IsFreeList(new, later, rest)
  <2>a. links[ret] = NULL
    BY <1>2, <1>3, <1>4, <1>10
  <2>b. rest = <<>>
    BY <1>8, <1>10
  <2>1. links[ret] = NULL /\ new.freelist_offset = INVALID_OFFSET /\ rest = <<>>
    BY <1>9, <2>a, <2>b, Zenon
  <2>2. IsFreeList(new, later, rest)
    <3>1. \A i \in 1..Len(rest) : FALSE
      BY <1>8, <1>10, <2>1
    <3>2. Len(rest) = new.nfree
      BY <1>2, <1>8, <1>9, Zenon
    <3> QED BY <1>8, <2>1, <3>1, <3>2, Zenon DEF IsFreeList
  <2>3. new \in Pageref
    BY <1>9, <2>1, KheapAssumption, Zenon DEF Pageref, INVALID_OFFSET
  <2> QED BY <2>2, <2>3, Zenon
<1>11. ASSUME Len(fl) # 1 PROVE new \in Pageref /\ IsFreeList(new, later, rest)
  <2>1. 1 < Len(fl) /\ 2 \in 1..Len(fl) /\ fl[2] \in Nat \ {0}
    BY <1>2, <1>3, <1>11
  <2>2. links[ret] = fl[2]
    BY <1>2, <1>3, <1>4, <2>1
  <2>3. fl[2] \in BlocksOf(pr)
    BY <1>5, <1>6, <2>1, Zenon
  <2>4. /\ fl[2] \in Nat /\ pr.page <= fl[2] /\ fl[2] + sizes[pr.blktype] <= pr.page + PAGE_SIZE
        /\ pr.blktype \in DOMAIN sizes /\ pr.page \in Nat
    BY <2>3, BlockFacts, Zenon DEF Pageref
  <2>5. new.freelist_offset = fl[2] - pr.page
    BY <1>9, <2>1, <2>2, Zenon DEF NULL
  <2>6. new.freelist_offset \in Nat /\ new.freelist_offset < PAGE_SIZE /\ new.page + new.freelist_offset = fl[2]
    <3>1. sizes[pr.blktype] \in 1..PAGE_SIZE /\ PAGE_SIZE \in Nat
      BY <2>4, PerPageFacts, KheapAssumption, Zenon
    <3> QED BY <1>9, <2>4, <2>5, <3>1
  <2>7. new \in Pageref
    BY <1>9, <2>6, Zenon DEF Pageref
  <2>8. rest[1] = fl[2] /\ rest # <<>>
    <3>1. 1 \in 1..(Len(fl) - 1) /\ 1 + 1 = 2 /\ Len(rest) # 0
      BY <1>8, <2>1
    <3> QED BY <1>8, <3>1
  <2>9. ASSUME NEW i \in 1..Len(rest)
        PROVE  later[rest[i]] = IF i < Len(rest) THEN rest[i + 1] ELSE NULL
    <3>a. Len(rest) = Len(fl) - 1 /\ Len(fl) \in Nat
      BY <1>3, <1>8, Zenon
    <3>b. i \in 1..(Len(fl) - 1) /\ i + 1 \in 1..Len(fl) /\ i + 1 # 1
      BY <3>a
    <3>1. i \in 1..(Len(fl) - 1) /\ i + 1 \in 1..Len(fl) /\ i + 1 # 1 /\ rest[i] = fl[i + 1]
      BY <1>8, <3>b, Zenon
    <3>2. fl[i + 1] # ret
      <4>1. DOMAIN fl = 1..Len(fl)
        BY <1>2
      <4> QED BY <1>2, <1>3, <1>4, <3>1, <4>1, Zenon DEF Once
    <3>3. fl[i + 1] \in DOMAIN links
      BY <1>5, <1>6, <3>1, Zenon
    <3>4. later[fl[i + 1]] = links[fl[i + 1]]
      BY <3>2, <3>3, Zenon DEF Popped
    <3>5. links[fl[i + 1]] = IF i + 1 < Len(fl) THEN fl[(i + 1) + 1] ELSE NULL
      BY <1>2, <3>1, Zenon
    <3>6. i < Len(rest) <=> i + 1 < Len(fl)
      BY <1>3, <1>8, <3>1
    <3>7. i < Len(rest) => rest[i + 1] = fl[(i + 1) + 1]
      BY <1>2, <1>3, <1>8, <3>1
    <3> QED BY <3>1, <3>4, <3>5, <3>6, <3>7, Zenon
  <2>10. Len(rest) = new.nfree
    BY <1>2, <1>8, <1>9, Zenon
  <2>11. IsFreeList(new, later, rest)
    BY <1>8, <2>6, <2>8, <2>9, <2>10, Zenon DEF IsFreeList
  <2> QED BY <2>7, <2>11, Zenon
<1>12. new \in Pageref /\ IsFreeList(new, later, rest)
  BY <1>10, <1>11, Zenon
<1>13. BlocksOf(new) = BlocksOf(pr)
  BY <1>9, Zenon DEF BlocksOf
<1>14. FreeBlocks(new, later, ptrs \cup {ret}, rest)
  BY <1>6, <1>8, <1>12, <1>13, Zenon DEF FreeBlocks
<1> DEFINE S == BlocksOf(pr) \cap ptrs
<1>15. IsFiniteSet(S) /\ Cardinality(S) + pr.nfree = PerPage(pr.blktype)
  BY Zenon DEF PageOK
<1>16. BlocksOf(new) \cap (ptrs \cup {ret}) = S \cup {ret} /\ ret \notin S
  BY <1>7, <1>13, Zenon
<1> HIDE DEF S
<1>17. IsFiniteSet(S \cup {ret}) /\ Cardinality(S \cup {ret}) = Cardinality(S) + 1 /\ Cardinality(S) \in Nat
  BY <1>15, <1>16, FiniteParts, CardinalityGrows, Zenon
<1>18. Cardinality(S \cup {ret}) + new.nfree = PerPage(new.blktype)
  BY <1>2, <1>3, <1>9, <1>15, <1>17
<1>19. PageOK(new, later, ptrs \cup {ret})
  BY <1>14, <1>16, <1>17, <1>18, Zenon DEF PageOK
<1> QED
  BY <1>7, <1>9, <1>12, <1>19, Zenon

\* The opposite: ptr becomes the first free block.
Pushed(pr, links, ptr, new, later) ==
  /\ later = [links EXCEPT ![ptr] = IF pr.freelist_offset = INVALID_OFFSET THEN NULL
                                    ELSE pr.page + pr.freelist_offset]
  /\ new = [pr EXCEPT !.freelist_offset = ptr - pr.page, !.nfree = @ + 1]

\* subpage_kfree puts a block at the head of the free list of its page.
LEMMA FreeOnPage ==
  ASSUME NEW pr \in Pageref, NEW links, NEW ptrs, PageOK(pr, links, ptrs), pr.page > 0,
         BlocksOf(pr) \subseteq DOMAIN links,
         NEW ptr \in BlocksOf(pr) \cap ptrs, NEW new, NEW later, Pushed(pr, links, ptr, new, later)
  PROVE  /\ new \in Pageref /\ new.page = pr.page /\ new.blktype = pr.blktype /\ new.nfree = pr.nfree + 1
         /\ PageOK(new, later, ptrs \ {ptr})
<1>1. PICK fl : FreeBlocks(pr, links, ptrs, fl)
  BY Zenon DEF PageOK
<1>2. /\ fl \in Seq(Nat \ {0}) /\ Len(fl) = pr.nfree /\ Once(fl) /\ Refs(fl) = BlocksOf(pr) \ ptrs
      /\ \A i \in 1..Len(fl) : links[fl[i]] = IF i < Len(fl) THEN fl[i + 1] ELSE NULL
  BY <1>1, Zenon DEF FreeBlocks, IsFreeList
<1>3. /\ ptr \in Nat /\ pr.page <= ptr /\ ptr + sizes[pr.blktype] <= pr.page + PAGE_SIZE
      /\ pr.page \in Nat /\ pr.blktype \in DOMAIN sizes /\ pr.nfree \in Nat
  BY BlockFacts, Zenon DEF Pageref
<1>4. sizes[pr.blktype] \in 1..PAGE_SIZE /\ PAGE_SIZE \in Nat
  BY <1>3, PerPageFacts, KheapAssumption, Zenon
<1>5. ptr \in Nat \ {0} /\ ptr - pr.page \in Nat /\ ptr - pr.page < PAGE_SIZE /\ pr.page + (ptr - pr.page) = ptr
  BY <1>3, <1>4
<1>6. /\ new \in Pageref /\ new.page = pr.page /\ new.blktype = pr.blktype /\ new.nfree = pr.nfree + 1
      /\ new.freelist_offset = ptr - pr.page
  <2> DEFINE off == ptr - pr.page
             m == pr.nfree + 1
  <2>1. off \in Nat /\ m \in Nat /\ new = [pr EXCEPT !.freelist_offset = off, !.nfree = m]
    BY <1>3, <1>5 DEF Pushed
  <2> HIDE DEF off, m
  <2>2. /\ new \in Pageref /\ new.page = pr.page /\ new.blktype = pr.blktype /\ new.nfree = m
        /\ new.freelist_offset = off
    BY <2>1, Zenon DEF Pageref
  <2> QED BY <2>2, Zenon DEF off, m
<1> DEFINE list == <<ptr>> \o fl
<1>7. /\ list \in Seq(Nat \ {0}) /\ Len(list) = Len(fl) + 1 /\ list[1] = ptr
      /\ \A i \in 1..Len(fl) : list[i + 1] = fl[i]
      /\ Once(list) /\ Refs(list) = Refs(fl) \cup {ptr}
  BY <1>2, <1>5, ConsFacts, Zenon
<1>8. list # <<>> /\ Len(fl) \in Nat
  BY <1>2, <1>7
<1> HIDE DEF list
<1>9. later[ptr] = IF 1 < Len(list) THEN list[2] ELSE NULL
  <2>1. later[ptr] = IF pr.freelist_offset = INVALID_OFFSET THEN NULL ELSE pr.page + pr.freelist_offset
    BY Zenon DEF Pushed
  <2>2. CASE fl = <<>>
    <3>1. pr.freelist_offset = INVALID_OFFSET
      BY <1>1, <2>2, Zenon DEF FreeBlocks, IsFreeList
    <3>2. ~(1 < Len(list))
      BY <1>7, <2>2
    <3> QED BY <2>1, <3>1, <3>2, Zenon
  <2>3. CASE fl # <<>>
    <3>1. pr.freelist_offset < PAGE_SIZE /\ pr.page + pr.freelist_offset = fl[1]
      BY <1>1, <2>3, Zenon DEF FreeBlocks, IsFreeList
    <3>2. 1 < Len(list) /\ 1 \in 1..Len(fl) /\ 1 + 1 = 2
      BY <1>2, <1>7, <2>3
    <3>3. pr.freelist_offset # INVALID_OFFSET
      BY <1>4, <3>1 DEF Pageref, INVALID_OFFSET
    <3>4. list[2] = fl[1]
      BY <1>7, <3>2, Zenon
    <3> QED BY <2>1, <3>1, <3>2, <3>3, <3>4, Zenon
  <2> QED BY <2>2, <2>3, Zenon
<1>10. ASSUME NEW i \in 1..Len(list)
       PROVE  later[list[i]] = IF i < Len(list) THEN list[i + 1] ELSE NULL
  <2>1. CASE i = 1
    <3>1. 1 + 1 = 2
      OBVIOUS
    <3> QED BY <1>7, <1>9, <2>1, <3>1, Zenon
  <2>2. CASE i # 1
    <3> DEFINE j == i - 1
    <3>1. j \in 1..Len(fl) /\ j + 1 = i /\ (i < Len(list) <=> j < Len(fl))
      BY <1>7, <1>8, <2>2
    <3> HIDE DEF j
    <3>2. list[i] = fl[j]
      BY <1>7, <3>1, Zenon
    <3>3. fl[j] \in Refs(fl)
      BY <1>2, <3>1 DEF Refs
    <3>4. fl[j] # ptr /\ fl[j] \in DOMAIN links
      BY <1>2, <3>3, Zenon
    <3>5. later[fl[j]] = links[fl[j]]
      BY <3>4, Zenon DEF Pushed
    <3>6. j < Len(fl) => list[i + 1] = fl[j + 1]
      <4>1. j < Len(fl) => j + 1 \in 1..Len(fl) /\ (j + 1) + 1 = i + 1
        BY <1>8, <3>1
      <4>2. j < Len(fl) => list[(j + 1) + 1] = fl[j + 1]
        BY <1>7, <4>1, Zenon
      <4> QED BY <4>1, <4>2, Zenon
    <3>7. links[fl[j]] = IF j < Len(fl) THEN fl[j + 1] ELSE NULL
      BY <1>2, <3>1, Zenon
    <3> QED BY <3>1, <3>2, <3>5, <3>6, <3>7, Zenon
  <2> QED BY <2>1, <2>2, Zenon
<1>11. new.freelist_offset < PAGE_SIZE /\ new.page + new.freelist_offset = list[1] /\ Len(list) = new.nfree
  BY <1>2, <1>5, <1>6, <1>7, Zenon
<1>12. IsFreeList(new, later, list)
  BY <1>7, <1>8, <1>10, <1>11, Zenon DEF IsFreeList
<1>13. BlocksOf(new) = BlocksOf(pr)
  BY <1>6, Zenon DEF BlocksOf
<1>14. FreeBlocks(new, later, ptrs \ {ptr}, list)
  BY <1>2, <1>7, <1>12, <1>13, Zenon DEF FreeBlocks
<1> DEFINE S == BlocksOf(pr) \cap ptrs
<1>15. IsFiniteSet(S) /\ Cardinality(S) + pr.nfree = PerPage(pr.blktype) /\ ptr \in S
  BY Zenon DEF PageOK
<1>16. BlocksOf(new) \cap (ptrs \ {ptr}) = S \ {ptr} /\ S \ {ptr} \subseteq S
  BY <1>13, Zenon
<1> HIDE DEF S
<1>17. IsFiniteSet(S \ {ptr}) /\ Cardinality(S) = Cardinality(S \ {ptr}) + 1 /\ Cardinality(S \ {ptr}) \in Nat
  BY <1>15, <1>16, FiniteParts, CardinalityShrinks, Zenon
<1>18. Cardinality(S \ {ptr}) + new.nfree = PerPage(new.blktype)
  BY <1>3, <1>6, <1>15, <1>17
<1>19. PageOK(new, later, ptrs \ {ptr})
  BY <1>14, <1>16, <1>17, <1>18, Zenon DEF PageOK
<1> QED
  BY <1>6, <1>19, Zenon

\* A fresh page: every block is free, each linked to the one below it.
LEMMA FreshPage ==
  ASSUME NEW p \in Nat \ {0}, NEW bt \in DOMAIN sizes, NEW links, NEW ptrs, NEW pr,
         pr = [page |-> p, blktype |-> bt, nfree |-> PerPage(bt),
               freelist_offset |-> (PerPage(bt) - 1) * sizes[bt]],
         BlocksOf(pr) \cap ptrs = {},
         \A a \in BlocksOf(pr) : links[a] = IF a = p THEN NULL ELSE a - sizes[bt]
  PROVE  pr \in Pageref /\ PageOK(pr, links, ptrs)
<1> DEFINE n == PerPage(bt)
           s == sizes[bt]
           fl == [i \in 1..n |-> p + (n - i) * s]
<1>1. s \in Nat \ {0} /\ n \in Nat \ {0} /\ n * s <= PAGE_SIZE /\ PAGE_SIZE \in Nat
  <2>1. s \in 1..PAGE_SIZE /\ n \in 1..PAGE_SIZE /\ n * s <= PAGE_SIZE /\ PAGE_SIZE \in Nat
    BY PerPageFacts, KheapAssumption, Zenon
  <2> HIDE DEF s, n
  <2> QED BY <2>1
<1>2. /\ pr.page = p /\ pr.blktype = bt /\ pr.nfree = n /\ pr.freelist_offset = (n - 1) * s
      /\ BlocksOf(pr) = {p + i * s : i \in 0..(n - 1)}
  BY Zenon DEF BlocksOf
<1> HIDE DEF n, s
<1>3. (n - 1) * s \in Nat /\ (n - 1) * s < PAGE_SIZE
  <2>1. n - 1 \in Nat /\ (n - 1) + 1 = n
    BY <1>1
  <2>2. (n - 1) * s \in Nat /\ n * s = (n - 1) * s + s
    BY <1>1, <2>1, Multiples, Zenon
  <2> QED BY <1>1, <2>2
<1>4. pr \in Pageref
  <2> DEFINE off == (n - 1) * s
  <2>1. pr = [page |-> p, blktype |-> bt, nfree |-> n, freelist_offset |-> off] /\ off \in Nat
    BY <1>3, Zenon DEF n, s
  <2> HIDE DEF off
  <2> QED BY <1>1, <2>1 DEF Pageref
<1>5. \A i \in 1..n : fl[i] \in Nat \ {0} /\ fl[i] = p + (n - i) * s
  <2>1. SUFFICES ASSUME NEW i \in 1..n PROVE p + (n - i) * s \in Nat \ {0}
    BY Zenon
  <2>2. n - i \in Nat
    BY <1>1
  <2>3. (n - i) * s \in Nat
    BY <1>1, <2>2, Multiples, Zenon
  <2> QED BY <2>3
<1>6. fl \in Seq(Nat \ {0}) /\ Len(fl) = n /\ DOMAIN fl = 1..n
  BY <1>1, <1>5
<1>7. fl[1] = p + (n - 1) * s /\ fl[n] = p /\ fl # <<>>
  <2>1. 1 \in 1..n /\ n \in 1..n /\ n - n = 0 /\ 0 * s = 0
    BY <1>1
  <2> QED BY <1>1, <1>5, <1>6, <2>1
<1> HIDE DEF fl
<1>8. \A i, j \in 1..n : i < j => fl[j] + s <= fl[i]
  <2>1. SUFFICES ASSUME NEW i \in 1..n, NEW j \in 1..n, i < j PROVE fl[j] + s <= fl[i]
    BY Zenon
  <2>2. n - i \in Nat /\ n - j \in Nat /\ n - j < n - i
    BY <1>1, <2>1
  <2>3. (n - j) * s + s <= (n - i) * s /\ (n - i) * s \in Nat /\ (n - j) * s \in Nat
    BY <1>1, <2>2, Multiples, Zenon
  <2> QED BY <1>1, <1>5, <2>3
<1>9. Once(fl)
  <2>1. SUFFICES ASSUME NEW i \in 1..n, NEW j \in 1..n, fl[i] = fl[j] PROVE i = j
    BY <1>6, Zenon DEF Once
  <2>2. ~(i < j) /\ ~(j < i)
    BY <1>1, <1>5, <1>8, <2>1
  <2> QED BY <2>2
<1>10. Refs(fl) = BlocksOf(pr)
  <2>1. ASSUME NEW i \in 1..n PROVE fl[i] \in BlocksOf(pr)
    <3>1. n - i \in 0..(n - 1)
      BY <1>1
    <3>2. fl[i] = p + (n - i) * s
      BY <1>5, Zenon
    <3> QED BY <1>2, <3>1, <3>2
  <2>2. ASSUME NEW a \in BlocksOf(pr) PROVE \E i \in 1..n : fl[i] = a
    <3>1. PICK i \in 0..(n - 1) : a = p + i * s
      BY <1>2, Zenon
    <3>2. n - i \in 1..n /\ n - (n - i) = i
      BY <1>1
    <3>3. fl[n - i] = a
      BY <1>5, <3>1, <3>2, Zenon
    <3> QED BY <3>2, <3>3, Zenon
  <2> QED BY <1>6, <2>1, <2>2 DEF Refs
<1>11. ASSUME NEW i \in 1..n PROVE links[fl[i]] = IF i < n THEN fl[i + 1] ELSE NULL
  <2>1. fl[i] \in BlocksOf(pr)
    BY <1>6, <1>10, Zenon DEF Refs
  <2>2. links[fl[i]] = IF fl[i] = p THEN NULL ELSE fl[i] - s
    BY <2>1, Zenon DEF s
  <2>3. CASE i = n
    BY <1>1, <1>7, <2>2, <2>3
  <2>4. CASE i # n
    <3>1. i < n /\ n \in 1..n /\ i + 1 \in 1..n /\ n - (i + 1) \in Nat /\ n - i = (n - (i + 1)) + 1
      BY <1>1, <2>4
    <3>2. fl[n] + s <= fl[i]
      BY <1>8, <3>1, Zenon
    <3>3. fl[i] # p
      BY <1>1, <1>5, <1>7, <3>2
    <3>4. (n - i) * s = (n - (i + 1)) * s + s /\ (n - (i + 1)) * s \in Nat
      BY <1>1, <3>1, Multiples, Zenon
    <3>5. fl[i] - s = fl[i + 1]
      BY <1>1, <1>5, <3>1, <3>4
    <3> QED BY <2>2, <3>1, <3>3, <3>5, Zenon
  <2> QED BY <2>3, <2>4, Zenon
<1>12. IsFreeList(pr, links, fl)
  <2>1. \A i \in 1..Len(fl) : links[fl[i]] = IF i < Len(fl) THEN fl[i + 1] ELSE NULL
    BY <1>6, <1>11, Zenon
  <2> QED BY <1>2, <1>3, <1>6, <1>7, <1>9, <2>1, Zenon DEF IsFreeList
<1>13. FreeBlocks(pr, links, ptrs, fl)
  BY <1>10, <1>12, Zenon DEF FreeBlocks
<1>14. Cardinality(BlocksOf(pr) \cap ptrs) + pr.nfree = PerPage(pr.blktype)
  <2>1. Cardinality(BlocksOf(pr) \cap ptrs) = 0 /\ PerPage(pr.blktype) = n
    BY <1>2, CardinalityOfNone, Zenon DEF n
  <2> QED BY <1>1, <1>2, <2>1
<1>15. IsFiniteSet(BlocksOf(pr) \cap ptrs)
  BY FiniteParts, Zenon
<1> QED
  BY <1>4, <1>13, <1>14, <1>15, Zenon DEF PageOK

\* When the last block of a page that a client holds comes back, all are free.
LEMMA LastOfPage ==
  ASSUME NEW pr \in Pageref, NEW links, NEW ptrs, PageOK(pr, links, ptrs),
         NEW ptr \in BlocksOf(pr) \cap ptrs, pr.nfree + 1 = PerPage(pr.blktype)
  PROVE  BlocksOf(pr) \cap (ptrs \ {ptr}) = {}
<1> DEFINE S == BlocksOf(pr) \cap ptrs
           T == S \ {ptr}
<1>1. IsFiniteSet(S) /\ Cardinality(S) + pr.nfree = PerPage(pr.blktype) /\ ptr \in S
  BY Zenon DEF PageOK
<1>2. T = BlocksOf(pr) \cap (ptrs \ {ptr}) /\ T \subseteq S
  BY Zenon
<1> HIDE DEF S
<1>3. IsFiniteSet(T) /\ Cardinality(S) = Cardinality(T) + 1 /\ Cardinality(T) \in Nat
  BY <1>1, <1>2, FiniteParts, CardinalityShrinks, Zenon
<1>4. pr.nfree \in Nat
  BY Zenon DEF Pageref
<1> HIDE DEF T
<1>5. Cardinality(T) = 0
  BY <1>1, <1>3, <1>4
<1>6. ASSUME NEW x \in T PROVE FALSE
  <2>1. Cardinality(T \ {x}) \in Nat /\ Cardinality(T) = Cardinality(T \ {x}) + 1
    BY <1>3, CardinalityShrinks, Zenon
  <2> QED BY <1>5, <2>1
<1> QED
  BY <1>2, <1>6, Zenon
----------------------------------------------------------------------------
(* The heap as a whole.                                                    *)

\* The pages that are cut up, and the size of their blocks, stay what they are.
SameCut(refs, new, inuse) ==
  /\ new \in [1..NPAGEREFS -> Pageref]
  /\ \A r \in inuse : new[r].page = refs[r].page /\ new[r].blktype = refs[r].blktype

\* A step that leaves every page cut up as it was keeps the lists, and what is
\* given is where it was.
LEMMA CutFrame ==
  ASSUME NEW refs, NEW new, NEW inuse, NEW szb, NEW all, NEW first, SameCut(refs, new, inuse),
         PagesOK(refs, inuse, first), ListsOK(refs, inuse, szb, all)
  PROVE  /\ PagesOK(new, inuse, first) /\ ListsOK(new, inuse, szb, all)
         /\ \A r \in inuse : BlocksOf(new[r]) = BlocksOf(refs[r])
         /\ \A g : GivenOK(refs, inuse, first, g) => GivenOK(new, inuse, first, g)
<1>1. PagesOK(new, inuse, first)
  BY Zenon DEF PagesOK, SameCut
<1>2. \A bt : {r \in inuse : new[r].blktype = bt} = {r \in inuse : refs[r].blktype = bt}
  BY Zenon DEF SameCut
<1>3. ListsOK(new, inuse, szb, all)
  BY <1>2, Zenon DEF ListsOK
<1>4. \A r \in inuse : BlocksOf(new[r]) = BlocksOf(refs[r])
  BY Zenon DEF BlocksOf, SameCut
<1>5. \A g : GivenOK(refs, inuse, first, g) => GivenOK(new, inuse, first, g)
  <2>1. SUFFICES ASSUME NEW g, GivenOK(refs, inuse, first, g) PROVE GivenOK(new, inuse, first, g)
    BY Zenon
  <2>2. CASE \E r \in inuse : g.ptr \in BlocksOf(refs[r]) /\ g.size <= sizes[refs[r].blktype]
    BY <1>4, <2>1, <2>2, Zenon DEF GivenOK, SameCut
  <2>3. CASE \A r \in inuse : g.ptr + Length(g) <= refs[r].page \/ refs[r].page + PAGE_SIZE <= g.ptr
    BY <2>1, <2>3, Zenon DEF GivenOK, SameCut
  <2> QED BY <2>1, <2>2, <2>3, Zenon DEF GivenOK
<1> QED
  BY <1>1, <1>3, <1>4, <1>5, Zenon

\* The pages are where the free lists can be linked, and do not overlap.
LEMMA PagesWhere ==
  ASSUME NEW refs, NEW inuse, NEW first, PagesOK(refs, inuse, first), NEW r \in inuse
  PROVE  /\ refs[r] \in Pageref /\ refs[r].page \in Nat /\ refs[r].page >= PAGE_SIZE /\ refs[r].page > 0
         /\ refs[r].page + PAGE_SIZE <= first * PAGE_SIZE
         /\ first * PAGE_SIZE \in Nat /\ first * PAGE_SIZE <= (RamPages + 1) * PAGE_SIZE
         /\ BlocksOf(refs[r]) \subseteq 1..((RamPages + 1) * PAGE_SIZE)
         /\ \A s \in inuse : s # r => /\ \/ refs[r].page + PAGE_SIZE <= refs[s].page
                                         \/ refs[s].page + PAGE_SIZE <= refs[r].page
                                      /\ BlocksOf(refs[r]) \cap BlocksOf(refs[s]) = {}
<1>0. PAGE_SIZE \in Nat \ {0} /\ RamPages \in Nat
  BY KheapAssumption, Zenon
<1>1. first \in Nat /\ first <= RamPages + 1
  BY <1>0 DEF PagesOK
<1>2. first * PAGE_SIZE \in Nat /\ (RamPages + 1) * PAGE_SIZE \in Nat /\ first * PAGE_SIZE <= (RamPages + 1) * PAGE_SIZE
  <2>1. RamPages + 1 \in Nat /\ (first = RamPages + 1 \/ first < RamPages + 1)
    BY <1>0, <1>1
  <2>2. /\ first * PAGE_SIZE \in Nat /\ (RamPages + 1) * PAGE_SIZE \in Nat
        /\ first < RamPages + 1 => first * PAGE_SIZE + PAGE_SIZE <= (RamPages + 1) * PAGE_SIZE
    BY <1>0, <1>1, <2>1, Multiples, Zenon
  <2> QED BY <1>0, <2>1, <2>2
<1>3. \A s \in inuse : refs[s] \in Pageref /\ refs[s].page \in PagesBefore(first)
  BY Zenon DEF PagesOK
<1>4. refs[r].page \in Nat /\ refs[r].page >= PAGE_SIZE /\ refs[r].page + PAGE_SIZE <= first * PAGE_SIZE
  BY <1>1, <1>3, PageFacts, Zenon
<1>5. \A s \in inuse : \A b \in BlocksOf(refs[s]) :
        b \in Nat /\ refs[s].page <= b /\ b < refs[s].page + PAGE_SIZE /\ refs[s].page \in Nat
  <2>1. SUFFICES ASSUME NEW s \in inuse, NEW b \in BlocksOf(refs[s])
                 PROVE  b \in Nat /\ refs[s].page <= b /\ b < refs[s].page + PAGE_SIZE /\ refs[s].page \in Nat
    BY Zenon
  <2>2. b \in Nat /\ refs[s].page <= b /\ b + sizes[refs[s].blktype] <= refs[s].page + PAGE_SIZE
    BY <1>3, BlockFacts, Zenon
  <2>3. refs[s].page \in Nat /\ refs[s].blktype \in DOMAIN sizes
    BY <1>3, Zenon DEF Pageref
  <2>4. sizes[refs[s].blktype] \in 1..PAGE_SIZE
    BY <2>3, PerPageFacts, Zenon
  <2> QED BY <1>0, <2>2, <2>3, <2>4
<1>6. ASSUME NEW b \in BlocksOf(refs[r]) PROVE b \in 1..((RamPages + 1) * PAGE_SIZE)
  <2>1. b \in Nat /\ refs[r].page <= b /\ b < refs[r].page + PAGE_SIZE
    BY <1>5, Zenon
  <2> QED BY <1>0, <1>2, <1>4, <2>1
<1>7. ASSUME NEW s \in inuse, s # r
      PROVE  /\ refs[r].page + PAGE_SIZE <= refs[s].page \/ refs[s].page + PAGE_SIZE <= refs[r].page
             /\ BlocksOf(refs[r]) \cap BlocksOf(refs[s]) = {}
  <2>1. refs[r].page # refs[s].page
    BY <1>7, Zenon DEF PagesOK
  <2>2. refs[r].page + PAGE_SIZE <= refs[s].page \/ refs[s].page + PAGE_SIZE <= refs[r].page
    BY <1>1, <1>3, <2>1, PageFacts, Zenon
  <2>3. ASSUME NEW b \in BlocksOf(refs[r]), b \in BlocksOf(refs[s]) PROVE FALSE
    <3>1. b \in Nat /\ refs[r].page <= b /\ b < refs[r].page + PAGE_SIZE /\ refs[r].page \in Nat
      BY <1>5, Zenon
    <3>2. refs[s].page <= b /\ b < refs[s].page + PAGE_SIZE /\ refs[s].page \in Nat
      BY <1>5, <2>3, Zenon
    <3> QED BY <1>0, <2>2, <3>1, <3>2
  <2> QED BY <2>2, <2>3, Zenon
<1>8. refs[r].page > 0
  BY <1>0, <1>4
<1> QED
  BY <1>2, <1>3, <1>4, <1>6, <1>7, <1>8, Zenon

\* An allocation of no bytes has one.
LEMMA LengthFacts ==
  ASSUME NEW g, g.size \in Nat
  PROVE  /\ Length(g) \in Nat \ {0}
         /\ \A n \in Nat \ {0} : g.size <= n => Length(g) <= n
BY DEF Length

\* What a client holds on a page that is cut up is one of its blocks.
LEMMA GivenOnPage ==
  ASSUME NEW refs, NEW inuse, NEW first, PagesOK(refs, inuse, first), NEW g, GivenOK(refs, inuse, first, g),
         NEW r \in inuse, refs[r].page <= g.ptr, g.ptr < refs[r].page + PAGE_SIZE
  PROVE  g.ptr \in BlocksOf(refs[r]) /\ g.size <= sizes[refs[r].blktype]
<1>0. PAGE_SIZE \in Nat \ {0} /\ Requests \subseteq Nat
  BY KheapAssumption, Zenon
<1>1. g.ptr \in Nat /\ g.size \in Nat
  BY <1>0, Zenon DEF GivenOK
<1>2. Length(g) \in Nat \ {0}
  BY <1>1, LengthFacts, Zenon
<1>3. refs[r].page \in Nat
  BY PagesWhere, Zenon
<1>4. ~(g.ptr + Length(g) <= refs[r].page \/ refs[r].page + PAGE_SIZE <= g.ptr)
  BY <1>0, <1>1, <1>2, <1>3
<1>5. PICK s \in inuse : g.ptr \in BlocksOf(refs[s]) /\ g.size <= sizes[refs[s].blktype]
  BY <1>4, Zenon DEF GivenOK
<1>6. s = r
  <2>1. SUFFICES ASSUME s # r PROVE FALSE
    BY Zenon
  <2>2. refs[r].page + PAGE_SIZE <= refs[s].page \/ refs[s].page + PAGE_SIZE <= refs[r].page
    BY <2>1, PagesWhere, Zenon
  <2>3. refs[s] \in Pageref /\ refs[s].page \in Nat
    BY PagesWhere, Zenon
  <2>4. refs[s].page <= g.ptr /\ g.ptr + sizes[refs[s].blktype] <= refs[s].page + PAGE_SIZE
    BY <1>5, <2>3, BlockFacts, Zenon
  <2>5. sizes[refs[s].blktype] \in Nat \ {0}
    <3>1. refs[s].blktype \in DOMAIN sizes
      BY <2>3, Zenon DEF Pageref
    <3> QED BY <3>1, PerPageFacts, <1>0
  <2> QED BY <1>0, <1>1, <1>3, <2>2, <2>3, <2>4, <2>5
<1> QED
  BY <1>5, <1>6, Zenon

\* A block overlaps nothing that begins elsewhere.
LEMMA BlockApart ==
  ASSUME NEW refs, NEW inuse, NEW first, PagesOK(refs, inuse, first),
         NEW r \in inuse, NEW g, g.ptr \in BlocksOf(refs[r]), g.size \in Nat, g.size <= sizes[refs[r].blktype],
         NEW h, GivenOK(refs, inuse, first, h), h.ptr # g.ptr
  PROVE  Apart(g, h)
<1>0. PAGE_SIZE \in Nat \ {0} /\ Requests \subseteq Nat
  BY KheapAssumption, Zenon
<1>1. h.ptr \in Nat /\ h.size \in Nat
  BY <1>0, Zenon DEF GivenOK
<1>2. refs[r] \in Pageref /\ refs[r].page \in Nat
  BY PagesWhere, Zenon
<1>3. sizes[refs[r].blktype] \in Nat \ {0}
  <2>1. refs[r].blktype \in DOMAIN sizes
    BY <1>2, Zenon DEF Pageref
  <2> QED BY <2>1, PerPageFacts, <1>0
<1>4. Length(g) \in Nat \ {0} /\ Length(g) <= sizes[refs[r].blktype] /\ Length(h) \in Nat \ {0}
  BY <1>1, <1>3, LengthFacts, Zenon
<1>5. /\ g.ptr \in Nat /\ refs[r].page <= g.ptr /\ g.ptr + sizes[refs[r].blktype] <= refs[r].page + PAGE_SIZE
      /\ \A c \in BlocksOf(refs[r]) : \/ c = g.ptr
                                      \/ g.ptr + sizes[refs[r].blktype] <= c
                                      \/ c + sizes[refs[r].blktype] <= g.ptr
  BY <1>2, BlockFacts, Zenon
<1>6. CASE refs[r].page <= h.ptr /\ h.ptr < refs[r].page + PAGE_SIZE
  <2>1. h.ptr \in BlocksOf(refs[r]) /\ h.size <= sizes[refs[r].blktype]
    BY <1>6, GivenOnPage, Zenon
  <2>2. g.ptr + sizes[refs[r].blktype] <= h.ptr \/ h.ptr + sizes[refs[r].blktype] <= g.ptr
    BY <1>5, <2>1, Zenon
  <2>3. Length(h) <= sizes[refs[r].blktype]
    BY <1>1, <1>3, <2>1, LengthFacts, Zenon
  <2> QED BY <1>1, <1>3, <1>4, <1>5, <2>2, <2>3 DEF Apart
<1>7. CASE refs[r].page + PAGE_SIZE <= h.ptr
  BY <1>0, <1>1, <1>2, <1>3, <1>4, <1>5, <1>7 DEF Apart
<1>8. CASE h.ptr < refs[r].page
  <2>1. h.ptr + Length(h) <= refs[r].page
    <3>1. CASE \E s \in inuse : h.ptr \in BlocksOf(refs[s]) /\ h.size <= sizes[refs[s].blktype]
      <4>1. PICK s \in inuse : h.ptr \in BlocksOf(refs[s]) /\ h.size <= sizes[refs[s].blktype]
        BY <3>1, Zenon
      <4>2. refs[s] \in Pageref /\ refs[s].page \in Nat
        BY PagesWhere, Zenon
      <4>3. refs[s].page <= h.ptr /\ h.ptr + sizes[refs[s].blktype] <= refs[s].page + PAGE_SIZE
        BY <4>1, <4>2, BlockFacts, Zenon
      <4>4. sizes[refs[s].blktype] \in Nat \ {0}
        <5>1. refs[s].blktype \in DOMAIN sizes
          BY <4>2, Zenon DEF Pageref
        <5> QED BY <5>1, PerPageFacts, <1>0
      <4>5. Length(h) <= sizes[refs[s].blktype]
        BY <1>1, <4>1, <4>4, LengthFacts, Zenon
      <4>6. s # r
        BY <1>1, <1>2, <1>8, <4>3
      <4>7. refs[r].page + PAGE_SIZE <= refs[s].page \/ refs[s].page + PAGE_SIZE <= refs[r].page
        BY <4>6, PagesWhere, Zenon
      <4> QED BY <1>0, <1>1, <1>2, <1>4, <1>8, <4>2, <4>3, <4>4, <4>5, <4>7
    <3>2. CASE \A s \in inuse : h.ptr + Length(h) <= refs[s].page \/ refs[s].page + PAGE_SIZE <= h.ptr
      <4>1. h.ptr + Length(h) <= refs[r].page \/ refs[r].page + PAGE_SIZE <= h.ptr
        BY <3>2, Zenon
      <4> QED BY <1>0, <1>1, <1>2, <1>4, <1>8, <4>1
    <3> QED BY <3>1, <3>2, Zenon DEF GivenOK
  <2> QED BY <1>1, <1>2, <1>4, <1>5, <2>1 DEF Apart
<1> QED
  <2>1. \/ refs[r].page <= h.ptr /\ h.ptr < refs[r].page + PAGE_SIZE
        \/ refs[r].page + PAGE_SIZE <= h.ptr \/ h.ptr < refs[r].page
    BY <1>0, <1>1, <1>2
  <2> QED BY <1>6, <1>7, <1>8, <2>1, Zenon

\* An allocation that overlaps none of the others joins them.
LEMMA OneMore ==
  ASSUME NEW gs, AllApart(gs), NEW g, \A h \in gs : Apart(g, h)
  PROVE  AllApart(gs \cup {g}) /\ Pointers(gs \cup {g}) = Pointers(gs) \cup {g.ptr}
<1>1. \A h \in gs : Apart(h, g)
  BY Zenon DEF Apart
<1>2. AllApart(gs \cup {g})
  BY <1>1, Zenon DEF AllApart
<1>3. Pointers(gs \cup {g}) = Pointers(gs) \cup {g.ptr}
  BY Zenon DEF Pointers
<1> QED
  BY <1>2, <1>3, Zenon

Block(ptr, sz) == [ptr |-> ptr, size |-> sz]

\* refs, links become new, later when the first free block of r, ret, is taken.
Taken(refs, links, r, ret, new, later) ==
  /\ later = [links EXCEPT ![ret] = NULL]
  /\ ret = refs[r].page + refs[r].freelist_offset
  /\ new = [refs EXCEPT ![r].nfree = @ - 1,
                        ![r].freelist_offset = IF links[ret] # NULL THEN links[ret] - refs[r].page
                                               ELSE INVALID_OFFSET]

\* The pages are the ones they were, but r has n free blocks.
OnlyFree(refs, new, inuse, r, n) ==
  SameCut(refs, new, inuse) /\ new[r].nfree = n /\ \A s \in inuse \ {r} : new[s] = refs[s]

\* The request sz gets the block ret of r, which is large enough.
TakenFor(refs, inuse, szb, all, links, first, gs, r, sz, ret, new, later) ==
  /\ HeapOK(refs, inuse, szb, all, links, first, gs)
  /\ r \in inuse /\ refs[r].nfree > 0
  /\ sz \in Requests /\ sz <= sizes[refs[r].blktype]
  /\ Taken(refs, links, r, ret, new, later)

\* A block of a page for a client: the end of subpage_kmalloc.
LEMMA AllocFrom ==
  ASSUME NEW refs, NEW inuse, NEW szb, NEW all, NEW links, NEW first, NEW gs,
         NEW r, NEW sz, NEW ret, NEW new, NEW later,
         TakenFor(refs, inuse, szb, all, links, first, gs, r, sz, ret, new, later)
  PROVE  /\ HeapOK(new, inuse, szb, all, later, first, gs \cup {Block(ret, sz)})
         /\ Block(ret, sz) \notin gs
         /\ OnlyFree(refs, new, inuse, r, refs[r].nfree - 1)
<1> /\ HeapOK(refs, inuse, szb, all, links, first, gs)
    /\ r \in inuse /\ refs[r].nfree > 0
    /\ sz \in Requests /\ sz <= sizes[refs[r].blktype]
    /\ Taken(refs, links, r, ret, new, later)
  BY Zenon DEF TakenFor
<1> DEFINE g == Block(ret, sz)
           pr == [refs[r] EXCEPT !.nfree = @ - 1,
                                  !.freelist_offset = IF links[ret] # NULL THEN links[ret] - refs[r].page
                                                      ELSE INVALID_OFFSET]
<1>0. /\ PagesOK(refs, inuse, first) /\ ListsOK(refs, inuse, szb, all)
      /\ links \in [1..((RamPages + 1) * PAGE_SIZE) -> Nat]
      /\ \A h \in gs : GivenOK(refs, inuse, first, h)
      /\ AllApart(gs) /\ \A s \in inuse : PageOK(refs[s], links, Pointers(gs))
  BY Zenon DEF HeapOK
<1>1. refs \in [1..NPAGEREFS -> Pageref] /\ inuse \subseteq 1..NPAGEREFS
  BY <1>0, Zenon DEF PagesOK
<1>2. \A s \in inuse : BlocksOf(refs[s]) \subseteq DOMAIN links /\ refs[s] \in Pageref
  BY <1>0, PagesWhere, Zenon
<1>3. new = [refs EXCEPT ![r] = pr]
  BY <1>1, Zenon DEF Taken
<1>a. Popped(refs[r], links, ret, pr, later)
  BY Zenon DEF Popped, Taken
<1> HIDE DEF pr
<1>4. /\ ret \in BlocksOf(refs[r]) \ Pointers(gs)
      /\ pr \in Pageref /\ pr.page = refs[r].page /\ pr.blktype = refs[r].blktype /\ pr.nfree = refs[r].nfree - 1
      /\ PageOK(pr, later, Pointers(gs) \cup {ret})
  <2>1. refs[r] \in Pageref /\ PageOK(refs[r], links, Pointers(gs)) /\ BlocksOf(refs[r]) \subseteq DOMAIN links
    BY <1>0, <1>2, Zenon
  <2> QED BY <1>a, <2>1, AllocPage, Zenon
<1>5. new[r] = pr /\ (\A s \in inuse \ {r} : new[s] = refs[s]) /\ new \in [1..NPAGEREFS -> Pageref]
  BY <1>1, <1>3, <1>4, Zenon
<1>6. SameCut(refs, new, inuse)
  BY <1>4, <1>5, Zenon DEF SameCut
<1>7. /\ PagesOK(new, inuse, first) /\ ListsOK(new, inuse, szb, all)
      /\ \A h : GivenOK(refs, inuse, first, h) => GivenOK(new, inuse, first, h)
  BY <1>0, <1>6, CutFrame, Zenon
<1>8. g.ptr = ret /\ g.size = sz /\ g \in [ptr : {ret}, size : Requests]
  BY Zenon DEF Block
<1> HIDE DEF g
<1>9. sz \in Nat /\ PAGE_SIZE \in Nat \ {0}
  BY KheapAssumption, Zenon
<1>10. \A h \in gs : h.ptr # g.ptr
  BY <1>4, <1>8, Zenon DEF Pointers
<1>11. \A h \in gs : Apart(g, h)
  BY <1>0, <1>4, <1>8, <1>9, <1>10, BlockApart, Zenon
<1>12. AllApart(gs \cup {g}) /\ Pointers(gs \cup {g}) = Pointers(gs) \cup {ret}
  BY <1>0, <1>8, <1>11, OneMore, Zenon
<1>13. GivenOK(refs, inuse, first, g)
  <2>1. refs[r].page \in Nat /\ refs[r].page >= PAGE_SIZE /\ refs[r].page + PAGE_SIZE <= first * PAGE_SIZE
        /\ first * PAGE_SIZE \in Nat /\ refs[r] \in Pageref
    BY <1>0, PagesWhere, Zenon
  <2>2. ret \in Nat /\ refs[r].page <= ret /\ ret + sizes[refs[r].blktype] <= refs[r].page + PAGE_SIZE
    BY <1>4, <2>1, BlockFacts, Zenon
  <2>3. sizes[refs[r].blktype] \in Nat \ {0}
    <3>1. refs[r].blktype \in DOMAIN sizes
      BY <2>1, Zenon DEF Pageref
    <3> QED BY <3>1, PerPageFacts, <1>9
  <2>4. Length(g) \in Nat /\ Length(g) <= sizes[refs[r].blktype]
    BY <1>8, <1>9, <2>3, LengthFacts, Zenon
  <2>5. g.ptr >= PAGE_SIZE /\ g.ptr + Length(g) <= first * PAGE_SIZE
    BY <1>8, <1>9, <2>1, <2>2, <2>3, <2>4
  <2>6. g \in [ptr : Nat, size : Requests]
    BY <1>8, <2>2, Zenon
  <2> QED BY <1>4, <1>8, <2>5, <2>6, Zenon DEF GivenOK
<1>14. ASSUME NEW s \in inuse PROVE PageOK(new[s], later, Pointers(gs \cup {g}))
  <2>1. CASE s = r
    BY <1>4, <1>5, <1>12, <2>1, Zenon
  <2>2. CASE s # r
    <3>1. BlocksOf(refs[r]) \cap BlocksOf(refs[s]) = {}
      BY <1>0, <2>2, PagesWhere, Zenon
    <3>2. ret \notin BlocksOf(refs[s])
      BY <1>4, <3>1, Zenon
    <3>3. \A b \in BlocksOf(refs[s]) : later[b] = links[b]
      BY <1>2, <3>2, Zenon DEF Taken
    <3>4. BlocksOf(refs[s]) \cap Pointers(gs \cup {g}) = BlocksOf(refs[s]) \cap Pointers(gs)
      BY <1>12, <3>2, Zenon
    <3>5. PageOK(refs[s], later, Pointers(gs \cup {g}))
      BY <1>0, <3>3, <3>4, PageFrame, Zenon
    <3> QED BY <1>5, <2>2, <3>5, Zenon
  <2> QED BY <2>1, <2>2, Zenon
<1>15. later \in [1..((RamPages + 1) * PAGE_SIZE) -> Nat]
  BY <1>0, Zenon DEF NULL, Taken
<1>16. HeapOK(new, inuse, szb, all, later, first, gs \cup {g})
  BY <1>0, <1>7, <1>12, <1>13, <1>14, <1>15, Zenon DEF HeapOK
<1>17. g \notin gs
  BY <1>10, Zenon
<1> QED
  BY <1>4, <1>5, <1>6, <1>16, <1>17, Zenon DEF g, OnlyFree

\* The next page to take lies after everything that was taken or given.
LEMMA NextPage ==
  ASSUME NEW first \in Nat
  PROVE  /\ first * PAGE_SIZE \in Nat /\ (first + 1) * PAGE_SIZE = first * PAGE_SIZE + PAGE_SIZE
         /\ PagesBefore(first) \subseteq PagesBefore(first + 1)
         /\ first > 0 => first * PAGE_SIZE \in PagesBefore(first + 1)
         /\ first * PAGE_SIZE \notin PagesBefore(first)
<1>0. PAGE_SIZE \in Nat \ {0}
  BY KheapAssumption, Zenon
<1>1. first * PAGE_SIZE \in Nat /\ (first + 1) * PAGE_SIZE = first * PAGE_SIZE + PAGE_SIZE
  BY <1>0, Multiples, Zenon
<1>2. PagesBefore(first) \subseteq PagesBefore(first + 1)
  <2>1. 1..(first - 1) \subseteq 1..((first + 1) - 1)
    OBVIOUS
  <2> QED BY <2>1, Zenon DEF PagesBefore
<1>3. ASSUME first > 0 PROVE first * PAGE_SIZE \in PagesBefore(first + 1)
  <2>1. first \in 1..((first + 1) - 1)
    BY <1>3
  <2> QED BY <2>1, Zenon DEF PagesBefore
<1>4. ASSUME first * PAGE_SIZE \in PagesBefore(first) PROVE FALSE
  <2>1. first * PAGE_SIZE + PAGE_SIZE <= first * PAGE_SIZE
    BY <1>4, PageFacts, Zenon
  <2> QED BY <1>0, <1>1, <2>1
<1> QED
  BY <1>1, <1>2, <1>3, <1>4, Zenon

\* What becomes of the pagerefs, the lists and the links when r is the pageref
\* of a fresh page of blocks of a size.
CutUp(r, bt, new, szb, all, links) ==
  /\ new = [pagerefs EXCEPT ![r] = [page |-> alloc_kpages, blktype |-> bt, nfree |-> PerPage(bt),
                                    freelist_offset |-> (PerPage(bt) - 1) * sizes[bt]]]
  /\ szb = [sizebases EXCEPT ![bt] = <<r>> \o @] /\ all = <<r>> \o allbase
  /\ links = FreshLinks(alloc_kpages, bt)

\* The lists with the pageref of a fresh page.
LEMMA FreshLists ==
  ASSUME NEW refs \in [1..NPAGEREFS -> Pageref], NEW inuse \in SUBSET (1..NPAGEREFS), NEW szb, NEW all,
         ListsOK(refs, inuse, szb, all), NEW r \in (1..NPAGEREFS) \ inuse, NEW new, new[r] \in Pageref,
         \A s \in inuse : new[s] = refs[s]
  PROVE  ListsOK(new, inuse \cup {r}, [szb EXCEPT ![new[r].blktype] = <<r>> \o @], <<r>> \o all)
<1> DEFINE bt == new[r].blktype
           szb2 == [szb EXCEPT ![bt] = <<r>> \o szb[bt]]
           all2 == <<r>> \o all
           list == <<r>> \o szb[bt]
<1>1. bt \in DOMAIN sizes
  BY Zenon DEF Pageref
<1>2. /\ szb \in [DOMAIN sizes -> Seq(1..NPAGEREFS)] /\ all \in Seq(1..NPAGEREFS)
      /\ Once(all) /\ (\A t \in DOMAIN sizes : Once(szb[t]))
      /\ Refs(all) = inuse
      /\ \A t \in DOMAIN sizes : Refs(szb[t]) = {s \in inuse : refs[s].blktype = t}
  BY Zenon DEF ListsOK
<1>3. all2 \in Seq(1..NPAGEREFS) /\ Once(all2) /\ Refs(all2) = inuse \cup {r}
  BY <1>2, ConsFacts, Zenon
<1>4. list \in Seq(1..NPAGEREFS) /\ Once(list) /\ Refs(list) = Refs(szb[bt]) \cup {r}
  <2>1. szb[bt] \in Seq(1..NPAGEREFS) /\ r \notin Refs(szb[bt]) /\ Once(szb[bt])
    BY <1>1, <1>2, Zenon
  <2> DEFINE old == szb[bt]
  <2>2. old \in Seq(1..NPAGEREFS) /\ r \notin Refs(old) /\ Once(old) /\ r \in 1..NPAGEREFS
    BY <2>1, Zenon
  <2> HIDE DEF bt, old
  <2>3. <<r>> \o old \in Seq(1..NPAGEREFS) /\ Once(<<r>> \o old) /\ Refs(<<r>> \o old) = Refs(old) \cup {r}
    <3> DEFINE P == 1..NPAGEREFS
    <3>1. old \in Seq(P) /\ r \notin Refs(old) /\ Once(old) /\ r \in P
      BY <2>2, Zenon
    <3> HIDE DEF P
    <3>2. <<r>> \o old \in Seq(P) /\ Once(<<r>> \o old) /\ Refs(<<r>> \o old) = Refs(old) \cup {r}
      BY <3>1, ConsFacts, Zenon
    <3> QED BY <3>2, Zenon DEF P
  <2> QED BY <2>3, Zenon DEF old
<1> HIDE DEF bt, list
<1>5. /\ szb2 \in [DOMAIN sizes -> Seq(1..NPAGEREFS)] /\ szb2[bt] = list
      /\ \A t \in DOMAIN sizes : t # bt => szb2[t] = szb[t]
  <2>1. szb2 = [szb EXCEPT ![bt] = list]
    BY Zenon DEF list
  <2> QED BY <1>1, <1>2, <1>4, <2>1, Zenon
<1> HIDE DEF szb2, all2
<1>6. \A t \in DOMAIN sizes : Once(szb2[t])
  BY <1>2, <1>4, <1>5, Zenon
<1>7. ASSUME NEW t \in DOMAIN sizes PROVE Refs(szb2[t]) = {s \in inuse \cup {r} : new[s].blktype = t}
  <2>0. \A s \in inuse \cup {r} : new[s].blktype = t <=> ((s \in inuse /\ refs[s].blktype = t) \/ (s = r /\ t = bt))
    BY Zenon DEF bt
  <2>1. CASE t = bt
    <3>1. Refs(szb2[t]) = {s \in inuse : refs[s].blktype = t} \cup {r}
      BY <1>2, <1>4, <1>5, <2>1, Zenon
    <3> QED BY <2>0, <2>1, <3>1, Zenon
  <2>2. CASE t # bt
    <3>1. Refs(szb2[t]) = {s \in inuse : refs[s].blktype = t}
      BY <1>2, <1>5, <2>2, Zenon
    <3> QED BY <2>0, <2>2, <3>1, Zenon
  <2> QED BY <2>1, <2>2, Zenon
<1>8. ListsOK(new, inuse \cup {r}, szb2, all2)
  BY <1>3, <1>5, <1>6, <1>7, Zenon DEF ListsOK
<1> QED
  BY <1>8, Zenon DEF szb2, all2, bt

\* The pages are the ones they were, but r is one more, all of it free.
OneFresh(r, bt, new) ==
  new[r].blktype = bt /\ new[r].nfree = PerPage(bt) /\ \A s \in pagerefs_inuse : new[s] = pagerefs[s]

\* A fresh page, all of it free: the middle of subpage_kmalloc.
LEMMA FreshTo ==
  ASSUME HeapOK(pagerefs, pagerefs_inuse, sizebases, allbase, nextfree, firstpage, given),
         NEW r, r \in (1..NPAGEREFS) \ pagerefs_inuse, CanGetPages(1), NEW bt, bt \in DOMAIN sizes,
         NEW new, NEW szb, NEW all, NEW links, CutUp(r, bt, new, szb, all, links)
  PROVE  /\ HeapOK(new, pagerefs_inuse \cup {r}, szb, all, links, firstpage + 1, given)
         /\ OneFresh(r, bt, new)
<1> DEFINE inuse == pagerefs_inuse \cup {r}
           p == firstpage * PAGE_SIZE
           pr == [page |-> p, blktype |-> bt, nfree |-> PerPage(bt),
                  freelist_offset |-> (PerPage(bt) - 1) * sizes[bt]]
<1>0. PAGE_SIZE \in Nat \ {0} /\ RamPages \in Nat
  BY KheapAssumption, Zenon
<1>1. /\ PagesOK(pagerefs, pagerefs_inuse, firstpage)
      /\ ListsOK(pagerefs, pagerefs_inuse, sizebases, allbase)
      /\ nextfree \in [1..((RamPages + 1) * PAGE_SIZE) -> Nat]
      /\ \A h \in given : GivenOK(pagerefs, pagerefs_inuse, firstpage, h)
      /\ AllApart(given) /\ \A s \in pagerefs_inuse : PageOK(pagerefs[s], nextfree, Pointers(given))
  BY Zenon DEF HeapOK
<1>2. /\ pagerefs \in [1..NPAGEREFS -> Pageref] /\ pagerefs_inuse \in SUBSET (1..NPAGEREFS)
      /\ firstpage \in 1..(RamPages + 1)
      /\ \A s \in pagerefs_inuse : pagerefs[s].page \in PagesBefore(firstpage)
      /\ \A q, s \in pagerefs_inuse : pagerefs[q].page = pagerefs[s].page => q = s
  BY <1>1, Zenon DEF PagesOK
<1>3. firstpage \in Nat /\ firstpage > 0 /\ firstpage + 1 \in 1..(RamPages + 1)
  BY <1>0, <1>2 DEF CanGetPages
<1>4. /\ p \in Nat /\ (firstpage + 1) * PAGE_SIZE = p + PAGE_SIZE
      /\ PagesBefore(firstpage) \subseteq PagesBefore(firstpage + 1)
      /\ p \in PagesBefore(firstpage + 1) /\ p \notin PagesBefore(firstpage)
  BY <1>3, NextPage, Zenon
<1>5. p >= PAGE_SIZE /\ p # 0
  <2>1. p >= PAGE_SIZE
    BY <1>3, <1>4, PageFacts
  <2> QED BY <1>0, <1>4, <2>1
<1>6. alloc_kpages = p
  BY Zenon DEF alloc_kpages
<1> HIDE DEF p
<1>7. /\ new = [pagerefs EXCEPT ![r] = pr] /\ links = FreshLinks(p, bt)
      /\ szb = [sizebases EXCEPT ![bt] = <<r>> \o @] /\ all = <<r>> \o allbase
  BY <1>6, Zenon DEF CutUp
<1>8. pr.page = p /\ pr.blktype = bt /\ pr.nfree = PerPage(bt)
  BY Zenon
<1>9. \A h \in given : h.ptr \in Nat /\ h.size \in Nat /\ h.ptr + Length(h) <= p /\ Length(h) \in Nat \ {0}
  <2>1. SUFFICES ASSUME NEW h \in given
                 PROVE  h.ptr \in Nat /\ h.size \in Nat /\ h.ptr + Length(h) <= p /\ Length(h) \in Nat \ {0}
    BY Zenon
  <2>2. h \in [ptr : Nat, size : Requests] /\ h.ptr + Length(h) <= p
    BY <1>1, Zenon DEF GivenOK, p
  <2>3. h.ptr \in Nat /\ h.size \in Nat
    BY <2>2, KheapAssumption, Zenon
  <2> QED BY <2>2, <2>3, LengthFacts, Zenon
<1>10. ASSUME NEW b \in BlocksOf(pr) PROVE b \in p..(p + PAGE_SIZE - 1) /\ \E i \in 0..(PerPage(bt) - 1) : b = p + i * sizes[bt]
  <2>1. PICK i \in 0..(PerPage(bt) - 1) : b = p + i * sizes[bt]
    BY <1>8, Zenon DEF BlocksOf
  <2>2. sizes[bt] \in 1..PAGE_SIZE /\ PerPage(bt) \in 1..PAGE_SIZE /\ PerPage(bt) * sizes[bt] <= PAGE_SIZE
    BY PerPageFacts, Zenon
  <2>3. i \in Nat /\ PerPage(bt) \in Nat /\ sizes[bt] \in Nat \ {0} /\ i < PerPage(bt)
    BY <1>0, <2>1, <2>2
  <2>4. i * sizes[bt] \in Nat /\ i * sizes[bt] + sizes[bt] <= PerPage(bt) * sizes[bt]
    BY <2>3, Multiples, Zenon
  <2>5. PerPage(bt) * sizes[bt] \in Nat
    BY <2>3, Multiples, Zenon
  <2>6. b \in p..(p + PAGE_SIZE - 1)
    BY <1>0, <1>4, <2>1, <2>2, <2>3, <2>4, <2>5
  <2> QED BY <2>1, <2>6, Zenon
<1>11. BlocksOf(pr) \subseteq DOMAIN nextfree
  <2>1. DOMAIN nextfree = 1..((RamPages + 1) * PAGE_SIZE)
    BY <1>1, Zenon
  <2>2. p + PAGE_SIZE <= (RamPages + 1) * PAGE_SIZE /\ (RamPages + 1) * PAGE_SIZE \in Nat
    <3>1. firstpage + 1 \in Nat /\ RamPages + 1 \in Nat /\ firstpage < RamPages + 1
      BY <1>0, <1>3
    <3>2. /\ firstpage * PAGE_SIZE + PAGE_SIZE <= (RamPages + 1) * PAGE_SIZE
          /\ (RamPages + 1) * PAGE_SIZE \in Nat
      BY <1>0, <1>3, <3>1, Multiples, Zenon
    <3> QED BY <3>2, Zenon DEF p
  <2>3. ASSUME NEW b \in BlocksOf(pr) PROVE b \in 1..((RamPages + 1) * PAGE_SIZE)
    <3>1. b \in p..(p + PAGE_SIZE - 1)
      BY <1>10, Zenon
    <3> QED BY <1>0, <1>4, <1>5, <2>2, <3>1
  <2> QED BY <2>1, <2>3, Zenon
<1>12. BlocksOf(pr) \cap Pointers(given) = {}
  <2>1. ASSUME NEW h \in given, h.ptr \in BlocksOf(pr) PROVE FALSE
    <3>1. h.ptr \in p..(p + PAGE_SIZE - 1)
      BY <1>10, <2>1, Zenon
    <3>2. h.ptr \in Nat /\ h.ptr + Length(h) <= p /\ Length(h) \in Nat \ {0}
      BY <1>9, Zenon
    <3> QED BY <1>0, <1>4, <3>1, <3>2
  <2> QED BY <2>1, Zenon DEF Pointers
<1>13. \A a \in BlocksOf(pr) : links[a] = IF a = p THEN NULL ELSE a - sizes[bt]
  BY <1>7, <1>10, <1>11, Zenon DEF FreshLinks
<1>14. links \in [1..((RamPages + 1) * PAGE_SIZE) -> Nat]
  <2>1. ASSUME NEW a \in DOMAIN nextfree PROVE links[a] \in Nat
    <3>1. CASE \E i \in 0..(PerPage(bt) - 1) : a = p + i * sizes[bt]
      <4>1. PICK i \in 0..(PerPage(bt) - 1) : a = p + i * sizes[bt]
        BY <3>1, Zenon
      <4>2. links[a] = IF a = p THEN NULL ELSE a - sizes[bt]
        BY <1>7, <3>1, Zenon DEF FreshLinks
      <4>3. sizes[bt] \in Nat \ {0} /\ sizes[bt] <= PAGE_SIZE /\ i \in Nat
        BY <1>0, PerPageFacts
      <4>4. i * sizes[bt] \in Nat
        BY <4>3, Multiples, Zenon
      <4>5. a - sizes[bt] \in Nat
        BY <1>0, <1>4, <1>5, <4>1, <4>3, <4>4
      <4> QED BY <4>2, <4>5 DEF NULL
    <3>2. CASE ~ \E i \in 0..(PerPage(bt) - 1) : a = p + i * sizes[bt]
      <4>1. links[a] = nextfree[a]
        BY <1>7, <3>2, Zenon DEF FreshLinks
      <4> QED BY <1>1, <4>1, Zenon
    <3> QED BY <3>1, <3>2, Zenon
  <2>2. links = [a \in DOMAIN nextfree |-> links[a]]
    BY <1>7, Zenon DEF FreshLinks
  <2>3. DOMAIN nextfree = 1..((RamPages + 1) * PAGE_SIZE)
    BY <1>1, Zenon
  <2> QED BY <2>1, <2>2, <2>3, Zenon
<1>15. \A s \in pagerefs_inuse : \A b \in BlocksOf(pagerefs[s]) : links[b] = nextfree[b]
  <2>1. SUFFICES ASSUME NEW s \in pagerefs_inuse, NEW b \in BlocksOf(pagerefs[s]) PROVE links[b] = nextfree[b]
    BY Zenon
  <2>2. /\ pagerefs[s] \in Pageref /\ pagerefs[s].page \in Nat
        /\ pagerefs[s].page + PAGE_SIZE <= p
        /\ BlocksOf(pagerefs[s]) \subseteq 1..((RamPages + 1) * PAGE_SIZE)
    BY <1>1, PagesWhere, Zenon DEF p
  <2>3. b \in Nat /\ b + sizes[pagerefs[s].blktype] <= pagerefs[s].page + PAGE_SIZE
    BY <2>2, BlockFacts, Zenon
  <2>4. sizes[pagerefs[s].blktype] \in Nat \ {0}
    <3>1. pagerefs[s].blktype \in DOMAIN sizes
      BY <2>2, Zenon DEF Pageref
    <3> QED BY <3>1, PerPageFacts, <1>0
  <2>5. b < p
    BY <1>0, <1>4, <2>2, <2>3, <2>4
  <2>6. ~ \E i \in 0..(PerPage(bt) - 1) : b = p + i * sizes[bt]
    <3>1. SUFFICES ASSUME NEW i \in 0..(PerPage(bt) - 1), b = p + i * sizes[bt] PROVE FALSE
      BY Zenon
    <3>2. sizes[bt] \in Nat /\ i \in Nat
      BY <1>0, PerPageFacts
    <3>3. i * sizes[bt] \in Nat
      BY <3>2, Multiples, Zenon
    <3> QED BY <1>4, <2>3, <2>5, <3>1, <3>3
  <2>7. b \in DOMAIN nextfree
    BY <1>1, <2>2, Zenon
  <2> QED BY <1>7, <2>6, <2>7, Zenon DEF FreshLinks
<1>16. pr \in Pageref /\ PageOK(pr, links, Pointers(given))
  <2>1. p \in Nat \ {0}
    BY <1>4, <1>5, Zenon
  <2>2. pr = [page |-> p, blktype |-> bt, nfree |-> PerPage(bt),
              freelist_offset |-> (PerPage(bt) - 1) * sizes[bt]]
    BY Zenon
  <2> HIDE DEF pr
  <2> QED BY <1>12, <1>13, <2>1, <2>2, FreshPage, Zenon
<1> HIDE DEF pr
<1>17. new[r] = pr /\ (\A s \in pagerefs_inuse : new[s] = pagerefs[s]) /\ new \in [1..NPAGEREFS -> Pageref]
  BY <1>2, <1>7, <1>16, Zenon
<1>18. PagesOK(new, inuse, firstpage + 1)
  <2>1. inuse \subseteq 1..NPAGEREFS
    BY <1>2, Zenon
  <2>2. \A s \in inuse : new[s].page \in PagesBefore(firstpage + 1)
    BY <1>2, <1>4, <1>8, <1>17, Zenon
  <2>3. \A q, s \in inuse : new[q].page = new[s].page => q = s
    <3>1. \A s \in pagerefs_inuse : new[s].page # new[r].page
      BY <1>2, <1>4, <1>8, <1>17, Zenon
    <3> QED BY <1>2, <1>17, <3>1, Zenon
  <2> QED BY <1>3, <1>17, <2>1, <2>2, <2>3, Zenon DEF PagesOK
<1>19. ListsOK(new, inuse, szb, all)
  <2>1. /\ pagerefs_inuse \in SUBSET (1..NPAGEREFS) /\ new[r] \in Pageref /\ new[r].blktype = bt
        /\ \A s \in pagerefs_inuse : new[s] = pagerefs[s]
    BY <1>2, <1>8, <1>16, <1>17, Zenon
  <2>2. ListsOK(new, inuse, [sizebases EXCEPT ![new[r].blktype] = <<r>> \o @], <<r>> \o allbase)
    BY <1>1, <1>2, <2>1, FreshLists, Zenon
  <2> QED BY <1>7, <2>1, <2>2, Zenon
<1>20. ASSUME NEW h \in given PROVE GivenOK(new, inuse, firstpage + 1, h)
  <2>1. GivenOK(pagerefs, pagerefs_inuse, firstpage, h)
    BY <1>1, Zenon
  <2>2. h.ptr \in Nat /\ h.ptr + Length(h) <= p /\ Length(h) \in Nat \ {0}
    BY <1>9, Zenon
  <2>3. h.ptr + Length(h) <= (firstpage + 1) * PAGE_SIZE
    BY <1>0, <1>4, <2>2
  <2>4. CASE \E s \in pagerefs_inuse : h.ptr \in BlocksOf(pagerefs[s]) /\ h.size <= sizes[pagerefs[s].blktype]
    BY <1>17, <2>1, <2>3, <2>4, Zenon DEF GivenOK
  <2>5. CASE \A s \in pagerefs_inuse : h.ptr + Length(h) <= pagerefs[s].page \/ pagerefs[s].page + PAGE_SIZE <= h.ptr
    BY <1>8, <1>17, <2>1, <2>2, <2>3, <2>5, Zenon DEF GivenOK
  <2> QED BY <2>1, <2>4, <2>5, Zenon DEF GivenOK
<1>21. ASSUME NEW s \in inuse PROVE PageOK(new[s], links, Pointers(given))
  <2>1. CASE s = r
    BY <1>16, <1>17, <2>1, Zenon
  <2>2. CASE s # r
    <3>1. s \in pagerefs_inuse /\ new[s] = pagerefs[s]
      BY <1>17, <2>2, Zenon
    <3>2. PageOK(pagerefs[s], links, Pointers(given))
      BY <1>1, <1>15, <3>1, PageFrame, Zenon
    <3> QED BY <3>1, <3>2, Zenon
  <2> QED BY <2>1, <2>2, Zenon
<1>22. HeapOK(new, inuse, szb, all, links, firstpage + 1, given)
  BY <1>1, <1>14, <1>18, <1>19, <1>20, <1>21, Zenon DEF HeapOK
<1> QED
  BY <1>8, <1>17, <1>22, Zenon DEF OneFresh

\* Allocations that lie apart begin at different addresses: without one of them
\* the others are still apart, and its pointer is gone.
LEMMA OneLess ==
  ASSUME NEW gs \in SUBSET [ptr : Nat, size : Requests], AllApart(gs), NEW g \in gs
  PROVE  /\ AllApart(gs \ {g}) /\ Pointers(gs \ {g}) = Pointers(gs) \ {g.ptr} /\ g.ptr \in Pointers(gs)
         /\ \A h \in gs : h.ptr \in Nat /\ h.size \in Requests /\ Length(h) \in Nat \ {0}
<1>1. ASSUME NEW h \in gs PROVE h.ptr \in Nat /\ h.size \in Requests /\ Length(h) \in Nat \ {0}
  <2>1. h \in [ptr : Nat, size : Requests]
    BY Zenon
  <2>2. h.ptr \in Nat /\ h.size \in Requests /\ h.size \in Nat
    BY <2>1, KheapAssumption, Zenon
  <2> QED BY <2>2, LengthFacts, Zenon
<1>2. ASSUME NEW h \in gs, h # g PROVE h.ptr # g.ptr
  <2>1. Apart(g, h)
    BY <1>2, Zenon DEF AllApart
  <2>2. h.ptr \in Nat /\ Length(h) \in Nat \ {0} /\ g.ptr \in Nat /\ Length(g) \in Nat \ {0}
    BY <1>1, Zenon
  <2> QED BY <2>1, <2>2 DEF Apart
<1>3. Pointers(gs \ {g}) = Pointers(gs) \ {g.ptr}
  BY <1>2, Zenon DEF Pointers
<1>4. AllApart(gs \ {g})
  BY Zenon DEF AllApart
<1>5. g.ptr \in Pointers(gs)
  BY Zenon DEF Pointers
<1> QED
  BY <1>1, <1>3, <1>4, <1>5, Zenon

\* refs, links become new, later when ptr is put at the head of the free list of r.
PutBack(refs, links, r, ptr, new, later) ==
  /\ later = [links EXCEPT ![ptr] = IF refs[r].freelist_offset = INVALID_OFFSET THEN NULL
                                    ELSE refs[r].page + refs[r].freelist_offset]
  /\ new = [refs EXCEPT ![r].freelist_offset = ptr - refs[r].page, ![r].nfree = @ + 1]

\* A block back from a client: subpage_kfree of a page that stays in use.
LEMMA FreeTo ==
  ASSUME NEW refs, NEW inuse, NEW szb, NEW all, NEW links, NEW first, NEW gs,
         HeapOK(refs, inuse, szb, all, links, first, gs),
         NEW r \in inuse, NEW g \in gs, g.ptr \in BlocksOf(refs[r]),
         NEW new, NEW later, PutBack(refs, links, r, g.ptr, new, later)
  PROVE  /\ HeapOK(new, inuse, szb, all, later, first, gs \ {g})
         /\ OnlyFree(refs, new, inuse, r, refs[r].nfree + 1)
<1> DEFINE off == g.ptr - refs[r].page
           pr == [refs[r] EXCEPT !.freelist_offset = off, !.nfree = @ + 1]
<1>0. /\ PagesOK(refs, inuse, first) /\ ListsOK(refs, inuse, szb, all)
      /\ links \in [1..((RamPages + 1) * PAGE_SIZE) -> Nat]
      /\ \A h \in gs : GivenOK(refs, inuse, first, h)
      /\ AllApart(gs) /\ \A s \in inuse : PageOK(refs[s], links, Pointers(gs))
  BY Zenon DEF HeapOK
<1>1. refs \in [1..NPAGEREFS -> Pageref] /\ inuse \subseteq 1..NPAGEREFS
  BY <1>0, Zenon DEF PagesOK
<1>2. \A s \in inuse : BlocksOf(refs[s]) \subseteq DOMAIN links /\ refs[s] \in Pageref /\ refs[s].page > 0
  BY <1>0, PagesWhere, Zenon
<1>3. new = [refs EXCEPT ![r] = pr]
  BY <1>1, Zenon DEF PutBack
<1>4. later = [links EXCEPT ![g.ptr] = IF refs[r].freelist_offset = INVALID_OFFSET THEN NULL
                                       ELSE refs[r].page + refs[r].freelist_offset]
  BY Zenon DEF PutBack
<1>a. Pushed(refs[r], links, g.ptr, pr, later)
  BY Zenon DEF Pushed, PutBack
<1> HIDE DEF pr
<1>6. /\ AllApart(gs \ {g}) /\ Pointers(gs \ {g}) = Pointers(gs) \ {g.ptr} /\ g.ptr \in Pointers(gs)
  <2>1. gs \in SUBSET [ptr : Nat, size : Requests]
    BY <1>0, Zenon DEF GivenOK
  <2> QED BY <1>0, <2>1, OneLess, Zenon
<1>7. /\ pr \in Pageref /\ pr.page = refs[r].page /\ pr.blktype = refs[r].blktype /\ pr.nfree = refs[r].nfree + 1
      /\ PageOK(pr, later, Pointers(gs) \ {g.ptr})
  <2>1. refs[r] \in Pageref /\ PageOK(refs[r], links, Pointers(gs)) /\ BlocksOf(refs[r]) \subseteq DOMAIN links
        /\ refs[r].page > 0 /\ g.ptr \in BlocksOf(refs[r]) \cap Pointers(gs)
    BY <1>0, <1>2, <1>6, Zenon
  <2> QED BY <1>a, <2>1, FreeOnPage, Zenon
<1>8. new[r] = pr /\ (\A s \in inuse \ {r} : new[s] = refs[s]) /\ new \in [1..NPAGEREFS -> Pageref]
  BY <1>1, <1>3, <1>7, Zenon
<1>9. SameCut(refs, new, inuse)
  BY <1>7, <1>8, Zenon DEF SameCut
<1>10. /\ PagesOK(new, inuse, first) /\ ListsOK(new, inuse, szb, all)
       /\ \A h : GivenOK(refs, inuse, first, h) => GivenOK(new, inuse, first, h)
  BY <1>0, <1>9, CutFrame, Zenon
<1>11. ASSUME NEW s \in inuse PROVE PageOK(new[s], later, Pointers(gs \ {g}))
  <2>1. CASE s = r
    BY <1>6, <1>7, <1>8, <2>1, Zenon
  <2>2. CASE s # r
    <3>1. BlocksOf(refs[r]) \cap BlocksOf(refs[s]) = {}
      BY <1>0, <2>2, PagesWhere, Zenon
    <3>2. g.ptr \notin BlocksOf(refs[s])
      BY <3>1, Zenon
    <3>3. \A b \in BlocksOf(refs[s]) : later[b] = links[b]
      BY <1>2, <1>4, <3>2, Zenon
    <3>4. BlocksOf(refs[s]) \cap Pointers(gs \ {g}) = BlocksOf(refs[s]) \cap Pointers(gs)
      BY <1>6, <3>2, Zenon
    <3>5. PageOK(refs[s], later, Pointers(gs \ {g}))
      BY <1>0, <3>3, <3>4, PageFrame, Zenon
    <3> QED BY <1>8, <2>2, <3>5, Zenon
  <2> QED BY <2>1, <2>2, Zenon
<1>12. later \in [1..((RamPages + 1) * PAGE_SIZE) -> Nat]
  <2>1. refs[r].page \in Nat /\ refs[r].freelist_offset \in Nat
    BY <1>2, Zenon DEF Pageref
  <2> DEFINE link == IF refs[r].freelist_offset = INVALID_OFFSET THEN NULL ELSE refs[r].page + refs[r].freelist_offset
  <2>2. link \in Nat /\ later = [links EXCEPT ![g.ptr] = link]
    BY <1>4, <2>1 DEF NULL
  <2> HIDE DEF link
  <2> QED BY <1>0, <2>2, Zenon
<1>13. HeapOK(new, inuse, szb, all, later, first, gs \ {g})
  BY <1>0, <1>6, <1>10, <1>11, <1>12, Zenon DEF HeapOK
<1> QED
  BY <1>7, <1>8, <1>9, <1>13, Zenon DEF OnlyFree

\* The lists without a pageref.
LEMMA DropLists ==
  ASSUME NEW refs, NEW inuse, NEW szb, NEW all, ListsOK(refs, inuse, szb, all),
         NEW r \in inuse, refs[r].blktype \in DOMAIN sizes, NEW new, \A s \in inuse \ {r} : new[s] = refs[s]
  PROVE  ListsOK(new, inuse \ {r}, [szb EXCEPT ![refs[r].blktype] = Unlinked(@, r)], Unlinked(all, r))
<1> DEFINE bt == refs[r].blktype
           old == szb[bt]
           list == Unlinked(old, r)
           all2 == Unlinked(all, r)
           szb2 == [szb EXCEPT ![bt] = list]
           P == 1..NPAGEREFS
<1>2. /\ szb \in [DOMAIN sizes -> Seq(P)] /\ all \in Seq(P)
      /\ Once(all) /\ (\A t \in DOMAIN sizes : Once(szb[t]))
      /\ Refs(all) = inuse
      /\ \A t \in DOMAIN sizes : Refs(szb[t]) = {s \in inuse : refs[s].blktype = t}
  BY Zenon DEF ListsOK
<1>3. old \in Seq(P) /\ Once(old) /\ r \in Refs(old) /\ Refs(old) = {s \in inuse : refs[s].blktype = bt}
  BY <1>2, Zenon
<1>4. bt \in DOMAIN sizes
  BY Zenon
<1>5. ListsOK(new, inuse \ {r}, szb2, all2)
  <2> HIDE DEF P, bt, old, list, all2
  <2>1. list \in Seq(P) /\ Once(list) /\ Refs(list) = Refs(old) \ {r}
    BY <1>3, UnlinkedFacts, Zenon DEF list
  <2>2. all2 \in Seq(P) /\ Once(all2) /\ Refs(all2) = inuse \ {r}
    BY <1>2, UnlinkedFacts, Zenon DEF all2
  <2>3. /\ szb2 \in [DOMAIN sizes -> Seq(P)] /\ szb2[bt] = list
        /\ \A t \in DOMAIN sizes : t # bt => szb2[t] = szb[t]
    BY <1>2, <1>4, <2>1, Zenon
  <2> HIDE DEF szb2
  <2>4. ASSUME NEW t \in DOMAIN sizes PROVE Refs(szb2[t]) = {s \in inuse \ {r} : new[s].blktype = t}
    <3>1. CASE t = bt
      <4>1. Refs(szb2[t]) = {s \in inuse : refs[s].blktype = t} \ {r}
        BY <1>3, <2>1, <2>3, <3>1, Zenon
      <4> QED BY <4>1, Zenon
    <3>2. CASE t # bt
      <4>1. Refs(szb2[t]) = {s \in inuse : refs[s].blktype = t}
        BY <1>2, <2>3, <3>2, Zenon
      <4>2. refs[r].blktype # t
        BY <3>2, Zenon DEF bt
      <4> QED BY <4>1, <4>2, Zenon
    <3> QED BY <3>1, <3>2, Zenon
  <2>5. \A t \in DOMAIN sizes : Once(szb2[t])
    BY <1>2, <2>1, <2>3, Zenon
  <2> QED BY <2>2, <2>3, <2>4, <2>5, Zenon DEF ListsOK, P
<1> QED
  BY <1>5, Zenon

\* What becomes of the pagerefs, the lists and the links when the pageref r is
\* given back.
GivenBack(refs, szb, all, links, r, new, szb2, all2, later) ==
  /\ new = [refs EXCEPT ![r] = Unused]
  /\ szb2 = [szb EXCEPT ![refs[r].blktype] = Unlinked(@, r)] /\ all2 = Unlinked(all, r)
  /\ later = [a \in DOMAIN links |-> IF a \in (refs[r].page)..(refs[r].page + PAGE_SIZE - 1) THEN NULL ELSE links[a]]

SameRefs(refs, new, inuse) == \A s \in inuse : new[s] = refs[s]

\* The last block back from a client: subpage_kfree gives the page back.
LEMMA DropPage ==
  ASSUME NEW refs, NEW inuse, NEW szb, NEW all, NEW links, NEW first, NEW gs,
         HeapOK(refs, inuse, szb, all, links, first, gs),
         NEW r \in inuse, NEW g \in gs, g.ptr \in BlocksOf(refs[r]),
         refs[r].nfree + 1 = PerPage(refs[r].blktype),
         NEW new, NEW szb2, NEW all2, NEW later, GivenBack(refs, szb, all, links, r, new, szb2, all2, later)
  PROVE  HeapOK(new, inuse \ {r}, szb2, all2, later, first, gs \ {g}) /\ SameRefs(refs, new, inuse \ {r})
<1>0. /\ PagesOK(refs, inuse, first) /\ ListsOK(refs, inuse, szb, all)
      /\ links \in [1..((RamPages + 1) * PAGE_SIZE) -> Nat]
      /\ \A h \in gs : GivenOK(refs, inuse, first, h)
      /\ AllApart(gs) /\ \A s \in inuse : PageOK(refs[s], links, Pointers(gs))
  BY Zenon DEF HeapOK
<1>1. /\ refs \in [1..NPAGEREFS -> Pageref] /\ inuse \subseteq 1..NPAGEREFS
      /\ first \in 1..(RamPages + 1)
      /\ \A s \in inuse : refs[s].page \in PagesBefore(first)
      /\ \A q, s \in inuse : refs[q].page = refs[s].page => q = s
  BY <1>0, Zenon DEF PagesOK
<1>2. refs[r] \in Pageref /\ refs[r].blktype \in DOMAIN sizes /\ refs[r].page \in Nat
  BY <1>1, Zenon DEF Pageref
<1>3. Unused \in Pageref
  BY KheapAssumption DEF Unused, Pageref, NULL, INVALID_OFFSET
<1>4. (\A s \in inuse \ {r} : new[s] = refs[s]) /\ new \in [1..NPAGEREFS -> Pageref]
  BY <1>1, <1>3, Zenon DEF GivenBack
<1>5. /\ AllApart(gs \ {g}) /\ Pointers(gs \ {g}) = Pointers(gs) \ {g.ptr} /\ g.ptr \in Pointers(gs)
  <2>1. gs \in SUBSET [ptr : Nat, size : Requests]
    BY <1>0, Zenon DEF GivenOK
  <2> QED BY <1>0, <2>1, OneLess, Zenon
<1>6. BlocksOf(refs[r]) \cap (Pointers(gs) \ {g.ptr}) = {}
  <2>1. PageOK(refs[r], links, Pointers(gs)) /\ g.ptr \in BlocksOf(refs[r]) \cap Pointers(gs)
    BY <1>0, <1>5, Zenon
  <2> QED BY <1>2, <2>1, LastOfPage
<1>7. PagesOK(new, inuse \ {r}, first)
  <2>1. inuse \ {r} \subseteq 1..NPAGEREFS
    BY <1>1, Zenon
  <2>2. \A s \in inuse \ {r} : new[s].page \in PagesBefore(first)
    BY <1>1, <1>4, Zenon
  <2>3. \A q, s \in inuse \ {r} : new[q].page = new[s].page => q = s
    BY <1>1, <1>4, Zenon
  <2> QED BY <1>1, <1>4, <2>1, <2>2, <2>3, Zenon DEF PagesOK
<1>8. ListsOK(new, inuse \ {r}, szb2, all2)
  <2>1. ListsOK(new, inuse \ {r}, [szb EXCEPT ![refs[r].blktype] = Unlinked(@, r)], Unlinked(all, r))
    BY <1>0, <1>2, <1>4, DropLists, Zenon
  <2> QED BY <2>1, Zenon DEF GivenBack
<1>9. ASSUME NEW h \in gs \ {g} PROVE GivenOK(new, inuse \ {r}, first, h)
  <2>1. GivenOK(refs, inuse, first, h)
    BY <1>0, Zenon
  <2>2. h.ptr \notin BlocksOf(refs[r])
    <3>1. h.ptr \in Pointers(gs \ {g})
      BY <1>9, Zenon DEF Pointers
    <3> QED BY <1>5, <1>6, <3>1, Zenon
  <2>3. CASE \E s \in inuse : h.ptr \in BlocksOf(refs[s]) /\ h.size <= sizes[refs[s].blktype]
    <3>1. PICK s \in inuse : h.ptr \in BlocksOf(refs[s]) /\ h.size <= sizes[refs[s].blktype]
      BY <2>3, Zenon
    <3>2. s # r
      BY <2>2, <3>1, Zenon
    <3>3. s \in inuse \ {r} /\ new[s] = refs[s]
      BY <1>4, <3>2, Zenon
    <3>4. h.ptr \in BlocksOf(new[s]) /\ h.size <= sizes[new[s].blktype]
      BY <3>1, <3>3, Zenon
    <3> QED BY <2>1, <3>3, <3>4, Zenon DEF GivenOK
  <2>4. CASE \A s \in inuse : h.ptr + Length(h) <= refs[s].page \/ refs[s].page + PAGE_SIZE <= h.ptr
    <3>1. \A s \in inuse \ {r} : h.ptr + Length(h) <= new[s].page \/ new[s].page + PAGE_SIZE <= h.ptr
      BY <1>4, <2>4, Zenon
    <3> QED BY <2>1, <3>1, Zenon DEF GivenOK
  <2> QED BY <2>1, <2>3, <2>4, Zenon DEF GivenOK
<1>10. ASSUME NEW s \in inuse \ {r} PROVE PageOK(new[s], later, Pointers(gs \ {g}))
  <2>1. BlocksOf(refs[r]) \cap BlocksOf(refs[s]) = {} /\ refs[s] \in Pageref /\ refs[s].page \in Nat
        /\ BlocksOf(refs[s]) \subseteq DOMAIN links
        /\ (refs[r].page + PAGE_SIZE <= refs[s].page \/ refs[s].page + PAGE_SIZE <= refs[r].page)
    BY <1>0, <1>10, PagesWhere, Zenon
  <2>2. ASSUME NEW b \in BlocksOf(refs[s]) PROVE later[b] = links[b]
    <3>1. b \in Nat /\ refs[s].page <= b /\ b + sizes[refs[s].blktype] <= refs[s].page + PAGE_SIZE
      BY <2>1, BlockFacts, Zenon
    <3>2. sizes[refs[s].blktype] \in Nat \ {0} /\ PAGE_SIZE \in Nat
      <4>1. refs[s].blktype \in DOMAIN sizes
        BY <2>1, Zenon DEF Pageref
      <4>2. sizes[refs[s].blktype] \in 1..PAGE_SIZE
        BY <4>1, PerPageFacts, Zenon
      <4> QED BY <4>2, KheapAssumption
    <3>3. b \notin (refs[r].page)..(refs[r].page + PAGE_SIZE - 1)
      BY <1>2, <2>1, <3>1, <3>2
    <3> QED BY <2>1, <3>3, Zenon DEF GivenBack
  <2>3. BlocksOf(refs[s]) \cap Pointers(gs \ {g}) = BlocksOf(refs[s]) \cap Pointers(gs)
    BY <1>5, <2>1, Zenon
  <2>4. PageOK(refs[s], later, Pointers(gs \ {g}))
    BY <1>0, <2>2, <2>3, PageFrame, Zenon
  <2> QED BY <1>4, <2>4, Zenon
<1>11. later \in [1..((RamPages + 1) * PAGE_SIZE) -> Nat]
  BY <1>0, Zenon DEF NULL, GivenBack
<1>12. HeapOK(new, inuse \ {r}, szb2, all2, later, first, gs \ {g})
  BY <1>0, <1>5, <1>7, <1>8, <1>9, <1>10, <1>11, Zenon DEF HeapOK
<1> QED
  BY <1>4, <1>12, Zenon DEF SameRefs

\* Whole pages back from a client, which are not given to any other.
LEMMA FreeWhole ==
  ASSUME NEW refs, NEW inuse, NEW szb, NEW all, NEW links, NEW first, NEW gs,
         HeapOK(refs, inuse, szb, all, links, first, gs),
         NEW g \in gs, \A r \in inuse : g.ptr \notin BlocksOf(refs[r])
  PROVE  HeapOK(refs, inuse, szb, all, links, first, gs \ {g})
<1>0. /\ PagesOK(refs, inuse, first) /\ ListsOK(refs, inuse, szb, all)
      /\ links \in [1..((RamPages + 1) * PAGE_SIZE) -> Nat]
      /\ \A h \in gs : GivenOK(refs, inuse, first, h)
      /\ AllApart(gs) /\ \A s \in inuse : PageOK(refs[s], links, Pointers(gs))
  BY Zenon DEF HeapOK
<1>1. /\ AllApart(gs \ {g}) /\ Pointers(gs \ {g}) = Pointers(gs) \ {g.ptr}
  <2>1. gs \in SUBSET [ptr : Nat, size : Requests]
    BY <1>0, Zenon DEF GivenOK
  <2> QED BY <1>0, <2>1, OneLess, Zenon
<1>2. ASSUME NEW s \in inuse PROVE PageOK(refs[s], links, Pointers(gs \ {g}))
  <2>1. BlocksOf(refs[s]) \cap Pointers(gs \ {g}) = BlocksOf(refs[s]) \cap Pointers(gs)
    BY <1>1, Zenon
  <2> QED BY <1>0, <2>1, PageFrame, Zenon
<1> QED
  BY <1>0, <1>1, <1>2, Zenon DEF HeapOK

\* As many pages as kmalloc asks dumbvm for hold the request.
LEMMA EnoughPages ==
  ASSUME NEW sz \in Nat
  PROVE  LET n == (sz + PAGE_SIZE - 1) \div PAGE_SIZE IN n \in Nat /\ sz <= n * PAGE_SIZE
<1> DEFINE x == sz + PAGE_SIZE - 1
           n == x \div PAGE_SIZE
<1>1. PAGE_SIZE \in Nat \ {0}
  BY KheapAssumption, Zenon
<1>2. x \in Nat /\ x = sz + PAGE_SIZE - 1
  BY <1>1
<1> HIDE DEF x
<1>3. n \in Nat /\ x < n * PAGE_SIZE + PAGE_SIZE
  BY <1>1, <1>2, Z3
<1> HIDE DEF n
<1>4. n * PAGE_SIZE \in Nat
  BY <1>1, <1>3, Multiples, Zenon
<1>5. n \in Nat /\ sz <= n * PAGE_SIZE
  BY <1>1, <1>2, <1>3, <1>4
<1> QED
  BY <1>5, Zenon DEF n, x

\* Whole pages for a client, after everything that was given before: the part
\* of kmalloc for large requests.
LEMMA WholePages ==
  ASSUME NEW refs, NEW inuse, NEW szb, NEW all, NEW links, NEW first, NEW gs,
         HeapOK(refs, inuse, szb, all, links, first, gs),
         NEW n \in Nat, first + n <= RamPages + 1, NEW sz \in Requests, sz # 0, sz <= n * PAGE_SIZE
  PROVE  /\ HeapOK(refs, inuse, szb, all, links, first + n, gs \cup {Block(first * PAGE_SIZE, sz)})
         /\ Block(first * PAGE_SIZE, sz) \notin gs
<1> DEFINE p == first * PAGE_SIZE
           g == Block(p, sz)
<1>0. PAGE_SIZE \in Nat \ {0} /\ RamPages \in Nat /\ sz \in Nat
  BY KheapAssumption, Zenon
<1>1. /\ PagesOK(refs, inuse, first) /\ ListsOK(refs, inuse, szb, all)
      /\ links \in [1..((RamPages + 1) * PAGE_SIZE) -> Nat]
      /\ \A h \in gs : GivenOK(refs, inuse, first, h)
      /\ AllApart(gs) /\ \A s \in inuse : PageOK(refs[s], links, Pointers(gs))
  BY Zenon DEF HeapOK
<1>2. /\ refs \in [1..NPAGEREFS -> Pageref] /\ inuse \subseteq 1..NPAGEREFS
      /\ first \in 1..(RamPages + 1)
      /\ \A s \in inuse : refs[s].page \in PagesBefore(first)
      /\ \A q, s \in inuse : refs[q].page = refs[s].page => q = s
  BY <1>1, Zenon DEF PagesOK
<1>3. first \in Nat /\ first >= 1 /\ first + n \in 1..(RamPages + 1)
  BY <1>0, <1>2
<1>4. p \in Nat /\ n * PAGE_SIZE \in Nat /\ p >= PAGE_SIZE
  <2>1. p \in Nat /\ n * PAGE_SIZE \in Nat
    BY <1>0, <1>3, Multiples, Zenon
  <2>2. 0 * PAGE_SIZE = 0 /\ 0 \in Nat /\ 0 < first
    BY <1>0, <1>3
  <2>3. 0 * PAGE_SIZE + PAGE_SIZE <= p
    BY <1>0, <1>3, <2>2, Multiples, Zenon
  <2> QED BY <1>0, <2>1, <2>2, <2>3
<1>5. (first + n) * PAGE_SIZE = p + n * PAGE_SIZE
  BY <1>0, <1>3, Z3
<1>6. PagesBefore(first) \subseteq PagesBefore(first + n)
  <2>1. 1..(first - 1) \subseteq 1..((first + n) - 1)
    BY <1>3
  <2> QED BY <2>1, Zenon DEF PagesBefore
<1>7. g.ptr = p /\ g.size = sz /\ g \in [ptr : Nat, size : Requests]
  BY <1>4, Zenon DEF Block
<1> HIDE DEF g
<1>8. Length(g) \in Nat \ {0} /\ Length(g) = sz
  BY <1>0, <1>7, Zenon DEF Length
<1> HIDE DEF p
<1>9. ASSUME NEW h \in gs
      PROVE  h.ptr \in Nat /\ h.ptr + Length(h) <= p /\ Length(h) \in Nat \ {0}
  <2>1. h \in [ptr : Nat, size : Requests] /\ h.ptr + Length(h) <= p
    BY <1>1, Zenon DEF GivenOK, p
  <2>2. h.ptr \in Nat /\ h.size \in Nat
    BY <2>1, KheapAssumption, Zenon
  <2> QED BY <2>1, <2>2, LengthFacts, Zenon
<1>10. \A h \in gs : Apart(g, h)
  BY <1>7, <1>9, Zenon DEF Apart
<1>11. AllApart(gs \cup {g}) /\ Pointers(gs \cup {g}) = Pointers(gs) \cup {p}
  BY <1>1, <1>7, <1>10, OneMore, Zenon
<1>12. PagesOK(refs, inuse, first + n)
  BY <1>2, <1>3, <1>6, Zenon DEF PagesOK
<1>13. ASSUME NEW h \in gs PROVE GivenOK(refs, inuse, first + n, h)
  <2>1. GivenOK(refs, inuse, first, h) /\ h.ptr \in Nat /\ h.ptr + Length(h) <= p /\ Length(h) \in Nat
    BY <1>1, <1>9, Zenon
  <2>2. h.ptr + Length(h) <= (first + n) * PAGE_SIZE
    BY <1>4, <1>5, <2>1
  <2> QED BY <2>1, <2>2, Zenon DEF GivenOK
<1>14. \A s \in inuse : refs[s].page + PAGE_SIZE <= p /\ refs[s] \in Pageref /\ refs[s].page \in Nat
  BY <1>1, PagesWhere, Zenon DEF p
<1>15. GivenOK(refs, inuse, first + n, g)
  <2>1. g.ptr >= PAGE_SIZE /\ g.ptr + Length(g) <= (first + n) * PAGE_SIZE
    BY <1>0, <1>4, <1>5, <1>7, <1>8
  <2> QED BY <1>7, <1>14, <2>1, Zenon DEF GivenOK
<1>16. ASSUME NEW s \in inuse PROVE PageOK(refs[s], links, Pointers(gs \cup {g}))
  <2>1. p \notin BlocksOf(refs[s])
    <3>1. SUFFICES ASSUME p \in BlocksOf(refs[s]) PROVE FALSE
      BY Zenon
    <3>2. refs[s] \in Pageref /\ refs[s].page \in Nat /\ refs[s].page + PAGE_SIZE <= p
      BY <1>14, Zenon
    <3>3. p + sizes[refs[s].blktype] <= refs[s].page + PAGE_SIZE
      BY <3>1, <3>2, BlockFacts, Zenon
    <3>4. refs[s].blktype \in DOMAIN sizes
      BY <3>2, Zenon DEF Pageref
    <3>5. sizes[refs[s].blktype] \in 1..PAGE_SIZE
      BY <3>4, PerPageFacts, Zenon
    <3> QED BY <1>0, <1>4, <3>2, <3>3, <3>5
  <2>2. BlocksOf(refs[s]) \cap Pointers(gs \cup {g}) = BlocksOf(refs[s]) \cap Pointers(gs)
    BY <1>11, <2>1, Zenon
  <2> QED BY <1>1, <2>2, PageFrame, Zenon
<1>17. g \notin gs
  <2>1. SUFFICES ASSUME g \in gs PROVE FALSE
    BY Zenon
  <2>2. g.ptr + Length(g) <= p
    BY <1>9, <2>1, Zenon
  <2> QED BY <1>4, <1>7, <1>8, <2>2
<1> QED
  BY <1>1, <1>11, <1>12, <1>13, <1>15, <1>16, <1>17, Zenon DEF HeapOK, g, p

\* blocktype finds a size for every request below the largest one.
LEMMA BlocktypeFits ==
  ASSUME NEW sz \in Requests, ~(sz >= LARGEST_SUBPAGE_SIZE)
  PROVE  blocktype(sz) \in DOMAIN sizes /\ sz <= sizes[blocktype(sz)]
<1> DEFINE S == {i \in DOMAIN sizes : sz <= sizes[i]}
<1>1. sz \in Nat /\ DOMAIN sizes = 1..Len(sizes) /\ Len(sizes) \in DOMAIN sizes /\ sizes[Len(sizes)] \in Nat
  BY KheapAssumption
<1>2. sz <= sizes[Len(sizes)]
  BY <1>1, KheapAssumption
<1>3. S # {} /\ S \in SUBSET Nat
  BY <1>1, <1>2
<1> HIDE DEF S
<1>4. Lowest(S) \in S
  BY <1>3, LowestIn, Zenon
<1> QED
  BY <1>4, Zenon DEF S, blocktype

\* What a step does to what the clients hold.
OneGiven == \E g : g \notin given /\ given' = given \cup {g}
OneReturned == \E g \in given : given' = given \ {g}

\* subpage_kmalloc from a page that has a free block.
LEMMA SubpageKmallocStep ==
  ASSUME HeapInv, NEW sz \in Requests, ~(sz >= LARGEST_SUBPAGE_SIZE), subpage_kmalloc(sz)
  PROVE  HeapInv' /\ OneGiven
<1> DEFINE bt == blocktype(sz)
           i == Lowest(WithRoom(bt))
           r == sizebases[bt][i]
           ret == pagerefs[r].page + pagerefs[r].freelist_offset
           g == Block(ret, sz)
<1>1. bt \in DOMAIN sizes /\ sz <= sizes[bt]
  BY BlocktypeFits, Zenon
<1>2. /\ WithRoom(bt) # {} /\ doalloc(r, pagerefs, nextfree, sz)
      /\ UNCHANGED <<pagerefs_inuse, sizebases, allbase, firstpage>>
  BY Zenon DEF subpage_kmalloc
<1>3. /\ Taken(pagerefs, nextfree, r, ret, pagerefs', nextfree') /\ given' = given \cup {g}
      /\ pagerefs_inuse' = pagerefs_inuse /\ sizebases' = sizebases /\ allbase' = allbase /\ firstpage' = firstpage
  BY <1>2, Zenon DEF doalloc, Taken, Block
<1>4. /\ HeapOK(pagerefs, pagerefs_inuse, sizebases, allbase, nextfree, firstpage, given)
      /\ NoneIdle(pagerefs, pagerefs_inuse)
  BY Zenon DEF HeapInv
<1> HIDE DEF bt
<1>5. /\ sizebases[bt] \in Seq(1..NPAGEREFS)
      /\ Refs(sizebases[bt]) = {s \in pagerefs_inuse : pagerefs[s].blktype = bt}
  BY <1>1, <1>4, Zenon DEF HeapOK, ListsOK
<1>6. i \in DOMAIN sizebases[bt] /\ pagerefs[r].nfree > 0
  <2>1. WithRoom(bt) \in SUBSET Nat
    BY <1>5 DEF WithRoom
  <2>2. i \in WithRoom(bt)
    BY <1>2, <2>1, LowestIn, Zenon
  <2> QED BY <2>2, Zenon DEF WithRoom
<1>7. r \in Refs(sizebases[bt])
  BY <1>6, Zenon DEF Refs
<1>8. r \in pagerefs_inuse /\ pagerefs[r].blktype = bt
  BY <1>5, <1>7, Zenon
<1> HIDE DEF r, i, ret
<1>10. /\ HeapOK(pagerefs', pagerefs_inuse, sizebases, allbase, nextfree', firstpage, given \cup {g})
       /\ g \notin given /\ SameCut(pagerefs, pagerefs', pagerefs_inuse)
       /\ pagerefs'[r].nfree = pagerefs[r].nfree - 1
       /\ \A s \in pagerefs_inuse \ {r} : pagerefs'[s] = pagerefs[s]
  <2>1. TakenFor(pagerefs, pagerefs_inuse, sizebases, allbase, nextfree, firstpage, given,
                 r, sz, ret, pagerefs', nextfree')
    BY <1>1, <1>3, <1>4, <1>6, <1>8, Zenon DEF TakenFor
  <2>2. /\ HeapOK(pagerefs', pagerefs_inuse, sizebases, allbase, nextfree', firstpage, given \cup {g})
        /\ g \notin given /\ OnlyFree(pagerefs, pagerefs', pagerefs_inuse, r, pagerefs[r].nfree - 1)
    BY <2>1, AllocFrom, Zenon
  <2> QED BY <2>2, Zenon DEF OnlyFree
<1>11. ASSUME NEW s \in pagerefs_inuse PROVE pagerefs'[s].nfree < PerPage(pagerefs'[s].blktype)
  <2>1. pagerefs[s].nfree < PerPage(pagerefs[s].blktype) /\ pagerefs'[s].blktype = pagerefs[s].blktype
    BY <1>4, <1>10, Zenon DEF NoneIdle, SameCut
  <2>2. CASE s = r
    <3>1. pagerefs[r] \in Pageref
      BY <1>4, <1>8, PagesWhere, Zenon DEF HeapOK
    <3>2. pagerefs[r].nfree \in Nat /\ PerPage(pagerefs[r].blktype) \in 1..PAGE_SIZE /\ PAGE_SIZE \in Nat
      BY <1>1, <1>8, <3>1, PerPageFacts, KheapAssumption DEF Pageref
    <3> QED BY <1>10, <2>1, <2>2, <3>2
  <2>3. CASE s # r
    BY <1>10, <2>1, <2>3, Zenon
  <2> QED BY <2>2, <2>3, Zenon
<1> QED
  BY <1>3, <1>10, <1>11, Zenon DEF HeapInv, NoneIdle, OneGiven

\* subpage_kmalloc from a fresh page.
LEMMA FreshStep ==
  ASSUME HeapInv, NEW sz \in Requests, ~(sz >= LARGEST_SUBPAGE_SIZE), subpage_kmalloc_Fresh(sz)
  PROVE  HeapInv' /\ OneGiven
<1> DEFINE bt == blocktype(sz)
           r == allocpageref
           cut == [pagerefs EXCEPT ![r] = [page |-> alloc_kpages, blktype |-> bt, nfree |-> PerPage(bt),
                                           freelist_offset |-> (PerPage(bt) - 1) * sizes[bt]]]
           links == FreshLinks(alloc_kpages, bt)
           ret == cut[r].page + cut[r].freelist_offset
           g == Block(ret, sz)
           szb == [sizebases EXCEPT ![bt] = <<r>> \o @]
           all == <<r>> \o allbase
           inuse == pagerefs_inuse \cup {r}
<1>1. bt \in DOMAIN sizes /\ sz <= sizes[bt]
  BY BlocktypeFits, Zenon
<1>2. /\ CanAllocpageref /\ CanGetPages(1) /\ doalloc(r, cut, links, sz)
      /\ pagerefs_inuse' = inuse /\ firstpage' = firstpage + 1 /\ sizebases' = szb /\ allbase' = all
  BY Zenon DEF subpage_kmalloc_Fresh
<1>3. Taken(cut, links, r, ret, pagerefs', nextfree') /\ given' = given \cup {g}
  <2> HIDE DEF cut, links
  <2> QED BY <1>2, Zenon DEF doalloc, Taken, Block
<1>4. /\ HeapOK(pagerefs, pagerefs_inuse, sizebases, allbase, nextfree, firstpage, given)
      /\ NoneIdle(pagerefs, pagerefs_inuse)
  BY Zenon DEF HeapInv
<1>5. r \in (1..NPAGEREFS) \ pagerefs_inuse
  <2> DEFINE S == (1..NPAGEREFS) \ pagerefs_inuse
  <2>1. pagerefs_inuse \subseteq 1..NPAGEREFS
    BY <1>4, Zenon DEF HeapOK, PagesOK
  <2>2. S # {}
    BY <1>2, <2>1, Zenon DEF CanAllocpageref
  <2>3. S \in SUBSET Nat
    OBVIOUS
  <2>4. Lowest(S) \in S
    <3> HIDE DEF S
    <3> QED BY <2>2, <2>3, LowestIn, Zenon
  <2> QED BY <2>4, Zenon DEF allocpageref
<1>6. CutUp(r, bt, cut, szb, all, links)
  BY Zenon DEF CutUp
<1> HIDE DEF bt, r, cut, ret, szb, all, links
<1>8. /\ HeapOK(cut, inuse, szb, all, links, firstpage + 1, given)
      /\ cut[r].blktype = bt /\ cut[r].nfree = PerPage(bt) /\ \A s \in pagerefs_inuse : cut[s] = pagerefs[s]
  <2>1. bt \in DOMAIN sizes /\ CanGetPages(1)
    BY <1>1, <1>2, Zenon
  <2>2. HeapOK(cut, inuse, szb, all, links, firstpage + 1, given) /\ OneFresh(r, bt, cut)
    BY <1>4, <1>5, <1>6, <2>1, FreshTo, Zenon
  <2> QED BY <2>2, Zenon DEF OneFresh
<1>9. PerPage(bt) \in 1..PAGE_SIZE /\ PAGE_SIZE \in Nat
  BY <1>1, PerPageFacts, KheapAssumption, Zenon
<1>10. r \in inuse /\ cut[r].nfree > 0 /\ sz <= sizes[cut[r].blktype]
  BY <1>1, <1>8, <1>9
<1> HIDE DEF inuse
<1>11. /\ HeapOK(pagerefs', inuse, szb, all, nextfree', firstpage + 1, given \cup {g})
       /\ g \notin given /\ SameCut(cut, pagerefs', inuse)
       /\ pagerefs'[r].nfree = cut[r].nfree - 1
       /\ \A s \in inuse \ {r} : pagerefs'[s] = cut[s]
  <2>1. TakenFor(cut, inuse, szb, all, links, firstpage + 1, given, r, sz, ret, pagerefs', nextfree')
    BY <1>3, <1>8, <1>10, Zenon DEF TakenFor
  <2>2. /\ HeapOK(pagerefs', inuse, szb, all, nextfree', firstpage + 1, given \cup {g})
        /\ g \notin given /\ OnlyFree(cut, pagerefs', inuse, r, cut[r].nfree - 1)
    BY <2>1, AllocFrom, Zenon
  <2> QED BY <2>2, Zenon DEF OnlyFree
<1>12. ASSUME NEW s \in inuse PROVE pagerefs'[s].nfree < PerPage(pagerefs'[s].blktype)
  <2>1. pagerefs'[s].blktype = cut[s].blktype
    BY <1>11, Zenon DEF SameCut
  <2>2. CASE s = r
    BY <1>8, <1>9, <1>11, <2>1, <2>2
  <2>3. CASE s # r
    <3>1. s \in pagerefs_inuse /\ pagerefs'[s] = pagerefs[s]
      BY <1>8, <1>11, <2>3, Zenon DEF inuse
    <3> QED BY <1>4, <3>1, Zenon DEF NoneIdle
  <2> QED BY <2>2, <2>3, Zenon
<1> QED
  BY <1>2, <1>3, <1>11, <1>12, Zenon DEF HeapInv, NoneIdle, OneGiven

\* kmalloc of a large request.
LEMMA PagesStep ==
  ASSUME HeapInv, NEW sz \in Requests, sz >= LARGEST_SUBPAGE_SIZE, kmalloc_Pages(sz)
  PROVE  HeapInv' /\ OneGiven
<1> DEFINE n == (sz + PAGE_SIZE - 1) \div PAGE_SIZE
           g == Block(firstpage * PAGE_SIZE, sz)
<1>1. sz \in Nat /\ sz # 0
  <2>1. sz \in Nat /\ sizes[Len(sizes)] \in 1..PAGE_SIZE /\ PAGE_SIZE \in Nat
    BY KheapAssumption
  <2>2. LARGEST_SUBPAGE_SIZE = sizes[Len(sizes)]
    BY KheapAssumption, Zenon
  <2> QED BY <2>1, <2>2
<1>2. n \in Nat /\ sz <= n * PAGE_SIZE
  BY <1>1, EnoughPages, Zenon
<1>3. /\ CanGetPages(n) /\ firstpage' = firstpage + n /\ given' = given \cup {g}
      /\ pagerefs' = pagerefs /\ pagerefs_inuse' = pagerefs_inuse /\ sizebases' = sizebases
      /\ allbase' = allbase /\ nextfree' = nextfree
  BY Zenon DEF kmalloc_Pages, alloc_kpages, Block
<1>4. /\ HeapOK(pagerefs, pagerefs_inuse, sizebases, allbase, nextfree, firstpage, given)
      /\ NoneIdle(pagerefs, pagerefs_inuse)
  BY Zenon DEF HeapInv
<1>5. firstpage + n <= RamPages + 1
  BY <1>3, Zenon DEF CanGetPages
<1> HIDE DEF n
<1>6. HeapOK(pagerefs, pagerefs_inuse, sizebases, allbase, nextfree, firstpage + n, given \cup {g}) /\ g \notin given
  BY <1>1, <1>2, <1>4, <1>5, WholePages, Zenon
<1> QED
  BY <1>3, <1>4, <1>6, Zenon DEF HeapInv, OneGiven

\* kfree finds the page that what a client holds is on, if it is on one.
LEMMA PageOfPointer ==
  ASSUME HeapOK(pagerefs, pagerefs_inuse, sizebases, allbase, nextfree, firstpage, given), NEW g \in given
  PROVE  /\ OnPage(g.ptr) # {} => LET r == allbase[Lowest(OnPage(g.ptr))]
                                  IN  r \in pagerefs_inuse /\ g.ptr \in BlocksOf(pagerefs[r])
         /\ \A i \in OnPage(g.ptr) : allbase[i] \in pagerefs_inuse /\ g.ptr \in BlocksOf(pagerefs[allbase[i]])
         /\ \A r \in pagerefs_inuse : g.ptr \in BlocksOf(pagerefs[r]) => \E i \in OnPage(g.ptr) : allbase[i] = r
<1>1. /\ PagesOK(pagerefs, pagerefs_inuse, firstpage) /\ GivenOK(pagerefs, pagerefs_inuse, firstpage, g)
      /\ ListsOK(pagerefs, pagerefs_inuse, sizebases, allbase)
  BY Zenon DEF HeapOK
<1>2. allbase \in Seq(1..NPAGEREFS) /\ Refs(allbase) = pagerefs_inuse
  BY <1>1, Zenon DEF ListsOK
<1>3. ASSUME NEW i \in OnPage(g.ptr) PROVE allbase[i] \in pagerefs_inuse /\ g.ptr \in BlocksOf(pagerefs[allbase[i]])
  <2> DEFINE r == allbase[i]
  <2>1. i \in DOMAIN allbase /\ g.ptr >= pagerefs[r].page /\ g.ptr < pagerefs[r].page + PAGE_SIZE
    BY <1>3, Zenon DEF OnPage
  <2>2. r \in pagerefs_inuse
    BY <1>2, <2>1, Zenon DEF Refs
  <2> HIDE DEF r
  <2>3. pagerefs[r].page \in Nat /\ g.ptr \in Nat
    <3>1. g \in [ptr : Nat, size : Requests] /\ pagerefs[r].page \in Nat
      BY <1>1, <2>2, PagesWhere, Zenon DEF GivenOK
    <3> QED BY <3>1, Zenon
  <2>4. pagerefs[r].page <= g.ptr
    BY <2>1, <2>3, Zenon
  <2>5. g.ptr \in BlocksOf(pagerefs[r])
    BY <1>1, <2>1, <2>2, <2>4, GivenOnPage, Zenon
  <2> QED BY <2>2, <2>5, Zenon DEF r
<1>4. ASSUME OnPage(g.ptr) # {} PROVE Lowest(OnPage(g.ptr)) \in OnPage(g.ptr)
  <2>1. OnPage(g.ptr) \in SUBSET Nat
    BY <1>2 DEF OnPage
  <2> QED BY <1>4, <2>1, LowestIn, Zenon
<1>5. ASSUME NEW r \in pagerefs_inuse, g.ptr \in BlocksOf(pagerefs[r]) PROVE \E i \in OnPage(g.ptr) : allbase[i] = r
  <2>1. pagerefs[r] \in Pageref /\ pagerefs[r].page \in Nat
    BY <1>1, PagesWhere, Zenon
  <2>2. g.ptr \in Nat /\ pagerefs[r].page <= g.ptr /\ g.ptr + sizes[pagerefs[r].blktype] <= pagerefs[r].page + PAGE_SIZE
    BY <1>5, <2>1, BlockFacts, Zenon
  <2>3. pagerefs[r].blktype \in DOMAIN sizes
    BY <2>1, Zenon DEF Pageref
  <2>4. sizes[pagerefs[r].blktype] \in 1..PAGE_SIZE /\ PAGE_SIZE \in Nat
    BY <2>3, PerPageFacts, KheapAssumption, Zenon
  <2>5. g.ptr >= pagerefs[r].page /\ g.ptr < pagerefs[r].page + PAGE_SIZE
    BY <2>1, <2>2, <2>4
  <2>6. PICK i \in DOMAIN allbase : allbase[i] = r
    <3>1. r \in Refs(allbase)
      BY <1>2, Zenon
    <3> QED BY <3>1, Zenon DEF Refs
  <2> QED BY <2>5, <2>6, Zenon DEF OnPage
<1> QED
  BY <1>3, <1>4, <1>5, Zenon

\* kfree of a block, whose page is given back when it was the last one held.
LEMMA SubpageKfreeStep ==
  ASSUME HeapInv, NEW g \in given, NEW r \in pagerefs_inuse, g.ptr \in BlocksOf(pagerefs[r]),
         given' = given \ {g}, subpage_kfree(g.ptr, r)
  PROVE  HeapInv'
<1>1. /\ HeapOK(pagerefs, pagerefs_inuse, sizebases, allbase, nextfree, firstpage, given)
      /\ NoneIdle(pagerefs, pagerefs_inuse)
  BY Zenon DEF HeapInv
<1>2. firstpage' = firstpage
  BY Zenon DEF subpage_kfree
<1>3. CASE pagerefs[r].nfree + 1 = PerPage(pagerefs[r].blktype)
  <2>1. /\ GivenBack(pagerefs, sizebases, allbase, nextfree, r, pagerefs', sizebases', allbase', nextfree')
        /\ pagerefs_inuse' = pagerefs_inuse \ {r}
    BY <1>3, Zenon DEF subpage_kfree, GivenBack, remove_lists, freepageref
  <2>2. GivenBack(pagerefs, sizebases, allbase, nextfree, r, pagerefs', sizebases', allbase', nextfree')
    BY <2>1, Zenon
  <2>3. /\ HeapOK(pagerefs', pagerefs_inuse \ {r}, sizebases', allbase', nextfree', firstpage, given \ {g})
        /\ SameRefs(pagerefs, pagerefs', pagerefs_inuse \ {r})
    BY <1>1, <1>3, <2>2, DropPage, Zenon
  <2>4. NoneIdle(pagerefs', pagerefs_inuse \ {r})
    BY <1>1, <2>3, Zenon DEF NoneIdle, SameRefs
  <2> QED BY <1>2, <2>1, <2>3, <2>4, Zenon DEF HeapInv
<1>4. CASE pagerefs[r].nfree + 1 # PerPage(pagerefs[r].blktype)
  <2>1. /\ PutBack(pagerefs, nextfree, r, g.ptr, pagerefs', nextfree')
        /\ sizebases' = sizebases /\ allbase' = allbase /\ pagerefs_inuse' = pagerefs_inuse
    BY <1>4, Zenon DEF subpage_kfree, PutBack
  <2>2. PutBack(pagerefs, nextfree, r, g.ptr, pagerefs', nextfree')
    BY <2>1, Zenon
  <2>3. /\ HeapOK(pagerefs', pagerefs_inuse, sizebases, allbase, nextfree', firstpage, given \ {g})
        /\ OnlyFree(pagerefs, pagerefs', pagerefs_inuse, r, pagerefs[r].nfree + 1)
    BY <1>1, <2>2, FreeTo, Zenon
  <2>4. ASSUME NEW s \in pagerefs_inuse PROVE pagerefs'[s].nfree < PerPage(pagerefs'[s].blktype)
    <3>1. pagerefs[s].nfree < PerPage(pagerefs[s].blktype) /\ pagerefs'[s].blktype = pagerefs[s].blktype
      BY <1>1, <2>3, Zenon DEF NoneIdle, OnlyFree, SameCut
    <3>2. CASE s = r
      <4>1. pagerefs[r] \in Pageref
        BY <1>1, PagesWhere, Zenon DEF HeapOK
      <4>2. pagerefs[r].nfree \in Nat /\ pagerefs[r].blktype \in DOMAIN sizes
        BY <4>1, Zenon DEF Pageref
      <4>3. PerPage(pagerefs[r].blktype) \in 1..PAGE_SIZE /\ PAGE_SIZE \in Nat
        BY <4>2, PerPageFacts, KheapAssumption, Zenon
      <4>4. pagerefs'[r].nfree = pagerefs[r].nfree + 1
        BY <2>3, Zenon DEF OnlyFree
      <4> QED BY <1>4, <3>1, <3>2, <4>2, <4>3, <4>4
    <3>3. CASE s # r
      BY <2>3, <3>1, <3>3, Zenon DEF OnlyFree
    <3> QED BY <3>2, <3>3, Zenon
  <2> QED BY <1>2, <2>1, <2>3, <2>4, Zenon DEF HeapInv, NoneIdle
<1> QED
  BY <1>3, <1>4, Zenon

\* kfree of a block or of whole pages.
LEMMA KfreeStep ==
  ASSUME HeapInv, kfree
  PROVE  HeapInv' /\ OneReturned
<1>1. PICK g \in given :
        /\ given' = given \ {g}
        /\ IF OnPage(g.ptr) # {}
           THEN subpage_kfree(g.ptr, allbase[Lowest(OnPage(g.ptr))])
           ELSE UNCHANGED <<pagerefs, pagerefs_inuse, sizebases, allbase, nextfree, firstpage>>
  BY Zenon DEF kfree
<1>2. OneReturned
  BY <1>1, Zenon DEF OneReturned
<1>3. /\ HeapOK(pagerefs, pagerefs_inuse, sizebases, allbase, nextfree, firstpage, given)
      /\ NoneIdle(pagerefs, pagerefs_inuse)
  BY Zenon DEF HeapInv
<1>4. CASE OnPage(g.ptr) # {}
  <2> DEFINE r == allbase[Lowest(OnPage(g.ptr))]
  <2>1. subpage_kfree(g.ptr, r) /\ given' = given \ {g}
    BY <1>1, <1>4, Zenon
  <2>2. r \in pagerefs_inuse /\ g.ptr \in BlocksOf(pagerefs[r])
    BY <1>3, <1>4, PageOfPointer, Zenon
  <2> HIDE DEF r
  <2>3. HeapInv'
    BY <2>1, <2>2, SubpageKfreeStep, Zenon
  <2> QED BY <1>2, <2>3, Zenon
<1>5. CASE OnPage(g.ptr) = {}
  <2>1. UNCHANGED <<pagerefs, pagerefs_inuse, sizebases, allbase, nextfree, firstpage>> /\ given' = given \ {g}
    BY <1>1, <1>5, Zenon
  <2>2. \A r \in pagerefs_inuse : g.ptr \notin BlocksOf(pagerefs[r])
    BY <1>3, <1>5, PageOfPointer, Zenon
  <2>3. HeapOK(pagerefs, pagerefs_inuse, sizebases, allbase, nextfree, firstpage, given \ {g})
    BY <1>3, <2>2, FreeWhole, Zenon
  <2>4. HeapInv'
    BY <1>3, <2>1, <2>3, Zenon DEF HeapInv
  <2> QED BY <1>2, <2>4, Zenon
<1> QED
  BY <1>4, <1>5, Zenon

\* Every operation of the heap keeps it in order, and gives or takes back one
\* allocation, or none when memory has run out.
LEMMA HeapStep ==
  ASSUME HeapInv, [HeapNext]_heap_vars
  PROVE  HeapInv' /\ (given' = given \/ OneGiven \/ OneReturned)
<1>1. ASSUME UNCHANGED heap_vars PROVE HeapInv' /\ given' = given
  <2>1. /\ pagerefs' = pagerefs /\ pagerefs_inuse' = pagerefs_inuse /\ sizebases' = sizebases
        /\ allbase' = allbase /\ nextfree' = nextfree /\ firstpage' = firstpage /\ given' = given
    BY <1>1, Zenon DEF heap_vars
  <2> QED BY <2>1, Zenon DEF HeapInv
<1>2. CASE kmalloc
  <2>1. PICK sz \in Requests :
          IF sz >= LARGEST_SUBPAGE_SIZE
          THEN kmalloc_Pages(sz)
          ELSE subpage_kmalloc(sz) \/ subpage_kmalloc_Fresh(sz) \/ subpage_kmalloc_Fails(sz)
    BY <1>2, Zenon DEF kmalloc
  <2>2. CASE sz >= LARGEST_SUBPAGE_SIZE
    BY <2>1, <2>2, PagesStep, Zenon
  <2>3. CASE ~(sz >= LARGEST_SUBPAGE_SIZE)
    <3>1. CASE subpage_kmalloc(sz)
      BY <2>3, <3>1, SubpageKmallocStep, Zenon
    <3>2. CASE subpage_kmalloc_Fresh(sz)
      BY <2>3, <3>2, FreshStep, Zenon
    <3>3. CASE subpage_kmalloc_Fails(sz)
      BY <1>1, <3>3, Zenon DEF subpage_kmalloc_Fails
    <3> QED BY <2>1, <2>3, <3>1, <3>2, <3>3, Zenon
  <2> QED BY <2>2, <2>3, Zenon
<1>3. CASE kfree
  BY <1>3, KfreeStep, Zenon
<1> QED
  BY <1>1, <1>2, <1>3, Zenon DEF HeapNext

\* The heap before kmalloc was ever called.
LEMMA HeapInitially ==
  ASSUME HeapInit
  PROVE  HeapInv
<1>0. PAGE_SIZE \in Nat \ {0} /\ RamPages \in Nat
  BY KheapAssumption, Zenon
<1>1. Unused \in Pageref
  BY KheapAssumption DEF Unused, Pageref, NULL, INVALID_OFFSET
<1>2. /\ pagerefs = [r \in 1..NPAGEREFS |-> Unused] /\ pagerefs_inuse = {}
      /\ sizebases = [i \in DOMAIN sizes |-> <<>>] /\ allbase = <<>>
      /\ nextfree = [a \in 1..((RamPages + 1) * PAGE_SIZE) |-> NULL] /\ firstpage = 1 /\ given = {}
  BY Zenon DEF HeapInit
<1>3. PagesOK(pagerefs, pagerefs_inuse, firstpage)
  <2>1. firstpage \in 1..(RamPages + 1)
    BY <1>0, <1>2
  <2> QED BY <1>1, <1>2, <2>1, Zenon DEF PagesOK
<1>4. ListsOK(pagerefs, pagerefs_inuse, sizebases, allbase)
  <2>1. Once(<<>>) /\ Refs(<<>>) = {} /\ <<>> \in Seq(1..NPAGEREFS)
    BY DEF Once, Refs
  <2>2. sizebases \in [DOMAIN sizes -> Seq(1..NPAGEREFS)] /\ \A i \in DOMAIN sizes : sizebases[i] = <<>>
    BY <1>2, <2>1, Zenon
  <2> QED BY <1>2, <2>1, <2>2, Zenon DEF ListsOK
<1>5. nextfree \in [1..((RamPages + 1) * PAGE_SIZE) -> Nat]
  BY <1>2, Zenon DEF NULL
<1> QED
  BY <1>2, <1>3, <1>4, <1>5, Zenon DEF HeapInv, HeapOK, NoneIdle, AllApart

\* The bytes of what clients hold are in memory, and no two of them share one.
LEMMA BytesApart ==
  ASSUME NEW refs, NEW inuse, NEW szb, NEW all, NEW links, NEW first, NEW gs,
         HeapOK(refs, inuse, szb, all, links, first, gs), NEW g \in gs
  PROVE  /\ BytesOf(g) # {} /\ BytesOf(g) \subseteq PAGE_SIZE .. ((RamPages + 1) * PAGE_SIZE - 1)
         /\ \A h \in gs : h # g => BytesOf(h) \cap BytesOf(g) = {}
<1>1. /\ \A h \in gs : GivenOK(refs, inuse, first, h)
      /\ AllApart(gs) /\ first \in 1..(RamPages + 1)
  BY Zenon DEF HeapOK, PagesOK
<1>2. PAGE_SIZE \in Nat \ {0} /\ RamPages \in Nat
  BY KheapAssumption, Zenon
<1>3. gs \in SUBSET [ptr : Nat, size : Requests]
  BY <1>1, Zenon DEF GivenOK
<1>4. \A h \in gs : h.ptr \in Nat /\ Length(h) \in Nat \ {0}
  BY <1>1, <1>3, OneLess, Zenon
<1>5. \A h : BytesOf(h) = h.ptr .. (h.ptr + Length(h) - 1)
  BY Zenon DEF BytesOf, Length
<1>6. g.ptr >= PAGE_SIZE /\ g.ptr + Length(g) <= first * PAGE_SIZE
  BY <1>1, Zenon DEF GivenOK
<1>7. /\ first * PAGE_SIZE \in Nat /\ (RamPages + 1) * PAGE_SIZE \in Nat
      /\ first * PAGE_SIZE <= (RamPages + 1) * PAGE_SIZE
  <2>1. first \in Nat /\ RamPages + 1 \in Nat
    BY <1>1, <1>2
  <2>2. /\ first * PAGE_SIZE \in Nat /\ (RamPages + 1) * PAGE_SIZE \in Nat
        /\ first < RamPages + 1 => first * PAGE_SIZE + PAGE_SIZE <= (RamPages + 1) * PAGE_SIZE
    BY <1>2, <2>1, Multiples, Zenon
  <2>3. first < RamPages + 1 \/ first = RamPages + 1
    BY <1>1, <1>2
  <2>4. CASE first < RamPages + 1
    BY <1>2, <2>2, <2>4
  <2>5. CASE first = RamPages + 1
    BY <2>2, <2>5
  <2> QED BY <2>3, <2>4, <2>5, Zenon
<1>8. BytesOf(g) # {} /\ BytesOf(g) \subseteq PAGE_SIZE .. ((RamPages + 1) * PAGE_SIZE - 1)
  <2>1. g.ptr \in Nat /\ Length(g) \in Nat \ {0} /\ BytesOf(g) = g.ptr .. (g.ptr + Length(g) - 1)
    BY <1>4, <1>5, Zenon
  <2>2. g.ptr \in BytesOf(g)
    BY <2>1
  <2>3. ASSUME NEW a \in BytesOf(g) PROVE a \in PAGE_SIZE .. ((RamPages + 1) * PAGE_SIZE - 1)
    BY <1>2, <1>6, <1>7, <2>1
  <2> QED BY <2>2, <2>3, Zenon
<1>9. ASSUME NEW h \in gs, h # g PROVE BytesOf(h) \cap BytesOf(g) = {}
  <2>1. /\ g.ptr \in Nat /\ Length(g) \in Nat \ {0} /\ BytesOf(g) = g.ptr .. (g.ptr + Length(g) - 1)
        /\ h.ptr \in Nat /\ Length(h) \in Nat \ {0} /\ BytesOf(h) = h.ptr .. (h.ptr + Length(h) - 1)
    BY <1>4, <1>5, Zenon
  <2>2. g.ptr + Length(g) <= h.ptr \/ h.ptr + Length(h) <= g.ptr
    BY <1>1, <1>9, Zenon DEF AllApart, Apart
  <2>3. ASSUME NEW a \in BytesOf(h), a \in BytesOf(g) PROVE FALSE
    BY <2>1, <2>2, <2>3
  <2> QED BY <2>3, Zenon
<1> QED
  BY <1>8, <1>9, Zenon

\* A step of the heap is a step of the allocator, seen from what is held.
LEMMA HeapRefines ==
  ASSUME HeapInv, [HeapNext]_heap_vars
  PROVE  [Abstract!Alloc \/ Abstract!Free]_Held
<1>1. /\ HeapOK(pagerefs, pagerefs_inuse, sizebases, allbase, nextfree, firstpage, given)
      /\ HeapOK(pagerefs, pagerefs_inuse, sizebases, allbase, nextfree, firstpage, given)'
      /\ given' = given \/ OneGiven \/ OneReturned
  BY HeapStep, Zenon DEF HeapInv
<1>2. \A g \in given : BytesOf(g) # {} /\ \A h \in given : h # g => BytesOf(h) \cap BytesOf(g) = {}
  BY <1>1, BytesApart, Zenon
<1>3. \A g \in given' : /\ BytesOf(g) # {} /\ BytesOf(g) \subseteq PAGE_SIZE .. ((RamPages + 1) * PAGE_SIZE - 1)
                        /\ \A h \in given' : h # g => BytesOf(h) \cap BytesOf(g) = {}
  BY <1>1, BytesApart, Zenon
<1>4. Held = {BytesOf(g) : g \in given} /\ Held' = {BytesOf(g) : g \in given'}
  BY Zenon DEF Held
<1>5. CASE given' = given
  BY <1>4, <1>5, Zenon
<1>6. CASE OneGiven
  <2>1. PICK g : g \notin given /\ given' = given \cup {g}
    BY <1>6, Zenon DEF OneGiven
  <2> DEFINE b == BytesOf(g)
  <2>2. b # {} /\ b \subseteq PAGE_SIZE .. ((RamPages + 1) * PAGE_SIZE - 1)
    BY <1>3, <2>1, Zenon
  <2>3. Held' = Held \cup {b}
    BY <1>4, <2>1, Zenon
  <2>4. \A h \in Held : b \cap h = {}
    <3>1. SUFFICES ASSUME NEW h \in given PROVE b \cap BytesOf(h) = {}
      BY <1>4, Zenon
    <3>2. h \in given' /\ h # g /\ g \in given'
      BY <2>1, Zenon
    <3>3. BytesOf(h) \cap b = {}
      BY <1>3, <3>2, Zenon
    <3> QED BY <3>3, Zenon
  <2>5. b \in Held' \ Held
    BY <2>2, <2>3, <2>4, Zenon
  <2> HIDE DEF b
  <2>6. Abstract!Alloc
    BY <2>2, <2>3, <2>4, <2>5, Zenon DEF Abstract!Alloc
  <2> QED BY <2>6, Zenon
<1>7. CASE OneReturned
  <2>1. PICK g \in given : given' = given \ {g}
    BY <1>7, Zenon DEF OneReturned
  <2> DEFINE b == BytesOf(g)
  <2>2. \A h \in given : h # g => BytesOf(h) # b
    BY <1>2, Zenon
  <2>3. Held' = Held \ {b} /\ b \in Held
    BY <1>4, <2>1, <2>2, Zenon
  <2> HIDE DEF b
  <2>4. Abstract!Free
    BY <2>3, Zenon DEF Abstract!Free
  <2> QED BY <2>4, Zenon
<1> QED
  BY <1>1, <1>5, <1>6, <1>7, Zenon

\* The kernel heap is an allocator: kmalloc never hands out memory that
\* overlaps another allocation, and kfree gives back one allocation and moves
\* no other.
THEOREM HeapIsAllocator == HeapSpec => ImplementsAllocator
<1>1. HeapInit => HeapInv
  BY HeapInitially, Zenon
<1>2. HeapInv /\ [HeapNext]_heap_vars => HeapInv'
  BY HeapStep, Zenon
<1>3. HeapInit => Held = {}
  BY Zenon DEF HeapInit, Held
<1>4. HeapInv /\ [HeapNext]_heap_vars => [Abstract!Alloc \/ Abstract!Free]_Held
  BY HeapRefines, Zenon
<1> QED
  BY <1>1, <1>2, <1>3, <1>4, PTL DEF HeapSpec, ImplementsAllocator, Abstract!AllocatorSpec

\* checksubpage and dumpsubpage, which follow the links from block to block,
\* meet the free blocks in the order of the free list.
LEMMA FollowFree ==
  ASSUME NEW r, NEW fl, IsFreeList(pagerefs[r], nextfree, fl), Len(fl) <= PAGE_SIZE, pagerefs[r] \in Pageref
  PROVE  FreeList(r) = fl
<1> DEFINE start == IF pagerefs[r].freelist_offset = INVALID_OFFSET THEN NULL
                    ELSE pagerefs[r].page + pagerefs[r].freelist_offset
           body(f, n) == IF n = 0 THEN start ELSE IF f[n - 1] = NULL THEN NULL ELSE nextfree[f[n - 1]]
           h == [n \in 0..PAGE_SIZE |-> IF n < Len(fl) THEN fl[n + 1] ELSE NULL]
           F == CHOOSE f : f = [n \in 0..PAGE_SIZE |-> body(f, n)]
<1>0. PAGE_SIZE \in Nat
  BY KheapAssumption, Zenon
<1>1. /\ fl \in Seq(Nat \ {0})
      /\ IF fl = <<>> THEN pagerefs[r].freelist_offset = INVALID_OFFSET
         ELSE pagerefs[r].freelist_offset < PAGE_SIZE /\ pagerefs[r].page + pagerefs[r].freelist_offset = fl[1]
      /\ \A i \in 1..Len(fl) : nextfree[fl[i]] = IF i < Len(fl) THEN fl[i + 1] ELSE NULL
  BY Zenon DEF IsFreeList
<1>2. Len(fl) \in Nat /\ DOMAIN fl = 1..Len(fl) /\ \A i \in 1..Len(fl) : fl[i] # NULL
  BY <1>1 DEF NULL
<1>3. \A n \in 0..PAGE_SIZE : h[n] = IF n < Len(fl) THEN fl[n + 1] ELSE NULL
  BY Zenon
<1>4. h[0] = start
  <2>1. h[0] = IF 0 < Len(fl) THEN fl[0 + 1] ELSE NULL
    BY <1>0, <1>3
  <2>2. CASE fl = <<>>
    <3>1. ~(0 < Len(fl)) /\ pagerefs[r].freelist_offset = INVALID_OFFSET
      BY <1>1, <2>2
    <3> QED BY <2>1, <3>1, Zenon
  <2>3. CASE fl # <<>>
    <3>1. 0 < Len(fl) /\ 0 + 1 = 1
      BY <1>1, <1>2, <2>3
    <3>2. pagerefs[r].freelist_offset < PAGE_SIZE /\ pagerefs[r].page + pagerefs[r].freelist_offset = fl[1]
      BY <1>1, <2>3, Zenon
    <3>3. pagerefs[r].freelist_offset # INVALID_OFFSET
      BY <1>0, <3>2 DEF Pageref, INVALID_OFFSET
    <3> QED BY <2>1, <3>1, <3>2, <3>3
  <2> QED BY <2>2, <2>3, Zenon
<1>5. ASSUME NEW n \in 1..PAGE_SIZE
      PROVE  h[n] = IF h[n - 1] = NULL THEN NULL ELSE nextfree[h[n - 1]]
  <2>1. n \in 0..PAGE_SIZE /\ n - 1 \in 0..PAGE_SIZE /\ (n - 1) + 1 = n
    BY <1>0
  <2>2. /\ h[n] = IF n < Len(fl) THEN fl[n + 1] ELSE NULL
        /\ h[n - 1] = IF n - 1 < Len(fl) THEN fl[n] ELSE NULL
    BY <1>3, <2>1, Zenon
  <2> HIDE DEF h
  <2>3. CASE n - 1 < Len(fl)
    <3>1. n \in 1..Len(fl)
      BY <1>2, <2>1, <2>3
    <3> QED BY <1>1, <1>2, <2>2, <2>3, <3>1, Zenon
  <2>4. CASE ~(n - 1 < Len(fl))
    <3>1. ~(n < Len(fl))
      BY <1>2, <2>1, <2>4
    <3> QED BY <2>2, <2>4, <3>1, Zenon
  <2> QED BY <2>3, <2>4, Zenon
<1>6. h = [n \in 0..PAGE_SIZE |-> body(h, n)]
  <2>1. ASSUME NEW n \in 0..PAGE_SIZE PROVE h[n] = body(h, n)
    <3>1. CASE n = 0
      BY <1>4, <3>1, Zenon
    <3>2. CASE n # 0
      <4>1. n \in 1..PAGE_SIZE
        BY <1>0, <3>2
      <4> HIDE DEF h
      <4> QED BY <1>5, <3>2, <4>1, Zenon
    <3> QED BY <3>1, <3>2, Zenon
  <2>2. h = [n \in 0..PAGE_SIZE |-> h[n]]
    BY <1>3, Zenon
  <2> HIDE DEF h, body
  <2> QED BY <2>1, <2>2, Zenon
<1>7. F = [n \in 0..PAGE_SIZE |-> body(F, n)]
  <2>1. \E x : x = [n \in 0..PAGE_SIZE |-> body(x, n)]
    <3> HIDE DEF h, body
    <3> QED BY <1>6, Zenon
  <2> HIDE DEF body, F
  <2> QED BY <2>1, Zenon DEF F
<1>8. FreeList(r) = [n \in {m \in 1..(PAGE_SIZE + 1) : F[m - 1] # NULL} |-> F[n - 1]]
  BY Zenon DEF FreeList
<1> HIDE DEF h, F
<1>9. \A n \in 0..PAGE_SIZE : F[n] = h[n]
  <2>1. \A n \in 0..PAGE_SIZE : F[n] = body(F, n)
    <3> HIDE DEF body
    <3> QED BY <1>7, Zenon
  <2>2. F[0] = start
    <3>1. F[0] = body(F, 0)
      BY <1>0, <2>1
    <3> QED BY <3>1, Zenon
  <2>3. ASSUME NEW n \in 1..PAGE_SIZE, F[n - 1] = h[n - 1] PROVE F[n] = h[n]
    <3>1. n \in 0..PAGE_SIZE /\ n # 0
      BY <1>0
    <3>2. F[n] = IF F[n - 1] = NULL THEN NULL ELSE nextfree[F[n - 1]]
      BY <2>1, <3>1, Zenon
    <3> QED BY <1>5, <2>3, <3>2, Zenon
  <2>4. Alike(PAGE_SIZE, F, h)
    BY <1>4, <2>2, <2>3, Zenon DEF Alike
  <2> QED BY <1>0, <2>4, StepsAgree, Zenon
<1>10. {m \in 1..(PAGE_SIZE + 1) : F[m - 1] # NULL} = 1..Len(fl)
  <2>1. ASSUME NEW m \in 1..(PAGE_SIZE + 1) PROVE F[m - 1] # NULL <=> m \in 1..Len(fl)
    <3>1. m - 1 \in 0..PAGE_SIZE /\ (m - 1) + 1 = m
      BY <1>0
    <3>2. F[m - 1] = IF m - 1 < Len(fl) THEN fl[m] ELSE NULL
      BY <1>3, <1>9, <3>1, Zenon
    <3>3. m - 1 < Len(fl) <=> m \in 1..Len(fl)
      BY <1>2, <3>1
    <3> QED BY <1>2, <3>2, <3>3, Zenon
  <2>2. 1..Len(fl) \subseteq 1..(PAGE_SIZE + 1)
    BY <1>0, <1>2
  <2> QED BY <2>1, <2>2, Zenon
<1>11. ASSUME NEW n \in 1..Len(fl) PROVE F[n - 1] = fl[n]
  <2>1. n - 1 \in 0..PAGE_SIZE /\ (n - 1) + 1 = n /\ n - 1 < Len(fl)
    BY <1>0, <1>2
  <2> QED BY <1>3, <1>9, <2>1, Zenon
<1>12. fl = [n \in 1..Len(fl) |-> fl[n]]
  BY <1>1
<1> QED
  BY <1>8, <1>10, <1>11, <1>12, Zenon

\* What the checks of kheap.c find on a page that is cut up.
LEMMA CheckedPage ==
  ASSUME HeapOK(pagerefs, pagerefs_inuse, sizebases, allbase, nextfree, firstpage, given), NEW r \in pagerefs_inuse
  PROVE  checksubpage(r) /\ dumpsubpage(r) = BlocksOf(pagerefs[r]) \cap Pointers(given)
<1> DEFINE pr == pagerefs[r]
           S == BlocksOf(pr) \cap Pointers(given)
<1>1. pr \in Pageref /\ PageOK(pr, nextfree, Pointers(given))
  BY PagesWhere, Zenon DEF HeapOK
<1>2. PICK fl : FreeBlocks(pr, nextfree, Pointers(given), fl)
  BY <1>1, Zenon DEF PageOK
<1>3. /\ IsFreeList(pr, nextfree, fl) /\ Len(fl) = pr.nfree /\ fl \in Seq(Nat \ {0})
      /\ Refs(fl) = BlocksOf(pr) \ Pointers(given)
  BY <1>2, Zenon DEF FreeBlocks, IsFreeList
<1>4. Len(fl) <= PAGE_SIZE
  <2>1. IsFiniteSet(S) /\ Cardinality(S) + pr.nfree = PerPage(pr.blktype)
    BY <1>1, Zenon DEF PageOK
  <2>2. Cardinality(S) \in Nat
    BY <2>1, CardinalityGrows, Zenon
  <2>3. pr.nfree \in Nat /\ pr.blktype \in DOMAIN sizes
    BY <1>1, Zenon DEF Pageref
  <2>4. PerPage(pr.blktype) \in 1..PAGE_SIZE /\ PAGE_SIZE \in Nat
    BY <2>3, PerPageFacts, KheapAssumption, Zenon
  <2> HIDE DEF S
  <2> QED BY <1>3, <2>1, <2>2, <2>3, <2>4
<1>5. FreeList(r) = fl
  BY <1>1, <1>3, <1>4, FollowFree, Zenon
<1>6. ASSUME NEW i \in DOMAIN fl
      PROVE  /\ fl[i] >= pr.page /\ fl[i] < pr.page + PAGE_SIZE
             /\ (fl[i] - pr.page) % sizes[pr.blktype] = 0
  <2>1. fl[i] \in BlocksOf(pr)
    BY <1>3, Zenon DEF Refs
  <2>2. /\ fl[i] \in Nat /\ pr.page <= fl[i] /\ fl[i] + sizes[pr.blktype] <= pr.page + PAGE_SIZE
        /\ (fl[i] - pr.page) % sizes[pr.blktype] = 0
    BY <1>1, <2>1, BlockFacts, Zenon
  <2>3. pr.blktype \in DOMAIN sizes /\ pr.page \in Nat
    BY <1>1, Zenon DEF Pageref
  <2>4. sizes[pr.blktype] \in 1..PAGE_SIZE /\ PAGE_SIZE \in Nat
    BY <2>3, PerPageFacts, KheapAssumption, Zenon
  <2>5. fl[i] >= pr.page /\ fl[i] < pr.page + PAGE_SIZE
    BY <2>2, <2>3, <2>4
  <2> QED BY <2>2, <2>5, Zenon
<1>7. checksubpage(r)
  BY <1>3, <1>5, <1>6, Zenon DEF checksubpage
<1>8. dumpsubpage(r) = BlocksOf(pr) \ Refs(fl)
  BY <1>5, Zenon DEF dumpsubpage, BlocksOf
<1> QED
  BY <1>3, <1>7, <1>8, Zenon

\* The invariant makes every check of kheap.c succeed.
LEMMA HeapChecked ==
  ASSUME HeapInv
  PROVE  HeapConsistent
<1>1. /\ HeapOK(pagerefs, pagerefs_inuse, sizebases, allbase, nextfree, firstpage, given)
      /\ NoneIdle(pagerefs, pagerefs_inuse)
  BY Zenon DEF HeapInv
<1>2. /\ Once(allbase) /\ Refs(allbase) = pagerefs_inuse
      /\ \A bt \in DOMAIN sizes : Refs(sizebases[bt]) = {r \in pagerefs_inuse : pagerefs[r].blktype = bt}
  BY <1>1, Zenon DEF HeapOK, ListsOK
<1>3. \A r \in pagerefs_inuse : pagerefs[r] \in Pageref /\ pagerefs[r].blktype \in DOMAIN sizes
  <2>1. \A r \in pagerefs_inuse : pagerefs[r] \in Pageref
    BY <1>1, PagesWhere, Zenon DEF HeapOK
  <2> QED BY <2>1, Zenon DEF Pageref
<1>4. Refs(allbase) = UNION {Refs(sizebases[i]) : i \in DOMAIN sizes}
  <2>1. ASSUME NEW r \in Refs(allbase) PROVE r \in UNION {Refs(sizebases[i]) : i \in DOMAIN sizes}
    BY <1>2, <1>3, Zenon
  <2>2. ASSUME NEW i \in DOMAIN sizes PROVE Refs(sizebases[i]) \subseteq Refs(allbase)
    BY <1>2, Zenon
  <2> QED BY <2>1, <2>2, Zenon
<1>5. checksubpages
  <2>1. \A r \in Refs(allbase) : checksubpage(r)
    BY <1>1, <1>2, CheckedPage, Zenon
  <2>2. \A i \in DOMAIN sizes : \A r \in Refs(sizebases[i]) : pagerefs[r].blktype = i
    BY <1>2, Zenon
  <2>3. \A i, j \in DOMAIN allbase : i # j => allbase[i] # allbase[j]
    BY <1>2, Zenon DEF Once
  <2> QED BY <1>4, <2>1, <2>2, <2>3, Zenon DEF checksubpages
<1>6. ASSUME NEW r \in pagerefs_inuse
      PROVE  /\ dumpsubpage(r) # {}
             /\ dumpsubpage(r) = {g.ptr : g \in {x \in given : \E i \in OnPage(x.ptr) : allbase[i] = r}}
  <2> DEFINE S == BlocksOf(pagerefs[r]) \cap Pointers(given)
             T == {x \in given : \E i \in OnPage(x.ptr) : allbase[i] = r}
  <2>1. dumpsubpage(r) = S
    BY <1>1, CheckedPage, Zenon
  <2>2. S # {}
    <3>1. SUFFICES ASSUME S = {} PROVE FALSE
      BY Zenon
    <3>2. Cardinality(S) + pagerefs[r].nfree = PerPage(pagerefs[r].blktype)
      BY <1>1, Zenon DEF HeapOK, PageOK
    <3>3. Cardinality(S) = 0
      BY <3>1, CardinalityOfNone, Zenon
    <3>4. pagerefs[r].nfree < PerPage(pagerefs[r].blktype)
      BY <1>1, Zenon DEF NoneIdle
    <3>5. pagerefs[r].nfree \in Nat
      BY <1>3, Zenon DEF Pageref
    <3> HIDE DEF S
    <3> QED BY <3>2, <3>3, <3>4, <3>5
  <2>3. \A x \in given : x \in T <=> x.ptr \in BlocksOf(pagerefs[r])
    <3>1. SUFFICES ASSUME NEW x \in given PROVE x \in T <=> x.ptr \in BlocksOf(pagerefs[r])
      BY Zenon
    <3>2. /\ \A i \in OnPage(x.ptr) : allbase[i] \in pagerefs_inuse /\ x.ptr \in BlocksOf(pagerefs[allbase[i]])
          /\ x.ptr \in BlocksOf(pagerefs[r]) => \E i \in OnPage(x.ptr) : allbase[i] = r
      BY <1>1, PageOfPointer, Zenon
    <3> QED BY <3>2, Zenon
  <2>4. T \subseteq given
    BY Zenon
  <2> HIDE DEF T
  <2>5. S = {g.ptr : g \in T}
    BY <2>3, <2>4, Zenon DEF Pointers
  <2> QED BY <2>1, <2>2, <2>5, Zenon DEF T
<1> QED
  BY <1>2, <1>5, <1>6, Zenon DEF HeapConsistent

\* The consistency checks of kheap.c never fail, whatever the sizes of blocks
\* and pages and the requests; and what they count as in use is exactly what
\* clients hold, so that the last free of a page gives its pageref back.
THEOREM HeapAlwaysConsistent == HeapSpec => []HeapConsistent
<1>1. HeapInit => HeapInv
  BY HeapInitially, Zenon
<1>2. HeapInv /\ [HeapNext]_heap_vars => HeapInv'
  BY HeapStep, Zenon
<1>3. HeapInv => HeapConsistent
  BY HeapChecked, Zenon
<1> QED
  BY <1>1, <1>2, <1>3, PTL DEF HeapSpec
=============================================================================
