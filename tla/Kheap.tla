------------------------------- MODULE Kheap --------------------------------
(***************************************************************************)
(* The kernel heap, lib/kheap.c: pages cut into blocks of one size, the    *)
(* free blocks of a page linked through the blocks themselves; above it    *)
(* whole pages.  Every operation is one splhigh section.  Pages come from  *)
(* dumbvm, which takes them off the end of what is left and never gets     *)
(* them back (arch/mips/mips/dumbvm.c and ram.c).                          *)
(***************************************************************************)
EXTENDS Naturals, Sequences

CONSTANTS PAGE_SIZE,
          sizes,          \* of the blocks, ascending
          LARGEST_SUBPAGE_SIZE,
          NPAGEREFS,
          RamPages,       \* bound: pages of memory
          Requests        \* bound: sizes that clients ask for

ASSUME KheapAssumption ==
  /\ PAGE_SIZE \in Nat \ {0} /\ NPAGEREFS \in Nat /\ RamPages \in Nat
  /\ sizes \in Seq(1..PAGE_SIZE) /\ sizes # <<>>
  /\ LARGEST_SUBPAGE_SIZE = sizes[Len(sizes)]
  /\ Requests \subseteq Nat

NULL == 0
INVALID_OFFSET == PAGE_SIZE
Pages == {p * PAGE_SIZE : p \in 1..RamPages}

VARIABLES
  pagerefs,       \* a record for each page that is cut up
  pagerefs_inuse,
  sizebases,      \* the pages of each size, most recent first
  allbase,        \* all of them
  nextfree,       \* the link in each free block; NULL at the end
  firstpage,      \* the next page ram_stealmem gives away
  given           \* what clients hold: pointer and size

heap_vars == <<pagerefs, pagerefs_inuse, sizebases, allbase, nextfree, firstpage, given>>

Unused == [page |-> NULL, blktype |-> 1, freelist_offset |-> INVALID_OFFSET, nfree |-> 0]

HeapInit ==
  /\ pagerefs = [r \in 1..NPAGEREFS |-> Unused]
  /\ pagerefs_inuse = {}
  /\ sizebases = [i \in DOMAIN sizes |-> <<>>]
  /\ allbase = <<>>
  /\ nextfree = [a \in 1..((RamPages + 1) * PAGE_SIZE) |-> NULL]
  /\ firstpage = 1
  /\ given = {}

\* The pagerefs on a list, and the first of a set of numbers: of the places on
\* a list, of the pagerefs or of the block sizes, which the code goes through in
\* order.
Refs(list) == {list[i] : i \in DOMAIN list}
Lowest(S) == CHOOSE n \in S : \A m \in S : n <= m

\* sizes[i], as many to a page.
PerPage(i) == PAGE_SIZE \div sizes[i]
blocktype(sz) == Lowest({i \in DOMAIN sizes : sz <= sizes[i]})

allocpageref == Lowest((1..NPAGEREFS) \ pagerefs_inuse)
freepageref(r) == pagerefs_inuse \ {r}
CanAllocpageref == pagerefs_inuse # 1..NPAGEREFS

\* dumbvm: pages in a row, while there are any.
CanGetPages(n) == firstpage + n <= RamPages + 1
alloc_kpages == firstpage * PAGE_SIZE

\* The first page with a free block gives its first free block.  What was the
\* link is the client's from now on.
doalloc_KeepsLink(r, refs, links, sz) ==    \* mutant: the block stays on the free list
  LET p == refs[r].page
      ret == p + refs[r].freelist_offset
  IN  /\ pagerefs' = [refs EXCEPT ![r].nfree = @ - 1]
      /\ nextfree' = [links EXCEPT ![ret] = NULL]
      /\ given' = given \cup {[ptr |-> ret, size |-> sz]}

doalloc(r, refs, links, sz) ==
  LET p == refs[r].page
      ret == p + refs[r].freelist_offset
      fl == links[ret]
  IN  /\ pagerefs' = [refs EXCEPT ![r].nfree = @ - 1,
                                  ![r].freelist_offset = IF fl # NULL THEN fl - p ELSE INVALID_OFFSET]
      /\ nextfree' = [links EXCEPT ![ret] = NULL]
      /\ given' = given \cup {[ptr |-> ret, size |-> sz]}

\* The places on the list of a size of the pages with a free block.
WithRoom(bt) == {i \in DOMAIN sizebases[bt] : pagerefs[sizebases[bt][i]].nfree > 0}

subpage_kmalloc(sz) ==
  LET bt == blocktype(sz)
  IN  /\ WithRoom(bt) # {}
      /\ doalloc(sizebases[bt][Lowest(WithRoom(bt))], pagerefs, nextfree, sz)
      /\ UNCHANGED <<pagerefs_inuse, sizebases, allbase, firstpage>>

\* The blocks of a fresh page, each linked to the one below it.
FreshLinks(p, bt) ==
  [a \in DOMAIN nextfree |->
     IF \E i \in 0..(PerPage(bt) - 1) : a = p + i * sizes[bt]
     THEN IF a = p THEN NULL ELSE a - sizes[bt]
     ELSE nextfree[a]]

subpage_kmalloc_Fresh(sz) ==
  LET bt == blocktype(sz)
      r == allocpageref
      p == alloc_kpages
      n == PerPage(bt)
  IN  /\ WithRoom(bt) = {} /\ CanAllocpageref /\ CanGetPages(1)
      /\ pagerefs_inuse' = pagerefs_inuse \cup {r}
      /\ firstpage' = firstpage + 1
      /\ sizebases' = [sizebases EXCEPT ![bt] = <<r>> \o @]
      /\ allbase' = <<r>> \o allbase
      /\ doalloc(r, [pagerefs EXCEPT ![r] = [page |-> p, blktype |-> bt, nfree |-> n,
                                             freelist_offset |-> (n - 1) * sizes[bt]]],
                 FreshLinks(p, bt), sz)

\* No pageref, or no page, in which case the pageref is given back.
subpage_kmalloc_Fails(sz) ==
  /\ WithRoom(blocktype(sz)) = {}
  /\ ~CanAllocpageref \/ ~CanGetPages(1)
  /\ UNCHANGED heap_vars

kmalloc_Pages_RoundsDown(sz) ==    \* mutant: a partial last page is not counted
  LET npages == sz \div PAGE_SIZE
  IN  /\ CanGetPages(npages)
      /\ firstpage' = firstpage + npages
      /\ given' = given \cup {[ptr |-> alloc_kpages, size |-> sz]}
      /\ UNCHANGED <<pagerefs, pagerefs_inuse, sizebases, allbase, nextfree>>

\* Large requests, and those of the largest block size, get whole pages.
kmalloc_Pages(sz) ==
  LET npages == (sz + PAGE_SIZE - 1) \div PAGE_SIZE
  IN  /\ CanGetPages(npages)
      /\ firstpage' = firstpage + npages
      /\ given' = given \cup {[ptr |-> alloc_kpages, size |-> sz]}
      /\ UNCHANGED <<pagerefs, pagerefs_inuse, sizebases, allbase, nextfree>>

kmalloc ==
  \E sz \in Requests :
    IF sz >= LARGEST_SUBPAGE_SIZE
    THEN kmalloc_Pages(sz)
    ELSE \/ subpage_kmalloc(sz)
         \/ subpage_kmalloc_Fresh(sz)
         \/ subpage_kmalloc_Fails(sz)

\* The places on the list of all pages of those that ptr points into.
OnPage(ptr) ==
  {i \in DOMAIN allbase : /\ ptr >= pagerefs[allbase[i]].page
                          /\ ptr < pagerefs[allbase[i]].page + PAGE_SIZE}

\* A list without its first r.
Unlinked(list, r) ==
  LET i == Lowest({j \in DOMAIN list : list[j] = r})
  IN  SubSeq(list, 1, i - 1) \o SubSeq(list, i + 1, Len(list))

remove_lists(r, bt) ==
  sizebases' = [sizebases EXCEPT ![bt] = Unlinked(@, r)] /\ allbase' = Unlinked(allbase, r)

subpage_kfree(ptr, r) ==
  LET p == pagerefs[r].page
      bt == pagerefs[r].blktype
      off == pagerefs[r].freelist_offset
  IN  /\ IF pagerefs[r].nfree + 1 = PerPage(bt)
         THEN \* the page and the pageref are given back, and not read again
              /\ remove_lists(r, bt)
              /\ pagerefs_inuse' = freepageref(r)
              /\ pagerefs' = [pagerefs EXCEPT ![r] = Unused]
              /\ nextfree' = [a \in DOMAIN nextfree |-> IF a \in p..(p + PAGE_SIZE - 1) THEN NULL ELSE nextfree[a]]
         ELSE /\ nextfree' = [nextfree EXCEPT ![ptr] = IF off = INVALID_OFFSET THEN NULL ELSE p + off]
              /\ pagerefs' = [pagerefs EXCEPT ![r].freelist_offset = ptr - p, ![r].nfree = @ + 1]
              /\ UNCHANGED <<sizebases, allbase, pagerefs_inuse>>
      /\ UNCHANGED firstpage

\* kfree of something a client holds; for whole pages free_kpages does nothing.
kfree ==
  \E g \in given :
    /\ given' = given \ {g}
    /\ IF OnPage(g.ptr) # {}
       THEN subpage_kfree(g.ptr, allbase[Lowest(OnPage(g.ptr))])
       ELSE UNCHANGED <<pagerefs, pagerefs_inuse, sizebases, allbase, nextfree, firstpage>>

HeapNext == kmalloc \/ kfree

HeapSpec == HeapInit /\ [][HeapNext]_heap_vars
----------------------------------------------------------------------------
\* The free list of a page, as checksubpage and dumpsubpage follow it.
FreeList(r) ==
  LET p == pagerefs[r].page
      f[n \in 0..PAGE_SIZE] ==
        IF n = 0 THEN IF pagerefs[r].freelist_offset = INVALID_OFFSET THEN NULL ELSE p + pagerefs[r].freelist_offset
        ELSE IF f[n - 1] = NULL THEN NULL ELSE nextfree[f[n - 1]]
  IN  [n \in {m \in 1..(PAGE_SIZE + 1) : f[m - 1] # NULL} |-> f[n - 1]]

\* The assertions of checksubpage and of dumpsubpage.
checksubpage(r) ==
  LET p == pagerefs[r].page
      fl == FreeList(r)
  IN  /\ \A i \in DOMAIN fl : /\ fl[i] >= p /\ fl[i] < p + PAGE_SIZE
                              /\ (fl[i] - p) % sizes[pagerefs[r].blktype] = 0
      /\ Len(fl) = pagerefs[r].nfree

\* The map dumpsubpage prints: the blocks that are not free.
dumpsubpage(r) ==
  LET sz == sizes[pagerefs[r].blktype]
  IN  {pagerefs[r].page + i * sz : i \in 0..(PerPage(pagerefs[r].blktype) - 1)} \ Refs(FreeList(r))

\* The assertions of checksubpages.
checksubpages ==
  /\ \A r \in Refs(allbase) : checksubpage(r)
  /\ \A i \in DOMAIN sizes : \A r \in Refs(sizebases[i]) : pagerefs[r].blktype = i
  /\ Refs(allbase) = UNION {Refs(sizebases[i]) : i \in DOMAIN sizes}
  /\ \A i, j \in DOMAIN allbase : i # j => allbase[i] # allbase[j]
----------------------------------------------------------------------------
(* Type invariant.                                                         *)
HeapTypeOK ==
  /\ pagerefs \in [1..NPAGEREFS -> [page : {NULL} \cup Pages, blktype : DOMAIN sizes,
                                    freelist_offset : 0..PAGE_SIZE, nfree : 0..PAGE_SIZE]]
  /\ pagerefs_inuse \subseteq 1..NPAGEREFS
  /\ firstpage \in 1..(RamPages + 1)
  /\ \A g \in given : g.ptr \in DOMAIN nextfree /\ g.size \in Requests

\* The consistency checks that kheap.c compiles in only under SLOW and SLOWER
\* never fail; the pagerefs in use are those on the lists; and what the lists
\* say is in use is what clients hold, so that nothing is lost: the last free
\* of a page always gives its pageref back.
HeapConsistent ==
  /\ checksubpages
  /\ pagerefs_inuse = Refs(allbase)
  /\ \A r \in pagerefs_inuse :
       /\ dumpsubpage(r) # {}
       /\ dumpsubpage(r) = {g.ptr : g \in {x \in given : \E i \in OnPage(x.ptr) : allbase[i] = r}}

\* An allocation as a set of addresses: the client's own bytes.
BytesOf(g) == g.ptr .. (g.ptr + (IF g.size = 0 THEN 1 ELSE g.size) - 1)
Held == {BytesOf(g) : g \in given}
Abstract == INSTANCE Allocator WITH Memory <- PAGE_SIZE .. ((RamPages + 1) * PAGE_SIZE - 1), held <- Held

\* kmalloc never hands out memory that overlaps another allocation, whatever
\* sequence of allocations and frees of every size came before; kfree gives back
\* one allocation and moves no other.
ImplementsAllocator == Abstract!AllocatorSpec
============================================================================
