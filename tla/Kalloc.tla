-------------------------------- MODULE Kalloc --------------------------------
(***************************************************************************)
(* kmalloc and kfree: src/kernel/memory/kalloc.cpp.  Each call holds       *)
(* g_kalloc_lock with interrupts disabled, so it is one step.              *)
(*                                                                         *)
(* A heap is a record of                                                   *)
(*   lists  the slab free lists, a sequence of blocks <<frame, offset>>    *)
(*          per bin, the head first,                                       *)
(*   live   the blocks handed out whose header carries ALLOC_MAGIC, with   *)
(*          what the header says: the bin (0 for a direct allocation) and  *)
(*          the number of pages.                                           *)
(* The frames come from, and go back to, the set `free' of the PMM.        *)
(***************************************************************************)
EXTENDS Integers, Sequences, FiniteSets

CONSTANTS
  PageSize,    \* PAGE_SIZE
  SlabSizes,   \* SLAB_SIZES, increasing, none larger than a page
  AllocHeader  \* sizeof(AllocHeader)

ASSUME KallocAssumption ==
  /\ PageSize \in Nat \ {0} /\ AllocHeader \in Nat \ {0}
  /\ SlabSizes \in Seq(1..PageSize)

LOCAL Bins == 1..Len(SlabSizes)

EmptyHeap == [lists |-> [b \in Bins |-> <<>>], live |-> {}]

\* find_slab_bin: the first bin that is large enough, 0 if none is.
FindSlabBin(total) ==
  LET fits == {b \in Bins : total <= SlabSizes[b]}
  IN IF fits = {} THEN 0 ELSE CHOOSE b \in fits : \A c \in fits : b <= c

\* Mutant: the blocks overlap by one unit.
BlocksOverlap(f, b) ==
  [i \in 1..(PageSize \div SlabSizes[b]) |->
     <<f, ((PageSize \div SlabSizes[b]) - i) * (SlabSizes[b] - 1)>>]

\* A page cut into blocks, each pushed on the list: the last one is the head.
Blocks(f, b) ==
  [i \in 1..(PageSize \div SlabSizes[b]) |->
     <<f, ((PageSize \div SlabSizes[b]) - i) * SlabSizes[b]>>]

\* alloc_kernel_pages: the first run of n frames.
Runs(free, n) == {f \in free : f..(f + n - 1) \subseteq free}
FirstRun(free, n) ==
  CHOOSE f \in Runs(free, n) : \A g \in Runs(free, n) : f <= g

PagesFor(total) == (total + PageSize - 1) \div PageSize

\* ok is FALSE for the null pointer; at is the block.
Failed(h, free) == [ok |-> FALSE, at |-> <<0, 0>>, h |-> h, free |-> free]

KmallocSlab(h, free, b) ==
  LET grow == h.lists[b] = <<>>
      f    == FirstRun(free, 1)
      list == IF grow THEN Blocks(f, b) ELSE h.lists[b]
  IN IF grow /\ free = {} THEN Failed(h, free)
     ELSE [ok |-> TRUE, at |-> Head(list),
           h |-> [lists |-> [h.lists EXCEPT ![b] = Tail(list)],
                  live |-> h.live \cup {[at |-> Head(list), bin |-> b,
                                         pages |-> 0]}],
           free |-> IF grow THEN free \ {f} ELSE free]

KmallocPages(h, free, n) ==
  LET f == FirstRun(free, n)
  IN IF Runs(free, n) = {} THEN Failed(h, free)
     ELSE [ok |-> TRUE, at |-> <<f, 0>>,
           h |-> [h EXCEPT !.live = @ \cup {[at |-> <<f, 0>>, bin |-> 0,
                                             pages |-> n]}],
           free |-> free \ (f..(f + n - 1))]

Kmalloc(h, free, size) ==
  LET b == FindSlabBin(size + AllocHeader)
  IN IF size = 0 THEN Failed(h, free)
     ELSE IF b # 0 THEN KmallocSlab(h, free, b)
     ELSE KmallocPages(h, free, PagesFor(size + AllocHeader))

\* kfree(p): a block whose header has lost its magic number is left alone.
Kfree(h, free, p) ==
  IF ~\E x \in h.live : x.at = p THEN [h |-> h, free |-> free]
  ELSE LET x == CHOOSE y \in h.live : y.at = p
           h1 == [h EXCEPT !.live = @ \ {x}]
       IN IF x.bin # 0
          THEN [h |-> [h1 EXCEPT !.lists[x.bin] = <<p>> \o @], free |-> free]
          ELSE [h |-> h1, free |-> free \cup p[1]..(p[1] + x.pages - 1)]

------------------------------------------------------------------------------

\* What a block occupies.
Cells(at, n) == {<<at[1], at[2] + i>> : i \in 0..(n - 1)}

Extent(x) ==
  IF x.bin # 0 THEN Cells(x.at, SlabSizes[x.bin])
  ELSE (x.at[1]..(x.at[1] + x.pages - 1)) \X (0..(PageSize - 1))

\* The blocks handed out and those on the free lists, told apart by where they
\* are held.
Items(h) ==
  {[in |-> <<0, 0>>, at |-> x.at, bin |-> x.bin, pages |-> x.pages] : x \in h.live}
    \cup UNION {{[in |-> <<b, i>>, at |-> h.lists[b][i], bin |-> b, pages |-> 0] :
                   i \in 1..Len(h.lists[b])} : b \in Bins}

\* No two blocks overlap, whether handed out or free, and no block lies in a
\* frame the PMM may hand out: what kmalloc returns belongs to its caller alone
\* until kfree, also after a second kfree of the same pointer.
HeapSound(h, free) ==
  /\ \A x, y \in Items(h) : x # y => Extent(x) \cap Extent(y) = {}
  /\ \A x \in Items(h) : \A c \in Extent(x) : c[1] \notin free

==============================================================================
