--------------------------- MODULE ReservedRegions ---------------------------
(***************************************************************************)
(* The tracker of reserved memory, src/kernel/memory/reserved_regions.cpp, *)
(* and the first half of the physical memory manager's life, init() of     *)
(* src/kernel/memory/pmm.cpp, which places the bitmap and decides which    *)
(* frames are free.                                                        *)
(*                                                                         *)
(* An address is a number of units, PageSize of which make a page.  A      *)
(* region is [start, end, type, name] with end exclusive; length is        *)
(* end - start.  A memory-map entry is [base, len, type].                  *)
(***************************************************************************)
EXTENDS Integers, SequencesExt, FiniteSetsExt

CONSTANTS
  PageSize,      \* PAGE_SIZE
  BigPage,       \* 2 MiB: what the managed memory is rounded to
  BitsPerUnit,   \* frames that one unit of the bitmap describes
  LowEnd,        \* 0x100000
  MaxRegions     \* MAX_REGIONS

Down(a, n) == a - (a % n)
Up(a, n) == Down(a + n - 1, n)

Region(s, e, type, name) == [start |-> s, end |-> e, type |-> type, name |-> name]

Aligned(s, e, name) == Region(Down(s, PageSize), Up(e, PageSize), "reserved", name)

IsAvailable(r) == r.type = "available"

\* The name is one per type; the types without a case are "Firmware Reserved".
Desc(type) ==
  IF type \in {"available", "acpi", "nvs", "bad"} THEN type ELSE "firmware"

\* populate: m_raw_regions for the entries captured from the firmware's map.
Populate(entries, kernel, mb2) ==
  LET low == <<Region(0, LowEnd, "reserved", "low")>>
      image == IF kernel.end > kernel.start
               THEN <<Region(kernel.start, kernel.end, "reserved", "kernel")>>
               ELSE <<>>
      block == IF mb2.start # 0 /\ mb2.size > 0
               THEN <<Aligned(mb2.start, mb2.start + mb2.size, "mb2")>> ELSE <<>>
      own == low \o image \o block
      kept == SelectSeq(entries, LAMBDA e : e.len # 0)
      room == Min({Len(kept), MaxRegions - Len(own)})
  IN own \o [i \in 1..room |->
               Region(kept[i].base, kept[i].base + kept[i].len, kept[i].type,
                      Desc(kept[i].type))]

\* register_pmm_bitmap: a full table leaves the bitmap out.
RegisterBitmap(raw, s, size) ==
  IF size = 0 \/ Len(raw) >= MaxRegions THEN raw
  ELSE Append(raw, Aligned(s, s + size, "bitmap"))

------------------------------------------------------------------------------
\* normalize

\* Step 1: reservations grow to whole pages, available memory shrinks to them.
\* An empty region is skipped.
NonEmpty(s) == SelectSeq(s, LAMBDA r : r.end > r.start)

ReservedPages(raw) ==
  NonEmpty([i \in DOMAIN SelectSeq(raw, LAMBDA r : ~IsAvailable(r)) |->
              LET r == SelectSeq(raw, LAMBDA x : ~IsAvailable(x))[i]
              IN [r EXCEPT !.start = Down(@, PageSize), !.end = Up(@, PageSize)]])

AvailablePages(raw) ==
  NonEmpty([i \in DOMAIN SelectSeq(raw, IsAvailable) |->
              LET r == SelectSeq(raw, IsAvailable)[i]
              IN [r EXCEPT !.start = Up(@, PageSize), !.end = Down(@, PageSize)]])

\* The bubble sorts keep the order of equal starts.
Sorted(s) == SortSeq(s, LAMBDA x, y : x.start < y.start)

\* Step 2.  Overlapping reservations become one; adjacent ones only when they
\* have one type and one name.
MergeReserved(s) ==
  FoldLeft(LAMBDA acc, cur :
             IF acc = <<>> THEN <<cur>>
             ELSE LET prev == Last(acc)
                      longer == [acc EXCEPT ![Len(acc)].end = Max({@, cur.end})]
                  IN IF prev.end > cur.start THEN longer
                     ELSE IF /\ prev.end = cur.start
                             /\ prev.type = cur.type
                             /\ prev.name = cur.name
                          THEN longer ELSE Append(acc, cur),
           <<>>, s)

\* Mutant: an entry inside the previous one shortens it.
MergeAvailableShort(s) ==
  FoldLeft(LAMBDA acc, cur :
             IF acc # <<>> /\ Last(acc).end >= cur.start
             THEN [acc EXCEPT ![Len(acc)].end = cur.end]
             ELSE Append(acc, cur),
           <<>>, s)

\* Step 3.  Overlapping or adjacent available entries become one.
MergeAvailable(s) ==
  FoldLeft(LAMBDA acc, cur :
             IF acc # <<>> /\ Last(acc).end >= cur.start
             THEN [acc EXCEPT ![Len(acc)].end = Max({@, cur.end})]
             ELSE Append(acc, cur),
           <<>>, s)

Capped(s) == SubSeq(s, 1, Min({Len(s), MaxRegions}))

\* What res leaves of av.
Slices(av, res) ==
  IF res.end <= av.start \/ res.start >= av.end THEN <<av>>
  ELSE (IF av.start < res.start THEN <<[av EXCEPT !.end = res.start]>> ELSE <<>>)
       \o (IF res.end < av.end THEN <<[av EXCEPT !.start = res.end]>> ELSE <<>>)

\* Step 4: subtract every reservation from all available intervals.
Subtract(avail, reserved) ==
  FoldLeft(LAMBDA cur, res :
             Capped(FlattenSeq([i \in DOMAIN cur |-> Slices(cur[i], res)])),
           avail, reserved)

\* Steps 5 and 6.  Reservations come first: the cap drops available memory.
Normalize(raw) ==
  LET res == MergeReserved(Sorted(ReservedPages(raw)))
      avail == MergeAvailable(Sorted(AvailablePages(raw)))
  IN Sorted(Capped(res \o Subtract(avail, res)))

IsReserved(regions, a) ==
  ~\E i \in DOMAIN regions :
     /\ regions[i].start <= a /\ a < regions[i].end
     /\ IsAvailable(regions[i])

OverlapsReserved(regions, s, len) ==
  /\ len # 0
  /\ \E i \in DOMAIN regions :
       /\ ~IsAvailable(regions[i])
       /\ regions[i].start < s + len /\ regions[i].end > s

------------------------------------------------------------------------------
\* PhysicalMemoryManager::init

MaxUsable(entries) ==
  Max({0} \cup {entries[i].base + entries[i].len :
                  i \in {j \in DOMAIN entries : IsAvailable(entries[j])}})

BitmapSize(frames) == (frames + BitsPerUnit - 1) \div BitsPerUnit

\* Where the search of one entry may put a bitmap of this size.
Places(entry, regions, kernel, mb2, size) ==
  LET first == Up(Max({entry.base, kernel.end}), PageSize)
  IN {a \in first..(entry.base + entry.len - size) :
        /\ a % PageSize = 0
        /\ ~(a < mb2.start + mb2.size /\ a + size > mb2.start)
        /\ ~OverlapsReserved(regions, a, size)}

Placements(entries, regions, kernel, mb2, size) ==
  LET usable == {i \in DOMAIN entries :
                   /\ IsAvailable(entries[i])
                   /\ Places(entries[i], regions, kernel, mb2, size) # {}}
  IN IF usable = {} THEN {}
     ELSE {Min(Places(entries[Min(usable)], regions, kernel, mb2, size))}

FramesOf(s, e) == {f \in 0..(e \div PageSize) :
                     f * PageSize >= Down(s, PageSize) /\ f * PageSize < e}

\* Steps 3 to 5: all frames are used, the available regions are freed, and the
\* reservations are marked once more.
FreeFrames(regions, entries, own, managed) ==
  LET avail == {i \in DOMAIN regions : IsAvailable(regions[i])}
      firm == {i \in DOMAIN entries : ~IsAvailable(entries[i])}
  IN ((UNION {FramesOf(regions[i].start, regions[i].end) : i \in avail})
        \cap (0..(managed \div PageSize - 1)))
     \ ((UNION {FramesOf(r.start, r.end) : r \in own})
        \cup UNION {FramesOf(entries[i].base, entries[i].base + entries[i].len)
                      : i \in firm})
==============================================================================
