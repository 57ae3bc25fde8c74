--------------------------------- MODULE Pmm ---------------------------------
(***************************************************************************)
(* The physical memory manager after init(): src/kernel/memory/pmm.cpp.    *)
(*                                                                         *)
(* A physical address is its page frame number.  An unaligned or null      *)
(* address is rejected by every free and changes nothing, so it has no     *)
(* step.  The bitmap is the set of its one bits.                           *)
(***************************************************************************)
EXTENDS Integers, FiniteSets

CONSTANTS
  TotalFrames,   \* m_total_frames, a multiple of WordBits
  WordBits,      \* frames per word of the bitmap
  Reserved,      \* the frames that init() leaves reserved
  DirectLimit,   \* first frame beyond the direct map (2 GiB)
  MaxCount       \* bound: largest request for contiguous frames

Frames == 0..(TotalFrames - 1)

ASSUME FramesAssumption == TotalFrames \in Nat \ {0}
ASSUME WordAssumption ==
  WordBits \in Nat \ {0} /\ TotalFrames % WordBits = 0
ASSUME ReservedAssumption == Reserved \subseteq Frames /\ 0 \in Reserved
ASSUME LimitAssumption == DirectLimit \in Nat /\ MaxCount \in Nat

VARIABLES
  used,                 \* m_bitmap
  m_free_frames,
  m_allocated_frames,
  m_last_search_frame,
  force_failure,        \* m_force_alloc_failure
  dirty                 \* frames whose content is not all zero

vars == <<used, m_free_frames, m_allocated_frames, m_last_search_frame,
          force_failure, dirty>>

Init ==
  /\ used = Reserved
  /\ m_free_frames = Cardinality(Frames \ Reserved)
  /\ m_allocated_frames = 0
  /\ m_last_search_frame = 0
  /\ force_failure = FALSE
  /\ dirty = Frames

------------------------------------------------------------------------------

\* Words between the word of the search hint and the word of f, cyclically.
Distance(f) ==
  (f \div WordBits - m_last_search_frame \div WordBits)
    % (TotalFrames \div WordBits)

\* Mutant: the search does not wrap around to the words before the hint.
NextFreeNoWrap(f) ==
  /\ f \in Frames \ used
  /\ f >= m_last_search_frame
  /\ \A g \in Frames \ used : g >= m_last_search_frame => f <= g

\* alloc_page takes the lowest free frame of the first word with one.
NextFree(f) ==
  /\ f \in Frames \ used
  /\ \A g \in Frames \ used :
       \/ Distance(f) < Distance(g)
       \/ Distance(f) = Distance(g) /\ f <= g

Run(s, n) == s..(s + n - 1)

FreeRuns(lo, hi, n) == {s \in lo..(hi - n) : Run(s, n) \cap used = {}}

\* alloc_pages searches from the hint to the end, then from 0 to the hint.
Candidates(n) ==
  LET upper == FreeRuns(m_last_search_frame, TotalFrames, n)
  IN IF upper # {} THEN upper ELSE FreeRuns(0, m_last_search_frame, n)

FirstFit(s, n) == s \in Candidates(n) /\ \A r \in Candidates(n) : s <= r

\* Mutant: the pages of a run are not cleared.
TakeDirty(s, n, zeroed) ==
  /\ used' = used \cup Run(s, n)
  /\ m_free_frames' = m_free_frames - n
  /\ m_allocated_frames' = m_allocated_frames + n
  /\ m_last_search_frame' = s + n
  /\ UNCHANGED <<dirty, force_failure>>

Take(s, n, zeroed) ==
  /\ used' = used \cup Run(s, n)
  /\ m_free_frames' = m_free_frames - n
  /\ m_allocated_frames' = m_allocated_frames + n
  /\ m_last_search_frame' = s + n
  /\ dirty' = IF zeroed THEN dirty \ Run(s, n) ELSE dirty
  /\ UNCHANGED force_failure

AllocPage ==
  /\ m_free_frames > 0
  /\ ~force_failure
  /\ \E f \in Frames : NextFree(f) /\ Take(f, 1, f < DirectLimit)

\* The direct-map test is made on the address after the run.
AllocPages(n) ==
  /\ m_free_frames >= n
  /\ ~force_failure
  /\ \E s \in Frames : FirstFit(s, n) /\ Take(s, n, s + n < DirectLimit)

\* Mutant: reserved frames are not protected.
FreeableNoTracker(R) == R \cap used

\* free_page accepts a frame that is used, not reserved and accounted for.
\* The frames of a range are freed in ascending order.
Freeable(R) ==
  LET ok == (R \cap used) \ Reserved
  IN {f \in ok : Cardinality({g \in ok : g < f}) < m_allocated_frames}

Give(F) ==
  /\ used' = used \ F
  /\ m_free_frames' = m_free_frames + Cardinality(F)
  /\ m_allocated_frames' = m_allocated_frames - Cardinality(F)
  /\ \/ /\ \A f \in F : m_last_search_frame <= f
        /\ UNCHANGED m_last_search_frame
     \/ /\ m_last_search_frame' \in F
        /\ m_last_search_frame' < m_last_search_frame
        /\ \A f \in F : m_last_search_frame' <= f
  /\ UNCHANGED <<force_failure, dirty>>

FreePage(f) == Give(Freeable({f}))

FreePages(s, n) == Give(Freeable(Run(s, n) \cap Frames))

\* The holder of a frame writes to it.
WritePage(f) ==
  /\ f \in used \ Reserved
  /\ dirty' = dirty \cup {f}
  /\ UNCHANGED <<used, m_free_frames, m_allocated_frames,
                 m_last_search_frame, force_failure>>

SetForceAllocFailure(b) ==
  /\ force_failure' = b
  /\ UNCHANGED <<used, m_free_frames, m_allocated_frames,
                 m_last_search_frame, dirty>>

Next ==
  \/ AllocPage
  \/ \E n \in 2..MaxCount : AllocPages(n)
  \/ \E f \in Frames : FreePage(f)
  \/ \E s \in Frames \ {0}, n \in 1..MaxCount : FreePages(s, n)
  \/ \E f \in Frames : WritePage(f)
  \/ \E b \in BOOLEAN : SetForceAllocFailure(b)

Spec == Init /\ [][Next]_vars

------------------------------------------------------------------------------

\* The bitmap and the counters of the PMM keep their ranges; neither counter
\* wraps below zero, and the hint stays within 0..m_total_frames.
TypeOK ==
  /\ used \subseteq Frames
  /\ m_free_frames \in 0..TotalFrames
  /\ m_allocated_frames \in 0..TotalFrames
  /\ m_last_search_frame \in 0..TotalFrames
  /\ force_failure \in BOOLEAN
  /\ dirty \subseteq Frames

\* The counters are those of the bitmap after every sequence of allocations
\* and of accepted, rejected and partly rejected frees, and a reserved frame
\* is never given to anybody (self_test gates 1, 3, 6, 8 and 9).
CountersAgree ==
  /\ Reserved \subseteq used
  /\ m_free_frames = Cardinality(Frames \ used)
  /\ m_allocated_frames = Cardinality(used \ Reserved)

\* alloc_page returns null only when no frame is free: the hint never hides
\* the last free frames.
AllocPageSucceeds == m_free_frames > 0 => \E f \in Frames : NextFree(f)

\* alloc_page and alloc_pages hand out zero-initialized frames (pmm.hpp:30
\* and 34).
ZeroInitialized == [][(used' \ used) \cap dirty' = {}]_vars

\* alloc_pages reports "run unavailable" (pmm.cpp:321) only when there is no
\* run of that many free frames.
RunsFound ==
  \A n \in 2..MaxCount : FreeRuns(0, TotalFrames, n) # {} => Candidates(n) # {}

==============================================================================
