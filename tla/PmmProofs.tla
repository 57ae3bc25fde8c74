------------------------------ MODULE PmmProofs ------------------------------
(***************************************************************************)
(* The frame accounting of Pmm for every number of frames, word size and   *)
(* set of reserved frames.                                                 *)
(***************************************************************************)
EXTENDS Pmm, FiniteSetTheorems, WellFoundedInduction, TLAPS

PInv == TypeOK /\ CountersAgree

\* The frames are finitely many, and the counters are natural numbers.
LEMMA FramesFinite ==
  /\ IsFiniteSet(Frames)
  /\ Cardinality(Frames) = TotalFrames
  /\ \A S \in SUBSET Frames : /\ IsFiniteSet(S)
                              /\ Cardinality(S) \in Nat
                              /\ Cardinality(S) <= TotalFrames
<1>1. IsFiniteSet(Frames) /\ Cardinality(Frames) = TotalFrames
  BY FS_Interval, FramesAssumption DEF Frames
<1> QED
  BY <1>1, FS_Subset, FS_CardinalityType

\* Taking frames out of a set of frames reduces its cardinality by their
\* number.
LEMMA CountDifference ==
  ASSUME NEW S \in SUBSET Frames, NEW F \in SUBSET S
  PROVE  Cardinality(S \ F) = Cardinality(S) - Cardinality(F)
<1>1. S \cap F = F
  OBVIOUS
<1> QED
  BY <1>1, FramesFinite, FS_Difference

\* Adding other frames to it increases its cardinality by their number.
LEMMA CountUnion ==
  ASSUME NEW S \in SUBSET Frames, NEW F \in SUBSET Frames, S \cap F = {}
  PROVE  Cardinality(S \cup F) = Cardinality(S) + Cardinality(F)
<1>1. S = (S \cup F) \ F /\ S \cup F \in SUBSET Frames /\ F \in SUBSET (S \cup F)
  OBVIOUS
<1>2. Cardinality(S) = Cardinality(S \cup F) - Cardinality(F)
  BY <1>1, CountDifference
<1>3. Cardinality(S) \in Nat /\ Cardinality(F) \in Nat /\ Cardinality(S \cup F) \in Nat
  BY <1>1, FramesFinite
<1> QED
  BY <1>2, <1>3

\* Handing out a run of free frames keeps the counters in agreement.
LEMMA TakeInv ==
  ASSUME PInv, NEW s \in Nat, NEW n \in Nat \ {0}, NEW z,
         s + n <= TotalFrames, Run(s, n) \cap used = {}, Take(s, n, z)
  PROVE  PInv'
<1> DEFINE R == Run(s, n)
<1>1. /\ used \subseteq Frames
      /\ dirty \subseteq Frames
      /\ force_failure \in BOOLEAN
      /\ Reserved \subseteq used
      /\ m_free_frames = Cardinality(Frames \ used)
      /\ m_allocated_frames = Cardinality(used \ Reserved)
  BY DEF PInv, TypeOK, CountersAgree
<1>2. R \subseteq Frames /\ Cardinality(R) = n
  <2>1. R \subseteq Frames
    BY FramesAssumption DEF Run, Frames
  <2>2. s \in Int /\ s + n - 1 \in Int /\ ~ (s > s + n - 1) /\ (s + n - 1) - s + 1 = n
    OBVIOUS
  <2>3. Cardinality(s..(s + n - 1))
          = IF s > s + n - 1 THEN 0 ELSE (s + n - 1) - s + 1
    BY <2>2, FS_Interval, Zenon
  <2> QED
    BY <2>1, <2>2, <2>3 DEF Run
<1>3. /\ used' = used \cup R
      /\ m_free_frames' = m_free_frames - n
      /\ m_allocated_frames' = m_allocated_frames + n
      /\ m_last_search_frame' = s + n
      /\ dirty' \subseteq dirty
      /\ force_failure' = force_failure
  BY DEF Take
<1>4. R \cap used = {}
  OBVIOUS
<1> HIDE DEF R
<1>5. m_free_frames' = Cardinality(Frames \ used')
  <2>1. Frames \ used' = (Frames \ used) \ R /\ R \in SUBSET (Frames \ used)
    BY <1>2, <1>3, <1>4
  <2> QED
    BY <1>1, <1>2, <1>3, <2>1, CountDifference
<1>6. m_allocated_frames' = Cardinality(used' \ Reserved)
  <2>1. /\ used' \ Reserved = (used \ Reserved) \cup R
        /\ (used \ Reserved) \cap R = {}
        /\ used \ Reserved \in SUBSET Frames /\ R \in SUBSET Frames
    BY <1>1, <1>2, <1>3, <1>4
  <2> QED
    BY <1>1, <1>2, <1>3, <2>1, CountUnion
<1>7. used' \subseteq Frames /\ dirty' \subseteq Frames
  BY <1>1, <1>2, <1>3
<1>8. m_free_frames' \in 0..TotalFrames /\ m_allocated_frames' \in 0..TotalFrames
  BY <1>5, <1>6, <1>7, FramesFinite, FramesAssumption
<1>9. m_last_search_frame' \in 0..TotalFrames
  BY <1>3, FramesAssumption
<1> QED
  BY <1>1, <1>3, <1>5, <1>6, <1>7, <1>8, <1>9 DEF PInv, TypeOK, CountersAgree

\* Taking back frames that are used and not reserved keeps them in agreement.
LEMMA GiveInv ==
  ASSUME PInv, NEW F \in SUBSET (used \ Reserved), Give(F)
  PROVE  PInv'
<1>1. /\ used \subseteq Frames
      /\ dirty \subseteq Frames
      /\ force_failure \in BOOLEAN
      /\ m_last_search_frame \in 0..TotalFrames
      /\ Reserved \subseteq used
      /\ m_free_frames = Cardinality(Frames \ used)
      /\ m_allocated_frames = Cardinality(used \ Reserved)
  BY DEF PInv, TypeOK, CountersAgree
<1>2. /\ used' = used \ F
      /\ m_free_frames' = m_free_frames + Cardinality(F)
      /\ m_allocated_frames' = m_allocated_frames - Cardinality(F)
      /\ m_last_search_frame' = m_last_search_frame \/ m_last_search_frame' \in F
      /\ UNCHANGED <<force_failure, dirty>>
  BY DEF Give
<1>3. m_free_frames' = Cardinality(Frames \ used')
  <2>1. /\ Frames \ used' = (Frames \ used) \cup F
        /\ (Frames \ used) \cap F = {}
        /\ F \in SUBSET Frames
    BY <1>1, <1>2
  <2> QED
    BY <1>1, <1>2, <2>1, CountUnion
<1>4. m_allocated_frames' = Cardinality(used' \ Reserved)
  <2>1. used' \ Reserved = (used \ Reserved) \ F /\ used \ Reserved \in SUBSET Frames
    BY <1>1, <1>2
  <2> QED
    BY <1>1, <1>2, <2>1, CountDifference
<1>5. m_free_frames' \in 0..TotalFrames /\ m_allocated_frames' \in 0..TotalFrames
  <2>1. Frames \ used' \in SUBSET Frames /\ used' \ Reserved \in SUBSET Frames
    BY <1>1, <1>2
  <2> QED
    BY <1>3, <1>4, <2>1, FramesFinite, FramesAssumption
<1>6. m_last_search_frame' \in 0..TotalFrames
  <2>1. \A f \in Frames : f \in 0..TotalFrames
    BY FramesAssumption DEF Frames
  <2>2. F \subseteq Frames
    BY <1>1
  <2> QED
    BY <1>1, <1>2, <2>1, <2>2
<1> QED
  BY <1>1, <1>2, <1>3, <1>4, <1>5, <1>6 DEF PInv, TypeOK, CountersAgree

\* Every step preserves types and counters.
LEMMA PmmNext ==
  ASSUME PInv, [Next]_vars
  PROVE  PInv'
<1>1. m_last_search_frame \in 0..TotalFrames
  BY DEF PInv, TypeOK
<1>2. CASE AllocPage
  <2>1. PICK f \in Frames : NextFree(f) /\ Take(f, 1, f < DirectLimit)
    BY <1>2 DEF AllocPage
  <2>2. f \in Nat /\ f + 1 <= TotalFrames /\ Run(f, 1) = {f}
    BY FramesAssumption DEF Frames, Run
  <2>3. Run(f, 1) \cap used = {}
    BY <2>1, <2>2 DEF NextFree
  <2> QED
    BY <2>1, <2>2, <2>3, TakeInv
<1>3. CASE \E n \in 2..MaxCount : AllocPages(n)
  <2>1. PICK n \in 2..MaxCount, s \in Frames :
               FirstFit(s, n) /\ Take(s, n, s + n < DirectLimit)
    BY <1>3 DEF AllocPages
  <2>2. s \in Nat /\ n \in Nat \ {0}
    BY LimitAssumption DEF Frames
  <2>3. s + n <= TotalFrames /\ Run(s, n) \cap used = {}
    BY <1>1, <2>1, <2>2, FramesAssumption DEF FirstFit, Candidates, FreeRuns
  <2> QED
    BY <2>1, <2>2, <2>3, TakeInv
<1>4. ASSUME NEW R PROVE Freeable(R) \in SUBSET (used \ Reserved)
  BY DEF Freeable
<1>5. CASE \E f \in Frames : FreePage(f)
  BY <1>4, <1>5, GiveInv DEF FreePage
<1>6. CASE \E s \in Frames \ {0}, n \in 1..MaxCount : FreePages(s, n)
  BY <1>4, <1>6, GiveInv DEF FreePages
<1>7. CASE \E f \in Frames : WritePage(f)
  BY <1>7 DEF WritePage, PInv, TypeOK, CountersAgree
<1>8. CASE \E b \in BOOLEAN : SetForceAllocFailure(b)
  BY <1>8 DEF SetForceAllocFailure, PInv, TypeOK, CountersAgree
<1>9. CASE UNCHANGED vars
  BY <1>9 DEF vars, PInv, TypeOK, CountersAgree
<1> QED
  BY <1>2, <1>3, <1>5, <1>6, <1>7, <1>8, <1>9 DEF Next

\* After any sequence of allocations and of accepted, rejected and partly
\* rejected frees the counters are those of the bitmap, and no reserved frame
\* was given to anybody.
THEOREM CountersCorrect == Spec => [](TypeOK /\ CountersAgree)
<1>1. Init => PInv
  <2> SUFFICES ASSUME Init PROVE PInv
    OBVIOUS
  <2>1. Cardinality(Frames \ Reserved) \in 0..TotalFrames
    BY FramesFinite, FramesAssumption
  <2>2. Cardinality(Reserved \ Reserved) = 0
    <3>1. Reserved \ Reserved = {}
      OBVIOUS
    <3> QED
      BY <3>1, FS_EmptySet
  <2>3. TypeOK
    <3>1. 0 \in 0..TotalFrames
      BY FramesAssumption
    <3> QED
      BY <2>1, <3>1, ReservedAssumption DEF Init, TypeOK
  <2>4. CountersAgree
    BY <2>2 DEF Init, CountersAgree
  <2> QED
    BY <2>3, <2>4 DEF PInv
<1>2. PInv /\ [Next]_vars => PInv'
  BY PmmNext
<1> QED
  BY <1>1, <1>2, PTL DEF Spec, PInv

\* The bitmap, the hint and the counters of PhysicalMemoryManager keep their
\* ranges; the hint may equal m_total_frames, never pass it.
THEOREM TypeCorrect == Spec => []TypeOK
BY CountersCorrect, PTL

\* A non-empty set of natural numbers has a least element.
LEMMA LeastElement ==
  ASSUME NEW T \in SUBSET Nat, T # {}
  PROVE  \E x \in T : \A y \in T : x <= y
<1>1. PICK x \in T : \A y \in T : <<y, x>> \notin OpToRel(<, Nat)
  BY NatLessThanWellFounded, WFMin
<1>2. \A y \in T : ~ (y < x)
  BY <1>1 DEF OpToRel
<1> QED
  BY <1>2

\* The number of words before a frame in the cyclic search is a natural number.
LEMMA DistanceType ==
  ASSUME PInv, NEW f \in Frames
  PROVE  Distance(f) \in Nat
<1>1. ASSUME NEW a \in Nat, NEW b \in Nat \ {0}
      PROVE  a \div b \in Int /\ (a \div b) * b + (a % b) = a
  BY <1>1
<1>2. ASSUME NEW a \in Int, NEW b \in Nat \ {0}
      PROVE  a % b \in Nat
  BY <1>2
<1>3. /\ f \in Nat /\ m_last_search_frame \in Nat
      /\ TotalFrames \in Nat \ {0} /\ WordBits \in Nat \ {0}
      /\ TotalFrames % WordBits = 0
  BY FramesAssumption, WordAssumption DEF Frames, PInv, TypeOK
<1>4. TotalFrames \div WordBits \in Nat \ {0}
  BY <1>1, <1>3
<1> QED
  BY <1>1, <1>2, <1>3, <1>4 DEF Distance

\* alloc_page finds a frame whenever the counter says that one is free,
\* wherever the search hint stands.
THEOREM AllocPageFinds == Spec => []AllocPageSucceeds
<1>1. ASSUME PInv PROVE AllocPageSucceeds
  <2> SUFFICES ASSUME m_free_frames > 0
               PROVE  \E f \in Frames : NextFree(f)
    BY DEF AllocPageSucceeds
  <2> DEFINE Free == Frames \ used
  <2>1. Free # {}
    BY <1>1, FS_EmptySet DEF PInv, CountersAgree
  <2>2. \A f \in Free : Distance(f) \in Nat
    BY <1>1, DistanceType
  <2>3. PICK d \in {Distance(f) : f \in Free} : \A f \in Free : d <= Distance(f)
    <3> DEFINE D == {Distance(f) : f \in Free}
    <3>1. D \in SUBSET Nat /\ D # {}
      BY <2>1, <2>2
    <3>2. \E x \in D : \A y \in D : x <= y
      BY <3>1, LeastElement
    <3> QED
      BY <3>2
  <2>4. PICK f \in {g \in Free : Distance(g) = d} :
               \A g \in {h \in Free : Distance(h) = d} : f <= g
    <3> DEFINE F == {g \in Free : Distance(g) = d}
    <3>1. F \in SUBSET Nat /\ F # {}
      BY <2>3, FramesAssumption DEF Frames
    <3> HIDE DEF F
    <3>2. \E x \in F : \A y \in F : x <= y
      BY <3>1, LeastElement
    <3> QED
      BY <3>2 DEF F
  <2>5. NextFree(f)
    BY <2>2, <2>3, <2>4 DEF NextFree
  <2> QED
    BY <2>4, <2>5
<1> QED
  BY <1>1, CountersCorrect, PTL DEF PInv

\* On a machine whose memory ends below the direct-map limit every frame that
\* is handed out is zero-initialized.
THEOREM ZeroedBelowLimit ==
  ASSUME TotalFrames < DirectLimit
  PROVE  Spec => ZeroInitialized
<1> DEFINE Clean == (used' \ used) \cap dirty' = {}
<1>2. ASSUME PInv, Next PROVE Clean
  <2>1. m_last_search_frame \in 0..TotalFrames
    BY <1>2 DEF PInv, TypeOK
  <2>2. CASE AllocPage
    <3>1. PICK f \in Frames : Take(f, 1, f < DirectLimit)
      BY <2>2 DEF AllocPage
    <3>2. f < DirectLimit
      BY FramesAssumption, LimitAssumption DEF Frames
    <3> QED
      BY <3>1, <3>2 DEF Take
  <2>3. CASE \E n \in 2..MaxCount : AllocPages(n)
    <3>1. PICK n \in 2..MaxCount, s \in Frames :
                 FirstFit(s, n) /\ Take(s, n, s + n < DirectLimit)
      BY <2>3 DEF AllocPages
    <3>2. s + n < DirectLimit
      BY <2>1, <3>1, FramesAssumption, LimitAssumption
      DEF FirstFit, Candidates, FreeRuns, Frames
    <3> QED
      BY <3>1, <3>2 DEF Take
  <2>4. CASE \/ \E f \in Frames : FreePage(f)
             \/ \E s \in Frames \ {0}, n \in 1..MaxCount : FreePages(s, n)
    BY <2>4 DEF FreePage, FreePages, Give
  <2>5. CASE \/ \E f \in Frames : WritePage(f)
             \/ \E b \in BOOLEAN : SetForceAllocFailure(b)
    BY <2>5 DEF WritePage, SetForceAllocFailure
  <2> QED
    BY <1>2, <2>2, <2>3, <2>4, <2>5 DEF Next
<1>3. PInv /\ [Next]_vars => [Clean]_vars
  BY <1>2
<1> QED
  BY <1>3, CountersCorrect, PTL DEF Spec, PInv, ZeroInitialized

==============================================================================
