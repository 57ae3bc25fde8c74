-------------------------- MODULE ReadyQueueProofs --------------------------
(***************************************************************************)
(* The ring buffer of ready_queue.hpp keeps its index invariants and       *)
(* implements the abstract FIFO, for every capacity and every set of       *)
(* threads.  IInv is the inductive invariant: types and RingInv.           *)
(***************************************************************************)
EXTENDS ReadyQueue, SequenceTheorems, TLAPS

IInv == TypeOK /\ RingInv

\* (h + k) % MAX_CAPACITY without the division.
At(h, k) == IF h + k < MAX_CAPACITY THEN h + k ELSE h + k - MAX_CAPACITY

\* The remainder of a number below twice the divisor.
LEMMA SmallMod ==
  \A n \in Nat \ {0}, x \in Nat :
    x < 2 * n => x % n = IF x < n THEN x ELSE x - n
<1> SUFFICES ASSUME NEW n \in Nat \ {0}, NEW x \in Nat, x < 2 * n
             PROVE  x % n = IF x < n THEN x ELSE x - n
  OBVIOUS
<1>1. CASE x < n
  BY <1>1
<1>2. CASE ~(x < n)
  BY <1>2
<1> QED  BY <1>1, <1>2

\* A ring position is an addition with one possible wrap.
LEMMA Wrap ==
  ASSUME NEW h \in Index, NEW k \in 0..MAX_CAPACITY
  PROVE  /\ (h + k) % MAX_CAPACITY = At(h, k)
         /\ At(h, k) \in Index
<1> DEFINE x == h + k
<1>1. x \in Nat /\ x < 2 * MAX_CAPACITY /\ MAX_CAPACITY \in Nat \ {0}
  BY CapacityAssumption DEF Index
<1>2. At(h, k) = IF x < MAX_CAPACITY THEN x ELSE x - MAX_CAPACITY
  BY CapacityAssumption DEF At, Index
<1> HIDE DEF x
<1>3. x % MAX_CAPACITY = IF x < MAX_CAPACITY THEN x ELSE x - MAX_CAPACITY
  BY <1>1, SmallMod
<1>4. At(h, k) \in Index
  BY <1>1, <1>2, CapacityAssumption DEF Index
<1> QED  BY <1>2, <1>3, <1>4 DEF x

\* Different entries have different places.
LEMMA Apart ==
  ASSUME NEW h \in Index, NEW j \in Index, NEW k \in Index, At(h, j) = At(h, k)
  PROVE  j = k
BY CapacityAssumption DEF At, Index

\* Every place is the one of some entry, counted from the head.
LEMMA Covered ==
  ASSUME NEW h \in Index, NEW i \in Index
  PROVE  \E k \in Index : At(h, k) = i
<1>1. CASE h <= i
  <2>1. i - h \in Index /\ At(h, i - h) = i
    BY <1>1, CapacityAssumption DEF At, Index
  <2> QED  BY <2>1
<1>2. CASE ~(h <= i)
  <2>1. i + MAX_CAPACITY - h \in Index /\ At(h, i + MAX_CAPACITY - h) = i
    BY <1>2, CapacityAssumption DEF At, Index
  <2> QED  BY <2>1
<1> QED  BY <1>1, <1>2

\* The invariant with the places written without division.
RingAt ==
  /\ At(m_head, m_count) = m_tail
  /\ \A k \in 0..(m_count - 1) : m_entries[At(m_head, k)] \in ready
  /\ \A k \in m_count..(MAX_CAPACITY - 1) : m_entries[At(m_head, k)] = NullThread
  /\ \A j, k \in 0..(m_count - 1) :
       m_entries[At(m_head, j)] = m_entries[At(m_head, k)] => j = k

\* RingInv, with the slots computed by one subtraction instead of a remainder.
LEMMA RingIsAt ==
  ASSUME TypeOK
  PROVE  RingInv <=> RingAt
<1>1. \A k \in 0..MAX_CAPACITY : Pos(k) = At(m_head, k)
  BY Wrap DEF TypeOK, Pos
<1>2. /\ m_count \in 0..MAX_CAPACITY
      /\ 0..(m_count - 1) \subseteq 0..MAX_CAPACITY
      /\ m_count..(MAX_CAPACITY - 1) \subseteq 0..MAX_CAPACITY
  BY CapacityAssumption DEF TypeOK
<1> HIDE DEF Pos, At
<1> QED  BY <1>1, <1>2 DEF RingInv, RingAt

\* The scan of contains() visits the occupied slots.
LEMMA ContainsAt ==
  ASSUME TypeOK, NEW t
  PROVE  Contains(t) <=> \E k \in 0..(m_count - 1) : m_entries[At(m_head, k)] = t
<1>1. \A k \in 0..(m_count - 1) : k \in 0..MAX_CAPACITY
  BY CapacityAssumption DEF TypeOK
<1>2. \A k \in 0..(m_count - 1) : Pos(k) = At(m_head, k)
  BY <1>1, Wrap DEF TypeOK, Pos
<1> QED  BY <1>2 DEF Contains

\* The ranges of offsets from the head that RingInv speaks of.
LEMMA Ranges ==
  ASSUME NEW c \in 0..MAX_CAPACITY
  PROVE  /\ \A k \in 0..(c - 1) : k \in 0..MAX_CAPACITY
         /\ \A k \in c..(MAX_CAPACITY - 1) : k \in 0..MAX_CAPACITY
BY CapacityAssumption

\* RingIsAt after a step.
LEMMA RingIsAtNext ==
  ASSUME TypeOK'
  PROVE  RingInv' <=> RingAt'
<1>1. \A k \in 0..MAX_CAPACITY : Pos(k)' = At(m_head', k)
  BY Wrap DEF TypeOK, Pos
<1>2. m_count' \in 0..MAX_CAPACITY
  BY DEF TypeOK
<1>3. /\ \A k \in 0..(m_count' - 1) : k \in 0..MAX_CAPACITY
      /\ \A k \in m_count'..(MAX_CAPACITY - 1) : k \in 0..MAX_CAPACITY
  BY <1>2, Ranges
<1> QED  BY <1>1, <1>2, <1>3 DEF RingInv, RingAt

\* One place further: what m_tail and m_head become in enqueue and dequeue.
LEMMA Step ==
  ASSUME NEW h \in Index, NEW k \in Index
  PROVE  /\ (At(h, k) + 1) % MAX_CAPACITY = At(h, k + 1)
         /\ At(h, k + 1) \in Index
<1>1. At(h, k) \in Index /\ k + 1 \in 0..MAX_CAPACITY /\ k \in 0..MAX_CAPACITY
        /\ 1 \in 0..MAX_CAPACITY
  BY CapacityAssumption, Wrap DEF Index
<1>2. (At(h, k) + 1) % MAX_CAPACITY = At(At(h, k), 1)
  BY <1>1, Wrap
<1>3. At(At(h, k), 1) = At(h, k + 1)
  BY CapacityAssumption DEF At, Index
<1> QED  BY <1>1, <1>2, <1>3, Wrap

\* dequeue moves the head by one: every offset from it shrinks by one.
LEMMA StepHead ==
  ASSUME NEW h \in Index
  PROVE  /\ (h + 1) % MAX_CAPACITY = At(h, 1)
         /\ At(h, 1) \in Index
         /\ \A k \in 0..(MAX_CAPACITY - 1) : At(At(h, 1), k) = At(h, k + 1)
         /\ At(h, MAX_CAPACITY) = h /\ At(h, 0) = h
<1>1. 1 \in 0..MAX_CAPACITY
  BY CapacityAssumption
<1>2. \A k \in 0..(MAX_CAPACITY - 1) : At(At(h, 1), k) = At(h, k + 1)
  BY CapacityAssumption DEF At, Index
<1>3. At(h, MAX_CAPACITY) = h /\ At(h, 0) = h
  BY CapacityAssumption DEF At, Index
<1> QED  BY <1>1, <1>2, <1>3, Wrap

\* What enqueue leaves: the new thread behind the others.
LEMMA EnqueueFacts ==
  ASSUME TypeOK, RingAt, NEW t, Enqueue(t), Admissible(t)
  PROVE  /\ m_count \in Index /\ t \in ready
         /\ m_head' = m_head /\ m_count' = m_count + 1 /\ ready' = ready
         /\ result' = TRUE
         /\ m_tail' = At(m_head, m_count + 1) /\ m_tail' \in Index
         /\ m_entries' = [m_entries EXCEPT ![At(m_head, m_count)] = t]
         /\ \A k \in 0..(m_count - 1) : m_entries[At(m_head, k)] # t
<1>1. m_count \in Index /\ m_head \in Index
  BY CapacityAssumption DEF Admissible, IsFull, TypeOK, Index
<1>2. \A k \in 0..(m_count - 1) : m_entries[At(m_head, k)] # t
  BY ContainsAt DEF Admissible
<1>3. m_tail = At(m_head, m_count)
  BY DEF RingAt
<1>4. m_tail' = At(m_head, m_count + 1) /\ m_tail' \in Index
  BY <1>1, <1>3, Step DEF Enqueue
<1> QED  BY <1>1, <1>2, <1>3, <1>4 DEF Enqueue, Admissible

\* enqueue, accepted or refused, keeps the ring well formed.
LEMMA EnqueueInv ==
  ASSUME TypeOK, RingAt, NEW t, Enqueue(t)
  PROVE  TypeOK' /\ RingAt'
<1>1. CASE Admissible(t)
  <2> USE <1>1
  <2>0. m_head \in Index /\ m_count \in Index /\ t \in Threads
    BY EnqueueFacts DEF TypeOK
  <2>1. TypeOK'
    <3>1. m_count + 1 \in 0..MAX_CAPACITY
      BY <2>0, CapacityAssumption DEF Index
    <3> QED  BY <2>0, <3>1, EnqueueFacts DEF TypeOK
  <2>2. \A k \in Index : k # m_count =>
           m_entries'[At(m_head, k)] = m_entries[At(m_head, k)]
    <3>1. \A k \in Index : At(m_head, k) \in Index
      BY <2>0, Wrap, CapacityAssumption DEF Index
    <3> QED  BY <2>0, <3>1, EnqueueFacts, Apart DEF TypeOK
  <2>3. m_entries'[At(m_head, m_count)] = t
    <3>1. At(m_head, m_count) \in Index
      BY <2>0, Wrap, CapacityAssumption DEF Index
    <3> QED  BY <3>1, EnqueueFacts DEF TypeOK
  <2>4. /\ \A k \in 0..m_count : k \in Index
        /\ \A k \in 0..m_count : k = m_count \/ k \in 0..(m_count - 1)
        /\ \A k \in (m_count + 1)..(MAX_CAPACITY - 1) :
             k \in Index /\ k # m_count /\ k \in m_count..(MAX_CAPACITY - 1)
        /\ 0..(m_count' - 1) = 0..m_count
        /\ \A k \in 0..(m_count - 1) : k \in Index /\ k # m_count
    <3>1. m_count' = m_count + 1
      BY EnqueueFacts
    <3> QED  BY <2>0, <3>1, CapacityAssumption DEF Index
  <2>5. \A k \in 0..(m_count' - 1) : m_entries'[At(m_head', k)] \in ready'
    BY <2>2, <2>3, <2>4, EnqueueFacts DEF RingAt
  <2>6. \A k \in m_count'..(MAX_CAPACITY - 1) : m_entries'[At(m_head', k)] = NullThread
    BY <2>2, <2>4, EnqueueFacts DEF RingAt
  <2>7. \A j, k \in 0..(m_count' - 1) :
          m_entries'[At(m_head', j)] = m_entries'[At(m_head', k)] => j = k
    <3>1. SUFFICES ASSUME NEW j \in 0..m_count, NEW k \in 0..m_count,
                          m_entries'[At(m_head, j)] = m_entries'[At(m_head, k)]
                   PROVE  j = k
      BY <2>4, EnqueueFacts
    <3>2. \A i \in 0..(m_count - 1) : /\ m_entries'[At(m_head, i)] = m_entries[At(m_head, i)]
                                      /\ m_entries[At(m_head, i)] # t
      BY <2>2, <2>4, EnqueueFacts
    <3>3. CASE j = m_count \/ k = m_count
      BY <2>3, <2>4, <3>1, <3>2, <3>3
    <3>4. CASE j # m_count /\ k # m_count
      BY <2>4, <3>1, <3>2, <3>4 DEF RingAt
    <3> QED  BY <3>3, <3>4
  <2>8. At(m_head', m_count') = m_tail'
    BY EnqueueFacts
  <2> QED  BY <2>1, <2>5, <2>6, <2>7, <2>8 DEF RingAt
<1>2. CASE ~Admissible(t)
  BY <1>2 DEF Enqueue, TypeOK, RingAt, Admissible
<1> QED  BY <1>1, <1>2

\* What dequeue leaves: entry k is what entry k + 1 was.
LEMMA DequeueFacts ==
  ASSUME TypeOK, RingAt, Dequeue, ~IsEmpty
  PROVE  /\ m_count \in 1..MAX_CAPACITY /\ m_head' = At(m_head, 1) /\ m_head' \in Index
         /\ m_count' = m_count - 1 /\ ready' = ready /\ m_tail' = m_tail
         /\ result' = m_entries[At(m_head, 0)] /\ result' \in ready
         /\ m_entries' \in [Index -> Threads \cup {NullThread}]
         /\ \A k \in 0..(MAX_CAPACITY - 2) :
              m_entries'[At(m_head', k)] = m_entries[At(m_head, k + 1)]
         /\ m_entries'[At(m_head', MAX_CAPACITY - 1)] = NullThread
<1>1. m_count \in 1..MAX_CAPACITY /\ m_head \in Index
  BY CapacityAssumption DEF IsEmpty, TypeOK
<1>2. m_head' = At(m_head, 1) /\ m_head' \in Index /\ At(m_head, 0) = m_head
  BY <1>1, StepHead DEF Dequeue
<1>3. result' = m_entries[At(m_head, 0)] /\ result' \in ready
  <2>1. 0 \in 0..(m_count - 1)
    BY <1>1, CapacityAssumption
  <2> QED  BY <1>2, <2>1 DEF Dequeue, RingAt
<1>4. m_entries' = [m_entries EXCEPT ![m_head] = NullThread]
  BY DEF Dequeue
<1>5. \A k \in 0..(MAX_CAPACITY - 2) :
        m_entries'[At(m_head', k)] = m_entries[At(m_head, k + 1)]
  <2>1. SUFFICES ASSUME NEW k \in 0..(MAX_CAPACITY - 2)
                 PROVE  m_entries'[At(m_head', k)] = m_entries[At(m_head, k + 1)]
    OBVIOUS
  <2>2. k \in 0..(MAX_CAPACITY - 1) /\ k + 1 \in Index /\ 0 \in Index /\ k + 1 # 0
          /\ k + 1 \in 0..MAX_CAPACITY
    BY CapacityAssumption DEF Index
  <2>3. At(m_head', k) = At(m_head, k + 1)
    BY <1>1, <1>2, <2>2, StepHead
  <2>4. At(m_head, k + 1) # m_head /\ At(m_head, k + 1) \in Index
    BY <1>1, <1>2, <2>2, Apart, Wrap
  <2> QED  BY <1>4, <2>3, <2>4 DEF TypeOK
<1>6. m_entries'[At(m_head', MAX_CAPACITY - 1)] = NullThread
  <2>1. MAX_CAPACITY - 1 \in 0..(MAX_CAPACITY - 1)
          /\ (MAX_CAPACITY - 1) + 1 = MAX_CAPACITY
    BY CapacityAssumption
  <2>2. At(m_head', MAX_CAPACITY - 1) = m_head
    BY <1>1, <1>2, <2>1, StepHead
  <2> QED  BY <1>1, <1>4, <2>2 DEF TypeOK
<1>7. m_entries' \in [Index -> Threads \cup {NullThread}]
  BY <1>4 DEF TypeOK
<1> QED  BY <1>1, <1>2, <1>3, <1>5, <1>6, <1>7 DEF Dequeue

\* dequeue, of an empty queue or not, keeps the ring well formed.
LEMMA DequeueInv ==
  ASSUME TypeOK, RingAt, Dequeue
  PROVE  TypeOK' /\ RingAt'
<1>1. CASE ~IsEmpty
  <2> USE <1>1
  <2>0. m_head \in Index /\ m_count \in 1..MAX_CAPACITY /\ m_count' = m_count - 1
    BY DequeueFacts DEF TypeOK
  <2>1. TypeOK'
    <3>1. m_count' \in 0..MAX_CAPACITY
      BY <2>0, CapacityAssumption
    <3> QED  BY <3>1, DequeueFacts DEF TypeOK
  <2>2. /\ \A k \in 0..(m_count' - 1) : k \in 0..(MAX_CAPACITY - 2) /\ k + 1 \in 0..(m_count - 1)
        /\ \A k \in m_count'..(MAX_CAPACITY - 1) :
             \/ k = MAX_CAPACITY - 1
             \/ k \in 0..(MAX_CAPACITY - 2) /\ k + 1 \in m_count..(MAX_CAPACITY - 1)
        /\ m_count' \in 0..(MAX_CAPACITY - 1) /\ m_count' + 1 = m_count
        /\ \A j, k \in 0..(m_count' - 1) : j + 1 = k + 1 => j = k
    BY <2>0, CapacityAssumption
  <2>3. At(m_head', m_count') = m_tail'
    BY <2>0, <2>2, StepHead, DequeueFacts DEF RingAt
  <2>4. \A k \in 0..(m_count' - 1) : m_entries'[At(m_head', k)] \in ready'
    BY <2>2, DequeueFacts DEF RingAt
  <2>5. \A k \in m_count'..(MAX_CAPACITY - 1) : m_entries'[At(m_head', k)] = NullThread
    BY <2>2, DequeueFacts DEF RingAt
  <2>6. \A j, k \in 0..(m_count' - 1) :
          m_entries'[At(m_head', j)] = m_entries'[At(m_head', k)] => j = k
    <3>1. SUFFICES ASSUME NEW j \in 0..(m_count' - 1), NEW k \in 0..(m_count' - 1),
                          m_entries'[At(m_head', j)] = m_entries'[At(m_head', k)]
                   PROVE  j = k
      OBVIOUS
    <3>2. m_entries[At(m_head, j + 1)] = m_entries[At(m_head, k + 1)]
      BY <2>2, <3>1, DequeueFacts
    <3>3. j + 1 = k + 1
      BY <2>2, <3>2 DEF RingAt
    <3> QED  BY <2>2, <3>3
  <2> QED  BY <2>1, <2>3, <2>4, <2>5, <2>6 DEF RingAt
<1>2. CASE IsEmpty
  BY <1>2 DEF Dequeue, IsEmpty, TypeOK, RingAt
<1> QED  BY <1>1, <1>2

\* What remove leaves: the entries behind the removed one are one place nearer
\* to the head, in the same order.
LEMMA ShiftFacts ==
  ASSUME TypeOK, RingAt, NEW r \in 0..(m_count - 1), ShiftDown(r)
  PROVE  /\ m_count \in 1..MAX_CAPACITY /\ m_count' = m_count - 1
         /\ m_tail' = At(m_head, m_count - 1) /\ m_tail' \in Index
         /\ m_entries' \in [Index -> Threads \cup {NullThread}]
         /\ \A k \in 0..(r - 1) : m_entries'[At(m_head, k)] = m_entries[At(m_head, k)]
         /\ \A k \in r..(m_count - 2) : m_entries'[At(m_head, k)] = m_entries[At(m_head, k + 1)]
         /\ \A k \in (m_count - 1)..(MAX_CAPACITY - 1) : m_entries'[At(m_head, k)] = NullThread
<1> DEFINE last == m_count - 1
           newTail == IF m_tail = 0 THEN MAX_CAPACITY - 1 ELSE m_tail - 1
           moved == {Pos(j) : j \in r..(m_count - 2)}
<1>1. m_count \in 1..MAX_CAPACITY /\ m_head \in Index /\ last \in Index
        /\ MAX_CAPACITY \in Nat \ {0}
  BY CapacityAssumption DEF TypeOK, Index
<1>2. newTail = At(m_head, last) /\ newTail \in Index
  BY <1>1 DEF RingAt, At, Index
<1>3. \A j \in Index : At(m_head, j) \in Index /\ Pos(j) = At(m_head, j)
  BY <1>1, Wrap DEF Pos, Index
<1>4. /\ m_tail' = newTail /\ m_count' = last
      /\ m_entries' = [i \in Index |->
                        IF i = newTail THEN NullThread
                        ELSE IF i \in moved THEN m_entries[(i + 1) % MAX_CAPACITY]
                             ELSE m_entries[i]]
  BY DEF ShiftDown
<1>5. \A k \in Index : (At(m_head, k) + 1) % MAX_CAPACITY = At(m_head, k + 1)
                         /\ At(m_head, k + 1) \in Index
  BY <1>1, Step
<1>6. \A k \in Index : At(m_head, k) = newTail <=> k = last
  BY <1>1, <1>2, Apart
<1>7. \A k \in Index : At(m_head, k) \in moved <=> k \in r..(m_count - 2)
  <2>1. \A j \in r..(m_count - 2) : j \in Index
    BY <1>1 DEF Index
  <2> QED  BY <1>1, <1>3, <2>1, Apart
<1> HIDE DEF newTail, moved
<1>8. \A k \in Index : m_entries'[At(m_head, k)] =
         IF k = last THEN NullThread
         ELSE IF k \in r..(m_count - 2) THEN m_entries[At(m_head, k + 1)]
              ELSE m_entries[At(m_head, k)]
  BY <1>3, <1>4, <1>5, <1>6, <1>7
<1>9. /\ \A k \in 0..(r - 1) : k \in Index /\ k # last /\ k \notin r..(m_count - 2)
      /\ \A k \in r..(m_count - 2) : k \in Index /\ k # last
      /\ \A k \in last..(MAX_CAPACITY - 1) :
           /\ k \in Index
           /\ k = last \/ (k \in m_count..(MAX_CAPACITY - 1) /\ k \notin r..(m_count - 2))
  BY <1>1 DEF Index
<1>10. \A k \in last..(MAX_CAPACITY - 1) : m_entries'[At(m_head, k)] = NullThread
  BY <1>8, <1>9 DEF RingAt
<1>11. m_entries' \in [Index -> Threads \cup {NullThread}]
  <2>1. \A i \in moved : (i + 1) % MAX_CAPACITY \in Index
    <3>1. \A j \in r..(m_count - 2) : j \in Index
      BY <1>1 DEF Index
    <3> QED  BY <1>3, <1>5, <3>1 DEF moved
  <2> QED  BY <1>4, <2>1 DEF TypeOK
<1> QED  BY <1>1, <1>2, <1>4, <1>8, <1>9, <1>10, <1>11

\* remove shifts the entries behind the removed one and keeps the ring well formed.
LEMMA RemoveInv ==
  ASSUME TypeOK, RingAt, NEW t, Remove(t)
  PROVE  TypeOK' /\ RingAt'
<1>1. CASE Contains(t)
  <2>1. PICK r \in 0..(m_count - 1) : ShiftDown(r)
    BY <1>1 DEF Remove
  <2>2. m_head' = m_head /\ ready' = ready /\ result' = TRUE /\ m_head \in Index
    BY <1>1 DEF Remove, TypeOK
  <2>3. m_count \in 1..MAX_CAPACITY /\ m_count' = m_count - 1
    BY <2>1, ShiftFacts
  <2>4. TypeOK'
    <3>1. m_count' \in 0..MAX_CAPACITY
      BY <2>3, CapacityAssumption
    <3> QED  BY <2>1, <2>2, <3>1, ShiftFacts DEF TypeOK
  <2> DEFINE from(k) == IF k < r THEN k ELSE k + 1
  <2>5. /\ \A k \in 0..(m_count' - 1) : /\ from(k) \in 0..(m_count - 1)
                                        /\ k \in 0..(r - 1) \/ k \in r..(m_count - 2)
        /\ \A k \in 0..(r - 1) : from(k) = k
        /\ \A k \in r..(m_count - 2) : from(k) = k + 1
        /\ \A j, k \in 0..(m_count' - 1) : from(j) = from(k) => j = k
    BY <2>3, CapacityAssumption
  <2> HIDE DEF from
  <2>6. \A k \in 0..(m_count' - 1) : m_entries'[At(m_head', k)] = m_entries[At(m_head, from(k))]
    BY <2>1, <2>2, <2>5, ShiftFacts
  <2>7. \A k \in 0..(m_count' - 1) : m_entries'[At(m_head', k)] \in ready'
    BY <2>2, <2>5, <2>6 DEF RingAt
  <2>8. \A k \in m_count'..(MAX_CAPACITY - 1) : m_entries'[At(m_head', k)] = NullThread
    BY <2>1, <2>2, <2>3, ShiftFacts
  <2>9. \A j, k \in 0..(m_count' - 1) :
          m_entries'[At(m_head', j)] = m_entries'[At(m_head', k)] => j = k
    <3>1. SUFFICES ASSUME NEW j \in 0..(m_count' - 1), NEW k \in 0..(m_count' - 1),
                          m_entries'[At(m_head', j)] = m_entries'[At(m_head', k)]
                   PROVE  j = k
      OBVIOUS
    <3>2. from(j) = from(k)
      BY <2>5, <2>6, <3>1 DEF RingAt
    <3> QED  BY <2>5, <3>2
  <2>10. At(m_head', m_count') = m_tail'
    BY <2>1, <2>2, ShiftFacts
  <2> QED  BY <2>4, <2>7, <2>8, <2>9, <2>10 DEF RingAt
<1>2. CASE ~Contains(t)
  BY <1>2 DEF Remove, TypeOK, RingAt
<1> QED  BY <1>1, <1>2

\* The queue starts empty and well formed.
LEMMA InitInv == Init => IInv
<1> SUFFICES ASSUME Init PROVE TypeOK /\ RingAt
  BY RingIsAt DEF IInv
<1>1. 0 \in Index /\ MAX_CAPACITY \in Nat \ {0} /\ At(0, 0) = 0
  BY CapacityAssumption DEF Index, At
<1>2. TypeOK
  <2>1. result \in BOOLEAN \cup Threads \cup {NullThread}
    BY Zenon DEF Init
  <2>2. m_count \in 0..MAX_CAPACITY
    BY <1>1 DEF Init
  <2> QED  BY <1>1, <2>1, <2>2 DEF Init, TypeOK
<1>3. \A k \in 0..(MAX_CAPACITY - 1) : At(0, k) \in Index
  BY <1>1 DEF At, Index
<1>4. 0..(0 - 1) = {}
  OBVIOUS
<1> QED  BY <1>1, <1>2, <1>3, <1>4 DEF Init, RingAt

\* Every operation keeps the ring well formed.
LEMMA NextInv == IInv /\ [Next]_vars => IInv'
<1> SUFFICES ASSUME TypeOK, RingAt, [Next]_vars
             PROVE  TypeOK' /\ RingAt'
  BY RingIsAt, RingIsAtNext DEF IInv
<1>1. ASSUME NEW t \in Threads \cup {NullThread}, Enqueue(t) PROVE TypeOK' /\ RingAt'
  BY <1>1, EnqueueInv
<1>2. CASE Dequeue
  BY <1>2, DequeueInv
<1>3. ASSUME NEW t \in Threads \cup {NullThread}, Remove(t) PROVE TypeOK' /\ RingAt'
  BY <1>3, RemoveInv
<1>4. CASE Clear
  <2>1. 0 \in Index /\ MAX_CAPACITY \in Nat \ {0} /\ At(0, 0) = 0 /\ 0..(0 - 1) = {}
    BY CapacityAssumption DEF Index, At
  <2>2. \A k \in 0..(MAX_CAPACITY - 1) : At(0, k) \in Index
    BY <2>1 DEF At, Index
  <2>3. TypeOK'
    BY <1>4, <2>1 DEF Clear, TypeOK
  <2> QED  BY <1>4, <2>1, <2>2, <2>3 DEF Clear, RingAt
<1>5. ASSUME NEW t \in Threads, ChangeState(t) PROVE TypeOK' /\ RingAt'
  <2>1. TypeOK'
    BY <1>5 DEF ChangeState, TypeOK
  <2>2. \A k \in 0..(m_count - 1) : m_entries[At(m_head, k)] # t
    BY <1>5, ContainsAt DEF ChangeState
  <2> QED  BY <1>5, <2>1, <2>2 DEF ChangeState, RingAt
<1>6. CASE UNCHANGED vars
  BY <1>6 DEF vars, TypeOK, RingAt
<1> QED  BY <1>1, <1>2, <1>3, <1>4, <1>5, <1>6 DEF Next

\* The ring's head, tail, count and entries agree after every sequence of calls
\* of ready_queue.hpp, what ReadyQueue::verify_invariants tests at run time.
THEOREM RingSound == Spec => []IInv
BY InitInv, NextInv, PTL DEF Spec

\* The fields of ReadyQueue keep their ranges; m_count never passes the capacity.
THEOREM TypeCorrect == Spec => []TypeOK
<1>1. IInv => TypeOK
  BY DEF IInv
<1> QED  BY <1>1, RingSound, PTL

\* The occupied places hold Ready threads, each once, and the others nothing,
\* whatever was enqueued, dequeued and removed from the middle.
THEOREM RingCorrect == Spec => []RingInv
<1>1. IInv => RingInv
  BY DEF IInv
<1> QED  BY <1>1, RingSound, PTL

------------------------------------------------------------------------------
(* The refinement: Q is the abstract queue that the ring stands for.       *)

Q == [i \in 1..m_count |-> m_entries[Pos(i - 1)]]

\* The sequence that the ring stands for.
LEMMA QueueFacts ==
  ASSUME TypeOK, RingAt
  PROVE  /\ Q = [i \in 1..m_count |-> m_entries[At(m_head, i - 1)]]
         /\ Q \in Seq(Threads) /\ Len(Q) = m_count
         /\ \A t : Contains(t) <=> t \in {Q[i] : i \in 1..Len(Q)}
<1>1. m_count \in Nat /\ m_count <= MAX_CAPACITY
        /\ \A i \in 1..m_count : i - 1 \in 0..(m_count - 1) /\ i - 1 \in 0..MAX_CAPACITY
  BY CapacityAssumption DEF TypeOK
<1>2. \A i \in 1..m_count : Pos(i - 1) = At(m_head, i - 1)
  BY <1>1, Wrap DEF Pos, TypeOK
<1>3. Q = [i \in 1..m_count |-> m_entries[At(m_head, i - 1)]]
  BY <1>2 DEF Q
<1>4. \A i \in 1..m_count : m_entries[At(m_head, i - 1)] \in Threads
  BY <1>1 DEF RingAt, TypeOK
<1>5. Q \in Seq(Threads) /\ Len(Q) = m_count
  BY <1>1, <1>3, <1>4
<1>6. ASSUME NEW t
      PROVE  Contains(t) <=> t \in {Q[i] : i \in 1..Len(Q)}
  <2>1. \A k \in 0..(m_count - 1) : k + 1 \in 1..m_count /\ (k + 1) - 1 = k
    BY <1>1
  <2>2. Contains(t) <=> \E k \in 0..(m_count - 1) : m_entries[At(m_head, k)] = t
    BY ContainsAt
  <2>3. \A i \in 1..m_count : Q[i] = m_entries[At(m_head, i - 1)]
    BY <1>3
  <2>4. (\E k \in 0..(m_count - 1) : m_entries[At(m_head, k)] = t)
           <=> \E i \in 1..m_count : Q[i] = t
    BY <1>1, <2>1, <2>3
  <2> QED  BY <1>5, <2>2, <2>4
<1> QED  BY <1>3, <1>5, <1>6

\* Append and Tail of a sequence, element by element.
LEMMA AppendAt ==
  ASSUME NEW S, NEW s \in Seq(S), NEW t \in S
  PROVE  Append(s, t) = [i \in 1..(Len(s) + 1) |-> IF i = Len(s) + 1 THEN t ELSE s[i]]
<1> DEFINE a == Append(s, t)
<1>1. /\ a \in Seq(S) /\ Len(a) = Len(s) + 1 /\ Len(s) \in Nat
      /\ \A i \in 1..Len(s) : a[i] = s[i]
      /\ a[Len(s) + 1] = t
  BY AppendProperties, LenProperties
<1> HIDE DEF a
<1>2. a = [i \in 1..Len(a) |-> a[i]]
  BY <1>1, LenProperties
<1>3. \A i \in 1..(Len(s) + 1) : a[i] = IF i = Len(s) + 1 THEN t ELSE s[i]
  BY <1>1
<1>4. a = [i \in 1..(Len(s) + 1) |-> IF i = Len(s) + 1 THEN t ELSE s[i]]
  BY <1>1, <1>2, <1>3
<1> QED  BY <1>4 DEF a

\* The tail of a sequence, place by place.
LEMMA TailAt ==
  ASSUME NEW S, NEW s \in Seq(S), s # <<>>
  PROVE  /\ Len(s) \in Nat \ {0} /\ Head(s) = s[1]
         /\ Tail(s) = [i \in 1..(Len(s) - 1) |-> s[i + 1]]
<1> DEFINE a == Tail(s)
<1>1. /\ a \in Seq(S) /\ Len(a) = Len(s) - 1
      /\ \A i \in 1..Len(a) : a[i] = s[i + 1]
  BY HeadTailProperties
<1>2. Len(s) \in Nat \ {0} /\ Head(s) = s[1]
  BY EmptySeq
<1> HIDE DEF a
<1>3. a = [i \in 1..Len(a) |-> a[i]]
  BY <1>1, LenProperties
<1>4. a = [i \in 1..(Len(s) - 1) |-> s[i + 1]]
  BY <1>1, <1>3
<1> QED  BY <1>2, <1>4 DEF a

\* The sequence that the ring stands for after a step.
LEMMA QueueNext ==
  ASSUME TypeOK', RingAt'
  PROVE  Q' = [i \in 1..m_count' |-> m_entries'[At(m_head', i - 1)]]
<1>1. m_count' \in 0..MAX_CAPACITY /\ m_head' \in Index
  BY DEF TypeOK
<1>2. \A c \in 0..MAX_CAPACITY : \A i \in 1..c : i - 1 \in 0..MAX_CAPACITY
  BY CapacityAssumption
<1>3. \A i \in 1..m_count' : (m_head' + (i - 1)) % MAX_CAPACITY = At(m_head', i - 1)
  BY <1>1, <1>2, Wrap
<1> QED  BY <1>3 DEF Q, Pos

\* enqueue appends, or refuses and changes nothing.
LEMMA EnqueueRefines ==
  ASSUME TypeOK, RingAt, NEW t, Enqueue(t)
  PROVE  Fifo!Accept(t) \/ Fifo!Reject(t)
<1>0. TypeOK' /\ RingAt'
  BY EnqueueInv
<1>1. CASE Admissible(t)
  <2>1. t \in ready \ {Q[i] : i \in 1..Len(Q)} /\ Len(Q) < MAX_CAPACITY
    <3>1. m_count < MAX_CAPACITY
      BY <1>1, CapacityAssumption DEF Admissible, IsFull, TypeOK
    <3> QED  BY <1>1, <3>1, QueueFacts DEF Admissible
  <2>2. /\ m_count' = m_count + 1 /\ m_head' = m_head
        /\ m_entries' = [m_entries EXCEPT ![At(m_head, m_count)] = t]
        /\ m_count \in Index /\ m_head \in Index
    BY <1>1, EnqueueFacts DEF TypeOK
  <2>3. \A i \in 1..(m_count + 1) :
          m_entries'[At(m_head, i - 1)] =
            IF i = m_count + 1 THEN t ELSE m_entries[At(m_head, i - 1)]
    <3>1. SUFFICES ASSUME NEW i \in 1..(m_count + 1)
                   PROVE  m_entries'[At(m_head, i - 1)] =
                            IF i = m_count + 1 THEN t ELSE m_entries[At(m_head, i - 1)]
      OBVIOUS
    <3>2. i - 1 \in Index /\ (i - 1 = m_count <=> i = m_count + 1)
      BY <2>2, CapacityAssumption DEF Index
    <3>3. At(m_head, i - 1) \in Index
      BY <2>2, <3>2, Wrap, CapacityAssumption DEF Index
    <3>4. At(m_head, i - 1) = At(m_head, m_count) <=> i = m_count + 1
      BY <2>2, <3>2, Apart
    <3>5. CASE i = m_count + 1
      BY <2>2, <3>3, <3>4, <3>5 DEF TypeOK
    <3>6. CASE i # m_count + 1
      BY <2>2, <3>3, <3>4, <3>6 DEF TypeOK
    <3> QED  BY <3>5, <3>6
  <2>4. Q' = [i \in 1..(m_count + 1) |->
                IF i = m_count + 1 THEN t ELSE m_entries[At(m_head, i - 1)]]
    BY <1>0, <2>2, <2>3, QueueNext
  <2>5. Append(Q, t) = [i \in 1..(m_count + 1) |->
                          IF i = m_count + 1 THEN t ELSE m_entries[At(m_head, i - 1)]]
    <3>1. m_count \in Nat /\ t \in Threads
      BY <2>1, CapacityAssumption DEF TypeOK
    <3>2. Append(Q, t) = [i \in 1..(m_count + 1) |-> IF i = m_count + 1 THEN t ELSE Q[i]]
      <4>1. Q \in Seq(Threads) /\ Len(Q) = m_count
        BY QueueFacts
      <4>2. Append(Q, t) = [i \in 1..(Len(Q) + 1) |-> IF i = Len(Q) + 1 THEN t ELSE Q[i]]
        BY <3>1, <4>1, AppendAt
      <4> QED  BY <4>1, <4>2
    <3>3. \A i \in 1..(m_count + 1) : i # m_count + 1 => i \in 1..m_count
      BY <3>1
    <3>4. \A i \in 1..m_count : Q[i] = m_entries[At(m_head, i - 1)]
      BY QueueFacts
    <3> QED  BY <3>2, <3>3, <3>4
  <2> QED  BY <1>1, <2>1, <2>4, <2>5 DEF Fifo!Accept, Fifo!Elements, Q, Enqueue
<1>2. CASE ~Admissible(t)
  <2>1. t \notin ready \/ t \in {Q[i] : i \in 1..Len(Q)} \/ Len(Q) = MAX_CAPACITY
    <3>1. IsFull => m_count = MAX_CAPACITY
      BY CapacityAssumption DEF IsFull, TypeOK
    <3> QED  BY <1>2, <3>1, QueueFacts DEF Admissible
  <2>2. Q' = Q /\ ready' = ready /\ result' = FALSE
    BY <1>2 DEF Enqueue, Q, Pos
  <2> QED  BY <2>1, <2>2 DEF Fifo!Reject, Fifo!Elements, Q
<1> QED  BY <1>1, <1>2

\* dequeue takes the oldest thread, or finds none.
LEMMA DequeueRefines ==
  ASSUME TypeOK, RingAt, Dequeue
  PROVE  Fifo!TakeOldest \/ Fifo!FindEmpty
<1>0. TypeOK' /\ RingAt'
  BY DequeueInv
<1>1. CASE ~IsEmpty
  <2>1. m_count \in 1..MAX_CAPACITY /\ m_count' = m_count - 1 /\ ready' = ready
          /\ result' = m_entries[At(m_head, 0)]
    BY <1>1, DequeueFacts
  <2>2. m_count \in Nat \ {0} /\ 1 \in 1..m_count /\ 1 - 1 = 0
    BY <2>1, CapacityAssumption
  <2>3. Q \in Seq(Threads) /\ Len(Q) = m_count
          /\ \A i \in 1..m_count : Q[i] = m_entries[At(m_head, i - 1)]
    BY QueueFacts
  <2>4. Q # <<>>
    BY <2>2, <2>3, EmptySeq
  <2>5. Head(Q) = m_entries[At(m_head, 0)]
          /\ Tail(Q) = [i \in 1..(m_count - 1) |-> Q[i + 1]]
    BY <2>2, <2>3, <2>4, TailAt
  <2>6. \A i \in 1..(m_count - 1) : m_entries'[At(m_head', i - 1)] = Q[i + 1]
    <3>1. SUFFICES ASSUME NEW i \in 1..(m_count - 1)
                   PROVE  m_entries'[At(m_head', i - 1)] = Q[i + 1]
      OBVIOUS
    <3>2. i - 1 \in 0..(MAX_CAPACITY - 2) /\ i + 1 \in 1..m_count
            /\ (i - 1) + 1 = i /\ (i + 1) - 1 = i
      BY <2>1, CapacityAssumption
    <3>3. m_entries'[At(m_head', i - 1)] = m_entries[At(m_head, i)]
      BY <1>1, <3>2, DequeueFacts
    <3> QED  BY <2>3, <3>2, <3>3
  <2>7. Q' = Tail(Q)
    BY <1>0, <2>1, <2>5, <2>6, QueueNext
  <2> QED  BY <2>1, <2>4, <2>5, <2>7 DEF Fifo!TakeOldest, Q
<1>2. CASE IsEmpty
  <2>1. Q = <<>>
    <3>1. Q \in Seq(Threads) /\ Len(Q) = 0
      BY <1>2, QueueFacts DEF IsEmpty
    <3> QED  BY <3>1
  <2>2. Q' = Q /\ ready' = ready /\ result' = NullThread
    <3>1. m_entries' = m_entries /\ m_head' = m_head /\ m_count' = m_count
      BY <1>2 DEF Dequeue
    <3> QED  BY <1>2, <3>1 DEF Dequeue, Q, Pos
  <2> QED  BY <2>1, <2>2 DEF Fifo!FindEmpty, Q
<1> QED  BY <1>1, <1>2

\* remove takes the thread out, wherever it stands, and keeps the order.
LEMMA RemoveRefines ==
  ASSUME TypeOK, RingAt, NEW t, Remove(t)
  PROVE  Fifo!Withdraw(t) \/ Fifo!MissWithdraw(t)
<1>0. TypeOK' /\ RingAt'
  BY RemoveInv
<1>1. CASE Contains(t)
  <2>1. PICK r \in 0..(m_count - 1) : m_entries[Pos(r)] = t /\ ShiftDown(r)
    BY <1>1 DEF Remove
  <2>2. m_head' = m_head /\ ready' = ready /\ result' = TRUE
    BY <1>1 DEF Remove
  <2>3. m_count \in 1..MAX_CAPACITY /\ m_count' = m_count - 1
    BY <2>1, ShiftFacts
  <2>4. Len(Q) = m_count /\ \A i \in 1..m_count : Q[i] = m_entries[At(m_head, i - 1)]
    BY QueueFacts
  <2>5. r + 1 \in 1..m_count /\ (r + 1) - 1 = r
    BY <2>3, CapacityAssumption
  <2>6. Q[r + 1] = t
    BY <2>1, <2>5 DEF Q
  <2>7. \A j \in 1..(m_count - 1) :
          m_entries'[At(m_head, j - 1)] = IF j < r + 1 THEN Q[j] ELSE Q[j + 1]
    <3>1. SUFFICES ASSUME NEW j \in 1..(m_count - 1)
                   PROVE  m_entries'[At(m_head, j - 1)] =
                            IF j < r + 1 THEN Q[j] ELSE Q[j + 1]
      OBVIOUS
    <3>2. j \in 1..m_count /\ j + 1 \in 1..m_count /\ (j - 1) + 1 = j /\ (j + 1) - 1 = j
      BY <2>3, CapacityAssumption
    <3>3. CASE j < r + 1
      <4>1. j - 1 \in 0..(r - 1)
        BY <3>3
      <4>2. m_entries'[At(m_head, j - 1)] = m_entries[At(m_head, j - 1)]
        BY <2>1, <4>1, ShiftFacts
      <4> QED  BY <2>4, <3>2, <3>3, <4>2
    <3>4. CASE ~(j < r + 1)
      <4>1. j - 1 \in r..(m_count - 2)
        BY <2>3, <3>4, CapacityAssumption
      <4>2. m_entries'[At(m_head, j - 1)] = m_entries[At(m_head, j)]
        BY <2>1, <3>2, <4>1, ShiftFacts
      <4> QED  BY <2>4, <3>2, <3>4, <4>2
    <3> QED  BY <3>3, <3>4
  <2>8. Q' = [j \in 1..(m_count - 1) |-> IF j < r + 1 THEN Q[j] ELSE Q[j + 1]]
    BY <1>0, <2>2, <2>3, <2>7, QueueNext
  <2>9. \E i \in 1..Len(Q) :
          /\ Q[i] = t
          /\ Q' = [j \in 1..(Len(Q) - 1) |-> IF j < i THEN Q[j] ELSE Q[j + 1]]
    BY <2>4, <2>5, <2>6, <2>8
  <2> QED  BY <2>2, <2>9 DEF Fifo!Withdraw, Q
<1>2. CASE ~Contains(t)
  <2>1. t \notin {Q[i] : i \in 1..Len(Q)}
    BY <1>2, QueueFacts
  <2>2. Q' = Q /\ ready' = ready /\ result' = FALSE
    BY <1>2 DEF Remove, Q, Pos
  <2> QED  BY <2>1, <2>2 DEF Fifo!MissWithdraw, Fifo!Elements, Q
<1> QED  BY <1>1, <1>2

\* Every operation on the ring is the operation of the abstract queue.
LEMMA NextRefines == IInv /\ [Next]_vars => [Fifo!Next]_(Fifo!vars)
<1> SUFFICES ASSUME TypeOK, RingAt, [Next]_vars PROVE [Fifo!Next]_(Fifo!vars)
  BY RingIsAt DEF IInv
<1>1. ASSUME NEW t \in Threads \cup {NullThread}, Enqueue(t) PROVE Fifo!Next
  BY <1>1, EnqueueRefines DEF Fifo!Next
<1>2. CASE Dequeue
  BY <1>2, DequeueRefines DEF Fifo!Next
<1>3. ASSUME NEW t \in Threads \cup {NullThread}, Remove(t) PROVE Fifo!Next
  BY <1>3, RemoveRefines DEF Fifo!Next
<1>4. CASE Clear
  <2>1. m_count' = 0 /\ 1..0 = {}
    BY <1>4 DEF Clear
  <2>2. Q' = <<>>
    BY <2>1 DEF Q
  <2>3. Fifo!Empty
    BY <1>4, <2>2 DEF Clear, Fifo!Empty, Q
  <2> QED  BY <2>3 DEF Fifo!Next
<1>5. ASSUME NEW t \in Threads, ChangeState(t) PROVE Fifo!Next
  <2>1. t \notin {Q[i] : i \in 1..Len(Q)}
    BY <1>5, QueueFacts DEF ChangeState
  <2>2. Q' = Q
    BY <1>5 DEF ChangeState, Q, Pos
  <2>3. Fifo!ChangeState(t)
    BY <1>5, <2>1, <2>2 DEF ChangeState, Fifo!ChangeState, Fifo!Elements, Q
  <2> QED  BY <2>3 DEF Fifo!Next
<1>6. CASE UNCHANGED vars
  BY <1>6 DEF vars, Fifo!vars, Pos
<1> QED  BY <1>1, <1>2, <1>3, <1>4, <1>5, <1>6 DEF Next

\* ready_queue.hpp is the bounded FIFO without duplicates that its comment
\* (lines 12-17) promises: every call returns what FifoQueue's returns and keeps
\* the oldest-first order, for every capacity and every set of threads.
THEOREM Refinement == Spec => ImplementsFifo
<1>1. Init => Fifo!Init
  <2> SUFFICES ASSUME Init PROVE Fifo!Init
    OBVIOUS
  <2>1. [i \in 1..m_count |-> m_entries[Pos(i - 1)]] = <<>>
    BY DEF Init
  <2> QED  BY <2>1 DEF Init, Fifo!Init
<1> QED  BY <1>1, NextRefines, RingSound, PTL DEF Spec, ImplementsFifo, Fifo!Spec

==============================================================================
