----------------------------- MODULE ReadyQueue ------------------------------
(***************************************************************************)
(* The scheduler's ready queue, src/kernel/threading/ready_queue.hpp: a    *)
(* ring of MAX_CAPACITY entries with a head, a tail and a count.           *)
(*                                                                         *)
(* Every operation runs with interrupts disabled on the only CPU, so each  *)
(* is one step.  The state field of the TCBs is the environment's: only    *)
(* "is it Ready" matters to the queue, and the scheduler changes it only   *)
(* for a thread that is not queued (it dequeues or removes first).         *)
(***************************************************************************)
EXTENDS Integers

CONSTANTS
  Threads,        \* the thread control blocks
  MAX_CAPACITY,   \* entries of the ring
  NullThread      \* nullptr

ASSUME CapacityAssumption == MAX_CAPACITY \in Nat \ {0}
ASSUME NullAssumption == NullThread \notin Threads

VARIABLES
  m_entries,      \* the ring
  m_head, m_tail, m_count,
  ready,          \* threads whose state is ThreadState::Ready
  result          \* return value of the last call

vars == <<m_entries, m_head, m_tail, m_count, ready, result>>

Index == 0..(MAX_CAPACITY - 1)

Init ==
  /\ m_entries = [i \in Index |-> NullThread]
  /\ m_head = 0
  /\ m_tail = 0
  /\ m_count = 0
  /\ ready = {}
  /\ result = FALSE

\* The ring position of the k-th oldest entry, k counted from 0.
Pos(k) == (m_head + k) % MAX_CAPACITY

IsEmpty == m_count = 0
IsFull == m_count >= MAX_CAPACITY

Contains(t) == \E k \in 0..(m_count - 1) : m_entries[Pos(k)] = t

\* Mutants: one of the checks of enqueue is missing.
NoFullCheck(t) == t \in ready /\ ~Contains(t)
NoDuplicateCheck(t) == t \in ready /\ ~IsFull

Admissible(t) == t \in ready /\ ~IsFull /\ ~Contains(t)

Enqueue(t) ==
  /\ result' = Admissible(t)
  /\ IF Admissible(t)
     THEN /\ m_entries' = [m_entries EXCEPT ![m_tail] = t]
          /\ m_tail' = (m_tail + 1) % MAX_CAPACITY
          /\ m_count' = m_count + 1
     ELSE UNCHANGED <<m_entries, m_tail, m_count>>
  /\ UNCHANGED <<m_head, ready>>

Dequeue ==
  /\ IF IsEmpty
     THEN /\ result' = NullThread
          /\ UNCHANGED <<m_entries, m_head, m_count>>
     ELSE /\ result' = m_entries[m_head]
          /\ m_entries' = [m_entries EXCEPT ![m_head] = NullThread]
          /\ m_head' = (m_head + 1) % MAX_CAPACITY
          /\ m_count' = m_count - 1
  /\ UNCHANGED <<m_tail, ready>>

\* Mutant: the last queued thread takes the place of the removed one.
SwapWithLast(k) ==
  LET newTail == IF m_tail = 0 THEN MAX_CAPACITY - 1 ELSE m_tail - 1
  IN /\ m_entries' = [m_entries EXCEPT ![Pos(k)] = m_entries[newTail],
                                       ![newTail] = NullThread]
     /\ m_tail' = newTail
     /\ m_count' = m_count - 1

\* The entries from position k on move one place towards the head, and the
\* place the tail steps back to is cleared.
ShiftDown(k) ==
  LET newTail == IF m_tail = 0 THEN MAX_CAPACITY - 1 ELSE m_tail - 1
      moved == {Pos(j) : j \in k..(m_count - 2)}
  IN /\ m_entries' = [i \in Index |->
                        IF i = newTail THEN NullThread
                        ELSE IF i \in moved
                             THEN m_entries[(i + 1) % MAX_CAPACITY]
                             ELSE m_entries[i]]
     /\ m_tail' = newTail
     /\ m_count' = m_count - 1

Remove(t) ==
  /\ IF Contains(t)
     THEN /\ \E k \in 0..(m_count - 1) :
               /\ m_entries[Pos(k)] = t
               /\ \A j \in 0..(k - 1) : m_entries[Pos(j)] # t
               /\ ShiftDown(k)
          /\ result' = TRUE
     ELSE /\ result' = FALSE
          /\ UNCHANGED <<m_entries, m_tail, m_count>>
  /\ UNCHANGED <<m_head, ready>>

Clear ==
  /\ m_entries' = [i \in Index |-> NullThread]
  /\ m_head' = 0
  /\ m_tail' = 0
  /\ m_count' = 0
  /\ UNCHANGED <<ready, result>>

\* The scheduler writes thread->state.
ChangeState(t) ==
  /\ ~Contains(t)
  /\ ready' = IF t \in ready THEN ready \ {t} ELSE ready \cup {t}
  /\ UNCHANGED <<m_entries, m_head, m_tail, m_count, result>>

Next ==
  \/ \E t \in Threads \cup {NullThread} : Enqueue(t)
  \/ Dequeue
  \/ \E t \in Threads \cup {NullThread} : Remove(t)
  \/ Clear
  \/ \E t \in Threads : ChangeState(t)

Spec == Init /\ [][Next]_vars

------------------------------------------------------------------------------

\* The ring's fields keep their ranges whatever is enqueued, dequeued and
\* removed; m_count never exceeds the capacity.
TypeOK ==
  /\ m_entries \in [Index -> Threads \cup {NullThread}]
  /\ m_head \in Index
  /\ m_tail \in Index
  /\ m_count \in 0..MAX_CAPACITY
  /\ ready \subseteq Threads
  /\ result \in BOOLEAN \cup Threads \cup {NullThread}

\* ReadyQueue::verify_invariants: head, count and tail agree, the occupied
\* places are exactly the m_count places from the head on, they hold Ready
\* threads, and no thread is there twice.
RingInv ==
  /\ Pos(m_count) = m_tail
  /\ \A k \in 0..(m_count - 1) : m_entries[Pos(k)] \in ready
  /\ \A k \in m_count..(MAX_CAPACITY - 1) : m_entries[Pos(k)] = NullThread
  /\ \A j, k \in 0..(m_count - 1) :
       m_entries[Pos(j)] = m_entries[Pos(k)] => j = k

\* The ring is the FIFO: each of its operations returns what FifoQueue's
\* returns and keeps the oldest-first order, wrap-around and removal from the
\* middle included (the five queue invariants of ready_queue.hpp:12-17).
Fifo == INSTANCE FifoQueue WITH
          queue <- [i \in 1..m_count |-> m_entries[Pos(i - 1)]]

ImplementsFifo == Fifo!Spec

==============================================================================
