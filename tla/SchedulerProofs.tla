--------------------------- MODULE SchedulerProofs ---------------------------
(***************************************************************************)
(* The safety properties of Scheduler for every number of threads, stack   *)
(* slots and timeslice, provided that fewer timer interrupts than a        *)
(* timeslice hit one switch window.                                        *)
(***************************************************************************)
EXTENDS Scheduler, FiniteSetTheorems, TLAPS

Inj(q) == \A i, j \in 1..Len(q) : q[i] = q[j] => i = j
Elems(q) == {q[i] : i \in 1..Len(q)}

\* What the listed invariants need to be inductive: the system threads never
\* terminate, and inside the switch window the new thread has consumed at most
\* the ticks of the window and nothing waits for an idle thread.
Aux ==
  /\ state[Bootstrap] # "Terminated"
  /\ state[Idle] \in {"Idle", "Running"}
  /\ ~window => wticks = 0
  /\ window => ticks[current] <= wticks
  /\ window /\ current = Idle => queue = <<>>

IInv ==
  /\ TypeOK
  /\ OneRunning
  /\ ReadyIffQueued
  /\ StackOwnership
  /\ RunsOnLiveStack
  /\ ContextsSound
  /\ Aux

------------------------------------------------------------------------------
(* Lemmas about the ready queue *)

\* A queue without duplicates has room for each of the other threads: the
\* enqueue whose result schedule() ignores has a place.
LEMMA ShortQueue ==
  ASSUME NEW q \in Seq(Threads), Inj(q)
  PROVE  Len(q) <= MAX_THREADS
<1>1. q \in [1..Len(q) -> Threads] /\ Len(q) \in Nat
  OBVIOUS
<1>2. IsFiniteSet(Threads) /\ Cardinality(Threads) = MAX_THREADS
  BY FS_Interval, PoolAssumption DEF Threads
<1>3. ASSUME NEW n \in Nat
      PROVE  IsFiniteSet(1..n) /\ Cardinality(1..n) = n
  BY FS_Interval
<1>4. ~ (Cardinality(Threads) < Cardinality(1..Len(q)))
  BY <1>1, <1>2, <1>3, FS_PigeonHole DEF Inj
<1> QED
  BY <1>1, <1>2, <1>3, <1>4, PoolAssumption

\* Enqueue of a thread that is not queued appends it.
LEMMA EnqueueNew ==
  ASSUME NEW q \in Seq(Threads), Inj(q), NEW t \in Threads, t \notin Elems(q)
  PROVE  /\ Enqueue(q, t) = Append(q, t)
         /\ Enqueue(q, t) # q
         /\ Enqueue(q, t) \in Seq(Threads)
         /\ Inj(Enqueue(q, t))
         /\ Elems(Enqueue(q, t)) = Elems(q) \cup {t}
<1> DEFINE a == Append(q, t)
<1>1. /\ a \in Seq(Threads)
      /\ Len(a) = Len(q) + 1
      /\ \A i \in 1..Len(q) : a[i] = q[i]
      /\ a[Len(q) + 1] = t
      /\ Len(q) \in Nat
  OBVIOUS
<1>2. Inj(a)
  BY <1>1 DEF Inj, Elems
<1>3. Len(a) <= MAX_THREADS
  BY <1>1, <1>2, ShortQueue
<1>4. Enqueue(q, t) = a
  BY <1>1, <1>3, PoolAssumption, QueueAssumption DEF Enqueue, Elems
<1>5. Elems(a) = Elems(q) \cup {t}
  BY <1>1 DEF Elems
<1> QED
  BY <1>1, <1>2, <1>4, <1>5

\* dequeue takes the head out and leaves the rest in order.
LEMMA TailRest ==
  ASSUME NEW q \in Seq(Threads), Inj(q), q # <<>>
  PROVE  /\ Head(q) \in Threads
         /\ Head(q) \in Elems(q)
         /\ Tail(q) \in Seq(Threads)
         /\ Inj(Tail(q))
         /\ Elems(Tail(q)) = Elems(q) \ {Head(q)}
<1>1. /\ Head(q) = q[1]
      /\ Head(q) \in Threads
      /\ Tail(q) \in Seq(Threads)
      /\ Len(q) \in Nat \ {0}
      /\ Len(Tail(q)) = Len(q) - 1
      /\ \A i \in 1..Len(Tail(q)) : Tail(q)[i] = q[i + 1]
  OBVIOUS
<1>2. Inj(Tail(q))
  BY <1>1 DEF Inj
<1>3. Elems(Tail(q)) \subseteq Elems(q) \ {Head(q)}
  BY <1>1 DEF Elems, Inj
<1>4. ASSUME NEW i \in 1..Len(q), q[i] # Head(q)
      PROVE  q[i] \in Elems(Tail(q))
  <2>1. i - 1 \in 1..Len(Tail(q)) /\ Tail(q)[i - 1] = q[i]
    BY <1>1, <1>4
  <2> QED
    BY <2>1 DEF Elems
<1>5. Elems(q) \ {Head(q)} \subseteq Elems(Tail(q))
  BY <1>4 DEF Elems
<1>6. Head(q) \in Elems(q)
  BY <1>1 DEF Elems
<1> QED
  BY <1>1, <1>2, <1>3, <1>5, <1>6

\* remove takes one thread out and leaves the rest in order.
LEMMA RemoveRest ==
  ASSUME NEW q \in Seq(Threads), Inj(q), NEW i \in 1..Len(q)
  PROVE  /\ RemoveAt(q, i) \in Seq(Threads)
         /\ Inj(RemoveAt(q, i))
         /\ Elems(RemoveAt(q, i)) = Elems(q) \ {q[i]}
<1> DEFINE r == RemoveAt(q, i)
<1>1. /\ Len(q) \in Nat \ {0}
      /\ \A j \in 1..Len(q) : q[j] \in Threads
  OBVIOUS
<1>2. /\ r \in Seq(Threads)
      /\ Len(r) = Len(q) - 1
      /\ \A j \in 1..Len(r) : r[j] = IF j < i THEN q[j] ELSE q[j + 1]
  BY <1>1 DEF RemoveAt
<1> HIDE DEF r
<1>3. Inj(r)
  BY <1>1, <1>2 DEF Inj
<1>4. Elems(r) \subseteq Elems(q) \ {q[i]}
  BY <1>1, <1>2 DEF Elems, Inj
<1>5. ASSUME NEW j \in 1..Len(q), q[j] # q[i]
      PROVE  q[j] \in Elems(r)
  <2>1. CASE j < i
    BY <1>1, <1>2, <2>1 DEF Elems
  <2>2. CASE j > i
    <3>1. j - 1 \in 1..Len(r) /\ r[j - 1] = q[j]
      BY <1>1, <1>2, <2>2
    <3> QED
      BY <3>1 DEF Elems
  <2> QED
    BY <1>5, <2>1, <2>2
<1> QED
  BY <1>2, <1>3, <1>4, <1>5 DEF Elems, r

------------------------------------------------------------------------------
(* Lemmas about the steps that schedule() and exit() share *)

\* The thread that dequeue (or the fall-back to idle) selects is active and
\* runnable, and the rest of the queue holds the other Ready threads.
LEMMA NextFacts ==
  ASSUME IInv
  PROVE  /\ NextThread \in Threads
         /\ NextThread \in active
         /\ NextThread = Idle \/ state[NextThread] = "Ready"
         /\ NextThread = Idle => queue = <<>>
         /\ QueueRest \in Seq(Threads)
         /\ Inj(QueueRest)
         /\ Elems(QueueRest) = {t \in active : state[t] = "Ready"} \ {NextThread}
<1>1. /\ queue \in Seq(Threads)
      /\ Inj(queue)
      /\ Elems(queue) = {t \in active : state[t] = "Ready"}
      /\ Idle \notin Elems(queue)
      /\ Idle \in active
      /\ active \subseteq Threads
  BY DEF IInv, TypeOK, ReadyIffQueued, OneRunning, Queued, Elems, Inj
<1>2. CASE queue = <<>>
  <2>1. NextThread = Idle /\ QueueRest = <<>>
    BY <1>2 DEF NextThread, QueueRest
  <2>2. Elems(<<>>) = {} /\ Inj(<<>>) /\ <<>> \in Seq(Threads)
    BY DEF Elems, Inj
  <2> QED
    BY <1>1, <1>2, <2>1, <2>2
<1>3. CASE queue # <<>>
  <2>1. NextThread = Head(queue) /\ QueueRest = Tail(queue)
    BY <1>3 DEF NextThread, QueueRest
  <2> QED
    BY <1>1, <1>3, <2>1, TailRest
<1> QED
  BY <1>2, <1>3

\* Reclamation keeps the current thread and both system threads, and the
\* slots in use stay those of the active threads.
LEMMA ReclaimFacts ==
  ASSUME IInv, NEW st \in [Threads -> ThreadState],
         st[Bootstrap] # "Terminated", st[Idle] # "Terminated", Reclaim(st)
  PROVE  /\ active' \subseteq active
         /\ {Bootstrap, Idle, current} \subseteq active'
         /\ \A t \in active : t \in active' \/ (st[t] = "Terminated" /\ t # current)
         /\ \A t \in active' : st[t] # "Terminated" \/ t = current
         /\ \A t \in active' : slot'[t] = slot[t]
         /\ slot' \in [Threads -> Slots \cup {NoSlot}]
         /\ slots_in_use' \subseteq Slots
         /\ stats' \in [total : Nat, active : Int, terminated : Nat]
         /\ StackOwnership'
<1> DEFINE Z == Zombies(st)
<1>1. /\ slots_in_use' = slots_in_use \ {slot[t] : t \in Z}
      /\ slot' = [t \in Threads |-> IF t \in Z THEN NoSlot ELSE slot[t]]
      /\ active' = active \ Z
      /\ stats' = [stats EXCEPT !.terminated = @ + Cardinality(Z),
                                !.active = @ - Cardinality(Z)]
  BY DEF Reclaim
<1>2. /\ Z \subseteq active
      /\ \A t \in Z : st[t] = "Terminated" /\ t # current
      /\ \A t \in active : t \in Z \/ st[t] # "Terminated" \/ t = current \/ slot[t] = NoSlot
  BY DEF Zombies
<1> HIDE DEF Z
<1>3. /\ active \subseteq Threads
      /\ slot \in [Threads -> Slots \cup {NoSlot}]
      /\ slots_in_use \subseteq Slots
      /\ stats \in [total : Nat, active : Int, terminated : Nat]
      /\ {Bootstrap, Idle, current} \subseteq active
      /\ slots_in_use = {slot[t] : t \in active \ {Bootstrap}}
      /\ \A t, u \in active \ {Bootstrap} : slot[t] = slot[u] => t = u
  BY DEF IInv, TypeOK, OneRunning, StackOwnership
<1>4. NoSlot \notin Slots
  BY SlotAssumption DEF NoSlot, Slots
<1>5. \A t \in active \ {Bootstrap} : slot[t] # NoSlot
  BY <1>3, <1>4
<1>6. Cardinality(Z) \in Nat
  <2>1. IsFiniteSet(Threads)
    BY FS_Interval, PoolAssumption DEF Threads
  <2>2. Z \in SUBSET Threads
    BY <1>2, <1>3
  <2> QED
    BY <2>1, <2>2, FS_Subset, FS_CardinalityType
<1>7. stats' \in [total : Nat, active : Int, terminated : Nat]
  <2>1. ASSUME NEW c \in Nat
        PROVE  [stats EXCEPT !.terminated = @ + c, !.active = @ - c]
                 \in [total : Nat, active : Int, terminated : Nat]
    <3>1. stats.terminated + c \in Nat /\ stats.active - c \in Int
      BY <1>3
    <3>2. ASSUME NEW m \in Nat, NEW n \in Int
          PROVE  [stats EXCEPT !.terminated = m, !.active = n]
                   \in [total : Nat, active : Int, terminated : Nat]
      BY <1>3
    <3> QED
      BY <3>1, <3>2
  <2> QED
    BY <1>1, <1>6, <2>1
<1>8. Bootstrap \notin Z /\ Idle \notin Z /\ current \notin Z
  BY <1>2
<1>9. slots_in_use' = {slot'[t] : t \in active' \ {Bootstrap}}
  BY <1>1, <1>2, <1>3, <1>8
<1>10. \A t, u \in active' \ {Bootstrap} : slot'[t] = slot'[u] => t = u
  BY <1>1, <1>3
<1>11. StackOwnership'
  BY <1>9, <1>10 DEF StackOwnership
<1>12. slot' \in [Threads -> Slots \cup {NoSlot}] /\ slots_in_use' \subseteq Slots
  BY <1>1, <1>3
<1> QED
  BY <1>1, <1>2, <1>3, <1>5, <1>7, <1>8, <1>11, <1>12

\* A switch away from the current thread, which is left in state x and is
\* queued if that is Ready, keeps the invariant.
LEMMA SwitchInv ==
  ASSUME IInv, ~window, wticks' = 0, running' \in BOOLEAN,
         NEW st \in [Threads -> ThreadState],
         \A t \in Threads \ {current} : st[t] = state[t],
         NEW x \in ThreadState \ {"Running"},
         x = "Terminated" \/ st[current] # "Terminated",
         current \in {Bootstrap, Idle} => x # "Terminated",
         current = Idle => x = "Idle",
         queue = <<>> => x # "Ready",
         NEW tk \in [Threads -> 0..TIMESLICE],
         NextThread # current,
         state' = [st EXCEPT ![current] = x, ![NextThread] = "Running"],
         queue' = IF x = "Ready" THEN Enqueue(QueueRest, current) ELSE QueueRest,
         Reclaim(st),
         SwitchTo(NextThread, tk)
  PROVE  IInv'
<1> DEFINE next == NextThread
<1>1. /\ state \in [Threads -> ThreadState]
      /\ active \subseteq Threads
      /\ ctx \in [Threads -> [stack : Threads, ifl : BOOLEAN]]
      /\ current \in Threads
      /\ cpu \in Threads
      /\ {Bootstrap, Idle, current} \subseteq active
      /\ {t \in active : state[t] = "Running"} = {current}
      /\ cpu = current
      /\ cpu # Bootstrap => slot[cpu] \in slots_in_use
      /\ state[current] = "Running"
      /\ state[Bootstrap] # "Terminated"
      /\ state[Idle] \in {"Idle", "Running"}
      /\ \A t \in active : t # current /\ state[t] # "Terminated" => ctx[t].stack = t
  BY DEF IInv, TypeOK, OneRunning, RunsOnLiveStack, ContextsSound, Aux
<1>2. /\ next \in Threads
      /\ next \in active
      /\ next = Idle \/ state[next] = "Ready"
      /\ next = Idle => queue = <<>>
      /\ QueueRest \in Seq(Threads)
      /\ Inj(QueueRest)
      /\ Elems(QueueRest) = {t \in active : state[t] = "Ready"} \ {next}
  BY NextFacts
<1> HIDE DEF next
<1>3. /\ Bootstrap \in Threads /\ Idle \in Threads /\ Bootstrap # Idle
      /\ next # current
      /\ state' = [st EXCEPT ![current] = x, ![next] = "Running"]
      /\ st[Bootstrap] # "Terminated"
      /\ st[Idle] # "Terminated"
  <2>1. Bootstrap \in Threads /\ Idle \in Threads /\ Bootstrap # Idle
    BY PoolAssumption DEF Threads, Bootstrap, Idle
  <2>2. next # current /\ state' = [st EXCEPT ![current] = x, ![next] = "Running"]
    BY DEF next
  <2>3. st[Bootstrap] # "Terminated" /\ st[Idle] # "Terminated"
    BY <1>1, <2>1
  <2> QED
    BY <2>1, <2>2, <2>3
<1>4. /\ active' \subseteq active
      /\ {Bootstrap, Idle, current} \subseteq active'
      /\ \A t \in active : t \in active' \/ (st[t] = "Terminated" /\ t # current)
      /\ \A t \in active' : st[t] # "Terminated" \/ t = current
      /\ \A t \in active' : slot'[t] = slot[t]
      /\ slot' \in [Threads -> Slots \cup {NoSlot}]
      /\ slots_in_use' \subseteq Slots
      /\ stats' \in [total : Nat, active : Int, terminated : Nat]
      /\ StackOwnership'
  BY <1>3, ReclaimFacts
<1>5. next \in active' /\ st[next] = state[next] /\ state[next] \in {"Ready", "Idle"}
  BY <1>1, <1>2, <1>3, <1>4
<1>6. /\ state' \in [Threads -> ThreadState]
      /\ state'[next] = "Running"
      /\ state'[current] = x
      /\ \A t \in Threads \ {next, current} : state'[t] = state[t]
  <2>1. "Running" \in ThreadState
    BY DEF ThreadState
  <2>2. state' \in [Threads -> ThreadState]
    BY <1>3, <2>1
  <2>3. state'[next] = "Running" /\ state'[current] = x
    BY <1>1, <1>2, <1>3
  <2>4. \A t \in Threads \ {next, current} : state'[t] = state[t]
    BY <1>1, <1>2, <1>3
  <2> QED
    BY <2>2, <2>3, <2>4
<1>7. /\ queue' \in Seq(Threads)
      /\ Inj(queue')
      /\ Elems(queue') = {t \in active' : state'[t] = "Ready"}
  <2>1. CASE x = "Ready"
    <3>1. current \notin Elems(QueueRest)
      BY <1>1, <1>2
    <3>2. /\ queue' \in Seq(Threads)
          /\ Inj(queue')
          /\ Elems(queue') = Elems(QueueRest) \cup {current}
      BY <1>1, <1>2, <2>1, <3>1, EnqueueNew
    <3> QED
      BY <1>1, <1>2, <1>3, <1>4, <1>6, <2>1, <3>2
  <2>2. CASE x # "Ready"
    BY <1>1, <1>2, <1>3, <1>4, <1>6, <2>2
  <2> QED
    BY <2>1, <2>2
<1>8. /\ current' = next
      /\ ticks' = [tk EXCEPT ![next] = 0]
      /\ ctx' = [ctx EXCEPT ![current] = [stack |-> current, ifl |-> FALSE]]
      /\ window' = ctx[next].ifl
      /\ cpu' = IF ctx[next].ifl THEN current ELSE ctx[next].stack
  BY <1>1, <1>2, <1>3 DEF SwitchTo, next
<1>9. ctx[next].stack = next
  BY <1>1, <1>2, <1>3, <1>5
<1>10. TypeOK'
  <2>1. 0 \in 0..TIMESLICE /\ 0 \in 0..MaxWindowTicks
    BY TimesliceAssumption, BoundAssumption
  <2>2. ticks' \in [Threads -> 0..TIMESLICE]
    BY <1>2, <1>8, <2>1
  <2>3. ctx' \in [Threads -> [stack : Threads, ifl : BOOLEAN]]
    BY <1>1, <1>8
  <2>4. window' \in BOOLEAN /\ cpu' \in Threads
    BY <1>1, <1>2, <1>8
  <2> QED
    BY <1>1, <1>2, <1>4, <1>6, <1>7, <1>8, <2>1, <2>2, <2>3, <2>4 DEF TypeOK
<1>11. OneRunning'
  <2>1. ASSUME NEW t \in active', t # next
        PROVE  state'[t] # "Running"
    BY <1>1, <1>4, <1>6, <2>1
  <2>2. {t \in active' : state'[t] = "Running"} = {next}
    BY <1>5, <1>6, <2>1
  <2>3. {Bootstrap, Idle} \subseteq active'
    BY <1>4
  <2> QED
    BY <1>8, <2>2, <2>3 DEF OneRunning
<1>12. ReadyIffQueued'
  <2>1. Idle \notin Elems(queue')
    BY <1>1, <1>3, <1>5, <1>6, <1>7
  <2> QED
    BY <1>7, <2>1 DEF ReadyIffQueued, Queued, Elems, Inj
<1>13. RunsOnLiveStack'
  <2>1. cpu' \in {current, next}
    BY <1>8, <1>9
  <2>2. \A t \in active' \ {Bootstrap} : slot'[t] \in slots_in_use'
    BY <1>4 DEF StackOwnership
  <2> QED
    BY <1>4, <1>5, <2>1, <2>2 DEF RunsOnLiveStack
<1>14. ContextsSound'
  <2>1. ~window' => cpu' = current'
    BY <1>8, <1>9
  <2>2. ASSUME NEW t \in active', t # next \/ window', state'[t] # "Terminated"
        PROVE  ctx'[t].stack = t
    <3>1. CASE t = current
      BY <1>1, <1>8, <3>1
    <3>2. CASE t # current
      <4>1. t \in active /\ t \in Threads
        BY <1>1, <1>4, <2>2
      <4>2. ctx'[t] = ctx[t]
        BY <1>1, <1>8, <3>2, <4>1
      <4>3. ctx[t].stack = t
        BY <1>1, <1>6, <1>9, <2>2, <3>2, <4>1
      <4> QED
        BY <4>2, <4>3
    <3> QED
      BY <3>1, <3>2
  <2> QED
    BY <1>8, <2>1, <2>2 DEF ContextsSound
<1>15. Aux'
  <2>1. state'[Bootstrap] # "Terminated" /\ state'[Idle] \in {"Idle", "Running"}
    BY <1>1, <1>3, <1>6
  <2>2. ticks'[current'] <= wticks'
    BY <1>2, <1>8
  <2>3. current' = Idle => queue' = <<>>
    <3>1. ASSUME next = Idle PROVE QueueRest = <<>>
      BY <1>2, <3>1 DEF QueueRest
    <3> QED
      BY <1>2, <1>8, <3>1
  <2> QED
    BY <2>1, <2>2, <2>3 DEF Aux
<1> QED
  BY <1>4, <1>10, <1>11, <1>12, <1>13, <1>14, <1>15 DEF IInv

\* schedule() called by a running thread, or by one that has just blocked
\* itself, outside the switch window.
LEMMA ScheduleInv ==
  ASSUME IInv, ~window, wticks' = 0, running' \in BOOLEAN,
         NEW st \in [Threads -> ThreadState],
         \/ st = state
         \/ st = [state EXCEPT ![current] = "Blocked"] /\ current # Idle,
         NEW tk \in [Threads -> 0..TIMESLICE],
         running, Schedule(st, tk)
  PROVE  IInv'
<1>1. /\ state \in [Threads -> ThreadState]
      /\ current \in Threads
      /\ current \in active
      /\ state[current] = "Running"
      /\ state[Bootstrap] # "Terminated"
      /\ state[Idle] \in {"Idle", "Running"}
      /\ running \in BOOLEAN
  BY DEF IInv, TypeOK, OneRunning, Aux
<1>2. /\ NextThread \in active
      /\ NextThread = Idle \/ state[NextThread] = "Ready"
      /\ NextThread = Idle => queue = <<>>
  BY NextFacts
<1>3. /\ Bootstrap \in Threads
      /\ Idle \in Threads
      /\ Bootstrap # Idle
  BY PoolAssumption DEF Threads, Bootstrap, Idle
<1>4. /\ \A t \in Threads \ {current} : st[t] = state[t]
      /\ st[current] \in {"Running", "Blocked"}
      /\ st[current] = "Running" => st = state
      /\ current = Idle => st[current] = "Running"
  BY <1>1
<1>5. /\ Reclaim(st)
      /\ \/ NothingElse(st) /\ KeepCurrent(st, tk)
         \/ ~NothingElse(st) /\ Dispatch(st, tk)
  BY DEF Schedule, NotRunning
<1>6. CASE NothingElse(st) /\ KeepCurrent(st, tk)
  <2>1. queue = <<>> /\ st = state
    BY <1>1, <1>2, <1>4, <1>6 DEF NothingElse
  <2>2. state' = state
    BY <1>1, <1>6, <2>1 DEF KeepCurrent
  <2>3. /\ queue' = queue
        /\ ticks' = tk
        /\ UNCHANGED <<ctx, current, cpu, window>>
    BY <1>6, <2>1 DEF KeepCurrent, QueueRest
  <2>4. /\ active' \subseteq active
        /\ {Bootstrap, Idle, current} \subseteq active'
        /\ \A t \in active : t \in active' \/ (state[t] = "Terminated" /\ t # current)
        /\ slot' \in [Threads -> Slots \cup {NoSlot}]
        /\ slots_in_use' \subseteq Slots
        /\ stats' \in [total : Nat, active : Int, terminated : Nat]
        /\ StackOwnership'
    BY <1>1, <1>3, <1>5, <2>1, ReclaimFacts
  <2>5. TypeOK'
    <3>1. 0 \in 0..MaxWindowTicks
      BY BoundAssumption
    <3> QED
      BY <2>2, <2>3, <2>4, <3>1 DEF IInv, TypeOK
  <2>6. OneRunning'
    BY <1>1, <2>2, <2>3, <2>4 DEF IInv, OneRunning
  <2>7. ReadyIffQueued'
    BY <2>2, <2>3, <2>4 DEF IInv, ReadyIffQueued, Queued
  <2>8. cpu = current
    BY DEF IInv, ContextsSound
  <2>9. RunsOnLiveStack'
    <3>1. \A t \in active' \ {Bootstrap} : slot'[t] \in slots_in_use'
      BY <2>4 DEF StackOwnership
    <3> QED
      BY <2>3, <2>4, <2>8, <3>1 DEF RunsOnLiveStack
  <2>10. ContextsSound'
    BY <2>2, <2>3, <2>4 DEF IInv, ContextsSound
  <2>11. Aux'
    BY <2>2, <2>3 DEF IInv, Aux
  <2> QED
    BY <2>4, <2>5, <2>6, <2>7, <2>9, <2>10, <2>11 DEF IInv
<1>7. CASE ~NothingElse(st) /\ Dispatch(st, tk)
  <2> DEFINE x == IF st[current] # "Running" THEN st[current]
                  ELSE IF current = Idle THEN "Idle"
                  ELSE "Ready"
  <2>1. NextThread # current /\ (queue = <<>> => st[current] # "Running")
    BY <1>7 DEF NothingElse
  <2>2. /\ x \in ThreadState \ {"Running"}
        /\ x # "Terminated"
        /\ st[current] # "Terminated"
        /\ current = Idle => x = "Idle"
        /\ queue = <<>> => x # "Ready"
    BY <1>1, <1>4, <2>1 DEF ThreadState
  <2>3. state' = [st EXCEPT ![current] = x, ![NextThread] = "Running"]
    BY <1>1, <1>7, <2>1 DEF Dispatch
  <2>4. queue' = IF x = "Ready" THEN Enqueue(QueueRest, current) ELSE QueueRest
    BY <1>4, <1>7 DEF Dispatch
  <2>5. SwitchTo(NextThread, tk)
    BY <1>7 DEF Dispatch
  <2> HIDE DEF x
  <2> QED
    BY <1>4, <1>5, <2>1, <2>2, <2>3, <2>4, <2>5, SwitchInv
<1> QED
  BY <1>5, <1>6, <1>7

------------------------------------------------------------------------------
(* The invariant *)

\* init() establishes the invariant.
LEMMA InitInv == Init => IInv
<1> SUFFICES ASSUME Init PROVE IInv
  OBVIOUS
<1>1. /\ Bootstrap \in Threads /\ Idle \in Threads /\ Bootstrap # Idle
      /\ 0 \in Slots
      /\ NoSlot \notin Slots
      /\ 0 \in 0..TIMESLICE /\ 0 \in 0..MaxWindowTicks
  BY PoolAssumption, SlotAssumption, TimesliceAssumption, BoundAssumption
  DEF Threads, Slots, Bootstrap, Idle, NoSlot
<1>2. /\ state \in [Threads -> ThreadState]
      /\ state[Bootstrap] = "Running"
      /\ state[Idle] = "Idle"
  BY <1>1 DEF Init, ThreadState
<1>3. TypeOK
  <2>1. /\ slot \in [Threads -> Slots \cup {NoSlot}]
        /\ ticks \in [Threads -> 0..TIMESLICE]
    BY <1>1 DEF Init
  <2>2. ctx \in [Threads -> [stack : Threads, ifl : BOOLEAN]]
    BY DEF Init, FreshContext
  <2>3. stats \in [total : Nat, active : Int, terminated : Nat]
    BY DEF Init
  <2>4. active \subseteq Threads /\ slots_in_use \subseteq Slots /\ queue \in Seq(Threads)
    BY <1>1 DEF Init
  <2> QED
    BY <1>1, <1>2, <2>1, <2>2, <2>3, <2>4 DEF Init, TypeOK
<1>4. OneRunning /\ StackOwnership /\ RunsOnLiveStack /\ Aux
  BY <1>1, <1>2 DEF Init, OneRunning, StackOwnership, RunsOnLiveStack, Aux
<1>5. ReadyIffQueued
  BY <1>2 DEF Init, ReadyIffQueued, Queued
<1>6. ContextsSound
  BY <1>1 DEF Init, ContextsSound, FreshContext
<1> QED
  BY <1>3, <1>4, <1>5, <1>6 DEF IInv

\* A create_thread that fails for want of a stack only touches a free TCB.
LEMMA CreateNoStackInv ==
  ASSUME IInv, NEW t \in Workers, CreateThreadNoStack(t)
  PROVE  IInv'
<1>1. /\ t \in Threads /\ t # Bootstrap /\ t # Idle
      /\ "Created" \in ThreadState
      /\ 0 \in 0..TIMESLICE
  BY PoolAssumption, TimesliceAssumption
  DEF Workers, Threads, Bootstrap, Idle, ThreadState
<1>2. t \notin active /\ ~window
  BY DEF CreateThreadNoStack, FirstFreeTcb, Executing
<1>3. TypeOK'
  BY <1>1 DEF IInv, TypeOK, CreateThreadNoStack, FreshContext
<1>4. current \in active /\ cpu \in active /\ active \subseteq Threads
  BY DEF IInv, OneRunning, RunsOnLiveStack, TypeOK
<1>5. /\ \A u \in active : /\ state'[u] = state[u]
                           /\ slot'[u] = slot[u]
                           /\ ticks'[u] = ticks[u]
                           /\ ctx'[u] = ctx[u]
      /\ UNCHANGED <<active, queue, current, slots_in_use, cpu, window, wticks>>
  BY <1>2, <1>4 DEF CreateThreadNoStack, IInv, TypeOK
<1>6. OneRunning'
  BY <1>5 DEF IInv, OneRunning
<1>7. ReadyIffQueued'
  BY <1>5 DEF IInv, ReadyIffQueued, Queued
<1>8. StackOwnership'
  BY <1>5 DEF IInv, StackOwnership
<1>9. RunsOnLiveStack' /\ ContextsSound'
  BY <1>4, <1>5 DEF IInv, RunsOnLiveStack, ContextsSound
<1>10. Aux'
  BY <1>2, <1>4, <1>5 DEF IInv, Aux, OneRunning
<1> QED
  BY <1>3, <1>6, <1>7, <1>8, <1>9, <1>10 DEF IInv

\* create_thread publishes a thread with a stack of its own.
LEMMA CreateInv ==
  ASSUME IInv, NEW t \in Workers, NEW s \in Slots, CreateThread(t, s)
  PROVE  IInv'
<1>1. /\ t \in Threads /\ t # Bootstrap /\ t # Idle
      /\ "Ready" \in ThreadState
      /\ 0 \in 0..TIMESLICE
  BY PoolAssumption, TimesliceAssumption
  DEF Workers, Threads, Bootstrap, Idle, ThreadState
<1>2. t \notin active /\ s \notin slots_in_use /\ ~window
  BY DEF CreateThread, FirstFreeTcb, FirstFreeSlot, Executing
<1>3. /\ current \in active
      /\ cpu \in active
      /\ cpu # Bootstrap => slot[cpu] \in slots_in_use
      /\ {Bootstrap, Idle} \subseteq active
      /\ active \subseteq Threads
      /\ slots_in_use = {slot[u] : u \in active \ {Bootstrap}}
      /\ queue \in Seq(Threads)
      /\ Inj(queue)
      /\ Elems(queue) = {u \in active : state[u] = "Ready"}
      /\ Idle \notin Elems(queue)
  BY DEF IInv, OneRunning, RunsOnLiveStack, TypeOK, StackOwnership,
         ReadyIffQueued, Queued, Elems, Inj
<1>4. /\ queue' # queue
      /\ queue' \in Seq(Threads)
      /\ Inj(queue')
      /\ Elems(queue') = Elems(queue) \cup {t}
  <2>1. queue' = Enqueue(queue, t) /\ t \notin Elems(queue)
    BY <1>2, <1>3 DEF CreateThread
  <2> QED
    BY <1>1, <1>3, <2>1, EnqueueNew
<1>5. /\ active' = active \cup {t}
      /\ slots_in_use' = slots_in_use \cup {s}
      /\ stats' = [stats EXCEPT !.total = @ + 1, !.active = @ + 1]
      /\ UNCHANGED <<current, running, cpu, window, wticks>>
  BY <1>4 DEF CreateThread
<1>6. /\ state'[t] = "Ready" /\ slot'[t] = s /\ ctx'[t].stack = t
      /\ \A u \in active : /\ state'[u] = state[u]
                           /\ slot'[u] = slot[u]
                           /\ ticks'[u] = ticks[u]
                           /\ ctx'[u] = ctx[u]
  BY <1>1, <1>2, <1>3 DEF CreateThread, FreshContext, IInv, TypeOK
<1>7. TypeOK'
  <2>1. stats' \in [total : Nat, active : Int, terminated : Nat]
    <3>1. /\ stats \in [total : Nat, active : Int, terminated : Nat]
          /\ stats.total + 1 \in Nat
          /\ stats.active + 1 \in Int
      BY DEF IInv, TypeOK
    <3>2. ASSUME NEW m \in Nat, NEW n \in Int
          PROVE  [stats EXCEPT !.total = m, !.active = n]
                   \in [total : Nat, active : Int, terminated : Nat]
      BY <3>1
    <3> QED
      BY <1>5, <3>1, <3>2
  <2>2. /\ state' \in [Threads -> ThreadState]
        /\ slot' \in [Threads -> Slots \cup {NoSlot}]
        /\ ticks' \in [Threads -> 0..TIMESLICE]
        /\ ctx' \in [Threads -> [stack : Threads, ifl : BOOLEAN]]
    BY <1>1 DEF CreateThread, FreshContext, IInv, TypeOK
  <2>3. active' \subseteq Threads /\ slots_in_use' \subseteq Slots
    BY <1>1, <1>3, <1>5 DEF IInv, TypeOK
  <2> QED
    BY <1>4, <1>5, <2>1, <2>2, <2>3 DEF IInv, TypeOK
<1>8. OneRunning'
  <2>1. {u \in active' : state'[u] = "Running"} = {u \in active : state[u] = "Running"}
    BY <1>2, <1>5, <1>6
  <2> QED
    BY <1>3, <1>5, <2>1 DEF IInv, OneRunning
<1>9. ReadyIffQueued'
  <2>1. Elems(queue') = {u \in active' : state'[u] = "Ready"} /\ Idle \notin Elems(queue')
    BY <1>1, <1>2, <1>3, <1>4, <1>5, <1>6
  <2> QED
    BY <1>4, <2>1 DEF ReadyIffQueued, Queued, Elems, Inj
<1>10. StackOwnership'
  <2>1. slots_in_use' = {slot'[u] : u \in active' \ {Bootstrap}}
    BY <1>1, <1>2, <1>3, <1>5, <1>6
  <2>2. \A u, v \in active' \ {Bootstrap} : slot'[u] = slot'[v] => u = v
    BY <1>2, <1>3, <1>5, <1>6 DEF IInv, StackOwnership
  <2> QED
    BY <2>1, <2>2 DEF StackOwnership
<1>11. RunsOnLiveStack' /\ ContextsSound'
  BY <1>2, <1>3, <1>5, <1>6 DEF IInv, RunsOnLiveStack, ContextsSound
<1>12. Aux'
  BY <1>2, <1>3, <1>5, <1>6 DEF IInv, Aux
<1> QED
  BY <1>7, <1>8, <1>9, <1>10, <1>11, <1>12 DEF IInv

\* exit() leaves its stack to a later reclamation.
LEMMA ExitInv ==
  ASSUME IInv, Exit
  PROVE  IInv'
<1> DEFINE st == [state EXCEPT ![current] = "Terminated"]
<1>1. /\ state \in [Threads -> ThreadState]
      /\ ticks \in [Threads -> 0..TIMESLICE]
      /\ current \in Threads
      /\ current \in active
      /\ state[current] = "Running"
      /\ running \in BOOLEAN
      /\ wticks = 0
  BY DEF IInv, TypeOK, OneRunning, Aux, Exit, Executing
<1>2. current # Bootstrap /\ current # Idle /\ ~window
  BY DEF Exit, Executing, Workers, Bootstrap, Idle
<1>3. NextThread # current
  BY <1>1, <1>2, NextFacts
<1>4. "Terminated" \in ThreadState \ {"Running"}
  BY DEF ThreadState
<1>5. /\ st \in [Threads -> ThreadState]
      /\ \A t \in Threads \ {current} : st[t] = state[t]
      /\ st = [st EXCEPT ![current] = "Terminated"]
  BY <1>1, <1>4
<1>6. /\ Reclaim(st)
      /\ state' = [st EXCEPT ![NextThread] = "Running"]
      /\ queue' = QueueRest
      /\ SwitchTo(NextThread, ticks)
      /\ UNCHANGED <<running, wticks>>
  BY DEF Exit
<1> HIDE DEF st
<1>7. state' = [st EXCEPT ![current] = "Terminated", ![NextThread] = "Running"]
  BY <1>5, <1>6
<1> QED
  BY <1>1, <1>2, <1>3, <1>4, <1>5, <1>6, <1>7, SwitchInv

\* block() of a queued thread.
LEMMA BlockOtherInv ==
  ASSUME IInv, NEW i \in 1..Len(queue), BlockOther(i)
  PROVE  IInv'
<1> DEFINE b == queue[i]
<1>1. /\ state \in [Threads -> ThreadState]
      /\ active \subseteq Threads
      /\ queue \in Seq(Threads)
      /\ Inj(queue)
      /\ Elems(queue) = {t \in active : state[t] = "Ready"}
      /\ b \in Elems(queue)
      /\ Idle \notin Elems(queue)
  BY DEF IInv, TypeOK, ReadyIffQueued, Queued, Elems, Inj
<1>2. /\ b \in active /\ state[b] = "Ready"
      /\ b # Idle /\ b # current
      /\ ~window
  BY <1>1 DEF IInv, OneRunning, BlockOther, Executing
<1>3. /\ state' = [state EXCEPT ![b] = "Blocked"]
      /\ queue' = RemoveAt(queue, i)
      /\ UNCHANGED <<active, slot, ticks, ctx, current, running, slots_in_use,
                     stats, cpu, window, wticks>>
  BY DEF BlockOther
<1>4. /\ queue' \in Seq(Threads)
      /\ Inj(queue')
      /\ Elems(queue') = Elems(queue) \ {b}
  BY <1>1, <1>3, RemoveRest
<1> HIDE DEF b
<1>5. /\ state'[b] = "Blocked"
      /\ \A t \in active \ {b} : state'[t] = state[t]
      /\ state' \in [Threads -> ThreadState]
  <2>1. "Blocked" \in ThreadState
    BY DEF ThreadState
  <2> QED
    BY <1>1, <1>2, <1>3, <2>1
<1>6. TypeOK'
  BY <1>3, <1>4, <1>5 DEF IInv, TypeOK
<1>7. OneRunning'
  <2>1. {t \in active' : state'[t] = "Running"} = {t \in active : state[t] = "Running"}
    BY <1>2, <1>3, <1>5
  <2> QED
    BY <1>3, <2>1 DEF IInv, OneRunning
<1>8. ReadyIffQueued'
  <2>1. Elems(queue') = {t \in active' : state'[t] = "Ready"} /\ Idle \notin Elems(queue')
    BY <1>1, <1>2, <1>3, <1>4, <1>5
  <2> QED
    BY <1>4, <2>1 DEF ReadyIffQueued, Queued, Elems, Inj
<1>9. StackOwnership' /\ RunsOnLiveStack'
  BY <1>3 DEF IInv, StackOwnership, RunsOnLiveStack
<1>10. ContextsSound'
  BY <1>2, <1>3, <1>5 DEF IInv, ContextsSound
<1>11. Aux'
  <2>1. {Bootstrap, Idle} \subseteq active
    BY DEF IInv, OneRunning
  <2>2. state'[Bootstrap] # "Terminated" /\ state'[Idle] \in {"Idle", "Running"}
    BY <1>2, <1>5, <2>1 DEF IInv, Aux
  <2> QED
    BY <1>2, <1>3, <2>2 DEF IInv, Aux
<1> QED
  BY <1>6, <1>7, <1>8, <1>9, <1>10, <1>11 DEF IInv

\* unblock() finds a place in the queue.
LEMMA UnblockInv ==
  ASSUME IInv, NEW b \in Threads, Unblock(b)
  PROVE  IInv'
<1>1. /\ state \in [Threads -> ThreadState]
      /\ active \subseteq Threads
      /\ queue \in Seq(Threads)
      /\ Inj(queue)
      /\ Elems(queue) = {t \in active : state[t] = "Ready"}
      /\ Idle \notin Elems(queue)
  BY DEF IInv, TypeOK, ReadyIffQueued, Queued, Elems, Inj
<1>2. /\ b \in active /\ state[b] = "Blocked"
      /\ b # Idle /\ b # current
      /\ ~window
  BY DEF IInv, OneRunning, Aux, Unblock, Executing
<1>3. /\ state' = [state EXCEPT ![b] = "Ready"]
      /\ queue' = Enqueue(queue, b)
      /\ UNCHANGED <<active, slot, ticks, ctx, current, running, slots_in_use,
                     stats, cpu, window, wticks>>
  BY DEF Unblock
<1>4. /\ queue' \in Seq(Threads)
      /\ Inj(queue')
      /\ Elems(queue') = Elems(queue) \cup {b}
  <2>1. b \notin Elems(queue)
    BY <1>1, <1>2
  <2> QED
    BY <1>1, <1>3, <2>1, EnqueueNew
<1>5. /\ state'[b] = "Ready"
      /\ \A t \in active \ {b} : state'[t] = state[t]
      /\ state' \in [Threads -> ThreadState]
  <2>1. "Ready" \in ThreadState
    BY DEF ThreadState
  <2> QED
    BY <1>1, <1>2, <1>3, <2>1
<1>6. TypeOK'
  BY <1>3, <1>4, <1>5 DEF IInv, TypeOK
<1>7. OneRunning'
  <2>1. {t \in active' : state'[t] = "Running"} = {t \in active : state[t] = "Running"}
    BY <1>2, <1>3, <1>5
  <2> QED
    BY <1>3, <2>1 DEF IInv, OneRunning
<1>8. ReadyIffQueued'
  <2>1. Elems(queue') = {t \in active' : state'[t] = "Ready"} /\ Idle \notin Elems(queue')
    BY <1>1, <1>2, <1>3, <1>4, <1>5
  <2> QED
    BY <1>4, <2>1 DEF ReadyIffQueued, Queued, Elems, Inj
<1>9. StackOwnership' /\ RunsOnLiveStack'
  BY <1>3 DEF IInv, StackOwnership, RunsOnLiveStack
<1>10. ContextsSound'
  BY <1>2, <1>3, <1>5 DEF IInv, ContextsSound
<1>11. Aux'
  <2>1. {Bootstrap, Idle} \subseteq active
    BY DEF IInv, OneRunning
  <2>2. state'[Bootstrap] # "Terminated" /\ state'[Idle] \in {"Idle", "Running"}
    BY <1>2, <1>5, <2>1 DEF IInv, Aux
  <2> QED
    BY <1>2, <1>3, <2>2 DEF IInv, Aux
<1> QED
  BY <1>6, <1>7, <1>8, <1>9, <1>10, <1>11 DEF IInv

\* A step that touches neither the queue nor the states keeps them in agreement.
LEMMA SameQueue ==
  ASSUME ReadyIffQueued, UNCHANGED <<state, active, queue>>
  PROVE  ReadyIffQueued'
<1>1. state' = state /\ active' = active /\ queue' = queue
  OBVIOUS
<1>2. Queued' = Queued
  BY <1>1 DEF Queued
<1>3. /\ Queued = {t \in active : state[t] = "Ready"}
      /\ Idle \notin Queued
      /\ \A i, j \in 1..Len(queue) : queue[i] = queue[j] => i = j
  BY DEF ReadyIffQueued
<1> HIDE DEF Queued
<1>4. /\ Queued' = {t \in active' : state'[t] = "Ready"}
      /\ Idle \notin Queued'
  BY <1>1, <1>2, <1>3
<1>5. \A i, j \in 1..Len(queue') : queue'[i] = queue'[j] => i = j
  BY <1>1, <1>3
<1> QED
  BY <1>4, <1>5 DEF ReadyIffQueued

\* A step that changes at most `running' preserves the invariant.
LEMMA SameInv ==
  ASSUME IInv, running' \in BOOLEAN,
         UNCHANGED <<state, active, slot, ticks, ctx, queue, current,
                     slots_in_use, stats, cpu, window, wticks>>
  PROVE  IInv'
<1>1. TypeOK'
  BY DEF IInv, TypeOK
<1>2. OneRunning'
  BY DEF IInv, OneRunning
<1>3. ReadyIffQueued'
  BY SameQueue DEF IInv
<1>4. StackOwnership'
  BY DEF IInv, StackOwnership
<1>5. RunsOnLiveStack' /\ ContextsSound'
  BY DEF IInv, RunsOnLiveStack, ContextsSound
<1>6. Aux'
  BY DEF IInv, Aux
<1> QED
  BY <1>1, <1>2, <1>3, <1>4, <1>5, <1>6 DEF IInv

\* yield(), and block() of the calling thread.
LEMMA YieldInv ==
  ASSUME IInv, Yield \/ BlockSelf
  PROVE  IInv'
<1>1. /\ state \in [Threads -> ThreadState]
      /\ ticks \in [Threads -> 0..TIMESLICE]
      /\ current \in Threads
      /\ running \in BOOLEAN
  BY DEF IInv, TypeOK
<1>2. /\ ~window /\ current # Idle
      /\ wticks' = 0
      /\ running' = running
  BY DEF IInv, Aux, Yield, BlockSelf, Executing
<1>3. CASE Yield /\ running
  BY <1>1, <1>2, <1>3, ScheduleInv DEF Yield
<1>4. CASE Yield /\ ~running
  <2>1. UNCHANGED vars
    BY <1>4 DEF Yield, Schedule, NotRunning, vars
  <2> QED
    BY <1>1, <2>1, SameInv DEF vars
<1>5. CASE BlockSelf
  <2> DEFINE st == [state EXCEPT ![current] = "Blocked"]
  <2>1. st \in [Threads -> ThreadState]
    BY <1>1 DEF ThreadState
  <2>2. running /\ Schedule(st, ticks)
    BY <1>5 DEF BlockSelf
  <2> HIDE DEF st
  <2>3. st = [state EXCEPT ![current] = "Blocked"]
    BY DEF st
  <2> QED
    BY <1>1, <1>2, <2>1, <2>2, <2>3, ScheduleInv
<1> QED
  BY <1>1, <1>3, <1>4, <1>5

\* The timer interrupt: inside the switch window the timeslice of the new
\* thread cannot expire, so schedule() runs only on the current thread's stack.
LEMMA TickInv ==
  ASSUME MaxWindowTicks < TIMESLICE, IInv, Tick
  PROVE  IInv'
<1>1. /\ state \in [Threads -> ThreadState]
      /\ ticks \in [Threads -> 0..TIMESLICE]
      /\ current \in Threads
      /\ running \in BOOLEAN
      /\ wticks \in 0..MaxWindowTicks
      /\ ~window => wticks = 0
      /\ window => ticks[current] <= wticks
      /\ window /\ current = Idle => queue = <<>>
  BY DEF IInv, TypeOK, Aux
<1>2. /\ running
      /\ window => wticks < MaxWindowTicks
      /\ wticks' = IF window /\ window' /\ current' = current THEN wticks + 1 ELSE 0
      /\ running' = running
  BY DEF Tick
<1>3. /\ Consume \in [Threads -> 0..TIMESLICE]
      /\ ticks[current] < TIMESLICE => Consume[current] = ticks[current] + 1
  BY <1>1, TimesliceAssumption DEF Consume
<1>4. window => ~Expired /\ ~IdlePreemption
  BY <1>1, <1>2, TimesliceAssumption, BoundAssumption DEF Expired, IdlePreemption
<1>5. CASE Expired \/ IdlePreemption
  <2>1. ~window /\ Schedule(state, Consume)
    BY <1>4, <1>5 DEF Tick
  <2>2. wticks' = 0
    BY <1>2, <2>1
  <2> QED
    BY <1>1, <1>2, <1>3, <2>1, <2>2, ScheduleInv
<1>6. CASE ~Expired /\ ~IdlePreemption
  <2>1. /\ ticks' = Consume
        /\ UNCHANGED <<state, active, slot, ctx, queue, current, slots_in_use,
                       stats, cpu, window>>
    BY <1>6 DEF Tick
  <2>2. /\ wticks' = IF window THEN wticks + 1 ELSE 0
        /\ wticks' \in 0..MaxWindowTicks
    BY <1>1, <1>2, <2>1, BoundAssumption
  <2>3. TypeOK'
    BY <1>2, <1>3, <2>1, <2>2 DEF IInv, TypeOK
  <2>4. OneRunning' /\ StackOwnership' /\ RunsOnLiveStack' /\ ContextsSound'
    <3>1. OneRunning' /\ RunsOnLiveStack'
      BY <2>1 DEF IInv, OneRunning, RunsOnLiveStack
    <3>2. StackOwnership'
      BY <2>1 DEF IInv, StackOwnership
    <3>3. ContextsSound'
      BY <2>1 DEF IInv, ContextsSound
    <3> QED
      BY <3>1, <3>2, <3>3
  <2>5. ReadyIffQueued'
    BY <2>1, SameQueue DEF IInv
  <2>6. Aux'
    <3>1. window' => ticks'[current'] <= wticks'
      BY <1>1, <1>3, <1>6, <2>1, <2>2, TimesliceAssumption DEF Expired
    <3> QED
      BY <2>1, <2>2, <3>1 DEF IInv, Aux
  <2> QED
    BY <2>3, <2>4, <2>5, <2>6 DEF IInv
<1> QED
  BY <1>5, <1>6

\* The end of context_switch: the CPU moves to the stack of the new thread.
LEMMA LoadStackInv ==
  ASSUME IInv, LoadStack
  PROVE  IInv'
<1>1. /\ current \in Threads /\ current \in active
      /\ state[current] = "Running"
      /\ window
  BY DEF IInv, TypeOK, OneRunning, LoadStack
<1>2. ctx[current].stack = current
  BY <1>1 DEF IInv, ContextsSound
<1>3. /\ cpu' = current
      /\ window' = FALSE
      /\ wticks' = 0
      /\ UNCHANGED <<state, active, slot, ticks, ctx, queue, current, running,
                     slots_in_use, stats>>
  BY <1>2 DEF LoadStack
<1>4. TypeOK'
  <2>1. 0 \in 0..MaxWindowTicks
    BY BoundAssumption
  <2> QED
    BY <1>1, <1>3, <2>1 DEF IInv, TypeOK
<1>5. OneRunning' /\ StackOwnership' /\ Aux'
  <2>1. OneRunning' /\ Aux'
    BY <1>3 DEF IInv, OneRunning, Aux
  <2>2. StackOwnership'
    BY <1>3 DEF IInv, StackOwnership
  <2> QED
    BY <2>1, <2>2
<1>6. ReadyIffQueued'
  BY <1>3, SameQueue DEF IInv
<1>7. RunsOnLiveStack'
  BY <1>1, <1>3 DEF IInv, RunsOnLiveStack, StackOwnership
<1>8. ContextsSound'
  BY <1>1, <1>3 DEF IInv, ContextsSound
<1> QED
  BY <1>4, <1>5, <1>6, <1>7, <1>8 DEF IInv

\* Every step of the scheduler preserves the inductive invariant.
LEMMA NextInv ==
  ASSUME MaxWindowTicks < TIMESLICE, IInv, [Next]_vars
  PROVE  IInv'
<1>1. CASE Start
  BY <1>1, SameInv DEF Start
<1>2. CASE \E t \in Workers : CreateThreadNoStack(t)
  BY <1>2, CreateNoStackInv
<1>3. CASE \E t \in Workers, s \in Slots : CreateThread(t, s)
  BY <1>3, CreateInv
<1>4. CASE Yield \/ BlockSelf
  BY <1>4, YieldInv
<1>5. CASE Exit
  BY <1>5, ExitInv
<1>6. CASE \E i \in 1..Len(queue) : BlockOther(i)
  BY <1>6, BlockOtherInv
<1>7. CASE \E t \in Threads : Unblock(t)
  BY <1>7, UnblockInv
<1>8. CASE Tick
  BY <1>8, TickInv
<1>9. CASE LoadStack
  BY <1>9, LoadStackInv
<1>10. CASE UNCHANGED vars
  <2>1. running' = running /\ running \in BOOLEAN
    BY <1>10 DEF IInv, TypeOK, vars
  <2> QED
    BY <1>10, <2>1, SameInv DEF vars
<1> QED
  BY <1>1, <1>2, <1>3, <1>4, <1>5, <1>6, <1>7, <1>8, <1>9, <1>10 DEF Next

\* If fewer timer interrupts than a timeslice hit one switch window, then on
\* every run of the scheduler the inductive invariant holds.
THEOREM Invariance ==
  ASSUME MaxWindowTicks < TIMESLICE
  PROVE  Spec => []IInv
<1>1. Init => IInv
  BY InitInv
<1>2. IInv /\ [Next]_vars => IInv'
  BY NextInv
<1> QED
  BY <1>1, <1>2, PTL DEF Spec

\* Type correctness of the TCB pool, the queue and the statistics.
THEOREM TypeCorrect ==
  ASSUME MaxWindowTicks < TIMESLICE
  PROVE  Spec => []TypeOK
<1>1. IInv => TypeOK
  BY DEF IInv
<1> QED
  BY <1>1, Invariance, PTL

\* Exactly one thread runs, and it is s_current_thread (verify_invariants 1
\* and 3).
THEOREM RunningUnique ==
  ASSUME MaxWindowTicks < TIMESLICE
  PROVE  Spec => []OneRunning
<1>1. IInv => OneRunning
  BY DEF IInv
<1> QED
  BY <1>1, Invariance, PTL

\* No runnable thread is ever lost or queued twice: the ready queue is the set
\* of Ready threads, so an enqueue whose result the scheduler ignores succeeds
\* (verify_invariants 2, 4, 5 and 6).
THEOREM NoThreadLost ==
  ASSUME MaxWindowTicks < TIMESLICE
  PROVE  Spec => []ReadyIffQueued
<1>1. IInv => ReadyIffQueued
  BY DEF IInv
<1> QED
  BY <1>1, Invariance, PTL

\* Stack slots are neither leaked nor shared (verify_invariants 7).
THEOREM SlotsOwned ==
  ASSUME MaxWindowTicks < TIMESLICE
  PROVE  Spec => []StackOwnership
<1>1. IInv => StackOwnership
  BY DEF IInv
<1> QED
  BY <1>1, Invariance, PTL

\* The CPU never stands on an unmapped stack, and no saved context of a thread
\* that will run again points into a foreign stack (verify_invariants 8 for
\* the real rsp).
THEOREM StackSafety ==
  ASSUME MaxWindowTicks < TIMESLICE
  PROVE  Spec => [](RunsOnLiveStack /\ ContextsSound)
<1>1. IInv => RunsOnLiveStack /\ ContextsSound
  BY DEF IInv
<1> QED
  BY <1>1, Invariance, PTL

\* The saved context of every thread that will run again points into its own
\* stack, whatever interrupts fell into the window of context_switch.asm.
THEOREM ContextsCorrect ==
  ASSUME MaxWindowTicks < TIMESLICE
  PROVE  Spec => []ContextsSound
<1>1. IInv => ContextsSound
  BY DEF IInv
<1> QED
  BY <1>1, Invariance, PTL

------------------------------------------------------------------------------
(* The statistics *)

\* A set within a singleton has at most one element.
LEMMA AtMostOne ==
  ASSUME NEW S, NEW x, S \subseteq {x}
  PROVE  Cardinality(S) <= 1
<1>1. CASE S = {}
  BY <1>1, FS_EmptySet
<1>2. CASE S # {}
  <2>1. S = {x}
    BY <1>2
  <2> QED
    BY <2>1, FS_Singleton
<1> QED
  BY <1>1, <1>2

\* Reclamation counts every thread it takes out of the pool once.
LEMMA ReclaimCount ==
  ASSUME IInv, Accounting, NEW st \in [Threads -> ThreadState], Reclaim(st)
  PROVE  /\ stats'.active = Cardinality(active')
         /\ stats'.total = stats'.active + stats'.terminated
<1> DEFINE Z == Zombies(st)
<1>1. /\ active' = active \ Z
      /\ stats' = [stats EXCEPT !.terminated = @ + Cardinality(Z),
                                !.active = @ - Cardinality(Z)]
      /\ Z \subseteq active
  BY DEF Reclaim, Zombies
<1> HIDE DEF Z
<1>2. /\ active \in SUBSET Threads
      /\ stats \in [total : Nat, active : Int, terminated : Nat]
      /\ stats.active = Cardinality(active)
      /\ stats.total = stats.active + stats.terminated
  BY DEF IInv, TypeOK, Accounting
<1>3. IsFiniteSet(active)
  <2>1. IsFiniteSet(Threads)
    BY FS_Interval, PoolAssumption DEF Threads
  <2> QED
    BY <1>2, <2>1, FS_Subset
<1>4. Cardinality(active) \in Nat /\ Cardinality(Z) \in Nat
  BY <1>1, <1>3, FS_Subset, FS_CardinalityType
<1>5. Cardinality(active \ Z) = Cardinality(active) - Cardinality(Z)
  <2>1. active \cap Z = Z
    BY <1>1
  <2> QED
    BY <1>3, <2>1, FS_Difference
<1>6. /\ stats'.active = stats.active - Cardinality(Z)
      /\ stats'.terminated = stats.terminated + Cardinality(Z)
      /\ stats'.total = stats.total
  BY <1>1, <1>2
<1>7. /\ stats.active \in Int /\ stats.terminated \in Int /\ stats.total \in Int
  BY <1>2
<1> QED
  BY <1>1, <1>2, <1>4, <1>5, <1>6, <1>7

\* schedule() leaves no terminated thread in the pool.
LEMMA ScheduleCount ==
  ASSUME IInv, Accounting, running,
         NEW st \in [Threads -> ThreadState],
         \/ st = state
         \/ st = [state EXCEPT ![current] = "Blocked"] /\ current # Idle,
         NEW tk, Schedule(st, tk)
  PROVE  Accounting'
<1>1. /\ state \in [Threads -> ThreadState]
      /\ current \in Threads /\ active \subseteq Threads
      /\ state[current] = "Running"
      /\ state[Bootstrap] # "Terminated"
      /\ state[Idle] # "Terminated"
      /\ Bootstrap \in active /\ Idle \in active
  BY DEF IInv, TypeOK, OneRunning, Aux
<1>2. /\ st[Bootstrap] # "Terminated"
      /\ st[Idle] # "Terminated"
      /\ st[current] # "Terminated"
  BY <1>1
<1>3. Reclaim(st) /\ (KeepCurrent(st, tk) \/ Dispatch(st, tk))
  BY DEF Schedule, NotRunning
<1>4. /\ active' \subseteq active
      /\ \A t \in active' : st[t] # "Terminated"
  BY <1>2, <1>3, ReclaimFacts
<1>5. \A t \in active' : state'[t] # "Terminated"
  BY <1>1, <1>2, <1>3, <1>4 DEF KeepCurrent, Dispatch
<1>6. {t \in active' : state'[t] = "Terminated"} \subseteq {current}
  BY <1>5
<1>7. Cardinality({t \in active' : state'[t] = "Terminated"}) <= 1
  BY <1>6, AtMostOne
<1> QED
  BY <1>3, <1>7, ReclaimCount DEF Accounting

\* Every step keeps the statistics in agreement with the pool.
LEMMA AccountingStep ==
  ASSUME IInv, Accounting, [Next]_vars
  PROVE  Accounting'
<1> DEFINE Dead == {t \in active : state[t] = "Terminated"}
<1>1. /\ state \in [Threads -> ThreadState]
      /\ current \in Threads /\ active \subseteq Threads
      /\ state[current] = "Running"
      /\ running \in BOOLEAN
  BY DEF IInv, TypeOK, OneRunning
<1>2. ASSUME UNCHANGED <<active, stats>>, Dead' = Dead
      PROVE  Accounting'
  BY <1>2 DEF Accounting
<1>3. CASE \E t \in Workers : CreateThreadNoStack(t)
  <2>1. PICK t \in Workers : CreateThreadNoStack(t)
    BY <1>3
  <2>2. t \notin active
    BY <2>1 DEF CreateThreadNoStack, FirstFreeTcb
  <2>3. UNCHANGED <<active, stats>> /\ Dead' = Dead
    BY <1>1, <2>1, <2>2 DEF CreateThreadNoStack
  <2> QED
    BY <1>2, <2>3
<1>4. CASE \E t \in Workers, s \in Slots : CreateThread(t, s)
  <2>1. PICK t \in Workers, s \in Slots : CreateThread(t, s)
    BY <1>4
  <2>2. t \notin active /\ t \in Threads
    BY <2>1, PoolAssumption DEF CreateThread, FirstFreeTcb, Workers, Threads
  <2>3. Dead' = Dead
    BY <1>1, <2>1, <2>2 DEF CreateThread
  <2>4. CASE active' = active /\ stats' = stats
    BY <1>2, <2>3, <2>4
  <2>5. CASE /\ active' = active \cup {t}
             /\ stats' = [stats EXCEPT !.total = @ + 1, !.active = @ + 1]
    <3>1. /\ stats \in [total : Nat, active : Int, terminated : Nat]
          /\ stats.active = Cardinality(active)
          /\ stats.total = stats.active + stats.terminated
      BY DEF IInv, TypeOK, Accounting
    <3>2. IsFiniteSet(Threads) /\ active \in SUBSET Threads
      BY <1>1, FS_Interval, PoolAssumption DEF Threads
    <3>3. Cardinality(active') = Cardinality(active) + 1
      BY <2>2, <2>5, <3>2, FS_Subset, FS_AddElement
    <3>4. /\ stats'.active = stats.active + 1
          /\ stats'.total = stats.total + 1
          /\ stats'.terminated = stats.terminated
      BY <2>5, <3>1
    <3>5. stats.active \in Int /\ stats.total \in Int /\ stats.terminated \in Int
      BY <3>1
    <3>6. Cardinality({u \in active' : state'[u] = "Terminated"}) <= 1
      BY <2>3 DEF Accounting
    <3>7. stats'.active = Cardinality(active')
      BY <3>1, <3>3, <3>4
    <3>8. stats'.total = stats'.active + stats'.terminated
      BY <3>1, <3>4, <3>5
    <3> QED
      BY <3>6, <3>7, <3>8 DEF Accounting
  <2> QED
    BY <2>1, <2>4, <2>5 DEF CreateThread
<1>5. CASE Yield
  <2>1. CASE running
    BY <1>1, <1>5, <2>1, ScheduleCount DEF Yield
  <2>2. CASE ~running
    BY <1>2, <1>5, <2>2 DEF Yield, Schedule, NotRunning
  <2> QED
    BY <2>1, <2>2
<1>6. CASE BlockSelf
  <2> DEFINE st == [state EXCEPT ![current] = "Blocked"]
  <2>1. /\ st \in [Threads -> ThreadState]
        /\ running /\ current # Idle
        /\ Schedule(st, ticks)
    BY <1>1, <1>6 DEF BlockSelf, Executing, ThreadState
  <2>2. st = [state EXCEPT ![current] = "Blocked"]
    OBVIOUS
  <2> HIDE DEF st
  <2> QED
    BY <2>1, <2>2, ScheduleCount
<1>7. CASE Exit
  <2> DEFINE st == [state EXCEPT ![current] = "Terminated"]
  <2>1. /\ st \in [Threads -> ThreadState]
        /\ Reclaim(st)
        /\ state' = [st EXCEPT ![NextThread] = "Running"]
        /\ current # Bootstrap /\ current # Idle
    BY <1>1, <1>7 DEF Exit, Executing, Workers, Bootstrap, Idle, ThreadState
  <2>2. st[Bootstrap] # "Terminated" /\ st[Idle] # "Terminated"
    BY <1>1, <2>1 DEF IInv, Aux
  <2> HIDE DEF st
  <2>3. /\ active' \subseteq active
        /\ \A t \in active' : st[t] # "Terminated" \/ t = current
    BY <2>1, <2>2, ReclaimFacts
  <2>4. {t \in active' : state'[t] = "Terminated"} \subseteq {current}
    BY <1>1, <2>1, <2>3
  <2>5. Cardinality({t \in active' : state'[t] = "Terminated"}) <= 1
    BY <2>4, AtMostOne
  <2> QED
    BY <2>1, <2>5, ReclaimCount DEF Accounting
<1>8. CASE \E i \in 1..Len(queue) : BlockOther(i)
  <2>1. PICK i \in 1..Len(queue) : BlockOther(i)
    BY <1>8
  <2>2. queue[i] \in active /\ state[queue[i]] = "Ready"
    BY DEF IInv, ReadyIffQueued, Queued
  <2>3. UNCHANGED <<active, stats>> /\ Dead' = Dead
    BY <1>1, <2>1, <2>2 DEF BlockOther
  <2> QED
    BY <1>2, <2>3
<1>9. CASE \E t \in Threads : Unblock(t)
  <2>1. UNCHANGED <<active, stats>> /\ Dead' = Dead
    BY <1>1, <1>9 DEF Unblock
  <2> QED
    BY <1>2, <2>1
<1>10. CASE Tick
  <2>1. CASE Schedule(state, Consume)
    BY <1>1, <1>10, <2>1, ScheduleCount DEF Tick
  <2>2. CASE UNCHANGED <<state, active, stats>>
    BY <1>2, <2>2
  <2> QED
    BY <1>10, <2>1, <2>2 DEF Tick
<1>11. CASE Start \/ LoadStack \/ UNCHANGED vars
  BY <1>2, <1>11 DEF Start, LoadStack, vars
<1> QED
  BY <1>3, <1>4, <1>5, <1>6, <1>7, <1>8, <1>9, <1>10, <1>11 DEF Next

\* s_stats agrees with the TCB pool, and at most one exited thread awaits
\* reclamation.
THEOREM StatsAgree ==
  ASSUME MaxWindowTicks < TIMESLICE
  PROVE  Spec => []Accounting
<1>1. Init => Accounting
  <2> SUFFICES ASSUME Init PROVE Accounting
    OBVIOUS
  <2>1. Cardinality({Bootstrap, Idle}) = 2
    <3>1. {Bootstrap, Idle} = 0..1
      BY DEF Bootstrap, Idle
    <3>2. 0 \in Int /\ 1 \in Int /\ ~ (0 > 1) /\ 1 - 0 + 1 = 2
      OBVIOUS
    <3>3. Cardinality(0..1) = IF 0 > 1 THEN 0 ELSE 1 - 0 + 1
      BY <3>2, FS_Interval, Zenon
    <3> QED
      BY <3>1, <3>2, <3>3
  <2>2. {t \in active : state[t] = "Terminated"} \subseteq {Bootstrap}
    BY PoolAssumption DEF Init, Bootstrap, Idle, Threads
  <2>3. Cardinality({t \in active : state[t] = "Terminated"}) <= 1
    BY <2>2, AtMostOne
  <2> QED
    BY <2>1, <2>3 DEF Init, Accounting
<1>2. IInv /\ Accounting /\ [Next]_vars => Accounting'
  BY AccountingStep
<1> QED
  BY <1>1, <1>2, Invariance, PTL DEF Spec

------------------------------------------------------------------------------
(* Round robin *)

\* A queue that does not change, loses its head or one other entry keeps its
\* order, and a thread that was not in it may be appended.
LEMMA OrderKept ==
  ASSUME NEW q \in Seq(Threads), Inj(q)
  PROVE  /\ NoOvertaking(q, q)
         /\ NoOvertaking(q, <<>>)
         /\ q # <<>> => NoOvertaking(q, Tail(q))
         /\ \A i \in 1..Len(q) : NoOvertaking(q, RemoveAt(q, i))
         /\ \A r \in Seq(Threads), t \in Threads :
              NoOvertaking(q, r) /\ t \notin Elems(q)
                => NoOvertaking(q, Append(r, t))
<1>1. NoOvertaking(q, q)
  BY DEF NoOvertaking, Inj
<1>2. NoOvertaking(q, <<>>)
  BY DEF NoOvertaking
<1>3. ASSUME q # <<>> PROVE NoOvertaking(q, Tail(q))
  <2> DEFINE r == Tail(q)
  <2>1. /\ Len(q) \in Nat \ {0}
        /\ Len(r) = Len(q) - 1
        /\ \A i \in 1..(Len(q) - 1) : r[i] = q[i + 1]
    BY <1>3
  <2> HIDE DEF r
  <2>2. ASSUME NEW i \in 1..Len(q), NEW k \in 1..(Len(q) - 1), q[k + 1] = q[i],
               NEW l \in 1..(k - 1)
        PROVE  \E j \in 1..(i - 1) : q[l + 1] = q[j]
    <3>1. i = k + 1 /\ l + 1 \in 1..(i - 1)
      BY <2>1, <2>2 DEF Inj
    <3> QED
      BY <3>1
  <2>3. ASSUME NEW i \in 1..Len(q), NEW k \in 1..Len(r), r[k] = q[i],
               NEW l \in 1..(k - 1)
        PROVE  \E j \in 1..(i - 1) : r[l] = q[j]
    <3>1. k \in 1..(Len(q) - 1) /\ q[k + 1] = q[i] /\ r[l] = q[l + 1]
      BY <2>1, <2>3
    <3> QED
      BY <2>2, <3>1
  <2>4. NoOvertaking(q, r)
    BY <2>3 DEF NoOvertaking
  <2> QED
    BY <2>4 DEF r
<1>4. ASSUME NEW d \in 1..Len(q) PROVE NoOvertaking(q, RemoveAt(q, d))
  <2> DEFINE r == RemoveAt(q, d)
             Old(k) == IF k < d THEN k ELSE k + 1
  <2>1. /\ Len(q) \in Nat \ {0}
        /\ Len(r) = Len(q) - 1
        /\ \A k \in 1..(Len(q) - 1) : r[k] = q[Old(k)] /\ Old(k) \in 1..Len(q)
    BY DEF RemoveAt
  <2> HIDE DEF r
  <2>2. ASSUME NEW i \in 1..Len(q), NEW k \in 1..Len(r), r[k] = q[i],
               NEW l \in 1..(k - 1)
        PROVE  \E j \in 1..(i - 1) : r[l] = q[j]
    <3>1. i = Old(k) /\ r[l] = q[Old(l)] /\ Old(l) \in 1..(i - 1)
      BY <2>1, <2>2 DEF Inj
    <3> HIDE DEF Old
    <3> QED
      BY <3>1
  <2>3. NoOvertaking(q, r)
    BY <2>2 DEF NoOvertaking
  <2> QED
    BY <2>3 DEF r
<1>5. ASSUME NEW r \in Seq(Threads), NEW t \in Threads,
             NoOvertaking(q, r), t \notin Elems(q)
      PROVE  NoOvertaking(q, Append(r, t))
  <2> DEFINE a == Append(r, t)
  <2>1. /\ Len(r) \in Nat
        /\ Len(a) = Len(r) + 1
        /\ \A k \in 1..Len(r) : a[k] = r[k]
        /\ a[Len(r) + 1] = t
    OBVIOUS
  <2> HIDE DEF a
  <2>2. \A i \in 1..Len(q) : q[i] # t
    BY <1>5 DEF Elems
  <2>3. ASSUME NEW i \in 1..Len(q), NEW k \in 1..Len(a), a[k] = q[i],
               NEW l \in 1..(k - 1)
        PROVE  \E j \in 1..(i - 1) : a[l] = q[j]
    <3>1. k # Len(r) + 1
      BY <2>1, <2>2, <2>3
    <3>2. k \in 1..Len(r) /\ l \in 1..Len(r)
      BY <2>1, <3>1
    <3>3. r[k] = q[i] /\ a[l] = r[l]
      BY <2>1, <2>3, <3>2
    <3> QED
      BY <1>5, <3>2, <3>3 DEF NoOvertaking
  <2>4. NoOvertaking(q, a)
    BY <2>3 DEF NoOvertaking
  <2> QED
    BY <2>4 DEF a
<1> QED
  BY <1>1, <1>2, <1>3, <1>4, <1>5

\* The next thread is the head of the queue, and neither its removal nor the
\* return of the preempted thread changes the order of the others.
LEMMA SwitchOrder ==
  ASSUME IInv
  PROVE  /\ NextThread = IF queue = <<>> THEN Idle ELSE Head(queue)
         /\ NoOvertaking(queue, queue)
         /\ NoOvertaking(queue, QueueRest)
         /\ NoOvertaking(queue, Enqueue(QueueRest, current))
<1>1. /\ queue \in Seq(Threads) /\ Inj(queue)
      /\ current \in Threads
      /\ current \notin Elems(queue)
      /\ Elems(queue) = {t \in active : state[t] = "Ready"}
  BY DEF IInv, TypeOK, OneRunning, ReadyIffQueued, Queued, Elems, Inj
<1>2. /\ QueueRest \in Seq(Threads)
      /\ Inj(QueueRest)
      /\ Elems(QueueRest) \subseteq Elems(queue)
  BY <1>1, NextFacts
<1>3. NoOvertaking(queue, QueueRest)
  BY <1>1, OrderKept DEF QueueRest
<1>4. Enqueue(QueueRest, current) = Append(QueueRest, current)
  BY <1>1, <1>2, EnqueueNew
<1> QED
  BY <1>1, <1>2, <1>3, <1>4, OrderKept DEF NextThread

\* Dispatching is first come, first served: the CPU goes to the head of the
\* queue and no queued thread is overtaken.
THEOREM FirstComeFirstServed ==
  ASSUME MaxWindowTicks < TIMESLICE
  PROVE  Spec => RoundRobin
<1> DEFINE Served == current' # current =>
                       current' = IF queue = <<>> THEN Idle ELSE Head(queue)
<1>1. ASSUME IInv, NEW st, NEW tk, Schedule(st, tk)
      PROVE  Served /\ NoOvertaking(queue, queue')
  BY <1>1, SwitchOrder DEF Schedule, NotRunning, KeepCurrent, Dispatch, SwitchTo
<1>2. ASSUME IInv, Next
      PROVE  Served /\ NoOvertaking(queue, queue')
  <2>1. /\ queue \in Seq(Threads) /\ Inj(queue)
        /\ Elems(queue) = {t \in active : state[t] = "Ready"}
    BY <1>2 DEF IInv, TypeOK, ReadyIffQueued, Queued, Elems, Inj
  <2>2. ASSUME NEW t \in Threads, t \notin Elems(queue), queue' = Enqueue(queue, t)
        PROVE  NoOvertaking(queue, queue')
    <3>1. queue' = Append(queue, t)
      BY <2>1, <2>2, EnqueueNew
    <3>2. NoOvertaking(queue, queue)
      BY <2>1, OrderKept
    <3>3. NoOvertaking(queue, Append(queue, t))
      BY <2>1, <2>2, <3>2, OrderKept
    <3> QED
      BY <3>1, <3>3
  <2>3. CASE \/ Start \/ LoadStack
             \/ \E t \in Workers : CreateThreadNoStack(t)
    BY <1>2, <2>3, SwitchOrder DEF Start, LoadStack, CreateThreadNoStack
  <2>4. CASE \E t \in Workers, s \in Slots : CreateThread(t, s)
    <3>1. PICK t \in Workers, s \in Slots : CreateThread(t, s)
      BY <2>4
    <3>2. t \in Threads /\ t \notin Elems(queue)
      BY <2>1, <3>1, PoolAssumption DEF CreateThread, FirstFreeTcb, Workers, Threads
    <3> QED
      BY <2>2, <3>1, <3>2 DEF CreateThread
  <2>5. CASE Yield \/ BlockSelf
    BY <1>1, <1>2, <2>5 DEF Yield, BlockSelf
  <2>6. CASE Exit
    BY <1>2, <2>6, SwitchOrder DEF Exit, SwitchTo
  <2>7. CASE \E i \in 1..Len(queue) : BlockOther(i)
    BY <2>1, <2>7, OrderKept DEF BlockOther
  <2>8. CASE \E t \in Threads : Unblock(t)
    <3>1. PICK t \in Threads : Unblock(t)
      BY <2>8
    <3>2. t \notin Elems(queue)
      BY <2>1, <3>1 DEF Unblock
    <3> QED
      BY <2>2, <3>1, <3>2 DEF Unblock
  <2>9. CASE Tick
    <3>1. CASE Schedule(state, Consume)
      BY <1>1, <1>2, <3>1
    <3>2. CASE UNCHANGED <<queue, current>>
      BY <1>2, <3>2, SwitchOrder
    <3> QED
      BY <2>9, <3>1, <3>2 DEF Tick
  <2> QED
    BY <1>2, <2>3, <2>4, <2>5, <2>6, <2>7, <2>8, <2>9 DEF Next
<1>3. IInv /\ [Next]_vars => [Served /\ NoOvertaking(queue, queue')]_vars
  BY <1>2
<1> QED
  BY <1>3, Invariance, PTL DEF Spec, RoundRobin

==============================================================================
