------------------------------ MODULE Scheduler ------------------------------
(***************************************************************************)
(* The preemptive round-robin scheduler: src/kernel/threading/scheduler.cpp*)
(* with the stack slots of stack_allocator.cpp and the context switch of   *)
(* arch/x86_64/cpu/context_switch.asm.                                     *)
(*                                                                         *)
(* There is one CPU, and every scheduler call runs with interrupts         *)
(* disabled, so it is one step (s_in_scheduler is FALSE between steps).    *)
(* There is one exception.  context_switch executes popfq before it loads  *)
(* rsp.  A thread that never ran has IF set in its initial rflags, so the  *)
(* timer can interrupt the switch to it while s_current_thread is already  *)
(* the new thread and rsp still points into the stack of the old one.      *)
(* `window' is TRUE between these two instructions.                        *)
(*                                                                         *)
(* The ready queue is the abstract sequence that ReadyQueue implements.    *)
(***************************************************************************)
EXTENDS Integers, Sequences, FiniteSets

CONSTANTS
  MAX_THREADS,      \* size of the TCB pool
  MAX_STACK_SLOTS,  \* slots of the stack allocator
  MAX_CAPACITY,     \* capacity of the ready queue
  TIMESLICE,        \* DEFAULT_TIMESLICE_TICKS
  MaxWindowTicks,   \* timer interrupts that can hit one switch window
  MaxTotal          \* bound: threads created, the two system threads included

ASSUME PoolAssumption == MAX_THREADS \in Nat /\ MAX_THREADS >= 2
ASSUME SlotAssumption == MAX_STACK_SLOTS \in Nat /\ MAX_STACK_SLOTS >= MAX_THREADS
ASSUME QueueAssumption == MAX_CAPACITY \in Nat /\ MAX_CAPACITY >= MAX_THREADS
ASSUME TimesliceAssumption == TIMESLICE \in Nat \ {0}
ASSUME BoundAssumption == MaxWindowTicks \in Nat /\ MaxTotal \in Nat

VARIABLES
  state,         \* TCB.state
  active,        \* the TCBs whose `active' is set
  slot,          \* TCB.stack.slot_index
  ticks,         \* TCB.ticks_consumed, saturated at TIMESLICE
  ctx,           \* TCB.context: whose stack rsp points into, and IF of rflags
  queue,         \* s_ready_queue
  current,       \* s_current_thread
  running,       \* s_running
  slots_in_use,  \* StackAllocator::s_slot_in_use
  stats,         \* s_stats
  cpu,           \* the thread into whose stack the CPU's rsp points
  window,        \* popfq has enabled interrupts, mov rsp has not happened
  wticks         \* timer interrupts since the window opened

vars == <<state, active, slot, ticks, ctx, queue, current, running,
          slots_in_use, stats, cpu, window, wticks>>

Threads == 0..(MAX_THREADS - 1)
Bootstrap == 0
Idle == 1
Workers == 2..(MAX_THREADS - 1)
Slots == 0..(MAX_STACK_SLOTS - 1)
NoSlot == -1

ThreadState == {"Created", "Ready", "Running", "Blocked", "Terminated", "Idle"}

\* Mutant: the initial rsp lies in the next stack.
ContextInNextStack(t) == [stack |-> t + 1, ifl |-> TRUE]

\* rflags = 0x202 and rsp = the top of the thread's own stack.
FreshContext(t) == [stack |-> t, ifl |-> TRUE]

Init ==
  /\ state = [t \in Threads |-> CASE t = Bootstrap -> "Running"
                                  [] t = Idle -> "Idle"
                                  [] OTHER -> "Created"]
  /\ active = {Bootstrap, Idle}
  /\ slot = [t \in Threads |-> IF t = Idle THEN 0 ELSE NoSlot]
  /\ ticks = [t \in Threads |-> 0]
  /\ ctx = [t \in Threads |-> FreshContext(t)]
  /\ queue = <<>>
  /\ current = Bootstrap
  /\ running = FALSE
  /\ slots_in_use = {0}
  /\ stats = [total |-> 2, active |-> 2, terminated |-> 0]
  /\ cpu = Bootstrap
  /\ window = FALSE
  /\ wticks = 0

------------------------------------------------------------------------------
(* Helpers *)

Queued == {queue[i] : i \in 1..Len(queue)}

\* Mutant: the thread goes to the head.
EnqueueFront(q, t) ==
  IF Len(q) < MAX_CAPACITY /\ \A i \in 1..Len(q) : q[i] # t
  THEN <<t>> \o q
  ELSE q

\* enqueue(); every caller has set the thread's state to Ready before.
Enqueue(q, t) ==
  IF Len(q) < MAX_CAPACITY /\ \A i \in 1..Len(q) : q[i] # t
  THEN Append(q, t)
  ELSE q

RemoveAt(q, i) ==
  [j \in 1..(Len(q) - 1) |-> IF j < i THEN q[j] ELSE q[j + 1]]

\* allocate_tcb takes the first inactive TCB after the two system threads,
\* allocate_stack the first slot that is not in use.
FirstFreeTcb(t) ==
  /\ t \in Workers \ active
  /\ \A u \in Workers \ active : t <= u

FirstFreeSlot(s) ==
  /\ s \in Slots \ slots_in_use
  /\ \A r \in Slots \ slots_in_use : s <= r

\* Mutant: the executing thread is not spared.
ZombiesAll(st) ==
  {t \in active : st[t] = "Terminated" /\ slot[t] # NoSlot}

\* reclaim_deferred_stacks, called with the thread states st: the stack and
\* the TCB of every terminated thread are given back, except those of the
\* thread that is executing.
Zombies(st) ==
  {t \in active : st[t] = "Terminated" /\ t # current /\ slot[t] # NoSlot}

\* Mutants: the stack slot is not released; active_threads is not counted down.
ReclaimLeaks(st) ==
  /\ slot' = [t \in Threads |-> IF t \in Zombies(st) THEN NoSlot ELSE slot[t]]
  /\ active' = active \ Zombies(st)
  /\ stats' = [stats EXCEPT !.terminated = @ + Cardinality(Zombies(st)),
                            !.active = @ - Cardinality(Zombies(st))]
  /\ UNCHANGED slots_in_use

ReclaimNoCount(st) ==
  /\ slots_in_use' = slots_in_use \ {slot[t] : t \in Zombies(st)}
  /\ slot' = [t \in Threads |-> IF t \in Zombies(st) THEN NoSlot ELSE slot[t]]
  /\ active' = active \ Zombies(st)
  /\ stats' = [stats EXCEPT !.terminated = @ + Cardinality(Zombies(st))]

Reclaim(st) ==
  /\ slots_in_use' = slots_in_use \ {slot[t] : t \in Zombies(st)}
  /\ slot' = [t \in Threads |-> IF t \in Zombies(st) THEN NoSlot ELSE slot[t]]
  /\ active' = active \ Zombies(st)
  /\ stats' = [stats EXCEPT !.terminated = @ + Cardinality(Zombies(st)),
                            !.active = @ - Cardinality(Zombies(st))]

\* The end of schedule() and of exit(): next becomes the current thread and
\* context_switch saves the old thread's context and loads next's.
SwitchTo(next, tk) ==
  LET saved == [ctx EXCEPT ![current] = [stack |-> cpu, ifl |-> FALSE]]
  IN /\ current' = next
     /\ ticks' = [tk EXCEPT ![next] = 0]
     /\ ctx' = saved
     /\ window' = saved[next].ifl
     /\ cpu' = IF saved[next].ifl THEN cpu ELSE saved[next].stack

\* dequeue(), and the idle thread when the queue is empty.
NextThread == IF queue = <<>> THEN Idle ELSE Head(queue)
QueueRest == IF queue = <<>> THEN <<>> ELSE Tail(queue)

\* schedule() finds nothing else to run: the current thread goes on.
KeepCurrent(st, tk) ==
  /\ state' = [st EXCEPT ![current] = "Running"]
  /\ ticks' = tk
  /\ queue' = QueueRest
  /\ UNCHANGED <<ctx, current, cpu, window>>

\* The preempted thread goes to the end of the queue (the idle thread does
\* not), a blocked one stays out of it.
Dispatch(st, tk) ==
  /\ state' = [st EXCEPT ![current] = IF @ # "Running" THEN @
                                      ELSE IF current = Idle THEN "Idle"
                                      ELSE "Ready",
                         ![NextThread] = "Running"]
  /\ queue' = IF st[current] = "Running" /\ current # Idle
              THEN Enqueue(QueueRest, current)
              ELSE QueueRest
  /\ SwitchTo(NextThread, tk)

NothingElse(st) ==
  \/ queue = <<>> /\ st[current] \in {"Running", "Ready"}
  \/ NextThread = current

NotRunning(st, tk) ==
  /\ ~running
  /\ state' = st
  /\ ticks' = tk
  /\ UNCHANGED <<active, slot, ctx, queue, current, slots_in_use, stats, cpu,
                 window>>

\* Mutant: stacks are reclaimed only on the way to another thread.
ScheduleLateReclaim(st, tk) ==
  \/ NotRunning(st, tk)
  \/ /\ running
     /\ NothingElse(st)
     /\ KeepCurrent(st, tk)
     /\ UNCHANGED <<active, slot, slots_in_use, stats>>
  \/ running /\ Reclaim(st) /\ ~NothingElse(st) /\ Dispatch(st, tk)

\* schedule(), called with the thread states st and the tick counts tk.
Schedule(st, tk) ==
  \/ NotRunning(st, tk)
  \/ running /\ Reclaim(st) /\ NothingElse(st) /\ KeepCurrent(st, tk)
  \/ running /\ Reclaim(st) /\ ~NothingElse(st) /\ Dispatch(st, tk)

------------------------------------------------------------------------------
(* Actions *)

Start ==
  /\ ~running
  /\ running' = TRUE
  /\ UNCHANGED <<state, active, slot, ticks, ctx, queue, current,
                 slots_in_use, stats, cpu, window, wticks>>

\* The code of the current thread runs on its own stack.
Executing == ~window /\ current # Idle

\* create_thread when the PMM has no frames for the stack (or the VMM no
\* table for it): the TCB was reset and stays inactive, so that its context
\* is never loaded.
CreateThreadNoStack(t) ==
  /\ Executing
  /\ FirstFreeTcb(t)
  /\ state' = [state EXCEPT ![t] = "Created"]
  /\ slot' = [slot EXCEPT ![t] = NoSlot]
  /\ ticks' = [ticks EXCEPT ![t] = 0]
  /\ ctx' = [ctx EXCEPT ![t] = FreshContext(t)]
  /\ UNCHANGED <<active, queue, current, running, slots_in_use, stats, cpu,
                 window, wticks>>

\* create_thread with a stack: the thread is published in the ready queue.
CreateThread(t, s) ==
  /\ Executing
  /\ stats.total < MaxTotal
  /\ FirstFreeTcb(t)
  /\ FirstFreeSlot(s)
  /\ state' = [state EXCEPT ![t] = "Ready"]
  /\ slot' = [slot EXCEPT ![t] = s]
  /\ ticks' = [ticks EXCEPT ![t] = 0]
  /\ ctx' = [ctx EXCEPT ![t] = FreshContext(t)]
  /\ queue' = Enqueue(queue, t)
  /\ IF queue' # queue
     THEN /\ active' = active \cup {t}
          /\ slots_in_use' = slots_in_use \cup {s}
          /\ stats' = [stats EXCEPT !.total = @ + 1, !.active = @ + 1]
     ELSE UNCHANGED <<active, slots_in_use, stats>>
  /\ UNCHANGED <<current, running, cpu, window, wticks>>

Yield ==
  /\ Executing
  /\ Schedule(state, ticks)
  /\ UNCHANGED <<running, wticks>>

\* Mutant: the thread that exits is not marked as terminated.
ExitUnmarked ==
  /\ Executing
  /\ current \in Workers
  /\ Reclaim(state)
  /\ state' = [state EXCEPT ![NextThread] = "Running"]
  /\ queue' = QueueRest
  /\ SwitchTo(NextThread, ticks)
  /\ UNCHANGED <<running, wticks>>

Exit ==
  LET st == [state EXCEPT ![current] = "Terminated"]
  IN /\ Executing
     /\ current \in Workers
     /\ Reclaim(st)
     /\ state' = [st EXCEPT ![NextThread] = "Running"]
     /\ queue' = QueueRest
     /\ SwitchTo(NextThread, ticks)
     /\ UNCHANGED <<running, wticks>>

\* block(nullptr): the current thread suspends itself.
BlockSelf ==
  /\ Executing
  /\ running
  /\ Schedule([state EXCEPT ![current] = "Blocked"], ticks)
  /\ UNCHANGED <<running, wticks>>

\* Mutant: the blocked thread stays in the queue.
BlockOtherQueued(i) ==
  /\ Executing
  /\ state' = [state EXCEPT ![queue[i]] = "Blocked"]
  /\ UNCHANGED <<active, slot, ticks, ctx, queue, current, running,
                 slots_in_use, stats, cpu, window, wticks>>

\* block(t) for another thread, one that is waiting for the CPU.
BlockOther(i) ==
  /\ Executing
  /\ state' = [state EXCEPT ![queue[i]] = "Blocked"]
  /\ queue' = RemoveAt(queue, i)
  /\ UNCHANGED <<active, slot, ticks, ctx, current, running, slots_in_use,
                 stats, cpu, window, wticks>>

\* unblock(t), called by thread code (no interrupt handler calls it).
Unblock(t) ==
  /\ Executing
  /\ t \in active
  /\ state[t] = "Blocked"
  /\ state' = [state EXCEPT ![t] = "Ready"]
  /\ queue' = Enqueue(queue, t)
  /\ UNCHANGED <<active, slot, ticks, ctx, current, running, slots_in_use,
                 stats, cpu, window, wticks>>

\* IRQ 0: Timer::handle_timer_interrupt calls the hook on_timer_tick.
Consume ==
  [ticks EXCEPT ![current] = IF @ < TIMESLICE THEN @ + 1 ELSE TIMESLICE]

\* Mutant: the timeslice is one tick short.
ExpiredEarly == ticks[current] + 2 >= TIMESLICE

Expired == ticks[current] + 1 >= TIMESLICE

IdlePreemption == current = Idle /\ queue # <<>>

Tick ==
  /\ running
  /\ window => wticks < MaxWindowTicks
  /\ \/ (Expired \/ IdlePreemption) /\ Schedule(state, Consume)
     \/ /\ ~Expired /\ ~IdlePreemption
        /\ ticks' = Consume
        /\ UNCHANGED <<state, active, slot, ctx, queue, current, slots_in_use,
                       stats, cpu, window>>
  /\ wticks' = IF window /\ window' /\ current' = current THEN wticks + 1 ELSE 0
  /\ UNCHANGED running

\* mov rsp, [rsi + 56]: the stack of the new thread.
LoadStack ==
  /\ window
  /\ cpu' = ctx[current].stack
  /\ window' = FALSE
  /\ wticks' = 0
  /\ UNCHANGED <<state, active, slot, ticks, ctx, queue, current, running,
                 slots_in_use, stats>>

Next ==
  \/ Start
  \/ \E t \in Workers : CreateThreadNoStack(t)
  \/ \E t \in Workers, s \in Slots : CreateThread(t, s)
  \/ Yield
  \/ Exit
  \/ BlockSelf
  \/ \E i \in 1..Len(queue) : BlockOther(i)
  \/ \E t \in Threads : Unblock(t)
  \/ Tick
  \/ LoadStack

Spec == Init /\ [][Next]_vars

\* The PIT interrupts every 10 ms and the instruction stream goes on; what
\* the threads call, and whether they ever call it, is theirs.
Fairness == WF_vars(Tick) /\ WF_vars(LoadStack) /\ WF_vars(Start)

FairSpec == Spec /\ Fairness

------------------------------------------------------------------------------
(* Properties *)

\* The TCB pool, the queue, the stack slots and the CPU keep their types; every
\* saved rsp lies in the stack of some thread of the pool.
TypeOK ==
  /\ state \in [Threads -> ThreadState]
  /\ active \subseteq Threads
  /\ slot \in [Threads -> Slots \cup {NoSlot}]
  /\ ticks \in [Threads -> 0..TIMESLICE]
  /\ ctx \in [Threads -> [stack : Threads, ifl : BOOLEAN]]
  /\ queue \in Seq(Threads)
  /\ current \in Threads
  /\ running \in BOOLEAN
  /\ slots_in_use \subseteq Slots
  /\ stats \in [total : Nat, active : Int, terminated : Nat]
  /\ cpu \in Threads
  /\ window \in BOOLEAN
  /\ wticks \in 0..MaxWindowTicks

\* verify_invariants 1 and 3: the current thread is the one active TCB in
\* state Running, and the two system threads stay active.
OneRunning ==
  /\ {Bootstrap, Idle} \subseteq active
  /\ {t \in active : state[t] = "Running"} = {current}

\* verify_invariants 2, 4, 5 and 6: the ready queue holds exactly the active
\* threads in state Ready, each once.  So no enqueue whose result schedule()
\* and unblock() ignore ever fails, and no runnable thread is lost.
ReadyIffQueued ==
  /\ Queued = {t \in active : state[t] = "Ready"}
  /\ Idle \notin Queued
  /\ \A i, j \in 1..Len(queue) : queue[i] = queue[j] => i = j

\* verify_invariants 7, and no leak: the slots in use are exactly those of
\* the active threads, and no two threads share one.
StackOwnership ==
  /\ slots_in_use = {slot[t] : t \in active \ {Bootstrap}}
  /\ \A t, u \in active \ {Bootstrap} : slot[t] = slot[u] => t = u

\* verify_invariants 8, for the stack the CPU is really on: it belongs to an
\* active thread whose slot is mapped, also inside the switch window and on
\* the way out of exit(), where it is not the current thread's.
RunsOnLiveStack ==
  /\ cpu \in active
  /\ cpu # Bootstrap => slot[cpu] \in slots_in_use

\* Outside the window the CPU is on the stack of the current thread, and the
\* saved context of every thread that will run again points into the
\* thread's own stack.
ContextsSound ==
  /\ ~window => cpu = current
  /\ \A t \in active : (t # current \/ window) /\ state[t] # "Terminated"
                           => ctx[t].stack = t

\* s_stats agrees with the TCB pool, and deferred reclamation is never more
\* than one thread behind.
Accounting ==
  /\ stats.active = Cardinality(active)
  /\ stats.total = stats.active + stats.terminated
  /\ Cardinality({t \in active : state[t] = "Terminated"}) <= 1

\* Whatever is ahead of a thread of q in the queue r was ahead of it in q.
NoOvertaking(q, r) ==
  \A i \in 1..Len(q), k \in 1..Len(r) : r[k] = q[i] =>
    \A l \in 1..(k - 1) : \E j \in 1..(i - 1) : r[l] = q[j]

\* Round robin: a thread is only ever dispatched from the head of the queue
\* (the idle thread only when it is empty), and no thread overtakes a queued
\* one, whatever mix of yield, block, unblock, exit and preemption happens.
RoundRobin ==
  [][/\ current' # current =>
          current' = IF queue = <<>> THEN Idle ELSE Head(queue)
     /\ NoOvertaking(queue, queue')]_vars

\* A thread in the ready queue gets the CPU, unless it is blocked first.
NoStarvation ==
  \A t \in Threads :
    (state[t] = "Ready" /\ t \in active)
      ~> (current = t \/ state[t] = "Blocked")

\* The stack of a thread that exits is given back, even when no thread calls
\* the scheduler any more.
EventuallyReclaimed ==
  \A t \in Workers :
    (t \in active /\ state[t] = "Terminated")
      ~> (t \notin active \/ state[t] # "Terminated")

==============================================================================
