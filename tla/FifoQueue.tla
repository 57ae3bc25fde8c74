------------------------------ MODULE FifoQueue ------------------------------
(***************************************************************************)
(* What the ready queue promises to the scheduler, as the comment at the   *)
(* head of src/kernel/threading/ready_queue.hpp states it: a bounded FIFO  *)
(* of threads without duplicates, that accepts only Ready threads.         *)
(*                                                                         *)
(*   queue   the queued threads, the oldest first                          *)
(*   ready   the threads whose TCB is in state Ready                       *)
(*   result  what the last call returned                                   *)
(***************************************************************************)
EXTENDS Naturals, Sequences

CONSTANTS Threads, MAX_CAPACITY, NullThread

VARIABLES queue, ready, result

vars == <<queue, ready, result>>

Elements == {queue[i] : i \in 1..Len(queue)}

Init ==
  /\ queue = <<>>
  /\ ready = {}
  /\ result = FALSE

Accept(t) ==
  /\ t \in ready \ Elements
  /\ Len(queue) < MAX_CAPACITY
  /\ queue' = Append(queue, t)
  /\ result' = TRUE
  /\ UNCHANGED ready

Reject(t) ==
  /\ \/ t \notin ready
     \/ t \in Elements
     \/ Len(queue) = MAX_CAPACITY
  /\ result' = FALSE
  /\ UNCHANGED <<queue, ready>>

TakeOldest ==
  /\ queue # <<>>
  /\ result' = Head(queue)
  /\ queue' = Tail(queue)
  /\ UNCHANGED ready

FindEmpty ==
  /\ queue = <<>>
  /\ result' = NullThread
  /\ UNCHANGED <<queue, ready>>

Withdraw(t) ==
  /\ \E i \in 1..Len(queue) :
       /\ queue[i] = t
       /\ queue' = [j \in 1..(Len(queue) - 1) |->
                      IF j < i THEN queue[j] ELSE queue[j + 1]]
  /\ result' = TRUE
  /\ UNCHANGED ready

MissWithdraw(t) ==
  /\ t \notin Elements
  /\ result' = FALSE
  /\ UNCHANGED <<queue, ready>>

Empty ==
  /\ queue' = <<>>
  /\ UNCHANGED <<ready, result>>

\* The scheduler changes the state of a thread only while it is not queued.
ChangeState(t) ==
  /\ t \notin Elements
  /\ ready' = IF t \in ready THEN ready \ {t} ELSE ready \cup {t}
  /\ UNCHANGED <<queue, result>>

Next ==
  \/ \E t \in Threads \cup {NullThread} :
       \/ Accept(t)
       \/ Reject(t)
       \/ Withdraw(t)
       \/ MissWithdraw(t)
  \/ \E t \in Threads : ChangeState(t)
  \/ TakeOldest
  \/ FindEmpty
  \/ Empty

Spec == Init /\ [][Next]_vars

==============================================================================
