------------------------------ MODULE Virtqueue ------------------------------
(***************************************************************************)
(* The split virtqueue of src/kernel/drivers/virtio/virtio_queue.cpp, as   *)
(* operations on a record: the descriptor table with its free list, the    *)
(* available ring the driver fills and the used ring the device fills.     *)
(* Ring indices are 16 bits wide; IdxMod stands for 2^16.                  *)
(***************************************************************************)
EXTENDS Integers, Sequences, SequencesExt

CONSTANTS
  IdxMod      \* the modulus of the ring indices, a multiple of every queue size

None == 99    \* 0xFFFF, the end of the free list

\* Virtqueue::init: every descriptor on the free list, both rings empty.
QueueInit(n) ==
  [size  |-> n,
   next  |-> [i \in 0..(n - 1) |-> IF i + 1 < n THEN i + 1 ELSE None],
   more  |-> [i \in 0..(n - 1) |-> FALSE],
   head  |-> 0, num |-> n,
   avail |-> [i \in 0..(n - 1) |-> 0], aidx |-> 0,
   used  |-> [i \in 0..(n - 1) |-> 0], uidx |-> 0, last |-> 0]

\* alloc_descriptor: [q, d], d = -1 when there is none.
AllocDescriptor(q) ==
  IF q.num = 0 \/ q.head = None THEN [q |-> q, d |-> -1]
  ELSE [q |-> [q EXCEPT !.head = q.next[q.head], !.num = @ - 1,
                        !.next[q.head] = 0, !.more[q.head] = FALSE],
        d |-> q.head]

\* n descriptors one after the other: [q, ds].
AllocDescriptors(q, n) ==
  FoldLeft(LAMBDA a, i : LET r == AllocDescriptor(a.q)
                         IN [q |-> r.q, ds |-> Append(a.ds, r.d)],
           [q |-> q, ds |-> <<>>], [i \in 1..n |-> i])

\* One turn of the loop of free_descriptor_chain, at descriptor a.cur.
FreeOne(a) ==
  IF a.cur = None THEN a
  ELSE [q   |-> [a.q EXCEPT !.more[a.cur] = FALSE, !.next[a.cur] = a.q.head,
                            !.head = a.cur, !.num = @ + 1],
        cur |-> IF a.q.more[a.cur] /\ a.q.next[a.cur] < a.q.size
                THEN a.q.next[a.cur] ELSE None]

\* Mutant: only the head of the chain goes back.
FreeHeadOnly(q, h) ==
  IF h \in 0..(q.size - 1) THEN FreeOne([q |-> q, cur |-> h]).q ELSE q

FreeDescriptorChain(q, h) ==
  IF h \in 0..(q.size - 1)
  THEN FoldLeft(LAMBDA a, i : FreeOne(a), [q |-> q, cur |-> h],
                [i \in 1..q.size |-> i]).q
  ELSE q

\* set_descriptor for the descriptors ds of one request, in chain order.
Link(q, ds) ==
  FoldLeft(LAMBDA a, i :
             [a EXCEPT !.more[ds[i]] = i < Len(ds),
                       !.next[ds[i]] = IF i < Len(ds) THEN ds[i + 1] ELSE 0],
           q, [i \in DOMAIN ds |-> i])

SubmitDescriptorChain(q, h) ==
  [q EXCEPT !.avail[q.aidx % q.size] = h, !.aidx = (@ + 1) % IdxMod]

HasUsedBuffer(q) == q.last # q.uidx
UsedHead(q) == q.used[q.last % q.size]
PopUsedBuffer(q) == [q EXCEPT !.last = (@ + 1) % IdxMod]

\* External: the device puts a finished chain on the used ring.
DeviceUsed(q, h) ==
  [q EXCEPT !.used[q.uidx % q.size] = h, !.uidx = (@ + 1) % IdxMod]

------------------------------------------------------------------------------

\* The free list, from its head.
FreeList(q) ==
  FoldLeft(LAMBDA a, i : IF a.cur = None \/ a.cur \notin 0..(q.size - 1) THEN a
                         ELSE [seq |-> Append(a.seq, a.cur),
                               cur |-> q.next[a.cur]],
           [seq |-> <<>>, cur |-> q.head], [i \in 1..q.size |-> i])

\* The free list holds each of its q.num descriptors once, ends there, and has
\* none of the descriptors held.
FreeListSound(q, held) ==
  LET f == FreeList(q)
  IN /\ q.num = 0 \/ f.cur = None
     /\ Len(f.seq) = q.num
     /\ IsInjective(f.seq)
     /\ \A i \in DOMAIN f.seq : f.seq[i] \notin held

==============================================================================
