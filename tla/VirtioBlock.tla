----------------------------- MODULE VirtioBlock -----------------------------
(***************************************************************************)
(* The virtio disk driver of src/kernel/drivers/virtio/virtio_block.cpp,   *)
(* its request queue and the device behind it.                             *)
(*                                                                         *)
(* A request is split into chunks of Bounce sectors.  All chunks of all    *)
(* requests share one DMA area: the header, the status byte and the bounce *)
(* buffer.  m_io_lock, held with interrupts off, makes requests            *)
(* sequential; the device runs beside the driver and may answer after the  *)
(* driver has given up.                                                    *)
(***************************************************************************)
EXTENDS Virtqueue, BlockLayer

CONSTANTS
  QSizes,       \* the queue sizes a device may report
  Sectors,      \* m_total_sectors
  Bounce,       \* DMA_BOUNCE_SECTORS
  Marks,        \* sector contents
  Requests,     \* the requests issued: [type, lba, count]
  MaxRequests,  \* bound on the number of requests
  MaxTimeouts   \* bound on the number of timeouts

ASSUME BlockAssumption ==
  /\ Bounce \in 1..Sectors
  /\ \A n \in QSizes : n \in Nat /\ (n > 0 => IdxMod % n = 0)

VARIABLES
  disk,     \* external: the sectors of the device
  q,        \* m_requestq
  dma,      \* [hdr, status, buf]
  dev,      \* [init, ro, flush]: m_initialized, m_read_only, m_supports_flush
  drv,      \* the driver: the request under way, its chunk, its answer
  work,     \* external: what the device has taken and not yet answered
  seen,     \* external: the device's index into the available ring
  issued,   \* the number of requests
  late      \* the number of timeouts

blockVars == <<disk, q, dma, dev, drv, work, seen, issued, late>>

NoReq == [type |-> "none", lba |-> 0, count |-> 0, data |-> <<>>]
Idle(st, out) == [pc |-> "idle", req |-> NoReq, done |-> 0, head |-> 0,
                  st |-> st, out |-> out]

BlockInit ==
  /\ disk \in {[s \in 0..(Sectors - 1) |-> m] : m \in Marks}
  /\ q = QueueInit(1)
  /\ dma = [hdr |-> NoReq, status |-> 255, buf |-> <<>>]
  /\ dev = [init |-> FALSE, ro |-> FALSE, flush |-> FALSE]
  /\ drv = Idle("none", <<>>)
  /\ work = {} /\ seen = 0 /\ issued = 0 /\ late = 0

PowerOf2(n) == n \in {1, 2, 4, 8, 16}

\* VirtioBlockDevice::init: bar and mem say whether an I/O BAR is found and
\* whether the DMA pages can be allocated.  A disk whose init fails is not
\* registered.
InitDevice ==
  /\ ~dev.init
  /\ \E n \in QSizes, bar, mem, ro, flush \in BOOLEAN :
       /\ dev' = [init |-> bar /\ n > 0 /\ PowerOf2(n) /\ mem,
                  ro |-> ro, flush |-> flush]
       /\ dev'.init
       /\ q' = QueueInit(n)
  /\ UNCHANGED <<disk, dma, drv, work, seen, issued, late>>

\* The checks at the head of read_sectors, write_sectors and flush.
Refused(r) ==
  CASE r.type = "OUT" /\ dev.ro -> "ReadOnly"
    [] r.type = "FLUSH" /\ ~dev.flush -> "Success"
    [] r.type # "FLUSH" /\ r.count = 0 -> "Success"
    [] r.type # "FLUSH"
         /\ ~ValidateBounds(Sectors, dev.ro, r.lba, r.count, r.type = "OUT")
       -> "OutOfBounds"
    [] OTHER -> "no"

Issue ==
  /\ dev.init /\ drv.pc = "idle" /\ issued < MaxRequests
  /\ issued' = issued + 1
  /\ \E r \in Requests, m \in Marks :
       LET req == [r EXCEPT !.data = [i \in 1..r.count |-> m]]
       IN drv' = IF Refused(r) # "no" THEN Idle(Refused(r), <<>>)
                 ELSE [Idle("Pending", <<>>) EXCEPT !.pc = "chunk", !.req = req]
  /\ UNCHANGED <<disk, q, dma, dev, work, seen, late>>

ChunkSize == IF drv.req.count - drv.done > Bounce THEN Bounce
         ELSE drv.req.count - drv.done
Links == IF drv.req.type = "FLUSH" THEN 2 ELSE 3

\* One chunk, off sectors into the request: the DMA area is filled, the
\* descriptors are taken, linked and submitted.
SubmitAt(off) ==
  /\ drv.pc = "chunk"
  /\ dma' = [hdr |-> [drv.req EXCEPT !.lba = @ + off, !.count = ChunkSize, !.data = <<>>],
             status |-> 255,
             buf |-> IF drv.req.type = "OUT"
                     THEN SubSeq(drv.req.data, drv.done + 1, drv.done + ChunkSize)
                     ELSE dma.buf]
  /\ \E a \in {AllocDescriptors(q, Links)} :
       IF \E i \in DOMAIN a.ds : a.ds[i] < 0
       THEN /\ q' = FoldLeft(LAMBDA x, d : IF d < 0 THEN x
                                           ELSE FreeDescriptorChain(x, d), a.q, a.ds)
            /\ drv' = Idle("DeviceFault", <<>>)
       ELSE /\ q' = SubmitDescriptorChain(Link(a.q, a.ds), a.ds[1])
            /\ drv' = [drv EXCEPT !.pc = "wait", !.head = a.ds[1]]
  /\ UNCHANGED <<disk, dev, work, seen, issued, late>>

\* Mutant: cur_lba is not advanced from chunk to chunk.
SubmitSameLba == SubmitAt(0)
Submit == SubmitAt(drv.done)

\* wait_for_completion sees the next used entry.  When it is this request's the
\* chain is freed and the status byte decides.
Poll ==
  /\ drv.pc = "wait" /\ HasUsedBuffer(q)
  /\ IF UsedHead(q) # drv.head THEN q' = PopUsedBuffer(q) /\ UNCHANGED drv
     ELSE /\ q' = FreeDescriptorChain(PopUsedBuffer(q), drv.head)
          /\ drv' = IF dma.status # 0
                    THEN Idle(IF dma.status = 2 /\ drv.req.type # "FLUSH"
                              THEN "Unsupported" ELSE "IoError", <<>>)
                    ELSE LET out == IF drv.req.type = "IN" THEN drv.out \o dma.buf
                                    ELSE drv.out
                         IN IF drv.done + ChunkSize >= drv.req.count
                            THEN [Idle("Success", out) EXCEPT !.req = drv.req]
                            ELSE [drv EXCEPT !.pc = "chunk", !.out = out,
                                             !.done = @ + ChunkSize]
  /\ UNCHANGED <<disk, dma, dev, work, seen, issued, late>>

\* max_polls polls without this request's entry.
Timeout ==
  /\ drv.pc = "wait" /\ late < MaxTimeouts
  /\ late' = late + 1
  /\ q' = FreeDescriptorChain(q, drv.head)
  /\ drv' = Idle("Timeout", <<>>)
  /\ UNCHANGED <<disk, dma, dev, work, seen, issued>>

\* External: the device takes the next available chain and reads the header.
DeviceFetch ==
  /\ seen # q.aidx
  /\ seen' = (seen + 1) % IdxMod
  /\ work' = work \cup {[id |-> q.avail[seen % q.size], n |-> seen, hdr |-> dma.hdr]}
  /\ UNCHANGED <<disk, q, dma, dev, drv, issued, late>>

\* External: the device carries a request out, in any order, and answers it.
DeviceDone ==
  \E w \in work, st \in 0..2 :
    LET span == 1..w.hdr.count
    IN /\ work' = work \ {w}
       /\ q' = DeviceUsed(q, w.id)
       /\ dma' = [dma EXCEPT !.status = st,
                             !.buf = IF w.hdr.type = "IN" /\ st = 0
                                     THEN [i \in span |-> disk[w.hdr.lba + i - 1]]
                                     ELSE @]
       /\ disk' = IF w.hdr.type = "OUT" /\ st = 0
                  THEN [s \in DOMAIN disk |->
                          IF s - w.hdr.lba + 1 \in span \cap DOMAIN dma.buf
                          THEN dma.buf[s - w.hdr.lba + 1] ELSE disk[s]]
                  ELSE disk
       /\ UNCHANGED <<dev, drv, seen, issued, late>>

BlockNext == InitDevice \/ Issue \/ Submit \/ Poll \/ Timeout
               \/ DeviceFetch \/ DeviceDone

------------------------------------------------------------------------------

\* The descriptors of the request under way.
Held == IF drv.pc # "wait" THEN {}
        ELSE LET n == q.next
             IN {drv.head, n[drv.head]} \cup (IF Links = 3 THEN {n[n[drv.head]]} ELSE {})

\* alloc_descriptor and free_descriptor_chain keep the free list a list: also
\* after timeouts and refused requests every descriptor is either on it, once,
\* or part of the one request under way, so the queue never runs dry.
QueueSound ==
  /\ FreeListSound(q, Held)
  /\ q.num + Cardinality(Held) = q.size

\* As long as no request has timed out, a read that returns Success returns what
\* is on the disk and a write that returns Success has put its data there, over
\* all its chunks.
TransferSound ==
  late = 0 /\ drv.pc = "idle" /\ drv.st = "Success" /\ drv.req.type # "none"
    => \A i \in 1..drv.req.count :
         disk[drv.req.lba + i - 1] =
           (IF drv.req.type = "IN" THEN drv.out ELSE drv.req.data)[i]

==============================================================================
