------------------------------ MODULE NetDevice ------------------------------
(***************************************************************************)
(* The virtio network driver of src/kernel/drivers/virtio/virtio_net.cpp,  *)
(* as operations on the interface record c of NetStack.  The fields that   *)
(* belong to the driver are                                                *)
(*   rx, tx   the two virtqueues                                           *)
(*   addr     the receive buffer each receive descriptor points to         *)
(*   buf      the receive buffers                                          *)
(*   rseen, tseen  external: the device's indices into the two rings       *)
(*   late     external: the device is not answering transmissions          *)
(*   out      what the device has put on the wire in this step             *)
(***************************************************************************)
EXTENDS Virtqueue

CONSTANTS RxCount      \* RX_BUFFER_COUNT

NoFrame == [kind |-> "empty"]

The(S) == CHOOSE x \in S : TRUE

\* Step 7 of init: one descriptor for every buffer, as long as there are any.
PostBuffers(n) ==
  FoldLeft(LAMBDA a, i :
             LET r == AllocDescriptor(a.rx)
             IN IF r.d < 0 THEN a
                ELSE [rx |-> SubmitDescriptorChain(Link(r.q, <<r.d>>), r.d),
                      addr |-> [a.addr EXCEPT ![r.d] = i - 1]],
           [rx |-> QueueInit(n), addr |-> [d \in 0..(n - 1) |-> 0]],
           [i \in 1..RxCount |-> i])

\* VirtioNetDevice::init for a device with queues of nrx and ntx descriptors; bar
\* and mem say whether an I/O BAR is found and the buffers can be allocated.
DeviceOk(nrx, ntx, bar, mem) == bar /\ nrx > 0 /\ ntx > 0 /\ mem

DeviceInit(c, nrx, ntx) ==
  LET p == PostBuffers(nrx)
  IN [c EXCEPT !.rx = p.rx, !.addr = p.addr, !.tx = QueueInit(ntx),
               !.buf = [b \in 0..(RxCount - 1) |-> NoFrame]]

\* wait_for_completion: used entries are passed over up to the one for d.
WaitForCompletion(q, d) ==
  FoldLeft(LAMBDA a, i : IF a.ok \/ ~HasUsedBuffer(a.q) THEN a
                         ELSE [ok |-> UsedHead(a.q) = d, q |-> PopUsedBuffer(a.q)],
           [ok |-> FALSE, q |-> q], [i \in 1..IdxMod |-> i])

\* External: the device sends what every chain it has not yet seen points to.
\* All of them point to the one transmit buffer, which holds frame.
DeviceTransmit(c, frame) ==
  LET owed == [i \in 1..((c.tx.aidx - c.tseen) % IdxMod) |-> c.tseen + i - 1]
  IN IF c.late THEN c
     ELSE [c EXCEPT !.tx = FoldLeft(LAMBDA q, i : DeviceUsed(q, q.avail[i % q.size]), @, owed),
                    !.tseen = c.tx.aidx,
                    !.out = @ \o [i \in DOMAIN owed |-> frame]]

\* transmit: the frame is copied to the transmit buffer, submitted and waited for;
\* the descriptor goes back whether it was sent or not.
Transmit(c, frame) ==
  LET a == AllocDescriptor(c.tx)
      s == [c EXCEPT !.tx = SubmitDescriptorChain(Link(a.q, <<a.d>>), a.d)]
  IN IF a.d < 0 THEN c
     ELSE The({[t EXCEPT !.tx = FreeDescriptorChain(WaitForCompletion(@, a.d).q, a.d)] :
                 t \in {DeviceTransmit(s, frame)}})

\* External: the device receives a frame if it has a descriptor for it.
CanReceive(c) == c.rseen # c.rx.aidx
DeviceReceive(c, frame) ==
  LET d == c.rx.avail[c.rseen % c.rx.size]
  IN [c EXCEPT !.rseen = (@ + 1) % IdxMod, !.buf[c.addr[d]] = frame,
               !.rx = DeviceUsed(@, d)]

\* The end of poll_rx: the descriptor is posted again, for its buffer to be filled anew.
Repost(c, d) ==
  [c EXCEPT !.addr[d] = d % RxCount, !.buf[d % RxCount] = NoFrame,
            !.rx = SubmitDescriptorChain(Link(PopUsedBuffer(@), <<d>>), d)]

\* Mutant: a buffer with nothing but a header in it is not posted again.
PollRxDropsEmpty(c) ==
  LET d == UsedHead(c.rx)
      f == c.buf[d % RxCount]
  IN IF ~HasUsedBuffer(c.rx) THEN [c |-> c, frame |-> NoFrame]
     ELSE IF f = NoFrame THEN [c |-> [c EXCEPT !.rx = PopUsedBuffer(@)], frame |-> f]
     ELSE [c |-> Repost(c, d), frame |-> f]

\* poll_rx: [c, frame]; no frame means a length of 0, which is also the answer
\* for a buffer with nothing but a header in it.
PollRx(c) ==
  LET d == UsedHead(c.rx)
  IN IF ~HasUsedBuffer(c.rx) THEN [c |-> c, frame |-> NoFrame]
     ELSE [c |-> Repost(c, d), frame |-> c.buf[d % RxCount]]

------------------------------------------------------------------------------

\* The descriptors the device may still fill and those it has filled.
Posted(c) == {c.rx.avail[i % c.rx.size] : i \in c.rseen..(c.rseen + ((c.rx.aidx - c.rseen) % IdxMod) - 1)}
Filled(c) == {c.rx.used[i % c.rx.size] : i \in c.rx.last..(c.rx.last + ((c.rx.uidx - c.rx.last) % IdxMod) - 1)}

==============================================================================
