---------------------------- MODULE BootProofs ------------------------------
(***************************************************************************)
(* The keyboard event queue of the running kernel is a first-in first-out  *)
(* queue for every capacity and index width.                               *)
(***************************************************************************)
EXTENDS Boot, SequenceTheorems, TLAPS

\* A remainder below twice the modulus is reached by one subtraction.
LEMMA SmallMod ==
  \A n \in Nat \ {0}, x \in Nat :
    x < 2 * n => x % n = IF x < n THEN x ELSE x - n
<1> SUFFICES ASSUME NEW n \in Nat \ {0}, NEW x \in Nat, x < 2 * n
             PROVE  x % n = IF x < n THEN x ELSE x - n
  OBVIOUS
<1>1. CASE x < n
  BY <1>1
<1>2. CASE ~(x < n)
  BY <1>2
<1> QED  BY <1>1, <1>2

\* Quotient and remainder.
LEMMA Split ==
  ASSUME NEW n \in Nat \ {0}, NEW x \in Nat
  PROVE  /\ x % n \in 0..(n - 1) /\ x \div n \in Nat
         /\ x = n * (x \div n) + (x % n)
OBVIOUS

\* A positive multiple of n is at least n.
LEMMA Scale ==
  ASSUME NEW n \in Nat \ {0}, NEW d \in Int, d >= 1
  PROVE  n * d >= n
OBVIOUS

\* The remainder of a multiple of n plus r is r.
LEMMA Remainder ==
  ASSUME NEW n \in Nat \ {0}, NEW a \in Nat, NEW r \in 0..(n - 1)
  PROVE  (n * a + r) % n = r
<1> DEFINE x == n * a + r
           b == x \div n
           s == x % n
<1>1. x \in Nat
  OBVIOUS
<1> HIDE DEF x
<1>2. s \in 0..(n - 1) /\ b \in Nat /\ x = n * b + s
  BY <1>1, Split
<1> HIDE DEF b, s
<1>3. n * (a - b) = s - r /\ n * (b - a) = r - s
  BY <1>2 DEF x
<1>4. ~(a - b >= 1)
  BY <1>2, <1>3, Scale
<1>5. ~(b - a >= 1)
  BY <1>2, <1>3, Scale
<1>6. a = b
  BY <1>2, <1>4, <1>5
<1> QED  BY <1>2, <1>6 DEF x, s

\* The slot i places behind the slot of t wraps at most once.
LEMMA Place ==
  ASSUME NEW n \in Nat \ {0}, NEW t \in Nat, NEW i \in 0..n
  PROVE  (t + i) % n = IF (t % n) + i < n THEN (t % n) + i ELSE (t % n) + i - n
<1> DEFINE a == t \div n
           r == t % n
<1>1. r \in 0..(n - 1) /\ a \in Nat /\ t = n * a + r
  BY Split
<1> HIDE DEF a, r
<1>2. CASE r + i < n
  <2>1. r + i \in 0..(n - 1) /\ t + i = n * a + (r + i)
    BY <1>1, <1>2
  <2>2. (n * a + (r + i)) % n = r + i
    BY <1>1, <2>1, Remainder
  <2> QED  BY <1>2, <2>1, <2>2 DEF r
<1>3. CASE ~(r + i < n)
  <2>1. r + i - n \in 0..(n - 1) /\ a + 1 \in Nat /\ t + i = n * (a + 1) + (r + i - n)
    BY <1>1, <1>3
  <2>2. (n * (a + 1) + (r + i - n)) % n = r + i - n
    BY <2>1, Remainder
  <2> QED  BY <1>3, <2>1, <2>2 DEF r
<1> QED  BY <1>2, <1>3

\* Indices that wrap at a multiple of the capacity stay at the same place.
LEMMA Period ==
  ASSUME NEW n \in Nat \ {0}, NEW m \in Nat, m % n = 0, NEW y \in Nat
  PROVE  (m + y) % n = y % n
<1> DEFINE q == m \div n
           a == y \div n
           r == y % n
<1>1. q \in Nat /\ m = n * q
  BY Split
<1>2. r \in 0..(n - 1) /\ a \in Nat /\ y = n * a + r
  BY Split
<1> HIDE DEF q, a, r
<1>3. m + y = n * (q + a) + r /\ q + a \in Nat
  BY <1>1, <1>2
<1>4. (n * (q + a) + r) % n = r
  BY <1>2, <1>3, Remainder
<1> QED  BY <1>3, <1>4 DEF r

\* The distance of two indices below m, in arithmetic modulo m.
LEMMA Distance ==
  ASSUME NEW m \in Nat \ {0}, NEW h \in 0..(m - 1), NEW t \in 0..(m - 1)
  PROVE  (h - t) % m = IF h >= t THEN h - t ELSE h - t + m
<1>1. CASE h >= t
  <2>1. h - t \in Nat /\ h - t < m /\ h - t < 2 * m
    BY <1>1
  <2> QED  BY <1>1, <2>1
<1>2. CASE ~(h >= t)
  <2>1. h - t < 0 /\ h - t + m \in 0..(m - 1)
    BY <1>2
  <2> QED  BY <1>2, <2>1
<1> QED  BY <1>1, <1>2

\* The index k behind t, wrapped at IdxMod, stands at the place of t + k.
LEMMA IndexPlace ==
  ASSUME NEW t \in 0..(IdxMod - 1), NEW k \in 0..Capacity
  PROVE  /\ (t + k) % IdxMod \in 0..(IdxMod - 1)
         /\ ((t + k) % IdxMod) % Capacity = (t + k) % Capacity
<1> DEFINE x == t + k
<1>1. x \in Nat /\ x < 2 * IdxMod /\ IdxMod \in Nat \ {0} /\ Capacity \in Nat \ {0}
        /\ IdxMod % Capacity = 0 /\ Capacity < IdxMod
  BY CapacityAssumption
<1> HIDE DEF x
<1>2. x % IdxMod = IF x < IdxMod THEN x ELSE x - IdxMod
  BY <1>1, SmallMod
<1>3. CASE x < IdxMod
  BY <1>1, <1>2, <1>3 DEF x
<1>4. CASE ~(x < IdxMod)
  <2> DEFINE y == x - IdxMod
  <2>1. y \in Nat /\ x = IdxMod + y /\ y \in 0..(IdxMod - 1)
    BY <1>1, <1>4
  <2> HIDE DEF y
  <2>2. (IdxMod + y) % Capacity = y % Capacity
    BY <1>1, <2>1, Period
  <2>3. x % IdxMod = y
    BY <1>1, <1>2, <1>4 DEF y
  <2> QED  BY <2>1, <2>2, <2>3 DEF x
<1> QED  BY <1>3, <1>4

------------------------------------------------------------------------------
(* The queue.  Holds(r, p): the ring r stands for the sequence p.          *)

Modes == [shift : BOOLEAN, ctrl : BOOLEAN, alt : BOOLEAN, caps : BOOLEAN]
KeyNames == {"lshift", "rshift", "lctrl", "rctrl", "lalt", "ralt", "caps", "a",
             "enter", "up", "unknown"}
States == {"normal", "E0", "E1_1", "E1_2"}
Events == [key : KeyNames, press : BOOLEAN, mods : Modes]
Decoders == [state : States, down : SUBSET KeyNames, caps : BOOLEAN]
Rings == [buffer : [0..(Capacity - 1) -> Events],
          head : 0..(IdxMod - 1), tail : 0..(IdxMod - 1)]

Holds(r, p) ==
  /\ r \in Rings
  /\ p \in Seq(Events)
  /\ Len(p) <= Capacity
  /\ r.head = (r.tail + Len(p)) % IdxMod
  /\ \A i \in 1..Len(p) : r.buffer[(r.tail + i - 1) % Capacity] = p[i]

\* The number of events is the distance of the indices, also after they wrapped.
LEMMA CountIsLength ==
  ASSUME NEW r, NEW p, Holds(r, p)
  PROVE  Count(r) = Len(p)
<1> DEFINE t == r.tail
           h == r.head
           n == Len(p)
<1>1. /\ t \in 0..(IdxMod - 1) /\ h \in 0..(IdxMod - 1) /\ n \in Nat /\ n <= Capacity
      /\ h = (t + n) % IdxMod
  BY LenProperties DEF Holds, Rings
<1> HIDE DEF t, h, n
<1>2. t + n \in Nat /\ t + n < 2 * IdxMod /\ IdxMod \in Nat \ {0} /\ n < IdxMod
  BY <1>1, CapacityAssumption
<1>3. h = IF t + n < IdxMod THEN t + n ELSE t + n - IdxMod
  <2> DEFINE x == t + n
  <2>1. x \in Nat /\ x < 2 * IdxMod
    BY <1>2
  <2> HIDE DEF x
  <2>2. x % IdxMod = IF x < IdxMod THEN x ELSE x - IdxMod
    BY <1>2, <2>1, SmallMod
  <2> QED  BY <1>1, <1>2, <2>2 DEF x
<1>4. (h - t) % IdxMod = IF h >= t THEN h - t ELSE h - t + IdxMod
  BY <1>1, <1>2, Distance
<1>5. (h - t) % IdxMod = n
  BY <1>1, <1>2, <1>3, <1>4
<1> QED  BY <1>5 DEF Count, h, t, n

\* push puts an event behind the others unless the ring is full.
LEMMA PushHolds ==
  ASSUME NEW r, NEW p, Holds(r, p), NEW e \in Events, ~IsFull(r)
  PROVE  Holds(Push(r, e), Append(p, e))
<1> DEFINE t == r.tail
           h == r.head
           n == Len(p)
           at == h % Capacity
           q == Append(p, e)
           s == Push(r, e)
<1>1. /\ t \in 0..(IdxMod - 1) /\ h \in 0..(IdxMod - 1) /\ n \in Nat
      /\ h = (t + n) % IdxMod
  BY LenProperties DEF Holds, Rings
<1>2. n < Capacity
  <2>1. Count(r) = n
    BY CountIsLength
  <2> QED  BY <1>1, <2>1, CapacityAssumption DEF IsFull
<1>3. /\ q \in Seq(Events) /\ Len(q) = n + 1
      /\ \A i \in 1..n : q[i] = p[i]
      /\ q[n + 1] = e
  BY AppendProperties DEF Holds
<1>4. /\ s.buffer = [r.buffer EXCEPT ![at] = e]
      /\ s.head = (h + 1) % IdxMod /\ s.tail = t
      /\ s \in [buffer : {s.buffer}, head : {s.head}, tail : {s.tail}]
  BY DEF Push, Holds, Rings
<1>5. n \in 0..Capacity /\ t \in Nat /\ Capacity \in Nat \ {0} /\ IdxMod \in Nat \ {0}
        /\ Capacity < IdxMod
  BY <1>1, <1>2, CapacityAssumption
<1>6. at = (t + n) % Capacity
  BY <1>1, <1>5, IndexPlace
<1> HIDE DEF t, h, n, at, q, s
<1>7. at \in 0..(Capacity - 1)
  BY <1>1, <1>5, <1>6, Split
<1>8. s.head = (t + (n + 1)) % IdxMod /\ s.head \in 0..(IdxMod - 1)
  <2> DEFINE x == t + n
             y == t + (n + 1)
             z == h + 1
  <2>1. x \in Nat /\ x < 2 * IdxMod /\ y \in Nat /\ y < 2 * IdxMod /\ y = x + 1
          /\ z \in Nat /\ z < 2 * IdxMod
    BY <1>1, <1>2, <1>5
  <2> HIDE DEF x, y
  <2>2. x % IdxMod = IF x < IdxMod THEN x ELSE x - IdxMod
    BY <1>5, <2>1, SmallMod
  <2>3. y % IdxMod = IF y < IdxMod THEN y ELSE y - IdxMod
    BY <1>5, <2>1, SmallMod
  <2>4. h = x % IdxMod
    BY <1>1 DEF x
  <2>9. y < 2 * IdxMod - 1 /\ h < IdxMod /\ h \in Nat
    BY <1>1, <1>2, <1>5 DEF y
  <2> HIDE DEF z
  <2>5. z % IdxMod = IF z < IdxMod THEN z ELSE z - IdxMod
    BY <1>5, <2>1, SmallMod
  <2>6. z = h + 1
    BY DEF z
  <2>7. z % IdxMod = y % IdxMod
    BY <1>5, <2>1, <2>2, <2>3, <2>4, <2>5, <2>6, <2>9
  <2>8. y % IdxMod \in 0..(IdxMod - 1)
    BY <1>5, <2>1, Split
  <2> QED  BY <1>4, <2>6, <2>7, <2>8 DEF y
<1>9. s \in Rings
  <2>1. s.buffer \in [0..(Capacity - 1) -> Events]
    BY <1>4, <1>7 DEF Holds, Rings
  <2> QED  BY <1>1, <1>4, <1>8, <2>1 DEF Rings
<1>10. \A i \in 1..(n + 1) : s.buffer[(t + i - 1) % Capacity] = q[i]
  <2> SUFFICES ASSUME NEW i \in 1..(n + 1)
               PROVE  s.buffer[(t + i - 1) % Capacity] = q[i]
    OBVIOUS
  <2>0. t + i - 1 = t + (i - 1) /\ i - 1 \in 0..Capacity /\ t + i - 1 \in Nat
    BY <1>1, <1>2, <1>5
  <2>1. CASE i = n + 1
    <3>1. t + i - 1 = t + n
      BY <1>1, <1>5, <2>1
    <3> QED  BY <1>3, <1>4, <1>6, <1>7, <2>1, <3>1 DEF Holds, Rings
  <2>2. CASE i # n + 1
    <3>1. i \in 1..n
      BY <1>1, <2>2
    <3>2. (t + (i - 1)) % Capacity = IF (t % Capacity) + (i - 1) < Capacity
                                     THEN (t % Capacity) + (i - 1)
                                     ELSE (t % Capacity) + (i - 1) - Capacity
      BY <1>5, <2>0, Place
    <3>3. (t + n) % Capacity = IF (t % Capacity) + n < Capacity THEN (t % Capacity) + n
                               ELSE (t % Capacity) + n - Capacity
      BY <1>5, Place
    <3>4. t % Capacity \in 0..(Capacity - 1)
      BY <1>5, Split
    <3>5. (t + (i - 1)) % Capacity # at
      BY <1>1, <1>2, <1>5, <1>6, <3>1, <3>2, <3>3, <3>4
    <3>6. (t + (i - 1)) % Capacity \in 0..(Capacity - 1)
      BY <1>5, <2>0, Split
    <3>7. s.buffer[(t + i - 1) % Capacity] = r.buffer[(t + i - 1) % Capacity]
      BY <1>4, <2>0, <3>5, <3>6 DEF Holds, Rings
    <3>8. r.buffer[(t + i - 1) % Capacity] = p[i]
      BY <3>1 DEF Holds, t, n
    <3> QED  BY <1>3, <3>1, <3>7, <3>8
  <2> QED  BY <2>1, <2>2
<1>11. Holds(s, q)
  BY <1>1, <1>2, <1>3, <1>4, <1>5, <1>8, <1>9, <1>10 DEF Holds
<1> QED  BY <1>11 DEF s, q

\* The last access of pop takes the oldest event off.
LEMMA AdvanceHolds ==
  ASSUME NEW r, NEW p, Holds(r, p), p # <<>>
  PROVE  Holds([r EXCEPT !.tail = (r.tail + 1) % IdxMod], Tail(p))
<1> DEFINE t == r.tail
           u == (r.tail + 1) % IdxMod
           n == Len(p)
           q == Tail(p)
           s == [r EXCEPT !.tail = (r.tail + 1) % IdxMod]
<1>1. /\ t \in 0..(IdxMod - 1) /\ n \in Nat \ {0} /\ n <= Capacity
      /\ r.head = (t + n) % IdxMod
  BY EmptySeq DEF Holds, Rings
<1>2. /\ q \in Seq(Events) /\ Len(q) = n - 1
      /\ \A i \in 1..(n - 1) : q[i] = p[i + 1]
  BY HeadTailProperties DEF Holds
<1>3. s.buffer = r.buffer /\ s.head = r.head /\ s.tail = u
  BY DEF Holds, Rings
<1>4. /\ Capacity \in Nat \ {0} /\ IdxMod \in Nat \ {0}
      /\ Capacity < IdxMod /\ IdxMod % Capacity = 0
  BY CapacityAssumption
<1>5. u \in 0..(IdxMod - 1)
  <2>1. 1 \in 0..Capacity
    BY <1>4
  <2> QED  BY <1>1, <2>1, IndexPlace
<1>6. s \in Rings
  BY <1>5 DEF Holds, Rings
<1>7. u = IF t + 1 < IdxMod THEN t + 1 ELSE 0
  <2> DEFINE x == t + 1
  <2>1. x \in Nat /\ x < 2 * IdxMod /\ (x < IdxMod \/ x = IdxMod)
    BY <1>1, <1>4
  <2> HIDE DEF x
  <2>2. x % IdxMod = IF x < IdxMod THEN x ELSE x - IdxMod
    BY <1>4, <2>1, SmallMod
  <2>3. x % IdxMod = IF x < IdxMod THEN x ELSE 0
    BY <1>4, <2>1, <2>2
  <2>4. t \in Int
    BY <1>1, <1>4
  <2> QED  BY <2>3, <2>4, <1>4 DEF x
<1> HIDE DEF t, u, n, q, s
<1>8. r.head = (u + (n - 1)) % IdxMod
  <2>1. CASE t + 1 < IdxMod
    <3>1. u + (n - 1) = t + n
      BY <1>1, <1>7, <2>1
    <3> QED  BY <1>1, <3>1
  <2>2. CASE ~(t + 1 < IdxMod)
    <3> DEFINE x == t + n
    <3>1. u + (n - 1) = n - 1 /\ x = IdxMod + (n - 1) /\ n - 1 < IdxMod /\ n - 1 \in Nat
            /\ x \in Nat /\ x < 2 * IdxMod
      BY <1>1, <1>4, <1>7, <2>2
    <3> HIDE DEF x
    <3>2. x % IdxMod = IF x < IdxMod THEN x ELSE x - IdxMod
      BY <1>4, <3>1, SmallMod
    <3>3. x % IdxMod = n - 1
      BY <1>1, <1>4, <3>1, <3>2
    <3>4. (n - 1) % IdxMod = n - 1
      BY <1>4, <3>1
    <3> QED  BY <1>1, <3>1, <3>3, <3>4 DEF x
  <2> QED  BY <2>1, <2>2
<1>9. \A i \in 1..(n - 1) : s.buffer[(u + i - 1) % Capacity] = q[i]
  <2> SUFFICES ASSUME NEW i \in 1..(n - 1)
               PROVE  s.buffer[(u + i - 1) % Capacity] = q[i]
    OBVIOUS
  <2>1. i + 1 \in 1..n
    BY <1>1
  <2>2. (u + i - 1) % Capacity = (t + (i + 1) - 1) % Capacity
    <3>1. CASE t + 1 < IdxMod
      <4>1. u + i - 1 = t + (i + 1) - 1
        BY <1>1, <1>7, <3>1
      <4> QED  BY <4>1
    <3>2. CASE ~(t + 1 < IdxMod)
      <4>1. u + i - 1 = i - 1 /\ t + (i + 1) - 1 = IdxMod + (i - 1) /\ i - 1 \in Nat
        BY <1>1, <1>4, <1>7, <3>2
      <4>2. (IdxMod + (i - 1)) % Capacity = (i - 1) % Capacity
        BY <1>4, <4>1, Period
      <4> QED  BY <4>1, <4>2
    <3> QED  BY <3>1, <3>2
  <2>3. r.buffer[(t + (i + 1) - 1) % Capacity] = p[i + 1]
    BY <2>1 DEF Holds, t, n
  <2> QED  BY <1>2, <1>3, <2>2, <2>3
<1>10. n - 1 <= Capacity
  BY <1>1, <1>4
<1>11. Holds(s, q)
  BY <1>2, <1>3, <1>6, <1>8, <1>9, <1>10 DEF Holds
<1> QED  BY <1>11 DEF s, q

\* The oldest event is the one at the tail.
LEMMA OldestAtTail ==
  ASSUME NEW r, NEW p, Holds(r, p), p # <<>>
  PROVE  p[1] \in Events /\ r.buffer[r.tail % Capacity] = p[1]
<1>1. Len(p) \in Nat \ {0} /\ r.tail \in Int
  BY EmptySeq, CapacityAssumption DEF Holds, Rings
<1>2. 1 \in 1..Len(p) /\ r.tail + 1 - 1 = r.tail
  BY <1>1
<1> QED  BY <1>2 DEF Holds

\* The indices of an empty ring are equal, so pop that sees them differ has an event.
LEMMA EmptyHasEqualIndices ==
  ASSUME NEW r, NEW p, Holds(r, p), p = <<>>
  PROVE  r.tail = r.head
<1>1. Len(p) = 0 /\ r.tail \in 0..(IdxMod - 1) /\ r.head = (r.tail + Len(p)) % IdxMod
  BY DEF Holds, Rings
<1>2. r.head = r.tail % IdxMod
  BY <1>1, CapacityAssumption
<1> QED  BY <1>1, <1>2, CapacityAssumption

\* What the decoder makes of a byte: no event or one.
LEMMA ByteDecoded ==
  ASSUME NEW d \in Decoders, NEW byte
  PROVE  LET x == ProcessByte(d, byte)
         IN /\ x.d \in Decoders
            /\ x.ev = <<>> \/ \E e \in Events : x.ev = <<e>>
<1> DEFINE release == byte >= 128
           key == IF d.state = "normal" THEN MapNormal(byte % 128) ELSE MapExtended(byte % 128)
           after == Keyed(d, key, release)
           event == [key |-> key, press |-> ~release, mods |-> CurrentModifiers(after)]
           silent(s) == [d |-> [d EXCEPT !.state = s], ev |-> <<>>]
           x == ProcessByte(d, byte)
<1>1. ASSUME NEW c PROVE MapNormal(c) \in KeyNames /\ MapExtended(c) \in KeyNames
  <2>1. MapNormal(c) \in KeyNames
    BY DEF MapNormal, KeyNames
  <2>2. MapExtended(c) \in KeyNames
    BY DEF MapExtended, KeyNames
  <2> QED  BY <2>1, <2>2
<1>2. key \in KeyNames
  BY <1>1
<1> HIDE DEF key
<1>3. after \in Decoders
  <2>1. d.down \subseteq KeyNames /\ d.caps \in BOOLEAN
    BY DEF Decoders
  <2>2. (IF key = "caps" /\ ~release THEN ~d.caps ELSE d.caps) \in BOOLEAN
    BY <2>1, Zenon
  <2>3. (IF key \notin Modifiers THEN d.down
         ELSE IF release THEN d.down \ {key} ELSE d.down \cup {key}) \in SUBSET KeyNames
    BY <1>2, <2>1
  <2>4. "normal" \in States
    BY DEF States
  <2> QED  BY <2>2, <2>3, <2>4, Zenon DEF Keyed, Decoders
<1> HIDE DEF after
<1>4. CurrentModifiers(after) \in Modes
  BY <1>3, Zenon DEF CurrentModifiers, Modes, Decoders
<1>5. event \in Events
  BY <1>2, <1>4 DEF Events
<1>6. x = silent("E0") \/ x = silent("E1_1") \/ x = silent("E1_2") \/ x = silent("normal")
        \/ x = [d |-> after, ev |-> <<event>>]
  BY DEF ProcessByte, key, after
<1> HIDE DEF x, event
<1>7. \A s \in States : silent(s).d \in Decoders /\ silent(s).ev = <<>>
  BY DEF Decoders
<1> HIDE DEF silent
<1>8. x.d \in Decoders /\ (x.ev = <<>> \/ \E e \in Events : x.ev = <<e>>)
  <2>1. CASE x = [d |-> after, ev |-> <<event>>]
    BY <1>3, <1>5, <2>1
  <2>2. CASE x = silent("E0") \/ x = silent("E1_1") \/ x = silent("E1_2")
               \/ x = silent("normal")
    <3>1. "E0" \in States /\ "E1_1" \in States /\ "E1_2" \in States /\ "normal" \in States
      BY DEF States
    <3> QED  BY <1>7, <2>2, <3>1, Zenon
  <2> QED  BY <1>6, <2>1, <2>2
<1> QED  BY <1>8 DEF x

------------------------------------------------------------------------------
(* The inductive invariant: the ring stands for pend, and what the consumer *)
(* inside pop has read is still true when it uses it.                       *)

Consumers == [at : {"idle", "head", "copy", "advance"}, tail : 0..(IdxMod - 1), ev : Events]

ConsumerInv ==
  /\ con \in Consumers
  /\ con.at # "idle" => con.tail = ring.tail /\ pc \in {"run", "off"}
  /\ con.at \in {"copy", "advance"} => pend # <<>>
  /\ con.at = "advance" => con.ev = pend[1]

QInv == Holds(ring, pend) /\ dec \in Decoders /\ ConsumerInv

\* What Keyboard::init resets to is an empty queue and an idle decoder.
LEMMA Reset ==
  /\ NoDecoder \in Decoders /\ Idle \in Consumers /\ Idle.at = "idle"
  /\ Holds(EmptyRing, <<>>)
<1>1. /\ Capacity \in Nat \ {0} /\ IdxMod \in Nat \ {0} /\ 0 \in 0..(IdxMod - 1)
      /\ (0 + 0) % IdxMod = 0
  BY CapacityAssumption
<1>2. NoDecoder \in Decoders
  BY DEF NoDecoder, Decoders, States
<1>3. CurrentModifiers(NoDecoder) \in Modes
  <2>1. NoDecoder.caps \in BOOLEAN
    BY <1>2 DEF Decoders
  <2> QED  BY <2>1, Zenon DEF CurrentModifiers, Modes
<1>4. NoEvent \in Events
  BY <1>3 DEF NoEvent, Events, KeyNames
<1> HIDE DEF NoEvent
<1>5. Idle \in Consumers /\ Idle.at = "idle"
  BY <1>1, <1>4 DEF Idle, Consumers
<1>6. EmptyRing \in Rings /\ EmptyRing.head = 0 /\ EmptyRing.tail = 0
  BY <1>1, <1>4 DEF EmptyRing, Rings
<1>7. <<>> \in Seq(Events) /\ Len(<<>>) = 0
  OBVIOUS
<1>8. Holds(EmptyRing, <<>>)
  BY <1>1, <1>6, <1>7 DEF Holds
<1> QED  BY <1>2, <1>5, <1>8

\* The kernel starts with an empty queue and nobody inside pop.
LEMMA InitInv == Init => QInv
<1> SUFFICES ASSUME Init PROVE QInv
  OBVIOUS
<1>1. ring = EmptyRing /\ pend = <<>> /\ dec = NoDecoder /\ con = Idle
  BY DEF Init, InputInit
<1> QED  BY <1>1, Reset DEF QInv, ConsumerInv

\* The interrupt handler, wherever the consumer stands.
LEMMA IrqInv ==
  ASSUME QInv, Irq1
  PROVE  QInv'
<1> DEFINE p == ProcessByte(dec, Head(wire))
<1>1. /\ dec' = p.d /\ con' = con /\ pc' = pc
      /\ ring' = IF p.ev = <<>> THEN ring ELSE Push(ring, p.ev[1])
      /\ pend' = IF p.ev = <<>> \/ IsFull(ring) THEN pend ELSE pend \o p.ev
  BY DEF Irq1, HandleInterrupt, bootVars
<1>2. p.d \in Decoders /\ (p.ev = <<>> \/ \E e \in Events : p.ev = <<e>>)
  BY ByteDecoded DEF QInv
<1> HIDE DEF p
<1>3. CASE p.ev = <<>> \/ IsFull(ring)
  <2>1. ring' = ring /\ pend' = pend
    BY <1>1, <1>3 DEF Push
  <2> QED  BY <1>1, <1>2, <2>1 DEF QInv, ConsumerInv
<1>4. CASE p.ev # <<>> /\ ~IsFull(ring)
  <2>1. PICK e \in Events : p.ev = <<e>>
    BY <1>2, <1>4
  <2>2. pend \in Seq(Events) /\ Holds(ring, pend)
    BY DEF QInv, Holds
  <2>3. pend' = Append(pend, e) /\ ring' = Push(ring, e)
    BY <1>1, <1>4, <2>1, <2>2, AppendIsConcat
  <2>4. Holds(ring', pend')
    BY <1>4, <2>2, <2>3, PushHolds
  <2>5. ring'.tail = ring.tail
    BY <2>2, <2>3 DEF Push, Holds, Rings
  <2>6. pend' # <<>> /\ (pend # <<>> => pend'[1] = pend[1])
    <3>1. pend' # <<>>
      BY <2>2, <2>3, AppendProperties
    <3>2. pend # <<>> => 1 \in 1..Len(pend)
      BY <2>2, EmptySeq
    <3> QED  BY <2>2, <2>3, <3>1, <3>2, AppendProperties
  <2> QED  BY <1>1, <1>2, <2>4, <2>5, <2>6 DEF QInv, ConsumerInv
<1> QED  BY <1>3, <1>4

\* The accesses of pop, between any of which the handler may have run.
LEMMA ConsumeInv ==
  ASSUME QInv, Consume
  PROVE  QInv'
<1>0. pc' = pc /\ pc = "run"
  BY DEF Consume, Running, bootVars
<1>1. CASE PopTail
  <2>1. con' = [con EXCEPT !.at = "head", !.tail = ring.tail]
          /\ ring' = ring /\ pend' = pend /\ dec' = dec
    BY <1>1 DEF PopTail
  <2>2. ring.tail \in 0..(IdxMod - 1)
    BY DEF QInv, Holds, Rings
  <2> QED  BY <1>0, <2>1, <2>2 DEF QInv, ConsumerInv, Consumers
<1>2. CASE PopHead
  <2>1. con.at = "head" /\ ring' = ring /\ pend' = pend /\ dec' = dec
          /\ con' = IF con.tail = ring.head THEN Idle ELSE [con EXCEPT !.at = "copy"]
    BY <1>2 DEF PopHead
  <2>2. CASE con.tail = ring.head
    BY <1>0, <2>1, <2>2, Reset DEF QInv, ConsumerInv
  <2>3. CASE con.tail # ring.head
    <3>1. pend # <<>>
      BY <2>1, <2>3, EmptyHasEqualIndices DEF QInv, ConsumerInv
    <3> QED  BY <1>0, <2>1, <2>3, <3>1 DEF QInv, ConsumerInv, Consumers
  <2> QED  BY <2>2, <2>3
<1>3. CASE PopCopy
  <2>1. con.at = "copy" /\ ring' = ring /\ pend' = pend /\ dec' = dec
          /\ con' = [con EXCEPT !.at = "advance", !.ev = ring.buffer[con.tail % Capacity]]
    BY <1>3 DEF PopCopy
  <2>2. pend # <<>> /\ con.tail = ring.tail
    BY <2>1 DEF QInv, ConsumerInv
  <2>3. ring.buffer[con.tail % Capacity] = pend[1] /\ pend[1] \in Events
    BY <2>2, OldestAtTail DEF QInv
  <2> QED  BY <1>0, <2>1, <2>2, <2>3 DEF QInv, ConsumerInv, Consumers
<1>4. CASE PopAdvance
  <2>1. con.at = "advance" /\ con' = Idle /\ dec' = dec /\ pend' = Tail(pend)
          /\ ring' = [ring EXCEPT !.tail = (con.tail + 1) % IdxMod]
    BY <1>4 DEF PopAdvance
  <2>2. pend # <<>> /\ con.tail = ring.tail
    BY <2>1 DEF QInv, ConsumerInv
  <2>3. Holds(ring', pend')
    BY <2>1, <2>2, AdvanceHolds DEF QInv
  <2> QED  BY <2>1, <2>3, Reset DEF QInv, ConsumerInv
<1> QED  BY <1>1, <1>2, <1>3, <1>4 DEF Consume

\* A step that leaves the decoder, the queue and the consumer alone and starts no
\* earlier phase of the boot.
LEMMA SameInv ==
  ASSUME QInv, UNCHANGED <<dec, ring, con, pend>>,
         pc' = pc \/ pc \notin {"run", "off"} \/ pc' \in {"run", "off"}
  PROVE  QInv'
BY DEF QInv, ConsumerInv

\* Every step of the boot and of the running kernel keeps the invariant.
LEMMA NextInv == QInv /\ [Next]_vars => QInv'
<1> SUFFICES ASSUME QInv, [Next]_vars PROVE QInv'
  OBVIOUS
<1>1. CASE StartParse \/ ParseNextTag \/ TrackRegions
  BY <1>1, SameInv DEF StartParse, ParseNextTag, TrackRegions, inputVars
<1>2. CASE NoMemory \/ NoPlace
  BY <1>2, SameInv DEF NoMemory, NoPlace, Panic, inputVars
<1>3. CASE PmmInit
  BY <1>3, SameInv DEF PmmInit, inputVars
<1>4. CASE StartController
  BY <1>4, SameInv DEF StartController, Ps2Init
<1>5. CASE RetryController
  BY <1>5, SameInv DEF RetryController, Ps2Init
<1>6. CASE StartKeyboard
  <2>1. dec' = NoDecoder /\ ring' = EmptyRing /\ pend' = <<>> /\ con' = con
          /\ pc = "keyboard" /\ pc' = "run"
    BY <1>6 DEF StartKeyboard, KeyboardInit
  <2>2. con.at = "idle" /\ con \in Consumers
    BY <2>1 DEF QInv, ConsumerInv
  <2> QED  BY <2>1, <2>2, Reset DEF QInv, ConsumerInv
<1>7. CASE TestExit
  BY <1>7, SameInv DEF TestExit, inputVars
<1>8. CASE Typing
  BY <1>8, SameInv DEF Typing, KeyDown, KeyUp, bootVars
<1>9. CASE Irq1
  BY <1>9, IrqInv
<1>10. CASE Consume
  BY <1>10, ConsumeInv
<1>11. CASE UNCHANGED vars
  BY <1>11, SameInv DEF vars, bootVars, inputVars
<1> QED  BY <1>1, <1>2, <1>3, <1>4, <1>5, <1>6, <1>7, <1>8, <1>9, <1>10, <1>11 DEF Next

\* The lock-free queue of input_queue.hpp delivers the accepted key events once
\* each and in order although IRQ 1 pushes between any two accesses of pop: for
\* every capacity and every index width that is a larger multiple of it, so also
\* when m_head and m_tail wrap.
THEOREM QueueCorrect == Spec => []EventsInOrder
<1>1. QInv => EventsInOrder
  <2> SUFFICES ASSUME QInv PROVE EventsInOrder
    OBVIOUS
  <2>1. Count(ring) = Len(pend)
    BY CountIsLength DEF QInv
  <2>2. Len(pend) <= Capacity /\ DOMAIN pend = 1..Len(pend)
          /\ \A i \in 1..Len(pend) : ring.buffer[(ring.tail + i - 1) % Capacity] = pend[i]
    BY LenProperties DEF QInv, Holds
  <2> QED  BY <2>1, <2>2 DEF EventsInOrder, QInv, ConsumerInv
<1> QED  BY <1>1, InitInv, NextInv, PTL DEF Spec

==============================================================================
