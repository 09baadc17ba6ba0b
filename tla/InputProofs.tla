---------------------------- MODULE InputProofs ----------------------------
(***************************************************************************)
(* What is proved of the parts that read and measure: the ring buffer is   *)
(* the queue it is meant to be (RingIsQueue), and the time series knows    *)
(* whether the minima of the buffer level have fallen (SeriesIsRight).     *)
(***************************************************************************)
EXTENDS RingBuffer, Measurements, SequenceTheorems, WellFoundedInduction, TLAPS

(* The ring buffer: places *)

\* The memories a buffer may have.
Memory == UNION {[0..(c - 1) -> Element \cup {NULL}] : c \in Nat \ {0}}

\* What RingTypeOK says of the buffer.
IsRing(r) ==
  /\ r \in [data : Memory, capacity : Nat \ {0}, first : Nat, last : Nat,
            ifOverwrite : BOOLEAN, ifAutoResize : BOOLEAN]
  /\ r.data \in [0..(r.capacity - 1) -> Element \cup {NULL}]
  /\ \/ r.first = r.capacity /\ r.last = r.capacity
     \/ r.first \in 0..(r.capacity - 1) /\ r.last \in 0..(r.capacity - 1)
  /\ ~r.ifOverwrite \/ ~r.ifAutoResize

\* Where the n-th element after the oldest is.
Place(r, n) ==
  IF r.capacity - r.first > n THEN r.first + n ELSE n - (r.capacity - r.first)

\* The buffer holds q from its oldest to its newest element.
Holds(r, q) ==
  /\ Len(q) = RingSize(r)
  /\ \A n \in 0..(Len(q) - 1) : r.data[Place(r, n)] = q[n + 1]

\* The remainder of the index behind i.
LEMMA Remainders ==
  ASSUME NEW c \in Nat \ {0}, NEW i \in 0..(c - 1)
  PROVE  (i + 1) % c = IF i = c - 1 THEN 0 ELSE i + 1
<1>1. CASE i = c - 1
  <2>1. (i + 1) % c = c % c
    BY <1>1
  <2>2. c % c = 0
    OBVIOUS
  <2> QED
    BY <1>1, <2>1, <2>2
<1>2. CASE i # c - 1
  <2>1. i + 1 \in 0..(c - 1)
    BY <1>2
  <2>2. ASSUME NEW j \in 0..(c - 1)
        PROVE  j % c = j
    OBVIOUS
  <2> QED
    BY <1>2, <2>1, <2>2
<1> QED
  BY <1>1, <1>2

\* The index behind the last one is 0.
LEMMA NextPlace ==
  ASSUME NEW r, IsRing(r), NEW i \in 0..(r.capacity - 1)
  PROVE  /\ NextIndex(r, i) = IF i = r.capacity - 1 THEN 0 ELSE i + 1
         /\ NextIndex(r, i) \in 0..(r.capacity - 1)
<1>1. r.capacity \in Nat \ {0}
  BY DEF IsRing
<1>2. NextIndex(r, i) = IF i = r.capacity - 1 THEN 0 ELSE i + 1
  BY <1>1, Remainders DEF NextIndex
<1> QED
  BY <1>1, <1>2

\* An empty buffer has its indexes behind the memory.
LEMMA SizeFacts ==
  ASSUME NEW r, IsRing(r)
  PROVE  /\ RingSize(r) \in 0..r.capacity
         /\ Empty(r) <=> r.first = r.capacity
         /\ ~Empty(r) => r.first \in 0..(r.capacity - 1) /\ r.last \in 0..(r.capacity - 1)
         /\ ~Empty(r) /\ ~Wrapped(r) => RingSize(r) = r.last - r.first + 1
         /\ Wrapped(r) => ~Empty(r) /\ RingSize(r) = r.capacity - (r.first - r.last - 1)
         /\ Full(r) => ~Empty(r)
         /\ Full(r) /\ ~Wrapped(r) => r.first = 0 /\ r.last = r.capacity - 1
         /\ Full(r) /\ Wrapped(r) => r.first = r.last + 1
BY DEF IsRing, RingSize, Empty, Full, Wrapped

\* The oldest element is in the first place and the newest in the last one.
LEMMA PlaceFacts ==
  ASSUME NEW r, IsRing(r), NEW n \in 0..(RingSize(r) - 1)
  PROVE  /\ Place(r, n) \in 0..(r.capacity - 1)
         /\ Place(r, n) = r.first <=> n = 0
         /\ Place(r, n) = r.last <=> n = RingSize(r) - 1
         /\ r.capacity > 0
BY DEF IsRing, RingSize, Wrapped, Place

\* The other end.
LEMMA FromTheNewest ==
  ASSUME NEW r, IsRing(r), NEW n \in 0..(RingSize(r) - 1)
  PROVE  GetLast(r, n) = r.data[Place(r, RingSize(r) - 1 - n)]
<1>1. (IF r.last >= n THEN r.last - n ELSE r.capacity - (n - r.last))
        = Place(r, RingSize(r) - 1 - n)
  BY DEF IsRing, RingSize, Wrapped, Place
<1> QED
  BY <1>1 DEF GetLast

\* The elements are where the copy constructor looks for them.
LEMMA OccupiedPlaces ==
  ASSUME NEW r, IsRing(r)
  PROVE  /\ Occupied(r) \subseteq 0..(r.capacity - 1)
         /\ \A n \in 0..(RingSize(r) - 1) : Place(r, n) \in Occupied(r)
         /\ \A i \in Occupied(r) : \E n \in 0..(RingSize(r) - 1) : i = Place(r, n)
<1> USE DEF IsRing, RingSize, Wrapped, Occupied, Empty
<1>1. Occupied(r) \subseteq 0..(r.capacity - 1)
  OBVIOUS
<1>2. ASSUME NEW n \in 0..(RingSize(r) - 1)
      PROVE  Place(r, n) \in Occupied(r)
  BY DEF Place
<1>3. ASSUME NEW i \in Occupied(r)
      PROVE  \E n \in 0..(RingSize(r) - 1) : i = Place(r, n)
  <2>1. CASE i >= r.first
    <3>1. i - r.first \in 0..(RingSize(r) - 1) /\ i = Place(r, i - r.first)
      BY <2>1 DEF Place
    <3> QED
      BY <3>1
  <2>2. CASE i < r.first
    <3> DEFINE n == i + (r.capacity - r.first)
    <3>1. n \in 0..(RingSize(r) - 1) /\ i = Place(r, n)
      BY <2>2 DEF Place
    <3> QED
      BY <3>1
  <2>3. i \in Int /\ r.first \in Int
    BY <1>1
  <2> QED
    BY <2>1, <2>2, <2>3
<1> QED
  BY <1>1, <1>2, <1>3
-----------------------------------------------------------------------------
(* Appending *)

\* What appending does to the indexes and to the memory.
LEMMA AppendedFields ==
  ASSUME NEW r, IsRing(r), ~Empty(r), NEW x \in Element
  PROVE  LET next == NextIndex(r, r.last)
             new  == AppendedBehind(r, x)
         IN /\ IsRing(new)
            /\ next \in 0..(r.capacity - 1)
            /\ next = IF r.last = r.capacity - 1 THEN 0 ELSE r.last + 1
            /\ new.data = [r.data EXCEPT ![next] = x]
            /\ new.capacity = r.capacity /\ new.last = next
            /\ new.first = IF next = r.first THEN NextIndex(r, r.first) ELSE r.first
            /\ new.first \in 0..(r.capacity - 1)
            /\ new.ifOverwrite = r.ifOverwrite /\ new.ifAutoResize = r.ifAutoResize
<1> DEFINE next == NextIndex(r, r.last)
           first == IF next = r.first THEN NextIndex(r, r.first) ELSE r.first
           data == [r.data EXCEPT ![next] = x]
           new == AppendedBehind(r, x)
<1>1. r.first \in 0..(r.capacity - 1) /\ r.last \in 0..(r.capacity - 1)
  BY SizeFacts
<1>2. /\ next \in 0..(r.capacity - 1) /\ first \in 0..(r.capacity - 1)
      /\ next = IF r.last = r.capacity - 1 THEN 0 ELSE r.last + 1
  BY <1>1, NextPlace
<1>3. data \in [0..(r.capacity - 1) -> Element \cup {NULL}]
  BY DEF IsRing
<1>4. data \in Memory
  BY <1>3 DEF IsRing, Memory
<1>5. r \in [data : Memory, capacity : Nat \ {0}, first : Nat, last : Nat,
             ifOverwrite : BOOLEAN, ifAutoResize : BOOLEAN]
  BY DEF IsRing
<1> HIDE DEF next, first, data
<1>6. new = [r EXCEPT !.last = next, !.data = data, !.first = first]
  BY <1>5 DEF AppendedBehind, next, first, data
<1>7. /\ new.data = data /\ new.capacity = r.capacity /\ new.last = next /\ new.first = first
      /\ new.ifOverwrite = r.ifOverwrite /\ new.ifAutoResize = r.ifAutoResize
  BY <1>5, <1>6
<1>8. next \in Nat /\ first \in Nat
  BY <1>2
<1>9. new \in [data : Memory, capacity : Nat \ {0}, first : Nat, last : Nat,
               ifOverwrite : BOOLEAN, ifAutoResize : BOOLEAN]
  BY <1>4, <1>5, <1>6, <1>8
<1>10. IsRing(new)
  BY <1>2, <1>3, <1>7, <1>9 DEF IsRing
<1> QED
  BY <1>2, <1>7, <1>10 DEF next, first, data

\* With room for it, an element is appended behind the others.
LEMMA AppendHolds ==
  ASSUME NEW r, IsRing(r), ~Empty(r), ~Full(r), NEW x \in Element,
         NEW q \in Seq(Element), Holds(r, q)
  PROVE  /\ Holds(AppendedBehind(r, x), Append(q, x))
         /\ NextIndex(r, r.last) # r.first
         /\ AppendedBehind(r, x).first = r.first
<1> DEFINE next == NextIndex(r, r.last)
           new == AppendedBehind(r, x)
           k == RingSize(r)
           p == Append(q, x)
<1>1. /\ IsRing(new)
      /\ next \in 0..(r.capacity - 1)
      /\ next = IF r.last = r.capacity - 1 THEN 0 ELSE r.last + 1
      /\ new.data = [r.data EXCEPT ![next] = x]
      /\ new.capacity = r.capacity /\ new.last = next
      /\ new.first = IF next = r.first THEN NextIndex(r, r.first) ELSE r.first
  BY AppendedFields
<1>2. /\ r.first \in 0..(r.capacity - 1) /\ r.last \in 0..(r.capacity - 1)
      /\ k \in 1..(r.capacity - 1) /\ r.capacity \in Nat
  BY SizeFacts DEF IsRing, Full, Empty
<1>3. next # r.first
  BY <1>1, <1>2 DEF RingSize, Wrapped
<1>4. new.first = r.first
  BY <1>1, <1>3
<1> HIDE DEF next, new
<1>5. RingSize(new) = k + 1
  <2>1. /\ new.first # new.capacity /\ r.first # r.capacity
        /\ new.capacity = r.capacity /\ new.last = next /\ new.first = r.first
        /\ r.first \in Nat /\ r.last \in Nat /\ r.capacity \in Nat /\ next \in Nat
    BY <1>1, <1>2, <1>4
  <2>2. CASE r.last = r.capacity - 1
    <3>1. next = 0 /\ ~(r.last < r.first) /\ next < r.first
      BY <1>1, <1>2, <1>3, <2>2
    <3> QED
      BY <2>1, <2>2, <3>1 DEF RingSize, Wrapped
  <2>3. CASE r.last # r.capacity - 1
    <3>1. next = r.last + 1 /\ (next < r.first <=> r.last < r.first)
      BY <1>1, <1>2, <1>3, <2>1, <2>3
    <3> QED
      BY <2>1, <3>1 DEF RingSize, Wrapped
  <2> QED
    BY <2>2, <2>3
<1>6. \A n \in 0..k : Place(new, n) = Place(r, n)
  BY <1>1, <1>4 DEF Place
<1>7. Place(new, k) = next
  <2>1. k \in 0..(RingSize(new) - 1) /\ k = RingSize(new) - 1
    BY <1>2, <1>5
  <2> QED
    BY <1>1, <2>1, PlaceFacts
<1>8. /\ Len(q) = k /\ Len(p) = k + 1 /\ p[k + 1] = x
      /\ \A i \in 1..k : p[i] = q[i]
  BY AppendProperties DEF Holds
<1>9. ASSUME NEW n \in 0..k
      PROVE  new.data[Place(new, n)] = p[n + 1]
  <2>1. CASE n = k
    BY <1>1, <1>7, <1>8, <2>1 DEF IsRing
  <2>2. CASE n # k
    <3>1. n \in 0..(k - 1) /\ n \in 0..(RingSize(new) - 1) /\ n # RingSize(new) - 1
          /\ n + 1 \in 1..k
      BY <1>2, <1>5, <2>2
    <3>2. Place(new, n) \in 0..(r.capacity - 1) /\ Place(new, n) # next
      BY <1>1, <3>1, PlaceFacts
    <3>3. new.data[Place(new, n)] = r.data[Place(r, n)]
      BY <1>1, <1>6, <3>2 DEF IsRing
    <3>4. r.data[Place(r, n)] = q[n + 1]
      BY <1>8, <3>1 DEF Holds
    <3> QED
      BY <1>8, <3>1, <3>3, <3>4
  <2> QED
    BY <2>1, <2>2
<1> HIDE DEF k, p
<1>10. Holds(new, p)
  <2>1. Len(p) = RingSize(new) /\ (Len(p) - 1) = k
    BY <1>2, <1>5, <1>8
  <2> QED
    BY <1>9, <2>1 DEF Holds
<1> QED
  BY <1>3, <1>4, <1>10 DEF next, new, p

\* A full buffer overwrites its oldest element.
LEMMA OverwriteHolds ==
  ASSUME NEW r, IsRing(r), Full(r), NEW x \in Element,
         NEW q \in Seq(Element), Holds(r, q)
  PROVE  Holds(AppendedBehind(r, x), Append(Tail(q), x))
<1> DEFINE next == NextIndex(r, r.last)
           new == AppendedBehind(r, x)
           k == RingSize(r)
           t == Tail(q)
           p == Append(t, x)
<1>1. /\ IsRing(new)
      /\ next \in 0..(r.capacity - 1)
      /\ next = IF r.last = r.capacity - 1 THEN 0 ELSE r.last + 1
      /\ new.data = [r.data EXCEPT ![next] = x]
      /\ new.capacity = r.capacity /\ new.last = next
      /\ new.first = IF next = r.first THEN NextIndex(r, r.first) ELSE r.first
  BY AppendedFields, SizeFacts
<1>2. /\ r.first \in 0..(r.capacity - 1) /\ r.last \in 0..(r.capacity - 1)
      /\ k = r.capacity /\ k \in Nat \ {0}
      /\ Wrapped(r) => r.first = r.last + 1
      /\ ~Wrapped(r) => r.first = 0 /\ r.last = r.capacity - 1
  BY SizeFacts DEF IsRing, Full, Empty
<1>3. next = r.first
  BY <1>1, <1>2 DEF Wrapped
<1>4. new.first = IF r.first = r.capacity - 1 THEN 0 ELSE r.first + 1
  BY <1>1, <1>2, <1>3, NextPlace
<1> HIDE DEF next, new
<1>5. RingSize(new) = k
  <2>1. /\ new.first # new.capacity /\ new.capacity = r.capacity /\ new.last = r.first
        /\ k = r.capacity /\ r.first \in Nat /\ r.capacity \in Nat
    BY <1>1, <1>2, <1>3, <1>4
  <2>2. CASE r.first = r.capacity - 1
    <3>1. new.first = 0 /\ ~(r.first < 0)
      BY <1>4, <2>1, <2>2
    <3> QED
      BY <2>1, <2>2, <3>1 DEF RingSize, Wrapped
  <2>3. CASE r.first # r.capacity - 1
    <3>1. new.first = r.first + 1 /\ r.first < r.first + 1
      BY <1>4, <2>1, <2>3
    <3> QED
      BY <2>1, <3>1 DEF RingSize, Wrapped
  <2> QED
    BY <2>2, <2>3
<1>6. ASSUME NEW n \in 0..(k - 2)
      PROVE  Place(new, n) = Place(r, n + 1)
  <2>1. /\ n \in Nat /\ new.capacity = r.capacity /\ n <= k - 2
        /\ k = r.capacity /\ r.first \in Nat /\ r.capacity \in Nat /\ r.first <= r.capacity - 1
    BY <1>1, <1>2
  <2>2. CASE r.first = r.capacity - 1
    <3>1. new.first = 0 /\ r.capacity - 0 > n /\ ~(r.capacity - r.first > n + 1)
      BY <1>4, <2>1, <2>2
    <3>2. 0 + n = (n + 1) - (r.capacity - r.first)
      BY <2>1, <2>2
    <3> QED
      BY <2>1, <3>1, <3>2 DEF Place
  <2>3. CASE r.first # r.capacity - 1
    <3>1. new.first = r.first + 1
      BY <1>4, <2>3
    <3>2. r.capacity - new.first > n <=> r.capacity - r.first > n + 1
      BY <2>1, <3>1
    <3>3. \A f \in Nat, c \in Nat :
            (f + 1) + n = f + (n + 1) /\ n - (c - (f + 1)) = (n + 1) - (c - f)
      BY <2>1
    <3>4. new.first + n = r.first + (n + 1)
          /\ n - (r.capacity - new.first) = (n + 1) - (r.capacity - r.first)
      BY <2>1, <3>1, <3>3
    <3> QED
      BY <2>1, <3>1, <3>2, <3>4 DEF Place
  <2> QED
    BY <2>2, <2>3
<1>7. Place(new, k - 1) = next
  <2>1. k - 1 \in 0..(RingSize(new) - 1) /\ k - 1 = RingSize(new) - 1
    BY <1>2, <1>5
  <2> QED
    BY <1>1, <2>1, PlaceFacts
<1>8. /\ t \in Seq(Element) /\ Len(q) = k /\ Len(t) = k - 1
      /\ \A i \in 1..(k - 1) : t[i] = q[i + 1]
  <2>1. Len(q) = k
    BY DEF Holds
  <2>2. q # <<>>
    BY <1>2, <2>1
  <2> QED
    BY <2>1, <2>2, HeadTailProperties
<1>9. Len(p) = k /\ p[k] = x /\ \A i \in 1..(k - 1) : p[i] = t[i]
  <2>1. Len(t) + 1 = k
    BY <1>2, <1>8
  <2> QED
    BY <1>8, <2>1, AppendProperties
<1>10. ASSUME NEW n \in 0..(k - 1)
       PROVE  new.data[Place(new, n)] = p[n + 1]
  <2>1. CASE n = k - 1
    <3>1. n + 1 = k
      BY <1>2, <2>1
    <3> QED
      BY <1>1, <1>7, <1>9, <2>1, <3>1 DEF IsRing
  <2>2. CASE n # k - 1
    <3>1. n \in 0..(k - 2) /\ n \in 0..(RingSize(new) - 1) /\ n # RingSize(new) - 1
          /\ n + 1 \in 1..(k - 1) /\ n + 1 \in 0..(k - 1)
      BY <1>2, <1>5, <2>2
    <3>2. Place(new, n) \in 0..(r.capacity - 1) /\ Place(new, n) # next
      BY <1>1, <3>1, PlaceFacts
    <3>3. new.data[Place(new, n)] = r.data[Place(r, n + 1)]
      BY <1>1, <1>6, <3>1, <3>2 DEF IsRing
    <3>4. r.data[Place(r, n + 1)] = q[n + 1 + 1]
      BY <1>8, <3>1 DEF Holds
    <3>5. p[n + 1] = q[n + 1 + 1]
      BY <1>8, <1>9, <3>1
    <3> QED
      BY <3>3, <3>4, <3>5
  <2> QED
    BY <2>1, <2>2
<1> HIDE DEF k, t, p
<1>11. Holds(new, p)
  <2>1. Len(p) = RingSize(new)
    BY <1>5, <1>9
  <2> QED
    BY <1>9, <1>10, <2>1 DEF Holds
<1> QED
  BY <1>11 DEF new, p, t
-----------------------------------------------------------------------------
(* The other operations on a buffer *)

\* What the elements of the memory become, an operation sets field by field.
LEMMA EmptiedRing ==
  ASSUME NEW r, IsRing(r)
  PROVE  /\ IsRing(Emptied(r)) /\ Empty(Emptied(r)) /\ Emptied(r).first = r.capacity
         /\ Emptied(r).capacity = r.capacity
         /\ Emptied(r).ifOverwrite = r.ifOverwrite
         /\ Emptied(r).ifAutoResize = r.ifAutoResize
         /\ Holds(Emptied(r), <<>>)
<1> DEFINE new == Emptied(r)
<1>1. r \in [data : Memory, capacity : Nat \ {0}, first : Nat, last : Nat,
             ifOverwrite : BOOLEAN, ifAutoResize : BOOLEAN]
  BY DEF IsRing
<1>2. new = [r EXCEPT !.first = r.capacity, !.last = r.capacity]
  BY DEF Emptied
<1> HIDE DEF new
<1>3. /\ new.data = r.data /\ new.capacity = r.capacity
      /\ new.first = r.capacity /\ new.last = r.capacity
      /\ new.ifOverwrite = r.ifOverwrite /\ new.ifAutoResize = r.ifAutoResize
  BY <1>1, <1>2
<1>4. r.capacity \in Nat
  BY <1>1
<1>5. new \in [data : Memory, capacity : Nat \ {0}, first : Nat, last : Nat,
               ifOverwrite : BOOLEAN, ifAutoResize : BOOLEAN]
  BY <1>1, <1>2, <1>4
<1>6. IsRing(new)
  BY <1>3, <1>5 DEF IsRing
<1>7. RingSize(new) = 0
  BY <1>3 DEF RingSize
<1>8. Holds(new, <<>>)
  BY <1>7, EmptySeq DEF Holds
<1> QED
  BY <1>3, <1>6, <1>7, <1>8 DEF new, Empty

\* What removing the oldest element does to the indexes.
LEMMA RemovedFields ==
  ASSUME NEW r, IsRing(r), ~Empty(r)
  PROVE  LET new == WithoutFirst(r)
         IN /\ IsRing(new)
            /\ new.data = [r.data EXCEPT ![r.first] = NULL]
            /\ new.capacity = r.capacity
            /\ new.last = IF r.first = r.last THEN r.capacity ELSE r.last
            /\ new.first = IF r.first = r.last THEN r.capacity ELSE NextIndex(r, r.first)
            /\ new.ifOverwrite = r.ifOverwrite /\ new.ifAutoResize = r.ifAutoResize
<1> DEFINE next == NextIndex(r, r.first)
           data == [r.data EXCEPT ![r.first] = NULL]
           new == WithoutFirst(r)
<1>1. r.first \in 0..(r.capacity - 1) /\ r.last \in 0..(r.capacity - 1)
  BY SizeFacts
<1>2. next \in 0..(r.capacity - 1) /\ next \in Nat
  BY <1>1, NextPlace
<1>3. data \in [0..(r.capacity - 1) -> Element \cup {NULL}]
  BY DEF IsRing
<1>4. data \in Memory
  BY <1>3 DEF IsRing, Memory
<1>5. r \in [data : Memory, capacity : Nat \ {0}, first : Nat, last : Nat,
             ifOverwrite : BOOLEAN, ifAutoResize : BOOLEAN]
  BY DEF IsRing
<1> HIDE DEF next, data
<1>6. new = IF r.first = r.last
            THEN [r EXCEPT !.data = data, !.first = r.capacity, !.last = r.capacity]
            ELSE [r EXCEPT !.data = data, !.first = next]
  BY <1>5 DEF WithoutFirst, Emptied, next, data
<1>7. CASE r.first = r.last
  <2>1. new = [r EXCEPT !.data = data, !.first = r.capacity, !.last = r.capacity]
    BY <1>6, <1>7
  <2>2. /\ new.data = data /\ new.capacity = r.capacity
        /\ new.first = r.capacity /\ new.last = r.capacity
        /\ new.ifOverwrite = r.ifOverwrite /\ new.ifAutoResize = r.ifAutoResize
    BY <1>5, <2>1
  <2>3. r.capacity \in Nat
    BY <1>5
  <2>4. new \in [data : Memory, capacity : Nat \ {0}, first : Nat, last : Nat,
                 ifOverwrite : BOOLEAN, ifAutoResize : BOOLEAN]
    BY <1>4, <1>5, <2>1, <2>3
  <2>5. IsRing(new)
    BY <1>3, <2>2, <2>4 DEF IsRing
  <2> QED
    BY <1>7, <2>2, <2>5 DEF data
<1>8. CASE r.first # r.last
  <2>1. new = [r EXCEPT !.data = data, !.first = next]
    BY <1>6, <1>8
  <2>2. /\ new.data = data /\ new.capacity = r.capacity
        /\ new.first = next /\ new.last = r.last
        /\ new.ifOverwrite = r.ifOverwrite /\ new.ifAutoResize = r.ifAutoResize
    BY <1>5, <2>1
  <2>3. new \in [data : Memory, capacity : Nat \ {0}, first : Nat, last : Nat,
                 ifOverwrite : BOOLEAN, ifAutoResize : BOOLEAN]
    BY <1>2, <1>4, <1>5, <2>1
  <2>4. IsRing(new)
    BY <1>1, <1>2, <1>3, <2>2, <2>3 DEF IsRing
  <2> QED
    BY <1>8, <2>2, <2>4 DEF data, next
<1> QED
  BY <1>7, <1>8

\* The others stay, in their order.
LEMMA RemoveHolds ==
  ASSUME NEW r, IsRing(r), ~Empty(r), NEW q \in Seq(Element), Holds(r, q)
  PROVE  q # <<>> /\ Holds(WithoutFirst(r), Tail(q))
<1> DEFINE next == NextIndex(r, r.first)
           new == WithoutFirst(r)
           k == RingSize(r)
           t == Tail(q)
<1>1. /\ IsRing(new)
      /\ new.data = [r.data EXCEPT ![r.first] = NULL]
      /\ new.capacity = r.capacity
      /\ new.last = IF r.first = r.last THEN r.capacity ELSE r.last
      /\ new.first = IF r.first = r.last THEN r.capacity ELSE next
  BY RemovedFields
<1>2. /\ r.first \in 0..(r.capacity - 1) /\ r.last \in 0..(r.capacity - 1)
      /\ k \in 1..r.capacity /\ r.capacity \in Nat
      /\ next = IF r.first = r.capacity - 1 THEN 0 ELSE r.first + 1
  BY SizeFacts, NextPlace DEF IsRing, Empty
<1>3. /\ q # <<>> /\ t \in Seq(Element) /\ Len(q) = k /\ Len(t) = k - 1
      /\ \A i \in 1..(k - 1) : t[i] = q[i + 1]
  <2>1. Len(q) = k
    BY DEF Holds
  <2>2. q # <<>>
    BY <1>2, <2>1
  <2> QED
    BY <2>1, <2>2, HeadTailProperties
<1> HIDE DEF next, new, t
<1>4. CASE r.first = r.last
  <2>1. k = 1
    BY <1>2, <1>4 DEF RingSize, Wrapped
  <2>2. Len(t) = 0 /\ RingSize(new) = 0
    BY <1>1, <1>3, <1>4, <2>1 DEF RingSize
  <2>3. 0..(Len(t) - 1) = {}
    BY <2>2
  <2>4. Holds(new, t)
    BY <2>2, <2>3 DEF Holds
  <2> QED
    BY <1>3, <2>4 DEF new, t
<1>5. CASE r.first # r.last
  <2>1. new.first = next /\ new.last = r.last /\ new.capacity = r.capacity
        /\ r.first \in Nat /\ r.last \in Nat /\ r.first # r.capacity /\ next # r.capacity
    BY <1>1, <1>2, <1>5
  <2>2. RingSize(new) = k - 1
    <3>1. CASE r.first = r.capacity - 1
      <4>1. next = 0 /\ r.last < r.first /\ ~(r.last < 0)
        BY <1>2, <1>5, <3>1
      <4>2. k = r.capacity - (r.first - r.last - 1)
        BY <2>1, <4>1 DEF RingSize, Wrapped
      <4>3. RingSize(new) = r.last - 0 + 1
        BY <2>1, <4>1 DEF RingSize, Wrapped
      <4> QED
        BY <1>2, <3>1, <4>2, <4>3
    <3>2. CASE r.first # r.capacity - 1
      <4>1. next = r.first + 1 /\ (r.last < r.first + 1 <=> r.last < r.first)
        BY <1>2, <1>5, <2>1, <3>2
      <4>2. CASE r.last < r.first
        <5>1. k = r.capacity - (r.first - r.last - 1)
          BY <2>1, <4>2 DEF RingSize, Wrapped
        <5>2. RingSize(new) = r.capacity - ((r.first + 1) - r.last - 1)
          BY <2>1, <4>1, <4>2 DEF RingSize, Wrapped
        <5>3. r.capacity \in Nat
          BY <1>2
        <5>4. r.capacity - ((r.first + 1) - r.last - 1) = (r.capacity - (r.first - r.last - 1)) - 1
          BY <2>1, <5>3
        <5> QED
          BY <2>1, <5>1, <5>2, <5>3, <5>4
      <4>3. CASE ~(r.last < r.first)
        <5>1. k = r.last - r.first + 1
          BY <2>1, <4>3 DEF RingSize, Wrapped
        <5>2. RingSize(new) = r.last - (r.first + 1) + 1
          BY <2>1, <4>1, <4>3 DEF RingSize, Wrapped
        <5>3. r.last - (r.first + 1) + 1 = (r.last - r.first + 1) - 1
          BY <2>1
        <5> QED
          BY <2>1, <5>1, <5>2, <5>3
      <4> QED
        BY <4>2, <4>3
    <3> QED
      BY <3>1, <3>2
  <2>3. ASSUME NEW n \in 0..(k - 2)
        PROVE  Place(new, n) = Place(r, n + 1)
    <3> n \in Nat /\ n <= r.capacity - 2 /\ r.capacity \in Nat /\ r.first \in Nat
      BY <1>2
    <3>1. CASE r.first = r.capacity - 1
      <4>1. next = 0 /\ ~(r.capacity - r.first > n + 1) /\ r.capacity - 0 > n
            /\ (n + 1) - (r.capacity - r.first) = n /\ 0 + n = n
        BY <1>2, <3>1
      <4> QED
        BY <2>1, <4>1 DEF Place
    <3>2. CASE r.first # r.capacity - 1
      <4>1. next = r.first + 1
        BY <1>2, <3>2
      <4>2. next + n = r.first + (n + 1)
        BY <4>1
      <4>3. r.capacity - next > n <=> r.capacity - r.first > n + 1
        BY <4>1
      <4>4. r.capacity - next = r.capacity - r.first - 1
        BY <4>1
      <4>5. n - (r.capacity - next) = (n + 1) - (r.capacity - r.first)
        BY <4>4
      <4> QED
        BY <2>1, <4>2, <4>3, <4>5 DEF Place
    <3> QED
      BY <3>1, <3>2
  <2>4. ASSUME NEW n \in 0..(k - 2)
        PROVE  new.data[Place(new, n)] = t[n + 1]
    <3>1. n + 1 \in 0..(k - 1) /\ n + 1 # 0 /\ n + 1 \in 1..(k - 1)
      BY <1>2
    <3>2. Place(r, n + 1) \in 0..(r.capacity - 1) /\ Place(r, n + 1) # r.first
      BY <3>1, PlaceFacts
    <3>3. new.data[Place(new, n)] = r.data[Place(r, n + 1)]
      BY <1>1, <2>3, <3>2 DEF IsRing
    <3>4. r.data[Place(r, n + 1)] = q[n + 1 + 1]
      BY <1>3, <3>1 DEF Holds
    <3> QED
      BY <1>3, <3>1, <3>3, <3>4
  <2>5. Len(t) = RingSize(new) /\ (Len(t) - 1) = k - 2
    BY <1>2, <1>3, <2>2
  <2>6. Holds(new, t)
    BY <2>4, <2>5 DEF Holds
  <2> QED
    BY <1>3, <2>6 DEF new, t
<1> QED
  BY <1>4, <1>5

\* Larger memory with the elements in front.
LEMMA ReservedFields ==
  ASSUME NEW r, IsRing(r), Full(r)
  PROVE  LET new == Reserved(r, 2 * r.capacity)
         IN /\ IsRing(new) /\ ~Empty(new)
            /\ new.data = [i \in 0..(2 * r.capacity - 1) |->
                             IF i < RingSize(r) THEN r.data[Place(r, i)] ELSE NULL]
            /\ new.capacity = 2 * r.capacity /\ new.first = 0
            /\ ~Wrapped(r) => new.last = r.last
            /\ new.ifOverwrite = r.ifOverwrite /\ new.ifAutoResize = r.ifAutoResize
<1> DEFINE c == 2 * r.capacity
           data == [i \in 0..(c - 1) |->
                      IF i < RingSize(r) THEN r.data[Place(r, i)] ELSE NULL]
           exchanged == [r EXCEPT !.data = data, !.capacity = c]
           new == Reserved(r, c)
<1>1. r \in [data : Memory, capacity : Nat \ {0}, first : Nat, last : Nat,
             ifOverwrite : BOOLEAN, ifAutoResize : BOOLEAN]
  BY DEF IsRing
<1>2. /\ r.first \in 0..(r.capacity - 1) /\ r.last \in 0..(r.capacity - 1)
      /\ c \in Nat \ {0} /\ r.capacity < c /\ RingSize(r) = r.capacity
      /\ Wrapped(r) => r.first = r.last + 1
      /\ ~Wrapped(r) => r.first = 0 /\ r.last = r.capacity - 1
  BY <1>1, SizeFacts DEF Full
<1>3. data \in [0..(c - 1) -> Element \cup {NULL}]
  <2> SUFFICES ASSUME NEW i \in 0..(c - 1), i < RingSize(r)
               PROVE  r.data[Place(r, i)] \in Element \cup {NULL}
    OBVIOUS
  <2>1. i \in 0..(RingSize(r) - 1)
    BY <1>1, <1>2
  <2>2. Place(r, i) \in 0..(r.capacity - 1)
    BY <2>1, PlaceFacts
  <2> QED
    BY <2>2 DEF IsRing
<1>4. data \in Memory
  BY <1>2, <1>3 DEF Memory
<1>5. [i \in 0..(c - 1) |-> IF i < RingSize(r) THEN GetFirst(r, i) ELSE NULL] = data
  BY DEF GetFirst, Place
<1> HIDE DEF data, c
<1>6. exchanged.capacity = c /\ exchanged.first = r.first /\ exchanged.last = r.last
      /\ r.first \in Nat /\ r.last \in Nat /\ r.capacity \in Nat /\ c \in Nat
  BY <1>1, <1>2
<1> HIDE DEF exchanged
<1>7. RingSize(exchanged) = IF Wrapped(r) THEN c ELSE r.capacity
  <2>1. exchanged.first # exchanged.capacity
    BY <1>2, <1>6
  <2>2. CASE Wrapped(r)
    <3>1. c - (r.first - r.last - 1) = c
      BY <1>2, <2>2
    <3> QED
      BY <1>6, <2>1, <2>2, <3>1 DEF RingSize, Wrapped
  <2>3. CASE ~Wrapped(r)
    <3>1. r.last - r.first + 1 = r.capacity
      <4>1. r.first = 0 /\ r.last = r.capacity - 1
        BY <1>2, <2>3
      <4> QED
        BY <1>6, <4>1
    <3> QED
      BY <1>6, <2>1, <2>3, <3>1 DEF RingSize, Wrapped
  <2> QED
    BY <2>2, <2>3
<1> DEFINE last == (IF Wrapped(r) THEN c ELSE r.capacity) - 1
<1>8. new = [exchanged EXCEPT !.first = 0, !.last = last]
  <2>1. ~Empty(r)
    BY SizeFacts
  <2>2. new = [exchanged EXCEPT !.first = 0, !.last = RingSize(exchanged) - 1]
    BY <1>5, <2>1 DEF Reserved, exchanged
  <2> QED
    BY <1>7, <2>2
<1>9. last \in 0..(c - 1) /\ last \in Nat
  BY <1>2, <1>6
<1> HIDE DEF last
<1>10. /\ exchanged \in [data : Memory, capacity : Nat \ {0}, first : Nat, last : Nat,
                       ifOverwrite : BOOLEAN, ifAutoResize : BOOLEAN]
       /\ exchanged.data = data
       /\ exchanged.ifOverwrite = r.ifOverwrite /\ exchanged.ifAutoResize = r.ifAutoResize
  BY <1>1, <1>2, <1>4 DEF exchanged
<1>11. /\ new.data = data /\ new.capacity = c /\ new.first = 0 /\ new.last = last
       /\ new.ifOverwrite = r.ifOverwrite /\ new.ifAutoResize = r.ifAutoResize
  BY <1>6, <1>8, <1>10
<1>12. new \in [data : Memory, capacity : Nat \ {0}, first : Nat, last : Nat,
                ifOverwrite : BOOLEAN, ifAutoResize : BOOLEAN]
  <2>1. 0 \in Nat /\ last \in Nat
    BY <1>9
  <2> QED
    BY <1>8, <1>10, <2>1
<1>13. IsRing(new)
  <2>1. ~new.ifOverwrite \/ ~new.ifAutoResize
    BY <1>11 DEF IsRing
  <2>2. new.first \in 0..(new.capacity - 1) /\ new.last \in 0..(new.capacity - 1)
    BY <1>2, <1>9, <1>11
  <2> QED
    BY <1>3, <1>11, <1>12, <2>1, <2>2 DEF IsRing
<1>14. ~Empty(new)
  BY <1>2, <1>11, <1>13, SizeFacts
<1>15. ~Wrapped(r) => last = r.last
  BY <1>2 DEF last
<1> QED
  BY <1>11, <1>13, <1>14, <1>15 DEF data, c

\* A buffer that is not wrapped resizes itself rightly.
LEMMA ReserveHolds ==
  ASSUME NEW r, IsRing(r), Full(r), ~Wrapped(r), NEW q, Holds(r, q)
  PROVE  LET new == Reserved(r, 2 * r.capacity)
         IN  Holds(new, q) /\ ~Full(new)
<1> DEFINE new == Reserved(r, 2 * r.capacity)
<1>1. /\ IsRing(new) /\ ~Empty(new)
      /\ new.data = [i \in 0..(2 * r.capacity - 1) |->
                       IF i < RingSize(r) THEN r.data[Place(r, i)] ELSE NULL]
      /\ new.capacity = 2 * r.capacity /\ new.first = 0 /\ new.last = r.last
  BY ReservedFields
<1>2. r.capacity \in Nat \ {0} /\ RingSize(r) = r.capacity /\ r.last = r.capacity - 1
  BY SizeFacts DEF IsRing, Full
<1> HIDE DEF new
<1>3. RingSize(new) = r.capacity
  BY <1>1, <1>2 DEF RingSize, Wrapped
<1>4. ASSUME NEW n \in 0..(r.capacity - 1)
      PROVE  new.data[Place(new, n)] = r.data[Place(r, n)]
  <2>1. Place(new, n) = n /\ n \in 0..(2 * r.capacity - 1) /\ n < RingSize(r)
    BY <1>1, <1>2 DEF Place
  <2> QED
    BY <1>1, <2>1
<1>5. Holds(new, q)
  BY <1>2, <1>3, <1>4 DEF Holds
<1>6. ~Full(new)
  BY <1>1, <1>2, <1>3 DEF Full
<1> QED
  BY <1>5, <1>6 DEF new

\* The copy has the same elements.
LEMMA CopiedHolds ==
  ASSUME NEW r, IsRing(r)
  PROVE  LET new == Copied(r)
         IN /\ IsRing(new) /\ new.first = r.first /\ new.last = r.last
            /\ new.capacity = r.capacity
            /\ new.ifOverwrite = r.ifOverwrite /\ new.ifAutoResize = r.ifAutoResize
            /\ \A q : Holds(r, q) => Holds(new, q)
<1> DEFINE data == [i \in DOMAIN r.data |-> IF i \in Occupied(r) THEN r.data[i] ELSE NULL]
           new == Copied(r)
<1>1. r \in [data : Memory, capacity : Nat \ {0}, first : Nat, last : Nat,
             ifOverwrite : BOOLEAN, ifAutoResize : BOOLEAN]
  BY DEF IsRing
<1>2. DOMAIN r.data = 0..(r.capacity - 1) /\ data \in [0..(r.capacity - 1) -> Element \cup {NULL}]
  BY DEF IsRing
<1>3. data \in Memory
  BY <1>1, <1>2 DEF Memory
<1>4. new = [r EXCEPT !.data = data]
  BY DEF Copied
<1> HIDE DEF new, data
<1>5. /\ new.data = data /\ new.first = r.first /\ new.last = r.last
      /\ new.capacity = r.capacity
      /\ new.ifOverwrite = r.ifOverwrite /\ new.ifAutoResize = r.ifAutoResize
  BY <1>1, <1>4
<1>6. new \in [data : Memory, capacity : Nat \ {0}, first : Nat, last : Nat,
               ifOverwrite : BOOLEAN, ifAutoResize : BOOLEAN]
  BY <1>1, <1>3, <1>4
<1>7. IsRing(new)
  BY <1>2, <1>5, <1>6 DEF IsRing
<1>8. RingSize(new) = RingSize(r) /\ \A n : Place(new, n) = Place(r, n)
  BY <1>5 DEF RingSize, Wrapped, Place
<1>9. ASSUME NEW n \in 0..(RingSize(r) - 1)
      PROVE  data[Place(r, n)] = r.data[Place(r, n)]
  <2>1. Place(r, n) \in Occupied(r) /\ Place(r, n) \in 0..(r.capacity - 1)
    BY OccupiedPlaces
  <2> QED
    BY <1>2, <2>1 DEF data
<1>10. ASSUME NEW q, Holds(r, q)
       PROVE  Holds(new, q)
  BY <1>5, <1>8, <1>9, <1>10 DEF Holds
<1> QED
  BY <1>5, <1>7, <1>10 DEF new
-----------------------------------------------------------------------------
(* The invariant of the buffer *)

\* The buffer has resized itself while it was wrapped: nothing is said of its
\* elements any more.
ResizedWrapped == "resized while wrapped" \in happened

\* The types.
Rings ==
  /\ IsRing(ring) /\ queue \in Seq(Element)
  /\ appended \in 0..MaxAppends
  /\ leaked \subseteq Element \cup {NULL}
  /\ happened \subseteq {"removed", "resized while wrapped", "deleted while wrapped"}
  /\ assertion \in {"none", "full", "empty", "null"}

\* A buffer that may resize itself begins at the front of the memory until an element
\* is removed.
WrapsByRemoving ==
  /\ ring.ifAutoResize /\ "removed" \notin happened => ring.first \in {0, ring.capacity}
  /\ ResizedWrapped => ring.ifAutoResize /\ "removed" \in happened

\* Unless it has resized itself while wrapped, the buffer holds the queue.
IsQueue ==
  ~ResizedWrapped =>
    /\ Holds(ring, queue)
    /\ assertion = "full" => Len(queue) = ring.capacity
    /\ assertion = "empty" => queue = <<>>
    /\ assertion # "null"
    /\ leaked # {} => ring.ifOverwrite \/ "deleted while wrapped" \in happened

\* The inductive invariant.
RingInv == Rings /\ WrapsByRemoving /\ IsQueue

\* It holds at first,
LEMMA RingInitEstablishes ==
  ASSUME RingInit
  PROVE  RingInv
<1>1. PICK c \in Capacities, overwrite \in BOOLEAN, resize \in BOOLEAN :
        (~overwrite \/ ~resize) /\ ring = NewRing(c, overwrite, resize)
  BY DEF RingInit
<1>2. c \in Nat \ {0}
  BY RingBufferAssumption
<1> DEFINE data == [i \in 0..(c - 1) |-> NULL]
<1>3. data \in [0..(c - 1) -> Element \cup {NULL}]
  OBVIOUS
<1>4. data \in Memory
  BY <1>2, <1>3 DEF Memory
<1> HIDE DEF data
<1>5. ring = [data |-> data, capacity |-> c, first |-> c, last |-> c,
              ifOverwrite |-> overwrite, ifAutoResize |-> resize]
  BY <1>1 DEF NewRing, data
<1>6. ring \in [data : Memory, capacity : Nat \ {0}, first : Nat, last : Nat,
                ifOverwrite : BOOLEAN, ifAutoResize : BOOLEAN]
  BY <1>2, <1>4, <1>5
<1>7. IsRing(ring)
  BY <1>1, <1>3, <1>5, <1>6 DEF IsRing
<1>8. RingSize(ring) = 0 /\ ring.first = ring.capacity
  BY <1>5 DEF RingSize
<1>9. Holds(ring, <<>>)
  BY <1>8, EmptySeq DEF Holds
<1>10. appended = 0 /\ queue = <<>> /\ leaked = {} /\ happened = {} /\ assertion = "none"
  BY DEF RingInit
<1>11. Rings
  BY <1>7, <1>10, RingBufferAssumption DEF Rings
<1>12. WrapsByRemoving /\ IsQueue
  BY <1>8, <1>9, <1>10 DEF WrapsByRemoving, IsQueue, ResizedWrapped
<1> QED
  BY <1>11, <1>12 DEF RingInv

\* every append keeps it,
LEMMA AppendToEmptyKeeps ==
  ASSUME RingInv, AppendToEmpty
  PROVE  RingInv'
<1>1. /\ IsRing(ring) /\ Empty(ring) /\ assertion = "none" /\ appended \in Nat
      /\ appended + 1 \in 1..MaxAppends /\ appended' = appended + 1
      /\ ring' = [ring EXCEPT !.first = 0, !.last = 0, !.data[0] = appended + 1]
      /\ queue' = <<appended + 1>>
      /\ UNCHANGED <<leaked, happened, assertion>>
  <2>1. /\ IsRing(ring) /\ Empty(ring) /\ assertion = "none" /\ appended \in 0..MaxAppends
        /\ appended < MaxAppends /\ MaxAppends \in Nat
    BY RingBufferAssumption DEF AppendToEmpty, RingInv, Rings
  <2>2. appended \in Nat /\ appended + 1 \in 1..MaxAppends
    BY <2>1
  <2> QED
    BY <2>1, <2>2 DEF AppendToEmpty
<1> DEFINE x == appended + 1
           data == [ring.data EXCEPT ![0] = x]
<1>2. x \in Element
  BY <1>1 DEF Element
<1>3. ring \in [data : Memory, capacity : Nat \ {0}, first : Nat, last : Nat,
                ifOverwrite : BOOLEAN, ifAutoResize : BOOLEAN]
  BY <1>1 DEF IsRing
<1> HIDE DEF x
<1>4. data \in [0..(ring.capacity - 1) -> Element \cup {NULL}] /\ data[0] = x
  BY <1>1, <1>2, <1>3 DEF IsRing
<1>5. data \in Memory
  BY <1>3, <1>4 DEF Memory
<1> HIDE DEF data
<1>6. ring' = [ring EXCEPT !.first = 0, !.last = 0, !.data = data]
  BY <1>1, <1>3 DEF data, x
<1>7. /\ ring'.data = data /\ ring'.capacity = ring.capacity
      /\ ring'.first = 0 /\ ring'.last = 0
      /\ ring'.ifOverwrite = ring.ifOverwrite /\ ring'.ifAutoResize = ring.ifAutoResize
  BY <1>3, <1>6
<1>8. ring' \in [data : Memory, capacity : Nat \ {0}, first : Nat, last : Nat,
                 ifOverwrite : BOOLEAN, ifAutoResize : BOOLEAN]
  <2>1. 0 \in Nat
    OBVIOUS
  <2> QED
    BY <1>3, <1>5, <1>6, <2>1
<1>9. IsRing(ring')
  <2>1. 0 \in 0..(ring.capacity - 1)
    BY <1>3
  <2> QED
    BY <1>1, <1>4, <1>7, <1>8, <2>1 DEF IsRing
<1>10. RingSize(ring') = 1 /\ Place(ring', 0) = 0
  <2>1. ring.capacity \in Nat \ {0}
    BY <1>3
  <2> QED
    BY <1>7, <2>1 DEF RingSize, Wrapped, Place
<1>11. queue' \in Seq(Element) /\ Len(queue') = 1 /\ queue'[1] = x
  BY <1>1, <1>2 DEF x
<1>12. Holds(ring', queue')
  <2>1. 0..(Len(queue') - 1) = {0} /\ 0 + 1 = 1
    BY <1>11
  <2> QED
    BY <1>4, <1>7, <1>10, <1>11, <2>1 DEF Holds
<1>13. Rings'
  <2>1. appended' \in 0..MaxAppends
    BY <1>1
  <2> QED
    BY <1>1, <1>9, <1>11, <2>1 DEF RingInv, Rings
<1>14. WrapsByRemoving'
  BY <1>1, <1>7 DEF RingInv, WrapsByRemoving, ResizedWrapped
<1>15. IsQueue'
  BY <1>1, <1>7, <1>12 DEF RingInv, IsQueue, ResizedWrapped
<1> QED
  BY <1>13, <1>14, <1>15 DEF RingInv

\* and so does an operation that ends the process,
LEMMA FailsKeeps ==
  ASSUME RingInv, AppendToFull \/ RemoveFromEmpty \/ CopyOfNull
  PROVE  RingInv'
<1>1. UNCHANGED <<ring, appended, queue, leaked, happened>>
  BY DEF AppendToFull, RemoveFromEmpty, CopyOfNull, RingFails
<1>2. assertion' \in {"none", "full", "empty", "null"}
  BY DEF AppendToFull, RemoveFromEmpty, CopyOfNull, RingFails
<1>3. Rings' /\ WrapsByRemoving'
  BY <1>1, <1>2 DEF RingInv, Rings, WrapsByRemoving, ResizedWrapped
<1>4. ASSUME ~ResizedWrapped
      PROVE  /\ assertion' = "full" => Len(queue) = ring.capacity
             /\ assertion' = "empty" => queue = <<>>
             /\ assertion' # "null"
  <2>1. IsRing(ring) /\ Holds(ring, queue) /\ queue \in Seq(Element)
    BY <1>4 DEF RingInv, Rings, IsQueue
  <2>2. CASE AppendToFull
    BY <2>1, <2>2 DEF AppendToFull, RingFails, Holds, Full
  <2>3. CASE RemoveFromEmpty
    <3>1. Len(queue) = 0
      BY <2>1, <2>3 DEF RemoveFromEmpty, Holds, Empty
    <3> QED
      BY <2>1, <2>3, <3>1, EmptySeq DEF RemoveFromEmpty, RingFails
  <2>4. CASE CopyOfNull
    <3>1. PICK i \in Occupied(ring) : ring.data[i] = NULL
      BY <2>4 DEF CopyOfNull
    <3>2. PICK n \in 0..(RingSize(ring) - 1) : i = Place(ring, n)
      BY <2>1, OccupiedPlaces
    <3>3. Len(queue) = RingSize(ring) /\ ring.data[i] = queue[n + 1]
      BY <2>1, <3>2 DEF Holds
    <3>4. queue[n + 1] \in Element
      <4>1. RingSize(ring) \in Nat
        BY <2>1, <3>3, LenProperties
      <4>2. n + 1 \in 1..Len(queue)
        BY <3>3, <4>1
      <4> QED
        BY <2>1, <4>2, ElementOfSeq
    <3> QED
      BY <3>1, <3>3, <3>4 DEF Element, NULL
  <2> QED
    BY <2>2, <2>3, <2>4
<1>5. IsQueue'
  BY <1>1, <1>4 DEF RingInv, IsQueue, ResizedWrapped
<1> QED
  BY <1>3, <1>5 DEF RingInv

\* append() of a buffer with room, or that makes room, or overwrites,
LEMMA AppendElementKeeps ==
  ASSUME RingInv, AppendElement
  PROVE  RingInv'
<1> DEFINE x == appended + 1
           r == WithRoom(ring)
           new == AppendedBehind(r, x)
           next == NextIndex(r, r.last)
           overwrites == Full(ring) /\ ring.ifOverwrite
<1>1. /\ IsRing(ring) /\ ~Empty(ring) /\ queue \in Seq(Element) /\ assertion = "none"
      /\ Full(ring) => ring.ifOverwrite \/ ring.ifAutoResize
      /\ ~ring.ifOverwrite \/ ~ring.ifAutoResize
  BY DEF AppendElement, RingInv, Rings, IsRing
<1>2. x \in Element /\ appended' \in 0..MaxAppends
  <2>1. appended \in 0..MaxAppends /\ appended < MaxAppends /\ MaxAppends \in Nat
        /\ appended' = appended + 1
    BY RingBufferAssumption DEF AppendElement, RingInv, Rings
  <2> QED
    BY <2>1 DEF Element
<1>3. /\ ring' = new
      /\ leaked' = leaked \cup (IF next = r.first THEN {r.data[next]} ELSE {})
      /\ queue' = Append(IF overwrites THEN Tail(queue) ELSE queue, x)
      /\ happened' = IF r # ring /\ Wrapped(ring)
                     THEN happened \cup {"resized while wrapped"} ELSE happened
      /\ UNCHANGED assertion
  BY DEF AppendElement
<1>4. /\ IsRing(r) /\ ~Empty(r)
      /\ r.ifOverwrite = ring.ifOverwrite /\ r.ifAutoResize = ring.ifAutoResize
      /\ r.first \in {0, ring.first} /\ r.capacity >= ring.capacity
      /\ Full(ring) /\ ring.ifAutoResize => r.capacity # ring.capacity
      /\ ~(Full(ring) /\ ring.ifAutoResize) => r = ring
  <2>1. CASE Full(ring) /\ ring.ifAutoResize
    <3>1. r = Reserved(ring, 2 * ring.capacity)
      BY <2>1 DEF WithRoom
    <3>2. ring.capacity \in Nat \ {0}
      BY <1>1 DEF IsRing
    <3>3. 2 * ring.capacity >= ring.capacity /\ 2 * ring.capacity # ring.capacity
      BY <3>2
    <3> QED
      BY <1>1, <2>1, <3>1, <3>3, ReservedFields
  <2>2. CASE ~(Full(ring) /\ ring.ifAutoResize)
    <3>1. r = ring
      BY <2>2 DEF WithRoom
    <3>2. ring.capacity \in Nat
      BY <1>1 DEF IsRing
    <3> QED
      BY <1>1, <2>2, <3>1, <3>2
  <2> QED
    BY <2>1, <2>2
<1> HIDE DEF r, x
<1>5. /\ IsRing(new)
      /\ next \in 0..(r.capacity - 1)
      /\ new.capacity = r.capacity
      /\ new.first = IF next = r.first THEN NextIndex(r, r.first) ELSE r.first
      /\ new.ifOverwrite = r.ifOverwrite /\ new.ifAutoResize = r.ifAutoResize
  <2>1. IsRing(r) /\ ~Empty(r) /\ x \in Element
    BY <1>2, <1>4
  <2> QED
    BY <2>1, AppendedFields
<1>6. r.data[next] \in Element \cup {NULL}
  BY <1>4, <1>5 DEF IsRing
<1>7. ResizedWrapped => ~overwrites
  BY <1>1 DEF RingInv, WrapsByRemoving
<1>8. ~ResizedWrapped => Holds(ring, queue)
  BY DEF RingInv, IsQueue
<1>9. overwrites => queue # <<>>
  <2> SUFFICES ASSUME overwrites
               PROVE  queue # <<>>
    OBVIOUS
  <2>1. Holds(ring, queue)
    BY <1>7, <1>8
  <2> QED
    BY <1>1, <2>1, RemoveHolds
<1>10. queue' \in Seq(Element)
  <2>1. overwrites => Tail(queue) \in Seq(Element)
    BY <1>1, <1>9, HeadTailProperties
  <2> QED
    BY <1>1, <1>2, <1>3, <2>1, AppendProperties
<1>11. Rings'
  <2>1. leaked' \subseteq Element \cup {NULL}
    BY <1>3, <1>6 DEF RingInv, Rings
  <2>2. happened' \subseteq {"removed", "resized while wrapped", "deleted while wrapped"}
    BY <1>3 DEF RingInv, Rings
  <2> QED
    BY <1>1, <1>2, <1>3, <1>5, <1>10, <2>1, <2>2 DEF Rings
<1> HIDE DEF new, next
\* While it is not full, or where it makes room at its end, the oldest element stays.
<1>12. ASSUME ~ResizedWrapped, ~overwrites, ~(Full(ring) /\ Wrapped(ring))
       PROVE  Holds(new, queue') /\ next # r.first /\ new.first = r.first
  <2>1. Holds(r, queue) /\ ~Full(r)
    <3>1. CASE Full(ring)
      <4>1. ring.ifAutoResize /\ ~Wrapped(ring)
        BY <1>1, <1>12, <3>1
      <4>2. r = Reserved(ring, 2 * ring.capacity)
        BY <3>1, <4>1 DEF WithRoom, r
      <4> QED
        BY <1>1, <1>8, <1>12, <3>1, <4>1, <4>2, ReserveHolds
    <3>2. CASE ~Full(ring)
      BY <1>4, <1>8, <1>12, <3>2
    <3> QED
      BY <3>1, <3>2
  <2>2. queue' = Append(queue, x)
    BY <1>3, <1>12
  <2> QED
    BY <1>1, <1>2, <1>4, <2>1, <2>2, AppendHolds DEF new, next
<1>13. ResizedWrapped' <=> ResizedWrapped \/ (r # ring /\ Wrapped(ring))
  BY <1>3 DEF ResizedWrapped
<1>14. "removed" \in happened' <=> "removed" \in happened
  BY <1>3
<1>15. ring.ifAutoResize /\ "removed" \notin happened => ~Wrapped(ring) /\ ring.first = 0 /\ ~ResizedWrapped
  BY <1>1, SizeFacts DEF RingInv, WrapsByRemoving, Wrapped, IsRing
<1>16. WrapsByRemoving'
  <2>1. ASSUME ring'.ifAutoResize, "removed" \notin happened'
        PROVE  ring'.first = 0
    <3>1. ring.ifAutoResize /\ ~Wrapped(ring) /\ ring.first = 0 /\ ~ResizedWrapped /\ ~overwrites
      BY <1>1, <1>3, <1>4, <1>5, <1>14, <1>15, <2>1
    <3> QED
      BY <1>3, <1>4, <1>12, <3>1
  <2>2. ASSUME ResizedWrapped'
        PROVE  ring'.ifAutoResize /\ "removed" \in happened'
    <3>1. CASE ResizedWrapped
      BY <1>3, <1>4, <1>5, <1>14, <3>1 DEF RingInv, WrapsByRemoving
    <3>2. CASE ~ResizedWrapped
      <4>1. Wrapped(ring) /\ Full(ring) /\ ring.ifAutoResize
        BY <1>4, <1>13, <2>2, <3>2
      <4> QED
        BY <1>3, <1>4, <1>5, <1>14, <1>15, <4>1
    <3> QED
      BY <3>1, <3>2
  <2> QED
    BY <2>1, <2>2 DEF WrapsByRemoving
<1>17. ASSUME ~ResizedWrapped'
       PROVE  /\ Holds(new, queue')
              /\ leaked' # {} => new.ifOverwrite \/ "deleted while wrapped" \in happened'
  <2>1. ~ResizedWrapped /\ happened' = happened
    BY <1>3, <1>13, <1>17
  <2>2. leaked # {} => ring.ifOverwrite \/ "deleted while wrapped" \in happened
    BY <2>1 DEF RingInv, IsQueue
  <2>3. CASE overwrites
    <3>1. r = ring /\ queue' = Append(Tail(queue), x)
      BY <1>1, <1>3, <1>4, <2>3
    <3>2. Holds(new, queue')
      BY <1>1, <1>2, <1>8, <2>1, <2>3, <3>1, OverwriteHolds DEF new
    <3> QED
      BY <1>4, <1>5, <2>3, <3>2
  <2>4. CASE ~overwrites
    <3>1. ~(Full(ring) /\ Wrapped(ring))
      <4> SUFFICES ASSUME Full(ring), Wrapped(ring)
                   PROVE  FALSE
        OBVIOUS
      <4>1. ring.ifAutoResize
        BY <1>1, <2>4
      <4>2. r # ring
        BY <1>4, <4>1
      <4> QED
        BY <1>13, <1>17, <4>2
    <3>2. Holds(new, queue') /\ next # r.first
      BY <1>12, <2>1, <2>4, <3>1
    <3>3. leaked' = leaked
      BY <1>3, <3>2
    <3> QED
      BY <1>4, <1>5, <2>1, <2>2, <3>2, <3>3
  <2> QED
    BY <2>3, <2>4
<1>18. IsQueue'
  BY <1>1, <1>3, <1>17 DEF IsQueue
<1> QED
  BY <1>11, <1>16, <1>18 DEF RingInv

\* removeFirst(),
LEMMA RemoveOldestKeeps ==
  ASSUME RingInv, RemoveOldest
  PROVE  RingInv'
<1>1. /\ IsRing(ring) /\ ~Empty(ring) /\ queue \in Seq(Element) /\ assertion = "none"
      /\ ring' = WithoutFirst(ring)
      /\ queue' = IF queue = <<>> THEN <<>> ELSE Tail(queue)
      /\ happened' = happened \cup {"removed"}
      /\ UNCHANGED <<appended, leaked, assertion>>
  BY DEF RemoveOldest, RingInv, Rings
<1>2. /\ IsRing(ring')
      /\ ring'.ifOverwrite = ring.ifOverwrite /\ ring'.ifAutoResize = ring.ifAutoResize
  BY <1>1, RemovedFields
<1>3. queue' \in Seq(Element)
  BY <1>1, EmptySeq, HeadTailProperties
<1>4. Rings'
  BY <1>1, <1>2, <1>3 DEF RingInv, Rings
<1>5. ResizedWrapped' <=> ResizedWrapped
  BY <1>1 DEF ResizedWrapped
<1>6. WrapsByRemoving'
  BY <1>1, <1>2, <1>5 DEF RingInv, WrapsByRemoving
<1>7. ~ResizedWrapped => Holds(ring', queue')
  BY <1>1, RemoveHolds DEF RingInv, IsQueue
<1>8. IsQueue'
  BY <1>1, <1>2, <1>5, <1>7 DEF RingInv, IsQueue
<1> QED
  BY <1>4, <1>6, <1>8 DEF RingInv

\* What is left on the heap is the newest element of a wrapped buffer.
LEMMA LeftBehindFacts ==
  ASSUME NEW r, IsRing(r)
  PROVE  /\ LeftBehind(r) \subseteq Element \cup {NULL}
         /\ LeftBehind(r) # {} => Wrapped(r)
<1>1. Occupied(r) \subseteq 0..(r.capacity - 1)
  BY OccupiedPlaces
<1> QED
  BY <1>1 DEF IsRing, LeftBehind, Deleted

\* deleteAllElements() and the copy.
LEMMA DeleteAndCopyKeep ==
  ASSUME RingInv, DeleteAllElements \/ Copy
  PROVE  RingInv'
<1>1. /\ IsRing(ring) /\ queue \in Seq(Element) /\ assertion = "none"
      /\ leaked' = leaked \cup LeftBehind(ring)
      /\ happened' = happened \cup DeletedNow(ring)
      /\ UNCHANGED <<appended, assertion>>
  BY DEF DeleteAllElements, Copy, RingInv, Rings
<1>2. /\ IsRing(ring') /\ queue' \in Seq(Element)
      /\ ring'.ifOverwrite = ring.ifOverwrite /\ ring'.ifAutoResize = ring.ifAutoResize
      /\ ring'.first \in {ring.first, ring'.capacity} /\ ring'.capacity = ring.capacity
      /\ Holds(ring, queue) => Holds(ring', queue')
  <2>1. CASE DeleteAllElements
    BY <1>1, <2>1, EmptiedRing, EmptySeq DEF DeleteAllElements
  <2>2. CASE Copy
    BY <1>1, <2>2, CopiedHolds DEF Copy
  <2> QED
    BY <2>1, <2>2
<1>3. /\ LeftBehind(ring) \subseteq Element \cup {NULL}
      /\ LeftBehind(ring) # {} => "deleted while wrapped" \in happened'
  BY <1>1, LeftBehindFacts DEF DeletedNow
<1>4. /\ "removed" \in happened' <=> "removed" \in happened
      /\ ResizedWrapped' <=> ResizedWrapped
      /\ happened \subseteq happened'
      /\ happened' \subseteq happened \cup {"deleted while wrapped"}
  BY <1>1 DEF DeletedNow, ResizedWrapped
<1>5. Rings'
  BY <1>1, <1>2, <1>3, <1>4 DEF RingInv, Rings
<1>6. WrapsByRemoving'
  BY <1>1, <1>2, <1>4 DEF RingInv, WrapsByRemoving
<1>7. IsQueue'
  BY <1>1, <1>2, <1>3, <1>4 DEF RingInv, IsQueue
<1> QED
  BY <1>5, <1>6, <1>7 DEF RingInv

\* So every step keeps the invariant.
LEMMA RingKeeps ==
  ASSUME RingInv, [RingNext]_ringVars
  PROVE  RingInv'
<1>1. CASE UNCHANGED ringVars
  BY <1>1 DEF ringVars, RingInv, Rings, WrapsByRemoving, IsQueue, ResizedWrapped
<1>2. CASE AppendToFull \/ RemoveFromEmpty \/ CopyOfNull
  BY <1>2, FailsKeeps
<1>3. CASE DeleteAllElements \/ Copy
  BY <1>3, DeleteAndCopyKeep
<1> QED
  BY <1>1, <1>2, <1>3, AppendToEmptyKeeps, AppendElementKeeps, RemoveOldestKeeps DEF RingNext

\* For every capacity, mode and number of elements, the ring buffer is the queue of
\* what was appended and neither removed nor overwritten, read from either end,
\* unless it resized itself while it was wrapped, which takes a removal before.
THEOREM RingIsQueue == RingSpec => [](RingTypeOK /\ BufferIsQueue)
<1>0. RingInv => RingTypeOK
  BY DEF RingInv, Rings, IsRing, RingTypeOK
<1>1. RingInv => BufferIsQueue
  <2> SUFFICES ASSUME RingInv, ~ResizedWrapped
               PROVE  HoldsTheQueue
    BY DEF RingInv, WrapsByRemoving, IsQueue, BufferIsQueue, ResizedWrapped
  <2>1. IsRing(ring) /\ Holds(ring, queue) /\ queue \in Seq(Element)
    BY DEF RingInv, Rings, IsQueue
  <2>2. RingSize(ring) = Len(queue) /\ Len(queue) \in Nat
    BY <2>1, LenProperties DEF Holds
  <2>3. ASSUME NEW n \in 0..(Len(queue) - 1)
        PROVE  /\ GetFirst(ring, n) = queue[n + 1]
               /\ GetLast(ring, n) = queue[Len(queue) - n]
    <3>1. GetFirst(ring, n) = queue[n + 1]
      BY <2>1 DEF Holds, GetFirst, Place
    <3>2. n \in 0..(RingSize(ring) - 1)
      BY <2>2
    <3>3. GetLast(ring, n) = ring.data[Place(ring, RingSize(ring) - 1 - n)]
      BY <2>1, <3>2, FromTheNewest
    <3>4. RingSize(ring) - 1 - n \in 0..(Len(queue) - 1)
          /\ (RingSize(ring) - 1 - n) + 1 = Len(queue) - n
      BY <2>2
    <3>5. ring.data[Place(ring, RingSize(ring) - 1 - n)] = queue[(RingSize(ring) - 1 - n) + 1]
      BY <2>1, <3>4 DEF Holds
    <3> QED
      BY <3>1, <3>3, <3>4, <3>5
  <2> QED
    BY <2>2, <2>3 DEF HoldsTheQueue
<1>2. RingInit => RingInv
  BY RingInitEstablishes
<1>3. RingInv /\ [RingNext]_ringVars => RingInv'
  BY RingKeeps
<1> QED
  BY <1>0, <1>1, <1>2, <1>3, PTL DEF RingSpec
-----------------------------------------------------------------------------
(* The time series: histories and their minima *)

\* The window of the i-th pair.
WindowOf(p, i) == p[i][1] \div Window

\* m is the lowest level pushed in window w.
IsMinimum(p, w, m) ==
  /\ \E i \in 1..Len(p) : WindowOf(p, i) = w /\ p[i][2] = m
  /\ \A i \in 1..Len(p) : WindowOf(p, i) = w => m <= p[i][2]

\* The pairs pushed, in the order of time.
IsHistory(p) ==
  /\ p \in Seq(Nat \X (MinValue..MaxValue))
  /\ \A i, j \in 1..Len(p) : i <= j => p[i][1] <= p[j][1]

\* The window that is not finished.
LastWindow(p) == WindowOf(p, Len(p))

\* Below window c the minima do not fall, and `last' is the last of them.
RiseTo(p, c, last) ==
  /\ \A v \in Nat, m \in Int : v < c /\ IsMinimum(p, v, m) => m <= last
  /\ last = MinValue \/ \E v \in Nat : v < c /\ IsMinimum(p, v, last)
  /\ \A v, w \in Nat, m, n \in Int :
       v < w /\ w < c /\ IsMinimum(p, v, m) /\ IsMinimum(p, w, n) => m <= n

\* Of two windows below c the later has the lower minimum.
HaveFallen(p, c) ==
  \E v, w \in Nat, m, n \in Int :
    v < w /\ w < c /\ IsMinimum(p, v, m) /\ IsMinimum(p, w, n) /\ n < m

\* The records a time series is.
Series ==
  [isMinIncreasing : BOOLEAN, lastMinValue : Int, curMinValue : Int, curStepNr : Int,
   lastTime : Nat]

\* What the series s has kept of the pairs p: while the minima have not fallen, the
\* current window, its minimum and the one before; afterwards only that they have.
Tracks(s, p) ==
  /\ p = <<>> => s = NewSeries
  /\ p # <<>> => \A i \in 1..Len(p) : p[i][1] <= s.lastTime
  /\ p # <<>> /\ s.isMinIncreasing =>
       /\ s.curStepNr = LastWindow(p) /\ IsMinimum(p, LastWindow(p), s.curMinValue)
       /\ RiseTo(p, LastWindow(p), s.lastMinValue)
  /\ p # <<>> /\ ~s.isMinIncreasing => HaveFallen(p, LastWindow(p))

\* Windows follow each other as their times do.
LEMMA Division ==
  ASSUME NEW t \in Nat, NEW u \in Nat
  PROVE  /\ t \div Window \in Nat
         /\ t <= u => t \div Window <= u \div Window
         /\ t \div Window <= u \div Window /\ u < (t \div Window + 1) * Window
              => u \div Window = t \div Window
         /\ ~(u < (t \div Window + 1) * Window) => t \div Window < u \div Window
<1>1. Window \in Nat \ {0}
  BY MeasurementsAssumption
<1>2. t \div Window \in Nat /\ u \div Window \in Nat
  BY <1>1
<1>3. t <= u => t \div Window <= u \div Window
  BY <1>1
<1>4. ASSUME NEW q \in Nat, u < q * Window
      PROVE  u \div Window < q
  BY <1>1, <1>4
<1>5. ASSUME NEW q \in Nat, q * Window <= u
      PROVE  q <= u \div Window
  BY <1>1, <1>5
<1> DEFINE q == t \div Window
<1>6. q + 1 \in Nat /\ q \in Nat
  BY <1>2
<1> HIDE DEF q
<1>7. q <= u \div Window /\ u < (q + 1) * Window => u \div Window = q
  BY <1>2, <1>4, <1>6
<1>8. ~(u < (q + 1) * Window) => q < u \div Window
  <2>1. (q + 1) * Window \in Int
    BY <1>1, <1>6
  <2> SUFFICES ASSUME (q + 1) * Window <= u
               PROVE  q < u \div Window
    BY <2>1
  <2>2. q + 1 <= u \div Window
    BY <1>5, <1>6
  <2> QED
    BY <1>2, <1>6, <2>2
<1> QED
  BY <1>2, <1>3, <1>7, <1>8 DEF q

\* The pairs of a history and their windows.
LEMMA HistoryFacts ==
  ASSUME NEW p, IsHistory(p)
  PROVE  /\ Len(p) \in Nat /\ (p # <<>> => Len(p) \in 1..Len(p))
         /\ \A i \in 1..Len(p) :
              /\ p[i][1] \in Nat /\ p[i][2] \in Int /\ p[i][2] >= MinValue
              /\ WindowOf(p, i) \in Nat /\ WindowOf(p, i) <= LastWindow(p)
<1>1. Len(p) \in Nat /\ (p # <<>> => Len(p) > 0)
  BY EmptySeq, LenProperties DEF IsHistory
<1>2. \A i \in 1..Len(p) : p[i] \in Nat \X (MinValue..MaxValue)
  BY ElementOfSeq DEF IsHistory
<1>3. \A i \in 1..Len(p) : p[i][1] \in Nat /\ p[i][2] \in Int /\ p[i][2] >= MinValue
  BY <1>2, TimeSeriesAssumption
<1>4. ASSUME NEW i \in 1..Len(p)
      PROVE  WindowOf(p, i) \in Nat /\ WindowOf(p, i) <= LastWindow(p)
  <2>1. Len(p) \in 1..Len(p) /\ i <= Len(p)
    BY <1>1
  <2>2. p[i][1] <= p[Len(p)][1]
    BY <2>1 DEF IsHistory
  <2> QED
    BY <1>3, <2>1, <2>2, Division DEF WindowOf, LastWindow
<1> QED
  BY <1>1, <1>3, <1>4

\* A window has one minimum.
LEMMA MinimumIsUnique ==
  ASSUME NEW p, IsHistory(p), NEW w, NEW m, NEW n, IsMinimum(p, w, m), IsMinimum(p, w, n)
  PROVE  m = n /\ m \in Int /\ m >= MinValue
<1>1. PICK i \in 1..Len(p) : WindowOf(p, i) = w /\ p[i][2] = m
  BY DEF IsMinimum
<1>2. PICK j \in 1..Len(p) : WindowOf(p, j) = w /\ p[j][2] = n
  BY DEF IsMinimum
<1>3. m <= n /\ n <= m
  BY <1>1, <1>2 DEF IsMinimum
<1>4. m \in Int /\ n \in Int /\ m >= MinValue
  BY <1>1, <1>2, HistoryFacts
<1> QED
  BY <1>3, <1>4

\* A pair that is not older than the others continues a history.
LEMMA AppendedHistory ==
  ASSUME NEW p, IsHistory(p), NEW t \in Nat, NEW x \in MinValue..MaxValue,
         \A i \in 1..Len(p) : p[i][1] <= t
  PROVE  LET q == Append(p, <<t, x>>)
         IN /\ IsHistory(q) /\ q # <<>> /\ Len(q) = Len(p) + 1 /\ Len(p) \in Nat
            /\ \A i \in 1..Len(p) : q[i] = p[i]
            /\ q[Len(p) + 1] = <<t, x>>
            /\ LastWindow(q) = t \div Window /\ LastWindow(q) \in Nat
            /\ p # <<>> => LastWindow(p) <= LastWindow(q) /\ LastWindow(p) \in Nat
<1> DEFINE q == Append(p, <<t, x>>)
           k == Len(p)
<1>1. k \in Nat /\ p \in Seq(Nat \X (MinValue..MaxValue))
  BY HistoryFacts DEF IsHistory
<1>2. <<t, x>> \in Nat \X (MinValue..MaxValue)
  OBVIOUS
<1>3. /\ q \in Seq(Nat \X (MinValue..MaxValue)) /\ Len(q) = k + 1
      /\ \A i \in 1..k : q[i] = p[i]
      /\ q[k + 1] = <<t, x>>
  BY <1>1, <1>2, AppendProperties
<1> HIDE DEF q
<1>4. ASSUME NEW i \in 1..Len(q), NEW j \in 1..Len(q), i <= j
      PROVE  q[i][1] <= q[j][1]
  <2>1. CASE j \in 1..k
    <3>1. i \in 1..k
      BY <1>1, <1>3, <1>4, <2>1
    <3> QED
      BY <1>3, <1>4, <2>1, <3>1 DEF IsHistory
  <2>2. CASE j = k + 1 /\ i = k + 1
    BY <1>3, <2>2
  <2>3. CASE j = k + 1 /\ i \in 1..k
    <3>1. q[i] = p[i] /\ p[i][1] <= t
      BY <1>3, <2>3
    <3>2. q[j] = <<t, x>>
      BY <1>3, <2>3
    <3> QED
      BY <3>1, <3>2
  <2> QED
    BY <1>1, <1>3, <2>1, <2>2, <2>3
<1>5. IsHistory(q)
  BY <1>3, <1>4 DEF IsHistory
<1>6. LastWindow(q) = t \div Window
  BY <1>3 DEF LastWindow, WindowOf
<1>7. q # <<>>
  BY <1>1, <1>3, EmptySeq
<1>8. ASSUME p # <<>>
      PROVE  LastWindow(p) <= LastWindow(q) /\ LastWindow(p) \in Nat
  <2>1. k \in 1..k
    BY <1>8, HistoryFacts
  <2>2. p[k][1] \in Nat /\ p[k][1] <= t
    BY <2>1, HistoryFacts
  <2> QED
    BY <1>6, <2>2, Division DEF LastWindow, WindowOf
<1> QED
  BY <1>1, <1>3, <1>5, <1>6, <1>7, <1>8, Division DEF q

\* It changes no minimum but that of its own window.
LEMMA AppendedMinima ==
  ASSUME NEW p, IsHistory(p), NEW t \in Nat, NEW x \in MinValue..MaxValue,
         \A i \in 1..Len(p) : p[i][1] <= t,
         NEW q, q = Append(p, <<t, x>>)
  PROVE  /\ \A v, m : v # LastWindow(q) => (IsMinimum(q, v, m) <=> IsMinimum(p, v, m))
         /\ p = <<>> \/ LastWindow(p) < LastWindow(q) => IsMinimum(q, LastWindow(q), x)
         /\ \A m : p # <<>> /\ LastWindow(p) = LastWindow(q) /\ IsMinimum(p, LastWindow(p), m)
              => IsMinimum(q, LastWindow(q), Smaller(x, m))
<1> DEFINE k == Len(p)
           c == LastWindow(q)
<1>1. /\ k \in Nat /\ Len(q) = k + 1
      /\ \A i \in 1..k : q[i] = p[i]
      /\ q[k + 1] = <<t, x>>
      /\ c = t \div Window /\ c \in Nat
  BY AppendedHistory
<1>2. /\ 1..Len(q) = (1..k) \cup {k + 1}
      /\ \A i \in 1..k : WindowOf(q, i) = WindowOf(p, i) /\ q[i][2] = p[i][2]
      /\ WindowOf(q, k + 1) = c /\ q[k + 1][2] = x
  BY <1>1 DEF WindowOf
<1> HIDE DEF c
<1>3. ASSUME NEW v, NEW m, v # c
      PROVE  IsMinimum(q, v, m) <=> IsMinimum(p, v, m)
  BY <1>2, <1>3 DEF IsMinimum
<1>4. x \in Int
  BY TimeSeriesAssumption
<1>5. ASSUME p = <<>> \/ LastWindow(p) < c
      PROVE  IsMinimum(q, c, x)
  <2>1. \A i \in 1..k : WindowOf(p, i) # c
    <3>1. CASE p = <<>>
      BY <3>1
    <3>2. CASE LastWindow(p) < c /\ p # <<>>
      <4>1. LastWindow(p) \in Nat
        BY <3>2, AppendedHistory
      <4> QED
        BY <1>1, <3>2, <4>1, HistoryFacts
    <3> QED
      BY <1>5, <3>1, <3>2
  <2> QED
    BY <1>2, <1>4, <2>1 DEF IsMinimum
<1>6. ASSUME NEW m, LastWindow(p) = c, IsMinimum(p, c, m)
      PROVE  IsMinimum(q, c, Smaller(x, m))
  <2>1. m \in Int
    BY <1>6, MinimumIsUnique
  <2>2. Smaller(x, m) \in {x, m} /\ Smaller(x, m) <= x /\ Smaller(x, m) <= m
    BY <1>4, <2>1 DEF Smaller
  <2>3. \A i \in 1..k : p[i][2] \in Int
    BY HistoryFacts
  <2>4. \E i \in 1..Len(q) : WindowOf(q, i) = c /\ q[i][2] = Smaller(x, m)
    BY <1>2, <1>6, <2>2 DEF IsMinimum
  <2>5. ASSUME NEW i \in 1..Len(q), WindowOf(q, i) = c
        PROVE  Smaller(x, m) <= q[i][2]
    <3>1. CASE i = k + 1
      BY <1>2, <2>2, <3>1
    <3>2. CASE i \in 1..k
      <4>1. m <= p[i][2] /\ p[i][2] = q[i][2] /\ p[i][2] \in Int /\ Smaller(x, m) \in Int
        BY <1>2, <1>4, <1>6, <2>1, <2>2, <2>3, <2>5, <3>2 DEF IsMinimum
      <4> QED
        BY <2>1, <2>2, <4>1
    <3> QED
      BY <1>2, <3>1, <3>2
  <2> QED
    BY <2>4, <2>5 DEF IsMinimum
<1> QED
  BY <1>3, <1>5, <1>6 DEF c

\* What pushBack() does with the next pair.
LEMMA PushBackTracks ==
  ASSUME NEW p, IsHistory(p), NEW s \in Series, Tracks(s, p),
         NEW t \in Nat, NEW x \in MinValue..MaxValue, s.lastTime <= t
  PROVE  /\ PushBack(s, t, x, Window) \in Series
         /\ IsHistory(Append(p, <<t, x>>))
         /\ Tracks(PushBack(s, t, x, Window), Append(p, <<t, x>>))
<1> DEFINE q == Append(p, <<t, x>>)
           n == PushBack(s, t, x, Window)
           b == LastWindow(p)
           c == LastWindow(q)
<1>1. \A i \in 1..Len(p) : p[i][1] <= t
  <2> SUFFICES ASSUME NEW i \in 1..Len(p)
               PROVE  p[i][1] <= t
    OBVIOUS
  <2>1. p # <<>>
    BY EmptySeq
  <2>2. p[i][1] <= s.lastTime /\ p[i][1] \in Nat /\ s.lastTime \in Nat
    BY <2>1, HistoryFacts DEF Tracks, Series
  <2> QED
    BY <2>2
<1>2. /\ IsHistory(q) /\ q # <<>> /\ Len(q) = Len(p) + 1 /\ Len(p) \in Nat
      /\ \A i \in 1..Len(p) : q[i] = p[i]
      /\ q[Len(p) + 1] = <<t, x>>
      /\ c = t \div Window /\ c \in Nat
      /\ p # <<>> => b <= c /\ b \in Nat
  BY <1>1, AppendedHistory
<1>3. /\ \A v, m : v # c => (IsMinimum(q, v, m) <=> IsMinimum(p, v, m))
      /\ p = <<>> \/ b < c => IsMinimum(q, c, x)
      /\ \A m : p # <<>> /\ b = c /\ IsMinimum(p, b, m) => IsMinimum(q, c, Smaller(x, m))
  BY <1>1, AppendedMinima
<1>4. \A i \in 1..Len(q) : q[i][1] <= t
  BY <1>1, <1>2
<1>5. s = [isMinIncreasing |-> s.isMinIncreasing, lastMinValue |-> s.lastMinValue,
           curMinValue |-> s.curMinValue, curStepNr |-> s.curStepNr, lastTime |-> s.lastTime]
  BY DEF Series
<1>6. x \in Int /\ x >= MinValue /\ MinValue \in Int
  BY TimeSeriesAssumption
<1> HIDE DEF q, n, b, c
\* The minima have fallen already.
<1>7. CASE ~s.isMinIncreasing
  <2>1. n = [s EXCEPT !.lastTime = t]
    BY <1>7 DEF n, PushBack
  <2>2. n \in Series /\ ~n.isMinIncreasing /\ n.lastTime = t
    BY <1>7, <2>1 DEF Series
  <2>3. p # <<>>
    BY <1>7 DEF Tracks, NewSeries
  <2>4. HaveFallen(p, b)
    BY <1>7, <2>3 DEF Tracks, b
  <2>5. PICK v \in Nat, w \in Nat, m \in Int, k \in Int :
          v < w /\ w < b /\ IsMinimum(p, v, m) /\ IsMinimum(p, w, k) /\ k < m
    BY <2>4 DEF HaveFallen
  <2>6. v # c /\ w # c /\ w < c
    BY <1>2, <2>3, <2>5
  <2>7. HaveFallen(q, c)
    BY <1>3, <2>5, <2>6 DEF HaveFallen
  <2>8. Tracks(n, q)
    BY <1>2, <1>4, <2>2, <2>7 DEF Tracks, c
  <2> QED
    BY <1>2, <2>2, <2>8 DEF n, q
\* The first value.
<1>8. CASE s.isMinIncreasing /\ p = <<>>
  <2>1. s = NewSeries
    BY <1>8 DEF Tracks
  <2>2. n = [s EXCEPT !.lastTime = t, !.curStepNr = t \div Window, !.curMinValue = x]
    BY <2>1 DEF n, PushBack, NewSeries
  <2>3. t \div Window \in Int
    BY <1>2
  <2>4. /\ n \in Series /\ n.isMinIncreasing /\ n.lastTime = t /\ n.curStepNr = c
        /\ n.curMinValue = x /\ n.lastMinValue = MinValue
    BY <1>2, <1>6, <2>1, <2>2, <2>3 DEF Series, NewSeries
  <2>5. \A v, m : v < c => ~IsMinimum(q, v, m)
    <3> SUFFICES ASSUME NEW v, NEW m, v < c, IsMinimum(q, v, m)
                 PROVE  FALSE
      OBVIOUS
    <3>1. PICK i \in 1..Len(q) : WindowOf(q, i) = v
      BY DEF IsMinimum
    <3>2. Len(q) = 1 /\ i = Len(q)
      BY <1>2, <1>8, <3>1
    <3>3. v = c
      BY <3>1, <3>2 DEF c, LastWindow
    <3> QED
      BY <1>2, <3>3
  <2>6. RiseTo(q, c, MinValue)
    BY <2>5 DEF RiseTo
  <2>7. IsMinimum(q, c, x)
    BY <1>3, <1>8
  <2>8. Tracks(n, q)
    BY <1>2, <1>4, <2>4, <2>6, <2>7 DEF Tracks, c
  <2> QED
    BY <1>2, <2>4, <2>8 DEF n, q
<1>9. ASSUME s.isMinIncreasing, p # <<>>
      PROVE  /\ s.curStepNr = b /\ b \in Nat /\ b <= c
             /\ IsMinimum(p, b, s.curMinValue) /\ RiseTo(p, b, s.lastMinValue)
             /\ b # -1
  BY <1>2, <1>9 DEF Tracks, b
<1>10. s.curMinValue \in Int /\ s.lastMinValue \in Int /\ s.lastTime \in Nat
  BY DEF Series
<1>11. ASSUME p # <<>>
       PROVE  /\ t < (b + 1) * Window => c = b
              /\ ~(t < (b + 1) * Window) => b < c
  <2>1. b = p[Len(p)][1] \div Window /\ Len(p) \in 1..Len(p)
    BY <1>11, HistoryFacts DEF b, LastWindow, WindowOf
  <2>2. p[Len(p)][1] \in Nat /\ c = t \div Window /\ b <= c
    BY <1>2, <1>11, <2>1, HistoryFacts
  <2> QED
    BY <2>1, <2>2, Division
\* Another value of the current window.
<1>12. CASE s.isMinIncreasing /\ p # <<>> /\ t < (b + 1) * Window
  <2>1. c = b /\ s.curStepNr = b /\ b # -1
    BY <1>9, <1>11, <1>12
  <2>2. n = [s EXCEPT !.lastTime = t, !.curMinValue = Smaller(x, s.curMinValue)]
    BY <1>12, <2>1 DEF n, PushBack
  <2>3. Smaller(x, s.curMinValue) \in Int
    BY <1>6, <1>10 DEF Smaller
  <2>4. /\ n \in Series /\ n.isMinIncreasing /\ n.lastTime = t /\ n.curStepNr = b
        /\ n.curMinValue = Smaller(x, s.curMinValue) /\ n.lastMinValue = s.lastMinValue
    BY <1>12, <2>1, <2>2, <2>3 DEF Series
  <2>5. IsMinimum(q, c, Smaller(x, s.curMinValue))
    BY <1>3, <1>9, <1>12, <2>1
  <2>6. RiseTo(q, c, s.lastMinValue)
    <3>1. RiseTo(p, c, s.lastMinValue)
      BY <1>9, <1>12, <2>1
    <3>2. \A v \in Nat : \A m : v < c => (IsMinimum(q, v, m) <=> IsMinimum(p, v, m))
      BY <1>2, <1>3
    <3>3. \A v, w \in Nat : v < w /\ w < c => v < c
      BY <1>2
    <3> QED
      BY <3>1, <3>2, <3>3 DEF RiseTo
  <2>7. Tracks(n, q)
    BY <1>2, <1>4, <2>1, <2>4, <2>5, <2>6 DEF Tracks, c
  <2> QED
    BY <1>2, <2>4, <2>7 DEF n, q
\* The first value of a later window closes the current one.
<1>13. CASE s.isMinIncreasing /\ p # <<>> /\ ~(t < (b + 1) * Window)
  <2> DEFINE last == s.lastMinValue
             cur == s.curMinValue
  <2>1. b < c /\ s.curStepNr = b /\ b # -1 /\ b \in Nat /\ c \in Nat
    BY <1>2, <1>9, <1>11, <1>13
  <2>2. n = CrossStep(s, t, x, Window)
    BY <1>13, <2>1 DEF n, PushBack
  <2>3. /\ n \in Series /\ n.isMinIncreasing = (cur >= last) /\ n.lastTime = t
        /\ n.curStepNr = c /\ n.curMinValue = x /\ n.lastMinValue = cur
    BY <1>2, <1>6, <1>10, <2>2 DEF CrossStep, Series
  <2>4. IsMinimum(p, b, cur) /\ RiseTo(p, b, last)
    BY <1>9, <1>13
  <2>5. IsMinimum(q, c, x) /\ IsMinimum(q, b, cur)
    BY <1>3, <2>1, <2>4
  <2>6. ASSUME NEW v \in Nat, NEW m, v < c, IsMinimum(q, v, m)
        PROVE  IsMinimum(p, v, m) /\ v <= b
    <3>1. IsMinimum(p, v, m)
      BY <1>2, <1>3, <2>6
    <3>2. PICK i \in 1..Len(p) : WindowOf(p, i) = v
      BY <3>1 DEF IsMinimum
    <3> QED
      BY <3>1, <3>2, HistoryFacts DEF b
  <2>7. CASE cur >= last
    <3>1. \A v \in Nat, m \in Int : v < c /\ IsMinimum(q, v, m) => m <= cur
      <4> SUFFICES ASSUME NEW v \in Nat, NEW m \in Int, v < c, IsMinimum(q, v, m)
                   PROVE  m <= cur
        OBVIOUS
      <4>1. IsMinimum(p, v, m) /\ v <= b
        BY <2>6
      <4>2. CASE v = b
        BY <1>10, <2>4, <4>1, <4>2, MinimumIsUnique
      <4>3. CASE v < b
        <5>1. m <= last
          BY <2>4, <4>1, <4>3 DEF RiseTo
        <5> QED
          BY <1>10, <2>7, <5>1
      <4> QED
        BY <2>1, <4>1, <4>2, <4>3
    <3>2. \A v, w \in Nat, m, k \in Int :
            v < w /\ w < c /\ IsMinimum(q, v, m) /\ IsMinimum(q, w, k) => m <= k
      <4> SUFFICES ASSUME NEW v \in Nat, NEW w \in Nat, NEW m \in Int, NEW k \in Int,
                          v < w, w < c, IsMinimum(q, v, m), IsMinimum(q, w, k)
                   PROVE  m <= k
        OBVIOUS
      <4>1. v < c
        BY <2>1
      <4>2. IsMinimum(p, v, m) /\ IsMinimum(p, w, k) /\ w <= b
        BY <2>6, <4>1
      <4>3. CASE w = b
        <5>1. k = cur
          BY <2>4, <4>2, <4>3, MinimumIsUnique
        <5> QED
          BY <3>1, <4>1, <5>1
      <4>4. CASE w < b
        BY <2>4, <4>2, <4>4 DEF RiseTo
      <4> QED
        BY <2>1, <4>2, <4>3, <4>4
    <3>3. \E v \in Nat : v < c /\ IsMinimum(q, v, cur)
      BY <2>1, <2>5
    <3>4. RiseTo(q, c, cur)
      BY <3>1, <3>2, <3>3 DEF RiseTo
    <3>5. n.isMinIncreasing
      BY <2>3, <2>7
    <3>6. Tracks(n, q)
      BY <1>2, <1>4, <2>3, <2>5, <3>4, <3>5 DEF Tracks, c
    <3> QED
      BY <1>2, <2>3, <3>6 DEF n, q
  <2>8. CASE ~(cur >= last)
    <3>1. cur >= MinValue
      BY <2>4, MinimumIsUnique
    <3>2. last # MinValue /\ cur < last
      BY <1>6, <1>10, <2>8, <3>1
    <3>3. PICK v \in Nat : v < b /\ IsMinimum(p, v, last)
      BY <2>4, <3>2 DEF RiseTo
    <3>4. v < b /\ b < c /\ IsMinimum(q, v, last)
      BY <1>3, <2>1, <3>3
    <3>5. HaveFallen(q, c)
      BY <1>10, <2>1, <2>5, <3>2, <3>4 DEF HaveFallen
    <3>6. ~n.isMinIncreasing
      BY <2>3, <2>8
    <3>7. Tracks(n, q)
      BY <1>2, <1>4, <2>3, <3>5, <3>6 DEF Tracks, c
    <3> QED
      BY <1>2, <2>3, <3>7 DEF n, q
  <2> QED
    BY <2>7, <2>8
<1> QED
  BY <1>7, <1>8, <1>12, <1>13

\* The inductive invariant of the series.
LevelInv ==
  /\ clock \in 0..LastTick
  /\ levels \in Series /\ levels.lastTime <= clock
  /\ IsHistory(pushed) /\ Tracks(levels, pushed)
  /\ rsList = <<>>

\* Every set of numbers has a least one.
LEMMA LeastElement ==
  ASSUME NEW T, T \subseteq Nat, T # {}
  PROVE  \E n \in T : \A m \in T : n <= m
<1>1. PICK n \in T : \A m \in T : ~(<<m, n>> \in OpToRel(<, Nat))
  BY NatLessThanWellFounded, WFMin
<1>2. \A m \in T : ~(m < n)
  BY <1>1 DEF OpToRel
<1> QED
  BY <1>2

\* A window with levels has a minimum.
LEMMA MinimumExists ==
  ASSUME NEW p, IsHistory(p), NEW i \in 1..Len(p)
  PROVE  \E m \in Int : IsMinimum(p, WindowOf(p, i), m)
<1> DEFINE w == WindowOf(p, i)
           T == {p[k][2] - MinValue : k \in {k \in 1..Len(p) : WindowOf(p, k) = w}}
<1>1. \A k \in 1..Len(p) : p[k][2] \in Int /\ p[k][2] >= MinValue /\ MinValue \in Int
  BY HistoryFacts, TimeSeriesAssumption
<1>2. T \subseteq Nat /\ T # {}
  BY <1>1
<1>3. PICK n \in T : \A m \in T : n <= m
  BY <1>2, LeastElement
<1>4. PICK k \in 1..Len(p) : WindowOf(p, k) = w /\ n = p[k][2] - MinValue
  BY <1>3
<1>5. ASSUME NEW j \in 1..Len(p), WindowOf(p, j) = w
      PROVE  p[k][2] <= p[j][2]
  <2>1. p[j][2] - MinValue \in T
    BY <1>5
  <2>2. p[k][2] - MinValue <= p[j][2] - MinValue
    BY <1>3, <1>4, <2>1
  <2> QED
    BY <1>1, <2>2
<1>6. IsMinimum(p, w, p[k][2])
  BY <1>4, <1>5 DEF IsMinimum
<1> QED
  BY <1>1, <1>6

\* The invariant holds of an empty series,
LEMMA LevelInitEstablishes ==
  ASSUME MeasureInit
  PROVE  LevelInv
<1>1. levels = NewSeries /\ pushed = <<>> /\ clock = 0 /\ rsList = <<>>
  BY DEF MeasureInit
<1>2. NewSeries \in Series /\ NewSeries.lastTime = 0
  BY TimeSeriesAssumption DEF NewSeries, Series
<1>3. IsHistory(<<>>)
  BY EmptySeq DEF IsHistory
<1> QED
  BY <1>1, <1>2, <1>3, MeasurementsAssumption DEF LevelInv, Tracks

\* and pushBack() keeps it.
LEMMA LevelKeeps ==
  ASSUME LevelInv, [LevelNext]_measureVars
  PROVE  LevelInv'
<1>1. CASE UNCHANGED measureVars
  BY <1>1 DEF measureVars, LevelInv
<1>2. CASE ClockTick
  <2>1. clock' = clock + 1 /\ clock < LastTick /\ UNCHANGED <<rsList, levels, pushed>>
    BY <1>2 DEF ClockTick
  <2>2. clock' \in 0..LastTick /\ levels.lastTime <= clock'
    BY <2>1, MeasurementsAssumption DEF LevelInv, Series
  <2> QED
    BY <2>1, <2>2 DEF LevelInv
<1>3. ASSUME NEW x \in Levels, PushLevel(x)
      PROVE  LevelInv'
  <2>1. /\ MayPush(levels, clock, Window) /\ levels' = PushBack(levels, clock, x, Window)
        /\ pushed' = Append(pushed, <<clock, x>>) /\ UNCHANGED <<clock, rsList>>
    BY <1>3 DEF PushLevel
  <2>2. x \in MinValue..MaxValue /\ clock \in Nat /\ levels.lastTime <= clock
    BY MeasurementsAssumption DEF LevelInv
  <2>3. levels' \in Series /\ IsHistory(pushed') /\ Tracks(levels', pushed')
    BY <2>1, <2>2, PushBackTracks DEF LevelInv
  <2>4. levels'.lastTime = clock
    BY <2>1 DEF PushBack, CrossStep, LevelInv, Series
  <2> QED
    BY <2>1, <2>2, <2>3, <2>4 DEF LevelInv
<1> QED
  BY <1>1, <1>2, <1>3 DEF LevelNext

\* For all levels, times and windows, pushBack() says "the minima have not fallen"
\* exactly while they have not, though it keeps no more than two of them.
THEOREM SeriesIsRight == LevelSpec => [](MeasureTypeOK /\ MinimaNeverFell)
<1>1. LevelInv => MinimaNeverFell
  <2> SUFFICES ASSUME LevelInv
               PROVE  MinimaNeverFell
    OBVIOUS
  <2> DEFINE p == pushed
             windowOf(i) == p[i][1] \div Window
             windows  == {windowOf(i) : i \in DOMAIN p}
             finished == {w \in windows : \E v \in windows : v > w}
             Lowest(w, x) == /\ x \in {p[i][2] : i \in {k \in DOMAIN p : windowOf(k) = w}}
                             /\ \A i \in DOMAIN p : windowOf(i) = w => x <= p[i][2]
             minimum(w) == CHOOSE x \in {p[i][2] : i \in {k \in DOMAIN p : windowOf(k) = w}} :
                             \A i \in DOMAIN p : windowOf(i) = w => x <= p[i][2]
  <2>1. IsHistory(p) /\ DOMAIN p = 1..Len(p)
    BY LenProperties DEF LevelInv, IsHistory
  <2>2. \A w, x : Lowest(w, x) <=> IsMinimum(p, w, x)
    BY <2>1 DEF IsMinimum, WindowOf
  <2>3. ASSUME NEW w \in finished
        PROVE  IsMinimum(p, w, minimum(w)) /\ w \in Nat /\ minimum(w) \in Int
               /\ w < LastWindow(p) /\ p # <<>>
    <3>1. PICK i \in 1..Len(p) : w = WindowOf(p, i)
      BY <2>1 DEF WindowOf
    <3>2. PICK m \in Int : IsMinimum(p, w, m)
      BY <2>1, <3>1, MinimumExists
    <3>3. Lowest(w, m)
      BY <2>2, <3>2
    <3>4. Lowest(w, minimum(w))
      BY <3>3
    <3>5. IsMinimum(p, w, minimum(w))
      BY <2>2, <3>4
    <3>6. PICK j \in 1..Len(p) : WindowOf(p, j) > w
      BY <2>1 DEF WindowOf
    <3>7. w \in Nat /\ WindowOf(p, j) \in Nat /\ WindowOf(p, j) <= LastWindow(p)
      BY <2>1, <3>1, <3>6, HistoryFacts
    <3>8. p # <<>>
      BY <3>1, EmptySeq
    <3>9. LastWindow(p) \in Nat
      BY <2>1, <3>8, HistoryFacts DEF LastWindow
    <3> QED
      BY <2>1, <3>5, <3>6, <3>7, <3>8, <3>9, MinimumIsUnique
  <2>4. ASSUME NEW w, NEW m, IsMinimum(p, w, m), w < LastWindow(p), p # <<>>
        PROVE  w \in finished /\ m = minimum(w)
    <3>1. PICK i \in 1..Len(p) : w = WindowOf(p, i)
      BY <2>4 DEF IsMinimum
    <3>2. Len(p) \in 1..Len(p)
      BY <2>1, <2>4, HistoryFacts
    <3>3. w \in windows /\ LastWindow(p) \in windows
      BY <2>1, <3>1, <3>2 DEF WindowOf, LastWindow
    <3>4. w \in Nat /\ LastWindow(p) \in Nat
      BY <2>1, <3>1, <3>2, HistoryFacts DEF LastWindow
    <3>5. w \in finished
      BY <2>4, <3>3, <3>4
    <3> HIDE DEF minimum, finished
    <3> QED
      BY <2>1, <2>3, <2>4, <3>5, MinimumIsUnique
  <2>5. MinimaNeverFell <=> (levels.isMinIncreasing <=>
          \A v, w \in finished : v < w => minimum(v) <= minimum(w))
    BY DEF MinimaNeverFell
  <2> HIDE DEF minimum, finished
  <2>6. CASE levels.isMinIncreasing
    <3> SUFFICES ASSUME NEW v \in finished, NEW w \in finished, v < w
                 PROVE  minimum(v) <= minimum(w)
      BY <2>5, <2>6
    <3>1. RiseTo(p, LastWindow(p), levels.lastMinValue)
      BY <2>3, <2>6 DEF LevelInv, Tracks
    <3> QED
      BY <2>3, <3>1 DEF RiseTo
  <2>7. CASE ~levels.isMinIncreasing
    <3>1. p # <<>> /\ HaveFallen(p, LastWindow(p))
      BY <2>7 DEF LevelInv, Tracks, NewSeries
    <3>2. PICK v \in Nat, w \in Nat, m \in Int, n \in Int :
            v < w /\ w < LastWindow(p) /\ IsMinimum(p, v, m) /\ IsMinimum(p, w, n) /\ n < m
      BY <3>1 DEF HaveFallen
    <3>3. LastWindow(p) \in Nat
      BY <2>1, <3>1, HistoryFacts DEF LastWindow
    <3>4. v < LastWindow(p)
      BY <3>2, <3>3
    <3>5. v \in finished /\ w \in finished /\ m = minimum(v) /\ n = minimum(w)
      BY <2>4, <3>1, <3>2, <3>4
    <3>6. ~(minimum(v) <= minimum(w))
      BY <3>2, <3>5
    <3> QED
      BY <2>5, <2>7, <3>2, <3>5, <3>6
  <2> QED
    BY <2>6, <2>7
<1>2. LevelInv => MeasureTypeOK
  BY DEF LevelInv, MeasureTypeOK, Series
<1>3. MeasureInit => LevelInv
  BY LevelInitEstablishes
<1>4. LevelInv /\ [LevelNext]_measureVars => LevelInv'
  BY LevelKeeps
<1> QED
  BY <1>1, <1>2, <1>3, <1>4, PTL DEF LevelSpec
=============================================================================
