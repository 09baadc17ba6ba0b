----------------------------- MODULE RingBuffer -----------------------------
(***************************************************************************)
(* The ring buffer in which the throughput model keeps its history of      *)
(* requests and chunks (deprecated/RingBuffer.hpp).  Elements are pointers *)
(* to objects on the heap, 1, 2, ... in the order they are appended; a     *)
(* deep copy of an object has the number of the original.                  *)
(*                                                                         *)
(* first and last are the indexes of the oldest and of the newest element, *)
(* both the capacity while the buffer is empty.  The buffer is wrapped     *)
(* when last < first.                                                      *)
(***************************************************************************)
EXTENDS Naturals, Sequences

CONSTANTS
  Capacities,   \* capacities a buffer may be constructed with
  MaxAppends    \* bound: elements ever appended

ASSUME RingBufferAssumption ==
  Capacities \subseteq Nat \ {0} /\ MaxAppends \in Nat

VARIABLES
  ring,         \* the buffer
  appended,     \* the elements appended are 1..appended
  queue,        \* history: the elements that should be in the buffer
  leaked,       \* history: objects nobody refers to any more
  happened,     \* history: the unusual operations
  assertion     \* the one that ended the process, "none" while it runs

ringVars == <<ring, appended, queue, leaked, happened, assertion>>

NULL == 0
Element == 1..MaxAppends

NewRing(capacity, overwrite, autoResize) ==
  [data |-> [i \in 0..(capacity - 1) |-> NULL], capacity |-> capacity,
   first |-> capacity, last |-> capacity,
   ifOverwrite |-> overwrite, ifAutoResize |-> autoResize]

RingInit ==
  /\ \E capacity \in Capacities, overwrite, autoResize \in BOOLEAN :
       /\ ~overwrite \/ ~autoResize
       /\ ring = NewRing(capacity, overwrite, autoResize)
  /\ appended = 0 /\ queue = <<>> /\ leaked = {} /\ happened = {}
  /\ assertion = "none"
-----------------------------------------------------------------------------
(* Queries *)

Wrapped(r) == r.last < r.first

\* Mutant: a wrapped buffer counts the gap one too long.
SizeOffByOne(r) ==
  IF r.first = r.capacity THEN 0
  ELSE IF Wrapped(r) THEN r.capacity - (r.first - r.last)
  ELSE r.last - r.first + 1

RingSize(r) ==
  IF r.first = r.capacity THEN 0
  ELSE IF Wrapped(r) THEN r.capacity - (r.first - r.last - 1)
  ELSE r.last - r.first + 1

Empty(r) == RingSize(r) = 0
Full(r) == RingSize(r) = r.capacity

\* The n-th element after the oldest, and the n-th before the newest one.
GetFirst(r, n) ==
  r.data[IF r.capacity - r.first > n THEN r.first + n ELSE n - (r.capacity - r.first)]
GetLast(r, n) ==
  r.data[IF r.last >= n THEN r.last - n ELSE r.capacity - (n - r.last)]

\* The indexes the copy constructor copies, and those whose elements are
\* deleted: of a wrapped buffer not that of the newest element.
Occupied(r) ==
  IF Empty(r) THEN {}
  ELSE IF Wrapped(r) THEN (0..r.last) \cup (r.first..(r.capacity - 1))
  ELSE r.first..r.last
Deleted(r) == IF Wrapped(r) THEN Occupied(r) \ {r.last} ELSE Occupied(r)

\* The index behind i.
NextIndex(r, i) == (i + 1) % r.capacity
-----------------------------------------------------------------------------
(* What the operations do to a buffer *)

Emptied(r) == [r EXCEPT !.first = r.capacity, !.last = r.capacity]

\* The elements move to the front of larger memory.  size() is asked after the
\* memory was exchanged: of a wrapped buffer it counts with the new capacity.
Reserved(r, newCapacity) ==
  LET moved == [i \in 0..(newCapacity - 1) |->
                  IF i < RingSize(r) THEN GetFirst(r, i) ELSE NULL]
      exchanged == [r EXCEPT !.data = moved, !.capacity = newCapacity]
  IN IF Empty(r) THEN Emptied(exchanged)
     ELSE [exchanged EXCEPT !.first = 0, !.last = RingSize(exchanged) - 1]

\* Room for one more element, if the buffer makes room.
WithRoom(r) ==
  IF Full(r) /\ r.ifAutoResize THEN Reserved(r, 2 * r.capacity) ELSE r

\* x behind the newest element; if that is the place of the oldest, the second
\* oldest becomes the first.
AppendedBehind(r, x) ==
  LET next == NextIndex(r, r.last)
  IN [r EXCEPT !.last = next, !.data[next] = x,
               !.first = IF next = r.first THEN NextIndex(r, r.first) ELSE @]

WithoutFirst(r) ==
  LET rest == [r EXCEPT !.data[r.first] = NULL]
  IN IF r.first = r.last THEN Emptied(rest)
     ELSE [rest EXCEPT !.first = NextIndex(r, r.first)]

Copied(r) ==
  [r EXCEPT !.data = [i \in DOMAIN r.data |->
                        IF i \in Occupied(r) THEN r.data[i] ELSE NULL]]
-----------------------------------------------------------------------------
(* Operations *)

\* dp2p_assert() or assert() fails, or a null pointer is followed.
RingFails(which) ==
  /\ assertion' = which
  /\ UNCHANGED <<ring, appended, queue, leaked, happened>>

AppendToEmpty ==
  /\ assertion = "none" /\ Empty(ring) /\ appended < MaxAppends
  /\ ring' = [ring EXCEPT !.first = 0, !.last = 0, !.data[0] = appended + 1]
  /\ appended' = appended + 1
  /\ queue' = <<appended + 1>>
  /\ UNCHANGED <<leaked, happened, assertion>>

AppendToFull ==
  /\ assertion = "none" /\ Full(ring) /\ appended < MaxAppends
  /\ ~ring.ifOverwrite /\ ~ring.ifAutoResize
  /\ RingFails("full")

\* append() of a buffer that has room, makes room or overwrites.
AppendElement ==
  /\ assertion = "none" /\ ~Empty(ring) /\ appended < MaxAppends
  /\ Full(ring) => ring.ifOverwrite \/ ring.ifAutoResize
  /\ LET r == WithRoom(ring)
         next == NextIndex(r, r.last)
         overwrites == Full(ring) /\ ring.ifOverwrite
     IN /\ ring' = AppendedBehind(r, appended + 1)
        /\ leaked' = leaked \cup (IF next = r.first THEN {r.data[next]} ELSE {})
        /\ queue' = Append(IF overwrites THEN Tail(queue) ELSE queue, appended + 1)
        /\ happened' = IF r # ring /\ Wrapped(ring)
                       THEN happened \cup {"resized while wrapped"} ELSE happened
  /\ appended' = appended + 1
  /\ UNCHANGED assertion

\* removeFirst(): the element belongs to the caller now.
RemoveOldest ==
  /\ assertion = "none" /\ ~Empty(ring)
  /\ ring' = WithoutFirst(ring)
  /\ queue' = IF queue = <<>> THEN <<>> ELSE Tail(queue)
  /\ happened' = happened \cup {"removed"}
  /\ UNCHANGED <<appended, leaked, assertion>>

RemoveFromEmpty ==
  assertion = "none" /\ Empty(ring) /\ RingFails("empty")

\* What deleteAllElements() leaves on the heap.
LeftBehind(r) == {r.data[i] : i \in Occupied(r) \ Deleted(r)}
DeletedNow(r) == IF Wrapped(r) THEN {"deleted while wrapped"} ELSE {}

DeleteAllElements ==
  /\ assertion = "none"
  /\ ring' = Emptied(ring)
  /\ queue' = <<>>
  /\ leaked' = leaked \cup LeftBehind(ring)
  /\ happened' = happened \cup DeletedNow(ring)
  /\ UNCHANGED <<appended, assertion>>

\* The buffer is copied and the original destroyed, as the throughput model
\* passes its history on.
Copy ==
  /\ assertion = "none"
  /\ \A i \in Occupied(ring) : ring.data[i] # NULL
  /\ ring' = Copied(ring)
  /\ leaked' = leaked \cup LeftBehind(ring)
  /\ happened' = happened \cup DeletedNow(ring)
  /\ UNCHANGED <<appended, queue, assertion>>

CopyOfNull ==
  /\ assertion = "none"
  /\ \E i \in Occupied(ring) : ring.data[i] = NULL
  /\ RingFails("null")

RingNext ==
  \/ AppendToEmpty \/ AppendToFull \/ AppendElement
  \/ RemoveOldest \/ RemoveFromEmpty
  \/ DeleteAllElements
  \/ Copy \/ CopyOfNull

RingSpec == RingInit /\ [][RingNext]_ringVars
-----------------------------------------------------------------------------
(* Properties *)

\* Memory and indexes.
RingTypeOK ==
  /\ ring.capacity \in Nat \ {0}
  /\ ring.data \in [0..(ring.capacity - 1) -> Element \cup {NULL}]
  /\ \/ ring.first = ring.capacity /\ ring.last = ring.capacity
     \/ ring.first \in 0..(ring.capacity - 1) /\ ring.last \in 0..(ring.capacity - 1)
  /\ ring.ifOverwrite \in BOOLEAN /\ ring.ifAutoResize \in BOOLEAN
  /\ ~ring.ifOverwrite \/ ~ring.ifAutoResize
  /\ appended \in 0..MaxAppends
  /\ leaked \subseteq Element \cup {NULL}
  /\ happened \subseteq {"removed", "resized while wrapped", "deleted while wrapped"}
  /\ assertion \in {"none", "full", "empty", "null"}

\* Read from either end, the buffer holds what was appended and neither removed
\* nor overwritten, in order.
HoldsTheQueue ==
  /\ RingSize(ring) = Len(queue)
  /\ \A n \in 0..(Len(queue) - 1) :
       /\ GetFirst(ring, n) = queue[n + 1]
       /\ GetLast(ring, n) = queue[Len(queue) - n]

\* A buffer that never resized itself while it was wrapped is the queue it is
\* meant to be: it complains only when that is full or empty, and an object is
\* lost only by overwriting or by deleting the elements of a wrapped buffer.
\* Only a buffer from which elements were removed resizes itself while wrapped.
BufferIsQueue ==
  IF "resized while wrapped" \in happened
  THEN "removed" \in happened
  ELSE /\ HoldsTheQueue
       /\ assertion = "full" => Len(queue) = ring.capacity
       /\ assertion = "empty" => queue = <<>>
       /\ assertion # "null"
       /\ leaked # {} => ring.ifOverwrite \/ "deleted while wrapped" \in happened
=============================================================================
