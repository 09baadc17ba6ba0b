----------------------------- MODULE DataField -----------------------------
(***************************************************************************)
(* Class DataField: the memory of an object, and which of its bytes are    *)
(* there.  Its dataMap, an ordered map from the first to the last byte of  *)
(* each occupied region, is a set of intervals.  The bytes themselves are  *)
(* left out.                                                               *)
(***************************************************************************)
EXTENDS Integers, FiniteSets, FiniteSetsExt

Interval == [from : Nat, to : Nat]

Region(from, to) == [from |-> from, to |-> to]

Bytes(i) == i.from..i.to

DataField == [reservedSize : Nat, occupiedSize : Int, dataMap : SUBSET Interval]

NewDataField(numBytes) ==
  [reservedSize |-> numBytes, occupiedSize |-> 0, dataMap |-> {}]

Occupied(f) == UNION {Bytes(i) : i \in f.dataMap}

\* A byte that is asked for is one of the field.
InField(f, byte) == byte \in 0..(f.reservedSize - 1)

IsOccupied(f, byte) == byte \in Occupied(f)

\* Bytes from offset, which is occupied, to the end of its region.
ContigInterval(f, offset) ==
  LET i == CHOOSE i \in f.dataMap : offset \in Bytes(i)
  IN  i.to - offset + 1

\* Bytes that a read at offset copies into a buffer.
CopiedBytes(f, offset, bufferSize) == Min({ContigInterval(f, offset), bufferSize})

Overlapping(dataMap, from, to) ==
  {i \in dataMap : i.from <= to /\ from <= i.to}

\* The region that replaces the overlapping ones.  Its end is taken from the
\* first byte of the last overlapping region, not from the last byte.
LeftBoundary(overlapping, from) == Min({from} \cup {i.from : i \in overlapping})

\* Mutant: one byte too many.
RightBoundaryBeyond(overlapping, to) == Max({to + 1} \cup {i.from : i \in overlapping})

RightBoundary(overlapping, to) == Max({to} \cup {i.from : i \in overlapping})

\* Mutant: a left neighbour is erased and not merged.
MergedDropLeft(rest, left, right) ==
  (rest \ {i \in rest : i.to = left - 1}) \cup {Region(left, right)}

\* The new region joins the neighbours it touches.
Merged(rest, left, right) ==
  LET neighborLeft  == {i \in rest : i.to = left - 1}
      neighborRight == {i \in rest : i.from = right + 1}
  IN  (rest \ (neighborLeft \cup neighborRight))
        \cup {Region(Min({left} \cup {i.from : i \in neighborLeft}),
                     Max({right} \cup {i.to : i \in neighborRight}))}

\* setData() with overwrite.  occupiedSize changes by the new region less the
\* overlapping ones.
SetData(f, from, to) ==
  LET overlapping == Overlapping(f.dataMap, from, to)
      left == LeftBoundary(overlapping, from)
      right == RightBoundary(overlapping, to)
  IN  [reservedSize |-> f.reservedSize,
       dataMap      |-> Merged(f.dataMap \ overlapping, left, right),
       occupiedSize |-> f.occupiedSize + (right - left + 1)
                          - MapThenSumSet(LAMBDA i : i.to - i.from + 1, overlapping)]
=============================================================================
