--------------------------- MODULE SegmentStorage ---------------------------
(***************************************************************************)
(* Class SegmentStorage: the MPD and the segments, each a DashObject with  *)
(* a DataField.  The field is created when the size is known, so an object *)
(* that has no data has no field yet.  Every access holds _mutex.          *)
(***************************************************************************)
EXTENDS DataField

\* dataField = nullptr
NoDataField == NewDataField(0)

Initialized(objects, content) == content \in DOMAIN objects

\* initSegment() of the contents a download asks for, unless they are there.
InitSegments(objects, contents) ==
  [c \in DOMAIN objects \cup contents |->
     IF Initialized(objects, c) THEN objects[c] ELSE NoDataField]

\* The size of an object does not change.
MaySetSize(objects, content, numBytes) ==
  /\ Initialized(objects, content)
  /\ objects[content] # NoDataField => objects[content].reservedSize = numBytes

SetSize(objects, content, numBytes) ==
  IF objects[content] = NoDataField
  THEN [objects EXCEPT ![content] = NewDataField(numBytes)] ELSE objects

MayAddData(objects, content, from, to) ==
  /\ Initialized(objects, content)
  /\ from <= to /\ to < objects[content].reservedSize

AddData(objects, content, from, to) ==
  [objects EXCEPT ![content] = SetData(@, from, to)]

GetTotalSize(objects, content) == objects[content].reservedSize

\* DashObject::hasData(), which must not ask a field for a byte behind it.
HasData(objects, content, byte) ==
  /\ Initialized(objects, content)
  /\ objects[content] # NoDataField
  /\ IsOccupied(objects[content], byte)

AsksBehindField(objects, content, byte) ==
  /\ Initialized(objects, content)
  /\ objects[content] # NoDataField /\ ~InField(objects[content], byte)
=============================================================================
