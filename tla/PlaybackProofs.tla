--------------------------- MODULE PlaybackProofs ---------------------------
(***************************************************************************)
(* Proofs about playback, for every length of the stream, all sizes of its *)
(* segments, reads of any length and any number of lost connections.       *)
(* First what the control thread and the connection do to the storage:     *)
(* what has been downloaded stays there, and nothing else is there.  Then  *)
(* what VLC's thread reads from it: the bytes of the stream, in order.     *)
(***************************************************************************)
EXTENDS Playback, FiniteSetTheorems, SequenceTheorems, WellFoundedInduction, TLAPS

-----------------------------------------------------------------------------
(* Lemmas about the data field *)

LEMMA MinMaxOfOne ==
  ASSUME NEW x \in Int
  PROVE  Min({x}) = x /\ Max({x}) = x
BY DEF Min, Max

LEMMA MinMaxOfTwo ==
  ASSUME NEW x \in Int, NEW y \in Int, x <= y
  PROVE  Min({x, y}) = x /\ Min({y, x}) = x /\ Max({x, y}) = y /\ Max({y, x}) = y
<1>1. \A z \in {x, y} : z >= x /\ z <= y
  OBVIOUS
<1>2. Min({x, y}) = x
  BY <1>1 DEF Min
<1>3. Max({x, y}) = y
  BY <1>1 DEF Max
<1>4. {x, y} = {y, x}
  OBVIOUS
<1> QED
  BY <1>2, <1>3, <1>4

\* A write from the beginning, or behind the bytes that are there, leaves one region.
LEMMA WriteLeavesOneRegion ==
  ASSUME NEW map, NEW from \in Nat, NEW to \in Nat, from <= to,
         \/ from = 0 /\ (map = {} \/ \E e \in Nat : map = {Region(0, e)})
         \/ from > 0 /\ map = {Region(0, from - 1)}
  PROVE  LET overlapping == Overlapping(map, from, to)
         IN  Merged(map \ overlapping, LeftBoundary(overlapping, from),
                    RightBoundary(overlapping, to)) = {Region(0, to)}
<1> DEFINE overlapping == Overlapping(map, from, to)
           left == LeftBoundary(overlapping, from)
           right == RightBoundary(overlapping, to)
           rest == map \ overlapping
<1>1. \A e : Region(0, e).from = 0 /\ Region(0, e).to = e
  BY DEF Region
<1>2. CASE map = {} /\ from = 0
  <2>1. overlapping = {} /\ rest = {}
    BY <1>2 DEF Overlapping
  <2>2. left = 0 /\ right = to
    BY <1>2, <2>1, MinMaxOfOne DEF LeftBoundary, RightBoundary
  <2> HIDE DEF overlapping, left, right, rest
  <2>3. Merged(rest, left, right) = {Region(Min({0}), Max({to}))}
    BY <2>1, <2>2 DEF Merged
  <2>4. Merged(rest, left, right) = {Region(0, to)}
    BY <2>3, MinMaxOfOne
  <2> QED
    BY <2>4 DEF overlapping, left, right, rest
<1>3. ASSUME NEW e \in Nat, map = {Region(0, e)}, from = 0
      PROVE  Merged(rest, left, right) = {Region(0, to)}
  <2>1. overlapping = map /\ rest = {}
    BY <1>1, <1>3 DEF Overlapping
  <2>2. {i.from : i \in overlapping} = {0}
    BY <1>1, <1>3, <2>1
  <2>3. left = Min({0}) /\ right = Max({to, 0})
    BY <1>3, <2>2 DEF LeftBoundary, RightBoundary
  <2> HIDE DEF overlapping, left, right, rest
  <2>4. left = 0 /\ right = to
    BY <1>3, <2>3, MinMaxOfOne, MinMaxOfTwo
  <2>5. Merged(rest, left, right) = {Region(Min({0}), Max({to}))}
    BY <2>1, <2>4 DEF Merged
  <2> QED
    BY <2>5, MinMaxOfOne
<1>4. CASE from > 0 /\ map = {Region(0, from - 1)}
  <2>1. overlapping = {} /\ rest = map
    BY <1>1, <1>4 DEF Overlapping
  <2>2. left = from /\ right = to
    BY <2>1, MinMaxOfOne DEF LeftBoundary, RightBoundary
  <2>3. /\ {i \in map : i.to = from - 1} = map
        /\ {i \in map : i.from = to + 1} = {}
        /\ {i.from : i \in map} = {0}
    BY <1>1, <1>4
  <2> HIDE DEF overlapping, left, right, rest
  <2>4. Merged(rest, left, right) = {Region(Min({from, 0}), Max({to}))}
    BY <2>1, <2>2, <2>3 DEF Merged
  <2>5. Merged(rest, left, right) = {Region(0, to)}
    BY <2>4, MinMaxOfOne, MinMaxOfTwo
  <2> QED
    BY <2>5 DEF overlapping, left, right, rest
<1> QED
  BY <1>2, <1>3, <1>4

-----------------------------------------------------------------------------
(* The inductive invariant.  What is requested, and what is reported and not  *)
(* yet handled, is the MPD while the contour is empty, later the init segment *)
(* and the last segment of the contour.  Each is in the queue, or reported,   *)
(* once; so a segment that is complete is never requested again, and nothing  *)
(* is written over it.                                                        *)

Types ==
  /\ DOMAIN objects \subseteq Content
  /\ objects = [c \in DOMAIN objects |-> objects[c]]
  /\ contour \in Seg \cup {-1}
  /\ queue \in Seq(Content) /\ events \in Seq(Content) /\ cbSeg \in Content
  /\ pldBytesReceived \in Nat /\ http \in {"receive", "callback"}
  /\ received \in [Content -> SUBSET Nat] /\ completed \subseteq Content

\* A field holds the first bytes of its object, which have arrived, and no others.
HoldsBeginning(f, c) ==
  \/ f.dataMap = {}
  \/ \E e \in Nat : e < Size[c] /\ f.dataMap = {Region(0, e)} /\ 0..e \subseteq received[c]

Fields ==
  \A c \in DOMAIN objects :
    /\ objects[c] = NoDataField \/ objects[c].reservedSize = Size[c]
    /\ HoldsBeginning(objects[c], c)

Whole == completed \subseteq DOMAIN objects /\ CompletedSegmentsAreWhole

\* The answer at the front goes on where its field ends.
FrontGoesOn ==
  pldBytesReceived > 0 =>
    /\ queue # <<>> /\ pldBytesReceived < Size[Head(queue)]
    /\ objects[Head(queue)].dataMap = {Region(0, pldBytesReceived - 1)}

Current == IF ContourEmpty THEN {Mpd} ELSE {0, contour}

MpdComesFirst == ~ContourEmpty => Initialized(objects, Mpd)

CompletedInContour == \A c \in completed : c <= contour

RequestsAreNew ==
  /\ \A i \in 1..Len(queue) :
       queue[i] \in Current /\ queue[i] \in DOMAIN objects /\ queue[i] \notin completed
  /\ \A i, j \in 1..Len(queue) : i # j => queue[i] # queue[j]

ReportsAreDistinct ==
  /\ \A i \in 1..Len(events) : events[i] \in Current /\ events[i] \in completed
  /\ \A i, j \in 1..Len(events) : i # j => events[i] # events[j]
  /\ http = "callback" =>
       /\ cbSeg \in Current /\ cbSeg \in completed
       /\ \A i \in 1..Len(events) : events[i] # cbSeg

IInv ==
  /\ Types /\ Fields /\ Whole /\ FrontGoesOn
  /\ MpdComesFirst /\ CompletedInContour /\ RequestsAreNew /\ ReportsAreDistinct
  /\ WritesArePrepared

-----------------------------------------------------------------------------
(* Consequences that several actions need *)

LEMMA ContentFacts ==
  /\ -1 \in Content /\ 0 \in Content /\ 1 \in Content
  /\ \A c \in Content : Size[c] \in Nat /\ Size[c] > 0
  /\ \A c \in Content : c \in Int /\ c >= -1
  /\ Content = -1..LastSeg /\ LastSeg \in Nat /\ LastSeg >= 2
BY PlaybackAssumption DEF Content, Seg, Mpd

LEMMA NoElement ==
  ASSUME NEW s \in Seq(Content), \A i \in 1..Len(s) : FALSE
  PROVE  s = <<>>
<1>1. Len(s) \in Nat
  BY LenProperties
<1>2. Len(s) = 0
  BY <1>1
<1> QED
  BY <1>2, EmptySeq

LEMMA InitEstablishes ==
  ASSUME Init
  PROVE  IInv
<1> USE DEF Init
<1>1. Types
  BY ContentFacts, EmptySeq DEF Types
<1>2. Fields /\ Whole /\ FrontGoesOn /\ CompletedInContour /\ WritesArePrepared
  BY DEF Fields, Whole, CompletedSegmentsAreWhole, FrontGoesOn, CompletedInContour,
         WritesArePrepared
<1>3. MpdComesFirst /\ RequestsAreNew /\ ReportsAreDistinct
  BY DEF MpdComesFirst, ContourEmpty, RequestsAreNew, ReportsAreDistinct
<1> QED
  BY <1>1, <1>2, <1>3 DEF IInv

\* The invariant speaks of the storage, the download and the control thread only.
LEMMA OthersPreserve ==
  ASSUME IInv, UNCHANGED <<storage, download, control>>, WritesArePrepared'
  PROVE  IInv'
<1> USE DEF IInv, storage, download, control
<1>1. Types' /\ Fields' /\ Whole' /\ FrontGoesOn'
  BY DEF Types, Fields, HoldsBeginning, Whole, CompletedSegmentsAreWhole, FrontGoesOn
<1>2. MpdComesFirst' /\ CompletedInContour' /\ RequestsAreNew' /\ ReportsAreDistinct'
  BY DEF MpdComesFirst, ContourEmpty, Initialized, CompletedInContour, RequestsAreNew,
         ReportsAreDistinct, Current
<1> QED
  BY <1>1, <1>2

\* Segments that are prepared leave what is in the storage alone.
LEMMA PreparedFields ==
  ASSUME IInv, NEW contents, contents \subseteq Content,
         objects' = InitSegments(objects, contents), UNCHANGED <<received, completed>>
  PROVE  /\ DOMAIN objects' = DOMAIN objects \cup contents
         /\ objects' = [c \in DOMAIN objects' |-> objects'[c]]
         /\ \A c \in DOMAIN objects : objects'[c] = objects[c]
         /\ Fields' /\ Whole'
<1>1. /\ DOMAIN objects' = DOMAIN objects \cup contents
      /\ objects' = [c \in DOMAIN objects' |-> objects'[c]]
      /\ \A c \in DOMAIN objects : objects'[c] = objects[c]
      /\ \A c \in DOMAIN objects' \ DOMAIN objects : objects'[c] = NoDataField
  BY DEF InitSegments, Initialized
<1>2. NoDataField.dataMap = {}
  BY DEF NoDataField, NewDataField
<1>3. Fields'
  BY <1>1, <1>2 DEF IInv, Fields, HoldsBeginning
<1>4. Whole'
  BY <1>1 DEF IInv, Whole, CompletedSegmentsAreWhole
<1> QED
  BY <1>1, <1>3, <1>4

-----------------------------------------------------------------------------
(* The control thread *)

LEMMA StartPlaybackPreserves ==
  ASSUME IInv, StartPlayback
  PROVE  IInv'
<1> USE DEF control
<1>1. /\ Mpd \notin DOMAIN objects /\ contour = -1
      /\ objects' = InitSegments(objects, Range(<<Mpd>>)) /\ queue' = queue \o <<Mpd>>
      /\ UNCHANGED <<received, completed, pldBytesReceived, http, cbSeg, contour, events,
                     fault>>
  BY DEF StartPlayback, Download, IInv, MpdComesFirst, Initialized, ContourEmpty
<1>2. Range(<<Mpd>>) = {Mpd} /\ {Mpd} \subseteq Content
  BY DEF Range, Content
<1>3. Current = {Mpd} /\ Current' = {Mpd}
  BY <1>1 DEF Current, ContourEmpty
<1>4. queue = <<>>
  <2>1. \A i \in 1..Len(queue) : FALSE
    BY <1>1, <1>3 DEF IInv, RequestsAreNew
  <2> QED
    BY <2>1, NoElement DEF IInv, Types
<1>5. queue' = <<Mpd>>
  BY <1>1, <1>4
<1>6. /\ DOMAIN objects' = DOMAIN objects \cup {Mpd}
      /\ objects' = [c \in DOMAIN objects' |-> objects'[c]]
      /\ Fields' /\ Whole'
  BY <1>1, <1>2, PreparedFields
<1>7. Types'
  BY <1>1, <1>2, <1>5, <1>6 DEF IInv, Types
<1>8. FrontGoesOn' /\ MpdComesFirst' /\ CompletedInContour' /\ WritesArePrepared'
  BY <1>1, <1>4 DEF IInv, FrontGoesOn, MpdComesFirst, ContourEmpty, CompletedInContour,
                    WritesArePrepared
<1>9. RequestsAreNew'
  BY <1>1, <1>3, <1>5, <1>6 DEF IInv, RequestsAreNew, Whole
<1>10. ReportsAreDistinct'
  BY <1>1, <1>3 DEF IInv, ReportsAreDistinct
<1> QED
  BY <1>6, <1>7, <1>8, <1>9, <1>10 DEF IInv
\* A complete object is read as one piece.
LEMMA WholeIsCopied ==
  ASSUME NEW f, NEW n \in Nat, n > 0, f.dataMap = {Region(0, n - 1)}
  PROVE  CopiedBytes(f, 0, n) = n
<1> DEFINE i == CHOOSE i \in f.dataMap : 0 \in Bytes(i)
<1>1. 0 \in Bytes(Region(0, n - 1)) /\ Region(0, n - 1).to = n - 1
  BY DEF Bytes, Region
<1>2. i = Region(0, n - 1)
  BY <1>1
<1>3. ContigInterval(f, 0) = i.to - 0 + 1
  BY DEF ContigInterval
<1> HIDE DEF i
<1>4. ContigInterval(f, 0) = n
  BY <1>1, <1>2, <1>3
<1>5. CopiedBytes(f, 0, n) = Min({n})
  BY <1>4 DEF CopiedBytes
<1> QED
  BY <1>5, MinMaxOfOne

\* What is left of the events when the first is handled.
LEMMA EventHandled ==
  ASSUME IInv, events # <<>>
  PROVE  /\ Head(events) \in Current /\ Head(events) \in completed
         /\ Tail(events) \in Seq(Content)
         /\ \A i \in 1..Len(Tail(events)) :
              /\ Tail(events)[i] \in Current /\ Tail(events)[i] \in completed
              /\ Tail(events)[i] # Head(events)
         /\ \A i, j \in 1..Len(Tail(events)) : i # j => Tail(events)[i] # Tail(events)[j]
         /\ http = "callback" =>
              /\ cbSeg # Head(events)
              /\ \A i \in 1..Len(Tail(events)) : Tail(events)[i] # cbSeg
<1>1. events \in Seq(Content) /\ ReportsAreDistinct
  BY DEF IInv, Types
<1>2. Len(events) \in Nat /\ Len(events) >= 1 /\ Head(events) = events[1]
  BY <1>1, EmptySeq
<1>3. /\ Tail(events) \in Seq(Content) /\ Len(Tail(events)) = Len(events) - 1
      /\ \A i \in 1..Len(Tail(events)) : Tail(events)[i] = events[i + 1]
  BY <1>1, HeadTailProperties
<1>4. \A i \in 1..Len(Tail(events)) : i + 1 \in 1..Len(events) /\ i + 1 # 1
  BY <1>2, <1>3
<1>5. \A i, j \in 1..Len(Tail(events)) : i # j => i + 1 # j + 1
  BY <1>2, <1>3
<1>6. 1 \in 1..Len(events)
  BY <1>2
<1> QED
  BY <1>1, <1>2, <1>3, <1>4, <1>5, <1>6 DEF ReportsAreDistinct

LEMMA FollowMpdPreserves ==
  ASSUME IInv, events # <<>>, Head(events) = Mpd, FollowMpd
  PROVE  IInv'
<1> USE ContentFacts
<1>1. contour = -1
  BY EventHandled DEF Current, ContourEmpty, IInv, Types, Mpd, Seg
<1>2. Current = {Mpd} /\ completed = {Mpd}
  <2>1. \A c \in completed : c = -1
    BY <1>1 DEF IInv, CompletedInContour, Types
  <2> QED
    BY <1>1, <2>1, EventHandled DEF Current, ContourEmpty, Mpd
<1>3. queue = <<>>
  <2>1. \A i \in 1..Len(queue) : FALSE
    BY <1>2 DEF IInv, RequestsAreNew
  <2> QED
    BY <2>1, NoElement DEF IInv, Types
<1>4. Mpd \in DOMAIN objects /\ objects[Mpd].dataMap = {Region(0, Size[Mpd] - 1)}
      /\ Mpd \in Content
  BY <1>2 DEF IInv, Whole, CompletedSegmentsAreWhole, Mpd
<1>5. GetTotalSize(objects, Mpd) = Size[Mpd]
  <2>1. NoDataField.dataMap = {}
    BY DEF NoDataField, NewDataField
  <2>2. objects[Mpd] # NoDataField
    BY <1>4, <2>1
  <2> QED
    BY <1>4, <2>2 DEF GetTotalSize, IInv, Fields
<1>6. CopiedBytes(objects[Mpd], 0, Size[Mpd]) = Size[Mpd]
  BY <1>4, WholeIsCopied
<1>7. /\ contour' = 1 /\ events' = Tail(events)
      /\ queue' = queue \o <<0, 1>> /\ objects' = InitSegments(objects, Range(<<0, 1>>))
      /\ UNCHANGED <<received, completed, pldBytesReceived, http, cbSeg, fault>>
  BY <1>5, <1>6 DEF FollowMpd, Download
<1>8. Range(<<0, 1>>) = {0, 1} /\ queue' = <<0, 1>>
  BY <1>3, <1>7 DEF Range
<1>9. /\ DOMAIN objects' = DOMAIN objects \cup {0, 1}
      /\ objects' = [c \in DOMAIN objects' |-> objects'[c]]
      /\ Fields' /\ Whole'
  BY <1>7, <1>8, PreparedFields
<1>10. events' = <<>> /\ http # "callback"
  <2>1. \A i \in 1..Len(Tail(events)) : FALSE
    BY <1>2, EventHandled
  <2>2. http # "callback"
    BY <1>2, EventHandled DEF IInv, ReportsAreDistinct
  <2>3. Tail(events) \in Seq(Content)
    BY EventHandled
  <2> QED
    BY <1>7, <2>1, <2>2, <2>3, NoElement
<1>11. Types'
  <2>1. contour' \in Seg /\ DOMAIN objects' \subseteq Content
    BY <1>7, <1>9 DEF IInv, Types, Seg
  <2>2. queue' \in Seq(Content) /\ events' \in Seq(Content)
    BY <1>8, <1>10, EmptySeq
  <2> QED
    BY <1>7, <1>9, <2>1, <2>2 DEF IInv, Types
<1>12. FrontGoesOn' /\ WritesArePrepared'
  BY <1>3, <1>7 DEF IInv, FrontGoesOn, WritesArePrepared
<1>13. MpdComesFirst' /\ CompletedInContour'
  BY <1>2, <1>4, <1>7, <1>9 DEF MpdComesFirst, Initialized, CompletedInContour, Mpd
<1>14. RequestsAreNew'
  <2>1. Current' = {0, 1}
    BY <1>7 DEF Current, ContourEmpty
  <2>2. Len(queue') = 2 /\ queue'[1] = 0 /\ queue'[2] = 1
    BY <1>8
  <2>3. \A i \in 1..Len(queue') : i = 1 \/ i = 2
    BY <2>2
  <2>4. 0 \notin completed' /\ 1 \notin completed'
    BY <1>2, <1>7 DEF Mpd
  <2> QED
    BY <1>9, <2>1, <2>2, <2>3, <2>4 DEF RequestsAreNew
<1>15. ReportsAreDistinct'
  <2>1. 1..Len(events') = {} /\ http' # "callback"
    BY <1>7, <1>10, EmptySeq
  <2> QED
    BY <2>1 DEF ReportsAreDistinct
<1> QED
  BY <1>9, <1>11, <1>12, <1>13, <1>14, <1>15 DEF IInv

LEMMA FollowSegmentPreserves ==
  ASSUME IInv, events # <<>>, Head(events) # Mpd, FollowSegment(Head(events))
  PROVE  IInv'
<1> USE ContentFacts
<1> DEFINE k == Head(events)
<1>1. /\ events' = Tail(events)
      /\ UNCHANGED <<received, completed, pldBytesReceived, http, cbSeg, fault>>
  BY DEF FollowSegment
<1>2. ~ContourEmpty /\ contour \in Seg /\ Current = {0, contour} /\ k \in {0, contour}
  BY EventHandled DEF Current, ContourEmpty, IInv, Types
<1>3. CASE NothingFollows(k)
  <2>1. UNCHANGED <<contour, queue, objects>>
    BY <1>3 DEF FollowSegment
  <2>2. Types' /\ Fields' /\ Whole' /\ FrontGoesOn'
    BY <1>1, <2>1, EventHandled DEF IInv, Types, Fields, HoldsBeginning, Whole,
       CompletedSegmentsAreWhole, FrontGoesOn
  <2>3. MpdComesFirst' /\ CompletedInContour' /\ RequestsAreNew' /\ WritesArePrepared'
    BY <1>1, <2>1 DEF IInv, MpdComesFirst, ContourEmpty, Initialized, CompletedInContour,
       RequestsAreNew, Current, WritesArePrepared
  <2>4. ReportsAreDistinct'
    BY <1>1, <2>1, EventHandled DEF IInv, ReportsAreDistinct, Current, ContourEmpty
  <2> QED
    BY <2>2, <2>3, <2>4 DEF IInv
<1>4. CASE ~NothingFollows(k)
  <2>1. /\ contour' = k + 1 /\ queue' = queue \o <<k + 1>>
        /\ objects' = InitSegments(objects, Range(<<k + 1>>))
    BY <1>4 DEF FollowSegment, Download
  <2>2. k = contour /\ contour \in 1..(LastSeg - 1) /\ contour + 1 \in Content
    BY <1>2, <1>4 DEF NothingFollows, Seg
  <2>3. Current' = {0, contour + 1} /\ contour \in completed
    BY <2>1, <2>2, EventHandled DEF Current, ContourEmpty
  <2>4. Range(<<k + 1>>) = {contour + 1}
    BY <2>2 DEF Range
  <2>5. /\ DOMAIN objects' = DOMAIN objects \cup {contour + 1}
        /\ objects' = [c \in DOMAIN objects' |-> objects'[c]]
        /\ \A c \in DOMAIN objects : objects'[c] = objects[c]
        /\ Fields' /\ Whole'
    BY <1>1, <2>1, <2>2, <2>4, PreparedFields
  <2>6. /\ queue \in Seq(Content) /\ Len(queue) \in Nat
        /\ queue' = Append(queue, contour + 1)
    BY <2>1, <2>2, LenProperties DEF IInv, Types
  <2>7. /\ queue' \in Seq(Content) /\ Len(queue') = Len(queue) + 1
        /\ \A i \in 1..Len(queue) : queue'[i] = queue[i]
        /\ queue'[Len(queue) + 1] = contour + 1
    BY <2>2, <2>6, AppendProperties
  <2>8. Types'
    <3>1. contour' \in Seg /\ DOMAIN objects' \subseteq Content
      <4>1. DOMAIN objects \subseteq Content
        BY DEF IInv, Types
      <4>2. contour + 1 \in Seg
        BY <2>2 DEF Seg
      <4> QED
        BY <2>1, <2>2, <2>5, <4>1, <4>2
    <3>2. queue' \in Seq(Content) /\ events' \in Seq(Content)
      BY <1>1, <2>7, EventHandled
    <3> QED
      BY <1>1, <2>5, <3>1, <3>2 DEF IInv, Types
  <2>9. queue # <<>> =>
          queue' # <<>> /\ Head(queue') = Head(queue) /\ Head(queue) \in DOMAIN objects
    <3>1. SUFFICES ASSUME queue # <<>>
                   PROVE  queue' # <<>> /\ Head(queue') = Head(queue)
                          /\ Head(queue) \in DOMAIN objects
      OBVIOUS
    <3>2. Len(queue) >= 1 /\ Head(queue) = queue[1] /\ 1 \in 1..Len(queue)
      BY <2>6, <3>1, EmptySeq
    <3>3. queue' # <<>> /\ Head(queue') = queue'[1]
      BY <2>7, <3>2, EmptySeq
    <3> QED
      BY <2>7, <3>2, <3>3 DEF IInv, RequestsAreNew
  <2>10. FrontGoesOn'
    BY <1>1, <2>5, <2>9 DEF IInv, FrontGoesOn
  <2>11. MpdComesFirst' /\ CompletedInContour' /\ WritesArePrepared'
    <3>1. \A c \in completed : c \in Int /\ c <= contour
      BY DEF IInv, Types, CompletedInContour
    <3> QED
      BY <1>1, <1>2, <2>1, <2>2, <2>5, <3>1 DEF IInv, MpdComesFirst, Initialized,
         CompletedInContour, WritesArePrepared
  <2>12. \A i \in 1..Len(queue) : queue[i] = 0
    BY <1>2, <2>3 DEF IInv, RequestsAreNew
  <2>13. contour + 1 \notin completed
    BY <2>2 DEF IInv, CompletedInContour
  <2>14. \A i \in 1..Len(queue') : i \in 1..Len(queue) \/ i = Len(queue) + 1
    BY <2>6, <2>7
  <2>15. RequestsAreNew'
    <3>1. \A i \in 1..Len(queue') :
            /\ queue'[i] \in Current' /\ queue'[i] \in DOMAIN objects'
            /\ queue'[i] \notin completed'
      BY <1>1, <2>3, <2>5, <2>7, <2>12, <2>13, <2>14 DEF IInv, RequestsAreNew
    <3>2. \A i, j \in 1..Len(queue') : i # j => queue'[i] # queue'[j]
      <4> SUFFICES ASSUME NEW i \in 1..Len(queue'), NEW j \in 1..Len(queue'), i # j
                   PROVE  queue'[i] # queue'[j]
        OBVIOUS
      <4>1. CASE i \in 1..Len(queue) /\ j \in 1..Len(queue)
        BY <2>7, <4>1 DEF IInv, RequestsAreNew
      <4>2. CASE i = Len(queue) + 1 \/ j = Len(queue) + 1
        BY <2>2, <2>7, <2>12, <2>14, <4>2
      <4> QED
        BY <2>14, <4>1, <4>2
    <3> QED
      BY <3>1, <3>2 DEF RequestsAreNew
  <2>16. \A i \in 1..Len(Tail(events)) : Tail(events)[i] = 0
    BY <1>2, <2>2, EventHandled
  <2>17. http = "callback" => cbSeg = 0
    BY <1>2, <2>2, EventHandled DEF IInv, ReportsAreDistinct
  <2>18. ReportsAreDistinct'
    BY <1>1, <2>3, <2>16, <2>17, EventHandled DEF IInv, ReportsAreDistinct
  <2> QED
    BY <2>5, <2>8, <2>10, <2>11, <2>15, <2>18 DEF IInv
<1> QED
  BY <1>3, <1>4
-----------------------------------------------------------------------------
(* The HTTP client's thread *)

LEMMA SetDataFields ==
  ASSUME NEW f, NEW from, NEW to
  PROVE  LET overlapping == Overlapping(f.dataMap, from, to)
             new == SetData(f, from, to)
         IN  /\ new.reservedSize = f.reservedSize
             /\ new.dataMap = Merged(f.dataMap \ overlapping,
                                     LeftBoundary(overlapping, from),
                                     RightBoundary(overlapping, to))
<1> DEFINE overlapping == Overlapping(f.dataMap, from, to)
           left == LeftBoundary(overlapping, from)
           right == RightBoundary(overlapping, to)
           merged == Merged(f.dataMap \ overlapping, left, right)
           size == f.occupiedSize + (right - left + 1)
                     - MapThenSumSet(LAMBDA i : i.to - i.from + 1, overlapping)
<1>1. SetData(f, from, to)
        = [reservedSize |-> f.reservedSize, dataMap |-> merged, occupiedSize |-> size]
  BY DEF SetData
<1> HIDE DEF merged, size
<1> QED
  BY <1>1 DEF merged

\* The request at the front: its object is prepared, and not complete.
LEMMA FrontIsOpen ==
  ASSUME IInv, queue # <<>>
  PROVE  /\ Head(queue) \in Content /\ Head(queue) \in DOMAIN objects
         /\ Head(queue) \notin completed /\ Head(queue) \in Current
<1>1. queue \in Seq(Content) /\ RequestsAreNew
  BY DEF IInv, Types
<1>2. Len(queue) \in Nat /\ Len(queue) >= 1 /\ Head(queue) = queue[1]
  BY <1>1, EmptySeq
<1>3. 1 \in 1..Len(queue)
  BY <1>2
<1> QED
  BY <1>1, <1>2, <1>3, ElementOfSeq DEF RequestsAreNew

\* When the size is known, the field has it, and what was in it.
LEMMA SizedField ==
  ASSUME IInv, NEW c \in DOMAIN objects, c \in Content,
         NEW sized,
         \/ sized = SetSize(objects, c, Size[c])
         \/ sized = objects /\ objects[c].dataMap # {}
  PROVE  /\ DOMAIN sized = DOMAIN objects /\ sized = [d \in DOMAIN objects |-> sized[d]]
         /\ \A d \in DOMAIN objects \ {c} : sized[d] = objects[d]
         /\ sized[c].reservedSize = Size[c]
         /\ sized[c].dataMap = objects[c].dataMap
<1>1. /\ objects = [d \in DOMAIN objects |-> objects[d]]
      /\ objects[c] = NoDataField \/ objects[c].reservedSize = Size[c]
  BY DEF IInv, Types, Fields
<1>2. NoDataField.dataMap = {}
  BY DEF NoDataField, NewDataField
<1>3. CASE sized = objects /\ objects[c].reservedSize = Size[c]
  BY <1>1, <1>3
<1>4. CASE sized = [objects EXCEPT ![c] = NewDataField(Size[c])] /\ objects[c] = NoDataField
  <2>1. sized[c] = NewDataField(Size[c])
    BY <1>1, <1>4
  <2>2. NewDataField(Size[c]).reservedSize = Size[c] /\ NewDataField(Size[c]).dataMap = {}
    BY DEF NewDataField
  <2> QED
    BY <1>1, <1>2, <1>4, <2>1, <2>2
<1> QED
  BY <1>1, <1>2, <1>3, <1>4 DEF SetSize

\* What the bytes that arrive change.
LEMMA ReceiveEffect ==
  ASSUME IInv, NEW n \in Nat, n > 0, Receive(n)
  PROVE  LET c == Head(queue)
             from == pldBytesReceived
             to == from + n - 1
             all == to = Size[c] - 1
             sized == IF from = 0 THEN SetSize(objects, c, Size[c]) ELSE objects
         IN  /\ http = "receive" /\ queue # <<>> /\ to < Size[c]
             /\ c \in Content /\ c \in DOMAIN objects /\ c \notin completed /\ c \in Current
             /\ Size[c] \in Nat
             /\ from \in Nat /\ to \in Nat /\ from <= to
             /\ from > 0 => objects[c].dataMap = {Region(0, from - 1)}
             /\ sized[c].dataMap = objects[c].dataMap
             /\ received' = [received EXCEPT ![c] = @ \cup from..to]
             /\ completed' = IF all THEN completed \cup {c} ELSE completed
             /\ pldBytesReceived' = IF all THEN 0 ELSE to + 1
             /\ queue' = IF all THEN Tail(queue) ELSE queue
             /\ http' = IF all THEN "callback" ELSE "receive"
             /\ cbSeg' = IF all THEN c ELSE cbSeg
             /\ UNCHANGED <<contour, events, fault, lost>>
             /\ \/ from = 0 /\ (objects[c].dataMap = {}
                                  \/ \E e \in Nat : objects[c].dataMap = {Region(0, e)})
                \/ from > 0 /\ objects[c].dataMap = {Region(0, from - 1)}
             /\ DOMAIN objects' = DOMAIN objects
             /\ objects' = [d \in DOMAIN objects |-> objects'[d]]
             /\ objects'[c] = SetData(sized[c], from, to)
             /\ objects'[c].reservedSize = Size[c] /\ objects'[c].dataMap = {Region(0, to)}
             /\ \A d \in DOMAIN objects \ {c} : objects'[d] = objects[d]
<1> USE ContentFacts
<1> DEFINE c == Head(queue)
           from == pldBytesReceived
           to == from + n - 1
           all == to = Size[c] - 1
           sized == IF from = 0 THEN SetSize(objects, c, Size[c]) ELSE objects
<1>1. http = "receive" /\ queue # <<>> /\ to < Size[c]
  BY DEF Receive
<1>2. /\ c \in Content /\ c \in DOMAIN objects /\ c \notin completed /\ c \in Current
      /\ Size[c] \in Nat
  BY <1>1, FrontIsOpen
<1>3. from \in Nat /\ to \in Nat /\ from <= to
  BY DEF IInv, Types
<1>4. from > 0 => objects[c].dataMap = {Region(0, from - 1)}
  BY DEF IInv, FrontGoesOn
<1>5. /\ DOMAIN sized = DOMAIN objects /\ sized = [d \in DOMAIN objects |-> sized[d]]
      /\ \A d \in DOMAIN objects \ {c} : sized[d] = objects[d]
      /\ sized[c].reservedSize = Size[c]
      /\ sized[c].dataMap = objects[c].dataMap
  <2>1. \/ sized = SetSize(objects, c, Size[c])
        \/ sized = objects /\ objects[c].dataMap # {}
    <3>1. CASE from = 0
      BY <3>1
    <3>2. CASE from > 0
      BY <1>4, <3>2
    <3> QED
      BY <1>3, <3>1, <3>2
  <2> HIDE DEF sized
  <2> QED
    BY <1>2, <2>1, SizedField
<1>6. MaySetSize(objects, c, Size[c])
  BY <1>2 DEF MaySetSize, Initialized, IInv, Fields
<1>7. MayAddData(sized, c, from, to)
  BY <1>1, <1>2, <1>3, <1>5 DEF MayAddData, Initialized
<1>8. /\ objects' = AddData(sized, c, from, to)
      /\ received' = [received EXCEPT ![c] = @ \cup from..to]
      /\ completed' = IF all THEN completed \cup {c} ELSE completed
      /\ pldBytesReceived' = IF all THEN 0 ELSE to + 1
      /\ queue' = IF all THEN Tail(queue) ELSE queue
      /\ http' = IF all THEN "callback" ELSE "receive"
      /\ cbSeg' = IF all THEN c ELSE cbSeg
      /\ UNCHANGED <<contour, events, fault, lost>>
  BY <1>6, <1>7 DEF Receive, control
<1> DEFINE new == SetData(sized[c], from, to)
<1> HIDE DEF sized, all
<1>9. \/ from = 0 /\ (objects[c].dataMap = {}
                        \/ \E e \in Nat : objects[c].dataMap = {Region(0, e)})
      \/ from > 0 /\ objects[c].dataMap = {Region(0, from - 1)}
  BY <1>2, <1>3, <1>4 DEF IInv, Fields, HoldsBeginning
<1>10. new.reservedSize = Size[c] /\ new.dataMap = {Region(0, to)}
  <2> HIDE DEF c, from, to
  <2>1. LET overlapping == Overlapping(sized[c].dataMap, from, to)
        IN  new.dataMap = Merged(sized[c].dataMap \ overlapping,
                                 LeftBoundary(overlapping, from),
                                 RightBoundary(overlapping, to))
    BY SetDataFields DEF new
  <2>2. LET overlapping == Overlapping(sized[c].dataMap, from, to)
        IN  Merged(sized[c].dataMap \ overlapping, LeftBoundary(overlapping, from),
                   RightBoundary(overlapping, to)) = {Region(0, to)}
    <3> DEFINE map == sized[c].dataMap
    <3>1. \/ from = 0 /\ (map = {} \/ \E e \in Nat : map = {Region(0, e)})
          \/ from > 0 /\ map = {Region(0, from - 1)}
      BY <1>5, <1>9
    <3> HIDE DEF map
    <3>2. LET overlapping == Overlapping(map, from, to)
          IN  Merged(map \ overlapping, LeftBoundary(overlapping, from),
                     RightBoundary(overlapping, to)) = {Region(0, to)}
      BY <1>3, <3>1, WriteLeavesOneRegion
    <3> QED
      BY <3>2 DEF map
  <2>3. new.reservedSize = sized[c].reservedSize
    <3> DEFINE f == sized[c]
    <3> HIDE DEF f
    <3>1. SetData(f, from, to).reservedSize = f.reservedSize
      BY SetDataFields
    <3> QED
      BY <3>1 DEF new, f
  <2> QED
    BY <1>5, <2>1, <2>2, <2>3
<1> HIDE DEF new
<1>11. /\ objects' = [sized EXCEPT ![c] = new]
       /\ DOMAIN objects' = DOMAIN objects /\ objects' = [d \in DOMAIN objects |-> objects'[d]]
       /\ objects'[c] = new /\ \A d \in DOMAIN objects \ {c} : objects'[d] = objects[d]
  <2>1. objects' = [sized EXCEPT ![c] = new]
    BY <1>8 DEF AddData, new
  <2> HIDE DEF c
  <2> QED
    BY <1>2, <1>5, <2>1
<1>12. objects'[c] = SetData(sized[c], from, to)
  BY <1>11 DEF new
<1> QED
  BY <1>1, <1>2, <1>3, <1>4, <1>5, <1>8, <1>9, <1>10, <1>11, <1>12 DEF sized, all

LEMMA ReceivePreserves ==
  ASSUME IInv, NEW n \in Nat, n > 0, Receive(n)
  PROVE  IInv'
<1> USE ContentFacts
<1> DEFINE c == Head(queue)
           from == pldBytesReceived
           to == from + n - 1
           all == to = Size[c] - 1
<1>1. http = "receive" /\ queue # <<>> /\ to < Size[c]
  BY ReceiveEffect
<1>2. /\ c \in Content /\ c \in DOMAIN objects /\ c \notin completed /\ c \in Current
      /\ Size[c] \in Nat
  BY ReceiveEffect
<1>3. from \in Nat /\ to \in Nat /\ from <= to
  BY ReceiveEffect
<1>4. from > 0 => objects[c].dataMap = {Region(0, from - 1)}
  BY ReceiveEffect
<1>5. /\ received' = [received EXCEPT ![c] = @ \cup from..to]
      /\ completed' = IF all THEN completed \cup {c} ELSE completed
      /\ pldBytesReceived' = IF all THEN 0 ELSE to + 1
      /\ queue' = IF all THEN Tail(queue) ELSE queue
      /\ http' = IF all THEN "callback" ELSE "receive"
      /\ cbSeg' = IF all THEN c ELSE cbSeg
      /\ UNCHANGED <<contour, events, fault>>
  BY ReceiveEffect
<1>6. objects'[c].reservedSize = Size[c] /\ objects'[c].dataMap = {Region(0, to)}
  BY ReceiveEffect
<1>7. /\ DOMAIN objects' = DOMAIN objects /\ objects' = [d \in DOMAIN objects |-> objects'[d]]
       /\ \A d \in DOMAIN objects \ {c} : objects'[d] = objects[d]
  BY ReceiveEffect
<1> HIDE DEF all
<1>8. 0..to \subseteq received[c] \cup from..to
  <2>1. CASE from = 0
    BY <2>1
  <2>2. CASE from > 0
    <3>1. PICK e \in Nat : objects[c].dataMap = {Region(0, e)} /\ 0..e \subseteq received[c]
      BY <1>2, <1>4, <2>2 DEF IInv, Fields, HoldsBeginning
    <3>2. Region(0, e).to = e /\ Region(0, from - 1).to = from - 1
      BY DEF Region
    <3>3. e = from - 1
      BY <1>4, <2>2, <3>1, <3>2
    <3>4. \A b \in 0..to : b \in 0..e \/ b \in from..to
      BY <1>3, <3>3
    <3> QED
      BY <3>1, <3>4
  <2> QED
    BY <1>3, <2>1, <2>2
<1>9. /\ received' \in [Content -> SUBSET Nat]
       /\ received'[c] = received[c] \cup from..to
       /\ \A d \in Content \ {c} : received'[d] = received[d]
  <2>1. received \in [Content -> SUBSET Nat] /\ from..to \subseteq Nat
    BY <1>3 DEF IInv, Types
  <2> HIDE DEF c, from, to
  <2> QED
    BY <1>2, <1>5, <2>1
<1>10. DOMAIN objects \subseteq Content /\ completed \subseteq DOMAIN objects
  BY DEF IInv, Types, Whole
<1>11. Fields'
  <2> SUFFICES ASSUME NEW d \in DOMAIN objects
               PROVE  /\ objects'[d] = NoDataField \/ objects'[d].reservedSize = Size[d]
                      /\ HoldsBeginning(objects[d], d)'
    BY <1>7 DEF Fields
  <2> HIDE DEF c, from, to
  <2>1. CASE d = c
    BY <1>1, <1>3, <1>6, <1>7, <1>8, <1>9, <2>1 DEF HoldsBeginning, to
  <2>2. CASE d # c
    BY <1>7, <1>9, <1>10, <2>2 DEF IInv, Fields, HoldsBeginning
  <2> QED
    BY <2>1, <2>2
<1>12. Whole'
  <2>1. completed' \subseteq DOMAIN objects'
    BY <1>2, <1>5, <1>7, <1>10
  <2>2. \A d \in completed : d \in DOMAIN objects \ {c}
    BY <1>2, <1>10
  <2>3. \A d \in completed : objects'[d].dataMap = {Region(0, Size[d] - 1)}
    BY <1>7, <2>2 DEF IInv, Whole, CompletedSegmentsAreWhole
  <2>4. all => objects'[c].dataMap = {Region(0, Size[c] - 1)}
    BY <1>6, <1>7 DEF all
  <2> HIDE DEF c
  <2> QED
    BY <1>5, <2>1, <2>3, <2>4 DEF Whole, CompletedSegmentsAreWhole
<1>13. MpdComesFirst' /\ WritesArePrepared' /\ Current' = Current
  BY <1>5, <1>7 DEF IInv, MpdComesFirst, ContourEmpty, Initialized, WritesArePrepared, Current
<1>14. CompletedInContour'
  <2>1. c <= contour
    BY <1>2 DEF Current, ContourEmpty, IInv, Types, Mpd, Seg
  <2> HIDE DEF c
  <2> QED
    BY <1>5, <2>1 DEF IInv, CompletedInContour
<1>15. CASE ~all
  <2>1. UNCHANGED <<completed, queue, contour, events, cbSeg, fault, http>>
    BY <1>1, <1>5, <1>15
  <2>2. pldBytesReceived' = to + 1 /\ to + 1 \in Nat /\ to + 1 < Size[c]
    <3>1. pldBytesReceived' = to + 1 /\ to # Size[c] - 1
      BY <1>5, <1>15 DEF all
    <3> HIDE DEF c, to
    <3> QED
      BY <1>1, <1>2, <1>3, <3>1
  <2>3. Types'
    BY <1>7, <1>9, <1>10, <2>1, <2>2 DEF IInv, Types
  <2>4. FrontGoesOn'
    BY <1>1, <1>3, <1>6, <1>7, <2>1, <2>2 DEF FrontGoesOn
  <2>5. RequestsAreNew' /\ ReportsAreDistinct'
    BY <1>7, <1>13, <2>1 DEF IInv, RequestsAreNew, ReportsAreDistinct
  <2> QED
    BY <1>11, <1>12, <1>13, <1>14, <2>3, <2>4, <2>5 DEF IInv
<1>16. CASE all
  <2>1. /\ completed' = completed \cup {c} /\ pldBytesReceived' = 0 /\ queue' = Tail(queue)
        /\ http' = "callback" /\ cbSeg' = c
        /\ UNCHANGED <<contour, events, fault>>
    BY <1>5, <1>16
  <2>2. /\ queue \in Seq(Content) /\ events \in Seq(Content)
        /\ Len(queue) \in Nat /\ Len(queue) >= 1 /\ c = queue[1]
    BY <1>1, EmptySeq DEF IInv, Types
  <2>3. /\ queue' \in Seq(Content) /\ Len(queue') = Len(queue) - 1
        /\ \A i \in 1..Len(queue') : queue'[i] = queue[i + 1]
    BY <1>1, <2>1, <2>2, HeadTailProperties
  <2>4. Types'
    BY <1>2, <1>7, <1>9, <1>10, <2>1, <2>3 DEF IInv, Types
  <2>5. FrontGoesOn'
    BY <2>1 DEF FrontGoesOn
  <2>6. RequestsAreNew'
    <3>1. \A i \in 1..Len(queue') : i + 1 \in 1..Len(queue) /\ i + 1 # 1
      BY <2>2, <2>3
    <3>2. 1 \in 1..Len(queue)
      BY <2>2
    <3>3. \A i \in 1..Len(queue') : queue'[i] # c
      BY <2>2, <2>3, <3>1, <3>2 DEF IInv, RequestsAreNew
    <3>4. \A i, j \in 1..Len(queue') : i # j => i + 1 # j + 1
      OBVIOUS
    <3>5. \A i, j \in 1..Len(queue') : i # j => queue'[i] # queue'[j]
      BY <2>3, <3>1, <3>4 DEF IInv, RequestsAreNew
    <3> HIDE DEF c
    <3> QED
      BY <1>7, <1>13, <2>1, <2>3, <3>1, <3>3, <3>5 DEF IInv, RequestsAreNew
  <2>7. ReportsAreDistinct'
    <3>1. \A i \in 1..Len(events) : events[i] # c
      BY <1>2 DEF IInv, ReportsAreDistinct
    <3> HIDE DEF c
    <3> QED
      BY <1>2, <1>13, <2>1, <3>1 DEF IInv, ReportsAreDistinct
  <2> QED
    BY <1>11, <1>12, <1>13, <1>14, <2>4, <2>5, <2>6, <2>7 DEF IInv
<1> QED
  BY <1>15, <1>16

LEMMA CallbackPreserves ==
  ASSUME IInv, Callback
  PROVE  IInv'
<1> USE ContentFacts
<1>1. /\ http = "callback" /\ http' = "receive"
      /\ events' = IF cbSeg = Mpd \/ Size[cbSeg] > 1 THEN Append(events, cbSeg) ELSE events
      /\ fault' \in {fault, "resumePlayback"}
      /\ UNCHANGED <<objects, received, completed, queue, pldBytesReceived, cbSeg, contour>>
  BY DEF Callback, ResumePlayback, Fail, storage
<1>2. /\ events \in Seq(Content) /\ cbSeg \in Content /\ Len(events) \in Nat
      /\ cbSeg \in Current /\ cbSeg \in completed
      /\ \A i \in 1..Len(events) : events[i] # cbSeg
  BY <1>1, LenProperties DEF IInv, Types, ReportsAreDistinct
<1>3. /\ Append(events, cbSeg) \in Seq(Content) /\ Len(Append(events, cbSeg)) = Len(events) + 1
      /\ \A i \in 1..Len(events) : Append(events, cbSeg)[i] = events[i]
      /\ Append(events, cbSeg)[Len(events) + 1] = cbSeg
  BY <1>2, AppendProperties
<1>4. Types' /\ Fields' /\ Whole' /\ FrontGoesOn'
  BY <1>1, <1>2, <1>3 DEF IInv, Types, Fields, HoldsBeginning, Whole,
     CompletedSegmentsAreWhole, FrontGoesOn
<1>5. MpdComesFirst' /\ CompletedInContour' /\ RequestsAreNew' /\ Current' = Current
  BY <1>1 DEF IInv, MpdComesFirst, ContourEmpty, Initialized, CompletedInContour,
     RequestsAreNew, Current
<1>6. WritesArePrepared'
  BY <1>1 DEF IInv, WritesArePrepared
<1>7. ReportsAreDistinct'
  <2>1. CASE events' = events
    BY <1>1, <1>5, <2>1 DEF IInv, ReportsAreDistinct
  <2>2. CASE events' = Append(events, cbSeg)
    <3>1. \A i \in 1..Len(events') : i \in 1..Len(events) \/ i = Len(events) + 1
      BY <1>2, <1>3, <2>2
    <3>2. \A i \in 1..Len(events') : events'[i] \in Current' /\ events'[i] \in completed'
      BY <1>1, <1>2, <1>3, <1>5, <2>2, <3>1 DEF IInv, ReportsAreDistinct
    <3>3. \A i, j \in 1..Len(events') : i # j => events'[i] # events'[j]
      BY <1>2, <1>3, <2>2, <3>1 DEF IInv, ReportsAreDistinct
    <3> QED
      BY <1>1, <3>2, <3>3 DEF ReportsAreDistinct
  <2> QED
    BY <1>1, <2>1, <2>2
<1> QED
  BY <1>4, <1>5, <1>6, <1>7 DEF IInv

LEMMA LoseConnectionPreserves ==
  ASSUME IInv, LoseConnection
  PROVE  IInv'
<1>1. pldBytesReceived' = 0
      /\ UNCHANGED <<objects, received, completed, queue, http, cbSeg, contour, events, fault>>
  BY DEF LoseConnection, storage, control
<1>2. Types' /\ Fields' /\ Whole' /\ FrontGoesOn'
  BY <1>1 DEF IInv, Types, Fields, HoldsBeginning, Whole, CompletedSegmentsAreWhole,
     FrontGoesOn
<1>3. /\ MpdComesFirst' /\ CompletedInContour' /\ RequestsAreNew' /\ ReportsAreDistinct'
      /\ WritesArePrepared'
  BY <1>1 DEF IInv, MpdComesFirst, ContourEmpty, Initialized, CompletedInContour,
     RequestsAreNew, ReportsAreDistinct, Current, WritesArePrepared
<1> QED
  BY <1>2, <1>3 DEF IInv

-----------------------------------------------------------------------------
(* The invariant holds *)

LEMMA NextPreserves ==
  ASSUME IInv, [Next]_vars
  PROVE  IInv'
<1>1. CASE ControlThread
  BY <1>1, StartPlaybackPreserves, FollowMpdPreserves, FollowSegmentPreserves
  DEF ControlThread, ProcessDataReceived
<1>2. CASE HttpThread
  <2>1. ASSUME NEW n \in UNION {1..Size[c] : c \in Content}, Receive(n)
        PROVE  IInv'
    BY <2>1, ContentFacts, ReceivePreserves
  <2> QED
    BY <1>2, <2>1, CallbackPreserves DEF HttpThread
<1>3. CASE LoseConnection
  BY <1>3, LoseConnectionPreserves
<1>4. CASE Vlc
  <2>1. UNCHANGED <<storage, download, control>> /\ fault' \in {fault, "isOccupied"}
    BY <1>4 DEF Vlc, Ask, VlcCb, WakeUp, GetData, Look
  <2>2. WritesArePrepared'
    BY <2>1 DEF IInv, WritesArePrepared
  <2> QED
    BY <2>1, <2>2, OthersPreserve
<1>5. CASE SetPauseState \/ UNCHANGED vars
  <2>1. UNCHANGED <<storage, download, control, fault>>
    BY <1>5 DEF SetPauseState, vars
  <2>2. WritesArePrepared'
    BY <2>1 DEF IInv, WritesArePrepared
  <2> QED
    BY <2>1, <2>2, OthersPreserve
<1> QED
  BY <1>1, <1>2, <1>3, <1>4, <1>5 DEF Next

LEMMA Invariant == Spec => []IInv
<1>1. Init => IInv
  BY InitEstablishes
<1>2. IInv /\ [Next]_vars => IInv'
  BY NextPreserves
<1> QED
  BY <1>1, <1>2, PTL DEF Spec

\* What has been downloaded completely stays in the storage as one region, from the
\* first byte to the last: it is never requested again, so that no write of setData()
\* falls on it, although a connection that is lost makes the client write from the
\* first byte over what is there.
THEOREM CompletedStaysWhole == Spec => []CompletedSegmentsAreWhole
<1>1. IInv => CompletedSegmentsAreWhole
  BY DEF IInv, Whole
<1> QED
  BY <1>1, Invariant, PTL

\* The regions of a field neither overlap nor touch and hold only bytes that have
\* arrived; and setSize(), setData() and MpdWrapper::init() never find an object
\* that is not prepared, has another size, or is incomplete.
THEOREM StorageIsConsistent ==
  Spec => [](RegionsAreSeparate /\ OccupiedHasArrived /\ WritesArePrepared)
<1>1. IInv => RegionsAreSeparate /\ OccupiedHasArrived /\ WritesArePrepared
  <2> SUFFICES ASSUME IInv
               PROVE  RegionsAreSeparate /\ OccupiedHasArrived /\ WritesArePrepared
    OBVIOUS
  <2>1. \A c \in DOMAIN objects : HoldsBeginning(objects[c], c)
    BY DEF IInv, Fields
  <2>2. RegionsAreSeparate
    BY <2>1 DEF RegionsAreSeparate, HoldsBeginning
  <2>3. ASSUME NEW c \in DOMAIN objects
        PROVE  Occupied(objects[c]) \subseteq received[c]
    <3>1. CASE objects[c].dataMap = {}
      BY <3>1 DEF Occupied
    <3>2. ASSUME NEW e \in Nat, objects[c].dataMap = {Region(0, e)}, 0..e \subseteq received[c]
          PROVE  Occupied(objects[c]) \subseteq received[c]
      BY <3>2 DEF Occupied, Bytes, Region
    <3> QED
      BY <2>1, <3>1, <3>2 DEF HoldsBeginning
  <2> QED
    BY <2>2, <2>3 DEF IInv, OccupiedHasArrived
<1> QED
  BY <1>1, Invariant, PTL

-----------------------------------------------------------------------------
(* The stream as one sequence of bytes: numbers of segments are induced    *)
(* over by the least element of those for which a statement fails.         *)

LEMMA LeastElement ==
  ASSUME NEW T, T \subseteq Nat, T # {}
  PROVE  \E n \in T : \A m \in T : n <= m
<1>1. PICK n \in T : \A m \in T : ~(<<m, n>> \in OpToRel(<, Nat))
  BY NatLessThanWellFounded, WFMin
<1>2. \A m \in T : ~(m < n)
  BY <1>1 DEF OpToRel
<1> QED
  BY <1>2

\* Induction on the elements of a set.
LEMMA InductionUpTo ==
  ASSUME NEW L \in Nat, NEW S, 0 \in S,
         \A m \in 0..(L - 1) : m \in S => m + 1 \in S
  PROVE  \A m \in 0..L : m \in S
<1> DEFINE T == {m \in 0..L : m \notin S}
<1> SUFFICES ASSUME T # {}
             PROVE  FALSE
  OBVIOUS
<1>1. T \subseteq Nat
  OBVIOUS
<1>2. PICK n \in T : \A m \in T : n <= m
  BY <1>1, LeastElement
<1>3. n \in 0..L /\ n \notin S /\ n # 0
  BY <1>2
<1>4. n - 1 \in 0..(L - 1) /\ n - 1 \in 0..L /\ ~(n <= n - 1) /\ (n - 1) + 1 = n
  BY <1>3
<1>5. n - 1 \in S
  BY <1>2, <1>4
<1>6. n \in S
  BY <1>4, <1>5
<1> QED
  BY <1>3, <1>6

\* Sums that are defined from below exist.
LEMMA SumsExist ==
  ASSUME NEW L \in Nat, NEW g \in [0..L -> Nat]
  PROVE  \E f \in [0..(L + 1) -> Nat] :
           f = [k \in 0..(L + 1) |-> IF k = 0 THEN 0 ELSE f[k - 1] + g[k - 1]]
<1> DEFINE P(m) == \E f \in [0..m -> Nat] :
                     f = [k \in 0..m |-> IF k = 0 THEN 0 ELSE f[k - 1] + g[k - 1]]
           S == {m \in 0..(L + 1) : P(m)}
<1>1. P(0)
  <2> DEFINE f == [k \in 0..0 |-> 0]
  <2>1. f \in [0..0 -> Nat] /\ \A k \in 0..0 : f[k] = 0 /\ k = 0
    OBVIOUS
  <2>2. f = [k \in 0..0 |-> IF k = 0 THEN 0 ELSE f[k - 1] + g[k - 1]]
    OBVIOUS
  <2> QED
    BY <2>1, <2>2
<1>2. ASSUME NEW m \in 0..L, P(m)
      PROVE  P(m + 1)
  <2>1. PICK f \in [0..m -> Nat] :
          f = [k \in 0..m |-> IF k = 0 THEN 0 ELSE f[k - 1] + g[k - 1]]
    BY <1>2
  <2> DEFINE h == [k \in 0..(m + 1) |-> IF k = m + 1 THEN f[m] + g[m] ELSE f[k]]
  <2>2. \A k \in 0..m : f[k] = IF k = 0 THEN 0 ELSE f[k - 1] + g[k - 1]
    BY <2>1
  <2>3. \A k \in 0..(m + 1) : h[k] = IF k = 0 THEN 0 ELSE h[k - 1] + g[k - 1]
    BY <2>2
  <2>4. h \in [0..(m + 1) -> Nat]
    OBVIOUS
  <2> HIDE DEF h
  <2>5. h = [k \in 0..(m + 1) |-> IF k = 0 THEN 0 ELSE h[k - 1] + g[k - 1]]
    BY <2>3, <2>4
  <2> QED
    BY <2>4, <2>5
<1> HIDE DEF P
<1>3. 0 \in S /\ \A m \in 0..((L + 1) - 1) : m \in S => m + 1 \in S
  BY <1>1, <1>2
<1>4. \A m \in 0..(L + 1) : m \in S
  <2> HIDE DEF S
  <2>1. L + 1 \in Nat
    OBVIOUS
  <2> QED
    BY <1>3, <2>1, InductionUpTo
<1>5. P(L + 1)
  BY <1>4
<1> QED
  BY <1>5 DEF P

LEMMA BeforeFacts ==
  /\ Before \in [0..(LastSeg + 1) -> Nat]
  /\ Before[0] = 0
  /\ \A k \in Seg : Before[k + 1] = Before[k] + Size[k]
<1> DEFINE g == [k \in 0..LastSeg |-> Size[k]]
           Sums(f) == f = [k \in 0..(LastSeg + 1) |-> IF k = 0 THEN 0 ELSE f[k - 1] + Size[k - 1]]
<1>1. LastSeg \in Nat /\ g \in [0..LastSeg -> Nat]
  BY PlaybackAssumption DEF Content, Seg
<1>2. PICK f \in [0..(LastSeg + 1) -> Nat] :
        f = [k \in 0..(LastSeg + 1) |-> IF k = 0 THEN 0 ELSE f[k - 1] + g[k - 1]]
  BY <1>1, SumsExist
<1>3. \A k \in 0..(LastSeg + 1) : k # 0 => g[k - 1] = Size[k - 1]
  BY <1>1
<1>4. Sums(f)
  BY <1>2, <1>3
<1>5. Before = CHOOSE h : Sums(h)
  BY DEF Before
<1>6. Sums(Before)
  BY <1>4, <1>5
<1>7. \A k \in 0..(LastSeg + 1) : Before[k] = IF k = 0 THEN 0 ELSE Before[k - 1] + Size[k - 1]
  BY <1>6
<1>8. \A k \in 0..(LastSeg + 1) : f[k] = IF k = 0 THEN 0 ELSE f[k - 1] + Size[k - 1]
  BY <1>4
<1>9. Before \in [0..(LastSeg + 1) -> Nat]
  <2> DEFINE S == {k \in 0..(LastSeg + 1) : Before[k] = f[k]}
  <2>0. LastSeg + 1 \in Nat
    BY <1>1
  <2>1. 0 \in S
    BY <1>1, <1>7, <1>8
  <2>2. \A m \in 0..((LastSeg + 1) - 1) : m \in S => m + 1 \in S
    <3> SUFFICES ASSUME NEW m \in 0..((LastSeg + 1) - 1), m \in S
                 PROVE  m + 1 \in S
      OBVIOUS
    <3>1. m + 1 \in 0..(LastSeg + 1) /\ m + 1 # 0 /\ (m + 1) - 1 = m
      BY <1>1
    <3> QED
      BY <1>7, <1>8, <3>1
  <2> HIDE DEF S
  <2>3. \A k \in 0..(LastSeg + 1) : k \in S
    BY <2>1, <2>2, <2>0, InductionUpTo
  <2>4. \A k \in 0..(LastSeg + 1) : Before[k] \in Nat
    BY <2>3 DEF S
  <2> QED
    BY <1>6, <2>4
<1>10. Before[0] = 0
  BY <1>1, <1>7
<1>11. ASSUME NEW k \in Seg
       PROVE  Before[k + 1] = Before[k] + Size[k]
  <2>1. k + 1 \in 0..(LastSeg + 1) /\ k + 1 # 0 /\ (k + 1) - 1 = k
    BY <1>1 DEF Seg
  <2> QED
    BY <1>7, <2>1
<1> QED
  BY <1>9, <1>10, <1>11

\* Later segments begin later.
LEMMA BeforeGrows ==
  ASSUME NEW j \in 0..(LastSeg + 1), NEW k \in 0..(LastSeg + 1), j <= k
  PROVE  Before[j] <= Before[k]
<1> USE ContentFacts, BeforeFacts
<1> DEFINE S == {i \in 0..(LastSeg + 1) : j <= i => Before[j] <= Before[i]}
<1>1. 0 \in S
  OBVIOUS
<1>2. ASSUME NEW m \in 0..((LastSeg + 1) - 1), m \in S
      PROVE  m + 1 \in S
  <2>1. m \in Seg /\ m + 1 \in 0..(LastSeg + 1) /\ m \in Content
    BY DEF Seg
  <2>2. Before[m + 1] = Before[m] + Size[m] /\ Size[m] \in Nat /\ Before[m] \in Nat
        /\ Before[j] \in Nat
    BY <2>1
  <2> QED
    BY <1>2, <2>1, <2>2
<1>3. LastSeg + 1 \in Nat
  OBVIOUS
<1>4. \A i \in 0..(LastSeg + 1) : i \in S
  <2> HIDE DEF S
  <2> QED
    BY <1>1, <1>2, <1>3, InductionUpTo
<1> QED
  BY <1>4

\* A position of the stream and its offset.
LEMMA OffsetOfPosition ==
  ASSUME NEW k \in Seg, NEW b \in 0..(Size[k] - 1)
  PROVE  /\ Position(k, b) \in StreamPosition /\ Valid(Position(k, b))
         /\ Offset(Position(k, b)) = Before[k] + b + 1
         /\ Before[k] \in Nat
BY ContentFacts, BeforeFacts DEF Position, StreamPosition, Valid, Offset, Seg

LEMMA StreamPositions ==
  ASSUME NEW p \in StreamPosition
  PROVE  /\ p.seg \in Seg /\ p.byte \in 0..(Size[p.seg] - 1)
         /\ p = Position(p.seg, p.byte)
BY DEF Position, StreamPosition

\* No two positions have the same offset.
LEMMA OffsetsAreDistinct ==
  ASSUME NEW p \in StreamPosition, NEW q \in StreamPosition, Offset(p) = Offset(q)
  PROVE  p = q
<1>1. /\ p.seg \in Seg /\ p.byte \in 0..(Size[p.seg] - 1) /\ p = Position(p.seg, p.byte)
      /\ q.seg \in Seg /\ q.byte \in 0..(Size[q.seg] - 1) /\ q = Position(q.seg, q.byte)
  BY StreamPositions
<1>2. /\ Offset(p) = Before[p.seg] + p.byte + 1 /\ Before[p.seg] \in Nat
      /\ Offset(q) = Before[q.seg] + q.byte + 1 /\ Before[q.seg] \in Nat
  BY <1>1, OffsetOfPosition
<1>3. ASSUME NEW j \in Seg, NEW k \in Seg, j < k, NEW b \in 0..(Size[j] - 1),
             NEW d \in Nat
      PROVE  Before[j] + b + 1 # Before[k] + d + 1
  <2>1. Before[j + 1] = Before[j] + Size[j]
    BY BeforeFacts
  <2>2. Before[j] \in Nat /\ Before[k] \in Nat
    <3>1. j \in 0..(LastSeg + 1) /\ k \in 0..(LastSeg + 1)
      BY ContentFacts DEF Seg
    <3> QED
      BY <3>1, BeforeFacts
  <2>3. Size[j] \in Nat
    <3>1. j \in Content
      BY DEF Content
    <3> QED
      BY <3>1, ContentFacts
  <2>4. Before[j + 1] <= Before[k]
    <3>1. j + 1 \in 0..(LastSeg + 1) /\ k \in 0..(LastSeg + 1) /\ j + 1 <= k
      BY <1>3, ContentFacts DEF Seg
    <3> QED
      BY <3>1, BeforeGrows
  <2> QED
    BY <2>1, <2>2, <2>3, <2>4
<1>4. p.seg \in Int /\ q.seg \in Int /\ p.byte \in Nat /\ q.byte \in Nat
  BY <1>1, ContentFacts DEF Seg
<1>5. ~(p.seg < q.seg)
  BY <1>1, <1>2, <1>3, <1>4
<1>6. ~(q.seg < p.seg)
  BY <1>1, <1>2, <1>3, <1>4
<1>7. p.seg = q.seg
  BY <1>4, <1>5, <1>6
<1>8. p.byte = q.byte
  <2>1. Offset(p) = Before[q.seg] + p.byte + 1
    BY <1>2, <1>7
  <2>2. Before[q.seg] + p.byte + 1 = Before[q.seg] + q.byte + 1
    BY <1>2, <2>1
  <2> QED
    BY <1>2, <1>4, <2>2
<1> QED
  BY <1>1, <1>7, <1>8

\* A function that is defined from above exists.
LEMMA ChainsExist ==
  ASSUME NEW L \in Nat, NEW n \in [0..L -> Nat], NEW goesOn, ~goesOn[L]
  PROVE  \E f \in [0..L -> Nat] :
           \A k \in 0..L : f[k] = IF goesOn[k] THEN n[k] + f[k + 1] ELSE n[k]
<1> DEFINE P(m) == \E f \in [(L - m)..L -> Nat] :
                     \A k \in (L - m)..L : f[k] = IF goesOn[k] THEN n[k] + f[k + 1] ELSE n[k]
           S == {m \in 0..L : P(m)}
<1>1. P(0)
  <2> DEFINE f == [k \in (L - 0)..L |-> n[k]]
  <2>1. f \in [(L - 0)..L -> Nat] /\ \A k \in (L - 0)..L : k = L
    OBVIOUS
  <2>2. \A k \in (L - 0)..L : f[k] = IF goesOn[k] THEN n[k] + f[k + 1] ELSE n[k]
    BY <2>1
  <2> QED
    BY <2>1, <2>2
<1>2. ASSUME NEW m \in 0..(L - 1), P(m)
      PROVE  P(m + 1)
  <2>1. PICK f \in [(L - m)..L -> Nat] :
          \A k \in (L - m)..L : f[k] = IF goesOn[k] THEN n[k] + f[k + 1] ELSE n[k]
    BY <1>2
  <2> DEFINE i == L - (m + 1)
             first == IF goesOn[i] THEN n[i] + f[i + 1] ELSE n[i]
             h == [k \in i..L |-> IF k = i THEN first ELSE f[k]]
  <2>2. i \in 0..L /\ i < L /\ i + 1 \in (L - m)..L /\ i \in Int /\ i \in i..L
        /\ \A k \in i..L : k = i \/ k \in (L - m)..L
    OBVIOUS
  <2>4. first \in Nat
    BY <2>2
  <2>5. \A k \in (L - m)..L : k \in i..L /\ k # i /\ k \in Int
    BY <2>2
  <2> HIDE DEF first
  <2>6. h \in [i..L -> Nat]
    <3> SUFFICES ASSUME NEW k \in i..L
                 PROVE  (IF k = i THEN first ELSE f[k]) \in Nat
      OBVIOUS
    <3> HIDE DEF i
    <3> QED
      BY <2>2, <2>4
  <2>7. \A k \in i..L : h[k] = IF k = i THEN first ELSE f[k]
    OBVIOUS
  <2> HIDE DEF h, i
  <2>8. ASSUME NEW k \in i..L
        PROVE  h[k] = IF goesOn[k] THEN n[k] + h[k + 1] ELSE n[k]
    <3>1. CASE k = i
      <4>1. h[k] = first /\ h[k + 1] = f[k + 1]
        BY <2>2, <2>5, <2>7, <3>1
      <4> QED
        BY <3>1, <4>1 DEF first
    <3>2. CASE k # i
      <4>1. k \in (L - m)..L
        BY <2>2, <3>2
      <4>2. k = L \/ k + 1 \in (L - m)..L
        BY <4>1
      <4>3. goesOn[k] => k + 1 \in (L - m)..L
        BY <4>2
      <4>4. goesOn[k] => h[k + 1] = f[k + 1]
        BY <2>5, <2>7, <4>3
      <4>5. h[k] = f[k]
        BY <2>7, <3>2
      <4> QED
        BY <2>1, <4>1, <4>4, <4>5
    <3> QED
      BY <3>1, <3>2
  <2> QED
    BY <2>6, <2>8 DEF i
<1> HIDE DEF P
<1>3. 0 \in S /\ \A m \in 0..(L - 1) : m \in S => m + 1 \in S
  BY <1>1, <1>2
<1>4. \A m \in 0..L : m \in S
  <2> HIDE DEF S
  <2> QED
    BY <1>3, InductionUpTo
<1>5. P(L)
  BY <1>4
<1>6. L - L = 0
  OBVIOUS
<1> QED
  BY <1>5, <1>6 DEF P

-----------------------------------------------------------------------------
(* What VLC can read *)

\* A field whose object has data at a byte.
LEMMA DataAtPosition ==
  ASSUME IInv, NEW k \in Seg, NEW b \in Nat, DataAvailable(Position(k, b))
  PROVE  \E e \in Nat :
           /\ k \in DOMAIN objects /\ objects[k].dataMap = {Region(0, e)}
           /\ objects[k] # NoDataField
           /\ GetTotalSize(objects, k) = Size[k]
           /\ b <= e /\ e < Size[k] /\ Size[k] \in Nat
           /\ ContigInterval(objects[k], b) = e - b + 1
           /\ \A d \in 0..e : DataAvailable(Position(k, d))
<1>1. /\ k \in DOMAIN objects /\ objects[k] # NoDataField
      /\ b \in Occupied(objects[k])
  BY DEF DataAvailable, Position, Initialized, HasData, IsOccupied
<1>2. GetTotalSize(objects, k) = Size[k] /\ HoldsBeginning(objects[k], k)
  BY <1>1 DEF IInv, Fields, GetTotalSize
<1>3. objects[k].dataMap # {}
  BY <1>1 DEF Occupied
<1>4. PICK e \in Nat : e < Size[k] /\ objects[k].dataMap = {Region(0, e)}
  BY <1>2, <1>3 DEF HoldsBeginning
<1>5. Region(0, e).from = 0 /\ Region(0, e).to = e /\ Bytes(Region(0, e)) = 0..e
  BY DEF Region, Bytes
<1>6. Occupied(objects[k]) = 0..e
  BY <1>4, <1>5 DEF Occupied
<1>7. b <= e
  BY <1>1, <1>6
<1>8. ContigInterval(objects[k], b) = e - b + 1
  <2> DEFINE found == CHOOSE i \in objects[k].dataMap : b \in Bytes(i)
  <2>1. \E i \in objects[k].dataMap : b \in Bytes(i)
    BY <1>4, <1>5, <1>7
  <2>2. found \in objects[k].dataMap
    BY <2>1
  <2>3. found = Region(0, e)
    BY <1>4, <2>2
  <2> QED
    BY <1>5, <2>3 DEF ContigInterval
<1>9. ASSUME NEW d \in 0..e
      PROVE  DataAvailable(Position(k, d))
  BY <1>1, <1>6 DEF DataAvailable, Position, HasData, Initialized, IsOccupied, Valid, Seg
<1>10. Size[k] \in Nat
  BY ContentFacts DEF Seg
<1> QED
  BY <1>1, <1>2, <1>4, <1>7, <1>8, <1>9, <1>10

\* What can be read from a position on is there, byte by byte, and there is something
\* exactly if the first byte is.
LEMMA AvailableBytes ==
  ASSUME IInv, NEW s \in Seg, NEW b \in Nat
  PROVE  /\ Available(Position(s, b)) \in Nat
         /\ Available(Position(s, b)) > 0 <=> DataAvailable(Position(s, b))
         /\ \A i \in 1..Available(Position(s, b)) : \E p \in StreamPosition :
              Offset(p) = Before[s] + b + i /\ DataAvailable(p)
<1> DEFINE pos == Position(s, b)
           start(k) == Position(k, IF k = pos.seg THEN pos.byte ELSE 0)
           first(k) == IF k = s THEN b ELSE 0
           length(k) == ContigInterval(objects[k], start(k).byte)
           n == [k \in Seg |-> IF DataAvailable(start(k)) THEN length(k) ELSE 0]
           goesOn == [k \in Seg |-> DataAvailable(start(k))
                                      /\ start(k).byte + length(k) = GetTotalSize(objects, k)
                                      /\ HasNext(k)]
           Chain(f) == f = [k \in Seg |->
             IF ~DataAvailable(start(k)) THEN 0
             ELSE IF start(k).byte + length(k) = GetTotalSize(objects, k) /\ HasNext(k)
             THEN length(k) + f[k + 1]
             ELSE length(k)]
           from == CHOOSE f : Chain(f)
<1>0. /\ \A k \in Seg : k \in 0..LastSeg /\ (HasNext(k) => k + 1 \in Seg)
      /\ LastSeg \in Nat /\ LastSeg \in Seg /\ ~HasNext(LastSeg) /\ LastSeg + 1 \notin Seg
  BY ContentFacts DEF IInv, Types, HasNext, Seg
<1>1. Available(pos) = from[s]
  <2>1. pos.seg = s /\ Valid(pos)
    BY ContentFacts DEF Position, Valid, Seg
  <2>2. Available(pos) = IF Valid(pos) THEN from[pos.seg] ELSE 0
    BY DEF Available
  <2> HIDE DEF pos, from
  <2> QED
    BY <2>1, <2>2
<1>2. \A k : start(k) = Position(k, first(k)) /\ start(k).byte = first(k)
  BY DEF Position
<1> HIDE DEF start
<1>3. \A k \in Seg : first(k) \in Nat
  OBVIOUS
<1>4. ASSUME NEW k \in Seg, DataAvailable(start(k))
      PROVE  \E e \in Nat :
               /\ first(k) <= e /\ e < Size[k] /\ Size[k] \in Nat
               /\ GetTotalSize(objects, k) = Size[k]
               /\ length(k) = e - first(k) + 1
               /\ \A d \in 0..e : DataAvailable(Position(k, d))
  <2>1. first(k) \in Nat
    BY <1>3
  <2>2. start(k) = Position(k, first(k)) /\ start(k).byte = first(k)
    BY <1>2
  <2>3. DataAvailable(Position(k, first(k)))
    BY <1>4, <2>2
  <2>4. length(k) = ContigInterval(objects[k], first(k))
    BY <2>2
  <2> HIDE DEF first, length
  <2> QED
    BY <2>1, <2>3, <2>4, DataAtPosition
<1>5. n \in [0..LastSeg -> Nat]
  <2> SUFFICES ASSUME NEW k \in Seg, DataAvailable(start(k))
               PROVE  length(k) \in Nat
    BY DEF Seg
  <2> QED
    BY <1>3, <1>4
<1>6. ~goesOn[LastSeg]
  <2>1. LastSeg \in Seg /\ ~HasNext(LastSeg)
    BY <1>0
  <2> HIDE DEF length
  <2> QED
    BY <2>1
<1>7. PICK f \in [0..LastSeg -> Nat] :
        \A k \in 0..LastSeg : f[k] = IF goesOn[k] THEN n[k] + f[k + 1] ELSE n[k]
  <2>1. LastSeg \in Nat
    BY <1>0
  <2>2. n \in [0..LastSeg -> Nat] /\ ~goesOn[LastSeg]
    BY <1>5, <1>6
  <2> HIDE DEF n, goesOn
  <2> QED
    BY <2>1, <2>2, ChainsExist
<1>8. Chain(f)
  <2>1. \A k \in Seg : f[k] = IF goesOn[k] THEN n[k] + f[k + 1] ELSE n[k]
    BY <1>7 DEF Seg
  <2>2. ASSUME NEW k \in Seg
        PROVE  f[k] = IF ~DataAvailable(start(k)) THEN 0
                      ELSE IF start(k).byte + length(k) = GetTotalSize(objects, k) /\ HasNext(k)
                      THEN length(k) + f[k + 1]
                      ELSE length(k)
    BY <2>1
  <2> QED
    BY <1>7, <2>2 DEF Seg
<1>9. Chain(from)
  <2> HIDE DEF Chain
  <2> QED
    BY <1>8
<1> HIDE DEF from
<1>10. ASSUME NEW k \in Seg
       PROVE  /\ ~DataAvailable(start(k)) => from[k] = 0
              /\ DataAvailable(start(k)) =>
                   \/ /\ first(k) + length(k) = Size[k] /\ k + 1 \in Seg
                      /\ from[k] = length(k) + from[k + 1]
                   \/ from[k] = length(k)
  <2>1. from[k] = IF ~DataAvailable(start(k)) THEN 0
                  ELSE IF start(k).byte + length(k) = GetTotalSize(objects, k) /\ HasNext(k)
                  THEN length(k) + from[k + 1]
                  ELSE length(k)
    BY <1>9
  <2>2. HasNext(k) => k + 1 \in Seg
    BY <1>0
  <2>3. DataAvailable(start(k)) => GetTotalSize(objects, k) = Size[k]
    BY <1>4
  <2> QED
    BY <1>2, <2>1, <2>2, <2>3
<1> HIDE DEF length, first
<1> DEFINE There(k) ==
             /\ from[k] \in Nat
             /\ from[k] > 0 <=> DataAvailable(start(k))
             /\ \A i \in 1..from[k] : \E p \in StreamPosition :
                  Offset(p) = Before[k] + first(k) + i /\ DataAvailable(p)
           S == {m \in 0..(LastSeg - s) : There(LastSeg - m)}
<1>11. ASSUME NEW k \in Seg, k >= s, k + 1 \in Seg => There(k + 1)
       PROVE  There(k)
  <2>1. CASE ~DataAvailable(start(k))
    <3>1. from[k] = 0
      BY <1>10, <2>1
    <3> QED
      BY <2>1, <3>1
  <2>2. CASE DataAvailable(start(k))
    <3>1. PICK e \in Nat :
               /\ first(k) <= e /\ e < Size[k] /\ Size[k] \in Nat
               /\ length(k) = e - first(k) + 1
               /\ \A d \in 0..e : DataAvailable(Position(k, d))
      BY <1>4, <2>2
    <3>2. first(k) \in Nat /\ length(k) \in Nat /\ length(k) > 0 /\ Before[k] \in Nat
      <4>1. first(k) \in Nat
        BY <1>3
      <4>2. length(k) \in Nat /\ length(k) > 0
        BY <3>1, <4>1
      <4>3. Before[k] \in Nat
        BY <1>0, BeforeFacts DEF Seg
      <4> QED
        BY <4>1, <4>2, <4>3
    <3>3. ASSUME NEW i \in 1..length(k)
          PROVE  \E p \in StreamPosition :
                   Offset(p) = Before[k] + first(k) + i /\ DataAvailable(p)
      <4> DEFINE d == first(k) + i - 1
      <4>1. d \in 0..e /\ d \in 0..(Size[k] - 1)
        BY <3>1, <3>2
      <4>2. DataAvailable(Position(k, d))
        BY <3>1, <4>1
      <4>3. Position(k, d) \in StreamPosition /\ Offset(Position(k, d)) = Before[k] + d + 1
        BY <4>1, OffsetOfPosition
      <4>4. Before[k] + d + 1 = Before[k] + first(k) + i
        BY <3>2
      <4> QED
        BY <4>2, <4>3, <4>4
    <3>4. CASE from[k] = length(k)
      BY <2>2, <3>2, <3>3, <3>4
    <3>5. CASE first(k) + length(k) = Size[k] /\ k + 1 \in Seg
               /\ from[k] = length(k) + from[k + 1]
      <4>1. There(k + 1)
        BY <1>11, <3>5
      <4>2. from[k] \in Nat /\ from[k] > 0
        BY <3>2, <3>5, <4>1
      <4>3. first(k + 1) = 0 /\ Before[k + 1] = Before[k] + Size[k]
        <5>1. k + 1 # s
          BY <1>0, <1>11 DEF Seg
        <5>2. Before[k + 1] = Before[k] + Size[k]
          BY BeforeFacts
        <5> QED
          BY <5>1, <5>2 DEF first
      <4>4. ASSUME NEW i \in 1..from[k], i > length(k)
            PROVE  \E p \in StreamPosition :
                     Offset(p) = Before[k] + first(k) + i /\ DataAvailable(p)
        <5>1. i - length(k) \in 1..from[k + 1]
          BY <3>2, <3>5, <4>1, <4>4
        <5>2. \E p \in StreamPosition :
                Offset(p) = Before[k + 1] + first(k + 1) + (i - length(k)) /\ DataAvailable(p)
          BY <4>1, <5>1
        <5>3. Before[k + 1] + first(k + 1) + (i - length(k)) = Before[k] + first(k) + i
          BY <3>1, <3>2, <3>5, <4>3
        <5> QED
          BY <5>2, <5>3
      <4>5. \A i \in 1..from[k] : i \in 1..length(k) \/ i > length(k)
        BY <3>2, <4>2
      <4> QED
        BY <2>2, <3>3, <4>2, <4>4, <4>5
    <3> QED
      BY <1>10, <2>2, <3>4, <3>5
  <2> QED
    BY <2>1, <2>2
<1> HIDE DEF There
<1>12. s \in Int /\ s >= 0 /\ s <= LastSeg /\ LastSeg - s \in Nat
  BY <1>0 DEF Seg
<1>13. 0 \in S
  <2>1. There(LastSeg)
    BY <1>0, <1>11, <1>12
  <2>2. LastSeg - 0 = LastSeg /\ 0 \in 0..(LastSeg - s)
    BY <1>0, <1>12
  <2>3. There(LastSeg - 0)
    BY <2>1, <2>2
  <2> QED
    BY <2>2, <2>3
<1>14. ASSUME NEW m \in 0..((LastSeg - s) - 1), m \in S
       PROVE  m + 1 \in S
  <2> DEFINE k == LastSeg - (m + 1)
  <2>1. k \in Seg /\ k >= s /\ k + 1 = LastSeg - m
    BY <1>0, <1>12 DEF Seg
  <2>2. There(LastSeg - m)
    BY <1>14
  <2>3. There(k + 1)
    BY <2>1, <2>2
  <2>4. There(k)
    <3> HIDE DEF k
    <3> QED
      BY <1>11, <2>1, <2>3
  <2>5. m + 1 \in 0..(LastSeg - s)
    BY <1>12
  <2> QED
    BY <2>4, <2>5
<1>15. LastSeg - s \in S
  <2> HIDE DEF S
  <2>1. \A m \in 0..(LastSeg - s) : m \in S
    BY <1>12, <1>13, <1>14, InductionUpTo
  <2> QED
    BY <1>12, <2>1
<1>16. There(s)
  <2>1. LastSeg - (LastSeg - s) = s
    BY <1>0, <1>12
  <2> QED
    BY <1>15, <2>1
<1>17. start(s) = pos /\ first(s) = b
  BY <1>2 DEF first
<1> QED
  BY <1>1, <1>16, <1>17 DEF There

-----------------------------------------------------------------------------
(* The bytes a data field counts *)

LEMMA NoBytes == MapThenSumSet(LAMBDA i : i.to - i.from + 1, {}) = 0
<1> DEFINE choose(s) == CHOOSE x \in s : TRUE
           Iter(f) == f = [s \in SUBSET {} |->
                             IF s = {} THEN 0
                             ELSE (choose(s).to - choose(s).from + 1) + f[s \ {choose(s)}]]
<1>1. MapThenSumSet(LAMBDA i : i.to - i.from + 1, {}) = (CHOOSE f : Iter(f))[{}]
  BY DEF MapThenSumSet, MapThenFoldSet
<1>2. Iter([s \in SUBSET {} |-> 0])
  OBVIOUS
<1>3. Iter(CHOOSE f : Iter(f))
  <2> HIDE DEF Iter
  <2> QED
    BY <1>2
<1> QED
  BY <1>1, <1>3

LEMMA BytesOfOne ==
  ASSUME NEW r, r.to - r.from + 1 \in Int
  PROVE  MapThenSumSet(LAMBDA i : i.to - i.from + 1, {r}) = r.to - r.from + 1
<1> DEFINE choose(s) == CHOOSE x \in s : TRUE
           Iter(f) == f = [s \in SUBSET {r} |->
                             IF s = {} THEN 0
                             ELSE (choose(s).to - choose(s).from + 1) + f[s \ {choose(s)}]]
           n == r.to - r.from + 1
           it == CHOOSE f : Iter(f)
           one == [s \in SUBSET {r} |-> IF s = {} THEN 0 ELSE n]
<1>1. MapThenSumSet(LAMBDA i : i.to - i.from + 1, {r}) = it[{r}]
  BY DEF MapThenSumSet, MapThenFoldSet
<1>2. \A s \in SUBSET {r} : s = {} \/ s = {r}
  OBVIOUS
<1>3. choose({r}) = r
  OBVIOUS
<1>4. {r} # {} /\ {r} \ {r} = {} /\ {} \in SUBSET {r} /\ {r} \in SUBSET {r}
  OBVIOUS
<1>5. Iter(one)
  <2>1. \A s \in SUBSET {r} : s # {} => s = {r} /\ choose(s) = r /\ s \ {choose(s)} = {}
    BY <1>2, <1>3, <1>4
  <2> HIDE DEF choose
  <2>2. n + 0 = n
    OBVIOUS
  <2>3. one[{}] = 0
    OBVIOUS
  <2> HIDE DEF n
  <2>4. \A s \in SUBSET {r} : s # {} =>
          (choose(s).to - choose(s).from + 1) + one[s \ {choose(s)}] = n
    BY <2>1, <2>2, <2>3 DEF n
  <2> QED
    BY <2>4
<1>6. Iter(it)
  <2> HIDE DEF Iter
  <2> QED
    BY <1>5
<1>7. it[{}] = 0
  BY <1>4, <1>6
<1>8. it[{r}] = (choose({r}).to - choose({r}).from + 1) + it[{r} \ {choose({r})}]
  <2> HIDE DEF choose, it
  <2> QED
    BY <1>4, <1>6
<1>9. it[{r}] = (r.to - r.from + 1) + it[{}]
  <2> HIDE DEF choose, it
  <2> QED
    BY <1>3, <1>4, <1>8
<1>10. it[{r}] = r.to - r.from + 1
  <2> HIDE DEF it
  <2> QED
    BY <1>7, <1>9
<1> QED
  BY <1>1, <1>10, Zenon

\* A field of which the first bytes are there counts them.
Counts(f) ==
  /\ f \in DataField
  /\ f.dataMap = {} => f.occupiedSize = 0
  /\ \A e \in Nat : f.dataMap = {Region(0, e)} => f.occupiedSize = e + 1

\* A write from the beginning, or behind the bytes that are there, counts them again.
LEMMA WriteCounts ==
  ASSUME NEW f, Counts(f), NEW from \in Nat, NEW to \in Nat, from <= to,
         \/ from = 0 /\ (f.dataMap = {} \/ \E e \in Nat : f.dataMap = {Region(0, e)})
         \/ from > 0 /\ f.dataMap = {Region(0, from - 1)}
  PROVE  Counts(SetData(f, from, to))
<1> DEFINE map == f.dataMap
           overlapping == Overlapping(map, from, to)
           left == LeftBoundary(overlapping, from)
           right == RightBoundary(overlapping, to)
           bytes == MapThenSumSet(LAMBDA i : i.to - i.from + 1, overlapping)
           new == SetData(f, from, to)
<1>0. \A e : Region(0, e).from = 0 /\ Region(0, e).to = e
  BY DEF Region
<1>1. /\ new = [reservedSize |-> new.reservedSize, occupiedSize |-> new.occupiedSize,
                dataMap |-> new.dataMap]
      /\ new.reservedSize = f.reservedSize
      /\ new.occupiedSize = f.occupiedSize + (right - left + 1) - bytes
  <2> DEFINE merged == Merged(map \ overlapping, left, right)
             size == f.occupiedSize + (right - left + 1) - bytes
  <2>1. new = [reservedSize |-> f.reservedSize, dataMap |-> merged, occupiedSize |-> size]
    BY DEF SetData
  <2> HIDE DEF merged, size, new, bytes
  <2>2. size = f.occupiedSize + (right - left + 1) - bytes
    BY DEF size
  <2> HIDE DEF left, right
  <2> QED
    BY <2>1, <2>2
<1>2. new.dataMap = {Region(0, to)}
  <2>1. new.dataMap = Merged(map \ overlapping, left, right)
    BY SetDataFields
  <2>2. Merged(map \ overlapping, left, right) = {Region(0, to)}
    <3> HIDE DEF map
    <3>1. \/ from = 0 /\ (map = {} \/ \E e \in Nat : map = {Region(0, e)})
          \/ from > 0 /\ map = {Region(0, from - 1)}
      BY DEF map
    <3> QED
      BY <3>1, WriteLeavesOneRegion
  <2> QED
    BY <2>1, <2>2
<1>3. f.reservedSize \in Nat
  BY DEF Counts, DataField
<1>4. new.occupiedSize = to + 1
  <2>1. ASSUME overlapping = {}, f.occupiedSize = from
        PROVE  new.occupiedSize = to + 1
    <3>1. left = from /\ right = to
      BY <2>1, MinMaxOfOne DEF LeftBoundary, RightBoundary
    <3>2. bytes = 0
      BY <2>1, NoBytes
    <3> HIDE DEF left, right, bytes, new
    <3> QED
      BY <1>1, <2>1, <3>1, <3>2
  <2>2. CASE from = 0 /\ map = {}
    <3>1. overlapping = {} /\ f.occupiedSize = 0
      BY <2>2 DEF Overlapping, Counts
    <3> QED
      BY <2>1, <2>2, <3>1
  <2>3. CASE from > 0 /\ map = {Region(0, from - 1)}
    <3>1. overlapping = {}
      BY <1>0, <2>3 DEF Overlapping
    <3>2. f.occupiedSize = (from - 1) + 1
      BY <2>3 DEF Counts
    <3> QED
      BY <2>1, <3>1, <3>2
  <2>4. ASSUME NEW e \in Nat, from = 0, map = {Region(0, e)}
        PROVE  new.occupiedSize = to + 1
    <3>1. overlapping = {Region(0, e)}
      BY <1>0, <2>4 DEF Overlapping
    <3>2. {i.from : i \in overlapping} = {0}
      BY <1>0, <3>1
    <3>3. left = Min({0}) /\ right = Max({to, 0})
      BY <2>4, <3>2 DEF LeftBoundary, RightBoundary
    <3>4. left = 0 /\ right = to
      <4>1. 0 \in Int /\ to \in Int /\ 0 <= to
        OBVIOUS
      <4>2. Min({0}) = 0 /\ Max({to, 0}) = to
        BY <4>1, MinMaxOfOne, MinMaxOfTwo
      <4> HIDE DEF left, right
      <4> QED
        BY <3>3, <4>2
    <3>5. bytes = e + 1
      <4> DEFINE r == Region(0, e)
      <4>1. r.to = e /\ r.from = 0
        BY <1>0
      <4>2. r.to - r.from + 1 \in Int /\ r.to - r.from + 1 = e + 1
        BY <4>1
      <4>3. bytes = MapThenSumSet(LAMBDA i : i.to - i.from + 1, {r})
        BY <3>1
      <4> HIDE DEF r, bytes
      <4> QED
        BY <4>2, <4>3, BytesOfOne
    <3>6. f.occupiedSize = e + 1
      BY <2>4 DEF Counts
    <3> HIDE DEF left, right, bytes, new
    <3> QED
      BY <1>1, <3>4, <3>5, <3>6
  <2> QED
    BY <2>2, <2>3, <2>4
<1> HIDE DEF new
<1>5. Region(0, to) \in Interval
  BY DEF Region, Interval
<1>6. new \in DataField
  <2>1. new.reservedSize \in Nat /\ new.occupiedSize \in Int
        /\ new.dataMap \in SUBSET Interval
    <3>1. new.reservedSize \in Nat
      BY <1>1, <1>3
    <3>2. new.occupiedSize \in Int
      BY <1>4
    <3>3. new.dataMap \in SUBSET Interval
      BY <1>2, <1>5
    <3> QED
      BY <3>1, <3>2, <3>3
  <2>2. new = [reservedSize |-> new.reservedSize, occupiedSize |-> new.occupiedSize,
               dataMap |-> new.dataMap]
    BY <1>1
  <2> QED
    BY <2>1, <2>2 DEF DataField
<1>7. \A e \in Nat : {Region(0, to)} = {Region(0, e)} => e = to
  BY <1>0
<1>8. Counts(new)
  BY <1>2, <1>4, <1>6, <1>7 DEF Counts
<1> QED
  BY <1>8 DEF new

-----------------------------------------------------------------------------
(* What VLC's thread reads *)

(* A position is a segment and a byte of it, and Offset numbers them along the *)
(* stream.  VLC reads on only from where data is available (ReadingHasData),   *)
(* which a connection that is lost may break: its answers are written again,   *)
(* and the objects they fill are not empty any more (FirstDownloads).  The     *)
(* loop of Available goes on as long as the regions and the contour allow, so  *)
(* that what it returns ends at a position of the stream.                      *)

\* occupiedSize is the number of bytes that are there.
Counted == \A c \in DOMAIN objects : Counts(objects[c])

\* Nothing is prepared that the contour does not name yet.
PreparedInContour == \A c \in DOMAIN objects : c <= contour

\* The size of the segment VLC is in is known.
SizeAtCurPos ==
  Valid(curPos) =>
    curPos.seg \in DOMAIN objects /\ GetTotalSize(objects, curPos.seg) = Size[curPos.seg]

\* As long as no connection is lost, nothing is written twice.
FirstDownloads ==
  lost = 0 => \A i \in 1..Len(queue) :
    i > 1 \/ pldBytesReceived = 0 => objects[queue[i]].dataMap = {}

\* Signalled, VLC's thread finds data.
ReadingHasData == lost = 0 /\ vlc = "reading" => DataAvailable(NextPosition)

ReaderTypes ==
  /\ curPos \in StreamPosition \cup {Invalid}
  /\ vlc \in {"idle", "waiting", "woken", "reading"}
  /\ told \subseteq Can /\ pauses \in 0..(2 * MaxPauses)
  /\ lost \in 0..MaxLost /\ given \in Nat
  /\ fault \in {"none", "isOccupied"}

ReaderInv ==
  /\ ReaderTypes /\ Counted /\ PreparedInContour /\ SizeAtCurPos
  /\ FirstDownloads /\ ReadingHasData /\ StreamIsGivenInOrder

\* Objects keep what they have.
Grow ==
  \A c \in DOMAIN objects :
    /\ c \in DOMAIN objects'
    /\ objects[c] # NoDataField =>
         objects'[c] # NoDataField /\ objects'[c].reservedSize = objects[c].reservedSize
    /\ Occupied(objects[c]) \subseteq Occupied(objects'[c])

LEMMA InitEstablishesReader ==
  ASSUME Init
  PROVE  ReaderInv
<1> USE DEF Init
<1>1. ReaderTypes
  BY PlaybackAssumption DEF ReaderTypes, Can
<1>2. ~Valid(curPos)
  BY DEF Valid, Invalid, Position
<1>3. Counted /\ PreparedInContour /\ SizeAtCurPos
  BY <1>2 DEF Counted, PreparedInContour, SizeAtCurPos
<1>4. FirstDownloads /\ ReadingHasData /\ StreamIsGivenInOrder
  BY <1>2 DEF FirstDownloads, ReadingHasData, StreamIsGivenInOrder, Offset
<1> QED
  BY <1>1, <1>3, <1>4 DEF ReaderInv

\* The byte VLC reads next, and its offset.
LEMMA NextPositionFacts ==
  ASSUME IInv, ReaderInv
  PROVE  /\ Offset(curPos) \in Nat
         /\ Valid(NextPosition) =>
              \E s \in Seg, b \in Nat :
                NextPosition = Position(s, b) /\ Before[s] + b = Offset(curPos)
<1>1. CASE curPos = Invalid
  <2>1. ~Valid(curPos)
    BY <1>1 DEF Valid, Invalid, Position
  <2>2. NextPosition = Position(0, 0) /\ Offset(curPos) = 0
    BY <2>1 DEF NextPosition, GetStart, Offset
  <2>3. 0 \in Seg /\ 0 \in Nat /\ Before[0] + 0 = 0
    BY ContentFacts, BeforeFacts DEF Seg
  <2> QED
    BY <2>2, <2>3
<1>2. CASE curPos \in StreamPosition
  <2> DEFINE k == curPos.seg
             b == curPos.byte
  <2>1. k \in Seg /\ b \in 0..(Size[k] - 1) /\ curPos = Position(k, b)
    BY <1>2, StreamPositions
  <2>2. Valid(curPos) /\ Offset(curPos) = Before[k] + b + 1 /\ Before[k] \in Nat
    BY <2>1, OffsetOfPosition
  <2>3. Size[k] \in Nat /\ b \in Nat /\ Offset(curPos) \in Nat
    BY <2>1, <2>2, ContentFacts DEF Seg
  <2>4. GetTotalSize(objects, k) = Size[k]
    BY <2>2 DEF ReaderInv, SizeAtCurPos
  <2>5. NextPosition = IF b < Size[k] - 1 THEN Position(k, b + 1)
                       ELSE Position(GetNext(k), 0)
    BY <2>2, <2>4 DEF NextPosition
  <2>6. CASE b < Size[k] - 1
    <3>1. NextPosition = Position(k, b + 1) /\ Before[k] + (b + 1) = Offset(curPos)
          /\ b + 1 \in Nat
      BY <2>2, <2>3, <2>5, <2>6
    <3> QED
      BY <2>1, <2>3, <3>1
  <2>7. CASE ~(b < Size[k] - 1)
    <3>1. b = Size[k] - 1 /\ NextPosition = Position(GetNext(k), 0)
      BY <2>1, <2>3, <2>5, <2>7
    <3>2. CASE HasNext(k)
      <4>1. k + 1 \in Seg
        BY <2>1, <3>2, ContentFacts DEF HasNext, IInv, Types, Seg
      <4>2. NextPosition = Position(k + 1, 0)
        BY <3>1, <3>2 DEF GetNext
      <4>3. Before[k + 1] = Before[k] + Size[k]
        BY <2>1, BeforeFacts
      <4>4. Before[k + 1] + 0 = Offset(curPos)
        BY <2>2, <2>3, <3>1, <4>3
      <4> QED
        BY <2>3, <4>1, <4>2, <4>4
    <3>3. CASE ~HasNext(k)
      <4>1. NextPosition = Position(-1, 0)
        BY <3>1, <3>3 DEF GetNext
      <4>2. ~Valid(NextPosition)
        BY <4>1 DEF Position, Valid
      <4> QED
        BY <2>3, <4>2
    <3> QED
      BY <3>2, <3>3
  <2> QED
    BY <2>6, <2>7
<1> QED
  BY <1>1, <1>2 DEF ReaderInv, ReaderTypes

\* The byte VLC reads next stays the same while the contour does, and so does what is
\* there.
LEMMA NextPositionStaysThere ==
  ASSUME IInv, ReaderInv, Grow, UNCHANGED <<curPos, contour>>
  PROVE  /\ NextPosition' = NextPosition
         /\ DataAvailable(NextPosition) => DataAvailable(NextPosition)'
<1>1. Valid(curPos) => GetTotalSize(objects', curPos.seg) = GetTotalSize(objects, curPos.seg)
  <2> SUFFICES ASSUME Valid(curPos)
               PROVE  objects'[curPos.seg].reservedSize = objects[curPos.seg].reservedSize
    BY DEF GetTotalSize
  <2>1. curPos.seg \in DOMAIN objects /\ objects[curPos.seg].reservedSize = Size[curPos.seg]
    BY DEF ReaderInv, SizeAtCurPos, GetTotalSize
  <2>2. curPos \in StreamPosition
    BY DEF ReaderInv, ReaderTypes, Valid, Invalid, Position
  <2>3. Size[curPos.seg] > 0
    BY <2>2, StreamPositions, ContentFacts DEF Seg
  <2>4. objects[curPos.seg] # NoDataField
    BY <2>1, <2>3 DEF NoDataField, NewDataField
  <2> QED
    BY <2>1, <2>4 DEF Grow
<1>2. NextPosition' = NextPosition
  BY <1>1 DEF NextPosition, GetNext, HasNext
<1> DEFINE p == NextPosition
<1>3. ASSUME DataAvailable(p)
      PROVE  DataAvailable(p)'
  <2>1. Valid(p) /\ HasData(objects, p.seg, p.byte)
    BY <1>3 DEF DataAvailable
  <2>2. HasData(objects', p.seg, p.byte)
    BY <2>1 DEF HasData, Initialized, IsOccupied, Grow
  <2>3. p' = p
    BY <1>2
  <2>4. DataAvailable(p)' <=> Valid(p') /\ HasData(objects', (p').seg, (p').byte)
    BY DEF DataAvailable, Valid
  <2> QED
    BY <2>1, <2>2, <2>3, <2>4
<1> QED
  BY <1>2, <1>3

\* The control thread prepares objects and leaves what there is alone.
LEMMA ControlEffect ==
  ASSUME IInv, ReaderInv, ControlThread
  PROVE  /\ UNCHANGED <<pldBytesReceived, lost, reader, player, fault>>
         /\ \A c \in DOMAIN objects : c \in DOMAIN objects' /\ objects'[c] = objects[c]
         /\ \A c \in DOMAIN objects' \ DOMAIN objects : objects'[c] = NoDataField
         /\ PreparedInContour'
         /\ \A i \in 1..Len(queue') :
              \/ i \in 1..Len(queue) /\ queue'[i] = queue[i] /\ queue[i] \in DOMAIN objects
              \/ objects'[queue'[i]] = NoDataField
         /\ vlc = "reading" => contour' = contour
<1> USE ContentFacts
<1> DEFINE Prepared(contents) ==
             /\ objects' = InitSegments(objects, Range(contents))
             /\ queue' = queue \o contents
<1>1. ASSUME NEW contents \in Seq(Content), Prepared(contents),
             \A i \in 1..Len(contents) :
               contents[i] \notin DOMAIN objects /\ contents[i] <= contour',
             contour' \in Int, contour <= contour'
      PROVE  /\ \A c \in DOMAIN objects : c \in DOMAIN objects' /\ objects'[c] = objects[c]
             /\ \A c \in DOMAIN objects' \ DOMAIN objects : objects'[c] = NoDataField
             /\ PreparedInContour'
             /\ \A i \in 1..Len(queue') :
                  \/ i \in 1..Len(queue) /\ queue'[i] = queue[i] /\ queue[i] \in DOMAIN objects
                  \/ objects'[queue'[i]] = NoDataField
  <2>1. DOMAIN objects' = DOMAIN objects \cup Range(contents)
        /\ \A c \in DOMAIN objects' :
             objects'[c] = IF c \in DOMAIN objects THEN objects[c] ELSE NoDataField
    BY <1>1 DEF InitSegments, Initialized
  <2>2. Range(contents) = {contents[i] : i \in 1..Len(contents)}
    BY <1>1 DEF Range
  <2>3. PreparedInContour'
    <3> SUFFICES ASSUME NEW c \in DOMAIN objects'
                 PROVE  c <= contour'
      BY DEF PreparedInContour
    <3>1. CASE c \in DOMAIN objects
      <4>1. c <= contour /\ c \in Int
        BY <3>1 DEF ReaderInv, PreparedInContour, IInv, Types
      <4>2. contour \in Int
        BY DEF IInv, Types, Seg
      <4> QED
        BY <1>1, <4>1, <4>2
    <3>2. CASE c \in Range(contents)
      BY <1>1, <2>2, <3>2
    <3> QED
      BY <2>1, <3>1, <3>2
  <2>4. ASSUME NEW i \in 1..Len(queue')
        PROVE  \/ i \in 1..Len(queue) /\ queue'[i] = queue[i] /\ queue[i] \in DOMAIN objects
               \/ objects'[queue'[i]] = NoDataField
    <3>1. /\ queue \in Seq(Content) /\ Len(queue) \in Nat /\ Len(contents) \in Nat
          /\ queue' = queue \o contents
      BY <1>1, LenProperties DEF IInv, Types
    <3>2. Len(queue') = Len(queue) + Len(contents)
      BY <1>1, <3>1, ConcatProperties
    <3>3. CASE i \in 1..Len(queue)
      BY <1>1, <3>1, <3>3, ConcatProperties DEF IInv, RequestsAreNew
    <3>4. CASE i \notin 1..Len(queue)
      <4>1. i - Len(queue) \in 1..Len(contents) /\ i \in 1..(Len(queue) + Len(contents))
        BY <3>1, <3>2, <3>4
      <4>2. queue'[i] = contents[i - Len(queue)]
        BY <1>1, <3>1, <3>4, <4>1, ConcatProperties
      <4> QED
        BY <1>1, <2>1, <2>2, <4>1, <4>2
    <3> QED
      BY <3>3, <3>4
  <2> QED
    BY <2>1, <2>3, <2>4
<1>2. CASE StartPlayback
  <2>1. /\ Mpd \notin DOMAIN objects /\ contour' = contour
        /\ objects' = InitSegments(objects, Range(<<Mpd>>)) /\ queue' = queue \o <<Mpd>>
        /\ UNCHANGED <<pldBytesReceived, lost, reader, player, fault>>
    BY <1>2 DEF StartPlayback, Download, ControlThread, control, Initialized
  <2>2. <<Mpd>> \in Seq(Content) /\ Len(<<Mpd>>) = 1 /\ <<Mpd>>[1] = Mpd
    BY DEF Mpd
  <2>3. Mpd <= contour /\ contour \in Int /\ contour <= contour
    BY DEF IInv, Types, Mpd, Seg
  <2>4. Prepared(<<Mpd>>)
    BY <2>1
  <2>5. \A i \in 1..Len(<<Mpd>>) :
          <<Mpd>>[i] \notin DOMAIN objects /\ <<Mpd>>[i] <= contour'
    BY <2>1, <2>2, <2>3
  <2> HIDE DEF Prepared
  <2> QED
    BY <1>1, <2>1, <2>2, <2>3, <2>4, <2>5
<1>3. CASE ProcessDataReceived /\ Head(events) = Mpd
  <2>1. FollowMpd /\ events # <<>> /\ vlc # "reading" /\ UNCHANGED player
    BY <1>3 DEF ProcessDataReceived, MutexFree, ControlThread
  <2>2. contour = -1
    BY <1>3, <2>1, EventHandled DEF Current, ContourEmpty, IInv, Types, Mpd, Seg
  <2>3. fault' # "mpdIncomplete"
    BY <1>3, <2>1, FollowMpdPreserves DEF IInv, WritesArePrepared
  <2>4. /\ contour' = 1
        /\ objects' = InitSegments(objects, Range(<<0, 1>>)) /\ queue' = queue \o <<0, 1>>
        /\ UNCHANGED <<pldBytesReceived, lost, reader, fault>>
    BY <2>1, <2>3 DEF FollowMpd, Fail, Download
  <2>5. <<0, 1>> \in Seq(Content) /\ Len(<<0, 1>>) = 2
        /\ <<0, 1>>[1] = 0 /\ <<0, 1>>[2] = 1
    OBVIOUS
  <2>6. 0 \notin DOMAIN objects /\ 1 \notin DOMAIN objects
    BY <2>2 DEF ReaderInv, PreparedInContour
  <2>7. \A i \in 1..Len(<<0, 1>>) :
          <<0, 1>>[i] \notin DOMAIN objects /\ <<0, 1>>[i] <= contour'
    <3>1. \A i \in 1..Len(<<0, 1>>) : i = 1 \/ i = 2
      BY <2>5
    <3> QED
      BY <2>4, <2>5, <2>6, <3>1
  <2>8. Prepared(<<0, 1>>) /\ contour' \in Int /\ contour <= contour'
    BY <2>2, <2>4
  <2> HIDE DEF Prepared
  <2> QED
    BY <1>1, <2>1, <2>4, <2>5, <2>7, <2>8
<1>4. CASE ProcessDataReceived /\ Head(events) # Mpd
  <2> DEFINE k == Head(events)
  <2>1. FollowSegment(k) /\ events # <<>> /\ vlc # "reading" /\ UNCHANGED player
        /\ UNCHANGED <<pldBytesReceived, lost, reader, fault>>
    BY <1>4 DEF ProcessDataReceived, MutexFree, ControlThread, FollowSegment
  <2>2. ~ContourEmpty /\ contour \in Seg /\ k \in {0, contour}
    BY <1>4, <2>1, EventHandled DEF Current, ContourEmpty, IInv, Types
  <2>3. CASE NothingFollows(k)
    <3>1. UNCHANGED <<contour, queue, objects>>
      BY <2>1, <2>3 DEF FollowSegment
    <3>2. \A i \in 1..Len(queue) : queue[i] \in DOMAIN objects
      BY DEF IInv, RequestsAreNew
    <3>3. PreparedInContour'
      BY <3>1 DEF ReaderInv, PreparedInContour
    <3> QED
      BY <2>1, <3>1, <3>2, <3>3
  <2>4. CASE ~NothingFollows(k)
    <3>1. /\ contour' = k + 1 /\ queue' = queue \o <<k + 1>>
          /\ objects' = InitSegments(objects, Range(<<k + 1>>))
      BY <2>1, <2>4 DEF FollowSegment, Download
    <3>2. k = contour /\ contour \in 1..(LastSeg - 1) /\ contour + 1 \in Content
      BY <2>2, <2>4 DEF NothingFollows, Seg
    <3>3. contour + 1 \notin DOMAIN objects
      <4>1. ~(contour + 1 <= contour)
        BY <3>2
      <4> QED
        BY <4>1 DEF ReaderInv, PreparedInContour
    <3> DEFINE new == <<contour + 1>>
    <3>4. new \in Seq(Content) /\ Len(new) = 1 /\ new[1] = contour + 1
      BY <3>2
    <3>5. /\ contour' = contour + 1 /\ contour' \in Int
          /\ contour <= contour' /\ contour + 1 <= contour'
      BY <3>1, <3>2
    <3>6. Prepared(new)
      BY <3>1, <3>2
    <3>7. \A i \in 1..Len(new) : new[i] \notin DOMAIN objects /\ new[i] <= contour'
      <4>1. \A i \in 1..Len(new) : i = 1
        BY <3>4
      <4> HIDE DEF new
      <4> QED
        BY <3>3, <3>4, <3>5, <4>1
    <3> HIDE DEF Prepared, new
    <3> QED
      BY <1>1, <2>1, <3>4, <3>5, <3>6, <3>7
  <2> QED
    BY <2>3, <2>4
<1> QED
  BY <1>2, <1>3, <1>4 DEF ControlThread

LEMMA ControlPreservesReader ==
  ASSUME IInv, ReaderInv, ControlThread
  PROVE  ReaderInv'
<1>1. /\ UNCHANGED <<pldBytesReceived, lost, curPos, vlc, given, told, pauses, fault>>
      /\ \A c \in DOMAIN objects : c \in DOMAIN objects' /\ objects'[c] = objects[c]
      /\ \A c \in DOMAIN objects' \ DOMAIN objects : objects'[c] = NoDataField
      /\ PreparedInContour'
      /\ \A i \in 1..Len(queue') :
           \/ i \in 1..Len(queue) /\ queue'[i] = queue[i] /\ queue[i] \in DOMAIN objects
           \/ objects'[queue'[i]] = NoDataField
      /\ vlc = "reading" => contour' = contour
  BY ControlEffect DEF reader, player
<1>2. Counts(NoDataField) /\ NoDataField.dataMap = {}
  <2>1. NoDataField.dataMap = {} /\ NoDataField.occupiedSize = 0
    BY DEF NoDataField, NewDataField
  <2>2. NoDataField \in DataField
    BY DEF NoDataField, NewDataField, DataField
  <2>3. \A e : {Region(0, e)} # {}
    OBVIOUS
  <2> QED
    BY <2>1, <2>2, <2>3 DEF Counts
<1>3. ReaderTypes'
  BY <1>1 DEF ReaderInv, ReaderTypes
<1>4. Counted'
  BY <1>1, <1>2 DEF ReaderInv, Counted
<1>5. SizeAtCurPos'
  BY <1>1 DEF ReaderInv, SizeAtCurPos, GetTotalSize
<1>6. FirstDownloads'
  BY <1>1, <1>2 DEF ReaderInv, FirstDownloads
<1>7. Grow
  BY <1>1 DEF Grow
<1>8. ReadingHasData'
  <2>1. CASE vlc = "reading"
    BY <1>1, <1>7, <2>1, NextPositionStaysThere DEF ReaderInv, ReadingHasData
  <2>2. CASE vlc # "reading"
    BY <1>1, <2>2 DEF ReadingHasData
  <2> QED
    BY <2>1, <2>2
<1>9. StreamIsGivenInOrder'
  BY <1>1 DEF ReaderInv, StreamIsGivenInOrder, Offset, Valid
<1> QED
  BY <1>1, <1>3, <1>4, <1>5, <1>6, <1>8, <1>9 DEF ReaderInv

LEMMA ReceivePreservesReader ==
  ASSUME IInv, ReaderInv, NEW n \in Nat, n > 0, Receive(n), UNCHANGED player
  PROVE  ReaderInv'
<1> DEFINE c == Head(queue)
           from == pldBytesReceived
           to == from + n - 1
           all == to = Size[c] - 1
           sized == IF from = 0 THEN SetSize(objects, c, Size[c]) ELSE objects
<1>1. /\ queue # <<>> /\ to < Size[c]
      /\ c \in Content /\ c \in DOMAIN objects /\ c \notin completed /\ c \in Current
      /\ Size[c] \in Nat
      /\ from \in Nat /\ to \in Nat /\ from <= to
      /\ from > 0 => objects[c].dataMap = {Region(0, from - 1)}
  BY ReceiveEffect
<1>2. /\ pldBytesReceived' = IF all THEN 0 ELSE to + 1
      /\ queue' = IF all THEN Tail(queue) ELSE queue
      /\ UNCHANGED <<contour, events, fault, lost>>
  BY ReceiveEffect
<1>3. /\ DOMAIN objects' = DOMAIN objects
      /\ objects'[c] = SetData(sized[c], from, to)
      /\ objects'[c].reservedSize = Size[c] /\ objects'[c].dataMap = {Region(0, to)}
      /\ \A d \in DOMAIN objects \ {c} : objects'[d] = objects[d]
  BY ReceiveEffect
<1>4. /\ sized[c].dataMap = objects[c].dataMap
      /\ \/ from = 0 /\ (objects[c].dataMap = {}
                           \/ \E e \in Nat : objects[c].dataMap = {Region(0, e)})
         \/ from > 0 /\ objects[c].dataMap = {Region(0, from - 1)}
  BY ReceiveEffect
<1>5. UNCHANGED <<curPos, vlc, given, told, pauses>>
  BY ReceiveEffect DEF Receive, Fail, reader, player, WritesArePrepared
<1>6. /\ queue \in Seq(Content) /\ Len(queue) \in Nat /\ Len(queue) >= 1 /\ c = queue[1]
      /\ 1 \in 1..Len(queue)
      /\ \A i \in 1..Len(queue) : i > 1 => queue[i] # c /\ queue[i] \in DOMAIN objects
  <2>1. /\ queue \in Seq(Content) /\ Len(queue) \in Nat /\ Len(queue) >= 1 /\ c = queue[1]
    BY <1>1, EmptySeq DEF IInv, Types
  <2>2. 1 \in 1..Len(queue)
    BY <2>1
  <2> HIDE DEF c
  <2> QED
    BY <2>1, <2>2 DEF IInv, RequestsAreNew
<1>7. Counts(sized[c])
  <2>1. CASE sized = objects
    BY <1>1, <2>1 DEF ReaderInv, Counted
  <2>2. CASE sized # objects
    <3>1. sized = [objects EXCEPT ![c] = NewDataField(Size[c])]
      BY <2>2 DEF SetSize
    <3>2. sized[c] = NewDataField(Size[c])
      BY <1>1, <3>1 DEF IInv, Types
    <3> DEFINE f == NewDataField(Size[c])
    <3>3. f.dataMap = {} /\ f.occupiedSize = 0
      BY DEF NewDataField
    <3>4. f \in DataField
      BY <1>1 DEF NewDataField, DataField
    <3>5. \A e : {Region(0, e)} # {}
      OBVIOUS
    <3>6. Counts(f)
      BY <3>3, <3>4, <3>5 DEF Counts
    <3> QED
      BY <3>2, <3>6
  <2> QED
    BY <2>1, <2>2
<1> HIDE DEF sized
<1>8. Counted'
  <2>1. Counts(objects'[c])
    <3> DEFINE f == sized[c]
    <3>1. Counts(f) /\ f.dataMap = objects[c].dataMap
      BY <1>4, <1>7
    <3> HIDE DEF f
    <3>2. \/ from = 0 /\ (f.dataMap = {} \/ \E e \in Nat : f.dataMap = {Region(0, e)})
          \/ from > 0 /\ f.dataMap = {Region(0, from - 1)}
      BY <1>4, <3>1
    <3>3. from \in Nat /\ to \in Nat /\ from <= to
      BY <1>1
    <3> HIDE DEF from, to
    <3>4. Counts(SetData(f, from, to))
      BY <3>1, <3>2, <3>3, WriteCounts
    <3> QED
      BY <1>3, <3>4 DEF f
  <2> HIDE DEF c
  <2> QED
    BY <1>3, <2>1 DEF ReaderInv, Counted
<1>9. ReaderTypes' /\ PreparedInContour' /\ StreamIsGivenInOrder'
  BY <1>2, <1>3, <1>5 DEF ReaderInv, ReaderTypes, PreparedInContour, StreamIsGivenInOrder,
     Offset, Valid
<1>10. SizeAtCurPos'
  <2>1. Valid(curPos)' = Valid(curPos)
    BY <1>5 DEF Valid
  <2> SUFFICES ASSUME Valid(curPos)
               PROVE  /\ curPos.seg \in DOMAIN objects'
                      /\ objects'[curPos.seg].reservedSize = Size[curPos.seg]
    BY <1>5, <2>1 DEF SizeAtCurPos, GetTotalSize
  <2>2. curPos.seg \in DOMAIN objects /\ objects[curPos.seg].reservedSize = Size[curPos.seg]
    BY DEF ReaderInv, SizeAtCurPos, GetTotalSize
  <2> HIDE DEF c
  <2> QED
    BY <1>3, <2>2
<1>11. FirstDownloads'
  <2> SUFFICES ASSUME lost = 0, NEW i \in 1..Len(queue'), i > 1 \/ pldBytesReceived' = 0
               PROVE  objects'[queue'[i]].dataMap = {}
    BY <1>2 DEF FirstDownloads
  <2>1. \A j \in 1..Len(queue) : j > 1 => objects'[queue[j]].dataMap = {}
    <3> HIDE DEF c
    <3> QED
      BY <1>3, <1>6 DEF ReaderInv, FirstDownloads
  <2>2. CASE all
    <3>1. /\ queue' = Tail(queue) /\ Len(queue') = Len(queue) - 1
          /\ \A j \in 1..Len(queue') : queue'[j] = queue[j + 1]
      BY <1>1, <1>2, <1>6, <2>2, HeadTailProperties
    <3>2. i + 1 \in 1..Len(queue) /\ i + 1 > 1
      BY <1>6, <3>1
    <3> QED
      BY <2>1, <3>1, <3>2
  <2>3. CASE ~all
    <3>1. queue' = queue /\ pldBytesReceived' = to + 1
      BY <1>2, <2>3
    <3>2. to + 1 # 0
      BY <1>1
    <3> HIDE DEF to
    <3>3. i > 1 /\ i \in 1..Len(queue)
      BY <3>1, <3>2
    <3> QED
      BY <2>1, <3>1, <3>3
  <2> QED
    BY <2>2, <2>3
<1>12. ASSUME lost = 0
       PROVE  Grow
  <2>1. ASSUME NEW d \in DOMAIN objects, d # c
        PROVE  objects'[d] = objects[d]
    BY <1>3, <2>1
  <2>2. from = 0 => objects[c].dataMap = {}
    BY <1>6, <1>12 DEF ReaderInv, FirstDownloads
  <2>3. Occupied(objects[c]) \subseteq Occupied(objects'[c])
    <3>1. CASE from = 0
      BY <2>2, <3>1 DEF Occupied
    <3>2. CASE from > 0
      <4>1. \A e : Bytes(Region(0, e)) = 0..e
        BY DEF Bytes, Region
      <4>2. Occupied(objects[c]) = 0..(from - 1) /\ Occupied(objects'[c]) = 0..to
        BY <1>1, <1>3, <3>2, <4>1 DEF Occupied
      <4>3. 0..(from - 1) \subseteq 0..to
        BY <1>1
      <4> QED
        BY <4>2, <4>3
    <3> QED
      BY <1>1, <3>1, <3>2
  <2>4. objects'[c] # NoDataField
    <3>1. {Region(0, to)} # {} /\ NoDataField.dataMap = {}
      BY DEF NoDataField, NewDataField
    <3> QED
      BY <1>3, <3>1
  <2>5. objects[c] # NoDataField => objects[c].reservedSize = Size[c]
    BY <1>1 DEF IInv, Fields
  <2> HIDE DEF c
  <2> QED
    BY <1>1, <1>3, <2>1, <2>3, <2>4, <2>5 DEF Grow
<1>13. ReadingHasData'
  <2> SUFFICES ASSUME lost = 0, vlc = "reading"
               PROVE  DataAvailable(NextPosition)'
    BY <1>2, <1>5 DEF ReadingHasData
  <2>1. DataAvailable(NextPosition)
    BY DEF ReaderInv, ReadingHasData
  <2> QED
    BY <1>2, <1>5, <1>12, <2>1, NextPositionStaysThere
<1> QED
  BY <1>8, <1>9, <1>10, <1>11, <1>13 DEF ReaderInv

\* A step that leaves the storage and what VLC has got alone.
LEMMA StorageUnchanged ==
  ASSUME IInv, ReaderInv, ReaderTypes',
         UNCHANGED <<objects, contour, queue, pldBytesReceived, curPos, given>>,
         lost' = 0 => lost = 0,
         vlc' = "reading" => vlc = "reading" \/ DataAvailable(NextPosition)
  PROVE  ReaderInv'
<1>1. Counted' /\ PreparedInContour' /\ SizeAtCurPos' /\ FirstDownloads'
      /\ StreamIsGivenInOrder'
  BY DEF ReaderInv, Counted, PreparedInContour, SizeAtCurPos, GetTotalSize, Valid, FirstDownloads,
     StreamIsGivenInOrder, Offset
<1>2. Grow
  BY DEF Grow
<1>3. ReadingHasData'
  BY <1>2, NextPositionStaysThere DEF ReaderInv, ReadingHasData
<1> QED
  BY <1>1, <1>3 DEF ReaderInv

\* What the callback finds for VLC is where it looks.
LEMMA ResumesWithData ==
  ASSUME IInv, ReaderInv, Available(NextPosition) > 0
  PROVE  DataAvailable(NextPosition)
<1>1. Valid(NextPosition)
  <2>1. ~Valid(NextPosition) => Available(NextPosition) = 0
    BY DEF Available
  <2> QED
    BY <2>1
<1>2. PICK s \in Seg, b \in Nat : NextPosition = Position(s, b)
  BY <1>1, NextPositionFacts
<1> QED
  BY <1>2, AvailableBytes

LEMMA CallbackPreservesReader ==
  ASSUME IInv, ReaderInv, Callback, UNCHANGED player
  PROVE  ReaderInv'
<1>1. UNCHANGED <<objects, contour, queue, pldBytesReceived, lost, curPos, given, told, pauses>>
  BY DEF Callback, storage, player
<1>2. vlc' \in {vlc, "woken"} /\ fault' = fault
  <2>1. CASE Available(NextPosition) > 0
    <3>1. DataAvailable(NextPosition)
      BY <2>1, ResumesWithData
    <3>2. ResumePlayback => vlc' \in {vlc, "woken"} /\ fault' = fault
      BY <3>1 DEF ResumePlayback
    <3> QED
      BY <3>2 DEF Callback
  <2>2. CASE ~(Available(NextPosition) > 0)
    BY <2>2 DEF Callback
  <2> QED
    BY <2>1, <2>2
<1>3. ReaderTypes'
  BY <1>1, <1>2 DEF ReaderInv, ReaderTypes
<1> QED
  BY <1>1, <1>2, <1>3, StorageUnchanged

LEMMA LoseConnectionPreservesReader ==
  ASSUME IInv, ReaderInv, LoseConnection, UNCHANGED player
  PROVE  ReaderInv'
<1>1. /\ lost' = lost + 1 /\ lost < MaxLost
      /\ UNCHANGED <<objects, queue, contour, curPos, vlc, given, told, pauses, fault>>
  BY DEF LoseConnection, storage, control, reader, player
<1>2. lost \in Nat /\ lost' # 0 /\ lost' \in 0..MaxLost
  BY <1>1, PlaybackAssumption DEF ReaderInv, ReaderTypes
<1>3. ReaderTypes'
  BY <1>1, <1>2 DEF ReaderInv, ReaderTypes
<1>4. Counted' /\ PreparedInContour' /\ SizeAtCurPos'
  BY <1>1 DEF ReaderInv, Counted, PreparedInContour, SizeAtCurPos, GetTotalSize, Valid
<1>5. FirstDownloads' /\ ReadingHasData' /\ StreamIsGivenInOrder'
  BY <1>2 DEF FirstDownloads, ReadingHasData, StreamIsGivenInOrder
<1> QED
  BY <1>3, <1>4, <1>5 DEF ReaderInv

LEMMA LookPreservesReader ==
  ASSUME IInv, ReaderInv, NEW otherwise \in {"waiting", "idle"}, Look(otherwise),
         UNCHANGED <<storage, download, control, curPos, given, player>>
  PROVE  ReaderInv'
<1>1. /\ UNCHANGED <<objects, contour, queue, pldBytesReceived, lost, curPos, given, told, pauses>>
  BY DEF storage, download, control, player
<1>2. /\ vlc' \in {vlc, "reading", "waiting", "idle"} /\ fault' \in {fault, "isOccupied"}
      /\ vlc' = "reading" => vlc = "reading" \/ DataAvailable(NextPosition)
  BY DEF Look
<1>3. ReaderTypes'
  BY <1>1, <1>2 DEF ReaderInv, ReaderTypes
<1> QED
  BY <1>1, <1>2, <1>3, StorageUnchanged

LEMMA GetDataPreservesReader ==
  ASSUME IInv, ReaderInv, NEW n \in 1..MaxBuffer, GetData(n), UNCHANGED player
  PROVE  ReaderInv'
<1> DEFINE available == Available(NextPosition)
           bytes == Min({n, available})
<1>1. /\ vlc = "reading" /\ vlc' = "idle"
      /\ curPos' = IF bytes = 0 THEN Invalid ELSE LastOf(NextPosition, bytes)
      /\ given' = given + bytes
      /\ UNCHANGED <<objects, contour, queue, pldBytesReceived, lost, told, pauses, fault>>
  BY DEF GetData, storage, download, control, player
<1>2. /\ available \in Nat
      /\ available > 0 => DataAvailable(NextPosition)
      /\ available > 0 =>
           \A i \in 1..available : \E p \in StreamPosition :
             Offset(p) = Offset(curPos) + i /\ DataAvailable(p)
      /\ Valid(NextPosition) => Offset(NextPosition) = Offset(curPos) + 1
      /\ available > 0 => Valid(NextPosition)
      /\ DataAvailable(NextPosition) => available > 0
  <2>1. CASE ~Valid(NextPosition)
    <3>1. available = 0 /\ ~DataAvailable(NextPosition)
      BY <2>1 DEF Available, DataAvailable
    <3> HIDE DEF available
    <3> QED
      BY <2>1, <3>1
  <2>2. CASE Valid(NextPosition)
    <3>1. PICK s \in Seg, b \in Nat :
            NextPosition = Position(s, b) /\ Before[s] + b = Offset(curPos)
      BY <2>2, NextPositionFacts
    <3>2. /\ Available(Position(s, b)) \in Nat
          /\ Available(Position(s, b)) > 0 <=> DataAvailable(Position(s, b))
          /\ \A i \in 1..Available(Position(s, b)) : \E p \in StreamPosition :
               Offset(p) = Before[s] + b + i /\ DataAvailable(p)
      BY AvailableBytes
    <3>3. Offset(NextPosition) = Before[s] + b + 1
      <4>1. NextPosition.seg = s /\ NextPosition.byte = b
        BY <3>1 DEF Position
      <4> QED
        BY <2>2, <4>1 DEF Offset
    <3>4. available = Available(Position(s, b))
      BY <3>1
    <3> HIDE DEF available
    <3> QED
      BY <2>2, <3>1, <3>2, <3>3, <3>4
  <2> QED
    BY <2>1, <2>2
<1> HIDE DEF available
<1>3. n \in Nat /\ n > 0 /\ Offset(curPos) \in Nat
  BY PlaybackAssumption, NextPositionFacts
<1>4. bytes \in 0..available /\ (available > 0 => bytes > 0)
  <2>1. CASE n <= available
    <3>1. bytes = n
      BY <1>2, <1>3, <2>1, MinMaxOfTwo
    <3> HIDE DEF bytes
    <3> QED
      BY <1>2, <1>3, <2>1, <3>1
  <2>2. CASE available <= n
    <3>1. bytes = available
      BY <1>2, <1>3, <2>2, MinMaxOfTwo
    <3> HIDE DEF bytes
    <3> QED
      BY <1>2, <1>3, <2>2, <3>1
  <2> QED
    BY <1>2, <1>3, <2>1, <2>2
<1> HIDE DEF bytes
<1>5. ASSUME bytes > 0
      PROVE  /\ curPos' \in StreamPosition /\ Offset(curPos') = Offset(curPos) + bytes
             /\ DataAvailable(curPos')
  <2>1. available > 0 /\ bytes \in 1..available /\ bytes # 0
    BY <1>2, <1>4, <1>5
  <2>2. PICK p \in StreamPosition : Offset(p) = Offset(curPos) + bytes /\ DataAvailable(p)
    BY <1>2, <2>1
  <2>3. Offset(NextPosition) + bytes - 1 = Offset(curPos) + bytes
    BY <1>2, <1>3, <2>1
  <2>4. curPos' = CHOOSE q \in StreamPosition : Offset(q) = Offset(NextPosition) + bytes - 1
    BY <1>1, <2>1 DEF LastOf
  <2>5. curPos' \in StreamPosition /\ Offset(curPos') = Offset(NextPosition) + bytes - 1
    BY <2>2, <2>3, <2>4
  <2>6. curPos' = p
    BY <2>2, <2>3, <2>5, OffsetsAreDistinct
  <2> QED
    BY <2>2, <2>6
<1>6. ReaderTypes'
  <2>1. curPos' \in StreamPosition \cup {Invalid}
    BY <1>1, <1>2, <1>4, <1>5
  <2>2. given' \in Nat
    BY <1>1, <1>2, <1>4 DEF ReaderInv, ReaderTypes
  <2> QED
    BY <1>1, <2>1, <2>2 DEF ReaderInv, ReaderTypes
<1>7. Counted' /\ PreparedInContour' /\ FirstDownloads' /\ ReadingHasData'
  BY <1>1 DEF ReaderInv, Counted, PreparedInContour, FirstDownloads, ReadingHasData
<1>8. SizeAtCurPos'
  <2>1. CASE bytes = 0
    <3>1. ~Valid(curPos)'
      BY <1>1, <2>1 DEF Valid, Invalid, Position
    <3> QED
      BY <3>1 DEF SizeAtCurPos
  <2>2. CASE bytes > 0
    <3>1. PICK s \in Seg, b \in Nat : curPos' = Position(s, b)
      BY <1>5, <2>2, StreamPositions, ContentFacts DEF Seg
    <3>2. s \in DOMAIN objects /\ GetTotalSize(objects, s) = Size[s]
      BY <1>5, <2>2, <3>1, DataAtPosition
    <3>3. (curPos').seg = s
      BY <3>1 DEF Position
    <3> QED
      BY <1>1, <3>2, <3>3 DEF SizeAtCurPos, GetTotalSize
  <2> QED
    BY <1>2, <1>4, <2>1, <2>2
<1>9. StreamIsGivenInOrder'
  <2> SUFFICES ASSUME lost = 0
               PROVE  given' = Offset(curPos')
    BY <1>1 DEF StreamIsGivenInOrder, Offset, Valid
  <2>1. DataAvailable(NextPosition) /\ given = Offset(curPos)
    BY <1>1 DEF ReaderInv, ReadingHasData, StreamIsGivenInOrder
  <2>2. bytes > 0
    BY <1>2, <1>4, <2>1
  <2> QED
    BY <1>1, <1>5, <2>1, <2>2
<1> QED
  BY <1>6, <1>7, <1>8, <1>9 DEF ReaderInv

LEMMA NextPreservesReader ==
  ASSUME IInv, ReaderInv, [Next]_vars
  PROVE  ReaderInv'
<1>1. CASE ControlThread
  BY <1>1, ControlPreservesReader
<1>2. CASE HttpThread
  <2>1. ASSUME NEW n \in UNION {1..Size[c] : c \in Content}, Receive(n)
        PROVE  ReaderInv'
    <3>1. n \in Nat /\ n > 0
      BY ContentFacts
    <3> QED
      BY <1>2, <2>1, <3>1, ReceivePreservesReader DEF HttpThread
  <2> QED
    BY <1>2, <2>1, CallbackPreservesReader DEF HttpThread
<1>3. CASE LoseConnection /\ UNCHANGED player
  BY <1>3, LoseConnectionPreservesReader
<1>4. CASE Vlc
  <2>1. ASSUME NEW query \in DOMAIN Answers, Ask(query)
        PROVE  ReaderInv'
    <3>1. UNCHANGED <<objects, contour, queue, pldBytesReceived, lost, curPos, given, vlc,
                      pauses, fault>>
      BY <2>1 DEF Ask, storage, download, control, reader
    <3>2. told' = told \cup ({query} \cap Can)
      BY <2>1 DEF Ask
    <3>3. ReaderTypes'
      BY <3>1, <3>2 DEF ReaderInv, ReaderTypes
    <3> QED
      BY <3>1, <3>3, StorageUnchanged
  <2>2. CASE VlcCb /\ UNCHANGED player
    BY <2>2, LookPreservesReader DEF VlcCb
  <2>3. CASE WakeUp /\ UNCHANGED player
    BY <2>3, LookPreservesReader DEF WakeUp
  <2>4. ASSUME NEW n \in 1..MaxBuffer, GetData(n), UNCHANGED player
        PROVE  ReaderInv'
    BY <2>4, GetDataPreservesReader
  <2> QED
    BY <1>4, <2>1, <2>2, <2>3, <2>4 DEF Vlc
<1>5. CASE SetPauseState
  <2>1. /\ UNCHANGED <<objects, contour, queue, pldBytesReceived, lost, curPos, given, vlc,
                       told, fault>>
        /\ pauses' = pauses + 1 /\ (Paused \/ pauses < 2 * MaxPauses)
    BY <1>5 DEF SetPauseState, storage, download, control, reader
  <2>2. pauses' \in 0..(2 * MaxPauses)
    <3>1. pauses \in 0..(2 * MaxPauses) /\ MaxPauses \in Nat
      BY PlaybackAssumption DEF ReaderInv, ReaderTypes
    <3>2. Paused => pauses # 2 * MaxPauses
      BY <3>1 DEF Paused
    <3> QED
      BY <2>1, <3>1, <3>2
  <2>3. ReaderTypes'
    BY <2>1, <2>2 DEF ReaderInv, ReaderTypes
  <2> QED
    BY <2>1, <2>3, StorageUnchanged
<1>6. CASE UNCHANGED vars
  <2>1. UNCHANGED <<objects, contour, queue, pldBytesReceived, lost, curPos, given, vlc,
                    told, pauses, fault>>
    BY <1>6 DEF vars, storage, download, control, reader, player
  <2>2. ReaderTypes'
    BY <2>1 DEF ReaderInv, ReaderTypes
  <2> QED
    BY <2>1, <2>2, StorageUnchanged
<1> QED
  BY <1>1, <1>2, <1>3, <1>4, <1>5, <1>6 DEF Next

LEMMA ReaderInvariant == Spec => [](IInv /\ ReaderInv)
<1>1. Init => IInv /\ ReaderInv
  BY InitEstablishes, InitEstablishesReader
<1>2. IInv /\ ReaderInv /\ [Next]_vars => IInv' /\ ReaderInv'
  BY NextPreserves, NextPreservesReader
<1> QED
  BY <1>1, <1>2, PTL DEF Spec

\* As long as no connection is lost, VLC gets every byte of the stream once and in
\* order: the number of bytes it has got is the offset of the last one.
THEOREM GivenInOrder == Spec => []StreamIsGivenInOrder
<1>1. ReaderInv => StreamIsGivenInOrder
  BY DEF ReaderInv
<1> QED
  BY <1>1, ReaderInvariant, PTL

\* The storage is sound, also while a segment is written again over what is there:
\* besides StorageIsConsistent, occupiedSize is the number of bytes in the regions,
\* and VLC's thread is signalled only when it will find data.
THEOREM StorageStaysSound == Spec => []StorageIsSound
<1>1. IInv /\ ReaderInv => TypeOK
  <2> SUFFICES ASSUME IInv, ReaderInv
               PROVE  TypeOK
    OBVIOUS
  <2>1. \A c \in DOMAIN objects : objects[c] \in DataField
    BY DEF ReaderInv, Counted, Counts
  <2>2. queue # <<>> => pldBytesReceived < Size[Head(queue)]
    <3>1. queue # <<>> => Head(queue) \in Content
      BY FrontIsOpen
    <3> QED
      BY <3>1, ContentFacts DEF IInv, Types, FrontGoesOn
  <2> QED
    BY <2>1, <2>2 DEF TypeOK, IInv, Types, ReaderInv, ReaderTypes
<1>2. IInv /\ ReaderInv => \A c \in DOMAIN objects :
                        objects[c].occupiedSize = Cardinality(Occupied(objects[c]))
  <2> SUFFICES ASSUME IInv, ReaderInv, NEW c \in DOMAIN objects
               PROVE  objects[c].occupiedSize = Cardinality(Occupied(objects[c]))
    OBVIOUS
  <2> DEFINE f == objects[c]
  <2>1. Counts(f) /\ HoldsBeginning(f, c)
    BY DEF ReaderInv, Counted, IInv, Fields
  <2> HIDE DEF f
  <2>2. CASE f.dataMap = {}
    <3>1. Occupied(f) = {} /\ f.occupiedSize = 0
      BY <2>1, <2>2 DEF Occupied, Counts
    <3> QED
      BY <3>1, FS_EmptySet DEF f
  <2>3. ASSUME NEW e \in Nat, f.dataMap = {Region(0, e)}
        PROVE  f.occupiedSize = Cardinality(Occupied(f))
    <3>1. Bytes(Region(0, e)) = 0..e
      BY DEF Bytes, Region
    <3>2. Occupied(f) = 0..e /\ f.occupiedSize = e + 1
      BY <2>1, <2>3, <3>1 DEF Occupied, Counts
    <3>3. Cardinality(0..e) = e + 1
      BY FS_Interval
    <3> QED
      BY <3>2, <3>3
  <2> QED
    BY <2>1, <2>2, <2>3 DEF HoldsBeginning, f
<1>3. ReaderInv => fault # "resumePlayback"
  BY DEF ReaderInv, ReaderTypes
<1>4. Spec => [](RegionsAreSeparate /\ OccupiedHasArrived /\ WritesArePrepared)
  BY StorageIsConsistent
<1>5. IInv /\ ReaderInv /\ RegionsAreSeparate /\ OccupiedHasArrived /\ WritesArePrepared
        => StorageIsSound
  BY <1>1, <1>2, <1>3 DEF StorageIsSound
<1> QED
  BY <1>4, <1>5, ReaderInvariant, PTL
=============================================================================
