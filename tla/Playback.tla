------------------------------ MODULE Playback ------------------------------
(***************************************************************************)
(* The way of the MPD and of the bytes of the stream: the HTTP client's    *)
(* thread writes them into SegmentStorage as they arrive, VLC's thread     *)
(* reads them in Control::vlcCb(), and the control thread extends the      *)
(* contour that tells VLC which segment follows.                           *)
(*                                                                         *)
(* vlcCb() holds Control::mutex from its first to its last look at the     *)
(* storage, and so do the callback that reports a completed segment and    *)
(* the control thread when it handles the event; while vlcCb() waits for   *)
(* data it has released it.  The thread that writes does not hold it:      *)
(* each access to the storage is atomic, but writes fall between two       *)
(* accesses of one vlcCb().                                                *)
(*                                                                         *)
(* A lost connection makes the client download the segment again from its  *)
(* first byte, over what is there.  One representation; the decision when  *)
(* to request is ControlLoop's, and so is the loss of a connection that    *)
(* carries the MPD, which ends the process.                                *)
(***************************************************************************)
EXTENDS SegmentStorage, Sequences, Functions

CONSTANTS
  LastSeg,           \* the stop segment
  Size,              \* Size[c]: bytes of the MPD, of segment c
  MaxBuffer,         \* bytes VLC asks for, at most
  MaxLost,           \* bound: connections lost
  MaxPauses          \* bound: times the user pauses

Seg == 0..LastSeg
Mpd == -1
Content == Seg \cup {Mpd}

ASSUME PlaybackAssumption ==
  /\ LastSeg \in Nat /\ LastSeg >= 2
  /\ Size \in [Content -> Nat \ {0}]
  /\ MaxBuffer \in Nat \ {0}
  /\ MaxLost \in Nat /\ MaxPauses \in Nat

VARIABLES
  objects,                 \* contents of SegmentStorage
  contour,                 \* its last segment, -1: empty
  queue,                   \* contents requested and not complete
  pldBytesReceived,        \* of the request at the front
  http, cbSeg,             \* the client's thread, and what its callback reports
  events,                  \* completed contents the control thread has not seen
  curPos,                  \* last byte given to VLC
  vlc,                     \* VLC's thread; "reading": it holds Control::mutex,
                           \* "waiting": it waits for data, "woken": it was signalled
  told,                    \* what VLC has been told it can do
  pauses,                  \* times VLC has changed its pause state
  lost,                    \* connections lost
  received,                \* history: bytes of each content that have arrived
  completed,               \* history: contents that were completely downloaded
  given,                   \* history: number of bytes VLC has got
  fault                    \* the assertion that ended the process

storage == <<objects, received, completed>>
download == <<queue, pldBytesReceived, http, cbSeg, lost>>
control == <<contour, events>>
reader == <<curPos, vlc, given>>
player == <<told, pauses>>
vars == <<storage, download, control, reader, player, fault>>

Position(k, b) == [seg |-> k, byte |-> b]
Invalid == Position(-1, -1)
StreamPosition == UNION {{Position(k, b) : b \in 0..(Size[k] - 1)} : k \in Seg}
Valid(pos) == pos.seg >= 0 /\ pos.byte >= 0

Running == fault = "none"
MutexFree == vlc # "reading"

\* A failed assertion, or an access to what is not there.
Fail(where) ==
  /\ fault' = where
  /\ UNCHANGED <<storage, download, control, reader>>

-----------------------------------------------------------------------------
(* The contour: the segments up to its last one *)

ContourEmpty == contour = -1
GetStart == 0
HasNext(k) == k < contour
GetNext(k) == IF HasNext(k) THEN k + 1 ELSE -1

-----------------------------------------------------------------------------
(* The storage *)

DataAvailable(pos) == Valid(pos) /\ HasData(objects, pos.seg, pos.byte)

\* Bytes VLC can read from pos on without a gap, along the contour.
Available(pos) ==
  LET from[k \in Seg] ==
        LET p == Position(k, IF k = pos.seg THEN pos.byte ELSE 0)
            n == ContigInterval(objects[k], p.byte)
        IN  IF ~DataAvailable(p) THEN 0
            ELSE IF p.byte + n = GetTotalSize(objects, k) /\ HasNext(k) THEN n + from[k + 1]
            ELSE n
  IN  IF Valid(pos) THEN from[pos.seg] ELSE 0

\* Bytes of the stream before segment k.
Before[k \in 0..(LastSeg + 1)] == IF k = 0 THEN 0 ELSE Before[k - 1] + Size[k - 1]

\* Bytes of the stream up to pos.
Offset(pos) == IF Valid(pos) THEN Before[pos.seg] + pos.byte + 1 ELSE 0

\* The last of n bytes that start at pos.
LastOf(pos, n) ==
  CHOOSE p \in StreamPosition : Offset(p) = Offset(pos) + n - 1

-----------------------------------------------------------------------------
(* Control *)

\* Mutants: the position never leaves its segment; the last byte is given again.
NextPositionStays == IF Valid(curPos) THEN Position(curPos.seg, curPos.byte + 1)
                     ELSE Position(0, 0)
NextPositionAgain == IF Valid(curPos) THEN curPos ELSE Position(0, 0)

\* The byte after curPos, or the start of the contour.
NextPosition ==
  IF ~Valid(curPos) THEN Position(GetStart, 0)
  ELSE IF curPos.byte < GetTotalSize(objects, curPos.seg) - 1
  THEN Position(curPos.seg, curPos.byte + 1)
  ELSE Position(GetNext(curPos.seg), 0)

Eof == curPos = Position(LastSeg, Size[LastSeg] - 1)

\* The contents are requested; createActionDownloadSegments() prepares the storage.
Download(contents) ==
  /\ queue' = queue \o contents
  /\ objects' = InitSegments(objects, Range(contents))

\* The first event: the MPD is requested.
StartPlayback ==
  /\ Running /\ ~Initialized(objects, Mpd)
  /\ Download(<<Mpd>>)
  /\ UNCHANGED <<received, completed, pldBytesReceived, http, cbSeg, lost, control,
                 reader, fault>>

\* MpdWrapper::init() reads the MPD as one piece; segments 0 and 1 are requested.
FollowMpd ==
  IF CopiedBytes(objects[Mpd], 0, GetTotalSize(objects, Mpd)) # Size[Mpd]
  THEN Fail("mpdIncomplete")
  ELSE /\ contour' = 1
       /\ events' = Tail(events)
       /\ Download(<<0, 1>>)
       /\ UNCHANGED <<received, completed, pldBytesReceived, http, cbSeg, lost, reader,
                      fault>>

\* Segment 1 is requested together with segment 0.
NothingFollows(k) == k \in {0, LastSeg}

\* The segment after the one that is complete is requested.
FollowSegment(k) ==
  /\ events' = Tail(events)
  /\ IF NothingFollows(k)
     THEN UNCHANGED <<contour, queue, objects>>
     ELSE contour' = k + 1 /\ Download(<<k + 1>>)
  /\ UNCHANGED <<received, completed, pldBytesReceived, http, cbSeg, lost, reader, fault>>

ProcessDataReceived ==
  /\ Running /\ MutexFree /\ events # <<>>
  /\ IF Head(events) = Mpd THEN FollowMpd ELSE FollowSegment(Head(events))

-----------------------------------------------------------------------------
(* The HTTP client's thread *)

\* n bytes of the answer at the front go to the storage (appendPldBytes); the
\* first ones tell it the size.
Receive(n) ==
  /\ Running /\ http = "receive" /\ queue # <<>>
  /\ LET c == Head(queue)
         from == pldBytesReceived
         to == from + n - 1
         all == to = Size[c] - 1
         sized == IF from = 0 THEN SetSize(objects, c, Size[c]) ELSE objects
     IN  /\ to < Size[c]
         /\ IF from = 0 /\ ~MaySetSize(objects, c, Size[c]) THEN Fail("setSize")
            ELSE IF ~MayAddData(sized, c, from, to) THEN Fail("setData")
            ELSE /\ objects' = AddData(sized, c, from, to)
                 /\ received' = [received EXCEPT ![c] = @ \cup from..to]
                 /\ completed' = IF all THEN completed \cup {c} ELSE completed
                 /\ pldBytesReceived' = IF all THEN 0 ELSE to + 1
                 /\ queue' = IF all THEN Tail(queue) ELSE queue
                 /\ http' = IF all THEN "callback" ELSE "receive"
                 /\ cbSeg' = IF all THEN c ELSE cbSeg
                 /\ UNCHANGED <<lost, control, reader, fault>>

\* VLC's thread, if it waits for data, is signalled.
ResumePlayback ==
  IF ~DataAvailable(NextPosition) THEN Fail("resumePlayback")
  ELSE /\ vlc' = IF vlc = "waiting" THEN "woken" ELSE vlc
       /\ UNCHANGED fault

\* httpDataReceived_Segment() looks at the storage under Control::mutex and
\* pushes its event.  It takes a segment of one byte for a header, and returns.
Callback ==
  /\ Running /\ http = "callback"
  /\ IF cbSeg # Mpd /\ Size[cbSeg] > 1
     THEN /\ MutexFree
          /\ IF Available(NextPosition) > 0 THEN ResumePlayback ELSE UNCHANGED <<vlc, fault>>
     ELSE UNCHANGED <<vlc, fault>>
  /\ events' = IF cbSeg = Mpd \/ Size[cbSeg] > 1 THEN Append(events, cbSeg) ELSE events
  /\ http' = "receive"
  /\ UNCHANGED <<storage, queue, pldBytesReceived, cbSeg, lost, contour, curPos, given>>

\* The requests that are not complete start again on another connection.
LoseConnection ==
  /\ Running /\ http = "receive" /\ lost < MaxLost
  /\ queue # <<>> /\ Head(queue) # Mpd
  /\ lost' = lost + 1
  /\ pldBytesReceived' = 0
  /\ UNCHANGED <<storage, queue, http, cbSeg, control, reader, fault>>

-----------------------------------------------------------------------------
(* VLC's thread *)

\* What vlcCb() does after it has looked for data: read, or go to another state.
Look(otherwise) ==
  IF ContourEmpty THEN vlc' = otherwise /\ UNCHANGED fault
  ELSE IF Valid(NextPosition) /\ AsksBehindField(objects, NextPosition.seg, NextPosition.byte)
  THEN fault' = "isOccupied" /\ UNCHANGED vlc
  ELSE /\ vlc' = IF DataAvailable(NextPosition) THEN "reading" ELSE otherwise
       /\ UNCHANGED fault

\* What control() answers to VLC's queries; to any other it fails an assertion.
Answers ==
  [canSeek |-> "no", canFastSeek |-> "no", canPause |-> "yes", canControlPace |-> "yes",
   getPtsDelay |-> "value", getTitleInfo |-> "error", getMeta |-> "error",
   getContentType |-> "error", getSignal |-> "error"]

Can == {query \in DOMAIN Answers : Answers[query] = "yes"}

\* VLC asks before it reads.
Ask(query) ==
  /\ Running /\ told # Can
  /\ told' = told \cup ({query} \cap Can)
  /\ UNCHANGED <<storage, download, control, reader, pauses, fault>>

\* VLC reads only while it does not pause; the player takes no notice.
Paused == pauses % 2 = 1

SetPauseState ==
  /\ Running /\ "canPause" \in told /\ vlc = "idle"
  /\ Paused \/ pauses < 2 * MaxPauses
  /\ pauses' = pauses + 1
  /\ UNCHANGED <<storage, download, control, reader, told, fault>>

\* vlcCb() up to its decision that there is data, or that it waits.
VlcCb ==
  /\ Running /\ vlc = "idle" /\ ~Eof
  /\ told = Can /\ ~Paused
  /\ Look("waiting")
  /\ UNCHANGED <<storage, download, control, curPos, given>>

\* The wait ends, by the signal or by its timeout; without data vlcCb() returns.
WakeUp ==
  /\ Running /\ vlc \in {"waiting", "woken"}
  /\ Look("idle")
  /\ UNCHANGED <<storage, download, control, curPos, given>>

\* SegmentStorage::getData(): up to n bytes, or an invalid position.
GetData(n) ==
  /\ Running /\ vlc = "reading"
  /\ LET available == Available(NextPosition)
         bytes == Min({n, available})
     IN  /\ curPos' = IF bytes = 0 THEN Invalid ELSE LastOf(NextPosition, bytes)
         /\ given' = given + bytes
  /\ vlc' = "idle"
  /\ UNCHANGED <<storage, download, control, fault>>

-----------------------------------------------------------------------------
Init ==
  /\ objects = [c \in {} |-> NoDataField]
  /\ contour = -1 /\ queue = <<>> /\ pldBytesReceived = 0
  /\ http = "receive" /\ cbSeg = 0 /\ events = <<>>
  /\ curPos = Invalid /\ vlc = "idle"
  /\ told = {} /\ pauses = 0
  /\ lost = 0
  /\ received = [c \in Content |-> {}] /\ completed = {} /\ given = 0
  /\ fault = "none"

ControlThread ==
  /\ StartPlayback \/ ProcessDataReceived
  /\ UNCHANGED player

HttpThread ==
  /\ \/ \E n \in UNION {1..Size[c] : c \in Content} : Receive(n)
     \/ Callback
  /\ UNCHANGED player

Vlc ==
  \/ \E query \in DOMAIN Answers : Ask(query)
  \/ /\ VlcCb \/ WakeUp \/ \E n \in 1..MaxBuffer : GetData(n)
     /\ UNCHANGED player

Next ==
  \/ ControlThread
  \/ HttpThread
  \/ LoseConnection /\ UNCHANGED player
  \/ Vlc
  \/ SetPauseState

Spec == Init /\ [][Next]_vars

\* The three threads run on, and the server answers; nobody need end a pause.
Fairness ==
  /\ WF_vars(ControlThread)
  /\ WF_vars(HttpThread)
  /\ WF_vars(Vlc)

FairSpec == Spec /\ Fairness

-----------------------------------------------------------------------------
(* Properties *)

TypeOK ==
  /\ DOMAIN objects \subseteq Content
  /\ \A c \in DOMAIN objects : objects[c] \in DataField
  /\ contour \in Seg \cup {-1}
  /\ queue \in Seq(Content)
  /\ pldBytesReceived \in Nat /\ (queue # <<>> => pldBytesReceived < Size[Head(queue)])
  /\ http \in {"receive", "callback"} /\ cbSeg \in Content
  /\ events \in Seq(Content)
  /\ curPos \in StreamPosition \cup {Invalid}
  /\ vlc \in {"idle", "waiting", "woken", "reading"}
  /\ told \subseteq Can /\ pauses \in 0..(2 * MaxPauses)
  /\ lost \in 0..MaxLost
  /\ received \in [Content -> SUBSET Nat] /\ completed \in SUBSET Content
  /\ given \in Nat
  /\ fault \in {"none", "isOccupied", "setSize", "setData", "mpdIncomplete", "resumePlayback"}

\* Reads do not stop at a seam.
RegionsAreSeparate ==
  \A c \in DOMAIN objects : \A i, j \in objects[c].dataMap :
    i = j \/ i.to + 1 < j.from \/ j.to + 1 < i.from

OccupiedHasArrived == \A c \in DOMAIN objects : Occupied(objects[c]) \subseteq received[c]

\* No assertion on a write or on the MPD has failed.
WritesArePrepared == fault \notin {"setSize", "setData", "mpdIncomplete"}

\* Also when a download is interrupted and written again over what is there: the
\* regions of a DataField neither overlap nor touch, so that reads do not stop at a
\* seam; occupiedSize is the number of bytes in them; no byte is given to VLC, or
\* counted as buffered, that has not arrived; and nothing is written to an object
\* that is not prepared, nor its size changed.
StorageIsSound ==
  /\ TypeOK
  /\ RegionsAreSeparate /\ OccupiedHasArrived /\ WritesArePrepared
  /\ \A c \in DOMAIN objects : objects[c].occupiedSize = Cardinality(Occupied(objects[c]))
  /\ fault # "resumePlayback"

\* The MPD or a segment that was completely downloaded is completely readable, also
\* if an earlier download of it was interrupted.
CompletedSegmentsAreWhole ==
  \A c \in completed : objects[c].dataMap = {Region(0, Size[c] - 1)}

\* As long as no connection is lost, VLC gets every byte of the stream once and
\* in order, however its reads interleave with the arrival of data.
StreamIsGivenInOrder == lost = 0 => given = Offset(curPos)

\* curPos is the position of the last byte given to VLC (comment in Control.cpp).
CurPosIsLastByteGiven == given = Offset(curPos)

\* VLC reaches the end of the stream, also over lost connections and pauses,
\* unless it stays paused.
StreamIsPlayed == <>Eof \/ <>[]Paused
=============================================================================
