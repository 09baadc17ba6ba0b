---------------------------- MODULE ControlLoop ----------------------------
(***************************************************************************)
(* The control thread of class Control, the adaptation logic ControlLogicST *)
(* it runs, the HTTP client of the current connection with its callbacks,  *)
(* VLC's reading thread, and the shutdown of Control.                      *)
(*                                                                         *)
(* The HTTP client is seen through the promise of RequestFifo: a queue,    *)
(* completed from the front, that stops accepting when the server has used *)
(* up its keep-alive limit or the connection is lost.  Only the client of  *)
(* the current connection is alive: the control logic destroys it, and     *)
(* joins its thread, before it creates the next one.                       *)
(*                                                                         *)
(* A completed request is whole, so data is counted in segments; a beta is *)
(* the number of segments VLC can read without a gap.  The choice of the   *)
(* representation is left out, the choice of Bdelay is arbitrary.          *)
(***************************************************************************)
EXTENDS Integers, Sequences, FiniteSets

CONSTANTS
  LastSeg,          \* the stop segment
  Bdelays,          \* the values of Bdelay that selectRepresentation may return
  Limit,            \* requests the server serves per connection
  FetchHeads,       \* option fetchHeads of the configuration string
  MayClose,         \* whether the player may be closed
  MaxLost           \* bound: connections lost before their limit

\* The int64 maximum: no buffer level exceeds it.
NoDelay == LastSeg + 1

ASSUME ControlLoopAssumption ==
  /\ LastSeg \in Nat /\ LastSeg >= 2
  /\ Bdelays \subseteq 1..NoDelay /\ Bdelays # {}
  /\ Limit \in Nat /\ Limit >= 2
  /\ FetchHeads \in BOOLEAN /\ MayClose \in BOOLEAN
  /\ MaxLost \in Nat

VARIABLES
  state,            \* ControlState
  ctl,              \* where controlThreadMain() is
  events, actions,  \* the two queues of Control
  logic,            \* state of ControlLogic
  contour,          \* index of the last segment of the contour, -1: empty
  delayedRequests, Bdelay,
  pendingActions,   \* contents of the downloads that are not acknowledged
  tcpConnectionId,  \* the current connection, 0: none yet
  queue,            \* requests of its client, oldest first
  served,           \* requests answered on the connection
  accepting,        \* whether the client accepts requests
  thread, cbReq, cbBeta,  \* the client's thread, and what its callback handles
  lost,             \* connections lost so far
  downloaded,       \* segments in SegmentStorage
  segmentSizes,     \* segments whose HEAD has been answered
  played,           \* segment of curPos, -1: invalid
  vlc, vlcBeta,     \* VLC's reading thread, and the event it is about to push
  fault             \* what ended the process

control == <<state, ctl>>
logicVars == <<logic, contour, delayedRequests, Bdelay, pendingActions>>
client == <<tcpConnectionId, queue, served, accepting, thread, cbReq, cbBeta>>
storage == <<downloaded, segmentSizes>>
reader == <<played, vlc, vlcBeta>>
vars == <<control, events, actions, logicVars, client, lost, storage, reader, fault>>

Seg == 0..LastSeg
Mpd == -1
Content == Seg \cup {Mpd}
HttpRequest == [content : Content, method : {"GET"}] \cup [content : Seg, method : {"HEAD"}]
GetRequest(c) == [content |-> c, method |-> "GET"]
HeadRequest(c) == [content |-> c, method |-> "HEAD"]
NoRequest == GetRequest(Mpd)

ControlLogicAction == [conn : Nat, reqs : Seq(HttpRequest)]
StartDownload(conn, reqs) == [conn |-> conn, reqs |-> reqs]

ControlLogicEvent ==
  [type : {"dataReceived", "dataPlayed", "disconnect"}, conn : Nat,
   content : Content, beta : Nat]
DataReceived(c, beta) ==
  [type |-> "dataReceived", conn |-> tcpConnectionId, content |-> c, beta |-> beta]
Disconnect ==
  [type |-> "disconnect", conn |-> tcpConnectionId, content |-> Mpd, beta |-> 0]
DataPlayed(beta) ==
  [type |-> "dataPlayed", conn |-> 0, content |-> Mpd, beta |-> beta]

Contents(reqs) == {reqs[i].content : i \in DOMAIN reqs}

Faults == {"none", "controlNotPlaying", "unexpectedEvent", "acknowledge", "delayedRequests", "contour",
           "clearUnfinishedRequests", "joinDeadlock", "restartMpd", "noClient",
           "rejected", "keepAlive", "segmentSizes", "mpdNotPlaying",
           "mutexDestroyed", "requestsDeleted", "destructor"}

Running == fault = "none"

\* A failed assertion, an exception or an access to what is gone.
Fail(where) ==
  /\ fault' = where
  /\ UNCHANGED <<control, events, actions, logicVars, client, lost, storage, reader>>

-----------------------------------------------------------------------------
(* Storage and playback position *)

\* Segments VLC can read after segment p; the init segment has no duration.
Beta(p, arrived, end) ==
  Cardinality({k \in 1..end : k > p /\ (p + 1)..k \subseteq arrived})

BetaNow == Beta(played, downloaded, contour)

Eof == played = LastSeg

-----------------------------------------------------------------------------
(* The HTTP client *)

\* checkStartNewRequests() sends everything the server still accepts.
Sent == IF served + Len(queue) <= Limit THEN served + Len(queue) ELSE Limit

KeepAliveMaxRemaining == Limit - Sent

\* A fresh connection and its client.
CreateClient ==
  /\ tcpConnectionId' = tcpConnectionId + 1
  /\ queue' = <<>> /\ served' = 0 /\ accepting' = TRUE
  /\ thread' = "run" /\ cbReq' = NoRequest /\ cbBeta' = 0

\* States of the client's thread in which it waits for Control::mutex.
NeedsMutex == {"locking"}

\* What the client's thread pushes before the join in the destructor returns.
InFlight ==
  CASE thread = "pushing" -> <<DataReceived(cbReq.content, cbBeta)>>
    [] thread = "disconnect" -> <<Disconnect>>
    [] OTHER -> <<>>

\* The answer to the oldest request is complete; what the callback does first.
CompleteRequest ==
  /\ Running /\ thread = "run" /\ queue # <<>> /\ served < Limit
  /\ LET req == Head(queue)
         last == served + 1 = Limit
     IN  IF state = "Dead" THEN Fail("requestsDeleted")
         ELSE IF KeepAliveMaxRemaining = 0 /\ ~last THEN Fail("keepAlive")
         ELSE IF req.method = "HEAD" /\ state = "Playing" /\ req.content \in segmentSizes
              THEN Fail("segmentSizes")
         ELSE
           /\ queue' = Tail(queue)
           /\ served' = served + 1
           /\ accepting' = (accepting /\ ~last)
           /\ downloaded' = IF req.method = "GET" THEN downloaded \cup ({req.content} \ {Mpd})
                            ELSE downloaded
           /\ segmentSizes' = IF req.method = "HEAD" /\ state = "Playing"
                              THEN segmentSizes \cup {req.content} ELSE segmentSizes
           /\ thread' = IF req.content = Mpd THEN "pushing"
                        ELSE IF req.method = "GET" /\ state = "Playing" THEN "locking"
                        ELSE "run"
           /\ cbReq' = req
           /\ cbBeta' = 0
           /\ UNCHANGED <<control, events, actions, logicVars, tcpConnectionId, lost,
                          reader, fault>>

\* httpDataReceived_Segment(): the buffer level, under Control::mutex.
ComputeBeta ==
  /\ Running /\ thread = "locking"
  /\ IF state = "Dead" THEN Fail("mutexDestroyed")
     ELSE /\ cbBeta' = BetaNow
          /\ thread' = "pushing"
          /\ UNCHANGED <<control, events, actions, logicVars, tcpConnectionId, queue,
                         served, accepting, cbReq, lost, storage, reader, fault>>

\* The event, under eventsMutex.
PushDataReceived ==
  /\ Running /\ thread = "pushing"
  /\ IF state = "Dead" THEN Fail("mutexDestroyed")
     ELSE IF cbReq.content = Mpd /\ state # "Playing" THEN Fail("mpdNotPlaying")
     ELSE /\ events' = events \o InFlight
          /\ thread' = "run"
          /\ UNCHANGED <<control, actions, logicVars, tcpConnectionId, queue, served,
                         accepting, cbReq, cbBeta, lost, storage, reader, fault>>

\* The connection ends: after the last answer, or because it is lost.
LoseConnection ==
  /\ Running /\ thread = "run"
  /\ served = Limit \/ lost < MaxLost
  /\ lost' = IF served = Limit THEN lost ELSE lost + 1
  /\ accepting' = FALSE
  /\ thread' = "disconnect"
  /\ UNCHANGED <<control, events, actions, logicVars, tcpConnectionId, queue, served,
                 cbReq, cbBeta, storage, reader, fault>>

\* httpDisconnect(): the event, under eventsMutex.
PushDisconnect ==
  /\ Running /\ thread = "disconnect"
  /\ IF state = "Dead" THEN Fail("mutexDestroyed")
     ELSE /\ events' = events \o InFlight
          /\ thread' = "done"
          /\ UNCHANGED <<control, actions, logicVars, tcpConnectionId, queue, served,
                         accepting, cbReq, cbBeta, lost, storage, reader, fault>>

-----------------------------------------------------------------------------
(* The control logic; an event is processed under Control::mutex *)

\* Every download of c is taken from the copies of the actions, and an action
\* without downloads from the list.
AckActionRequestCompleted(c) == pendingActions \ {c}

\* createActionDownloadSegments(), and the copies that processEvent() keeps
\* until the downloads are acknowledged.
Issue(pending, acts) ==
  /\ actions' = actions \o acts
  /\ pendingActions' = pending \cup UNION {Contents(acts[i].reqs) : i \in DOMAIN acts}

FetchSizes ==
  IF FetchHeads
  THEN <<StartDownload(tcpConnectionId, [i \in 1..(LastSeg + 1) |-> HeadRequest(i - 1)])>>
  ELSE <<>>

FetchFirst == <<StartDownload(tcpConnectionId, <<GetRequest(0), GetRequest(1)>>)>>

\* What follows the MPD: the sizes of all segments with HEAD if the option is
\* set, and segments 0 and 1 pipelined.
FollowMpd == FetchSizes \o FetchFirst

\* The MPD is complete.
ProcessMpd ==
  /\ Issue(AckActionRequestCompleted(Mpd), FollowMpd)
  /\ events' = Tail(events)
  /\ logic' = "HAVE_MPD"
  /\ contour' = 1
  /\ UNCHANGED <<control, delayedRequests, Bdelay, client, lost, storage, reader, fault>>

\* Mutant: the connection is replaced when one more request is accepted.
ReconnectEarly == KeepAliveMaxRemaining <= 1

\* The next segment is requested at once unless the buffer is fuller than Bdelay.
RequestNow(beta, bdelay) == beta <= bdelay

\* Segments after which nothing is requested: the last one, and the init
\* segment, for it was requested together with segment 1.
NothingFollows(k) == k \in {0, LastSeg}

\* The server accepts no further request on this connection.
MustReconnect == KeepAliveMaxRemaining = 0

\* Contour::setNext() accepts the successor only, and anything after segment 0.
MaySetNext(k) == contour = -1 \/ (k >= contour /\ (contour = 0 \/ k = contour + 1))

SegmentFault(k) ==
  IF AckActionRequestCompleted(k) = pendingActions THEN "acknowledge"
  ELSE IF delayedRequests # <<>> THEN "delayedRequests"
  ELSE IF NothingFollows(k) THEN "none"
  ELSE IF ~MaySetNext(k + 1) THEN "contour"
  ELSE IF MustReconnect /\ (accepting \/ queue # <<>>) THEN "clearUnfinishedRequests"
  ELSE IF MustReconnect /\ thread \in NeedsMutex THEN "joinDeadlock"
  ELSE "none"

\* Segment k is complete; the buffer level was beta when its data had arrived.
ProcessSegment(k, beta) ==
  IF SegmentFault(k) # "none" THEN Fail(SegmentFault(k))
  ELSE IF NothingFollows(k)
  THEN /\ Issue(AckActionRequestCompleted(k), <<>>)
       /\ events' = Tail(events)
       /\ UNCHANGED <<control, logic, contour, delayedRequests, Bdelay, client, lost,
                      storage, reader, fault>>
  ELSE /\ contour' = k + 1
       /\ Bdelay' \in Bdelays
       /\ IF MustReconnect
          THEN CreateClient /\ events' = Tail(events) \o InFlight
          ELSE UNCHANGED client /\ events' = Tail(events)
       /\ IF RequestNow(beta, Bdelay')
          THEN /\ Issue(AckActionRequestCompleted(k),
                         <<StartDownload(tcpConnectionId', <<GetRequest(k + 1)>>)>>)
               /\ UNCHANGED delayedRequests
          ELSE /\ Issue(AckActionRequestCompleted(k), <<>>)
               /\ delayedRequests' = Append(delayedRequests, k + 1)
       /\ UNCHANGED <<control, logic, lost, storage, reader, fault>>

\* VLC has read, and the buffer level is beta.
ProcessDataPlayed(beta) ==
  /\ events' = Tail(events)
  /\ IF delayedRequests # <<>> /\ RequestNow(beta, Bdelay)
     THEN /\ Issue(pendingActions,
                  <<StartDownload(tcpConnectionId, <<GetRequest(delayedRequests[1])>>)>>)
          /\ delayedRequests' = <<>>
          /\ Bdelay' = NoDelay
     ELSE UNCHANGED <<actions, pendingActions, delayedRequests, Bdelay>>
  /\ UNCHANGED <<control, logic, contour, client, lost, storage, reader, fault>>

\* Mutants: the request that was being answered is forgotten; the requests are
\* restarted in the reverse order.
RestartedTail(reqs) == [i \in 1..(Len(reqs) - 1) |-> GetRequest(reqs[i + 1].content)]
RestartedReversed(reqs) ==
  [i \in DOMAIN reqs |-> GetRequest(reqs[Len(reqs) - i + 1].content)]

\* Whatever was unfinished is restarted with GET.
Restarted(reqs) == [i \in DOMAIN reqs |-> GetRequest(reqs[i].content)]

\* The connection conn is lost: its unfinished requests, which must be for
\* segments, are issued again on a new one.
ProcessDisconnect(conn) ==
  IF conn < tcpConnectionId
  THEN /\ events' = Tail(events)
       /\ UNCHANGED <<control, actions, logicVars, client, lost, storage, reader, fault>>
  ELSE IF thread \in NeedsMutex THEN Fail("joinDeadlock")
  ELSE IF Mpd \in Contents(queue) THEN Fail("restartMpd")
  ELSE /\ CreateClient
       /\ events' = Tail(events) \o InFlight
       /\ Issue(pendingActions,
                IF queue = <<>> THEN <<>>
                ELSE <<StartDownload(tcpConnectionId + 1, Restarted(queue))>>)
       /\ UNCHANGED <<control, logic, contour, delayedRequests, Bdelay, lost, storage,
                      reader, fault>>

-----------------------------------------------------------------------------
(* The control thread *)

\* The first event, StartPlayback, is not queued.
StartPlayback ==
  /\ Running /\ ctl = "start"
  /\ IF state # "Playing" THEN Fail("controlNotPlaying")
     ELSE /\ CreateClient
          /\ Issue(pendingActions, <<StartDownload(tcpConnectionId + 1, <<GetRequest(Mpd)>>)>>)
          /\ ctl' = "loop"
          /\ UNCHANGED <<state, events, logic, contour, delayedRequests, Bdelay, lost,
                         storage, reader, fault>>

\* The MPD must be the first content, and segments must follow it.
ProcessDataReceived(e) ==
  CASE e.content = Mpd /\ logic = "NO_MPD" /\ contour = -1 -> ProcessMpd
    [] e.content # Mpd /\ logic = "HAVE_MPD" /\ contour # -1 ->
         ProcessSegment(e.content, e.beta)
    [] OTHER -> Fail("unexpectedEvent")

\* ControlLogic::processEvent()
Dispatch(e) ==
  CASE e.type = "disconnect" -> ProcessDisconnect(e.conn)
    [] e.type = "dataReceived" -> ProcessDataReceived(e)
    [] e.type = "dataPlayed" /\ logic = "HAVE_MPD" -> ProcessDataPlayed(e.beta)
    [] OTHER -> Fail("unexpectedEvent")

\* One event per turn of the main loop, and events before actions.
ProcessEvent ==
  /\ Running /\ ctl = "loop" /\ state = "Playing" /\ events # <<>>
  /\ Dispatch(Head(events))

\* Without events the thread processes all actions; it does not look at the
\* events again before it has done them all.
StartActions ==
  /\ Running /\ ctl = "loop" /\ state = "Playing" /\ events = <<>> /\ actions # <<>>
  /\ ctl' = "actions"
  /\ UNCHANGED <<state, events, actions, logicVars, client, lost, storage, reader, fault>>

\* The client of the action's connection must be there, and must accept.
ProcessActionStartDownload(a) ==
  IF a.conn # tcpConnectionId THEN Fail("noClient")
  ELSE IF ~accepting THEN Fail("rejected")
  ELSE /\ queue' = queue \o a.reqs
       /\ actions' = Tail(actions)
       /\ ctl' = IF Tail(actions) = <<>> THEN "loop" ELSE "actions"
       /\ UNCHANGED <<state, events, logicVars, tcpConnectionId, served, accepting,
                      thread, cbReq, cbBeta, lost, storage, reader, fault>>

\* Downloads are the only actions.
ProcessAction ==
  /\ Running /\ ctl = "actions"
  /\ ProcessActionStartDownload(Head(actions))

LeaveLoop ==
  /\ Running /\ ctl = "loop" /\ state # "Playing"
  /\ ctl' = "ended"
  /\ UNCHANGED <<state, events, actions, logicVars, client, lost, storage, reader, fault>>

-----------------------------------------------------------------------------
(* VLC *)

\* vlcCb(): some of the data that is available, under Control::mutex.
VlcCb ==
  /\ Running /\ state = "Playing" /\ vlc = "idle" /\ ~Eof
  /\ \E p \in (played + 1)..contour :
       /\ (played + 1)..p \subseteq downloaded
       /\ played' = p
       /\ vlc' = IF p = LastSeg THEN "idle" ELSE "pushing"
       /\ vlcBeta' = Beta(p, downloaded, contour)
  /\ UNCHANGED <<control, events, actions, logicVars, client, lost, storage, fault>>

\* Its event, under eventsMutex.
PushDataPlayed ==
  /\ Running /\ vlc = "pushing"
  /\ events' = Append(events, DataPlayed(vlcBeta))
  /\ vlc' = "idle"
  /\ UNCHANGED <<control, actions, logicVars, client, lost, storage, played, vlcBeta, fault>>

\* Close(): VLC's thread is not reading any more.  Control::cleanUp() first sets
\* the flag that stops the control thread.
Close ==
  /\ Running /\ MayClose /\ state = "Playing" /\ vlc = "idle"
  /\ state' = "Terminating"
  /\ UNCHANGED <<ctl, events, actions, logicVars, client, lost, storage, reader, fault>>

\* After the join it destroys the mutexes, the queues, the control logic and
\* the requests; the HTTP client's thread still runs.
CleanUp ==
  /\ Running /\ state = "Terminating" /\ ctl = "ended"
  /\ state' = "Dead"
  /\ events' = <<>> /\ actions' = <<>>
  /\ UNCHANGED <<ctl, logicVars, client, lost, storage, reader, fault>>

\* HttpClientManager::cleanup().
DestroyClient ==
  /\ Running /\ state = "Dead" /\ thread \in {"run", "done"}
  /\ IF queue # <<>> THEN Fail("destructor")
     ELSE /\ thread' = "destroyed"
          /\ UNCHANGED <<control, events, actions, logicVars, tcpConnectionId, queue,
                         served, accepting, cbReq, cbBeta, lost, storage, reader, fault>>

-----------------------------------------------------------------------------
ControlLogicInit ==
  /\ logic = "NO_MPD" /\ contour = -1 /\ pendingActions = {}
  /\ delayedRequests = <<>> /\ Bdelay = NoDelay

Init ==
  /\ state = "Playing" /\ ctl = "start"
  /\ events = <<>> /\ actions = <<>>
  /\ ControlLogicInit
  /\ tcpConnectionId = 0 /\ queue = <<>> /\ served = 0 /\ accepting = FALSE
  /\ thread = "none" /\ cbReq = NoRequest /\ cbBeta = 0
  /\ lost = 0
  /\ downloaded = {} /\ segmentSizes = {}
  /\ played = -1 /\ vlc = "idle" /\ vlcBeta = 0
  /\ fault = "none"

ControlThread ==
  \/ StartPlayback
  \/ ProcessEvent
  \/ StartActions
  \/ ProcessAction
  \/ LeaveLoop

HttpThread ==
  \/ ComputeBeta
  \/ PushDataReceived
  \/ PushDisconnect

Vlc ==
  \/ VlcCb
  \/ PushDataPlayed

Next ==
  \/ ControlThread
  \/ CompleteRequest
  \/ LoseConnection
  \/ HttpThread
  \/ Vlc
  \/ Close
  \/ CleanUp
  \/ DestroyClient

Spec == Init /\ [][Next]_vars

\* The threads run, the server answers what it accepts and closes when it has
\* said so, and VLC goes on reading.  Nobody has to lose a connection or to
\* close the player.
Fairness ==
  /\ WF_vars(ControlThread)
  /\ WF_vars(HttpThread)
  /\ WF_vars(CompleteRequest)
  /\ WF_vars(served = Limit /\ LoseConnection)
  /\ WF_vars(VlcCb)
  /\ WF_vars(PushDataPlayed)

FairSpec == Spec /\ Fairness

-----------------------------------------------------------------------------
(* Properties *)

TypeOK ==
  /\ state \in {"Playing", "Terminating", "Dead"}
  /\ ctl \in {"start", "loop", "actions", "ended"}
  /\ events \in Seq(ControlLogicEvent) /\ actions \in Seq(ControlLogicAction)
  /\ logic \in {"NO_MPD", "HAVE_MPD"}
  /\ contour \in Content
  /\ delayedRequests \in Seq(Seg) /\ Len(delayedRequests) <= 1
  /\ Bdelay \in 1..NoDelay
  /\ pendingActions \in SUBSET Content
  /\ tcpConnectionId \in Nat /\ queue \in Seq(HttpRequest) /\ served \in 0..Limit
  /\ accepting \in BOOLEAN
  /\ thread \in {"none", "run", "locking", "pushing", "disconnect", "done", "destroyed"}
  /\ cbReq \in HttpRequest /\ cbBeta \in 0..LastSeg
  /\ lost \in 0..MaxLost
  /\ downloaded \in SUBSET Seg /\ segmentSizes \in SUBSET Seg
  /\ played \in Content
  /\ vlc \in {"idle", "pushing"} /\ vlcBeta \in 0..LastSeg
  /\ fault \in Faults

Count(P) == IF P THEN 1 ELSE 0

\* The places where the download of segment k can be: an action, the client's
\* queue, its callback, an event, the delayed requests.
PlacesOf(k) ==
  Cardinality({p \in (DOMAIN actions) \X (1..(LastSeg + 1)) :
                 p[2] \in DOMAIN actions[p[1]].reqs /\ actions[p[1]].reqs[p[2]] = GetRequest(k)})
  + Cardinality({i \in DOMAIN queue : queue[i] = GetRequest(k)})
  + Count(thread \in {"locking", "pushing"} /\ cbReq = GetRequest(k))
  + Cardinality({i \in DOMAIN events :
                   events[i].type = "dataReceived" /\ events[i].content = k})
  + Cardinality({i \in DOMAIN delayedRequests : delayedRequests[i] = k})

\* While the player plays, a download that has been issued and is not
\* acknowledged, or is delayed, is in exactly one place on its way from the
\* decision to the storage and back, and the last segment of the contour is on
\* its way until the stream ends: no download is forgotten when a connection is
\* lost or replaced, none is started twice.
DownloadsInOnePlace ==
  /\ TypeOK
  /\ Running /\ state = "Playing" =>
       /\ \A k \in Seg : PlacesOf(k) = Count(k \in pendingActions \/ delayedRequests = <<k>>)
       /\ contour \in 1..(LastSeg - 1) => PlacesOf(contour) = 1

\* What may end the process: only the loss of a connection, which rejects an action or
\* restarts the MPD, or closing the player.  Under every order of the events of three
\* threads the assertions of the control logic hold (the event is expected, a completed
\* download is pending, no request is delayed, the next segment extends the contour); a
\* connection that is replaced has stopped accepting and has no requests left; and the
\* control thread never joins, with Control::mutex locked, a thread that waits for it.
OnlyLossOrCloseEndsTheProcess ==
  /\ fault \in {"noClient", "rejected", "restartMpd"} => lost > 0
  /\ fault \in {"controlNotPlaying", "mpdNotPlaying", "mutexDestroyed", "requestsDeleted",
                "destructor"} => state # "Playing"
  /\ fault \notin {"unexpectedEvent", "acknowledge", "delayedRequests", "contour",
                   "clearUnfinishedRequests", "joinDeadlock", "keepAlive", "segmentSizes"}

\* The loss of a connection does not end the process: an action that is rejected
\* ("potentially disconnected") is handled, and what was unfinished is restarted.
LossIsHandled == fault \notin {"noClient", "rejected", "restartMpd"}

\* Request r is in an action or the client has it.
IsRequested(r) ==
  \/ \E i \in DOMAIN queue : queue[i] = r
  \/ \E a \in DOMAIN actions : \E i \in DOMAIN actions[a].reqs : actions[a].reqs[i] = r

\* With fetchHeads the sizes of all segments are known before the first segment
\* arrives.  When a connection is lost the requests for the sizes that are missing
\* become downloads of their segments, and none is dropped: from the first segment
\* on, a segment without a size has been downloaded or its download is requested.
\* (While the player is being closed the answers are not recorded any more.)
SizesAreKnown ==
  FetchHeads /\ state = "Playing" /\ downloaded # {} =>
    /\ lost = 0 => segmentSizes = Seg
    /\ \A k \in Seg : k \in segmentSizes \cup downloaded \/ IsRequested(GetRequest(k))

\* A delayed request is released when the buffer has drained to Bdelay.
DelayedRequestsAreReleased ==
  delayedRequests # <<>> ~> delayedRequests = <<>> \/ ~Running \/ state # "Playing"

\* VLC has read everything, and the next request is still delayed.
Starved == delayedRequests # <<>> /\ BetaNow = 0

\* Unless the player is closed or the process ends, the whole stream is
\* downloaded, or its next request is delayed although the buffer is empty.
StreamIsDownloaded ==
  <>(LastSeg \in downloaded \/ Starved \/ ~Running \/ state # "Playing")

\* The player gets the segments in order.
Ordered == INSTANCE OrderedDownload WITH
  requested <- contour,
  arrived <- Cardinality(downloaded) - 1,
  given <- played
DownloadsInOrder == Ordered!Spec /\ [](downloaded = 0..(Cardinality(downloaded) - 1))
=============================================================================
