------------------------------- MODULE Plugin -------------------------------
(***************************************************************************)
(* The plug-in from Open() to Close(), and opened again: the components     *)
(* come and go in the order of dashp2p.cpp while up to four threads use     *)
(* them: VLC's reading thread (until Close), the control thread, the thread *)
(* of the current HTTP client, and the overlay's.                          *)
(*                                                                         *)
(* What the control thread decides is the subject of ControlLoop; here it   *)
(* has one request after the other, may replace the connection, records     *)
(* and prints.                                                             *)
(***************************************************************************)
EXTENDS Overlay, Traces

CONSTANTS
  Options,    \* the options: pairs of overlay and directory for the traces
  MaxOpens    \* bound: times the plug-in is opened

\* The thread of an HTTP client, and no other, records the state of its connection and
\* the sizes of segments.  But for the scalars no two threads record the same kind.
ASSUME PluginAssumption ==
  /\ Options \subseteq BOOLEAN \X BOOLEAN /\ MaxOpens \in Nat
  /\ Recorders = {"vlc", "control", "http", "main"} /\ Printers \subseteq Recorders
  /\ KindsOf["http"] \subseteq {"tcp", "sizes"}
  /\ \A t \in Recorders \ {"http"} : KindsOf[t] \cap {"tcp", "sizes"} = {}
  /\ \A t, u \in Recorders : t # u => KindsOf[t] \cap KindsOf[u] \subseteq {"scalar"}
  /\ MaxConn >= 1 /\ MaxRequests >= 1

VARIABLES
  main,         \* VLC's main thread: "closed", "open", or a step of Close()
  opens,        \* how often the plug-in was opened
  withOverlay,
  state,        \* ControlState
  control,      \* the control thread
  client, cb,   \* the thread of the current HTTP client, the request that its
                \* callback handles, 0: none
  pending,      \* the request that the client has not completed, 0: none
  arrived,      \* the queue of events: completed requests
  reqs,         \* the request table: "empty", "used", "null" entries only
  httpVec,      \* the table of clients has room
  mpd,          \* MpdWrapper::mpd: "none", "loaded", "dangling"
  requested,    \* requests so far
  srcVec,       \* the servers SourceManager knows
  sockets,      \* the connections whose socket is open
  recordedAtClose, \* history: the requests known to Statistics when Close began
  fault         \* what ended the process

lifeVars == <<main, opens, withOverlay>>
controlVars == <<state, control, arrived, reqs, httpVec, mpd, requested>>
clientVars == <<client, cb, pending>>
netVars == <<connVec, sockets, srcVec>>
pluginVars == <<lifeVars, controlVars, clientVars, netVars, recordedAtClose, fault>>
allVars == <<overlayVars, traceVars, pluginVars>>

Running == fault = "none"
Connection == Len(connVec)

Fail(where) ==
  /\ fault' = where
  /\ UNCHANGED <<overlayVars, traceVars, lifeVars, controlVars, clientVars,
                 recordedAtClose, netVars>>

\* Which threads begin something new: VLC's until it calls Close(), the control
\* thread until it finds another state at the top of its loop, the client's until
\* its destructor is called.
Runs(t) ==
  CASE t = "vlc" -> main = "open"
    [] t = "control" -> control = "run" /\ state = "Playing"
    [] t = "http" -> client = "run" /\ main # "clients"
    [] t = "main" -> FALSE

\* It is not in the middle of a record or a print.
Idle(t) == recording[t] = NoRecord /\ (t \in Printers => printing[t] = Nothing)

-----------------------------------------------------------------------------
(* Records and prints of any thread *)

\* The sizes are recorded by a callback only.
BeginRecord(t) ==
  /\ Running /\ Runs(t) /\ Idle(t)
  /\ \E kind \in KindsOf[t] \ {"sizes"} : \E file \in FilesOf(kind) :
       /\ kind = "tcp" => file = TcpState(Connection)
       /\ StartRecord(t, file)
  /\ UNCHANGED <<overlayVars, pluginVars>>

FinishRecord(t) ==
  /\ Running
  /\ \/ PrepareSizesFails(t) /\ Fail("sizesNotOpen")
     \/ PrepareFails(t) /\ Fail("fileExists")
     \/ PrepareMayFail(t) /\ Fail("rootDirectory")
     \/ PrepareFile(t) /\ UNCHANGED <<overlayVars, pluginVars>>
     \/ WriteFails(t) /\ Fail("fileClosed")
     \/ Write(t) /\ UNCHANGED <<overlayVars, pluginVars>>

\* The HTTP client's thread prints from its callback only.
BeginPrint(t) ==
  /\ Running /\ Runs(t) /\ Idle(t) /\ (t = "http" => cb # 0)
  /\ \E l \in LinesOf[t], text \in Texts : PrintEntry(t, l, text)
  /\ UNCHANGED <<traceVars, pluginVars>>

FinishPrint(t) ==
  /\ Running
  /\ \/ overlay = "up" /\ PrintLine(t) /\ UNCHANGED <<traceVars, pluginVars>>
     \/ overlay = "freed" /\ printing[t] # Nothing /\ Fail("overlayGone")

OverlayStep ==
  /\ Running
  /\ OverlayThread \/ FilterOpens \/ FilterAnswers
  /\ UNCHANGED <<traceVars, pluginVars>>
-----------------------------------------------------------------------------
(* Open *)

\* Open() with or without the overlay and a directory for the traces; then the
\* control thread is started.
Open ==
  /\ Running /\ main = "closed" /\ opens < MaxOpens
  /\ \E overlayOn, dir \in BOOLEAN :
       /\ <<overlayOn, dir>> \in Options
       /\ IF InitFails(dir) THEN Fail("statisticsInUse")
          ELSE
            /\ TracesInit(dir)
            /\ IF overlayOn THEN OverlayInit ELSE UNCHANGED overlayVars
            /\ withOverlay' = overlayOn
            /\ main' = "open" /\ opens' = opens + 1
            /\ state' = "Playing" /\ control' = "starting"
            /\ requested' = 0 /\ recordedAtClose' = {}
            /\ UNCHANGED <<clientVars, arrived, reqs, httpVec, mpd, netVars, fault>>

-----------------------------------------------------------------------------
(* The control thread *)

\* SourceManager::add(): the name of the server is resolved, or an assertion fails.
AddSource == srcVec' = Append(srcVec, "server")
ServerUnknown == Fail("hostUnknown")

\* TcpConnectionManager::create(): a new entry behind those of `vec', whose
\* constructor opens a socket.
CreateConnection(vec, open) ==
  connVec' = Append(vec, "alive") /\ sockets' = open \cup {Len(vec) + 1}

\* TcpConnectionManager::disconnect() leaves null in place of a connection; the
\* destructor closes the socket.
Disconnected(c) == [connVec EXCEPT ![c] = "null"]
CloseSocket(c) == sockets \ {c}

\* HttpClientManager::create(): the constructor starts the client's thread.
CreateClient == client' = "run"

\* The destructor of the current client can join its thread.
ClientJoins == client = "run" => cb = 0 /\ Idle("http")

\* A new request of the current client.
NewRequest ==
  /\ requested' = requested + 1 /\ pending' = requested + 1 /\ reqs' = "used"

\* The first statements of the control thread, in any state but Playing.
StartInWrongState ==
  /\ Running /\ control = "starting" /\ state # "Playing"
  /\ Fail("controlNotPlaying")

\* StartPlayback.  HttpClientManager::create() doubles the size of its table
\* until the connection fits: without any room, for ever.
StartPlayback ==
  /\ Running /\ control = "starting" /\ state = "Playing"
  /\ \/ ServerUnknown
     \/ /\ AddSource /\ CreateConnection(connVec, sockets)
        /\ IF httpVec THEN CreateClient /\ NewRequest /\ control' = "run"
           ELSE control' = "hung" /\ UNCHANGED <<client, pending, requested, reqs>>
        /\ UNCHANGED <<overlayVars, traceVars, lifeVars, state, arrived, httpVec, mpd, cb,
                       recordedAtClose, fault>>

\* A request is complete: the MPD is loaded, the request is given to Statistics
\* under the current connection.
ProcessEvent ==
  /\ Running /\ control = "run" /\ Idle("control")
  /\ state = "Playing" /\ arrived # <<>>
  /\ RecordRequest(Connection, Head(arrived))
  /\ arrived' = Tail(arrived)
  /\ mpd' = "loaded"
  /\ UNCHANGED <<overlayVars, lifeVars, state, control, reqs, httpVec, requested, clientVars,
                 recordedAtClose, fault, netVars>>

\* The next request, unless the last one is delayed or the stream ends.
StartDownload ==
  /\ Running /\ control = "run" /\ Idle("control") /\ state = "Playing"
  /\ pending = 0 /\ cb = 0 /\ arrived = <<>> /\ requested < MaxRequests
  /\ client = "run"
  /\ NewRequest
  /\ UNCHANGED <<overlayVars, traceVars, lifeVars, state, control, arrived, httpVec, mpd,
                 client, cb, recordedAtClose, fault, netVars>>

\* The connection is replaced: HttpClientManager::destroy() joins the client's
\* thread, TcpConnectionManager::disconnect() clears the entry of the connection.
Reconnect ==
  /\ Running /\ control = "run" /\ Idle("control") /\ state = "Playing"
  /\ Connection < MaxConn
  /\ pending = 0 /\ client = "run" /\ ClientJoins
  /\ CreateConnection(Disconnected(Connection), CloseSocket(Connection))
  /\ UnregisterTcpConnection(Connection)
  /\ UNCHANGED <<overlayVars, lifeVars, controlVars, clientVars, srcVec, recordedAtClose, fault>>

LeaveLoop ==
  /\ Running /\ control = "run" /\ Idle("control") /\ state # "Playing"
  /\ control' = "done"
  /\ UNCHANGED <<overlayVars, traceVars, lifeVars, state, arrived, reqs, httpVec, mpd,
                 requested, clientVars, recordedAtClose, fault, netVars>>

-----------------------------------------------------------------------------
(* The thread of the HTTP client *)

\* The answer is complete.  The callback for the MPD, the first request, asserts
\* the state Playing; the one for a segment returns in any other state.
CompleteRequest ==
  /\ Running /\ client = "run" /\ cb = 0 /\ Idle("http") /\ pending # 0
  /\ IF reqs = "null" THEN Fail("requestsDeleted")
     ELSE IF state # "Playing" /\ pending = 1 THEN Fail("mpdNotPlaying")
     ELSE /\ cb' = IF state = "Playing" THEN pending ELSE 0
          /\ pending' = 0
          /\ UNCHANGED <<overlayVars, traceVars, lifeVars, controlVars, client,
                         recordedAtClose, fault, netVars>>

\* The answer to a HEAD is complete: the callback records the size of the segment.
CompleteHead ==
  /\ Running /\ client = "run" /\ cb = 0 /\ Idle("http") /\ pending > 1
  /\ reqs # "null" /\ state = "Playing" /\ "sizes" \in KindsOf["http"]
  /\ pending' = 0
  /\ IF logDir /\ "sizes" \in Flags THEN StartRecord("http", <<"sizes">>) ELSE UNCHANGED traceVars
  /\ UNCHANGED <<overlayVars, lifeVars, controlVars, client, cb, recordedAtClose, fault, netVars>>

\* The end of the callback: the event, under eventsMutex.
PushEvent ==
  /\ Running /\ cb # 0 /\ Idle("http")
  /\ IF state = "Dead" THEN Fail("mutexDestroyed")
     ELSE /\ arrived' = Append(arrived, cb) /\ cb' = 0
          /\ UNCHANGED <<overlayVars, traceVars, lifeVars, state, control, reqs, httpVec, mpd,
                         requested, client, pending, recordedAtClose, fault, netVars>>

-----------------------------------------------------------------------------
(* Close *)

\* From one step of Close() to the next.
Step(from, to) == main = from /\ main' = to

\* Close() is not called while VLC reads.  It records the end time.
Close ==
  /\ Running /\ Idle("vlc") /\ Step("open", "output")
  /\ IF logDir /\ "scalar" \in Flags THEN StartRecord("main", <<"scalar">>)
     ELSE UNCHANGED traceVars
  /\ recordedAtClose' = UNION {{httpRequests[c][i] : i \in DOMAIN httpRequests[c]} : c \in Conn}
  /\ UNCHANGED <<overlayVars, opens, withOverlay, controlVars, clientVars, fault, netVars>>

\* outputStatistics(), while all other threads run on.
OutputStatistics ==
  /\ Running /\ main = "output" /\ Idle("main")
  /\ IF OutputFails THEN Fail("nullConnection")
     ELSE /\ IF ToWrite # {} THEN OutputRequests /\ UNCHANGED main
             ELSE main' = "control" /\ UNCHANGED traceVars
          /\ UNCHANGED <<overlayVars, opens, withOverlay, controlVars, clientVars,
                         recordedAtClose, fault, netVars>>

\* Control::cleanUp(): the flag, ...
Terminate ==
  /\ Running /\ Step("control", "join") /\ state = "Playing"
  /\ state' = "Terminating"
  /\ UNCHANGED <<overlayVars, traceVars, opens, withOverlay, control, arrived, reqs, httpVec,
                 mpd, requested, clientVars, recordedAtClose, fault, netVars>>

\* HttpRequestManager::cleanup(): the requests go, their blocks stay as null entries.
CleanUpRequests == reqs' = IF reqs = "used" THEN "null" ELSE reqs

\* ... the join, and its mutexes, its queues and the requests are gone.
CleanUpControl ==
  /\ Running /\ Step("join", "statistics") /\ control = "done"
  /\ control' = "none" /\ state' = "Dead" /\ arrived' = <<>>
  /\ CleanUpRequests
  /\ UNCHANGED <<overlayVars, traceVars, opens, withOverlay, httpVec, mpd, requested,
                 clientVars, recordedAtClose, fault, netVars>>

\* Statistics::cleanUp(), in two steps.
CleanUpStatistics ==
  /\ Running
  /\ \/ Step("statistics", "files") /\ EraseLogDir
     \/ Step("files", "overlay") /\ CloseFiles
  /\ UNCHANGED <<overlayVars, opens, withOverlay, controlVars, clientVars, recordedAtClose,
                 fault, netVars>>

\* OverlayAdapter::cleanup(): the flag, the join, the rest.
CleanUpOverlay ==
  /\ Running
  /\ \/ Step("overlay", "clients") /\ ~withOverlay /\ UNCHANGED overlayVars
     \/ Step("overlay", "overlayJoin") /\ withOverlay /\ OverlayTerminate
     \/ Step("overlayJoin", "clients") /\ OverlayFree
  /\ UNCHANGED <<traceVars, opens, withOverlay, controlVars, clientVars, recordedAtClose,
                 fault, netVars>>

\* Mutant: the client's thread is not joined.
CleanUpClientsNoJoin ==
  /\ Running /\ Step("clients", "managers")
  /\ httpVec' = FALSE
  /\ UNCHANGED <<overlayVars, traceVars, opens, withOverlay, state, control, arrived, reqs, mpd,
                 requested, clientVars, recordedAtClose, fault, netVars>>

\* HttpClientManager::cleanup(): the join of the client's thread; the client must
\* not have requests left.  The table keeps no room.
CleanUpClients ==
  /\ Running /\ main = "clients" /\ ClientJoins
  /\ IF client = "run" /\ pending # 0 THEN Fail("destructor")
     ELSE /\ main' = "managers"
          /\ client' = "none" /\ httpVec' = FALSE
          /\ UNCHANGED <<overlayVars, traceVars, opens, withOverlay, state, control, arrived,
                         reqs, mpd, requested, cb, pending, recordedAtClose, fault, netVars>>

\* The managers of the connections, which closes their sockets, and of the servers.
CleanUpConnections ==
  /\ connVec' = <<>>
  /\ sockets' = {c \in sockets : connVec[c] # "alive"}
CleanUpSources == srcVec' = <<>>

\* They are followed by MpdWrapper, SegmentStorage, and the debug output, which
\* every thread has used.
CleanUpManagers ==
  /\ Running /\ Step("managers", "closed")
  /\ CleanUpConnections /\ CleanUpSources
  /\ mpd' = IF mpd = "loaded" THEN "dangling" ELSE mpd
  /\ UNCHANGED <<overlayVars, traceVars, opens, withOverlay, state, control, arrived, reqs,
                 httpVec, requested, clientVars, recordedAtClose, fault>>

-----------------------------------------------------------------------------
PluginInit ==
  /\ OverlayAbsent /\ TracesAbsent
  /\ main = "closed" /\ opens = 0 /\ withOverlay = FALSE
  /\ state = "Dead" /\ control = "none" /\ client = "none" /\ cb = 0 /\ pending = 0
  /\ arrived = <<>> /\ reqs = "empty" /\ httpVec = TRUE /\ mpd = "none" /\ requested = 0
  /\ srcVec = <<>> /\ sockets = {}
  /\ recordedAtClose = {} /\ fault = "none"

ControlThread ==
  \/ StartInWrongState
  \/ StartPlayback
  \/ ProcessEvent
  \/ StartDownload
  \/ Reconnect
  \/ LeaveLoop

HttpThread ==
  \/ CompleteRequest
  \/ CompleteHead
  \/ PushEvent

CloseStep ==
  \/ OutputStatistics
  \/ Terminate
  \/ CleanUpControl
  \/ CleanUpStatistics
  \/ CleanUpOverlay
  \/ CleanUpClients
  \/ CleanUpManagers

PluginNext ==
  \/ \E t \in Recorders : BeginRecord(t) \/ FinishRecord(t)
  \/ \E t \in Printers : BeginPrint(t) \/ FinishPrint(t)
  \/ OverlayStep
  \/ Open
  \/ ControlThread
  \/ HttpThread
  \/ Close
  \/ CloseStep

PluginSpec == PluginInit /\ [][PluginNext]_allVars

\* The threads run on; VLC's overlay filter opens the pipes and answers.  A record
\* or a print that was begun is finished; nobody has to begin one.
PluginFairness ==
  /\ WF_allVars(OverlayStep)
  /\ WF_allVars(ControlThread)
  /\ WF_allVars(HttpThread)
  /\ WF_allVars(CloseStep)
  /\ \A t \in Recorders : WF_allVars(FinishRecord(t))
  /\ \A t \in Printers : WF_allVars(FinishPrint(t))

FairPluginSpec == PluginSpec /\ PluginFairness
-----------------------------------------------------------------------------
(* Properties *)

Faults == {"none", "sizesNotOpen", "fileExists", "rootDirectory", "fileClosed", "overlayGone",
           "statisticsInUse", "controlNotPlaying", "requestsDeleted", "mpdNotPlaying",
           "mutexDestroyed", "nullConnection", "destructor", "hostUnknown"}

PluginTypeOK ==
  /\ OverlayTypeOK /\ TracesTypeOK
  /\ main \in {"closed", "open", "output", "control", "join", "statistics", "files", "overlay",
               "overlayJoin", "clients", "managers"}
  /\ opens \in 0..MaxOpens /\ withOverlay \in BOOLEAN
  /\ state \in {"Playing", "Terminating", "Dead"}
  /\ control \in {"none", "starting", "run", "hung", "done"} /\ client \in {"none", "run"}
  /\ cb \in 0..MaxRequests /\ pending \in 0..MaxRequests /\ requested \in 0..MaxRequests
  /\ arrived \in Seq(1..MaxRequests)
  /\ reqs \in {"empty", "used", "null"} /\ httpVec \in BOOLEAN
  /\ mpd \in {"none", "loaded", "dangling"}
  /\ srcVec \in Seq({"server"}) /\ sockets \subseteq Conn
  /\ recordedAtClose \in SUBSET (1..MaxRequests)
  /\ fault \in Faults

\* While the player is open no print or callback fails, and no record but the first
\* of a segment's size, whose flag Open() never sets: every file is created once
\* although several threads record, and what a thread uses is there.  In Open() the
\* traces of the last session may still be open, and the server may have no address.
\* During Close() only the thread of the HTTP client, which is joined last, finds
\* gone what it uses; the trace of the requests fails after a reconnection; and the
\* player must not be closed before the control thread has started, nor with a
\* request on its way.
FaultsAreExplained ==
  CASE fault = "none" -> TRUE
    [] fault = "fileExists" -> FALSE
    [] fault = "sizesNotOpen" -> "sizes" \in Flags /\ recording["http"].file = <<"sizes">>
    [] fault = "nullConnection" ->
         main = "output" /\ \E c \in 1..(Connection - 1) : httpRequests[c] # <<>>
    [] fault = "hostUnknown" -> control = "starting" /\ srcVec = <<>>
    [] fault = "controlNotPlaying" -> state = "Terminating" /\ control = "starting"
    [] fault \in {"mpdNotPlaying", "requestsDeleted", "mutexDestroyed"} ->
         state # "Playing" /\ client = "run"
    [] fault \in {"fileClosed", "rootDirectory"} -> ~logDir /\ recording["http"] # NoRecord
    [] fault = "overlayGone" -> state = "Dead" /\ printing["http"] # Nothing
    [] fault = "destructor" -> main = "clients" /\ pending # 0
    [] fault = "statisticsInUse" -> opens > 0 /\ files # {}

\* The files that the thread of an HTTP client records.
ClientFiles == UNION {FilesOf(kind) : kind \in {"tcp", "sizes"}}

\* A reconnection or Close() closes each socket, and keeps those in use.  Close()
\* takes nothing away from a running thread but the HTTP client's: that
\* one has its connection until it is joined, and the threads of VLC and of Control
\* have ended before the mutexes, the traces, the overlay and the debug output go.
ComponentsOutliveTheirUsers ==
  /\ PluginTypeOK
  /\ client = "run" => connVec # <<>> /\ connVec[Connection] = "alive" /\ srcVec # <<>>
  /\ sockets = {c \in DOMAIN connVec : connVec[c] = "alive"}
  /\ main \in {"statistics", "files", "overlay", "overlayJoin", "clients", "managers"} =>
       /\ control = "none"
       /\ \A t \in Recorders : recording[t] # NoRecord => t = "http"
       /\ \A t \in Printers : printing[t] # Nothing => t = "http"
  /\ overlay = "freed" => ovThread = "none"
  /\ main = "closed" =>
       /\ control = "none" /\ client = "none" /\ cb = 0 /\ ovThread = "none" /\ overlay # "up"
       /\ connVec = <<>> /\ sockets = {} /\ srcVec = <<>> /\ arrived = <<>> /\ ~logDir
       /\ files \subseteq ClientFiles
       /\ httpRequests = [c \in Conn |-> <<>>]

\* Each request that Statistics knew when Close() was called is in the trace of
\* its connection, although the control thread adds requests meanwhile.
TracesAreComplete ==
  logDir /\ main \in {"control", "join", "statistics"} =>
    recordedAtClose \subseteq UNION {written[c] : c \in Conn}

\* What was printed last in a line is shown in the end, unless the plug-in is closed.
PrintsAreShown ==
  \A l \in Lines :
    overlay = "up" /\ ~Shows(l) ~> Shows(l) \/ terminating \/ ~Running

\* Close() returns, whatever the threads were doing: no join waits for ever, except
\* for a control thread that hangs because the plug-in was opened a second time.
CloseReturns ==
  main = "output" ~> main = "closed" \/ ~Running \/ (control = "hung" /\ opens > 1)
=============================================================================
