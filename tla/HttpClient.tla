----------------------------- MODULE HttpClient -----------------------------
(***************************************************************************)
(* One DashHttp object: the thread that owns a TCP connection, the two     *)
(* request queues it shares with the control thread, the keep-alive        *)
(* bookkeeping of TcpConnection and SourceData, and the HTTP server at the *)
(* other end.                                                              *)
(*                                                                         *)
(* Actors: the control thread (newRequest, clearUnfinishedRequests, the    *)
(* constructor and the destructor), the connection's own thread            *)
(* (threadMain) and the server, which is external: it answers the requests *)
(* it has read in order, serves at most ServerLimit of them on the         *)
(* connection, says "Connection: close" on the last, and may close or die  *)
(* in the middle of an answer at any time.                                 *)
(*                                                                         *)
(* A failed dp2p_assert and an uncaught exception end the process: `fault' *)
(* then names the place and no action is enabled any more.                 *)
(***************************************************************************)
EXTENDS Integers, Sequences, FiniteSets

CONSTANTS
  NumReqs,             \* bound: requests created in a behaviour
  Payload,             \* Payload[r]: body of r's answer, in units of bytes
  Heads,               \* the requests sent with HEAD, answered without a body
  Unpipelined,         \* the requests created with allowPipelining = false
  MaxPendingRequests,  \* TcpConnection::maxPendingRequests, 0: no limit
  ServerLimit,         \* requests the server serves per connection
  KnownLimit,          \* SourceData::keepAliveMax when the connection is made
  SuddenClose,         \* whether the server may close before its limit
  MaxOutstanding       \* bound: requests the control thread keeps outstanding

Req == 1..NumReqs

ASSUME HttpClientAssumption ==
  /\ NumReqs \in Nat \ {0}
  /\ Payload \in [Req -> Nat]
  /\ Heads \subseteq Req
  /\ Unpipelined \subseteq Req
  /\ MaxPendingRequests \in Nat
  /\ ServerLimit \in Nat \ {0}
  /\ KnownLimit \in {-1, ServerLimit}
  /\ SuddenClose \in BOOLEAN
  /\ MaxOutstanding \in Nat \ {0}

VARIABLES
  newReqs,             \* accepted by newRequest(), not yet seen by the thread
  fdNewReqs,           \* counter of the eventfd
  reqQueue,            \* the thread's queue, pending requests first
  sent,                \* requests with tsSent # -1
  hdr,                 \* hdr[r]: the header received for r, or NoHdr
  pldBytesReceived,    \* pldBytesReceived[r]
  state,               \* DashHttpState
  ifTerminating,       \* set by the destructor
  pc,                  \* where threadMain() is
  evNewRequests,       \* InternalEvent::newRequests of the current round
  recvBuf,             \* bytes read and not yet processed
  keepAliveMaxRemaining, aHdrReceived,       \* of TcpConnection
  keepAliveMax,        \* of SourceData
  tcp,                 \* state of the client's socket
  wire,                \* requests on their way to the server
  inbox,               \* bytes the client can read
  served,              \* requests the server has answered
  closing,             \* the server will not answer any more
  accepted,            \* history: accepted requests
  completed,           \* history: completions reported through the callback
  returned,            \* history: requests handed back
  disconnectReported,  \* the callback got a HttpEventDisconnect
  fault                \* the assertion or exception that ended the process

shared  == <<newReqs, fdNewReqs, reqQueue>>
request == <<sent, hdr, pldBytesReceived>>
limits  == <<keepAliveMaxRemaining, aHdrReceived, keepAliveMax>>
thread  == <<pc, evNewRequests, recvBuf>>
network == <<tcp, wire, inbox, served, closing>>
history == <<accepted, completed, returned>>
vars == <<shared, request, limits, thread, network, history,
          state, ifTerminating, disconnectReported, fault>>

DashHttpState == {"Undefined", "Constructed", "NotAcceptingRequests"}

\* What travels from the server: headers and units of body.
Unit == [kind : {"none", "hdr", "pld"}, req : 0..NumReqs, close : BOOLEAN,
         max : Int, length : Nat]
NoHdr == [kind |-> "none", req |-> 0, close |-> FALSE, max |-> 0, length |-> 0]
Body(r) == [kind |-> "pld", req |-> r, close |-> FALSE, max |-> 0, length |-> 0]

\* "Keep-Alive: max=n" counts the requests the server still accepts after
\* this one; an answer that closes the connection has no such line (-1).
Header(r, close, remaining) ==
  [kind |-> "hdr", req |-> r, close |-> close,
   max |-> IF close THEN -1 ELSE remaining, length |-> Payload[r]]

Faults == {"none", "reportDisconnect", "noRequest", "firstHeader",
           "keepAliveMismatch", "trailingBytes", "notConstructed", "eventfd",
           "clientLimit", "write", "clearUnfinished", "destructor"}

Running == fault = "none"

\* A failed assertion: nothing else happens.
Fail(where) ==
  /\ fault' = where
  /\ UNCHANGED <<shared, request, limits, thread, network, history,
                 state, ifTerminating, disconnectReported>>

-----------------------------------------------------------------------------
(* Operators on the queue *)

\* Positions of the requests at the front of q that have been sent.
SentPrefix(q, s) == {i \in 1..Len(q) : \A j \in 1..i : q[j] \in s}

NumPendingRequests(q, s) == Cardinality(SentPrefix(q, s))

\* HttpRequest::completed() for a request with header h and n units of body.
IsCompleted(r, h, n) == h.kind = "hdr" /\ (r \in Heads \/ n = h.length)

\* Mutants: without the server's limit, without the client's.
MayStartBeyondLimit(q, pending, j) == q[pending + j] \in Unpipelined => pending + j = 1
MayStartUnlimited(q, pending, j) == keepAliveMaxRemaining # 0

\* The requests checkStartNewRequests() finds it may send: the loop stops at
\* a request that must not be pipelined behind another, at the server's limit
\* and at the client's.
MayStart(q, pending, j) ==
  /\ q[pending + j] \in Unpipelined => pending + j = 1
  /\ (IF keepAliveMax = -1 THEN keepAliveMaxRemaining
                           ELSE keepAliveMaxRemaining - (j - 1)) # 0
  /\ MaxPendingRequests > 0 => pending + j <= MaxPendingRequests

\* Mutant: only the first request of a batch is sent.
NumToStartOne(q, pending) == IF Len(q) > pending THEN 1 ELSE 0

NumToStart(q, pending) ==
  Cardinality({n \in 1..(Len(q) - pending) :
                 \A j \in 1..n : MayStart(q, pending, j)})

\* parseData(): what one call makes of the buffer for request r.  A body unit
\* found where a header is expected is taken for a piece of the header.
ParseData(r, buf) ==
  LET expectHdr == hdr[r].kind = "none"
      h == IF ~expectHdr THEN hdr[r]
           ELSE IF buf[1].kind = "hdr" THEN buf[1] ELSE NoHdr
      hdrBytes == IF expectHdr THEN 1 ELSE 0
      left == Len(buf) - hdrBytes
      wanted == IF h.kind = "none" \/ r \in Heads THEN 0
                ELSE h.length - pldBytesReceived[r]
      pld == IF wanted <= left THEN wanted ELSE left
  IN  [hdr |-> h, pld |-> pldBytesReceived[r] + pld, parsed |-> hdrBytes + pld]

\* Mutant: unmarks the requests that may stay.
RequeueFirst(numAllowed) ==
  sent \ {reqQueue[i] : i \in {j \in DOMAIN reqQueue : j <= numAllowed}}

\* The requests that stay marked as sent when only the first numAllowed of
\* the pending ones may.
RequeuePendingRequests(numAllowed) ==
  sent \ {reqQueue[i] :
            i \in (numAllowed + 1)..NumPendingRequests(reqQueue, sent)}

\* Mutant: forgets that the request being answered is one of the pending ones.
RemainingOffByOne(max) ==
  LET rest == max - NumPendingRequests(reqQueue, sent)
  IN  IF rest < 0 THEN 0 ELSE rest

\* keepAliveMaxRemaining after the first header of the connection.
RemainingAfterFirst(max) ==
  LET rest == max + 1 - NumPendingRequests(reqQueue, sent)
  IN  IF rest < 0 THEN 0 ELSE rest

\* Mutant: splices the new requests in front.
PendingNewFirst == newReqs \o reqQueue

\* The queue after the splice of the new requests.
Pending == reqQueue \o newReqs

\* Mutant: without the splice.
UnfinishedOnlySeen == reqQueue

\* What clearUnfinishedRequests() returns.
Unfinished == Pending

\* Mutant: an eventfd opened with EFD_SEMAPHORE.
DrainedOne == IF newReqs = <<>> THEN fdNewReqs ELSE fdNewReqs - 1

\* The eventfd after the thread or the control thread has taken the new
\* requests: a read, made only if there are some, resets the counter.
DrainedEventfd == IF newReqs = <<>> THEN fdNewReqs ELSE 0
-----------------------------------------------------------------------------
(* The control thread *)

\* The constructor starts the thread first and sets the state afterwards.
Construct ==
  /\ Running /\ state = "Undefined"
  /\ state' = "Constructed"
  /\ UNCHANGED <<shared, request, limits, thread, network, history,
                 ifTerminating, disconnectReported, fault>>

\* newRequest() with k requests, accepted; a call that returns false changes
\* nothing.
NewRequest(k) ==
  /\ Running
  /\ state = "Constructed" /\ ~ifTerminating
  /\ k >= 1 /\ Len(accepted) + k <= NumReqs
  /\ Len(Pending) + k <= MaxOutstanding
  /\ LET batch == [i \in 1..k |-> Len(accepted) + i]
     IN  /\ newReqs' = newReqs \o batch
         /\ accepted' = accepted \o batch
  /\ fdNewReqs' = fdNewReqs + k
  /\ UNCHANGED <<reqQueue, request, limits, thread, network, completed, returned,
                 state, ifTerminating, disconnectReported, fault>>

\* The control logic takes the unfinished requests back when it handles the
\* disconnect, or when it sees, after the last answer, that the server accepts
\* no more requests.
MayClear ==
  \/ disconnectReported
  \/ keepAliveMaxRemaining = 0 /\ Pending = <<>> /\ completed # <<>>

ClearUnfinishedRequests ==
  /\ Running /\ ~ifTerminating /\ MayClear
  /\ \/ state # "NotAcceptingRequests" /\ Fail("clearUnfinished")
     \/ newReqs # <<>> /\ fdNewReqs # Len(newReqs) /\ Fail("eventfd")
     \/ /\ state = "NotAcceptingRequests"
        /\ newReqs # <<>> => fdNewReqs = Len(newReqs)
        /\ returned' = returned \o Unfinished
        /\ newReqs' = <<>>
        /\ reqQueue' = <<>>
        /\ fdNewReqs' = DrainedEventfd
        /\ UNCHANGED <<request, limits, thread, network, accepted, completed,
                       state, ifTerminating, disconnectReported, fault>>

\* ~DashHttp, up to the join: at any time, for the player may be closed in the
\* middle of a download.
Terminate ==
  /\ Running /\ state # "Undefined" /\ ~ifTerminating
  /\ ifTerminating' = TRUE
  /\ UNCHANGED <<shared, request, limits, thread, network, history, state,
                 disconnectReported, fault>>

\* ~DashHttp after the join: both queues must be empty.
Destroy ==
  /\ Running /\ ifTerminating /\ pc = "done"
  /\ IF Pending # <<>> THEN Fail("destructor")
     ELSE /\ pc' = "destroyed"
          /\ tcp' = "closed"
          /\ UNCHANGED <<shared, request, limits, evNewRequests, recvBuf, wire,
                         inbox, served, closing, history, state, ifTerminating,
                         disconnectReported, fault>>

-----------------------------------------------------------------------------
(* The connection's thread *)

Connect ==
  /\ Running /\ pc = "connect" /\ ~ifTerminating
  /\ tcp' = "established"
  /\ keepAliveMaxRemaining' = keepAliveMax
  /\ pc' = "select"
  /\ UNCHANGED <<shared, request, aHdrReceived, keepAliveMax, evNewRequests,
                 recvBuf, wire, inbox, served, closing, history, state,
                 ifTerminating, disconnectReported, fault>>

\* connect() failed for connectTimeout.
ConnectTimeout ==
  /\ Running /\ pc = "connect" /\ ~ifTerminating
  /\ pc' = "disconnect"
  /\ UNCHANGED <<shared, request, limits, evNewRequests, recvBuf, network, history,
                 state, ifTerminating, disconnectReported, fault>>

\* Both loops of threadMain() end when the destructor has set its flag.
LeaveLoop ==
  /\ Running /\ pc \in {"connect", "select"} /\ ifTerminating
  /\ pc' = "done"
  /\ UNCHANGED <<shared, request, limits, evNewRequests, recvBuf, network, history,
                 state, ifTerminating, disconnectReported, fault>>

\* What makes the socket readable: data or the end of the stream.
Readable == inbox # <<>> \/ tcp = "closeWait"

\* What select() saw holds for the whole round.
WaitForEvents ==
  /\ Running /\ pc = "select" /\ ~ifTerminating
  /\ Readable \/ fdNewReqs > 0
  /\ evNewRequests' = (fdNewReqs > 0)
  /\ pc' = IF Readable THEN "read" ELSE "start"
  /\ UNCHANGED <<shared, request, limits, recvBuf, network, history,
                 state, ifTerminating, disconnectReported, fault>>

\* recv() returns some of what has arrived, or nothing at the end of stream.
Read ==
  /\ Running /\ pc = "read"
  /\ \/ \E n \in 1..Len(inbox) :
          /\ recvBuf' = SubSeq(inbox, 1, n)
          /\ inbox' = SubSeq(inbox, n + 1, Len(inbox))
          /\ pc' = "process"
     \/ /\ inbox = <<>>
        /\ pc' = "disconnect"
        /\ UNCHANGED <<recvBuf, inbox>>
  /\ UNCHANGED <<shared, request, limits, evNewRequests, tcp, wire, served, closing,
                 history, state, ifTerminating, disconnectReported, fault>>

\* reportDisconnect(), and the end of threadMain().
ReportDisconnect ==
  /\ Running /\ pc = "disconnect"
  /\ IF state = "Undefined" THEN Fail("reportDisconnect")
     ELSE /\ state' = "NotAcceptingRequests"
          /\ disconnectReported' = TRUE
          /\ pc' = "done"
          /\ UNCHANGED <<shared, request, limits, evNewRequests, recvBuf, network,
                         history, ifTerminating, fault>>

\* One turn of the loop of processNewData(), for the request at the front.
ProcessNewData ==
  /\ Running /\ pc = "process"
  /\ IF reqQueue = <<>> THEN Fail("noRequest") ELSE
     LET r == Head(reqQueue)
         d == ParseData(r, recvBuf)
         first == d.hdr.kind = "hdr" /\ ~aHdrReceived
         remaining == IF first THEN RemainingAfterFirst(d.hdr.max)
                      ELSE keepAliveMaxRemaining
         rest == SubSeq(recvBuf, d.parsed + 1, Len(recvBuf))
         done == IsCompleted(r, d.hdr, d.pld)
         last == remaining = 0 \/ d.hdr.close
     IN  IF first /\ d.hdr.max <= 0 THEN Fail("firstHeader")
         ELSE IF done /\ last /\ ~(remaining = 0 /\ d.hdr.close)
              THEN Fail("keepAliveMismatch")
         ELSE IF done /\ last /\ rest # <<>> THEN Fail("trailingBytes")
         ELSE IF done /\ last /\ state # "Constructed" THEN Fail("notConstructed")
         ELSE
           /\ hdr' = [hdr EXCEPT ![r] = d.hdr]
           /\ pldBytesReceived' = [pldBytesReceived EXCEPT ![r] = d.pld]
           /\ sent' = IF first THEN RequeuePendingRequests(remaining + 1) ELSE sent
           /\ aHdrReceived' = (aHdrReceived \/ first)
           /\ keepAliveMax' = IF first THEN d.hdr.max + 1 ELSE keepAliveMax
           /\ keepAliveMaxRemaining' = remaining
           /\ recvBuf' = rest
           /\ pc' = IF rest # <<>> THEN "process"
                    ELSE IF evNewRequests THEN "start" ELSE "select"
           /\ reqQueue' = IF done THEN Tail(reqQueue) ELSE reqQueue
           /\ completed' = IF done THEN Append(completed, r) ELSE completed
           /\ state' = IF done /\ last THEN "NotAcceptingRequests" ELSE state
           /\ UNCHANGED <<newReqs, fdNewReqs, evNewRequests, network, accepted,
                          returned, ifTerminating, disconnectReported, fault>>

\* TcpConnection::write() asks for the state of the connection and throws if the
\* other side has closed it; else it sends until everything is on the way.
WriteFails == tcp # "established"

\* checkStartNewRequests() and the write of sendHttpRequest().
CheckStartNewRequests ==
  /\ Running /\ pc = "start"
  /\ LET n == NumPendingRequests(Pending, sent)
         m == NumToStart(Pending, n)
         batch == SubSeq(Pending, n + 1, n + m)
     IN  \/ newReqs # <<>> /\ fdNewReqs # Len(newReqs) /\ Fail("eventfd")
         \/ /\ n < Len(Pending) /\ MaxPendingRequests > 0 /\ n > MaxPendingRequests
            /\ Fail("clientLimit")
         \/ m > 0 /\ WriteFails /\ Fail("write")
         \/ /\ newReqs # <<>> => fdNewReqs = Len(newReqs)
            /\ n < Len(Pending) /\ MaxPendingRequests > 0 => n <= MaxPendingRequests
            /\ m > 0 => ~WriteFails
            /\ newReqs' = <<>>
            /\ reqQueue' = Pending
            /\ fdNewReqs' = DrainedEventfd
            /\ sent' = sent \cup {batch[i] : i \in 1..m}
            /\ keepAliveMaxRemaining' = IF keepAliveMax = -1 THEN keepAliveMaxRemaining
                                        ELSE keepAliveMaxRemaining - m
            /\ wire' = wire \o batch
            /\ pc' = "select"
            /\ UNCHANGED <<hdr, pldBytesReceived, aHdrReceived, keepAliveMax,
                           evNewRequests, recvBuf, tcp, inbox, served, closing, history,
                           state, ifTerminating, disconnectReported, fault>>

-----------------------------------------------------------------------------
(* The server *)

BodyOf(r) == IF r \in Heads THEN 0 ELSE Payload[r]

\* The server answers the next request, with its last answer closes, and may
\* die after any part of the body.
Answer(close, units) ==
  /\ Running /\ tcp = "established" /\ ~closing /\ wire # <<>>
  /\ close <=> (served + 1 = ServerLimit \/ (SuddenClose /\ close))
  /\ inbox' = inbox \o <<Header(Head(wire), close, ServerLimit - served - 1)>>
                    \o [i \in 1..units |-> Body(Head(wire))]
  /\ wire' = Tail(wire)
  /\ served' = served + 1
  /\ closing' = (close \/ units < BodyOf(Head(wire)))
  /\ UNCHANGED <<shared, request, limits, thread, tcp, history, state,
                 ifTerminating, disconnectReported, fault>>

\* The end of the stream reaches the client: after the last answer, or when
\* the server gives up an idle or a broken connection.
FinArrives ==
  /\ Running /\ tcp = "established"
  /\ tcp' = "closeWait"
  /\ closing' = TRUE
  /\ wire' = <<>>
  /\ UNCHANGED <<shared, request, limits, thread, inbox, served, history, state,
                 ifTerminating, disconnectReported, fault>>

-----------------------------------------------------------------------------
Init ==
  /\ newReqs = <<>> /\ fdNewReqs = 0 /\ reqQueue = <<>>
  /\ sent = {}
  /\ hdr = [r \in Req |-> NoHdr]
  /\ pldBytesReceived = [r \in Req |-> 0]
  /\ state = "Undefined" /\ ifTerminating = FALSE
  /\ pc = "connect" /\ evNewRequests = FALSE /\ recvBuf = <<>>
  /\ keepAliveMaxRemaining = -1 /\ aHdrReceived = FALSE
  /\ keepAliveMax = KnownLimit
  /\ tcp = "closed" /\ wire = <<>> /\ inbox = <<>> /\ served = 0 /\ closing = FALSE
  /\ accepted = <<>> /\ completed = <<>> /\ returned = <<>>
  /\ disconnectReported = FALSE
  /\ fault = "none"

ControlThread ==
  \/ Construct
  \/ \E k \in 1..MaxOutstanding : NewRequest(k)
  \/ ClearUnfinishedRequests
  \/ Terminate
  \/ Destroy

HttpThread ==
  \/ Connect
  \/ ConnectTimeout
  \/ LeaveLoop
  \/ WaitForEvents
  \/ Read
  \/ ReportDisconnect
  \/ ProcessNewData
  \/ CheckStartNewRequests

Server ==
  \/ wire # <<>> /\ \E close \in BOOLEAN, units \in 0..BodyOf(Head(wire)) :
                      Answer(close, units)
  \/ FinArrives

Next == ControlThread \/ HttpThread \/ Server

Spec == Init /\ [][Next]_vars

\* The thread and the constructor run on, a server that lives answers what it
\* has read, completely, and one that has said it closes does close.  Nobody has to
\* send a request, and nobody has to close an idle connection.
FullAnswer ==
  wire # <<>> /\ Answer(served + 1 = ServerLimit, BodyOf(Head(wire)))

Fairness ==
  /\ WF_vars(Construct)
  /\ WF_vars(HttpThread)
  /\ WF_vars(FullAnswer)
  /\ WF_vars(closing /\ FinArrives)

FairSpec == Spec /\ Fairness

-----------------------------------------------------------------------------
(* Properties *)

TypeOK ==
  /\ newReqs \in Seq(Req) /\ reqQueue \in Seq(Req)
  /\ fdNewReqs \in Nat
  /\ sent \in SUBSET Req
  /\ hdr \in [Req -> Unit]
  /\ pldBytesReceived \in [Req -> Nat]
  /\ state \in DashHttpState
  /\ ifTerminating \in BOOLEAN /\ evNewRequests \in BOOLEAN
  /\ pc \in {"connect", "select", "read", "process", "start", "disconnect",
             "done", "destroyed"}
  /\ recvBuf \in Seq(Unit) /\ inbox \in Seq(Unit)
  /\ keepAliveMaxRemaining \in Nat \cup {-1} /\ keepAliveMax \in Int
  /\ aHdrReceived \in BOOLEAN
  /\ tcp \in {"closed", "established", "closeWait"}
  /\ wire \in Seq(Req)
  /\ served \in Nat
  /\ closing \in BOOLEAN
  /\ accepted \in Seq(Req) /\ completed \in Seq(Req) /\ returned \in Seq(Req)
  /\ disconnectReported \in BOOLEAN
  /\ fault \in Faults

\* The eventfd counts the requests the thread has not seen: the thread is woken
\* for every accepted request, and the two reads of the eventfd, in
\* checkStartNewRequests and clearUnfinishedRequests, never block and find the
\* number they assert.
EventfdCountsNewReqs == fdNewReqs = Len(newReqs)

\* Every accepted request is, in the order of acceptance, reported as completed,
\* or handed back by clearUnfinishedRequests, or still queued: none is lost or
\* reported twice by the splices of the two queues.
EveryRequestAccountedFor == accepted = completed \o (returned \o Pending)

\* What getNumPendingRequests, requeuePendingRequests and checkStartNewRequests
\* rely on when they count to the first request that is not sent: no sent request
\* stands behind one that is not.
SentRequestsComeFirst ==
  \A i, j \in 1..Len(Pending) : i < j /\ Pending[j] \in sent => Pending[i] \in sent

\* A completed request was completed by the server's answer to that request.
AnswersOwnRequest == \A i \in DOMAIN completed : hdr[completed[i]].req = completed[i]

\* The request that completes when the server accepts no more requests is the
\* one the server answers last (assertion where a request completes).
LastAnswerCloses == fault \notin {"keepAliveMismatch", "trailingBytes", "notConstructed"}

\* Requests the server has not answered, or whose answer is on its way.
Outstanding ==
  {wire[i] : i \in DOMAIN wire} \cup {inbox[i].req : i \in DOMAIN inbox}
    \cup {recvBuf[i].req : i \in DOMAIN recvBuf}

\* Where the assertion on the last answer fails: 0 remaining requests and Connection:
\* close disagree at the end of a request only if a further one is outstanding, be it
\* marked as sent or unmarked by requeuePendingRequests, or if the server closes before
\* the limit it has announced.
MismatchNeedsPipelining ==
  fault = "keepAliveMismatch" =>
    \/ Outstanding \ {Head(reqQueue)} # {}
    \/ closing /\ served < ServerLimit

\* Once the server's limit is known, no request is sent that it would not serve.
ServerLimitRespected ==
  keepAliveMax # -1 /\ tcp = "established" /\ ~closing =>
    keepAliveMaxRemaining + served + Len(wire) = keepAliveMax

\* A request that must not be pipelined is not sent behind another one, and no more
\* are pending than the client allows.
ClientLimitsRespected ==
  LET pending == NumPendingRequests(Pending, sent)
  IN  /\ \A j \in 2..pending : Pending[j] \notin Unpipelined
      /\ MaxPendingRequests > 0 => pending <= MaxPendingRequests

\* checkStartNewRequests() keeps all limits at once.
LimitsRespected == ServerLimitRespected /\ ClientLimitsRespected

\* Every accepted request is completed, or the control thread learns of the
\* disconnect (unless the player is closed, or a write to a connection that has
\* just been closed ends the process).
RequestsAreSettled ==
  \A i \in 1..NumReqs :
     Len(accepted) >= i ~>
       Len(completed) >= i \/ disconnectReported \/ ifTerminating \/ ~Running

\* The two queues implement the promise made to the control thread.
Fifo == INSTANCE RequestFifo WITH pending <- Pending,
                                  accepting <- (state # "NotAcceptingRequests")
ImplementsFifo == Fifo!Spec
=============================================================================
