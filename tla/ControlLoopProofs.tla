-------------------------- MODULE ControlLoopProofs --------------------------
(***************************************************************************)
(* Proof that the player gets its segments in order, for every length of   *)
(* the stream, every keep-alive limit, every choice of Bdelay and any      *)
(* number of lost connections, when the sizes are not asked for (option    *)
(* fetchHeads); and that, when they are, all sizes are known before the    *)
(* first segment arrives, or, after the loss of a connection, no segment   *)
(* without a size is forgotten.                                            *)
(***************************************************************************)
EXTENDS ControlLoop, FiniteSetTheorems, SequenceTheorems, TLAPS

-----------------------------------------------------------------------------
(* Lemmas about sequences and buffer levels *)

LEMMA TailFacts ==
  ASSUME NEW S, NEW s \in Seq(S), s # <<>>
  PROVE  /\ Head(s) \in S /\ Head(s) = s[1] /\ 1 \in DOMAIN s
         /\ Tail(s) \in Seq(S) /\ Len(Tail(s)) = Len(s) - 1
         /\ \A i \in DOMAIN Tail(s) : i + 1 \in DOMAIN s /\ Tail(s)[i] = s[i + 1]
<1>1. /\ Head(s) \in S /\ Tail(s) \in Seq(S) /\ Len(Tail(s)) = Len(s) - 1
      /\ \A i \in 1..Len(Tail(s)) : Tail(s)[i] = s[i + 1]
  BY HeadTailProperties
<1>2. Len(s) \in Nat \ {0} /\ DOMAIN s = 1..Len(s)
  BY EmptySeq, LenProperties
<1>3. DOMAIN Tail(s) = 1..Len(Tail(s))
  BY <1>1, LenProperties
<1> QED
  BY <1>1, <1>2, <1>3

\* Every element of a concatenation is one of the parts.
LEMMA ConcatFacts ==
  ASSUME NEW S, NEW a \in Seq(S), NEW b \in Seq(S)
  PROVE  /\ a \o b \in Seq(S)
         /\ \A i \in DOMAIN (a \o b) :
              \/ \E j \in DOMAIN a : (a \o b)[i] = a[j]
              \/ \E j \in DOMAIN b : (a \o b)[i] = b[j]
<1>1. /\ a \o b \in Seq(S) /\ Len(a \o b) = Len(a) + Len(b)
      /\ \A i \in 1..Len(a) + Len(b) :
           (a \o b)[i] = IF i <= Len(a) THEN a[i] ELSE b[i - Len(a)]
  BY ConcatProperties
<1>2. /\ Len(a) \in Nat /\ DOMAIN a = 1..Len(a)
      /\ Len(b) \in Nat /\ DOMAIN b = 1..Len(b)
      /\ DOMAIN (a \o b) = 1..Len(a \o b)
  BY <1>1, LenProperties
<1>3. ASSUME NEW i \in DOMAIN (a \o b)
      PROVE  \/ \E j \in DOMAIN a : (a \o b)[i] = a[j]
             \/ \E j \in DOMAIN b : (a \o b)[i] = b[j]
  <2>1. CASE i <= Len(a)
    BY <1>1, <1>2, <2>1
  <2>2. CASE i > Len(a)
    <3>1. i - Len(a) \in DOMAIN b /\ (a \o b)[i] = b[i - Len(a)]
      BY <1>1, <1>2, <2>2
    <3> QED
      BY <3>1
  <2> QED
    BY <1>2, <2>1, <2>2
<1> QED
  BY <1>1, <1>3

LEMMA SingletonFacts ==
  ASSUME NEW S, NEW x \in S
  PROVE  <<x>> \in Seq(S) /\ Len(<<x>>) = 1 /\ <<x>> # <<>> /\ <<x>>[1] = x
         /\ DOMAIN <<x>> = 1..1
OBVIOUS

\* A buffer level is a number of segments.
LEMMA BetaType ==
  ASSUME NEW p, NEW arrived, NEW end \in Content
  PROVE  Beta(p, arrived, end) \in 0..LastSeg
<1> DEFINE K == {k \in 1..end : k > p /\ (p + 1)..k \subseteq arrived}
<1>1. LastSeg \in Nat /\ end \in Int /\ end <= LastSeg
  BY ControlLoopAssumption DEF Content, Seg, Mpd
<1>2. IsFiniteSet(1..end) /\ Cardinality(1..end) <= LastSeg
  BY <1>1, FS_Interval
<1>3. Cardinality(1..end) \in Nat
  BY <1>2, FS_CardinalityType
<1>4. IsFiniteSet(K) /\ Cardinality(K) <= Cardinality(1..end)
  BY <1>2, FS_Subset
<1>5. Cardinality(K) \in Nat
  BY <1>4, FS_CardinalityType
<1> HIDE DEF K
<1>6. Cardinality(K) \in 0..LastSeg
  BY <1>1, <1>2, <1>3, <1>4, <1>5
<1> QED
  BY <1>6 DEF K, Beta
-----------------------------------------------------------------------------
(* Type correctness *)

LEMMA ContentFacts ==
  /\ Mpd \in Content /\ Seg \subseteq Content /\ Mpd \notin Seg
  /\ 0 \in Seg /\ 1 \in Seg /\ LastSeg \in Nat /\ LastSeg >= 2
  /\ NoRequest \in HttpRequest
  /\ \A c \in Content : GetRequest(c) \in HttpRequest
  /\ \A c \in Seg : HeadRequest(c) \in HttpRequest
  /\ \A r \in HttpRequest : r.content \in Content /\ (r.method = "HEAD" => r.content \in Seg)
  /\ \A c \in Content : c # Mpd => c \in Seg
  /\ Bdelays \subseteq 1..NoDelay /\ NoDelay \in 1..NoDelay
BY ControlLoopAssumption
   DEF Content, Seg, Mpd, HttpRequest, GetRequest, HeadRequest, NoRequest, NoDelay

LEMMA FailType ==
  ASSUME TypeOK, NEW where \in Faults, Fail(where)
  PROVE  TypeOK'
BY DEF Fail, TypeOK, control, logicVars, client, storage, reader

\* What the client's thread has under way.
LEMMA InFlightType ==
  ASSUME TypeOK
  PROVE  /\ InFlight \in Seq(ControlLogicEvent)
         /\ \A i \in DOMAIN InFlight :
              \/ thread = "pushing" /\ InFlight[i] = DataReceived(cbReq.content, cbBeta)
              \/ thread = "disconnect" /\ InFlight[i] = Disconnect
<1>1. DataReceived(cbReq.content, cbBeta) \in ControlLogicEvent
  BY ContentFacts DEF TypeOK, DataReceived, ControlLogicEvent
<1>2. Disconnect \in ControlLogicEvent
  BY ContentFacts DEF TypeOK, Disconnect, ControlLogicEvent
<1>3. CASE thread = "pushing"
  BY <1>1, <1>3 DEF InFlight
<1>4. CASE thread = "disconnect"
  BY <1>2, <1>4 DEF InFlight
<1>5. CASE thread \notin {"pushing", "disconnect"}
  BY <1>5 DEF InFlight
<1> QED
  BY <1>3, <1>4, <1>5

\* How an operation may change the queue of events.
ConsumesEvent == events # <<>> /\ events' \in {Tail(events), Tail(events) \o InFlight}

ChangesEvents ==
  \/ ConsumesEvent
  \/ events' \in {events, events \o InFlight, <<>>}
  \/ vlc = "pushing" /\ events' = Append(events, DataPlayed(vlcBeta))

\* An event that is in the queue was there before, behind the one that was consumed,
\* or is the one a thread had under way.
LEMMA EventsOrigin ==
  ASSUME TypeOK, ChangesEvents
  PROVE  /\ events' \in Seq(ControlLogicEvent)
         /\ \A i \in DOMAIN events' :
              \/ \E j \in DOMAIN events :
                   events'[i] = events[j] /\ (ConsumesEvent => j > 1)
              \/ thread = "pushing" /\ events'[i] = DataReceived(cbReq.content, cbBeta)
              \/ thread = "disconnect" /\ events'[i] = Disconnect
              \/ vlc = "pushing" /\ events'[i] = DataPlayed(vlcBeta)
<1>1. events \in Seq(ControlLogicEvent) /\ DOMAIN events = 1..Len(events) /\ Len(events) \in Nat
  BY LenProperties DEF TypeOK
<1>2. /\ InFlight \in Seq(ControlLogicEvent)
      /\ \A i \in DOMAIN InFlight :
           \/ thread = "pushing" /\ InFlight[i] = DataReceived(cbReq.content, cbBeta)
           \/ thread = "disconnect" /\ InFlight[i] = Disconnect
  BY InFlightType
<1>3. CASE ConsumesEvent
  <2> DEFINE rest == Tail(events)
             more == InFlight
  <2>1. /\ rest \in Seq(ControlLogicEvent)
        /\ \A i \in DOMAIN rest : i + 1 \in DOMAIN events /\ rest[i] = events[i + 1]
        /\ DOMAIN rest = 1..Len(rest) /\ Len(rest) \in Nat
    BY <1>1, <1>3, TailFacts, LenProperties DEF ConsumesEvent
  <2>2. \A i \in DOMAIN rest : \E j \in DOMAIN events : rest[i] = events[j] /\ j > 1
    <3> SUFFICES ASSUME NEW i \in DOMAIN rest
                 PROVE  \E j \in DOMAIN events : rest[i] = events[j] /\ j > 1
      OBVIOUS
    <3>1. i + 1 \in DOMAIN events /\ rest[i] = events[i + 1] /\ i + 1 > 1
      BY <2>1
    <3> QED
      BY <3>1
  <2>3. events' \in {rest, rest \o more}
    BY <1>3 DEF ConsumesEvent
  <2>4. /\ more \in Seq(ControlLogicEvent)
        /\ \A i \in DOMAIN more :
             \/ thread = "pushing" /\ more[i] = DataReceived(cbReq.content, cbBeta)
             \/ thread = "disconnect" /\ more[i] = Disconnect
    BY <1>2
  <2> HIDE DEF rest, more
  <2>5. /\ rest \o more \in Seq(ControlLogicEvent)
        /\ \A i \in DOMAIN (rest \o more) :
             \/ \E j \in DOMAIN rest : (rest \o more)[i] = rest[j]
             \/ \E j \in DOMAIN more : (rest \o more)[i] = more[j]
    BY <2>1, <2>4, ConcatFacts
  <2>6. CASE events' = rest
    BY <2>1, <2>2, <2>6
  <2>7. CASE events' = rest \o more
    BY <2>2, <2>4, <2>5, <2>7
  <2> QED
    BY <2>3, <2>6, <2>7
<1>4. CASE ~ConsumesEvent /\ events' = events
  BY <1>1, <1>4
<1>5. CASE ~ConsumesEvent /\ events' = <<>>
  BY <1>5
<1>6. CASE ~ConsumesEvent /\ events' = events \o InFlight
  <2>1. /\ events \o InFlight \in Seq(ControlLogicEvent)
        /\ \A i \in DOMAIN (events \o InFlight) :
             \/ \E j \in DOMAIN events : (events \o InFlight)[i] = events[j]
             \/ \E j \in DOMAIN InFlight : (events \o InFlight)[i] = InFlight[j]
    BY <1>1, <1>2, ConcatFacts
  <2> QED
    BY <1>2, <1>6, <2>1
<1>7. CASE ~ConsumesEvent /\ vlc = "pushing" /\ events' = Append(events, DataPlayed(vlcBeta))
  <2>1. DataPlayed(vlcBeta) \in ControlLogicEvent
    BY ContentFacts DEF TypeOK, DataPlayed, ControlLogicEvent
  <2>2. /\ events' \in Seq(ControlLogicEvent)
        /\ DOMAIN events' = 1..(Len(events) + 1)
        /\ \A i \in 1..Len(events) : events'[i] = events[i]
        /\ events'[Len(events) + 1] = DataPlayed(vlcBeta)
    BY <1>1, <1>7, <2>1, AppendProperties, LenProperties
  <2> QED
    BY <1>1, <1>7, <2>2
<1> QED
  BY <1>3, <1>4, <1>5, <1>6, <1>7 DEF ChangesEvents

\* An event of received data that is in the queue was there before, or is the one
\* the client's thread had under way.
LEMMA EventsStep ==
  ASSUME TypeOK, ChangesEvents
  PROVE  /\ events' \in Seq(ControlLogicEvent)
         /\ \A i \in DOMAIN events' :
              events'[i].type = "dataReceived" =>
                \/ \E j \in DOMAIN events : events'[i] = events[j]
                \/ thread = "pushing" /\ events'[i].content = cbReq.content
<1>1. /\ DataReceived(cbReq.content, cbBeta).content = cbReq.content
      /\ Disconnect.type = "disconnect" /\ DataPlayed(vlcBeta).type = "dataPlayed"
  BY DEF DataReceived, Disconnect, DataPlayed
<1> QED
  BY <1>1, EventsOrigin

LEMMA ActionType ==
  ASSUME NEW conn \in Nat, NEW reqs \in Seq(HttpRequest)
  PROVE  /\ StartDownload(conn, reqs) \in ControlLogicAction
         /\ <<StartDownload(conn, reqs)>> \in Seq(ControlLogicAction)
         /\ StartDownload(conn, reqs).reqs = reqs
BY DEF StartDownload, ControlLogicAction

LEMMA IssueType ==
  ASSUME TypeOK, NEW pending \in SUBSET Content, NEW acts \in Seq(ControlLogicAction),
         Issue(pending, acts)
  PROVE  actions' \in Seq(ControlLogicAction) /\ pendingActions' \in SUBSET Content
<1>1. actions' \in Seq(ControlLogicAction)
  BY ConcatFacts DEF Issue, TypeOK
<1>2. ASSUME NEW i \in DOMAIN acts PROVE Contents(acts[i].reqs) \subseteq Content
  <2>1. acts[i] \in ControlLogicAction
    BY LenProperties, ElementOfSeq
  <2>2. acts[i].reqs \in Seq(HttpRequest)
    BY <2>1 DEF ControlLogicAction
  <2>3. \A j \in DOMAIN acts[i].reqs : acts[i].reqs[j] \in HttpRequest
    BY <2>2, LenProperties, ElementOfSeq
  <2> QED
    BY <2>3, ContentFacts DEF Contents
<1>3. pendingActions' = pending \cup UNION {Contents(acts[i].reqs) : i \in DOMAIN acts}
  BY DEF Issue
<1> QED
  BY <1>1, <1>2, <1>3

LEMMA FollowMpdType ==
  ASSUME TypeOK
  PROVE  FollowMpd \in Seq(ControlLogicAction)
<1>1. tcpConnectionId \in Nat
  BY DEF TypeOK
<1>2. FetchFirst \in Seq(ControlLogicAction)
  <2>1. <<GetRequest(0), GetRequest(1)>> \in Seq(HttpRequest)
    BY ContentFacts
  <2> QED
    BY <1>1, <2>1, ActionType DEF FetchFirst
<1>3. FetchSizes \in Seq(ControlLogicAction)
  <2> DEFINE heads == [i \in 1..(LastSeg + 1) |-> HeadRequest(i - 1)]
  <2>1. \A i \in 1..(LastSeg + 1) : HeadRequest(i - 1) \in HttpRequest
    BY ContentFacts DEF Seg
  <2>2. heads \in [1..(LastSeg + 1) -> HttpRequest] /\ LastSeg + 1 \in Nat
    BY <2>1, ContentFacts
  <2>3. heads \in Seq(HttpRequest)
    BY <2>2, SeqDef
  <2> HIDE DEF heads
  <2>4. <<StartDownload(tcpConnectionId, heads)>> \in Seq(ControlLogicAction)
    BY <1>1, <2>3, ActionType
  <2> QED
    BY <2>4 DEF FetchSizes, heads
<1> QED
  BY <1>2, <1>3, ConcatFacts DEF FollowMpd

\* A fresh client.
LEMMA CreateClientType ==
  ASSUME TypeOK, CreateClient
  PROVE  /\ tcpConnectionId' \in Nat /\ queue' \in Seq(HttpRequest) /\ served' \in 0..Limit
         /\ accepting' \in BOOLEAN /\ thread' = "run"
         /\ cbReq' \in HttpRequest /\ cbBeta' \in 0..LastSeg
BY ContentFacts, ControlLoopAssumption DEF TypeOK, CreateClient

LEMMA ProcessMpdType ==
  ASSUME TypeOK, events # <<>>, ProcessMpd
  PROVE  TypeOK'
<1>1. events' \in Seq(ControlLogicEvent)
  BY EventsStep DEF ConsumesEvent, ChangesEvents, ProcessMpd
<1>2. actions' \in Seq(ControlLogicAction) /\ pendingActions' \in SUBSET Content
  BY FollowMpdType, IssueType DEF ProcessMpd, AckActionRequestCompleted, TypeOK
<1>3. contour' \in Content
  BY ContentFacts DEF ProcessMpd
<1> QED
  BY <1>1, <1>2, <1>3 DEF ProcessMpd, TypeOK, control, client, storage, reader

LEMMA ProcessSegmentType ==
  ASSUME TypeOK, events # <<>>, NEW k \in Seg, NEW beta, ProcessSegment(k, beta)
  PROVE  TypeOK'
<1>1. CASE SegmentFault(k) # "none"
  <2>1. SegmentFault(k) \in Faults
    BY DEF SegmentFault, Faults
  <2> QED
    BY <1>1, <2>1, FailType DEF ProcessSegment
<1>2. AckActionRequestCompleted(k) \in SUBSET Content
  BY DEF AckActionRequestCompleted, TypeOK
<1>3. CASE SegmentFault(k) = "none" /\ NothingFollows(k)
  <2>1. /\ Issue(AckActionRequestCompleted(k), <<>>) /\ events' = Tail(events)
        /\ UNCHANGED <<control, logic, contour, delayedRequests, Bdelay, client, lost,
                       storage, reader, fault>>
    BY <1>3 DEF ProcessSegment
  <2>2. events' \in Seq(ControlLogicEvent)
    BY <2>1, EventsStep DEF ConsumesEvent, ChangesEvents
  <2>3. actions' \in Seq(ControlLogicAction) /\ pendingActions' \in SUBSET Content
    BY <1>2, <2>1, IssueType, EmptySeq
  <2> QED
    BY <2>1, <2>2, <2>3 DEF TypeOK, control, client, storage, reader
<1>4. CASE SegmentFault(k) = "none" /\ ~NothingFollows(k)
  <2>1. /\ contour' = k + 1 /\ Bdelay' \in Bdelays
        /\ \/ CreateClient /\ events' = Tail(events) \o InFlight
           \/ UNCHANGED client /\ events' = Tail(events)
        /\ \/ /\ Issue(AckActionRequestCompleted(k),
                       <<StartDownload(tcpConnectionId', <<GetRequest(k + 1)>>)>>)
              /\ UNCHANGED delayedRequests
           \/ /\ Issue(AckActionRequestCompleted(k), <<>>)
              /\ delayedRequests' = Append(delayedRequests, k + 1)
        /\ UNCHANGED <<control, logic, lost, storage, reader, fault>>
    BY <1>4 DEF ProcessSegment
  <2>2. k + 1 \in Seg /\ k + 1 \in Content
    BY <1>4, ContentFacts DEF NothingFollows, Seg
  <2>3. delayedRequests = <<>>
    BY <1>4 DEF SegmentFault
  <2>4. events' \in Seq(ControlLogicEvent)
    BY <2>1, EventsStep DEF ConsumesEvent, ChangesEvents
  <2>5. /\ tcpConnectionId' \in Nat /\ queue' \in Seq(HttpRequest) /\ served' \in 0..Limit
        /\ accepting' \in BOOLEAN
        /\ thread' \in {"none", "run", "locking", "pushing", "disconnect", "done", "destroyed"}
        /\ cbReq' \in HttpRequest /\ cbBeta' \in 0..LastSeg
    <3>1. CASE CreateClient
      BY <3>1, CreateClientType
    <3>2. CASE UNCHANGED client
      BY <3>2 DEF client, TypeOK
    <3> QED
      BY <2>1, <3>1, <3>2
  <2>6. <<StartDownload(tcpConnectionId', <<GetRequest(k + 1)>>)>> \in Seq(ControlLogicAction)
    <3>1. <<GetRequest(k + 1)>> \in Seq(HttpRequest)
      BY <2>2, ContentFacts
    <3> QED
      BY <2>5, <3>1, ActionType
  <2>7. actions' \in Seq(ControlLogicAction) /\ pendingActions' \in SUBSET Content
    BY <1>2, <2>1, <2>6, IssueType, EmptySeq
  <2>8. delayedRequests' \in Seq(Seg) /\ Len(delayedRequests') <= 1
    <3>1. Append(<<>>, k + 1) \in Seq(Seg) /\ Len(Append(<<>>, k + 1)) = 1
      BY <2>2
    <3>2. <<>> \in Seq(Seg) /\ Len(<<>>) = 0
      BY EmptySeq
    <3>3. delayedRequests' \in {<<>>, Append(<<>>, k + 1)}
      BY <2>1, <2>3
    <3> DEFINE d == Append(<<>>, k + 1)
    <3>4. d \in Seq(Seg) /\ Len(d) <= 1
      BY <3>1
    <3> HIDE DEF d
    <3>5. delayedRequests' = <<>> \/ delayedRequests' = d
      BY <3>3 DEF d
    <3>6. CASE delayedRequests' = <<>>
      BY <3>2, <3>6
    <3>7. CASE delayedRequests' = d
      BY <3>4, <3>7
    <3> QED
      BY <3>5, <3>6, <3>7
  <2>9. Bdelay' \in 1..NoDelay
    BY <2>1, ContentFacts
  <2> QED
    BY <2>1, <2>2, <2>4, <2>5, <2>7, <2>8, <2>9 DEF TypeOK, control, storage, reader
<1> QED
  BY <1>1, <1>3, <1>4

LEMMA ProcessDataPlayedType ==
  ASSUME TypeOK, events # <<>>, NEW beta, ProcessDataPlayed(beta)
  PROVE  TypeOK'
<1>1. events' \in Seq(ControlLogicEvent)
  BY EventsStep DEF ConsumesEvent, ChangesEvents, ProcessDataPlayed
<1>2. CASE delayedRequests # <<>> /\ RequestNow(beta, Bdelay)
  <2>1. delayedRequests[1] \in Seg
    BY <1>2, TailFacts DEF TypeOK
  <2>2. <<GetRequest(delayedRequests[1])>> \in Seq(HttpRequest)
    BY <2>1, ContentFacts
  <2>3. <<StartDownload(tcpConnectionId, <<GetRequest(delayedRequests[1])>>)>>
          \in Seq(ControlLogicAction)
    BY <2>2, ActionType DEF TypeOK
  <2>4. actions' \in Seq(ControlLogicAction) /\ pendingActions' \in SUBSET Content
    BY <1>2, <2>3, IssueType DEF ProcessDataPlayed, TypeOK
  <2>5. delayedRequests' = <<>> /\ Bdelay' = NoDelay
    BY <1>2 DEF ProcessDataPlayed
  <2> QED
    BY <1>1, <2>4, <2>5, ContentFacts
       DEF ProcessDataPlayed, TypeOK, control, client, storage, reader
<1>3. CASE ~(delayedRequests # <<>> /\ RequestNow(beta, Bdelay))
  BY <1>1, <1>3 DEF ProcessDataPlayed, TypeOK, control, client, storage, reader
<1> QED
  BY <1>2, <1>3

LEMMA RestartedType ==
  ASSUME NEW reqs \in Seq(HttpRequest)
  PROVE  /\ Restarted(reqs) \in Seq(HttpRequest) /\ Len(Restarted(reqs)) = Len(reqs)
         /\ \A i \in DOMAIN reqs : Restarted(reqs)[i] = GetRequest(reqs[i].content)
<1>1. Len(reqs) \in Nat /\ DOMAIN reqs = 1..Len(reqs)
  BY LenProperties
<1>2. \A i \in 1..Len(reqs) : GetRequest(reqs[i].content) \in HttpRequest
  <2>1. \A i \in 1..Len(reqs) : reqs[i] \in HttpRequest
    BY ElementOfSeq
  <2>2. \A i \in 1..Len(reqs) : reqs[i].content \in Content
    BY <2>1, ContentFacts
  <2> QED
    BY <2>2, ContentFacts
<1>3. Restarted(reqs) \in [1..Len(reqs) -> HttpRequest]
  BY <1>1, <1>2 DEF Restarted
<1>4. Restarted(reqs) \in Seq(HttpRequest)
  BY <1>1, <1>3, SeqDef
<1>5. DOMAIN Restarted(reqs) = 1..Len(reqs)
  BY <1>3
<1>6. Len(Restarted(reqs)) = Len(reqs)
  BY <1>1, <1>4, <1>5, LenProperties
<1> QED
  BY <1>4, <1>6 DEF Restarted

LEMMA ProcessDisconnectType ==
  ASSUME TypeOK, events # <<>>, NEW conn, ProcessDisconnect(conn)
  PROVE  TypeOK'
<1>1. CASE Fail("joinDeadlock") \/ Fail("restartMpd")
  BY <1>1, FailType DEF Faults
<1>2. CASE conn < tcpConnectionId
  <2>1. events' \in Seq(ControlLogicEvent)
    BY <1>2, EventsStep DEF ConsumesEvent, ChangesEvents, ProcessDisconnect
  <2> QED
    BY <1>2, <2>1
       DEF ProcessDisconnect, TypeOK, control, logicVars, client, storage, reader
<1>3. CASE ~(conn < tcpConnectionId) /\ ~Fail("joinDeadlock") /\ ~Fail("restartMpd")
  <2>1. /\ CreateClient /\ events' = Tail(events) \o InFlight
        /\ Issue(pendingActions,
                 IF queue = <<>> THEN <<>>
                 ELSE <<StartDownload(tcpConnectionId + 1, Restarted(queue))>>)
        /\ UNCHANGED <<control, logic, contour, delayedRequests, Bdelay, lost, storage,
                       reader, fault>>
    BY <1>3 DEF ProcessDisconnect
  <2>2. events' \in Seq(ControlLogicEvent)
    BY <2>1, EventsStep DEF ConsumesEvent, ChangesEvents
  <2>3. <<StartDownload(tcpConnectionId + 1, Restarted(queue))>> \in Seq(ControlLogicAction)
    BY RestartedType, ActionType DEF TypeOK
  <2>4. (IF queue = <<>> THEN <<>>
         ELSE <<StartDownload(tcpConnectionId + 1, Restarted(queue))>>)
           \in Seq(ControlLogicAction)
    BY <2>3, EmptySeq
  <2>5. actions' \in Seq(ControlLogicAction) /\ pendingActions' \in SUBSET Content
    BY <2>1, <2>4, IssueType DEF TypeOK
  <2> QED
    BY <2>1, <2>2, <2>5, CreateClientType DEF TypeOK, control, storage, reader
<1> QED
  BY <1>1, <1>2, <1>3

LEMMA ProcessEventType ==
  ASSUME TypeOK, ProcessEvent
  PROVE  TypeOK'
<1> DEFINE e == Head(events)
<1>1. events # <<>> /\ Dispatch(e)
  BY DEF ProcessEvent
<1>2. e \in ControlLogicEvent
  BY <1>1, TailFacts DEF TypeOK
<1> HIDE DEF e
<1>3. CASE Fail("unexpectedEvent")
  BY <1>3, FailType DEF Faults
<1>4. CASE ProcessMpd
  BY <1>1, <1>4, ProcessMpdType
<1>5. CASE e.content # Mpd /\ ProcessSegment(e.content, e.beta)
  <2>1. e.content \in Seg
    BY <1>2, <1>5, ContentFacts DEF ControlLogicEvent
  <2> QED
    BY <1>1, <1>5, <2>1, ProcessSegmentType
<1>6. CASE ProcessDataPlayed(e.beta)
  BY <1>1, <1>6, ProcessDataPlayedType
<1>7. CASE ProcessDisconnect(e.conn)
  BY <1>1, <1>7, ProcessDisconnectType
<1> QED
  BY <1>1, <1>3, <1>4, <1>5, <1>6, <1>7 DEF Dispatch, ProcessDataReceived

LEMMA StartPlaybackType ==
  ASSUME TypeOK, StartPlayback
  PROVE  TypeOK'
<1>1. CASE Fail("controlNotPlaying")
  BY <1>1, FailType DEF Faults
<1>2. CASE ~Fail("controlNotPlaying")
  <2>1. /\ CreateClient /\ ctl' = "loop"
        /\ Issue(pendingActions, <<StartDownload(tcpConnectionId + 1, <<GetRequest(Mpd)>>)>>)
        /\ UNCHANGED <<state, events, logic, contour, delayedRequests, Bdelay, lost,
                       storage, reader, fault>>
    BY <1>2 DEF StartPlayback
  <2>2. <<StartDownload(tcpConnectionId + 1, <<GetRequest(Mpd)>>)>> \in Seq(ControlLogicAction)
    <3>1. <<GetRequest(Mpd)>> \in Seq(HttpRequest)
      BY ContentFacts
    <3>2. tcpConnectionId + 1 \in Nat
      BY DEF TypeOK
    <3> QED
      BY <3>1, <3>2, ActionType
  <2>3. actions' \in Seq(ControlLogicAction) /\ pendingActions' \in SUBSET Content
    BY <2>1, <2>2, IssueType DEF TypeOK
  <2> QED
    BY <2>1, <2>3, CreateClientType DEF TypeOK, storage, reader
<1> QED
  BY <1>1, <1>2

LEMMA ProcessActionType ==
  ASSUME TypeOK, ProcessAction, actions # <<>>
  PROVE  TypeOK'
<1>1. CASE Fail("noClient") \/ Fail("rejected")
  BY <1>1, FailType DEF Faults
<1>2. CASE ~Fail("noClient") /\ ~Fail("rejected")
  <2>1. /\ queue' = queue \o Head(actions).reqs /\ actions' = Tail(actions)
        /\ ctl' = IF Tail(actions) = <<>> THEN "loop" ELSE "actions"
        /\ UNCHANGED <<state, events, logicVars, tcpConnectionId, served, accepting,
                       thread, cbReq, cbBeta, lost, storage, reader, fault>>
    BY <1>2 DEF ProcessAction, ProcessActionStartDownload
  <2>2. Head(actions) \in ControlLogicAction /\ Tail(actions) \in Seq(ControlLogicAction)
    BY TailFacts DEF TypeOK
  <2>3. Head(actions).reqs \in Seq(HttpRequest)
    BY <2>2 DEF ControlLogicAction
  <2>4. queue' \in Seq(HttpRequest)
    BY <2>1, <2>3, ConcatFacts DEF TypeOK
  <2> QED
    BY <2>1, <2>2, <2>4 DEF TypeOK, logicVars, storage, reader
<1> QED
  BY <1>1, <1>2

LEMMA HttpType ==
  ASSUME TypeOK, CompleteRequest \/ ComputeBeta \/ PushDataReceived \/ LoseConnection \/ PushDisconnect
  PROVE  TypeOK'
<1>1. ASSUME NEW where \in Faults, Fail(where) PROVE TypeOK'
  BY <1>1, FailType
<1>2. CASE CompleteRequest
  <2>1. CASE Fail("requestsDeleted") \/ Fail("keepAlive") \/ Fail("segmentSizes")
    BY <1>1, <2>1 DEF Faults
  <2>2. CASE ~Fail("requestsDeleted") /\ ~Fail("keepAlive") /\ ~Fail("segmentSizes")
    <3>1. queue # <<>> /\ served < Limit /\ queue' = Tail(queue) /\ served' = served + 1
      BY <1>2, <2>2 DEF CompleteRequest
    <3>2. Head(queue) \in HttpRequest /\ queue' \in Seq(HttpRequest)
      BY <3>1, TailFacts DEF TypeOK
    <3>3. /\ Head(queue).content # Mpd => Head(queue).content \in Seg
          /\ Head(queue).method = "HEAD" => Head(queue).content \in Seg
      BY <3>2, ContentFacts
    <3>4. served' \in 0..Limit
      BY <3>1, ControlLoopAssumption DEF TypeOK
    <3>5. downloaded' \in SUBSET Seg /\ segmentSizes' \in SUBSET Seg
      <4>1. downloaded' \in {downloaded, downloaded \cup ({Head(queue).content} \ {Mpd})}
        BY <1>2, <2>2 DEF CompleteRequest
      <4>2. segmentSizes' = IF Head(queue).method = "HEAD" /\ state = "Playing"
                            THEN segmentSizes \cup {Head(queue).content} ELSE segmentSizes
        BY <1>2, <2>2 DEF CompleteRequest
      <4> QED
        BY <3>3, <4>1, <4>2 DEF TypeOK
    <3>6. accepting' \in BOOLEAN
      BY <1>2, <2>2 DEF CompleteRequest, TypeOK
    <3>7. thread' \in {"run", "locking", "pushing"}
      BY <1>2, <2>2 DEF CompleteRequest
    <3>8. cbReq' \in HttpRequest /\ cbBeta' \in 0..LastSeg
      BY <1>2, <2>2, <3>2, ContentFacts DEF CompleteRequest
    <3>9. UNCHANGED <<control, events, actions, logicVars, tcpConnectionId, lost, reader, fault>>
      BY <1>2, <2>2 DEF CompleteRequest
    <3> QED
      BY <3>2, <3>4, <3>5, <3>6, <3>7, <3>8, <3>9 DEF TypeOK, control, logicVars, reader
  <2> QED
    BY <2>1, <2>2
<1>3. CASE ComputeBeta
  <2>1. CASE Fail("mutexDestroyed")
    BY <1>1, <2>1 DEF Faults
  <2>2. BetaNow \in 0..LastSeg
    BY BetaType DEF BetaNow, TypeOK
  <2> QED
    BY <1>3, <2>1, <2>2 DEF ComputeBeta, TypeOK, control, logicVars, storage, reader
<1>4. CASE PushDataReceived \/ PushDisconnect
  <2>1. CASE Fail("mutexDestroyed") \/ Fail("mpdNotPlaying")
    BY <1>1, <2>1 DEF Faults
  <2>2. CASE ~Fail("mutexDestroyed") /\ ~Fail("mpdNotPlaying")
    <3>1. events' = events \o InFlight
      BY <1>4, <2>2 DEF PushDataReceived, PushDisconnect
    <3>2. events' \in Seq(ControlLogicEvent)
      BY <3>1, EventsStep DEF ChangesEvents
    <3> QED
      BY <1>4, <2>2, <3>2
         DEF PushDataReceived, PushDisconnect, TypeOK, control, logicVars, storage, reader
  <2> QED
    BY <2>1, <2>2
<1>5. CASE LoseConnection
  <2>1. lost' \in 0..MaxLost
    BY <1>5, ControlLoopAssumption DEF LoseConnection, TypeOK
  <2> QED
    BY <1>5, <2>1 DEF LoseConnection, TypeOK, control, logicVars, storage, reader
<1> QED
  BY <1>2, <1>3, <1>4, <1>5

LEMMA VlcType ==
  ASSUME TypeOK, Vlc \/ Close \/ CleanUp \/ DestroyClient
  PROVE  TypeOK'
<1>1. CASE VlcCb
  <2>1. PICK p \in (played + 1)..contour :
          /\ played' = p /\ vlc' = IF p = LastSeg THEN "idle" ELSE "pushing"
          /\ vlcBeta' = Beta(p, downloaded, contour)
    BY <1>1 DEF VlcCb
  <2>2. p \in Content
    BY ControlLoopAssumption DEF TypeOK, Content, Seg, Mpd
  <2>3. vlcBeta' \in 0..LastSeg
    BY <2>1, BetaType DEF TypeOK
  <2> QED
    BY <1>1, <2>1, <2>2, <2>3 DEF VlcCb, TypeOK, control, logicVars, client, storage
<1>2. CASE PushDataPlayed
  <2>1. events' \in Seq(ControlLogicEvent)
    BY <1>2, EventsStep DEF ChangesEvents, PushDataPlayed
  <2> QED
    BY <1>2, <2>1 DEF PushDataPlayed, TypeOK, control, logicVars, client, storage
<1>3. CASE Close
  BY <1>3 DEF Close, TypeOK, logicVars, client, storage, reader
<1>4. CASE CleanUp
  BY <1>4, EmptySeq DEF CleanUp, TypeOK, logicVars, client, storage, reader
<1>5. CASE DestroyClient
  <2>1. CASE Fail("destructor")
    BY <2>1, FailType DEF Faults
  <2> QED
    BY <1>5, <2>1 DEF DestroyClient, TypeOK, control, logicVars, storage, reader
<1> QED
  BY <1>1, <1>2, <1>3, <1>4, <1>5 DEF Vlc

\* The inner loop over the actions is left when none remains.
ActionsRemain == ctl = "actions" => actions # <<>>

LEMMA TypeInit == Init => TypeOK /\ ActionsRemain
<1> SUFFICES ASSUME Init PROVE TypeOK /\ ActionsRemain
  OBVIOUS
<1>1. /\ <<>> \in Seq(ControlLogicEvent) /\ <<>> \in Seq(ControlLogicAction)
      /\ <<>> \in Seq(Seg) /\ Len(<<>>) = 0 /\ <<>> \in Seq(HttpRequest)
  BY EmptySeq
<1>2. 0 \in 0..Limit /\ 0 \in 0..LastSeg /\ 0 \in 0..MaxLost /\ -1 \in Content
  BY ControlLoopAssumption, ContentFacts DEF Mpd
<1>3. NoDelay \in 1..NoDelay /\ NoRequest \in HttpRequest
  BY ContentFacts
<1>4. /\ events = <<>> /\ actions = <<>> /\ delayedRequests = <<>> /\ queue = <<>>
      /\ served = 0 /\ cbBeta = 0 /\ vlcBeta = 0 /\ lost = 0 /\ contour = -1 /\ played = -1
      /\ Bdelay = NoDelay /\ cbReq = NoRequest
  BY DEF Init, ControlLogicInit
<1>5. /\ state \in {"Playing"} /\ ctl \in {"start"} /\ logic \in {"NO_MPD"}
      /\ pendingActions = {} /\ tcpConnectionId = 0 /\ accepting = FALSE /\ thread = "none"
      /\ downloaded = {} /\ segmentSizes = {} /\ vlc = "idle" /\ fault = "none"
  BY DEF Init, ControlLogicInit
<1>6. /\ events \in Seq(ControlLogicEvent) /\ actions \in Seq(ControlLogicAction)
      /\ delayedRequests \in Seq(Seg) /\ Len(delayedRequests) <= 1 /\ queue \in Seq(HttpRequest)
  BY <1>1, <1>4
<1>7. /\ served \in 0..Limit /\ cbBeta \in 0..LastSeg /\ vlcBeta \in 0..LastSeg
      /\ lost \in 0..MaxLost /\ contour \in Content /\ played \in Content
      /\ Bdelay \in 1..NoDelay /\ cbReq \in HttpRequest
  BY <1>2, <1>3, <1>4
<1> QED
  BY <1>5, <1>6, <1>7 DEF TypeOK, ActionsRemain, Faults

LEMMA ActionsRemainStep ==
  ASSUME TypeOK, ActionsRemain, [Next]_vars
  PROVE  ActionsRemain'
<1>1. CASE ctl' # "actions"
  BY <1>1 DEF ActionsRemain
<1>2. CASE UNCHANGED <<ctl, actions>>
  BY <1>2 DEF ActionsRemain
<1>3. ASSUME NEW where, Fail(where) PROVE UNCHANGED <<ctl, actions>>
  BY <1>3 DEF Fail, control
<1>4. CASE StartPlayback
  BY <1>1, <1>2, <1>3, <1>4 DEF StartPlayback
<1>5. CASE ProcessEvent
  <2>1. ctl' = "loop"
    BY <1>5
       DEF ProcessEvent, Dispatch, ProcessDataReceived, ProcessMpd, ProcessSegment,
           ProcessDataPlayed, ProcessDisconnect, Fail, control
  <2> QED
    BY <1>1, <2>1
<1>6. CASE StartActions
  BY <1>6 DEF StartActions, ActionsRemain
<1>7. CASE ProcessAction
  <2>1. CASE Fail("noClient") \/ Fail("rejected")
    BY <1>2, <1>3, <2>1
  <2>2. CASE ~Fail("noClient") /\ ~Fail("rejected")
    BY <1>7, <2>2 DEF ProcessAction, ProcessActionStartDownload, ActionsRemain
  <2> QED
    BY <2>1, <2>2
<1>8. CASE LeaveLoop \/ CleanUp
  BY <1>1, <1>8 DEF LeaveLoop, CleanUp
<1>9. CASE CompleteRequest \/ LoseConnection \/ HttpThread
  BY <1>2, <1>3, <1>9
     DEF CompleteRequest, LoseConnection, HttpThread, ComputeBeta, PushDataReceived,
         PushDisconnect, control
<1>10. CASE Vlc \/ Close \/ DestroyClient
  BY <1>2, <1>3, <1>10 DEF Vlc, VlcCb, PushDataPlayed, Close, DestroyClient, control
<1>11. CASE UNCHANGED vars
  BY <1>2, <1>11 DEF vars, control
<1> QED
  BY <1>4, <1>5, <1>6, <1>7, <1>8, <1>9, <1>10, <1>11 DEF Next, ControlThread

LEMMA TypeStep ==
  ASSUME TypeOK, ActionsRemain, [Next]_vars
  PROVE  TypeOK'
<1>1. CASE StartPlayback
  BY <1>1, StartPlaybackType
<1>2. CASE ProcessEvent
  BY <1>2, ProcessEventType
<1>3. CASE StartActions \/ LeaveLoop
  BY <1>3 DEF StartActions, LeaveLoop, TypeOK, logicVars, client, storage, reader
<1>4. CASE ProcessAction
  BY <1>4, ProcessActionType DEF ProcessAction, ActionsRemain
<1>5. CASE CompleteRequest \/ LoseConnection \/ HttpThread
  BY <1>5, HttpType DEF HttpThread
<1>6. CASE Vlc \/ Close \/ CleanUp \/ DestroyClient
  BY <1>6, VlcType
<1>7. CASE UNCHANGED vars
  BY <1>7 DEF vars, TypeOK, control, logicVars, client, storage, reader
<1> QED
  BY <1>1, <1>2, <1>3, <1>4, <1>5, <1>6, <1>7 DEF Next, ControlThread

\* Events, actions, requests and buffer levels keep their types, and the control
\* thread never looks for an action that is not there.
THEOREM TypeCorrect == Spec => [](TypeOK /\ ActionsRemain)
BY TypeInit, TypeStep, ActionsRemainStep, PTL DEF Spec
-----------------------------------------------------------------------------
(* The inductive invariant of the order *)

N == Cardinality(downloaded)

\* Downloaded are the first N segments; the contour has begun with 0 and 1.
StoredInOrder ==
  /\ N \in Nat /\ downloaded = 0..(N - 1)
  /\ N <= contour + 1 /\ contour # 0

\* The requests are the one for the MPD, or those for all segments of the contour
\* that have not arrived, in order.
AreTheMissing(reqs) ==
  IF contour = -1
  THEN Len(reqs) = 1 /\ reqs[1] = GetRequest(Mpd)
  ELSE /\ Len(reqs) = contour + 1 - N
       /\ \A i \in DOMAIN reqs : reqs[i] = GetRequest(N + i - 1)

\* What is missing is requested by the client's queue, by one action, or is delayed,
\* and not by two of them.
MissingInOnePlace ==
  /\ queue # <<>> => AreTheMissing(queue) /\ actions = <<>> /\ delayedRequests = <<>>
  /\ actions # <<>> => /\ Len(actions) = 1 /\ delayedRequests = <<>>
                       /\ actions[1].reqs # <<>> /\ AreTheMissing(actions[1].reqs)
  /\ delayedRequests # <<>> => delayedRequests[1] = contour /\ N = contour

\* What has been received and is not processed yet: a segment is stored, and when it is
\* the first MPD nothing else has been requested.
IsStored(c) ==
  IF c = Mpd THEN contour = -1 => queue = <<>> /\ actions = <<>> ELSE c \in downloaded

ReceivedIsStored ==
  /\ \A i \in DOMAIN events : events[i].type = "dataReceived" => IsStored(events[i].content)
  /\ thread \in {"locking", "pushing"} => IsStored(cbReq.content)

\* Before the first event.
NothingRequested ==
  ctl = "start" => /\ contour = -1 /\ queue = <<>> /\ actions = <<>> /\ thread = "none"
                   /\ \A i \in DOMAIN events : events[i].type # "dataReceived"

OrderParts == StoredInOrder /\ MissingInOnePlace /\ ReceivedIsStored /\ NothingRequested

OrderInv == TypeOK /\ ActionsRemain /\ OrderParts
-----------------------------------------------------------------------------
(* Every operation keeps it *)

\* What was received stays stored, as long as the stored segments do.
LEMMA ReceivedStep ==
  ASSUME TypeOK, ReceivedIsStored, ChangesEvents,
         downloaded \subseteq downloaded',
         contour' = -1 => contour = -1,
         contour' = -1 /\ queue = <<>> /\ actions = <<>> => queue' = <<>> /\ actions' = <<>>,
         thread' \in {"locking", "pushing"} =>
           \/ thread \in {"locking", "pushing"} /\ cbReq' = cbReq
           \/ IsStored(cbReq.content)'
  PROVE  ReceivedIsStored'
<1>1. ASSUME NEW c, IsStored(c) PROVE IsStored(c)'
  BY <1>1 DEF IsStored
<1>2. ASSUME NEW i \in DOMAIN events', events'[i].type = "dataReceived"
      PROVE  IsStored(events[i].content)'
  <2>1. CASE \E j \in DOMAIN events : events'[i] = events[j]
    <3>1. PICK j \in DOMAIN events : events'[i] = events[j]
      BY <2>1
    <3>2. IsStored(events[j].content)
      BY <1>2, <3>1 DEF ReceivedIsStored
    <3> QED
      BY <3>1, <3>2 DEF IsStored
  <2>2. CASE thread = "pushing" /\ events'[i].content = cbReq.content
    <3>1. IsStored(cbReq.content)
      BY <2>2 DEF ReceivedIsStored
    <3> QED
      BY <2>2, <3>1 DEF IsStored
  <2> QED
    BY <1>2, <2>1, <2>2, EventsStep
<1>3. thread' \in {"locking", "pushing"} => IsStored(cbReq.content)'
  BY DEF ReceivedIsStored, IsStored
<1> QED
  BY <1>2, <1>3 DEF ReceivedIsStored

\* An operation that neither requests, receives nor drops anything.
LEMMA QuietStep ==
  ASSUME OrderInv, ChangesEvents,
         UNCHANGED <<downloaded, contour, queue, actions, delayedRequests>>,
         thread' \in {"locking", "pushing"} =>
           thread \in {"locking", "pushing"} /\ cbReq' = cbReq,
         ctl' = "start" => ctl = "start" /\ (thread = "none" => thread' = "none")
  PROVE  OrderParts'
<1>1. StoredInOrder' /\ MissingInOnePlace'
  BY DEF OrderInv, OrderParts, StoredInOrder, MissingInOnePlace, AreTheMissing, N
<1>2. ReceivedIsStored'
  BY ReceivedStep DEF OrderInv, OrderParts
<1>3. NothingRequested'
  BY EventsStep DEF OrderInv, OrderParts, NothingRequested
<1> QED
  BY <1>1, <1>2, <1>3 DEF OrderParts

LEMMA FailOrder ==
  ASSUME OrderInv, NEW where, Fail(where)
  PROVE  OrderParts' /\ UNCHANGED <<contour, downloaded, played>>
BY QuietStep DEF Fail, ChangesEvents, control, logicVars, client, storage, reader

\* Facts about N and the contour.
LEMMA OrderFacts ==
  ASSUME OrderInv
  PROVE  /\ N \in Nat /\ contour \in Int /\ contour <= LastSeg /\ contour >= -1
         /\ contour = -1 => N = 0 /\ delayedRequests = <<>> /\ downloaded = {}
         /\ contour # -1 => contour >= 1
         /\ LastSeg \in Nat
BY ControlLoopAssumption
   DEF OrderInv, OrderParts, StoredInOrder, MissingInOnePlace, TypeOK, Content, Seg, Mpd

LEMMA CompleteRequestOrder ==
  ASSUME OrderInv, CompleteRequest
  PROVE  /\ OrderParts'
         /\ UNCHANGED <<contour, played>>
         /\ \/ N' = N /\ (contour = -1 \/ queue' = queue)
            \/ N' = N + 1 /\ N <= contour
<1>1. CASE Fail("requestsDeleted") \/ Fail("keepAlive") \/ Fail("segmentSizes")
  BY <1>1, FailOrder DEF Fail, client, N
<1>2. CASE ~Fail("requestsDeleted") /\ ~Fail("keepAlive") /\ ~Fail("segmentSizes")
  <2>1. /\ queue # <<>> /\ queue' = Tail(queue) /\ thread = "run"
        /\ downloaded' = IF Head(queue).method = "GET"
                         THEN downloaded \cup ({Head(queue).content} \ {Mpd}) ELSE downloaded
        /\ cbReq' = Head(queue)
        /\ UNCHANGED <<control, events, actions, logicVars, tcpConnectionId, lost, reader, fault>>
    BY <1>2 DEF CompleteRequest
  <2>2. UNCHANGED <<ctl, events, actions, contour, delayedRequests, played>>
    BY <2>1 DEF control, logicVars, reader
  <2>3. /\ queue \in Seq(HttpRequest) /\ Head(queue) = queue[1] /\ 1 \in DOMAIN queue
        /\ Len(queue') = Len(queue) - 1 /\ queue' \in Seq(HttpRequest)
        /\ \A i \in DOMAIN queue' : i + 1 \in DOMAIN queue /\ queue'[i] = queue[i + 1]
    BY <2>1, TailFacts DEF OrderInv, TypeOK
  <2>4. AreTheMissing(queue) /\ actions = <<>> /\ delayedRequests = <<>>
    BY <2>1 DEF OrderInv, OrderParts, MissingInOnePlace
  <2>5. ctl # "start"
    BY <2>1 DEF OrderInv, OrderParts, NothingRequested
  <2>6. NothingRequested'
    BY <2>2, <2>5 DEF NothingRequested
  <2>7. ChangesEvents
    BY <2>2 DEF ChangesEvents
  <2>8. CASE contour = -1
    <3>1. Len(queue) = 1 /\ Head(queue) = GetRequest(Mpd)
      BY <2>3, <2>4, <2>8 DEF AreTheMissing
    <3>2. downloaded' = downloaded
      BY <2>1, <3>1 DEF GetRequest
    <3>3. queue' = <<>>
      BY <2>3, <3>1, EmptySeq
    <3>4. StoredInOrder' /\ MissingInOnePlace' /\ N' = N
      BY <2>2, <2>4, <3>2, <3>3
         DEF OrderInv, OrderParts, StoredInOrder, MissingInOnePlace, N
    <3>5. IsStored(cbReq.content)'
      BY <2>1, <2>2, <2>4, <3>1, <3>3 DEF IsStored, GetRequest
    <3>6. ReceivedIsStored'
      BY <2>2, <2>7, <3>2, <3>3, <3>5, ReceivedStep DEF OrderInv, OrderParts
    <3> QED
      BY <2>2, <2>6, <2>8, <3>4, <3>6 DEF OrderParts
  <2>9. CASE contour # -1
    <3>1. /\ N \in Nat /\ contour \in Int /\ contour >= 1 /\ downloaded = 0..(N - 1)
          /\ N <= contour + 1
      BY <2>9, OrderFacts DEF OrderInv, OrderParts, StoredInOrder
    <3>2. Len(queue) = contour + 1 - N /\ Head(queue) = GetRequest(N)
          /\ Len(queue) \in Nat /\ Len(queue) >= 1
      <4>1. /\ Len(queue) = contour + 1 - N
            /\ \A i \in DOMAIN queue : queue[i] = GetRequest(N + i - 1)
        BY <2>4, <2>9 DEF AreTheMissing
      <4>2. queue[1] = GetRequest(N + 1 - 1)
        BY <2>3, <4>1
      <4>3. N + 1 - 1 = N
        BY <3>1
      <4> QED
        BY <2>1, <2>3, <4>1, <4>2, <4>3, EmptySeq
    <3>3. downloaded' = downloaded \cup {N}
      BY <2>1, <3>1, <3>2 DEF GetRequest, Mpd
    <3>4. downloaded' = 0..N
      BY <3>1, <3>3
    <3>5. N' = N + 1
      BY <3>1, <3>4, FS_Interval DEF N
    <3>6. StoredInOrder'
      <4>1. N <= contour
        BY <3>1, <3>2
      <4>2. N' - 1 = N /\ N' \in Nat /\ N' <= contour + 1 /\ contour # 0
        BY <3>1, <3>5, <4>1
      <4> QED
        BY <2>2, <3>4, <4>2 DEF StoredInOrder
    <3>7. AreTheMissing(queue)'
      <4>1. Len(queue') = contour' + 1 - N'
        BY <2>2, <2>3, <3>1, <3>2, <3>5
      <4>2. ASSUME NEW i \in DOMAIN queue' PROVE queue'[i] = GetRequest(N' + i - 1)
        <5>1. i \in Nat
          BY <2>3, LenProperties
        <5>2. queue'[i] = GetRequest(N + (i + 1) - 1)
          BY <2>3, <2>4, <2>9 DEF AreTheMissing
        <5>3. N + (i + 1) - 1 = N' + i - 1
          BY <3>1, <3>5, <5>1
        <5> QED
          BY <5>2, <5>3
      <4> QED
        BY <2>2, <2>9, <4>1, <4>2 DEF AreTheMissing
    <3>8. MissingInOnePlace'
      BY <2>2, <2>4, <3>7 DEF MissingInOnePlace
    <3>9. IsStored(cbReq.content)'
      BY <2>1, <3>1, <3>2, <3>3 DEF IsStored, GetRequest, Mpd
    <3>10. ReceivedIsStored'
      BY <2>2, <2>7, <2>9, <3>3, <3>9, ReceivedStep DEF OrderInv, OrderParts
    <3> QED
      BY <2>2, <2>6, <3>1, <3>2, <3>5, <3>6, <3>8, <3>10 DEF OrderParts
  <2> QED
    BY <2>8, <2>9
<1> QED
  BY <1>1, <1>2

\* One action, issued when there is none.
LEMMA IssueOne ==
  ASSUME TypeOK, actions = <<>>, NEW pending, NEW conn \in Nat, NEW reqs \in Seq(HttpRequest),
         Issue(pending, <<StartDownload(conn, reqs)>>)
  PROVE  /\ Len(actions') = 1 /\ actions' # <<>>
         /\ actions'[1].reqs = reqs /\ actions'[1].conn = conn
         /\ pending \subseteq pendingActions' /\ Contents(reqs) \subseteq pendingActions'
<1> DEFINE a == <<StartDownload(conn, reqs)>>
<1>1. /\ a \in Seq(ControlLogicAction) /\ Len(a) = 1 /\ a # <<>> /\ 1 \in DOMAIN a
      /\ a[1].reqs = reqs /\ a[1].conn = conn
  BY ActionType DEF StartDownload
<1>2. /\ actions' = actions \o a
      /\ pendingActions' = pending \cup UNION {Contents(a[i].reqs) : i \in DOMAIN a}
  BY DEF Issue
<1> HIDE DEF a
<1>3. actions' = a
  BY <1>1, <1>2, ConcatEmptySeq
<1>4. Contents(reqs) \subseteq UNION {Contents(a[i].reqs) : i \in DOMAIN a}
  BY <1>1
<1> QED
  BY <1>1, <1>2, <1>3, <1>4

LEMMA IssueNone ==
  ASSUME TypeOK, NEW pending, Issue(pending, <<>>)
  PROVE  actions' = actions /\ pendingActions' = pending
<1>1. /\ actions \in Seq(ControlLogicAction) /\ actions' = actions \o <<>>
      /\ pendingActions' = pending
  BY DEF TypeOK, Issue
<1> QED
  BY <1>1, ConcatEmptySeq

LEMMA ProcessMpdOrder ==
  ASSUME OrderInv, ~FetchHeads, events # <<>>, ctl = "loop", ProcessMpd,
         Head(events).type = "dataReceived", Head(events).content = Mpd, contour = -1
  PROVE  OrderParts' /\ contour' = 1 /\ UNCHANGED <<downloaded, played>>
<1>1. /\ events' = Tail(events) /\ contour' = 1
      /\ Issue(AckActionRequestCompleted(Mpd), FollowMpd)
      /\ UNCHANGED <<control, delayedRequests, client, storage, reader>>
  BY DEF ProcessMpd
<1>2. UNCHANGED <<ctl, queue, thread, cbReq, downloaded, delayedRequests, played>>
  BY <1>1 DEF control, client, storage, reader
<1>3. 1 \in DOMAIN events /\ Head(events) = events[1]
  BY TailFacts DEF OrderInv, TypeOK
<1>4. queue = <<>> /\ actions = <<>>
  BY <1>3 DEF OrderInv, OrderParts, ReceivedIsStored, IsStored
<1>5. N = 0 /\ delayedRequests = <<>> /\ downloaded = {}
  BY OrderFacts
<1> DEFINE reqs == <<GetRequest(0), GetRequest(1)>>
<1>6. reqs \in Seq(HttpRequest) /\ reqs # <<>> /\ Len(reqs) = 2
      /\ \A i \in DOMAIN reqs : reqs[i] = GetRequest(i - 1)
  BY ContentFacts
<1>7. Issue(AckActionRequestCompleted(Mpd), <<StartDownload(tcpConnectionId, reqs)>>)
  <2>1. FetchFirst \in Seq(ControlLogicAction)
    BY <1>6, ActionType DEF FetchFirst, OrderInv, TypeOK
  <2>2. FetchSizes = <<>>
    BY DEF FetchSizes
  <2>3. FollowMpd = FetchFirst
    BY <2>1, <2>2, ConcatEmptySeq DEF FollowMpd
  <2> QED
    BY <1>1, <2>3 DEF FetchFirst
<1> HIDE DEF reqs
<1>8. Len(actions') = 1 /\ actions'[1].reqs = reqs /\ actions' # <<>>
  BY <1>4, <1>6, <1>7, IssueOne DEF OrderInv, TypeOK
<1>9. N' = 0
  BY <1>2, <1>5 DEF N
<1>10. StoredInOrder'
  BY <1>1, <1>2, <1>5, <1>9 DEF OrderInv, OrderParts, StoredInOrder
<1>11. MissingInOnePlace'
  <2>1. \A i \in DOMAIN reqs : i \in Nat
    BY <1>6, LenProperties
  <2>2. \A i \in DOMAIN reqs : reqs[i] = GetRequest(N' + i - 1)
    BY <1>6, <1>9, <2>1
  <2>3. AreTheMissing(actions[1].reqs)'
    BY <1>1, <1>6, <1>8, <1>9, <2>2 DEF AreTheMissing
  <2> QED
    BY <1>2, <1>4, <1>5, <1>6, <1>8, <2>3 DEF MissingInOnePlace
<1>12. ReceivedIsStored'
  BY <1>1, <1>2, ReceivedStep DEF OrderInv, OrderParts, ConsumesEvent, ChangesEvents
<1> QED
  BY <1>1, <1>2, <1>10, <1>11, <1>12 DEF OrderParts, NothingRequested

\* When the last segment of the contour has arrived nothing is missing.
LEMMA LastArrived ==
  ASSUME OrderInv, contour # -1, contour \in downloaded
  PROVE  N = contour + 1 /\ queue = <<>> /\ actions = <<>> /\ delayedRequests = <<>>
<1>1. /\ N \in Nat /\ contour \in Nat /\ contour >= 1 /\ downloaded = 0..(N - 1)
      /\ N <= contour + 1
  BY OrderFacts DEF OrderInv, OrderParts, StoredInOrder
<1>2. N = contour + 1
  BY <1>1
<1>3. queue = <<>>
  <2> SUFFICES ASSUME queue # <<>> PROVE FALSE
    OBVIOUS
  <2>1. Len(queue) = contour + 1 - N
    BY <1>1 DEF OrderInv, OrderParts, MissingInOnePlace, AreTheMissing
  <2>2. Len(queue) \in Nat \ {0}
    BY EmptySeq DEF OrderInv, TypeOK
  <2> QED
    BY <1>1, <1>2, <2>1, <2>2
<1>4. actions = <<>>
  <2> SUFFICES ASSUME actions # <<>> PROVE FALSE
    OBVIOUS
  <2>1. actions[1].reqs # <<>> /\ Len(actions[1].reqs) = contour + 1 - N /\ Len(actions) = 1
    BY <1>1 DEF OrderInv, OrderParts, MissingInOnePlace, AreTheMissing
  <2>2. actions[1] \in ControlLogicAction
    BY TailFacts DEF OrderInv, TypeOK
  <2>3. Len(actions[1].reqs) \in Nat \ {0}
    BY <2>1, <2>2, EmptySeq DEF ControlLogicAction
  <2> QED
    BY <1>1, <1>2, <2>1, <2>3
<1>5. delayedRequests = <<>>
  BY <1>1, <1>2 DEF OrderInv, OrderParts, MissingInOnePlace
<1> QED
  BY <1>2, <1>3, <1>4, <1>5

LEMMA ProcessSegmentOrder ==
  ASSUME OrderInv, events # <<>>, ctl = "loop", contour # -1,
         NEW k \in Seg, k \in downloaded, NEW beta, ProcessSegment(k, beta)
  PROVE  /\ OrderParts' /\ UNCHANGED <<downloaded, played>>
         /\ contour' = contour \/ (contour' = contour + 1 /\ contour < LastSeg /\ N = contour + 1)
<1>1. CASE SegmentFault(k) # "none"
  BY <1>1, FailOrder DEF ProcessSegment
<1>2. CASE SegmentFault(k) = "none" /\ NothingFollows(k)
  <2>1. /\ Issue(AckActionRequestCompleted(k), <<>>) /\ events' = Tail(events)
        /\ UNCHANGED <<control, contour, delayedRequests, client, storage, reader>>
    BY <1>2 DEF ProcessSegment
  <2>2. actions' = actions
    BY <2>1, IssueNone DEF OrderInv
  <2> QED
    BY <2>1, <2>2, QuietStep DEF ConsumesEvent, ChangesEvents, control, client, storage, reader
<1>3. CASE SegmentFault(k) = "none" /\ ~NothingFollows(k)
  <2>1. /\ contour' = k + 1
        /\ \/ CreateClient /\ events' = Tail(events) \o InFlight
           \/ UNCHANGED client /\ events' = Tail(events)
        /\ \/ /\ Issue(AckActionRequestCompleted(k),
                       <<StartDownload(tcpConnectionId', <<GetRequest(k + 1)>>)>>)
              /\ UNCHANGED delayedRequests
           \/ /\ Issue(AckActionRequestCompleted(k), <<>>)
              /\ delayedRequests' = Append(delayedRequests, k + 1)
        /\ UNCHANGED <<control, storage, reader>>
    BY <1>3 DEF ProcessSegment
  <2>2. UNCHANGED <<ctl, downloaded, played>>
    BY <2>1 DEF control, storage, reader
  <2>3. delayedRequests = <<>> /\ MaySetNext(k + 1)
    BY <1>3 DEF SegmentFault
  <2>4. /\ N \in Nat /\ contour \in Nat /\ contour >= 1 /\ downloaded = 0..(N - 1)
        /\ N <= contour + 1 /\ k \in Nat /\ k < LastSeg /\ LastSeg \in Nat
    BY <1>3, OrderFacts, ControlLoopAssumption
       DEF OrderInv, OrderParts, StoredInOrder, NothingFollows, Seg
  <2>5. k = contour
    BY <2>3, <2>4 DEF MaySetNext
  <2>6. N = contour + 1
    BY <2>4, <2>5
  <2>7. N' = N
    BY <2>2 DEF N
  <2>8. StoredInOrder'
    BY <2>1, <2>2, <2>4, <2>5, <2>6, <2>7 DEF OrderInv, OrderParts, StoredInOrder
  <2>9. queue = <<>> /\ actions = <<>>
    BY <2>4, <2>5, LastArrived
  <2>11. /\ queue' = <<>>
         /\ thread' \in {"locking", "pushing"} =>
              thread \in {"locking", "pushing"} /\ cbReq' = cbReq
         /\ tcpConnectionId' \in Nat
    BY <2>1, <2>9 DEF CreateClient, client, OrderInv, TypeOK
  <2>12. MissingInOnePlace'
    <3>1. CASE /\ Issue(AckActionRequestCompleted(k),
                        <<StartDownload(tcpConnectionId', <<GetRequest(k + 1)>>)>>)
               /\ UNCHANGED delayedRequests
      <4> DEFINE reqs == <<GetRequest(k + 1)>>
      <4>1. k + 1 \in Content
        BY <2>4, ContentFacts DEF Seg
      <4>2. reqs \in Seq(HttpRequest) /\ Len(reqs) = 1 /\ reqs # <<>>
            /\ \A i \in DOMAIN reqs : i = 1 /\ reqs[i] = GetRequest(k + 1)
        BY <4>1, ContentFacts
      <4>3. Len(actions') = 1 /\ actions'[1].reqs = reqs
        BY <2>9, <2>11, <3>1, <4>2, IssueOne DEF OrderInv
      <4> HIDE DEF reqs
      <4>4. contour' # -1 /\ contour' + 1 - N' = 1 /\ N' + 1 - 1 = k + 1
        BY <2>1, <2>4, <2>5, <2>6, <2>7
      <4>5. AreTheMissing(actions[1].reqs)'
        BY <4>2, <4>3, <4>4 DEF AreTheMissing
      <4> QED
        BY <2>3, <2>11, <3>1, <4>2, <4>3, <4>5 DEF MissingInOnePlace
    <3>2. CASE /\ Issue(AckActionRequestCompleted(k), <<>>)
               /\ delayedRequests' = Append(delayedRequests, k + 1)
      <4>1. actions' = <<>>
        BY <2>9, <3>2, IssueNone DEF OrderInv
      <4>2. delayedRequests'[1] = k + 1
        BY <2>3, <3>2
      <4>3. contour' = k + 1 /\ N' = contour'
        BY <2>1, <2>5, <2>6, <2>7
      <4> QED
        BY <2>11, <4>1, <4>2, <4>3 DEF MissingInOnePlace
    <3> QED
      BY <2>1, <3>1, <3>2
  <2>13. ReceivedIsStored'
    <3>1. ChangesEvents
      BY <2>1 DEF ConsumesEvent, ChangesEvents
    <3>2. contour' # -1
      BY <2>1, <2>4
    <3> QED
      BY <2>2, <2>11, <3>1, <3>2, ReceivedStep DEF OrderInv, OrderParts
  <2>14. NothingRequested'
    BY <2>2 DEF NothingRequested
  <2> QED
    BY <2>1, <2>2, <2>4, <2>5, <2>6, <2>8, <2>12, <2>13, <2>14 DEF OrderParts
<1> QED
  BY <1>1, <1>2, <1>3

LEMMA ProcessDataPlayedOrder ==
  ASSUME OrderInv, events # <<>>, ctl = "loop", NEW beta, ProcessDataPlayed(beta)
  PROVE  OrderParts' /\ UNCHANGED <<contour, downloaded, played>>
<1>1. /\ events' = Tail(events)
      /\ UNCHANGED <<ctl, contour, queue, thread, cbReq, downloaded, played>>
  BY DEF ProcessDataPlayed, control, client, storage, reader
<1>2. CASE ~(delayedRequests # <<>> /\ RequestNow(beta, Bdelay))
  <2>1. UNCHANGED <<actions, delayedRequests>>
    BY <1>2 DEF ProcessDataPlayed
  <2> QED
    BY <1>1, <2>1, QuietStep DEF ConsumesEvent, ChangesEvents
<1>3. CASE delayedRequests # <<>> /\ RequestNow(beta, Bdelay)
  <2>1. queue = <<>> /\ actions = <<>> /\ delayedRequests[1] = contour /\ N = contour
    BY <1>3 DEF OrderInv, OrderParts, MissingInOnePlace
  <2> DEFINE reqs == <<GetRequest(contour)>>
  <2>2. N \in Nat /\ N' = N /\ contour # -1
    BY <1>1, <2>1, OrderFacts DEF N
  <2>3. contour \in Content
    BY DEF OrderInv, TypeOK
  <2>4. reqs \in Seq(HttpRequest) /\ Len(reqs) = 1 /\ reqs # <<>>
        /\ \A i \in DOMAIN reqs : i = 1 /\ reqs[i] = GetRequest(contour)
    BY <2>3, ContentFacts
  <2>5. /\ Issue(pendingActions, <<StartDownload(tcpConnectionId, reqs)>>)
        /\ delayedRequests' = <<>>
    BY <1>3, <2>1 DEF ProcessDataPlayed
  <2>6. Len(actions') = 1 /\ actions'[1].reqs = reqs
    BY <2>1, <2>4, <2>5, IssueOne DEF OrderInv, TypeOK
  <2> HIDE DEF reqs
  <2>7. contour' # -1 /\ contour' + 1 - N' = 1 /\ N' + 1 - 1 = contour
    BY <1>1, <2>1, <2>2
  <2>8. AreTheMissing(actions[1].reqs)'
    BY <2>4, <2>6, <2>7 DEF AreTheMissing
  <2>9. MissingInOnePlace'
    BY <1>1, <2>1, <2>4, <2>5, <2>6, <2>8 DEF MissingInOnePlace
  <2>10. StoredInOrder'
    BY <1>1 DEF OrderInv, OrderParts, StoredInOrder, N
  <2>11. ReceivedIsStored'
    BY <1>1, <2>7, ReceivedStep DEF OrderInv, OrderParts, ConsumesEvent, ChangesEvents
  <2> QED
    BY <1>1, <2>9, <2>10, <2>11 DEF OrderParts, NothingRequested
<1> QED
  BY <1>2, <1>3

LEMMA ProcessDisconnectOrder ==
  ASSUME OrderInv, events # <<>>, ctl = "loop", NEW conn, ProcessDisconnect(conn)
  PROVE  OrderParts' /\ UNCHANGED <<contour, downloaded, played>>
<1>1. CASE Fail("joinDeadlock") \/ Fail("restartMpd")
  BY <1>1, FailOrder
<1>2. CASE conn < tcpConnectionId
  BY <1>2, QuietStep
     DEF ProcessDisconnect, ConsumesEvent, ChangesEvents, control, logicVars, client, storage, reader
<1>3. CASE ~(conn < tcpConnectionId) /\ ~Fail("joinDeadlock") /\ ~Fail("restartMpd")
  <2>1. /\ CreateClient /\ events' = Tail(events) \o InFlight
        /\ Issue(pendingActions,
                 IF queue = <<>> THEN <<>>
                 ELSE <<StartDownload(tcpConnectionId + 1, Restarted(queue))>>)
        /\ UNCHANGED <<control, contour, delayedRequests, storage, reader>>
    BY <1>3 DEF ProcessDisconnect
  <2>2. /\ UNCHANGED <<ctl, contour, delayedRequests, downloaded, played>>
        /\ queue' = <<>> /\ thread' = "run" /\ ChangesEvents
    BY <2>1 DEF control, storage, reader, CreateClient, ConsumesEvent, ChangesEvents
  <2>3. CASE queue = <<>>
    <3>1. actions' = actions
      BY <2>1, <2>3, IssueNone DEF OrderInv
    <3> QED
      BY <2>2, <2>3, <3>1, QuietStep
  <2>4. CASE queue # <<>>
    <3>1. AreTheMissing(queue) /\ actions = <<>> /\ delayedRequests = <<>>
      BY <2>4 DEF OrderInv, OrderParts, MissingInOnePlace
    <3> DEFINE reqs == Restarted(queue)
    <3>2. /\ queue \in Seq(HttpRequest) /\ DOMAIN queue = 1..Len(queue)
          /\ Len(queue) \in Nat \ {0}
      BY <2>4, EmptySeq, LenProperties DEF OrderInv, TypeOK
    <3>3. /\ reqs \in Seq(HttpRequest) /\ Len(reqs) = Len(queue)
          /\ \A i \in DOMAIN queue : reqs[i] = GetRequest(queue[i].content)
      BY <3>2, RestartedType
    <3>4. Issue(pendingActions, <<StartDownload(tcpConnectionId + 1, reqs)>>)
      BY <2>1, <2>4
    <3> HIDE DEF reqs
    <3>5. tcpConnectionId + 1 \in Nat
      BY DEF OrderInv, TypeOK
    <3>6. Len(actions') = 1 /\ actions'[1].reqs = reqs
      BY <3>1, <3>3, <3>4, <3>5, IssueOne DEF OrderInv
    <3>7. reqs # <<>>
      BY <3>2, <3>3, EmptySeq
    <3>8. DOMAIN reqs = DOMAIN queue
      BY <3>2, <3>3, LenProperties
    <3>9. AreTheMissing(reqs)
      <4>1. \A c : GetRequest(GetRequest(c).content) = GetRequest(c)
        BY DEF GetRequest
      <4>2. CASE contour = -1
        <5>1. Len(reqs) = 1 /\ queue[1] = GetRequest(Mpd) /\ 1 \in DOMAIN queue
          BY <3>1, <3>2, <3>3, <4>2 DEF AreTheMissing
        <5>2. reqs[1] = GetRequest(queue[1].content)
          BY <3>3, <5>1
        <5> QED
          BY <4>1, <4>2, <5>1, <5>2 DEF AreTheMissing
      <4>3. CASE contour # -1
        <5>1. /\ Len(reqs) = contour + 1 - N
              /\ \A i \in DOMAIN reqs : queue[i] = GetRequest(N + i - 1)
          BY <3>1, <3>3, <3>8, <4>3 DEF AreTheMissing
        <5>2. ASSUME NEW i \in DOMAIN reqs PROVE reqs[i] = GetRequest(N + i - 1)
          BY <3>3, <3>8, <4>1, <5>1
        <5> QED
          BY <4>3, <5>1, <5>2 DEF AreTheMissing
      <4> QED
        BY <4>2, <4>3
    <3>10. N' = N
      BY <2>2 DEF N
    <3>11. AreTheMissing(actions[1].reqs)'
      BY <2>2, <3>6, <3>9, <3>10 DEF AreTheMissing
    <3>12. MissingInOnePlace'
      BY <2>2, <3>1, <3>6, <3>7, <3>11 DEF MissingInOnePlace
    <3>13. StoredInOrder'
      BY <2>2, <3>10 DEF OrderInv, OrderParts, StoredInOrder
    <3>14. ReceivedIsStored'
      BY <2>2, <2>4, ReceivedStep DEF OrderInv, OrderParts
    <3> QED
      BY <2>2, <3>12, <3>13, <3>14 DEF OrderParts, NothingRequested
  <2> QED
    BY <2>3, <2>4
<1> QED
  BY <1>1, <1>2, <1>3

LEMMA StartPlaybackOrder ==
  ASSUME OrderInv, StartPlayback
  PROVE  OrderParts' /\ UNCHANGED <<contour, downloaded, played>>
<1>1. CASE Fail("controlNotPlaying")
  BY <1>1, FailOrder
<1>2. CASE ~Fail("controlNotPlaying")
  <2> DEFINE reqs == <<GetRequest(Mpd)>>
  <2>1. /\ CreateClient /\ ctl' = "loop" /\ ctl = "start"
        /\ Issue(pendingActions, <<StartDownload(tcpConnectionId + 1, reqs)>>)
        /\ UNCHANGED <<state, events, logic, contour, delayedRequests, Bdelay, lost,
                       storage, reader, fault>>
    BY <1>2 DEF StartPlayback
  <2>2. /\ UNCHANGED <<events, contour, delayedRequests, downloaded, played>>
        /\ queue' = <<>> /\ thread' = "run"
    BY <2>1 DEF storage, reader, CreateClient
  <2>3. /\ contour = -1 /\ actions = <<>> /\ delayedRequests = <<>>
        /\ \A i \in DOMAIN events : events[i].type # "dataReceived"
    BY <2>1, OrderFacts DEF OrderInv, OrderParts, NothingRequested
  <2>4. reqs \in Seq(HttpRequest) /\ Len(reqs) = 1 /\ reqs # <<>> /\ reqs[1] = GetRequest(Mpd)
    BY ContentFacts
  <2>5. tcpConnectionId + 1 \in Nat
    BY DEF OrderInv, TypeOK
  <2>6. Len(actions') = 1 /\ actions'[1].reqs = reqs
    BY <2>1, <2>3, <2>4, <2>5, IssueOne DEF OrderInv
  <2> HIDE DEF reqs
  <2>7. AreTheMissing(actions[1].reqs)'
    BY <2>2, <2>3, <2>4, <2>6 DEF AreTheMissing
  <2>8. MissingInOnePlace'
    BY <2>2, <2>3, <2>4, <2>6, <2>7 DEF MissingInOnePlace
  <2>9. StoredInOrder'
    BY <2>2 DEF OrderInv, OrderParts, StoredInOrder, N
  <2>10. ReceivedIsStored'
    BY <2>2, <2>3 DEF ReceivedIsStored
  <2> QED
    BY <2>1, <2>2, <2>8, <2>9, <2>10 DEF OrderParts, NothingRequested
<1> QED
  BY <1>1, <1>2

LEMMA ProcessActionOrder ==
  ASSUME OrderInv, ProcessAction
  PROVE  OrderParts' /\ UNCHANGED <<contour, downloaded, played>>
<1>1. CASE Fail("noClient") \/ Fail("rejected")
  BY <1>1, FailOrder
<1>2. CASE ~Fail("noClient") /\ ~Fail("rejected")
  <2>1. /\ ctl = "actions" /\ ctl' \in {"loop", "actions"}
        /\ queue' = queue \o Head(actions).reqs /\ actions' = Tail(actions)
        /\ UNCHANGED <<events, contour, delayedRequests, thread, cbReq, downloaded, played>>
    BY <1>2 DEF ProcessAction, ProcessActionStartDownload, logicVars, storage, reader
  <2>2. actions # <<>>
    BY <2>1 DEF OrderInv, ActionsRemain
  <2>3. /\ Head(actions) = actions[1] /\ Head(actions) \in ControlLogicAction
        /\ Tail(actions) \in Seq(ControlLogicAction) /\ Len(Tail(actions)) = Len(actions) - 1
    BY <2>2, TailFacts DEF OrderInv, TypeOK
  <2>4. /\ Len(actions) = 1 /\ delayedRequests = <<>> /\ queue = <<>>
        /\ AreTheMissing(actions[1].reqs)
    BY <2>2 DEF OrderInv, OrderParts, MissingInOnePlace
  <2>5. actions' = <<>>
    <3>1. Len(Tail(actions)) = 0
      BY <2>3, <2>4
    <3> QED
      BY <2>1, <2>3, <3>1, EmptySeq
  <2>6. queue' = actions[1].reqs
    <3>1. actions[1].reqs \in Seq(HttpRequest)
      BY <2>3 DEF ControlLogicAction
    <3>2. queue' = <<>> \o actions[1].reqs
      BY <2>1, <2>3, <2>4
    <3> QED
      BY <3>1, <3>2, ConcatEmptySeq
  <2>7. N' = N
    BY <2>1 DEF N
  <2>8. AreTheMissing(queue)'
    BY <2>1, <2>4, <2>6, <2>7 DEF AreTheMissing
  <2>9. MissingInOnePlace'
    BY <2>1, <2>4, <2>5, <2>8 DEF MissingInOnePlace
  <2>10. StoredInOrder'
    BY <2>1, <2>7 DEF OrderInv, OrderParts, StoredInOrder
  <2>11. ReceivedIsStored'
    BY <2>1, <2>2, ReceivedStep DEF OrderInv, OrderParts, ChangesEvents
  <2> QED
    BY <2>1, <2>9, <2>10, <2>11 DEF OrderParts, NothingRequested
<1> QED
  BY <1>1, <1>2

LEMMA CleanUpOrder ==
  ASSUME OrderInv, CleanUp
  PROVE  OrderParts' /\ UNCHANGED <<contour, downloaded, played>>
<1>1. /\ ctl = "ended" /\ events' = <<>> /\ actions' = <<>>
      /\ UNCHANGED <<ctl, contour, delayedRequests, queue, thread, cbReq, downloaded, played>>
  BY DEF CleanUp, logicVars, client, storage, reader
<1>2. StoredInOrder' /\ MissingInOnePlace'
  BY <1>1
     DEF OrderInv, OrderParts, StoredInOrder, MissingInOnePlace, AreTheMissing, N
<1>3. ReceivedIsStored'
  BY <1>1, ReceivedStep DEF OrderInv, OrderParts, ChangesEvents
<1> QED
  BY <1>1, <1>2, <1>3 DEF OrderParts, NothingRequested

LEMMA ProcessEventOrder ==
  ASSUME OrderInv, ~FetchHeads, ProcessEvent
  PROVE  /\ OrderParts' /\ UNCHANGED <<downloaded, played>>
         /\ \/ contour' = contour
            \/ contour' = contour + 1 /\ contour < LastSeg /\ N = contour + 1
            \/ contour' = 1 /\ contour = -1
<1> DEFINE e == Head(events)
<1>1. events # <<>> /\ ctl = "loop" /\ Dispatch(e)
  BY DEF ProcessEvent
<1>2. e \in ControlLogicEvent /\ 1 \in DOMAIN events /\ e = events[1]
  BY <1>1, TailFacts DEF OrderInv, TypeOK
<1> HIDE DEF e
<1>3. CASE Fail("unexpectedEvent")
  BY <1>3, FailOrder
<1>4. CASE e.type = "dataReceived" /\ e.content = Mpd /\ contour = -1 /\ ProcessMpd
  BY <1>1, <1>4, ProcessMpdOrder DEF e
<1>5. CASE /\ e.type = "dataReceived" /\ e.content # Mpd /\ contour # -1
           /\ ProcessSegment(e.content, e.beta)
  <2>1. e.content \in Seg
    BY <1>2, <1>5, ContentFacts DEF ControlLogicEvent
  <2>2. e.content \in downloaded
    BY <1>2, <1>5 DEF OrderInv, OrderParts, ReceivedIsStored, IsStored
  <2> QED
    BY <1>1, <1>5, <2>1, <2>2, ProcessSegmentOrder
<1>6. CASE ProcessDataPlayed(e.beta)
  BY <1>1, <1>6, ProcessDataPlayedOrder
<1>7. CASE ProcessDisconnect(e.conn)
  BY <1>1, <1>7, ProcessDisconnectOrder
<1> QED
  BY <1>1, <1>3, <1>4, <1>5, <1>6, <1>7 DEF Dispatch, ProcessDataReceived
-----------------------------------------------------------------------------
(* The refinement *)

LEMMA OrderInit == Init => OrderInv /\ Ordered!Init
<1> SUFFICES ASSUME Init PROVE OrderInv /\ Ordered!Init
  OBVIOUS
<1>1. /\ downloaded = {} /\ contour = -1 /\ played = -1 /\ queue = <<>> /\ actions = <<>>
      /\ delayedRequests = <<>> /\ events = <<>> /\ thread = "none"
  BY DEF Init, ControlLogicInit
<1>2. N = 0
  BY <1>1, FS_EmptySet DEF N
<1>3. StoredInOrder
  BY <1>1, <1>2 DEF StoredInOrder
<1>4. MissingInOnePlace /\ ReceivedIsStored /\ NothingRequested
  BY <1>1 DEF MissingInOnePlace, ReceivedIsStored, NothingRequested
<1>5. Ordered!Init
  BY <1>1, <1>2 DEF Ordered!Init, N
<1> QED
  BY <1>3, <1>4, <1>5, TypeInit DEF OrderInv, OrderParts

LEMMA OrderedUntouched ==
  UNCHANGED <<contour, downloaded, played>> => UNCHANGED Ordered!orderedVars
BY DEF Ordered!orderedVars

LEMMA OrderStep ==
  ASSUME ~FetchHeads, OrderInv, [Next]_vars
  PROVE  OrderParts' /\ [Ordered!Next]_(Ordered!orderedVars)
<1>1. CASE ProcessEvent
  <2>1. /\ OrderParts' /\ UNCHANGED <<downloaded, played>>
        /\ \/ contour' = contour
           \/ contour' = contour + 1 /\ contour < LastSeg /\ N = contour + 1
           \/ contour' = 1 /\ contour = -1
    BY <1>1, ProcessEventOrder
  <2>2. CASE contour' = contour
    BY <2>1, <2>2, OrderedUntouched
  <2>3. CASE contour' # contour
    <3>1. contour' \in (contour + 1)..LastSeg /\ contour' <= N - 1 + 2
      BY <2>1, <2>3, OrderFacts, ContentFacts
    <3>2. Ordered!Request
      BY <2>1, <3>1 DEF Ordered!Request, N
    <3> QED
      BY <2>1, <3>2 DEF Ordered!Next
  <2> QED
    BY <2>1, <2>2, <2>3
<1>2. CASE CompleteRequest
  <2>1. /\ OrderParts' /\ UNCHANGED <<contour, played>>
        /\ N' = N \/ (N' = N + 1 /\ N <= contour)
    BY <1>2, CompleteRequestOrder
  <2>2. CASE N' = N
    BY <2>1, <2>2 DEF Ordered!orderedVars, N
  <2>3. CASE N' = N + 1 /\ N <= contour
    <3>1. N - 1 < contour /\ N' - 1 = N - 1 + 1
      BY <2>3, OrderFacts
    <3>2. Ordered!Arrive
      BY <2>1, <3>1 DEF Ordered!Arrive, N
    <3> QED
      BY <2>1, <3>2 DEF Ordered!Next
  <2> QED
    BY <2>1, <2>2, <2>3
<1>3. CASE VlcCb
  <2>1. /\ UNCHANGED <<events, contour, queue, actions, delayedRequests, downloaded, thread,
                       cbReq, ctl>>
    BY <1>3 DEF VlcCb, control, logicVars, client, storage
  <2>2. OrderParts'
    BY <2>1, QuietStep DEF ChangesEvents
  <2>3. PICK p \in (played + 1)..contour : (played + 1)..p \subseteq downloaded /\ played' = p
    BY <1>3 DEF VlcCb
  <2>4. p \in Int /\ played \in Int /\ p \in downloaded
    BY <2>3, OrderFacts DEF OrderInv, TypeOK, Content, Seg, Mpd
  <2>5. played' \in (played + 1)..(N - 1)
    BY <2>3, <2>4, OrderFacts DEF OrderInv, OrderParts, StoredInOrder
  <2>6. Ordered!Give
    BY <2>1, <2>5 DEF Ordered!Give, N
  <2> QED
    BY <2>2, <2>6 DEF Ordered!Next
<1>4. CASE StartPlayback \/ ProcessAction \/ CleanUp
  BY <1>4, StartPlaybackOrder, ProcessActionOrder, CleanUpOrder, OrderedUntouched
<1>5. CASE StartActions \/ LeaveLoop \/ Close \/ PushDataPlayed \/ UNCHANGED vars
  <2>1. /\ UNCHANGED <<contour, queue, actions, delayedRequests, downloaded, thread, cbReq, played>>
        /\ ctl' = "start" => ctl = "start"
        /\ ChangesEvents
    BY <1>5
       DEF StartActions, LeaveLoop, Close, PushDataPlayed, vars, ChangesEvents,
           control, logicVars, client, storage, reader
  <2> QED
    BY <2>1, QuietStep, OrderedUntouched
<1>6. CASE LoseConnection \/ HttpThread \/ DestroyClient
  <2>1. ASSUME NEW where, Fail(where) PROVE OrderParts' /\ UNCHANGED <<contour, downloaded, played>>
    BY <2>1, FailOrder
  <2>2. CASE Fail("mutexDestroyed") \/ Fail("mpdNotPlaying") \/ Fail("destructor")
    BY <2>1, <2>2, OrderedUntouched
  <2>3. CASE ~(Fail("mutexDestroyed") \/ Fail("mpdNotPlaying") \/ Fail("destructor"))
    <3>1. /\ UNCHANGED <<ctl, contour, queue, actions, delayedRequests, downloaded, cbReq, played>>
          /\ thread' \in {"locking", "pushing"} => thread \in {"locking", "pushing"}
          /\ thread # "none" \/ thread' = thread
          /\ ChangesEvents
      BY <1>6, <2>3
         DEF LoseConnection, HttpThread, ComputeBeta, PushDataReceived, PushDisconnect,
             DestroyClient, ChangesEvents, control, logicVars, client, storage, reader
    <3> QED
      BY <3>1, QuietStep, OrderedUntouched
  <2> QED
    BY <2>2, <2>3
<1> QED
  BY <1>1, <1>2, <1>3, <1>4, <1>5, <1>6 DEF Next, ControlThread, Vlc

\* If the sizes of the segments are not asked for: however the three threads, losses
\* of connections, replacements and delays interleave, and however the process ends,
\* segments are requested, arrive and are given to VLC in order, each once, at most
\* two requested ones are missing, and the storage holds no gap.
THEOREM Refinement ==
  ASSUME ~FetchHeads
  PROVE  Spec => DownloadsInOrder
<1>1. Init => OrderInv /\ Ordered!Init
  BY OrderInit
<1>2. OrderInv /\ [Next]_vars => OrderInv' /\ [Ordered!Next]_(Ordered!orderedVars)
  BY OrderStep, TypeStep, ActionsRemainStep DEF OrderInv
<1>3. OrderInv => downloaded = 0..(Cardinality(downloaded) - 1)
  BY DEF OrderInv, OrderParts, StoredInOrder, N
<1> QED
  BY <1>1, <1>2, <1>3, PTL DEF Spec, Ordered!Spec, DownloadsInOrder

-----------------------------------------------------------------------------
(* The sizes of the segments *)

\* The MPD is requested, answered and not processed.
AwaitMpd ==
  /\ segmentSizes = {}
  /\ \/ /\ ctl = "start" /\ tcpConnectionId = 0 /\ thread = "none"
        /\ queue = <<>> /\ actions = <<>> /\ events = <<>>
     \/ /\ ctl # "start" /\ tcpConnectionId = 1
        /\ \/ /\ served = 0 /\ thread = "run" /\ events = <<>>
              /\ \/ queue = <<>> /\ actions = <<StartDownload(1, <<GetRequest(Mpd)>>)>>
                 \/ queue = <<GetRequest(Mpd)>> /\ actions = <<>>
           \/ /\ served = 1 /\ queue = <<>> /\ actions = <<>>
              /\ \/ thread = "pushing" /\ cbReq = NoRequest /\ events = <<>>
                 \/ /\ thread = "run" /\ Len(events) = 1
                    /\ events[1].type = "dataReceived" /\ events[1].content = Mpd

\* The sizes of the segments before h have been answered, and the others are next.
AwaitSize(h) ==
  /\ ctl # "start" /\ tcpConnectionId = 1 /\ thread = "run" /\ events = <<>>
  /\ segmentSizes = 0..(h - 1)
  /\ served = h + 1 /\ served < Limit
  /\ h > 0 => LastSeg + 2 < Limit
  /\ \/ h = 0 /\ queue = <<>> /\ actions = FollowMpd
     \/ /\ Len(queue) >= LastSeg + 1 - h
        /\ \A i \in 1..(LastSeg + 1 - h) : queue[i] = HeadRequest(h + i - 1)
        /\ actions \in {FetchFirst, <<>>}

\* A server that serves two requests has used up the connection with the first size.
\* Whatever is asked for from then on are two requests or more at once, and the first
\* of them is answered by the server with a keep-alive limit that the client refuses.
UsedUp ==
  /\ Limit = 2 /\ ctl # "start" /\ thread \in {"run", "disconnect", "done"}
  /\ \A i \in DOMAIN events : events[i].type = "disconnect"
  /\ \A i \in DOMAIN actions : Len(actions[i].reqs) >= 2
  /\ \/ served = 2 /\ Len(queue) >= 2
     \/ served = 0 /\ (queue = <<>> \/ Len(queue) >= 2)

SizesOutstanding ==
  /\ downloaded = {} /\ vlc = "idle"
  /\ AwaitMpd \/ (\E h \in 0..LastSeg : AwaitSize(h)) \/ UsedUp

SizesFirst ==
  FetchHeads /\ lost = 0 /\ state = "Playing" => segmentSizes = Seg \/ SizesOutstanding

\* Two sequences of one element.
LEMMA PairConcat ==
  ASSUME NEW a, NEW b
  PROVE  <<a>> \o <<b>> = <<a, b>>
<1>1. <<a>> \in Seq({a, b}) /\ <<b>> \in Seq({a, b})
  BY SingletonFacts
<1>2. /\ <<a>> \o <<b>> \in Seq({a, b}) /\ Len(<<a>> \o <<b>>) = 2
      /\ (<<a>> \o <<b>>)[1] = a /\ (<<a>> \o <<b>>)[2] = b
  BY <1>1, ConcatProperties
<1>3. <<a, b>> \in Seq({a, b}) /\ Len(<<a, b>>) = 2 /\ <<a, b>>[1] = a /\ <<a, b>>[2] = b
  OBVIOUS
<1>4. \A i \in 1..2 : i = 1 \/ i = 2
  OBVIOUS
<1> QED
  BY <1>2, <1>3, <1>4, SeqEqual

\* What the MPD asks for.
LEMMA FollowMpdRequests ==
  ASSUME TypeOK, FetchHeads
  PROVE  /\ FollowMpd # <<>> /\ Tail(FollowMpd) = FetchFirst /\ Tail(FetchFirst) = <<>>
         /\ FollowMpd # FetchFirst
         /\ Head(FollowMpd).reqs = [i \in 1..(LastSeg + 1) |-> HeadRequest(i - 1)]
         /\ Head(FetchFirst).reqs = <<GetRequest(0), GetRequest(1)>>
<1> DEFINE heads == [i \in 1..(LastSeg + 1) |-> HeadRequest(i - 1)]
           asks == StartDownload(tcpConnectionId, heads)
           first == StartDownload(tcpConnectionId, <<GetRequest(0), GetRequest(1)>>)
<1>1. FetchSizes = <<asks>> /\ FetchFirst = <<first>>
  BY DEF FetchSizes, FetchFirst
<1>2. asks.reqs = heads /\ first.reqs = <<GetRequest(0), GetRequest(1)>>
  BY DEF StartDownload
<1> HIDE DEF asks, first, heads
<1>3. FollowMpd = <<asks, first>>
  BY <1>1, PairConcat DEF FollowMpd
<1> QED
  BY <1>1, <1>2, <1>3 DEF heads

\* The requests of an action come behind those the client has.
LEMMA QueueGrows ==
  ASSUME TypeOK, ActionsRemain, ProcessAction, UNCHANGED fault
  PROVE  /\ actions # <<>> /\ actions' = Tail(actions) /\ queue' = queue \o Head(actions).reqs
         /\ ctl' # "start" /\ Head(actions).reqs \in Seq(HttpRequest)
         /\ Len(queue') = Len(queue) + Len(Head(actions).reqs)
         /\ \A i \in 1..Len(queue) : queue'[i] = queue[i]
         /\ UNCHANGED <<state, events, tcpConnectionId, served, thread, cbReq, lost,
                        downloaded, segmentSizes, vlc>>
<1>1. actions # <<>>
  BY DEF ProcessAction, ActionsRemain
<1>2. ~Fail("noClient") /\ ~Fail("rejected")
  BY DEF Fail, ProcessAction, Running
<1>3. /\ actions' = Tail(actions) /\ queue' = queue \o Head(actions).reqs /\ ctl' # "start"
      /\ UNCHANGED <<state, events, tcpConnectionId, served, thread, cbReq, lost,
                     downloaded, segmentSizes, vlc>>
  BY <1>2 DEF ProcessAction, ProcessActionStartDownload, storage, reader
<1>4. Head(actions) \in ControlLogicAction
  BY <1>1, TailFacts DEF TypeOK
<1>5. Head(actions).reqs \in Seq(HttpRequest) /\ queue \in Seq(HttpRequest)
  BY <1>4 DEF ControlLogicAction, TypeOK
<1>6. /\ Len(queue') = Len(queue) + Len(Head(actions).reqs)
      /\ \A i \in 1..Len(queue) + Len(Head(actions).reqs) :
           queue'[i] = IF i <= Len(queue) THEN queue[i]
                       ELSE Head(actions).reqs[i - Len(queue)]
  BY <1>3, <1>5, ConcatProperties
<1>7. Len(queue) \in Nat /\ Len(Head(actions).reqs) \in Nat
  BY <1>5, LenProperties
<1>8. \A i \in 1..Len(queue) : queue'[i] = queue[i]
  BY <1>6, <1>7
<1> QED
  BY <1>1, <1>3, <1>5, <1>6, <1>8

\* The sizes are still outstanding, and nothing has ended the process.
Outstanding ==
  TypeOK /\ ActionsRemain /\ FetchHeads /\ lost = 0 /\ state = "Playing" /\ SizesOutstanding

LEMMA StartPlaybackSizes ==
  ASSUME Outstanding, StartPlayback, UNCHANGED fault
  PROVE  SizesOutstanding'
<1>1. /\ CreateClient /\ ctl' = "loop" /\ ctl = "start"
      /\ actions' = actions \o <<StartDownload(tcpConnectionId + 1, <<GetRequest(Mpd)>>)>>
      /\ UNCHANGED <<events, downloaded, segmentSizes, vlc>>
  BY DEF Outstanding, StartPlayback, Fail, Running, Issue, storage, reader
<1>2. tcpConnectionId = 0 /\ actions = <<>> /\ events = <<>> /\ segmentSizes = {}
  BY <1>1 DEF Outstanding, ActionsRemain, SizesOutstanding, AwaitMpd, AwaitSize, UsedUp
<1>3. actions' = <<StartDownload(1, <<GetRequest(Mpd)>>)>>
  BY <1>1, <1>2
<1>4. AwaitMpd'
  BY <1>1, <1>2, <1>3 DEF AwaitMpd, CreateClient
<1> QED
  BY <1>1, <1>4 DEF Outstanding, SizesOutstanding

LEMMA ProcessActionSizes ==
  ASSUME Outstanding, ProcessAction, UNCHANGED fault
  PROVE  SizesOutstanding'
<1>1. /\ actions # <<>> /\ actions' = Tail(actions) /\ queue' = queue \o Head(actions).reqs
      /\ ctl' # "start" /\ Head(actions).reqs \in Seq(HttpRequest)
      /\ Len(queue') = Len(queue) + Len(Head(actions).reqs)
      /\ \A i \in 1..Len(queue) : queue'[i] = queue[i]
      /\ UNCHANGED <<state, events, tcpConnectionId, served, thread, cbReq, lost,
                     downloaded, segmentSizes, vlc>>
  BY QueueGrows DEF Outstanding
<1>2. queue \in Seq(HttpRequest) /\ Len(queue) \in Nat /\ Len(Head(actions).reqs) \in Nat
  BY <1>1, LenProperties DEF Outstanding, TypeOK
<1>3. CASE AwaitMpd
  <2>1. /\ ctl # "start" /\ tcpConnectionId = 1 /\ served = 0 /\ thread = "run" /\ events = <<>>
        /\ segmentSizes = {} /\ queue = <<>> /\ actions = <<StartDownload(1, <<GetRequest(Mpd)>>)>>
    BY <1>1, <1>3 DEF AwaitMpd, ProcessAction
  <2>2. Head(actions).reqs = <<GetRequest(Mpd)>> /\ Tail(actions) = <<>>
    BY <2>1 DEF StartDownload
  <2>3. queue' = <<GetRequest(Mpd)>> /\ actions' = <<>>
    BY <1>1, <2>1, <2>2
  <2>4. AwaitMpd'
    BY <1>1, <2>1, <2>3 DEF AwaitMpd
  <2> QED
    BY <1>1, <2>4 DEF Outstanding, SizesOutstanding
<1>4. ASSUME NEW h \in 0..LastSeg, AwaitSize(h) PROVE AwaitSize(h)'
  <2>1. CASE h = 0 /\ queue = <<>> /\ actions = FollowMpd
    <3>1. actions' = FetchFirst'
      BY <1>1, <2>1, FollowMpdRequests DEF Outstanding, FetchFirst
    <3>2. queue' = [i \in 1..(LastSeg + 1) |-> HeadRequest(i - 1)]
      BY <1>1, <2>1, FollowMpdRequests DEF Outstanding
    <3>3. Len(queue') = LastSeg + 1
      BY <3>2, ContentFacts
    <3>4. Len(queue') >= LastSeg + 1 - h /\ \A i \in 1..(LastSeg + 1 - h) : queue'[i] = HeadRequest(h + i - 1)
      BY <2>1, <3>2, <3>3, ContentFacts
    <3> QED
      BY <1>1, <1>4, <3>1, <3>4 DEF AwaitSize
  <2>2. CASE /\ Len(queue) >= LastSeg + 1 - h
             /\ \A i \in 1..(LastSeg + 1 - h) : queue[i] = HeadRequest(h + i - 1)
             /\ actions = FetchFirst
    <3>1. actions' = <<>>
      BY <1>1, <2>2, FollowMpdRequests DEF Outstanding
    <3>2. Len(queue') >= LastSeg + 1 - h
      BY <1>1, <1>2, <2>2, ContentFacts
    <3>3. \A i \in 1..(LastSeg + 1 - h) : i \in 1..Len(queue)
      BY <1>2, <2>2, ContentFacts
    <3>4. \A i \in 1..(LastSeg + 1 - h) : queue'[i] = HeadRequest(h + i - 1)
      BY <1>1, <2>2, <3>3
    <3> QED
      BY <1>1, <1>4, <3>1, <3>2, <3>4 DEF AwaitSize
  <2> QED
    BY <1>1, <1>4, <2>1, <2>2 DEF AwaitSize
<1>5. CASE UsedUp
  <2>1. Head(actions) = actions[1] /\ 1 \in DOMAIN actions
    BY <1>1, TailFacts DEF Outstanding, TypeOK
  <2>2. Len(queue') >= 2
    BY <1>1, <1>2, <1>5, <2>1 DEF UsedUp
  <2>3. \A i \in DOMAIN actions' : Len(actions'[i].reqs) >= 2
    BY <1>1, <1>5, TailFacts DEF Outstanding, TypeOK, UsedUp
  <2>4. UsedUp'
    BY <1>1, <1>5, <2>2, <2>3 DEF UsedUp
  <2> QED
    BY <1>1, <2>4 DEF Outstanding, SizesOutstanding
<1> QED
  BY <1>1, <1>3, <1>4, <1>5 DEF Outstanding, SizesOutstanding

\* What the sizes depend on is left alone.
LEMMA UntouchedSizes ==
  ASSUME Outstanding, ctl' # ctl => ctl # "start" /\ ctl' # "start",
         UNCHANGED <<tcpConnectionId, served, thread, cbReq, queue, actions, events,
                     segmentSizes, downloaded, vlc>>
  PROVE  SizesOutstanding'
<1>1. FollowMpd' = FollowMpd /\ FetchFirst' = FetchFirst
  BY DEF FollowMpd, FetchSizes, FetchFirst
<1>2. AwaitMpd => AwaitMpd'
  BY DEF AwaitMpd
<1>3. \A h \in 0..LastSeg : AwaitSize(h) => AwaitSize(h)'
  BY <1>1 DEF AwaitSize
<1>4. UsedUp => UsedUp'
  BY DEF UsedUp
<1> QED
  BY <1>2, <1>3, <1>4 DEF Outstanding, SizesOutstanding

\* What was unfinished on a used-up connection is restarted, all of it at once.
LEMMA ProcessDisconnectSizes ==
  ASSUME Outstanding, UsedUp, NEW conn, ProcessDisconnect(conn), UNCHANGED fault, Running,
         ctl = "loop", events # <<>>
  PROVE  SizesOutstanding'
<1>1. ~Fail("joinDeadlock") /\ ~Fail("restartMpd")
  BY DEF Fail, Running
<1>2. /\ Tail(events) \in Seq(ControlLogicEvent)
      /\ \A i \in DOMAIN Tail(events) : Tail(events)[i].type = "disconnect"
  BY TailFacts DEF Outstanding, TypeOK, UsedUp
<1>3. CASE conn < tcpConnectionId
  <2>1. /\ events' = Tail(events)
        /\ UNCHANGED <<ctl, actions, queue, served, thread, downloaded, vlc>>
    BY <1>3 DEF ProcessDisconnect, control, client, storage, reader
  <2> QED
    BY <1>2, <2>1 DEF Outstanding, SizesOutstanding, UsedUp
<1>4. CASE ~(conn < tcpConnectionId)
  <2>1. /\ CreateClient /\ events' = Tail(events) \o InFlight
        /\ actions' = actions \o (IF queue = <<>> THEN <<>>
                                  ELSE <<StartDownload(tcpConnectionId + 1, Restarted(queue))>>)
        /\ UNCHANGED <<ctl, downloaded, vlc>>
    BY <1>1, <1>4 DEF ProcessDisconnect, Issue, control, storage, reader
  <2>2. \A i \in DOMAIN events' : events'[i].type = "disconnect"
    <3>1. InFlight \in Seq(ControlLogicEvent) /\ \A i \in DOMAIN InFlight : InFlight[i].type = "disconnect"
      BY InFlightType DEF Outstanding, UsedUp, Disconnect
    <3> QED
      BY <1>2, <2>1, <3>1, ConcatFacts
  <2>3. \A i \in DOMAIN actions' : Len(actions'[i].reqs) >= 2
    <3>1. actions \in Seq(ControlLogicAction) /\ tcpConnectionId + 1 \in Nat
      BY DEF Outstanding, TypeOK
    <3>2. CASE queue = <<>>
      BY <2>1, <3>1, <3>2 DEF UsedUp
    <3>3. CASE queue # <<>>
      <4> DEFINE a == StartDownload(tcpConnectionId + 1, Restarted(queue))
      <4>1. Restarted(queue) \in Seq(HttpRequest) /\ Len(Restarted(queue)) = Len(queue)
        <5>1. queue \in Seq(HttpRequest) /\ Len(queue) \in Nat /\ DOMAIN queue = 1..Len(queue)
          BY LenProperties DEF Outstanding, TypeOK
        <5>2. Restarted(queue) \in Seq(HttpRequest)
          BY RestartedType DEF Outstanding, TypeOK
        <5>3. DOMAIN Restarted(queue) = 1..Len(queue)
          BY <5>1 DEF Restarted
        <5> QED
          BY <5>1, <5>2, <5>3, LenProperties
      <4>2. <<a>> \in Seq(ControlLogicAction) /\ a.reqs = Restarted(queue)
        BY <3>1, <4>1, ActionType
      <4>3. Len(queue) >= 2
        BY <3>3 DEF UsedUp
      <4> HIDE DEF a
      <4>4. \A i \in DOMAIN <<a>> : Len(<<a>>[i].reqs) >= 2
        BY <4>1, <4>2, <4>3
      <4>5. actions' = actions \o <<a>>
        BY <2>1, <3>3 DEF a
      <4> QED
        BY <3>1, <4>2, <4>4, <4>5, ConcatFacts DEF UsedUp
    <3> QED
      BY <3>2, <3>3
  <2>4. UsedUp'
    BY <2>1, <2>2, <2>3 DEF UsedUp, CreateClient
  <2> QED
    BY <2>1, <2>4 DEF Outstanding, SizesOutstanding
<1> QED
  BY <1>3, <1>4

\* While the sizes are outstanding the events are that of the MPD and disconnects.
LEMMA ProcessEventSizes ==
  ASSUME Outstanding, ProcessEvent, UNCHANGED fault
  PROVE  SizesOutstanding'
<1> DEFINE e == Head(events)
<1>1. /\ ctl = "loop" /\ events # <<>> /\ e = events[1] /\ Running
      /\ 1 \in DOMAIN events /\ Tail(events) \in Seq(ControlLogicEvent)
      /\ Len(Tail(events)) = Len(events) - 1
      /\ Dispatch(e)
  BY TailFacts DEF Outstanding, ProcessEvent, TypeOK
<1>2. ~Fail("unexpectedEvent")
  BY <1>1 DEF Fail, Running
<1> HIDE DEF e
<1>3. CASE AwaitMpd
  <2>1. /\ tcpConnectionId = 1 /\ served = 1 /\ queue = <<>> /\ actions = <<>>
        /\ thread = "run" /\ Len(events) = 1 /\ segmentSizes = {}
        /\ e.type = "dataReceived" /\ e.content = Mpd
    BY <1>1, <1>3 DEF AwaitMpd
  <2>2. ProcessMpd
    BY <1>1, <1>2, <2>1 DEF Dispatch, ProcessDataReceived
  <2>3. /\ events' = Tail(events) /\ actions' = actions \o FollowMpd
        /\ UNCHANGED <<state, ctl, tcpConnectionId, queue, served, thread, vlc, downloaded,
                       segmentSizes>>
    BY <2>2 DEF ProcessMpd, Issue, control, client, storage, reader
  <2>4. events' = <<>>
    BY <1>1, <2>1, <2>3, EmptySeq
  <2>5. actions' = FollowMpd'
    <3>1. FollowMpd \in Seq(ControlLogicAction)
      BY FollowMpdType DEF Outstanding
    <3>2. FollowMpd' = FollowMpd
      BY <2>3 DEF FollowMpd, FetchSizes, FetchFirst
    <3> QED
      BY <2>1, <2>3, <3>1, <3>2
  <2>6. 0 \in 0..LastSeg /\ 0..(0 - 1) = {} /\ 1 < Limit
    BY ControlLoopAssumption
  <2>7. AwaitSize(0)'
    BY <1>1, <2>1, <2>3, <2>4, <2>5, <2>6 DEF AwaitSize
  <2> QED
    BY <2>3, <2>6, <2>7 DEF Outstanding, SizesOutstanding
<1>4. ASSUME NEW h \in 0..LastSeg, AwaitSize(h) PROVE FALSE
  BY <1>1, <1>4 DEF AwaitSize
<1>5. CASE UsedUp
  <2>1. e.type = "disconnect"
    BY <1>1, <1>5 DEF UsedUp
  <2>2. ProcessDisconnect(e.conn)
    BY <1>1, <2>1 DEF Dispatch
  <2> QED
    BY <1>1, <1>5, <2>2, ProcessDisconnectSizes
<1> QED
  BY <1>3, <1>4, <1>5 DEF Outstanding, SizesOutstanding

LEMMA CompleteRequestSizes ==
  ASSUME Outstanding, CompleteRequest, UNCHANGED fault
  PROVE  segmentSizes' = Seg \/ SizesOutstanding'
<1> DEFINE req == Head(queue)
<1>1. ~Fail("requestsDeleted") /\ ~Fail("keepAlive") /\ ~Fail("segmentSizes")
  BY DEF Fail, CompleteRequest, Running
<1>2. /\ queue # <<>> /\ served < Limit
      /\ KeepAliveMaxRemaining = 0 => served + 1 = Limit
      /\ queue' = Tail(queue) /\ served' = served + 1 /\ cbReq' = req
      /\ req.method = "HEAD" => downloaded' = downloaded
      /\ req.content = Mpd => downloaded' \in {downloaded, downloaded \cup ({Mpd} \ {Mpd})}
      /\ segmentSizes' = IF req.method = "HEAD" THEN segmentSizes \cup {req.content}
                         ELSE segmentSizes
      /\ req.content = Mpd => thread' = "pushing"
      /\ req.content # Mpd /\ req.method = "HEAD" => thread' = "run"
      /\ UNCHANGED <<state, ctl, events, actions, tcpConnectionId, lost, vlc>>
  BY <1>1 DEF Outstanding, CompleteRequest, control, reader
<1>3. /\ queue \in Seq(HttpRequest) /\ Len(queue) \in Nat /\ served \in Nat /\ req = queue[1]
      /\ Limit \in Nat /\ Limit >= 2
      /\ Len(Tail(queue)) = Len(queue) - 1
      /\ \A i \in 1..(Len(queue) - 1) : Tail(queue)[i] = queue[i + 1]
  BY <1>2, TailFacts, HeadTailProperties, LenProperties, ControlLoopAssumption DEF Outstanding, TypeOK
\* All that has been requested is sent, or as much as the server still accepts.
<1>4. KeepAliveMaxRemaining # 0 => served + Len(queue) < Limit
  BY <1>3 DEF KeepAliveMaxRemaining, Sent
<1> HIDE DEF req
<1>5. CASE AwaitMpd
  <2>1. /\ ctl # "start" /\ tcpConnectionId = 1 /\ served = 0 /\ events = <<>>
        /\ segmentSizes = {} /\ queue = <<GetRequest(Mpd)>> /\ actions = <<>>
    BY <1>2, <1>5 DEF AwaitMpd
  <2>2. req = NoRequest /\ req.content = Mpd /\ req.method = "GET" /\ Tail(queue) = <<>>
    BY <1>3, <2>1 DEF NoRequest, GetRequest
  <2>3. AwaitMpd'
    BY <1>2, <2>1, <2>2 DEF AwaitMpd
  <2> QED
    BY <1>2, <2>2, <2>3 DEF Outstanding, SizesOutstanding
<1>6. ASSUME NEW h \in 0..LastSeg, AwaitSize(h) PROVE segmentSizes' = Seg \/ SizesOutstanding'
  <2>1. /\ ctl # "start" /\ tcpConnectionId = 1 /\ thread = "run" /\ events = <<>>
        /\ segmentSizes = 0..(h - 1) /\ served = h + 1
        /\ h > 0 => LastSeg + 2 < Limit
        /\ Len(queue) >= LastSeg + 1 - h
        /\ \A i \in 1..(LastSeg + 1 - h) : queue[i] = HeadRequest(h + i - 1)
        /\ actions \in {FetchFirst, <<>>}
    BY <1>2, <1>6 DEF AwaitSize
  <2>2. LastSeg \in Nat /\ LastSeg >= 2 /\ h \in Nat /\ h <= LastSeg
    BY ControlLoopAssumption
  <2>3. req = HeadRequest(h)
    BY <1>3, <2>1, <2>2
  <2>4. req.content = h /\ req.method = "HEAD" /\ h # Mpd
    BY <2>2, <2>3 DEF HeadRequest, Mpd
  <2>5. segmentSizes' = 0..h
    BY <1>2, <2>1, <2>2, <2>4
  <2>6. /\ thread' = "run" /\ downloaded' = {} /\ vlc' = "idle"
    BY <1>2, <2>4 DEF Outstanding, SizesOutstanding
  <2>7. CASE h = LastSeg
    BY <2>5, <2>7 DEF Seg
  <2>8. CASE h < LastSeg /\ h + 2 = Limit
    <3>1. h = 0 /\ Limit = 2
      BY <2>1, <2>2, <2>8
    <3>2. served' = 2 /\ Len(queue') >= 2
      BY <1>2, <1>3, <2>1, <2>2, <3>1
    <3>3. \A i \in DOMAIN actions' : Len(actions'[i].reqs) >= 2
      <4>1. CASE actions = <<>>
        BY <1>2, <4>1
      <4>2. CASE actions = FetchFirst
        <5>1. /\ actions' = <<StartDownload(tcpConnectionId, <<GetRequest(0), GetRequest(1)>>)>>
          BY <1>2, <4>2 DEF FetchFirst
        <5>2. StartDownload(tcpConnectionId, <<GetRequest(0), GetRequest(1)>>).reqs
                = <<GetRequest(0), GetRequest(1)>>
          BY DEF StartDownload
        <5>3. Len(<<GetRequest(0), GetRequest(1)>>) = 2
          OBVIOUS
        <5> QED
          BY <5>1, <5>2, <5>3
      <4> QED
        BY <2>1, <4>1, <4>2
    <3>4. UsedUp'
      BY <1>2, <2>1, <2>6, <3>1, <3>2, <3>3 DEF UsedUp
    <3> QED
      BY <2>6, <3>4 DEF SizesOutstanding
  <2>9. CASE h < LastSeg /\ h + 2 # Limit
    <3>1. KeepAliveMaxRemaining # 0
      BY <1>2, <2>1, <2>2, <2>9
    <3>2. LastSeg + 2 < Limit
      BY <1>3, <1>4, <2>1, <2>2, <3>1
    <3>3. h + 1 \in 0..LastSeg /\ (h + 1) - 1 = h /\ served' = (h + 1) + 1 /\ served' < Limit
      BY <1>2, <1>3, <2>1, <2>2, <2>9
    <3>4. /\ Len(queue') >= LastSeg + 1 - (h + 1)
          /\ \A i \in 1..(LastSeg + 1 - (h + 1)) : i \in 1..(Len(queue) - 1) /\ i + 1 \in 1..(LastSeg + 1 - h)
          /\ \A i \in 1..(LastSeg + 1 - (h + 1)) : h + (i + 1) - 1 = (h + 1) + i - 1
      BY <1>2, <1>3, <2>1, <2>2, <2>9
    <3>5. \A i \in 1..(LastSeg + 1 - (h + 1)) : queue'[i] = HeadRequest((h + 1) + i - 1)
      <4> TAKE i \in 1..(LastSeg + 1 - (h + 1))
      <4>1. queue'[i] = queue[i + 1]
        BY <1>2, <1>3, <3>4
      <4>2. queue[i + 1] = HeadRequest(h + (i + 1) - 1)
        BY <2>1, <3>4
      <4> QED
        BY <3>4, <4>1, <4>2
    <3>6. actions' \in {FetchFirst, <<>>}' /\ segmentSizes' = 0..((h + 1) - 1)
      BY <1>2, <2>1, <2>5, <3>3 DEF FetchFirst
    <3>7. AwaitSize(h + 1)'
      BY <1>2, <2>1, <2>6, <3>2, <3>3, <3>4, <3>5, <3>6 DEF AwaitSize
    <3> QED
      BY <2>6, <3>3, <3>7 DEF SizesOutstanding
  <2> QED
    BY <2>2, <2>7, <2>8, <2>9
<1>7. CASE UsedUp
  <2>1. served = 0 /\ Len(queue) >= 2 /\ Limit = 2
    BY <1>2, <1>3, <1>7 DEF UsedUp
  <2>2. KeepAliveMaxRemaining # 0 /\ served + Len(queue) >= Limit
    BY <1>2, <1>3, <2>1
  <2> QED
    BY <1>3, <1>4, <2>1, <2>2
<1> QED
  BY <1>5, <1>6, <1>7 DEF Outstanding, SizesOutstanding

LEMMA HttpThreadSizes ==
  ASSUME Outstanding, HttpThread \/ LoseConnection, lost' = 0, UNCHANGED fault
  PROVE  SizesOutstanding'
<1>1. ~Fail("mutexDestroyed") /\ ~Fail("mpdNotPlaying")
  BY DEF Fail, HttpThread, ComputeBeta, PushDataReceived, PushDisconnect, LoseConnection, Running
<1>2. /\ events \in Seq(ControlLogicEvent) /\ InFlight \in Seq(ControlLogicEvent)
      /\ Limit \in Nat /\ Limit >= 2 /\ served \in Nat /\ lost = 0
  BY InFlightType, ControlLoopAssumption DEF Outstanding, TypeOK
<1>3. CASE LoseConnection
  <2>1. /\ served = Limit /\ thread = "run" /\ thread' = "disconnect"
        /\ UNCHANGED <<ctl, events, actions, tcpConnectionId, queue, served, downloaded,
                       segmentSizes, vlc>>
    BY <1>2, <1>3 DEF LoseConnection, control, storage, reader
  <2>2. ~AwaitMpd /\ \A h \in 0..LastSeg : ~AwaitSize(h)
    BY <1>2, <2>1 DEF AwaitMpd, AwaitSize
  <2> QED
    BY <2>1, <2>2 DEF Outstanding, SizesOutstanding, UsedUp
<1>4. CASE ComputeBeta
  BY <1>4 DEF ComputeBeta, Outstanding, SizesOutstanding, AwaitMpd, AwaitSize, UsedUp
<1>5. CASE PushDataReceived
  <2>1. /\ thread = "pushing" /\ thread' = "run" /\ events' = events \o InFlight
        /\ UNCHANGED <<ctl, actions, tcpConnectionId, queue, served, downloaded, segmentSizes, vlc>>
    BY <1>1, <1>5 DEF PushDataReceived, control, storage, reader
  <2>2. /\ AwaitMpd /\ cbReq = NoRequest /\ events = <<>>
    BY <2>1 DEF Outstanding, SizesOutstanding, AwaitMpd, AwaitSize, UsedUp
  <2>3. InFlight = <<DataReceived(Mpd, cbBeta)>>
    BY <2>1, <2>2 DEF InFlight, NoRequest, GetRequest
  <2>4. DataReceived(Mpd, cbBeta).type = "dataReceived" /\ DataReceived(Mpd, cbBeta).content = Mpd
    BY DEF DataReceived
  <2>5. events' = InFlight
    BY <1>2, <2>1, <2>2
  <2>6. /\ Len(events') = 1 /\ events'[1].type = "dataReceived" /\ events'[1].content = Mpd
    BY <2>3, <2>4, <2>5
  <2>7. AwaitMpd'
    BY <2>1, <2>2, <2>6 DEF AwaitMpd
  <2> QED
    BY <2>1, <2>7 DEF Outstanding, SizesOutstanding
<1>6. CASE PushDisconnect
  <2>1. /\ thread = "disconnect" /\ thread' = "done" /\ events' = events \o InFlight
        /\ UNCHANGED <<ctl, actions, tcpConnectionId, queue, served, downloaded, segmentSizes, vlc>>
    BY <1>1, <1>6 DEF PushDisconnect, control, storage, reader
  <2>2. UsedUp
    BY <2>1 DEF Outstanding, SizesOutstanding, AwaitMpd, AwaitSize
  <2>3. \A i \in DOMAIN InFlight : InFlight[i].type = "disconnect"
    BY <2>1, InFlightType DEF Outstanding, Disconnect
  <2>4. \A i \in DOMAIN events' : events'[i].type = "disconnect"
    BY <1>2, <2>1, <2>2, <2>3, ConcatFacts DEF UsedUp
  <2> QED
    BY <2>1, <2>2, <2>4 DEF Outstanding, SizesOutstanding, UsedUp
<1> QED
  BY <1>3, <1>4, <1>5, <1>6 DEF HttpThread

\* VLC cannot read before something has arrived.
LEMMA VlcWaits ==
  ASSUME Outstanding
  PROVE  ~Vlc
<1>1. ~PushDataPlayed
  BY DEF PushDataPlayed, Outstanding, SizesOutstanding
<1>2. ASSUME VlcCb PROVE FALSE
  <2>1. PICK p \in (played + 1)..contour : (played + 1)..p \subseteq downloaded
    BY <1>2 DEF VlcCb
  <2>2. p \in Int /\ played \in Int
    BY ContentFacts DEF Outstanding, TypeOK, Content, Seg, Mpd
  <2> QED
    BY <2>1, <2>2 DEF Outstanding, SizesOutstanding
<1> QED
  BY <1>1, <1>2 DEF Vlc

LEMMA SizesFirstStep ==
  ASSUME TypeOK, ActionsRemain, SizesFirst, [Next]_vars
  PROVE  SizesFirst'
<1>1. SUFFICES ASSUME FetchHeads, lost' = 0, state' = "Playing"
               PROVE  segmentSizes' = Seg \/ SizesOutstanding'
  BY DEF SizesFirst
<1>2. state = "Playing" /\ lost = 0
  <2>1. lost \in Nat
    BY DEF TypeOK
  <2>2. CASE LoseConnection
    BY <1>1, <2>1, <2>2 DEF LoseConnection, control
  <2>3. CASE ~LoseConnection
    <3>1. state' # state => state' # "Playing"
      BY <1>1, <2>3
         DEF Next, ControlThread, HttpThread, Vlc, vars, control, Fail, StartPlayback, ProcessEvent,
             StartActions, ProcessAction, LeaveLoop, CompleteRequest, ComputeBeta,
             PushDataReceived, PushDisconnect, VlcCb, PushDataPlayed, Close, CleanUp, DestroyClient,
             Dispatch, ProcessDataReceived, ProcessMpd, ProcessSegment, ProcessDataPlayed,
             ProcessDisconnect, ProcessActionStartDownload
    <3>2. lost' = lost
      BY <2>3
         DEF Next, ControlThread, HttpThread, Vlc, vars, Fail, StartPlayback, ProcessEvent,
             StartActions, ProcessAction, LeaveLoop, CompleteRequest, ComputeBeta,
             PushDataReceived, PushDisconnect, VlcCb, PushDataPlayed, Close, CleanUp, DestroyClient,
             Dispatch, ProcessDataReceived, ProcessMpd, ProcessSegment, ProcessDataPlayed,
             ProcessDisconnect, ProcessActionStartDownload
    <3> QED
      BY <1>1, <3>1, <3>2
  <2> QED
    BY <2>2, <2>3
<1>3. CASE segmentSizes = Seg
  <2>1. segmentSizes \subseteq segmentSizes'
    BY DEF Next, ControlThread, HttpThread, Vlc, vars, storage, Fail, StartPlayback, ProcessEvent,
           StartActions, ProcessAction, LeaveLoop, CompleteRequest, LoseConnection, ComputeBeta,
           PushDataReceived, PushDisconnect, VlcCb, PushDataPlayed, Close, CleanUp, DestroyClient,
           Dispatch, ProcessDataReceived, ProcessMpd, ProcessSegment, ProcessDataPlayed,
           ProcessDisconnect, ProcessActionStartDownload
  <2> QED
    BY <1>3, <2>1, TypeStep DEF TypeOK
<1>4. CASE segmentSizes # Seg
  <2>1. Outstanding
    BY <1>1, <1>2, <1>4 DEF Outstanding, SizesFirst
  <2>2. CASE fault' # fault
    <3>1. \E where : Fail(where)
      BY <2>2
         DEF Next, ControlThread, HttpThread, Vlc, vars, StartPlayback, ProcessEvent,
             StartActions, ProcessAction, LeaveLoop, CompleteRequest, LoseConnection, ComputeBeta,
             PushDataReceived, PushDisconnect, VlcCb, PushDataPlayed, Close, CleanUp, DestroyClient,
             Dispatch, ProcessDataReceived, ProcessMpd, ProcessSegment, ProcessDataPlayed,
             ProcessDisconnect, ProcessActionStartDownload
    <3>2. UNCHANGED <<ctl, tcpConnectionId, served, thread, cbReq, queue, actions, events,
                      segmentSizes, downloaded, vlc>>
      BY <3>1 DEF Fail, control, client, storage, reader
    <3> QED
      BY <2>1, <3>2, UntouchedSizes
  <2>3. CASE UNCHANGED fault
    <3>1. CASE StartPlayback \/ ProcessAction \/ ProcessEvent \/ CompleteRequest
      BY <2>1, <2>3, <3>1, StartPlaybackSizes, ProcessActionSizes, ProcessEventSizes,
         CompleteRequestSizes
    <3>2. CASE HttpThread \/ LoseConnection
      BY <1>1, <2>1, <2>3, <3>2, HttpThreadSizes
    <3>3. CASE StartActions \/ UNCHANGED vars
      <4>1. /\ ctl' # ctl => ctl # "start" /\ ctl' # "start"
            /\ UNCHANGED <<tcpConnectionId, served, thread, cbReq, queue, actions, events,
                           segmentSizes, downloaded, vlc>>
        BY <3>3 DEF StartActions, vars, control, client, storage, reader
      <4> QED
        BY <2>1, <4>1, UntouchedSizes
    <3>4. CASE LeaveLoop \/ Close \/ CleanUp \/ DestroyClient
      BY <1>1, <1>2, <3>4 DEF LeaveLoop, Close, CleanUp, DestroyClient
    <3>5. CASE Vlc
      BY <2>1, <3>5, VlcWaits
    <3> QED
      BY <3>1, <3>2, <3>3, <3>4, <3>5 DEF Next, ControlThread
  <2> QED
    BY <2>2, <2>3
<1> QED
  BY <1>3, <1>4

\* A request that stores data in a segment, and what is asked for in a sequence.
IsDownload(r) == r.method = "GET" /\ r.content # Mpd
HasDownload(reqs) == \E i \in DOMAIN reqs : IsDownload(reqs[i])
NoHeads(reqs) == \A i \in DOMAIN reqs : reqs[i].method = "GET"
HeadsFirst(reqs) ==
  \A i, j \in DOMAIN reqs : i < j /\ IsDownload(reqs[i]) => reqs[j].method = "GET"

\* No size is asked for behind a download, from the oldest request of the client to
\* the last one of the last action.
HeadsLead ==
  /\ HeadsFirst(queue)
  /\ \A a \in DOMAIN actions : HeadsFirst(actions[a].reqs)
  /\ \A a, b \in DOMAIN actions :
       a < b /\ HasDownload(actions[a].reqs) => NoHeads(actions[b].reqs)
  /\ HasDownload(queue) => \A a \in DOMAIN actions : NoHeads(actions[a].reqs)
  /\ downloaded # {} => NoHeads(queue) /\ \A a \in DOMAIN actions : NoHeads(actions[a].reqs)

\* Before the MPD has been processed nothing else is asked for.
OnlyMpd ==
  /\ downloaded = {}
  /\ \A i \in DOMAIN queue : queue[i].content = Mpd
  /\ \A a \in DOMAIN actions : \A i \in DOMAIN actions[a].reqs : actions[a].reqs[i].content = Mpd

\* Segment k has a size, or is downloaded, or one of the two is asked for.
Kept(k) ==
  \/ k \in segmentSizes \cup downloaded
  \/ IsRequested(GetRequest(k)) \/ IsRequested(HeadRequest(k))

KeepsSizes ==
  /\ HeadsLead
  /\ logic = "NO_MPD" => OnlyMpd
  /\ logic = "HAVE_MPD" => \A k \in Seg : Kept(k)
  /\ ctl = "start" => logic = "NO_MPD"

SizesKept == FetchHeads /\ state = "Playing" => KeepsSizes

Keeping == TypeOK /\ ActionsRemain /\ FetchHeads /\ state = "Playing" /\ KeepsSizes

\* The elements of a concatenation and their places.
LEMMA ConcatPlaces ==
  ASSUME NEW S, NEW a \in Seq(S), NEW b \in Seq(S)
  PROVE  /\ Len(a) \in Nat /\ DOMAIN a = 1..Len(a) /\ DOMAIN b = 1..Len(b)
         /\ \A i \in DOMAIN a : i \in DOMAIN (a \o b) /\ (a \o b)[i] = a[i]
         /\ \A i \in DOMAIN b : Len(a) + i \in DOMAIN (a \o b) /\ (a \o b)[Len(a) + i] = b[i]
         /\ \A i \in DOMAIN (a \o b) :
              \/ i \in DOMAIN a /\ (a \o b)[i] = a[i]
              \/ i > Len(a) /\ i - Len(a) \in DOMAIN b /\ (a \o b)[i] = b[i - Len(a)]
<1>1. /\ Len(a \o b) = Len(a) + Len(b) /\ a \o b \in Seq(S)
      /\ \A i \in 1..Len(a) + Len(b) :
           (a \o b)[i] = IF i <= Len(a) THEN a[i] ELSE b[i - Len(a)]
  BY ConcatProperties
<1>2. /\ Len(a) \in Nat /\ DOMAIN a = 1..Len(a)
      /\ Len(b) \in Nat /\ DOMAIN b = 1..Len(b)
      /\ DOMAIN (a \o b) = 1..Len(a) + Len(b)
  BY <1>1, LenProperties
<1> QED
  BY <1>1, <1>2

\* Requests of which none asks for a size are added behind what is there, or take
\* the place of the requests of the client.
LEMMA GetsAreAdded ==
  ASSUME Keeping, NEW acts \in Seq(ControlLogicAction),
         \A a \in DOMAIN acts : NoHeads(acts[a].reqs),
         actions' = actions \o acts, queue' \in {queue, <<>>}, ctl' # "start",
         UNCHANGED <<downloaded, segmentSizes, logic>>,
         logic = "NO_MPD" =>
           \A a \in DOMAIN acts : \A i \in DOMAIN acts[a].reqs : acts[a].reqs[i].content = Mpd,
         logic = "HAVE_MPD" /\ queue' # queue =>
           \A i \in DOMAIN queue : \E a \in DOMAIN acts : \E j \in DOMAIN acts[a].reqs :
             acts[a].reqs[j] = GetRequest(queue[i].content)
  PROVE  KeepsSizes'
<1>1. actions \in Seq(ControlLogicAction)
  BY DEF Keeping, TypeOK
<1>2. /\ Len(actions) \in Nat /\ DOMAIN actions = 1..Len(actions) /\ DOMAIN acts = 1..Len(acts)
      /\ \A a \in DOMAIN actions : a \in DOMAIN actions' /\ actions'[a] = actions[a]
      /\ \A a \in DOMAIN acts :
           Len(actions) + a \in DOMAIN actions' /\ actions'[Len(actions) + a] = acts[a]
      /\ \A a \in DOMAIN actions' :
           \/ a \in DOMAIN actions /\ actions'[a] = actions[a]
           \/ /\ a > Len(actions) /\ a - Len(actions) \in DOMAIN acts
              /\ actions'[a] = acts[a - Len(actions)]
  BY <1>1, ConcatPlaces
<1>3. queue' = queue \/ DOMAIN queue' = {}
  OBVIOUS
<1>4. HeadsLead'
  <2>1. HeadsFirst(queue')
    BY <1>3 DEF Keeping, KeepsSizes, HeadsLead, HeadsFirst
  <2>2. \A a \in DOMAIN actions' : HeadsFirst(actions'[a].reqs)
    BY <1>2 DEF Keeping, KeepsSizes, HeadsLead, HeadsFirst, NoHeads
  <2>3. \A a, b \in DOMAIN actions' :
          a < b /\ HasDownload(actions'[a].reqs) => NoHeads(actions'[b].reqs)
    <3> SUFFICES ASSUME NEW a \in DOMAIN actions', NEW b \in DOMAIN actions', a < b,
                        HasDownload(actions'[a].reqs)
                 PROVE  NoHeads(actions'[b].reqs)
      OBVIOUS
    <3>1. CASE b \in DOMAIN actions /\ actions'[b] = actions[b]
      <4>1. a \in DOMAIN actions /\ actions'[a] = actions[a]
        BY <1>2, <3>1
      <4> QED
        BY <3>1, <4>1 DEF Keeping, KeepsSizes, HeadsLead
    <3>2. CASE b - Len(actions) \in DOMAIN acts /\ actions'[b] = acts[b - Len(actions)]
      BY <3>2
    <3> QED
      BY <1>2, <3>1, <3>2
  <2>4. HasDownload(queue') => \A a \in DOMAIN actions' : NoHeads(actions'[a].reqs)
    BY <1>2, <1>3 DEF Keeping, KeepsSizes, HeadsLead, HasDownload
  <2>5. downloaded' # {} => /\ NoHeads(queue')
                            /\ \A a \in DOMAIN actions' : NoHeads(actions'[a].reqs)
    BY <1>2, <1>3 DEF Keeping, KeepsSizes, HeadsLead, NoHeads
  <2> QED
    BY <2>1, <2>2, <2>3, <2>4, <2>5
       DEF HeadsLead, HeadsFirst, HasDownload, NoHeads, IsDownload
<1>5. logic' = "NO_MPD" => OnlyMpd'
  BY <1>2, <1>3 DEF Keeping, KeepsSizes, OnlyMpd
<1>6. ASSUME logic' = "HAVE_MPD", NEW k \in Seg PROVE Kept(k)'
  <2>1. logic = "HAVE_MPD" /\ Kept(k)
    BY <1>6 DEF Keeping, KeepsSizes
  <2>2. CASE k \in segmentSizes \cup downloaded
    BY <2>2 DEF Kept
  <2>3. ASSUME NEW r \in {GetRequest(k), HeadRequest(k)}, IsRequested(r) PROVE Kept(k)'
    <3>1. ASSUME NEW a \in DOMAIN actions, NEW i \in DOMAIN actions[a].reqs, actions[a].reqs[i] = r
          PROVE  IsRequested(r)'
      BY <1>2, <3>1 DEF IsRequested
    <3>2. ASSUME NEW i \in DOMAIN queue, queue[i] = r PROVE Kept(k)'
      <4>1. CASE queue' = queue
        <5>1. IsRequested(r)'
          BY <3>2, <4>1 DEF IsRequested
        <5> QED
          BY <2>3, <5>1 DEF Kept, GetRequest, HeadRequest, IsRequested
      <4>2. CASE queue' # queue
        <5>0. PICK a \in DOMAIN acts : \E j \in DOMAIN acts[a].reqs :
                acts[a].reqs[j] = GetRequest(queue[i].content)
          BY <2>1, <4>2
        <5>1. PICK j \in DOMAIN acts[a].reqs : acts[a].reqs[j] = GetRequest(queue[i].content)
          BY <5>0
        <5>2. queue[i].content = k
          BY <2>3, <3>2 DEF GetRequest, HeadRequest
        <5>3. actions'[Len(actions) + a] = acts[a] /\ Len(actions) + a \in DOMAIN actions'
          BY <1>2
        <5>4. IsRequested(GetRequest(k))'
          BY <5>1, <5>2, <5>3 DEF IsRequested, GetRequest
        <5> QED
          BY <5>4 DEF Kept
      <4> QED
        BY <4>1, <4>2
    <3> QED
      BY <2>3, <3>1, <3>2 DEF IsRequested, Kept, GetRequest, HeadRequest
  <2> QED
    BY <2>1, <2>2, <2>3 DEF Kept
<1> QED
  BY <1>4, <1>5, <1>6 DEF KeepsSizes

\* Nothing that the invariant is about is touched.
LEMMA UntouchedKept ==
  ASSUME Keeping, UNCHANGED <<queue, actions, downloaded, segmentSizes, logic>>,
         ctl' = ctl \/ ctl' # "start"
  PROVE  KeepsSizes'
<1>1. HeadsLead' /\ (logic' = "NO_MPD" => OnlyMpd') /\ (ctl' = "start" => logic' = "NO_MPD")
  BY DEF Keeping, KeepsSizes, HeadsLead, OnlyMpd, HeadsFirst, HasDownload, NoHeads, IsDownload
<1>2. logic' = "HAVE_MPD" => \A k \in Seg : Kept(k)'
  BY DEF Keeping, KeepsSizes, Kept, IsRequested, GetRequest, HeadRequest
<1> QED
  BY <1>1, <1>2 DEF KeepsSizes

\* One download, of a content that is not the MPD unless nothing else is asked for yet.
LEMMA OneGet ==
  ASSUME TypeOK, NEW conn \in Nat, NEW c \in Content
  PROVE  LET acts == <<StartDownload(conn, <<GetRequest(c)>>)>>
         IN  /\ acts \in Seq(ControlLogicAction)
             /\ \A a \in DOMAIN acts : NoHeads(acts[a].reqs)
             /\ \A a \in DOMAIN acts : \A i \in DOMAIN acts[a].reqs : acts[a].reqs[i].content = c
<1> DEFINE reqs == <<GetRequest(c)>>
           act == StartDownload(conn, reqs)
<1>1. reqs \in Seq(HttpRequest) /\ DOMAIN reqs = 1..1 /\ reqs[1] = GetRequest(c)
  BY ContentFacts, SingletonFacts
<1>2. act \in ControlLogicAction /\ act.reqs = reqs
  BY <1>1 DEF StartDownload, ControlLogicAction
<1>3. NoHeads(reqs) /\ \A i \in DOMAIN reqs : reqs[i].content = c
  BY <1>1 DEF NoHeads, GetRequest
<1> HIDE DEF act, reqs
<1>4. <<act>> \in Seq(ControlLogicAction) /\ DOMAIN <<act>> = 1..1 /\ <<act>>[1] = act
  BY <1>2, SingletonFacts
<1>5. \A a \in DOMAIN <<act>> :
        NoHeads(<<act>>[a].reqs) /\ \A i \in DOMAIN <<act>>[a].reqs : <<act>>[a].reqs[i].content = c
  BY <1>2, <1>3, <1>4
<1> QED
  BY <1>4, <1>5 DEF act, reqs

LEMMA StartPlaybackKept ==
  ASSUME Keeping, StartPlayback, UNCHANGED fault
  PROVE  KeepsSizes'
<1> DEFINE acts == <<StartDownload(tcpConnectionId + 1, <<GetRequest(Mpd)>>)>>
<1>1. /\ CreateClient /\ ctl' = "loop" /\ ctl = "start" /\ actions' = actions \o acts
      /\ UNCHANGED <<downloaded, segmentSizes, logic>>
  BY DEF Keeping, StartPlayback, Fail, Running, Issue, storage
<1>2. tcpConnectionId + 1 \in Nat /\ Mpd \in Content /\ logic = "NO_MPD" /\ queue' = <<>>
  BY <1>1, ContentFacts DEF Keeping, TypeOK, KeepsSizes, CreateClient
<1>3. /\ acts \in Seq(ControlLogicAction)
      /\ \A a \in DOMAIN acts : NoHeads(acts[a].reqs)
      /\ \A a \in DOMAIN acts : \A i \in DOMAIN acts[a].reqs : acts[a].reqs[i].content = Mpd
  BY <1>2, OneGet DEF Keeping
<1> HIDE DEF acts
<1>4. logic # "HAVE_MPD"
  BY <1>2
<1> QED
  BY <1>1, <1>2, <1>3, <1>4, GetsAreAdded

\* The client takes the requests of the oldest action.
LEMMA ProcessActionKept ==
  ASSUME Keeping, ProcessAction, UNCHANGED fault
  PROVE  KeepsSizes'
<1> DEFINE more == Head(actions).reqs
<1>1. /\ actions # <<>> /\ actions' = Tail(actions) /\ queue' = queue \o more
      /\ ctl' # "start" /\ more \in Seq(HttpRequest)
      /\ UNCHANGED <<downloaded, segmentSizes>>
  BY QueueGrows DEF Keeping
<1>2. UNCHANGED logic
  BY DEF ProcessAction, ProcessActionStartDownload, Fail, logicVars
<1>3. /\ more = actions[1].reqs /\ 1 \in DOMAIN actions
      /\ \A a \in DOMAIN actions' : a + 1 \in DOMAIN actions /\ actions'[a] = actions[a + 1]
      /\ \A a \in DOMAIN actions : a = 1 \/ a - 1 \in DOMAIN actions'
      /\ \A a \in DOMAIN actions' : a \in Nat /\ a >= 1
      /\ \A a \in DOMAIN actions : a \in Nat
  <2>1. actions \in Seq(ControlLogicAction)
    BY DEF Keeping, TypeOK
  <2>2. /\ Head(actions) = actions[1] /\ Len(Tail(actions)) = Len(actions) - 1
        /\ 1 \in DOMAIN actions /\ Tail(actions) \in Seq(ControlLogicAction)
        /\ \A a \in DOMAIN Tail(actions) :
             a + 1 \in DOMAIN actions /\ Tail(actions)[a] = actions[a + 1]
    BY <1>1, <2>1, TailFacts
  <2>3. /\ DOMAIN actions = 1..Len(actions) /\ Len(actions) \in Nat
        /\ DOMAIN Tail(actions) = 1..Len(Tail(actions))
    BY <2>1, <2>2, LenProperties
  <2> QED
    BY <1>1, <2>2, <2>3
<1>4. queue \in Seq(HttpRequest)
  BY DEF Keeping, TypeOK
<1> HIDE DEF more
<1>5. /\ DOMAIN queue = 1..Len(queue) /\ Len(queue) \in Nat /\ DOMAIN more = 1..Len(more)
      /\ \A i \in DOMAIN queue : i \in DOMAIN queue' /\ queue'[i] = queue[i]
      /\ \A i \in DOMAIN more : Len(queue) + i \in DOMAIN queue' /\ queue'[Len(queue) + i] = more[i]
      /\ \A i \in DOMAIN queue' :
           \/ i \in DOMAIN queue /\ queue'[i] = queue[i]
           \/ i > Len(queue) /\ i - Len(queue) \in DOMAIN more /\ queue'[i] = more[i - Len(queue)]
  BY <1>1, <1>4, ConcatPlaces
<1>6. /\ HeadsFirst(queue) /\ HeadsFirst(more)
      /\ HasDownload(queue) => NoHeads(more)
      /\ \A a \in DOMAIN actions' :
           /\ HeadsFirst(actions'[a].reqs)
           /\ HasDownload(queue) \/ HasDownload(more) => NoHeads(actions'[a].reqs)
           /\ \A b \in DOMAIN actions' :
                a < b /\ HasDownload(actions'[a].reqs) => NoHeads(actions'[b].reqs)
      /\ downloaded # {} => /\ NoHeads(queue) /\ NoHeads(more)
                            /\ \A a \in DOMAIN actions' : NoHeads(actions'[a].reqs)
  BY <1>3 DEF Keeping, KeepsSizes, HeadsLead
<1>7. HeadsFirst(queue')
  <2> SUFFICES ASSUME NEW i \in DOMAIN queue', NEW j \in DOMAIN queue', i < j,
                      IsDownload(queue'[i])
               PROVE  queue'[j].method = "GET"
    BY DEF HeadsFirst, IsDownload
  <2>0. i \in Int /\ j \in Int
    BY <1>1, <1>4, ConcatProperties, LenProperties
  <2>1. CASE j \in DOMAIN queue /\ queue'[j] = queue[j]
    <3>1. i \in DOMAIN queue /\ queue'[i] = queue[i]
      BY <1>5, <2>0, <2>1
    <3> QED
      BY <1>6, <2>1, <3>1 DEF HeadsFirst, IsDownload
  <2>2. CASE j > Len(queue) /\ j - Len(queue) \in DOMAIN more /\ queue'[j] = more[j - Len(queue)]
    <3>1. CASE i \in DOMAIN queue /\ queue'[i] = queue[i]
      BY <1>6, <2>2, <3>1 DEF HasDownload, NoHeads
    <3>2. CASE i > Len(queue) /\ i - Len(queue) \in DOMAIN more /\ queue'[i] = more[i - Len(queue)]
      <4>1. i - Len(queue) < j - Len(queue)
        BY <1>5, <2>0
      <4> QED
        BY <1>6, <2>2, <3>2, <4>1 DEF HeadsFirst
    <3> QED
      BY <1>5, <3>1, <3>2
  <2> QED
    BY <1>5, <2>1, <2>2
<1>8. HasDownload(queue') => HasDownload(queue) \/ HasDownload(more)
  BY <1>5 DEF HasDownload
<1>9. NoHeads(queue) /\ NoHeads(more) => NoHeads(queue')
  BY <1>5 DEF NoHeads
<1>10. HeadsLead'
  <2>1. HasDownload(queue') => \A a \in DOMAIN actions' : NoHeads(actions'[a].reqs)
    BY <1>6, <1>8
  <2>2. downloaded' # {} => NoHeads(queue') /\ \A a \in DOMAIN actions' : NoHeads(actions'[a].reqs)
    BY <1>1, <1>6, <1>9
  <2> QED
    BY <1>6, <1>7, <2>1, <2>2 DEF HeadsLead, HeadsFirst, HasDownload, NoHeads, IsDownload
<1>11. logic' = "NO_MPD" => OnlyMpd'
  BY <1>1, <1>2, <1>3, <1>5 DEF Keeping, KeepsSizes, OnlyMpd
<1>12. ASSUME logic' = "HAVE_MPD", NEW k \in Seg PROVE Kept(k)'
  <2>1. Kept(k)
    BY <1>2, <1>12 DEF Keeping, KeepsSizes
  <2>2. ASSUME NEW r \in {GetRequest(k), HeadRequest(k)}, IsRequested(r) PROVE IsRequested(r)'
    <3>1. ASSUME NEW i \in DOMAIN queue, queue[i] = r PROVE IsRequested(r)'
      BY <1>5, <3>1 DEF IsRequested
    <3>2. ASSUME NEW i \in DOMAIN more, more[i] = r PROVE IsRequested(r)'
      BY <1>5, <3>2 DEF IsRequested
    <3>3. ASSUME NEW a \in DOMAIN actions, a # 1,
                 NEW i \in DOMAIN actions[a].reqs, actions[a].reqs[i] = r
          PROVE  IsRequested(r)'
      <4>1. a - 1 \in DOMAIN actions' /\ actions'[a - 1] = actions[a]
        BY <1>3, <3>3
      <4> QED
        BY <3>3, <4>1 DEF IsRequested
    <3> QED
      BY <1>3, <2>2, <3>1, <3>2, <3>3 DEF IsRequested
  <2> QED
    BY <1>1, <2>1, <2>2 DEF Kept, GetRequest, HeadRequest, IsRequested
<1> QED
  BY <1>1, <1>10, <1>11, <1>12 DEF KeepsSizes

\* The MPD is followed by the requests for the sizes, and those by the first downloads.
LEMMA ProcessMpdKept ==
  ASSUME Keeping, logic = "NO_MPD", ctl = "loop", ProcessMpd
  PROVE  KeepsSizes'
<1> DEFINE heads == [i \in 1..(LastSeg + 1) |-> HeadRequest(i - 1)]
<1>1. /\ actions' = actions \o FollowMpd /\ logic' = "HAVE_MPD" /\ ctl' = "loop"
      /\ UNCHANGED <<queue, downloaded, segmentSizes>>
  BY DEF ProcessMpd, Issue, control, client, storage
<1>2. actions \in Seq(ControlLogicAction) /\ FollowMpd \in Seq(ControlLogicAction)
  BY FollowMpdType DEF Keeping, TypeOK
<1>3. /\ DOMAIN FollowMpd = 1..2
      /\ FollowMpd[1].reqs = heads /\ FollowMpd[2].reqs = <<GetRequest(0), GetRequest(1)>>
  <2>1. /\ FollowMpd # <<>> /\ Tail(FollowMpd) = FetchFirst /\ Tail(FetchFirst) = <<>>
        /\ Head(FollowMpd).reqs = heads
        /\ Head(FetchFirst).reqs = <<GetRequest(0), GetRequest(1)>>
    BY FollowMpdRequests DEF Keeping
  <2>2. /\ Head(FollowMpd) = FollowMpd[1] /\ Len(FetchFirst) = Len(FollowMpd) - 1
        /\ FetchFirst \in Seq(ControlLogicAction)
        /\ \A i \in DOMAIN FetchFirst : FetchFirst[i] = FollowMpd[i + 1]
    BY <1>2, <2>1, TailFacts
  <2>3. Len(FetchFirst) = 1 /\ FetchFirst # <<>>
    BY DEF FetchFirst
  <2>4. Head(FetchFirst) = FetchFirst[1] /\ 1 \in DOMAIN FetchFirst
    BY <2>2, <2>3, TailFacts
  <2>5. DOMAIN FollowMpd = 1..Len(FollowMpd) /\ Len(FollowMpd) \in Nat
    BY <1>2, LenProperties
  <2>6. Len(FollowMpd) = 2
    <3> DEFINE n == Len(FollowMpd)
    <3>1. n \in Nat /\ n - 1 = 1
      BY <2>2, <2>3, <2>5
    <3> HIDE DEF n
    <3>2. n = 2
      BY <3>1
    <3> QED
      BY <3>2 DEF n
  <2>7. FetchFirst[1] = FollowMpd[2]
    <3>1. FetchFirst[1] = FollowMpd[1 + 1]
      BY <2>2, <2>4
    <3> QED
      BY <3>1
  <2> QED
    BY <2>1, <2>2, <2>4, <2>5, <2>6, <2>7
<1>4. /\ \A i \in DOMAIN heads : heads[i].method = "HEAD"
      /\ \A k \in Seg : k + 1 \in DOMAIN heads /\ heads[k + 1] = HeadRequest(k)
  BY ControlLoopAssumption DEF HeadRequest, Seg
<1> DEFINE first == <<GetRequest(0), GetRequest(1)>>
<1>5. \A i \in DOMAIN first : first[i].method = "GET"
  BY DEF GetRequest
<1> HIDE DEF heads, first
<1>6. HeadsFirst(heads) /\ HeadsFirst(first) /\ NoHeads(first) /\ ~HasDownload(heads)
  BY <1>4, <1>5 DEF HeadsFirst, NoHeads, HasDownload, IsDownload
<1>7. /\ Len(actions) \in Nat /\ DOMAIN actions = 1..Len(actions)
      /\ \A a \in DOMAIN actions : a \in DOMAIN actions' /\ actions'[a] = actions[a]
      /\ \A a \in DOMAIN FollowMpd :
           Len(actions) + a \in DOMAIN actions' /\ actions'[Len(actions) + a] = FollowMpd[a]
      /\ \A a \in DOMAIN actions' :
           \/ a \in DOMAIN actions /\ actions'[a] = actions[a]
           \/ /\ a > Len(actions) /\ a - Len(actions) \in DOMAIN FollowMpd
              /\ actions'[a] = FollowMpd[a - Len(actions)]
  BY <1>1, <1>2, ConcatPlaces
<1>8. OnlyMpd /\ HeadsLead
  BY DEF Keeping, KeepsSizes
<1>9. ~HasDownload(queue) /\ \A a \in DOMAIN actions : ~HasDownload(actions[a].reqs)
  BY <1>8 DEF OnlyMpd, HasDownload, IsDownload
\* Where an action is, and what it asks for.
<1>10. ASSUME NEW a \in DOMAIN actions'
       PROVE  \/ a <= Len(actions) /\ a \in DOMAIN actions /\ actions'[a] = actions[a]
              \/ a = Len(actions) + 1 /\ actions'[a].reqs = heads
              \/ a = Len(actions) + 2 /\ actions'[a].reqs = first
  <2>1. CASE a \in DOMAIN actions /\ actions'[a] = actions[a]
    BY <1>7, <2>1
  <2>2. CASE /\ a > Len(actions) /\ a - Len(actions) \in DOMAIN FollowMpd
             /\ actions'[a] = FollowMpd[a - Len(actions)]
    <3>1. a \in Int
      BY <1>1, <1>2, ConcatProperties, LenProperties
    <3>2. a - Len(actions) = 1 \/ a - Len(actions) = 2
      BY <1>3, <1>7, <2>2
    <3>3. CASE a - Len(actions) = 1
      BY <1>3, <1>7, <2>2, <3>1, <3>3
    <3>4. CASE a - Len(actions) = 2
      BY <1>3, <1>7, <2>2, <3>1, <3>4 DEF first
    <3> QED
      BY <3>2, <3>3, <3>4
  <2> QED
    BY <1>7, <2>1, <2>2
<1>11. HeadsLead'
  <2>1. HeadsFirst(queue')
    BY <1>1, <1>8 DEF HeadsLead, HeadsFirst
  <2>2. \A a \in DOMAIN actions' : HeadsFirst(actions'[a].reqs)
    <3> TAKE a \in DOMAIN actions'
    <3>1. CASE a \in DOMAIN actions /\ actions'[a] = actions[a]
      BY <1>8, <3>1 DEF HeadsLead, HeadsFirst
    <3>2. CASE actions'[a].reqs = heads \/ actions'[a].reqs = first
      BY <1>6, <3>2
    <3> QED
      BY <1>10, <3>1, <3>2
  <2>3. ASSUME NEW a \in DOMAIN actions', NEW b \in DOMAIN actions', a < b,
               HasDownload(actions'[a].reqs)
        PROVE  NoHeads(actions'[b].reqs)
    <3>1. CASE a <= Len(actions) /\ a \in DOMAIN actions /\ actions'[a] = actions[a]
      BY <1>9, <2>3, <3>1 DEF HasDownload, IsDownload
    <3>2. CASE a = Len(actions) + 1 /\ actions'[a].reqs = heads
      BY <1>6, <2>3, <3>2
    <3>3. CASE a = Len(actions) + 2
      BY <1>7, <1>10, <2>3, <3>3
    <3> QED
      BY <1>10, <3>1, <3>2, <3>3
  <2>4. ~HasDownload(queue') /\ downloaded' = {}
    BY <1>1, <1>8, <1>9 DEF HasDownload, OnlyMpd
  <2> QED
    BY <2>1, <2>2, <2>3, <2>4 DEF HeadsLead, HeadsFirst, HasDownload, NoHeads, IsDownload
<1>12. ASSUME NEW k \in Seg PROVE Kept(k)'
  <2>1. 1 \in DOMAIN FollowMpd /\ FollowMpd[1].reqs = heads
    BY <1>3
  <2>2. Len(actions) + 1 \in DOMAIN actions' /\ actions'[Len(actions) + 1].reqs = heads
    BY <1>7, <2>1
  <2>3. IsRequested(HeadRequest(k))'
    BY <1>4, <2>2 DEF IsRequested, HeadRequest
  <2> QED
    BY <2>3 DEF Kept
<1> QED
  BY <1>1, <1>11, <1>12 DEF KeepsSizes

LEMMA ProcessSegmentKept ==
  ASSUME Keeping, logic = "HAVE_MPD", ctl = "loop", NEW k \in Seg, NEW beta,
         ProcessSegment(k, beta), UNCHANGED fault, Running
  PROVE  KeepsSizes'
<1>1. SegmentFault(k) = "none"
  BY DEF ProcessSegment, Fail, Running
<1>2. CASE NothingFollows(k)
  <2>1. /\ actions' = actions \o <<>>
        /\ UNCHANGED <<ctl, logic, queue, downloaded, segmentSizes>>
    BY <1>1, <1>2 DEF ProcessSegment, Issue, control, client, storage
  <2>2. actions \o <<>> = actions
    BY DEF Keeping, TypeOK
  <2> QED
    BY <2>1, <2>2, UntouchedKept
<1>3. CASE ~NothingFollows(k)
  <2>1. queue' = queue
    <3>1. MustReconnect => queue = <<>>
      BY <1>1, <1>3 DEF SegmentFault
    <3>2. IF MustReconnect THEN CreateClient ELSE UNCHANGED client
      BY <1>1, <1>3 DEF ProcessSegment
    <3> QED
      BY <3>1, <3>2 DEF CreateClient, client
  <2>2. /\ UNCHANGED <<ctl, logic, downloaded, segmentSizes>>
        /\ \/ actions' = actions \o <<StartDownload(tcpConnectionId', <<GetRequest(k + 1)>>)>>
           \/ actions' = actions \o <<>>
    BY <1>1, <1>3 DEF ProcessSegment, Issue, control, storage
  <2>3. CASE actions' = actions \o <<>>
    <3>1. actions \o <<>> = actions
      BY DEF Keeping, TypeOK
    <3> QED
      BY <2>1, <2>2, <2>3, <3>1, UntouchedKept
  <2>4. CASE actions' = actions \o <<StartDownload(tcpConnectionId', <<GetRequest(k + 1)>>)>>
    <3> DEFINE conn == tcpConnectionId'
               acts == <<StartDownload(conn, <<GetRequest(k + 1)>>)>>
    <3>1. k + 1 \in Content
      BY <1>3, ContentFacts DEF NothingFollows, Seg, Content
    <3>2. conn \in Nat
      <4>1. IF MustReconnect THEN CreateClient ELSE UNCHANGED client
        BY <1>1, <1>3 DEF ProcessSegment
      <4> QED
        BY <4>1 DEF CreateClient, client, Keeping, TypeOK
    <3> HIDE DEF conn
    <3>3. /\ acts \in Seq(ControlLogicAction)
          /\ \A a \in DOMAIN acts : NoHeads(acts[a].reqs)
      BY <3>1, <3>2, OneGet DEF Keeping
    <3>4. actions' = actions \o acts
      BY <2>4 DEF conn
    <3> HIDE DEF acts
    <3>5. ctl' # "start" /\ logic # "NO_MPD" /\ queue' \in {queue, <<>>}
      BY <2>1, <2>2
    <3> QED
      BY <2>1, <2>2, <3>3, <3>4, <3>5, GetsAreAdded
  <2> QED
    BY <2>2, <2>3, <2>4
<1> QED
  BY <1>2, <1>3

LEMMA ProcessDataPlayedKept ==
  ASSUME Keeping, logic = "HAVE_MPD", ctl = "loop", NEW beta, ProcessDataPlayed(beta)
  PROVE  KeepsSizes'
<1>1. UNCHANGED <<ctl, logic, queue, downloaded, segmentSizes>>
  BY DEF ProcessDataPlayed, control, client, storage
<1>2. CASE ~(delayedRequests # <<>> /\ RequestNow(beta, Bdelay))
  BY <1>1, <1>2, UntouchedKept DEF ProcessDataPlayed
<1>3. CASE delayedRequests # <<>> /\ RequestNow(beta, Bdelay)
  <2> DEFINE k == delayedRequests[1]
             acts == <<StartDownload(tcpConnectionId, <<GetRequest(k)>>)>>
  <2>1. k \in Content /\ tcpConnectionId \in Nat
    BY <1>3, TailFacts, ContentFacts DEF Keeping, TypeOK
  <2>2. actions' = actions \o acts
    BY <1>3 DEF ProcessDataPlayed, Issue
  <2> HIDE DEF k
  <2>3. acts \in Seq(ControlLogicAction) /\ \A a \in DOMAIN acts : NoHeads(acts[a].reqs)
    BY <2>1, OneGet DEF Keeping
  <2> HIDE DEF acts
  <2>4. ctl' # "start" /\ logic # "NO_MPD" /\ queue' \in {queue, <<>>} /\ queue' = queue
    BY <1>1
  <2> QED
    BY <1>1, <2>2, <2>3, <2>4, GetsAreAdded
<1> QED
  BY <1>2, <1>3

\* What the lost connection left is asked for again, as downloads.
LEMMA ProcessDisconnectKept ==
  ASSUME Keeping, ctl = "loop", NEW conn, ProcessDisconnect(conn), UNCHANGED fault, Running
  PROVE  KeepsSizes'
<1>1. CASE conn < tcpConnectionId
  BY <1>1, UntouchedKept DEF ProcessDisconnect, control, logicVars, client, storage
<1>2. CASE ~(conn < tcpConnectionId)
  <2> DEFINE again == Restarted(queue)
             act == StartDownload(tcpConnectionId + 1, again)
             acts == IF queue = <<>> THEN <<>> ELSE <<act>>
  <2>1. ~Fail("joinDeadlock") /\ ~Fail("restartMpd")
    BY DEF Fail, Running
  <2>2. /\ CreateClient /\ Mpd \notin Contents(queue)
        /\ actions' = actions \o acts
        /\ UNCHANGED <<ctl, logic, downloaded, segmentSizes>>
    BY <1>2, <2>1 DEF ProcessDisconnect, Issue, control, storage
  <2>3. queue \in Seq(HttpRequest) /\ queue' = <<>> /\ tcpConnectionId + 1 \in Nat
    BY <2>2 DEF Keeping, TypeOK, CreateClient
  <2>4. /\ again \in Seq(HttpRequest) /\ DOMAIN again = DOMAIN queue
        /\ \A i \in DOMAIN queue : again[i] = GetRequest(queue[i].content)
    BY <2>3, RestartedType DEF Restarted
  <2>5. act \in ControlLogicAction /\ act.reqs = again
    BY <2>3, <2>4 DEF StartDownload, ControlLogicAction
  <2>6. NoHeads(again)
    BY <2>4 DEF NoHeads, GetRequest
  <2> HIDE DEF again, act
  <2>7. <<act>> \in Seq(ControlLogicAction) /\ DOMAIN <<act>> = 1..1 /\ <<act>>[1] = act
    BY <2>5, SingletonFacts
  <2>8. /\ acts \in Seq(ControlLogicAction)
        /\ \A a \in DOMAIN acts : acts[a] = act
        /\ queue # <<>> => 1 \in DOMAIN acts /\ acts[1] = act
    BY <2>7, EmptySeq
  <2> HIDE DEF acts
  <2>9. \A a \in DOMAIN acts : NoHeads(acts[a].reqs)
    BY <2>5, <2>6, <2>8
  <2>10. ASSUME logic = "NO_MPD"
         PROVE  \A a \in DOMAIN acts : \A i \in DOMAIN acts[a].reqs : acts[a].reqs[i].content = Mpd
    <3>1. DOMAIN queue = {}
      BY <2>2, <2>10 DEF Keeping, KeepsSizes, OnlyMpd, Contents
    <3> QED
      BY <2>4, <2>5, <2>8, <3>1
  <2>11. \A i \in DOMAIN queue : \E a \in DOMAIN acts : \E j \in DOMAIN acts[a].reqs :
           acts[a].reqs[j] = GetRequest(queue[i].content)
    <3> TAKE i \in DOMAIN queue
    <3>1. queue # <<>>
      OBVIOUS
    <3>2. i \in DOMAIN acts[1].reqs /\ acts[1].reqs[i] = GetRequest(queue[i].content)
      BY <2>4, <2>5, <2>8, <3>1
    <3> QED
      BY <2>8, <3>1, <3>2
  <2>12. ctl' # "start" /\ queue' \in {queue, <<>>}
    BY <2>2, <2>3
  <2> QED
    BY <2>2, <2>8, <2>9, <2>10, <2>11, <2>12, GetsAreAdded
<1> QED
  BY <1>1, <1>2

LEMMA ProcessEventKept ==
  ASSUME Keeping, ProcessEvent, UNCHANGED fault
  PROVE  KeepsSizes'
<1> DEFINE e == Head(events)
<1>1. /\ Running /\ ctl = "loop" /\ e \in ControlLogicEvent /\ Dispatch(e)
  BY TailFacts DEF ProcessEvent, Keeping, TypeOK
<1>2. ~Fail("unexpectedEvent") /\ e.content \in Content
  BY <1>1 DEF Fail, Running, ControlLogicEvent
<1> HIDE DEF e
<1>3. CASE e.type = "disconnect"
  BY <1>1, <1>3, ProcessDisconnectKept DEF Dispatch
<1>4. CASE e.type = "dataReceived"
  <2>1. ProcessDataReceived(e)
    BY <1>1, <1>4 DEF Dispatch
  <2>2. CASE e.content = Mpd
    BY <1>1, <1>2, <2>1, <2>2, ProcessMpdKept DEF ProcessDataReceived
  <2>3. CASE e.content # Mpd
    BY <1>1, <1>2, <2>1, <2>3, ProcessSegmentKept, ContentFacts DEF ProcessDataReceived
  <2> QED
    BY <2>2, <2>3
<1>5. CASE e.type \notin {"disconnect", "dataReceived"}
  BY <1>1, <1>2, <1>5, ProcessDataPlayedKept DEF Dispatch
<1> QED
  BY <1>3, <1>4, <1>5

\* The oldest request is answered.
LEMMA CompleteRequestKept ==
  ASSUME Keeping, CompleteRequest, UNCHANGED fault
  PROVE  KeepsSizes'
<1> DEFINE req == Head(queue)
<1>1. ~Fail("requestsDeleted") /\ ~Fail("keepAlive") /\ ~Fail("segmentSizes")
  BY DEF Fail, CompleteRequest, Running
<1>2. /\ queue # <<>> /\ queue' = Tail(queue)
      /\ downloaded' = IF req.method = "GET" THEN downloaded \cup ({req.content} \ {Mpd})
                       ELSE downloaded
      /\ segmentSizes' = IF req.method = "HEAD" THEN segmentSizes \cup {req.content}
                         ELSE segmentSizes
      /\ UNCHANGED <<ctl, logic, actions>>
  BY <1>1 DEF Keeping, CompleteRequest, control, logicVars
<1>3. /\ queue \in Seq(HttpRequest) /\ req = queue[1] /\ 1 \in DOMAIN queue /\ req \in HttpRequest
      /\ \A i \in DOMAIN queue' : i \in Nat /\ i >= 1 /\ i + 1 \in DOMAIN queue /\ queue'[i] = queue[i + 1]
      /\ \A i \in DOMAIN queue : i = 1 \/ i - 1 \in DOMAIN queue'
      /\ \A i \in DOMAIN queue : i \in Nat
  <2>1. queue \in Seq(HttpRequest)
    BY DEF Keeping, TypeOK
  <2>2. /\ Head(queue) = queue[1] /\ Head(queue) \in HttpRequest
        /\ Len(Tail(queue)) = Len(queue) - 1
        /\ 1 \in DOMAIN queue /\ Tail(queue) \in Seq(HttpRequest)
        /\ \A i \in DOMAIN Tail(queue) : i + 1 \in DOMAIN queue /\ Tail(queue)[i] = queue[i + 1]
    BY <1>2, <2>1, TailFacts
  <2>3. /\ DOMAIN queue = 1..Len(queue) /\ Len(queue) \in Nat
        /\ DOMAIN Tail(queue) = 1..Len(Tail(queue))
    BY <2>1, <2>2, LenProperties
  <2> QED
    BY <1>2, <2>1, <2>2, <2>3
<1>4. req.method \in {"GET", "HEAD"}
  BY <1>3 DEF HttpRequest
<1> HIDE DEF req
<1>5. HeadsLead'
  <2>1. HeadsFirst(queue')
    <3> SUFFICES ASSUME NEW i \in DOMAIN queue', NEW j \in DOMAIN queue', i < j,
                        IsDownload(queue'[i])
                 PROVE  queue'[j].method = "GET"
      BY DEF HeadsFirst, IsDownload
    <3>1. i + 1 \in DOMAIN queue /\ j + 1 \in DOMAIN queue /\ i + 1 < j + 1
      BY <1>3
    <3>2. queue'[i] = queue[i + 1] /\ queue'[j] = queue[j + 1]
      BY <1>3
    <3> QED
      BY <3>1, <3>2 DEF Keeping, KeepsSizes, HeadsLead, HeadsFirst, IsDownload
  <2>2. HasDownload(queue') => \A a \in DOMAIN actions : NoHeads(actions[a].reqs)
    <3>1. HasDownload(queue') => HasDownload(queue)
      BY <1>3 DEF HasDownload, IsDownload
    <3> QED
      BY <3>1 DEF Keeping, KeepsSizes, HeadsLead
  <2>3. ASSUME downloaded' # {}
        PROVE  NoHeads(queue') /\ \A a \in DOMAIN actions : NoHeads(actions[a].reqs)
    <3>1. CASE downloaded # {}
      BY <1>3, <3>1 DEF Keeping, KeepsSizes, HeadsLead, NoHeads
    <3>2. CASE downloaded = {}
      <4>1. IsDownload(req)
        BY <1>2, <2>3, <3>2 DEF IsDownload
      <4>2. HasDownload(queue)
        BY <1>3, <4>1 DEF HasDownload, IsDownload
      <4>3. NoHeads(queue')
        <5> SUFFICES ASSUME NEW i \in DOMAIN queue' PROVE queue'[i].method = "GET"
          BY DEF NoHeads
        <5>1. 1 < i + 1 /\ i + 1 \in DOMAIN queue /\ queue'[i] = queue[i + 1]
          BY <1>3
        <5> QED
          BY <1>3, <4>1, <5>1 DEF Keeping, KeepsSizes, HeadsLead, HeadsFirst, IsDownload
      <4> QED
        BY <4>2, <4>3 DEF Keeping, KeepsSizes, HeadsLead
    <3> QED
      BY <3>1, <3>2
  <2> QED
    BY <1>2, <2>1, <2>2, <2>3
       DEF Keeping, KeepsSizes, HeadsLead, HeadsFirst, HasDownload, NoHeads, IsDownload
<1>6. logic' = "NO_MPD" => OnlyMpd'
  BY <1>2, <1>3 DEF Keeping, KeepsSizes, OnlyMpd
<1>7. ASSUME logic' = "HAVE_MPD", NEW k \in Seg PROVE Kept(k)'
  <2>1. Kept(k) /\ k # Mpd
    BY <1>2, <1>7, ContentFacts DEF Keeping, KeepsSizes
  <2>2. CASE k \in segmentSizes \cup downloaded
    BY <1>2, <2>2 DEF Kept
  <2>3. ASSUME NEW r \in {GetRequest(k), HeadRequest(k)}, IsRequested(r) PROVE Kept(k)'
    <3>1. CASE r = req
      <4>1. req.content = k
        BY <2>3, <3>1 DEF GetRequest, HeadRequest
      <4> QED
        BY <1>2, <1>4, <2>1, <4>1 DEF Kept
    <3>2. CASE r # req
      <4>1. ASSUME NEW i \in DOMAIN queue, queue[i] = r PROVE IsRequested(r)'
        <5>1. i - 1 \in DOMAIN queue' /\ queue'[i - 1] = queue[i]
          BY <1>3, <3>2, <4>1
        <5> QED
          BY <4>1, <5>1 DEF IsRequested
      <4>2. ASSUME NEW a \in DOMAIN actions,
                   NEW i \in DOMAIN actions[a].reqs, actions[a].reqs[i] = r
            PROVE  IsRequested(r)'
        BY <1>2, <4>2 DEF IsRequested
      <4>3. IsRequested(r)'
        BY <2>3, <4>1, <4>2 DEF IsRequested
      <4> QED
        BY <2>3, <4>3 DEF Kept, GetRequest, HeadRequest, IsRequested
    <3> QED
      BY <3>1, <3>2
  <2> QED
    BY <2>1, <2>2, <2>3 DEF Kept
<1> QED
  BY <1>2, <1>5, <1>6, <1>7 DEF KeepsSizes, Keeping

LEMMA SizesKeptStep ==
  ASSUME TypeOK, ActionsRemain, SizesKept, [Next]_vars
  PROVE  SizesKept'
<1>1. SUFFICES ASSUME FetchHeads, state' = "Playing"
               PROVE  KeepsSizes'
  BY DEF SizesKept
<1>2. state = "Playing"
  BY <1>1
     DEF Next, ControlThread, HttpThread, Vlc, vars, control, Fail, StartPlayback, ProcessEvent,
         StartActions, ProcessAction, LeaveLoop, CompleteRequest, LoseConnection, ComputeBeta,
         PushDataReceived, PushDisconnect, VlcCb, PushDataPlayed, Close, CleanUp, DestroyClient,
         Dispatch, ProcessDataReceived, ProcessMpd, ProcessSegment, ProcessDataPlayed,
         ProcessDisconnect, ProcessActionStartDownload
<1>3. Keeping
  BY <1>1, <1>2 DEF Keeping, SizesKept
<1>4. CASE fault' # fault
  <2>1. \E where : Fail(where)
    BY <1>4
       DEF Next, ControlThread, HttpThread, Vlc, vars, StartPlayback, ProcessEvent,
           StartActions, ProcessAction, LeaveLoop, CompleteRequest, LoseConnection, ComputeBeta,
           PushDataReceived, PushDisconnect, VlcCb, PushDataPlayed, Close, CleanUp, DestroyClient,
           Dispatch, ProcessDataReceived, ProcessMpd, ProcessSegment, ProcessDataPlayed,
           ProcessDisconnect, ProcessActionStartDownload
  <2>2. UNCHANGED <<ctl, queue, actions, downloaded, segmentSizes, logic>>
    BY <2>1 DEF Fail, control, logicVars, client, storage
  <2> QED
    BY <1>3, <2>2, UntouchedKept
<1>5. CASE UNCHANGED fault
  <2>1. CASE StartPlayback \/ ProcessAction \/ ProcessEvent \/ CompleteRequest
    BY <1>3, <1>5, <2>1, StartPlaybackKept, ProcessActionKept, ProcessEventKept,
       CompleteRequestKept
  <2>2. CASE \/ HttpThread \/ LoseConnection \/ StartActions \/ LeaveLoop \/ Vlc
             \/ DestroyClient \/ UNCHANGED vars
    <3>1. UNCHANGED <<queue, actions, downloaded, segmentSizes, logic>>
      BY <2>2
         DEF HttpThread, ComputeBeta, PushDataReceived, PushDisconnect, LoseConnection,
             StartActions, LeaveLoop, Vlc, VlcCb, PushDataPlayed, DestroyClient, Fail, vars,
             logicVars, client, storage
    <3>2. ctl' = ctl \/ ctl' # "start"
      BY <2>2
         DEF HttpThread, ComputeBeta, PushDataReceived, PushDisconnect, LoseConnection,
             StartActions, LeaveLoop, Vlc, VlcCb, PushDataPlayed, DestroyClient, Fail, vars, control
    <3> QED
      BY <1>3, <3>1, <3>2, UntouchedKept
  <2>3. CASE Close \/ CleanUp
    BY <1>1, <1>2, <2>3 DEF Close, CleanUp
  <2> QED
    BY <2>1, <2>2, <2>3 DEF Next, ControlThread
<1> QED
  BY <1>4, <1>5

\* For every number of segments, every keep-alive limit and every choice of Bdelay, with
\* option fetchHeads and while the player plays: without a loss the sizes of all segments
\* are known before the first segment arrives (a server whose limit is too small for the
\* requests for the sizes ends the process before); and under any number of losses, from
\* the first segment on, a segment without a size has been downloaded or its download is
\* requested: no request for a size is dropped when a connection is lost.
THEOREM SizesKnown == Spec => []SizesAreKnown
<1>1. Init => SizesFirst
  BY DEF Init, SizesFirst, SizesOutstanding, AwaitMpd
<1>2. TypeOK /\ ActionsRemain /\ SizesFirst /\ [Next]_vars => SizesFirst'
  BY SizesFirstStep
<1>3. Init => SizesKept
  BY DEF Init, ControlLogicInit, SizesKept, KeepsSizes, HeadsLead, OnlyMpd, HeadsFirst,
         HasDownload, NoHeads
<1>4. TypeOK /\ ActionsRemain /\ SizesKept /\ [Next]_vars => SizesKept'
  BY SizesKeptStep
<1>5. TypeOK /\ SizesFirst /\ SizesKept => SizesAreKnown
  <2> SUFFICES ASSUME TypeOK, SizesFirst, SizesKept, FetchHeads, state = "Playing",
                      downloaded # {}
               PROVE  /\ lost = 0 => segmentSizes = Seg
                      /\ \A k \in Seg : \/ k \in segmentSizes \cup downloaded
                                         \/ IsRequested(GetRequest(k))
    BY DEF SizesAreKnown
  <2>1. lost = 0 => segmentSizes = Seg
    BY DEF SizesFirst, SizesOutstanding
  <2>2. KeepsSizes
    BY DEF SizesKept
  <2>3. logic = "HAVE_MPD"
    BY <2>2 DEF KeepsSizes, OnlyMpd, TypeOK
  <2>4. ASSUME NEW k \in Seg, IsRequested(HeadRequest(k)) PROVE FALSE
    <3>1. NoHeads(queue) /\ \A a \in DOMAIN actions : NoHeads(actions[a].reqs)
      BY <2>2 DEF KeepsSizes, HeadsLead
    <3>2. HeadRequest(k).method = "HEAD"
      BY DEF HeadRequest
    <3> QED
      BY <2>4, <3>1, <3>2 DEF IsRequested, NoHeads
  <2> QED
    BY <2>1, <2>2, <2>3, <2>4 DEF KeepsSizes, Kept
<1> QED
  BY <1>1, <1>2, <1>3, <1>4, <1>5, TypeCorrect, PTL DEF Spec

=============================================================================
