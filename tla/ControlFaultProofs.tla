-------------------------- MODULE ControlFaultProofs --------------------------
(***************************************************************************)
(* Proof of what may end the process: whatever the order in which the      *)
(* events of three threads reach the control logic, its assertions hold,   *)
(* and only the loss of a connection or closing the player leads to one of *)
(* the other ends.  The server serves four requests on a connection, or    *)
(* more (with three, the two requests that are pipelined at the beginning  *)
(* use the connection up), and the sizes are not asked for.  From the same *)
(* invariant: a download is never forgotten and never in two places.       *)
(***************************************************************************)
EXTENDS ControlLoopProofs

-----------------------------------------------------------------------------
(* The inductive invariant *)

InCallback == thread \in {"locking", "pushing"}

\* The contents whose arrival the logic waits for.
Expected(c) == IF contour = -1 THEN c = Mpd ELSE c = contour \/ (c = 0 /\ contour = 1)

IsData(e) == e.type = "dataReceived"

\* The logic can process e: received data is expected and not acknowledged, nothing is
\* played before the MPD, and a disconnect of the current connection is the last its
\* client's thread said.
EventOk(e) ==
  /\ IsData(e) => Expected(e.content) /\ e.content \in pendingActions
  /\ e.type = "dataPlayed" => contour # -1
  /\ e.type = "disconnect" =>
       /\ e.conn <= tcpConnectionId
       /\ e.conn = tcpConnectionId =>
            thread \in {"done", "destroyed"} /\ (lost = 0 => served = Limit)

EventsExpected ==
  /\ \A i \in DOMAIN events : EventOk(events[i])
  /\ InCallback => Expected(cbReq.content) /\ cbReq.content \in pendingActions
  /\ vlc = "pushing" => contour # -1

\* Two contents are received and not processed only if they are segments 0 and 1, in
\* this order.
DataInOrder(es) ==
  \A i, j \in DOMAIN es :
    i < j /\ IsData(es[i]) /\ IsData(es[j]) => es[i].content = 0 /\ es[j].content = 1

ReceivedInOrder ==
  /\ DataInOrder(events)
  /\ \A i \in DOMAIN events :
       IsData(events[i]) /\ InCallback => events[i].content = 0 /\ cbReq.content = 1

\* What is requested is not acknowledged.
RequestsPending ==
  /\ \A i \in DOMAIN queue : queue[i].content \in pendingActions
  /\ actions # <<>> => Contents(actions[1].reqs) \subseteq pendingActions

\* Two segments are requested together only at the beginning, behind the MPD.
OneMissing ==
  /\ (logic = "NO_MPD") <=> (contour = -1)
  /\ contour <= N \/ (N = 0 /\ contour = 1)
  /\ delayedRequests # <<>> => contour >= 2
  /\ N = 0 => served <= 1
  /\ contour = -1 /\ (queue # <<>> \/ actions # <<>>) => served = 0

\* The client of the current connection accepts until the limit is reached or the
\* connection is lost, and an action finds it.
ConnectionUsable ==
  /\ served = Limit => ~accepting
  /\ lost = 0 =>
       /\ thread \in {"disconnect", "done"} => served = Limit
       /\ actions # <<>> => actions[1].conn = tcpConnectionId /\ served < Limit
       /\ delayedRequests # <<>> => served < Limit
       /\ served < Limit /\ ctl # "start" => accepting

FlowParts ==
  /\ EventsExpected /\ ReceivedInOrder /\ RequestsPending /\ OneMissing /\ ConnectionUsable

FlowInv == OrderInv /\ FlowParts
-----------------------------------------------------------------------------
(* The order of the events *)

LEMMA OrderedExtension ==
  ASSUME NEW es \in Seq(ControlLogicEvent), NEW more \in Seq(ControlLogicEvent),
         Len(more) <= 1, DataInOrder(es),
         \A i \in DOMAIN es, j \in DOMAIN more :
           IsData(es[i]) /\ IsData(more[j]) => es[i].content = 0 /\ more[j].content = 1
  PROVE  DataInOrder(es \o more)
<1> DEFINE all == es \o more
<1>1. /\ DOMAIN es = 1..Len(es) /\ Len(es) \in Nat
      /\ DOMAIN more = 1..Len(more) /\ Len(more) \in Nat
  BY LenProperties
<1>2. /\ all \in Seq(ControlLogicEvent) /\ Len(all) = Len(es) + Len(more)
      /\ \A i \in 1..Len(es) + Len(more) :
           all[i] = IF i <= Len(es) THEN es[i] ELSE more[i - Len(es)]
  BY ConcatProperties
<1>3. DOMAIN all = 1..(Len(es) + Len(more))
  BY <1>2, LenProperties
<1> HIDE DEF all
<1>4. ASSUME NEW i \in DOMAIN all, NEW j \in DOMAIN all, i < j, IsData(all[i]), IsData(all[j])
      PROVE  all[i].content = 0 /\ all[j].content = 1
  <2>1. i \in DOMAIN es /\ all[i] = es[i]
    BY <1>1, <1>2, <1>3, <1>4
  <2>2. CASE j <= Len(es)
    <3>1. j \in DOMAIN es /\ all[j] = es[j]
      BY <1>1, <1>2, <1>3, <2>2
    <3> QED
      BY <1>4, <2>1, <3>1 DEF DataInOrder
  <2>3. CASE j > Len(es)
    <3>1. j - Len(es) \in DOMAIN more /\ all[j] = more[j - Len(es)]
      BY <1>1, <1>2, <1>3, <2>3
    <3> QED
      BY <1>4, <2>1, <3>1
  <2> QED
    BY <1>1, <1>3, <2>2, <2>3
<1> QED
  BY <1>4 DEF DataInOrder, all

LEMMA InFlightLength ==
  ASSUME TypeOK
  PROVE  Len(InFlight) <= 1
BY DEF InFlight

\* However the queue changes, received data stays in order.
LEMMA DataInOrderStep ==
  ASSUME TypeOK, ReceivedInOrder, ChangesEvents
  PROVE  DataInOrder(events)'
<1>1. events \in Seq(ControlLogicEvent) /\ DataInOrder(events)
  BY DEF TypeOK, ReceivedInOrder
<1>2. /\ InFlight \in Seq(ControlLogicEvent) /\ Len(InFlight) <= 1
      /\ \A j \in DOMAIN InFlight : IsData(InFlight[j]) =>
           thread = "pushing" /\ InFlight[j].content = cbReq.content
  BY InFlightType, InFlightLength DEF IsData, DataReceived, Disconnect
<1>3. \A i \in DOMAIN events : IsData(events[i]) /\ thread = "pushing" =>
        events[i].content = 0 /\ cbReq.content = 1
  BY DEF ReceivedInOrder, InCallback
<1> DEFINE more == InFlight
<1>4. /\ more \in Seq(ControlLogicEvent) /\ Len(more) <= 1
      /\ \A i \in DOMAIN events, j \in DOMAIN more :
           IsData(events[i]) /\ IsData(more[j]) => events[i].content = 0 /\ more[j].content = 1
  BY <1>2, <1>3
<1>5. CASE ConsumesEvent
  <2> DEFINE rest == Tail(events)
  <2>1. /\ rest \in Seq(ControlLogicEvent)
        /\ \A i \in DOMAIN rest : i \in Nat /\ i + 1 \in DOMAIN events /\ rest[i] = events[i + 1]
    BY <1>1, <1>5, TailFacts, LenProperties DEF ConsumesEvent
  <2>2. events' \in {rest, rest \o more}
    BY <1>5 DEF ConsumesEvent
  <2> HIDE DEF rest, more
  <2>3. DataInOrder(rest)
    <3> SUFFICES ASSUME NEW i \in DOMAIN rest, NEW j \in DOMAIN rest, i < j,
                        IsData(rest[i]), IsData(rest[j])
                 PROVE  rest[i].content = 0 /\ rest[j].content = 1
      BY DEF DataInOrder
    <3>1. i + 1 < j + 1
      BY <2>1
    <3> QED
      BY <1>1, <2>1, <3>1 DEF DataInOrder
  <2>4. \A i \in DOMAIN rest, j \in DOMAIN more :
          IsData(rest[i]) /\ IsData(more[j]) => rest[i].content = 0 /\ more[j].content = 1
    BY <1>4, <2>1
  <2>5. DataInOrder(rest \o more)
    BY <1>4, <2>1, <2>3, <2>4, OrderedExtension
  <2>6. CASE events' = rest
    BY <2>3, <2>6
  <2>7. CASE events' = rest \o more
    BY <2>5, <2>7
  <2> QED
    BY <2>2, <2>6, <2>7
<1>6. CASE events' = events
  BY <1>1, <1>6
<1>7. CASE events' = <<>>
  BY <1>7 DEF DataInOrder
<1>8. CASE events' = events \o InFlight
  <2>1. events' = events \o more
    BY <1>8
  <2> HIDE DEF more
  <2>2. DataInOrder(events \o more)
    BY <1>1, <1>4, OrderedExtension
  <2> QED
    BY <2>1, <2>2
<1>9. CASE events' = Append(events, DataPlayed(vlcBeta))
  <2> DEFINE played1 == <<DataPlayed(vlcBeta)>>
  <2>1. DataPlayed(vlcBeta) \in ControlLogicEvent /\ ~IsData(DataPlayed(vlcBeta))
    BY ContentFacts DEF TypeOK, DataPlayed, ControlLogicEvent, IsData
  <2>2. events' = events \o played1
    BY <1>1, <1>9, <2>1, AppendIsConcat
  <2>3. /\ played1 \in Seq(ControlLogicEvent) /\ Len(played1) = 1
        /\ \A j \in DOMAIN played1 : ~IsData(played1[j])
    BY <2>1
  <2> HIDE DEF played1
  <2>4. DataInOrder(events \o played1)
    BY <1>1, <2>3, OrderedExtension
  <2> QED
    BY <2>2, <2>4
<1> QED
  BY <1>5, <1>6, <1>7, <1>8, <1>9 DEF ChangesEvents

\* When the first event is received data, other data that has been received is
\* segment 1, behind segment 0.
LEMMA OthersBehindFirst ==
  ASSUME FlowInv, events # <<>>, IsData(Head(events))
  PROVE  /\ \A j \in DOMAIN events : j > 1 /\ IsData(events[j]) =>
              Head(events).content = 0 /\ events[j].content = 1
         /\ InCallback => Head(events).content = 0 /\ cbReq.content = 1
<1>1. 1 \in DOMAIN events /\ Head(events) = events[1]
  BY TailFacts DEF FlowInv, OrderInv, TypeOK
<1> QED
  BY <1>1 DEF FlowInv, FlowParts, ReceivedInOrder, DataInOrder

\* The queue without what the client's thread has under way.
KeepsEvents ==
  \/ events' = events
  \/ events' = <<>>
  \/ events # <<>> /\ events' = Tail(events)
  \/ vlc = "pushing" /\ events' = Append(events, DataPlayed(vlcBeta))

LEMMA KeptEvents ==
  ASSUME TypeOK, KeepsEvents
  PROVE  \A i \in DOMAIN events' :
           \/ \E j \in DOMAIN events : events'[i] = events[j]
           \/ vlc = "pushing" /\ events'[i] = DataPlayed(vlcBeta)
<1>1. events \in Seq(ControlLogicEvent) /\ DOMAIN events = 1..Len(events) /\ Len(events) \in Nat
  BY LenProperties DEF TypeOK
<1>2. CASE events' = events
  BY <1>2
<1>3. CASE events' = <<>>
  BY <1>3
<1>4. CASE events # <<>> /\ events' = Tail(events)
  BY <1>1, <1>4, TailFacts
<1>5. CASE vlc = "pushing" /\ events' = Append(events, DataPlayed(vlcBeta))
  <2>1. DataPlayed(vlcBeta) \in ControlLogicEvent
    BY ContentFacts DEF TypeOK, DataPlayed, ControlLogicEvent
  <2>2. /\ events' \in Seq(ControlLogicEvent)
        /\ DOMAIN events' = 1..(Len(events) + 1)
        /\ \A i \in 1..Len(events) : events'[i] = events[i]
        /\ events'[Len(events) + 1] = DataPlayed(vlcBeta)
    BY <1>1, <1>5, <2>1, AppendProperties, LenProperties
  <2> QED
    BY <1>1, <1>5, <2>2
<1> QED
  BY <1>2, <1>3, <1>4, <1>5 DEF KeepsEvents

\* The events that stay, while the logic waits for the same and the connection is the
\* same, can still be processed; what comes in addition is shown for each operation.
LEMMA ExpectedStep ==
  ASSUME FlowInv,
         \A i \in DOMAIN events' :
           (\E j \in DOMAIN events : events'[i] = events[j]) \/ EventOk(events[i])',
         contour' = contour, pendingActions \subseteq pendingActions',
         lost' = 0 => lost = 0,
         \/ tcpConnectionId' = tcpConnectionId + 1
         \/ /\ tcpConnectionId' = tcpConnectionId
            /\ thread \in {"done", "destroyed"} =>
                 thread' \in {"done", "destroyed"} /\ served' = served,
         InCallback' =>
           \/ InCallback /\ cbReq' = cbReq
           \/ Expected(cbReq.content)' /\ cbReq'.content \in pendingActions',
         vlc' = "pushing" => vlc = "pushing" \/ contour # -1
  PROVE  EventsExpected'
<1>1. EventsExpected
  BY DEF FlowInv, FlowParts
<1>2. ASSUME NEW i \in DOMAIN events' PROVE EventOk(events[i])'
  <2>1. CASE \E j \in DOMAIN events : events'[i] = events[j]
    <3>1. PICK j \in DOMAIN events : events'[i] = events[j]
      BY <2>1
    <3>2. EventOk(events[j]) /\ tcpConnectionId \in Nat /\ events[j].conn \in Nat
      <4>1. events[j] \in ControlLogicEvent
        BY LenProperties, ElementOfSeq DEF FlowInv, OrderInv, TypeOK
      <4> QED
        BY <1>1, <4>1 DEF EventsExpected, FlowInv, OrderInv, TypeOK, ControlLogicEvent
    <3>3. IsData(events[i])' =>
            Expected(events[i].content)' /\ events'[i].content \in pendingActions'
      BY <3>1, <3>2 DEF EventOk, Expected, IsData
    <3>4. events[j].type = "dataPlayed" => contour' # -1
      BY <3>2 DEF EventOk
    <3>5. ASSUME events[j].type = "disconnect"
          PROVE  /\ events[j].conn <= tcpConnectionId'
                 /\ events[j].conn = tcpConnectionId' =>
                      thread' \in {"done", "destroyed"} /\ (lost' = 0 => served' = Limit)
      BY <3>2, <3>5 DEF EventOk
    <3> QED
      BY <3>1, <3>3, <3>4, <3>5 DEF EventOk, IsData
  <2> QED
    BY <1>2, <2>1
<1>3. InCallback' => Expected(cbReq.content)' /\ cbReq'.content \in pendingActions'
  BY <1>1 DEF EventsExpected, Expected
<1> QED
  BY <1>1, <1>2, <1>3 DEF EventsExpected

\* Data that has been received stays in order as long as nothing new enters the callback.
LEMMA ReceivedInOrderStep ==
  ASSUME FlowInv, ChangesEvents,
         InCallback' => InCallback /\ cbReq' = cbReq /\ (thread # "pushing" \/ KeepsEvents)
  PROVE  ReceivedInOrder'
<1>1. DataInOrder(events)'
  BY DataInOrderStep DEF FlowInv, FlowParts, OrderInv
<1>2. ASSUME NEW i \in DOMAIN events', IsData(events'[i]), InCallback'
      PROVE  events'[i].content = 0 /\ cbReq'.content = 1
  <2>1. InCallback /\ cbReq' = cbReq
    BY <1>2
  <2>2. \E j \in DOMAIN events : events'[i] = events[j]
    <3>1. CASE thread # "pushing"
      BY <1>2, <3>1, EventsStep DEF FlowInv, OrderInv, IsData
    <3>2. CASE KeepsEvents
      BY <1>2, <3>2, KeptEvents DEF FlowInv, OrderInv, IsData, DataPlayed
    <3> QED
      BY <1>2, <3>1, <3>2
  <2> QED
    BY <1>2, <2>1, <2>2 DEF FlowInv, FlowParts, ReceivedInOrder
<1> QED
  BY <1>1, <1>2 DEF ReceivedInOrder, IsData

\* An operation that requests, receives and acknowledges nothing.
LEMMA QuietFlow ==
  ASSUME FlowInv, ChangesEvents,
         \A i \in DOMAIN events' :
           (\E j \in DOMAIN events : events'[i] = events[j]) \/ EventOk(events[i])',
         UNCHANGED <<contour, downloaded, queue, delayedRequests, pendingActions, logic,
                     tcpConnectionId, served>>,
         actions' \in {actions, <<>>},
         lost' = 0 => lost = 0,
         thread \in {"done", "destroyed"} => thread' \in {"done", "destroyed"},
         thread' \in {"disconnect", "done"} =>
           thread \in {"disconnect", "done"} \/ (lost' = 0 => served = Limit),
         InCallback' => InCallback /\ cbReq' = cbReq /\ (thread # "pushing" \/ KeepsEvents),
         accepting' = accepting \/ (accepting' = FALSE /\ (lost' = 0 => served = Limit)),
         ctl = "start" => ctl' = "start",
         vlc' = "pushing" => vlc = "pushing" \/ contour # -1
  PROVE  FlowParts'
<1>1. EventsExpected'
  BY ExpectedStep
<1>2. ReceivedInOrder'
  BY ReceivedInOrderStep
<1>3. N' = N
  BY DEF N
<1>4. RequestsPending' /\ OneMissing'
  BY <1>3 DEF FlowInv, FlowParts, RequestsPending, OneMissing
<1>5. ConnectionUsable'
  <2>1. served \in 0..Limit /\ Limit \in Nat
    BY ControlLoopAssumption DEF FlowInv, OrderInv, TypeOK
  <2>2. ConnectionUsable
    BY DEF FlowInv, FlowParts
  <2>3. served' = Limit => ~accepting'
    BY <2>2 DEF ConnectionUsable
  <2>4. ASSUME lost' = 0
        PROVE  /\ thread' \in {"disconnect", "done"} => served' = Limit
               /\ actions' # <<>> => actions'[1].conn = tcpConnectionId' /\ served' < Limit
               /\ delayedRequests' # <<>> => served' < Limit
               /\ served' < Limit /\ ctl' # "start" => accepting'
    BY <2>1, <2>2, <2>4 DEF ConnectionUsable
  <2> QED
    BY <2>3, <2>4 DEF ConnectionUsable
<1> QED
  BY <1>1, <1>2, <1>4, <1>5 DEF FlowParts

\* The same with an unchanged connection, the common case.
LEMMA UntouchedFlow ==
  ASSUME FlowInv, KeepsEvents,
         UNCHANGED <<contour, downloaded, queue, delayedRequests, pendingActions, logic,
                     tcpConnectionId, served, lost, thread, cbReq, accepting>>,
         actions' \in {actions, <<>>},
         ctl = "start" => ctl' = "start",
         vlc' = "pushing" => vlc = "pushing" \/ contour # -1
  PROVE  FlowParts'
<1>1. ChangesEvents
  BY DEF KeepsEvents, ChangesEvents, ConsumesEvent
<1>2. ASSUME NEW i \in DOMAIN events',
             ~(\E j \in DOMAIN events : events'[i] = events[j])
      PROVE  EventOk(events[i])'
  <2>1. vlc = "pushing" /\ events'[i] = DataPlayed(vlcBeta)
    BY <1>2, KeptEvents DEF FlowInv, OrderInv
  <2>2. contour # -1
    BY <2>1 DEF FlowInv, FlowParts, EventsExpected
  <2> QED
    BY <2>1, <2>2 DEF EventOk, IsData, DataPlayed
<1> QED
  BY <1>1, <1>2, QuietFlow DEF InCallback

LEMMA FailFlow ==
  ASSUME FlowInv, NEW where, Fail(where)
  PROVE  FlowParts'
BY UntouchedFlow DEF Fail, KeepsEvents, control, logicVars, client, storage, reader
-----------------------------------------------------------------------------
(* Every operation keeps it *)

LEMMA FlowFacts ==
  ASSUME FlowInv
  PROVE  /\ TypeOK /\ OrderInv /\ EventsExpected /\ ReceivedInOrder /\ RequestsPending
         /\ OneMissing /\ ConnectionUsable
         /\ N \in Nat /\ contour \in Int /\ contour <= LastSeg /\ contour >= -1
         /\ contour = -1 => N = 0 /\ delayedRequests = <<>> /\ downloaded = {}
         /\ contour # -1 => contour >= 1
         /\ downloaded = 0..(N - 1) /\ N <= contour + 1
         /\ LastSeg \in Nat /\ Limit \in Nat /\ Limit >= 2
         /\ served \in 0..Limit /\ tcpConnectionId \in Nat /\ lost \in Nat
BY OrderFacts, ControlLoopAssumption
   DEF FlowInv, FlowParts, OrderInv, OrderParts, StoredInOrder, TypeOK

\* The first event, if it is received data.
LEMMA FirstData ==
  ASSUME FlowInv, events # <<>>, IsData(Head(events))
  PROVE  /\ Head(events).content \in pendingActions
         /\ contour = -1 => Head(events).content = Mpd /\ queue = <<>> /\ actions = <<>>
         /\ contour # -1 => /\ Head(events).content \in downloaded
                            /\ \/ Head(events).content = contour
                               \/ Head(events).content = 0 /\ contour = 1
<1>1. 1 \in DOMAIN events /\ Head(events) = events[1]
  BY TailFacts DEF FlowInv, OrderInv, TypeOK
<1>2. /\ EventOk(Head(events)) /\ IsStored(Head(events).content)
  BY <1>1 DEF FlowInv, FlowParts, EventsExpected, OrderInv, OrderParts, ReceivedIsStored, IsData
<1>3. contour # -1 => contour # Mpd /\ 0 # Mpd
  BY DEF Mpd
<1> QED
  BY <1>2, <1>3 DEF EventOk, Expected, IsStored

\* When the last segment of the contour has been received, nothing else is under way.
LEMMA LastReceived ==
  ASSUME FlowInv, events # <<>>, IsData(Head(events)), contour # -1,
         Head(events).content = contour
  PROVE  /\ N = contour + 1 /\ queue = <<>> /\ actions = <<>> /\ delayedRequests = <<>>
         /\ \A j \in DOMAIN events : j > 1 => ~IsData(events[j])
         /\ ~InCallback
<1>1. contour \in downloaded /\ contour # 0
  BY FirstData, FlowFacts
<1> QED
  BY <1>1, LastArrived, OthersBehindFirst DEF FlowInv

\* No assertion on a segment that has been received fails: it is pending, no request is
\* delayed, the next segment extends the contour, and a connection that is replaced has
\* no requests and does not wait for the mutex.
LEMMA SegmentFaultFree ==
  ASSUME FlowInv, events # <<>>, IsData(Head(events)), contour # -1,
         NEW k \in Seg, Head(events).content = k
  PROVE  SegmentFault(k) = "none"
<1>1. k \in pendingActions /\ (k = contour \/ (k = 0 /\ contour = 1))
  BY FirstData
<1>2. delayedRequests = <<>>
  <2>1. CASE k = contour
    BY <2>1, LastReceived
  <2>2. CASE contour = 1
    BY <2>2, FlowFacts DEF OneMissing
  <2> QED
    BY <1>1, <2>1, <2>2
<1>3. AckActionRequestCompleted(k) # pendingActions
  BY <1>1 DEF AckActionRequestCompleted
<1>4. CASE NothingFollows(k)
  BY <1>2, <1>3, <1>4 DEF SegmentFault
<1>5. CASE ~NothingFollows(k)
  <2>1. k = contour /\ contour >= 1 /\ contour \in Nat
    BY <1>1, <1>5, FlowFacts DEF NothingFollows
  <2>2. queue = <<>> /\ ~InCallback
    BY <2>1, LastReceived
  <2>3. MaySetNext(k + 1)
    BY <2>1 DEF MaySetNext
  <2>4. MustReconnect => ~accepting
    <3>1. Len(queue) = 0
      BY <2>2, EmptySeq
    <3>2. MustReconnect => served = Limit
      BY <3>1, FlowFacts DEF MustReconnect, KeepAliveMaxRemaining, Sent
    <3> QED
      BY <3>2, FlowFacts DEF ConnectionUsable
  <2> QED
    BY <1>2, <1>3, <1>5, <2>2, <2>3, <2>4 DEF SegmentFault, NeedsMutex, InCallback
<1> QED
  BY <1>4, <1>5

\* What is requested has not arrived.
LEMMA MissingNotStored ==
  ASSUME FlowInv, contour # -1, NEW reqs \in Seq(HttpRequest), AreTheMissing(reqs),
         NEW i \in DOMAIN reqs
  PROVE  reqs[i].content \notin downloaded
<1>1. reqs[i] = GetRequest(N + i - 1) /\ i \in Nat /\ i >= 1
  BY LenProperties DEF AreTheMissing
<1>2. N + i - 1 \notin 0..(N - 1)
  BY <1>1, FlowFacts
<1> QED
  BY <1>1, <1>2, FlowFacts DEF GetRequest

\* A segment after which nothing is requested.
LEMMA SegmentAcknowledged ==
  ASSUME FlowInv, events # <<>>, IsData(Head(events)), contour # -1,
         NEW k \in Seg, Head(events).content = k,
         events' = Tail(events), pendingActions' = pendingActions \ {k},
         UNCHANGED <<ctl, contour, downloaded, delayedRequests, actions, logic, lost,
                     client, vlc>>
  PROVE  FlowParts'
<1>1. UNCHANGED <<queue, served, accepting, thread, cbReq, tcpConnectionId>>
  BY DEF client
<1>2. /\ \A i \in DOMAIN events' : i \in Nat /\ i + 1 \in DOMAIN events /\ events'[i] = events[i + 1]
  BY TailFacts, LenProperties DEF FlowInv, OrderInv, TypeOK
<1>3. EventsExpected'
  <2>1. ASSUME NEW i \in DOMAIN events' PROVE EventOk(events[i])'
    <3>1. EventOk(events[i + 1]) /\ events'[i] = events[i + 1] /\ i + 1 > 1
      BY <1>2, FlowFacts DEF EventsExpected
    <3>2. IsData(events[i + 1]) => k = 0 /\ events[i + 1].content = 1
      BY <1>2, <3>1, OthersBehindFirst
    <3> QED
      BY <1>1, <3>1, <3>2 DEF EventOk, Expected, IsData
  <2>2. InCallback => k = 0 /\ cbReq.content = 1
    BY OthersBehindFirst
  <2> QED
    BY <1>1, <2>1, <2>2, FlowFacts DEF EventsExpected, InCallback, Expected
<1>4. ReceivedInOrder'
  BY <1>1, ReceivedInOrderStep DEF KeepsEvents, ChangesEvents, ConsumesEvent, InCallback
<1>5. k \in downloaded
  BY FirstData
<1>6. RequestsPending'
  <2>1. \A i \in DOMAIN queue : queue[i].content \in pendingActions \ {k}
    <3> SUFFICES ASSUME NEW i \in DOMAIN queue PROVE queue[i].content \in pendingActions \ {k}
      OBVIOUS
    <3>1. queue \in Seq(HttpRequest) /\ queue # <<>>
      BY LenProperties DEF FlowInv, OrderInv, TypeOK
    <3>2. AreTheMissing(queue)
      BY <3>1 DEF FlowInv, OrderInv, OrderParts, MissingInOnePlace
    <3> QED
      BY <1>5, <3>1, <3>2, MissingNotStored, FlowFacts DEF RequestsPending
  <2>2. ASSUME actions # <<>> PROVE Contents(actions[1].reqs) \subseteq pendingActions \ {k}
    <3>1. AreTheMissing(actions[1].reqs)
      BY <2>2 DEF FlowInv, OrderInv, OrderParts, MissingInOnePlace
    <3>2. actions[1].reqs \in Seq(HttpRequest)
      <4>1. actions[1] \in ControlLogicAction
        BY <2>2, TailFacts DEF FlowInv, OrderInv, TypeOK
      <4> QED
        BY <4>1 DEF ControlLogicAction
    <3>3. \A i \in DOMAIN actions[1].reqs : actions[1].reqs[i].content # k
      BY <1>5, <3>1, <3>2, MissingNotStored
    <3> QED
      BY <2>2, <3>3, FlowFacts DEF RequestsPending, Contents
  <2> QED
    BY <1>1, <2>1, <2>2 DEF RequestsPending
<1>7. OneMissing' /\ ConnectionUsable'
  BY <1>1, FlowFacts DEF OneMissing, ConnectionUsable, N
<1> QED
  BY <1>3, <1>4, <1>6, <1>7 DEF FlowParts

\* An event that is no received data, behind the first one or under way, can be processed
\* when segment contour' has been decided.
LEMMA NoDataStep ==
  ASSUME FlowInv, ChangesEvents, ConsumesEvent,
         \A j \in DOMAIN events : j > 1 => ~IsData(events[j]),
         ~InCallback, ~InCallback', contour' # -1, lost' = lost, vlc' = vlc,
         \/ tcpConnectionId' = tcpConnectionId + 1
         \/ /\ UNCHANGED <<tcpConnectionId, served, thread>>
            /\ events' = Tail(events)
  PROVE  EventsExpected' /\ ReceivedInOrder'
<1>1. ASSUME NEW i \in DOMAIN events' PROVE EventOk(events[i])' /\ ~IsData(events'[i])
  <2>1. \/ \E j \in DOMAIN events : events'[i] = events[j] /\ j > 1
        \/ thread = "pushing" /\ events'[i] = DataReceived(cbReq.content, cbBeta)
        \/ thread = "disconnect" /\ events'[i] = Disconnect
        \/ vlc = "pushing" /\ events'[i] = DataPlayed(vlcBeta)
    BY EventsOrigin DEF FlowInv, OrderInv
  <2>2. thread # "pushing"
    BY DEF InCallback
  <2>3. CASE \E j \in DOMAIN events : events'[i] = events[j] /\ j > 1
    <3>1. PICK j \in DOMAIN events : events'[i] = events[j] /\ j > 1
      BY <2>3
    <3>2. EventOk(events[j]) /\ ~IsData(events[j])
      BY <3>1, FlowFacts DEF EventsExpected
    <3>3. events[j] \in ControlLogicEvent
      BY LenProperties, ElementOfSeq DEF FlowInv, OrderInv, TypeOK
    <3>4. events[j].conn \in Nat
      BY <3>3 DEF ControlLogicEvent
    <3> QED
      BY <3>1, <3>2, <3>4, FlowFacts DEF EventOk, IsData
  <2>4. CASE vlc = "pushing" /\ events'[i] = DataPlayed(vlcBeta)
    BY <2>4 DEF EventOk, IsData, DataPlayed
  <2>5. CASE /\ ~\E j \in DOMAIN events : events'[i] = events[j] /\ j > 1
             /\ thread = "disconnect" /\ events'[i] = Disconnect
    <3>1. CASE tcpConnectionId' = tcpConnectionId + 1
      BY <2>5, <3>1, FlowFacts DEF EventOk, IsData, Disconnect
    <3>2. CASE events' = Tail(events)
      <4>1. i + 1 \in DOMAIN events /\ events'[i] = events[i + 1] /\ i \in Nat /\ i >= 1
        BY <1>1, <3>2, TailFacts, LenProperties DEF ConsumesEvent, FlowInv, OrderInv, TypeOK
      <4> QED
        BY <2>5, <4>1
    <3> QED
      BY <3>1, <3>2
  <2> QED
    BY <2>1, <2>2, <2>3, <2>4, <2>5
<1>2. ReceivedInOrder'
  BY <1>1 DEF ReceivedInOrder, DataInOrder, IsData
<1>3. EventsExpected'
  BY <1>1 DEF EventsExpected
<1> QED
  BY <1>2, <1>3

\* A segment after which the next one is requested or delayed.
LEMMA ProcessSegmentFlow ==
  ASSUME FlowInv, events # <<>>, ctl = "loop", IsData(Head(events)), contour # -1,
         NEW k \in Seg, Head(events).content = k, NEW beta, ProcessSegment(k, beta)
  PROVE  FlowParts'
<1>1. SegmentFault(k) = "none"
  BY SegmentFaultFree
<1>2. CASE NothingFollows(k)
  <2>1. /\ Issue(AckActionRequestCompleted(k), <<>>) /\ events' = Tail(events)
        /\ UNCHANGED <<control, logic, contour, delayedRequests, Bdelay, client, lost,
                       storage, reader, fault>>
    BY <1>1, <1>2 DEF ProcessSegment
  <2>2. actions' = actions /\ pendingActions' = pendingActions \ {k}
    BY <2>1, IssueNone DEF AckActionRequestCompleted, FlowInv, OrderInv
  <2> QED
    BY <2>1, <2>2, SegmentAcknowledged DEF control, storage, reader
<1>3. CASE ~NothingFollows(k)
  <2>1. /\ contour' = k + 1
        /\ IF MustReconnect
           THEN CreateClient /\ events' = Tail(events) \o InFlight
           ELSE UNCHANGED client /\ events' = Tail(events)
        /\ \/ /\ Issue(AckActionRequestCompleted(k),
                       <<StartDownload(tcpConnectionId', <<GetRequest(k + 1)>>)>>)
              /\ UNCHANGED delayedRequests
           \/ /\ Issue(AckActionRequestCompleted(k), <<>>)
              /\ delayedRequests' = Append(delayedRequests, k + 1)
        /\ UNCHANGED <<control, logic, lost, storage, reader, fault>>
    BY <1>1, <1>3 DEF ProcessSegment
  <2>2. UNCHANGED <<ctl, logic, lost, downloaded, vlc>>
    BY <2>1 DEF control, storage, reader
  <2>3. k = contour /\ k >= 1 /\ k \in Nat
    BY <1>3, FirstData, FlowFacts DEF NothingFollows
  <2>4. /\ N = contour + 1 /\ queue = <<>> /\ actions = <<>> /\ delayedRequests = <<>>
        /\ \A j \in DOMAIN events : j > 1 => ~IsData(events[j])
        /\ ~InCallback
    BY <2>3, LastReceived
  <2>5. ~MustReconnect => served < Limit
    <3>1. Len(queue) = 0
      BY <2>4, EmptySeq
    <3> QED
      BY <3>1, FlowFacts DEF MustReconnect, KeepAliveMaxRemaining, Sent
  <2>6. /\ queue' = <<>> /\ ~InCallback' /\ served' < Limit /\ tcpConnectionId' \in Nat
        /\ thread' = "run" \/ thread' = thread
        /\ lost = 0 /\ ctl # "start" => accepting'
    <3>1. CASE MustReconnect
      BY <2>1, <3>1, FlowFacts DEF CreateClient, InCallback
    <3>2. CASE ~MustReconnect
      BY <2>1, <2>4, <2>5, <3>2, FlowFacts DEF client, InCallback, ConnectionUsable
    <3> QED
      BY <3>1, <3>2
  <2>7. EventsExpected' /\ ReceivedInOrder'
    <3>1. ChangesEvents /\ ConsumesEvent /\ contour' # -1
      BY <2>1, <2>3 DEF ChangesEvents, ConsumesEvent
    <3>2. \/ tcpConnectionId' = tcpConnectionId + 1
          \/ UNCHANGED <<tcpConnectionId, served, thread>> /\ events' = Tail(events)
      BY <2>1 DEF CreateClient, client
    <3> QED
      BY <2>2, <2>4, <2>6, <3>1, <3>2, NoDataStep
  <2>8. /\ actions' # <<>> => /\ actions'[1].conn = tcpConnectionId'
                              /\ Contents(actions'[1].reqs) \subseteq pendingActions'
    <3>1. CASE Issue(AckActionRequestCompleted(k),
                     <<StartDownload(tcpConnectionId', <<GetRequest(k + 1)>>)>>)
      <4>1. k + 1 \in Content
        BY <1>3, <2>3, FlowFacts DEF Content, Seg, NothingFollows
      <4>2. <<GetRequest(k + 1)>> \in Seq(HttpRequest)
        BY <4>1, ContentFacts
      <4> DEFINE reqs == <<GetRequest(k + 1)>>
      <4> HIDE DEF reqs
      <4>3. /\ reqs \in Seq(HttpRequest)
            /\ Issue(AckActionRequestCompleted(k), <<StartDownload(tcpConnectionId', reqs)>>)
        BY <3>1, <4>2 DEF reqs
      <4>4. /\ actions'[1].conn = tcpConnectionId' /\ actions'[1].reqs = reqs
            /\ Contents(reqs) \subseteq pendingActions'
        BY <2>4, <2>6, <4>3, IssueOne, FlowFacts
      <4> QED
        BY <4>4
    <3>2. CASE Issue(AckActionRequestCompleted(k), <<>>)
      BY <2>4, <3>2, IssueNone, FlowFacts
    <3> QED
      BY <2>1, <3>1, <3>2
  <2>9. RequestsPending'
    BY <2>6, <2>8 DEF RequestsPending
  <2>10. OneMissing'
    <3>1. N' = N
      BY <2>2 DEF N
    <3> QED
      BY <2>1, <2>2, <2>3, <2>4, <3>1, FlowFacts DEF OneMissing
  <2>11. ConnectionUsable'
    <3>1. lost' = 0 => (thread' \in {"disconnect", "done"} => served' = Limit)
      <4>1. CASE MustReconnect
        BY <2>1, <4>1 DEF CreateClient
      <4>2. CASE ~MustReconnect
        BY <2>1, <2>2, <4>2, FlowFacts DEF client, ConnectionUsable
      <4> QED
        BY <4>1, <4>2
    <3> QED
      BY <2>2, <2>6, <2>8, <3>1, FlowFacts DEF ConnectionUsable
  <2> QED
    BY <2>7, <2>9, <2>10, <2>11 DEF FlowParts
<1> QED
  BY <1>2, <1>3

LEMMA ProcessMpdFlow ==
  ASSUME FlowInv, ~FetchHeads, Limit >= 4, events # <<>>, ctl = "loop", IsData(Head(events)),
         contour = -1, ProcessMpd
  PROVE  FlowParts'
<1>1. /\ events' = Tail(events) /\ contour' = 1 /\ logic' = "HAVE_MPD"
      /\ Issue(AckActionRequestCompleted(Mpd), FollowMpd)
      /\ UNCHANGED <<control, delayedRequests, client, lost, storage, reader>>
  BY DEF ProcessMpd
<1>2. UNCHANGED <<ctl, delayedRequests, queue, served, accepting, thread, cbReq,
                  tcpConnectionId, lost, downloaded, vlc>>
  BY <1>1 DEF control, client, storage, reader
<1>3. Head(events).content = Mpd /\ queue = <<>> /\ actions = <<>> /\ delayedRequests = <<>>
      /\ N = 0
  BY FirstData, FlowFacts
<1>4. (\A j \in DOMAIN events : j > 1 => ~IsData(events[j])) /\ ~InCallback
  BY <1>3, OthersBehindFirst DEF Mpd
<1>5. EventsExpected' /\ ReceivedInOrder'
  BY <1>1, <1>2, <1>4, NoDataStep DEF ChangesEvents, ConsumesEvent, InCallback
<1> DEFINE reqs == <<GetRequest(0), GetRequest(1)>>
<1>6. reqs \in Seq(HttpRequest)
  BY ContentFacts
<1>7. Issue(AckActionRequestCompleted(Mpd), <<StartDownload(tcpConnectionId, reqs)>>)
  <2>1. FetchFirst \in Seq(ControlLogicAction)
    BY <1>6, ActionType DEF FetchFirst, FlowInv, OrderInv, TypeOK
  <2>2. FetchSizes = <<>>
    BY DEF FetchSizes
  <2>3. FollowMpd = FetchFirst
    BY <2>1, <2>2, ConcatEmptySeq DEF FollowMpd
  <2> QED
    BY <1>1, <2>3 DEF FetchFirst
<1> HIDE DEF reqs
<1>8. /\ actions'[1].conn = tcpConnectionId /\ actions'[1].reqs = reqs
      /\ Contents(reqs) \subseteq pendingActions'
  BY <1>3, <1>6, <1>7, IssueOne, FlowFacts
<1>9. RequestsPending'
  BY <1>2, <1>3, <1>8 DEF RequestsPending
<1>10. OneMissing'
  BY <1>1, <1>2, <1>3, FlowFacts DEF OneMissing, N
<1>11. ConnectionUsable'
  BY <1>2, <1>3, <1>8, FlowFacts DEF ConnectionUsable, OneMissing
<1> QED
  BY <1>5, <1>9, <1>10, <1>11 DEF FlowParts

LEMMA ProcessDataPlayedFlow ==
  ASSUME FlowInv, events # <<>>, ctl = "loop", NEW beta, ProcessDataPlayed(beta)
  PROVE  FlowParts'
<1>1. /\ events' = Tail(events) /\ KeepsEvents /\ ChangesEvents
      /\ UNCHANGED <<ctl, logic, contour, queue, served, accepting, thread, cbReq,
                     tcpConnectionId, lost, downloaded, vlc>>
  BY DEF ProcessDataPlayed, control, client, storage, reader, KeepsEvents, ChangesEvents,
         ConsumesEvent
<1>2. CASE ~(delayedRequests # <<>> /\ RequestNow(beta, Bdelay))
  <2>1. UNCHANGED <<actions, pendingActions, delayedRequests>>
    BY <1>2 DEF ProcessDataPlayed
  <2> QED
    BY <1>1, <2>1, UntouchedFlow
<1>3. CASE delayedRequests # <<>> /\ RequestNow(beta, Bdelay)
  <2>1. /\ queue = <<>> /\ actions = <<>> /\ delayedRequests[1] = contour /\ N = contour
        /\ contour >= 2
    BY <1>3, FlowFacts DEF OrderInv, OrderParts, MissingInOnePlace, OneMissing
  <2> DEFINE reqs == <<GetRequest(contour)>>
  <2>2. reqs \in Seq(HttpRequest)
    BY ContentFacts DEF FlowInv, OrderInv, TypeOK
  <2>3. /\ Issue(pendingActions, <<StartDownload(tcpConnectionId, reqs)>>)
        /\ delayedRequests' = <<>>
    BY <1>3, <2>1 DEF ProcessDataPlayed
  <2> HIDE DEF reqs
  <2>4. /\ actions'[1].conn = tcpConnectionId /\ actions'[1].reqs = reqs
        /\ Contents(reqs) \subseteq pendingActions' /\ pendingActions \subseteq pendingActions'
    BY <2>1, <2>2, <2>3, IssueOne, FlowFacts
  <2>5. EventsExpected'
    <3>1. \A i \in DOMAIN events' : \E j \in DOMAIN events : events'[i] = events[j]
      BY <1>1, TailFacts DEF FlowInv, OrderInv, TypeOK
    <3> QED
      BY <1>1, <2>4, <3>1, ExpectedStep DEF InCallback
  <2>6. ReceivedInOrder'
    BY <1>1, ReceivedInOrderStep DEF InCallback
  <2>7. RequestsPending'
    BY <1>1, <2>1, <2>4 DEF RequestsPending
  <2>8. OneMissing' /\ ConnectionUsable'
    BY <1>1, <1>3, <2>1, <2>3, <2>4, FlowFacts DEF OneMissing, ConnectionUsable, N
  <2> QED
    BY <2>5, <2>6, <2>7, <2>8 DEF FlowParts
<1> QED
  BY <1>2, <1>3

\* The requests of a lost connection are pending when they are restarted.
LEMMA ProcessDisconnectFlow ==
  ASSUME FlowInv, events # <<>>, ctl = "loop", Head(events).type = "disconnect",
         NEW conn, conn = Head(events).conn, ProcessDisconnect(conn)
  PROVE  FlowParts'
<1>1. CASE Fail("joinDeadlock") \/ Fail("restartMpd")
  BY <1>1, FailFlow
<1>2. CASE conn < tcpConnectionId
  <2>1. events' = Tail(events) /\ UNCHANGED <<control, actions, logicVars, client, lost, storage, reader>>
    BY <1>2 DEF ProcessDisconnect
  <2> QED
    BY <2>1, UntouchedFlow DEF KeepsEvents, control, logicVars, client, storage, reader
<1>3. CASE ~(conn < tcpConnectionId) /\ ~Fail("joinDeadlock") /\ ~Fail("restartMpd")
  <2>1. /\ CreateClient /\ events' = Tail(events) \o InFlight
        /\ Issue(pendingActions,
                 IF queue = <<>> THEN <<>>
                 ELSE <<StartDownload(tcpConnectionId + 1, Restarted(queue))>>)
        /\ UNCHANGED <<control, logic, contour, delayedRequests, lost, storage, reader>>
    BY <1>3 DEF ProcessDisconnect
  <2>2. /\ UNCHANGED <<ctl, logic, contour, delayedRequests, lost, downloaded, vlc>>
        /\ tcpConnectionId' = tcpConnectionId + 1 /\ queue' = <<>> /\ served' = 0
        /\ accepting' /\ thread' = "run" /\ ~InCallback'
    BY <2>1 DEF control, storage, reader, CreateClient, InCallback
  <2>3. thread \in {"done", "destroyed"} /\ (lost = 0 => served = Limit)
    <3>1. EventOk(Head(events)) /\ Head(events).conn \in Nat
      <4>1. 1 \in DOMAIN events /\ Head(events) = events[1] /\ events[1] \in ControlLogicEvent
        BY TailFacts DEF FlowInv, OrderInv, TypeOK
      <4> QED
        BY <4>1, FlowFacts DEF EventsExpected, ControlLogicEvent
    <3> QED
      BY <1>3, <3>1, FlowFacts DEF EventOk
  <2>4. events' = Tail(events)
    <3>1. InFlight = <<>>
      BY <2>3 DEF InFlight
    <3>2. Tail(events) \in Seq(ControlLogicEvent)
      BY TailFacts DEF FlowInv, OrderInv, TypeOK
    <3> QED
      BY <2>1, <3>1, <3>2, ConcatEmptySeq
  <2>5. /\ actions' # <<>> =>
             /\ lost = 0 => actions'[1].conn = tcpConnectionId'
             /\ Contents(actions'[1].reqs) \subseteq pendingActions'
        /\ pendingActions \subseteq pendingActions'
    <3>1. CASE queue = <<>>
      <4>1. actions' = actions /\ pendingActions' = pendingActions
        BY <2>1, <3>1, IssueNone DEF FlowInv, OrderInv
      <4> QED
        BY <2>3, <4>1, FlowFacts DEF RequestsPending, ConnectionUsable
    <3>2. CASE queue # <<>>
      <4> DEFINE reqs == Restarted(queue)
      <4>1. reqs \in Seq(HttpRequest)
        BY RestartedType DEF FlowInv, OrderInv, TypeOK
      <4>2. Issue(pendingActions, <<StartDownload(tcpConnectionId + 1, reqs)>>)
        BY <2>1, <3>2
      <4>3. actions = <<>>
        BY <3>2 DEF FlowInv, OrderInv, OrderParts, MissingInOnePlace
      <4> HIDE DEF reqs
      <4>4. tcpConnectionId + 1 \in Nat
        BY FlowFacts
      <4>5. /\ actions'[1].conn = tcpConnectionId + 1 /\ actions'[1].reqs = reqs
            /\ Contents(reqs) \subseteq pendingActions' /\ pendingActions \subseteq pendingActions'
        BY <4>1, <4>2, <4>3, <4>4, IssueOne, FlowFacts
      <4> QED
        BY <2>2, <4>5
    <3> QED
      BY <3>1, <3>2
  <2>6. EventsExpected'
    <3>1. \A i \in DOMAIN events' : \E j \in DOMAIN events : events'[i] = events[j]
      BY <2>4, TailFacts DEF FlowInv, OrderInv, TypeOK
    <3> QED
      BY <2>2, <2>5, <3>1, ExpectedStep
  <2>7. ReceivedInOrder'
    BY <2>2, <2>4, ReceivedInOrderStep DEF ChangesEvents, ConsumesEvent
  <2>8. RequestsPending'
    BY <2>2, <2>5 DEF RequestsPending
  <2>9. OneMissing' /\ ConnectionUsable'
    BY <2>2, <2>5, FlowFacts DEF OneMissing, ConnectionUsable, N
  <2> QED
    BY <2>6, <2>7, <2>8, <2>9 DEF FlowParts
<1> QED
  BY <1>1, <1>2, <1>3

LEMMA ProcessEventFlow ==
  ASSUME FlowInv, ~FetchHeads, Limit >= 4, ProcessEvent
  PROVE  FlowParts'
<1> DEFINE e == Head(events)
<1>1. events # <<>> /\ ctl = "loop" /\ Dispatch(e)
  BY DEF ProcessEvent
<1>2. e \in ControlLogicEvent /\ e = Head(events)
  BY <1>1, TailFacts DEF FlowInv, OrderInv, TypeOK
<1> HIDE DEF e
<1>3. CASE Fail("unexpectedEvent")
  BY <1>3, FailFlow
<1>4. CASE e.type = "dataReceived" /\ e.content = Mpd /\ contour = -1 /\ ProcessMpd
  BY <1>1, <1>2, <1>4, ProcessMpdFlow DEF IsData
<1>5. CASE /\ e.type = "dataReceived" /\ e.content # Mpd /\ contour # -1
           /\ ProcessSegment(e.content, e.beta)
  <2>1. e.content \in Seg
    BY <1>2, <1>5, ContentFacts DEF ControlLogicEvent
  <2> QED
    BY <1>1, <1>2, <1>5, <2>1, ProcessSegmentFlow DEF IsData
<1>6. CASE ProcessDataPlayed(e.beta)
  BY <1>1, <1>6, ProcessDataPlayedFlow
<1>7. CASE e.type = "disconnect" /\ ProcessDisconnect(e.conn)
  BY <1>1, <1>2, <1>7, ProcessDisconnectFlow
<1> QED
  BY <1>1, <1>3, <1>4, <1>5, <1>6, <1>7 DEF Dispatch, ProcessDataReceived

LEMMA StartPlaybackFlow ==
  ASSUME FlowInv, StartPlayback
  PROVE  FlowParts'
<1>1. CASE Fail("controlNotPlaying")
  BY <1>1, FailFlow
<1>2. CASE ~Fail("controlNotPlaying")
  <2> DEFINE reqs == <<GetRequest(Mpd)>>
  <2>1. /\ CreateClient /\ ctl' = "loop" /\ ctl = "start"
        /\ Issue(pendingActions, <<StartDownload(tcpConnectionId + 1, reqs)>>)
        /\ UNCHANGED <<state, events, logic, contour, delayedRequests, Bdelay, lost,
                       storage, reader, fault>>
    BY <1>2 DEF StartPlayback
  <2>2. /\ UNCHANGED <<events, logic, contour, delayedRequests, lost, downloaded, vlc>>
        /\ tcpConnectionId' = tcpConnectionId + 1 /\ queue' = <<>> /\ served' = 0
        /\ accepting' /\ thread' = "run" /\ ~InCallback'
    BY <2>1 DEF storage, reader, CreateClient, InCallback
  <2>3. contour = -1 /\ actions = <<>> /\ delayedRequests = <<>>
    BY <2>1, FlowFacts DEF OrderInv, OrderParts, NothingRequested
  <2>4. reqs \in Seq(HttpRequest)
    BY ContentFacts
  <2>5. tcpConnectionId + 1 \in Nat
    BY FlowFacts
  <2> HIDE DEF reqs
  <2>6. /\ actions'[1].conn = tcpConnectionId' /\ actions'[1].reqs = reqs
        /\ Contents(reqs) \subseteq pendingActions' /\ pendingActions \subseteq pendingActions'
    BY <2>1, <2>2, <2>3, <2>4, <2>5, IssueOne, FlowFacts
  <2>7. EventsExpected'
    BY <2>2, <2>6, ExpectedStep
  <2>8. ReceivedInOrder'
    BY <2>2, ReceivedInOrderStep DEF ChangesEvents
  <2>9. RequestsPending' /\ OneMissing' /\ ConnectionUsable'
    BY <2>2, <2>3, <2>6, FlowFacts DEF RequestsPending, OneMissing, ConnectionUsable, N
  <2> QED
    BY <2>7, <2>8, <2>9 DEF FlowParts
<1> QED
  BY <1>1, <1>2

LEMMA ProcessActionFlow ==
  ASSUME FlowInv, ProcessAction
  PROVE  FlowParts'
<1>1. CASE Fail("noClient") \/ Fail("rejected")
  BY <1>1, FailFlow
<1>2. CASE ~Fail("noClient") /\ ~Fail("rejected")
  <2>1. /\ ctl = "actions" /\ ctl' \in {"loop", "actions"}
        /\ queue' = queue \o Head(actions).reqs /\ actions' = Tail(actions)
        /\ UNCHANGED <<events, logicVars, tcpConnectionId, served, accepting, thread, cbReq,
                       lost, storage, reader>>
    BY <1>2 DEF ProcessAction, ProcessActionStartDownload
  <2>2. UNCHANGED <<logic, contour, delayedRequests, pendingActions, downloaded, vlc>>
    BY <2>1 DEF logicVars, storage, reader
  <2>3. actions # <<>>
    BY <2>1 DEF FlowInv, OrderInv, ActionsRemain
  <2>4. /\ Head(actions) = actions[1] /\ Head(actions) \in ControlLogicAction
        /\ Tail(actions) \in Seq(ControlLogicAction) /\ Len(Tail(actions)) = Len(actions) - 1
    BY <2>3, TailFacts DEF FlowInv, OrderInv, TypeOK
  <2>5. Len(actions) = 1 /\ delayedRequests = <<>> /\ queue = <<>>
    BY <2>3 DEF FlowInv, OrderInv, OrderParts, MissingInOnePlace
  <2>6. actions' = <<>>
    <3>1. Len(Tail(actions)) = 0
      BY <2>4, <2>5
    <3> QED
      BY <2>1, <2>4, <3>1, EmptySeq
  <2>7. queue' = actions[1].reqs
    <3>1. actions[1].reqs \in Seq(HttpRequest)
      BY <2>4 DEF ControlLogicAction
    <3>2. queue' = <<>> \o actions[1].reqs
      BY <2>1, <2>4, <2>5
    <3> QED
      BY <3>1, <3>2, ConcatEmptySeq
  <2>8. EventsExpected'
    BY <2>1, <2>2, ExpectedStep DEF InCallback
  <2>9. ReceivedInOrder'
    BY <2>1, ReceivedInOrderStep DEF ChangesEvents, KeepsEvents, InCallback
  <2>10. RequestsPending'
    BY <2>2, <2>3, <2>6, <2>7, FlowFacts DEF RequestsPending, Contents
  <2>11. OneMissing' /\ ConnectionUsable'
    BY <2>1, <2>2, <2>3, <2>5, <2>6, FlowFacts DEF OneMissing, ConnectionUsable, N
  <2> QED
    BY <2>8, <2>9, <2>10, <2>11 DEF FlowParts
<1> QED
  BY <1>1, <1>2

\* Received data that is not processed, while a request is being answered, is segment 0,
\* and the answer is segment 1.
LEMMA ReceivedBeforeAnswer ==
  ASSUME FlowInv, queue # <<>>, NEW i \in DOMAIN events, IsData(events[i])
  PROVE  contour = 1 /\ N = 1 /\ events[i].content = 0
<1>1. EventOk(events[i]) /\ IsStored(events[i].content)
  BY FlowFacts DEF EventsExpected, OrderInv, OrderParts, ReceivedIsStored, IsData
<1>2. AreTheMissing(queue) /\ Len(queue) \in Nat \ {0}
  BY EmptySeq DEF FlowInv, OrderInv, OrderParts, MissingInOnePlace, TypeOK
<1>3. contour # -1
  BY <1>1 DEF EventOk, Expected, IsStored
<1>4. N <= contour
  BY <1>2, <1>3, FlowFacts DEF AreTheMissing
<1>5. contour \notin downloaded
  BY <1>4, FlowFacts
<1>6. events[i].content \in {0, contour} /\ (events[i].content = contour \/ contour = 1)
  BY <1>1, <1>3 DEF EventOk, Expected
<1>7. events[i].content \in downloaded
  BY <1>1, <1>3, <1>6, FlowFacts DEF IsStored, Mpd
<1> QED
  BY <1>4, <1>5, <1>6, <1>7, FlowFacts

\* The first request is the one whose answer the logic waits for.
LEMMA FirstRequest ==
  ASSUME FlowInv, queue # <<>>
  PROVE  /\ Expected(Head(queue).content) /\ Head(queue).content \in pendingActions
         /\ Head(queue).method = "GET"
         /\ contour # -1 => Head(queue).content = N
         /\ contour = -1 => Len(queue) = 1
         /\ actions = <<>> /\ delayedRequests = <<>>
         /\ contour # -1 => Len(queue) = contour + 1 - N /\ Len(queue) \in Nat \ {0}
<1>1. /\ AreTheMissing(queue) /\ Len(queue) \in Nat \ {0} /\ 1 \in DOMAIN queue
      /\ Head(queue) = queue[1] /\ actions = <<>> /\ delayedRequests = <<>>
  BY EmptySeq, TailFacts DEF FlowInv, OrderInv, OrderParts, MissingInOnePlace, TypeOK
<1>2. Head(queue).content \in pendingActions
  BY <1>1, FlowFacts DEF RequestsPending
<1>3. CASE contour = -1
  BY <1>1, <1>2, <1>3 DEF AreTheMissing, GetRequest, Expected
<1>4. CASE contour # -1
  <2>1. N + 1 - 1 = N
    BY FlowFacts
  <2>2. Head(queue) = GetRequest(N) /\ Len(queue) = contour + 1 - N
    BY <1>1, <1>4, <2>1 DEF AreTheMissing
  <2>3. N = contour \/ (N = 0 /\ contour = 1)
    BY <1>1, <2>2, FlowFacts DEF OneMissing
  <2> QED
    BY <1>1, <1>2, <1>4, <2>2, <2>3 DEF GetRequest, Expected
<1> QED
  BY <1>3, <1>4

LEMMA CompleteRequestFlow ==
  ASSUME FlowInv, CompleteRequest
  PROVE  FlowParts'
<1>1. CASE Fail("requestsDeleted") \/ Fail("keepAlive") \/ Fail("segmentSizes")
  BY <1>1, FailFlow
<1>2. CASE ~Fail("requestsDeleted") /\ ~Fail("keepAlive") /\ ~Fail("segmentSizes")
  <2>1. /\ queue # <<>> /\ queue' = Tail(queue) /\ thread = "run" /\ served < Limit
        /\ served' = served + 1 /\ accepting' = (accepting /\ served + 1 # Limit)
        /\ thread' \in {"run", "locking", "pushing"} /\ cbReq' = Head(queue)
        /\ UNCHANGED <<control, events, actions, logicVars, tcpConnectionId, lost, reader>>
    BY <1>2 DEF CompleteRequest
  <2>2. UNCHANGED <<ctl, logic, contour, delayedRequests, pendingActions, vlc>>
    BY <2>1 DEF control, logicVars, reader
  <2>3. \/ N' = N /\ (contour = -1 \/ queue' = queue)
        \/ N' = N + 1 /\ N <= contour
    BY CompleteRequestOrder DEF FlowInv
  <2>4. queue' # queue
    <3>1. queue \in Seq(HttpRequest)
      BY DEF FlowInv, OrderInv, TypeOK
    <3>2. Len(queue') = Len(queue) - 1 /\ Len(queue) \in Nat
      BY <2>1, <3>1, TailFacts, LenProperties
    <3> QED
      BY <3>2
  <2>5. EventsExpected'
    BY <2>1, <2>2, FirstRequest, ExpectedStep DEF InCallback, Expected
  <2>6. ReceivedInOrder'
    <3>1. DataInOrder(events)'
      BY <2>1, FlowFacts DEF ReceivedInOrder, DataInOrder, IsData
    <3>2. ASSUME NEW i \in DOMAIN events', IsData(events[i])'
          PROVE  events'[i].content = 0 /\ cbReq'.content = 1
      <4>1. i \in DOMAIN events /\ IsData(events[i]) /\ events'[i] = events[i]
        BY <2>1, <3>2 DEF IsData
      <4>2. contour = 1 /\ N = 1 /\ events[i].content = 0
        BY <2>1, <4>1, ReceivedBeforeAnswer
      <4> QED
        BY <2>1, <4>1, <4>2, FirstRequest
    <3> QED
      BY <3>1, <3>2 DEF ReceivedInOrder, IsData
  <2>7. RequestsPending'
    <3>1. \A i \in DOMAIN queue' : i + 1 \in DOMAIN queue /\ queue'[i] = queue[i + 1]
      BY <2>1, TailFacts DEF FlowInv, OrderInv, TypeOK
    <3> QED
      BY <2>1, <2>2, <3>1, FlowFacts DEF RequestsPending
  <2>8. OneMissing'
    <3>1. actions' = <<>> /\ delayedRequests' = <<>>
      BY <2>1, <2>2, FirstRequest
    <3>2. contour = -1 => queue' = <<>> /\ served' = 1 /\ N' = N
      <4> SUFFICES ASSUME contour = -1 PROVE queue' = <<>> /\ served' = 1 /\ N' = N
        OBVIOUS
      <4>1. Len(queue') = 0 /\ queue' \in Seq(HttpRequest)
        BY <2>1, FirstRequest, TailFacts DEF FlowInv, OrderInv, TypeOK
      <4>2. served = 0
        BY <2>1, FlowFacts DEF OneMissing
      <4> QED
        BY <2>1, <2>3, <4>1, <4>2, EmptySeq, FlowFacts
    <3>3. contour # -1 => N' = N + 1 /\ N <= contour
      BY <2>3, <2>4
    <3> QED
      BY <2>2, <3>1, <3>2, <3>3, FlowFacts DEF OneMissing
  <2>9. ConnectionUsable'
    <3>1. actions' = <<>> /\ delayedRequests' = <<>>
      BY <2>1, <2>2, FirstRequest
    <3>2. accepting' <=> (accepting /\ served + 1 # Limit)
      BY <2>1
    <3>3. served' = Limit => ~accepting'
      BY <2>1, <3>2
    <3>4. lost' = 0 /\ served' < Limit /\ ctl' # "start" => accepting'
      BY <2>1, <2>2, <3>2, FlowFacts DEF ConnectionUsable
    <3>5. thread' \notin {"disconnect", "done"}
      BY <2>1
    <3> QED
      BY <3>1, <3>3, <3>4, <3>5 DEF ConnectionUsable
  <2> QED
    BY <2>5, <2>6, <2>7, <2>8, <2>9 DEF FlowParts
<1> QED
  BY <1>1, <1>2

LEMMA HttpFlow ==
  ASSUME FlowInv, LoseConnection \/ HttpThread \/ DestroyClient
  PROVE  FlowParts'
<1>1. CASE Fail("mutexDestroyed") \/ Fail("mpdNotPlaying") \/ Fail("destructor")
  BY <1>1, FailFlow
<1>2. CASE ~(Fail("mutexDestroyed") \/ Fail("mpdNotPlaying") \/ Fail("destructor"))
  <2>1. /\ UNCHANGED <<ctl, contour, downloaded, queue, delayedRequests, pendingActions, logic,
                       tcpConnectionId, served, actions, cbReq, vlc>>
        /\ ChangesEvents
    BY <1>2
       DEF LoseConnection, HttpThread, ComputeBeta, PushDataReceived, PushDisconnect,
           DestroyClient, ChangesEvents, control, logicVars, client, storage, reader
  <2>2. CASE LoseConnection
    <3>1. /\ thread = "run" /\ thread' = "disconnect" /\ accepting' = FALSE /\ events' = events
          /\ lost' = 0 => lost = 0 /\ served = Limit
      BY <2>2, FlowFacts DEF LoseConnection
    <3> QED
      BY <2>1, <3>1, QuietFlow DEF InCallback
  <2>3. CASE ComputeBeta
    <3>1. /\ thread = "locking" /\ thread' = "pushing"
          /\ UNCHANGED <<lost, accepting, events>>
      BY <1>2, <2>3 DEF ComputeBeta
    <3> QED
      BY <2>1, <3>1, QuietFlow DEF InCallback
  <2>4. CASE PushDataReceived \/ PushDisconnect
    <3>1. /\ events' = events \o InFlight /\ thread \in {"pushing", "disconnect"}
          /\ thread' = IF thread = "pushing" THEN "run" ELSE "done"
          /\ UNCHANGED <<lost, accepting>>
      BY <1>2, <2>4 DEF PushDataReceived, PushDisconnect
    <3>2. ASSUME NEW i \in DOMAIN events'
          PROVE  (\E j \in DOMAIN events : events'[i] = events[j]) \/ EventOk(events[i])'
      <4>1. \/ \E j \in DOMAIN events : events'[i] = events[j]
            \/ thread = "pushing" /\ events'[i] = DataReceived(cbReq.content, cbBeta)
            \/ thread = "disconnect" /\ events'[i] = Disconnect
            \/ vlc = "pushing" /\ events'[i] = DataPlayed(vlcBeta)
        BY <2>1, EventsOrigin DEF FlowInv, OrderInv
      <4>2. CASE thread = "pushing" /\ events'[i] = DataReceived(cbReq.content, cbBeta)
        <5>1. Expected(cbReq.content) /\ cbReq.content \in pendingActions
          BY <4>2, FlowFacts DEF EventsExpected, InCallback
        <5> QED
          BY <2>1, <4>2, <5>1 DEF EventOk, Expected, IsData, DataReceived
      <4>3. CASE thread = "disconnect" /\ events'[i] = Disconnect
        <5>1. lost = 0 => served = Limit
          BY <4>3, FlowFacts DEF ConnectionUsable
        <5> QED
          BY <2>1, <3>1, <4>3, <5>1, FlowFacts DEF EventOk, IsData, Disconnect
      <4>4. CASE vlc = "pushing" /\ events'[i] = DataPlayed(vlcBeta)
        <5>1. contour # -1
          BY <4>4, FlowFacts DEF EventsExpected
        <5> QED
          BY <2>1, <4>4, <5>1 DEF EventOk, IsData, DataPlayed
      <4> QED
        BY <4>1, <4>2, <4>3, <4>4
    <3> QED
      BY <2>1, <3>1, <3>2, QuietFlow DEF InCallback
  <2>5. CASE DestroyClient
    <3>1. /\ thread \in {"run", "done"} /\ thread' = "destroyed"
          /\ UNCHANGED <<lost, accepting, events>>
      BY <1>2, <2>5 DEF DestroyClient
    <3> QED
      BY <2>1, <3>1, QuietFlow DEF InCallback
  <2> QED
    BY <2>2, <2>3, <2>4, <2>5 DEF HttpThread
<1> QED
  BY <1>1, <1>2

LEMMA VlcFlow ==
  ASSUME FlowInv, Vlc \/ Close \/ CleanUp \/ StartActions \/ LeaveLoop \/ UNCHANGED vars
  PROVE  FlowParts'
<1>1. /\ UNCHANGED <<contour, downloaded, queue, delayedRequests, pendingActions, logic,
                     tcpConnectionId, served, lost, thread, cbReq, accepting>>
      /\ actions' \in {actions, <<>>} /\ (ctl = "start" => ctl' = "start")
      /\ KeepsEvents
  BY DEF Vlc, VlcCb, PushDataPlayed, Close, CleanUp, StartActions, LeaveLoop, vars, KeepsEvents,
         control, logicVars, client, storage, reader
<1>2. vlc' = "pushing" => vlc = "pushing" \/ contour # -1
  <2>1. CASE VlcCb
    <3>1. PICK p \in (played + 1)..contour : TRUE
      BY <2>1 DEF VlcCb
    <3>2. played \in Int /\ played >= -1
      BY ControlLoopAssumption DEF FlowInv, OrderInv, TypeOK, Content, Seg, Mpd
    <3> QED
      BY <3>1, <3>2, FlowFacts
  <2>2. CASE vlc' \in {vlc, "idle"}
    BY <2>2
  <2>3. VlcCb \/ vlc' \in {vlc, "idle"}
    BY DEF Vlc, PushDataPlayed, Close, CleanUp, StartActions, LeaveLoop, vars, reader
  <2> QED
    BY <2>1, <2>2, <2>3
<1> QED
  BY <1>1, <1>2, UntouchedFlow

LEMMA FlowStep ==
  ASSUME ~FetchHeads, Limit >= 4, FlowInv, [Next]_vars
  PROVE  FlowParts'
<1>1. CASE StartPlayback \/ ProcessAction \/ ProcessEvent
  BY <1>1, StartPlaybackFlow, ProcessActionFlow, ProcessEventFlow
<1>2. CASE CompleteRequest
  BY <1>2, CompleteRequestFlow
<1>3. CASE LoseConnection \/ HttpThread \/ DestroyClient
  BY <1>3, HttpFlow
<1>4. CASE Vlc \/ Close \/ CleanUp \/ StartActions \/ LeaveLoop \/ UNCHANGED vars
  BY <1>4, VlcFlow
<1> QED
  BY <1>1, <1>2, <1>3, <1>4 DEF Next, ControlThread

LEMMA FlowInit == Init => FlowInv
<1> SUFFICES ASSUME Init PROVE FlowInv
  OBVIOUS
<1>1. /\ downloaded = {} /\ contour = -1 /\ queue = <<>> /\ actions = <<>> /\ served = 0
      /\ delayedRequests = <<>> /\ events = <<>> /\ thread = "none" /\ vlc = "idle"
      /\ logic = "NO_MPD" /\ ctl = "start" /\ accepting = FALSE /\ lost = 0
  BY DEF Init, ControlLogicInit
<1>2. N = 0
  BY <1>1, FS_EmptySet DEF N
<1>3. EventsExpected /\ ReceivedInOrder /\ RequestsPending
  BY <1>1 DEF EventsExpected, ReceivedInOrder, DataInOrder, RequestsPending, InCallback
<1>4. OneMissing /\ ConnectionUsable
  BY <1>1, <1>2, ControlLoopAssumption DEF OneMissing, ConnectionUsable
<1> QED
  BY <1>3, <1>4, OrderInit DEF FlowInv, FlowParts
-----------------------------------------------------------------------------
(* What ends the process *)

\* An end that is allowed in this state.
MayEnd(where) ==
  /\ where \in {"noClient", "rejected", "restartMpd"} => lost > 0
  /\ where \in {"controlNotPlaying", "mpdNotPlaying", "mutexDestroyed", "requestsDeleted",
                "destructor"} => state # "Playing"
  /\ where \notin {"unexpectedEvent", "acknowledge", "delayedRequests", "contour",
                   "clearUnfinishedRequests", "joinDeadlock", "keepAlive", "segmentSizes"}

\* An operation goes on, or ends the process in an allowed way.
EndsRightly == fault' = "none" \/ (MayEnd(fault') /\ UNCHANGED <<state, lost>>)

LEMMA FailEnds ==
  ASSUME NEW where, Fail(where), MayEnd(where)
  PROVE  EndsRightly
BY DEF Fail, EndsRightly, MayEnd, control

LEMMA ProcessEventEnds ==
  ASSUME FlowInv, Running, ProcessEvent
  PROVE  EndsRightly
<1> DEFINE e == Head(events)
<1>1. events # <<>> /\ Dispatch(e)
  BY DEF ProcessEvent
<1>2. /\ e \in ControlLogicEvent /\ e = Head(events)
      /\ EventOk(e)
  <2>1. 1 \in DOMAIN events /\ Head(events) = events[1] /\ events[1] \in ControlLogicEvent
    BY <1>1, TailFacts DEF FlowInv, OrderInv, TypeOK
  <2> QED
    BY <2>1, FlowFacts DEF EventsExpected
<1> HIDE DEF e
<1>3. e.type \in {"dataReceived", "dataPlayed", "disconnect"} /\ e.conn \in Nat
  BY <1>2 DEF ControlLogicEvent
<1>4. CASE IsData(e)
  <2>1. CASE contour = -1
    <3>1. e.content = Mpd /\ logic = "NO_MPD"
      BY <1>1, <1>2, <1>4, <2>1, FirstData, FlowFacts DEF OneMissing
    <3>2. ProcessMpd
      BY <1>1, <1>4, <2>1, <3>1 DEF Dispatch, ProcessDataReceived, IsData
    <3> QED
      BY <3>2 DEF ProcessMpd, EndsRightly, Running
  <2>2. CASE contour # -1
    <3>1. e.content \in Seg /\ e.content # Mpd /\ logic = "HAVE_MPD"
      <4>1. e.content \in downloaded /\ downloaded \subseteq Seg /\ logic \in {"NO_MPD", "HAVE_MPD"}
        BY <1>1, <1>2, <1>4, <2>2, FirstData DEF FlowInv, OrderInv, TypeOK
      <4> QED
        BY <2>2, <4>1, ContentFacts, FlowFacts DEF OneMissing
    <3>2. ProcessSegment(e.content, e.beta)
      BY <1>1, <1>4, <2>2, <3>1 DEF Dispatch, ProcessDataReceived, IsData
    <3>3. SegmentFault(e.content) = "none"
      BY <1>1, <1>2, <1>4, <2>2, <3>1, SegmentFaultFree
    <3> QED
      BY <3>2, <3>3 DEF ProcessSegment, EndsRightly, Running
  <2> QED
    BY <2>1, <2>2
<1>5. CASE e.type = "dataPlayed"
  <2>1. logic = "HAVE_MPD"
    <3>1. contour # -1 /\ logic \in {"NO_MPD", "HAVE_MPD"}
      BY <1>2, <1>5 DEF EventOk, FlowInv, OrderInv, TypeOK
    <3> QED
      BY <3>1, FlowFacts DEF OneMissing
  <2>2. ProcessDataPlayed(e.beta)
    BY <1>1, <1>5, <2>1 DEF Dispatch
  <2> QED
    BY <2>2 DEF ProcessDataPlayed, EndsRightly, Running
<1>6. CASE e.type = "disconnect"
  <2>1. ProcessDisconnect(e.conn)
    BY <1>1, <1>6 DEF Dispatch
  <2>2. CASE e.conn < tcpConnectionId
    BY <2>1, <2>2 DEF ProcessDisconnect, EndsRightly, Running
  <2>3. CASE ~(e.conn < tcpConnectionId)
    <3>1. e.conn = tcpConnectionId
      BY <1>2, <1>3, <1>6, <2>3, FlowFacts DEF EventOk
    <3>2. thread \notin NeedsMutex /\ (lost = 0 => served = Limit)
      BY <1>2, <1>6, <3>1 DEF EventOk, NeedsMutex
    <3>3. CASE Mpd \in Contents(queue)
      <4>1. PICK i \in DOMAIN queue : queue[i].content = Mpd
        BY <3>3 DEF Contents
      <4>2. /\ queue # <<>> /\ i \in Nat /\ i >= 1
        BY LenProperties, EmptySeq DEF FlowInv, OrderInv, TypeOK
      <4>3. AreTheMissing(queue)
        BY <4>2 DEF FlowInv, OrderInv, OrderParts, MissingInOnePlace
      <4>4. contour = -1
        <5> SUFFICES ASSUME contour # -1 PROVE FALSE
          OBVIOUS
        <5>1. queue[i].content = N + i - 1
          BY <4>3 DEF AreTheMissing, GetRequest
        <5> QED
          BY <4>1, <4>2, <5>1, FlowFacts DEF Mpd
      <4>5. served = 0
        BY <4>2, <4>4, FlowFacts DEF OneMissing
      <4>6. lost > 0
        BY <3>2, <4>5, FlowFacts
      <4>7. Fail("restartMpd")
        BY <2>1, <2>3, <3>2, <3>3 DEF ProcessDisconnect
      <4> QED
        BY <4>6, <4>7, FailEnds DEF MayEnd
    <3>4. CASE Mpd \notin Contents(queue)
      BY <2>1, <2>3, <3>2, <3>4 DEF ProcessDisconnect, EndsRightly, Running
    <3> QED
      BY <3>3, <3>4
  <2> QED
    BY <2>2, <2>3
<1> QED
  BY <1>3, <1>4, <1>5, <1>6 DEF IsData

\* Two requests are sent on a connection that has served one at most, so that it is not
\* used up before the last.
LEMMA CompleteRequestEnds ==
  ASSUME FlowInv, Limit >= 4, Running, CompleteRequest
  PROVE  EndsRightly
<1>1. queue # <<>> /\ served < Limit
  BY DEF CompleteRequest
<1>2. CASE state = "Dead"
  <2>1. Fail("requestsDeleted")
    BY <1>2 DEF CompleteRequest
  <2> QED
    BY <1>2, <2>1, FailEnds DEF MayEnd
<1>3. KeepAliveMaxRemaining = 0 => served + 1 = Limit
  <2>1. Len(queue) \in Nat /\ (Len(queue) <= 1 \/ (Len(queue) = 2 /\ served <= 1))
    <3>1. CASE contour = -1
      <4>1. Len(queue) = 1
        BY <1>1, <3>1, FirstRequest
      <4> QED
        BY <4>1
    <3>2. CASE contour # -1
      <4>1. Len(queue) = contour + 1 - N /\ Len(queue) \in Nat \ {0}
        BY <1>1, <3>2, FirstRequest
      <4> QED
        BY <4>1, FlowFacts DEF OneMissing
    <3> QED
      BY <3>1, <3>2
  <2>2. /\ served \in Nat /\ Limit \in Nat /\ served + 1 <= Limit
        /\ served + Len(queue) < Limit \/ served + 1 = Limit
    <3>1. served \in Nat /\ Limit \in Nat /\ served < Limit
      BY <1>1, FlowFacts
    <3>2. CASE Len(queue) <= 1
      BY <2>1, <3>1, <3>2
    <3>3. CASE Len(queue) = 2 /\ served <= 1
      BY <3>1, <3>3
    <3> QED
      BY <2>1, <3>2, <3>3
  <2>3. served + Len(queue) < Limit => KeepAliveMaxRemaining # 0
    BY <2>1, <2>2 DEF KeepAliveMaxRemaining, Sent
  <2> QED
    BY <2>2, <2>3
<1>4. Head(queue).method # "HEAD"
  BY <1>1, FirstRequest
<1>5. CASE state # "Dead"
  <2>1. UNCHANGED fault
    BY <1>3, <1>4, <1>5 DEF CompleteRequest
  <2> QED
    BY <2>1 DEF EndsRightly, Running
<1> QED
  BY <1>2, <1>5

LEMMA ProcessActionEnds ==
  ASSUME FlowInv, Running, ProcessAction
  PROVE  EndsRightly
<1>1. ctl = "actions" /\ actions # <<>> /\ Head(actions) = actions[1]
  <2>1. ctl = "actions" /\ actions # <<>>
    BY DEF ProcessAction, FlowInv, OrderInv, ActionsRemain
  <2> QED
    BY <2>1, TailFacts DEF FlowInv, OrderInv, TypeOK
<1>2. lost = 0 => Head(actions).conn = tcpConnectionId /\ accepting
  BY <1>1, FlowFacts DEF ConnectionUsable
<1>3. CASE Head(actions).conn # tcpConnectionId \/ ~accepting
  <2>1. lost > 0
    BY <1>2, <1>3, FlowFacts
  <2>2. Fail("noClient") \/ Fail("rejected")
    BY <1>3 DEF ProcessAction, ProcessActionStartDownload
  <2> QED
    BY <2>1, <2>2, FailEnds DEF MayEnd
<1>4. CASE ~(Head(actions).conn # tcpConnectionId \/ ~accepting)
  BY <1>4 DEF ProcessAction, ProcessActionStartDownload, EndsRightly, Running
<1> QED
  BY <1>3, <1>4

LEMMA NextEnds ==
  ASSUME FlowInv, Limit >= 4, Next
  PROVE  Running /\ EndsRightly
<1>1. Running
  BY DEF Next, ControlThread, StartPlayback, ProcessEvent, StartActions, ProcessAction, LeaveLoop,
         CompleteRequest, LoseConnection, HttpThread, ComputeBeta, PushDataReceived,
         PushDisconnect, Vlc, VlcCb, PushDataPlayed, Close, CleanUp, DestroyClient
<1>2. CASE ProcessEvent \/ CompleteRequest \/ ProcessAction
  BY <1>1, <1>2, ProcessEventEnds, CompleteRequestEnds, ProcessActionEnds
<1>3. CASE StartPlayback
  <2>1. CASE state = "Playing"
    BY <1>1, <1>3, <2>1 DEF StartPlayback, EndsRightly, Running
  <2>2. CASE state # "Playing"
    <3>1. Fail("controlNotPlaying")
      BY <1>3, <2>2 DEF StartPlayback
    <3>2. MayEnd("controlNotPlaying")
      BY <2>2 DEF MayEnd
    <3> QED
      BY <1>1, <3>1, <3>2, FailEnds
  <2> QED
    BY <2>1, <2>2
<1>4. CASE HttpThread \/ DestroyClient
  <2>1. CASE fault' = fault
    BY <1>1, <2>1 DEF EndsRightly, Running
  <2>2. CASE fault' # fault
    <3>1. /\ Fail("mutexDestroyed") \/ Fail("mpdNotPlaying") \/ Fail("destructor")
          /\ state # "Playing"
      BY <1>4, <2>2
         DEF HttpThread, ComputeBeta, PushDataReceived, PushDisconnect, DestroyClient
    <3>2. MayEnd("mutexDestroyed") /\ MayEnd("mpdNotPlaying") /\ MayEnd("destructor")
      BY <3>1 DEF MayEnd
    <3> QED
      BY <1>1, <3>1, <3>2, FailEnds
  <2> QED
    BY <2>1, <2>2
<1>5. CASE StartActions \/ LeaveLoop \/ LoseConnection \/ Vlc \/ Close \/ CleanUp
  <2>1. fault' = fault
    BY <1>5
       DEF StartActions, LeaveLoop, LoseConnection, Vlc, VlcCb, PushDataPlayed, Close, CleanUp
  <2> QED
    BY <1>1, <2>1 DEF EndsRightly, Running
<1> QED
  BY <1>1, <1>2, <1>3, <1>4, <1>5 DEF Next, ControlThread

LEMMA EndStep ==
  ASSUME FlowInv, Limit >= 4, OnlyLossOrCloseEndsTheProcess, [Next]_vars
  PROVE  OnlyLossOrCloseEndsTheProcess'
<1>1. CASE UNCHANGED vars
  BY <1>1 DEF vars, control, OnlyLossOrCloseEndsTheProcess
<1>2. CASE Next
  <2>1. EndsRightly
    BY <1>2, NextEnds
  <2>2. CASE fault' = "none"
    BY <2>2 DEF OnlyLossOrCloseEndsTheProcess
  <2>3. CASE MayEnd(fault') /\ UNCHANGED <<state, lost>>
    BY <2>3 DEF MayEnd, OnlyLossOrCloseEndsTheProcess
  <2> QED
    BY <2>1, <2>2, <2>3 DEF EndsRightly
<1> QED
  BY <1>1, <1>2

\* If the sizes of the segments are not asked for and a server serves at least four
\* requests on a connection: under every order of the events of the control thread, of
\* the HTTP client's threads and of VLC, however many connections are lost or replaced,
\* no assertion of the control logic and of the HTTP client fails and the control thread
\* does not wait for itself; the process ends only because a connection was lost or the
\* player was closed.
THEOREM EndsRight ==
  ASSUME ~FetchHeads, Limit >= 4
  PROVE  Spec => []OnlyLossOrCloseEndsTheProcess
<1>1. Init => FlowInv /\ OnlyLossOrCloseEndsTheProcess
  BY FlowInit DEF Init, OnlyLossOrCloseEndsTheProcess
<1>2. /\ FlowInv /\ OnlyLossOrCloseEndsTheProcess /\ [Next]_vars
        => FlowInv' /\ OnlyLossOrCloseEndsTheProcess'
  BY FlowStep, EndStep, OrderStep, TypeStep, ActionsRemainStep DEF FlowInv, OrderInv
<1> QED
  BY <1>1, <1>2, PTL DEF Spec

-----------------------------------------------------------------------------
(* Where a download is *)

\* Segment k is requested, or received and not processed.
UnderWay(k) ==
  \/ k \in Contents(queue)
  \/ actions # <<>> /\ k \in Contents(actions[1].reqs)
  \/ InCallback /\ cbReq = GetRequest(k)
  \/ \E i \in DOMAIN events : IsData(events[i]) /\ events[i].content = k

\* What is not acknowledged is under way, and the last segment of the contour is, or is
\* delayed, unless the stream ends with it.
NothingForgotten ==
  Running /\ state = "Playing" =>
    /\ \A k \in pendingActions \cap Seg : UnderWay(k)
    /\ contour \in 1..(LastSeg - 1) => contour \in pendingActions \/ delayedRequests # <<>>

\* Every event stays in the queue, but for the one that is consumed.
LEMMA EventsStay ==
  ASSUME TypeOK
  PROVE  /\ events' \in {events, events \o InFlight, Append(events, DataPlayed(vlcBeta))} =>
              \A j \in DOMAIN events : \E i \in DOMAIN events' : events'[i] = events[j]
         /\ events' = events \o InFlight =>
              \A j \in DOMAIN InFlight : \E i \in DOMAIN events' : events'[i] = InFlight[j]
         /\ ConsumesEvent =>
              \A j \in DOMAIN events : j > 1 => \E i \in DOMAIN events' : events'[i] = events[j]
<1>1. /\ events \in Seq(ControlLogicEvent) /\ InFlight \in Seq(ControlLogicEvent)
      /\ DataPlayed(vlcBeta) \in ControlLogicEvent
  BY InFlightType, ContentFacts DEF TypeOK, DataPlayed, ControlLogicEvent
<1>2. ASSUME NEW es \in Seq(ControlLogicEvent), NEW more \in Seq(ControlLogicEvent)
      PROVE  /\ \A j \in DOMAIN es : j \in DOMAIN (es \o more) /\ (es \o more)[j] = es[j]
             /\ \A j \in DOMAIN more : \E i \in DOMAIN (es \o more) : (es \o more)[i] = more[j]
  <2>1. /\ DOMAIN es = 1..Len(es) /\ Len(es) \in Nat
        /\ DOMAIN more = 1..Len(more) /\ Len(more) \in Nat
    BY LenProperties
  <2>2. /\ es \o more \in Seq(ControlLogicEvent) /\ Len(es \o more) = Len(es) + Len(more)
        /\ \A i \in 1..Len(es) + Len(more) :
             (es \o more)[i] = IF i <= Len(es) THEN es[i] ELSE more[i - Len(es)]
    BY ConcatProperties
  <2>3. DOMAIN (es \o more) = 1..(Len(es) + Len(more))
    BY <2>2, LenProperties
  <2>4. ASSUME NEW j \in DOMAIN more
        PROVE  Len(es) + j \in DOMAIN (es \o more) /\ (es \o more)[Len(es) + j] = more[j]
    BY <2>1, <2>2, <2>3
  <2>5. ASSUME NEW j \in DOMAIN es
        PROVE  j \in DOMAIN (es \o more) /\ (es \o more)[j] = es[j]
    BY <2>1, <2>2, <2>3
  <2> QED
    BY <2>4, <2>5
<1>3. CASE events' \in {events, events \o InFlight, Append(events, DataPlayed(vlcBeta))}
  <2>1. CASE events' = Append(events, DataPlayed(vlcBeta))
    <3>1. /\ events' \in Seq(ControlLogicEvent) /\ Len(events') = Len(events) + 1
          /\ \A j \in 1..Len(events) : events'[j] = events[j]
      BY <1>1, <2>1, AppendProperties
    <3>2. /\ DOMAIN events = 1..Len(events) /\ Len(events) \in Nat
          /\ DOMAIN events' = 1..(Len(events) + 1)
      BY <1>1, <3>1, LenProperties
    <3>3. \A j \in DOMAIN events : j \in DOMAIN events'
      BY <3>2
    <3> QED
      BY <3>1, <3>2, <3>3
  <2>2. CASE events' = events \o InFlight
    BY <1>1, <1>2, <2>2
  <2> QED
    BY <1>3, <2>1, <2>2
<1>4. ASSUME ConsumesEvent, NEW j \in DOMAIN events, j > 1
      PROVE  \E i \in DOMAIN events' : events'[i] = events[j]
  <2>1. /\ Tail(events) \in Seq(ControlLogicEvent)
        /\ j - 1 \in DOMAIN Tail(events) /\ Tail(events)[j - 1] = events[j]
    <3>1. /\ Tail(events) \in Seq(ControlLogicEvent) /\ Len(Tail(events)) = Len(events) - 1
          /\ \A i \in DOMAIN Tail(events) : Tail(events)[i] = events[i + 1]
      BY <1>1, <1>4, TailFacts DEF ConsumesEvent
    <3>2. /\ DOMAIN Tail(events) = 1..(Len(events) - 1)
          /\ DOMAIN events = 1..Len(events) /\ Len(events) \in Nat
      BY <1>1, <3>1, LenProperties
    <3>3. j - 1 \in DOMAIN Tail(events) /\ (j - 1) + 1 = j
      BY <1>4, <3>2
    <3> QED
      BY <3>1, <3>3
  <2>2. CASE events' = Tail(events)
    BY <2>1, <2>2
  <2>3. CASE events' = Tail(events) \o InFlight
    BY <1>1, <1>2, <2>1, <2>3
  <2> QED
    BY <1>4, <2>2, <2>3 DEF ConsumesEvent
<1>5. ASSUME events' = events \o InFlight, NEW j \in DOMAIN InFlight
      PROVE  \E i \in DOMAIN events' : events'[i] = InFlight[j]
  BY <1>1, <1>2, <1>5
<1> QED
  BY <1>3, <1>4, <1>5

\* An operation that requests and acknowledges nothing: what was received stays received.
LEMMA QuietForgets ==
  ASSUME NothingForgotten,
         UNCHANGED <<contour, queue, actions, pendingActions, delayedRequests>>,
         fault' = "none" => Running, state' = "Playing" => state = "Playing",
         \A j \in DOMAIN events : IsData(events[j]) =>
           \E i \in DOMAIN events' : events'[i] = events[j],
         InCallback /\ state' = "Playing" /\ fault' = "none" =>
           \/ InCallback' /\ cbReq' = cbReq
           \/ \E i \in DOMAIN events' : IsData(events[i])' /\ events'[i].content = cbReq.content
  PROVE  NothingForgotten'
<1> SUFFICES ASSUME fault' = "none", state' = "Playing"
             PROVE  /\ \A k \in pendingActions' \cap Seg : UnderWay(k)'
                    /\ contour' \in 1..(LastSeg - 1) =>
                         contour' \in pendingActions' \/ delayedRequests' # <<>>
  BY DEF NothingForgotten, Running
<1>1. ASSUME NEW k \in pendingActions \cap Seg PROVE UnderWay(k)'
  <2>1. UnderWay(k)
    BY DEF NothingForgotten
  <2>2. CASE k \in Contents(queue) \/ (actions # <<>> /\ k \in Contents(actions[1].reqs))
    BY <2>2 DEF UnderWay, Contents
  <2>3. CASE InCallback /\ cbReq = GetRequest(k)
    BY <2>3 DEF UnderWay, GetRequest
  <2>4. CASE \E i \in DOMAIN events : IsData(events[i]) /\ events[i].content = k
    BY <2>4 DEF UnderWay, IsData
  <2> QED
    BY <2>1, <2>2, <2>3, <2>4 DEF UnderWay
<1> QED
  BY <1>1 DEF NothingForgotten

LEMMA QuietStepsForget ==
  ASSUME FlowInv, NothingForgotten,
         \/ LoseConnection \/ HttpThread \/ DestroyClient \/ Vlc \/ Close \/ CleanUp
         \/ StartActions \/ LeaveLoop \/ UNCHANGED vars
  PROVE  NothingForgotten'
<1>1. CASE fault' # "none" \/ state' # "Playing"
  BY <1>1 DEF NothingForgotten, Running
<1>2. CASE fault' = "none" /\ state' = "Playing"
  <2>1. /\ UNCHANGED <<contour, queue, actions, pendingActions, delayedRequests>>
        /\ fault' = "none" => Running
        /\ state = "Playing"
        /\ events' \in {events, events \o InFlight, Append(events, DataPlayed(vlcBeta))}
    BY <1>2 DEF LoseConnection, HttpThread, ComputeBeta, PushDataReceived, PushDisconnect,
       DestroyClient, Vlc, VlcCb, PushDataPlayed, Close, CleanUp, StartActions, LeaveLoop, vars,
       Fail, Running, control, logicVars, client, storage, reader
  <2>2. \A j \in DOMAIN events : \E i \in DOMAIN events' : events'[i] = events[j]
    BY <2>1, EventsStay, FlowFacts
  <2>3. ASSUME InCallback
        PROVE  \/ InCallback' /\ cbReq' = cbReq
               \/ \E i \in DOMAIN events' :
                    IsData(events[i])' /\ events'[i].content = cbReq.content
    <3>1. CASE PushDataReceived
      <4>1. thread = "pushing" /\ events' = events \o InFlight
        BY <1>2, <3>1 DEF PushDataReceived, Fail
      <4>2. /\ InFlight = <<DataReceived(cbReq.content, cbBeta)>>
        BY <4>1 DEF InFlight
      <4>3. \E i \in DOMAIN events' : events'[i] = DataReceived(cbReq.content, cbBeta)
        <5>1. 1 \in DOMAIN InFlight /\ InFlight[1] = DataReceived(cbReq.content, cbBeta)
          BY <4>2
        <5>2. \A j \in DOMAIN InFlight : \E i \in DOMAIN events' : events'[i] = InFlight[j]
          BY <4>1, EventsStay, FlowFacts
        <5> QED
          BY <5>1, <5>2
      <4> QED
        BY <4>3 DEF IsData, DataReceived
    <3>2. CASE ~PushDataReceived
      BY <1>2, <2>1, <2>3, <3>2
      DEF LoseConnection, HttpThread, ComputeBeta, PushDisconnect, DestroyClient, Vlc, VlcCb,
          PushDataPlayed, Close, CleanUp, StartActions, LeaveLoop, vars, Fail, InCallback, client
    <3> QED
      BY <3>1, <3>2
  <2> QED
    BY <2>1, <2>2, <2>3, QuietForgets
<1> QED
  BY <1>1, <1>2

\* When the last segment of the contour has been received, it is all that is not
\* acknowledged, but for a second copy of the MPD.
LEMMA OnlyLastPending ==
  ASSUME FlowInv, NothingForgotten, Running, state = "Playing",
         events # <<>>, IsData(Head(events)), NEW k \in Content, Head(events).content = k,
         k = contour
  PROVE  pendingActions \cap Seg \subseteq {k}
<1>1. queue = <<>> /\ actions = <<>> /\ ~InCallback
  <2>1. CASE contour = -1
    BY <2>1, FirstData, OthersBehindFirst, FlowFacts DEF Mpd
  <2>2. CASE contour # -1
    BY <2>2, LastReceived
  <2> QED
    BY <2>1, <2>2
<1>2. \A j \in DOMAIN events : IsData(events[j]) => events[j].content = k
  <2>1. /\ Head(events) = events[1]
        /\ \A j \in DOMAIN events : j \in Nat /\ (j = 1 \/ j > 1)
    BY TailFacts, LenProperties DEF FlowInv, OrderInv, TypeOK
  <2>2. contour # 0
    BY FlowFacts DEF FlowInv, OrderInv, OrderParts, StoredInOrder
  <2> QED
    BY <2>1, <2>2, OthersBehindFirst
<1>3. Contents(<<>>) = {}
  BY DEF Contents
<1> QED
  BY <1>1, <1>2, <1>3 DEF NothingForgotten, UnderWay

LEMMA ProcessMpdForgets ==
  ASSUME FlowInv, NothingForgotten, ~FetchHeads, Running, state = "Playing",
         events # <<>>, ctl = "loop", IsData(Head(events)), contour = -1, ProcessMpd
  PROVE  NothingForgotten'
<1>1. /\ contour' = 1 /\ Issue(AckActionRequestCompleted(Mpd), FollowMpd)
  BY DEF ProcessMpd
<1>2. Head(events).content = Mpd /\ actions = <<>> /\ Head(events).content \in Content
  BY FirstData, ContentFacts
<1>3. pendingActions \cap Seg = {}
  BY <1>2, OnlyLastPending, ContentFacts DEF Mpd
<1> DEFINE reqs == <<GetRequest(0), GetRequest(1)>>
<1>4. reqs \in Seq(HttpRequest) /\ Contents(reqs) = {0, 1}
  <2>1. reqs \in Seq(HttpRequest) /\ DOMAIN reqs = 1..2 /\ reqs[1].content = 0 /\ reqs[2].content = 1
    BY ContentFacts DEF GetRequest
  <2> HIDE DEF reqs
  <2> QED
    BY <2>1 DEF Contents
<1>5. FollowMpd = <<StartDownload(tcpConnectionId, reqs)>>
  <2>1. FetchFirst \in Seq(ControlLogicAction)
    BY <1>4, ActionType, FlowFacts DEF FetchFirst
  <2> QED
    BY <2>1, ConcatEmptySeq DEF FollowMpd, FetchSizes, FetchFirst
<1> HIDE DEF reqs
<1>6. /\ actions' # <<>> /\ actions'[1].reqs = reqs
      /\ pendingActions' \subseteq pendingActions \cup {0, 1} /\ 1 \in pendingActions'
  <2>1. /\ actions' # <<>> /\ actions'[1].reqs = reqs /\ Contents(reqs) \subseteq pendingActions'
    BY <1>1, <1>2, <1>4, <1>5, IssueOne, FlowFacts
  <2>2. \A a \in {StartDownload(tcpConnectionId, reqs)} : Contents(a.reqs) = {0, 1}
    BY <1>4 DEF StartDownload
  <2>3. pendingActions' = AckActionRequestCompleted(Mpd)
                            \cup UNION {Contents(FollowMpd[i].reqs) : i \in DOMAIN FollowMpd}
    BY <1>1 DEF Issue
  <2>4. \A i \in DOMAIN FollowMpd : Contents(FollowMpd[i].reqs) = {0, 1}
    BY <1>5, <2>2
  <2> QED
    BY <1>4, <2>1, <2>3, <2>4 DEF AckActionRequestCompleted
<1> QED
  BY <1>1, <1>3, <1>4, <1>6 DEF NothingForgotten, UnderWay

\* A single action and what it adds to the pending contents.
LEMMA IssuedPending ==
  ASSUME NEW pending, NEW conn, NEW reqs, Issue(pending, <<StartDownload(conn, reqs)>>)
  PROVE  pendingActions' = pending \cup Contents(reqs)
<1> DEFINE a == <<StartDownload(conn, reqs)>>
<1>1. DOMAIN a = {1} /\ a[1].reqs = reqs
  BY DEF StartDownload
<1>2. pendingActions' = pending \cup UNION {Contents(a[i].reqs) : i \in DOMAIN a}
  BY DEF Issue
<1> HIDE DEF a
<1> QED
  BY <1>1, <1>2

LEMMA ProcessSegmentForgets ==
  ASSUME FlowInv, NothingForgotten, Running, state = "Playing",
         events # <<>>, ctl = "loop", IsData(Head(events)), contour # -1,
         NEW k \in Seg, Head(events).content = k, NEW beta, ProcessSegment(k, beta)
  PROVE  NothingForgotten'
<1>1. SegmentFault(k) = "none"
  BY SegmentFaultFree
<1>2. CASE NothingFollows(k)
  <2>1. /\ Issue(AckActionRequestCompleted(k), <<>>) /\ events' = Tail(events)
        /\ UNCHANGED <<contour, delayedRequests, queue, thread, cbReq>>
    BY <1>1, <1>2 DEF ProcessSegment, client
  <2>2. actions' = actions /\ pendingActions' = pendingActions \ {k}
    BY <2>1, IssueNone, FlowFacts DEF AckActionRequestCompleted
  <2>3. ASSUME NEW m \in pendingActions' \cap Seg PROVE UnderWay(m)'
    <3>1. UnderWay(m) /\ m # k
      BY <2>2 DEF NothingForgotten
    <3>2. CASE \E j \in DOMAIN events : IsData(events[j]) /\ events[j].content = m
      <4>1. PICK j \in DOMAIN events : IsData(events[j]) /\ events[j].content = m
        BY <3>2
      <4>2. j # 1 /\ j \in Nat /\ j >= 1
        BY <3>1, <4>1, TailFacts, LenProperties DEF FlowInv, OrderInv, TypeOK
      <4>3. ConsumesEvent
        BY <2>1 DEF ConsumesEvent
      <4>4. \E i \in DOMAIN events' : events'[i] = events[j]
        BY <4>2, <4>3, EventsStay, FlowFacts
      <4> QED
        BY <4>1, <4>4 DEF UnderWay, IsData
    <3>3. CASE InCallback /\ cbReq = GetRequest(m)
      BY <2>1, <3>3 DEF UnderWay, InCallback, GetRequest
    <3>4. CASE m \in Contents(queue) \/ (actions # <<>> /\ m \in Contents(actions[1].reqs))
      BY <2>1, <2>2, <3>4 DEF UnderWay, Contents
    <3> QED
      BY <3>1, <3>2, <3>3, <3>4 DEF UnderWay
  <2>4. contour' \in 1..(LastSeg - 1) => contour' \in pendingActions' \/ delayedRequests' # <<>>
    BY <1>2, <2>1, <2>2 DEF NothingForgotten, NothingFollows
  <2> QED
    BY <2>3, <2>4 DEF NothingForgotten
<1>3. CASE ~NothingFollows(k)
  <2>1. k = contour /\ k \in Nat /\ k + 1 \in Seg /\ k \in Content
    BY <1>3, FirstData, FlowFacts, ContentFacts DEF NothingFollows, Seg
  <2>2. actions = <<>> /\ pendingActions \cap Seg \subseteq {k}
    BY <2>1, LastReceived, OnlyLastPending
  <2>3. /\ contour' = k + 1 /\ tcpConnectionId' \in Nat
        /\ \/ Issue(AckActionRequestCompleted(k),
                    <<StartDownload(tcpConnectionId', <<GetRequest(k + 1)>>)>>)
           \/ /\ Issue(AckActionRequestCompleted(k), <<>>)
              /\ delayedRequests' = Append(delayedRequests, k + 1)
    BY <1>1, <1>3, FlowFacts DEF ProcessSegment, CreateClient, client
  <2>4. CASE Issue(AckActionRequestCompleted(k), <<>>)
             /\ delayedRequests' = Append(delayedRequests, k + 1)
    <3>1. pendingActions' = pendingActions \ {k}
      BY <2>4, IssueNone, FlowFacts DEF AckActionRequestCompleted
    <3>2. delayedRequests' # <<>>
      <4>1. Len(delayedRequests') = Len(delayedRequests) + 1 /\ Len(delayedRequests) \in Nat
        BY <2>1, <2>4, FlowFacts, AppendProperties, LenProperties DEF TypeOK
      <4>2. Len(<<>>) = 0
        OBVIOUS
      <4> QED
        BY <4>1, <4>2
    <3> QED
      BY <2>2, <3>1, <3>2 DEF NothingForgotten
  <2>5. CASE Issue(AckActionRequestCompleted(k),
                   <<StartDownload(tcpConnectionId', <<GetRequest(k + 1)>>)>>)
    <3> DEFINE reqs == <<GetRequest(k + 1)>>
    <3>1. reqs \in Seq(HttpRequest) /\ Contents(reqs) = {k + 1}
      <4>1. reqs \in Seq(HttpRequest) /\ DOMAIN reqs = {1} /\ reqs[1].content = k + 1
        BY <2>1, ContentFacts DEF GetRequest
      <4> HIDE DEF reqs
      <4> QED
        BY <4>1 DEF Contents
    <3> HIDE DEF reqs
    <3>2. Issue(AckActionRequestCompleted(k), <<StartDownload(tcpConnectionId', reqs)>>)
      BY <2>5 DEF reqs
    <3>3. actions' # <<>> /\ actions'[1].reqs = reqs
      BY <2>2, <2>3, <3>1, <3>2, IssueOne, FlowFacts
    <3>4. pendingActions' = (pendingActions \ {k}) \cup {k + 1}
      BY <3>1, <3>2, IssuedPending DEF AckActionRequestCompleted
    <3> QED
      BY <2>2, <2>3, <3>1, <3>3, <3>4 DEF NothingForgotten, UnderWay
  <2> QED
    BY <2>3, <2>4, <2>5
<1> QED
  BY <1>2, <1>3

LEMMA ProcessDataPlayedForgets ==
  ASSUME FlowInv, NothingForgotten, Running, state = "Playing",
         events # <<>>, Head(events).type = "dataPlayed", NEW beta, ProcessDataPlayed(beta)
  PROVE  NothingForgotten'
<1>1. /\ ConsumesEvent
      /\ UNCHANGED <<contour, queue, thread, cbReq, fault, state>>
  BY DEF ProcessDataPlayed, ConsumesEvent, control, client
<1>2. \A j \in DOMAIN events : IsData(events[j]) => \E i \in DOMAIN events' : events'[i] = events[j]
  <2>1. ~IsData(events[1]) /\ \A j \in DOMAIN events : j \in Nat /\ (j = 1 \/ j > 1)
    BY TailFacts, LenProperties DEF FlowInv, OrderInv, TypeOK, IsData
  <2> QED
    BY <1>1, <2>1, EventsStay, FlowFacts
<1>3. CASE ~(delayedRequests # <<>> /\ RequestNow(beta, Bdelay))
  <2>1. UNCHANGED <<actions, pendingActions, delayedRequests>>
    BY <1>3 DEF ProcessDataPlayed
  <2> QED
    BY <1>1, <1>2, <2>1, QuietForgets DEF InCallback
<1>4. CASE delayedRequests # <<>> /\ RequestNow(beta, Bdelay)
  <2>1. /\ queue = <<>> /\ actions = <<>> /\ delayedRequests[1] = contour /\ contour \in Content
    BY <1>4, FlowFacts DEF OrderInv, OrderParts, MissingInOnePlace, TypeOK
  <2> DEFINE reqs == <<GetRequest(contour)>>
  <2>2. reqs \in Seq(HttpRequest) /\ Contents(reqs) = {contour}
    <3>1. reqs \in Seq(HttpRequest) /\ DOMAIN reqs = {1} /\ reqs[1].content = contour
      BY <2>1, ContentFacts DEF GetRequest
    <3> HIDE DEF reqs
    <3> QED
      BY <3>1 DEF Contents
  <2>3. Issue(pendingActions, <<StartDownload(tcpConnectionId, reqs)>>)
    BY <1>4, <2>1 DEF ProcessDataPlayed
  <2> HIDE DEF reqs
  <2>4. actions' # <<>> /\ actions'[1].reqs = reqs
    BY <2>1, <2>2, <2>3, IssueOne, FlowFacts
  <2>5. pendingActions' = pendingActions \cup {contour}
    BY <2>2, <2>3, IssuedPending
  <2>6. ASSUME NEW k \in pendingActions' \cap Seg PROVE UnderWay(k)'
    <3>1. CASE k = contour
      BY <2>2, <2>4, <3>1 DEF UnderWay
    <3>2. CASE k # contour
      <4>1. UnderWay(k) /\ k \notin Contents(queue)
        BY <2>1, <2>5, <3>2 DEF NothingForgotten, Contents
      <4>2. CASE \E j \in DOMAIN events : IsData(events[j]) /\ events[j].content = k
        BY <1>2, <4>2 DEF UnderWay, IsData
      <4>3. CASE InCallback /\ cbReq = GetRequest(k)
        BY <1>1, <4>3 DEF UnderWay, InCallback, GetRequest
      <4> QED
        BY <2>1, <4>1, <4>2, <4>3 DEF UnderWay
    <3> QED
      BY <3>1, <3>2
  <2> QED
    BY <1>1, <2>5, <2>6 DEF NothingForgotten
<1> QED
  BY <1>3, <1>4

LEMMA ProcessDisconnectForgets ==
  ASSUME FlowInv, NothingForgotten, Running, state = "Playing",
         events # <<>>, Head(events).type = "disconnect",
         ProcessDisconnect(Head(events).conn), fault' = "none"
  PROVE  NothingForgotten'
<1>1. ConsumesEvent /\ UNCHANGED <<contour, delayedRequests, fault, state>>
  BY DEF ProcessDisconnect, ConsumesEvent, Fail, Running, control, logicVars
<1>2. \A j \in DOMAIN events : IsData(events[j]) => \E i \in DOMAIN events' : events'[i] = events[j]
  <2>1. ~IsData(events[1]) /\ \A j \in DOMAIN events : j \in Nat /\ (j = 1 \/ j > 1)
    BY TailFacts, LenProperties DEF FlowInv, OrderInv, TypeOK, IsData
  <2> QED
    BY <1>1, <2>1, EventsStay, FlowFacts
<1>3. CASE Head(events).conn < tcpConnectionId
  <2>1. UNCHANGED <<actions, queue, pendingActions, thread, cbReq>>
    BY <1>3 DEF ProcessDisconnect, client, logicVars
  <2> QED
    BY <1>1, <1>2, <2>1, QuietForgets DEF InCallback
<1>4. CASE ~(Head(events).conn < tcpConnectionId)
  <2>1. Issue(pendingActions,
              IF queue = <<>> THEN <<>>
              ELSE <<StartDownload(tcpConnectionId + 1, Restarted(queue))>>)
    BY <1>4 DEF ProcessDisconnect, Fail, Running
  <2>2. ~InCallback
    <3>1. EventOk(Head(events)) /\ Head(events).conn \in Nat
      <4>1. 1 \in DOMAIN events /\ Head(events) = events[1] /\ events[1] \in ControlLogicEvent
        BY TailFacts DEF FlowInv, OrderInv, TypeOK
      <4> QED
        BY <4>1, FlowFacts DEF EventsExpected, ControlLogicEvent
    <3> QED
      BY <1>4, <3>1, FlowFacts DEF EventOk, InCallback
  <2>3. /\ queue = <<>> => actions' = actions /\ pendingActions' = pendingActions
        /\ queue # <<>> => /\ actions' # <<>>
                           /\ Contents(actions'[1].reqs) = Contents(queue)
                           /\ pendingActions' = pendingActions \cup Contents(queue)
                           /\ actions = <<>>
    <3>1. CASE queue = <<>>
      BY <2>1, <3>1, IssueNone, FlowFacts
    <3>2. CASE queue # <<>>
      <4> DEFINE reqs == Restarted(queue)
      <4>1. /\ reqs \in Seq(HttpRequest) /\ Contents(reqs) = Contents(queue)
            /\ actions = <<>> /\ tcpConnectionId + 1 \in Nat
        <5>1. \A i \in DOMAIN queue : reqs[i].content = queue[i].content
          BY DEF Restarted, GetRequest
        <5>2. DOMAIN reqs = DOMAIN queue
          BY DEF Restarted
        <5>3. Contents(reqs) = Contents(queue)
          BY <5>1, <5>2 DEF Contents
        <5> QED
          BY <3>2, <5>3, RestartedType, FlowFacts
          DEF OrderInv, OrderParts, MissingInOnePlace, TypeOK
      <4>2. Issue(pendingActions, <<StartDownload(tcpConnectionId + 1, reqs)>>)
        BY <2>1, <3>2
      <4> HIDE DEF reqs
      <4>3. actions' # <<>> /\ actions'[1].reqs = reqs
        BY <4>1, <4>2, IssueOne, FlowFacts
      <4>4. pendingActions' = pendingActions \cup Contents(reqs)
        BY <4>2, IssuedPending
      <4> QED
        BY <3>2, <4>1, <4>3, <4>4
    <3> QED
      BY <3>1, <3>2
  <2>4. pendingActions' = pendingActions
    BY <2>3, FlowFacts DEF RequestsPending, Contents
  <2>5. ASSUME NEW k \in pendingActions \cap Seg PROVE UnderWay(k)'
    <3>1. UnderWay(k)
      BY DEF NothingForgotten
    <3>2. CASE k \in Contents(queue)
      <4>1. queue # <<>>
        BY <3>2 DEF Contents
      <4> QED
        BY <2>3, <3>2, <4>1 DEF UnderWay
    <3>3. CASE actions # <<>> /\ k \in Contents(actions[1].reqs)
      BY <2>3, <3>3 DEF UnderWay
    <3>4. CASE \E j \in DOMAIN events : IsData(events[j]) /\ events[j].content = k
      BY <1>2, <3>4 DEF UnderWay, IsData
    <3> QED
      BY <2>2, <3>1, <3>2, <3>3, <3>4 DEF UnderWay
  <2> QED
    BY <1>1, <2>4, <2>5 DEF NothingForgotten
<1> QED
  BY <1>3, <1>4

LEMMA ProcessEventForgets ==
  ASSUME FlowInv, NothingForgotten, ~FetchHeads, Limit >= 4, ProcessEvent
  PROVE  NothingForgotten'
<1> DEFINE e == Head(events)
<1>1. events # <<>> /\ ctl = "loop" /\ state = "Playing" /\ Running /\ Dispatch(e)
  BY DEF ProcessEvent
<1>2. e \in ControlLogicEvent /\ e = Head(events)
  BY <1>1, TailFacts DEF FlowInv, OrderInv, TypeOK
<1> HIDE DEF e
<1>3. CASE fault' # "none"
  BY <1>3 DEF NothingForgotten, Running
<1>4. CASE e.type = "dataReceived" /\ e.content = Mpd /\ contour = -1 /\ ProcessMpd
  BY <1>1, <1>2, <1>4, ProcessMpdForgets DEF IsData
<1>5. CASE /\ e.type = "dataReceived" /\ e.content # Mpd /\ contour # -1
           /\ ProcessSegment(e.content, e.beta)
  <2>1. e.content \in Seg
    BY <1>2, <1>5, ContentFacts DEF ControlLogicEvent
  <2> QED
    BY <1>1, <1>2, <1>5, <2>1, ProcessSegmentForgets DEF IsData
<1>6. CASE e.type = "dataPlayed" /\ ProcessDataPlayed(e.beta)
  BY <1>1, <1>2, <1>6, ProcessDataPlayedForgets
<1>7. CASE e.type = "disconnect" /\ ProcessDisconnect(e.conn) /\ fault' = "none"
  BY <1>1, <1>2, <1>7, ProcessDisconnectForgets
<1>8. CASE Fail("unexpectedEvent")
  BY <1>3, <1>8 DEF Fail
<1> QED
  BY <1>1, <1>3, <1>4, <1>5, <1>6, <1>7, <1>8 DEF Dispatch, ProcessDataReceived

LEMMA StartPlaybackForgets ==
  ASSUME FlowInv, NothingForgotten, StartPlayback
  PROVE  NothingForgotten'
<1>1. CASE fault' # "none"
  BY <1>1 DEF NothingForgotten, Running
<1>2. CASE fault' = "none"
  <2> DEFINE reqs == <<GetRequest(Mpd)>>
  <2>1. /\ ctl = "start" /\ state = "Playing" /\ Running
        /\ Issue(pendingActions, <<StartDownload(tcpConnectionId + 1, reqs)>>)
        /\ UNCHANGED <<events, contour>>
    BY <1>2 DEF StartPlayback, Fail, Running
  <2>2. Contents(reqs) = {Mpd}
    <3>1. DOMAIN reqs = {1} /\ reqs[1].content = Mpd
      BY DEF GetRequest
    <3> HIDE DEF reqs
    <3> QED
      BY <3>1 DEF Contents
  <2> HIDE DEF reqs
  <2>3. pendingActions' = pendingActions \cup {Mpd}
    BY <2>1, <2>2, IssuedPending
  <2>4. contour = -1 /\ queue = <<>> /\ actions = <<>> /\ ~InCallback
    BY <2>1, FlowFacts DEF OrderInv, OrderParts, NothingRequested, InCallback
  <2>5. ASSUME NEW k \in pendingActions' \cap Seg PROVE UnderWay(k)'
    <3>1. UnderWay(k) /\ k \notin Contents(queue)
      BY <2>1, <2>3, <2>4, ContentFacts DEF NothingForgotten, Contents
    <3> QED
      BY <2>1, <2>4, <3>1 DEF UnderWay, IsData
  <2> QED
    BY <2>1, <2>4, <2>5 DEF NothingForgotten
<1> QED
  BY <1>1, <1>2

LEMMA ProcessActionForgets ==
  ASSUME FlowInv, NothingForgotten, ProcessAction
  PROVE  NothingForgotten'
<1>1. CASE fault' # "none"
  BY <1>1 DEF NothingForgotten, Running
<1>2. CASE fault' = "none"
  <2>1. /\ ctl = "actions" /\ Running
        /\ queue' = queue \o Head(actions).reqs /\ actions' = Tail(actions)
        /\ UNCHANGED <<events, contour, pendingActions, delayedRequests, thread, cbReq, state>>
    BY <1>2 DEF ProcessAction, ProcessActionStartDownload, Fail, Running, logicVars
  <2>2. actions # <<>>
    BY <2>1 DEF FlowInv, OrderInv, ActionsRemain
  <2>3. Head(actions) = actions[1] /\ Head(actions) \in ControlLogicAction /\ queue = <<>>
    BY <2>2, TailFacts DEF FlowInv, OrderInv, OrderParts, MissingInOnePlace, TypeOK
  <2>4. queue' = actions[1].reqs
    <3>1. actions[1].reqs \in Seq(HttpRequest)
      BY <2>3 DEF ControlLogicAction
    <3>2. queue' = <<>> \o actions[1].reqs
      BY <2>1, <2>3
    <3> QED
      BY <3>1, <3>2, ConcatEmptySeq
  <2>5. ASSUME state = "Playing", NEW k \in pendingActions \cap Seg PROVE UnderWay(k)'
    <3>1. UnderWay(k) /\ k \notin Contents(queue)
      BY <2>1, <2>3, <2>5 DEF NothingForgotten, Contents
    <3>2. CASE k \in Contents(actions[1].reqs)
      BY <2>4, <3>2 DEF UnderWay
    <3> QED
      BY <2>1, <3>1, <3>2 DEF UnderWay, InCallback, IsData, GetRequest
  <2> QED
    BY <2>1, <2>5 DEF NothingForgotten
<1> QED
  BY <1>1, <1>2

LEMMA CompleteRequestForgets ==
  ASSUME FlowInv, NothingForgotten, CompleteRequest
  PROVE  NothingForgotten'
<1>1. CASE fault' # "none" \/ state # "Playing"
  BY <1>1 DEF NothingForgotten, Running, CompleteRequest, Fail, control
<1>2. CASE fault' = "none" /\ state = "Playing"
  <2>1. /\ queue # <<>> /\ queue' = Tail(queue) /\ thread = "run" /\ cbReq' = Head(queue)
        /\ Running
        /\ thread' = IF Head(queue).content = Mpd THEN "pushing"
                     ELSE IF Head(queue).method = "GET" /\ state = "Playing" THEN "locking"
                     ELSE "run"
        /\ UNCHANGED <<events, contour, actions, pendingActions, delayedRequests, state>>
    BY <1>2 DEF CompleteRequest, Fail, Running, control, logicVars
  <2>2. /\ Head(queue).method = "GET" /\ Head(queue) \in HttpRequest /\ actions = <<>>
        /\ Head(queue) = queue[1] /\ queue \in Seq(HttpRequest)
    BY <2>1, FirstRequest, TailFacts DEF FlowInv, OrderInv, TypeOK
  <2>3. InCallback' /\ cbReq' = GetRequest(Head(queue).content)
    BY <1>2, <2>1, <2>2 DEF InCallback, HttpRequest, GetRequest
  <2>4. ASSUME NEW k \in Contents(queue), k # Head(queue).content PROVE k \in Contents(queue')
    <3>1. PICK i \in DOMAIN queue : queue[i].content = k
      BY DEF Contents
    <3>2. Len(Tail(queue)) = Len(queue) - 1 /\ Tail(queue) \in Seq(HttpRequest)
          /\ \A j \in DOMAIN Tail(queue) : Tail(queue)[j] = queue[j + 1]
      BY <2>1, <2>2, TailFacts
    <3>3. /\ DOMAIN queue = 1..Len(queue) /\ DOMAIN Tail(queue) = 1..(Len(queue) - 1)
          /\ Len(queue) \in Nat
      BY <2>2, <3>2, LenProperties
    <3>4. i # 1
      BY <2>2, <2>4, <3>1
    <3>5. i - 1 \in DOMAIN Tail(queue) /\ (i - 1) + 1 = i
      BY <3>3, <3>4
    <3>6. i - 1 \in DOMAIN Tail(queue) /\ Tail(queue)[i - 1].content = k
      BY <3>1, <3>2, <3>5
    <3> QED
      BY <2>1, <3>6 DEF Contents
  <2>5. ASSUME NEW k \in pendingActions \cap Seg PROVE UnderWay(k)'
    <3>1. UnderWay(k) /\ ~InCallback
      BY <1>2, <2>1 DEF NothingForgotten, InCallback
    <3>2. CASE k = Head(queue).content
      BY <2>3, <3>2 DEF UnderWay
    <3>3. CASE k # Head(queue).content /\ k \in Contents(queue)
      BY <2>4, <3>3 DEF UnderWay
    <3> QED
      BY <2>1, <2>2, <3>1, <3>2, <3>3 DEF UnderWay, IsData
  <2> QED
    BY <1>2, <2>1, <2>5 DEF NothingForgotten
<1> QED
  BY <1>1, <1>2

LEMMA NothingForgottenStep ==
  ASSUME ~FetchHeads, Limit >= 4, FlowInv, NothingForgotten, [Next]_vars
  PROVE  NothingForgotten'
<1>1. CASE StartPlayback \/ ProcessAction \/ ProcessEvent \/ CompleteRequest
  BY <1>1, StartPlaybackForgets, ProcessActionForgets, ProcessEventForgets, CompleteRequestForgets
<1>2. CASE \/ LoseConnection \/ HttpThread \/ DestroyClient \/ Vlc \/ Close \/ CleanUp
           \/ StartActions \/ LeaveLoop \/ UNCHANGED vars
  BY <1>2, QuietStepsForget
<1> QED
  BY <1>1, <1>2 DEF Next, ControlThread

\* The requests for what is missing name a segment once, and none that is stored.
LEMMA NamedOnce ==
  ASSUME FlowInv, NEW reqs \in Seq(HttpRequest), reqs # <<>>, AreTheMissing(reqs), NEW k \in Seg
  PROVE  /\ k \in Contents(reqs) =>
              /\ k \notin downloaded
              /\ \E m \in 1..(LastSeg + 1) : {i \in DOMAIN reqs : reqs[i] = GetRequest(k)} = {m}
         /\ k \notin Contents(reqs) => {i \in DOMAIN reqs : reqs[i] = GetRequest(k)} = {}
<1>1. k \notin Contents(reqs) => \A i \in DOMAIN reqs : reqs[i] # GetRequest(k)
  BY DEF Contents, GetRequest
<1>2. ASSUME k \in Contents(reqs)
      PROVE  /\ k \notin downloaded
             /\ \E m \in 1..(LastSeg + 1) : {i \in DOMAIN reqs : reqs[i] = GetRequest(k)} = {m}
  <2>1. PICK m \in DOMAIN reqs : reqs[m].content = k
    BY <1>2 DEF Contents
  <2>2. contour # -1
    BY <2>1, ContentFacts, LenProperties DEF AreTheMissing, GetRequest
  <2>3. /\ DOMAIN reqs = 1..(contour + 1 - N)
        /\ \A i \in DOMAIN reqs : reqs[i] = GetRequest(N + i - 1)
        /\ \A i \in DOMAIN reqs : reqs[i].content = N + i - 1
    BY <2>2, LenProperties DEF AreTheMissing, GetRequest
  <2>4. k \notin downloaded
    BY <2>1, <2>2, MissingNotStored
  <2>5. m \in 1..(LastSeg + 1)
    BY <2>1, <2>3, FlowFacts
  <2>6. \A i \in DOMAIN reqs : reqs[i] = GetRequest(k) <=> i = m
    <3>1. ASSUME NEW i \in DOMAIN reqs, reqs[i].content = k PROVE i = m
      <4>1. N + i - 1 = N + m - 1
        BY <2>1, <2>3, <3>1
      <4>2. i \in Int /\ m \in Int /\ N \in Nat
        BY <2>1, <2>3, <3>1, FlowFacts
      <4> QED
        BY <4>1, <4>2
    <3>2. k = N + m - 1 /\ reqs[m] = GetRequest(k)
      BY <2>1, <2>3
    <3> QED
      BY <3>1, <3>2 DEF GetRequest
  <2> QED
    BY <2>1, <2>4, <2>5, <2>6
<1> QED
  BY <1>1, <1>2

IsQueued(k) == k \in Contents(queue)
IsIssued(k) == actions # <<>> /\ k \in Contents(actions[1].reqs)
IsArriving(k) == InCallback /\ cbReq = GetRequest(k)
IsReceived(k) == \E i \in DOMAIN events : IsData(events[i]) /\ events[i].content = k
IsDelayed(k) == delayedRequests = <<k>>

LEMMA PlacesCounted ==
  ASSUME FlowInv, NEW k \in Seg
  PROVE  PlacesOf(k) = Count(IsIssued(k)) + Count(IsQueued(k)) + Count(IsArriving(k))
                       + Count(IsReceived(k)) + Count(IsDelayed(k))
<1> USE FlowFacts
<1>1. Cardinality({}) = 0 /\ \A x : Cardinality({x}) = 1
  BY FS_EmptySet, FS_Singleton
<1> DEFINE A == {p \in (DOMAIN actions) \X (1..(LastSeg + 1)) :
                   p[2] \in DOMAIN actions[p[1]].reqs /\ actions[p[1]].reqs[p[2]] = GetRequest(k)}
           Q == {i \in DOMAIN queue : queue[i] = GetRequest(k)}
           E == {i \in DOMAIN events : events[i].type = "dataReceived" /\ events[i].content = k}
           D == {i \in DOMAIN delayedRequests : delayedRequests[i] = k}
<1>2. Cardinality(A) = Count(IsIssued(k))
  <2>1. CASE actions = <<>>
    <3>1. DOMAIN actions = {}
      BY <2>1
    <3>2. A = {}
      BY <3>1
    <3> QED
      BY <1>1, <2>1, <3>2 DEF Count, IsIssued
  <2>2. CASE actions # <<>>
    <3> DEFINE reqs == actions[1].reqs
    <3>1. /\ DOMAIN actions = {1} /\ reqs \in Seq(HttpRequest) /\ reqs # <<>>
          /\ AreTheMissing(reqs)
      <4>1. actions \in Seq(ControlLogicAction) /\ MissingInOnePlace
        BY DEF OrderInv, OrderParts, TypeOK
      <4>2. Len(actions) = 1 /\ reqs # <<>> /\ AreTheMissing(reqs)
        BY <2>2, <4>1 DEF MissingInOnePlace
      <4>3. DOMAIN actions = 1..Len(actions) /\ actions[1] \in ControlLogicAction
        BY <2>2, <4>1, TailFacts, LenProperties
      <4> QED
        BY <4>2, <4>3 DEF ControlLogicAction
    <3> HIDE DEF reqs
    <3> DEFINE I == {j \in 1..(LastSeg + 1) : j \in DOMAIN reqs /\ reqs[j] = GetRequest(k)}
    <3>2. A = {<<1, i>> : i \in I}
      <4>1. ASSUME NEW p \in A PROVE p[1] = 1 /\ p[2] \in I /\ p = <<1, p[2]>>
        <5>1. p \in (DOMAIN actions) \X (1..(LastSeg + 1)) /\ p[1] \in DOMAIN actions
          OBVIOUS
        <5>2. p[1] = 1 /\ p = <<p[1], p[2]>>
          BY <3>1, <5>1
        <5> QED
          BY <5>1, <5>2 DEF reqs
      <4>2. ASSUME NEW i \in I PROVE <<1, i>> \in A
        BY <3>1 DEF reqs
      <4> HIDE DEF A, I
      <4> QED
        BY <4>1, <4>2
    <3>3. CASE k \in Contents(reqs)
      <4>1. PICK m \in 1..(LastSeg + 1) : {i \in DOMAIN reqs : reqs[i] = GetRequest(k)} = {m}
        BY <3>1, <3>3, NamedOnce
      <4>2. {j \in 1..(LastSeg + 1) : j \in DOMAIN reqs /\ reqs[j] = GetRequest(k)} = {m}
        BY <4>1
      <4>3. A = {<<1, m>>}
        BY <3>2, <4>2
      <4> QED
        BY <1>1, <2>2, <3>3, <4>3 DEF Count, IsIssued, reqs
    <3>4. CASE k \notin Contents(reqs)
      <4>1. {i \in DOMAIN reqs : reqs[i] = GetRequest(k)} = {}
        BY <3>1, <3>4, NamedOnce
      <4>2. A = {}
        BY <3>2, <4>1
      <4> QED
        BY <1>1, <2>2, <3>4, <4>2 DEF Count, IsIssued, reqs
    <3> QED
      BY <3>3, <3>4
  <2> QED
    BY <2>1, <2>2
<1>3. Cardinality(Q) = Count(IsQueued(k))
  <2>1. CASE queue = <<>>
    <3>1. Q = {} /\ Contents(queue) = {}
      BY <2>1 DEF Contents
    <3> QED
      BY <1>1, <3>1 DEF Count, IsQueued
  <2>2. CASE queue # <<>>
    <3>1. queue \in Seq(HttpRequest) /\ AreTheMissing(queue)
      BY <2>2 DEF OrderInv, OrderParts, MissingInOnePlace, TypeOK
    <3>2. /\ k \in Contents(queue) => \E m : Q = {m}
          /\ k \notin Contents(queue) => Q = {}
      BY <2>2, <3>1, NamedOnce
    <3> QED
      BY <1>1, <3>2 DEF Count, IsQueued
  <2> QED
    BY <2>1, <2>2
<1>4. Cardinality(E) = Count(IsReceived(k))
  <2>1. CASE IsReceived(k)
    <3>1. PICK i \in DOMAIN events : IsData(events[i]) /\ events[i].content = k
      BY <2>1 DEF IsReceived
    <3>2. \A j \in DOMAIN events : IsData(events[j]) /\ events[j].content = k => j = i
      <4>1. \A j \in DOMAIN events : j \in Nat
        <5>1. events \in Seq(ControlLogicEvent)
          BY DEF TypeOK
        <5>2. DOMAIN events = 1..Len(events)
          BY <5>1, LenProperties
        <5> QED
          BY <5>2
      <4>2. DataInOrder(events)
        BY DEF ReceivedInOrder
      <4>3. ASSUME NEW j \in DOMAIN events, IsData(events[j]), events[j].content = k, j # i
            PROVE  FALSE
        <5>1. j < i \/ i < j
          BY <4>1, <4>3
        <5> QED
          BY <3>1, <4>2, <4>3, <5>1 DEF DataInOrder
      <4> QED
        BY <4>3
    <3>3. E = {i}
      BY <3>1, <3>2 DEF IsData
    <3> QED
      BY <1>1, <2>1, <3>3 DEF Count
  <2>2. CASE ~IsReceived(k)
    <3>1. E = {}
      BY <2>2 DEF IsReceived, IsData
    <3> QED
      BY <1>1, <2>2, <3>1 DEF Count
  <2> QED
    BY <2>1, <2>2
<1>5. Cardinality(D) = Count(IsDelayed(k))
  <2>1. delayedRequests \in Seq(Seg) /\ Len(delayedRequests) <= 1
    BY DEF TypeOK
  <2>2. CASE delayedRequests = <<>>
    <3>1. D = {}
      BY <2>2
    <3> QED
      BY <1>1, <2>2, <3>1 DEF Count, IsDelayed
  <2>3. CASE delayedRequests # <<>>
    <3>1. Len(delayedRequests) = 1 /\ DOMAIN delayedRequests = {1}
      <4>1. Len(delayedRequests) \in Nat /\ Len(delayedRequests) # 0
            /\ DOMAIN delayedRequests = 1..Len(delayedRequests)
        BY <2>1, <2>3, LenProperties, EmptySeq
      <4> QED
        BY <2>1, <4>1
    <3>2. delayedRequests[1] = k <=> delayedRequests = <<k>>
      BY <2>1, <3>1
    <3>3. D = IF IsDelayed(k) THEN {1} ELSE {}
      BY <3>1, <3>2 DEF IsDelayed
    <3> QED
      BY <1>1, <3>3 DEF Count
  <2> QED
    BY <2>2, <2>3
<1>6. Count(thread \in {"locking", "pushing"} /\ cbReq = GetRequest(k)) = Count(IsArriving(k))
  BY DEF IsArriving, InCallback
<1>7. PlacesOf(k) = Cardinality(A) + Cardinality(Q)
                    + Count(thread \in {"locking", "pushing"} /\ cbReq = GetRequest(k))
                    + Cardinality(E) + Cardinality(D)
  BY DEF PlacesOf
<1> QED
  BY <1>2, <1>3, <1>4, <1>5, <1>6, <1>7

\* A segment that is requested is neither stored nor delayed, and of what is received and
\* not processed segment 0 comes before segment 1.
LEMMA OnePlaceOnly ==
  ASSUME FlowInv, NEW k \in Seg
  PROVE  /\ IsIssued(k) => ~IsQueued(k) /\ ~IsArriving(k) /\ ~IsReceived(k) /\ ~IsDelayed(k)
         /\ IsQueued(k) => ~IsArriving(k) /\ ~IsReceived(k) /\ ~IsDelayed(k)
         /\ IsArriving(k) => ~IsReceived(k) /\ ~IsDelayed(k)
         /\ IsReceived(k) => ~IsDelayed(k)
<1> USE FlowFacts
<1>1. IsArriving(k) \/ IsReceived(k) => k \in downloaded
  BY ContentFacts DEF IsArriving, IsReceived, InCallback, IsData, OrderInv, OrderParts,
     ReceivedIsStored, IsStored, GetRequest
<1>2. /\ IsQueued(k) => queue # <<>> /\ k \notin downloaded
      /\ IsIssued(k) => actions # <<>> /\ k \notin downloaded
      /\ IsDelayed(k) => delayedRequests # <<>> /\ k \notin downloaded
  <2>1. CASE IsQueued(k)
    <3>1. queue # <<>> /\ queue \in Seq(HttpRequest)
      BY <2>1 DEF IsQueued, Contents, TypeOK
    <3> QED
      BY <2>1, <3>1, NamedOnce DEF IsQueued, IsIssued, IsDelayed, OrderInv, OrderParts,
         MissingInOnePlace
  <2>2. CASE IsIssued(k)
    <3>1. actions[1] \in ControlLogicAction /\ actions # <<>>
      BY <2>2, TailFacts DEF IsIssued, TypeOK
    <3>2. /\ actions[1].reqs \in Seq(HttpRequest) /\ actions[1].reqs # <<>>
          /\ AreTheMissing(actions[1].reqs) /\ queue = <<>> /\ delayedRequests = <<>>
      BY <3>1 DEF ControlLogicAction, OrderInv, OrderParts, MissingInOnePlace
    <3>3. k \notin downloaded
      BY <2>2, <3>2, NamedOnce DEF IsIssued
    <3> QED
      BY <3>1, <3>2, <3>3 DEF IsQueued, IsDelayed, Contents
  <2>3. CASE IsDelayed(k)
    <3>1. delayedRequests # <<>> /\ delayedRequests[1] = k
      BY <2>3 DEF IsDelayed
    <3>2. k = contour /\ N = contour /\ queue = <<>> /\ actions = <<>>
      BY <3>1 DEF OrderInv, OrderParts, MissingInOnePlace
    <3> QED
      BY <3>1, <3>2 DEF IsQueued, IsIssued, Contents
  <2> QED
    BY <2>1, <2>2, <2>3
<1>3. /\ queue # <<>> => actions = <<>> /\ delayedRequests = <<>>
      /\ actions # <<>> => delayedRequests = <<>>
  BY DEF OrderInv, OrderParts, MissingInOnePlace
<1>4. IsArriving(k) => ~IsReceived(k)
  BY DEF IsArriving, IsReceived, ReceivedInOrder, GetRequest
<1> QED
  BY <1>1, <1>2, <1>3, <1>4

LEMMA InOnePlace ==
  ASSUME FlowInv, NothingForgotten
  PROVE  DownloadsInOnePlace
<1> USE FlowFacts
<1> SUFFICES ASSUME Running, state = "Playing"
             PROVE  /\ \A k \in Seg : PlacesOf(k) = Count(k \in pendingActions \/ delayedRequests = <<k>>)
                    /\ contour \in 1..(LastSeg - 1) => PlacesOf(contour) = 1
  BY DEF DownloadsInOnePlace
<1>1. ASSUME NEW k \in Seg
      PROVE  PlacesOf(k) = Count(k \in pendingActions \/ delayedRequests = <<k>>)
  <2>1. k \in pendingActions => IsIssued(k) \/ IsQueued(k) \/ IsArriving(k) \/ IsReceived(k)
    BY DEF NothingForgotten, UnderWay, IsIssued, IsQueued, IsArriving, IsReceived
  <2>2. IsIssued(k) \/ IsQueued(k) \/ IsArriving(k) \/ IsReceived(k) => k \in pendingActions
    BY DEF IsIssued, IsQueued, IsArriving, IsReceived, RequestsPending, EventsExpected, EventOk,
       GetRequest, Contents
  <2>3. /\ IsIssued(k) \in BOOLEAN /\ IsQueued(k) \in BOOLEAN /\ IsArriving(k) \in BOOLEAN
        /\ IsReceived(k) \in BOOLEAN /\ IsDelayed(k) \in BOOLEAN
    BY DEF IsIssued, IsQueued, IsArriving, IsReceived, IsDelayed
  <2>4. k \in pendingActions \/ delayedRequests = <<k>> <=>
          IsIssued(k) \/ IsQueued(k) \/ IsArriving(k) \/ IsReceived(k) \/ IsDelayed(k)
    BY <2>1, <2>2 DEF IsDelayed
  <2>5. Count(IsIssued(k)) + Count(IsQueued(k)) + Count(IsArriving(k))
          + Count(IsReceived(k)) + Count(IsDelayed(k))
        = Count(IsIssued(k) \/ IsQueued(k) \/ IsArriving(k) \/ IsReceived(k) \/ IsDelayed(k))
    BY <2>3, OnePlaceOnly DEF Count
  <2> QED
    BY <2>4, <2>5, PlacesCounted DEF Count
<1>2. ASSUME contour \in 1..(LastSeg - 1) PROVE PlacesOf(contour) = 1
  <2>1. contour \in Seg
    BY <1>2 DEF Seg
  <2>2. delayedRequests # <<>> => delayedRequests = <<contour>>
    <3> SUFFICES ASSUME delayedRequests # <<>> PROVE delayedRequests = <<contour>>
      OBVIOUS
    <3>1. delayedRequests \in Seq(Seg) /\ Len(delayedRequests) <= 1 /\ delayedRequests[1] = contour
      BY DEF OrderInv, OrderParts, MissingInOnePlace, TypeOK
    <3>2. Len(delayedRequests) \in Nat /\ Len(delayedRequests) # 0
      BY <3>1, LenProperties, EmptySeq
    <3>3. Len(delayedRequests) = 1
      <4> DEFINE n == Len(delayedRequests)
      <4>1. n \in Nat /\ n # 0 /\ n <= 1
        BY <3>1, <3>2
      <4> HIDE DEF n
      <4>2. n = 1
        BY <4>1
      <4> QED
        BY <4>2 DEF n
    <3> QED
      BY <3>1, <3>3
  <2>3. contour \in pendingActions \/ delayedRequests = <<contour>>
    BY <1>2, <2>2 DEF NothingForgotten
  <2> QED
    BY <1>1, <2>1, <2>3 DEF Count
<1> QED
  BY <1>1, <1>2

\* Under the same conditions: while the player plays, every download that is not
\* acknowledged, or is delayed, is in exactly one place on its way, whatever connections
\* are lost or replaced meanwhile, and the last segment of the contour is on its way
\* until the stream ends.
THEOREM OnePlace ==
  ASSUME ~FetchHeads, Limit >= 4
  PROVE  Spec => []DownloadsInOnePlace
<1>1. Init => FlowInv /\ NothingForgotten
  BY FlowInit DEF Init, ControlLogicInit, NothingForgotten
<1>2. FlowInv /\ NothingForgotten /\ [Next]_vars => FlowInv' /\ NothingForgotten'
  BY FlowStep, NothingForgottenStep, OrderStep, TypeStep, ActionsRemainStep DEF FlowInv, OrderInv
<1>3. FlowInv /\ NothingForgotten => DownloadsInOnePlace
  BY InOnePlace
<1> QED
  BY <1>1, <1>2, <1>3, PTL DEF Spec

=============================================================================
