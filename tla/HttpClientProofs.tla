--------------------------- MODULE HttpClientProofs ---------------------------
(***************************************************************************)
(* Proofs about HttpClient, for every workload, every server limit and     *)
(* every setting of the client's own limits.                               *)
(*                                                                         *)
(* The second half is about the order of the requests and of their         *)
(* answers:                                                                *)
(*  - the requests that are marked as sent are the first of the queue, and *)
(*    the client's own limits are kept;                                    *)
(*  - an answer completes its own request, and the assertion on the last   *)
(*    answer fails only while further requests are outstanding, or when    *)
(*    the server closes early;                                             *)
(*  - what the counter says the server still accepts adds up to its limit  *)
(*    with what it has answered and what is on its way.                    *)
(* Requests are numbered there in the order of their acceptance.  The      *)
(* queue holds the numbers behind those that are settled, so that the      *)
(* facts about the queue become facts about numbers; and what arrives is a *)
(* stream of answers in the order of the numbers.                          *)
(***************************************************************************)
EXTENDS HttpClient, FiniteSetTheorems, SequenceTheorems, WellFoundedInduction,
        TLAPS

-----------------------------------------------------------------------------
(* Lemmas about the operators *)

\* A set of positions that contains, with each, all smaller ones is 1..n, and n
\* is its cardinality.  SentPrefix and the set counted by NumToStart are such sets.
LEMMA PrefixIsInterval ==
  ASSUME NEW K \in Int, NEW S \in SUBSET (1..K),
         \A i \in S : \A j \in 1..i : j \in S
  PROVE  /\ Cardinality(S) \in Nat
         /\ S = 1..Cardinality(S)
         /\ K >= 0 => Cardinality(S) <= K
<1> DEFINE T == {i \in Nat : i >= 1 /\ i \notin S}
           L == IF K >= 0 THEN K + 1 ELSE 1
<1>1. L \in T
  OBVIOUS
<1>2. PICK n \in T : \A y \in T : ~(y < n)
  <2>1. T \subseteq Nat /\ T # {}
    BY <1>1
  <2>2. PICK x \in T : \A y \in T : ~(<<y, x>> \in OpToRel(<, Nat))
    BY <2>1, NatLessThanWellFounded, WFMin
  <2>3. \A y \in T : ~(y < x)
    BY <2>1, <2>2 DEF OpToRel
  <2>4. QED
    BY <2>3
<1>3. S = 1..(n - 1)
  <2>1. \A i \in 1..(n - 1) : i \in S
    BY <1>2
  <2>2. \A i \in S : i < n
    <3> SUFFICES ASSUME NEW i \in S, ~(i < n)
                 PROVE  FALSE
      OBVIOUS
    <3>1. n \in 1..i
      OBVIOUS
    <3> QED
      BY <3>1
  <2>3. \A i \in S : i \in 1..(n - 1)
    <3> TAKE i \in S
    <3>1. i \in Int /\ i >= 1 /\ n \in Int
      OBVIOUS
    <3>2. i < n
      BY <2>2
    <3> HIDE DEF T
    <3> QED
      BY <3>1, <3>2
  <2> HIDE DEF T
  <2>4. QED
    BY <2>1, <2>3
<1>4. Cardinality(S) = n - 1
  BY <1>3, FS_Interval
<1>5. K >= 0 => n - 1 <= K
  BY <1>3
<1>6. QED
  BY <1>3, <1>4, <1>5

\* The number of pending requests: the requests sent at the front of the queue.
LEMMA NumPendingType ==
  ASSUME NEW q \in Seq(Req), NEW s
  PROVE  /\ NumPendingRequests(q, s) \in Nat
         /\ NumPendingRequests(q, s) <= Len(q)
         /\ SentPrefix(q, s) = 1..NumPendingRequests(q, s)
<1>1. SentPrefix(q, s) \in SUBSET (1..Len(q)) /\ Len(q) \in Nat
  BY LenProperties DEF SentPrefix
<1>2. \A i \in SentPrefix(q, s) : \A j \in 1..i : j \in SentPrefix(q, s)
  BY <1>1 DEF SentPrefix
<1>3. QED
  BY <1>1, <1>2, PrefixIsInterval DEF NumPendingRequests

\* The number of requests to start fits into the queue, and into what the server
\* still accepts when that is known.
LEMMA NumToStartType ==
  ASSUME NEW q \in Seq(Req), NEW n \in Nat, n <= Len(q),
         keepAliveMaxRemaining \in Nat \cup {-1}, keepAliveMax \in Int
  PROVE  /\ NumToStart(q, n) \in Nat
         /\ n + NumToStart(q, n) <= Len(q)
         /\ keepAliveMax # -1 /\ keepAliveMaxRemaining # -1 =>
               NumToStart(q, n) <= keepAliveMaxRemaining
<1> DEFINE S == {k \in 1..(Len(q) - n) : \A j \in 1..k : MayStart(q, n, j)}
<1>1. Len(q) \in Nat
  BY LenProperties
<1>2. S \in SUBSET (1..(Len(q) - n))
  OBVIOUS
<1>3. \A i \in S : \A j \in 1..i : j \in S
  <2> SUFFICES ASSUME NEW i \in S, NEW j \in 1..i
               PROVE  j \in S
    OBVIOUS
  <2>1. j \in 1..(Len(q) - n)
    BY <1>1
  <2>2. \A k \in 1..j : k \in 1..i
    BY <1>1
  <2> QED
    BY <2>1, <2>2
<1>4. /\ Cardinality(S) \in Nat
      /\ S = 1..Cardinality(S)
      /\ Cardinality(S) <= Len(q) - n
  <2> HIDE DEF S
  <2> QED
    BY <1>1, <1>2, <1>3, PrefixIsInterval
<1>5. NumToStart(q, n) = Cardinality(S)
  BY DEF NumToStart
<1>6. ASSUME keepAliveMax # -1, keepAliveMaxRemaining # -1,
             keepAliveMaxRemaining < Cardinality(S)
      PROVE  FALSE
  <2> DEFINE j == keepAliveMaxRemaining + 1
  <2>1. keepAliveMaxRemaining \in Nat /\ j \in 1..Cardinality(S)
    BY <1>4, <1>6
  <2>2. j \in S
    BY <1>4, <2>1
  <2>3. MayStart(q, n, j)
    BY <2>1, <2>2
  <2>4. keepAliveMaxRemaining - (j - 1) # 0
    BY <2>3, <1>6 DEF MayStart
  <2> QED
    BY <2>1, <2>4
<1>7. QED
  BY <1>1, <1>4, <1>5, <1>6

\* Concatenation of sequences of requests.
LEMMA ReqConcatType == \A a, b \in Seq(Req) : a \o b \in Seq(Req)
BY ConcatProperties

LEMMA ReqConcatAssoc == \A a, b, c \in Seq(Req) : (a \o b) \o c = a \o (b \o c)
BY ConcatAssociative

-----------------------------------------------------------------------------
(* The inductive invariant *)

\* The thread processes data only while there are some.
BufferFilled == pc = "process" => recvBuf # <<>>

\* The body of an answer starts after its header and is no longer than the
\* header says.
BodyFitsHeader ==
  \A r \in Req :
     \/ hdr[r].kind = "none" /\ pldBytesReceived[r] = 0
     \/ hdr[r].kind = "hdr" /\ pldBytesReceived[r] <= hdr[r].length

\* On a connection the two limits are known or unknown together.
LimitsAgree ==
  /\ keepAliveMax \in Nat \cup {-1}
  /\ pc \in {"select", "read", "process", "start"} =>
        (keepAliveMax = -1 <=> keepAliveMaxRemaining = -1)

\* Requests are handed back only after the last completion, and then none is
\* left.
HandedBackLast ==
  returned # <<>> => Pending = <<>> /\ state = "NotAcceptingRequests"

IInv ==
  /\ TypeOK
  /\ EventfdCountsNewReqs
  /\ EveryRequestAccountedFor
  /\ BufferFilled
  /\ BodyFitsHeader
  /\ LimitsAgree
  /\ HandedBackLast

\* What the queues and the request records tell depends on nothing else.
LEMMA Untouched ==
  ASSUME IInv,
         UNCHANGED <<shared, hdr, pldBytesReceived, history>>,
         state' = state \/ state' = "NotAcceptingRequests" \/ state = "Undefined"
  PROVE  EventfdCountsNewReqs' /\ EveryRequestAccountedFor' /\ BodyFitsHeader'
         /\ HandedBackLast'
<1> USE DEF IInv, shared, history
<1>1. EventfdCountsNewReqs'
  BY DEF EventfdCountsNewReqs
<1>2. EveryRequestAccountedFor'
  BY DEF EveryRequestAccountedFor, Pending
<1>3. BodyFitsHeader'
  BY DEF BodyFitsHeader
<1>4. HandedBackLast'
  BY DEF HandedBackLast, Pending
<1>5. QED
  BY <1>1, <1>2, <1>3, <1>4

LEMMA FailKeepsIInv ==
  ASSUME IInv, NEW where \in Faults, Fail(where)
  PROVE  IInv'
<1> USE DEF Fail, shared, request, limits, thread, network, history
<1>1. TypeOK'
  BY DEF IInv, TypeOK
<1>2. BufferFilled' /\ LimitsAgree'
  BY DEF IInv, BufferFilled, LimitsAgree
<1>3. QED
  BY <1>1, <1>2, Untouched DEF IInv

LEMMA InitIInv == Init => IInv
<1> SUFFICES ASSUME Init PROVE IInv
  OBVIOUS
<1>1. <<>> \in Seq(Req) /\ <<>> \in Seq(Unit) /\ Len(<<>>) = 0
  BY EmptySeq
<1>2. hdr \in [Req -> Unit] /\ pldBytesReceived \in [Req -> Nat] /\ BodyFitsHeader
  <2>1. NoHdr \in Unit
    BY HttpClientAssumption DEF NoHdr, Unit
  <2>2. QED
    BY <2>1 DEF Init, BodyFitsHeader, NoHdr
<1>3. keepAliveMax \in Nat \cup {-1} /\ keepAliveMaxRemaining = -1
  BY HttpClientAssumption DEF Init
<1>4. TypeOK
  <2>1. /\ newReqs \in Seq(Req) /\ reqQueue \in Seq(Req) /\ wire \in Seq(Req)
        /\ recvBuf \in Seq(Unit) /\ inbox \in Seq(Unit)
        /\ accepted \in Seq(Req) /\ completed \in Seq(Req) /\ returned \in Seq(Req)
    BY <1>1 DEF Init
  <2>2. /\ fdNewReqs \in Nat /\ served \in Nat
        /\ sent \in SUBSET Req
        /\ state \in DashHttpState
        /\ fault \in Faults
    BY DEF Init, DashHttpState, Faults
  <2>3. /\ ifTerminating \in BOOLEAN /\ evNewRequests \in BOOLEAN
        /\ aHdrReceived \in BOOLEAN /\ closing \in BOOLEAN
        /\ disconnectReported \in BOOLEAN
        /\ pc = "connect" /\ tcp = "closed"
    BY DEF Init
  <2>4. QED
    BY <1>2, <1>3, <2>1, <2>2, <2>3 DEF TypeOK
<1>5. EveryRequestAccountedFor /\ HandedBackLast /\ EventfdCountsNewReqs
  BY <1>1 DEF Init, EveryRequestAccountedFor, Pending, HandedBackLast,
              EventfdCountsNewReqs
<1>6. BufferFilled /\ LimitsAgree
  BY <1>3 DEF Init, BufferFilled, LimitsAgree
<1>7. QED
  BY <1>2, <1>4, <1>5, <1>6 DEF IInv

-----------------------------------------------------------------------------
(* Each action preserves it *)

\* The actions that touch neither the queues nor the requests nor the histories.
LEMMA QuietStep ==
  ASSUME IInv,
         \/ Construct \/ Terminate \/ Connect \/ ConnectTimeout \/ LeaveLoop
         \/ WaitForEvents \/ FinArrives
  PROVE  IInv'
<1> USE DEF shared, request, limits, thread, network, history
<1>1. /\ UNCHANGED <<shared, hdr, pldBytesReceived, history>>
      /\ state' = state \/ state = "Undefined"
  BY DEF Construct, Terminate, Connect, ConnectTimeout, LeaveLoop, WaitForEvents,
         FinArrives
<1>2. TypeOK'
  <2> USE DEF IInv, TypeOK
  <2>1. CASE Construct
    BY <2>1 DEF Construct, DashHttpState
  <2>2. CASE Terminate
    BY <2>2 DEF Terminate
  <2>3. CASE Connect
    BY <2>3 DEF Connect, LimitsAgree
  <2>4. CASE ConnectTimeout
    BY <2>4 DEF ConnectTimeout
  <2>5. CASE LeaveLoop
    BY <2>5 DEF LeaveLoop
  <2>6. CASE WaitForEvents
    BY <2>6 DEF WaitForEvents
  <2>7. CASE FinArrives
    <3>1. <<>> \in Seq(Req)
      BY EmptySeq
    <3>2. QED
      BY <2>7, <3>1 DEF FinArrives
  <2>8. QED
    BY <2>1, <2>2, <2>3, <2>4, <2>5, <2>6, <2>7
<1>3. BufferFilled' /\ LimitsAgree'
  BY DEF IInv, BufferFilled, LimitsAgree, Construct, Terminate, Connect,
         ConnectTimeout, LeaveLoop, WaitForEvents, FinArrives
<1>4. QED
  BY <1>1, <1>2, <1>3, Untouched DEF IInv

\* The requests of one call of newRequest().
LEMMA BatchType ==
  ASSUME TypeOK, NEW k \in 1..MaxOutstanding, NewRequest(k)
  PROVE  LET batch == [i \in 1..k |-> Len(accepted) + i]
         IN  batch \in Seq(Req) /\ Len(batch) = k
<1> DEFINE batch == [i \in 1..k |-> Len(accepted) + i]
<1>1. k \in Nat /\ Len(accepted) \in Nat /\ Len(accepted) + k <= NumReqs
  BY HttpClientAssumption DEF NewRequest, TypeOK
<1>2. \A i \in 1..k : Len(accepted) + i \in Req
  BY <1>1, HttpClientAssumption DEF Req
<1>3. batch \in [1..k -> Req]
  BY <1>2
<1> HIDE DEF batch
<1>4. batch \in Seq(Req) /\ Len(batch) = k
  BY <1>1, <1>3
<1>5. QED
  BY <1>4 DEF batch

LEMMA NewRequestStep ==
  ASSUME IInv, NEW k \in 1..MaxOutstanding, NewRequest(k)
  PROVE  IInv'
<1> DEFINE batch == [i \in 1..k |-> Len(accepted) + i]
<1> USE DEF request, limits, thread, network
<1>1. k \in Nat
  BY HttpClientAssumption
<1>2. batch \in Seq(Req) /\ Len(batch) = k
  BY BatchType DEF IInv
<1>3. newReqs' = newReqs \o batch /\ accepted' = accepted \o batch
  BY DEF NewRequest
<1> HIDE DEF batch
<1>4. TypeOK'
  <2>1. newReqs' \in Seq(Req) /\ accepted' \in Seq(Req)
    BY <1>2, <1>3, ConcatProperties DEF IInv, TypeOK
  <2>2. fdNewReqs' \in Nat
    BY <1>1 DEF NewRequest, IInv, TypeOK
  <2>3. QED
    BY <2>1, <2>2 DEF NewRequest, IInv, TypeOK
<1>5. EventfdCountsNewReqs'
  BY <1>1, <1>2, <1>3 DEF NewRequest, IInv, TypeOK, EventfdCountsNewReqs
<1>6. EveryRequestAccountedFor'
  <2>1. accepted' = (completed \o (returned \o (reqQueue \o newReqs))) \o batch
    BY <1>3 DEF IInv, EveryRequestAccountedFor, Pending
  <2>2. /\ completed \in Seq(Req) /\ returned \in Seq(Req)
        /\ reqQueue \in Seq(Req) /\ newReqs \in Seq(Req)
    BY DEF IInv, TypeOK
  <2>3. (completed \o (returned \o (reqQueue \o newReqs))) \o batch
          = completed \o (returned \o (reqQueue \o (newReqs \o batch)))
    <3> DEFINE f == reqQueue \o newReqs
               g == returned \o f
    <3>1. f \in Seq(Req) /\ batch \in Seq(Req)
      BY <1>2, <2>2, ReqConcatType
    <3>2. f \o batch = reqQueue \o (newReqs \o batch)
      BY <1>2, <2>2, ReqConcatAssoc, Zenon
    <3> HIDE DEF f
    <3>3. g \in Seq(Req)
      BY <2>2, <3>1, ReqConcatType, Zenon
    <3>4. g \o batch = returned \o (f \o batch)
      BY <2>2, <3>1, ReqConcatAssoc, Zenon
    <3> HIDE DEF g
    <3>5. (completed \o g) \o batch = completed \o (g \o batch)
      <4>1. completed \in Seq(Req)
        BY <2>2
      <4>2. batch \in Seq(Req)
        BY <3>1
      <4>3. QED
        BY <3>3, <4>1, <4>2, ReqConcatAssoc, Zenon
    <3>6. QED
      BY <3>2, <3>4, <3>5 DEF f, g
  <2>4. QED
    BY <1>3, <2>1, <2>2, <2>3 DEF NewRequest, EveryRequestAccountedFor, Pending
<1>7. HandedBackLast'
  BY DEF IInv, HandedBackLast, NewRequest
<1>8. BufferFilled' /\ LimitsAgree' /\ BodyFitsHeader'
  BY DEF IInv, BufferFilled, LimitsAgree, BodyFitsHeader, NewRequest
<1>9. QED
  BY <1>4, <1>5, <1>6, <1>7, <1>8 DEF IInv

LEMMA ClearUnfinishedRequestsStep ==
  ASSUME IInv, ClearUnfinishedRequests
  PROVE  IInv'
<1>1. CASE Fail("clearUnfinished") \/ Fail("eventfd")
  BY <1>1, FailKeepsIInv DEF Faults
<1>2. CASE ~Fail("clearUnfinished") /\ ~Fail("eventfd")
  <2> USE DEF request, limits, thread, network
  <2>1. /\ state = "NotAcceptingRequests"
        /\ returned' = returned \o Unfinished
        /\ newReqs' = <<>> /\ reqQueue' = <<>>
        /\ fdNewReqs' = DrainedEventfd
        /\ UNCHANGED <<request, limits, thread, network, accepted, completed,
                       state, ifTerminating, disconnectReported, fault>>
    BY <1>2 DEF ClearUnfinishedRequests
  <2>2. <<>> \in Seq(Req) /\ Len(<<>>) = 0
    BY EmptySeq
  <2>3. Pending \in Seq(Req) /\ returned' \in Seq(Req)
    BY <2>1, ConcatProperties DEF IInv, TypeOK, Pending, Unfinished
  <2>4. TypeOK'
    BY <2>1, <2>2, <2>3 DEF IInv, TypeOK, DrainedEventfd
  <2>5. EventfdCountsNewReqs'
    BY <2>1, <2>2 DEF IInv, EventfdCountsNewReqs, DrainedEventfd
  <2>6. Pending' = <<>>
    BY <2>1, <2>2, ConcatEmptySeq DEF Pending
  <2>7. EveryRequestAccountedFor'
    <3>1. returned' \o Pending' = returned \o Pending
      BY <2>1, <2>3, <2>6, ConcatEmptySeq DEF Unfinished
    <3>2. QED
      BY <2>1, <3>1 DEF IInv, EveryRequestAccountedFor, Pending
  <2>8. HandedBackLast'
    BY <2>1, <2>6 DEF HandedBackLast
  <2>9. BufferFilled' /\ LimitsAgree' /\ BodyFitsHeader'
    BY <2>1 DEF IInv, BufferFilled, LimitsAgree, BodyFitsHeader
  <2>10. QED
    BY <2>4, <2>5, <2>7, <2>8, <2>9 DEF IInv
<1>3. QED
  BY <1>1, <1>2

LEMMA ThreadEndStep ==
  ASSUME IInv, Destroy \/ ReportDisconnect \/ Read
  PROVE  IInv'
<1> USE DEF shared, request, limits, thread, network, history
<1>1. CASE Destroy
  <2>1. CASE Fail("destructor")
    BY <2>1, FailKeepsIInv DEF Faults
  <2>2. CASE ~Fail("destructor")
    BY <1>1, <2>2, Untouched
       DEF Destroy, IInv, TypeOK, BufferFilled, LimitsAgree
  <2>3. QED
    BY <2>1, <2>2
<1>2. CASE ReportDisconnect
  <2>1. CASE Fail("reportDisconnect")
    BY <2>1, FailKeepsIInv DEF Faults
  <2>2. CASE ~Fail("reportDisconnect")
    BY <1>2, <2>2, Untouched
       DEF ReportDisconnect, IInv, TypeOK, BufferFilled, LimitsAgree, DashHttpState
  <2>3. QED
    BY <2>1, <2>2
<1>3. CASE Read
  <2>1. /\ recvBuf' \in Seq(Unit) /\ inbox' \in Seq(Unit)
        /\ pc' \in {"process", "disconnect"}
        /\ pc' = "process" => recvBuf' # <<>>
    <3>1. CASE inbox = <<>> /\ pc' = "disconnect" /\ UNCHANGED <<recvBuf, inbox>>
      BY <3>1 DEF IInv, TypeOK
    <3>2. ASSUME NEW n \in 1..Len(inbox),
                 recvBuf' = SubSeq(inbox, 1, n),
                 inbox' = SubSeq(inbox, n + 1, Len(inbox)),
                 pc' = "process"
          PROVE  /\ recvBuf' \in Seq(Unit) /\ inbox' \in Seq(Unit)
                 /\ recvBuf' # <<>>
      <4>1. inbox \in Seq(Unit) /\ Len(inbox) \in Nat /\ n \in Nat /\ n <= Len(inbox)
        BY LenProperties DEF IInv, TypeOK
      <4>2. recvBuf' \in Seq(Unit) /\ Len(recvBuf') = n
        BY <3>2, <4>1, SubSeqProperties
      <4>3. inbox' \in Seq(Unit)
        BY <3>2, <4>1, SubSeqProperties
      <4>4. QED
        BY <4>2, <4>3
    <3>3. QED
      BY <1>3, <3>1, <3>2 DEF Read
  <2>2. QED
    BY <1>3, <2>1, Untouched DEF Read, IInv, TypeOK, BufferFilled, LimitsAgree
<1>4. QED
  BY <1>1, <1>2, <1>3

LEMMA AnswerStep ==
  ASSUME IInv, wire # <<>>,
         NEW close \in BOOLEAN, NEW units \in 0..BodyOf(Head(wire)),
         Answer(close, units)
  PROVE  IInv'
<1> DEFINE r == Head(wire)
           h == Header(r, close, ServerLimit - served - 1)
           body == [i \in 1..units |-> Body(r)]
<1> USE DEF shared, request, limits, thread, history
<1>1. r \in Req /\ Tail(wire) \in Seq(Req)
  BY HeadTailProperties DEF IInv, TypeOK
<1> HIDE DEF r
<1>2. Payload[r] \in Nat /\ served \in Nat /\ ServerLimit \in Int
  BY <1>1, HttpClientAssumption DEF IInv, TypeOK
<1>3. h \in Unit /\ Body(r) \in Unit
  <2>1. r \in 0..NumReqs
    BY <1>1 DEF Req
  <2>2. Body(r) \in Unit
    BY <2>1 DEF Body, Unit
  <2>3. (IF close THEN -1 ELSE ServerLimit - served - 1) \in Int
    BY <1>2
  <2>4. h \in Unit
    BY <1>2, <2>1, <2>3 DEF Header, Unit
  <2>5. QED
    BY <2>2, <2>4
<1>4. inbox' \in Seq(Unit)
  <2>1. units \in Nat
    BY <1>2 DEF BodyOf, r
  <2>2. body \in Seq(Unit)
    BY <1>3, <2>1
  <2>3. inbox \in Seq(Unit) /\ <<h>> \in Seq(Unit)
    BY <1>3 DEF IInv, TypeOK
  <2>4. inbox' = (inbox \o <<h>>) \o body
    BY DEF Answer, r
  <2> HIDE DEF h, body
  <2>5. inbox \o <<h>> \in Seq(Unit)
    BY <2>3, ConcatProperties, Zenon
  <2>6. QED
    BY <2>2, <2>4, <2>5, ConcatProperties, Zenon
<1>5. TypeOK'
  <2>1. wire' \in Seq(Req) /\ served' \in Nat
    BY <1>1, <1>2 DEF Answer, r
  <2>2. closing' \in BOOLEAN
    BY DEF Answer
  <2>3. QED
    BY <1>4, <2>1, <2>2 DEF Answer, IInv, TypeOK
<1>6. BufferFilled' /\ LimitsAgree'
  BY DEF IInv, BufferFilled, LimitsAgree, Answer
<1>7. QED
  BY <1>5, <1>6, Untouched DEF Answer, IInv

LEMMA CheckStartNewRequestsStep ==
  ASSUME IInv, CheckStartNewRequests
  PROVE  IInv'
<1> DEFINE n == NumPendingRequests(Pending, sent)
           m == NumToStart(Pending, n)
           batch == SubSeq(Pending, n + 1, n + m)
<1>1. CASE Fail("eventfd") \/ Fail("clientLimit") \/ Fail("write")
  BY <1>1, FailKeepsIInv DEF Faults
<1>2. CASE ~Fail("eventfd") /\ ~Fail("clientLimit") /\ ~Fail("write")
  <2> USE DEF thread, network, history
  <2>1. /\ pc = "start"
        /\ newReqs' = <<>>
        /\ reqQueue' = Pending
        /\ fdNewReqs' = DrainedEventfd
        /\ sent' = sent \cup {batch[i] : i \in 1..m}
        /\ keepAliveMaxRemaining' = IF keepAliveMax = -1 THEN keepAliveMaxRemaining
                                    ELSE keepAliveMaxRemaining - m
        /\ wire' = wire \o batch
        /\ pc' = "select"
        /\ UNCHANGED <<hdr, pldBytesReceived, aHdrReceived, keepAliveMax,
                       evNewRequests, recvBuf, tcp, inbox, served, closing, history,
                       state, ifTerminating, disconnectReported, fault>>
    BY <1>2 DEF CheckStartNewRequests
  <2>2. <<>> \in Seq(Req) /\ Len(<<>>) = 0
    BY EmptySeq
  <2>3. Pending \in Seq(Req)
    BY ReqConcatType DEF IInv, TypeOK, Pending
  <2>4. n \in Nat /\ n <= Len(Pending)
    BY <2>3, NumPendingType
  <2>5. keepAliveMaxRemaining \in Nat \cup {-1} /\ keepAliveMax \in Int
    BY DEF IInv, TypeOK
  <2>6. /\ m \in Nat
        /\ n + m <= Len(Pending)
        /\ keepAliveMax # -1 /\ keepAliveMaxRemaining # -1 =>
              m <= keepAliveMaxRemaining
    <3> HIDE DEF n
    <3> QED
      BY <2>3, <2>4, <2>5, NumToStartType
  <2> HIDE DEF n, m
  <2>7. batch \in Seq(Req) /\ Len(batch) = m
    <3>1. n + 1 \in 1..(Len(Pending) + 1) /\ n + m \in 0..Len(Pending)
      BY <2>3, <2>4, <2>6, LenProperties
    <3>2. QED
      BY <2>3, <2>4, <2>6, <3>1, SubSeqProperties
  <2> HIDE DEF batch
  <2>8. wire' \in Seq(Req)
    BY <2>1, <2>7, ReqConcatType DEF IInv, TypeOK
  <2>9. sent' \in SUBSET Req
    BY <2>1, <2>6, <2>7 DEF IInv, TypeOK
  <2>10. keepAliveMaxRemaining' \in Nat \cup {-1}
         /\ (keepAliveMax' = -1 <=> keepAliveMaxRemaining' = -1)
    BY <2>1, <2>5, <2>6 DEF IInv, LimitsAgree
  <2>11. EventfdCountsNewReqs'
    BY <2>1, <2>2 DEF IInv, EventfdCountsNewReqs, DrainedEventfd
  <2>12. TypeOK'
    <3>1. newReqs' \in Seq(Req) /\ reqQueue' \in Seq(Req) /\ fdNewReqs' \in Nat
      BY <2>1, <2>2, <2>3 DEF IInv, TypeOK, DrainedEventfd
    <3>2. QED
      BY <2>1, <2>8, <2>9, <2>10, <3>1 DEF IInv, TypeOK
  <2>13. Pending' = Pending
    BY <2>1, <2>3, ConcatEmptySeq DEF Pending
  <2>14. EveryRequestAccountedFor' /\ HandedBackLast'
    BY <2>1, <2>13 DEF IInv, EveryRequestAccountedFor, HandedBackLast
  <2>15. BufferFilled' /\ LimitsAgree' /\ BodyFitsHeader'
    BY <2>1, <2>10 DEF IInv, BufferFilled, LimitsAgree, BodyFitsHeader
  <2>16. QED
    BY <2>11, <2>12, <2>14, <2>15 DEF IInv
<1>3. QED
  BY <1>1, <1>2

\* Moving the head of a queue to the end of the sequence in front of it.
LEMMA MoveHead ==
  ASSUME NEW c \in Seq(Req), NEW q \in Seq(Req), NEW n \in Seq(Req), q # <<>>
  PROVE  Append(c, Head(q)) \o (Tail(q) \o n) = c \o (q \o n)
<1> DEFINE x == <<Head(q)>>
           t == Tail(q) \o n
<1>1. Head(q) \in Req /\ Tail(q) \in Seq(Req) /\ Len(Tail(q)) = Len(q) - 1
      /\ \A i \in 1..Len(Tail(q)) : Tail(q)[i] = q[i + 1]
  BY HeadTailProperties
<1>2. x \in Seq(Req)
  BY <1>1
<1>3. Append(c, Head(q)) = c \o x
  BY <1>1, AppendIsConcat
<1>4. x \o Tail(q) = q
  <2>1. x \o Tail(q) \in Seq(Req) /\ Len(x \o Tail(q)) = 1 + Len(Tail(q))
        /\ \A i \in 1..1 + Len(Tail(q)) :
              (x \o Tail(q))[i] = IF i <= 1 THEN x[i] ELSE Tail(q)[i - 1]
    BY <1>1, <1>2, ConcatProperties
  <2>2. Len(x \o Tail(q)) = Len(q)
    BY <1>1, <2>1, LenProperties
  <2>3. \A i \in 1..Len(q) : (x \o Tail(q))[i] = q[i]
    BY <1>1, <2>1, LenProperties
  <2> HIDE DEF x
  <2>4. QED
    BY <2>1, <2>2, <2>3, SeqEqual
<1> HIDE DEF x
<1>5. t \in Seq(Req)
  BY <1>1, ReqConcatType
<1>6. x \o t = q \o n
  <2>1. Tail(q) \in Seq(Req)
    BY <1>1
  <2>2. (x \o Tail(q)) \o n = x \o t
    BY <1>2, <2>1, ReqConcatAssoc, Zenon
  <2>3. QED
    BY <1>4, <2>2
<1> HIDE DEF t
<1>7. (c \o x) \o t = c \o (x \o t)
  BY <1>2, <1>5, ReqConcatAssoc, Zenon
<1>8. Append(c, Head(q)) \o t = c \o (q \o n)
  BY <1>3, <1>6, <1>7, Zenon
<1>9. QED
  BY <1>8 DEF t

\* What one call of parseData() makes of the buffer.
LEMMA ParseDataType ==
  ASSUME TypeOK, BodyFitsHeader, recvBuf # <<>>, NEW r \in Req
  PROVE  LET d == ParseData(r, recvBuf)
         IN  /\ d.hdr \in Unit /\ d.pld \in Nat /\ d.parsed \in 0..Len(recvBuf)
             /\ \/ d.hdr.kind = "none" /\ d.pld = 0
                \/ d.hdr.kind = "hdr" /\ d.pld <= d.hdr.length
<1> DEFINE expectHdr == hdr[r].kind = "none"
           h == IF ~expectHdr THEN hdr[r]
                ELSE IF recvBuf[1].kind = "hdr" THEN recvBuf[1] ELSE NoHdr
           hdrBytes == IF expectHdr THEN 1 ELSE 0
           left == Len(recvBuf) - hdrBytes
           wanted == IF h.kind = "none" \/ r \in Heads THEN 0
                     ELSE h.length - pldBytesReceived[r]
           pld == IF wanted <= left THEN wanted ELSE left
<1>1. recvBuf \in Seq(Unit) /\ Len(recvBuf) \in Nat /\ Len(recvBuf) >= 1
      /\ recvBuf[1] \in Unit
  BY EmptySeq, LenProperties, ElementOfSeq DEF TypeOK
<1>2. hdr[r] \in Unit /\ pldBytesReceived[r] \in Nat
  BY DEF TypeOK
<1>3. NoHdr \in Unit /\ NoHdr.kind = "none"
  <2>1. 0 \in 0..NumReqs
    BY HttpClientAssumption
  <2>2. QED
    BY <2>1 DEF NoHdr, Unit
<1>4. h \in Unit /\ (h.kind = "none" \/ h.kind = "hdr")
  BY <1>1, <1>2, <1>3 DEF BodyFitsHeader
<1>5. /\ h.kind = "none" => pldBytesReceived[r] = 0
      /\ h.kind = "hdr" => pldBytesReceived[r] <= h.length
  <2>1. h.length \in Nat
    BY <1>4 DEF Unit
  <2>2. CASE expectHdr
    BY <2>1, <2>2 DEF BodyFitsHeader
  <2>3. CASE ~expectHdr
    BY <2>3 DEF BodyFitsHeader
  <2>4. QED
    BY <2>2, <2>3
<1>6. h.length \in Nat
  BY <1>4 DEF Unit
<1>7. left \in Nat
  BY <1>1
<1>8. ParseData(r, recvBuf) =
        [hdr |-> h, pld |-> pldBytesReceived[r] + pld, parsed |-> hdrBytes + pld]
  BY DEF ParseData
<1>9. hdrBytes \in {0, 1} /\ hdrBytes + left = Len(recvBuf)
  BY <1>1
<1> HIDE DEF h, hdrBytes, left
<1>10. wanted \in Nat
  BY <1>2, <1>4, <1>5, <1>6
<1>11. pld \in Nat /\ pld <= left /\ pld <= wanted
  BY <1>7, <1>10
<1>12. \/ h.kind = "none" /\ pldBytesReceived[r] + pld = 0
       \/ h.kind = "hdr" /\ pldBytesReceived[r] + pld <= h.length
  <2> HIDE DEF pld
  <2>1. CASE h.kind = "none"
    <3>1. wanted = 0
      BY <2>1
    <3>2. QED
      BY <1>5, <1>11, <2>1, <3>1
  <2>2. CASE h.kind = "hdr"
    BY <1>2, <1>5, <1>6, <1>11, <2>2
  <2>3. QED
    BY <1>4, <2>1, <2>2
<1> HIDE DEF pld, wanted
<1>13. hdrBytes + pld \in 0..Len(recvBuf)
  BY <1>1, <1>7, <1>9, <1>11
<1>14. pldBytesReceived[r] + pld \in Nat
  BY <1>2, <1>11
<1>15. QED
  BY <1>4, <1>8, <1>12, <1>13, <1>14

LEMMA ProcessNewDataStep ==
  ASSUME IInv, ProcessNewData
  PROVE  IInv'
<1> DEFINE r == Head(reqQueue)
           d == ParseData(r, recvBuf)
           first == d.hdr.kind = "hdr" /\ ~aHdrReceived
           remaining == IF first THEN RemainingAfterFirst(d.hdr.max)
                        ELSE keepAliveMaxRemaining
           rest == SubSeq(recvBuf, d.parsed + 1, Len(recvBuf))
           done == IsCompleted(r, d.hdr, d.pld)
           last == remaining = 0 \/ d.hdr.close
<1> DEFINE Failed == \/ Fail("noRequest") \/ Fail("firstHeader")
                     \/ Fail("keepAliveMismatch") \/ Fail("trailingBytes")
                     \/ Fail("notConstructed")
<1>1. CASE Failed
  BY <1>1, FailKeepsIInv DEF Faults
<1>2. CASE ~Failed
  <2>1. /\ reqQueue # <<>>
        /\ pc = "process"
        /\ ~(first /\ d.hdr.max <= 0)
        /\ hdr' = [hdr EXCEPT ![r] = d.hdr]
        /\ pldBytesReceived' = [pldBytesReceived EXCEPT ![r] = d.pld]
        /\ sent' = IF first THEN RequeuePendingRequests(remaining + 1) ELSE sent
        /\ aHdrReceived' = (aHdrReceived \/ first)
        /\ keepAliveMax' = IF first THEN d.hdr.max + 1 ELSE keepAliveMax
        /\ keepAliveMaxRemaining' = remaining
        /\ recvBuf' = rest
        /\ pc' = IF rest # <<>> THEN "process"
                 ELSE IF evNewRequests THEN "start" ELSE "select"
        /\ reqQueue' = IF done THEN Tail(reqQueue) ELSE reqQueue
        /\ completed' = IF done THEN Append(completed, r) ELSE completed
        /\ state' = IF done /\ last THEN "NotAcceptingRequests" ELSE state
        /\ UNCHANGED <<newReqs, fdNewReqs, evNewRequests, network, accepted,
                       returned, ifTerminating, disconnectReported, fault>>
    BY <1>2, Zenon DEF ProcessNewData
  <2>2. reqQueue \in Seq(Req) /\ newReqs \in Seq(Req) /\ completed \in Seq(Req)
    BY DEF IInv, TypeOK
  <2>3. r \in Req /\ Tail(reqQueue) \in Seq(Req)
    BY <2>1, <2>2, HeadTailProperties
  <2>4. recvBuf # <<>>
    BY <2>1 DEF IInv, BufferFilled
  <2>5. /\ d.hdr \in Unit /\ d.pld \in Nat /\ d.parsed \in 0..Len(recvBuf)
        /\ \/ d.hdr.kind = "none" /\ d.pld = 0
           \/ d.hdr.kind = "hdr" /\ d.pld <= d.hdr.length
    <3> HIDE DEF r
    <3>1. TypeOK /\ BodyFitsHeader
      BY DEF IInv
    <3>2. QED
      BY <2>3, <2>4, <3>1, ParseDataType
  <2> HIDE DEF r, d, Failed
  <2>6. rest \in Seq(Unit)
    <3>1. recvBuf \in Seq(Unit) /\ Len(recvBuf) \in Nat
      BY LenProperties DEF IInv, TypeOK
    <3>2. QED
      BY <2>5, <3>1, SubSeqProperties
  <2>7. d.hdr.max \in Int
    BY <2>5 DEF Unit
  <2>8. /\ remaining \in Nat \cup {-1}
        /\ first => remaining \in Nat
    <3>1. NumPendingRequests(reqQueue, sent) \in Nat
      BY <2>2, NumPendingType
    <3>2. RemainingAfterFirst(d.hdr.max) \in Nat
      BY <2>7, <3>1 DEF RemainingAfterFirst
    <3>3. keepAliveMaxRemaining \in Nat \cup {-1}
      BY DEF IInv, TypeOK
    <3>4. QED
      BY <3>2, <3>3
  <2>9. sent' \in SUBSET Req
    BY <2>1 DEF IInv, TypeOK, RequeuePendingRequests
  <2> HIDE DEF rest, done, last
  <2>10. TypeOK'
    <3>1. hdr' \in [Req -> Unit] /\ pldBytesReceived' \in [Req -> Nat]
      BY <2>1, <2>3, <2>5 DEF IInv, TypeOK
    <3>2. reqQueue' \in Seq(Req) /\ completed' \in Seq(Req) /\ recvBuf' \in Seq(Unit)
      <4>1. Append(completed, r) \in Seq(Req)
        BY <2>2, <2>3, AppendProperties
      <4>2. QED
        BY <2>1, <2>2, <2>3, <2>6, <4>1
    <3>3. keepAliveMax' \in Int /\ keepAliveMaxRemaining' \in Nat \cup {-1}
      BY <2>1, <2>7, <2>8 DEF IInv, TypeOK
    <3>4. aHdrReceived' \in BOOLEAN
      BY <2>1 DEF IInv, TypeOK
    <3>5. state' \in DashHttpState
      BY <2>1 DEF IInv, TypeOK, DashHttpState
    <3>6. pc' \in {"process", "start", "select"}
      BY <2>1
    <3>7. UNCHANGED <<newReqs, fdNewReqs, evNewRequests, tcp, wire, inbox, served,
                      closing, accepted, returned, ifTerminating,
                      disconnectReported, fault>>
      BY <2>1 DEF network
    <3>8. QED
      BY <2>9, <3>1, <3>2, <3>3, <3>4, <3>5, <3>6, <3>7 DEF IInv, TypeOK
  <2>11. EventfdCountsNewReqs'
    BY <2>1 DEF IInv, EventfdCountsNewReqs
  <2>12. returned = <<>>
    <3>1. Pending # <<>>
      <4>1. reqQueue \o newReqs = <<>> => reqQueue = <<>>
        BY <2>2, ConcatEqualIffEmpty
      <4>2. QED
        BY <2>1, <4>1 DEF Pending
    <3>2. QED
      BY <3>1 DEF IInv, HandedBackLast
  <2>13. HandedBackLast'
    BY <2>1, <2>12 DEF HandedBackLast
  <2>14. EveryRequestAccountedFor'
    <3>1. CASE ~done
      BY <2>1, <3>1 DEF IInv, EveryRequestAccountedFor, Pending
    <3>2. CASE done
      <4>1. Append(completed, r) \o (Tail(reqQueue) \o newReqs)
              = completed \o (reqQueue \o newReqs)
        BY <2>1, <2>2, MoveHead DEF r
      <4>2. /\ <<>> \o (Tail(reqQueue) \o newReqs) = Tail(reqQueue) \o newReqs
            /\ <<>> \o (reqQueue \o newReqs) = reqQueue \o newReqs
        <5>1. Tail(reqQueue) \o newReqs \in Seq(Req) /\ reqQueue \o newReqs \in Seq(Req)
          BY <2>2, <2>3, ReqConcatType
        <5>2. QED
          BY <5>1, ConcatEmptySeq
      <4>3. accepted = completed \o (<<>> \o (reqQueue \o newReqs))
        BY <2>12 DEF IInv, EveryRequestAccountedFor, Pending
      <4>4. accepted = Append(completed, r) \o (<<>> \o (Tail(reqQueue) \o newReqs))
        BY <4>1, <4>2, <4>3, Zenon
      <4>5. /\ accepted' = accepted /\ completed' = Append(completed, r)
            /\ returned' = <<>> /\ reqQueue' = Tail(reqQueue) /\ newReqs' = newReqs
        BY <2>1, <2>12, <3>2
      <4>6. QED
        BY <4>4, <4>5 DEF EveryRequestAccountedFor, Pending
    <3>3. QED
      BY <3>1, <3>2
  <2>15. BufferFilled'
    BY <2>1 DEF BufferFilled
  <2>16. BodyFitsHeader'
    <3> SUFFICES ASSUME NEW x \in Req
                 PROVE  \/ hdr'[x].kind = "none" /\ pldBytesReceived'[x] = 0
                        \/ hdr'[x].kind = "hdr"
                           /\ pldBytesReceived'[x] <= hdr'[x].length
      BY DEF BodyFitsHeader
    <3>1. hdr \in [Req -> Unit] /\ pldBytesReceived \in [Req -> Nat]
      BY DEF IInv, TypeOK
    <3>2. CASE x = r
      <4>1. hdr'[x] = d.hdr /\ pldBytesReceived'[x] = d.pld
        BY <2>1, <3>1, <3>2
      <4>2. QED
        BY <2>5, <4>1
    <3>3. CASE x # r
      <4>1. hdr'[x] = hdr[x] /\ pldBytesReceived'[x] = pldBytesReceived[x]
        BY <2>1, <3>1, <3>3
      <4>2. QED
        BY <4>1 DEF IInv, BodyFitsHeader
    <3>4. QED
      BY <3>2, <3>3
  <2>17. LimitsAgree'
    <3>1. CASE first
      BY <2>1, <2>7, <2>8, <3>1 DEF LimitsAgree
    <3>2. CASE ~first
      BY <2>1, <3>2 DEF IInv, LimitsAgree
    <3>3. QED
      BY <3>1, <3>2
  <2>18. QED
    BY <2>10, <2>11, <2>13, <2>14, <2>15, <2>16, <2>17 DEF IInv
<1>3. QED
  BY <1>1, <1>2

-----------------------------------------------------------------------------
(* The theorems *)

\* No step, and no stutter, leads out of the inductive invariant.
LEMMA NextIInv == IInv /\ [Next]_vars => IInv'
<1> SUFFICES ASSUME IInv, [Next]_vars PROVE IInv'
  OBVIOUS
<1>1. CASE ControlThread
  <2>1. CASE Construct
    BY <2>1, QuietStep
  <2>2. CASE \E k \in 1..MaxOutstanding : NewRequest(k)
    BY <2>2, NewRequestStep
  <2>3. CASE ClearUnfinishedRequests
    BY <2>3, ClearUnfinishedRequestsStep
  <2>4. CASE Terminate
    BY <2>4, QuietStep
  <2>5. CASE Destroy
    BY <2>5, ThreadEndStep
  <2>6. QED
    BY <1>1, <2>1, <2>2, <2>3, <2>4, <2>5 DEF ControlThread
<1>2. CASE HttpThread
  <2>1. CASE Connect \/ ConnectTimeout \/ LeaveLoop \/ WaitForEvents
    BY <2>1, QuietStep
  <2>2. CASE Read \/ ReportDisconnect
    BY <2>2, ThreadEndStep
  <2>3. CASE ProcessNewData
    BY <2>3, ProcessNewDataStep
  <2>4. CASE CheckStartNewRequests
    BY <2>4, CheckStartNewRequestsStep
  <2>5. QED
    BY <1>2, <2>1, <2>2, <2>3, <2>4 DEF HttpThread
<1>3. CASE Server
  BY <1>3, AnswerStep, QuietStep DEF Server
<1>4. CASE UNCHANGED vars
  BY <1>4, Untouched
     DEF vars, shared, request, limits, thread, network, history, IInv, TypeOK,
         BufferFilled, LimitsAgree
<1>5. QED
  BY <1>1, <1>2, <1>3, <1>4 DEF Next

\* What the queues, the histories and the request records satisfy in every state:
\* the invariants below, with what they need to be inductive.
THEOREM Inductive == Spec => []IInv
<1>1. Init => IInv
  BY InitIInv
<1>2. IInv /\ [Next]_vars => IInv'
  BY NextIInv
<1>3. QED
  BY <1>1, <1>2, PTL DEF Spec

\* The state stays within its type; in particular keepAliveMaxRemaining is never
\* counted below zero by checkStartNewRequests.
THEOREM TypeCorrect == Spec => []TypeOK
<1>1. IInv => TypeOK
  BY DEF IInv
<1>2. QED
  BY <1>1, Inductive, PTL

\* The eventfd and the list of new requests always agree.
THEOREM EventfdCorrect == Spec => []EventfdCountsNewReqs
<1>1. IInv => EventfdCountsNewReqs
  BY DEF IInv
<1>2. QED
  BY <1>1, Inductive, PTL

\* No request is lost, duplicated or reordered on its way through the two queues.
THEOREM AllRequestsAccountedFor == Spec => []EveryRequestAccountedFor
<1>1. IInv => EveryRequestAccountedFor
  BY DEF IInv
<1>2. QED
  BY <1>1, Inductive, PTL

-----------------------------------------------------------------------------
(* The two queues implement RequestFifo *)

\* Head and tail of a concatenation whose first part is not empty.
LEMMA HeadTailOfConcat ==
  ASSUME NEW q \in Seq(Req), NEW n \in Seq(Req), q # <<>>
  PROVE  Head(q \o n) = Head(q) /\ Tail(q \o n) = Tail(q) \o n
<1> DEFINE a == Tail(q \o n)
           b == Tail(q) \o n
<1>1. /\ q \o n \in Seq(Req) /\ Len(q \o n) = Len(q) + Len(n)
      /\ \A i \in 1..Len(q) + Len(n) :
            (q \o n)[i] = IF i <= Len(q) THEN q[i] ELSE n[i - Len(q)]
  BY ConcatProperties
<1>2. Len(q) \in Nat \ {0} /\ Len(n) \in Nat
  BY EmptySeq, LenProperties
<1>3. q \o n # <<>>
  BY ConcatEqualIffEmpty
<1>4. /\ Tail(q) \in Seq(Req) /\ Len(Tail(q)) = Len(q) - 1
      /\ \A i \in 1..Len(Tail(q)) : Tail(q)[i] = q[i + 1]
  BY HeadTailProperties
<1>5. /\ a \in Seq(Req) /\ Len(a) = Len(q) + Len(n) - 1
      /\ \A i \in 1..Len(a) : a[i] = (q \o n)[i + 1]
  BY <1>1, <1>3, HeadTailProperties
<1>6. /\ b \in Seq(Req) /\ Len(b) = Len(q) - 1 + Len(n)
      /\ \A i \in 1..(Len(q) - 1 + Len(n)) :
            b[i] = IF i <= Len(q) - 1 THEN Tail(q)[i] ELSE n[i - (Len(q) - 1)]
  BY <1>4, ConcatProperties
<1> HIDE DEF a, b
<1>7. Len(a) = Len(b)
  BY <1>2, <1>5, <1>6
<1>8. \A i \in 1..Len(a) : a[i] = b[i]
  <2> SUFFICES ASSUME NEW i \in 1..Len(a) PROVE a[i] = b[i]
    OBVIOUS
  <2>1. a[i] = IF i + 1 <= Len(q) THEN q[i + 1] ELSE n[i + 1 - Len(q)]
    BY <1>1, <1>2, <1>5
  <2>2. b[i] = IF i <= Len(q) - 1 THEN Tail(q)[i] ELSE n[i - (Len(q) - 1)]
    BY <1>2, <1>5, <1>6
  <2>3. i <= Len(q) - 1 => Tail(q)[i] = q[i + 1]
    BY <1>2, <1>4, <1>5
  <2>4. i + 1 - Len(q) = i - (Len(q) - 1)
    BY <1>2, <1>5
  <2>5. QED
    BY <1>2, <1>5, <2>1, <2>2, <2>3, <2>4
<1>9. a = b
  BY <1>5, <1>6, <1>7, <1>8, SeqEqual
<1>10. Head(q \o n) = Head(q)
  BY <1>1, <1>2, <1>3
<1>11. QED
  BY <1>9, <1>10 DEF a, b

LEMMA InitFifo == Init => Fifo!Init
<1>1. <<>> \o <<>> = <<>>
  BY EmptySeq, ConcatEmptySeq
<1>2. QED
  BY <1>1 DEF Init, Fifo!Init, Pending

\* A step that changes neither the queues nor the histories, and does not make the
\* object accept requests again.
LEMMA FifoUntouched ==
  ASSUME UNCHANGED <<shared, history>>,
         \/ state' = state
         \/ state = "Undefined" /\ state' = "Constructed"
         \/ state' = "NotAcceptingRequests"
  PROVE  [Fifo!Next]_(Fifo!fifoVars)
<1> USE DEF shared, history
<1>1. CASE state' = "NotAcceptingRequests"
  BY <1>1 DEF Fifo!Next, Fifo!StopAccepting, Pending
<1>2. CASE state' = state \/ (state = "Undefined" /\ state' = "Constructed")
  BY <1>2 DEF Fifo!fifoVars, Pending
<1>3. QED
  BY <1>1, <1>2

LEMMA FailFifo ==
  ASSUME NEW where, Fail(where)
  PROVE  [Fifo!Next]_(Fifo!fifoVars)
BY FifoUntouched DEF Fail

LEMMA NewRequestFifo ==
  ASSUME IInv, NEW k \in 1..MaxOutstanding, NewRequest(k)
  PROVE  Fifo!Accept
<1> DEFINE batch == [i \in 1..k |-> Len(accepted) + i]
<1>1. k \in Nat \ {0}
  BY HttpClientAssumption
<1>2. batch \in Seq(Req) /\ Len(batch) = k
  BY BatchType DEF IInv
<1>3. /\ newReqs' = newReqs \o batch /\ reqQueue' = reqQueue
      /\ UNCHANGED <<completed, returned, state>> /\ state = "Constructed"
  BY DEF NewRequest
<1> HIDE DEF batch
<1>4. reqQueue \in Seq(Req) /\ newReqs \in Seq(Req)
  BY DEF IInv, TypeOK
<1>5. Pending \in Seq(Req)
  BY <1>4, ReqConcatType DEF Pending
<1>6. Pending' = Pending \o batch
  <2>1. batch \in Seq(Req)
    BY <1>2
  <2>2. (reqQueue \o newReqs) \o batch = reqQueue \o (newReqs \o batch)
    BY <1>4, <2>1, ReqConcatAssoc, Zenon
  <2>3. QED
    BY <1>3, <2>2 DEF Pending
<1>7. /\ Pending' \in Seq(Req) /\ Len(Pending') = Len(Pending) + k
      /\ \A i \in 1..Len(Pending) : Pending'[i] = Pending[i]
  <2>1. Len(Pending) \in Nat
    BY <1>5, LenProperties
  <2>2. /\ Pending \o batch \in Seq(Req)
        /\ Len(Pending \o batch) = Len(Pending) + k
        /\ \A i \in 1..Len(Pending) + k :
              (Pending \o batch)[i] =
                 IF i <= Len(Pending) THEN Pending[i] ELSE batch[i - Len(Pending)]
    BY <1>2, <1>5, ConcatProperties
  <2>3. QED
    BY <1>1, <1>6, <2>1, <2>2
<1>8. SubSeq(Pending', 1, Len(Pending)) = Pending
  <2> DEFINE p == Pending'
             sub == SubSeq(p, 1, Len(Pending))
  <2>1. Len(Pending) \in Nat /\ p \in Seq(Req) /\ Len(Pending) <= Len(p)
    BY <1>1, <1>5, <1>7, LenProperties
  <2> HIDE DEF p
  <2>2. /\ sub \in Seq(Req) /\ Len(sub) = Len(Pending)
        /\ \A i \in 1..Len(Pending) : sub[i] = p[i]
    BY <2>1, SubSeqProperties
  <2> HIDE DEF sub
  <2>3. \A i \in 1..Len(sub) : sub[i] = Pending[i]
    BY <1>7, <2>2 DEF p
  <2>4. sub = Pending
    BY <1>5, <2>2, <2>3, SeqEqual
  <2>5. QED
    BY <2>4 DEF sub, p
<1>9. QED
  BY <1>1, <1>3, <1>5, <1>7, <1>8, LenProperties DEF Fifo!Accept

LEMMA ProcessNewDataFifo ==
  ASSUME IInv, ProcessNewData
  PROVE  [Fifo!Next]_(Fifo!fifoVars)
<1> DEFINE r == Head(reqQueue)
           d == ParseData(r, recvBuf)
           done == IsCompleted(r, d.hdr, d.pld)
           Failed == \/ Fail("noRequest") \/ Fail("firstHeader")
                     \/ Fail("keepAliveMismatch") \/ Fail("trailingBytes")
                     \/ Fail("notConstructed")
<1>1. CASE Failed
  BY <1>1, FailFifo
<1>2. CASE ~Failed
  <2>1. /\ reqQueue # <<>>
        /\ reqQueue' = IF done THEN Tail(reqQueue) ELSE reqQueue
        /\ completed' = IF done THEN Append(completed, r) ELSE completed
        /\ state' = state \/ (done /\ state' = "NotAcceptingRequests")
        /\ UNCHANGED <<newReqs, accepted, returned>>
    BY <1>2 DEF ProcessNewData
  <2> HIDE DEF done
  <2>2. CASE ~done
    BY <2>1, <2>2 DEF Fifo!fifoVars, Pending
  <2>3. CASE done
    <3>1. Pending # <<>> /\ Head(Pending) = r /\ Pending' = Tail(Pending)
      <4>1. reqQueue \in Seq(Req) /\ newReqs \in Seq(Req)
        BY DEF IInv, TypeOK
      <4>2. reqQueue \o newReqs # <<>>
        BY <2>1, <4>1, ConcatEqualIffEmpty
      <4>3. /\ Head(reqQueue \o newReqs) = Head(reqQueue)
            /\ Tail(reqQueue \o newReqs) = Tail(reqQueue) \o newReqs
        BY <2>1, <4>1, HeadTailOfConcat
      <4>4. QED
        BY <2>1, <2>3, <4>2, <4>3 DEF Pending
    <3>2. Fifo!Complete
      BY <2>1, <2>3, <3>1 DEF Fifo!Complete
    <3>3. QED
      BY <3>2 DEF Fifo!Next
  <2>4. QED
    BY <2>2, <2>3
<1>3. QED
  BY <1>1, <1>2

\* checkStartNewRequests moves the new requests into the queue; the two together
\* stay as they are.
LEMMA CheckStartNewRequestsFifo ==
  ASSUME IInv, CheckStartNewRequests
  PROVE  [Fifo!Next]_(Fifo!fifoVars)
<1>1. CASE Fail("eventfd") \/ Fail("clientLimit") \/ Fail("write")
  BY <1>1, FailFifo
<1>2. CASE ~Fail("eventfd") /\ ~Fail("clientLimit") /\ ~Fail("write")
  <2>1. /\ newReqs' = <<>> /\ reqQueue' = Pending
        /\ UNCHANGED <<history, state>>
    BY <1>2 DEF CheckStartNewRequests
  <2>2. Pending \in Seq(Req)
    BY ReqConcatType DEF IInv, TypeOK, Pending
  <2>3. Pending' = Pending
    BY <2>1, <2>2, ConcatEmptySeq DEF Pending
  <2>4. QED
    BY <2>1, <2>3 DEF Fifo!fifoVars, history
<1>3. QED
  BY <1>1, <1>2

LEMMA ClearUnfinishedRequestsFifo ==
  ASSUME IInv, ClearUnfinishedRequests
  PROVE  [Fifo!Next]_(Fifo!fifoVars)
<1>1. CASE Fail("clearUnfinished") \/ Fail("eventfd")
  BY <1>1, FailFifo
<1>2. CASE ~Fail("clearUnfinished") /\ ~Fail("eventfd")
  <2>1. /\ newReqs' = <<>> /\ reqQueue' = <<>>
        /\ returned' = returned \o Unfinished
        /\ UNCHANGED <<completed, state>> /\ state = "NotAcceptingRequests"
    BY <1>2 DEF ClearUnfinishedRequests
  <2>2. Pending' = <<>>
    BY <2>1, EmptySeq, ConcatEmptySeq DEF Pending
  <2>3. QED
    BY <2>1, <2>2 DEF Fifo!Next, Fifo!TakeBack, Unfinished
<1>3. QED
  BY <1>1, <1>2

LEMMA NextFifo == IInv /\ [Next]_vars => [Fifo!Next]_(Fifo!fifoVars)
<1> SUFFICES ASSUME IInv, [Next]_vars PROVE [Fifo!Next]_(Fifo!fifoVars)
  OBVIOUS
<1>1. CASE ControlThread
  <2>1. CASE Construct \/ Terminate \/ Destroy
    BY <2>1, FifoUntouched, FailFifo DEF Construct, Terminate, Destroy
  <2>2. CASE \E k \in 1..MaxOutstanding : NewRequest(k)
    BY <2>2, NewRequestFifo DEF Fifo!Next
  <2>3. CASE ClearUnfinishedRequests
    BY <2>3, ClearUnfinishedRequestsFifo
  <2>4. QED
    BY <1>1, <2>1, <2>2, <2>3 DEF ControlThread
<1>2. CASE HttpThread
  <2>1. CASE Connect \/ ConnectTimeout \/ LeaveLoop \/ WaitForEvents \/ Read
    BY <2>1, FifoUntouched
       DEF Connect, ConnectTimeout, LeaveLoop, WaitForEvents, Read
  <2>2. CASE ReportDisconnect
    BY <2>2, FifoUntouched, FailFifo DEF ReportDisconnect
  <2>3. CASE ProcessNewData
    BY <2>3, ProcessNewDataFifo
  <2>4. CASE CheckStartNewRequests
    BY <2>4, CheckStartNewRequestsFifo
  <2>5. QED
    BY <1>2, <2>1, <2>2, <2>3, <2>4 DEF HttpThread
<1>3. CASE Server
  BY <1>3, FifoUntouched DEF Server, Answer, FinArrives
<1>4. CASE UNCHANGED vars
  BY <1>4, FifoUntouched DEF vars
<1>5. QED
  BY <1>1, <1>2, <1>3, <1>4 DEF Next

\* The client object keeps the promise of RequestFifo: whatever the server and the
\* scheduler do, requests complete in the order of their acceptance, and the ones
\* handed back are exactly the ones that did not.
THEOREM Refinement == Spec => ImplementsFifo
<1>1. Init => Fifo!Init
  BY InitFifo
<1>2. IInv /\ [Next]_vars => [Fifo!Next]_(Fifo!fifoVars)
  BY NextFifo
<1>3. QED
  BY <1>1, <1>2, Inductive, PTL DEF Spec, Fifo!Spec, ImplementsFifo
-----------------------------------------------------------------------------
(* The order of the requests *)

\* The requests completed or handed back.
Settled == Len(completed) + Len(returned)

\* A queue that starts behind the settled requests.
Numbered(q) == \A i \in 1..Len(q) : q[i] = Settled + i

\* No request is marked as sent before the thread has seen it.
SentSeen == \A r \in sent : r <= Settled + Len(reqQueue)

\* Of the requests that are not settled, the first ones have been sent.
SentContiguous == \A r \in sent : \A x \in (Settled + 1)..r : x \in sent

\* A request that must not be pipelined has been sent in front of the queue.
UnpipelinedFirst == \A r \in sent : r \in Unpipelined => r <= Settled + 1

WithinClientLimit ==
  MaxPendingRequests > 0 => \A r \in sent : r <= Settled + MaxPendingRequests

QueueInv ==
  /\ IInv
  /\ Numbered(Pending)
  /\ SentSeen /\ SentContiguous
  /\ UnpipelinedFirst /\ WithinClientLimit

-----------------------------------------------------------------------------
(* Numbers and lengths *)

\* The types of what the invariant speaks of.
LEMMA QueueTypes ==
  ASSUME IInv
  PROVE  /\ reqQueue \in Seq(Req) /\ newReqs \in Seq(Req) /\ Pending \in Seq(Req)
         /\ Len(reqQueue) \in Nat /\ Len(newReqs) \in Nat
         /\ Len(Pending) = Len(reqQueue) + Len(newReqs)
         /\ Len(completed) \in Nat /\ Len(returned) \in Nat /\ Settled \in Nat
         /\ sent \subseteq Nat
         /\ MaxPendingRequests \in Nat
<1>1. /\ reqQueue \in Seq(Req) /\ newReqs \in Seq(Req)
      /\ completed \in Seq(Req) /\ returned \in Seq(Req) /\ sent \subseteq Req
  BY DEF IInv, TypeOK
<1>2. Pending \in Seq(Req) /\ Len(Pending) = Len(reqQueue) + Len(newReqs)
  BY <1>1, ConcatProperties DEF Pending
<1>3. /\ Len(reqQueue) \in Nat /\ Len(newReqs) \in Nat
      /\ Len(completed) \in Nat /\ Len(returned) \in Nat
  BY <1>1, LenProperties
<1> QED
  BY <1>1, <1>2, <1>3, HttpClientAssumption DEF Settled, Req

\* The accepted requests are the settled ones and those in the queue.
LEMMA AcceptedLength ==
  ASSUME IInv
  PROVE  Len(accepted) = Settled + Len(Pending)
<1>1. completed \in Seq(Req) /\ returned \in Seq(Req) /\ Pending \in Seq(Req)
  BY QueueTypes DEF IInv, TypeOK
<1>2. /\ returned \o Pending \in Seq(Req)
      /\ Len(returned \o Pending) = Len(returned) + Len(Pending)
  BY <1>1, ConcatProperties
<1>3. Len(completed \o (returned \o Pending)) = Len(completed) + Len(returned \o Pending)
  BY <1>1, <1>2, ConcatProperties
<1>4. accepted = completed \o (returned \o Pending)
  BY DEF IInv, EveryRequestAccountedFor
<1> QED
  BY <1>1, <1>2, <1>3, <1>4, LenProperties DEF Settled

\* getNumPendingRequests() counts exactly the requests that have been sent and
\* are not settled.
LEMMA PendingAreSent ==
  ASSUME NEW q \in Seq(Req), Numbered(q), Settled \in Nat, SentContiguous,
         NEW i \in Nat \ {0}, i <= Len(q)
  PROVE  i <= NumPendingRequests(q, sent) <=> Settled + i \in sent
<1>1. Len(q) \in Nat
  BY LenProperties
<1>2. SentPrefix(q, sent) = 1..NumPendingRequests(q, sent)
      /\ NumPendingRequests(q, sent) \in Nat
  BY NumPendingType
<1>3. ASSUME i <= NumPendingRequests(q, sent) PROVE Settled + i \in sent
  <2>1. i \in SentPrefix(q, sent)
    BY <1>2, <1>3
  <2>2. q[i] \in sent
    BY <2>1 DEF SentPrefix
  <2> QED
    BY <1>1, <2>2 DEF Numbered
<1>4. ASSUME Settled + i \in sent PROVE i <= NumPendingRequests(q, sent)
  <2>1. ASSUME NEW j \in 1..i PROVE q[j] \in sent
    <3>1. Settled + j \in (Settled + 1)..(Settled + i) /\ j \in 1..Len(q)
      BY <1>1
    <3>2. Settled + j \in sent
      BY <1>4, <3>1 DEF SentContiguous
    <3> QED
      BY <3>1, <3>2 DEF Numbered
  <2>2. i \in SentPrefix(q, sent)
    BY <1>1, <2>1 DEF SentPrefix
  <2> QED
    BY <1>2, <2>2
<1> QED
  BY <1>3, <1>4

-----------------------------------------------------------------------------
(* Each action preserves the invariant *)

LEMMA InitQueueInv == Init => QueueInv
<1> SUFFICES ASSUME Init PROVE QueueInv
  OBVIOUS
<1>1. IInv
  BY InitIInv
<1>2. Pending = <<>> /\ sent = {} /\ Len(<<>>) = 0
  BY EmptySeq, ConcatEmptySeq DEF Init, Pending
<1> QED
  BY <1>1, <1>2 DEF QueueInv, Numbered, SentSeen, SentContiguous, UnpipelinedFirst,
                    WithinClientLimit

\* Steps that leave the queues and the marks alone.
LEMMA QueueUntouched ==
  ASSUME QueueInv, IInv', UNCHANGED <<shared, sent, history>>
  PROVE  QueueInv'
BY DEF QueueInv, Numbered, SentSeen, SentContiguous, UnpipelinedFirst, WithinClientLimit,
       Settled, Pending, shared, history

\* New requests have the next numbers, and are not sent yet.
LEMMA NewRequestQueue ==
  ASSUME QueueInv, NEW k \in 1..MaxOutstanding, NewRequest(k), IInv'
  PROVE  QueueInv'
<1> DEFINE batch == [i \in 1..k |-> Len(accepted) + i]
<1>1. k \in Nat
  BY HttpClientAssumption
<1>2. batch \in Seq(Req) /\ Len(batch) = k /\ \A i \in 1..k : batch[i] = Len(accepted) + i
  BY BatchType DEF QueueInv, IInv
<1>3. /\ newReqs' = newReqs \o batch /\ reqQueue' = reqQueue
      /\ UNCHANGED <<sent, completed, returned>>
  BY DEF NewRequest, request
<1> HIDE DEF batch
<1>4. Settled' = Settled
  BY <1>3 DEF Settled
<1>5. Pending' = Pending \o batch
  <2>1. reqQueue \in Seq(Req) /\ newReqs \in Seq(Req) /\ batch \in Seq(Req)
    BY <1>2, QueueTypes DEF QueueInv
  <2>2. (reqQueue \o newReqs) \o batch = reqQueue \o (newReqs \o batch)
    BY <2>1, ReqConcatAssoc, Zenon
  <2> QED
    BY <1>3, <2>2 DEF Pending
<1>6. Numbered(Pending)'
  <2>1. /\ Len(Pending \o batch) = Len(Pending) + k /\ Len(Pending) \in Nat
        /\ \A i \in 1..(Len(Pending) + k) :
             (Pending \o batch)[i] =
                IF i <= Len(Pending) THEN Pending[i] ELSE batch[i - Len(Pending)]
    <3>1. Pending \in Seq(Req) /\ Len(Pending) \in Nat
      BY QueueTypes, LenProperties DEF QueueInv
    <3>2. /\ Len(Pending \o batch) = Len(Pending) + Len(batch)
          /\ \A i \in 1..(Len(Pending) + Len(batch)) :
               (Pending \o batch)[i] =
                  IF i <= Len(Pending) THEN Pending[i] ELSE batch[i - Len(Pending)]
      BY <1>2, <3>1, ConcatProperties
    <3> QED
      BY <1>2, <3>1, <3>2
  <2>2. Len(accepted) = Settled + Len(Pending) /\ Settled \in Nat
    BY AcceptedLength, QueueTypes DEF QueueInv
  <2>3. ASSUME NEW i \in 1..(Len(Pending) + k) PROVE (Pending \o batch)[i] = Settled + i
    <3>1. CASE i <= Len(Pending)
      BY <2>1, <3>1 DEF QueueInv, Numbered
    <3>2. CASE ~(i <= Len(Pending))
      <4>1. i - Len(Pending) \in 1..k
        BY <1>1, <2>1, <3>2
      <4> QED
        BY <1>2, <2>1, <2>2, <3>2, <4>1
    <3> QED
      BY <3>1, <3>2
  <2> QED
    BY <1>4, <1>5, <2>1, <2>3 DEF Numbered
<1>7. SentSeen' /\ SentContiguous' /\ UnpipelinedFirst' /\ WithinClientLimit'
  BY <1>3, <1>4 DEF QueueInv, SentSeen, SentContiguous, UnpipelinedFirst, WithinClientLimit
<1> QED
  BY <1>6, <1>7 DEF QueueInv

\* After the queues have been handed back every sent request is settled.
LEMMA ClearUnfinishedRequestsQueue ==
  ASSUME QueueInv, ClearUnfinishedRequests, IInv'
  PROVE  QueueInv'
<1>1. CASE Fail("clearUnfinished") \/ Fail("eventfd")
  BY <1>1, QueueUntouched DEF Fail, request
<1>2. CASE ~Fail("clearUnfinished") /\ ~Fail("eventfd")
  <2>1. /\ returned' = returned \o Pending /\ completed' = completed
        /\ newReqs' = <<>> /\ reqQueue' = <<>> /\ sent' = sent
    BY <1>2 DEF ClearUnfinishedRequests, Unfinished, request
  <2>2. /\ Settled \in Nat /\ Len(Pending) \in Nat /\ Len(reqQueue) <= Len(Pending)
        /\ sent \subseteq Nat /\ Len(reqQueue) \in Nat
        /\ returned \in Seq(Req) /\ Pending \in Seq(Req)
    <3>1. returned \in Seq(Req)
      BY DEF QueueInv, IInv, TypeOK
    <3>2. /\ Settled \in Nat /\ Pending \in Seq(Req) /\ sent \subseteq Nat
          /\ Len(reqQueue) \in Nat /\ Len(newReqs) \in Nat
          /\ Len(Pending) = Len(reqQueue) + Len(newReqs)
      BY QueueTypes DEF QueueInv
    <3> QED
      BY <3>1, <3>2
  <2>3. Settled' = Settled + Len(Pending)
    <3>1. Len(returned \o Pending) = Len(returned) + Len(Pending)
      BY <2>2, ConcatProperties
    <3> QED
      BY <2>1, <3>1, QueueTypes, LenProperties DEF Settled, QueueInv
  <2>4. Len(reqQueue') = 0 /\ Pending' = <<>>
    BY <2>1, EmptySeq, ConcatEmptySeq DEF Pending
  <2>5. \A r \in sent : r <= Settled' /\ r \in Nat
    BY <2>2, <2>3 DEF QueueInv, SentSeen
  <2>6. Settled' \in Nat
    BY <2>2, <2>3
  <2>7. Numbered(Pending)'
    BY <2>4, EmptySeq DEF Numbered
  <2>8. SentSeen'
    BY <2>1, <2>4, <2>5, <2>6 DEF SentSeen
  <2>9. SentContiguous'
    <3> DEFINE t == Settled + Len(Pending)
    <3>1. ASSUME NEW r \in sent, NEW x \in (t + 1)..r PROVE x \in sent
      <4>1. r \in Nat /\ r <= t /\ t \in Nat
        BY <2>2, <2>3, <2>5
      <4> HIDE DEF t
      <4> QED
        BY <4>1
    <3>2. Settled' = t
      BY <2>3
    <3> HIDE DEF t
    <3> QED
      BY <2>1, <3>1, <3>2 DEF SentContiguous
  <2>10. UnpipelinedFirst' /\ WithinClientLimit'
    BY <2>1, <2>5, <2>6, HttpClientAssumption DEF UnpipelinedFirst, WithinClientLimit
  <2> QED
    BY <2>7, <2>8, <2>9, <2>10 DEF QueueInv
<1> QED
  BY <1>1, <1>2

\* requeuePendingRequests() unmarks the last of the pending requests.
LEMMA RequeueFacts ==
  ASSUME QueueInv, NEW numAllowed \in Nat
  PROVE  LET s == RequeuePendingRequests(numAllowed)
         IN  s \subseteq sent /\ \A r \in s : \A x \in (Settled + 1)..r : x \in s
<1> DEFINE n == NumPendingRequests(reqQueue, sent)
           s == RequeuePendingRequests(numAllowed)
<1>1. /\ reqQueue \in Seq(Req) /\ Len(reqQueue) \in Nat /\ Settled \in Nat
      /\ sent \subseteq Nat
  BY QueueTypes DEF QueueInv
<1>2. Numbered(reqQueue)
  <2>1. /\ Len(Pending) = Len(reqQueue) + Len(newReqs) /\ Len(newReqs) \in Nat
        /\ \A i \in 1..Len(reqQueue) : Pending[i] = reqQueue[i]
    <3>1. /\ newReqs \in Seq(Req) /\ Len(newReqs) \in Nat
          /\ Len(Pending) = Len(reqQueue) + Len(newReqs)
      BY QueueTypes DEF QueueInv
    <3>2. \A i \in 1..(Len(reqQueue) + Len(newReqs)) :
            Pending[i] = IF i <= Len(reqQueue) THEN reqQueue[i] ELSE newReqs[i - Len(reqQueue)]
      BY <1>1, <3>1, ConcatProperties DEF Pending
    <3> QED
      BY <1>1, <3>1, <3>2
  <2> QED
    BY <1>1, <2>1 DEF QueueInv, Numbered
<1>3. n \in Nat /\ n <= Len(reqQueue)
  BY <1>1, NumPendingType
<1>4. \A i \in 1..Len(reqQueue) : i <= n <=> Settled + i \in sent
  BY <1>1, <1>2, PendingAreSent DEF QueueInv
<1>5. s = sent \ {reqQueue[i] : i \in (numAllowed + 1)..n}
  BY DEF RequeuePendingRequests
<1> HIDE DEF n, s
<1>6. ASSUME NEW r \in s, NEW x \in (Settled + 1)..r PROVE x \in s
  <2>1. r \in sent /\ r \in Nat /\ r <= Settled + Len(reqQueue)
    BY <1>1, <1>5, <1>6 DEF QueueInv, SentSeen
  <2>2. x \in sent
    BY <1>6, <2>1 DEF QueueInv, SentContiguous
  <2>3. ASSUME NEW i \in (numAllowed + 1)..n, x = reqQueue[i] PROVE FALSE
    <3> DEFINE j == r - Settled
    <3>1. i \in 1..Len(reqQueue) /\ x = Settled + i
      BY <1>1, <1>2, <1>3, <2>3 DEF Numbered
    <3>2. j \in 1..Len(reqQueue) /\ Settled + j = r /\ i <= j
      BY <1>1, <1>6, <2>1, <3>1
    <3>3. j <= n
      BY <1>4, <2>1, <3>2
    <3>4. j \in (numAllowed + 1)..n /\ reqQueue[j] = r
      BY <1>2, <1>3, <2>3, <3>2, <3>3 DEF Numbered
    <3> QED
      BY <1>5, <1>6, <3>4
  <2> QED
    BY <1>5, <2>2, <2>3
<1> QED
  BY <1>5, <1>6 DEF s

\* A completion settles the first request; the rest moves up.
LEMMA ProcessNewDataQueue ==
  ASSUME QueueInv, ProcessNewData, IInv'
  PROVE  QueueInv'
<1> DEFINE r == Head(reqQueue)
           d == ParseData(r, recvBuf)
           first == d.hdr.kind = "hdr" /\ ~aHdrReceived
           remaining == IF first THEN RemainingAfterFirst(d.hdr.max)
                        ELSE keepAliveMaxRemaining
           done == IsCompleted(r, d.hdr, d.pld)
           Failed == \/ Fail("noRequest") \/ Fail("firstHeader")
                     \/ Fail("keepAliveMismatch") \/ Fail("trailingBytes")
                     \/ Fail("notConstructed")
<1>1. CASE Failed
  BY <1>1, QueueUntouched DEF Fail, request
<1>2. CASE ~Failed
  <2>1. /\ reqQueue # <<>>
        /\ sent' = IF first THEN RequeuePendingRequests(remaining + 1) ELSE sent
        /\ keepAliveMaxRemaining' = remaining
        /\ reqQueue' = IF done THEN Tail(reqQueue) ELSE reqQueue
        /\ completed' = IF done THEN Append(completed, r) ELSE completed
        /\ UNCHANGED <<newReqs, returned>>
    BY <1>2, Zenon DEF ProcessNewData
  <2> HIDE DEF r, d, first, remaining, done, Failed
  <2>2. /\ reqQueue \in Seq(Req) /\ newReqs \in Seq(Req) /\ Pending \in Seq(Req)
        /\ Len(reqQueue) \in Nat /\ Len(newReqs) \in Nat /\ Settled \in Nat
        /\ Len(Pending) = Len(reqQueue) + Len(newReqs)
        /\ Len(completed) \in Nat /\ Len(returned) \in Nat /\ sent \subseteq Nat
    BY QueueTypes DEF QueueInv
  <2>3. remaining + 1 \in Nat
    BY <2>1 DEF IInv, TypeOK
  <2>4. sent' \subseteq sent /\ \A y \in sent' : \A x \in (Settled + 1)..y : x \in sent'
    <3>1. CASE first
      BY <2>1, <2>3, <3>1, RequeueFacts
    <3>2. CASE ~first
      BY <2>1, <3>2 DEF QueueInv, SentContiguous
    <3> QED
      BY <3>1, <3>2
  <2>5. ASSUME \/ Settled' = Settled + 1 /\ Len(reqQueue') = Len(reqQueue) - 1
               \/ Settled' = Settled /\ Len(reqQueue') = Len(reqQueue)
        PROVE  SentSeen' /\ SentContiguous' /\ UnpipelinedFirst' /\ WithinClientLimit'
    <3>1. \A y \in sent' : y \in sent /\ y \in Nat
      BY <2>2, <2>4
    <3>2. SentSeen'
      BY <2>2, <2>5, <3>1 DEF QueueInv, SentSeen
    <3>3. SentContiguous'
      BY <2>2, <2>4, <2>5, <3>1 DEF SentContiguous
    <3>4. UnpipelinedFirst'
      BY <2>2, <2>5, <3>1 DEF QueueInv, UnpipelinedFirst
    <3>5. WithinClientLimit'
      <4>1. MaxPendingRequests \in Nat
        BY HttpClientAssumption
      <4> QED
        BY <2>2, <2>5, <3>1, <4>1 DEF QueueInv, WithinClientLimit
    <3> QED
      BY <3>2, <3>3, <3>4, <3>5
  <2>6. CASE ~done
    <3>1. Settled' = Settled /\ Pending' = Pending /\ reqQueue' = reqQueue
      BY <2>1, <2>6 DEF Settled, Pending
    <3>2. Numbered(Pending)'
      BY <3>1 DEF QueueInv, Numbered
    <3> QED
      BY <2>5, <3>1, <3>2 DEF QueueInv
  <2>7. CASE done
    <3>1. completed' = Append(completed, r) /\ reqQueue' = Tail(reqQueue)
      BY <2>1, <2>7
    <3>2. Settled' = Settled + 1
      <4>1. Len(Append(completed, r)) = Len(completed) + 1
        <5>1. completed \in Seq(Req) /\ r \in Req
          BY <2>1, <2>2, HeadTailProperties DEF QueueInv, IInv, TypeOK, r
        <5> QED
          BY <5>1, AppendProperties
      <4> QED
        BY <2>1, <2>2, <3>1, <4>1 DEF Settled
    <3>3. Len(reqQueue') = Len(reqQueue) - 1
      BY <2>1, <2>2, <3>1, HeadTailProperties
    <3>4. Pending' = Tail(Pending) /\ Pending # <<>>
      <4>1. Tail(reqQueue \o newReqs) = Tail(reqQueue) \o newReqs
        BY <2>1, <2>2, HeadTailOfConcat
      <4>2. reqQueue \o newReqs # <<>>
        BY <2>1, <2>2, ConcatEqualIffEmpty
      <4> QED
        BY <2>1, <3>1, <4>1, <4>2 DEF Pending
    <3>5. Numbered(Pending)'
      <4>1. /\ Len(Tail(Pending)) = Len(Pending) - 1
            /\ \A i \in 1..Len(Tail(Pending)) : Tail(Pending)[i] = Pending[i + 1]
        BY <2>2, <3>4, HeadTailProperties
      <4>2. \A i \in 1..Len(Pending) : Pending[i] = Settled + i
        BY DEF QueueInv, Numbered
      <4>3. ASSUME NEW i \in 1..Len(Tail(Pending))
            PROVE  Tail(Pending)[i] = (Settled + 1) + i
        <5>1. i + 1 \in 1..Len(Pending)
          BY <2>2, <4>1
        <5> QED
          BY <2>2, <4>1, <4>2, <5>1
      <4> QED
        BY <3>2, <3>4, <4>3 DEF Numbered
    <3> QED
      BY <2>5, <3>2, <3>3, <3>5 DEF QueueInv
  <2> QED
    BY <2>6, <2>7
<1> QED
  BY <1>1, <1>2

\* The requests started are those behind the pending ones, and each may start.
LEMMA CheckStartNewRequestsQueue ==
  ASSUME QueueInv, CheckStartNewRequests, IInv'
  PROVE  QueueInv'
<1> DEFINE n == NumPendingRequests(Pending, sent)
           m == NumToStart(Pending, n)
           batch == SubSeq(Pending, n + 1, n + m)
           S == {k \in 1..(Len(Pending) - n) : \A j \in 1..k : MayStart(Pending, n, j)}
<1>1. CASE Fail("eventfd") \/ Fail("clientLimit") \/ Fail("write")
  BY <1>1, QueueUntouched DEF Fail, request
<1>2. CASE ~Fail("eventfd") /\ ~Fail("clientLimit") /\ ~Fail("write")
  <2>1. /\ newReqs' = <<>> /\ reqQueue' = Pending
        /\ sent' = sent \cup {batch[i] : i \in 1..m}
        /\ UNCHANGED <<completed, returned>>
    BY <1>2 DEF CheckStartNewRequests, history
  <2>2. /\ Pending \in Seq(Req) /\ Len(Pending) \in Nat /\ Settled \in Nat
        /\ Len(reqQueue) \in Nat /\ Len(newReqs) \in Nat
        /\ Len(Pending) = Len(reqQueue) + Len(newReqs)
        /\ sent \subseteq Nat /\ MaxPendingRequests \in Nat
    BY QueueTypes, LenProperties DEF QueueInv
  <2>3. n \in Nat /\ n <= Len(Pending)
    BY <2>2, NumPendingType
  <2>4. /\ m \in Nat /\ n + m <= Len(Pending)
        /\ \A j \in 1..m : MayStart(Pending, n, j)
    <3>1. S \in SUBSET (1..(Len(Pending) - n)) /\ Len(Pending) - n \in Nat
      BY <2>2, <2>3
    <3>2. \A i \in S : \A j \in 1..i : j \in S
      <4> HIDE DEF n
      <4> SUFFICES ASSUME NEW i \in S, NEW j \in 1..i PROVE j \in S
        OBVIOUS
      <4>1. j \in 1..(Len(Pending) - n) /\ \A k \in 1..j : k \in 1..i
        BY <2>2, <2>3
      <4> QED
        BY <4>1
    <3>3. /\ Cardinality(S) \in Nat /\ S = 1..Cardinality(S)
          /\ Cardinality(S) <= Len(Pending) - n
      <4> HIDE DEF S, n
      <4> QED
        BY <3>1, <3>2, PrefixIsInterval
    <3>4. m = Cardinality(S)
      BY DEF NumToStart
    <3>5. ASSUME NEW j \in S PROVE MayStart(Pending, n, j)
      <4> HIDE DEF n
      <4>1. j \in 1..j
        BY <2>2, <2>3
      <4> QED
        BY <4>1
    <3> HIDE DEF S, n, m
    <3> QED
      BY <2>2, <2>3, <3>3, <3>4, <3>5
  <2>5. \A i \in Nat \ {0} : i <= Len(Pending) => (i <= n <=> Settled + i \in sent)
    BY <2>2, PendingAreSent DEF QueueInv
  <2> HIDE DEF n, m, S
  <2>6. \A i \in 1..m : batch[i] = Settled + (n + i)
    <3>1. n + 1 \in 1..(Len(Pending) + 1) /\ n + m \in 0..Len(Pending)
      BY <2>2, <2>3, <2>4
    <3>2. ASSUME NEW i \in 1..m PROVE batch[i] = Pending[n + i]
      BY <2>2, <2>3, <2>4
    <3>3. \A i \in 1..m : n + i \in 1..Len(Pending)
      BY <2>2, <2>3, <2>4
    <3> QED
      BY <3>2, <3>3 DEF QueueInv, Numbered
  <2> HIDE DEF batch
  <2>7. Settled' = Settled /\ Pending' = Pending /\ Len(reqQueue') = Len(Pending)
    BY <2>1, <2>2, ConcatEmptySeq DEF Settled, Pending
  <2>8. Numbered(Pending)'
    BY <2>7 DEF QueueInv, Numbered
  <2>9. \A r \in sent' : r \in sent \/ \E i \in 1..m : r = Settled + (n + i)
    BY <2>1, <2>6
  <2>10. SentSeen'
    <3> SUFFICES ASSUME NEW r \in sent' PROVE r <= Settled + Len(Pending)
      BY <2>7 DEF SentSeen
    <3>1. CASE r \in sent
      BY <2>2, <3>1 DEF QueueInv, SentSeen
    <3>2. ASSUME NEW i \in 1..m, r = Settled + (n + i) PROVE r <= Settled + Len(Pending)
      BY <2>2, <2>3, <2>4, <3>2
    <3> QED
      BY <2>9, <3>1, <3>2
  <2>11. SentContiguous'
    <3> SUFFICES ASSUME NEW r \in sent', NEW x \in (Settled + 1)..r PROVE x \in sent'
      BY <2>7 DEF SentContiguous
    <3>1. CASE r \in sent
      <4>1. x \in sent
        BY <3>1 DEF QueueInv, SentContiguous
      <4> QED
        BY <2>1, <4>1
    <3>2. ASSUME NEW i \in 1..m, r = Settled + (n + i) PROVE x \in sent'
      <4> DEFINE j == x - Settled
      <4>1. j \in Nat \ {0} /\ j <= n + i /\ x = Settled + j /\ i \in Nat
        BY <2>2, <2>3, <2>4, <3>2
      <4> HIDE DEF j
      <4>2. CASE j <= n
        <5>1. x \in sent
          <6>1. j <= Len(Pending)
            BY <2>2, <2>3, <4>1, <4>2
          <6> QED
            BY <2>5, <4>1, <4>2, <6>1
        <5> QED
          BY <2>1, <5>1
      <4>3. CASE ~(j <= n)
        <5>1. j - n \in 1..m
          BY <2>3, <2>4, <3>2, <4>1, <4>3
        <5>2. x = batch[j - n]
          BY <2>2, <2>3, <2>6, <4>1, <5>1
        <5> QED
          BY <2>1, <5>1, <5>2
      <4> QED
        BY <4>2, <4>3
    <3> QED
      BY <2>9, <3>1, <3>2
  <2>12. UnpipelinedFirst'
    <3> SUFFICES ASSUME NEW r \in sent', r \in Unpipelined PROVE r <= Settled + 1
      BY <2>7 DEF UnpipelinedFirst
    <3>1. CASE r \in sent
      BY <3>1 DEF QueueInv, UnpipelinedFirst
    <3>2. ASSUME NEW i \in 1..m, r = Settled + (n + i) PROVE r <= Settled + 1
      <4>1. n + i \in 1..Len(Pending)
        BY <2>2, <2>3, <2>4
      <4>2. Pending[n + i] = r
        BY <3>2, <4>1 DEF QueueInv, Numbered
      <4>3. n + i = 1
        BY <2>4, <4>2 DEF MayStart
      <4> QED
        BY <2>2, <3>2, <4>3
    <3> QED
      BY <2>9, <3>1, <3>2
  <2>13. WithinClientLimit'
    <3> SUFFICES ASSUME MaxPendingRequests > 0, NEW r \in sent'
                 PROVE  r <= Settled + MaxPendingRequests
      BY <2>7 DEF WithinClientLimit
    <3>1. CASE r \in sent
      BY <3>1 DEF QueueInv, WithinClientLimit
    <3>2. ASSUME NEW i \in 1..m, r = Settled + (n + i)
          PROVE  r <= Settled + MaxPendingRequests
      <4>1. n + i <= MaxPendingRequests
        BY <2>4 DEF MayStart
      <4> QED
        BY <2>2, <2>3, <2>4, <3>2, <4>1
    <3> QED
      BY <2>9, <3>1, <3>2
  <2> QED
    BY <2>8, <2>10, <2>11, <2>12, <2>13 DEF QueueInv
<1> QED
  BY <1>1, <1>2

LEMMA NextQueueInv == QueueInv /\ [Next]_vars => QueueInv'
<1> SUFFICES ASSUME QueueInv, [Next]_vars PROVE QueueInv'
  OBVIOUS
<1>1. IInv'
  BY NextIInv DEF QueueInv
<1>2. CASE ControlThread
  <2>1. CASE Construct \/ Terminate \/ Destroy
    BY <1>1, <2>1, QueueUntouched DEF Construct, Terminate, Destroy, Fail, request, history
  <2>2. CASE \E k \in 1..MaxOutstanding : NewRequest(k)
    BY <1>1, <2>2, NewRequestQueue
  <2>3. CASE ClearUnfinishedRequests
    BY <1>1, <2>3, ClearUnfinishedRequestsQueue
  <2> QED
    BY <1>2, <2>1, <2>2, <2>3 DEF ControlThread
<1>3. CASE HttpThread
  <2>1. CASE Connect \/ ConnectTimeout \/ LeaveLoop \/ WaitForEvents \/ Read
              \/ ReportDisconnect
    BY <1>1, <2>1, QueueUntouched
       DEF Connect, ConnectTimeout, LeaveLoop, WaitForEvents, Read, ReportDisconnect, Fail,
           request, history
  <2>2. CASE ProcessNewData
    BY <1>1, <2>2, ProcessNewDataQueue
  <2>3. CASE CheckStartNewRequests
    BY <1>1, <2>3, CheckStartNewRequestsQueue
  <2> QED
    BY <1>3, <2>1, <2>2, <2>3 DEF HttpThread
<1>4. CASE Server
  BY <1>1, <1>4, QueueUntouched DEF Server, Answer, FinArrives, request
<1>5. CASE UNCHANGED vars
  BY <1>1, <1>5, QueueUntouched DEF vars, request
<1> QED
  BY <1>2, <1>3, <1>4, <1>5 DEF Next

-----------------------------------------------------------------------------
(* The theorems *)

LEMMA QueueInvariance == Spec => []QueueInv
BY InitQueueInv, NextQueueInv, PTL DEF Spec

\* Whatever is spliced, requeued, completed and accepted meanwhile, no sent
\* request stands behind one that is not: counting to the first unsent request
\* counts all pending ones.
THEOREM SentFirst == Spec => []SentRequestsComeFirst
<1>1. QueueInv => SentRequestsComeFirst
  <2> SUFFICES ASSUME QueueInv, NEW i \in 1..Len(Pending), NEW j \in 1..Len(Pending),
                      i < j, Pending[j] \in sent
               PROVE  Pending[i] \in sent
    BY DEF SentRequestsComeFirst
  <2>1. Pending[i] = Settled + i /\ Pending[j] = Settled + j /\ Settled \in Nat
    BY QueueTypes DEF QueueInv, Numbered
  <2>2. Settled + i \in (Settled + 1)..(Settled + j)
    BY <2>1
  <2> QED
    BY <2>1, <2>2 DEF QueueInv, SentContiguous
<1> QED
  BY <1>1, QueueInvariance, PTL

\* The client's own limits are kept for every workload: no request that must
\* not be pipelined is pending behind another one, and never more requests
\* are pending than the connection allows.
THEOREM ClientLimits == Spec => []ClientLimitsRespected
<1>1. QueueInv => ClientLimitsRespected
  <2> SUFFICES ASSUME QueueInv PROVE ClientLimitsRespected
    OBVIOUS
  <2> DEFINE n == NumPendingRequests(Pending, sent)
  <2>1. /\ Pending \in Seq(Req) /\ Settled \in Nat /\ Len(Pending) \in Nat
        /\ MaxPendingRequests \in Nat
    BY QueueTypes, LenProperties DEF QueueInv
  <2>2. n \in Nat /\ n <= Len(Pending)
    BY <2>1, NumPendingType
  <2>3. \A i \in Nat \ {0} : i <= Len(Pending) => (i <= n <=> Settled + i \in sent)
    BY <2>1, PendingAreSent DEF QueueInv
  <2> HIDE DEF n
  <2>4. ASSUME NEW j \in 2..n, Pending[j] \in Unpipelined PROVE FALSE
    <3>1. j \in 1..Len(Pending) /\ j \in Nat \ {0} /\ j <= n /\ j <= Len(Pending)
      BY <2>1, <2>2
    <3>2. Pending[j] = Settled + j
      BY <3>1 DEF QueueInv, Numbered
    <3>3. Settled + j \in sent
      BY <2>3, <3>1
    <3> QED
      BY <2>1, <2>2, <2>4, <3>2, <3>3 DEF QueueInv, UnpipelinedFirst
  <2>5. ASSUME MaxPendingRequests > 0 PROVE n <= MaxPendingRequests
    <3>1. CASE n = 0
      BY <2>1, <3>1
    <3>2. CASE n # 0
      <4>1. Settled + n \in sent
        BY <2>2, <2>3, <3>2
      <4> QED
        BY <2>1, <2>2, <2>5, <4>1 DEF QueueInv, WithinClientLimit
    <3> QED
      BY <3>1, <3>2
  <2> QED
    BY <2>4, <2>5 DEF ClientLimitsRespected, n
<1> QED
  BY <1>1, QueueInvariance, PTL

-----------------------------------------------------------------------------
(* The connection *)

\* Where the thread is in a round of its loop.
Rounds == {"select", "read", "process", "start"}

\* What has arrived and is not processed.
Stream == recvBuf \o inbox

\* The server closes with its last answer, and a connection begins with nothing.
ServerFacts ==
  /\ served <= ServerLimit /\ (served = ServerLimit => closing)
  /\ pc = "connect" =>
       /\ tcp = "closed" /\ sent = {} /\ wire = <<>> /\ served = 0 /\ inbox = <<>>
       /\ ~aHdrReceived
  /\ pc \in Rounds => tcp = "established" \/ closing
  /\ pc # "process" => recvBuf = <<>>

\* What the two invariants below have in common.
BaseInv == QueueInv /\ Len(Pending) <= MaxOutstanding /\ ServerFacts

\* Steps that neither send nor receive.
Quiet ==
  /\ Stream' = Stream /\ Len(Pending') <= MaxOutstanding
  /\ closing' = closing \/ closing' = TRUE
  /\ UNCHANGED <<served, hdr, pldBytesReceived, completed, sent, limits>>
  /\ wire' = wire \/ (wire' = <<>> /\ tcp' # "established")
  /\ tcp' = "established" => tcp = "established"
  /\ tcp' = tcp \/ closing' \/ pc' = "destroyed"
  /\ pc' # "connect" \/ UNCHANGED <<pc, tcp, wire, inbox>>
  /\ pc' \in Rounds => pc \in Rounds
  /\ pc' # "process" => recvBuf' = <<>>

\* Counting an interval.
LEMMA CountOf == ASSUME NEW n \in Nat PROVE Cardinality(1..n) = n
BY FS_Interval

\* The stream is the buffer, and behind it what can be read.
LEMMA StreamType ==
  ASSUME TypeOK
  PROVE  /\ Stream \in Seq(Unit) /\ Len(Stream) = Len(recvBuf) + Len(inbox)
         /\ Len(recvBuf) \in Nat /\ Len(inbox) \in Nat /\ Len(Stream) \in Nat
         /\ \A i \in 1..Len(recvBuf) : Stream[i] = recvBuf[i]
         /\ \A i \in 1..Len(inbox) : Stream[Len(recvBuf) + i] = inbox[i]
<1>1. recvBuf \in Seq(Unit) /\ inbox \in Seq(Unit)
  BY DEF TypeOK
<1>2. Len(recvBuf) \in Nat /\ Len(inbox) \in Nat
  BY <1>1, LenProperties
<1>3. /\ Stream \in Seq(Unit) /\ Len(Stream) = Len(recvBuf) + Len(inbox)
      /\ \A i \in 1..Len(recvBuf) + Len(inbox) :
           Stream[i] = IF i <= Len(recvBuf) THEN recvBuf[i] ELSE inbox[i - Len(recvBuf)]
  BY <1>1, ConcatProperties DEF Stream
<1>4. \A i \in 1..Len(recvBuf) : Stream[i] = recvBuf[i]
  BY <1>2, <1>3
<1>5. ASSUME NEW i \in 1..Len(inbox) PROVE Stream[Len(recvBuf) + i] = inbox[i]
  <2> DEFINE j == Len(recvBuf) + i
  <2>1. j \in 1..Len(recvBuf) + Len(inbox) /\ ~(j <= Len(recvBuf)) /\ j - Len(recvBuf) = i
    BY <1>2
  <2> HIDE DEF j
  <2>2. Stream[j] = inbox[i]
    BY <1>3, <2>1
  <2> QED
    BY <2>2 DEF j
<1> QED
  BY <1>2, <1>3, <1>4, <1>5

\* The constants, as the lemmas use them.
LEMMA ConstantFacts ==
  /\ NumReqs \in Nat /\ ServerLimit \in Nat \ {0} /\ MaxOutstanding \in Nat /\ Req \subseteq Nat
  /\ KnownLimit \in {-1, ServerLimit} /\ MaxPendingRequests \in Nat
  /\ \A r \in Req : Payload[r] \in Nat /\ BodyOf(r) \in Nat
  /\ \A r \in Req : r >= 1
BY HttpClientAssumption DEF Req, BodyOf

\* The types of what the invariant speaks of.
LEMMA BaseTypes ==
  ASSUME BaseInv
  PROVE  /\ TypeOK /\ Stream \in Seq(Unit) /\ Len(Stream) \in Nat
         /\ served \in Nat /\ Len(wire) \in Nat /\ wire \in Seq(Req)
         /\ Len(completed) \in Nat /\ completed \in Seq(Req)
         /\ keepAliveMaxRemaining \in Nat \cup {-1} /\ closing \in BOOLEAN
         /\ pldBytesReceived \in [Req -> Nat] /\ hdr \in [Req -> Unit]
<1>1. TypeOK
  BY DEF BaseInv, QueueInv, IInv
<1>2. Len(wire) \in Nat /\ Len(completed) \in Nat
  BY <1>1, LenProperties DEF TypeOK
<1> QED
  BY <1>1, <1>2, StreamType DEF TypeOK

\* A failed assertion, or nothing.
LEMMA FailQuiet ==
  ASSUME BaseInv, NEW where, Fail(where) \/ UNCHANGED vars
  PROVE  Quiet
<1>1. /\ UNCHANGED <<served, hdr, pldBytesReceived, completed, sent, limits, wire, tcp, pc, inbox,
                     recvBuf, closing, reqQueue, newReqs>>
  BY DEF Fail, vars, shared, request, thread, network, history
<1>2. Stream' = Stream /\ Pending' = Pending
  BY <1>1 DEF Stream, Pending
<1> QED
  BY <1>1, <1>2 DEF Quiet, BaseInv, ServerFacts

\* The control thread, and the steps of the thread before and after the rounds.
LEMMA ControlQuiet ==
  ASSUME BaseInv, QueueInv', ControlThread
  PROVE  Quiet
<1>1. /\ Len(Pending) <= MaxOutstanding /\ closing \in BOOLEAN
      /\ pc # "process" => recvBuf = <<>>
  BY BaseTypes DEF BaseInv, ServerFacts
<1>2. CASE Construct \/ Terminate
  <2>1. /\ UNCHANGED <<served, hdr, pldBytesReceived, completed, sent, limits, wire, tcp, pc, inbox,
                       recvBuf, closing, reqQueue, newReqs>>
    BY <1>2 DEF Construct, Terminate, shared, request, thread, network, history
  <2>2. Stream' = Stream /\ Pending' = Pending
    BY <2>1 DEF Stream, Pending
  <2> QED
    BY <1>1, <2>1, <2>2 DEF Quiet, Rounds
<1>3. CASE Destroy
  <2>1. CASE Pending # <<>>
    BY <1>3, <2>1, FailQuiet DEF Destroy
  <2>2. CASE Pending = <<>>
    <3>1. /\ UNCHANGED <<served, hdr, pldBytesReceived, completed, sent, limits, wire, inbox,
                         recvBuf, closing, reqQueue, newReqs>>
          /\ pc = "done" /\ pc' = "destroyed" /\ tcp' = "closed"
      BY <1>3, <2>2 DEF Destroy, shared, request, history
    <3>2. Stream' = Stream /\ Pending' = Pending
      BY <3>1 DEF Stream, Pending
    <3> QED
      BY <1>1, <3>1, <3>2 DEF Quiet, Rounds
  <2> QED
    BY <2>1, <2>2
<1>4. CASE ClearUnfinishedRequests
  <2>1. CASE Fail("clearUnfinished") \/ Fail("eventfd")
    BY <2>1, FailQuiet
  <2>2. CASE ~(Fail("clearUnfinished") \/ Fail("eventfd"))
    <3>1. /\ UNCHANGED <<served, hdr, pldBytesReceived, completed, sent, limits, wire, tcp, pc, inbox,
                         recvBuf, closing>>
          /\ newReqs' = <<>> /\ reqQueue' = <<>>
      BY <1>4, <2>2 DEF ClearUnfinishedRequests, request, thread, network
    <3>2. Stream' = Stream /\ Pending' = <<>>
      BY <3>1, EmptySeq, ConcatEmptySeq DEF Stream, Pending
    <3>3. Len(Pending') <= MaxOutstanding
      BY <3>2, EmptySeq, ConstantFacts
    <3> QED
      BY <1>1, <3>1, <3>2, <3>3 DEF Quiet, Rounds
  <2> QED
    BY <2>1, <2>2
<1>5. CASE \E k \in 1..MaxOutstanding : NewRequest(k)
  <2> SUFFICES ASSUME NEW k \in 1..MaxOutstanding, NewRequest(k) PROVE Quiet
    BY <1>5
  <2>1. /\ UNCHANGED <<served, hdr, pldBytesReceived, completed, returned, sent, limits, wire, tcp,
                       pc, inbox, recvBuf, closing>>
        /\ accepted' = accepted \o [i \in 1..k |-> Len(accepted) + i]
        /\ Len(Pending) + k <= MaxOutstanding
    BY DEF NewRequest, request, thread, network
  <2>2. Stream' = Stream
    BY <2>1 DEF Stream
  <2>3. Len(accepted') = Len(accepted) + k
    <3> DEFINE batch == [i \in 1..k |-> Len(accepted) + i]
    <3>1. batch \in Seq(Req) /\ Len(batch) = k
      BY BatchType, BaseTypes
    <3>2. accepted \in Seq(Req)
      BY BaseTypes DEF TypeOK
    <3> HIDE DEF batch
    <3>3. Len(accepted \o batch) = Len(accepted) + Len(batch)
      BY <3>1, <3>2, ConcatProperties
    <3> QED
      BY <2>1, <3>1, <3>3 DEF batch
  <2>4. Len(Pending') = Len(Pending) + k
    <3>1. Len(accepted) = Settled + Len(Pending) /\ Settled \in Nat /\ Pending \in Seq(Req)
      BY AcceptedLength, QueueTypes DEF BaseInv, QueueInv
    <3>5. (IInv => Len(accepted) = Settled + Len(Pending) /\ Pending \in Seq(Req))'
      BY AcceptedLength, QueueTypes, PTL
    <3>2. Len(accepted') = Settled' + Len(Pending') /\ Pending' \in Seq(Req)
      BY <3>5 DEF QueueInv
    <3>3. Settled' = Settled
      BY <2>1 DEF Settled
    <3>4. Len(Pending) \in Nat /\ Len(Pending') \in Nat
      BY <3>1, <3>2, LenProperties
    <3> QED
      BY <2>3, <3>1, <3>2, <3>3, <3>4
  <2>5. Len(Pending') <= MaxOutstanding
    BY <2>1, <2>4
  <2> QED
    BY <1>1, <2>1, <2>2, <2>5 DEF Quiet, Rounds
<1> QED
  BY <1>2, <1>3, <1>4, <1>5 DEF ControlThread

\* The steps of the thread that only move it on, and the end of the connection.
LEMMA ThreadQuiet ==
  ASSUME BaseInv, QueueInv',
         ConnectTimeout \/ LeaveLoop \/ WaitForEvents \/ ReportDisconnect \/ FinArrives
  PROVE  Quiet
<1>1. /\ Len(Pending) <= MaxOutstanding /\ closing \in BOOLEAN
      /\ pc # "process" => recvBuf = <<>>
      /\ tcp = "established" => pc # "connect"
  BY BaseTypes DEF BaseInv, ServerFacts
<1>2. CASE ConnectTimeout \/ LeaveLoop \/ WaitForEvents
  <2>1. /\ UNCHANGED <<served, hdr, pldBytesReceived, completed, sent, limits, wire, tcp, inbox,
                       recvBuf, closing, reqQueue, newReqs>>
        /\ pc \in {"connect", "select"} /\ pc' \in {"disconnect", "done", "read", "start"}
        /\ pc' \in {"read", "start"} => pc = "select"
    BY <1>2 DEF ConnectTimeout, LeaveLoop, WaitForEvents, shared, request, network, history
  <2>2. Stream' = Stream /\ Pending' = Pending
    BY <2>1 DEF Stream, Pending
  <2> QED
    BY <1>1, <2>1, <2>2 DEF Quiet, Rounds
<1>3. CASE ReportDisconnect
  <2>1. CASE Fail("reportDisconnect")
    BY <2>1, FailQuiet
  <2>2. CASE ~Fail("reportDisconnect")
    <3>1. /\ UNCHANGED <<served, hdr, pldBytesReceived, completed, sent, limits, wire, tcp, inbox,
                         recvBuf, closing, reqQueue, newReqs>>
          /\ pc = "disconnect" /\ pc' = "done"
      BY <1>3, <2>2 DEF ReportDisconnect, shared, request, network, history
    <3>2. Stream' = Stream /\ Pending' = Pending
      BY <3>1 DEF Stream, Pending
    <3> QED
      BY <1>1, <3>1, <3>2 DEF Quiet, Rounds
  <2> QED
    BY <2>1, <2>2
<1>4. CASE FinArrives
  <2>1. /\ UNCHANGED <<served, hdr, pldBytesReceived, completed, sent, limits, pc, inbox,
                       recvBuf, reqQueue, newReqs>>
        /\ tcp = "established" /\ tcp' = "closeWait" /\ closing' = TRUE /\ wire' = <<>>
    BY <1>4 DEF FinArrives, shared, request, thread, history
  <2>2. Stream' = Stream /\ Pending' = Pending
    BY <2>1 DEF Stream, Pending
  <2> QED
    BY <1>1, <2>1, <2>2 DEF Quiet, Rounds
<1> QED
  BY <1>2, <1>3, <1>4

\* What arrives is read, in parts.
LEMMA ReadQuiet ==
  ASSUME BaseInv, QueueInv', Read
  PROVE  Quiet
<1>1. /\ UNCHANGED <<served, hdr, pldBytesReceived, completed, sent, limits, wire, tcp,
                     closing, reqQueue, newReqs>>
      /\ pc = "read" /\ recvBuf = <<>> /\ pc' \in {"process", "disconnect"}
      /\ Len(Pending) <= MaxOutstanding /\ closing \in BOOLEAN /\ inbox \in Seq(Unit)
  BY BaseTypes DEF BaseInv, ServerFacts, Read, shared, request, history, TypeOK
<1>2. Pending' = Pending
  BY <1>1 DEF Pending
<1>3. recvBuf' \o inbox' = inbox /\ (pc' # "process" => recvBuf' = <<>>)
  <2>1. CASE inbox = <<>> /\ UNCHANGED <<recvBuf, inbox>>
    BY <1>1, <2>1, EmptySeq, ConcatEmptySeq
  <2>2. ASSUME NEW n \in 1..Len(inbox), recvBuf' = SubSeq(inbox, 1, n),
               inbox' = SubSeq(inbox, n + 1, Len(inbox)), pc' = "process"
        PROVE  recvBuf' \o inbox' = inbox /\ pc' = "process"
    <3> DEFINE a == SubSeq(inbox, 1, n)
               b == SubSeq(inbox, n + 1, Len(inbox))
    <3>1. Len(inbox) \in Nat /\ n \in Nat /\ n <= Len(inbox)
      BY <1>1, LenProperties
    <3>2. a \in Seq(Unit) /\ Len(a) = n /\ \A i \in 1..n : a[i] = inbox[i]
      BY <1>1, <3>1, SubSeqProperties
    <3>3. /\ b \in Seq(Unit) /\ Len(b) = Len(inbox) - n
          /\ \A i \in 1..Len(inbox) - n : b[i] = inbox[n + i]
      BY <1>1, <3>1, SubSeqProperties
    <3> HIDE DEF a, b
    <3>4. /\ a \o b \in Seq(Unit) /\ Len(a \o b) = Len(a) + Len(b)
          /\ \A i \in 1..Len(a) + Len(b) : (a \o b)[i] = IF i <= Len(a) THEN a[i] ELSE b[i - Len(a)]
      BY <3>2, <3>3, ConcatProperties
    <3>5. Len(a \o b) = Len(inbox)
      BY <3>1, <3>2, <3>3, <3>4
    <3>6. ASSUME NEW i \in 1..Len(inbox) PROVE (a \o b)[i] = inbox[i]
      <4>1. CASE i <= n
        BY <3>1, <3>2, <3>3, <3>4, <4>1
      <4>2. CASE i > n
        <5>1. i - n \in 1..Len(inbox) - n /\ n + (i - n) = i /\ ~(i <= n)
          BY <3>1, <4>2
        <5>2. b[i - n] = inbox[n + (i - n)]
          BY <3>3, <5>1
        <5> QED
          BY <3>1, <3>2, <3>3, <3>4, <5>1, <5>2
      <4>3. i <= n \/ i > n
        BY <3>1
      <4> QED
        BY <4>1, <4>2, <4>3
    <3>7. a \o b = inbox
      BY <1>1, <3>4, <3>5, <3>6, SeqEqual
    <3> QED
      BY <2>2, <3>7 DEF a, b
  <2> QED
    BY <1>1, <2>1, <2>2 DEF Read
<1>4. Stream' = Stream
  BY <1>1, <1>3, EmptySeq, ConcatEmptySeq DEF Stream
<1> QED
  BY <1>1, <1>2, <1>3, <1>4 DEF Quiet, Rounds

\* A step of the server that answers.
Answers ==
  wire # <<>> /\ \E close \in BOOLEAN, units \in 0..BodyOf(Head(wire)) : Answer(close, units)

\* The steps that are looked at one by one.
LEMMA QuietOrNot ==
  ASSUME BaseInv, QueueInv', [Next]_vars
  PROVE  Quiet \/ Connect \/ ProcessNewData \/ CheckStartNewRequests \/ Answers
<1>1. CASE ControlThread
  BY <1>1, ControlQuiet
<1>2. CASE HttpThread
  BY <1>2, ThreadQuiet, ReadQuiet DEF HttpThread
<1>3. CASE Server
  BY <1>3, ThreadQuiet DEF Server, Answers
<1>4. CASE UNCHANGED vars
  BY <1>4, FailQuiet
<1> QED
  BY <1>1, <1>2, <1>3, <1>4 DEF Next

\* The queue does not grow when a request completes.
LEMMA CompletionShortens ==
  ASSUME BaseInv, QueueInv', Len(completed') \in Nat, Len(completed') >= Len(completed),
         UNCHANGED <<accepted, returned>>
  PROVE  Len(Pending') <= MaxOutstanding
<1>1. /\ Len(accepted) = Settled + Len(Pending) /\ Pending \in Seq(Req)
      /\ Len(returned) \in Nat /\ Len(completed) \in Nat
  BY AcceptedLength, QueueTypes DEF BaseInv, QueueInv
<1>2. (IInv => Len(accepted) = Settled + Len(Pending) /\ Pending \in Seq(Req))'
  BY AcceptedLength, QueueTypes, PTL
<1>3. Len(accepted') = Settled' + Len(Pending') /\ Pending' \in Seq(Req)
  BY <1>2 DEF QueueInv
<1>4. Len(Pending) \in Nat /\ Len(Pending') \in Nat
  BY <1>1, <1>3, LenProperties
<1>5. Settled' = Len(completed') + Len(returned) /\ Settled = Len(completed) + Len(returned)
  BY DEF Settled
<1> QED
  BY <1>1, <1>3, <1>4, <1>5, ConstantFacts DEF BaseInv

\* Every step keeps what is known of the connection.
LEMMA NextBase ==
  ASSUME BaseInv, QueueInv', [Next]_vars
  PROVE  BaseInv'
<1>1. CASE Quiet
  <2>1. ServerFacts'
    BY <1>1 DEF Quiet, BaseInv, ServerFacts, Rounds, limits
  <2> QED
    BY <1>1, <2>1 DEF Quiet, BaseInv
<1>2. CASE Connect
  <2>1. /\ pc = "connect" /\ pc' = "select" /\ tcp' = "established"
        /\ UNCHANGED <<served, closing, recvBuf, reqQueue, newReqs>>
    BY <1>2 DEF Connect, shared
  <2>2. ServerFacts' /\ Pending' = Pending
    BY <2>1 DEF BaseInv, ServerFacts, Pending
  <2> QED
    BY <2>2 DEF BaseInv
<1>3. CASE Answers
  <2> SUFFICES ASSUME wire # <<>>, NEW close \in BOOLEAN, NEW units \in 0..BodyOf(Head(wire)),
                      Answer(close, units)
               PROVE  BaseInv'
    BY <1>3 DEF Answers
  <2>1. /\ ~closing /\ tcp = "established" /\ served' = served + 1
        /\ served + 1 = ServerLimit => closing'
        /\ UNCHANGED <<reqQueue, newReqs, recvBuf, tcp, pc>>
    BY DEF Answer, shared, thread
  <2>2. ServerFacts'
    BY <2>1, BaseTypes, ConstantFacts DEF BaseInv, ServerFacts
  <2>3. Pending' = Pending
    BY <2>1 DEF Pending
  <2> QED
    BY <2>2, <2>3 DEF BaseInv
<1>4. CASE ProcessNewData
  <2> DEFINE r == Head(reqQueue)
             d == ParseData(r, recvBuf)
             rest == SubSeq(recvBuf, d.parsed + 1, Len(recvBuf))
             done == IsCompleted(r, d.hdr, d.pld)
             Failed == \E where : Fail(where)
  <2>1. CASE Failed
    BY <1>1, <2>1, FailQuiet
  <2>2. CASE ~Failed
    <3>1. /\ pc = "process" /\ pc' \in {"process", "start", "select"} /\ recvBuf' = rest
          /\ pc' # "process" => rest = <<>>
          /\ completed' = IF done THEN Append(completed, r) ELSE completed
          /\ reqQueue # <<>>
          /\ UNCHANGED <<served, closing, tcp, accepted, returned>>
      BY <1>4, <2>2, Zenon DEF ProcessNewData, network
    <3> HIDE DEF r, rest, done, Failed
    <3>2. ServerFacts'
      BY <3>1 DEF BaseInv, ServerFacts, Rounds
    <3>3. Len(completed') \in Nat /\ Len(completed') >= Len(completed)
      <4>1. r \in Req
        <5>1. reqQueue \in Seq(Req)
          BY QueueTypes DEF BaseInv, QueueInv
        <5> QED
          BY <3>1, <5>1, HeadTailProperties DEF r
      <4>2. Len(Append(completed, r)) = Len(completed) + 1 /\ Len(completed) \in Nat
        BY <4>1, BaseTypes, AppendProperties
      <4> QED
        BY <3>1, <4>2
    <3> QED
      BY <3>1, <3>2, <3>3, CompletionShortens DEF BaseInv
  <2> QED
    BY <2>1, <2>2
<1>5. CASE CheckStartNewRequests
  <2>1. CASE Fail("eventfd") \/ Fail("clientLimit") \/ Fail("write")
    BY <1>1, <2>1, FailQuiet
  <2>2. CASE ~(Fail("eventfd") \/ Fail("clientLimit") \/ Fail("write"))
    <3>1. /\ pc = "start" /\ pc' = "select" /\ newReqs' = <<>> /\ reqQueue' = Pending
          /\ UNCHANGED <<served, closing, tcp, recvBuf>>
      BY <1>5, <2>2 DEF CheckStartNewRequests
    <3>2. ServerFacts'
      BY <3>1 DEF BaseInv, ServerFacts, Rounds
    <3>3. Pending' = Pending
      BY <3>1, QueueTypes, ConcatEmptySeq DEF Pending, BaseInv, QueueInv
    <3> QED
      BY <3>2, <3>3 DEF BaseInv
  <2> QED
    BY <2>1, <2>2
<1> QED
  BY <1>1, <1>2, <1>3, <1>4, <1>5, QuietOrNot

\* So does the beginning.
LEMMA InitBase == Init => BaseInv
<1> SUFFICES ASSUME Init PROVE BaseInv
  OBVIOUS
<1>1. QueueInv
  BY InitQueueInv
<1>2. Pending = <<>> /\ Len(<<>>) = 0
  BY EmptySeq, ConcatEmptySeq DEF Init, Pending
<1> QED
  BY <1>1, <1>2, ConstantFacts DEF Init, BaseInv, ServerFacts, Rounds

-----------------------------------------------------------------------------
(* The requests that are sent *)

\* How many requests are marked as sent.
NumSent == Cardinality(sent)

\* No more than n requests are ever pending.
FewPending(n) ==
  \/ MaxOutstanding <= n
  \/ MaxPendingRequests > 0 /\ MaxPendingRequests <= n
  \/ Unpipelined = Req

\* n requests are pending, and the m behind them, the batch, may be sent.
Starting(n, m, batch) ==
  /\ n = NumPendingRequests(Pending, sent) /\ m = NumToStart(Pending, n)
  /\ batch = SubSeq(Pending, n + 1, n + m)

\* The requests in the thread's own queue are numbered as well.
LEMMA QueueNumbered == QueueInv => Numbered(reqQueue)
<1> SUFFICES ASSUME QueueInv PROVE Numbered(reqQueue)
  OBVIOUS
<1>1. /\ reqQueue \in Seq(Req) /\ newReqs \in Seq(Req)
      /\ Len(reqQueue) \in Nat /\ Len(newReqs) \in Nat
      /\ Len(Pending) = Len(reqQueue) + Len(newReqs)
  BY QueueTypes DEF QueueInv
<1>2. \A i \in 1..(Len(reqQueue) + Len(newReqs)) :
        Pending[i] = IF i <= Len(reqQueue) THEN reqQueue[i] ELSE newReqs[i - Len(reqQueue)]
  BY <1>1, ConcatProperties DEF Pending
<1> QED
  BY <1>1, <1>2 DEF QueueInv, Numbered

\* At first the pending requests are those that have been sent.
LEMMA SentArePending ==
  ASSUME QueueInv, Settled = 0, NumSent \in Nat, sent = 1..NumSent
  PROVE  NumPendingRequests(reqQueue, sent) = NumSent /\ NumSent <= Len(reqQueue)
<1> DEFINE p == NumPendingRequests(reqQueue, sent)
<1>1. reqQueue \in Seq(Req) /\ Len(reqQueue) \in Nat
  BY QueueTypes DEF QueueInv
<1>2. p \in Nat /\ p <= Len(reqQueue)
  BY <1>1, NumPendingType
<1>3. ASSUME NEW i \in Nat \ {0}, i <= Len(reqQueue) PROVE i <= p <=> i \in sent
  <2>1. i <= p <=> Settled + i \in sent
    BY <1>1, <1>3, QueueNumbered, PendingAreSent DEF QueueInv
  <2> QED
    BY <1>3, <2>1
<1> HIDE DEF p
<1>4. NumSent <= Len(reqQueue)
  <2>1. CASE NumSent = 0
    BY <1>1, <2>1
  <2>2. CASE NumSent # 0
    <3>1. NumSent \in sent
      BY <2>2
    <3> QED
      BY <1>1, <3>1 DEF QueueInv, SentSeen
  <2> QED
    BY <2>1, <2>2
<1>5. p >= NumSent
  <2>1. NumSent # 0 => NumSent \in sent
    OBVIOUS
  <2> QED
    BY <1>2, <1>3, <1>4, <2>1
<1>6. p <= NumSent
  <2>1. p # 0 => p \in sent
    BY <1>2, <1>3
  <2> QED
    BY <1>2, <2>1
<1> QED
  BY <1>2, <1>4, <1>5, <1>6 DEF p

\* The request at the front is the next one, and nothing has been handed back.
LEMMA FrontRequest ==
  ASSUME QueueInv, reqQueue # <<>>, NEW r, r = Head(reqQueue)
  PROVE  /\ r \in Req /\ r = Settled + 1 /\ Settled = Len(completed) /\ returned = <<>>
         /\ Len(completed) \in Nat
<1>1. /\ reqQueue \in Seq(Req) /\ newReqs \in Seq(Req) /\ Len(reqQueue) \in Nat
      /\ Len(completed) \in Nat
  BY QueueTypes DEF QueueInv
<1>2. returned = <<>>
  <2>1. Pending # <<>>
    BY <1>1, ConcatEqualIffEmpty DEF Pending
  <2> QED
    BY <2>1 DEF QueueInv, IInv, HandedBackLast
<1>3. r \in Req /\ r = reqQueue[1] /\ 1 \in 1..Len(reqQueue)
  BY <1>1, HeadTailProperties, EmptySeq
<1>4. r = Settled + 1
  BY <1>3, QueueNumbered DEF Numbered
<1> QED
  BY <1>1, <1>2, <1>3, <1>4, EmptySeq DEF Settled

\* No more requests are pending than the smallest of the limits.
LEMMA PendingAreFew ==
  ASSUME BaseInv, Settled = 0, NumSent \in Nat, sent = 1..NumSent,
         NumSent <= Len(reqQueue), NEW n \in Nat \ {0}, FewPending(n)
  PROVE  NumSent <= n
<1>1. /\ Len(reqQueue) \in Nat /\ Len(newReqs) \in Nat
      /\ Len(Pending) = Len(reqQueue) + Len(newReqs) /\ Len(Pending) <= MaxOutstanding
      /\ MaxOutstanding \in Nat /\ MaxPendingRequests \in Nat
  BY QueueTypes, ConstantFacts DEF BaseInv, QueueInv
<1>2. CASE MaxOutstanding <= n
  BY <1>1, <1>2
<1>3. CASE NumSent = 0
  BY <1>3
<1>4. CASE NumSent # 0
  <2>1. NumSent \in sent
    BY <1>4
  <2>2. CASE MaxPendingRequests > 0 /\ MaxPendingRequests <= n
    BY <1>1, <2>1, <2>2 DEF BaseInv, QueueInv, WithinClientLimit
  <2>3. CASE Unpipelined = Req
    <3>1. NumSent \in Unpipelined
      BY <2>1, <2>3 DEF BaseInv, QueueInv, IInv, TypeOK
    <3> QED
      BY <2>1, <3>1 DEF BaseInv, QueueInv, UnpipelinedFirst
  <2> QED
    BY <1>2, <2>2, <2>3 DEF FewPending
<1> QED
  BY <1>3, <1>4

\* What checkStartNewRequests() finds it may send: the requests behind the pending
\* ones, as far as each of them may start.
LEMMA StartFacts ==
  ASSUME QueueInv, NEW n, NEW m, NEW batch, Starting(n, m, batch)
  PROVE  /\ n \in Nat /\ m \in Nat /\ n + m <= Len(Pending)
         /\ \A j \in 1..m : MayStart(Pending, n, j)
         /\ \A i \in Nat \ {0} : i <= Len(Pending) => (i <= n <=> Settled + i \in sent)
         /\ batch \in Seq(Req) /\ Len(batch) = m
         /\ \A i \in 1..m : batch[i] = Settled + (n + i)
<1> DEFINE S == {k \in 1..(Len(Pending) - n) : \A j \in 1..k : MayStart(Pending, n, j)}
<1>1. Pending \in Seq(Req) /\ Len(Pending) \in Nat /\ Settled \in Nat
  BY QueueTypes, LenProperties DEF QueueInv
<1>2. n \in Nat /\ n <= Len(Pending)
  BY <1>1, NumPendingType DEF Starting
<1>3. m \in Nat /\ n + m <= Len(Pending) /\ \A j \in 1..m : MayStart(Pending, n, j)
  <2>1. S \in SUBSET (1..(Len(Pending) - n)) /\ Len(Pending) - n \in Nat
    BY <1>1, <1>2
  <2>2. ASSUME NEW i \in S, NEW j \in 1..i PROVE j \in S
    <3>1. j \in 1..(Len(Pending) - n) /\ \A k \in 1..j : k \in 1..i
      BY <1>1, <1>2, <2>2
    <3> QED
      BY <2>2, <3>1
  <2>3. m = Cardinality(S)
    BY DEF NumToStart, Starting
  <2>4. ASSUME NEW j \in S PROVE MayStart(Pending, n, j)
    <3>1. j \in 1..j
      BY <1>1, <1>2
    <3> QED
      BY <2>4, <3>1
  <2> HIDE DEF S
  <2>5. /\ Cardinality(S) \in Nat /\ S = 1..Cardinality(S)
        /\ Cardinality(S) <= Len(Pending) - n
    BY <2>1, <2>2, PrefixIsInterval
  <2> QED
    BY <1>1, <1>2, <2>3, <2>4, <2>5
<1>4. \A i \in Nat \ {0} : i <= Len(Pending) => (i <= n <=> Settled + i \in sent)
  BY <1>1, PendingAreSent DEF QueueInv, Starting
<1>5. batch \in Seq(Req) /\ Len(batch) = m /\ \A i \in 1..m : batch[i] = Settled + (n + i)
  <2>1. n + 1 \in 1..(Len(Pending) + 1) /\ n + m \in 0..Len(Pending)
    BY <1>1, <1>2, <1>3
  <2>2. /\ batch \in Seq(Req) /\ Len(batch) = m
        /\ \A i \in 1..m : batch[i] = Pending[n + i]
    <3>1. batch = SubSeq(Pending, n + 1, n + m)
      BY DEF Starting
    <3> QED
      BY <1>1, <1>2, <1>3, <2>1, <3>1, SubSeqProperties
  <2>3. \A i \in 1..m : n + i \in 1..Len(Pending)
    BY <1>1, <1>2, <1>3
  <2> QED
    BY <2>2, <2>3 DEF QueueInv, Numbered
<1> QED
  BY <1>2, <1>3, <1>4, <1>5

\* What the batch adds to the requests that are sent.
LEMMA SentGrows ==
  ASSUME QueueInv, NEW n, NEW m, NEW batch, Starting(n, m, batch), m > 0,
         NEW N \in Nat, N = NumSent, sent = 1..N, Settled <= N,
         sent' = sent \cup {batch[i] : i \in 1..m}
  PROVE  /\ \A i \in 1..m : batch[i] = N + i
         /\ sent' = 1..(N + m) /\ NumSent' = N + m
<1>1. /\ n \in Nat /\ m \in Nat /\ n + m <= Len(Pending)
      /\ \A i \in Nat \ {0} : i <= Len(Pending) => (i <= n <=> Settled + i \in sent)
      /\ \A i \in 1..m : batch[i] = Settled + (n + i)
  BY StartFacts
<1>2. Settled \in Nat /\ Len(Pending) \in Nat
  BY QueueTypes, LenProperties DEF QueueInv
<1>3. Settled + n = N
  <2>1. n + 1 \in Nat \ {0} /\ n + 1 <= Len(Pending) /\ ~(n + 1 <= n) /\ n <= Len(Pending)
    BY <1>1, <1>2
  <2>2. Settled + (n + 1) \notin sent /\ (n # 0 => Settled + n \in sent)
    BY <1>1, <2>1
  <2>3. ~(Settled + (n + 1) <= N) /\ (n # 0 => Settled + n <= N)
    BY <1>1, <1>2, <2>2
  <2>4. CASE n = 0
    BY <1>2, <2>3, <2>4
  <2>5. CASE n # 0
    BY <1>1, <1>2, <2>3, <2>5
  <2> QED
    BY <2>4, <2>5
<1>4. ASSUME NEW i \in 1..m PROVE batch[i] = N + i
  <2>1. batch[i] = Settled + (n + i) /\ i \in Nat
    BY <1>1
  <2> QED
    BY <1>1, <1>2, <1>3, <2>1
<1>5. sent' = 1..(N + m)
  <2>1. ASSUME NEW x \in sent' PROVE x \in 1..(N + m)
    BY <1>1, <1>4
  <2>2. ASSUME NEW x \in 1..(N + m) PROVE x \in sent'
    <3>1. CASE x <= N
      BY <3>1
    <3>2. CASE x > N
      <4>1. x - N \in 1..m /\ N + (x - N) = x
        BY <1>1, <3>2
      <4>2. batch[x - N] = x
        BY <1>4, <4>1
      <4> QED
        BY <4>1, <4>2
    <3> QED
      BY <1>1, <3>1, <3>2
  <2> QED
    BY <2>1, <2>2
<1>6. NumSent' = N + m
  <2>1. N + m \in Nat
    BY <1>1
  <2> QED
    BY <1>5, <2>1, CountOf DEF NumSent
<1> QED
  BY <1>4, <1>5, <1>6

\* What the server sends stands behind what it has sent before.
LEMMA AnswerArrives ==
  ASSUME BaseInv, wire # <<>>,
         NEW close \in BOOLEAN, NEW units \in 0..BodyOf(Head(wire)), Answer(close, units)
  PROVE  /\ Len(Stream') = Len(Stream) + 1 + units
         /\ \A i \in 1..Len(Stream) : Stream'[i] = Stream[i]
         /\ Stream'[Len(Stream) + 1] = Header(Head(wire), close, ServerLimit - served - 1)
         /\ \A i \in 1..units : Stream'[Len(Stream) + 1 + i] = Body(Head(wire))
<1> DEFINE q == Head(wire)
           h == Header(q, close, ServerLimit - served - 1)
           body == [i \in 1..units |-> Body(q)]
<1>1. /\ q \in Req /\ q \in Nat /\ BodyOf(q) \in Nat /\ served \in Nat /\ ServerLimit \in Nat
      /\ recvBuf' = recvBuf /\ recvBuf \in Seq(Unit) /\ inbox \in Seq(Unit)
      /\ Len(Stream) \in Nat
  BY BaseTypes, ConstantFacts, HeadTailProperties DEF Answer, thread, TypeOK
<1>2. units \in 0..BodyOf(q) /\ units \in Nat
  BY <1>1
<1>3. inbox' = (inbox \o <<h>>) \o body
  BY DEF Answer
<1>4. h \in Unit /\ Body(q) \in Unit
  <2>1. ServerLimit - served - 1 \in Int /\ q \in 0..NumReqs /\ Payload[q] \in Nat
    BY <1>1, ConstantFacts DEF Req
  <2> QED
    BY <2>1 DEF Header, Body, Unit
<1>5. body \in Seq(Unit) /\ Len(body) = units /\ \A i \in 1..units : body[i] = Body(q)
  BY <1>2, <1>4
<1> HIDE DEF body, h, q
<1>6. ASSUME NEW n \in Nat, n = Len(Stream)
      PROVE  /\ Len(Stream') = n + 1 + units
             /\ \A i \in 1..n : Stream'[i] = Stream[i]
             /\ Stream'[n + 1] = h
             /\ \A i \in 1..units : Stream'[n + 1 + i] = Body(q)
  <2> DEFINE B == Stream
             A == B \o <<h>>
  <2>1. recvBuf \in Seq(Unit) /\ inbox \in Seq(Unit) /\ <<h>> \in Seq(Unit)
        /\ B \in Seq(Unit) /\ n \in Nat /\ n = Len(B) /\ B = recvBuf \o inbox
    BY <1>1, <1>4, <1>6, BaseTypes DEF Stream
  <2>2. Stream' = recvBuf \o ((inbox \o <<h>>) \o body)
    BY <1>1, <1>3 DEF Stream
  <2> HIDE DEF B
  <2>3. inbox \o <<h>> \in Seq(Unit)
    BY <2>1, ConcatProperties
  <2>4. recvBuf \o ((inbox \o <<h>>) \o body) = (recvBuf \o (inbox \o <<h>>)) \o body
    <3> DEFINE mid == inbox \o <<h>>
    <3>1. mid \in Seq(Unit) /\ body \in Seq(Unit) /\ recvBuf \in Seq(Unit)
      BY <1>5, <2>1, <2>3
    <3> HIDE DEF mid
    <3>2. recvBuf \o (mid \o body) = (recvBuf \o mid) \o body
      BY <3>1, ConcatAssociative
    <3> QED
      BY <3>2 DEF mid
  <2>5. recvBuf \o (inbox \o <<h>>) = A
    BY <2>1, ConcatAssociative
  <2>6. Stream' = A \o body
    BY <2>2, <2>4, <2>5
  <2>7. A \in Seq(Unit) /\ Len(A) = n + 1 /\ (\A i \in 1..n : A[i] = B[i]) /\ A[n + 1] = h
    <3>1. Len(<<h>>) = 1 /\ <<h>>[1] = h
      OBVIOUS
    <3>2. /\ A \in Seq(Unit) /\ Len(A) = n + 1
          /\ \A i \in 1..n + 1 : A[i] = IF i <= n THEN B[i] ELSE <<h>>[i - n]
      BY <2>1, <3>1, ConcatProperties
    <3>3. n + 1 \in 1..n + 1 /\ ~(n + 1 <= n) /\ n + 1 - n = 1
      BY <2>1
    <3> QED
      BY <2>1, <3>1, <3>2, <3>3
  <2> HIDE DEF A
  <2>8. /\ A \o body \in Seq(Unit) /\ Len(A \o body) = Len(A) + Len(body)
         /\ \A i \in 1..Len(A) + Len(body) :
              (A \o body)[i] = IF i <= Len(A) THEN A[i] ELSE body[i - Len(A)]
    BY <1>5, <2>7, ConcatProperties
  <2>9. /\ Len(A \o body) = n + 1 + units
        /\ \A i \in 1..n + 1 + units :
             (A \o body)[i] = IF i <= n + 1 THEN A[i] ELSE body[i - (n + 1)]
    BY <1>5, <2>7, <2>8
  <2>10. \A i \in 1..(n + 1) : (A \o body)[i] = A[i]
    BY <1>2, <2>1, <2>9
  <2>11. ASSUME NEW i \in 1..units PROVE (A \o body)[n + 1 + i] = body[i]
    <3>1. n + 1 + i \in 1..n + 1 + units /\ ~(n + 1 + i <= n + 1) /\ n + 1 + i - (n + 1) = i
      BY <1>2, <2>1
    <3> DEFINE j == n + 1 + i
    <3>2. j \in 1..n + 1 + units /\ ~(j <= n + 1) /\ j - (n + 1) = i
      BY <3>1
    <3> HIDE DEF j
    <3>3. (A \o body)[j] = body[i]
      BY <2>9, <3>2
    <3> QED
      BY <3>3 DEF j
  <2>12. n + 1 \in 1..(n + 1) /\ \A i \in 1..n : i \in 1..(n + 1)
    BY <2>1
  <2>13. /\ \A i \in 1..n : (A \o body)[i] = B[i]
         /\ (A \o body)[n + 1] = h
         /\ \A i \in 1..units : (A \o body)[n + 1 + i] = Body(q)
    BY <1>5, <2>7, <2>10, <2>11, <2>12
  <2> QED
    BY <2>6, <2>9, <2>13 DEF B
<1> QED
  BY <1>1, <1>6 DEF q, h

-----------------------------------------------------------------------------
(* The stream of answers *)

\* h is the header the server has sent for request q, its q-th.
IsHeader(h, q) ==
  /\ h.close \in BOOLEAN /\ h = Header(q, h.close, ServerLimit - q)
  /\ q = ServerLimit => h.close
  /\ h.close => closing /\ served = q

\* At position p of the stream begins the answer to request q, if there is one.
AnswerDue(p, q) ==
  /\ p <= Len(Stream) => q <= served /\ IsHeader(Stream[p], q)
  /\ p > Len(Stream) => served = q - 1
  /\ p > Len(Stream) + 1 => closing

\* Behind position p, where the header of the answer to q is, or would be if it had not
\* been processed, come the body and the next answer.
AnswerFrom(p, q) ==
  /\ q <= served
  /\ \A k \in 1..BodyOf(q) : p + k \in 1..Len(Stream) => Stream[p + k] = Body(q)
  /\ AnswerDue(p + BodyOf(q) + 1, q + 1)

\* The request that is being answered.
Current == Len(completed) + 1

\* Its header has been processed.
Begun == Current \in Req /\ hdr[Current].kind = "hdr"

\* Every answer in the stream is followed by the next, and the stream begins with the rest
\* of the one that is being processed.
StreamInOrder ==
  /\ \A i \in 1..Len(Stream), q \in Req :
       Stream[i].kind = "hdr" /\ Stream[i].req = q => AnswerFrom(i, q)
  /\ \A q \in Req, n \in Nat :
       Begun /\ q = Current /\ n = pldBytesReceived[q] => AnswerFrom(-n, q)
  /\ \A q \in Nat : ~Begun /\ q = Current => AnswerDue(1, q)

\* What has been received of the answers, request by request.
AnswersInOrder ==
  /\ \A i \in 1..Len(completed) : completed[i] = i
  /\ \A r \in Req :
       /\ hdr[r].kind = "hdr" => IsHeader(hdr[r], r)
       /\ r < Current => hdr[r].kind = "hdr"
       /\ r > Current => hdr[r].kind = "none"
       /\ ~aHdrReceived => hdr[r].kind = "none"
  /\ Begun => pldBytesReceived[Current] < BodyOf(Current)

\* The server reads the requests in the order of their numbers.
WireInOrder == \A i \in 1..Len(wire) : wire[i] = served + i

\* The marks tell what has been sent, unless the limit is used up.
MarksAreRight ==
  ~aHdrReceived \/ keepAliveMaxRemaining # 0 =>
    /\ sent = 1..NumSent /\ NumSent \in Nat /\ served <= NumSent
    /\ tcp = "established" => NumSent = served + Len(wire)

\* What the counter says of the limit.
RemainingIsRight ==
  /\ ~aHdrReceived => keepAliveMax = KnownLimit
  /\ aHdrReceived => keepAliveMax # -1
  /\ keepAliveMax # -1 => keepAliveMax = ServerLimit
  /\ keepAliveMax # -1 /\ pc \in Rounds =>
       /\ keepAliveMaxRemaining # 0 => keepAliveMaxRemaining = ServerLimit - NumSent
       /\ keepAliveMaxRemaining = 0 /\ tcp = "established" => served + Len(wire) >= ServerLimit

\* The stream invariant.
StreamParts ==
  WireInOrder /\ MarksAreRight /\ RemainingIsRight /\ AnswersInOrder /\ StreamInOrder

StreamInv == BaseInv /\ StreamParts

\* The requests the first answer unmarks, if it leaves a remaining one, are on the wire
\* and would be sent twice.
NoneSentTwice == ServerLimit <= 3 \/ FewPending((ServerLimit + 1) \div 2)

\* The fields of a header.
LEMMA HeaderFacts ==
  ASSUME NEW h, NEW q \in Req, IsHeader(h, q)
  PROVE  /\ h.kind = "hdr" /\ h.req = q /\ h.length = Payload[q] /\ h.close \in BOOLEAN
         /\ h.max = IF h.close THEN -1 ELSE ServerLimit - q
BY DEF IsHeader, Header

\* The types of what the stream invariant speaks of.
LEMMA StreamFacts ==
  ASSUME StreamInv
  PROVE  /\ TypeOK /\ Stream \in Seq(Unit) /\ Len(Stream) \in Nat
         /\ served \in Nat /\ Len(wire) \in Nat /\ wire \in Seq(Req)
         /\ Len(completed) \in Nat /\ completed \in Seq(Req)
         /\ Current \in Nat \ {0} /\ Current = Len(completed) + 1
         /\ keepAliveMaxRemaining \in Nat \cup {-1} /\ closing \in BOOLEAN
         /\ pldBytesReceived \in [Req -> Nat] /\ hdr \in [Req -> Unit]
BY BaseTypes DEF StreamInv, Current

\* Answers are in order as long as the same is received, or read.
LEMMA StreamStays ==
  ASSUME StreamInv, Stream' = Stream, closing => closing', closing' \in BOOLEAN,
         UNCHANGED <<served, hdr, pldBytesReceived, completed, aHdrReceived>>
  PROVE  AnswersInOrder' /\ StreamInOrder'
<1>1. Current' = Current /\ Begun' = Begun
  BY DEF Current, Begun
<1>2. ASSUME NEW h, NEW q, IsHeader(h, q) PROVE IsHeader(h, q)'
  BY <1>2 DEF IsHeader
<1>3. ASSUME NEW p, NEW q, AnswerDue(p, q) PROVE AnswerDue(p, q)'
  BY <1>2, <1>3 DEF AnswerDue
<1>4. ASSUME NEW p, NEW q, AnswerFrom(p, q) PROVE AnswerFrom(p, q)'
  BY <1>3, <1>4 DEF AnswerFrom
<1>5. AnswersInOrder'
  BY <1>1, <1>2 DEF StreamInv, StreamParts, AnswersInOrder
<1>6. StreamInOrder'
  BY <1>1, <1>3, <1>4 DEF StreamInv, StreamParts, StreamInOrder
<1> QED
  BY <1>5, <1>6

\* Steps that neither send nor receive keep the stream in order.
LEMMA QuietStream ==
  ASSUME StreamInv, Quiet, BaseInv'
  PROVE  StreamInv'
<1>6. closing' \in BOOLEAN /\ (closing => closing')
  <2>1. closing \in BOOLEAN
    BY StreamFacts
  <2>2. closing' = closing \/ closing' = TRUE
    BY DEF Quiet
  <2> QED
    BY <2>1, <2>2, Zenon
<1>7. /\ Stream' = Stream
      /\ UNCHANGED <<served, hdr, pldBytesReceived, completed, aHdrReceived>>
  BY DEF Quiet, limits
<1>1. AnswersInOrder' /\ StreamInOrder'
  BY <1>6, <1>7, StreamStays
<1>2. Len(<<>>) = 0
  OBVIOUS
<1>3. WireInOrder'
  BY <1>2 DEF StreamInv, StreamParts, WireInOrder, Quiet
<1>4. MarksAreRight'
  BY DEF StreamInv, StreamParts, MarksAreRight, NumSent, Quiet, limits
<1>5. RemainingIsRight'
  BY DEF StreamInv, StreamParts, RemainingIsRight, NumSent, Quiet, limits
<1> QED
  BY <1>1, <1>3, <1>4, <1>5 DEF StreamInv, StreamParts

\* In the beginning there is no stream.
LEMMA InitStream == Init => StreamInv
<1> SUFFICES ASSUME Init PROVE StreamInv
  OBVIOUS
<1>1. BaseInv
  BY InitBase
<1>2. /\ recvBuf = <<>> /\ inbox = <<>> /\ served = 0 /\ wire = <<>> /\ sent = {} /\ tcp = "closed"
      /\ completed = <<>> /\ keepAliveMax = KnownLimit /\ ~aHdrReceived /\ pc = "connect"
      /\ keepAliveMaxRemaining = -1 /\ reqQueue = <<>> /\ newReqs = <<>>
      /\ \A r \in Req : hdr[r].kind = "none"
  BY DEF Init, NoHdr
<1>3. Len(<<>>) = 0
  OBVIOUS
<1>4. Stream = <<>> /\ Pending = <<>> /\ Current = 1
  BY <1>2, <1>3, EmptySeq, ConcatEmptySeq DEF Stream, Pending, Current
<1>5. sent = 1..0 /\ NumSent = 0
  BY <1>2, CountOf DEF NumSent
<1>6. WireInOrder /\ MarksAreRight /\ RemainingIsRight
  BY <1>2, <1>3, <1>5, ConstantFacts DEF WireInOrder, MarksAreRight, RemainingIsRight, Rounds
<1>7. ~Begun /\ \A q \in Nat : q = Current => AnswerDue(1, q)
  BY <1>2, <1>3, <1>4 DEF Begun, AnswerDue
<1>8. AnswersInOrder /\ StreamInOrder
  <2>1. \A r \in Req : ~(r < Current) /\ hdr[r].kind # "hdr"
    BY <1>2, <1>4, ConstantFacts
  <2>2. 1..Len(completed) = {} /\ 1..Len(Stream) = {}
    BY <1>2, <1>3, <1>4
  <2> QED
    BY <1>2, <1>7, <2>1, <2>2 DEF AnswersInOrder, StreamInOrder
<1> QED
  BY <1>1, <1>3, <1>4, <1>6, <1>8, ConstantFacts DEF StreamInv, StreamParts

\* The thread connects: its source has told it what the server accepts.
LEMMA ConnectStream ==
  ASSUME StreamInv, BaseInv', Connect
  PROVE  StreamInv'
<1>1. /\ pc = "connect" /\ pc' = "select" /\ keepAliveMaxRemaining' = keepAliveMax
      /\ UNCHANGED <<served, hdr, pldBytesReceived, completed, sent, aHdrReceived, keepAliveMax, wire,
                     inbox, recvBuf, closing, reqQueue, newReqs>>
  BY DEF Connect, shared, request, history
<1>2. /\ sent = {} /\ wire = <<>> /\ served = 0 /\ ~aHdrReceived /\ closing \in BOOLEAN
      /\ recvBuf = <<>> /\ Len(wire) = 0
  BY <1>1, StreamFacts, EmptySeq DEF StreamInv, StreamParts, WireInOrder, BaseInv, ServerFacts
<1>3. sent = 1..0 /\ NumSent = 0
  BY <1>2, CountOf DEF NumSent
<1>4. Stream' = Stream /\ Pending' = Pending /\ NumSent' = NumSent
  BY <1>1 DEF Stream, Pending, NumSent
<1>5. AnswersInOrder' /\ StreamInOrder'
  BY <1>1, <1>2, <1>4, StreamStays
<1>6. WireInOrder'
  BY <1>1, <1>2 DEF StreamInv, StreamParts, WireInOrder, BaseInv, ServerFacts
<1>7. MarksAreRight'
  BY <1>1, <1>2, <1>3, <1>4 DEF MarksAreRight
<1>8. RemainingIsRight'
  BY <1>1, <1>2, <1>3, <1>4, ConstantFacts DEF StreamInv, StreamParts, RemainingIsRight
<1> QED
  BY <1>4, <1>5, <1>6, <1>7, <1>8 DEF StreamInv, StreamParts

\* The server answers the next request.
LEMMA AnswerStream ==
  ASSUME StreamInv, BaseInv', wire # <<>>,
         NEW close \in BOOLEAN, NEW units \in 0..BodyOf(Head(wire)), Answer(close, units),
         NEW q, q = Head(wire), NEW n, n = Len(Stream)
  PROVE  StreamInv'
<1> DEFINE h == Header(q, close, ServerLimit - q)
<1>1. /\ q \in Req /\ q = wire[1] /\ Tail(wire) \in Seq(Req)
      /\ Len(wire) \in Nat \ {0} /\ Len(Tail(wire)) = Len(wire) - 1
      /\ \A i \in 1..Len(Tail(wire)) : Tail(wire)[i] = wire[i + 1]
  BY StreamFacts, HeadTailProperties, EmptySeq, LenProperties
<1>2. q = served + 1 /\ served \in Nat /\ ServerLimit \in Nat /\ BodyOf(q) \in Nat /\ q \in Nat
  BY <1>1, BaseTypes, ConstantFacts DEF StreamInv, StreamParts, WireInOrder
<1>3. /\ ~closing /\ tcp = "established" /\ wire' = Tail(wire) /\ served' = q
      /\ closing' = (close \/ units < BodyOf(q))
      /\ close <=> (q = ServerLimit \/ (SuddenClose /\ close))
      /\ UNCHANGED <<reqQueue, newReqs, hdr, pldBytesReceived, completed, sent, limits, recvBuf, tcp,
                     pc>>
  BY <1>2 DEF Answer, shared, request, thread, history
<1>4. units \in 0..BodyOf(q) /\ units \in Nat
  BY <1>2
<1>8. /\ n \in Nat /\ Len(Stream') = n + 1 + units
      /\ \A i \in 1..n : Stream'[i] = Stream[i]
      /\ Stream'[n + 1] = h
      /\ \A i \in 1..units : Stream'[n + 1 + i] = Body(q)
  <2>1. h = Header(q, close, ServerLimit - served - 1)
    <3>1. ServerLimit - served - 1 = ServerLimit - q
      BY <1>2
    <3> QED
      BY <3>1 DEF h
  <2>2. BaseInv /\ n \in Nat
    BY StreamFacts DEF StreamInv
  <2> HIDE DEF h
  <2>3. /\ Len(Stream') = Len(Stream) + 1 + units
        /\ \A i \in 1..Len(Stream) : Stream'[i] = Stream[i]
        /\ Stream'[Len(Stream) + 1] = Header(Head(wire), close, ServerLimit - served - 1)
        /\ \A i \in 1..units : Stream'[Len(Stream) + 1 + i] = Body(Head(wire))
    BY <2>2, AnswerArrives
  <2> QED
    BY <2>1, <2>2, <2>3
<1>9. h.close = close /\ h.kind = "hdr" /\ h.req = q /\ Body(q).kind = "pld"
  BY DEF Header, Body
<1>10. IsHeader(h, q)'
  BY <1>1, <1>3, <1>9 DEF IsHeader
<1> HIDE DEF h
<1>11. ASSUME NEW g, NEW p, IsHeader(g, p) PROVE IsHeader(g, p)'
  BY <1>3, <1>11 DEF IsHeader
<1>12. ASSUME NEW p \in Int, p >= 1, NEW s \in Nat, AnswerDue(p, s) PROVE AnswerDue(p, s)'
  <2>2. p <= n + 1
    BY <1>3, <1>8, <1>12 DEF AnswerDue
  <2>3. CASE p <= n
    <3>1. s <= served /\ IsHeader(Stream[p], s) /\ Stream'[p] = Stream[p]
      BY <1>8, <1>12, <2>3 DEF AnswerDue
    <3>2. p <= Len(Stream') /\ ~(p > Len(Stream')) /\ ~(p > Len(Stream') + 1) /\ s <= served'
      BY <1>2, <1>3, <1>4, <1>8, <2>3, <3>1
    <3> QED
      BY <1>11, <3>1, <3>2 DEF AnswerDue
  <2>4. CASE p = n + 1
    <3>1. served = s - 1 /\ s = q /\ Stream'[p] = h
      BY <1>2, <1>8, <1>12, <2>4 DEF AnswerDue
    <3>2. p <= Len(Stream') /\ ~(p > Len(Stream')) /\ ~(p > Len(Stream') + 1) /\ s <= served'
      BY <1>1, <1>2, <1>3, <1>4, <1>8, <2>4, <3>1
    <3>3. IsHeader(Stream[p], s)'
      BY <1>10, <3>1 DEF IsHeader
    <3> QED
      BY <3>2, <3>3 DEF AnswerDue
  <2> QED
    BY <1>8, <2>2, <2>3, <2>4
<1>13. ASSUME NEW p \in Int, NEW s \in Req, p + BodyOf(s) >= 0, AnswerFrom(p, s)
       PROVE  AnswerFrom(p, s)'
  <2>1. BodyOf(s) \in Nat /\ s \in Nat
    BY ConstantFacts
  <2>2. AnswerDue(p + BodyOf(s) + 1, s + 1)'
    <3> DEFINE e == p + BodyOf(s) + 1
    <3>1. e \in Int /\ e >= 1 /\ s + 1 \in Nat /\ AnswerDue(e, s + 1)
      BY <1>13, <2>1 DEF AnswerFrom
    <3> HIDE DEF e
    <3>2. AnswerDue(e, s + 1)'
      BY <1>12, <3>1
    <3> QED
      BY <3>2 DEF e
  <2>3. s <= served'
    BY <1>2, <1>3, <1>13, <2>1 DEF AnswerFrom
  <2>4. ASSUME NEW k \in 1..BodyOf(s), p + k \in 1..Len(Stream') PROVE Stream'[p + k] = Body(s)
    <3>1. p + k <= n
      <4>1. p + BodyOf(s) + 1 > Len(Stream) + 1 => closing
        BY <1>13 DEF AnswerFrom, AnswerDue
      <4> QED
        BY <1>3, <1>8, <2>1, <4>1
    <3>2. p + k \in 1..Len(Stream) /\ Stream'[p + k] = Stream[p + k]
      BY <1>8, <2>4, <3>1
    <3> QED
      BY <1>13, <3>2 DEF AnswerFrom
  <2> QED
    BY <2>2, <2>3, <2>4 DEF AnswerFrom
<1>14. AnswerFrom(n + 1, q)'
  <2>1. ASSUME NEW k \in 1..BodyOf(q), n + 1 + k \in 1..Len(Stream')
        PROVE  Stream'[n + 1 + k] = Body(q)
    <3>1. k \in 1..units
      BY <1>2, <1>4, <1>8, <2>1
    <3> QED
      BY <1>8, <3>1
  <2>2. ASSUME NEW e \in Int, e = n + 1 + BodyOf(q) + 1, NEW s \in Nat, s = q + 1
        PROVE  AnswerDue(e, s)'
    <3>1. /\ e > Len(Stream') /\ ~(e <= Len(Stream'))
          /\ e > Len(Stream') + 1 => units < BodyOf(q)
      BY <1>2, <1>4, <1>8, <2>2
    <3>2. served' = s - 1
      BY <1>2, <1>3, <2>2
    <3>3. e > Len(Stream') + 1 => closing'
      BY <1>3, <3>1
    <3> QED
      BY <3>1, <3>2, <3>3 DEF AnswerDue
  <2>4. AnswerDue(n + 1 + BodyOf(q) + 1, q + 1)'
    BY <1>2, <1>8, <2>2
  <2>3. q <= served'
    BY <1>2, <1>3
  <2> QED
    BY <2>1, <2>3, <2>4 DEF AnswerFrom
<1>15. Current' = Current /\ Begun' = Begun /\ Current \in Nat \ {0}
  BY <1>3, StreamFacts DEF Current, Begun
<1>16. StreamInOrder'
  <2>1. ASSUME NEW i \in 1..Len(Stream'), NEW s \in Req, Stream'[i].kind = "hdr", Stream'[i].req = s
        PROVE  AnswerFrom(i, s)'
    <3>1. CASE i <= n
      <4>1. i \in 1..Len(Stream) /\ Stream'[i] = Stream[i]
        BY <1>8, <3>1
      <4>2. AnswerFrom(i, s)
        BY <2>1, <4>1 DEF StreamInv, StreamParts, StreamInOrder
      <4>3. i + BodyOf(s) >= 0 /\ i \in Int
        BY ConstantFacts
      <4> QED
        BY <1>13, <4>2, <4>3
    <3>2. CASE i = n + 1
      <4>1. s = q
        BY <1>8, <1>9, <2>1, <3>2
      <4> QED
        BY <1>14, <3>2, <4>1
    <3>3. CASE i > n + 1
      <4>1. i - (n + 1) \in 1..units /\ n + 1 + (i - (n + 1)) = i
        BY <1>4, <1>8, <3>3
      <4>2. Stream'[i] = Body(q)
        BY <1>8, <4>1
      <4> QED
        BY <1>9, <2>1, <4>2
    <3> QED
      BY <1>8, <3>1, <3>2, <3>3
  <2>2. ASSUME NEW s \in Req, NEW d \in Nat, Begun', s = Current', d = pldBytesReceived'[s]
        PROVE  AnswerFrom(-d, s)'
    <3>1. AnswerFrom(-d, s) /\ d < BodyOf(s)
      BY <1>3, <1>15, <2>2 DEF StreamInv, StreamParts, StreamInOrder, AnswersInOrder
    <3>2. -d \in Int /\ -d + BodyOf(s) >= 0
      BY <3>1, ConstantFacts
    <3> QED
      BY <1>13, <3>1, <3>2
  <2>3. ASSUME NEW s \in Nat, ~Begun', s = Current' PROVE AnswerDue(1, s)'
    <3>1. AnswerDue(1, s)
      BY <1>15, <2>3 DEF StreamInv, StreamParts, StreamInOrder
    <3> QED
      BY <1>12, <3>1
  <2> QED
    BY <2>1, <2>2, <2>3 DEF StreamInOrder
<1>17. AnswersInOrder'
  BY <1>3, <1>11, <1>15 DEF StreamInv, StreamParts, AnswersInOrder, limits
<1>18. WireInOrder'
  <2>1. \A i \in 1..Len(wire') : wire'[i] = served' + i
    <3>1. ASSUME NEW i \in 1..Len(wire') PROVE wire'[i] = served' + i
      <4>1. wire'[i] = wire[i + 1] /\ i + 1 \in 1..Len(wire) /\ i \in Nat
        BY <1>1, <1>3
      <4>2. wire[i + 1] = served + (i + 1)
        BY <4>1 DEF StreamInv, StreamParts, WireInOrder, BaseInv, ServerFacts
      <4> QED
        BY <1>2, <1>3, <4>1, <4>2
    <3> QED
      BY <3>1
  <2> QED
    BY <2>1 DEF WireInOrder
<1>19. served' + Len(wire') = served + Len(wire)
  BY <1>1, <1>2, <1>3
<1>20. MarksAreRight'
  <2>1. ASSUME ~aHdrReceived \/ keepAliveMaxRemaining # 0
        PROVE  /\ sent = 1..NumSent /\ NumSent \in Nat /\ served' <= NumSent
               /\ tcp = "established" => NumSent = served' + Len(wire')
    BY <1>1, <1>2, <1>3, <1>19, <2>1 DEF StreamInv, StreamParts, MarksAreRight
  <2> QED
    BY <1>3, <2>1 DEF MarksAreRight, NumSent, limits
<1>21. RemainingIsRight'
  BY <1>3, <1>19 DEF StreamInv, StreamParts, RemainingIsRight, NumSent, limits
<1> QED
  BY <1>16, <1>17, <1>18, <1>20, <1>21 DEF StreamInv, StreamParts

\* A first part of the stream is processed.
LEMMA ShiftDue ==
  ASSUME TypeOK, UNCHANGED <<served, closing>>, NEW t \in Nat, t <= Len(Stream),
         Len(Stream') = Len(Stream) - t, \A i \in 1..Len(Stream') : Stream'[i] = Stream[t + i],
         NEW p \in Int, p > t, NEW q \in Nat, AnswerDue(p, q), NEW b \in Int, b = p - t
  PROVE  AnswerDue(b, q)'
<1>1. Len(Stream) \in Nat
  BY StreamType
<1>2. ASSUME b <= Len(Stream') PROVE q <= served' /\ IsHeader(Stream[b], q)'
  <2>1. b \in 1..Len(Stream') /\ t + b = p /\ p <= Len(Stream)
    BY <1>1, <1>2
  <2>2. Stream'[b] = Stream[p] /\ q <= served /\ IsHeader(Stream[p], q)
    BY <2>1 DEF AnswerDue
  <2> QED
    BY <2>2 DEF IsHeader
<1>3. b > Len(Stream') => served' = q - 1
  BY <1>1 DEF AnswerDue
<1>4. b > Len(Stream') + 1 => closing'
  BY <1>1 DEF AnswerDue
<1> QED
  BY <1>2, <1>3, <1>4 DEF AnswerDue

\* The same for an answer and what is behind it.
LEMMA ShiftFrom ==
  ASSUME TypeOK, UNCHANGED <<served, closing>>, NEW t \in Nat, t <= Len(Stream),
         Len(Stream') = Len(Stream) - t, \A i \in 1..Len(Stream') : Stream'[i] = Stream[t + i],
         NEW p \in Int, NEW q \in Req, AnswerFrom(p, q), p + BodyOf(q) >= t,
         NEW b \in Int, b = p - t
  PROVE  AnswerFrom(b, q)'
<1>1. Len(Stream) \in Nat /\ BodyOf(q) \in Nat /\ q \in Nat
  BY StreamType, ConstantFacts
<1>2. q <= served'
  BY DEF AnswerFrom
<1>3. ASSUME NEW k \in 1..BodyOf(q), b + k \in 1..Len(Stream') PROVE Stream'[b + k] = Body(q)
  <2>1. t + (b + k) = p + k /\ p + k \in 1..Len(Stream)
    BY <1>1, <1>3
  <2>2. Stream'[b + k] = Stream[p + k]
    BY <1>3, <2>1
  <2> QED
    BY <2>1, <2>2 DEF AnswerFrom
<1>4. ASSUME NEW e \in Int, e = p + BodyOf(q) + 1, NEW f \in Int, f = b + BodyOf(q) + 1,
             NEW s \in Nat, s = q + 1
      PROVE  AnswerDue(f, s)'
  <2>1. AnswerDue(e, s)
    BY <1>4 DEF AnswerFrom
  <2>2. e > t /\ f = e - t
    BY <1>1, <1>4
  <2> QED
    BY <2>1, <2>2, ShiftDue
<1>5. AnswerDue(b + BodyOf(q) + 1, q + 1)'
  BY <1>1, <1>4
<1> QED
  BY <1>2, <1>3, <1>5 DEF AnswerFrom

\* What is in the buffer begins with what the request at the front waits for.
LEMMA ParseFacts ==
  ASSUME StreamInv, recvBuf # <<>>, NEW r \in Req, r = Current,
         NEW d, d = ParseData(r, recvBuf)
  PROVE  \E start \in Int :
           /\ AnswerFrom(start, r) /\ IsHeader(d.hdr, r)
           /\ d.pld \in 0..BodyOf(r) /\ d.parsed = start + d.pld /\ d.parsed \in 0..Len(recvBuf)
           /\ d.pld < BodyOf(r) => d.parsed = Len(recvBuf)
           /\ IsCompleted(r, d.hdr, d.pld) <=> d.pld = BodyOf(r)
<1> DEFINE old == pldBytesReceived[r]
           size == Len(recvBuf)
           h == d.hdr
<1>1. /\ size \in Nat \ {0} /\ old \in Nat /\ TypeOK /\ BodyFitsHeader
      /\ Stream[1] = recvBuf[1] /\ Len(Stream) >= 1 /\ hdr[r] \in Unit
  <2>1. TypeOK /\ BodyFitsHeader
    BY DEF StreamInv, BaseInv, QueueInv, IInv
  <2>2. size \in Nat \ {0}
    BY <2>1, EmptySeq, LenProperties DEF TypeOK
  <2>3. Len(Stream) = size + Len(inbox) /\ Len(inbox) \in Nat /\ Stream[1] = recvBuf[1]
    BY <2>1, <2>2, StreamType
  <2> QED
    BY <2>1, <2>2, <2>3 DEF TypeOK
<1>2. BodyOf(r) \in Nat /\ Payload[r] \in Nat /\ BodyOf(r) = IF r \in Heads THEN 0 ELSE Payload[r]
  BY ConstantFacts DEF BodyOf
<1>3. CASE Begun
  <2>1. /\ hdr[r].kind = "hdr" /\ IsHeader(hdr[r], r) /\ old < BodyOf(r) /\ r \notin Heads
        /\ AnswerFrom(-old, r)
    BY <1>1, <1>2, <1>3 DEF Begun, StreamInv, StreamParts, AnswersInOrder, StreamInOrder
  <2>2. hdr[r].length = Payload[r]
    BY <2>1, HeaderFacts
  <2> DEFINE more == IF BodyOf(r) - old <= size THEN BodyOf(r) - old ELSE size
  <2>3. d = [hdr |-> hdr[r], pld |-> old + more, parsed |-> 0 + more]
    BY <1>1, <1>2, <2>1, <2>2 DEF ParseData
  <2>4. h = hdr[r] /\ d.pld = old + more /\ d.parsed = more
    BY <1>1, <1>2, <2>3
  <2>5. /\ d.pld \in 0..BodyOf(r) /\ d.parsed = (-old) + d.pld /\ d.parsed \in 0..size
        /\ d.pld < BodyOf(r) => d.parsed = size
    BY <1>1, <1>2, <2>1, <2>4
  <2>6. IsCompleted(r, d.hdr, d.pld) <=> d.pld = BodyOf(r)
    BY <1>2, <2>1, <2>2, <2>4 DEF IsCompleted
  <2> QED
    BY <1>1, <2>1, <2>4, <2>5, <2>6
<1>4. CASE ~Begun
  <2>1. hdr[r].kind = "none" /\ old = 0
    BY <1>1, <1>4 DEF Begun, BodyFitsHeader
  <2>2. AnswerDue(1, r)
    BY <1>4, ConstantFacts DEF StreamInv, StreamParts, StreamInOrder
  <2>3. IsHeader(recvBuf[1], r)
    BY <1>1, <2>2 DEF AnswerDue
  <2>4. recvBuf[1].kind = "hdr" /\ recvBuf[1].req = r /\ recvBuf[1].length = Payload[r]
    BY <2>3, HeaderFacts
  <2>5. AnswerFrom(1, r)
    <3>1. 1 \in 1..Len(Stream)
      BY <1>1, StreamFacts
    <3> QED
      BY <1>1, <2>4, <3>1 DEF StreamInv, StreamParts, StreamInOrder
  <2> DEFINE more == IF BodyOf(r) <= size - 1 THEN BodyOf(r) ELSE size - 1
  <2>6. d = [hdr |-> recvBuf[1], pld |-> old + more, parsed |-> 1 + more]
    <3>1. (IF r \in Heads THEN 0 ELSE Payload[r] - old) = BodyOf(r)
      BY <1>2, <2>1
    <3> QED
      BY <1>1, <1>2, <2>1, <2>4, <3>1 DEF ParseData
  <2>7. h = recvBuf[1] /\ d.pld = more /\ d.parsed = 1 + more
    BY <1>1, <1>2, <2>1, <2>6
  <2>8. /\ d.pld \in 0..BodyOf(r) /\ d.parsed = 1 + d.pld /\ d.parsed \in 0..size
        /\ d.pld < BodyOf(r) => d.parsed = size
    BY <1>1, <1>2, <2>7
  <2>9. IsCompleted(r, d.hdr, d.pld) <=> d.pld = BodyOf(r)
    BY <1>2, <2>4, <2>7 DEF IsCompleted
  <2> QED
    BY <2>3, <2>5, <2>7, <2>8, <2>9
<1> QED
  BY <1>3, <1>4

\* Before the first answer nothing is completed.
LEMMA OnlyFirst == ASSUME StreamInv, ~aHdrReceived PROVE Current = 1 /\ Len(completed) = 0
<1>1. Current \in Nat \ {0} /\ Current = Len(completed) + 1 /\ Len(completed) \in Nat
  BY StreamFacts
<1>2. CASE Current > 1
  <2>1. 1 \in Req
    BY HttpClientAssumption DEF Req
  <2> QED
    BY <1>2, <2>1 DEF StreamInv, StreamParts, AnswersInOrder
<1> QED
  BY <1>1, <1>2

\* The first answer of a connection tells the limit.
LEMMA FirstAnswer ==
  ASSUME StreamInv, NoneSentTwice, reqQueue # <<>>, ~aHdrReceived,
         NEW rem, rem = RemainingAfterFirst(ServerLimit - 1),
         NEW s, s = RequeuePendingRequests(rem + 1)
  PROVE  /\ rem \in Nat
         /\ rem # 0 => s = sent /\ rem = ServerLimit - NumSent
         /\ rem = 0 => ServerLimit <= NumSent
<1> DEFINE p == NumPendingRequests(reqQueue, sent)
<1>1. /\ NumSent \in Nat /\ sent = 1..NumSent /\ Settled = 0 /\ p = NumSent
      /\ NumSent <= Len(reqQueue) /\ ServerLimit \in Nat \ {0}
  <2>1. Settled = 0
    BY FrontRequest, OnlyFirst DEF StreamInv, BaseInv
  <2>2. NumSent \in Nat /\ sent = 1..NumSent
    BY DEF StreamInv, StreamParts, MarksAreRight
  <2> QED
    BY <2>1, <2>2, SentArePending, ConstantFacts DEF StreamInv, BaseInv
<1> HIDE DEF p
<1>2. rem = IF ServerLimit - p < 0 THEN 0 ELSE ServerLimit - p
  BY <1>1 DEF RemainingAfterFirst, p
<1>3. rem \in Nat /\ (rem = 0 => ServerLimit <= NumSent) /\ (rem # 0 => rem = ServerLimit - NumSent)
  BY <1>1, <1>2
<1>4. ASSUME rem # 0 PROVE s = sent
  <2>1. NumSent + NumSent <= ServerLimit + 1
    <3>1. CASE ServerLimit <= 3
      BY <1>1, <1>3, <1>4, <3>1
    <3>2. CASE FewPending((ServerLimit + 1) \div 2)
      <4> DEFINE n == (ServerLimit + 1) \div 2
      <4>1. n \in Nat \ {0} /\ n + n <= ServerLimit + 1
        BY <1>1
      <4> HIDE DEF n
      <4>2. FewPending(n)
        BY <3>2 DEF n
      <4>3. NumSent <= n
        BY <1>1, <4>1, <4>2, PendingAreFew DEF StreamInv
      <4> QED
        BY <1>1, <4>1, <4>3
    <3> QED
      BY <3>1, <3>2 DEF NoneSentTwice
  <2>2. (rem + 1 + 1)..p = {}
    BY <1>1, <1>3, <1>4, <2>1
  <2> QED
    BY <2>2 DEF RequeuePendingRequests, p
<1> QED
  BY <1>3, <1>4

\* The front request takes its part of the buffer.
LEMMA ProcessNewDataStream ==
  ASSUME StreamInv, BaseInv', NoneSentTwice, ProcessNewData,
         NEW r, r = Head(reqQueue), NEW d, d = ParseData(r, recvBuf)
  PROVE  StreamInv'
<1> DEFINE first == d.hdr.kind = "hdr" /\ ~aHdrReceived
           remaining == IF first THEN RemainingAfterFirst(d.hdr.max)
                        ELSE keepAliveMaxRemaining
           rest == SubSeq(recvBuf, d.parsed + 1, Len(recvBuf))
           done == IsCompleted(r, d.hdr, d.pld)
           Failed == \/ Fail("noRequest") \/ Fail("firstHeader")
                     \/ Fail("keepAliveMismatch") \/ Fail("trailingBytes")
                     \/ Fail("notConstructed")
<1>1. CASE Failed
  BY <1>1, FailQuiet, QuietStream DEF StreamInv
<1>2. CASE ~Failed
  <2>1. /\ reqQueue # <<>> /\ pc = "process"
        /\ ~(first /\ d.hdr.max <= 0)
        /\ hdr' = [hdr EXCEPT ![r] = d.hdr]
        /\ pldBytesReceived' = [pldBytesReceived EXCEPT ![r] = d.pld]
        /\ sent' = IF first THEN RequeuePendingRequests(remaining + 1) ELSE sent
        /\ aHdrReceived' = (aHdrReceived \/ first)
        /\ keepAliveMax' = IF first THEN d.hdr.max + 1 ELSE keepAliveMax
        /\ keepAliveMaxRemaining' = remaining
        /\ recvBuf' = rest
        /\ pc' \in {"process", "start", "select"}
        /\ pc' # "process" => rest = <<>>
        /\ completed' = IF done THEN Append(completed, r) ELSE completed
        /\ UNCHANGED <<tcp, wire, inbox, served, closing, accepted, returned>>
    BY <1>2, Zenon DEF ProcessNewData, network
  <2> HIDE DEF first, remaining, rest, done, Failed
  <2>2. TypeOK /\ r \in Req /\ r = Current /\ recvBuf # <<>>
    BY <2>1, StreamFacts, FrontRequest
       DEF StreamInv, BaseInv, QueueInv, IInv, BufferFilled
  <2>3. PICK start \in Int :
           /\ AnswerFrom(start, r) /\ IsHeader(d.hdr, r)
           /\ d.pld \in 0..BodyOf(r) /\ d.parsed = start + d.pld /\ d.parsed \in 0..Len(recvBuf)
           /\ d.pld < BodyOf(r) => d.parsed = Len(recvBuf)
           /\ IsCompleted(r, d.hdr, d.pld) <=> d.pld = BodyOf(r)
    BY <2>2, ParseFacts
  <2>4. /\ d.hdr.kind = "hdr" /\ d.hdr.max = (IF d.hdr.close THEN -1 ELSE ServerLimit - r)
        /\ d.hdr.close \in BOOLEAN /\ d.hdr \in Unit
        /\ first <=> ~aHdrReceived
    <3>1. d.hdr \in Unit
      BY <2>2, ParseDataType DEF StreamInv, BaseInv, QueueInv, IInv
    <3> QED
      BY <2>2, <2>3, <3>1, HeaderFacts DEF first
  <2>5. done <=> d.pld = BodyOf(r)
    BY <2>3 DEF done
  <2>6. aHdrReceived'
    BY <2>1, <2>4
\* The buffer without its first part.
  <2> DEFINE t == d.parsed
  <2>7. /\ t \in Nat /\ t <= Len(Stream) /\ Len(Stream') = Len(Stream) - t
        /\ \A i \in 1..Len(Stream') : Stream'[i] = Stream[t + i]
    <3>1. /\ recvBuf \in Seq(Unit) /\ inbox \in Seq(Unit) /\ Len(recvBuf) \in Nat
          /\ Len(inbox) \in Nat /\ Len(Stream) = Len(recvBuf) + Len(inbox)
          /\ \A i \in 1..Len(recvBuf) : Stream[i] = recvBuf[i]
          /\ \A i \in 1..Len(inbox) : Stream[Len(recvBuf) + i] = inbox[i]
      BY <2>2, StreamType DEF TypeOK
    <3>2. t \in Nat /\ t <= Len(recvBuf)
      BY <2>3, <3>1
    <3> HIDE DEF t
    <3>3. recvBuf' = SubSeq(recvBuf, t + 1, Len(recvBuf))
      BY <2>1 DEF rest, t
    <3>4. /\ recvBuf' \in Seq(Unit) /\ Len(recvBuf') = Len(recvBuf) - t
          /\ \A i \in 1..Len(recvBuf) - t : recvBuf'[i] = recvBuf[t + i]
      BY <3>1, <3>2, <3>3, SubSeqProperties
    <3>5. /\ Stream' \in Seq(Unit) /\ Len(Stream') = Len(recvBuf') + Len(inbox)
          /\ \A i \in 1..Len(recvBuf') + Len(inbox) :
               Stream'[i] = IF i <= Len(recvBuf') THEN recvBuf'[i] ELSE inbox[i - Len(recvBuf')]
      BY <2>1, <3>1, <3>4, ConcatProperties DEF Stream
    <3>6. ASSUME NEW i \in 1..Len(Stream') PROVE Stream'[i] = Stream[t + i]
      <4>1. CASE i <= Len(recvBuf')
        <5>1. t + i \in 1..Len(recvBuf) /\ i \in 1..Len(recvBuf) - t
          BY <3>1, <3>2, <3>4, <4>1
        <5> QED
          BY <3>1, <3>4, <3>5, <4>1, <5>1
      <4>2. CASE ~(i <= Len(recvBuf'))
        <5> DEFINE j == i - Len(recvBuf')
        <5>1. j \in 1..Len(inbox) /\ Len(recvBuf) + j = t + i
          BY <3>1, <3>2, <3>4, <3>5, <4>2
        <5>2. Stream'[i] = inbox[j]
          BY <3>5, <4>2
        <5> HIDE DEF j
        <5>3. Stream[Len(recvBuf) + j] = inbox[j]
          BY <3>1, <5>1
        <5> QED
          BY <5>1, <5>2, <5>3
      <4> QED
        BY <4>1, <4>2
    <3>7. t <= Len(Stream) /\ Len(Stream') = Len(Stream) - t
      BY <3>1, <3>2, <3>4, <3>5
    <3> QED
      BY <3>2, <3>6, <3>7
  <2>8. t = start + d.pld /\ d.pld \in Nat /\ BodyOf(r) \in Nat /\ d.pld <= BodyOf(r)
    BY <2>2, <2>3, ConstantFacts
  <2> HIDE DEF t
  <2>9. completed \in Seq(Req) /\ Len(completed) \in Nat /\ Current = Len(completed) + 1
    BY <2>2, StreamFacts DEF TypeOK, Current
  <2>10. /\ completed' \in Seq(Req)
         /\ Current' = IF done THEN r + 1 ELSE r
         /\ \A i \in 1..Len(completed') : completed'[i] = i
    <3>1. CASE done
      <4>1. completed' = Append(completed, r)
        BY <2>1, <3>1
      <4>2. /\ completed' \in Seq(Req) /\ Len(completed') = Len(completed) + 1
            /\ \A i \in 1..Len(completed) : completed'[i] = completed[i]
            /\ completed'[Len(completed) + 1] = r
        BY <2>2, <2>9, <4>1, AppendProperties
      <4>3. ASSUME NEW i \in 1..Len(completed') PROVE completed'[i] = i
        <5>1. i \in 1..Len(completed) \/ i = Len(completed) + 1
          BY <2>9, <4>2
        <5> QED
          BY <2>2, <2>9, <4>2, <5>1 DEF StreamInv, StreamParts, AnswersInOrder
      <4> QED
        BY <2>2, <2>9, <3>1, <4>2, <4>3 DEF Current
    <3>2. CASE ~done
      BY <2>1, <2>2, <2>9, <3>2 DEF Current, StreamInv, StreamParts, AnswersInOrder
    <3> QED
      BY <3>1, <3>2
  <2>11. /\ \A x \in Req : hdr'[x] = IF x = r THEN d.hdr ELSE hdr[x]
         /\ pldBytesReceived'[r] = d.pld
    BY <2>1, <2>2 DEF TypeOK
  <2>12. r \in Nat /\ \A x \in Req : x \in Nat
    BY <2>2, ConstantFacts
  <2>13. Begun' <=> ~done
    <3>1. CASE done
      <4>1. r + 1 \in Req => hdr[r + 1].kind = "none" /\ r + 1 # r
        BY <2>2, <2>12 DEF StreamInv, StreamParts, AnswersInOrder
      <4> QED
        BY <2>10, <2>11, <3>1, <4>1 DEF Begun
    <3>2. CASE ~done
      BY <2>2, <2>4, <2>10, <2>11, <3>2 DEF Begun
    <3> QED
      BY <3>1, <3>2
  <2>14. StreamInOrder'
    <3>1. ASSUME NEW i \in 1..Len(Stream'), NEW q \in Req, Stream'[i].kind = "hdr", Stream'[i].req = q
          PROVE  AnswerFrom(i, q)'
      <4>1. t + i \in 1..Len(Stream) /\ Stream'[i] = Stream[t + i] /\ i = (t + i) - t /\ i \in Int
        BY <2>7, StreamFacts
      <4>2. AnswerFrom(t + i, q)
        BY <3>1, <4>1 DEF StreamInv, StreamParts, StreamInOrder
      <4>3. t + i \in Int /\ t + i + BodyOf(q) >= t
        BY <2>7, ConstantFacts
      <4> QED
        BY <2>1, <2>2, <2>7, <4>1, <4>2, <4>3, ShiftFrom
    <3>2. ASSUME NEW q \in Req, NEW n \in Nat, Begun', q = Current', n = pldBytesReceived'[q]
          PROVE  AnswerFrom(-n, q)'
      <4>1. q = r /\ n = d.pld
        BY <2>10, <2>11, <2>13, <3>2
      <4>2. -n = start - t /\ -n \in Int /\ start + BodyOf(q) >= t
        BY <2>8, <4>1
      <4>3. AnswerFrom(start, q)
        BY <2>3, <4>1
      <4> QED
        BY <2>1, <2>2, <2>7, <4>2, <4>3, ShiftFrom
    <3>3. ASSUME NEW q \in Nat, ~Begun', q = Current' PROVE AnswerDue(1, q)'
      <4>1. q = r + 1 /\ d.pld = BodyOf(r)
        BY <2>5, <2>10, <2>13, <3>3
      <4>2. ASSUME NEW e \in Int, e = start + BodyOf(r) + 1, NEW b \in Int, b = 1
            PROVE  AnswerDue(b, q)'
        <5>1. e > t /\ b = e - t
          BY <2>8, <4>1, <4>2
        <5>2. AnswerDue(e, q)
          BY <2>3, <4>1, <4>2 DEF AnswerFrom
        <5> QED
          BY <2>1, <2>2, <2>7, <3>3, <5>1, <5>2, ShiftDue
      <4>3. start + BodyOf(r) + 1 \in Int
        BY <2>8
      <4> QED
        BY <4>2, <4>3
    <3> QED
      BY <3>1, <3>2, <3>3 DEF StreamInOrder
  <2>15. AnswersInOrder'
    <3>1. ASSUME NEW x \in Req, NEW g, g = hdr'[x]
          PROVE  /\ g.kind = "hdr" => IsHeader(g, x)'
                 /\ x < Current' => g.kind = "hdr"
                 /\ x > Current' => g.kind = "none"
      <4>1. ASSUME NEW h, IsHeader(h, x) PROVE IsHeader(h, x)'
        BY <2>1, <4>1 DEF IsHeader
      <4>2. CASE x = r
        <5>1. g = d.hdr /\ IsHeader(g, x) /\ ~(x > Current')
          BY <2>3, <2>10, <2>11, <2>12, <3>1, <4>2
        <5> QED
          BY <2>4, <4>1, <5>1
      <4>3. CASE x # r
        <5>1. g = hdr[x]
          BY <2>11, <3>1, <4>3
        <5>2. /\ g.kind = "hdr" => IsHeader(g, x)
              /\ x < Current => g.kind = "hdr"
              /\ x > Current => g.kind = "none"
          BY <5>1 DEF StreamInv, StreamParts, AnswersInOrder
        <5>3. (x < Current' => x < Current) /\ (x > Current' => x > Current)
          BY <2>2, <2>10, <2>12, <4>3
        <5> QED
          BY <4>1, <5>2, <5>3
      <4> QED
        BY <4>2, <4>3
    <3>3. \A x \in Req : (hdr[x].kind = "hdr" => IsHeader(hdr[x], x))'
      BY <3>1
    <3>2. Begun' => pldBytesReceived'[Current'] < BodyOf(Current')
      BY <2>5, <2>8, <2>10, <2>11, <2>13
    <3> QED
      BY <2>6, <2>10, <3>1, <3>2, <3>3 DEF AnswersInOrder
  <2>16. WireInOrder'
    BY <2>1 DEF StreamInv, StreamParts, WireInOrder, BaseInv, ServerFacts
\* The first answer says how many are left.
  <2>17. /\ keepAliveMaxRemaining' \in Nat \cup {-1} /\ keepAliveMax' = ServerLimit
         /\ keepAliveMaxRemaining' # 0 =>
              /\ sent' = sent /\ sent = 1..NumSent /\ NumSent \in Nat /\ served <= NumSent
              /\ tcp = "established" => NumSent = served + Len(wire)
              /\ keepAliveMaxRemaining' = ServerLimit - NumSent
         /\ keepAliveMaxRemaining' = 0 /\ tcp = "established" => served + Len(wire) >= ServerLimit
    <3>1. CASE first
      <4>1. r = 1 /\ ~aHdrReceived
        BY <2>2, <2>4, <3>1, OnlyFirst
      <4>2. d.hdr.max = ServerLimit - 1 /\ ServerLimit \in Nat
        BY <2>1, <2>4, <3>1, <4>1, ConstantFacts
      <4>3. /\ keepAliveMaxRemaining' = remaining /\ keepAliveMax' = ServerLimit
            /\ remaining = RemainingAfterFirst(ServerLimit - 1)
            /\ sent' = RequeuePendingRequests(remaining + 1)
        BY <2>1, <3>1, <4>2 DEF remaining
      <4>4. /\ remaining \in Nat
            /\ remaining # 0 => sent' = sent /\ remaining = ServerLimit - NumSent
            /\ remaining = 0 => ServerLimit <= NumSent
        BY <2>1, <4>1, <4>3, FirstAnswer
      <4>5. /\ sent = 1..NumSent /\ NumSent \in Nat /\ served <= NumSent
            /\ tcp = "established" => NumSent = served + Len(wire)
        BY <4>1 DEF StreamInv, StreamParts, MarksAreRight
      <4> QED
        BY <4>3, <4>4, <4>5
    <3>2. CASE ~first
      <4>1. /\ aHdrReceived /\ keepAliveMaxRemaining' = keepAliveMaxRemaining
            /\ sent' = sent /\ keepAliveMax' = keepAliveMax
        BY <2>1, <2>4, <3>2 DEF remaining
      <4>2. keepAliveMax # -1 /\ keepAliveMax = ServerLimit
        BY <4>1 DEF StreamInv, StreamParts, RemainingIsRight
      <4> QED
        BY <2>1, <4>1, <4>2, StreamFacts DEF StreamInv, StreamParts, RemainingIsRight, MarksAreRight, Rounds
    <3> QED
      BY <3>1, <3>2
  <2>18. MarksAreRight'
    BY <2>1, <2>6, <2>17 DEF MarksAreRight, NumSent
  <2>19. RemainingIsRight'
    <3>1. ServerLimit # -1
      BY ConstantFacts
    <3> QED
      BY <2>1, <2>6, <2>17, <3>1 DEF RemainingIsRight, NumSent
  <2> QED
    BY <2>14, <2>15, <2>16, <2>18, <2>19 DEF StreamInv, StreamParts
<1> QED
  BY <1>1, <1>2

\* No request is settled that has not been answered.
LEMMA SettledAreServed ==
  ASSUME StreamInv
  PROVE  Len(completed) <= served
<1>1. /\ Len(completed) \in Nat /\ served \in Nat /\ Len(Stream) \in Nat
      /\ Current = Len(completed) + 1
  BY StreamFacts DEF Current
<1>2. CASE Begun
  <2>1. Current \in Req /\ pldBytesReceived[Current] \in Nat
    BY <1>2, StreamFacts DEF Begun
  <2>2. AnswerFrom(-pldBytesReceived[Current], Current)
    BY <1>2, <2>1 DEF StreamInv, StreamParts, StreamInOrder
  <2> QED
    BY <1>1, <2>2 DEF AnswerFrom
<1>3. CASE ~Begun
  <2>1. AnswerDue(1, Current)
    BY <1>1, <1>3 DEF StreamInv, StreamParts, StreamInOrder
  <2> QED
    BY <1>1, <2>1 DEF AnswerDue
<1> QED
  BY <1>2, <1>3

\* Requests are sent in the order of their numbers, and no more than the server serves.
LEMMA CheckStartNewRequestsStream ==
  ASSUME StreamInv, BaseInv', CheckStartNewRequests,
         NEW n, NEW m, NEW batch, Starting(n, m, batch)
  PROVE  StreamInv'
<1>1. CASE Fail("eventfd") \/ Fail("clientLimit") \/ Fail("write")
  BY <1>1, FailQuiet, QuietStream DEF StreamInv
<1>2. CASE ~(Fail("eventfd") \/ Fail("clientLimit") \/ Fail("write"))
  <2>1. /\ pc = "start" /\ pc' = "select"
        /\ newReqs' = <<>> /\ reqQueue' = Pending
        /\ sent' = sent \cup {batch[i] : i \in 1..m}
        /\ keepAliveMaxRemaining' = IF keepAliveMax = -1 THEN keepAliveMaxRemaining
                                    ELSE keepAliveMaxRemaining - m
        /\ wire' = wire \o batch
        /\ m > 0 => tcp = "established"
        /\ UNCHANGED <<hdr, pldBytesReceived, aHdrReceived, keepAliveMax, recvBuf, tcp, inbox,
                       served, closing, completed>>
    BY <1>2 DEF CheckStartNewRequests, history, WriteFails, Starting
  <2>2. /\ n \in Nat /\ m \in Nat /\ n + m <= Len(Pending)
        /\ \A j \in 1..m : MayStart(Pending, n, j)
        /\ \A i \in Nat \ {0} : i <= Len(Pending) => (i <= n <=> Settled + i \in sent)
        /\ batch \in Seq(Req) /\ Len(batch) = m
        /\ \A i \in 1..m : batch[i] = Settled + (n + i)
    BY StartFacts DEF StreamInv, BaseInv
  <2>3. /\ wire \in Seq(Req) /\ Len(wire) \in Nat /\ served \in Nat /\ closing \in BOOLEAN
        /\ Len(completed) \in Nat /\ Pending \in Seq(Req) /\ Len(Pending) \in Nat
        /\ keepAliveMaxRemaining \in Nat \cup {-1} /\ TypeOK /\ IInv
    BY StreamFacts, QueueTypes, LenProperties DEF StreamInv, BaseInv, QueueInv
  <2>4. Pending' = Pending /\ Stream' = Stream
    BY <2>1, <2>3, ConcatEmptySeq DEF Pending, Stream
  <2>5. AnswersInOrder' /\ StreamInOrder'
    BY <2>1, <2>3, <2>4, StreamStays
  <2>6. CASE m = 0
    <3>1. batch = <<>> /\ 1..m = {}
      BY <2>2, <2>6, EmptySeq
    <3>2. sent' = sent /\ wire' = wire /\ keepAliveMaxRemaining' = keepAliveMaxRemaining
      BY <2>1, <2>3, <2>6, <3>1, ConcatEmptySeq
    <3>3. WireInOrder'
      BY <2>1, <3>2 DEF StreamInv, StreamParts, WireInOrder, BaseInv, ServerFacts
    <3>4. MarksAreRight'
      BY <2>1, <3>2 DEF StreamInv, StreamParts, MarksAreRight, NumSent
    <3>5. RemainingIsRight'
      BY <2>1, <3>2 DEF StreamInv, StreamParts, RemainingIsRight, NumSent, Rounds
    <3> QED
      BY <2>4, <2>5, <3>3, <3>4, <3>5 DEF StreamInv, StreamParts
  <2>7. CASE m > 0
    <3>1. tcp = "established" /\ keepAliveMaxRemaining # 0
      <4>1. 1 \in 1..m
        BY <2>2, <2>7
      <4>2. MayStart(Pending, n, 1)
        BY <2>2, <4>1
      <4> QED
        BY <2>1, <2>3, <2>7, <4>2 DEF MayStart
    <3>2. sent = 1..NumSent /\ NumSent \in Nat /\ NumSent = served + Len(wire)
      BY <3>1 DEF StreamInv, StreamParts, MarksAreRight
    <3>3. Settled = Len(completed) /\ Settled <= NumSent
      <4>1. Pending # <<>>
        BY <2>2, <2>3, <2>7, EmptySeq
      <4>2. returned = <<>>
        BY <2>3, <4>1 DEF IInv, HandedBackLast
      <4>3. Settled = Len(completed)
        BY <2>3, <4>2, EmptySeq DEF Settled
      <4> QED
        BY <2>3, <3>2, <4>3, SettledAreServed
    <3> DEFINE N == NumSent
    <3>5. N \in Nat /\ sent = 1..N /\ N = served + Len(wire)
      BY <3>2
    <3>6. sent' = 1..(N + m) /\ NumSent' = N + m /\ \A i \in 1..m : batch[i] = N + i
      BY <2>1, <2>7, <3>3, <3>5, SentGrows DEF StreamInv, BaseInv
    <3> HIDE DEF N
    <3>8. /\ Len(wire') = Len(wire) + m
          /\ \A i \in 1..Len(wire') : wire'[i] = served + i
      <4>1. /\ Len(wire \o batch) = Len(wire) + Len(batch)
            /\ \A i \in 1..Len(wire) + Len(batch) :
                 (wire \o batch)[i] = IF i <= Len(wire) THEN wire[i] ELSE batch[i - Len(wire)]
        BY <2>2, <2>3, ConcatProperties
      <4>2. ASSUME NEW i \in 1..Len(wire) + m PROVE wire'[i] = served + i
        <5>1. CASE i <= Len(wire)
          <6>1. i \in 1..Len(wire) /\ wire'[i] = wire[i]
            BY <2>1, <2>2, <2>3, <4>1, <5>1
          <6> QED
            BY <6>1 DEF StreamInv, StreamParts, WireInOrder, BaseInv, ServerFacts
        <5>2. CASE ~(i <= Len(wire))
          <6>1. i - Len(wire) \in 1..m /\ wire'[i] = batch[i - Len(wire)]
            BY <2>1, <2>2, <2>3, <4>1, <5>2
          <6>2. batch[i - Len(wire)] = N + (i - Len(wire))
            BY <3>6, <6>1
          <6> QED
            BY <2>3, <3>5, <6>1, <6>2
        <5> QED
          BY <5>1, <5>2
      <4> QED
        BY <2>1, <2>2, <4>1, <4>2
    <3>9. WireInOrder'
      BY <2>1, <3>8 DEF StreamInv, StreamParts, WireInOrder, BaseInv, ServerFacts
    <3>10. MarksAreRight'
      <4>1. N + m \in Nat /\ served' <= N + m /\ N + m = served' + Len(wire')
        BY <2>1, <2>2, <2>3, <3>5, <3>8
      <4>2. sent' = 1..NumSent'
        BY <3>6
      <4> QED
        BY <3>6, <4>1, <4>2 DEF MarksAreRight
    <3>11. RemainingIsRight'
      <4>1. keepAliveMax # -1 => keepAliveMaxRemaining' = ServerLimit - (N + m)
        BY <2>1, <2>2, <2>3, <3>1, <3>5, ConstantFacts
           DEF StreamInv, StreamParts, RemainingIsRight, Rounds, N
      <4>2. keepAliveMaxRemaining' = 0 /\ keepAliveMax # -1 => served + Len(wire') >= ServerLimit
        BY <2>2, <2>3, <3>5, <3>8, <4>1, ConstantFacts
      <4> QED
        BY <2>1, <3>6, <4>1, <4>2 DEF StreamInv, StreamParts, RemainingIsRight
    <3> QED
      BY <2>4, <2>5, <3>9, <3>10, <3>11 DEF StreamInv, StreamParts
  <2> QED
    BY <2>2, <2>6, <2>7
<1> QED
  BY <1>1, <1>2

\* Every step keeps the stream in order.
LEMMA NextStream ==
  ASSUME StreamInv, QueueInv', NoneSentTwice, [Next]_vars
  PROVE  StreamInv'
<1>1. BaseInv'
  BY NextBase DEF StreamInv
<1>2. CASE Quiet
  BY <1>1, <1>2, QuietStream
<1>3. CASE Connect
  BY <1>1, <1>3, ConnectStream
<1>4. CASE ProcessNewData
  BY <1>1, <1>4, ProcessNewDataStream
<1>5. CASE CheckStartNewRequests
  <2>1. \E n, m, batch : Starting(n, m, batch)
    BY DEF Starting
  <2> QED
    BY <1>1, <1>5, <2>1, CheckStartNewRequestsStream
<1>6. CASE Answers
  BY <1>1, <1>6, AnswerStream DEF Answers
<1> QED
  BY <1>2, <1>3, <1>4, <1>5, <1>6, QuietOrNot DEF StreamInv

\* If no request is sent twice, the stream invariant holds.
LEMMA StreamInvariance == ASSUME NoneSentTwice PROVE Spec => []StreamInv
<1>1. QueueInv /\ StreamInv /\ [Next]_vars => StreamInv' /\ QueueInv'
  BY NextQueueInv, NextStream
<1>2. Init => QueueInv /\ StreamInv
  BY InitStream, InitQueueInv
<1> QED
  BY <1>1, <1>2, PTL DEF Spec

-----------------------------------------------------------------------------
(* The assertion on the last answer *)

\* The assertion fails at a request, the last according to one of the two signs and not
\* to the other: then further requests are outstanding or the server closes early.
LEMMA MismatchStep ==
  ASSUME StreamInv, NoneSentTwice, ProcessNewData, fault' = "keepAliveMismatch",
         NEW r, r = Head(reqQueue), NEW d, d = ParseData(r, recvBuf)
  PROVE  MismatchNeedsPipelining'
<1> DEFINE first == d.hdr.kind = "hdr" /\ ~aHdrReceived
           remaining == IF first THEN RemainingAfterFirst(d.hdr.max)
                        ELSE keepAliveMaxRemaining
           done == IsCompleted(r, d.hdr, d.pld)
           last == remaining = 0 \/ d.hdr.close
<1>1. /\ Fail("keepAliveMismatch") /\ reqQueue # <<>> /\ pc = "process"
      /\ ~(first /\ d.hdr.max <= 0)
      /\ done /\ last /\ ~(remaining = 0 /\ d.hdr.close)
  BY DEF ProcessNewData, Fail, Running
<1> HIDE DEF first, remaining, done, last
<1>2. r \in Req /\ r = Current /\ recvBuf # <<>> /\ r \in Nat
  BY <1>1, StreamFacts, FrontRequest, ConstantFacts
     DEF StreamInv, BaseInv, QueueInv, IInv, BufferFilled
<1>3. PICK start \in Int :
        /\ AnswerFrom(start, r) /\ IsHeader(d.hdr, r)
        /\ d.pld \in 0..BodyOf(r) /\ d.parsed = start + d.pld /\ d.parsed \in 0..Len(recvBuf)
        /\ d.pld < BodyOf(r) => d.parsed = Len(recvBuf)
        /\ IsCompleted(r, d.hdr, d.pld) <=> d.pld = BodyOf(r)
  BY <1>2, ParseFacts
<1>4. /\ d.hdr.kind = "hdr" /\ d.hdr.max = (IF d.hdr.close THEN -1 ELSE ServerLimit - r)
      /\ first <=> ~aHdrReceived
  BY <1>2, <1>3, HeaderFacts DEF first
<1>5. /\ served \in Nat /\ ServerLimit \in Nat /\ served <= ServerLimit /\ Len(wire) \in Nat
      /\ Len(Stream) \in Nat /\ BodyOf(r) \in Nat /\ Len(recvBuf) \in Nat
  BY <1>2, StreamFacts, ConstantFacts, LenProperties DEF StreamInv, BaseInv, ServerFacts, TypeOK
<1>6. /\ UNCHANGED <<wire, inbox, recvBuf, closing, served, reqQueue>>
      /\ Outstanding' = Outstanding
  BY <1>1 DEF Fail, network, thread, shared, Outstanding
\* The counter counts what is sent.
<1>7. /\ remaining # 0 /\ d.hdr.close => served < ServerLimit
      /\ remaining = 0 /\ tcp = "established" => served + Len(wire) >= ServerLimit
  <2>1. CASE first
    <3>1. r = 1 /\ ~aHdrReceived
      BY <1>2, <1>4, <2>1, OnlyFirst
    <3>2. ~d.hdr.close /\ d.hdr.max = ServerLimit - 1
      BY <1>1, <1>4, <2>1, <3>1
    <3>3. remaining = 0 => ServerLimit <= NumSent
      BY <1>1, <2>1, <3>1, <3>2, FirstAnswer DEF remaining
    <3> QED
      BY <3>1, <3>2, <3>3 DEF StreamInv, StreamParts, MarksAreRight
  <2>2. CASE ~first
    <3>1. aHdrReceived /\ remaining = keepAliveMaxRemaining /\ keepAliveMax # -1
      BY <1>4, <2>2 DEF remaining, StreamInv, StreamParts, RemainingIsRight
    <3>2. keepAliveMaxRemaining \in Nat
      BY <1>1, <3>1, StreamFacts DEF StreamInv, BaseInv, QueueInv, IInv, LimitsAgree
    <3>3. keepAliveMaxRemaining # 0 =>
            /\ keepAliveMaxRemaining = ServerLimit - NumSent /\ served <= NumSent /\ NumSent \in Nat
      BY <1>1, <3>1 DEF StreamInv, StreamParts, RemainingIsRight, MarksAreRight, Rounds
    <3>4. keepAliveMaxRemaining = 0 /\ tcp = "established" => served + Len(wire) >= ServerLimit
      BY <1>1, <3>1 DEF StreamInv, StreamParts, RemainingIsRight, Rounds
    <3> QED
      BY <1>5, <3>1, <3>2, <3>3, <3>4
  <2> QED
    BY <2>1, <2>2
\* What is not read of the stream is outstanding.
<1>8. ASSUME NEW i \in 1..Len(Stream) PROVE Stream[i].req \in Outstanding
  <2>1. /\ Len(Stream) = Len(recvBuf) + Len(inbox) /\ Len(inbox) \in Nat
        /\ DOMAIN inbox = 1..Len(inbox) /\ DOMAIN recvBuf = 1..Len(recvBuf)
        /\ \A j \in 1..Len(recvBuf) : Stream[j] = recvBuf[j]
        /\ \A j \in 1..Len(inbox) : Stream[Len(recvBuf) + j] = inbox[j]
    BY StreamFacts, StreamType, LenProperties DEF TypeOK
  <2>2. CASE i <= Len(recvBuf)
    <3>1. i \in 1..Len(recvBuf) /\ Stream[i] = recvBuf[i]
      BY <1>5, <2>1, <2>2
    <3> QED
      BY <2>1, <3>1 DEF Outstanding
  <2>3. CASE ~(i <= Len(recvBuf))
    <3>1. i - Len(recvBuf) \in 1..Len(inbox) /\ Len(recvBuf) + (i - Len(recvBuf)) = i
      BY <1>5, <2>1, <2>3
    <3>2. Stream[i] = inbox[i - Len(recvBuf)]
      BY <2>1, <3>1
    <3> QED
      BY <2>1, <3>1, <3>2 DEF Outstanding
  <2> QED
    BY <2>2, <2>3
<1>9. ASSUME r < served PROVE r + 1 \in Outstanding
  <2>1. ASSUME NEW e \in Int, e = start + BodyOf(r) + 1 PROVE r + 1 \in Outstanding
    <3>1. e = d.parsed + 1 /\ e >= 1
      BY <1>1, <1>3, <1>5, <2>1 DEF done
    <3>2. AnswerDue(e, r + 1)
      BY <1>3, <2>1 DEF AnswerFrom
    <3>3. e <= Len(Stream)
      BY <1>2, <1>5, <1>9, <3>1, <3>2 DEF AnswerDue
    <3>4. IsHeader(Stream[e], r + 1) /\ e \in 1..Len(Stream)
      BY <1>5, <3>1, <3>2, <3>3 DEF AnswerDue
    <3>5. Stream[e].req = r + 1
      BY <3>4 DEF IsHeader, Header
    <3> QED
      BY <1>8, <3>4, <3>5
  <2> QED
    BY <1>5, <2>1
<1>10. r <= served
  BY <1>3 DEF AnswerFrom
<1>11. ASSUME wire # <<>> PROVE \E x \in Outstanding : x # r
  <2>1. 1 \in 1..Len(wire) /\ 1 \in DOMAIN wire /\ wire[1] = served + 1
    BY <1>11, StreamFacts, EmptySeq, LenProperties DEF StreamInv, StreamParts, WireInOrder
  <2>2. wire[1] \in Outstanding
    BY <2>1 DEF Outstanding
  <2> QED
    BY <1>2, <1>5, <1>10, <2>1, <2>2
<1>12. CASE d.hdr.close
  BY <1>1, <1>3, <1>6, <1>7, <1>12 DEF IsHeader, MismatchNeedsPipelining
<1>13. CASE ~d.hdr.close
  <2>1. remaining = 0 /\ r < ServerLimit
    <3>1. r <= ServerLimit
      BY <1>2, <1>5, <1>10
    <3>2. r # ServerLimit
      BY <1>3, <1>13 DEF IsHeader
    <3> QED
      BY <1>1, <1>2, <1>5, <1>13, <3>1, <3>2 DEF last
  <2>2. CASE r < served \/ wire # <<>>
    <3>1. \E x \in Outstanding : x # r
      <4>1. r + 1 # r
        BY <1>2
      <4> QED
        BY <1>9, <1>11, <2>2, <4>1
    <3> QED
      BY <1>6, <3>1 DEF MismatchNeedsPipelining
  <2>3. CASE ~(r < served) /\ wire = <<>>
    <3>1. served < ServerLimit /\ Len(wire) = 0
      BY <1>2, <1>5, <1>10, <2>1, <2>3, EmptySeq
    <3>2. tcp # "established"
      BY <1>5, <1>7, <2>1, <3>1
    <3>3. closing
      BY <1>1, <3>2 DEF StreamInv, BaseInv, ServerFacts, Rounds
    <3> QED
      BY <1>6, <3>1, <3>3 DEF MismatchNeedsPipelining
  <2> QED
    BY <2>2, <2>3
<1> QED
  BY <1>12, <1>13

\* Whatever the client sends ahead, an answer completes the request it belongs to: if
\* no request is sent twice, requests complete in order, each with the header of its
\* answer and behind its whole body.
THEOREM OwnAnswers == ASSUME NoneSentTwice PROVE Spec => []AnswersOwnRequest
<1>1. StreamInv => AnswersOwnRequest
  <2> SUFFICES ASSUME StreamInv, NEW i \in DOMAIN completed
               PROVE  hdr[completed[i]].req = completed[i]
    BY DEF AnswersOwnRequest
  <2>1. i \in 1..Len(completed) /\ completed[i] = i /\ i \in Req /\ i < Current
    <3>1. completed \in Seq(Req) /\ i \in 1..Len(completed) /\ completed[i] \in Req
      BY StreamFacts, LenProperties, ElementOfSeq
    <3> QED
      BY <3>1, StreamFacts DEF StreamInv, StreamParts, AnswersInOrder
  <2>2. IsHeader(hdr[i], i)
    BY <2>1 DEF StreamInv, StreamParts, AnswersInOrder
  <2> QED
    BY <2>1, <2>2, HeaderFacts
<1> QED
  BY <1>1, StreamInvariance, PTL

\* If no request is sent twice, the assertion on the last answer fails only while
\* another request is outstanding, or when the server closes before its limit.
THEOREM MismatchOnlyPipelined ==
  ASSUME NoneSentTwice PROVE Spec => []MismatchNeedsPipelining
<1>1. Init => MismatchNeedsPipelining
  BY DEF Init, MismatchNeedsPipelining
<1>2. StreamInv /\ MismatchNeedsPipelining /\ [Next]_vars => MismatchNeedsPipelining'
  <2> SUFFICES ASSUME StreamInv, MismatchNeedsPipelining, [Next]_vars,
                      fault' = "keepAliveMismatch"
               PROVE  MismatchNeedsPipelining'
    BY DEF MismatchNeedsPipelining
  <2>1. CASE UNCHANGED vars
    BY <2>1 DEF vars, shared, network, thread, MismatchNeedsPipelining, Outstanding
  <2>2. CASE ProcessNewData
    BY <2>2, MismatchStep
  <2>3. CASE ~UNCHANGED vars /\ ~ProcessNewData
    BY <2>3 DEF Next, ControlThread, HttpThread, Server, Construct, NewRequest,
                ClearUnfinishedRequests, Terminate, Destroy, Connect, ConnectTimeout, LeaveLoop,
                WaitForEvents, Read, ReportDisconnect, CheckStartNewRequests, Answer, FinArrives,
                Fail, Running
  <2> QED
    BY <2>1, <2>2, <2>3
<1> QED
  BY <1>1, <1>2, StreamInvariance, PTL DEF Spec

-----------------------------------------------------------------------------
(* The limits *)

\* Before the first answer is processed nothing is completed, all requests that are sent
\* are marked, and the stream begins with the first answer.
BeforeFirst ==
  ~aHdrReceived =>
    /\ completed = <<>> /\ keepAliveMax = KnownLimit
    /\ \A r \in Req : hdr[r].kind = "none"
    /\ sent = 1..NumSent /\ NumSent \in Nat
    /\ tcp = "established" => NumSent = served + Len(wire)
    /\ Stream = <<>> => served = 0
    /\ Stream # <<>> => Stream[1].kind = "hdr" /\ Stream[1].max \in {-1, ServerLimit - 1}

\* What remains, what is answered and what is on its way add up to the limit.
SumKept ==
  keepAliveMax # -1 =>
    /\ keepAliveMax = ServerLimit
    /\ tcp = "established" => keepAliveMaxRemaining + served + Len(wire) = ServerLimit

\* The limit invariant.
LimitInv == BaseInv /\ BeforeFirst /\ SumKept

\* Either the limit is known when the connection is made, or the client never sends
\* more requests ahead than the server serves.
NeverBeyondLimit == KnownLimit # -1 \/ FewPending(ServerLimit)

\* Steps that neither send nor receive keep the sum.
LEMMA QuietLimit ==
  ASSUME LimitInv, Quiet, BaseInv'
  PROVE  LimitInv'
<1>1. BeforeFirst'
  BY DEF LimitInv, BeforeFirst, NumSent, Quiet, limits
<1>2. SumKept'
  BY DEF LimitInv, SumKept, Quiet, limits
<1> QED
  BY <1>1, <1>2 DEF LimitInv

\* In the beginning nothing is sent.
LEMMA InitLimit == Init => LimitInv
<1> SUFFICES ASSUME Init PROVE LimitInv
  OBVIOUS
<1>1. BaseInv
  BY InitBase
<1>2. Stream = <<>>
  BY EmptySeq, ConcatEmptySeq DEF Init, Stream
<1>3. sent = 1..0 /\ NumSent = 0
  BY CountOf DEF Init, NumSent
<1>4. BeforeFirst
  BY <1>2, <1>3 DEF Init, BeforeFirst, NoHdr
<1>5. SumKept
  BY ConstantFacts DEF Init, SumKept
<1> QED
  BY <1>1, <1>4, <1>5 DEF LimitInv

\* The connection is made: all of the limit remains.
LEMMA ConnectLimit ==
  ASSUME LimitInv, BaseInv', Connect
  PROVE  LimitInv'
<1>1. /\ pc = "connect" /\ keepAliveMaxRemaining' = keepAliveMax
      /\ UNCHANGED <<served, hdr, completed, sent, aHdrReceived, keepAliveMax, wire,
                     inbox, recvBuf>>
  BY DEF Connect, request, history
<1>2. sent = {} /\ wire = <<>> /\ served = 0 /\ Len(wire) = 0
  BY <1>1, EmptySeq DEF LimitInv, BaseInv, ServerFacts
<1>3. NumSent = 0
  BY <1>2, CountOf DEF NumSent
<1>4. Stream' = Stream /\ NumSent' = NumSent
  BY <1>1 DEF Stream, NumSent
<1>5. BeforeFirst'
  BY <1>1, <1>2, <1>3, <1>4 DEF LimitInv, BeforeFirst
<1>6. SumKept'
  BY <1>1, <1>2, ConstantFacts DEF LimitInv, SumKept
<1> QED
  BY <1>5, <1>6 DEF LimitInv

\* An answer moves a request from the wire to those that are served.
LEMMA AnswerLimit ==
  ASSUME LimitInv, BaseInv', wire # <<>>,
         NEW close \in BOOLEAN, NEW units \in 0..BodyOf(Head(wire)), Answer(close, units)
  PROVE  LimitInv'
<1>1. /\ tcp = "established" /\ wire' = Tail(wire) /\ served' = served + 1
      /\ UNCHANGED <<hdr, completed, sent, aHdrReceived, keepAliveMax,
                     keepAliveMaxRemaining, tcp>>
  BY DEF Answer, request, limits, history
<1>2. /\ Len(wire') = Len(wire) - 1 /\ Len(wire) \in Nat /\ Len(wire') \in Nat
      /\ served \in Nat /\ Head(wire) \in Req
  BY <1>1, BaseTypes, HeadTailProperties DEF LimitInv
<1>3. Len(Stream) \in Nat /\ units \in Nat /\ Stream \in Seq(Unit)
  BY <1>2, BaseTypes, ConstantFacts DEF LimitInv
<1>4. /\ Len(Stream') = Len(Stream) + 1 + units
      /\ \A i \in 1..Len(Stream) : Stream'[i] = Stream[i]
      /\ Stream'[Len(Stream) + 1] = Header(Head(wire), close, ServerLimit - served - 1)
  BY AnswerArrives DEF LimitInv
<1>5. Stream' # <<>>
  BY <1>3, <1>4, EmptySeq
<1>6. ASSUME ~aHdrReceived
      PROVE  Stream'[1].kind = "hdr" /\ Stream'[1].max \in {-1, ServerLimit - 1}
  <2>1. CASE Stream = <<>>
    <3>1. Stream'[1] = Header(Head(wire), close, ServerLimit - served - 1) /\ served = 0
      BY <1>4, <1>6, <2>1, EmptySeq DEF LimitInv, BeforeFirst
    <3>2. ServerLimit - served - 1 = ServerLimit - 1
      BY <3>1, ConstantFacts
    <3> QED
      BY <3>1, <3>2 DEF Header
  <2>2. CASE Stream # <<>>
    <3>1. 1 \in 1..Len(Stream)
      BY <1>3, <2>2, EmptySeq
    <3> QED
      BY <1>4, <1>6, <2>2, <3>1 DEF LimitInv, BeforeFirst
  <2> QED
    BY <2>1, <2>2
<1>7. NumSent' = NumSent
  BY <1>1 DEF NumSent
<1>8. BeforeFirst'
  <2>1. ~aHdrReceived => NumSent = served' + Len(wire')
    BY <1>1, <1>2 DEF LimitInv, BeforeFirst
  <2> QED
    BY <1>1, <1>5, <1>6, <1>7, <2>1 DEF LimitInv, BeforeFirst
<1>9. SumKept'
  <2>1. served' + Len(wire') = served + Len(wire)
    BY <1>1, <1>2
  <2>2. keepAliveMaxRemaining \in Int
    BY BaseTypes DEF LimitInv
  <2>3. keepAliveMaxRemaining + served' + Len(wire') = keepAliveMaxRemaining + served + Len(wire)
    BY <1>1, <1>2, <2>1, <2>2
  <2> QED
    BY <1>1, <2>3 DEF LimitInv, SumKept
<1> QED
  BY <1>8, <1>9 DEF LimitInv

\* The first answer tells the limit, and the counter counts from it what has been sent.
LEMMA FirstAnswerLimit ==
  ASSUME LimitInv, NeverBeyondLimit, reqQueue # <<>>, pc = "process", ~aHdrReceived,
         tcp = "established", NEW rem, rem = RemainingAfterFirst(ServerLimit - 1)
  PROVE  rem + served + Len(wire) = ServerLimit
<1> DEFINE p == NumPendingRequests(reqQueue, sent)
<1>1. /\ NumSent \in Nat /\ sent = 1..NumSent /\ NumSent = served + Len(wire)
      /\ completed = <<>> /\ keepAliveMax = KnownLimit
  BY DEF LimitInv, BeforeFirst
<1>2. Settled = 0
  BY <1>1, FrontRequest, EmptySeq DEF LimitInv, BaseInv
<1>3. p = NumSent /\ NumSent <= Len(reqQueue)
  BY <1>1, <1>2, SentArePending DEF LimitInv, BaseInv
<1> HIDE DEF p
<1>4. /\ ServerLimit \in Nat \ {0} /\ served \in Nat /\ Len(wire) \in Nat
      /\ keepAliveMaxRemaining \in Nat \cup {-1}
  BY BaseTypes, ConstantFacts DEF LimitInv
<1>5. NumSent <= ServerLimit
  <2>1. CASE KnownLimit # -1
    <3>1. keepAliveMaxRemaining # -1
      BY <1>1, <2>1 DEF LimitInv, BaseInv, QueueInv, IInv, LimitsAgree
    <3>2. keepAliveMaxRemaining + served + Len(wire) = ServerLimit
      BY <1>1, <2>1 DEF LimitInv, SumKept
    <3> QED
      BY <1>1, <1>4, <3>1, <3>2
  <2>2. CASE FewPending(ServerLimit)
    BY <1>1, <1>2, <1>3, <1>4, <2>2, PendingAreFew DEF LimitInv
  <2> QED
    BY <2>1, <2>2 DEF NeverBeyondLimit
<1>6. rem = ServerLimit - NumSent
  BY <1>1, <1>3, <1>4, <1>5 DEF RemainingAfterFirst, p
<1> QED
  BY <1>1, <1>4, <1>6

\* Only the first answer changes the counter.
LEMMA ProcessNewDataLimit ==
  ASSUME LimitInv, BaseInv', NeverBeyondLimit, ProcessNewData,
         NEW r, r = Head(reqQueue), NEW d, d = ParseData(r, recvBuf)
  PROVE  LimitInv'
<1> DEFINE first == d.hdr.kind = "hdr" /\ ~aHdrReceived
           remaining == IF first THEN RemainingAfterFirst(d.hdr.max)
                        ELSE keepAliveMaxRemaining
           Failed == \/ Fail("noRequest") \/ Fail("firstHeader")
                     \/ Fail("keepAliveMismatch") \/ Fail("trailingBytes")
                     \/ Fail("notConstructed")
<1>1. CASE Failed
  BY <1>1, FailQuiet, QuietLimit DEF LimitInv
<1>2. CASE ~Failed
  <2>1. /\ reqQueue # <<>> /\ pc = "process" /\ ~(first /\ d.hdr.max <= 0)
        /\ aHdrReceived' = (aHdrReceived \/ first)
        /\ keepAliveMax' = IF first THEN d.hdr.max + 1 ELSE keepAliveMax
        /\ keepAliveMaxRemaining' = remaining
        /\ UNCHANGED <<tcp, wire, served>>
    BY <1>2, Zenon DEF ProcessNewData, network
  <2> HIDE DEF first, remaining, Failed
  <2>2. CASE aHdrReceived
    <3>1. ~first
      BY <2>2 DEF first
    <3> QED
      BY <2>1, <2>2, <3>1 DEF remaining, LimitInv, BeforeFirst, SumKept
  <2>3. CASE ~aHdrReceived
    <3>1. /\ recvBuf # <<>> /\ recvBuf \in Seq(Unit) /\ TypeOK /\ r \in Req
          /\ Len(recvBuf) \in Nat /\ Len(recvBuf) # 0
      BY <2>1, FrontRequest, EmptySeq, LenProperties
         DEF LimitInv, BaseInv, QueueInv, IInv, BufferFilled, TypeOK
    <3>2. Stream # <<>> /\ Stream[1] = recvBuf[1]
      <4>1. Len(Stream) # 0 /\ 1 \in 1..Len(recvBuf)
        BY <3>1, StreamType
      <4> QED
        BY <3>1, <4>1, StreamType, EmptySeq
    <3>3. d.hdr = recvBuf[1]
      BY <2>3, <3>1, <3>2 DEF LimitInv, BeforeFirst, ParseData
    <3>4. first /\ d.hdr.max = ServerLimit - 1
      BY <2>1, <2>3, <3>2, <3>3 DEF first, LimitInv, BeforeFirst
    <3>5. keepAliveMax' = ServerLimit
      BY <2>1, <3>4, ConstantFacts
    <3>6. tcp = "established" => keepAliveMaxRemaining' + served + Len(wire) = ServerLimit
      BY <2>1, <2>3, <3>4, FirstAnswerLimit DEF remaining
    <3> QED
      BY <2>1, <3>4, <3>5, <3>6 DEF LimitInv, BeforeFirst, SumKept
  <2> QED
    BY <2>2, <2>3
<1> QED
  BY <1>1, <1>2

\* What is sent is subtracted.
LEMMA CheckStartNewRequestsLimit ==
  ASSUME LimitInv, BaseInv', CheckStartNewRequests,
         NEW n, NEW m, NEW batch, Starting(n, m, batch)
  PROVE  LimitInv'
<1>1. CASE Fail("eventfd") \/ Fail("clientLimit") \/ Fail("write")
  BY <1>1, FailQuiet, QuietLimit DEF LimitInv
<1>2. CASE ~(Fail("eventfd") \/ Fail("clientLimit") \/ Fail("write"))
  <2>1. /\ sent' = sent \cup {batch[i] : i \in 1..m}
        /\ keepAliveMaxRemaining' = IF keepAliveMax = -1 THEN keepAliveMaxRemaining
                                    ELSE keepAliveMaxRemaining - m
        /\ wire' = wire \o batch
        /\ m > 0 => tcp = "established"
        /\ UNCHANGED <<hdr, aHdrReceived, keepAliveMax, recvBuf, tcp, inbox, served, completed>>
    BY <1>2 DEF CheckStartNewRequests, history, WriteFails, Starting
  <2>2. /\ n \in Nat /\ m \in Nat /\ n + m <= Len(Pending)
        /\ batch \in Seq(Req) /\ Len(batch) = m
    BY StartFacts DEF LimitInv, BaseInv
  <2>3. /\ wire \in Seq(Req) /\ Len(wire) \in Nat /\ served \in Nat
        /\ keepAliveMaxRemaining \in Int
    BY BaseTypes DEF LimitInv
  <2>4. Len(wire') = Len(wire) + m /\ Stream' = Stream
    BY <2>1, <2>2, <2>3, ConcatProperties DEF Stream
  <2>5. SumKept'
    BY <2>1, <2>2, <2>3, <2>4 DEF LimitInv, SumKept
  <2>6. ASSUME ~aHdrReceived
        PROVE  /\ sent' = 1..NumSent' /\ NumSent' \in Nat
               /\ tcp = "established" => NumSent' = served + Len(wire')
    <3>1. /\ sent = 1..NumSent /\ NumSent \in Nat /\ completed = <<>>
          /\ tcp = "established" => NumSent = served + Len(wire)
      BY <2>6 DEF LimitInv, BeforeFirst
    <3>2. CASE m = 0
      <4>1. sent' = sent
        BY <2>1, <3>2
      <4> QED
        BY <2>2, <2>3, <2>4, <3>1, <3>2, <4>1 DEF NumSent
    <3>3. CASE m > 0
      <4>1. Settled = 0
        <5>1. Pending # <<>>
          BY <2>2, <3>3, EmptySeq
        <5>2. returned = <<>>
          BY <5>1 DEF LimitInv, BaseInv, QueueInv, IInv, HandedBackLast
        <5> QED
          BY <3>1, <5>2, EmptySeq DEF Settled
      <4> DEFINE N == NumSent
      <4>2. sent' = 1..(N + m) /\ NumSent' = N + m
        BY <2>1, <3>1, <3>3, <4>1, SentGrows DEF LimitInv, BaseInv
      <4>3. N \in Nat /\ (tcp = "established" => N = served + Len(wire))
        BY <3>1
      <4> HIDE DEF N
      <4> QED
        BY <2>2, <2>3, <2>4, <4>2, <4>3
    <3> QED
      BY <2>2, <3>2, <3>3
  <2>7. BeforeFirst'
    BY <2>1, <2>4, <2>6 DEF LimitInv, BeforeFirst
  <2> QED
    BY <2>5, <2>7 DEF LimitInv
<1> QED
  BY <1>1, <1>2

\* Every step keeps the sum.
LEMMA NextLimit ==
  ASSUME LimitInv, QueueInv', NeverBeyondLimit, [Next]_vars
  PROVE  LimitInv'
<1>1. BaseInv'
  BY NextBase DEF LimitInv
<1>2. CASE Quiet
  BY <1>1, <1>2, QuietLimit
<1>3. CASE Connect
  BY <1>1, <1>3, ConnectLimit
<1>4. CASE ProcessNewData
  BY <1>1, <1>4, ProcessNewDataLimit
<1>5. CASE CheckStartNewRequests
  <2>1. \E n, m, batch : Starting(n, m, batch)
    BY DEF Starting
  <2> QED
    BY <1>1, <1>5, <2>1, CheckStartNewRequestsLimit
<1>6. CASE Answers
  BY <1>1, <1>6, AnswerLimit DEF Answers
<1> QED
  BY <1>2, <1>3, <1>4, <1>5, <1>6, QuietOrNot DEF LimitInv

\* Unless the client sends more requests ahead than the server serves before it knows
\* the limit, what remains of the server's limit, what it has answered and what is on its
\* way to it always add up to the limit; and the client's own limits are kept whatever
\* the constants are.
THEOREM LimitsKept == ASSUME NeverBeyondLimit PROVE Spec => []LimitsRespected
<1>1. QueueInv /\ LimitInv /\ [Next]_vars => LimitInv' /\ QueueInv'
  BY NextQueueInv, NextLimit
<1>2. Init => QueueInv /\ LimitInv
  BY InitLimit, InitQueueInv
<1>3. LimitInv => ServerLimitRespected
  BY DEF LimitInv, SumKept, ServerLimitRespected
<1>4. ServerLimitRespected /\ ClientLimitsRespected => LimitsRespected
  BY DEF LimitsRespected
<1> QED
  BY <1>1, <1>2, <1>3, <1>4, ClientLimits, PTL DEF Spec
=============================================================================
