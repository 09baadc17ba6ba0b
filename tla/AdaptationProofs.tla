-------------------------- MODULE AdaptationProofs --------------------------
(***************************************************************************)
(* Proofs about Adaptation: its type invariant, the bound on the buffer,   *)
(* the absence of failed assertions, and that the quality in use has been  *)
(* affordable, for every configuration of the algorithm.                   *)
(***************************************************************************)
EXTENDS Adaptation, SequenceTheorems, TLAPS

\* A part of the inductive invariant: one segment is under way at a time, and
\* it is in one place.
OneUnderWay ==
  /\ request # <<>> =>
       arrived = <<>> /\ delayedRequests = <<>> /\ request[1].seg # 0
  /\ arrived # <<>> =>
       delayedRequests = <<>> /\ arrived[1].type = "dataReceived" /\ arrived[1].req.seg # 0
  /\ played # <<>> => played[1].type = "dataPlayed"
  /\ delayedRequests # <<>> => delayedRequests[1].seg # 0

\* The same for the events that wait.
OneEventUnderWay ==
  /\ \A i \in DOMAIN events :
       events[i].type = "dataReceived" =>
         /\ delayedRequests = <<>>
         /\ events[i].req.seg = 0 => i = 1
         /\ events[i].req.seg # 0 => request = <<>> /\ arrived = <<>>
  /\ \A i, j \in DOMAIN events :
       /\ events[i].type = "dataReceived" /\ events[i].req.seg # 0
       /\ events[j].type = "dataReceived" /\ events[j].req.seg # 0
       => i = j

\* Where the segment under way may take the buffer.
Ceiling(q) == Cap(q + early)

BoundedRequest ==
  request # <<>> => level + left < Ceiling(request[1].quality)

BoundedArrival ==
  arrived # <<>> =>
    level <= arrived[1].beta /\ arrived[1].beta < Ceiling(arrived[1].req.quality)

BoundedEvents ==
  \A i \in DOMAIN events :
    events[i].type = "dataReceived" /\ events[i].req.seg # 0 =>
      level <= events[i].beta /\ events[i].beta < Ceiling(events[i].req.quality)

\* Released at b or below, r stays under the ceiling of its quality.
FitsAt(r, b) == b + Duration[r.quality][r.seg] < Ceiling(r.quality)

BoundedDelayed ==
  delayedRequests # <<>> =>
    /\ level < Ceiling(delayedRequests[1].quality)
    /\ FitsAt(delayedRequests[1], Bdelay) \/ FitsAt(delayedRequests[1], level)

IInv ==
  /\ TypeOK
  /\ OneUnderWay /\ OneEventUnderWay
  /\ BufferBounded
  /\ BoundedRequest /\ BoundedArrival /\ BoundedEvents /\ BoundedDelayed
  /\ AssertionsHold

-----------------------------------------------------------------------------
(* Constants and arithmetic *)

\* The numbers among the constants.
LEMMA ConstantFacts ==
  /\ Highest \in Nat \ {0} /\ LastSeg \in Nat \ {0} /\ MaxDuration \in Nat \ {0}
  /\ Bmin \in Nat /\ Blow \in Nat /\ Bhigh \in Nat /\ Bmin <= Blow /\ Blow < Bhigh
  /\ NoDelay \in Nat \ {0} /\ Rates \subseteq Nat
  /\ Quality = 1..Highest
BY AdaptationAssumption DEF Highest, Quality

\* A segment that has a duration has one between 1 and MaxDuration.
LEMMA DurationFacts ==
  ASSUME NEW q \in Quality, NEW s \in Seg \ {0}
  PROVE  /\ Duration[q][s] \in Nat
         /\ 1 <= Duration[q][s] /\ Duration[q][s] <= MaxDuration
<1>1. Duration \in [Quality -> [1..LastSeg -> 1..MaxDuration]] /\ s \in 1..LastSeg
  BY AdaptationAssumption DEF Seg
<1>2. Duration[q] \in [1..LastSeg -> 1..MaxDuration]
  BY <1>1
<1>3. Duration[q][s] \in 1..MaxDuration
  BY <1>1, <1>2
<1> QED
  BY <1>3, ConstantFacts

\* The segment after one that needs a decision, and its parts.
LEMMA RequestFacts ==
  ASSUME NEW r \in Request
  PROVE  /\ r.seg \in Seg /\ r.quality \in Quality
         /\ r.quality \in Nat /\ 1 <= r.quality /\ r.quality <= Highest
         /\ r.seg \notin {0, LastSeg} => r.seg + 1 \in Seg \ {0}
BY ConstantFacts DEF Request, Seg

\* What the ceilings are: naturals, a segment's longest duration apart.
LEMMA CapFacts ==
  /\ \A k \in Nat : Cap(k) \in Nat /\ Cap(k + 1) = Cap(k) + MaxDuration
  /\ \A k \in Nat : Cap(k) >= Bhigh
<1>1. \A k \in Nat : k * MaxDuration \in Nat
  BY ConstantFacts, SMT
<1>2. \A k \in Nat : (k + 1) * MaxDuration = k * MaxDuration + MaxDuration
  BY ConstantFacts, SMT
<1> QED
  BY <1>1, <1>2, ConstantFacts DEF Cap

\* The ceilings grow.
LEMMA CapMonotone ==
  ASSUME NEW j \in Nat, NEW k \in Nat, j <= k
  PROVE  Cap(j) <= Cap(k)
<1>1. j * MaxDuration <= k * MaxDuration
  BY ConstantFacts, SMT
<1>2. j * MaxDuration \in Int /\ k * MaxDuration \in Int
  BY ConstantFacts, SMT
<1> QED
  BY <1>1, <1>2, ConstantFacts DEF Cap

\* Rounding down to whole seconds takes away less than a second.
LEMMA WholeSecondsFacts ==
  ASSUME NEW x \in Nat
  PROVE  /\ WholeSeconds(x) \in Nat
         /\ WholeSeconds(x) <= x /\ x < WholeSeconds(x) + 2
BY DEF WholeSeconds

-----------------------------------------------------------------------------
(* The decision *)

\* The level to wait for leaves room for the next segment, and it is not zero
\* unless a segment may last as long as Bhigh.
LEMMA DelayUntilFacts ==
  ASSUME NEW r \in Request, r.seg \notin {0, LastSeg}, NEW beta \in Nat
  PROVE  /\ DelayUntil(r, beta) \in Int
         /\ DelayUntil(r, beta) > 0 \/ Bhigh <= MaxDuration
         /\ \/ DelayUntil(r, beta) + Duration[r.quality][r.seg + 1] <= beta
            \/ DelayUntil(r, beta) + Duration[r.quality][r.seg + 1] < Bhigh + MaxDuration
<1> DEFINE duration == Duration[r.quality][r.seg + 1]
           mid == (Blow + Bhigh) \div 2
           whole == WholeSeconds(Blow + Bhigh) \div 2
<1>1. duration \in Nat /\ 1 <= duration /\ duration <= MaxDuration
  BY RequestFacts, DurationFacts
<1>2. mid \in Nat /\ mid < Bhigh /\ (mid > 0 \/ Bhigh <= 1)
  BY ConstantFacts
<1>3. whole \in Nat /\ whole < Bhigh /\ (whole > 0 \/ Bhigh <= 1)
  <2>1. Blow + Bhigh \in Nat /\ Blow + Bhigh < 2 * Bhigh
    BY ConstantFacts
  <2> QED
    BY <2>1, WholeSecondsFacts, ConstantFacts DEF WholeSeconds
<1>4. WholeSeconds(beta) \in Nat /\ WholeSeconds(beta) <= beta
  BY WholeSecondsFacts
<1> DEFINE margin == IF r.quality = Highest THEN 2 ELSE 0
<1>5. DelayUntil(r, beta) = IF beta < Bhigh THEN Larger(beta - duration, mid)
                            ELSE Larger(WholeSeconds(beta) - duration - margin, whole)
  BY DEF DelayUntil
<1>6. margin \in Nat
  OBVIOUS
<1>7. duration = Duration[r.quality][r.seg + 1]
  OBVIOUS
<1> HIDE DEF duration, mid, whole, margin
<1>8. ASSUME NEW x \in Int, x <= beta - duration,
             NEW y \in Nat, y < Bhigh, y > 0 \/ Bhigh <= 1,
             DelayUntil(r, beta) = Larger(x, y)
      PROVE  /\ DelayUntil(r, beta) \in Int
             /\ DelayUntil(r, beta) > 0 \/ Bhigh <= MaxDuration
             /\ \/ DelayUntil(r, beta) + duration <= beta
                \/ DelayUntil(r, beta) + duration < Bhigh + MaxDuration
  <2>1. CASE x < y
    BY <1>1, <1>8, <2>1, ConstantFacts DEF Larger
  <2>2. CASE ~(x < y)
    BY <1>1, <1>8, <2>2, ConstantFacts DEF Larger
  <2> QED
    BY <2>1, <2>2
<1>9. CASE beta < Bhigh
  BY <1>1, <1>2, <1>5, <1>7, <1>8, <1>9
<1>10. CASE ~(beta < Bhigh)
  <2>1. /\ WholeSeconds(beta) - duration - margin \in Int
        /\ WholeSeconds(beta) - duration - margin <= beta - duration
    BY <1>1, <1>4, <1>6
  <2> QED
    BY <1>3, <1>5, <1>7, <1>8, <1>10, <2>1
<1> QED
  BY <1>9, <1>10

\* A decision of the initial increase: a representation that exists, and a
\* level after which the next segment ends at Bhigh.
LEMMA InitialDecisionFacts ==
  ASSUME NEW r \in Request, r.seg \notin {0, LastSeg}, r.quality # Highest,
         NEW beta \in Nat, NEW rho \in Nat
  PROVE  LET d == InitialDecision(r, beta, rho)
         IN  /\ d.quality \in Quality /\ d.quality \in {r.quality, r.quality + 1}
             /\ beta < Blow => d.Bdelay = NoDelay
             /\ beta >= Blow => /\ d.Bdelay \in Int
                                /\ d.Bdelay + Duration[d.quality][r.seg + 1] = Bhigh
                                /\ d.Bdelay > 0 \/ Bhigh <= MaxDuration
<1> DEFINE d == InitialDecision(r, beta, rho)
<1> SUFFICES
      /\ d.quality \in Quality /\ d.quality \in {r.quality, r.quality + 1}
      /\ beta < Blow => d.Bdelay = NoDelay
      /\ beta >= Blow => /\ d.Bdelay \in Int
                         /\ d.Bdelay + Duration[d.quality][r.seg + 1] = Bhigh
                         /\ d.Bdelay > 0 \/ Bhigh <= MaxDuration
  OBVIOUS
<1>1. d.quality \in Quality /\ d.quality \in {r.quality, r.quality + 1}
  BY ConstantFacts, RequestFacts DEF InitialDecision
<1>2. /\ Duration[d.quality][r.seg + 1] \in Nat
      /\ Duration[d.quality][r.seg + 1] <= MaxDuration
  BY <1>1, RequestFacts, DurationFacts
<1>3. d.Bdelay = IF beta < Blow THEN NoDelay ELSE Bhigh - Duration[d.quality][r.seg + 1]
  BY DEF InitialDecision
<1> QED
  BY <1>1, <1>2, <1>3, ConstantFacts

\* A decision of the normal phase: up only without a delay, delayed only at the
\* same quality.
LEMMA NormalDecisionFacts ==
  ASSUME NEW r \in Request, r.seg \notin {0, LastSeg},
         NEW beta \in Nat, NEW rho \in Nat, NEW rhoLast \in Nat
  PROVE  LET d == NormalDecision(r, beta, rho, rhoLast)
         IN  /\ d.quality \in Quality
             /\ \/ d.Bdelay = NoDelay /\ d.quality <= r.quality /\ beta < Bhigh
                \/ d.Bdelay = NoDelay /\ d.quality = r.quality + 1
                \/ d.Bdelay = DelayUntil(r, beta) /\ d.quality = r.quality
<1> DEFINE d == NormalDecision(r, beta, rho, rhoLast)
<1> SUFFICES
      /\ d.quality \in Quality
      /\ \/ d.Bdelay = NoDelay /\ d.quality <= r.quality /\ beta < Bhigh
         \/ d.Bdelay = NoDelay /\ d.quality = r.quality + 1
         \/ d.Bdelay = DelayUntil(r, beta) /\ d.quality = r.quality
  OBVIOUS
<1>1. r.quality \in Quality /\ r.quality \in Nat /\ 1 <= r.quality /\ r.quality <= Highest
  BY RequestFacts
<1>2. /\ LowerUnlessFast(r.quality, rhoLast) \in Quality
      /\ LowerUnlessFast(r.quality, rhoLast) <= r.quality
  BY <1>1, ConstantFacts DEF LowerUnlessFast
<1>3. CASE beta < Bmin
  BY <1>1, <1>3, ConstantFacts DEF NormalDecision
<1>4. CASE beta >= Bmin /\ beta < Blow
  <2>1. NormalDecision(r, beta, rho, rhoLast) =
          [quality |-> LowerUnlessFast(r.quality, rhoLast), Bdelay |-> NoDelay]
    BY <1>4, ConstantFacts DEF NormalDecision
  <2> QED
    BY <1>2, <1>4, <2>1, ConstantFacts
<1>5. CASE beta >= Blow /\ StaysBelow(r.quality, rho)
  <2>1. NormalDecision(r, beta, rho, rhoLast) =
          [quality |-> r.quality, Bdelay |-> DelayUntil(r, beta)]
    BY <1>5, ConstantFacts DEF NormalDecision
  <2> QED
    BY <1>1, <2>1
<1>6. CASE beta >= Blow /\ ~StaysBelow(r.quality, rho)
  <2>1. r.quality # Highest
    BY <1>6 DEF StaysBelow
  <2>2. \/ beta < Bhigh /\ NormalDecision(r, beta, rho, rhoLast)
                             = [quality |-> r.quality, Bdelay |-> NoDelay]
        \/ NormalDecision(r, beta, rho, rhoLast)
             = [quality |-> r.quality + 1, Bdelay |-> NoDelay]
    BY <1>6, ConstantFacts DEF NormalDecision
  <2>3. r.quality + 1 \in Quality
    BY <1>1, <2>1, ConstantFacts
  <2> QED
    BY <1>1, <2>2, <2>3
<1> QED
  BY <1>3, <1>4, <1>5, <1>6, ConstantFacts
\* A decision about the request after r, made at the level beta that r has
\* reached: it keeps the buffer under the ceiling of the quality it chooses,
\* sent at beta or once the level is down to Bdelay.
LEMMA DecisionFits ==
  ASSUME TypeOK,
         NEW r \in Request, r.seg \notin {0, LastSeg},
         NEW beta \in Nat, beta < Ceiling(r.quality),
         NEW rho \in Nat, NEW rhoLast \in Nat,
         NEW initial \in BOOLEAN, initial => r.quality # Highest,
         NEW d, d = SelectRepresentation(r, beta, initial, rho, rhoLast)
  PROVE  /\ NextRequest(r, d.quality) \in Request
         /\ NextRequest(r, d.quality).seg # 0
         /\ beta < Ceiling(d.quality)
         /\ d.Bdelay \in Int
         /\ d.Bdelay > 0 \/ Bhigh <= MaxDuration
         /\ \/ FitsAt(NextRequest(r, d.quality), d.Bdelay)
            \/ FitsAt(NextRequest(r, d.quality), beta)
<1> DEFINE n == NextRequest(r, d.quality)
           duration == Duration[d.quality][r.seg + 1]
<1>1. early \in Nat /\ r.quality \in Nat /\ 1 <= r.quality /\ r.quality <= Highest
  BY RequestFacts DEF TypeOK
<1>2. d.quality \in Quality
  BY InitialDecisionFacts, NormalDecisionFacts DEF SelectRepresentation
<1>3. n \in Request /\ n.seg # 0 /\ n.seg = r.seg + 1 /\ n.quality = d.quality
  BY <1>2, RequestFacts, ConstantFacts DEF NextRequest, Request, Seg
<1>4. duration \in Nat /\ 1 <= duration /\ duration <= MaxDuration
  BY <1>2, RequestFacts, DurationFacts
<1>5. \A b \in Int : FitsAt(n, b) <=> b + duration < Ceiling(d.quality)
  BY <1>3 DEF FitsAt
<1>6. /\ \A q \in Quality : Ceiling(q) \in Nat /\ Bhigh + MaxDuration <= Ceiling(q)
      /\ Ceiling(r.quality + 1) = Ceiling(r.quality) + MaxDuration
      /\ Ceiling(r.quality) \in Nat
  <2>1. ASSUME NEW q \in Quality
        PROVE  Ceiling(q) \in Nat /\ Bhigh + MaxDuration <= Ceiling(q)
    <3>1. q \in Nat /\ 0 + 1 <= q + early /\ q + early \in Nat /\ 0 + 1 \in Nat
      BY <1>1, ConstantFacts
    <3>2. Cap(0 + 1) <= Cap(q + early)
      BY <3>1, CapMonotone
    <3>3. Cap(0 + 1) = Cap(0) + MaxDuration /\ Cap(0) >= Bhigh /\ Cap(0) \in Nat
      BY CapFacts
    <3>4. Cap(q + early) \in Nat
      BY <3>1, CapFacts
    <3> QED
      BY <3>2, <3>3, <3>4, ConstantFacts DEF Ceiling
  <2>2. r.quality + early \in Nat /\ (r.quality + 1) + early = (r.quality + early) + 1
    BY <1>1
  <2> QED
    BY <2>1, <2>2, CapFacts DEF Ceiling
<1> DEFINE ceiling == Ceiling(d.quality)
           fits == /\ beta < ceiling
                   /\ d.Bdelay \in Int
                   /\ d.Bdelay > 0 \/ Bhigh <= MaxDuration
                   /\ d.Bdelay + duration < ceiling \/ beta + duration < ceiling
<1>7. ceiling \in Nat /\ Bhigh + MaxDuration <= ceiling
  BY <1>2, <1>6
<1>8. /\ d.quality = r.quality => ceiling = Ceiling(r.quality)
      /\ d.quality = r.quality + 1 => ceiling = Ceiling(r.quality) + MaxDuration
  BY <1>6
<1> HIDE DEF n, duration, ceiling
<1>9. ASSUME initial PROVE fits
  <2>1. /\ d.quality \in {r.quality, r.quality + 1}
        /\ beta < Blow => d.Bdelay = NoDelay
        /\ beta >= Blow => /\ d.Bdelay \in Int
                           /\ d.Bdelay + duration = Bhigh
                           /\ d.Bdelay > 0 \/ Bhigh <= MaxDuration
    BY <1>9, InitialDecisionFacts DEF duration, SelectRepresentation
  <2>2. beta < ceiling
    BY <1>6, <1>8, <2>1, ConstantFacts
  <2>3. CASE beta < Blow
    BY <1>4, <1>7, <2>1, <2>2, <2>3, ConstantFacts
  <2>4. CASE ~(beta < Blow)
    BY <1>4, <1>7, <2>1, <2>2, <2>4, ConstantFacts
  <2> QED
    BY <2>3, <2>4
<1>10. ASSUME ~initial PROVE fits
  <2>1. \/ d.Bdelay = NoDelay /\ d.quality <= r.quality /\ beta < Bhigh
        \/ d.Bdelay = NoDelay /\ d.quality = r.quality + 1
        \/ d.Bdelay = DelayUntil(r, beta) /\ d.quality = r.quality
    BY <1>10, NormalDecisionFacts DEF SelectRepresentation
  <2>2. CASE d.Bdelay = NoDelay /\ d.quality <= r.quality /\ beta < Bhigh
    BY <1>4, <1>7, <2>2, ConstantFacts
  <2>3. CASE d.Bdelay = NoDelay /\ d.quality = r.quality + 1
    BY <1>4, <1>6, <1>7, <1>8, <2>3, ConstantFacts
  <2>4. CASE d.Bdelay = DelayUntil(r, beta) /\ d.quality = r.quality
    <3>1. /\ d.Bdelay \in Int
          /\ d.Bdelay > 0 \/ Bhigh <= MaxDuration
          /\ d.Bdelay + duration <= beta \/ d.Bdelay + duration < Bhigh + MaxDuration
      BY <2>4, DelayUntilFacts DEF duration
    <3> QED
      BY <1>4, <1>6, <1>7, <1>8, <2>4, <3>1, ConstantFacts
  <2> QED
    BY <2>1, <2>2, <2>3, <2>4
<1>11. fits
  BY <1>9, <1>10
<1>12. FitsAt(n, d.Bdelay) \/ FitsAt(n, beta)
  BY <1>5, <1>11 DEF ceiling
<1> QED
  BY <1>3, <1>11, <1>12 DEF n, ceiling

-----------------------------------------------------------------------------
(* Types *)

\* pushBack() returns a series.
LEMMA PushBackType ==
  ASSUME NEW s \in Series, NEW time \in Nat, NEW x \in Nat
  PROVE  PushBack(s, time, x, 1) \in Series
<1>1. CrossStep(s, time, x, 1) \in Series
  BY DEF CrossStep, Series
<1>2. /\ time \in Int /\ time \div 1 \in Int
      /\ s.curMinValue \in Int /\ Smaller(x, s.curMinValue) \in Int
  BY DEF Series, Smaller
<1>3. [s EXCEPT !.lastTime = time] \in Series
  BY <1>2 DEF Series
<1>4. [s EXCEPT !.lastTime = time, !.curStepNr = time \div 1, !.curMinValue = x] \in Series
  <2>1. [s EXCEPT !.lastTime = time, !.curStepNr = time \div 1] \in Series
    BY <1>2 DEF Series

  <2>2. ASSUME NEW t \in Series PROVE [t EXCEPT !.curMinValue = x] \in Series
    BY DEF Series
  <2>3. [s EXCEPT !.lastTime = time, !.curStepNr = time \div 1, !.curMinValue = x]
          = [[s EXCEPT !.lastTime = time, !.curStepNr = time \div 1] EXCEPT !.curMinValue = x]
    OBVIOUS
  <2> QED
    BY <2>1, <2>2, <2>3
<1>5. [s EXCEPT !.lastTime = time, !.curMinValue = Smaller(x, s.curMinValue)] \in Series
  BY <1>2 DEF Series
<1> QED
  BY <1>1, <1>3, <1>4, <1>5 DEF PushBack

\* The head of a non-empty queue of events, and what it carries.
LEMMA HeadFacts ==
  ASSUME TypeOK, events # <<>>
  PROVE  /\ e = events[1] /\ 1 \in DOMAIN events /\ e \in Event
         /\ e.req \in Request /\ e.beta \in Nat
         /\ Tail(events) \in Seq(Event)
         /\ DOMAIN Tail(events) = 1..(Len(events) - 1)
         /\ \A i \in DOMAIN Tail(events) :
              i + 1 \in DOMAIN events /\ Tail(events)[i] = events[i + 1]
<1>1. events \in Seq(Event) /\ Len(events) \in Nat \ {0} /\ DOMAIN events = 1..Len(events)
  BY DEF TypeOK
<1>2. e = events[1] /\ 1 \in DOMAIN events
  BY <1>1 DEF e
<1>3. e \in Event
  BY <1>1, <1>2
<1>4. e.req \in Request /\ e.beta \in Nat
  BY <1>3 DEF Event
<1>5. /\ Tail(events) \in Seq(Event)
      /\ Len(Tail(events)) = Len(events) - 1
      /\ \A i \in 1..(Len(events) - 1) : Tail(events)[i] = events[i + 1]
  BY <1>1
<1>6. DOMAIN Tail(events) = 1..(Len(events) - 1)
  BY <1>5
<1> QED
  BY <1>1, <1>2, <1>3, <1>4, <1>5, <1>6

\* A list of at most one element is empty or has its head.
LEMMA ShortList ==
  ASSUME NEW S, NEW s \in Seq(S), Len(s) <= 1, s # <<>>
  PROVE  Head(s) = s[1] /\ s[1] \in S /\ Len(s) = 1 /\ DOMAIN s = {1}
<1>1. Len(s) = 1 /\ DOMAIN s = 1..Len(s)
  <2>1. Len(s) \in Nat \ {0}
    BY EmptySeq
  <2>2. Len(s) = 1
    BY <2>1
  <2> QED
    BY <2>2, LenProperties
<1>2. DOMAIN s = {1}
  BY <1>1
<1> QED
  BY <1>1, <1>2

\* A queue to which one element is added.
LEMMA OneMore ==
  ASSUME NEW S, NEW s \in Seq(S), NEW t \in Seq(S), Len(t) = 1
  PROVE  /\ DOMAIN (s \o t) = 1..(Len(s) + 1) /\ DOMAIN s = 1..Len(s) /\ Len(s) \in Nat
         /\ \A i \in DOMAIN s : (s \o t)[i] = s[i]
         /\ (s \o t)[Len(s) + 1] = t[1]
<1>1. /\ s \o t \in Seq(S) /\ Len(s \o t) = Len(s) + Len(t)
      /\ \A i \in 1..(Len(s) + Len(t)) :
           (s \o t)[i] = IF i <= Len(s) THEN s[i] ELSE t[i - Len(s)]
  BY ConcatProperties
<1>2. Len(s) \in Nat /\ DOMAIN s = 1..Len(s)
  BY LenProperties
<1>3. DOMAIN (s \o t) = 1..(Len(s) + 1)
  BY <1>1, LenProperties
<1> QED
  BY <1>1, <1>2, <1>3

\* Processing the completion of a segment preserves the types.
LEMMA DecideType ==
  ASSUME TypeOK, Running, events # <<>>, delayedRequests = <<>>,
         e.req.seg \notin {0, LastSeg},
         NEW rho \in Rates, NEW rhoLast \in Rates, Decide(rho, rhoLast)
  PROVE  TypeOK'
<1> DEFINE series == PushBack(betaTimeSeries, now, e.beta, 1)
           initial == initialIncrease
                        /\ KeepsIncreasing(e.req.quality, series.isMinIncreasing, rho)
           d == SelectRepresentation(e.req, e.beta, initial, rho, rhoLast)
           delay == Converted(d.Bdelay)
           next == NextRequest(e.req, d.quality)
<1>1. /\ series \in Series /\ initial \in BOOLEAN
      /\ initial => e.req.quality # Highest
  <2>1. e.beta \in Nat /\ betaTimeSeries \in Series /\ now \in Nat
    BY HeadFacts DEF TypeOK
  <2>2. series \in Series
    BY <2>1, PushBackType
  <2>3. series.isMinIncreasing \in BOOLEAN
    BY <2>2 DEF Series
  <2> HIDE DEF series
  <2> QED
    BY <2>2, <2>3 DEF TypeOK, KeepsIncreasing, Affords
<1>2. rho \in Nat /\ rhoLast \in Nat
  BY ConstantFacts
<1>3. d.quality \in Quality /\ d.Bdelay \in Int
  <2>1. CASE initial
    <3>1. d = InitialDecision(e.req, e.beta, rho)
      BY <2>1 DEF SelectRepresentation
    <3>2. e.req \in Request /\ e.beta \in Nat /\ e.req.quality # Highest
      BY <1>1, <2>1, HeadFacts
    <3> HIDE DEF d
    <3>3. /\ d.quality \in Quality
          /\ e.beta < Blow => d.Bdelay = NoDelay
          /\ e.beta >= Blow => d.Bdelay \in Int
      BY <1>2, <3>1, <3>2, InitialDecisionFacts
    <3>4. e.beta < Blow \/ e.beta >= Blow
      BY <3>2, ConstantFacts
    <3>5. NoDelay \in Int
      BY ConstantFacts
    <3> QED
      BY <3>3, <3>4, <3>5
  <2>2. CASE ~initial
    <3>1. d = NormalDecision(e.req, e.beta, rho, rhoLast)
      BY <2>2 DEF SelectRepresentation
    <3>2. e.req \in Request /\ e.beta \in Nat
      BY HeadFacts
    <3>3. DelayUntil(e.req, e.beta) \in Int
      BY <3>2, DelayUntilFacts
    <3> HIDE DEF d
    <3>4. /\ d.quality \in Quality
          /\ d.Bdelay \in {NoDelay, DelayUntil(e.req, e.beta)}
      BY <1>2, <3>1, <3>2, NormalDecisionFacts
    <3>5. NoDelay \in Int
      BY ConstantFacts
    <3> QED
      BY <3>3, <3>4, <3>5
  <2> QED
    BY <2>1, <2>2
<1>4. delay \in Int
  BY <1>3, ConstantFacts DEF Converted
<1>5. /\ next \in Request
      /\ Duration[next.quality][next.seg] \in Nat
  <2>1. next \in Request /\ next.quality \in Quality /\ next.seg \in Seg \ {0}
    BY <1>3, HeadFacts, RequestFacts, ConstantFacts DEF NextRequest, Request
  <2> QED
    BY <2>1, DurationFacts
<1> HIDE DEF series, initial, d, delay, next
<1>6. CASE ~AcceptsDelay(delay)
  <2>1. Fail("Bdelay")
    BY <1>6 DEF Decide, series, initial, d, delay, next
  <2> QED
    BY <2>1 DEF Fail, TypeOK, decision, download
<1>7. CASE AcceptsDelay(delay)
  <2>1. /\ betaTimeSeries' = series /\ initialIncrease' = initial /\ Bdelay' = delay
        /\ chosenAt' \in {rho, chosenAt}
        /\ events' = Tail(events)
        /\ UNCHANGED <<level, arrived, played, now, saturates, early, fault>>
    BY <1>7 DEF Decide, series, initial, d, delay, next
  <2>2. \/ Send(next) /\ UNCHANGED delayedRequests
        \/ delayedRequests' = Append(delayedRequests, next) /\ UNCHANGED <<request, left>>
    BY <1>7 DEF Decide, series, initial, d, delay, next
  <2>3. /\ request' \in Seq(Request) /\ Len(request') <= 1 /\ left' \in Nat
        /\ delayedRequests' \in Seq(Request) /\ Len(delayedRequests') <= 1
    <3>1. <<next>> \in Seq(Request) /\ Len(<<next>>) = 1
      BY <1>5
    <3>2. Append(<<>>, next) = <<next>>
      OBVIOUS
    <3>3. CASE Send(next) /\ UNCHANGED delayedRequests
      BY <1>5, <3>1, <3>3 DEF Send, TypeOK
    <3>4. CASE delayedRequests' = Append(delayedRequests, next) /\ UNCHANGED <<request, left>>
      BY <3>1, <3>2, <3>4 DEF TypeOK
    <3> QED
      BY <2>2, <3>3, <3>4
  <2>4. Bdelay' \in Nat \ {0}
    BY <1>4, <1>7, <2>1 DEF AcceptsDelay
  <2> QED
    BY <1>1, <1>2, <2>1, <2>3, <2>4, HeadFacts DEF TypeOK
<1> QED
  BY <1>6, <1>7

\* Every step preserves the types.
LEMMA NextType ==
  ASSUME TypeOK, OneUnderWay, [Next]_vars
  PROVE  TypeOK'
<1>1. CASE UNCHANGED vars
  BY <1>1 DEF TypeOK, vars, decision, download
<1>2. ASSUME Receive PROVE TypeOK'
  BY <1>2 DEF Receive, TypeOK, decision
<1>3. ASSUME Complete PROVE TypeOK'
  <2>1. Head(request) \in Request
    BY <1>3 DEF Complete, TypeOK
  <2>2. DataReceived(Head(request), level) \in Event
    BY <2>1 DEF DataReceived, Event, TypeOK
  <2> QED
    BY <1>3, <2>2 DEF Complete, TypeOK, decision
<1>4. ASSUME PushReceived PROVE TypeOK'
  BY <1>4 DEF PushReceived, TypeOK, decision
<1>5. ASSUME Play PROVE TypeOK'
  <2>1. DataPlayed(level - 1) \in Event
    BY <1>5, ConstantFacts DEF Play, DataPlayed, Event, Request, Seg, TypeOK
  <2> QED
    BY <1>5, <2>1 DEF Play, TypeOK, decision
<1>6. ASSUME PushPlayed PROVE TypeOK'
  BY <1>6 DEF PushPlayed, TypeOK, decision, download
<1>7. ASSUME Tick PROVE TypeOK'
  BY <1>7 DEF Tick, TypeOK, decision, download
<1>8. ASSUME ProcessDataPlayed PROVE TypeOK'
  <2>1. events # <<>>
    BY <1>8 DEF ProcessDataPlayed
  <2>2. betaTimeSeries' \in Series /\ events' \in Seq(Event)
    BY <1>8, <2>1, HeadFacts, PushBackType DEF ProcessDataPlayed, TypeOK
  <2>3. CASE delayedRequests # <<>> /\ e.beta <= Bdelay
    <3>1. Head(delayedRequests) \in Request /\ Head(delayedRequests).seg # 0
      BY <2>3 DEF TypeOK, OneUnderWay
    <3>2. Duration[Head(delayedRequests).quality][Head(delayedRequests).seg] \in Nat
      BY <3>1, RequestFacts, DurationFacts
    <3>3. /\ request' = <<Head(delayedRequests)>> /\ delayedRequests' = <<>>
          /\ left' = Duration[Head(delayedRequests).quality][Head(delayedRequests).seg]
          /\ Bdelay' = NoDelay /\ early' \in {early, early + 1}
      BY <1>8, <2>3 DEF ProcessDataPlayed, Release, Send
    <3>4. /\ request' \in Seq(Request) /\ Len(request') = 1
          /\ delayedRequests' \in Seq(Request) /\ Len(delayedRequests') = 0
      BY <3>1, <3>3
    <3>5. UNCHANGED <<initialIncrease, level, arrived, played, now, saturates, chosenAt, fault>>
      BY <1>8 DEF ProcessDataPlayed
    <3> QED
      BY <2>2, <3>2, <3>3, <3>4, <3>5, ConstantFacts DEF TypeOK
  <2>4. CASE ~(delayedRequests # <<>> /\ e.beta <= Bdelay)
    BY <1>8, <2>2, <2>4 DEF ProcessDataPlayed, TypeOK
  <2> QED
    BY <2>3, <2>4
<1>9. ASSUME ProcessDataReceived PROVE TypeOK'
  <2>1. CASE delayedRequests # <<>>
    BY <1>9, <2>1 DEF ProcessDataReceived, Fail, TypeOK, decision, download
  <2>2. CASE delayedRequests = <<>> /\ e.req.seg \in {0, LastSeg}
    BY <1>9, <2>2, HeadFacts, PushBackType
       DEF ProcessDataReceived, ProcessWithoutDecision, TypeOK, download
  <2>3. CASE delayedRequests = <<>> /\ e.req.seg \notin {0, LastSeg}
    BY <1>9, <2>3, DecideType DEF ProcessDataReceived
  <2> QED
    BY <2>1, <2>2, <2>3
<1> QED
  BY <1>1, <1>2, <1>3, <1>4, <1>5, <1>6, <1>7, <1>8, <1>9 DEF Next
-----------------------------------------------------------------------------
(* The invariant *)

\* The ceiling of a quality is at most what the buffer may ever hold.
LEMMA CeilingFacts ==
  ASSUME TypeOK, NEW q \in Quality
  PROVE  Ceiling(q) \in Nat /\ Ceiling(q) <= Cap(Highest + early)
<1>1. /\ q + early \in Nat /\ Highest + early \in Nat
      /\ q + early <= Highest + early
  BY ConstantFacts DEF TypeOK
<1>2. Cap(q + early) <= Cap(Highest + early)
  BY <1>1, CapMonotone
<1>3. Cap(q + early) \in Nat
  BY <1>1, CapFacts
<1> QED
  BY <1>2, <1>3 DEF Ceiling

\* The segment under way, wherever it is, has a quality and a duration.
LEMMA UnderWayFacts ==
  ASSUME TypeOK
  PROVE  /\ request # <<>> =>
              Head(request) = request[1] /\ request[1] \in Request
         /\ arrived # <<>> =>
              arrived[1] \in Event /\ Len(arrived) = 1 /\ arrived[1].req \in Request
         /\ played # <<>> => played[1] \in Event /\ Len(played) = 1
         /\ delayedRequests # <<>> =>
              Head(delayedRequests) = delayedRequests[1] /\ delayedRequests[1] \in Request
         /\ \A i \in DOMAIN events : events[i] \in Event /\ events[i].req \in Request
<1>1. /\ request # <<>> => Head(request) = request[1] /\ request[1] \in Request
      /\ delayedRequests # <<>> =>
           Head(delayedRequests) = delayedRequests[1] /\ delayedRequests[1] \in Request
  BY ShortList DEF TypeOK
<1>2. /\ arrived # <<>> => arrived[1] \in Event /\ Len(arrived) = 1
      /\ played # <<>> => played[1] \in Event /\ Len(played) = 1
  BY ShortList DEF TypeOK
<1>3. \A i \in DOMAIN events : events[i] \in Event
  BY DEF TypeOK
<1>4. \A x \in Event : x.req \in Request
  BY DEF Event
<1> QED
  BY <1>1, <1>2, <1>3, <1>4

\* The initial state satisfies the invariant.
LEMMA InitInv == Init => IInv
<1> SUFFICES ASSUME Init PROVE IInv
  OBVIOUS
<1> DEFINE r0 == [seg |-> 0, quality |-> 1]
           r1 == [seg |-> 1, quality |-> 1]
<1>1. r0 \in Request /\ r1 \in Request /\ 1 \in Quality
  BY ConstantFacts DEF Request, Seg
<1>2. DataReceived(r0, 0) \in Event
  BY <1>1 DEF DataReceived, Event
<1>3. /\ Duration[1][1] \in Nat /\ 1 <= Duration[1][1] /\ Duration[1][1] <= MaxDuration
  BY <1>1, ConstantFacts, DurationFacts DEF Seg
<1>4. NewSeries \in Series
  BY TimeSeriesAssumption DEF NewSeries, Series
<1>5. TypeOK
  <2>1. <<r1>> \in Seq(Request) /\ Len(<<r1>>) = 1
    BY <1>1
  <2>2. <<DataReceived(r0, 0)>> \in Seq(Event)
    BY <1>2
  <2> QED
    BY <1>3, <1>4, <2>1, <2>2, ConstantFacts DEF Init, TypeOK
<1>6. OneUnderWay
  BY DEF Init, OneUnderWay
<1>7. /\ DOMAIN events = {1} /\ events[1].type = "dataReceived" /\ events[1].req.seg = 0
  BY DEF Init, DataReceived
<1>8. OneEventUnderWay
  BY <1>7 DEF Init, OneEventUnderWay
<1>9. Cap(0 + 1) = Cap(0) + MaxDuration /\ Cap(0) \in Nat /\ Cap(0) >= Bhigh
  BY CapFacts
<1>10. level + left < Ceiling(1)
  BY <1>3, <1>9, ConstantFacts DEF Init, Ceiling
<1>11. BufferBounded
  BY <1>1, <1>3, <1>5, <1>10, CeilingFacts, CapFacts, ConstantFacts DEF Init, BufferBounded
<1>12. BoundedRequest
  BY <1>10 DEF Init, BoundedRequest
<1>13. BoundedArrival /\ BoundedEvents /\ BoundedDelayed
  BY <1>7 DEF Init, BoundedArrival, BoundedEvents, BoundedDelayed
<1>14. AssertionsHold
  BY DEF Init, AssertionsHold
<1> QED
  BY <1>5, <1>6, <1>8, <1>11, <1>12, <1>13, <1>14 DEF IInv

\* A step that leaves alone what the bounds depend on preserves them.
LEMMA ReceiveInv ==
  ASSUME IInv, Receive, TypeOK'
  PROVE  IInv'
<1> DEFINE q == request[1].quality
<1>1. /\ request # <<>> /\ arrived = <<>> /\ delayedRequests = <<>>
      /\ left > 0 /\ level' = level + 1 /\ left' = left - 1
      /\ UNCHANGED <<decision, request, arrived, played, events, saturates, early, fault>>
  BY DEF Receive, IInv, OneUnderWay
<1>2. q \in Quality /\ level \in Nat /\ left \in Nat
  BY <1>1, UnderWayFacts, RequestFacts DEF IInv, TypeOK
<1>3. \A i \in DOMAIN events :
        ~(events[i].type = "dataReceived" /\ events[i].req.seg # 0)
  BY <1>1 DEF IInv, OneEventUnderWay
<1>4. level + left < Ceiling(q)
  BY <1>1 DEF IInv, BoundedRequest
<1>5. Ceiling(q) \in Nat /\ Ceiling(q) <= Cap(Highest + early) /\ Cap(Highest + early) \in Nat
  <2>1. Highest + early \in Nat
    BY ConstantFacts DEF IInv, TypeOK
  <2>2. Cap(Highest + early) \in Nat
    BY <2>1, CapFacts
  <2> QED
    BY <1>2, <2>2, CeilingFacts DEF IInv
<1>6. BufferBounded'
  BY <1>1, <1>2, <1>4, <1>5 DEF BufferBounded, Cap
<1>7. BoundedRequest'
  BY <1>1, <1>2, <1>4 DEF BoundedRequest, Ceiling, Cap
<1>8. OneUnderWay' /\ OneEventUnderWay'
  BY <1>1 DEF IInv, OneUnderWay, OneEventUnderWay, decision
<1>9. BoundedArrival' /\ BoundedEvents' /\ BoundedDelayed'
  BY <1>1, <1>3 DEF BoundedArrival, BoundedEvents, BoundedDelayed, decision
<1>10. AssertionsHold'
  BY <1>1 DEF IInv, AssertionsHold
<1> QED
  BY <1>6, <1>7, <1>8, <1>9, <1>10 DEF IInv

\* The answer is complete: the event takes over the bound of the request.
LEMMA CompleteInv ==
  ASSUME IInv, Complete, TypeOK'
  PROVE  IInv'
<1> DEFINE r == request[1]
<1>1. /\ request # <<>> /\ arrived = <<>> /\ delayedRequests = <<>> /\ r.seg # 0
      /\ left = 0 /\ request' = <<>>
      /\ UNCHANGED <<decision, level, played, events, saturates, early, fault>>
  BY DEF Complete, IInv, OneUnderWay
<1>2. arrived' = <<DataReceived(r, level)>>
  BY <1>1, UnderWayFacts DEF Complete, IInv
<1>3. level \in Nat /\ level < Ceiling(r.quality)
  BY <1>1 DEF IInv, TypeOK, BoundedRequest
<1>4. \A i \in DOMAIN events :
        ~(events[i].type = "dataReceived" /\ events[i].req.seg # 0)
  BY <1>1 DEF IInv, OneEventUnderWay
<1>5. /\ arrived'[1].type = "dataReceived" /\ arrived'[1].req = r /\ arrived'[1].beta = level
  BY <1>2 DEF DataReceived
<1>6. OneUnderWay'
  BY <1>1, <1>5 DEF IInv, OneUnderWay, decision
<1>7. OneEventUnderWay'
  BY <1>1, <1>4 DEF IInv, OneEventUnderWay, decision
<1>8. BufferBounded'
  BY <1>1 DEF IInv, BufferBounded, Cap
<1>9. BoundedArrival'
  BY <1>1, <1>3, <1>5 DEF BoundedArrival, Ceiling, Cap
<1>10. BoundedRequest' /\ BoundedEvents' /\ BoundedDelayed'
  BY <1>1, <1>4 DEF BoundedRequest, BoundedEvents, BoundedDelayed, decision
<1>11. AssertionsHold'
  BY <1>1 DEF IInv, AssertionsHold
<1> QED
  BY <1>6, <1>7, <1>8, <1>9, <1>10, <1>11 DEF IInv
\* The event joins the queue, and keeps its bound.
LEMMA PushReceivedInv ==
  ASSUME IInv, PushReceived, TypeOK'
  PROVE  IInv'
<1> DEFINE a == arrived[1]
           n == Len(events) + 1
<1>1. /\ arrived # <<>> /\ request = <<>> /\ delayedRequests = <<>>
      /\ a.type = "dataReceived" /\ a.req.seg # 0
      /\ events' = events \o arrived /\ arrived' = <<>>
      /\ UNCHANGED <<decision, request, left, level, played, saturates, early, fault>>
  BY DEF PushReceived, IInv, OneUnderWay
<1>2. /\ Len(arrived) = 1 /\ events \in Seq(Event) /\ arrived \in Seq(Event)
  BY <1>1, UnderWayFacts DEF IInv, TypeOK
<1>3. /\ DOMAIN events' = 1..n /\ DOMAIN events = 1..(n - 1) /\ n \in Nat \ {0}
      /\ \A i \in DOMAIN events : events'[i] = events[i]
      /\ events'[n] = a
  BY <1>1, <1>2, OneMore
<1>4. \A i \in DOMAIN events :
        ~(events[i].type = "dataReceived" /\ events[i].req.seg # 0)
  BY <1>1 DEF IInv, OneEventUnderWay
<1>5. \A i \in DOMAIN events' :
        events'[i].type = "dataReceived" =>
          \/ i = n
          \/ i \in DOMAIN events /\ events'[i] = events[i] /\ events[i].req.seg = 0
  BY <1>3, <1>4
<1>6. level <= a.beta /\ a.beta < Ceiling(a.req.quality)
  BY <1>1 DEF IInv, BoundedArrival
<1>7. OneUnderWay'
  BY <1>1 DEF IInv, OneUnderWay, decision
<1>8. OneEventUnderWay'
  <2>1. ASSUME NEW i \in DOMAIN events', events'[i].type = "dataReceived"
        PROVE  /\ delayedRequests' = <<>>
               /\ events'[i].req.seg = 0 => i = 1
               /\ events'[i].req.seg # 0 => i = n /\ request' = <<>> /\ arrived' = <<>>
    BY <1>1, <1>3, <1>5, <2>1 DEF IInv, OneEventUnderWay, decision
  <2> QED
    BY <2>1 DEF OneEventUnderWay
<1>9. BoundedEvents'
  <2>1. ASSUME NEW i \in DOMAIN events',
               events'[i].type = "dataReceived", events'[i].req.seg # 0
        PROVE  level' <= events'[i].beta /\ events'[i].beta < Cap(events'[i].req.quality + early')
    <3>1. events'[i] = a
      BY <1>3, <1>5, <2>1
    <3> QED
      BY <1>1, <1>6, <3>1 DEF Ceiling
  <2> QED
    BY <2>1 DEF BoundedEvents, Ceiling, Cap
<1>10. BufferBounded' /\ BoundedRequest' /\ BoundedArrival' /\ BoundedDelayed' /\ AssertionsHold'
  BY <1>1 DEF IInv, BufferBounded, BoundedRequest, BoundedArrival, BoundedDelayed,
              AssertionsHold, decision, Cap
<1> QED
  BY <1>7, <1>8, <1>9, <1>10 DEF IInv

\* Playback only takes away.
LEMMA PlayInv ==
  ASSUME IInv, Play, TypeOK'
  PROVE  IInv'
<1>1. /\ level' = level - 1 /\ played' = <<DataPlayed(level - 1)>>
      /\ UNCHANGED <<decision, request, left, arrived, events, saturates, early, fault>>
  BY DEF Play
<1>2. level \in Nat /\ left \in Nat /\ level' <= level /\ level' \in Int /\ early \in Nat
  BY <1>1 DEF IInv, TypeOK
<1>3. OneUnderWay' /\ OneEventUnderWay'
  BY <1>1 DEF IInv, OneUnderWay, OneEventUnderWay, decision, DataPlayed
<1>4. \A q \in Quality : Ceiling(q)' = Ceiling(q) /\ Ceiling(q) \in Nat
  BY <1>1, CeilingFacts DEF IInv, Ceiling, Cap
<1>5. BufferBounded'
  <2>1. Highest + early \in Nat
    BY <1>2, ConstantFacts
  <2>2. Cap(Highest + early) \in Nat
    BY <2>1, CapFacts
  <2> QED
    BY <1>1, <1>2, <2>2 DEF IInv, BufferBounded, Cap
<1>6. BoundedRequest'
  BY <1>1, <1>2, <1>4, UnderWayFacts, RequestFacts DEF IInv, BoundedRequest
<1>7. BoundedArrival'
  <2>1. CASE arrived # <<>>
    <3>1. arrived[1].beta \in Nat /\ arrived[1].req.quality \in Quality
      BY <2>1, UnderWayFacts, RequestFacts DEF IInv, Event
    <3> QED
      BY <1>1, <1>2, <1>4, <2>1, <3>1 DEF IInv, BoundedArrival
  <2> QED
    BY <1>1, <2>1 DEF BoundedArrival
<1>8. BoundedEvents'
  <2>1. ASSUME NEW i \in DOMAIN events,
               events[i].type = "dataReceived", events[i].req.seg # 0
        PROVE  level' <= events[i].beta /\ events[i].beta < Ceiling(events[i].req.quality)'
    <3>1. events[i].beta \in Nat /\ events[i].req.quality \in Quality
      BY UnderWayFacts, RequestFacts DEF IInv, Event
    <3>2. level <= events[i].beta /\ events[i].beta < Ceiling(events[i].req.quality)
      BY <2>1 DEF IInv, BoundedEvents
    <3> QED
      BY <1>1, <1>2, <3>1, <3>2 DEF Ceiling, Cap
  <2> QED
    BY <1>1, <2>1 DEF BoundedEvents
<1>9. BoundedDelayed'
  <2>1. CASE delayedRequests # <<>>
    <3> DEFINE r == delayedRequests[1]
    <3>1. r \in Request /\ r.seg # 0 /\ r.quality \in Quality
      BY <2>1, UnderWayFacts, RequestFacts DEF IInv, OneUnderWay
    <3>2. Duration[r.quality][r.seg] \in Nat
      BY <3>1, RequestFacts, DurationFacts
    <3>3. level < Ceiling(r.quality) /\ (FitsAt(r, Bdelay) \/ FitsAt(r, level))
      BY <2>1 DEF IInv, BoundedDelayed
    <3>4. /\ FitsAt(r, Bdelay) => FitsAt(r, Bdelay)'
          /\ FitsAt(r, level) => FitsAt(r, level)'
      BY <1>1, <1>2, <1>4, <3>1, <3>2 DEF FitsAt, decision
    <3> QED
      BY <1>1, <1>2, <1>4, <3>1, <3>3, <3>4 DEF BoundedDelayed, decision
  <2> QED
    BY <1>1, <2>1 DEF BoundedDelayed, decision
<1>10. AssertionsHold'
  BY <1>1 DEF IInv, AssertionsHold
<1> QED
  BY <1>3, <1>5, <1>6, <1>7, <1>8, <1>9, <1>10 DEF IInv

\* The player's event is none the bounds are about.
LEMMA PushPlayedInv ==
  ASSUME IInv, PushPlayed, TypeOK'
  PROVE  IInv'
<1> DEFINE n == Len(events) + 1
<1>1. /\ played # <<>> /\ played[1].type = "dataPlayed"
      /\ events' = events \o played /\ played' = <<>>
      /\ UNCHANGED <<decision, download, saturates, early, fault>>
  BY DEF PushPlayed, IInv, OneUnderWay
<1>2. Len(played) = 1 /\ events \in Seq(Event) /\ played \in Seq(Event)
  BY <1>1, UnderWayFacts DEF IInv, TypeOK
<1>3. /\ DOMAIN events' = 1..n /\ DOMAIN events = 1..(n - 1) /\ n \in Nat \ {0}
      /\ \A i \in DOMAIN events : events'[i] = events[i]
      /\ events'[n] = played[1]
  BY <1>1, <1>2, OneMore
<1>4. \A i \in DOMAIN events' :
        events'[i].type = "dataReceived" => i \in DOMAIN events /\ events'[i] = events[i]
  BY <1>1, <1>3
<1>5. OneUnderWay'
  BY <1>1 DEF IInv, OneUnderWay, decision, download
<1>6. OneEventUnderWay' /\ BoundedEvents'
  BY <1>1, <1>4 DEF IInv, OneEventUnderWay, BoundedEvents, decision, download, Ceiling, Cap
<1>7. BufferBounded' /\ BoundedRequest' /\ BoundedArrival' /\ BoundedDelayed' /\ AssertionsHold'
  BY <1>1 DEF IInv, BufferBounded, BoundedRequest, BoundedArrival, BoundedDelayed, FitsAt,
              AssertionsHold, decision, download, Ceiling, Cap
<1> QED
  BY <1>5, <1>6, <1>7 DEF IInv
\* Taking the head off the queue preserves what holds of all its events.
LEMMA TailEvents ==
  ASSUME IInv, events # <<>>, events' = Tail(events),
         UNCHANGED <<delayedRequests, request, arrived, level, early>>
  PROVE  OneEventUnderWay' /\ BoundedEvents'
<1>1. \A i \in DOMAIN events' :
        i + 1 \in DOMAIN events /\ events'[i] = events[i + 1] /\ i \in Nat \ {0}
  BY HeadFacts DEF IInv
<1>2. ASSUME NEW i \in DOMAIN events', events'[i].type = "dataReceived"
      PROVE  /\ delayedRequests' = <<>> /\ events'[i].req.seg # 0
             /\ request' = <<>> /\ arrived' = <<>>
             /\ level' <= events'[i].beta
             /\ events'[i].beta < Cap(events'[i].req.quality + early')
  <2>1. i + 1 \in DOMAIN events /\ events'[i] = events[i + 1] /\ i + 1 # 1
    BY <1>1, <1>2
  <2>2. delayedRequests = <<>> /\ events[i + 1].req.seg # 0 /\ request = <<>> /\ arrived = <<>>
    BY <1>2, <2>1 DEF IInv, OneEventUnderWay
  <2>3. level <= events[i + 1].beta /\ events[i + 1].beta < Ceiling(events[i + 1].req.quality)
    BY <1>2, <2>1, <2>2 DEF IInv, BoundedEvents
  <2> QED
    BY <2>1, <2>2, <2>3 DEF Ceiling
<1>3. ASSUME NEW i \in DOMAIN events', NEW j \in DOMAIN events',
             events'[i].type = "dataReceived", events'[j].type = "dataReceived"
      PROVE  i = j
  <2>1. /\ i + 1 \in DOMAIN events /\ events'[i] = events[i + 1]
        /\ j + 1 \in DOMAIN events /\ events'[j] = events[j + 1]
        /\ i \in Nat /\ j \in Nat
    BY <1>1
  <2>2. events[i + 1].req.seg # 0 /\ events[j + 1].req.seg # 0
    BY <1>2, <1>3, <2>1
  <2>3. i + 1 = j + 1
    BY <1>3, <2>1, <2>2 DEF IInv, OneEventUnderWay
  <2> QED
    BY <2>1, <2>3
<1>4. OneEventUnderWay'
  BY <1>2, <1>3 DEF OneEventUnderWay
<1>5. BoundedEvents'
  BY <1>2 DEF BoundedEvents, Ceiling, Cap
<1> QED
  BY <1>4, <1>5

\* A released request goes out below Bdelay, or the history counts it.
LEMMA ProcessDataPlayedInv ==
  ASSUME IInv, ProcessDataPlayed, TypeOK'
  PROVE  IInv'
<1>1. /\ events # <<>> /\ events' = Tail(events)
      /\ UNCHANGED <<level, arrived, played, saturates, fault>>
  BY DEF ProcessDataPlayed
<1>2. CASE delayedRequests # <<>> /\ e.beta <= Bdelay
  <2> DEFINE r == delayedRequests[1]
             duration == Duration[r.quality][r.seg]
  <2>1. r \in Request /\ r.seg # 0 /\ r.quality \in Quality
    BY <1>2, UnderWayFacts, RequestFacts DEF IInv, OneUnderWay
  <2>2. duration \in Nat /\ duration <= MaxDuration
    BY <2>1, RequestFacts, DurationFacts
  <2>3. /\ request' = <<r>> /\ left' = duration /\ delayedRequests' = <<>>
        /\ early' = IF level > Bdelay THEN early + 1 ELSE early
    BY <1>2, UnderWayFacts DEF IInv, ProcessDataPlayed, Release, Send
  <2>4. arrived = <<>> /\ request = <<>>
    BY <1>2 DEF IInv, OneUnderWay
  <2>5. \A i \in DOMAIN events : events[i].type # "dataReceived"
    BY <1>2 DEF IInv, OneEventUnderWay
  <2>6. \A i \in DOMAIN events' : events'[i].type # "dataReceived"
    BY <1>1, <2>5, HeadFacts DEF IInv
  <2>7. /\ level \in Nat /\ Bdelay \in Nat /\ early \in Nat
        /\ r.quality \in Nat /\ Highest \in Nat /\ MaxDuration \in Nat
    BY <2>1, RequestFacts, ConstantFacts DEF IInv, TypeOK
  <2>8. /\ Ceiling(r.quality) \in Nat /\ Cap(Highest + early) \in Nat
        /\ Cap(r.quality + (early + 1)) = Ceiling(r.quality) + MaxDuration
        /\ Cap(Highest + (early + 1)) = Cap(Highest + early) + MaxDuration
    <3>1. /\ r.quality + early \in Nat /\ Highest + early \in Nat
          /\ r.quality + (early + 1) = (r.quality + early) + 1
          /\ Highest + (early + 1) = (Highest + early) + 1
      BY <2>7
    <3> QED
      BY <3>1, CapFacts DEF Ceiling
  <2>9. level < Ceiling(r.quality) /\ (FitsAt(r, Bdelay) \/ FitsAt(r, level))
    BY <1>2 DEF IInv, BoundedDelayed
  <2>10. level + duration < Cap(r.quality + early')
    <3>1. /\ level < Ceiling(r.quality)
          /\ Bdelay + duration < Ceiling(r.quality) \/ level + duration < Ceiling(r.quality)
      BY <2>9 DEF FitsAt
    <3>2. CASE level > Bdelay
      <4>1. Cap(r.quality + early') = Ceiling(r.quality) + MaxDuration
        BY <2>3, <2>8, <3>2
      <4> HIDE DEF r, duration
      <4> QED
        BY <2>2, <2>7, <2>8, <3>1, <4>1
    <3>3. CASE ~(level > Bdelay)
      <4>1. Cap(r.quality + early') = Ceiling(r.quality)
        BY <2>3, <3>3 DEF Ceiling
      <4> HIDE DEF r, duration
      <4> QED
        BY <2>2, <2>7, <2>8, <3>1, <3>3, <4>1
    <3> QED
      BY <3>2, <3>3
  <2>11. level < Cap(Highest + early')
    <3>1. level < Cap(Highest + early)
      BY DEF IInv, BufferBounded
    <3>2. CASE level > Bdelay
      BY <2>3, <2>7, <2>8, <3>1, <3>2
    <3>3. CASE ~(level > Bdelay)
      BY <2>3, <3>1, <3>3
    <3> QED
      BY <3>2, <3>3
  <2>12. OneUnderWay'
    BY <1>1, <2>1, <2>3, <2>4 DEF IInv, OneUnderWay
  <2>13. OneEventUnderWay' /\ BoundedEvents'
    BY <2>6 DEF OneEventUnderWay, BoundedEvents
  <2>14. BufferBounded' /\ BoundedRequest'
    <3>1. request'[1] = r /\ left' = duration
      BY <2>3
    <3> HIDE DEF r, duration
    <3> QED
      BY <1>1, <2>10, <2>11, <3>1 DEF BufferBounded, BoundedRequest, Ceiling, Cap
  <2>15. BoundedArrival' /\ BoundedDelayed' /\ AssertionsHold'
    BY <1>1, <2>3, <2>4 DEF IInv, BoundedArrival, BoundedDelayed, AssertionsHold
  <2> QED
    BY <2>12, <2>13, <2>14, <2>15 DEF IInv
<1>3. CASE ~(delayedRequests # <<>> /\ e.beta <= Bdelay)
  <2>1. UNCHANGED <<delayedRequests, request, left, Bdelay, early>>
    BY <1>3 DEF ProcessDataPlayed
  <2>2. OneEventUnderWay' /\ BoundedEvents'
    BY <1>1, <2>1, TailEvents
  <2>3. OneUnderWay' /\ BufferBounded' /\ BoundedRequest' /\ BoundedArrival' /\ AssertionsHold'
    BY <1>1, <2>1 DEF IInv, OneUnderWay, BufferBounded, BoundedRequest, BoundedArrival,
                      AssertionsHold, Ceiling, Cap
  <2>4. BoundedDelayed'
    BY <1>1, <2>1 DEF IInv, BoundedDelayed, FitsAt, Ceiling, Cap
  <2> QED
    BY <2>2, <2>3, <2>4 DEF IInv
<1> QED
  BY <1>2, <1>3

\* Nothing is delayed when a completed segment is processed.
LEMMA NothingDelayed ==
  ASSUME IInv, events # <<>>, e.type = "dataReceived"
  PROVE  /\ delayedRequests = <<>>
         /\ e.req.seg # 0 =>
              /\ request = <<>> /\ arrived = <<>>
              /\ level <= e.beta /\ e.beta < Ceiling(e.req.quality)
              /\ \A i \in DOMAIN Tail(events) : Tail(events)[i].type # "dataReceived"
<1>1. e = events[1] /\ 1 \in DOMAIN events
  BY HeadFacts DEF IInv
<1>2. delayedRequests = <<>>
  BY <1>1 DEF IInv, OneEventUnderWay
<1>3. ASSUME e.req.seg # 0
      PROVE  /\ request = <<>> /\ arrived = <<>>
             /\ level <= e.beta /\ e.beta < Ceiling(e.req.quality)
  BY <1>1, <1>3 DEF IInv, OneEventUnderWay, BoundedEvents
<1>4. ASSUME e.req.seg # 0, NEW i \in DOMAIN Tail(events),
             Tail(events)[i].type = "dataReceived"
      PROVE  FALSE
  <2>1. /\ i + 1 \in DOMAIN events /\ Tail(events)[i] = events[i + 1]
        /\ i \in 1..(Len(events) - 1)
    BY HeadFacts DEF IInv
  <2>2. i + 1 # 1
    BY <2>1
  <2>3. events[i + 1].req.seg # 0
    BY <1>4, <2>1, <2>2 DEF IInv, OneEventUnderWay
  <2> QED
    BY <1>1, <1>4, <2>1, <2>2, <2>3 DEF IInv, OneEventUnderWay
<1> QED
  BY <1>2, <1>3, <1>4

\* After the init and the stop segment only the queue changes.
LEMMA ProcessWithoutDecisionInv ==
  ASSUME IInv, events # <<>>, ProcessWithoutDecision, TypeOK'
  PROVE  IInv'
<1>1. /\ events # <<>> /\ events' = Tail(events)
      /\ UNCHANGED <<Bdelay, delayedRequests, download, played, saturates, early, fault>>
  BY DEF ProcessWithoutDecision
<1>2. OneEventUnderWay' /\ BoundedEvents'
  BY <1>1, TailEvents DEF download
<1>3. OneUnderWay' /\ BufferBounded' /\ BoundedRequest' /\ BoundedArrival' /\ AssertionsHold'
  BY <1>1 DEF IInv, OneUnderWay, BufferBounded, BoundedRequest, BoundedArrival,
              AssertionsHold, download, Ceiling, Cap
<1>4. BoundedDelayed'
  BY <1>1 DEF IInv, BoundedDelayed, FitsAt, download, Ceiling, Cap
<1> QED
  BY <1>2, <1>3, <1>4 DEF IInv
\* The decision keeps the bounds, and its assertion holds.
LEMMA DecideInv ==
  ASSUME IInv, Running, events # <<>>, e.type = "dataReceived", delayedRequests = <<>>,
         e.req.seg \notin {0, LastSeg},
         NEW rho \in Rates, NEW rhoLast \in Rates, Decide(rho, rhoLast), TypeOK'
  PROVE  IInv'
<1> DEFINE series == PushBack(betaTimeSeries, now, e.beta, 1)
           initial == initialIncrease
                        /\ KeepsIncreasing(e.req.quality, series.isMinIncreasing, rho)
           d == SelectRepresentation(e.req, e.beta, initial, rho, rhoLast)
           delay == Converted(d.Bdelay)
           n == NextRequest(e.req, d.quality)
           duration == Duration[n.quality][n.seg]
<1>1. initial \in BOOLEAN /\ (initial => e.req.quality # Highest)
  <2>1. e.beta \in Nat /\ betaTimeSeries \in Series /\ now \in Nat
    BY HeadFacts DEF IInv, TypeOK
  <2>2. series \in Series
    BY <2>1, PushBackType
  <2>3. series.isMinIncreasing \in BOOLEAN
    BY <2>2 DEF Series
  <2> HIDE DEF series
  <2> QED
    BY <2>3 DEF IInv, TypeOK, KeepsIncreasing, Affords
<1>2. /\ request = <<>> /\ arrived = <<>>
      /\ level <= e.beta /\ e.beta < Ceiling(e.req.quality)
      /\ \A i \in DOMAIN Tail(events) : Tail(events)[i].type # "dataReceived"
  BY NothingDelayed
<1>3. e.req \in Request /\ e.beta \in Nat /\ rho \in Nat /\ rhoLast \in Nat
  BY HeadFacts, ConstantFacts DEF IInv
<1> HIDE DEF series, initial
<1>4. /\ n \in Request /\ n.seg # 0 /\ n.quality = d.quality
      /\ e.beta < Ceiling(d.quality)
      /\ d.Bdelay \in Int
      /\ d.Bdelay > 0 \/ Bhigh <= MaxDuration
      /\ FitsAt(n, d.Bdelay) \/ FitsAt(n, e.beta)
  BY <1>1, <1>2, <1>3, DecisionFits DEF IInv, NextRequest
<1>5. duration \in Nat /\ n.quality \in Quality
  BY <1>4, RequestFacts, DurationFacts
<1>6. \A b \in Int : FitsAt(n, b) <=> b + duration < Ceiling(n.quality)
  BY DEF FitsAt
<1>7. delay \in Int /\ (delay > 0 => delay = d.Bdelay)
  BY <1>4, ConstantFacts DEF Converted
<1>8. delay <= 0 => ~saturates \/ Bhigh <= MaxDuration
  BY <1>4, ConstantFacts DEF Converted
<1> HIDE DEF d, delay, n, duration
<1>9. CASE ~AcceptsDelay(delay)
  <2>1. Fail("Bdelay")
    BY <1>9 DEF Decide, series, initial, d, delay, n
  <2>2. ~saturates \/ Bhigh <= MaxDuration
    BY <1>7, <1>8, <1>9 DEF AcceptsDelay
  <2>3. AssertionsHold'
    BY <2>1, <2>2 DEF Fail, AssertionsHold
  <2>4. OneUnderWay' /\ OneEventUnderWay'
    BY <2>1 DEF Fail, IInv, OneUnderWay, OneEventUnderWay, decision, download
  <2>5. /\ BufferBounded' /\ BoundedRequest' /\ BoundedArrival' /\ BoundedEvents'
        /\ BoundedDelayed'
    BY <2>1 DEF Fail, IInv, BufferBounded, BoundedRequest, BoundedArrival, BoundedEvents,
                BoundedDelayed, FitsAt, decision, download, Ceiling, Cap
  <2> QED
    BY <2>3, <2>4, <2>5 DEF IInv
<1>10. CASE AcceptsDelay(delay)
  <2>1. /\ Bdelay' = delay /\ events' = Tail(events)
        /\ UNCHANGED <<level, arrived, played, saturates, early, fault>>
    BY <1>10 DEF Decide, series, initial, d, delay, n
  <2>2. delay = d.Bdelay
    BY <1>7, <1>10 DEF AcceptsDelay
  <2>3. \A i \in DOMAIN events' : events'[i].type # "dataReceived"
    BY <1>2, <2>1
  <2>4. OneEventUnderWay' /\ BoundedEvents'
    BY <2>3 DEF OneEventUnderWay, BoundedEvents
  <2>5. BufferBounded' /\ BoundedArrival' /\ AssertionsHold'
    BY <1>2, <2>1 DEF IInv, BufferBounded, BoundedArrival, AssertionsHold, Cap
  <2>6. level \in Nat /\ Ceiling(n.quality) \in Nat /\ e.beta < Ceiling(n.quality)
    BY <1>4, <1>5, CeilingFacts DEF IInv, TypeOK
  <2>7. Ceiling(n.quality) = Cap(n.quality + early')
    BY <2>1 DEF Ceiling
  <2>8. delay + duration < Ceiling(n.quality) \/ e.beta + duration < Ceiling(n.quality)
    <3>1. e.beta \in Int /\ delay \in Int
      BY <1>3, <1>7
    <3>2. FitsAt(n, delay) \/ FitsAt(n, e.beta)
      BY <1>4, <2>2
    <3> QED
      BY <1>6, <3>1, <3>2
  <2>9. CASE e.beta <= delay
    <3>1. /\ request' = <<n>> /\ left' = duration /\ delayedRequests' = <<>>
      BY <1>10, <2>9 DEF Decide, Send, series, initial, d, delay, n, duration
    <3>2. level + duration < Ceiling(n.quality)
      BY <1>2, <1>3, <1>5, <1>7, <2>6, <2>8, <2>9
    <3>3. OneUnderWay'
      BY <1>2, <1>4, <2>1, <3>1 DEF IInv, OneUnderWay
    <3>4. BoundedRequest' /\ BoundedDelayed'
      BY <2>1, <2>7, <3>1, <3>2 DEF BoundedRequest, BoundedDelayed, Ceiling, Cap
    <3> QED
      BY <2>4, <2>5, <3>3, <3>4 DEF IInv
  <2>10. CASE ~(e.beta <= delay)
    <3>1. /\ request' = request /\ delayedRequests' = Append(delayedRequests, n)
      BY <1>10, <2>10 DEF Decide, series, initial, d, delay, n
    <3>2. delayedRequests' = <<n>>
      BY <3>1
    <3>3. OneUnderWay'
      BY <1>2, <1>4, <2>1, <3>1, <3>2 DEF IInv, OneUnderWay
    <3>4. level < Ceiling(n.quality)
      BY <1>2, <1>3, <2>6
    <3>5. Bdelay' + duration < Ceiling(n.quality) \/ level + duration < Ceiling(n.quality)
      BY <1>2, <1>3, <1>5, <1>7, <2>1, <2>6, <2>8
    <3>6. BoundedDelayed'
      BY <2>1, <2>7, <3>2, <3>4, <3>5 DEF BoundedDelayed, FitsAt, Ceiling, Cap, duration
    <3>7. BoundedRequest'
      BY <1>2, <3>1 DEF BoundedRequest
    <3> QED
      BY <2>4, <2>5, <3>3, <3>6, <3>7 DEF IInv
  <2> QED
    BY <2>9, <2>10
<1> QED
  BY <1>9, <1>10

\* The invariant is inductive.
LEMMA NextInv == IInv /\ [Next]_vars => IInv'
<1> SUFFICES ASSUME IInv, [Next]_vars PROVE IInv'
  OBVIOUS
<1>1. TypeOK'
  BY NextType DEF IInv
<1>2. CASE UNCHANGED vars \/ Tick
  <2>1. UNCHANGED <<decision, download, played, events, saturates, early, fault>>
    BY <1>2 DEF vars, Tick
  <2>2. OneUnderWay' /\ OneEventUnderWay' /\ AssertionsHold'
    BY <2>1 DEF IInv, OneUnderWay, OneEventUnderWay, AssertionsHold, decision, download
  <2>3. /\ BufferBounded' /\ BoundedRequest' /\ BoundedArrival' /\ BoundedEvents'
        /\ BoundedDelayed'
    BY <2>1 DEF IInv, BufferBounded, BoundedRequest, BoundedArrival, BoundedEvents,
                BoundedDelayed, FitsAt, decision, download, Ceiling, Cap
  <2> QED
    BY <1>1, <2>2, <2>3 DEF IInv
<1>3. CASE ProcessDataReceived
  <2>1. Running /\ events # <<>> /\ e.type = "dataReceived"
    BY <1>3 DEF ProcessDataReceived
  <2>2. delayedRequests = <<>>
    BY <2>1, NothingDelayed
  <2>3. CASE e.req.seg \in {0, LastSeg}
    BY <1>1, <1>3, <2>1, <2>2, <2>3, ProcessWithoutDecisionInv DEF ProcessDataReceived
  <2>4. CASE e.req.seg \notin {0, LastSeg}
    BY <1>1, <1>3, <2>1, <2>2, <2>4, DecideInv DEF ProcessDataReceived
  <2> QED
    BY <2>3, <2>4
<1> QED
  BY <1>1, <1>2, <1>3, ReceiveInv, CompleteInv, PushReceivedInv, PlayInv,
     PushPlayedInv, ProcessDataPlayedInv DEF Next

-----------------------------------------------------------------------------
(* The theorems *)

\* IInv holds in every reachable state.
LEMMA Invariance == Spec => []IInv
BY InitInv, NextInv, PTL DEF Spec

\* The variables of the algorithm keep their types: no decision names a
\* representation that does not exist.
THEOREM TypeCorrect == Spec => []TypeOK
<1>1. IInv => TypeOK
  BY DEF IInv
<1> QED
  BY <1>1, Invariance, PTL

\* For every configuration, every throughput and every order of the events the
\* buffer stays below one segment per representation above Bhigh, and one more
\* for every request that a stale DataPlayed event released early.
THEOREM BufferIsBounded == Spec => []BufferBounded
<1>1. IInv => BufferBounded
  BY DEF IInv
<1> QED
  BY <1>1, Invariance, PTL

\* delayedRequests is empty whenever a segment completes, and Bdelay is
\* positive if the build saturates and every segment is shorter than Bhigh.
THEOREM AssertionsNeverFail == Spec => []AssertionsHold
<1>1. IInv => AssertionsHold
  BY DEF IInv
<1> QED
  BY <1>1, Invariance, PTL

-----------------------------------------------------------------------------
(* Affordable quality *)

\* The factors of the configuration take something off the throughput: the
\* code reads them from the configuration and does not check them.
FactorsBelowOne == \A i \in 1..5 : Alfa[i] <= 100

\* The rate of q has been affordable.
Affordable(q) == q > 1 => BitRates[q] <= chosenAt

\* Wherever the segment under way is, its quality has been affordable.
AffordableUnderWay ==
  /\ request # <<>> => Affordable(request[1].quality)
  /\ delayedRequests # <<>> => Affordable(delayedRequests[1].quality)
  /\ arrived # <<>> => Affordable(arrived[1].req.quality)
  /\ \A i \in DOMAIN events :
       events[i].type = "dataReceived" => Affordable(events[i].req.quality)

\* The rates are natural numbers, in ascending order.
LEMMA RateFacts ==
  ASSUME NEW q \in Quality
  PROVE  /\ BitRates[q] \in Nat
         /\ \A p \in Quality : p <= q => BitRates[p] <= BitRates[q]
<1>1. BitRates[q] \in Nat
  BY AdaptationAssumption DEF Quality
<1>2. ASSUME NEW p \in Quality, p <= q PROVE p \in 1..q
  BY <1>2 DEF Quality
<1>3. \A p \in 1..q : BitRates[p] <= BitRates[q]
  BY AdaptationAssumption
<1> QED
  BY <1>1, <1>2, <1>3

\* A rate that a factor of the throughput exceeds is below the throughput.
LEMMA FactorFacts ==
  ASSUME FactorsBelowOne, NEW i \in 1..5, NEW q \in Quality, NEW rho \in Nat
  PROVE  /\ Affords(i, q, rho) => BitRates[q] <= rho
         /\ 100 * BitRates[q] < Alfa[i] * rho => BitRates[q] <= rho
<1>1. BitRates[q] \in Nat
  BY RateFacts
<1>2. Alfa[i] \in Nat /\ Alfa[i] <= 100
  BY AdaptationAssumption DEF FactorsBelowOne
<1>3. ASSUME NEW a \in Nat, a <= 100 PROVE a * rho <= 100 * rho /\ a * rho \in Nat
  BY <1>3, SMT
<1>4. Alfa[i] * rho <= 100 * rho /\ Alfa[i] * rho \in Nat
  BY <1>2, <1>3
<1> QED
  BY <1>1, <1>4 DEF Affords

\* The normal phase raises the quality only if the next rate is in reach.
LEMMA NormalRise ==
  ASSUME NEW r \in Request, NEW beta \in Nat, NEW rho \in Nat, NEW rhoLast \in Nat,
         ~(NormalDecision(r, beta, rho, rhoLast).quality <= r.quality)
  PROVE  /\ NormalDecision(r, beta, rho, rhoLast).quality = r.quality + 1
         /\ ~StaysBelow(r.quality, rho)
<1>1. r.quality \in Nat /\ 1 <= r.quality
  BY RequestFacts
<1>2. CASE beta < Bmin
  BY <1>1, <1>2, ConstantFacts DEF NormalDecision
<1>3. CASE beta >= Bmin /\ beta < Blow
  <2>1. NormalDecision(r, beta, rho, rhoLast) =
          [quality |-> LowerUnlessFast(r.quality, rhoLast), Bdelay |-> NoDelay]
    BY <1>3, ConstantFacts DEF NormalDecision
  <2>2. LowerUnlessFast(r.quality, rhoLast) <= r.quality
    BY <1>1 DEF LowerUnlessFast
  <2> QED
    BY <2>1, <2>2
<1>4. CASE beta >= Blow /\ StaysBelow(r.quality, rho)
  <2>1. NormalDecision(r, beta, rho, rhoLast) =
          [quality |-> r.quality, Bdelay |-> DelayUntil(r, beta)]
    BY <1>4, ConstantFacts DEF NormalDecision
  <2> QED
    BY <1>1, <2>1
<1>5. CASE beta >= Blow /\ ~StaysBelow(r.quality, rho)
  <2>1. \/ NormalDecision(r, beta, rho, rhoLast) = [quality |-> r.quality, Bdelay |-> NoDelay]
        \/ NormalDecision(r, beta, rho, rhoLast)
             = [quality |-> r.quality + 1, Bdelay |-> NoDelay]
    BY <1>5, ConstantFacts DEF NormalDecision
  <2> QED
    BY <1>1, <1>5, <2>1
<1> QED
  BY <1>2, <1>3, <1>4, <1>5, ConstantFacts

\* A decision raises the quality to one the throughput affords; otherwise the
\* quality is at most that of the segment before.
LEMMA DecisionAffordable ==
  ASSUME FactorsBelowOne,
         NEW r \in Request, r.seg \notin {0, LastSeg},
         NEW beta \in Nat, NEW rho \in Nat, NEW rhoLast \in Nat,
         NEW initial \in BOOLEAN, initial => r.quality # Highest,
         NEW d, d = SelectRepresentation(r, beta, initial, rho, rhoLast)
  PROVE  /\ d.quality \in Quality
         /\ d.quality > r.quality => BitRates[d.quality] <= rho
<1>1. r.quality \in Quality /\ r.quality \in Nat /\ 1 <= r.quality /\ r.quality <= Highest
  BY RequestFacts
<1>2. d.quality \in Quality
  BY InitialDecisionFacts, NormalDecisionFacts DEF SelectRepresentation
<1>3. ASSUME initial, d.quality > r.quality PROVE BitRates[d.quality] <= rho
  <2>1. PICK i \in 1..5 :
          d.quality = IF Affords(i, r.quality + 1, rho) THEN r.quality + 1 ELSE r.quality
    BY <1>3 DEF SelectRepresentation, InitialDecision
  <2>2. Affords(i, r.quality + 1, rho)
    <3>1. ASSUME ~Affords(i, r.quality + 1, rho) PROVE d.quality = r.quality
      BY <2>1, <3>1
    <3>2. d.quality # r.quality
      <4>1. r.quality \in Int /\ ~(r.quality > r.quality)
        BY <1>1
      <4> QED
        BY <1>3, <4>1
    <3> QED
      BY <3>1, <3>2
  <2>3. d.quality = r.quality + 1
    BY <2>1, <2>2
  <2> QED
    BY <1>2, <2>2, <2>3, FactorFacts
<1>4. ASSUME ~initial, d.quality > r.quality PROVE BitRates[d.quality] <= rho
  <2>1. /\ NormalDecision(r, beta, rho, rhoLast).quality = r.quality + 1
        /\ ~StaysBelow(r.quality, rho)
    BY <1>1, <1>2, <1>4, NormalRise, ConstantFacts DEF SelectRepresentation
  <2>2. d.quality = r.quality + 1
    BY <1>4, <2>1 DEF SelectRepresentation
  <2>3. BitRates[d.quality] \in Nat /\ Alfa[5] \in Nat
    <3>1. BitRates[d.quality] \in Nat
      BY <1>2, RateFacts
    <3>2. Alfa[5] \in Nat
      BY AdaptationAssumption
    <3> QED
      BY <3>1, <3>2
  <2>4. Alfa[5] * rho \in Nat
    BY <2>3, SMT
  <2>5. ~(100 * BitRates[d.quality] >= Alfa[5] * rho)
    BY <2>1, <2>2 DEF StaysBelow
  <2>6. 100 * BitRates[d.quality] < Alfa[5] * rho
    BY <2>3, <2>4, <2>5
  <2> QED
    BY <1>2, <2>6, FactorFacts
<1> QED
  BY <1>2, <1>3, <1>4

\* A quality below an affordable one is affordable.
LEMMA LowerIsAffordable ==
  ASSUME chosenAt \in Nat, NEW q \in Quality, NEW p \in Quality, p <= q, Affordable(q)
  PROVE  Affordable(p)
<1>1. BitRates[p] \in Nat /\ BitRates[q] \in Nat /\ BitRates[p] <= BitRates[q]
  BY RateFacts
<1> QED
  BY <1>1, ConstantFacts DEF Affordable

\* The decision about the next segment keeps the quality affordable.
LEMMA DecideAffordable ==
  ASSUME FactorsBelowOne, IInv, AffordableUnderWay, events # <<>>,
         e.type = "dataReceived", e.req.seg \notin {0, LastSeg},
         NEW rho \in Rates, NEW rhoLast \in Rates, Decide(rho, rhoLast)
  PROVE  AffordableUnderWay'
<1> DEFINE series == PushBack(betaTimeSeries, now, e.beta, 1)
           initial == initialIncrease
                        /\ KeepsIncreasing(e.req.quality, series.isMinIncreasing, rho)
           d == SelectRepresentation(e.req, e.beta, initial, rho, rhoLast)
           delay == Converted(d.Bdelay)
           n == NextRequest(e.req, d.quality)
<1>1. initial \in BOOLEAN /\ (initial => e.req.quality # Highest)
  <2>1. e.beta \in Nat /\ betaTimeSeries \in Series /\ now \in Nat
    BY HeadFacts DEF IInv, TypeOK
  <2>2. series.isMinIncreasing \in BOOLEAN
    BY <2>1, PushBackType DEF Series
  <2> HIDE DEF series
  <2> QED
    BY <2>2 DEF IInv, TypeOK, KeepsIncreasing, Affords
<1>2. /\ delayedRequests = <<>> /\ request = <<>> /\ arrived = <<>>
      /\ \A i \in DOMAIN Tail(events) : Tail(events)[i].type # "dataReceived"
  BY NothingDelayed
<1>3. /\ e.req \in Request /\ e.beta \in Nat /\ rho \in Nat /\ rhoLast \in Nat
      /\ e.req.quality \in Quality /\ e.req.quality \in Nat
      /\ chosenAt \in Nat
  BY HeadFacts, RequestFacts, ConstantFacts DEF IInv, TypeOK
<1>4. Affordable(e.req.quality)
  BY HeadFacts DEF IInv, AffordableUnderWay
<1> HIDE DEF series, initial
<1>5. d.quality \in Quality /\ (d.quality > e.req.quality => BitRates[d.quality] <= rho)
  BY <1>1, <1>3, DecisionAffordable
<1>6. n.quality = d.quality
  BY DEF NextRequest
<1> HIDE DEF d, delay, n
<1>7. CASE ~AcceptsDelay(delay)
  <2>1. Fail("Bdelay")
    BY <1>7 DEF Decide, series, initial, d, delay, n
  <2> QED
    BY <2>1 DEF Fail, AffordableUnderWay, Affordable, decision, download
<1>8. CASE AcceptsDelay(delay)
  <2>1. /\ chosenAt' = IF d.quality > e.req.quality THEN rho ELSE chosenAt
        /\ events' = Tail(events) /\ arrived' = arrived
    BY <1>8 DEF Decide, series, initial, d, delay, n
  <2>2. /\ request' # <<>> => request'[1] = n
        /\ delayedRequests' # <<>> => delayedRequests'[1] = n
    <3>1. CASE e.beta <= delay
      <4>1. request' = <<n>> /\ delayedRequests' = delayedRequests
        BY <1>8, <3>1 DEF Decide, Send, series, initial, d, delay, n
      <4> QED
        BY <1>2, <4>1
    <3>2. CASE ~(e.beta <= delay)
      <4>1. request' = request /\ delayedRequests' = Append(delayedRequests, n)
        BY <1>8, <3>2 DEF Decide, series, initial, d, delay, n
      <4> QED
        BY <1>2, <4>1
    <3> QED
      BY <3>1, <3>2
  <2>3. n.quality > 1 => BitRates[n.quality] <= chosenAt'
    <3>1. CASE d.quality > e.req.quality
      BY <1>5, <1>6, <2>1, <3>1
    <3>2. CASE ~(d.quality > e.req.quality)
      <4>1. d.quality <= e.req.quality
        BY <1>3, <1>5, <3>2, ConstantFacts
      <4>2. Affordable(d.quality)
        BY <1>3, <1>4, <1>5, <4>1, LowerIsAffordable
      <4> QED
        BY <1>6, <2>1, <3>2, <4>2 DEF Affordable
    <3> QED
      BY <3>1, <3>2
  <2> QED
    BY <1>2, <2>1, <2>2, <2>3 DEF AffordableUnderWay, Affordable
<1> QED
  BY <1>7, <1>8

\* Every step keeps the quality affordable.
LEMMA NextAffordable ==
  ASSUME FactorsBelowOne, IInv, AffordableUnderWay, [Next]_vars
  PROVE  AffordableUnderWay'
<1>1. ASSUME UNCHANGED <<request, delayedRequests, arrived, events, chosenAt>>
      PROVE  AffordableUnderWay'
  BY <1>1 DEF AffordableUnderWay, Affordable
<1>2. CASE UNCHANGED vars
  BY <1>1, <1>2 DEF vars, decision, download
<1>3. CASE Receive \/ Play \/ Tick
  BY <1>1, <1>3 DEF Receive, Play, Tick, decision, download
<1>4. CASE Complete
  <2>1. /\ request # <<>> /\ request' = <<>>
        /\ UNCHANGED <<delayedRequests, events, chosenAt>>
        /\ arrived'[1].req = request[1]
    BY <1>4, UnderWayFacts DEF Complete, IInv, decision, DataReceived
  <2> QED
    BY <2>1 DEF AffordableUnderWay, Affordable
<1>5. ASSUME NEW s, events' = events \o s, s \in Seq(Event), Len(s) = 1,
             s[1].type = "dataReceived" => Affordable(s[1].req.quality),
             arrived' \in {<<>>, arrived},
             UNCHANGED <<request, delayedRequests, chosenAt>>
      PROVE  AffordableUnderWay'
  <2>1. events \in Seq(Event)
    BY DEF IInv, TypeOK
  <2>2. /\ DOMAIN events' = 1..(Len(events) + 1) /\ DOMAIN events = 1..Len(events)
        /\ Len(events) \in Nat
        /\ \A i \in DOMAIN events : events'[i] = events[i]
        /\ events'[Len(events) + 1] = s[1]
    BY <1>5, <2>1, OneMore
  <2>3. \A i \in DOMAIN events' : i \in DOMAIN events \/ i = Len(events) + 1
    BY <2>2
  <2> QED
    BY <1>5, <2>2, <2>3 DEF AffordableUnderWay, Affordable
<1>6. CASE PushReceived
  <2>1. arrived \in Seq(Event) /\ Len(arrived) = 1 /\ Affordable(arrived[1].req.quality)
    BY <1>6, UnderWayFacts DEF PushReceived, IInv, TypeOK, AffordableUnderWay
  <2> QED
    BY <1>5, <1>6, <2>1 DEF PushReceived, decision
<1>7. CASE PushPlayed
  <2>1. played \in Seq(Event) /\ Len(played) = 1 /\ played[1].type = "dataPlayed"
    BY <1>7, UnderWayFacts DEF PushPlayed, IInv, TypeOK, OneUnderWay
  <2> QED
    BY <1>5, <1>7, <2>1 DEF PushPlayed, decision, download
<1>8. ASSUME events # <<>>, events' = Tail(events), UNCHANGED <<arrived, chosenAt>>,
             request' # <<>> => Affordable(request'[1].quality),
             delayedRequests' # <<>> => Affordable(delayedRequests'[1].quality)
      PROVE  AffordableUnderWay'
  <2>1. \A i \in DOMAIN events' : i + 1 \in DOMAIN events /\ events'[i] = events[i + 1]
    BY <1>8, HeadFacts DEF IInv
  <2> QED
    BY <1>8, <2>1 DEF AffordableUnderWay, Affordable
<1>9. CASE ProcessDataPlayed
  <2>1. /\ events # <<>> /\ events' = Tail(events) /\ UNCHANGED <<arrived, chosenAt>>
        /\ \/ delayedRequests # <<>> /\ request' = <<Head(delayedRequests)>>
              /\ delayedRequests' = <<>>
           \/ UNCHANGED <<delayedRequests, request>>
    BY <1>9 DEF ProcessDataPlayed, Release, Send
  <2>2. delayedRequests # <<>> => <<Head(delayedRequests)>>[1] = delayedRequests[1]
    BY UnderWayFacts DEF IInv
  <2> QED
    BY <1>8, <2>1, <2>2 DEF AffordableUnderWay
<1>10. CASE ProcessDataReceived
  <2>1. events # <<>> /\ e.type = "dataReceived" /\ delayedRequests = <<>>
    BY <1>10, NothingDelayed DEF ProcessDataReceived
  <2>2. CASE e.req.seg \in {0, LastSeg}
    BY <1>8, <1>10, <2>1, <2>2
       DEF ProcessDataReceived, ProcessWithoutDecision, AffordableUnderWay, download
  <2>3. CASE e.req.seg \notin {0, LastSeg}
    BY <1>10, <2>1, <2>3, DecideAffordable DEF ProcessDataReceived
  <2> QED
    BY <2>2, <2>3
<1> QED
  BY <1>2, <1>3, <1>4, <1>6, <1>7, <1>9, <1>10 DEF Next

\* With factors of at most one, for every configuration, every throughput and
\* every order of the events, a quality above the lowest is in use only if its
\* rate was affordable when the quality was last raised.
THEOREM QualityIsAffordable ==
  ASSUME FactorsBelowOne
  PROVE  Spec => []QualityWasAffordable
<1>1. Init => AffordableUnderWay
  BY DEF Init, AffordableUnderWay, Affordable, DataReceived
<1>2. IInv /\ AffordableUnderWay /\ [Next]_vars => AffordableUnderWay'
  BY NextAffordable
<1>3. IInv /\ AffordableUnderWay => QualityWasAffordable
  <2> SUFFICES ASSUME IInv, AffordableUnderWay, NEW i \in DOMAIN request
               PROVE  Affordable(request[i].quality)
    BY DEF QualityWasAffordable, Affordable
  <2>1. request # <<>>
    OBVIOUS
  <2>2. DOMAIN request = {1}
    BY <2>1, ShortList DEF IInv, TypeOK
  <2> QED
    BY <2>1, <2>2 DEF AffordableUnderWay
<1> QED
  BY <1>1, <1>2, <1>3, Invariance, PTL DEF Spec
=============================================================================
