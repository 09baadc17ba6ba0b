----------------------------- MODULE Adaptation -----------------------------
(***************************************************************************)
(* The adaptation algorithm of ControlLogicST: after every segment it      *)
(* chooses the representation of the next one and the buffer level Bdelay  *)
(* until which its request waits.  Around it: the download of one segment  *)
(* at a time, the buffer it fills, VLC's thread that empties it, and the   *)
(* events both send to the control thread.                                 *)
(*                                                                         *)
(* Buffer levels and durations are counted in half seconds, rates in       *)
(* percent of an arbitrary unit.  The throughput is measured elsewhere     *)
(* (module Measurements): any value of Rates may be the result.  ControlLoop *)
(* models the same thread with its connections and queues, and leaves the  *)
(* choice of Bdelay open.                                                  *)
(***************************************************************************)
EXTENDS TimeSeries, Sequences, FiniteSets

CONSTANTS
  BitRates,         \* bit-rates of the representations, ascending
  LastSeg,          \* the stop segment
  Duration,         \* duration of a segment in a representation
  MaxDuration,
  Bmin, Blow, Bhigh,
  Alfa,             \* alfa1..alfa5, in percent
  NoDelay,          \* the int64 maximum
  Rates,            \* throughputs
  MaxTime,          \* bound: seconds of the clock
  MaxEvents         \* bound: events waiting while VLC sends one more

Quality == 1..Len(BitRates)
Highest == Len(BitRates)
Seg == 0..LastSeg

ASSUME AdaptationAssumption ==
  /\ BitRates \in Seq(Nat) /\ BitRates # <<>>
  /\ \A q \in Quality : \A p \in 1..q : BitRates[p] <= BitRates[q]
  /\ LastSeg \in Nat \ {0}
  /\ MaxDuration \in Nat \ {0}
  /\ Duration \in [Quality -> [1..LastSeg -> 1..MaxDuration]]
  /\ Bmin \in Nat /\ Blow \in Nat /\ Bhigh \in Nat
  /\ Bmin <= Blow /\ Blow < Bhigh
  /\ Alfa \in [1..5 -> Nat]
  /\ NoDelay \in Nat \ {0}
  /\ Rates \subseteq Nat
  /\ MaxTime \in Nat /\ MaxEvents \in Nat

VARIABLES
  initialIncrease, betaTimeSeries, Bdelay,
  delayedRequests,  \* requests that wait for the buffer to empty
  request,          \* the requests sent and not answered
  left,             \* what is missing of the answer
  level,            \* media VLC has not read yet
  arrived,          \* the event the HTTP client's thread is about to push
  played,           \* the event VLC's thread is about to push
  events,
  now,              \* the clock
  saturates,        \* how the build converts the int64 maximum to double and back
  chosenAt,         \* history: the throughput when the quality was last raised
  early,            \* history: requests released above Bdelay
  fault             \* the assertion that failed

decision == <<initialIncrease, betaTimeSeries, Bdelay, delayedRequests>>
download == <<request, left, level, arrived>>
vars == <<decision, download, played, events, now, saturates, chosenAt, early, fault>>

Request == [seg : Seg, quality : Quality]
DataReceived(r, beta) ==
  [type |-> "dataReceived", req |-> r, beta |-> beta]
DataPlayed(beta) ==
  [type |-> "dataPlayed", req |-> [seg |-> 0, quality |-> 1], beta |-> beta]
Event == [type : {"dataReceived", "dataPlayed"}, req : Request, beta : Nat]

NextRequest(r, q) == [seg |-> r.seg + 1, quality |-> q]

Running == fault = "none"

-----------------------------------------------------------------------------
(* selectRepresentation() *)

\* Mutant: the factor is applied to the rate instead of the throughput.
AffordsTooMuch(alfa, q, rho) == Alfa[alfa] * BitRates[q] <= 100 * rho

\* r <= alfa * rho
Affords(alfa, q, rho) == 100 * BitRates[q] <= Alfa[alfa] * rho

Larger(a, b) == IF a < b THEN b ELSE a

\* The initial increase goes on as long as nothing speaks against it.
KeepsIncreasing(q, minIncreasing, rho) ==
  q # Highest /\ minIncreasing /\ Affords(1, q, rho)

\* II1, II2, II3: up if the throughput allows it, delayed only above Blow.
InitialDecision(r, beta, rho) ==
  LET alfa == IF beta < Bmin THEN 2 ELSE IF beta < Blow THEN 3 ELSE 4
      q == IF Affords(alfa, r.quality + 1, rho) THEN r.quality + 1 ELSE r.quality
  IN  [quality |-> q,
       Bdelay |-> IF beta < Blow THEN NoDelay ELSE Bhigh - Duration[q][r.seg + 1]]

\* Whether the next higher rate is out of reach: r >= alfa5 * rho.
StaysBelow(q, rho) == q = Highest \/ 100 * BitRates[q + 1] >= Alfa[5] * rho

WholeSeconds(x) == (x \div 2) * 2

\* Mutant: the duration of the next segment is not subtracted.
DelayUntilLevel(r, beta) ==
  IF beta < Bhigh
  THEN Larger(beta, (Blow + Bhigh) \div 2)
  ELSE Larger(WholeSeconds(beta), WholeSeconds(Blow + Bhigh) \div 2)

\* The level at which the next segment, of the same quality, fits again.
DelayUntil(r, beta) ==
  LET duration == Duration[r.quality][r.seg + 1]
      margin == IF r.quality = Highest THEN 2 ELSE 0
  IN  IF beta < Bhigh
      THEN Larger(beta - duration, (Blow + Bhigh) \div 2)
      ELSE Larger(WholeSeconds(beta) - duration - margin, WholeSeconds(Blow + Bhigh) \div 2)

\* NO1: below Blow the quality falls unless the last download was fast enough.
LowerUnlessFast(q, rhoLast) ==
  IF q = 1 \/ rhoLast > BitRates[q] THEN q ELSE q - 1

\* NO0 to NO3.
NormalDecision(r, beta, rho, rhoLast) ==
  CASE beta < Bmin ->
         [quality |-> 1, Bdelay |-> NoDelay]
    [] beta >= Bmin /\ beta < Blow ->
         [quality |-> LowerUnlessFast(r.quality, rhoLast), Bdelay |-> NoDelay]
    [] beta >= Blow /\ StaysBelow(r.quality, rho) ->
         [quality |-> r.quality, Bdelay |-> DelayUntil(r, beta)]
    [] beta >= Blow /\ beta < Bhigh /\ ~StaysBelow(r.quality, rho) ->
         [quality |-> r.quality, Bdelay |-> NoDelay]
    [] OTHER ->
         [quality |-> r.quality + 1, Bdelay |-> NoDelay]

SelectRepresentation(r, beta, initial, rho, rhoLast) ==
  IF initial THEN InitialDecision(r, beta, rho) ELSE NormalDecision(r, beta, rho, rhoLast)

\* A Decision takes Bdelay as a double: the int64 maximum becomes 2^63, whose
\* conversion back is undefined; a build saturates it or wraps it.
Converted(delay) == IF delay = NoDelay /\ ~saturates THEN -NoDelay ELSE delay

\* Mutant: the assertion is dropped.
AcceptsAny(delay) == TRUE

\* dp2p_assert(Bdelay > 0)
AcceptsDelay(delay) == delay > 0

-----------------------------------------------------------------------------
(* Download, playback, clock *)

\* The MPD has been processed, and the init segment has been received.
Init ==
  /\ initialIncrease = TRUE /\ betaTimeSeries = NewSeries /\ Bdelay = NoDelay
  /\ delayedRequests = <<>>
  /\ request = <<[seg |-> 1, quality |-> 1]>> /\ left = Duration[1][1] /\ level = 0
  /\ arrived = <<>> /\ played = <<>>
  /\ events = <<DataReceived([seg |-> 0, quality |-> 1], 0)>>
  /\ now = 0
  /\ saturates \in BOOLEAN
  /\ chosenAt = 0 /\ early = 0
  /\ fault = "none"

\* createActionDownloadSegments(): the client sends the request at once.
Send(r) ==
  /\ request' = <<r>>
  /\ left' = Duration[r.quality][r.seg]

Receive ==
  /\ Running /\ request # <<>> /\ left > 0 /\ arrived = <<>>
  /\ level' = level + 1 /\ left' = left - 1
  /\ UNCHANGED <<decision, request, arrived, played, events, now, saturates,
                 chosenAt, early, fault>>

\* httpDataReceived_Segment() computes the buffer level, and pushes the event
\* after it has released the mutex.
Complete ==
  /\ Running /\ request # <<>> /\ left = 0 /\ arrived = <<>>
  /\ arrived' = <<DataReceived(Head(request), level)>>
  /\ request' = <<>>
  /\ UNCHANGED <<decision, left, level, played, events, now, saturates,
                 chosenAt, early, fault>>

PushReceived ==
  /\ Running /\ arrived # <<>>
  /\ events' = events \o arrived /\ arrived' = <<>>
  /\ UNCHANGED <<decision, request, left, level, played, now, saturates,
                 chosenAt, early, fault>>

\* vlcCb() reads data, and pushes the event after it has released the mutex.
Play ==
  /\ Running /\ level > 0 /\ played = <<>>
  /\ level' = level - 1 /\ played' = <<DataPlayed(level - 1)>>
  /\ UNCHANGED <<decision, request, left, arrived, events, now, saturates,
                 chosenAt, early, fault>>

PushPlayed ==
  /\ Running /\ played # <<>> /\ Len(events) <= MaxEvents
  /\ events' = events \o played /\ played' = <<>>
  /\ UNCHANGED <<decision, download, now, saturates, chosenAt, early, fault>>

Tick ==
  /\ Running /\ now < MaxTime
  /\ now' = now + 1
  /\ UNCHANGED <<decision, download, played, events, saturates, chosenAt, early, fault>>

-----------------------------------------------------------------------------
(* The control thread *)

e == Head(events)

\* Mutant: the released request stays in the list.
ReleaseAndKeep ==
  /\ Send(Head(delayedRequests))
  /\ UNCHANGED delayedRequests

Release ==
  /\ Send(Head(delayedRequests))
  /\ delayedRequests' = <<>>

\* processEventDataPlayed()
ProcessDataPlayed ==
  /\ Running /\ events # <<>> /\ e.type = "dataPlayed"
  /\ events' = Tail(events)
  /\ betaTimeSeries' = PushBack(betaTimeSeries, now, e.beta, 1)
  /\ IF delayedRequests # <<>> /\ e.beta <= Bdelay
     THEN /\ Release
          /\ Bdelay' = NoDelay
          /\ early' = IF level > Bdelay THEN early + 1 ELSE early
     ELSE UNCHANGED <<delayedRequests, request, left, Bdelay, early>>
  /\ UNCHANGED <<initialIncrease, level, arrived, played, now, saturates,
                 chosenAt, fault>>

Fail(where) ==
  /\ fault' = where
  /\ UNCHANGED <<decision, download, played, events, now, saturates, chosenAt, early>>

\* After the init segment and the stop segment there is nothing to decide.
ProcessWithoutDecision ==
  /\ betaTimeSeries' = PushBack(betaTimeSeries, now, e.beta, 1)
  /\ events' = Tail(events)
  /\ UNCHANGED <<initialIncrease, Bdelay, delayedRequests, download, played, now,
                 saturates, chosenAt, early, fault>>

\* The decision about the next segment, and its request, sent or delayed.
Decide(rho, rhoLast) ==
  LET series == PushBack(betaTimeSeries, now, e.beta, 1)
      initial == initialIncrease
                   /\ KeepsIncreasing(e.req.quality, series.isMinIncreasing, rho)
      d == SelectRepresentation(e.req, e.beta, initial, rho, rhoLast)
      delay == Converted(d.Bdelay)
      next == NextRequest(e.req, d.quality)
  IN  IF ~AcceptsDelay(delay)
      THEN Fail("Bdelay")
      ELSE /\ betaTimeSeries' = series
           /\ initialIncrease' = initial
           /\ Bdelay' = delay
           /\ chosenAt' = IF d.quality > e.req.quality THEN rho ELSE chosenAt
           /\ events' = Tail(events)
           /\ IF e.beta <= delay
              THEN Send(next) /\ UNCHANGED delayedRequests
              ELSE /\ delayedRequests' = Append(delayedRequests, next)
                   /\ UNCHANGED <<request, left>>
           /\ UNCHANGED <<level, arrived, played, now, saturates, early, fault>>

\* processEventDataReceivedSegment(): a delayed request is not expected.
ProcessDataReceived ==
  /\ Running /\ events # <<>> /\ e.type = "dataReceived"
  /\ IF delayedRequests # <<>>
     THEN Fail("delayedRequests")
     ELSE IF e.req.seg \in {0, LastSeg}
          THEN ProcessWithoutDecision
          ELSE \E rho, rhoLast \in Rates : Decide(rho, rhoLast)

Next ==
  \/ Receive \/ Complete \/ PushReceived
  \/ Play \/ PushPlayed
  \/ Tick
  \/ ProcessDataPlayed
  \/ ProcessDataReceived

Spec == Init /\ [][Next]_vars

-----------------------------------------------------------------------------
(* Properties *)

Series ==
  [isMinIncreasing : BOOLEAN, lastMinValue : Int, curMinValue : Int,
   curStepNr : Int, lastTime : Int]

\* The variables have their types: the quality is always that of a
\* representation, there is at most one request on the way and one delayed.
TypeOK ==
  /\ initialIncrease \in BOOLEAN
  /\ betaTimeSeries \in Series
  /\ Bdelay \in Nat \ {0}
  /\ delayedRequests \in Seq(Request) /\ Len(delayedRequests) <= 1
  /\ request \in Seq(Request) /\ Len(request) <= 1
  /\ left \in Nat /\ level \in Nat
  /\ arrived \in Seq(Event) /\ Len(arrived) <= 1
  /\ played \in Seq(Event) /\ Len(played) <= 1
  /\ events \in Seq(Event)
  /\ now \in Nat
  /\ saturates \in BOOLEAN
  /\ chosenAt \in Nat /\ early \in Nat
  /\ fault \in {"none", "delayedRequests", "Bdelay"}

\* What the adaptation may let the buffer grow to: one segment above Bhigh per
\* representation it can still switch up to.
Cap(k) == Bhigh + k * MaxDuration

\* The buffer stays bounded although a request is never delayed while the
\* quality rises (NO3_UP).  Only a DataPlayed event computed before the last
\* segment arrived and processed after it costs one more segment: it releases
\* a delayed request above Bdelay.
BufferBounded == level < Cap(Highest + early)

\* No assertion of the control logic fails, unless the build wraps the
\* conversion of the int64 maximum, or a segment lasts as long as Bhigh.
AssertionsHold ==
  /\ fault # "delayedRequests"
  /\ fault = "Bdelay" => ~saturates \/ Bhigh <= MaxDuration

\* Above the lowest one, the quality in use needs at most the throughput that
\* was measured when the quality was last raised: the algorithm never climbs on
\* throughput it has not seen.
QualityWasAffordable ==
  \A i \in DOMAIN request :
    request[i].quality > 1 => BitRates[request[i].quality] <= chosenAt
=============================================================================
