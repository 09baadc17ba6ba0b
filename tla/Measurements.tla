---------------------------- MODULE Measurements ----------------------------
(***************************************************************************)
(* What the adaptation measures: the throughput of the last delta time     *)
(* units and of the last request (Statistics), the bytes received per      *)
(* interval (Statistics), and the minima of the buffer level (TimeSeries). *)
(*                                                                         *)
(* Requests of one TCP connection complete in order, each when its last    *)
(* byte arrives; recordRequestStatistics() then appends it to the list the *)
(* measurements read.  The code divides doubles; here amounts of data are  *)
(* multiplied by SCALE, which every length of time divides, and a rate is  *)
(* a pair of an amount and a time.                                         *)
(***************************************************************************)
EXTENDS TimeSeries, SequencesExt

CONSTANTS
  LastTick,     \* bound: the latest time
  Sizes,        \* bytes a piece may have
  MaxRequests,  \* bound: requests completed
  Levels,       \* buffer levels that are pushed
  MaxPushes,    \* bound: levels pushed
  Window        \* discrStep of the time series, in ticks

ASSUME MeasurementsAssumption ==
  /\ LastTick \in Nat /\ MaxRequests \in Nat /\ MaxPushes \in Nat
  /\ Window \in Nat \ {0} /\ Sizes \subseteq Nat /\ Levels \subseteq MinValue..MaxValue

VARIABLES
  clock,        \* Utilities::getTime()
  rsList,       \* the completed requests: sent, last byte, download process
  partial,      \* pieces of the next request that have arrived: <<time, bytes>>
  levels,       \* betaTimeSeries
  pushed        \* history: the pairs <<time, level>> pushed into it

measureVars == <<clock, rsList, partial, levels, pushed>>

\* Every length of time up to 4 divides it.
SCALE == 12

MeasureInit ==
  clock = 0 /\ rsList = <<>> /\ partial = <<>> /\ levels = NewSeries /\ pushed = <<>>
-----------------------------------------------------------------------------
(* Statistics *)

BytesOf(pieces) == FoldLeft(LAMBDA sum, piece : sum + piece[2], 0, pieces)
ContentLength(r) == BytesOf(r.process)

\* Mutant: the part of a request that lies in the window counts as a whole.
ShareWhole(r, from) ==
  IF r.sent >= from
  THEN [bits |-> 8 * ContentLength(r) * SCALE, time |-> r.last - r.sent]
  ELSE [bits |-> 8 * ContentLength(r) * SCALE, time |-> r.last - from]

\* What a request adds to the throughput measured since `from'.
Share(r, from) ==
  IF r.sent >= from
  THEN [bits |-> 8 * ContentLength(r) * SCALE, time |-> r.last - r.sent]
  ELSE [bits |-> 8 * ContentLength(r) * (SCALE \div (r.last - r.sent)) * (r.last - from),
        time |-> r.last - from]

\* The requests getThroughput(delta) looks at: from the last one back to the
\* first that had completed when the window began.
InWindow(from) ==
  {i \in DOMAIN rsList : \A j \in i..Len(rsList) : rsList[j].last > from}

\* getThroughput(delta): bits and time, 0 over 0 read as 0.
Throughput(delta) ==
  LET from == clock - delta
  IN  FoldLeft(LAMBDA sum, i : [bits |-> sum.bits + Share(rsList[i], from).bits,
                                time |-> sum.time + Share(rsList[i], from).time],
               [bits |-> 0, time |-> 0], SetToSeq(InWindow(from)))

\* getReceivedBytes(): the time of the step (t1, t2] that falls into the
\* interval [from, to], by the cases of the code (the first that applies), the
\* last of which is an error and ends the process (-1).
Contribution(t1, t2, from, to) ==
  CASE t2 <= from                                              -> 0
    [] t2 > from /\ t1 <= from /\ t2 <= to                     -> t2 - from
    [] t2 > from /\ from < t1 /\ t1 < t2 /\ t2 <= to           -> t2 - t1
    [] t2 > to /\ t1 <= from /\ from < to                      -> to - from
    [] t2 > to /\ from < t1 /\ t1 < to                         -> to - t1
    [] from < to /\ to <= t1 /\ t1 < t2                        -> 0
    [] OTHER                                                   -> -1

\* One piece <<t1, b1>>, read backwards in time: the bytes of the later piece
\* b2 are spread over the time between the two.  Once a step ends before the
\* first interval nothing older is looked at.
AddPiece(acc, piece, T) ==
  LET t1 == piece[1]
      gain(j) == LET c == Contribution(t1, acc.t2, T[j], T[j + 1])
                 IN  IF c = -1 THEN -1
                     ELSE 8 * acc.b2 * (SCALE \div (acc.t2 - t1)) * c
  IN  CASE acc.done -> acc
        [] ~acc.done /\ acc.t2 = -1 -> [acc EXCEPT !.t2 = t1, !.b2 = piece[2]]
        [] ~acc.done /\ acc.t2 = t1 -> [acc EXCEPT !.b2 = @ + piece[2]]
        [] OTHER -> [t2 |-> t1, b2 |-> piece[2], done |-> acc.t2 <= T[1],
                     bits |-> [j \in DOMAIN acc.bits |-> acc.bits[j] + gain(j)]]

\* All pieces that have arrived for completed requests, in the order of time.
Pieces == FlattenSeq([i \in DOMAIN rsList |-> rsList[i].process])

ReceivedBytes(T) ==
  FoldLeft(LAMBDA acc, piece : AddPiece(acc, piece, T),
           [t2 |-> -1, b2 |-> -1, done |-> FALSE,
            bits |-> [j \in 1..(Len(T) - 1) |-> 0]],
           Reverse(Pieces)).bits
-----------------------------------------------------------------------------
(* Actions *)

ClockTick ==
  /\ clock < LastTick
  /\ clock' = clock + 1
  /\ UNCHANGED <<rsList, partial, levels, pushed>>

\* recordDownloadProgress(): a piece of the request in progress, not its last.
ReceivePiece(bytes) ==
  /\ Len(rsList) < MaxRequests /\ Len(partial) < 1
  /\ partial' = Append(partial, <<clock, bytes>>)
  /\ UNCHANGED <<clock, rsList, levels, pushed>>

\* recordRequestStatistics(): the last piece of a request sent at some earlier
\* time, possibly while an earlier one was in progress.
CompleteRequest(sent, bytes) ==
  /\ Len(rsList) < MaxRequests /\ sent <= clock
  /\ partial # <<>> => sent <= partial[1][1]
  /\ rsList' = Append(rsList, [sent |-> sent, last |-> clock,
                               process |-> Append(partial, <<clock, bytes>>)])
  /\ partial' = <<>>
  /\ UNCHANGED <<clock, levels, pushed>>

\* ControlLogicST pushes the buffer level.
PushLevel(level) ==
  /\ MayPush(levels, clock, Window) /\ Len(pushed) < MaxPushes
  /\ levels' = PushBack(levels, clock, level, Window)
  /\ pushed' = Append(pushed, <<clock, level>>)
  /\ UNCHANGED <<clock, rsList, partial>>

\* The requests and the buffer level are measured independently of each other.
RequestNext ==
  \/ ClockTick
  \/ \E bytes \in Sizes : ReceivePiece(bytes)
  \/ \E sent \in 0..LastTick, bytes \in Sizes : CompleteRequest(sent, bytes)

LevelNext ==
  \/ ClockTick
  \/ \E level \in Levels : PushLevel(level)

LevelSpec == MeasureInit /\ [][LevelNext]_measureVars
-----------------------------------------------------------------------------
(* Properties *)

MeasureTypeOK ==
  /\ clock \in 0..LastTick
  /\ \A i \in DOMAIN rsList : rsList[i].sent <= rsList[i].last /\ rsList[i].last <= clock
  /\ levels.isMinIncreasing \in BOOLEAN /\ levels.lastTime <= clock

\* The throughput since any earlier time lies between the lowest and the
\* highest rate of the requests it is made of, unless one of them took no time
\* at all: such a request adds bits and no time.
ThroughputIsAMean ==
  rsList # <<>> => \A delta \in 1..clock :
    LET inside == InWindow(clock - delta)
        mean   == Throughput(delta)
        bits(i) == 8 * ContentLength(rsList[i]) * SCALE
        time(i) == rsList[i].last - rsList[i].sent
    IN  inside # {} /\ (\A i \in inside : time(i) > 0) =>
          /\ mean.time > 0
          /\ \E i \in inside : mean.bits * time(i) <= bits(i) * mean.time
          /\ \E i \in inside : mean.bits * time(i) >= bits(i) * mean.time

\* Increasing sequences of two or more times.
TimeVectors ==
  {SetToSortSeq(S, <) : S \in {S \in SUBSET (0..LastTick) : Cardinality(S) > 1}}

\* What an interval receives by definition: the bytes of every step between
\* two consecutive times, by the share of the step that lies in it.
ReceivedByDefinition(from, to) ==
  LET times == {Pieces[i][1] : i \in DOMAIN Pieces}
      bytesAt(t) == BytesOf(SelectSeq(Pieces, LAMBDA piece : piece[1] = t))
      before(t) == CHOOSE s \in times : s < t /\ \A u \in times : u < t => u <= s
      overlap(s, t) == LET lo == IF s > from THEN s ELSE from
                           hi == IF t < to THEN t ELSE to
                       IN  IF hi > lo THEN hi - lo ELSE 0
      gain(t) == 8 * bytesAt(t) * (SCALE \div (t - before(t))) * overlap(before(t), t)
  IN  FoldLeft(LAMBDA sum, t : sum + gain(t), 0,
               SetToSeq({t \in times : \E s \in times : s < t}))

\* getReceivedBytes() agrees with the definition for every vector of times, and
\* never reaches its last case ("Bug?").
ReceivedBytesAreRight ==
  rsList # <<>> => \A T \in TimeVectors : \A j \in 1..(Len(T) - 1) :
    ReceivedBytes(T)[j] = ReceivedByDefinition(T[j], T[j + 1])

\* What is measured from the list of requests: the throughput, with which the adaptation
\* logic chooses, and the bytes received per interval.
MeasuredRatesAreRight == ThroughputIsAMean /\ ReceivedBytesAreRight

\* The time series says "the minima have not fallen" exactly if of any two
\* finished windows with levels the later has the higher minimum or the same.
MinimaNeverFell ==
  LET windowOf(i) == pushed[i][1] \div Window
      windows  == {windowOf(i) : i \in DOMAIN pushed}
      finished == {w \in windows : \E v \in windows : v > w}
      minimum(w) == CHOOSE x \in {pushed[i][2] : i \in {k \in DOMAIN pushed : windowOf(k) = w}} :
                      \A i \in DOMAIN pushed : windowOf(i) = w => x <= pushed[i][2]
  IN  levels.isMinIncreasing <=>
        \A v, w \in finished : v < w => minimum(v) <= minimum(w)
=============================================================================
