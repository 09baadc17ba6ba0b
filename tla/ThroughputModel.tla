---------------------------- MODULE ThroughputModel ----------------------------
(***************************************************************************)
(* The throughput model of the peer-to-peer player                         *)
(* (deprecated/ThroughputModel.cpp): how many bytes arrived, and for how   *)
(* long something arrived, in each sample of dt ticks; the throughput of   *)
(* the last requests; and the histogram of the throughput of groups of     *)
(* samples.                                                                *)
(*                                                                         *)
(* A GET request is the sequence of its chunks; the first one ends with    *)
(* the header, and its bytes are not counted.  A chunk that filled the     *)
(* buffer is combined with the next one.  The history is kept in a buffer  *)
(* that grows and never forgets, here a sequence (see RingBuffer).         *)
(*                                                                         *)
(* A share of a size is rounded from a product of doubles, which may miss  *)
(* the integer that it should be.  The throughputs of the histogram,       *)
(* doubles too, are rational numbers here.                                 *)
(***************************************************************************)
EXTENDS Integers, Sequences, SequencesExt

CONSTANTS
  DT,           \* dt: length of a sample
  Ticks,        \* times at which something is sent or arrives
  ChunkSizes,   \* sizes of a chunk
  MaxChunks,    \* bound: chunks of a request
  MaxGETs,      \* bound: requests
  NumBins,      \* bins of the histogram
  Below, Above  \* <<size, part, length>>: size * (part / length) is an integer, and
                \* as a double lies below or above it

ASSUME ThroughputAssumption ==
  /\ DT \in Nat \ {0} /\ NumBins \in Nat \ {0}
  /\ Ticks \subseteq Nat \ {0} /\ Ticks # {} /\ MaxChunks \in Nat \ {0} /\ MaxGETs \in Nat
  /\ ChunkSizes \subseteq Nat \ {0}
  /\ Below \cap Above = {}
  /\ \A t \in Below \cup Above :
       /\ t \in (Nat \ {0}) \X (Nat \ {0}) \X (Nat \ {0})
       /\ t[2] # t[3] /\ (t[1] * t[2]) % t[3] = 0

VARIABLES
  getStatisticsHistory,   \* the requests
  throughputProcess,      \* the samples
  broken                  \* an assertion failed

throughputVars == <<getStatisticsHistory, throughputProcess, broken>>

ThroughputInit ==
  getStatisticsHistory = <<>> /\ throughputProcess = <<>> /\ broken = FALSE

Begin(gs) == Head(gs.chunks).received
End(gs) == Last(gs.chunks).received

CeilDiv(a, b) == (a + b - 1) \div b

\* The share of a size that part has in length, as the code rounds it.
FloorOf(size, part, length) ==
  (size * part) \div length - (IF <<size, part, length>> \in Below THEN 1 ELSE 0)
CeilOf(size, part, length) ==
  CeilDiv(size * part, length) + (IF <<size, part, length>> \in Above THEN 1 ELSE 0)

SumOver(f(_), indexes) == FoldLeft(LAMBDA sum, i : sum + f(i), 0, indexes)
Indexes(from, to) == [n \in 1..(to - from + 1) |-> from + n - 1]
-----------------------------------------------------------------------------
(* updateThroughputProcess(): the last sample is calculated again, and the     *)
(* samples up to the end of the last request are added.                        *)

EndTime(history) == CeilDiv(End(Last(history)), DT) * DT
StartTime(process) == IF process = <<>> THEN 0 ELSE Last(process).start

\* i_first and i_last: behind the last request that was complete when the new
\* samples begin, and the last one whose chunks begin before they end.
FirstRelevant(history, from) == Max({0} \cup {r \in DOMAIN history : End(history[r]) <= from}) + 1
LastRelevant(history, to) == Max({r \in DOMAIN history : Begin(history[r]) < to})

\* No request begins before the end, as with one chunk on the boundary of a
\* sample: the search runs beyond the history.
RunsBeyond(history) == \A r \in DOMAIN history : Begin(history[r]) >= EndTime(history)

\* The chunks of a request behind the first one, combined with what follows as
\* long as they filled the buffer, with the times they began and ended.
Combined(gs) ==
  FoldLeft(LAMBDA s, c :
             LET chunk == gs.chunks[c]
             IN IF c > 2 /\ gs.chunks[c - 1].ifFull
                THEN Front(s) \o <<[Last(s) EXCEPT !.end = chunk.received, !.size = @ + chunk.size]>>
                ELSE Append(s, [begin |-> gs.chunks[c - 1].received, end |-> chunk.received,
                                size |-> chunk.size]),
           <<>>, Indexes(2, Len(gs.chunks)))

\* The bytes of a chunk in a sample: rounded down at its left edge and up at its
\* right one.
BytesIn(chunk, begin, end) ==
  LET length == chunk.end - chunk.begin
  IN CASE chunk.end <= begin \/ chunk.begin >= end -> 0
       [] chunk.begin > begin /\ chunk.end <= end -> chunk.size
       [] chunk.begin <= begin /\ chunk.end <= end -> FloorOf(chunk.size, chunk.end - begin, length)
       [] chunk.begin <= begin /\ chunk.end > end ->
            chunk.size - (CeilOf(chunk.size, begin - chunk.begin, length)
                          + FloorOf(chunk.size, chunk.end - end, length))
       [] chunk.begin > begin /\ chunk.end > end -> CeilOf(chunk.size, end - chunk.begin, length)

ActiveIn(chunk, begin, end) ==
  IF chunk.end <= begin \/ chunk.begin >= end THEN 0
  ELSE Min({chunk.end, end}) - Max({chunk.begin, begin})

\* A sample takes the chunks from the cursor to the first one that ends with it
\* or later, where the next sample begins.
LastOfSample(chunks, cursor, stop) ==
  Min({c \in cursor..Len(chunks) : chunks[c].end >= stop} \cup {Len(chunks) + 1})

\* Mutant: the next sample begins behind the chunk with which this one ends.
NextCursorBehind(chunks, cursor, stop) == LastOfSample(chunks, cursor, stop) + 1

NextCursor(chunks, cursor, stop) == LastOfSample(chunks, cursor, stop)

Sample(chunks, cursor, start) ==
  LET stop == start + DT
      taken == Indexes(cursor, Min({LastOfSample(chunks, cursor, stop), Len(chunks)}))
  IN [start |-> start, stop |-> stop,
      num_bytes |-> SumOver(LAMBDA c : BytesIn(chunks[c], start, stop), taken),
      active |-> SumOver(LAMBDA c : ActiveIn(chunks[c], start, stop), taken)]

UpdatedThroughputProcess(history, process) ==
  LET startTime == StartTime(process)
      endTime == EndTime(history)
      requests == Indexes(FirstRelevant(history, startTime), LastRelevant(history, endTime))
      chunks == FlattenSeq([n \in DOMAIN requests |-> Combined(history[requests[n]])])
      starts == [n \in 1..((endTime - startTime) \div DT) |-> startTime + (n - 1) * DT]
  IN FoldLeft(LAMBDA done, start :
                [samples |-> Append(done.samples, Sample(chunks, done.cursor, start)),
                 cursor |-> NextCursor(chunks, done.cursor, start + DT)],
              [samples |-> IF process = <<>> THEN <<>> ELSE Front(process), cursor |-> 1],
              starts).samples
-----------------------------------------------------------------------------
(* getThroughput(): the mean of the samples with some activity *)

\* Ten bits a byte stand for the 8000000 of the code.
RateOf(bytes, time) == (10 * bytes) \div time

Active(from) == {i \in DOMAIN throughputProcess :
                   i > from \div DT /\ throughputProcess[i].active >= 1}

MeanThroughput(from) ==
  SumOver(LAMBDA i : RateOf(throughputProcess[i].num_bytes, throughputProcess[i].active),
          SetToSeq(Active(from))) \div Cardinality(Active(from))
-----------------------------------------------------------------------------
(* getGETThroughput() *)

\* The request with which the calculation begins: the last one that was sent by
\* that time, if it was not complete, or else the one behind it, if there is one.
FirstFrom(from) ==
  LET sent == Max({r \in DOMAIN getStatisticsHistory : getStatisticsHistory[r].started <= from})
  IN IF End(getStatisticsHistory[sent]) > from THEN {sent}
     ELSE {sent + 1} \cap DOMAIN getStatisticsHistory

\* content_size: the first chunk holds the beginning of the content.
ContentSize(gs) == SumOver(LAMBDA c : gs.chunks[c].size, Indexes(1, Len(gs.chunks)))
GetDuration(gs) == End(gs) - gs.started

\* Bytes and ticks: of the first request its share from that time on.
GETThroughput(from) ==
  LET first == CHOOSE r \in FirstFrom(from) : TRUE
      gs == getStatisticsHistory[first]
      later == Indexes(first + 1, Len(getStatisticsHistory))
  IN [bytes |-> FloorOf(ContentSize(gs), End(gs) - from, GetDuration(gs))
                  + SumOver(LAMBDA r : ContentSize(getStatisticsHistory[r]), later),
      activity |-> End(gs) - from
                  + SumOver(LAMBDA r : GetDuration(getStatisticsHistory[r]), later)]
-----------------------------------------------------------------------------
(* calculateThroughputHistogram(), of the whole process *)

\* Groups of `distance' samples, aligned with the last one.
NumGroups(distance) == Len(throughputProcess) \div distance
Group(distance, g) ==
  LET first == Len(throughputProcess) - distance * (NumGroups(distance) - g + 1)
      members == Indexes(first + 1, first + distance)
  IN [bytes |-> SumOver(LAMBDA i : throughputProcess[i].num_bytes, members),
      active |-> SumOver(LAMBDA i : throughputProcess[i].active, members)]

\* The activity must not be below a small share of two samples: here one tick.
Valid(distance) ==
  {g \in 1..NumGroups(distance) : Group(distance, g).active >= 1}

\* The throughput a is lower than b.
Slower(a, b) == a.bytes * b.active < b.bytes * a.active

MinThroughput(distance) ==
  Group(distance, CHOOSE g \in Valid(distance) :
          \A h \in Valid(distance) : ~Slower(Group(distance, h), Group(distance, g)))
MaxThroughput(distance) ==
  Group(distance, CHOOSE g \in Valid(distance) :
          \A h \in Valid(distance) : ~Slower(Group(distance, g), Group(distance, h)))

\* The bin of a group, from 0: its place between the lowest and the highest
\* throughput, which are rational numbers.
BinOf(distance, g) ==
  LET x == Group(distance, g)
      low == MinThroughput(distance)  high == MaxThroughput(distance)
  IN IF ~Slower(low, x) THEN 0
     ELSE IF ~Slower(x, high) THEN NumBins - 1
     ELSE ((x.bytes * low.active - low.bytes * x.active) * NumBins * high.active)
            \div (x.active * (high.bytes * low.active - low.bytes * high.active))

Histogram(distance) ==
  [bin \in 0..(NumBins - 1) |-> Cardinality({g \in Valid(distance) : BinOf(distance, g) = bin})]
-----------------------------------------------------------------------------
\* add(): a request that was sent after the one before was complete.
Add(gs) ==
  LET history == Append(getStatisticsHistory, gs)
  IN /\ getStatisticsHistory' = history
     /\ IF RunsBeyond(history) THEN broken' = TRUE /\ UNCHANGED throughputProcess
        ELSE /\ throughputProcess' = UpdatedThroughputProcess(history, throughputProcess)
             /\ UNCHANGED broken

ArrivalTimes(last) ==
  {t \in UNION {[1..n -> {tick \in Ticks : tick > last}] : n \in 2..(MaxChunks + 1)} :
     \A i \in 1..(Len(t) - 1) : t[i] < t[i + 1]}

\* A request is sent, and its chunks arrive one after the other, all of them or
\* none filling the buffer.
ThroughputNext ==
  /\ ~broken /\ Len(getStatisticsHistory) < MaxGETs
  /\ LET last == IF getStatisticsHistory = <<>> THEN 0 ELSE End(Last(getStatisticsHistory))
     IN \E t \in ArrivalTimes(last) :
          \E sizes \in [1..(Len(t) - 1) -> ChunkSizes], full \in BOOLEAN :
            Add([started |-> Head(t),
                 chunks |-> [c \in 1..(Len(t) - 1) |->
                               [received |-> t[c + 1], size |-> sizes[c], ifFull |-> full]]])

ThroughputSpec == ThroughputInit /\ [][ThroughputNext]_throughputVars
-----------------------------------------------------------------------------
(* Properties *)

AllChunks ==
  FlattenSeq([r \in DOMAIN getStatisticsHistory |-> Combined(getStatisticsHistory[r])])

\* Reference: the bytes of a chunk that had arrived by a time, and whether it was
\* arriving in the tick behind that time.
ArrivedBy(chunk, time) ==
  CeilDiv(chunk.size * Min({Max({time - chunk.begin, 0}), chunk.end - chunk.begin}),
          chunk.end - chunk.begin)
ArrivingAt(time) == \E c \in DOMAIN AllChunks : AllChunks[c].begin <= time /\ time < AllChunks[c].end

\* The chunks that are arriving at an edge between two samples, and whose share on
\* one of its sides is misrounded: at most one, as they arrive one after the other.
Misrounded(edge) ==
  {c \in DOMAIN AllChunks :
     LET chunk == AllChunks[c]  length == chunk.end - chunk.begin
     IN /\ chunk.begin < edge /\ edge < chunk.end
        /\ \/ <<chunk.size, edge - chunk.begin, length>> \in Above
           \/ <<chunk.size, chunk.end - edge, length>> \in Below}

\* A sample misses a byte at most for its beginning, and has one too many at most
\* for its end.
SamplesMatchTheChunks ==
  \A i \in DOMAIN throughputProcess :
    LET sample == throughputProcess[i]
    IN /\ sample.start = (i - 1) * DT /\ sample.stop = i * DT
       /\ sample.num_bytes
            - SumOver(LAMBDA c : ArrivedBy(AllChunks[c], sample.stop) - ArrivedBy(AllChunks[c], sample.start),
                      Indexes(1, Len(AllChunks)))
            \in -Cardinality(Misrounded(sample.start))..Cardinality(Misrounded(sample.stop))
       /\ sample.active = Cardinality({t \in sample.start..(sample.stop - 1) : ArrivingAt(t)})

MeansAreBetweenExtremes ==
  \A from \in 0..(DT * Len(throughputProcess)) : Active(from) # {} =>
    LET rates == {RateOf(throughputProcess[i].num_bytes, throughputProcess[i].active) : i \in Active(from)}
    IN \E slow, fast \in rates : slow <= MeanThroughput(from) /\ MeanThroughput(from) <= fast

\* Requests count from the time asked for, and no byte twice, if one of them was
\* under way at that time.  Otherwise the time until the next one counts as well,
\* with bytes to match.
LookbackCountsRequests ==
  \A from \in 1..Max(Ticks) :
    getStatisticsHistory # <<>> /\ from >= Head(getStatisticsHistory).started =>
      \A first \in FirstFrom(from) :
        LET counted == Indexes(first, Len(getStatisticsHistory))
            duration == Cardinality({t \in from..(Max(Ticks) - 1) : \E r \in DOMAIN getStatisticsHistory :
                          getStatisticsHistory[r].started <= t /\ t < End(getStatisticsHistory[r])})
            size == SumOver(LAMBDA r : ContentSize(getStatisticsHistory[r]), counted)
        IN IF getStatisticsHistory[first].started <= from
           THEN GETThroughput(from).activity = duration /\ GETThroughput(from).bytes <= size
           ELSE GETThroughput(from).activity > duration /\ GETThroughput(from).bytes >= size

\* Each group with some activity is in one bin, the slowest in the first and the
\* fastest in the last, and a slower one never behind a faster one.
HistogramIsOrdered ==
  \A distance \in DOMAIN throughputProcess : Valid(distance) # {} =>
    /\ SumOver(LAMBDA bin : Histogram(distance)[bin], Indexes(0, NumBins - 1)) = Cardinality(Valid(distance))
    /\ Histogram(distance)[0] > 0
    /\ Slower(MinThroughput(distance), MaxThroughput(distance)) => Histogram(distance)[NumBins - 1] > 0
    /\ \A g, h \in Valid(distance) :
         Slower(Group(distance, g), Group(distance, h)) => BinOf(distance, g) <= BinOf(distance, h)

\* However the requests and their chunks fall on the samples, each byte behind the
\* header's chunk is counted once, in the sample in which it arrived, although
\* every request calculates the last sample again - except for one byte at an edge
\* where the share of the chunk is an integer that the doubles miss: that byte may
\* be counted twice or not at all.  The process ends only when the first request
\* has one chunk, on the boundary of a sample.
SamplesAreRight ==
  IF broken
  THEN LET gs == Last(getStatisticsHistory)
       IN Len(getStatisticsHistory) = 1 /\ Len(gs.chunks) = 1 /\ End(gs) % DT = 0
  ELSE /\ SamplesMatchTheChunks
       /\ MeansAreBetweenExtremes
       /\ LookbackCountsRequests
       /\ HistogramIsOrdered
=============================================================================
