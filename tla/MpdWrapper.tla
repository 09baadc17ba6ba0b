------------------------------ MODULE MpdWrapper ------------------------------
(***************************************************************************)
(* What the control logic asks of a parsed MPD: the resolution it will     *)
(* play, the bit-rates that have it, the number of the last segment, and   *)
(* where each segment begins and ends.                                     *)
(*                                                                         *)
(* The presentation has one period with one adaptation set, as the player  *)
(* uses no other.  A field that may be unset is a set of at most one       *)
(* value; width and height are given together.  Times are in ticks, Second *)
(* of them a second.                                                       *)
(***************************************************************************)
EXTENDS Integers, SequencesExt

CONSTANTS
  BandWidths, Resolutions, Durations, TimeScales,
  SegmentURLs,      \* numbers of segments
  VideoDurations,
  Screens,          \* values of the options dashp2p-width and dashp2p-height
  MaxRepresentations,
  Second,
  MaxInt            \* the maximum of int

VARIABLES
  adaptationSet, videoDuration,
  screen,           \* the width and the height the user asks for
  state,            \* HAVE_MPD or not yet
  resolution, bitRates, stopSegment,
  streamFault

presentation == <<adaptationSet, videoDuration, screen>>
streamVars == <<presentation, state, resolution, bitRates, stopSegment, streamFault>>

IsSet(field) == field # {}
Get(field) == CHOOSE v \in field : TRUE

Representation ==
  [bandwidth : BandWidths, size : {{}} \union {{r} : r \in Resolutions},
   duration : Durations, timescale : {{}} \union {{t} : t \in TimeScales},
   segmentURLs : SegmentURLs]

reps == adaptationSet.representations

\* A width and a height of 0: any resolution.
AnyResolution == <<0, 0>>

-----------------------------------------------------------------------------
(* Sorting *)

\* One pass over neighbours, exchanging those in the wrong order.
BubblePass(s, Above(_, _)) ==
  FoldLeft(LAMBDA t, i : IF Above(t[i], t[i + 1])
                         THEN [t EXCEPT ![i] = t[i + 1], ![i + 1] = t[i]] ELSE t,
           s, [i \in 1..(Len(s) - 1) |-> i])

BubbleSort(s, Above(_, _)) ==
  FoldLeft(LAMBDA t, i : BubblePass(t, Above), s, [i \in 1..Len(s) |-> i])

-----------------------------------------------------------------------------
(* Resolutions and bit-rates *)

\* The size of a representation, or else that of its adaptation set.
HasResolution(rep) == IsSet(rep.size) \/ IsSet(adaptationSet.size)

GetSpatialResolution(rep) ==
  IF IsSet(rep.size) THEN Get(rep.size) ELSE Get(adaptationSet.size)

\* Those of the representations, each once, by width.
GetSpatialResolutions ==
  BubbleSort(FoldLeft(LAMBDA s, rep : IF GetSpatialResolution(rep) \in ToSet(s) THEN s
                                      ELSE Append(s, GetSpatialResolution(rep)),
                      <<>>, reps),
             LAMBDA a, b : a[1] > b[1])

\* int multiplication; on overflow, which is undefined, the builds wrap it.
Product(size) ==
  ((size[1] * size[2] + MaxInt + 1) % (2 * (MaxInt + 1))) - MaxInt - 1

\* The search starts from the maximum of int, whose square wraps to 1.
GetLowestSpatialResolution ==
  FoldLeft(LAMBDA low, rep : IF Product(GetSpatialResolution(rep)) < Product(low)
                             THEN GetSpatialResolution(rep) ELSE low,
           <<MaxInt, MaxInt>>, reps)

\* The search starts from the minimum of int, whose square wraps to 0.
GetHighestSpatialResolution ==
  FoldLeft(LAMBDA high, rep : IF Product(GetSpatialResolution(rep)) > Product(high)
                              THEN GetSpatialResolution(rep) ELSE high,
           <<-MaxInt - 1, -MaxInt - 1>>, reps)

HasSize(rep, size) == size = AnyResolution \/ GetSpatialResolution(rep) = size

GetNumRepresentations(size) == Len(SelectSeq(reps, LAMBDA rep : HasSize(rep, size)))

\* Mutant: in the order of the representations.
GetBitratesUnsorted(size) ==
  [i \in 1..GetNumRepresentations(size) |->
     SelectSeq(reps, LAMBDA rep : HasSize(rep, size))[i].bandwidth]

GetBitrates(size) ==
  BubbleSort([i \in 1..GetNumRepresentations(size) |->
                SelectSeq(reps, LAMBDA rep : HasSize(rep, size))[i].bandwidth],
             LAMBDA a, b : a > b)

\* The first one of that bit-rate, whatever its resolution.
GetRepresentationByBitrate(bitRate) ==
  reps[CHOOSE i \in DOMAIN reps :
         reps[i].bandwidth = bitRate /\ \A j \in 1..(i - 1) : reps[j].bandwidth # bitRate]

-----------------------------------------------------------------------------
(* Segments *)

\* The init segment has the number 0.
GetNumSegments(rep) == 1 + rep.segmentURLs

\* For a segment that is not the last one, of the representation looked up by the
\* bit-rate.
HasNextSegment(rep, segment) == segment < GetNumSegments(rep) - 1
GetNextSegment(segment) == segment + 1

TimeScale(rep) == IF IsSet(rep.timescale) THEN Get(rep.timescale) ELSE 1

GetNominalSegmentDuration(rep) == (Second * rep.duration) \div TimeScale(rep)

\* Mutant: the init segment is counted as one of the others.
LastSegmentDurationShort(rep) ==
  Max({1, videoDuration - (GetNumSegments(rep) - 1) * GetNominalSegmentDuration(rep)})

LastSegmentDuration(rep) ==
  Max({1, videoDuration - (GetNumSegments(rep) - 2) * GetNominalSegmentDuration(rep)})

GetSegmentDuration(rep, segment) ==
  CASE segment = 0 -> 0
    [] segment = GetNumSegments(rep) - 1 /\ segment # 0 -> LastSegmentDuration(rep)
    [] OTHER -> GetNominalSegmentDuration(rep)

GetStartTime(rep, segment) ==
  IF segment = 0 THEN 0 ELSE (segment - 1) * GetNominalSegmentDuration(rep)

GetEndTime(rep, segment) ==
  IF segment < GetNumSegments(rep) - 1 THEN segment * GetNominalSegmentDuration(rep)
  ELSE videoDuration

GetPosition(rep, segment, byte, segmentSize) ==
  IF segment = 0 THEN 0
  ELSE (segment - 1) * GetNominalSegmentDuration(rep)
         + (byte * GetSegmentDuration(rep, segment)) \div segmentSize

\* A segment nobody listed: at() throws.
HasSegmentURL(rep, segment) == segment <= rep.segmentURLs

-----------------------------------------------------------------------------
(* processEventDataReceivedMpd() *)

StreamInit ==
  /\ adaptationSet \in
       [size : {{}} \union {{r} : r \in Resolutions},
        representations : UNION {[1..n -> Representation] : n \in 1..MaxRepresentations}]
  /\ videoDuration \in VideoDurations
  /\ screen \in Screens
  /\ state = "NO_MPD"
  /\ resolution = AnyResolution /\ bitRates = <<>> /\ stopSegment = 0
  /\ streamFault = "none"

\* An unset resolution, a duration that the time scale does not divide.
IsReadable ==
  /\ \A i \in DOMAIN reps : HasResolution(reps[i])
  /\ reps[1].duration % TimeScale(reps[1]) = 0

StreamFails(why) ==
  /\ streamFault' = why
  /\ UNCHANGED <<presentation, state, resolution, bitRates, stopSegment>>

RejectMpd ==
  /\ state = "NO_MPD" /\ streamFault = "none"
  /\ ~IsReadable
  /\ StreamFails("unset")

\* A width of -1, 1 or 0 asks for the lowest, the highest or any resolution, another
\* one for exactly that size.
IsFixed(size) == size[1] \notin {-1, 0, 1}

Requested ==
  CASE screen[1] = -1 -> GetLowestSpatialResolution
    [] screen[1] = 1 -> GetHighestSpatialResolution
    [] OTHER -> screen

\* Assertions on the options, and on the size the representations are looked up by.
IsBadSize ==
  \/ ~IsFixed(screen) /\ screen[1] # screen[2]
  \/ Requested # AnyResolution /\ ~(Requested[1] > 0 /\ Requested[2] > 0)

RejectOptions ==
  /\ state = "NO_MPD" /\ streamFault = "none" /\ IsReadable
  /\ IsBadSize
  /\ StreamFails("badSize")

\* "Requested screen size is not supported by the stream."
RejectScreen ==
  /\ state = "NO_MPD" /\ streamFault = "none" /\ IsReadable
  /\ ~IsBadSize
  /\ GetNumRepresentations(Requested) = 0
  /\ StreamFails("notSupported")

ProcessMpd ==
  /\ state = "NO_MPD" /\ streamFault = "none" /\ IsReadable
  /\ ~IsBadSize
  /\ GetNumRepresentations(Requested) > 0
  /\ resolution' = Requested
  /\ bitRates' = GetBitrates(Requested)
  /\ stopSegment' = GetNumSegments(reps[1]) - 1
  /\ state' = "HAVE_MPD"
  /\ streamFault' = IF stopSegment' > 0 THEN "none" ELSE "stopSegment"
  /\ UNCHANGED presentation

StreamNext == RejectMpd \/ RejectOptions \/ RejectScreen \/ ProcessMpd

StreamSpec == StreamInit /\ [][StreamNext]_streamVars

-----------------------------------------------------------------------------
(* Properties *)

Playing == state = "HAVE_MPD" /\ streamFault = "none"

Played == {GetRepresentationByBitrate(bitRates[i]) : i \in DOMAIN bitRates}

DistinctBandWidths ==
  \A i, j \in DOMAIN reps : reps[i].bandwidth = reps[j].bandwidth => i = j

Area(size) == size[1] * size[2]

\* The bit-rates the player chooses from are those of the representations with
\* the resolution it has selected, in ascending order, and the representation
\* it looks up for each of them has that resolution - as long as no two
\* representations have the same bandwidth.  A fixed resolution is played as it was
\* asked for, the highest one is the largest there is.  The process ends on options
\* that are no size, on a size that no representation has, and always when the
\* lowest resolution is asked for: the search for it does not survive the overflow
\* of its initial value.
RatesMatchTheResolution ==
  /\ Playing =>
       /\ \A i \in 1..(Len(bitRates) - 1) : bitRates[i] <= bitRates[i + 1]
       /\ ToSet(bitRates) = {reps[i].bandwidth : i \in {j \in DOMAIN reps : HasSize(reps[j], resolution)}}
       /\ DistinctBandWidths => \A rep \in Played : HasSize(rep, resolution)
       /\ IsFixed(screen) => resolution = screen
       /\ screen[1] = 1 =>
            \A i \in DOMAIN reps : Area(GetSpatialResolution(reps[i])) <= Area(resolution)
       /\ screen[1] # -1
  /\ streamFault = "badSize" =>
       IF IsFixed(screen) THEN Min({screen[1], screen[2]}) <= 0 ELSE screen[1] # screen[2]
  /\ streamFault = "notSupported" =>
       \/ screen = <<-1, -1>>
       \/ IsFixed(screen) /\ \A i \in DOMAIN reps : GetSpatialResolution(reps[i]) # screen

\* The segments all representations list leave room for the last one.
IsConsistent(rep) ==
  /\ rep.segmentURLs = reps[1].segmentURLs
  /\ rep.duration % TimeScale(rep) = 0
  /\ (GetNumSegments(rep) - 2) * GetNominalSegmentDuration(rep) < videoDuration

SegmentSizes == 1..3

\* The segments cover the video without gaps and overlaps: each begins where the
\* one before ends, the last one ends with the video, and the position of a byte
\* lies in its segment and advances with the byte.  This takes a presentation
\* whose representations list as many segments as the first one and no more than
\* fill the video.
SegmentsTileTheVideo ==
  Playing => \A rep \in Played : IsConsistent(rep) =>
    /\ ~HasNextSegment(rep, stopSegment)
    /\ \A s \in 1..stopSegment :
         /\ HasSegmentURL(rep, s)
         /\ HasNextSegment(rep, s - 1) /\ GetNextSegment(s - 1) = s
         /\ GetStartTime(rep, s) = GetEndTime(rep, s - 1)
         /\ GetStartTime(rep, s) + GetSegmentDuration(rep, s) = GetEndTime(rep, s)
         /\ \A size \in SegmentSizes : \A byte \in 0..(size - 1) :
              /\ GetPosition(rep, s, byte, size) >= GetStartTime(rep, s)
              /\ GetPosition(rep, s, byte, size) < GetEndTime(rep, s)
              /\ byte > 0 =>
                   GetPosition(rep, s, byte - 1, size) <= GetPosition(rep, s, byte, size)
    /\ GetEndTime(rep, stopSegment) = videoDuration
===============================================================================
