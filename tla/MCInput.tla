------------------------------- MODULE MCInput -------------------------------
(***************************************************************************)
(* What the player reads and measures, in one run: the HTTP answers, the   *)
(* MPD, its durations and addresses, the segments it describes, the        *)
(* throughput and the buffer level, the ring buffer that keeps             *)
(* measurements and the samples calculated from them.  These parts share   *)
(* no state, so each behaviour follows one of them while the others keep   *)
(* their initial values.                                                   *)
(***************************************************************************)
EXTENDS MpdParser, MpdWrapper, HttpHeader, Measurements, Conversions, RingBuffer,
  ThroughputModel

VARIABLE part
inputVars ==
  <<part, mpdVars, streamVars, httpVars, measureVars, converted, ringVars, throughputVars>>

InputInit ==
  /\ part \in {"answers", "document", "stream", "requests", "levels",
              "conversions", "buffer", "samples"}
  /\ MpdInit /\ HttpInit /\ MeasureInit /\ ConversionInit /\ ThroughputInit
  /\ StreamInit
  /\ part # "stream" =>
       /\ adaptationSet = [size |-> {}, representations |->
            <<[bandwidth |-> 1, size |-> {}, duration |-> 2, timescale |-> {}, segmentURLs |-> 0]>>]
       /\ videoDuration = 3 /\ screen = AnyResolution
  /\ RingInit
  /\ part # "buffer" => ring = NewRing(1, FALSE, FALSE)

InputNext ==
  /\ part' = part
  /\ \/ /\ part = "answers" /\ HttpNext
        /\ UNCHANGED <<mpdVars, converted, streamVars, measureVars, ringVars, throughputVars>>
     \/ /\ part = "document" /\ MpdNext
        /\ UNCHANGED <<httpVars, converted, streamVars, measureVars, ringVars, throughputVars>>
     \/ /\ part = "conversions" /\ ConversionNext
        /\ UNCHANGED <<httpVars, mpdVars, streamVars, measureVars, ringVars, throughputVars>>
     \/ /\ part = "stream" /\ StreamNext
        /\ UNCHANGED <<httpVars, mpdVars, converted, measureVars, ringVars, throughputVars>>
     \/ /\ part = "requests" /\ RequestNext
        /\ UNCHANGED <<httpVars, mpdVars, converted, streamVars, ringVars, throughputVars>>
     \/ /\ part = "levels" /\ LevelNext
        /\ UNCHANGED <<httpVars, mpdVars, converted, streamVars, ringVars, throughputVars>>
     \/ /\ part = "buffer" /\ RingNext
        /\ UNCHANGED <<httpVars, mpdVars, converted, streamVars, measureVars, throughputVars>>
     \/ /\ part = "samples" /\ ThroughputNext
        /\ UNCHANGED <<httpVars, mpdVars, converted, streamVars, measureVars, ringVars>>

InputSpec == InputInit /\ [][InputNext]_inputVars

\* The type invariants of the parts: the others keep their initial values.
InputTypeOK ==
  /\ part = "document" => MpdTypeOK
  /\ part = "answers" => HttpTypeOK
  /\ part \in {"requests", "levels"} => MeasureTypeOK
  /\ part = "buffer" => RingTypeOK
-----------------------------------------------------------------------------
(* Values of the constants *)

\* A title, two representations with their lists of segments, a stray element.
MCBudget ==
  [n \in {"MPD", "Representation", "SegmentList", "SegmentURL"} |-> 2]
    @@ [n \in {"ProgramInformation", "Title", "BaseURL", "Period",
               "AdaptationSet", "Initialization", "#comment"} |-> 1]

MCAttributesOf(name) ==
  CASE name = "MPD" -> {[profiles |-> "good", minBufferTime |-> "good"],
                        [minBufferTime |-> "bad"]}
    [] name = "Representation" -> {[id |-> "good", bandwidth |-> "good"]}
    [] OTHER -> {NoAttributes}

\* Lengths of time with every choice of units and with short and long fractions.
MCLengths ==
  [negative : BOOLEAN, years : {0, 1}, months : {0, 2}, days : {0, 10},
   hours : {0, 1}, minutes : {0, 30}, millis : {0, 5, 50, 500, 1000, 1001, 8104, 12345}]

\* Those of the lengths, of seconds written and read that IEEE doubles miss.
MCInexact == {1001, 8104}

\* Hosts with and without a port, files with up to two directories, and an
\* address within an address.
MCAddresses ==
  [access : {<<>>, <<"http">>, <<"https">>},
   hostName : {<<"host">>, <<"host", ":", "80">>},
   target : {<<>>} \cup {<<"/">> \o t :
              t \in {<<>>, <<"file">>, <<"a", "/", "file">>, <<"a", "/">>,
                     <<"a", "/", "b", "/", "file">>, <<"/", "file">>,
                     <<"file", "http", ":", "/", "/", "host", "/", "file">>}}]

MCTimes == [sec : 0..2, nsec : {0, 1, 1000, 500000000, 999999000, 999999999}]

MCResolutions == {<<2, 1>>, <<3, 4>>}

\* The lowest, the highest and any resolution, one of the stream and one that may
\* not be, and options that are no size.
MCScreens == {<<-1, -1>>, <<1, 1>>, <<0, 0>>, <<3, 4>>, <<5, 5>>, <<5, 0>>, <<1, 2>>}

Ok == Line("status", 200, 0)
Answer(method, lines, body) == [method |-> method, lines |-> lines, body |-> body]
Length(n) == Line("length", n, 0)
Limits(n, m) == Line("limits", n, m)
Close == Line("close", 0, 0)

MCAnswers ==
  {Answer("GET", <<Ok, Length(2)>>, <<Byte, Byte>>),
   Answer("GET", <<Ok, Limits(5, 5), Length(1), Line("keepAlive", 0, 0)>>, <<Byte>>),
   Answer("GET", <<Ok, Length(3), Limits(5, 5)>>, <<CR, LF, Byte>>),
   Answer("GET", <<Ok, Length(0), Close>>, <<>>),
   Answer("GET", <<Ok, Length(0), Limits(2, 2), Close>>, <<>>),
   Answer("HEAD", <<Ok, Length(2)>>, <<>>),
   Answer("GET", <<Ok>>, <<Byte>>),
   Answer("GET", <<Ok>> \o [i \in 1..4 |-> Line("other", 0, 0)], <<>>),
   Answer("GET", <<Line("status", 404, 0)>>, <<>>),
   Answer("GET", <<Line("status", 302, 0)>>, <<>>),
   Answer("GET", <<Ok, Line("connection", 0, 0)>>, <<>>),
   Answer("GET", <<Ok, Limits(0, 5)>>, <<>>)}

\* Of the sizes and lengths that the chunks can add up to, those whose shares IEEE
\* doubles miss.
MCBelow ==
  {<<55, 3, 11>>, <<55, 6, 11>>, <<55, 12, 11>>, <<108, 13, 3>>, <<108, 13, 6>>,
   <<108, 13, 12>>, <<110, 3, 11>>, <<110, 6, 11>>, <<110, 12, 11>>, <<216, 13, 3>>,
   <<216, 13, 6>>, <<216, 13, 12>>, <<165, 7, 5>>, <<165, 14, 5>>, <<165, 14, 10>>}
MCAbove ==
  {<<55, 11, 5>>, <<108, 7, 3>>, <<108, 14, 3>>, <<108, 7, 6>>, <<108, 14, 6>>,
   <<108, 7, 12>>, <<108, 14, 12>>, <<110, 11, 5>>, <<110, 11, 10>>, <<216, 7, 3>>,
   <<216, 14, 3>>, <<216, 7, 6>>, <<216, 14, 6>>, <<216, 7, 12>>, <<216, 14, 12>>,
   <<165, 11, 5>>, <<324, 11, 9>>}
=============================================================================
