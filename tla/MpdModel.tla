------------------------------ MODULE MpdModel ------------------------------
(***************************************************************************)
(* The classes of the MPD model and their parsers, as tables: for each     *)
(* class its fields, those its constructor sets, and the class of the      *)
(* objects in them; for each parser the elements it expects and the        *)
(* attributes it reads.  Classes no parser creates are left out.           *)
(***************************************************************************)
EXTENDS SequencesExt

\* addRef() appends to a sequence, handOver() replaces what was there; a simple
\* string is stored in a field of the enclosing object.
Many(p, field) == [parser |-> p, field |-> field, access |-> "addRef"]
One(p, field) == [parser |-> p, field |-> field, access |-> "handOver"]
Simple(p, field) == [parser |-> p, field |-> field, access |-> "value"]

\* The descriptors that create no parser: getParser() returns NULL.
NULL_DESCRIPTOR == [parser |-> "none", field |-> "none", access |-> "none"]

MpdElements ==
  [ProgramInformation |-> Many("ProgramInformation", "programInformations"),
   BaseURL            |-> Many("BaseURL", "baseURLs"),
   Location           |-> Simple("SimpleStringSequence", "locations"),
   Period             |-> Many("Period", "periods"),
   Metrics            |-> NULL_DESCRIPTOR]

PeriodElements ==
  [BaseURL         |-> Many("BaseURL", "baseURLs"),
   SegmentBase     |-> One("SegmentBase", "segmentBase"),
   SegmentList     |-> One("SegmentList", "segmentList"),
   SegmentTemplate |-> NULL_DESCRIPTOR,
   AdaptationSet   |-> Many("AdaptationSet", "adaptationSets"),
   Subset          |-> NULL_DESCRIPTOR]

ProgramInformationElements ==
  [Title     |-> Simple("SimpleString", "title"),
   Source    |-> Simple("SimpleString", "source"),
   Copyright |-> Simple("SimpleString", "copyright")]

RepresentationBaseElements ==
  [FramePacking              |-> NULL_DESCRIPTOR,
   AudioChannelConfiguration |-> NULL_DESCRIPTOR,
   ContentProtection         |-> NULL_DESCRIPTOR]

AdaptationSetElements ==
  [Representation |-> Many("Representation", "representations")]
    @@ RepresentationBaseElements

RepresentationElements ==
  [BaseURL           |-> Many("BaseURL", "baseURLs"),
   SubRepresentation |-> NULL_DESCRIPTOR,
   SegmentBase       |-> One("SegmentBase", "segmentBase"),
   SegmentList       |-> One("SegmentList", "segmentList"),
   SegmentTemplate   |-> NULL_DESCRIPTOR] @@ RepresentationBaseElements

SegmentBaseElements ==
  [Initialization      |-> One("URLRange", "initialization"),
   Initialisation      |-> One("URLRange", "initialization"),
   RepresentationIndex |-> One("URLRange", "representationIndex")]

MultipleSegmentBaseElements ==
  [SegmentTimeline    |-> NULL_DESCRIPTOR,
   BitstreamSwitching |-> One("URLRange", "bitstreamSwitching")] @@ SegmentBaseElements

SegmentListElements ==
  [SegmentURL |-> Many("SegmentURL", "segmentURLs")] @@ MultipleSegmentBaseElements

\* What becomes of the value of an attribute.
As(conversion, names) == [a \in names |-> conversion]

MpdAttributes ==
  As("string", {"id", "profiles"}) @@ As("enum", {"type"})
    @@ As("date", {"availabilityStartTime", "availabilityEndTime"})
    @@ As("duration", {"mediaPresentationDuration", "minimumUpdatePeriod", "minBufferTime",
                       "timeShiftBufferDepth", "suggestedPresentationDelay",
                       "maxSegmentDuration", "maxSubsegmentDuration"})

PeriodAttributes ==
  As("string", {"href", "id"}) @@ As("enum", {"actuate"})
    @@ As("duration", {"start", "duration"}) @@ As("bool", {"bitstreamSwitching"})

ProgramInformationAttributes == As("string", {"lang", "moreInformationURL"})

RepresentationBaseAttributes ==
  As("string", {"profiles", "sar", "frameRate", "audioSamplingRate", "mimeType",
                "segmentProfiles", "codecs"})
    @@ As("unsigned", {"width", "height", "startWithSAP"})
    @@ As("double", {"maximumSAPPeriod", "maxPlayoutRate"})
    @@ As("bool", {"codingDependency"}) @@ As("enum", {"scanType"})

AdaptationSetAttributes == As("bool", {"bitstreamSwitching"}) @@ RepresentationBaseAttributes

RepresentationAttributes ==
  As("string", {"id"}) @@ As("unsigned", {"bandwidth", "qualityRanking"})
    @@ RepresentationBaseAttributes

SegmentBaseAttributes ==
  As("unsigned", {"timescale", "presentationTimeOffset"}) @@ As("string", {"indexRange"})
    @@ As("bool", {"indexRangeExact"})

MultipleSegmentBaseAttributes ==
  As("unsigned", {"duration", "startNumber"}) @@ SegmentBaseAttributes

SegmentListAttributes ==
  As("string", {"href"}) @@ As("enum", {"actuate"}) @@ MultipleSegmentBaseAttributes

SegmentURLAttributes == As("string", {"media", "mediaRange", "index", "indexRange"})

URLRangeAttributes == As("string", {"sourceURL", "range"})

BaseURLAttributes == As("string", {"serviceLocation", "byteRange"})

\* What the constructors set; every other field is unset.
NewBaseURL == {}
NewMpd == {"type"}
NewPeriod == {"actuate", "bitstreamSwitching"}
NewProgramInformation == {}
NewRepresentationBase == {}
NewAdaptationSet ==
  {"actuate", "segmentAlignment", "subsegmentAlignment", "subsegmentStartsWithSAP"}
    \union NewRepresentationBase
NewRepresentation == NewRepresentationBase
NewSegmentBase == {"indexRangeExact"}
NewMultipleSegmentBase == NewSegmentBase
NewSegmentList == {"actuate"} \union NewMultipleSegmentBase
NewSegmentURL == {}
NewURLRange == {}

-----------------------------------------------------------------------------
\* The fields of a class that hold values, and the class of the objects in each
\* of the others.
Class(values, parts) == [values |-> values, parts |-> parts]

NoElements == As("none", {})
NoAttributes == As("none", {})

\* A class derived from another one has its fields as well.
Derived(class, base) ==
  Class(class.values \union base.values, class.parts @@ base.parts)

BaseURLClass == Class({"value", "serviceLocation", "byteRange"}, NoElements)

RepresentationBaseClass ==
  Class({"profiles", "width", "height", "sar", "frameRate", "audioSamplingRate", "mimeType",
         "segmentProfiles", "codecs", "maximumSAPPeriod", "startWithSAP", "maxPlayoutRate",
         "codingDependency", "scanType"},
        As("Descriptor", {"framePackagings", "audioChannelConfigurations", "contentProtections"}))

URLRangeClass == Class({"sourceURL", "range"}, NoElements)

SegmentURLClass == Class({"media", "mediaRange", "index", "indexRange"}, NoElements)

SegmentBaseClass ==
  Class({"timescale", "presentationTimeOffset", "indexRange", "indexRangeExact"},
        As("URLRange", {"initialization", "representationIndex"}))

MultipleSegmentBaseClass ==
  Derived(Class({"duration", "startNumber"},
                [segmentTimeline |-> "SegmentTimeline", bitstreamSwitching |-> "URLRange"]),
          SegmentBaseClass)

SegmentListClass ==
  Derived(Class({"href", "actuate"}, [segmentURLs |-> "SegmentURL"]), MultipleSegmentBaseClass)

ProgramInformationClass ==
  Class({"lang", "moreInformationURL", "title", "source", "copyright"}, NoElements)

\* How a period or a representation says where its segments are.
SegmentFields ==
  [segmentBase |-> "SegmentBase", segmentList |-> "SegmentList",
   segmentTemplate |-> "SegmentTemplate"]

RepresentationClass ==
  Derived(Class({"id", "bandwidth", "qualityRanking", "dependencyId", "mediaStreamStructureId"},
                [baseURLs |-> "BaseURL", subRepresentations |-> "SubRepresentation"]
                  @@ SegmentFields),
          RepresentationBaseClass)

AdaptationSetClass ==
  Derived(Class({"href", "actuate", "id", "group", "lang", "contentType", "par",
                 "minBandwith", "maxBandwith", "minWidth", "maxWidth", "minHeight", "maxHeight",
                 "minFrameRate", "maxFrameRate", "segmentAlignment", "subsegmentAlignment",
                 "subsegmentStartsWithSAP", "bitstreamSwitching"},
                As("Descriptor", {"accessibilities", "roles", "ratings", "viewPoints"})
                  @@ [contentComponents |-> "ContentComponent", baseURLs |-> "BaseURL",
                      representations |-> "Representation"] @@ SegmentFields),
          RepresentationBaseClass)

PeriodClass ==
  Class({"href", "actuate", "id", "start", "duration", "bitstreamSwitching"},
        [baseURLs |-> "BaseURL", adaptationSets |-> "AdaptationSet", subSets |-> "Subset"]
          @@ SegmentFields)

MpdClass ==
  Class({"id", "profiles", "type", "availabilityStartTime", "availabilityEndTime",
         "mediaPresentationDuration", "minimumUpdatePeriod", "minBufferTime",
         "timeShiftBufferDepth", "suggestedPresentationDelay", "maxSegmentDuration",
         "maxSubsegmentDuration", "locations"},
        [programInformations |-> "ProgramInformation", baseURLs |-> "BaseURL",
         periods |-> "Period", metrics |-> "Metrics"])

-----------------------------------------------------------------------------
\* A parser creates an object of its class when its element starts.
ParserOf(class, new, elements, attributes) ==
  [class |-> class, new |-> new, elements |-> elements, attributes |-> attributes]

AdaptationSetParser ==
  ParserOf(AdaptationSetClass, NewAdaptationSet, AdaptationSetElements, AdaptationSetAttributes)
BaseURLParser == ParserOf(BaseURLClass, NewBaseURL, NoElements, BaseURLAttributes)
MediaPresentationDescriptionParser == ParserOf(MpdClass, NewMpd, MpdElements, MpdAttributes)
PeriodParser == ParserOf(PeriodClass, NewPeriod, PeriodElements, PeriodAttributes)
ProgramInformationParser ==
  ParserOf(ProgramInformationClass, NewProgramInformation, ProgramInformationElements,
           ProgramInformationAttributes)
RepresentationParser ==
  ParserOf(RepresentationClass, NewRepresentation, RepresentationElements,
           RepresentationAttributes)
SegmentBaseParser ==
  ParserOf(SegmentBaseClass, NewSegmentBase, SegmentBaseElements, SegmentBaseAttributes)
SegmentListParser ==
  ParserOf(SegmentListClass, NewSegmentList, SegmentListElements, SegmentListAttributes)
SegmentURLParser == ParserOf(SegmentURLClass, NewSegmentURL, NoElements, SegmentURLAttributes)
URLRangeParser == ParserOf(URLRangeClass, NewURLRange, NoElements, URLRangeAttributes)

\* A simple string belongs to the object of the enclosing element.
SimpleParser == ParserOf(Class({}, NoElements), {}, NoElements, NoAttributes)

Parser ==
  [MPD                  |-> MediaPresentationDescriptionParser,
   Period               |-> PeriodParser,
   ProgramInformation   |-> ProgramInformationParser,
   AdaptationSet        |-> AdaptationSetParser,
   Representation       |-> RepresentationParser,
   SegmentBase          |-> SegmentBaseParser,
   SegmentList          |-> SegmentListParser,
   SegmentURL           |-> SegmentURLParser,
   URLRange             |-> URLRangeParser,
   BaseURL              |-> BaseURLParser,
   SimpleString         |-> SimpleParser,
   SimpleStringSequence |-> SimpleParser]

Parsers == DOMAIN Parser
IsSimple(p) == p \in {"SimpleString", "SimpleStringSequence"}
==============================================================================
