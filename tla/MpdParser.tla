------------------------------ MODULE MpdParser ------------------------------
(***************************************************************************)
(* From the XML reader to the model of the MPD.  VLCDocumentAdapter walks  *)
(* over the document and calls ModelReader's handler for the start, the    *)
(* attributes, the text and the end of each element.  The handler keeps    *)
(* one parser per kind of element, shared by all elements of that kind: a  *)
(* parser remembers the parser of the enclosing element and the object it  *)
(* fills.  Elements nobody expects are skipped, with all they contain.     *)
(*                                                                         *)
(* The document is chosen while it is read: any tree of at most            *)
(* MaxElements elements, of which MaxStray are where no parser expects     *)
(* them.  Values are "good" or "bad", whatever the attribute requires.  An *)
(* object of the model has the number of its element.  A document that is  *)
(* not well-formed ends the process in the reader, and is left out.        *)
(***************************************************************************)
EXTENDS MpdModel

CONSTANTS
  Budget,           \* bound: how many elements of each name there may be
  AttributesOf(_),  \* the sets of attributes an element of that name may have
  TextIn,           \* the names of the elements that may contain text
  MaxElements, MaxStray, MaxTexts

Names == DOMAIN Budget

VARIABLES
  tree,       \* the elements read so far
  open,       \* those whose end is missing, outermost first
  parser,     \* _parser
  parentOf,   \* _parent of each parser
  element,    \* _element of each parser, 0 for NULL
  fieldPtr,   \* the field a parser of simple strings fills
  toSkip,     \* _toSkip
  mpd,        \* the object the handler returns, 0 for NULL
  parts,      \* the objects an object contains, by field
  values,     \* the fields of an object that have been set
  mpdFault    \* why the process ended

document == <<tree, open>>
handler == <<parser, parentOf, element, fieldPtr, toSkip, mpd>>
model == <<parts, values>>
mpdVars == <<document, handler, model, mpdFault>>

Reading == mpdFault = "none"

-----------------------------------------------------------------------------
(* The model *)

\* The conversions that do not return for a bad value: durations and doubles
\* throw out of a function declared throw(), at(0) throws on an empty string.
Throws(conversion) == conversion \in {"duration", "double", "bool"}

\* Dates are not converted, and unknown enumeration values are ignored; a bad
\* number is 0.
IsStored(conversion, value) ==
  conversion # "date" /\ (conversion = "enum" => value = "good")

\* attachElement() of a parser: what becomes of an element in it.
AttachElement(p, name) ==
  IF name \in DOMAIN Parser[p].elements THEN Parser[p].elements[name] ELSE NULL_DESCRIPTOR

\* Mutant: the earlier object stays where it is.
AddRefAlways(obj, child, n) ==
  LET old == parts[obj]
      before == IF child.field \in DOMAIN old THEN old[child.field] ELSE <<>>
  IN  IF child.access = "value" THEN old ELSE (child.field :> Append(before, n)) @@ old

\* The parts of an object after element n has been attached to it.
WithPart(obj, child, n) ==
  LET old == parts[obj]
      before == IF child.field \in DOMAIN old THEN old[child.field] ELSE <<>>
  IN  CASE child.access = "addRef" -> (child.field :> Append(before, n)) @@ old
        [] child.access = "handOver" -> (child.field :> <<n>>) @@ old
        [] child.access = "value" -> old

-----------------------------------------------------------------------------
(* The document *)

\* What the player understands of an MPD.
Inside ==
  [MPD            |-> {"ProgramInformation", "BaseURL", "Location", "Period"},
   ProgramInformation |-> {"Title", "Source", "Copyright"},
   Period         |-> {"BaseURL", "SegmentBase", "SegmentList", "AdaptationSet"},
   AdaptationSet  |-> {"Representation"},
   Representation |-> {"BaseURL", "SegmentBase", "SegmentList"},
   SegmentBase    |-> {"Initialization", "Initialisation", "RepresentationIndex"},
   SegmentList    |-> {"Initialization", "Initialisation", "RepresentationIndex",
                       "BitstreamSwitching", "SegmentURL"}]

Understood(outer, name) == outer \in DOMAIN Inside /\ name \in Inside[outer]

Innermost == IF open = <<>> THEN 0 ELSE Last(open)

\* Whether an element is outside any MPD, understood with all that encloses it,
\* or skipped.
PlaceFor(name) ==
  LET above == IF open = <<>> THEN "outside" ELSE tree[Innermost].place
  IN  CASE above = "outside" -> IF name = "MPD" THEN "known" ELSE "outside"
        [] above = "known" -> IF Understood(tree[Innermost].name, name)
                              THEN "known" ELSE "skipped"
        [] above = "skipped" -> "skipped"

Place(i) == tree[i].place

Strays == Cardinality({i \in DOMAIN tree : Place(i) # "known"})

\* readDocument() takes the first node, whatever it is, for the root element: a
\* comment or a document type declaration ends with the document.
IsProlog(i) == tree[i].prolog

Elements(prolog) == IF prolog THEN {"#comment", "MPD"} \cap Names ELSE Names \ {"#comment"}

\* processElement() reads the start of an element and its attributes.
ReadStart(name, attributes, prolog) ==
  /\ Reading
  /\ open = <<>> => tree = <<>>
  /\ prolog => tree = <<>>
  /\ (open # <<>> /\ IsProlog(Innermost)) => Len(tree) = 1
  /\ Len(tree) < MaxElements
  /\ Cardinality({i \in DOMAIN tree : tree[i].name = name}) < Budget[name]
  /\ PlaceFor(name) # "known" => Strays < MaxStray
  /\ tree' = Append(tree, [name |-> name, parent |-> Innermost, place |-> PlaceFor(name),
                           texts |-> 0, attributes |-> attributes, prolog |-> prolog])
  /\ open' = Append(open, Len(tree) + 1)

-----------------------------------------------------------------------------
(* The handler *)

MpdInit ==
  /\ tree = <<>> /\ open = <<>>
  /\ parser = "none"
  /\ parentOf = [p \in Parsers |-> "none"] /\ element = [p \in Parsers |-> 0]
  /\ fieldPtr = "none"
  /\ toSkip = <<>> /\ mpd = 0
  /\ parts = <<>> /\ values = <<>>
  /\ mpdFault = "none"

This == Len(tree) + 1

\* pre()
Pre(p, parent, obj) ==
  /\ parser' = p
  /\ parentOf' = [parentOf EXCEPT ![p] = parent]
  /\ element' = [element EXCEPT ![p] = obj]

\* attachAttribute() for each attribute of the element.
AttachAttributes(p, attributes) ==
  LET read == DOMAIN attributes \cap DOMAIN Parser[p].attributes
      conversion(a) == Parser[p].attributes[a]
  IN  /\ mpdFault' = IF \E a \in read : Throws(conversion(a)) /\ attributes[a] = "bad"
                     THEN "conversion" ELSE "none"
      /\ values' = Append(values,
                     {a \in read : IsStored(conversion(a), attributes[a])}
                       \union (IF IsSimple(p) THEN {} ELSE Parser[p].new))

StartRoot(name, attributes, prolog) ==
  /\ ReadStart(name, attributes, prolog)
  /\ parser = "none" /\ name = "MPD"
  /\ Pre("MPD", "none", This)
  /\ mpd' = This
  /\ parts' = Append(parts, NoElements)
  /\ AttachAttributes("MPD", attributes)
  /\ UNCHANGED <<fieldPtr, toSkip>>

\* "invalid root element": the elements in it may still be the MPD.
StartOutside(name, attributes, prolog) ==
  /\ ReadStart(name, attributes, prolog)
  /\ parser = "none" /\ name # "MPD"
  /\ parts' = Append(parts, NoElements) /\ values' = Append(values, {})
  /\ UNCHANGED <<handler, mpdFault>>

StartKnown(name, attributes, prolog) ==
  LET child == AttachElement(parser, name)
      obj == element[parser]
  IN  /\ ReadStart(name, attributes, prolog)
      /\ parser # "none" /\ toSkip = <<>> /\ child.parser # "none"
      /\ Pre(child.parser, parser, IF IsSimple(child.parser) THEN obj ELSE This)
      /\ fieldPtr' = IF IsSimple(child.parser) THEN child.field ELSE fieldPtr
      /\ parts' = Append([parts EXCEPT ![obj] = WithPart(obj, child, This)], NoElements)
      /\ AttachAttributes(child.parser, attributes)
      /\ UNCHANGED <<toSkip, mpd>>

StartSkipped(name, attributes, prolog) ==
  /\ ReadStart(name, attributes, prolog)
  /\ parser # "none"
  /\ toSkip # <<>> \/ AttachElement(parser, name).parser = "none"
  /\ toSkip' = Append(toSkip, name)
  /\ parts' = Append(parts, NoElements) /\ values' = Append(values, {})
  /\ UNCHANGED <<parser, parentOf, element, fieldPtr, mpd, mpdFault>>

StartElement ==
  \E prolog \in BOOLEAN : \E name \in Elements(prolog) :
    \E attributes \in IF prolog THEN {NoAttributes} ELSE AttributesOf(name) :
      \/ StartRoot(name, attributes, prolog)
      \/ StartOutside(name, attributes, prolog)
      \/ StartKnown(name, attributes, prolog)
      \/ StartSkipped(name, attributes, prolog)

\* attachContent(): strings are stored as a field, the text of a base URL as its
\* value; a text node after another one replaces it.
AttachContent(p) ==
  IF p = "BaseURL" THEN [values EXCEPT ![element[p]] = @ \union {"value"}]
  ELSE IF IsSimple(p) THEN [values EXCEPT ![element[p]] = @ \union {fieldPtr}]
  ELSE values

Text ==
  /\ Reading /\ open # <<>> /\ ~IsProlog(Innermost)
  /\ tree[Innermost].name \in TextIn
  /\ tree[Innermost].texts < MaxTexts
  /\ tree' = [tree EXCEPT ![Innermost].texts = @ + 1]
  /\ values' = IF toSkip = <<>> /\ parser # "none" THEN AttachContent(parser) ELSE values
  /\ UNCHANGED <<open, handler, parts, mpdFault>>

ReadEnd ==
  /\ Reading /\ open # <<>>
  /\ open' = Front(open)
  /\ UNCHANGED <<tree, model>>

\* The reader rejects a document whose tags do not match.
EndSkipped ==
  /\ ReadEnd
  /\ toSkip # <<>>
  /\ toSkip' = IF Last(toSkip) = tree[Innermost].name THEN Front(toSkip) ELSE toSkip
  /\ UNCHANGED <<parser, parentOf, element, fieldPtr, mpd, mpdFault>>

\* validateObject(): an MPD without its required attributes fails an assertion.
IsValid(p) == p = "MPD" => {"profiles", "minBufferTime"} \subseteq values[element[p]]

\* Mutant: _parent is reset before it is returned.
PostToRoot(p) == "none"

\* post()
PostOf(p) == parentOf[p]

EndKnown ==
  /\ ReadEnd
  /\ toSkip = <<>> /\ parser # "none"
  /\ mpdFault' = IF IsValid(parser) THEN "none" ELSE "profiles"
  /\ element' = [element EXCEPT ![parser] = 0]
  /\ fieldPtr' = IF IsSimple(parser) THEN "none" ELSE fieldPtr
  /\ parser' = PostOf(parser)
  /\ parentOf' = [parentOf EXCEPT ![parser] = "none"]
  /\ UNCHANGED <<toSkip, mpd>>

EndOutside ==
  /\ ReadEnd
  /\ toSkip = <<>> /\ parser = "none"
  /\ UNCHANGED <<handler, mpdFault>>

MpdNext ==
  \/ StartElement
  \/ Text
  \/ EndSkipped \/ EndKnown \/ EndOutside

MpdSpec == MpdInit /\ [][MpdNext]_mpdVars

-----------------------------------------------------------------------------
(* Properties *)

Ids == 0..MaxElements

ParserFor(i) ==
  CASE tree[i].name \in {"Title", "Source", "Copyright"} -> "SimpleString"
    [] tree[i].name = "Location" -> "SimpleStringSequence"
    [] tree[i].name \in {"Initialization", "Initialisation", "RepresentationIndex",
                         "BitstreamSwitching"} -> "URLRange"
    [] OTHER -> tree[i].name

\* The variables have their types: a parser fills an object of the model, every
\* object has the fields of its class, with objects of the class they are
\* declared for, and the process ends for one of two reasons.
MpdTypeOK ==
  /\ parser \in Parsers \union {"none"}
  /\ parentOf \in [Parsers -> Parsers \union {"none"}]
  /\ element \in [Parsers -> Ids]
  /\ \A i \in DOMAIN toSkip : toSkip[i] \in Names
  /\ mpd \in Ids
  /\ Len(parts) = Len(tree) /\ Len(values) = Len(tree)
  /\ \A i \in DOMAIN tree : Place(i) = "known" =>
       LET class == Parser[ParserFor(i)].class
       IN  /\ values[i] \subseteq class.values
           /\ DOMAIN parts[i] \subseteq DOMAIN class.parts
           /\ \A f \in DOMAIN parts[i] : \A n \in ToSet(parts[i][f]) :
                ParserFor(n) = class.parts[f]
  /\ mpdFault \in {"none", "conversion", "profiles"}

OpenAt(place) == SelectSeq(open, LAMBDA i : Place(i) = place)

\* The parsers are shared, yet none is entered again while it is in use: the
\* chain of parsers is that of the open elements, each filling its own object,
\* and what is skipped is what is open below them.
ParserFollowsReader ==
  Reading =>
    LET k == OpenAt("known")
        skipped == OpenAt("skipped")
    IN  /\ parser = IF k = <<>> THEN "none" ELSE ParserFor(Last(k))
        /\ \A i \in DOMAIN k : LET p == ParserFor(k[i]) IN
             /\ parentOf[p] = IF i = 1 THEN "none" ELSE ParserFor(k[i - 1])
             /\ element[p] = IF IsSimple(p) THEN k[i - 1] ELSE k[i]
        /\ toSkip = [i \in DOMAIN skipped |-> tree[skipped[i]].name]

FieldFor(i) ==
  [ProgramInformation |-> "programInformations", BaseURL |-> "baseURLs", Period |-> "periods",
   AdaptationSet |-> "adaptationSets", Representation |-> "representations",
   SegmentBase |-> "segmentBase", SegmentList |-> "segmentList", SegmentURL |-> "segmentURLs",
   Initialization |-> "initialization", Initialisation |-> "initialization",
   RepresentationIndex |-> "representationIndex",
   BitstreamSwitching |-> "bitstreamSwitching"][tree[i].name]

OnlyLastCounts(field) ==
  field \in {"segmentBase", "segmentList", "initialization", "representationIndex",
             "bitstreamSwitching"}

KnownChildren(i) ==
  SelectSeq([j \in DOMAIN tree |-> j],
            LAMBDA j : tree[j].parent = i /\ Place(j) = "known")

StringFieldFor(i) ==
  [Title |-> "title", Source |-> "source", Copyright |-> "copyright",
   Location |-> "locations"][tree[i].name]

\* The model is the document: an object contains the objects of the elements in
\* its own, in their order, where only one may be the last one, and the fields
\* its attributes and its text have set; nothing of a skipped element gets in.
ModelIsDocument ==
  Reading => \A i \in DOMAIN tree : Place(i) = "known" /\ ~IsSimple(ParserFor(i)) =>
    LET objects == SelectSeq(KnownChildren(i), LAMBDA j : ~IsSimple(ParserFor(j)))
        strings == {j \in ToSet(KnownChildren(i)) : IsSimple(ParserFor(j))}
        inField(f) == SelectSeq(objects, LAMBDA j : FieldFor(j) = f)
        given == {a \in DOMAIN tree[i].attributes : tree[i].attributes[a] = "good"}
    IN  /\ DOMAIN parts[i] = {FieldFor(j) : j \in ToSet(objects)}
        /\ \A f \in DOMAIN parts[i] :
             parts[i][f] = IF OnlyLastCounts(f) THEN <<Last(inField(f))>> ELSE inField(f)
        /\ values[i] \ Parser[ParserFor(i)].new =
             given \union {StringFieldFor(j) : j \in {j \in strings : tree[j].texts > 0}}
                   \union (IF tree[i].name = "BaseURL" /\ tree[i].texts > 0 THEN {"value"} ELSE {})
==============================================================================
