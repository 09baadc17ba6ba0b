----------------------------- MODULE Conversions -----------------------------
(***************************************************************************)
(* The values the player converts: durations, addresses and times.         *)
(*                                                                         *)
(* A duration as the MPD writes it, "PT1H2M3.5S", is a sequence of letters,*)
(* each with the number in front of it: its value in thousandths and its   *)
(* number of characters, 0 if there is none.                               *)
(*                                                                         *)
(* An address is a sequence of ":", "/" and names.  A time has seconds and *)
(* nanoseconds.                                                            *)
(***************************************************************************)
EXTENDS Integers, Sequences, SequencesExt

CONSTANTS
  Lengths,      \* lengths of time written as text, see LengthType
  Addresses,    \* addresses written as text, see AddressType
  Times,        \* times, see TimeType
  Inexact       \* thousandths that, as a double, fall short of the number of seconds
                \* they stand for: times 1000 it is below them

\* A length of time by its units; the seconds are in thousandths.
LengthType ==
  [negative : BOOLEAN, years : Nat, months : Nat, days : Nat, hours : Nat,
   minutes : Nat, millis : Nat]

\* An address by its parts; access is empty if it has none, and target begins
\* with the "/" behind the host.
AddressType == [access : Seq(STRING), hostName : Seq(STRING), target : Seq(STRING)]

Giga == 1000000000
TimeType == [sec : Nat, nsec : 0..(Giga - 1)]

\* Eighths of a second are exact.
ASSUME ConversionsAssumption ==
  /\ Lengths \subseteq LengthType /\ Addresses \subseteq AddressType /\ Times \subseteq TimeType
  /\ Inexact \subseteq Nat /\ \A n \in Inexact : n % 125 # 0

VARIABLE converted    \* what has been converted, at most one item with its kind

ConversionInit == converted = {}
-----------------------------------------------------------------------------
(* Texts *)

DigitsOf(n) == CHOOSE d \in 1..9 : n < 10^d /\ (d = 1 \/ n >= 10^(d - 1))

Part(thousandths, characters, letter) ==
  [number |-> thousandths, characters |-> characters, letter |-> letter]
Letter(letter) == <<Part(0, 0, letter)>>

TextLength(text) == FoldLeft(LAMBDA sum, p : sum + p.characters + 1, 0, text)
-----------------------------------------------------------------------------
(* The reader *)

\* Mutant: a month is taken for a minute.
FactorWithoutSections(letter, inTimeSection) ==
  CASE letter = "D" -> 24 * 60 * 60
    [] letter = "H" -> 60 * 60
    [] letter = "M" -> 60
    [] letter = "S" -> 1
    [] OTHER -> 0

\* Milliseconds per thousandth of a unit; years, months and weeks are ignored.
Factor(letter, inTimeSection) ==
  CASE letter = "D" -> 24 * 60 * 60
    [] letter = "H" -> 60 * 60
    [] letter = "M" /\ inTimeSection -> 60
    [] letter = "S" -> 1
    [] OTHER -> 0

\* The product of factor and number is truncated.  Both are doubles, and only the
\* number of seconds may have a fraction: a product that falls short loses its last
\* millisecond.
Truncated(p) == IF p.letter = "S" /\ p.number \in Inexact THEN p.number - 1 ELSE p.number

\* One turn of the reader's loop takes a number, if there is one, and a letter.
ReadPart(reader, p) ==
  [inTimeSection |-> reader.inTimeSection \/ p.letter = "T",
   duration |-> reader.duration + Factor(p.letter, reader.inTimeSection) * Truncated(p)]

IsNegative(text) == Head(text).letter = "-"
Unsigned(text) == IF IsNegative(text) THEN Tail(text) ELSE text

\* durationStringToMillis() throws for such a text, without regard to the value.
Invalid(text) == TextLength(text) <= 3 \/ Head(Unsigned(text)).letter # "P"

DurationStringToMillis(text) ==
  LET read == FoldLeft(ReadPart, [inTimeSection |-> FALSE, duration |-> 0],
                       Tail(Unsigned(text)))
  IN IF IsNegative(text) THEN -read.duration ELSE read.duration
-----------------------------------------------------------------------------
(* The writer *)

\* A part and its letter; nothing if the part is zero.
DurationPart(n, letter) ==
  IF n > 0 THEN <<Part(1000 * n, DigitsOf(n), letter)>> ELSE <<>>

\* The milliseconds are written behind the point as an integer, without the
\* zeros in front.
SecondsPart(millis) ==
  LET rest == millis % 1000
      digits == DigitsOf(rest)
  IN <<Part(1000 * (millis \div 1000) + rest * 10^(3 - digits),
            DigitsOf(millis \div 1000) + 1 + digits, "S")>>

MillisToDurationString(millis) ==
  LET rest == IF millis < 0 THEN -millis ELSE millis
      Minute == 60 * 1000  Hour == 60 * Minute  Day == 24 * Hour
  IN (IF millis < 0 THEN Letter("-") ELSE <<>>) \o Letter("P")
       \o DurationPart(rest \div Day, "D") \o Letter("T")
       \o DurationPart((rest % Day) \div Hour, "H")
       \o DurationPart((rest % Hour) \div Minute, "M")
       \o SecondsPart(rest % Minute)
-----------------------------------------------------------------------------
(* Reference: a length of time as the standard has it written *)

InMillis(l) ==
  (((24 * l.days + l.hours) * 60 + l.minutes) * 60 * 1000 + l.millis)
    * (IF l.negative THEN -1 ELSE 1)

StandardText(l) ==
  LET seconds == IF l.millis = 0 THEN <<>>
                 ELSE IF l.millis % 1000 = 0
                      THEN DurationPart(l.millis \div 1000, "S")
                      ELSE <<Part(l.millis, DigitsOf(l.millis \div 1000) + 4, "S")>>
      time == DurationPart(l.hours, "H") \o DurationPart(l.minutes, "M") \o seconds
  IN (IF l.negative THEN Letter("-") ELSE <<>>) \o Letter("P")
       \o DurationPart(l.years, "Y") \o DurationPart(l.months, "M")
       \o DurationPart(l.days, "D")
       \o (IF time = <<>> THEN <<>> ELSE Letter("T") \o time)

-----------------------------------------------------------------------------
(* Addresses *)

Slash == <<"/">>
Separator == <<":", "/", "/">>
Http == <<"http">>

\* Where the pattern begins in the text, from a place on.
Positions(text, pattern, from) ==
  {i \in from..(Len(text) - Len(pattern) + 1) :
     SubSeq(text, i, i + Len(pattern) - 1) = pattern}

HasAccess(url) == Positions(url, Separator, 1) # {}
AccessOf(url) == SubSeq(url, 1, Min(Positions(url, Separator, 1)) - 1)
BeginOfHostName(url) == IF HasAccess(url) THEN Len(AccessOf(url)) + Len(Separator) + 1 ELSE 1
Slashes(url) == Positions(url, Slash, BeginOfHostName(url))

\* splitURL() asserts the protocol and a slash behind the host.
Accepts(url) == (HasAccess(url) => AccessOf(url) = Http) /\ Slashes(url) # {}

\* The URL's members; withoutHostname and whole are put together from the parts.
NewURL(hostName, path, fileName) ==
  LET withoutHostname == path \o Slash \o fileName
  IN [hostName |-> hostName, path |-> path, fileName |-> fileName,
      withoutHostname |-> withoutHostname,
      whole |-> Http \o Separator \o hostName \o Slash \o withoutHostname]

SplitURL(url) ==
  LET first == Min(Slashes(url))
      last == Max(Slashes(url))
  IN NewURL(SubSeq(url, BeginOfHostName(url), first - 1),
            IF first = last THEN <<>> ELSE SubSeq(url, first + 1, last - 1),
            SubSeq(url, last + 1, Len(url)))

IsAbsoluteUrl(url) == IsPrefix(Http \o Separator, url)

\* What the first line of the HTTP request names.
RequestTarget(url) == Slash \o SplitURL(url).withoutHostname
-----------------------------------------------------------------------------
(* Times *)

Mega == 1000000

Geq(a, b) == a.sec > b.sec \/ (a.sec = b.sec /\ a.nsec >= b.nsec)

LaterThan(a, usec) ==
  \/ a.sec > usec \div Mega
  \/ a.sec = usec \div Mega /\ a.nsec > (usec % Mega) * 1000

Plus(a, b) ==
  [sec |-> a.sec + b.sec + (a.nsec + b.nsec) \div Giga, nsec |-> (a.nsec + b.nsec) % Giga]

\* An assertion demands Geq(a, b).
Minus(a, b) ==
  IF a.nsec >= b.nsec THEN [sec |-> a.sec - b.sec, nsec |-> a.nsec - b.nsec]
  ELSE [sec |-> a.sec - b.sec - 1, nsec |-> Giga - (b.nsec - a.nsec)]

PlusUsec(a, usec) ==
  LET nsec == a.nsec + (usec % Mega) * 1000
  IN [sec |-> a.sec + usec \div Mega + nsec \div Giga, nsec |-> nsec % Giga]

Usec2tv(usec) == [sec |-> usec \div Mega, usec |-> usec % Mega]
-----------------------------------------------------------------------------
(* One conversion: a length of time is written, by the author of an MPD and by *)
(* the writer, and read; an address is split and requested; two times are      *)
(* added and subtracted.                                                       *)

Item(kind, value) == [kind |-> kind, value |-> value]

ConversionNext ==
  /\ converted = {}
  /\ \/ \E l \in Lengths : converted' = {Item("length", l)}
     \/ \E a \in Addresses : converted' = {Item("address", a)}
     \/ \E t, u \in Times : converted' = {Item("times", <<t, u>>)}

\* A duration of four characters or more is read up to its years and months, and
\* to the millisecond unless its seconds fall short as a double: then it is read as
\* one millisecond less.  What the writer writes is never rejected, and read back
\* unless it falls short or a zero stands directly behind the point.
DurationIsRead(l) ==
  LET text == StandardText(l)
      fraction == l.millis % 1000
      written == MillisToDurationString(InMillis(l))
      short == IF l.millis \notin Inexact THEN 0 ELSE IF l.negative THEN -1 ELSE 1
  IN /\ Invalid(text) <=> TextLength(text) <= 3
     /\ ~Invalid(text) => DurationStringToMillis(text) = InMillis(l) - short
     /\ ~Invalid(written)
     /\ DurationStringToMillis(written) = InMillis(l)
          <=> (fraction = 0 \/ fraction >= 100) /\ l.millis % 60000 \notin Inexact

\* An address with a target is requested from its host by just that target, but
\* with a slash too many for a file without a directory.  One of another
\* protocol, or without a target, ends the process.
AddressIsRequested(a) ==
  LET url == (IF a.access = <<>> THEN <<>> ELSE a.access \o Separator) \o a.hostName \o a.target
      inDirectory == Positions(a.target, Slash, 2) # {}
  IN /\ Accepts(url) <=> /\ a.target # <<>>
                         /\ \/ a.access = Http
                            \/ a.access = <<>> /\ Positions(url, Separator, 1) = {}
     /\ Accepts(url) =>
          /\ SplitURL(url).hostName = a.hostName
          /\ RequestTarget(url) =
               IF inDirectory THEN a.target ELSE Slash \o a.target
          /\ IsAbsoluteUrl(url) =>
               SplitURL(url).whole = Http \o Separator \o a.hostName \o RequestTarget(url)

\* Adding and subtracting times carries the second, and agrees with the order.
TimesAdd(a, b) ==
  LET usec == Mega * b.sec + b.nsec \div 1000
      whole == [sec |-> Usec2tv(usec).sec, nsec |-> 1000 * Usec2tv(usec).usec]
  IN /\ Plus(a, b) \in TimeType
     /\ Geq(Plus(a, b), a) /\ Minus(Plus(a, b), b) = a
     /\ Geq(a, b) => Plus(Minus(a, b), b) = a
     /\ PlusUsec(a, usec) = Plus(a, whole)
     /\ LaterThan(a, usec) <=> Geq(a, whole) /\ a # whole

\* Durations, addresses and times come out of their conversions as they went in,
\* but for the millisecond and the characters named above.
ConversionsAreRight ==
  \A c \in converted :
    /\ c.kind = "length" => DurationIsRead(c.value)
    /\ c.kind = "address" => AddressIsRequested(c.value)
    /\ c.kind = "times" => TimesAdd(c.value[1], c.value[2])
=============================================================================
