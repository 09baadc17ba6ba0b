----------------------------- MODULE HttpHeader -----------------------------
(***************************************************************************)
(* How DashHttp cuts the bytes of a TCP connection into answers, and what  *)
(* it makes of their headers: parseData() and parseHeader() of DashHttp,   *)
(* appendHdrBytes(), appendPldBytes(), parseHeader() and completed() of    *)
(* HttpRequestManager.                                                     *)
(*                                                                         *)
(* The server (external) sends answers one after the other; recv() returns *)
(* them in pieces cut anywhere, up to ReadSize bytes at a time.  One byte  *)
(* stands for the text of a header line, one for the CR and one for the LF *)
(* behind it: what the code looks for is the blank line, which a read may  *)
(* cut in four places.  The text of a line has arrived when its first      *)
(* characters have.                                                        *)
(***************************************************************************)
EXTENDS Integers, SequencesExt

CONSTANTS
  Answers,      \* what the server may send: [method, lines, body] records
  MaxAnswers,   \* bound: answers on the connection
  ReadSize,     \* bound: bytes one recv() returns
  MaxHeader     \* the longest header, in bytes (500 in the code)

VARIABLES
  answers,      \* the answers sent so far
  socket,       \* bytes sent and not yet read
  buffer,       \* recvBuf: bytes read and not yet processed
  answered,     \* history: what the completed requests received
  request,      \* the request at the front of the queue
  aHeader,      \* TcpConnection::aHdrReceived
  timeoutKnown, \* SourceData::keepAliveTimeout
  httpFault     \* the assertion or exception that ended the process

httpVars == <<answers, socket, buffer, answered, request, aHeader,
              timeoutKnown, httpFault>>

\* Bytes.  A line has a name and up to two numbers.
Line(name, n, m) == [name |-> name, n |-> n, m |-> m]
CR == Line("CR", 0, 0)
LF == Line("LF", 0, 0)
Byte == Line("byte", 0, 0)
BLANK == <<CR, LF, CR, LF>>

HeaderBytes(a) ==
  FlattenSeq([i \in DOMAIN a.lines |-> <<a.lines[i], CR, LF>>]) \o <<CR, LF>>

\* A HEAD request is answered without the body its header announces.
WireBytes(a) == HeaderBytes(a) \o (IF a.method = "HEAD" THEN <<>> ELSE a.body)

\* HttpHdr() and HttpRequest().
NewHdr == [statusCode |-> 0, keepAliveMax |-> -1, keepAliveTimeout |-> -1,
           contentLength |-> -1, connectionClose |-> -1]
NewRequest == [hdrBytes |-> <<>>, hdr |-> NewHdr, hdrCompleted |-> FALSE,
               payload |-> <<>>]

\* What the server may say: the lines of a header are those the parser knows and
\* any other, a status line comes first, no field comes twice, and the length of
\* a body is announced rightly or not at all.
Lines == [name : {"status", "length", "close", "keepAlive", "connection", "limits", "other"},
          n : Int, m : Int]
HasOne(a, names) ==
  \A i, j \in DOMAIN a.lines :
    a.lines[i].name \in names /\ a.lines[j].name \in names => i = j
WellFormed(a) ==
  /\ a \in [method : {"GET", "HEAD"}, lines : Seq(Lines), body : Seq({CR, LF, Byte})]
  /\ a.lines # <<>> /\ a.lines[1].name = "status"
  /\ HasOne(a, {"limits"}) /\ HasOne(a, {"close", "keepAlive", "connection"})
  /\ \A i \in DOMAIN a.lines : a.lines[i].name = "length" =>
       a.lines[i].n >= 0 /\ (a.method = "GET" => a.lines[i].n = Len(a.body))

ASSUME HttpHeaderAssumption ==
  /\ \A a \in Answers : WellFormed(a)
  /\ MaxAnswers \in Nat /\ ReadSize \in Nat /\ MaxHeader \in Nat

HttpInit ==
  /\ answers = <<>> /\ socket = <<>> /\ buffer = <<>> /\ answered = <<>>
  /\ request = NewRequest
  /\ aHeader = FALSE /\ timeoutKnown = -1 /\ httpFault = "none"
-----------------------------------------------------------------------------
\* Mutant: a blank line cut behind its first CR is not looked for.
EndNotBehindCR(got, p) ==
  LET cut(n) == Len(got) >= n /\ IsSuffix(SubSeq(BLANK, 1, n), got)
                /\ IsPrefix(SubSeq(BLANK, n + 1, 4), p)
      inside == {i \in 1..(Len(p) - 3) : SubSeq(p, i, i + 3) = BLANK}
  IN  CASE cut(2) -> 2
        [] cut(3) -> 1
        [] ~(cut(2) \/ cut(3)) /\ inside # {} ->
             3 + CHOOSE i \in inside : \A j \in inside : i <= j
        [] OTHER -> 0

\* How many bytes of p belong to the header of which `got' has arrived, 0 if
\* its end is not among them.  The blank line may be cut after 1, 2 or 3 of
\* its bytes, tried in this order, or lie in p as a whole.
EndOfHeader(got, p) ==
  LET cut(n) == Len(got) >= n /\ IsSuffix(SubSeq(BLANK, 1, n), got)
                /\ IsPrefix(SubSeq(BLANK, n + 1, 4), p)
      inside == {i \in 1..(Len(p) - 3) : SubSeq(p, i, i + 3) = BLANK}
  IN  CASE cut(1) -> 3
        [] ~cut(1) /\ cut(2) -> 2
        [] ~cut(1) /\ ~cut(2) /\ cut(3) -> 1
        [] ~(cut(1) \/ cut(2) \/ cut(3)) /\ inside # {} ->
             3 + CHOOSE i \in inside : \A j \in inside : i <= j
        [] OTHER -> 0

\* One line of the header, read into h.
ReadLine(h, l) ==
  CASE l.name = "status"    -> [h EXCEPT !.statusCode = l.n]
    [] l.name = "length"    -> [h EXCEPT !.contentLength = l.n]
    [] l.name = "close"     -> [h EXCEPT !.connectionClose = 1]
    [] l.name = "keepAlive" -> [h EXCEPT !.connectionClose = 0]
    [] l.name = "limits"    -> [h EXCEPT !.keepAliveMax = l.n,
                                         !.keepAliveTimeout = 1000000 * l.m]
    [] OTHER -> h

\* What the parser does not accept of a line.
LineFault(l) ==
  CASE l.name = "status" /\ l.n \notin {200, 302}  -> "badStatus"
    [] l.name = "connection"                       -> "unknownConnection"
    [] l.name = "limits" /\ (l.n <= 0 \/ l.m <= 0) -> "badLimits"
    [] OTHER -> "none"

\* The first line it does not accept ends the process.
Rejected(bytes) ==
  LET lines == {i \in DOMAIN bytes : LineFault(bytes[i]) # "none"}
  IN  IF lines = {} THEN "none" ELSE LineFault(bytes[Min(lines)])

\* Mutant: without the workaround.
WithoutDefaults(h) == h

\* A server that does not close and leaves out what it could say about the
\* connection (IIS does) is taken to keep it alive; 3600 is not in the unit of
\* the other timeouts.
WithDefaults(h) ==
  [h EXCEPT !.connectionClose  = IF @ = -1 THEN 0 ELSE @,
            !.keepAliveMax     = IF @ = -1 THEN 10000 ELSE @,
            !.keepAliveTimeout = IF @ = -1 THEN 3600 ELSE @]

\* Why a header ends the process, if it does: its lines were read as `read', the
\* first one the parser rejected has the fault `rejected', and the defaults made
\* it `hdr'.
HeaderFault(read, hdr, rejected) ==
  LET closes == read.connectionClose = 1
  IN  CASE rejected # "none" -> rejected
        [] rejected = "none" /\ closes
           /\ (read.keepAliveMax # -1 \/ read.keepAliveTimeout # -1) ->
             "closeWithLimits"
        [] rejected = "none" /\ read.statusCode # 200 -> "redirect"
        [] rejected = "none" /\ ~closes
           /\ ~(hdr.connectionClose = 0 /\ hdr.keepAliveMax > 0
                /\ hdr.keepAliveTimeout > 0) ->
             "noLimits"
        [] rejected = "none" /\ ~closes /\ timeoutKnown # -1
           /\ hdr.keepAliveTimeout # timeoutKnown ->
             "timeoutChanged"
        [] OTHER -> "none"

\* HttpRequestManager::parseHeader() and DashHttp::parseHeader(): the header,
\* and the place that ended the process, if one did.
ParseHeader(bytes) ==
  LET read == FoldLeft(ReadLine, NewHdr, bytes)
      hdr  == IF read.connectionClose = 1 THEN read ELSE WithDefaults(read)
  IN  [hdr |-> hdr, fault |-> HeaderFault(read, hdr, Rejected(bytes))]

\* HttpRequest::completed().
Completed(r, method) ==
  /\ r.hdrCompleted
  /\ method = "HEAD" \/ r.hdr.contentLength = Len(r.payload)

\* appendHdrBytes(): r has taken `taken' more bytes of header, `bytes' in all.
AppendHdrBytes(r, bytes, taken) ==
  LET ended  == IsSuffix(BLANK, bytes)
      parsed == ParseHeader(bytes)
  IN  [r |-> [r EXCEPT !.hdrBytes = bytes, !.hdrCompleted = ended,
                       !.hdr = IF ended THEN parsed.hdr ELSE @],
       taken |-> taken,
       fault |-> CASE Len(bytes) > MaxHeader -> "headerTooLong"
                   [] Len(bytes) <= MaxHeader /\ ended -> parsed.fault
                   [] OTHER -> "none"]

\* The header part of parseData(): what becomes of r, how many bytes it took
\* and what went wrong.
ParseHeaderBytes(r, p) ==
  LET n     == EndOfHeader(r.hdrBytes, p)
      taken == IF n = 0 THEN Len(p) ELSE n
  IN  AppendHdrBytes(r, r.hdrBytes \o SubSeq(p, 1, taken), taken)

\* A header of which these bytes have arrived may have fewer than four characters:
\* the text of a line counts as one if nothing has come behind it.
MayBeShort(bytes) ==
  Len(bytes) < 4 /\ \A i \in 1..(Len(bytes) - 1) : bytes[i] \in {CR, LF, Byte}

\* appendHdrBytes() compares the last four characters, and looks before the first
\* one if there are fewer; hdrBytesReceived - 4 is unsigned.
ReadsBefore(r, p) == ~r.hdrCompleted /\ MayBeShort(ParseHeaderBytes(r, p).r.hdrBytes)

\* appendPldBytes() with as much of p as the body still misses.
TakePayload(r, p) ==
  LET missing == r.hdr.contentLength - Len(r.payload)
      taken   == IF missing < Len(p) THEN missing ELSE Len(p)
  IN  [r EXCEPT !.payload = @ \o SubSeq(p, 1, taken)]

\* The body part of parseData(), after the header part has made `head' of p.
ParsePayload(head, p, method) ==
  LET rest  == SubSeq(p, head.taken + 1, Len(p))
      whole == TakePayload(head.r, rest)
  IN  CASE head.fault # "none" -> head
        [] head.fault = "none" /\ (rest = <<>> \/ Completed(head.r, method)) ->
             head
        [] head.fault = "none" /\ rest # <<>> /\ ~Completed(head.r, method)
           /\ head.r.hdr.contentLength <= Len(head.r.payload) ->
             [head EXCEPT !.fault = "noLength"]
        [] OTHER ->
             [r |-> whole, fault |-> "none",
              taken |-> head.taken + Len(whole.payload) - Len(head.r.payload)]

\* parseData(): one call for request r with the bytes p.
ParseData(r, p, method) ==
  ParsePayload(IF r.hdrCompleted THEN [r |-> r, taken |-> 0, fault |-> "none"]
                                 ELSE ParseHeaderBytes(r, p),
               p, method)
-----------------------------------------------------------------------------
(* Actions *)

HttpRunning == httpFault = "none"

\* The server sends one more answer (a request for it has been written before).
Send(a) ==
  /\ HttpRunning /\ Len(answers) < MaxAnswers
  /\ answers' = Append(answers, a)
  /\ socket' = socket \o WireBytes(a)
  /\ UNCHANGED <<buffer, answered, request, aHeader, timeoutKnown, httpFault>>

\* TcpConnection::read().
Recv(n) ==
  /\ HttpRunning /\ buffer = <<>> /\ n <= Len(socket)
  /\ buffer' = SubSeq(socket, 1, n)
  /\ socket' = SubSeq(socket, n + 1, Len(socket))
  /\ UNCHANGED <<answers, answered, request, aHeader, timeoutKnown, httpFault>>

\* A failed assertion or an exception ends the process.
HttpFail(where) ==
  /\ httpFault' = where
  /\ UNCHANGED <<answers, socket, buffer, answered, request, aHeader,
                 timeoutKnown>>

\* Mutant: without the assertion.
IsFirstAny(h) == TRUE

\* What the first header of a connection must say.
IsFirst(h) == h.keepAliveMax > 0 /\ h.keepAliveTimeout > 0

\* What processNewData() does with the result of parseData().  The first header
\* of the connection must carry both limits, which parseHeader() has supplied
\* unless the server closes.
ProcessParsed(got, method) ==
  LET first == got.r.hdrCompleted /\ ~aHeader
      done  == Completed(got.r, method)
  IN  IF got.fault # "none" THEN HttpFail(got.fault)
      ELSE IF first /\ ~IsFirst(got.r.hdr) THEN HttpFail("firstHeader")
      ELSE /\ buffer' = SubSeq(buffer, got.taken + 1, Len(buffer))
           /\ aHeader' = (aHeader \/ first)
           /\ timeoutKnown' = IF first THEN got.r.hdr.keepAliveTimeout
                              ELSE timeoutKnown
           /\ request' = IF done THEN NewRequest ELSE got.r
           /\ answered' = IF done THEN Append(answered, got.r) ELSE answered
           /\ UNCHANGED <<answers, socket, httpFault>>

\* One round of processNewData()'s loop.  A look before the header's first character
\* is outside of what was allocated: it ends the process, or finds no blank line.
ProcessData ==
  LET current == Len(answered) + 1
  IN  /\ HttpRunning /\ buffer # <<>>
      /\ IF current > Len(answers) THEN HttpFail("noRequest")
         ELSE \/ ProcessParsed(ParseData(request, buffer, answers[current].method),
                               answers[current].method)
              \/ ReadsBefore(request, buffer) /\ HttpFail("readBeforeHeader")

HttpNext ==
  \/ \E a \in Answers : Send(a)
  \/ \E n \in 1..ReadSize : Recv(n)
  \/ ProcessData

HttpSpec == HttpInit /\ [][HttpNext]_httpVars
-----------------------------------------------------------------------------
(* Properties *)

HttpTypeOK ==
  /\ answers \in Seq(Answers) /\ Len(answers) <= MaxAnswers
  /\ Len(buffer) <= ReadSize
  /\ Len(answered) <= Len(answers)
  /\ aHeader \in BOOLEAN /\ (aHeader <=> timeoutKnown # -1)
  /\ request.hdrCompleted \in BOOLEAN
  /\ httpFault \in {"none", "badStatus", "unknownConnection", "badLimits",
                    "closeWithLimits", "redirect", "noLimits", "firstHeader",
                    "timeoutChanged", "headerTooLong", "noLength", "noRequest",
                    "readBeforeHeader"}

\* A body that begins like the rest of a blank line can be taken for it: when a
\* read ends behind the third byte of the blank line, the first test matches
\* before the right one.
BeginsBlank(a) == a.method = "GET" /\ IsPrefix(<<CR, LF>>, a.body)

\* Wherever the reads cut the stream, every answer's header ends at its blank
\* line and its body has the announced bytes; the request at the front has
\* received a prefix of its answer, and its header is complete exactly when
\* the blank line has been processed.
AnswersAreCutRight ==
  (\A i \in DOMAIN answers : ~BeginsBlank(answers[i])) =>
    /\ \A i \in DOMAIN answered :
         answered[i].hdrBytes \o answered[i].payload = WireBytes(answers[i])
    /\ request # NewRequest =>
         LET a == answers[Len(answered) + 1]
         IN  /\ IsPrefix(request.hdrBytes \o request.payload, WireBytes(a))
             /\ request.hdrCompleted <=>
                  Len(request.hdrBytes) = Len(HeaderBytes(a))

\* Lines of an answer by name.
Has(a, name) == \E i \in DOMAIN a.lines : a.lines[i].name = name
TimeoutOf(a) ==
  IF Has(a, "limits")
  THEN LET i == CHOOSE i \in DOMAIN a.lines : a.lines[i].name = "limits"
       IN  1000000 * a.lines[i].m
  ELSE 3600

\* What the client does not support, said of the answers alone.
Unsupported(a) ==
  \/ \E i \in DOMAIN a.lines :
       \/ a.lines[i].name = "connection"
       \/ a.lines[i].name = "status" /\ a.lines[i].n # 200
       \/ a.lines[i].name = "limits" /\ (a.lines[i].n <= 0 \/ a.lines[i].m <= 0)
  \/ Has(a, "close") /\ Has(a, "limits")
  \/ a.method = "GET" /\ ~Has(a, "length")
  \/ Len(HeaderBytes(a)) > MaxHeader
  \/ BeginsBlank(a)

\* The process ends because of what the server said: an answer it does not support,
\* a first answer that closes the connection, or two answers that differ in the
\* keep-alive timeout, one of which may not have named it.  How TCP delivers the
\* bytes can end it in one way only: a read ends within the first line of an answer,
\* with too few characters to compare.
EndsByAnswersOrShortRead ==
  ~HttpRunning =>
    \/ \E i \in DOMAIN answers : Unsupported(answers[i])
    \/ Has(answers[1], "close")
    \/ \E i, j \in DOMAIN answers :
         /\ ~Has(answers[i], "close") /\ ~Has(answers[j], "close")
         /\ TimeoutOf(answers[i]) # TimeoutOf(answers[j])
    \/ /\ httpFault = "readBeforeHeader" /\ request.hdrBytes = <<>>
       /\ buffer = <<answers[Len(answered) + 1].lines[1]>>
=============================================================================
