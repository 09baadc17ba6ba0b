# A TLA+ model of dashp2p

dashp2p is a VLC access plug-in that downloads a DASH stream over HTTP/1.1 with
persistent, optionally pipelined connections, and adapts the quality of the video to
the throughput it measures. This directory holds a model of its control flow and of the
algorithms it rests on, the TLC configurations that check it on small instances, and
proofs for every value of the constants. Every definition is written from the C++
sources in `src/dashp2p/`; `PROJECT.json` ("map") gives the lines.

1. [The system](#1-the-system)
2. [The modules](#2-the-modules)
3. [The runs](#3-the-runs)
4. [What the runs found](#4-what-the-runs-found)
5. [The proofs](#5-the-proofs)
6. [What is left out](#6-what-is-left-out)
7. [Plan](#7-plan)

## 1. The system

Up to four threads work together:

```
   VLC's thread                control thread                 one thread per connection
   Control::vlcCb()            controlThreadMain()            DashHttp::threadMain()
        |  reads SegmentStorage     |  ControlLogicST              |  TcpConnection
        |  (Control::mutex)         |  (Control::mutex)            |
        +-- DataPlayed --> events --+-- actions --> newRequest() --+--> socket
                              ^                                    |
                              +-- DataReceived, Disconnect --------+
                                  (callbacks; Control::mutex, eventsMutex)

   print() from any thread --> OverlayAdapter (double buffer) --> its thread --> VLC's filter
   record...() from any thread --> Statistics (one file per kind of trace)
```

| Component | State | Operations | What makes it correct |
|---|---|---|---|
| HTTP client (`DashHttp`) | `newReqs`, `reqQueue`, the eventfd, `state`, `ifTerminating` | `newRequest`, `clearUnfinishedRequests`, `threadMain` with its rounds, constructor, destructor | every accepted request is completed once, by its own answer, in order, or handed back; the thread is woken for each; no more requests are sent than the server serves |
| HTTP requests (`HttpRequestManager`) | per request: sent, header, bytes of body | creation, progress, parsing of the header, `completed()` | answers are cut where they end, wherever `recv` cut them |
| TCP connections and sources | `keepAliveMaxRemaining`, `aHdrReceived`, `keepAliveMax`, the socket | connect, read, write, `disconnect`, `cleanup` | the count is the number of requests the server still accepts |
| Registry (`HttpClientManager`) | a table of clients | create, destroy, `cleanup` | a client exists while an action names it |
| Control | `events`, `actions`, `state`, `curPos` | main loop, HTTP callbacks, `vlcCb`, `cleanUp` | no event or action is lost; closing is safe; VLC gets the stream in order |
| Adaptation logic (`ControlLogicST`) | `contour`, `delayedRequests`, `Bdelay`, `pendingActions`, connection id, the series of buffer levels | one handler per event, `selectRepresentation` | each segment is requested once and in order; a delayed request is released; the buffer is bounded; the quality is one the throughput has shown to suffice |
| Segment storage, `DataField` | occupied regions of each segment, `occupiedSize` | `initSegment`, `setSize`, `addData`, `getData`, `dataAvailable` | no byte is offered that has not arrived; what has arrived can be read |
| Contour | the segments VLC is to play | `setNext`, `hasNext`, `getNext` | grows by the successor |
| Time series | minima of finished windows | `pushBack`, `minIncreasing` | the minima are those of the values pushed |
| Statistics | requests per connection, a file per trace | `record...`, `outputStatistics`, `cleanUp`; throughput and received bytes | what is recorded is in its file; measured rates are those of the window |
| Overlay | two buffers per line, dirty flags, the thread's flags | `print`, the thread, `cleanup` | the last text printed is shown; `cleanup` returns |
| MPD and XML | a stack of parsers, the objects they fill | handlers for start, attributes, text, end of an element; `MpdWrapper`'s queries | the model is the document's; segments tile the video |
| Conversions, `Utilities` | none | durations, addresses, times | what is written can be read; parts of an address are its own |
| Plug-in (`dashp2p.cpp`) | the global objects | `Open`, `Read`, `Close` | components outlive their users; closing returns; the plug-in can be opened again |
| Measurements of the peer-to-peer player (`deprecated/`) | a ring buffer of requests, samples, a histogram | `pushBack`, `reserve`, `popFront`, `clear`; `update`, `getGETThroughput`, `getHistogram` | the buffer is a queue; every byte is in one sample |

What is hard here is never one operation: two queues and an eventfd between two
threads; a keep-alive counter that is counted down when a request is sent and read
when an answer is complete; a connection that ends at any point; events queued by
three threads, with values computed before the lock of the queue was taken; a join
under a mutex; a reader that looks at a storage several times while it is
written; parsers shared by all elements of a document; components destroyed in an
order their users do not know. `PROJECT.json` ("hazards") lists each at its line with
the properties that watch it.

A failed `dp2p_assert`, an uncaught exception and an access to something destroyed
all end the process. Each module has a variable `fault` that names the place, and
after it nothing happens. Such an end is visible to every property: safety
properties say which faults are reached only under which circumstances, and each
liveness property names the ends it allows.

## 2. The modules

| Module | Models | Composition |
|---|---|---|
| `RequestFifo` | the promise of an HTTP client: batches accepted, completed in order, the rest taken back | abstract |
| `HttpClient` | one `DashHttp` with its thread, its users and the server | implements `RequestFifo` (`ImplementsFifo`) |
| `HttpClientProofs` | theorems about `HttpClient` | EXTENDS it |
| `HttpHeader` | the bytes of a connection cut into answers, and the lines of a header | in `MCInput` |
| `HttpHeaderProofs` | theorems about `HttpHeader` | EXTENDS it |
| `OrderedDownload` | the promise of the player: segments requested, arrived and given in order, a window of two | abstract |
| `ControlLoop` | `Control`, `ControlLogicST`, the callbacks, VLC's thread, shutdown; the client of the current connection as a FIFO queue | implements `OrderedDownload` (`DownloadsInOrder`) |
| `ControlLoopProofs`, `ControlFaultProofs` | theorems about `ControlLoop` | the first EXTENDS it, the second the first |
| `DataField` | the interval map of class `DataField`, as operators | |
| `SegmentStorage` | class `SegmentStorage`: the MPD and the segments, a field each | EXTENDS `DataField` |
| `Playback` | the way of the bytes: client's thread, storage, `vlcCb`, lost connections | EXTENDS `SegmentStorage` |
| `PlaybackProofs` | theorems about `Playback` | EXTENDS it |
| `TimeSeries` | the windowed minimum, as operators on a record | |
| `Adaptation` | `selectRepresentation`, the delayed request, the buffer and the events between the threads | EXTENDS `TimeSeries` |
| `AdaptationProofs` | theorems about `Adaptation` | EXTENDS it |
| `Measurements` | throughput and received bytes of `Statistics`, the buffer levels of `TimeSeries` | EXTENDS `TimeSeries`; in `MCInput` |
| `MpdModel` | the classes of the MPD and their parsers, as tables | |
| `MpdParser` | the reader's handlers and the shared parsers, over every small document | EXTENDS `MpdModel`; in `MCInput` |
| `MpdWrapper` | resolutions, bit-rates, durations and positions of segments | in `MCInput` |
| `Conversions` | durations, addresses, times | in `MCInput` |
| `RingBuffer`, `ThroughputModel` | the peer-to-peer player's history of requests, its samples and histogram | in `MCInput` |
| `InputProofs` | theorems about `RingBuffer` and `Measurements` | EXTENDS both |
| `Overlay` | `OverlayAdapter`, its thread, its printers, VLC's filter | in `Plugin` |
| `Traces` | the files of `Statistics` and the threads that record | |
| `Plugin` | `Open` to `Close`, twice, with the control thread, the client's thread and VLC's | EXTENDS `Overlay`, `Traces` |
| `PluginProofs` | theorems about `Plugin`: the overlay within it, and its closing sequence | EXTENDS it |
| `MC...` | constants for TLC | EXTEND the module they are named for |

### HttpClient and HttpHeader

`pc` is the place of the thread in `threadMain`: `connect` (the connect loop),
`select`, `read`, `process` (the loop of `processNewData`, one request per step),
`start` (`checkStartNewRequests` and the write), `disconnect`, `done`. What
`select()` saw is kept in `evNewRequests` for the round, as in the code, so a
request accepted in the middle of a round is seen in the next one. `NewRequest(k)`,
`ClearUnfinishedRequests`, `Construct`, `Terminate`, `Destroy` are the control
thread's calls; each holds the locks it takes from its first to its last access of the
queues, which makes it one step. The constructor starts the thread before it sets the
state: `Construct` is therefore a step of its own, after which the thread may already
be anywhere.

The server is external. It answers what it has read in order, counts down
`Keep-Alive: max`, says `Connection: close` with the last answer, and, with
`SuddenClose`, earlier; it may stop in the middle of a body, and the connection may end
at any time. A header is one unit, a body `Payload[r]` units; `Read` returns any
prefix of what has arrived, so every cut between units occurs. `HttpHeader` opens
the unit: `EndOfHeader` tries the three places where a read may have cut the blank line
in the code's order, `ReadLine` and `LineFault` are the parser's lines, `WithDefaults`
the workaround for servers that say nothing, and `ProcessData` one round of
`processNewData` on bytes. A line's text is one byte: the code looks only for CR and LF.
One place counts its characters: `appendHdrBytes` compares the last four it has, at
`hdrBytesReceived - 4`, which is unsigned. A first read of one to three characters makes it look outside
of what was allocated. `ProcessData` lets that comparison be false, or end the process (`readBeforeHeader`).
What the server may send is well-formed (`HttpHeaderAssumption`): a status line comes
first, no field twice, and a body is as long as announced, if it is announced.

The control thread sends at most `MaxOutstanding` requests ahead (a bound) and takes
the unfinished ones back when the logic would: after the disconnect was reported, or
when the counter is 0 after an answer and nothing is queued. `Terminate` has no
guard but that the object exists: the player may be closed at any moment.

### ControlLoop

One step per region under a lock. `ProcessEvent` dispatches on the first event to
`ProcessMpd`, `ProcessSegment`, `ProcessDataPlayed`, `ProcessDisconnect`, each the
whole handler: contour, acknowledgement, delayed request, client replacement, and the
actions issued. `ctl = "actions"` is the inner loop that processes all actions without
looking at the events again. The callback of a completed segment has three steps,
`CompleteRequest` (the thread is at the callback), `ComputeBeta` (under
`Control::mutex`), `PushDataReceived` (under `eventsMutex`), for other threads run between
them. `CreateClient` replaces a client: the old thread is joined first, so whatever
it was about to push (`InFlight`) is pushed before the join returns; a thread that
waits for `Control::mutex` cannot be joined by its holder (`joinDeadlock`).

The HTTP client is reduced to `RequestFifo` plus the facts the logic looks at: the
requests served on the connection and whether it accepts. It is idealised in one
respect: it sends at once all the server accepts. The detailed client does that for
the workload of `ControlLoop` (no client limit, everything may be pipelined).
Data is counted in segments, and a buffer level `beta` in
segments VLC can read without a gap, the init segment having no duration.

### Adaptation, TimeSeries, Measurements

`Adaptation` looks at the same thread for what `ControlLoop` leaves open: which
representation and which `Bdelay`. `Decide` is `processEventDataReceivedSegment` with
`selectRepresentation`: the first phase (`FF`), the three thresholds, the comparison of
the throughput with a bit-rate times a factor, the delay of each branch and the
assertion on it. The throughput is any value of `Rates`, for the module `Measurements`
models how it is computed. VLC takes data at any pace and its event may be processed
after a later one of the client, which `early` counts.

`Measurements` compares the shares of requests inside a window, and the bytes
distributed over intervals, with a sum over the ticks. Rates are pairs of an amount
and a time, and amounts are multiplied by a number every length divides, so no
division is left out.

### Playback, SegmentStorage, DataField

`DataField`'s map is a set of intervals; `SetData` computes the overlapping regions, the
boundaries of the merged one, and joins neighbours, as `setData` does, including that
the right boundary is taken from the *first* byte of the last overlapping region.
`SegmentStorage` creates a field when the size is known and asks the contour for the
next segment when a position runs past the end of one.
`Receive(n)` is one `appendPldBytes`; `VlcCb` is `vlcCb` up to the decision that
data is available, and `GetData` the copy, with `vlc = "reading"` in between: VLC's thread
holds `Control::mutex` there, which keeps out the callback and the control thread but
not `Receive`. `LoseConnection` starts the segment at the front again from byte 0.
`received`, `completed` and `given` are history variables.

### MpdParser and MpdWrapper

The document is chosen while it is read: `StartElement` picks any child the tables of
`MpdModel` allow, and up to `MaxStray` elements where nobody expects them; `Text` and
`ReadEnd` follow. `open` is the reader's own stack; the handlers have none, but a parser
per kind of element that remembers one enclosing parser, and that is what can go wrong.
`ParserFollowsReader` compares the two, `ModelIsDocument` the objects with the elements.
`MpdWrapper`'s queries are operators over an adaptation set; products wrap at
`MaxInt`, as in the search for the lowest resolution. What the user asks for, the options `dashp2p-width`
and `dashp2p-height`, is `screen`: the lowest, the highest, any resolution, or exactly this one. The
assertions of `processEventDataReceivedMpd` on them are actions: `RejectOptions` (no size) and
`RejectScreen` (a size that no representation has).

### Conversions and ThroughputModel: doubles

Both compute integers from doubles, and the rounding is a constant of the model. `Inexact` names the
thousandths of a second whose product with 1000 falls short of the integer, so that
`durationStringToMillis` loses the last millisecond; of the 60000 below a minute these are 372, such as 1001
(1.001 * 1000 is less than 1001). `Below` and `Above` name the sizes, parts and lengths for which
`size * (part / length)` should be an integer and, as a double, lies below or above it: there `floor()` gives
one byte less or `ceil()` one more, as for 48 of 49 ticks of 49 bytes. The assumptions say only that these are
values where the exact result is an integer (or, for `Inexact`, not a multiple of an eighth). The runs use values that double
arithmetic does produce. The bins of the histogram are computed with rational numbers.

### Overlay, Traces, Plugin

`Overlay` has the critical sections as steps and the tests of flags outside of them as
steps of their own; the filter opens the pipes when it likes. `Traces` makes a record
two steps where the code looks for the file and then writes it without a lock. `Plugin`
runs both between `Open` and `Close`: the order in which `dashp2p.cpp` creates and
destroys (`Open`, and one step of `CloseStep` per call of `Close()`), the control thread
with one request after the other and a reconnection, and the client's thread with its
callbacks, of which that of a header records the size of a segment. A component that is used before it exists or after it was destroyed is a fault.

The file of the segment sizes cannot be opened: `prepareFileSegmentSizes` asserts that it is open
already (`Statistics.cpp:1002`). `PrepareSizesFails` is that end (`sizesNotOpen`). `Open()` passes the flag
`logSegmentSizes` as false (`dashp2p.cpp:225`), and so does the run; the proofs are about every set of flags.
`OutputRequests` writes the list of one connection in one step. The code walks through it without
a lock while the control thread may add to it; that race is left out.

## 3. The runs

All bounds are constants in the `.cfg`. Deadlock is not checked: each of these systems
may stop (the player is closed, the stream has ended, the process has ended).

| Run | Instance | Shows |
|---|---|---|
| `http_pipelined` (`MCHttpPipelined`) | 5 requests, 4 outstanding, one HEAD, bodies of 1 and 2 units, limit 7 known | `AnswersOwnRequest`, `ImplementsFifo`, `RequestsAreSettled` for batches and cuts inside and between answers |
| `http_limit` (`MCHttpLimit`) | 5 requests, 4 outstanding, limit 3 not known at first, client limit 3, two requests that must not be pipelined, a server that may close early | `TypeOK`, `EventfdCountsNewReqs`, `EveryRequestAccountedFor`, `SentRequestsComeFirst`, `LimitsRespected`, `MismatchNeedsPipelining` |
| `loop` (`MCLoop`) | segments 0..5, limit 4 (so reconnects in mid-stream), 2 lost connections, close at any time, `Bdelay` 1 or unlimited | `DownloadsInOnePlace`, `OnlyLossOrCloseEndsTheProcess`, `DownloadsInOrder` (refinement) |
| `loop_live` (`MCLoopLive`) | segments 0..2 with fetchHeads, limit 6, 2 lost connections | `SizesAreKnown`, `StreamIsDownloaded` |
| `playback` (`MCPlayback`) | segments of 2, 4 and 4 bytes, VLC asks for up to 3, one pause, 2 lost connections | `StorageIsSound`, `CompletedSegmentsAreWhole`, `StreamIsGivenInOrder`, `StreamIsPlayed` |
| `adaptation` (`MCAdaptation`) | two representations, segments 0..5, throughputs below, between and above the bit-rates | `TypeOK`, `BufferBounded`, `AssertionsHold`, `QualityWasAffordable` |
| `input` (`MCInput`) | eight parts, each for itself; see below | twelve properties, each of one part |
| `plugin` (`MCPlugin`) | opened twice, with the overlay or with traces, 2 lines, 2 texts, 3 prints, 2 connections, 2 requests | `OverlayShowsLastPrint`, `FaultsAreExplained`, `ComponentsOutliveTheirUsers`, `TracesAreComplete`, `PrintsAreShown`, `CloseReturns` |
| `http_limit_pipelined`, `loop_lost`, `loop_delay`, `playback_restart` | the smallest instance that shows the fault | one violated property each: section 4 |

The parts of `input` share no state. Each behaviour follows one of them:

| Part | Inputs | Properties |
|---|---|---|
| answers | two answers out of twelve, read in pieces of at most 8 bytes | `AnswersAreCutRight`, `EndsByAnswersOrShortRead` |
| document | every tree of at most 6 elements, one of them stray, one text | `ParserFollowsReader`, `ModelIsDocument` |
| stream | adaptation sets of up to 2 representations with and without their optional fields, seven sizes to ask for | `RatesMatchTheResolution`, `SegmentsTileTheVideo` |
| requests | up to 2 requests of one or two pieces within 3 ticks | `MeasuredRatesAreRight` |
| levels | series of 4 levels | `MinimaNeverFell` |
| conversions | lengths of time, addresses, pairs of times | `ConversionsAreRight` |
| buffer | capacities 1 to 3, 6 elements, with and without growth, overwriting, deep copies | `BufferIsQueue` |
| samples | 3 requests of up to 3 chunks, times of 1, 2, 4, 6, 7, 12 and 14 ticks, chunks of 55 and 108 bytes, 3 bins | `SamplesAreRight` |

`InputTypeOK` is the conjunction of the parts' type invariants.

Why the bounds are enough: the queues' code distinguishes empty, one, and "more than
the pending ones", the limits are compared with 0 and with the number pending; 5
requests against a limit of 3 reach every combination. The logic distinguishes the
MPD, segment 0, segment 1, a middle segment and the last one: 0..5 has each, with
reconnects between them. Two lost connections allow a
loss while the first one is being handled. In `DataField`, four bytes allow a region to be extended,
overwritten inside, and overwritten up to and beyond its end. A blank line is cut in
three places; a read of 8 bytes spans the end of one answer and the header of the
next. Six elements are a path from the root to a `SegmentURL`, or two `Representation`s
side by side, which is what the shared parsers confuse. Six elements in a ring of three
wrap it twice. Opening twice is what reaches the state the first closing left.

Limits chosen with a reason: in the `loop` runs a limit of 3 would make segments 0
and 1, which are pipelined, use it up, which is the fault that `http_limit_pipelined` shows
(`fault = "keepAlive"`), and nothing further would be seen of the stream; so 4 and, with
`fetchHeads`, 6. `RequestsAreSettled` is checked without a client limit, as the
player creates its connections: with one, held-back requests wait for the next
`newRequest` (hazard at `DashHttp.cpp:202`).

### Fairness

Weak fairness only. `HttpClient`: the thread and the constructor run on
(scheduler); a server answers what it has read completely (`FullAnswer`); one that has said
it closes does close. `ControlLoop`: the control thread, the callbacks and VLC's
reading run on, the server answers, and a connection at its limit ends. `Playback`: the
three threads, where the client's thread includes the arrival of bytes. `Plugin`: each
thread, a record or a print that has begun, the calls of `Close()` once it was called,
and VLC's filter, which opens the pipes and answers; a filter that does not would block
`cleanup()` for ever (hazard at `OverlayAdapter.cpp:146`). Never assumed fair: losing a
connection, closing the player or opening it again, accepting a request, beginning a print or a record, a server
that gives up an idle connection. WF on the
disjunction of a thread's steps is enough because each thread is sequential: whichever
step is enabled is its next one.

## 4. What the runs found

| Run | Where | What |
|---|---|---|
| `http_limit_pipelined` | `DashHttp.cpp:688, 698` | 0 requests remaining is taken for "this was the last answer"; with two requests outstanding it is not, and the assertion fails |
| `loop_lost` | `Control.cpp:398` | an action rejected because the connection has ended throws, although the comments expect the rejection |
| `loop_delay` | `Control.cpp:786` | `beta` is computed before, and pushed after, VLC's last `DataPlayed`: the next request is delayed for ever |
| `playback_restart` | `DataField.cpp:103` | writing the beginning again frees the rest of a region; VLC's second look finds nothing, and the stream starts over |

The models contain further ends that no run of their own shows. They are part of the
explored behaviour: the properties of the passing runs hold up to them, and
`OnlyLossOrCloseEndsTheProcess`, `FaultsAreExplained`, `EndsByAnswersOrShortRead`,
`MismatchNeedsPipelining` and `AssertionsHold` say under which circumstances they occur.

| Module | Where | What |
|---|---|---|
| HttpClient | `DashHttp.cpp:747` | requests on the wire are requeued and sent again; the surplus answers find no request (`noRequest`) |
| HttpClient | `DashHttp.cpp:634, 688` | a server that closes before its limit (`firstHeader`, `keepAliveMismatch`, `trailingBytes`) |
| HttpClient | `DashHttp.cpp:80` | disconnect before the constructor has set the state (`reportDisconnect`) |
| HttpClient, ControlLoop, Plugin | `DashHttp.cpp:103` | closing with requests in the queues (`destructor`) |
| HttpClient | `TcpConnectionManager.cpp:148` | the connection is closed between `select` and the write (`write`) |
| HttpHeader | `DashHttp.cpp:898` | the header ends two bytes late if a read ends behind the third byte of its blank line and the body begins with CR LF |
| HttpHeader | `HttpRequestManager.cpp:73` | a first read of fewer than four bytes: the comparison looks outside of the header's memory (`readBeforeHeader`) |
| HttpHeader | `DashHttp.cpp:980` | the default timeout is 3600 where others are microseconds: two answers of which one has no Keep-Alive line end the process |
| HttpHeader | `DashHttp.cpp:634, 965` | a first answer that closes the connection, and every redirect, end the process |
| ControlLoop | `ControlLogicST.cpp:359` | a disconnect while the MPD is downloaded restarts it as a segment: the cast fails (`restartMpd`); HEADs become GETs |
| ControlLoop | `ControlLogicST.cpp:132` | a stale `DataPlayed` releases a request early (`BufferBounded` allows a segment for each) |
| ControlLoop, Plugin | `Control.cpp:324, 634`, 251 ff. | closed before the control thread's first statement, or with a request on its way (`controlNotPlaying`, `mpdNotPlaying`, `requestsDeleted`, `mutexDestroyed`) |
| Adaptation | `ControlLogicST.cpp:275` | `Bdelay` is not positive if a segment lasts as long as `Bhigh`, or if the conversion of the maximum wraps |
| Playback | `Control.cpp:693` | a segment of one byte is taken for a header |
| MpdParser | `model_parser.cpp` | conversions declared `throw()` throw; a comment inside a `BaseURL` splits its text and the last part counts; a document type named MPD is taken for the root |
| MpdWrapper | `ControlLogic.cpp:393` | the lowest resolution is never found, for the product of the two maxima wraps |
| MpdWrapper | `ControlLogic.cpp:416` | a size that no representation has ends the process (`notSupported`), options that are no size too (`badSize`) |
| Conversions | `conversions.cpp:158`, `Utilities.cpp:260` | milliseconds without leading zeros; "P1D" is rejected; a file without a directory is requested with two slashes |
| Conversions | `conversions.cpp:116` | a number of seconds whose product with 1000 falls short as a double loses its last millisecond |
| Measurements | `Statistics.cpp:309`, `TimeSeries.h:150` | a request that took no time has an infinite throughput; windows skipped in a gap are recorded at one time |
| RingBuffer | `RingBuffer.hpp:217, 289, 321` | a wrapped buffer that grows has a wrong last element; deleting and overwriting leak (the throughput model never removes, so it never wraps) |
| ThroughputModel | `ThroughputModel.cpp:229` | a single chunk on the boundary of a sample makes the search run beyond the history |
| ThroughputModel | `ThroughputModel.cpp:277` | a share of a chunk that should be an integer and is not one as a double: a byte counted twice, or never |
| Plugin | `Statistics.cpp:1002` | the first size of a segment to be traced ends the process (`sizesNotOpen`) |
| Plugin | `Statistics.cpp:509` | after a reconnection `Close()` looks a cleared connection up (`nullConnection`) |
| Plugin | `Statistics.cpp:625` | the client's thread records after `cleanUp` (`fileClosed`, `rootDirectory`; `statisticsInUse` when opened again) |
| Plugin | `OverlayAdapter.cpp:351` | a print that passed its test of the flag before `cleanup` (`overlayGone`) |
| Plugin | `SourceManager.cpp:46` | a host that cannot be resolved ends the process (`hostUnknown`) |
| Plugin | `HttpClientManager.cpp:26` | opened again, `create()` doubles a table of size 0 for ever (`control = "hung"`) |

`StreamIsDownloaded` allows the delayed request in front of an empty buffer (`Starved`), which
`loop_delay` shows to happen; it says that this is the only way, short of the end of the
process or a close, in which the stream stops.

## 5. The proofs

Checked by TLAPS, for every value of the constants that satisfies the assumptions of
`HttpClientAssumption`, `HttpHeaderAssumption`, `ControlLoopAssumption`, `PlaybackAssumption`,
`AdaptationAssumption`, `MeasurementsAssumption`, `TimeSeriesAssumption`, `RingBufferAssumption`,
`OverlayAssumption`, `TracesAssumption` and `PluginAssumption` (their types; of the answers, that they
are well-formed HTTP; of the levels, that they are values of the series; for the adaptation
`Bmin <= Blow < Bhigh` and rates in ascending order; for the plug-in the four threads that
record, of which the HTTP client's records the state of its connection and the sizes of segments
only and no two share a kind of file but the scalars, and room for one connection and one
request).

| Module | Theorem | Statement |
|---|---|---|
| `HttpClientProofs` | `TypeCorrect` | `Spec => []TypeOK` |
| | `EventfdCorrect` | `Spec => []EventfdCountsNewReqs`: neither read of the eventfd blocks or returns another number than asserted |
| | `AllRequestsAccountedFor` | `Spec => []EveryRequestAccountedFor`: accepted = completed, then handed back, then queued |
| | `Refinement` | `Spec => ImplementsFifo`: every step is one of `RequestFifo` or a stutter |
| | `SentFirst` | `Spec => []SentRequestsComeFirst`: no sent request stands behind an unsent one |
| | `ClientLimits` | `Spec => []ClientLimitsRespected`: what must not be pipelined is not, and no more requests are pending than the connection may have |
| | `OwnAnswers` | `NoneSentTwice => (Spec => []AnswersOwnRequest)`: an answer completes the request it belongs to |
| | `MismatchOnlyPipelined` | `NoneSentTwice => (Spec => []MismatchNeedsPipelining)`: the two signs of the last answer disagree only while further requests are outstanding or after the server closed early |
| | `LimitsKept` | `NeverBeyondLimit => (Spec => []LimitsRespected)`: what remains of the server's limit, what it has answered and what is on its way add up to the limit |
| `HttpHeaderProofs` | `AnswersAreCut` | `HttpSpec => [](HttpTypeOK /\ AnswersAreCutRight)`: wherever the reads cut the stream, each answer's header ends at its blank line and its body has the announced bytes |
| | `EndsExplained` | `HttpSpec => []EndsByAnswersOrShortRead`: the parsing ends the process only because of what the server said, or in the comparison of the last four characters when a read ended within the first line of an answer |
| `ControlLoopProofs` | `TypeCorrect` | `Spec => [](TypeOK /\ ActionsRemain)` |
| | `Refinement` | `~FetchHeads => (Spec => DownloadsInOrder)`: the player implements `OrderedDownload`, and the storage has no gap |
| | `SizesKnown` | `Spec => []SizesAreKnown`: with `fetchHeads`, the sizes are known before the first segment arrives, unless a connection is lost; whatever is lost, no size that is missing is forgotten: its segment is downloaded, or will be |
| `ControlFaultProofs` | `EndsRight` | `~FetchHeads /\ Limit >= 4 => (Spec => []OnlyLossOrCloseEndsTheProcess)`: no assertion of the control logic fails, and the control thread never waits for itself |
| | `OnePlace` | `~FetchHeads /\ Limit >= 4 => (Spec => []DownloadsInOnePlace)`: what the contour holds and is not stored is in the queue, an action or the delayed request, once |
| `AdaptationProofs` | `TypeCorrect` | `Spec => []TypeOK` |
| | `BufferIsBounded` | `Spec => []BufferBounded`: the buffer stays below `Bhigh` and a longest segment per representation, and one per early release |
| | `AssertionsNeverFail` | `Spec => []AssertionsHold` |
| | `QualityIsAffordable` | `FactorsBelowOne => (Spec => []QualityWasAffordable)` |
| `PlaybackProofs` | `CompletedStaysWhole` | `Spec => []CompletedSegmentsAreWhole`: what was completely downloaded stays readable, whatever is lost and downloaded again |
| | `StorageIsConsistent` | `Spec => [](RegionsAreSeparate /\ OccupiedHasArrived /\ WritesArePrepared)`: three of the six parts of `StorageIsSound` |
| | `StorageStaysSound` | `Spec => []StorageIsSound`: all of it; `occupiedSize` counts the bytes that are there, and VLC's thread is never resumed without data |
| | `GivenInOrder` | `Spec => []StreamIsGivenInOrder`: as long as no connection is lost, VLC is given the bytes of the stream once and in order |
| `PluginProofs` | `NoPrintIsLost` | `PluginSpec => []OverlayShowsLastPrint`: the last text of every line is in one of the buffers, and shown when the thread waits |
| | `UsersEndFirst` | `PluginSpec => []ComponentsOutliveTheirUsers`: `Close()` joins before it frees, except for what the HTTP client's thread uses |
| | `NoRequestIsLost` | `PluginSpec => []TracesAreComplete`: no request that Statistics knew is left out of the files |
| | `FaultsExplained` | `PluginSpec => []FaultsAreExplained`: the places where the player ends itself: in `Open()`, when the traces of the last session are open or the host is unknown; with the first segment size that is traced; in `Close()`, where it races with a thread. No other print, record or callback fails while it is open |
| `InputProofs` | `RingIsQueue` | `RingSpec => [](RingTypeOK /\ BufferIsQueue)`: for every capacity, growing or overwriting, the buffer holds the queue unless it was resized while wrapped |
| | `SeriesIsRight` | `LevelSpec => [](MeasureTypeOK /\ MinimaNeverFell)`: `isMinIncreasing` is true exactly if the minima of the finished windows never fell |

### HttpClientProofs

The inductive invariant `IInv` is the conjunction of `TypeOK`, `EventfdCountsNewReqs`,
`EveryRequestAccountedFor` and four facts the first three need:

- `BufferFilled`: in `process` there is something in the buffer. `ParseData` looks at
  its first unit.
- `BodyFitsHeader`: without a header no body has been counted, and with one at most its
  length. Otherwise the number of bytes still wanted could be negative, and with it the
  number parsed.
- `LimitsAgree`: with an unknown `keepAliveMax` the counter is -1, and otherwise a
  natural number, which `NumToStart` keeps: it counts no more requests than the
  counter has left.
- `HandedBackLast`: once something has been handed back, the client accepts no more and
  completes none, for its queues are empty. Without it the order
  completed, handed back, queued would not be preserved by a completion.

The proof has one lemma per action that touches the queues or the limits
(`NewRequestStep`, `ClearUnfinishedRequestsStep`, `CheckStartNewRequestsStep`,
`ProcessNewDataStep`, ...), one lemma for all that do not (`QuietStep`), and one for the failed
assertions. `PrefixIsInterval` carries the counting: the sent prefix of the queue and the
requests that may be started are initial segments, so their cardinality is their last
position. The refinement uses `IInv`: a completion is `Complete`, a splice is a
stutter because the concatenation of the two queues does not change.

### HttpClientProofs: the order of the requests

Requests are numbered as they are accepted. `QueueInv` adds to `IInv` that the queue holds
the numbers behind the settled ones (`Numbered`), that a sent request has been seen by
the thread (`SentSeen`), that among the requests not settled the sent ones come first
(`SentContiguous`), that one which must not be pipelined was sent from the front
(`UnpipelinedFirst`), and that no request was sent from behind the client's limit
(`WithinClientLimit`). Facts about positions in a queue that moves become facts about
numbers that do not: a completion raises `Settled` by one and leaves the marks alone, a
splice changes nothing, a requeue removes the marks above some number (`RequeueFacts`).

What arrives is then a stream of answers in the order of these numbers. `StreamInv` describes it
from where it is read, `Stream` being the buffer and behind it what can be received:

- `AnswerDue(p, q)`: at position `p` stands the header of the answer to `q`; or the stream ends before
  `p` and the server has answered everything before `q`; or it ends more than one position earlier, and
  the server is closing (it died within a body).
- `AnswerFrom(p, q)`: behind a header at `p` come the units of its body and, where it ends, the
  next answer. `StreamInOrder` says so of each header in the stream and of the request whose answer
  has been begun; `ParseFacts` derives that `ParseData` cuts the buffer at the end of a body or
  takes all of it, and `ShiftFrom`, that what is left is a stream again.
- `AnswersInOrder`: the requests complete in order, each with its own header.
- `WireInOrder`, `MarksAreRight`: the server reads the requests by number, and the marked requests are
  those that it has answered or will read, until the limit is used up.
- `RemainingIsRight`: the counter is the limit minus what is marked.

Most steps neither send nor receive. They are `Quiet`, and one lemma (`QuietOrNot`) leaves five steps
to look at. `BaseInv` holds what both invariants about the network need (`ServerFacts`: the server's limit
closes, a connection begins empty, nothing is in the buffer outside `process`).

The hypothesis `NoneSentTwice` is about `requeuePendingRequests`: on the first answer the client keeps as many
requests marked as the counter leaves, *plus one*, and unmarks the others, though they are on the wire; if
the counter is not 0 it sends them again, and the server answers them twice. That cannot happen if
at most half of the limit is sent ahead (`FewPending((ServerLimit + 1) \div 2)`, by the workload, by
the client's limit, or because nothing may be pipelined) or if the limit is at most 3. It is needed: with a
limit of 8 and 5 requests sent ahead, TLC finds the second answer to the fifth request
completing the sixth; with a limit of 4 and 3 requests, the assertion on the last
answer failing where `MismatchNeedsPipelining` does not allow it. The runs' constants satisfy it,
`http_pipelined` with 4 of 7 exactly.

`LimitsKept` does not need it, since the sum (`SumKept`) counts a request as often as it is sent. It
needs that the client has not exceeded the limit before it knows it (`NeverBeyondLimit`): the limit is known when the
connection is made, or no more requests are sent ahead than the server serves. Then the counter, which
is not negative, starts at the limit minus the number pending; `BeforeFirst` says that this number
is what has been sent, for until the first answer is processed nothing has completed and
every request that was sent is marked.

### HttpHeaderProofs

A sum of bytes says where the parser stands. `Pending` is what the request at the front has
received, the buffer and the socket, put together; `StreamOf(f, answers)` says that `f[k]` is the
bytes of the answers from the k-th on. `CutRight`, the invariant, is `Pending = f[c]` for the
answer `c` at the front, and

- `Received(request, answer)`: without a complete header the request has no body and less than
  the header; with one it has exactly the header, no more payload than the body has bytes, and the
  length it has read is the announced one or none (`LengthRight`);
- of the answers before, that their requests have received all of them;
- that the first complete header was that of the first answer, does not close the
  connection and has set the timeout, with which later ones are compared.

It holds only while no body begins like the second half of a blank line (`NoBlank`), which is the
hypothesis in `AnswersAreCutRight`; the counterexample without it is in section 4. Since `recv()` moves
bytes from the socket to the buffer and an answer is sent behind all others, neither changes
what is pending. `ProcessData` is the rest:

- `BlankAtTheEnd`: the header is line, CR, LF again and again and CR, LF (`HeaderShape`); of all places only
  the last four bytes are a blank line.
- `EndIsFound`: then the four tests of `parseData()` find that place, in the order in which the code tries
  them, wherever the last read ended; `HeaderTaken` concludes that the header part takes what is
  missing of the header or all of the buffer. The bytes behind a header begin with the body or with a line
  (`NoBlankBehind`), so that nothing behind it can be taken for its end.
- `HeaderIsRead`: the fold over the lines reads of each field what the line of that name says, if there is
  one. `FoldLeft` is a recursive function on the number of elements, and what it does at each step is
  given by an iteration (`FoldExists`, by induction as below).
- `RejectedCases`, `HeaderFaultCases`, `HeaderIsParsed`: what ends the process is in the lines, or is the
  difference of a timeout to the known one.
- `BodyTaken`: the body part takes what is missing of the body or all of the buffer.
- `FrontIsParsed` puts these together, `FrontIsThere` says that there is an answer for the bytes (otherwise nothing is
  pending), and `CutGoesOn` that the next answer is at the front when one is complete.

`ServerEndsIt` follows: each assertion that fails names something the server said. It needs `CutRight`,
for with a wrong cut every assertion of the parser could fail. The comparison that needs no assertion to
end the process (`ReadsBefore`) takes a header of fewer than four bytes in which no line has ended; by `CutRight` that
is the first line of the answer at the front, and its request had nothing before.

### ControlLoopProofs

The theorems hold for every length of the stream, every choice of `Bdelay` and any number of
lost connections. `OrderInv` is `TypeOK`, `ActionsRemain` (the inner loop over the actions
finds one) and `OrderParts`, in which `N` is the number of stored segments:

- `StoredInOrder`: the stored segments are the first `N`, and none is beyond the contour.
- `MissingInOnePlace`: what is missing up to the contour, `AreTheMissing`, is one sequence
  of GETs in ascending order, and is either the client's queue, or the single action, or the
  delayed request. This is why completing the first request of the queue extends the
  storage by the successor, and why a loss that moves the queue into an action
  (`ProcessDisconnect`) changes nothing.
- `ReceivedIsStored`: what a callback or an event reports is in the storage; before the
  contour exists it can only be the MPD, and then nothing else is requested. Hence a
  segment that is processed and extends the contour (`MaySetNext`) is its last one,
  everything has arrived, and the successor is requested once (`LastArrived`).
- `NothingRequested`: before the first event there is nothing.

`Refinement` assumes that the option `fetchHeads` is off. With it a lost connection restarts its
HEADs as GETs, and segments arrive in an order that `OrderedDownload` does not know.

`SizesKnown` is about that option. (Without it, sizes are announced by the answers alone, and the
property says nothing.) Without a loss, `SizesFirst` follows the beginning of a stream: the MPD is requested, answered and processed (`AwaitMpd`); the sizes are asked
for in one action and answered one by one while GETs may only stand behind them (`AwaitSize(h)`: the
sizes before `h` are known); then all are. A server with a limit of two requests uses up its
connection with the first size, and whatever is asked for afterwards comes back as the first answer
of a new connection, which the client refuses (`UsedUp`). In each of these phases nothing is downloaded,
so nothing can be read.

After any number of losses the sizes that are missing are requested, as HEADs or, restarted, as GETs.
`SizesKept` says so from the first segment that is downloaded: a segment whose size is not known is itself
downloaded, or its GET is in the queue or in an action. What it needs is where requests stand. `HeadsLead`: the
HEADs of a queue or an action come before its GETs, so that a GET is answered only when no HEAD waits; a
loss turns those that wait into GETs, in their places. `OnlyMpd`: before the MPD is processed, it is
the only thing requested. `Kept` is the invariant about one place, and `Keeping` that a step takes no
request from it without recording the answer; `ProcessDisconnect` moves the whole queue into an action
(`ConcatPlaces`), and the client accepts an action as a whole or ends the process. While the player is being closed
the property claims nothing.

### ControlFaultProofs

`FlowInv` adds to `OrderInv` what the assertions of the logic rely on:

- `EventsExpected`: an event of received data is for the last segment of the contour, or for
  segment 0 while the contour ends with 1, and is not acknowledged; the same of the callback. An event of
  a disconnect is for an old connection, or its client's thread is done. The last clause
  excludes the join that would wait for `Control::mutex`.
- `ReceivedInOrder`: two received contents wait for the logic at most, and they are 0 and 1 in
  this order. It is why nothing is delayed, queued or under way when the logic
  replaces a connection.
- `RequestsPending`: what is requested is not acknowledged.
- `OneMissing`: at most one segment is missing, but for 0 and 1 in the beginning; as long as nothing
  is stored the connection has served one request at most, the MPD.
- `ConnectionUsable`: without a loss, the client of the current connection accepts until its limit, and
  what is issued finds it.

`EndStep` then goes through the places that fail: `SegmentFaultFree` excludes those of
`ProcessSegment`, and each remaining one needs a loss or a player that does not play.
`Limit >= 4` is necessary: with 3 the MPD, 0 and 1 use the connection up, and the
answer of 0 finds the counter at 0 (`keepAlive`).

`OnePlace` adds that nothing is forgotten (`NothingForgotten`): what is not acknowledged is `UnderWay`, that is
requested, at the callback or in an event, and the last segment of the contour is one of these or
delayed. With `MissingInOnePlace` of `OrderInv`, which gives the sequence of what is missing and the one place
where it is, the rest is counting: a content is named in this sequence once, so the three places name it
once together.

### PlaybackProofs

`setData` is not monotone: a write from byte 0 over a longer region leaves only the new
bytes, since the right boundary is taken from the first byte of the last overlapping
region. So a completed segment stays whole only because nobody writes it again, and that
follows from what is requested. `IInv` says:

- `Fields`, `HoldsBeginning`: a field holds a first part of its object, in one region, which has
  arrived. `WriteLeavesOneRegion` is the lemma about `SetData`: a write from byte 0, or
  behind the region that is there, leaves one region that ends where the write does.
- `FrontGoesOn`: the answer at the front goes on where its field ends. A lost connection
  sends it back to byte 0, the other case of the lemma.
- `RequestsAreNew`, `ReportsAreDistinct`: with an empty contour only the MPD is requested or
  reported, and later only the init segment and the last segment of the contour
  (`Current`); each once, and what is in the queue is not complete. A report of the last
  segment extends the contour, after which `Current` names a segment that nobody has
  requested, and the other places hold the init segment at most.
- `CompletedInContour`, `MpdComesFirst`: nothing beyond the contour is complete, and the contour
  exists only after the MPD. `Whole` is the property.

`ReaderInv` is about VLC's thread, and about the rest of `StorageIsSound`:

- `Counted`: a field of which the first bytes are there counts them. `WriteCounts` computes the sum over
  the overlapping regions, which is over one region at most.
- `FirstDownloads`: as long as no connection is lost, a request that has received nothing is for an object of
  which nothing is there. Only a repeated download can take bytes away.
- `ReadingHasData`: as long as no connection is lost, VLC's thread, once signalled, finds data at the next position.
  A read that finds none sets the position back to the beginning, which `playback_restart` shows after
  a loss; this is why the property is about streams without one.
- `SizeAtCurPos`, `PreparedInContour`: the size of the segment VLC is in is known, and the contour names what
  is prepared, so that the position moves to the next segment exactly at the end of one.

`Offset` numbers the positions along the stream; `OffsetsAreDistinct` makes the position a read ends at
the only one with its number, which `LastOf` chooses. `Available` adds up what lies together,
segment after segment; `AvailableBytes` shows that the sum ends inside the stream, by induction along the contour
from its end, and that it is positive only where there is data, so that playback is never resumed without. Both it and `Before`, the lengths of the segments before one, are recursive functions.

### AdaptationProofs

`IInv` is `TypeOK`, `BufferBounded`, `AssertionsHold`, and:

- `OneUnderWay`, `OneEventUnderWay`: there is one request at a time, sent, arriving, in an event or
  delayed. The logic asserts that nothing is delayed when a segment arrives; this is why.
- `BoundedRequest`, `BoundedArrival`, `BoundedEvents`, `BoundedDelayed`: at each of these
  stations the level plus the segment is below the cap for the quality it was requested
  in. A request that is not delayed is one of a rising quality, so the cap rises by one
  segment with each representation; a delayed one is released below `Bdelay`, unless by an event
  that was computed earlier, which `early` counts.

`QualityIsAffordable` assumes in addition that no factor of the configuration is above one
(`FactorsBelowOne`; the code takes the factors from the configuration unchecked,
`ControlLogicST.cpp:88`), and strengthens the property to requests that are under way
(`AffordableUnderWay`).

### PluginProofs: the overlay

`NoPrintIsLost` is about `PluginSpec`, so with the plug-in opened and closed any number of times
and the traces in between. `OverlayInv` is `OverlayTypeOK` and, while the overlay is up:

- `NoPrintBeforeHandshake`: until the filter has answered, `print` returns at once, the buffers
  are empty and nothing is drawn. Without it the first swap could start from anything.
- `BufferIsDrawn`: `msgBuf1`, the thread's own buffer, is what the filter shows, except
  between a swap and the filter's answer, where the shared memory holds it.
- `LastPrintIsKept`: the last print of a line is in `msgBuf2` if the line is marked and in
  `msgBuf1` if it is not. This is what a swap that forgets a mark breaks.
- `WakeUpHasNews`: a thread that waits with a signal pending finds a marked line, which is
  the assertion after the wait.

and, always, that what a thread is about to print is a text for a line (`PrintsAreTexts`) and that
a command is on its way only to a filter whose answer is awaited (`CommandIsAwaited`). The other
steps of `Plugin` leave the overlay's variables alone, or open it afresh.

### PluginProofs: closing

`LifeInv` says where each thread may be at each step of `Close()`:

- `StateFollowsMain`: the state of Control is Playing until `Terminate`, and once it is Dead the
  control thread has been joined and the events are gone.
- `EndedThreadsAreIdle`: a thread that has ended is in no record and no print. VLC's and Control's leave
  theirs before they end; the client's does so before its destructor's join returns.
- `TracesStayGone`: without a directory nothing is recorded any more, but for a record the client's thread
  began before; it may create the file of a connection behind the back of `cleanUp`. This
  is the exception in the property, and what the next `Open()` finds.
- `OverlayStaysGone`, `ConnectionsAreKept`: the overlay's thread ends before the buffers are freed; the sockets
  are those of the entries that are not null, and the last entry is the current one.

`NothingLost` is the invariant behind `NoRequestIsLost`: while the statistics are written, a
request known when `Close()` began is in a file, or listed for a connection that is still to
come. A list only grows until the traces are cleaned (`ListsGrow`), and the loop ends when no
listed connection is left.

`FaultInv` is what excludes the faults outside of `Close()`:

- `FilesAreKept`: a record finds the state of its file as it left it, since no two threads write to the same
  kind but to the file of scalars, which is open from the start; a file that is created and not open
  belongs to a connection that was replaced, or `logDir` is gone.
- `RequestsAreListed`: completed requests are listed for existing connections, the last of which is there
  whenever the control thread uses it, and a client that completes a request of a player that plays has a
  table to find it in.
- `PrintsAreKept`: a print that has begun finds the overlay, unless the client's thread is in it and Control is
  dead.

Each fault is then an action of its own in the proof, at the places the property lists. The sizes of the segments
are recorded by the client's thread alone, so their fault is its record (`FaultsExplainedStep`).

### InputProofs

`RingInv` relates the buffer to the queue it should be: `Holds(r, q)` says that the place `Place(r, n)`, which
wraps at the end of the memory, holds the element `n + 1` of `q`, and that the size is the length. Each
operation has a lemma that says so (`AppendHolds`, `OverwriteHolds`, `RemoveHolds`, `ReserveHolds`,
`CopiedHolds`). Growing copies the memory as it is, so it keeps the queue only if the buffer begins at the
front; `WrapsByRemoving` says that a buffer that may grow does begin there until something is removed. A
buffer that was resized while wrapped is excluded by the property (`ResizedWrapped`), and section 4 names
the fault.

`LevelInv` relates the series to the levels that were pushed (`Tracks`): while the minima have not fallen,
it knows the current window, its minimum, and the largest of the minima before (`RiseTo`); afterwards, that
they have fallen (`HaveFallen`), which stays true because a finished window gets no more levels. Windows in
which nothing was pushed have no minimum, and the property compares those that have. The theorem is about
`LevelSpec`, the part of `Measurements` that keeps the series.

### Induction over numbers

The library's induction theorems take an operator as a parameter. Where a proof needs induction over numbers it
takes the least element of a set of counterexamples instead (`LeastElement`, from
`NatLessThanWellFounded`), or shows that a set contains 0 and successors (`AllNumbers`). So the recursive
functions of `Playback` and the folds of `HttpHeader` can be reasoned about.

### What stays with TLC

Liveness under fairness, and with it every property with `~>`, since the prover has no
rules for ENABLED. Of the safety properties: those of the parsers and conversions (`ParserFollowsReader`,
`ModelIsDocument`, `RatesMatchTheResolution`, `SegmentsTileTheVideo`, `ConversionsAreRight`), of
the measured rates (`MeasuredRatesAreRight`) and of the throughput model's samples (`SamplesAreRight`). They compare
what nested recursive functions and folds compute with a definition over trees, tables or sums; for them each
operator would need an induction of its own, and the runs check them on every small input.
`InputTypeOK` is checked as one; its parts `HttpTypeOK`, `MeasureTypeOK` and `RingTypeOK` are proved.
(No module declares a RECURSIVE operator.)

## 6. What is left out

- The meaning of a header's text beyond the lines of which the parser knows (a line is one byte).
- In `ControlLoop`, parts of segments: VLC reads whole segments, at least one per call.
  `Playback` has the bytes, with one representation; sizes differ between
  representations in the code, and the contour names one per segment.
- VLC is not inside a read when it closes the plug-in (VLC joins its reading thread first).
- `Control`'s uninitialised select timeout, the growth of the request table
  (more than 1024 requests), pausing by the configuration (compiled out).
- Sockets beyond connect, readable, end of stream; `connect` retries are one step that
  succeeds or times out; TCP info that is logged.
- VLC's queries of the plug-in, of which unknown ones end the process
  (`dashp2p.cpp:400`), and seeking, which asserts.
- Documents that are not well-formed (VLC's reader ends the process); the classes of the MPD
  no parser of the player creates.
- A filter that ends, spurious wake-ups of the overlay's wait (which fail an assertion, line 276).
- Formats of traces, logs and messages; `DebugAdapter`, whose assertion is every
  module's `fault`.
- `deprecated/`, which is not compiled, but for the ring buffer and the throughput model; there,
  the underrun probability, a convolution of floating-point histograms.

## 7. Plan

Done: every component with state of its own has a module; the HTTP client and its parsing of answers, the
control loop, the way of the bytes, the adaptation, the overlay, the closing of the plug-in, the ring buffer and
the time series have proofs.

Next, in this order:

1. `MeasuredRatesAreRight`: the shares of the requests, as sums over intervals.
2. `ParserFollowsReader`, with the reader's stack as the inductive invariant of the handlers.
3. Seeking and pausing, when the code supports them.
