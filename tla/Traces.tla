------------------------------- MODULE Traces -------------------------------
(***************************************************************************)
(* Statistics: the traces that several threads record into files.  A file  *)
(* is created by the first record for it; nothing here is locked.          *)
(*                                                                         *)
(* A file is a kind of trace, or a pair <<"tcp", connection>>; its path     *)
(* holds the reference time of the session, and creating it fails if it    *)
(* exists.                                                                 *)
(***************************************************************************)
EXTENDS Integers, Sequences, FiniteSets

CONSTANTS
  Recorders,   \* the threads that record
  KindsOf,     \* the kinds of traces that a thread records
  Flags,       \* the kinds for which Open sets the flag, possibly with "tcp"
  MaxConn,     \* bound: TCP connections
  MaxRequests  \* bound: requests

VARIABLES
  logDir,        \* whether logDir, and with it the flags, are set
  files,         \* the open files
  created,       \* the files that exist
  recording,     \* per thread: the file its record is for, and whether it is open
  httpRequests,  \* per connection: the completed requests given to Statistics
  written,       \* per connection: the requests in its statistics file
  connVec        \* TcpConnectionManager: per connection "alive" or "null"

traceVars == <<logDir, files, created, recording, httpRequests, written>>

Conn == 1..MaxConn
Kinds == {"scalar", "adaptation", "given", "bytes", "usec", "underrun", "sizes"}
TcpState(c) == <<"tcp", c>>
FilesOf(kind) == IF kind = "tcp" THEN {TcpState(c) : c \in Conn} ELSE {<<kind>>}
AllFiles == UNION {FilesOf(k) : k \in Kinds \cup {"tcp"}}
NoRecord == [file |-> <<>>, open |-> FALSE]

ASSUME TracesAssumption ==
  /\ KindsOf \in [Recorders -> SUBSET (Kinds \cup {"tcp"})] /\ Flags \subseteq Kinds \cup {"tcp"}
  /\ MaxConn \in Nat /\ MaxRequests \in Nat

TracesAbsent ==
  /\ logDir = FALSE /\ files = {} /\ created = {}
  /\ recording = [t \in Recorders |-> NoRecord]
  /\ httpRequests = [c \in Conn |-> <<>>] /\ written = [c \in Conn |-> {}]
  /\ connVec = <<>>

\* Mutant: the reference time is not recorded.
TracesInitOnly(dir) ==
  /\ logDir' = dir
  /\ created' = {} /\ written' = [c \in Conn |-> {}]
  /\ UNCHANGED <<files, recording, httpRequests>>

\* init(): without a directory nothing is traced; with one, nothing may be left
\* of the last session.  Control::init() records the reference time before any
\* other thread is started, which creates the file of the scalars.
TracesInit(dir) ==
  /\ logDir' = dir
  /\ files' = IF dir /\ "scalar" \in Flags THEN files \cup {<<"scalar">>} ELSE files
  /\ created' = IF dir /\ "scalar" \in Flags THEN {<<"scalar">>} ELSE {}
  /\ written' = [c \in Conn |-> {}]
  /\ UNCHANGED <<recording, httpRequests>>

InitFails(dir) == dir /\ (logDir \/ files # {} \/ \E c \in Conn : httpRequests[c] # <<>>)

-----------------------------------------------------------------------------
(* One record, in three steps *)

\* record...(): it returns without a directory or the flag.
StartRecord(t, file) ==
  /\ recording[t] = NoRecord
  /\ logDir /\ file[1] \in Flags
  /\ recording' = [recording EXCEPT ![t] = [file |-> file, open |-> file \in files]]
  /\ UNCHANGED <<logDir, files, created, httpRequests, written>>

\* The file of the sizes is not open: prepareFileSegmentSizes(), which would open it,
\* asserts that it is.
PrepareSizesFails(t) == recording[t].file = <<"sizes">> /\ ~recording[t].open

\* Any other file is not open: prepareFile...().
MustPrepare(t) ==
  recording[t] # NoRecord /\ ~recording[t].open /\ recording[t].file # <<"sizes">>

\* The assertion that it is not open, or the creation, fails when another thread was
\* faster.
PrepareFails(t) == MustPrepare(t) /\ recording[t].file \in created

\* With logDir erased meanwhile the path is in the root directory, where the file
\* may be created or not.
PrepareMayFail(t) == MustPrepare(t) /\ ~logDir

PrepareFile(t) ==
  /\ MustPrepare(t) /\ recording[t].file \notin created
  /\ files' = files \cup {recording[t].file}
  /\ created' = created \cup {recording[t].file}
  /\ recording' = [recording EXCEPT ![t].open = TRUE]
  /\ UNCHANGED <<logDir, httpRequests, written>>

\* The file pointer is null, or the table has no entry, or the file is closed.
WriteFails(t) == recording[t].open /\ recording[t].file \notin files

Write(t) ==
  /\ recording[t].open /\ recording[t].file \in files
  /\ recording' = [recording EXCEPT ![t] = NoRecord]
  /\ UNCHANGED <<logDir, files, created, httpRequests, written>>

-----------------------------------------------------------------------------
(* Requests *)

\* recordRequestStatistics().
RecordRequest(c, req) ==
  /\ httpRequests' = [httpRequests EXCEPT ![c] = Append(@, req)]
  /\ UNCHANGED <<logDir, files, created, recording, written>>

\* The connections whose requests outputStatistics() writes, in this order.
ToWrite == {c \in Conn : logDir /\ httpRequests[c] # <<>> /\ written[c] = {}}
NextToWrite == {c \in ToWrite : \A d \in ToWrite : c <= d}

\* The host name of the connection is written with each of its requests.
OutputFails == \E c \in NextToWrite : connVec[c] = "null"

\* outputStatistics() for one connection: the requests that are listed now.
OutputRequests ==
  /\ \E c \in NextToWrite :
       /\ connVec[c] = "alive"
       /\ written' = [written EXCEPT ![c] = {httpRequests[c][i] : i \in DOMAIN httpRequests[c]}]
  /\ UNCHANGED <<logDir, files, created, recording, httpRequests>>

-----------------------------------------------------------------------------
(* The end *)

\* Mutant: the files of other connections are forgotten too.
UnregisterAll(c) ==
  /\ files' = files \ {TcpState(d) : d \in Conn}
  /\ httpRequests' = [httpRequests EXCEPT ![c] = <<>>]
  /\ UNCHANGED <<logDir, created, recording, written>>

\* disconnect() of a connection: its file is closed and forgotten.
UnregisterTcpConnection(c) ==
  /\ files' = files \ {TcpState(c)}
  /\ UNCHANGED <<logDir, created, recording, httpRequests, written>>

\* cleanUp() erases the directory, the requests and the flags ...
EraseLogDir ==
  /\ logDir' = FALSE
  /\ httpRequests' = [c \in Conn |-> <<>>]
  /\ UNCHANGED <<files, created, recording, written>>

\* ... and closes the files.
CloseFiles ==
  /\ files' = {}
  /\ UNCHANGED <<logDir, created, recording, httpRequests, written>>

-----------------------------------------------------------------------------
TracesTypeOK ==
  /\ logDir \in BOOLEAN
  /\ files \subseteq AllFiles /\ created \subseteq AllFiles
  /\ recording \in [Recorders -> [file : AllFiles \cup {<<>>}, open : BOOLEAN]]
  /\ httpRequests \in [Conn -> Seq(1..MaxRequests)]
  /\ written \in [Conn -> SUBSET (1..MaxRequests)]
  /\ connVec \in Seq({"alive", "null"}) /\ Len(connVec) <= MaxConn
=============================================================================
