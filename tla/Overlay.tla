------------------------------ MODULE Overlay ------------------------------
(***************************************************************************)
(* OverlayAdapter: its thread takes the lines that other threads print and *)
(* hands them, through two named pipes and a shared memory, to VLC's       *)
(* dynamicoverlay filter.                                                  *)
(*                                                                         *)
(* The critical sections under OverlayAdapter::mutex are single steps; the *)
(* tests of the flags before them are not under the mutex and are steps of *)
(* their own.  The filter is external: it opens the pipes when it likes    *)
(* and acknowledges every command.                                         *)
(***************************************************************************)
EXTENDS Integers, FiniteSets

CONSTANTS
  Lines,       \* the lines of the overlay
  Texts,       \* what may be printed; 0 stands for the initial "|"
  Printers,    \* the threads that print
  LinesOf,     \* the lines that a thread prints
  MaxPrints    \* bound: prints of one session

ASSUME OverlayAssumption ==
  /\ Lines # {} /\ 0 \in Texts /\ Texts \subseteq Nat
  /\ LinesOf \in [Printers -> SUBSET Lines]
  /\ MaxPrints \in Nat

VARIABLES
  overlay,             \* the object: "absent", "up", "freed"
  ovThread,            \* where mainThread() is
  initialized, terminating,
  msgBuf1, msgBuf2, dirty,
  signalled,           \* condVar was signalled while the thread waits
  shm,                 \* the shared memory
  filterOpen,          \* the filter has opened the pipes
  command, ack,        \* what is on its way in the pipes
  shown,               \* what the filter shows
  printing,            \* per printer: what it is about to print
  printed, prints      \* history: the last print of each line, their number

overlayVars == <<overlay, ovThread, initialized, terminating, msgBuf1, msgBuf2, dirty,
                 signalled, shm, filterOpen, command, ack, shown, printing,
                 printed, prints>>
buffers == <<msgBuf1, msgBuf2, dirty, signalled, printing, printed, prints>>
filter == <<filterOpen, shown>>
flags == <<overlay, initialized, terminating>>

Blank == [l \in Lines |-> 0]
Nothing == [line |-> 0, text |-> -1]
NoLine == [l \in Lines |-> FALSE]
SomeLineDirty == \E l \in Lines : dirty[l]

\* Before Open: static initialisers.
OverlayAbsent ==
  /\ overlay = "absent" /\ ovThread = "none"
  /\ initialized = FALSE /\ terminating = FALSE
  /\ msgBuf1 = Blank /\ msgBuf2 = Blank /\ dirty = NoLine /\ signalled = FALSE
  /\ shm = [l \in Lines |-> -1] /\ filterOpen = FALSE /\ command = "none" /\ ack = FALSE
  /\ shown = [l \in Lines |-> -1]
  /\ printing = [t \in Printers |-> Nothing] /\ printed = Blank /\ prints = 0

\* init(): the pipes are made if they are missing, the thread is started.
OverlayInit ==
  /\ overlay' = "up" /\ ovThread' = "starting"
  /\ initialized' = FALSE /\ terminating' = FALSE
  /\ msgBuf1' = Blank /\ msgBuf2' = Blank /\ dirty' = NoLine /\ signalled' = FALSE
  /\ shm' = [l \in Lines |-> -1] /\ command' = "none" /\ ack' = FALSE
  /\ printing' = [t \in Printers |-> Nothing] /\ printed' = Blank /\ prints' = 0
  /\ UNCHANGED filter

-----------------------------------------------------------------------------
(* The filter *)

FilterOpens ==
  /\ overlay = "up" /\ ~filterOpen
  /\ filterOpen' = TRUE
  /\ UNCHANGED <<flags, ovThread, buffers, shm, command, ack, shown>>

FilterAnswers ==
  /\ filterOpen /\ command # "none" /\ ~ack
  /\ ack' = TRUE
  /\ shown' = CASE command = "GenImage" -> [l \in Lines |-> -1]
                [] command = "DataSharedMem" -> shm
                [] OTHER -> shown
  /\ UNCHANGED <<flags, ovThread, buffers, shm, filterOpen, command>>

-----------------------------------------------------------------------------
(* The thread *)

\* It opens the pipes, which blocks until the filter opens them too, unless
\* cleanup() was faster.
EnterThread ==
  /\ ovThread = "starting"
  /\ ovThread' = IF terminating THEN "done" ELSE "opening"
  /\ UNCHANGED <<flags, buffers, filter, shm, command, ack>>

Request(cmd) == command' = cmd /\ ack' = FALSE

OpenPipes ==
  /\ ovThread = "opening" /\ filterOpen
  /\ IF terminating
     THEN ovThread' = "done" /\ UNCHANGED <<command, ack>>
     ELSE ovThread' = "handshake" /\ Request("GenImage")
  /\ UNCHANGED <<flags, buffers, filter, shm>>

\* The command that follows in the handshake.
NextCommand ==
  [GenImage |-> "DataSharedMem", DataSharedMem |-> "GetTextSize",
   GetTextSize |-> "SetVisibility", SetVisibility |-> "none"]

\* The acknowledgement has been read.  After the handshake the mutex and the
\* condition variable exist, and others may print.
ReadAck ==
  /\ command # "none" /\ ack
  /\ CASE ovThread = "handshake" ->
            /\ Request(NextCommand[command])
            /\ initialized' = (command = "SetVisibility")
            /\ ovThread' = IF command = "SetVisibility" THEN "loop" ELSE "handshake"
       [] ovThread = "sending" ->
            Request("none") /\ ovThread' = "loop" /\ UNCHANGED initialized
       [] ovThread = "deleting" ->
            Request("none") /\ ovThread' = "done" /\ UNCHANGED initialized
  /\ UNCHANGED <<overlay, terminating, buffers, filter, shm>>


\* The lines whose two buffers change places.
Swapped == dirty

\* What was printed changes places with what is shown.
SwapBuffers ==
  /\ msgBuf1' = [l \in Lines |-> IF Swapped[l] THEN msgBuf2[l] ELSE msgBuf1[l]]
  /\ msgBuf2' = [l \in Lines |-> IF Swapped[l] THEN msgBuf1[l] ELSE msgBuf2[l]]
  /\ dirty' = NoLine
  /\ ovThread' = "swapped"
  /\ UNCHANGED <<signalled, printing, printed, prints>>

Delete == Request("DeleteImage") /\ ovThread' = "deleting"

\* The top of the loop: without news the thread waits for a second at most.
LoopTop ==
  /\ ovThread = "loop"
  /\ IF terminating THEN Delete /\ UNCHANGED buffers
     ELSE /\ UNCHANGED <<command, ack>>
          /\ IF SomeLineDirty THEN SwapBuffers
             ELSE /\ ovThread' = "waiting" /\ signalled' = FALSE
                  /\ UNCHANGED <<msgBuf1, msgBuf2, dirty, printing, printed, prints>>
  /\ UNCHANGED <<flags, filter, shm>>

\* Mutant: a wait that times out ends the thread.
WakeOnce ==
  /\ ovThread = "waiting"
  /\ IF terminating \/ ~signalled THEN ovThread' = "done" /\ UNCHANGED buffers
     ELSE SwapBuffers
  /\ UNCHANGED <<flags, filter, shm, command, ack>>

\* Mutant: the thread does not look at the flag after a wait.
WakeAgain ==
  /\ ovThread = "waiting"
  /\ ovThread' = IF signalled THEN "waiting" ELSE "loop"
  /\ UNCHANGED <<flags, buffers, filter, shm, command, ack>>

\* It is woken by a print, or the wait times out.  A terminated wait returns
\* without deleting the image.
Wake ==
  /\ ovThread = "waiting"
  /\ IF terminating THEN ovThread' = "done" /\ UNCHANGED buffers
     ELSE IF signalled THEN SwapBuffers
     ELSE ovThread' = "loop" /\ UNCHANGED buffers
  /\ UNCHANGED <<flags, filter, shm, command, ack>>

\* msgBuf1 is read without the mutex: only this thread changes it.
SendLines ==
  /\ ovThread = "swapped"
  /\ IF terminating THEN Delete /\ UNCHANGED shm
     ELSE Request("DataSharedMem") /\ ovThread' = "sending" /\ shm' = msgBuf1
  /\ UNCHANGED <<flags, buffers, filter>>

OverlayThread ==
  \/ EnterThread
  \/ OpenPipes
  \/ ReadAck
  \/ LoopTop
  \/ Wake
  \/ SendLines

-----------------------------------------------------------------------------
(* The printing threads *)

\* print(): the flags are tested before the mutex is locked.
PrintEntry(t, l, text) ==
  /\ prints < MaxPrints /\ printing[t] = Nothing
  /\ l \in LinesOf[t]
  /\ initialized /\ ~terminating
  /\ printing' = [printing EXCEPT ![t] = [line |-> l, text |-> text]]
  /\ prints' = prints + 1
  /\ UNCHANGED <<flags, ovThread, filter, shm, command, ack, msgBuf1, msgBuf2, dirty,
                 signalled, printed>>

\* Mutant: the mark is cleared when the line was swapped last with this text.
NewsOnly(l, text) == msgBuf1[l] # text

\* A line is marked when its text differs from what is shown, and stays marked.
Marked(l, text) == dirty[l] \/ msgBuf1[l] # text

\* The rest, under the mutex, while the overlay exists.
PrintLine(t) ==
  /\ printing[t] # Nothing
  /\ LET l == printing[t].line
         text == printing[t].text
     IN  /\ msgBuf2' = [msgBuf2 EXCEPT ![l] = text]
         /\ dirty' = [dirty EXCEPT ![l] = Marked(l, text)]
         /\ signalled' = (signalled \/ msgBuf1[l] # text)
         /\ printed' = [printed EXCEPT ![l] = text]
  /\ printing' = [printing EXCEPT ![t] = Nothing]
  /\ UNCHANGED <<flags, ovThread, filter, shm, command, ack, msgBuf1, prints>>

-----------------------------------------------------------------------------
(* The end *)

\* cleanup() sets the flag without the mutex, and joins the thread.
OverlayTerminate ==
  /\ terminating' = TRUE
  /\ UNCHANGED <<overlay, initialized, ovThread, buffers, filter, shm, command, ack>>

\* The pipes are closed, also for the filter; the mutex, the condition variable
\* and the buffers are gone.  The names of the pipes are cleared before they are used to delete them.
OverlayFree ==
  /\ ovThread = "done"
  /\ overlay' = "freed" /\ initialized' = FALSE /\ ovThread' = "none"
  /\ filterOpen' = FALSE
  /\ UNCHANGED <<terminating, buffers, shm, shown, command, ack>>

-----------------------------------------------------------------------------
(* Properties *)

OverlayTypeOK ==
  /\ overlay \in {"absent", "up", "freed"}
  /\ ovThread \in {"none", "starting", "opening", "handshake", "loop", "waiting", "swapped",
                   "sending", "deleting", "done"}
  /\ initialized \in BOOLEAN /\ terminating \in BOOLEAN
  /\ msgBuf1 \in [Lines -> Texts] /\ msgBuf2 \in [Lines -> Texts]
  /\ dirty \in [Lines -> BOOLEAN] /\ signalled \in BOOLEAN
  /\ shm \in [Lines -> Texts \cup {-1}] /\ shown \in [Lines -> Texts \cup {-1}]
  /\ filterOpen \in BOOLEAN /\ ack \in BOOLEAN
  /\ command \in {"none", "DeleteImage"} \cup DOMAIN NextCommand
  /\ printing \in [Printers -> [line : Lines \cup {0}, text : Texts \cup {-1}]]
  /\ printed \in [Lines -> Texts] /\ prints \in 0..MaxPrints

\* A line shows what was printed last, or nothing yet of the initial "|".
Shows(l) == shown[l] = printed[l] \/ (shown[l] = -1 /\ printed[l] = 0)

\* No print gets lost between the two buffers, however prints, swaps and the
\* filter interleave: the last print of a line waits in msgBuf2 as long as the
\* line is marked and is in msgBuf1 otherwise; when the thread waits the filter
\* shows it.  And a wake-up by a print always finds a marked line.
OverlayShowsLastPrint ==
  overlay = "up" =>
    /\ \A l \in Lines : printed[l] = IF dirty[l] THEN msgBuf2[l] ELSE msgBuf1[l]
    /\ ovThread = "waiting" => \A l \in Lines : ~dirty[l] => Shows(l)
    /\ ovThread = "waiting" /\ signalled => SomeLineDirty
=============================================================================
