---------------------------- MODULE PluginProofs ----------------------------
(***************************************************************************)
(* Proofs about the plug-in, for any number of openings, connections,      *)
(* requests, prints and records.  First that the overlay loses no print,   *)
(* for any number of lines, texts and printing threads; then that Close()  *)
(* takes nothing away from a thread that runs, but from that of the HTTP   *)
(* client, and that this is all that ever ends the process.                *)
(***************************************************************************)
EXTENDS Plugin, SequenceTheorems, TLAPS

-----------------------------------------------------------------------------
(* The overlay *)

\* Nothing is drawn yet.
Undrawn == [l \in Lines |-> -1]

\* What a thread is about to print is a text for a line.
PrintsAreTexts ==
  \A t \in Printers :
    printing[t] # Nothing => printing[t].line \in Lines /\ printing[t].text \in Texts

\* A command is on its way only while the thread waits for its answer.
CommandIsAwaited ==
  /\ ovThread \notin {"handshake", "sending", "deleting"} => command = "none"
  /\ ovThread = "handshake" => command \in DOMAIN NextCommand
  /\ ovThread = "sending" => command = "DataSharedMem"

\* Until the handshake is over nobody prints, and nothing is drawn once the
\* filter has made the image.
NoPrintBeforeHandshake ==
  /\ ~initialized =>
       /\ ovThread \in {"starting", "opening", "handshake", "done"}
       /\ msgBuf1 = Blank /\ dirty = NoLine /\ printed = Blank /\ shm = Undrawn
       /\ \A t \in Printers : printing[t] = Nothing
  /\ ovThread \in {"starting", "opening", "handshake"} => ~initialized
  /\ ovThread = "handshake" /\ (command # "GenImage" \/ ack) => shown = Undrawn

\* The line is drawn as it is in msgBuf1, or not at all while that is initial.
Drawn(l) == shown[l] = msgBuf1[l] \/ (shown[l] = -1 /\ msgBuf1[l] = 0)

\* msgBuf1 is drawn whenever the thread is not between a swap and its answer.
BufferIsDrawn ==
  /\ ovThread \in {"loop", "waiting"} => \A l \in Lines : Drawn(l)
  /\ ovThread = "sending" => shm = msgBuf1 /\ (ack => shown = msgBuf1)

\* The last print of a line is in the buffer its mark tells.
LastPrintIsKept ==
  \A l \in Lines : printed[l] = IF dirty[l] THEN msgBuf2[l] ELSE msgBuf1[l]

WakeUpHasNews == ovThread = "waiting" /\ signalled => SomeLineDirty

OverlayInv ==
  /\ OverlayTypeOK
  /\ PrintsAreTexts
  /\ CommandIsAwaited
  /\ overlay = "up" =>
       /\ NoPrintBeforeHandshake
       /\ BufferIsDrawn
       /\ LastPrintIsKept
       /\ WakeUpHasNews

\* The invariant contains what is claimed.
LEMMA InvImpliesShown == OverlayInv => OverlayShowsLastPrint
<1> SUFFICES ASSUME OverlayInv, overlay = "up"
             PROVE  /\ LastPrintIsKept
                    /\ ovThread = "waiting" => \A l \in Lines : ~dirty[l] => Shows(l)
                    /\ ovThread = "waiting" /\ signalled => SomeLineDirty
  BY DEF OverlayShowsLastPrint, LastPrintIsKept
<1>1. LastPrintIsKept /\ WakeUpHasNews /\ BufferIsDrawn
  BY DEF OverlayInv
<1>2. ASSUME ovThread = "waiting", NEW l \in Lines, ~dirty[l] PROVE Shows(l)
  BY <1>1, <1>2 DEF LastPrintIsKept, BufferIsDrawn, Drawn, Shows
<1> QED
  BY <1>1, <1>2 DEF WakeUpHasNews
-----------------------------------------------------------------------------
(* Every operation of the overlay keeps the invariant *)

\* The values everything starts with.
LEMMA InitialValues ==
  /\ Blank \in [Lines -> Texts]
  /\ NoLine \in [Lines -> BOOLEAN]
  /\ Undrawn \in [Lines -> Texts \cup {-1}]
  /\ [t \in Printers |-> Nothing]
       \in [Printers -> [line : Lines \cup {0}, text : Texts \cup {-1}]]
  /\ 0 \in 0..MaxPrints
<1>1. 0 \in Texts /\ MaxPrints \in Nat
  BY OverlayAssumption
<1>2. Nothing \in [line : Lines \cup {0}, text : Texts \cup {-1}]
  BY DEF Nothing
<1> QED
  BY <1>1, <1>2 DEF Blank, NoLine, Undrawn

LEMMA AbsentInv == OverlayAbsent => OverlayInv
<1> SUFFICES ASSUME OverlayAbsent PROVE OverlayInv
  OBVIOUS
<1>1. OverlayTypeOK
  BY InitialValues DEF OverlayAbsent, OverlayTypeOK, Undrawn
<1> QED
  BY <1>1 DEF OverlayAbsent, OverlayInv, PrintsAreTexts, CommandIsAwaited

LEMMA InitKeeps == OverlayInv /\ OverlayInit => OverlayInv'
<1> SUFFICES ASSUME OverlayInv, OverlayInit PROVE OverlayInv'
  OBVIOUS
<1>1. OverlayTypeOK'
  BY InitialValues DEF OverlayInv, OverlayInit, OverlayTypeOK, Undrawn, filter
<1>2. PrintsAreTexts' /\ CommandIsAwaited'
  BY DEF OverlayInit, PrintsAreTexts, CommandIsAwaited
<1>3. NoPrintBeforeHandshake' /\ BufferIsDrawn' /\ WakeUpHasNews'
  BY DEF OverlayInit, NoPrintBeforeHandshake, BufferIsDrawn, WakeUpHasNews, Undrawn
<1>4. LastPrintIsKept'
  BY DEF OverlayInit, LastPrintIsKept, Blank, NoLine
<1> QED
  BY <1>1, <1>2, <1>3, <1>4 DEF OverlayInv

LEMMA FilterKeeps == OverlayInv /\ (FilterOpens \/ FilterAnswers) => OverlayInv'
<1> SUFFICES ASSUME OverlayInv, FilterOpens \/ FilterAnswers PROVE OverlayInv'
  OBVIOUS
<1>1. CASE FilterOpens
  <2>1. OverlayTypeOK'
    BY <1>1 DEF FilterOpens, OverlayInv, OverlayTypeOK, flags, buffers
  <2> QED
    BY <1>1, <2>1 DEF FilterOpens, flags, buffers, OverlayInv, PrintsAreTexts,
       CommandIsAwaited, NoPrintBeforeHandshake, BufferIsDrawn, Drawn, LastPrintIsKept,
       WakeUpHasNews, SomeLineDirty
<1>2. CASE FilterAnswers
  <2>1. /\ command # "none" /\ ~ack /\ ack' = TRUE
        /\ shown' = CASE command = "GenImage" -> Undrawn
                      [] command = "DataSharedMem" -> shm
                      [] OTHER -> shown
        /\ UNCHANGED <<flags, ovThread, buffers, shm, filterOpen, command>>
    BY <1>2 DEF FilterAnswers, Undrawn
  <2>2. OverlayTypeOK'
    <3>1. shown' \in [Lines -> Texts \cup {-1}]
      BY <2>1 DEF Undrawn, OverlayInv, OverlayTypeOK
    <3> QED
      BY <2>1, <3>1 DEF OverlayInv, OverlayTypeOK, flags, buffers
  <2>3. PrintsAreTexts' /\ CommandIsAwaited'
    BY <2>1 DEF OverlayInv, PrintsAreTexts, CommandIsAwaited, buffers
  <2>4. ASSUME overlay' = "up"
        PROVE  NoPrintBeforeHandshake' /\ BufferIsDrawn' /\ LastPrintIsKept' /\ WakeUpHasNews'
    <3>1. overlay = "up"
      BY <2>1, <2>4 DEF flags
    <3>2. NoPrintBeforeHandshake'
      <4>1. ASSUME ovThread = "handshake" PROVE shown' = Undrawn
        BY <2>1, <3>1, <4>1 DEF OverlayInv, NoPrintBeforeHandshake
      <4> QED
        BY <2>1, <3>1, <4>1 DEF OverlayInv, NoPrintBeforeHandshake, flags, buffers
    <3>3. BufferIsDrawn'
      <4>1. ovThread \notin {"loop", "waiting"}
        BY <2>1 DEF OverlayInv, CommandIsAwaited
      <4>2. ASSUME ovThread = "sending" PROVE shown' = msgBuf1 /\ shm = msgBuf1
        BY <2>1, <3>1, <4>2 DEF OverlayInv, CommandIsAwaited, BufferIsDrawn
      <4> QED
        BY <2>1, <4>1, <4>2 DEF BufferIsDrawn, buffers
    <3>4. LastPrintIsKept' /\ WakeUpHasNews'
      BY <2>1, <3>1 DEF OverlayInv, LastPrintIsKept, WakeUpHasNews, SomeLineDirty, buffers
    <3> QED
      BY <3>2, <3>3, <3>4
  <2> QED
    BY <2>2, <2>3, <2>4 DEF OverlayInv
<1> QED
  BY <1>1, <1>2

\* The thread comes up to the handshake.
LEMMA OpeningKeeps == OverlayInv /\ (EnterThread \/ OpenPipes) => OverlayInv'
<1> SUFFICES ASSUME OverlayInv, EnterThread \/ OpenPipes PROVE OverlayInv'
  OBVIOUS
<1>1. /\ ovThread \in {"starting", "opening"} /\ command = "none"
      /\ \/ ovThread' \in {"opening", "done"} /\ command' = "none" /\ ack' = ack
         \/ ovThread' = "handshake" /\ command' = "GenImage" /\ ack' = FALSE
      /\ UNCHANGED <<flags, buffers, filter, shm>>
  BY DEF EnterThread, OpenPipes, Request, OverlayInv, CommandIsAwaited
<1>2. OverlayTypeOK'
  BY <1>1 DEF OverlayInv, OverlayTypeOK, NextCommand, flags, buffers, filter
<1>3. PrintsAreTexts' /\ CommandIsAwaited'
  BY <1>1 DEF OverlayInv, PrintsAreTexts, CommandIsAwaited, NextCommand, buffers
<1>4. ASSUME overlay = "up"
      PROVE  NoPrintBeforeHandshake' /\ BufferIsDrawn' /\ LastPrintIsKept' /\ WakeUpHasNews'
  <2>1. NoPrintBeforeHandshake /\ LastPrintIsKept
    BY <1>4 DEF OverlayInv
  <2>2. NoPrintBeforeHandshake'
    BY <1>1, <2>1 DEF NoPrintBeforeHandshake, flags, buffers, filter
  <2>3. BufferIsDrawn' /\ WakeUpHasNews'
    BY <1>1 DEF BufferIsDrawn, WakeUpHasNews
  <2>4. LastPrintIsKept'
    BY <1>1, <2>1 DEF LastPrintIsKept, buffers
  <2> QED
    BY <2>2, <2>3, <2>4
<1> QED
  BY <1>1, <1>2, <1>3, <1>4 DEF OverlayInv, flags

\* The answers.  At the end of the handshake nothing is drawn and nothing was
\* printed; the answer to new lines says that they are drawn.
LEMMA ReadAckKeeps == OverlayInv /\ ReadAck => OverlayInv'
<1> SUFFICES ASSUME OverlayInv, ReadAck PROVE OverlayInv'
  OBVIOUS
<1>1. /\ command # "none" /\ ack /\ ack' = FALSE
      /\ UNCHANGED <<overlay, terminating, buffers, filter, shm>>
      /\ ovThread \in {"handshake", "sending", "deleting"}
  BY DEF ReadAck, Request, OverlayInv, CommandIsAwaited
<1>2. PrintsAreTexts' /\ (overlay' = "up" => overlay = "up")
  BY <1>1 DEF OverlayInv, PrintsAreTexts, buffers
<1>3. ASSUME overlay = "up" PROVE LastPrintIsKept'
  BY <1>1, <1>3 DEF OverlayInv, LastPrintIsKept, buffers
<1>4. CASE ovThread = "handshake"
  <2>1. /\ command \in DOMAIN NextCommand /\ command' = NextCommand[command]
        /\ initialized' = (command = "SetVisibility")
        /\ ovThread' = IF command = "SetVisibility" THEN "loop" ELSE "handshake"
    BY <1>4 DEF ReadAck, Request, OverlayInv, CommandIsAwaited
  <2>2. /\ command = "SetVisibility" => command' = "none"
        /\ command # "SetVisibility" => command' \in DOMAIN NextCommand
    BY <2>1 DEF NextCommand
  <2>3. OverlayTypeOK'
    BY <1>1, <2>1, <2>2 DEF OverlayInv, OverlayTypeOK, buffers, filter
  <2>4. CommandIsAwaited'
    BY <2>1, <2>2 DEF CommandIsAwaited
  <2>5. ASSUME overlay = "up" PROVE NoPrintBeforeHandshake' /\ BufferIsDrawn' /\ WakeUpHasNews'
    <3>1. /\ ~initialized /\ shown = Undrawn /\ msgBuf1 = Blank /\ dirty = NoLine
          /\ printed = Blank /\ shm = Undrawn /\ \A t \in Printers : printing[t] = Nothing
      BY <1>1, <1>4, <2>5 DEF OverlayInv, NoPrintBeforeHandshake
    <3>2. \A l \in Lines : Drawn(l)'
      BY <1>1, <3>1 DEF Drawn, Undrawn, Blank, buffers, filter
    <3> QED
      BY <1>1, <2>1, <3>1, <3>2
         DEF NoPrintBeforeHandshake, BufferIsDrawn, WakeUpHasNews, buffers, filter
  <2> QED
    BY <1>2, <1>3, <2>3, <2>4, <2>5 DEF OverlayInv
<1>5. CASE ovThread \in {"sending", "deleting"}
  <2>1. /\ command' = "none" /\ initialized' = initialized
        /\ ovThread' = IF ovThread = "sending" THEN "loop" ELSE "done"
    BY <1>5 DEF ReadAck, Request
  <2>2. OverlayTypeOK'
    BY <1>1, <2>1 DEF OverlayInv, OverlayTypeOK, buffers, filter
  <2>3. CommandIsAwaited'
    BY <2>1 DEF CommandIsAwaited
  <2>4. ASSUME overlay = "up" PROVE NoPrintBeforeHandshake' /\ BufferIsDrawn' /\ WakeUpHasNews'
    <3>1. NoPrintBeforeHandshake /\ BufferIsDrawn
      BY <2>4 DEF OverlayInv
    <3>2. initialized
      BY <1>5, <3>1 DEF NoPrintBeforeHandshake
    <3>3. ASSUME ovThread = "sending" PROVE \A l \in Lines : Drawn(l)'
      BY <1>1, <3>1, <3>3 DEF BufferIsDrawn, Drawn, buffers, filter
    <3> QED
      BY <1>5, <2>1, <3>2, <3>3 DEF NoPrintBeforeHandshake, BufferIsDrawn, WakeUpHasNews
  <2> QED
    BY <1>2, <1>3, <2>2, <2>3, <2>4 DEF OverlayInv
<1> QED
  BY <1>1, <1>4, <1>5

\* The lines that are marked change places, and the marks go.
LEMMA SwapKeeps ==
  ASSUME OverlayInv, ovThread \in {"loop", "waiting"}, SwapBuffers,
         UNCHANGED <<flags, filter, shm, command, ack>>
  PROVE  OverlayInv'
<1>1. /\ msgBuf1' = [l \in Lines |-> IF dirty[l] THEN msgBuf2[l] ELSE msgBuf1[l]]
      /\ msgBuf2' = [l \in Lines |-> IF dirty[l] THEN msgBuf1[l] ELSE msgBuf2[l]]
      /\ dirty' = NoLine /\ ovThread' = "swapped"
      /\ UNCHANGED <<signalled, printing, printed, prints>>
  BY DEF SwapBuffers, Swapped
<1>2. OverlayTypeOK'
  <2>1. msgBuf1' \in [Lines -> Texts] /\ msgBuf2' \in [Lines -> Texts]
    BY <1>1 DEF OverlayInv, OverlayTypeOK
  <2> QED
    BY <1>1, <2>1, InitialValues DEF OverlayInv, OverlayTypeOK, flags, filter
<1>3. PrintsAreTexts' /\ CommandIsAwaited'
  BY <1>1 DEF OverlayInv, PrintsAreTexts, CommandIsAwaited
<1>4. ASSUME overlay = "up"
      PROVE  NoPrintBeforeHandshake' /\ BufferIsDrawn' /\ LastPrintIsKept' /\ WakeUpHasNews'
  <2>1. NoPrintBeforeHandshake /\ LastPrintIsKept
    BY <1>4 DEF OverlayInv
  <2>2. initialized /\ initialized' = initialized
    BY <2>1 DEF NoPrintBeforeHandshake, flags
  <2>3. NoPrintBeforeHandshake' /\ BufferIsDrawn' /\ WakeUpHasNews'
    BY <1>1, <2>2 DEF NoPrintBeforeHandshake, BufferIsDrawn, WakeUpHasNews
  <2>4. LastPrintIsKept'
    BY <1>1, <2>1 DEF LastPrintIsKept, NoLine
  <2> QED
    BY <2>3, <2>4
<1> QED
  BY <1>2, <1>3, <1>4 DEF OverlayInv, flags

\* A thread that does not swap leaves the buffers alone.
LEMMA LoopKeeps == OverlayInv /\ (LoopTop \/ Wake) => OverlayInv'
<1> SUFFICES ASSUME OverlayInv, LoopTop \/ Wake PROVE OverlayInv'
  OBVIOUS
<1>1. ovThread \in {"loop", "waiting"} /\ UNCHANGED <<flags, filter, shm>>
  BY DEF LoopTop, Wake
<1>2. CASE SwapBuffers /\ UNCHANGED <<command, ack>>
  BY <1>1, <1>2, SwapKeeps
<1>3. CASE ~(SwapBuffers /\ UNCHANGED <<command, ack>>)
  <2>1. /\ UNCHANGED <<msgBuf1, msgBuf2, dirty, printing, printed, prints>>
        /\ \/ /\ ovThread' \in {"loop", "done"} /\ signalled' = signalled
              /\ UNCHANGED <<command, ack>>
           \/ /\ ovThread' = "waiting" /\ signalled' = FALSE
              /\ UNCHANGED <<command, ack>>
           \/ /\ ovThread' = "deleting" /\ signalled' = signalled
              /\ command' = "DeleteImage" /\ ack' = FALSE
    BY <1>3 DEF LoopTop, Wake, Delete, Request, buffers
  <2>2. command = "none"
    BY <1>1 DEF OverlayInv, CommandIsAwaited
  <2>3. OverlayTypeOK'
    BY <1>1, <2>1 DEF OverlayInv, OverlayTypeOK, flags, filter
  <2>4. PrintsAreTexts' /\ CommandIsAwaited'
    BY <2>1, <2>2 DEF OverlayInv, PrintsAreTexts, CommandIsAwaited
  <2>5. ASSUME overlay = "up"
        PROVE  NoPrintBeforeHandshake' /\ BufferIsDrawn' /\ LastPrintIsKept' /\ WakeUpHasNews'
    <3>1. NoPrintBeforeHandshake /\ BufferIsDrawn /\ LastPrintIsKept
      BY <2>5 DEF OverlayInv
    <3>2. initialized /\ initialized' = initialized
      BY <1>1, <3>1 DEF NoPrintBeforeHandshake, flags
    <3>3. NoPrintBeforeHandshake' /\ WakeUpHasNews'
      BY <2>1, <3>2 DEF NoPrintBeforeHandshake, WakeUpHasNews
    <3>4. \A l \in Lines : Drawn(l)'
      BY <1>1, <2>1, <3>1 DEF BufferIsDrawn, Drawn, filter
    <3>5. BufferIsDrawn'
      BY <2>1, <3>4 DEF BufferIsDrawn
    <3>6. LastPrintIsKept'
      BY <2>1, <3>1 DEF LastPrintIsKept
    <3> QED
      BY <3>3, <3>5, <3>6
  <2> QED
    BY <1>1, <2>3, <2>4, <2>5 DEF OverlayInv, flags
<1> QED
  BY <1>2, <1>3

\* The buffer is copied while others print into the other one.
LEMMA SendKeeps == OverlayInv /\ SendLines => OverlayInv'
<1> SUFFICES ASSUME OverlayInv, SendLines PROVE OverlayInv'
  OBVIOUS
<1>1. /\ ovThread = "swapped" /\ ack' = FALSE
      /\ \/ command' = "DeleteImage" /\ ovThread' = "deleting" /\ shm' = shm
         \/ command' = "DataSharedMem" /\ ovThread' = "sending" /\ shm' = msgBuf1
      /\ UNCHANGED <<flags, buffers, filter>>
  BY DEF SendLines, Delete, Request
<1>2. OverlayTypeOK'
  BY <1>1 DEF OverlayInv, OverlayTypeOK, NextCommand, flags, buffers, filter
<1>3. PrintsAreTexts' /\ CommandIsAwaited'
  BY <1>1 DEF OverlayInv, PrintsAreTexts, CommandIsAwaited, buffers
<1>4. ASSUME overlay = "up"
      PROVE  NoPrintBeforeHandshake' /\ BufferIsDrawn' /\ LastPrintIsKept' /\ WakeUpHasNews'
  <2>1. NoPrintBeforeHandshake /\ LastPrintIsKept
    BY <1>4 DEF OverlayInv
  <2>2. initialized /\ initialized' = initialized
    BY <1>1, <2>1 DEF NoPrintBeforeHandshake, flags
  <2>3. NoPrintBeforeHandshake' /\ BufferIsDrawn' /\ WakeUpHasNews'
    BY <1>1, <2>2 DEF NoPrintBeforeHandshake, BufferIsDrawn, WakeUpHasNews, buffers
  <2>4. LastPrintIsKept'
    BY <1>1, <2>1 DEF LastPrintIsKept, buffers
  <2> QED
    BY <2>3, <2>4
<1> QED
  BY <1>1, <1>2, <1>3, <1>4 DEF OverlayInv, flags

\* The test of the flags in front of a print.
LEMMA EntryKeeps ==
  ASSUME OverlayInv, NEW t \in Printers, NEW l \in LinesOf[t], NEW text \in Texts,
         PrintEntry(t, l, text)
  PROVE  OverlayInv'
<1>1. l \in Lines /\ MaxPrints \in Nat
  BY OverlayAssumption
<1>2. /\ prints < MaxPrints /\ prints' = prints + 1 /\ initialized
      /\ printing' = [printing EXCEPT ![t] = [line |-> l, text |-> text]]
      /\ UNCHANGED <<flags, ovThread, filter, shm, command, ack, msgBuf1, msgBuf2, dirty,
                     signalled, printed>>
  BY DEF PrintEntry
<1>3. OverlayTypeOK'
  <2>1. prints' \in 0..MaxPrints
    BY <1>1, <1>2 DEF OverlayInv, OverlayTypeOK
  <2>2. printing' \in [Printers -> [line : Lines \cup {0}, text : Texts \cup {-1}]]
    BY <1>1, <1>2 DEF OverlayInv, OverlayTypeOK
  <2> QED
    BY <1>2, <2>1, <2>2 DEF OverlayInv, OverlayTypeOK, flags, filter
<1>4. PrintsAreTexts'
  <2> SUFFICES ASSUME NEW u \in Printers, printing'[u] # Nothing
               PROVE  printing'[u].line \in Lines /\ printing'[u].text \in Texts
    BY DEF PrintsAreTexts
  <2>1. CASE u = t
    BY <1>1, <1>2, <2>1 DEF OverlayInv, OverlayTypeOK
  <2>2. CASE u # t
    BY <1>2, <2>2 DEF OverlayInv, OverlayTypeOK, PrintsAreTexts
  <2> QED
    BY <2>1, <2>2
<1>5. CommandIsAwaited'
  BY <1>2 DEF OverlayInv, CommandIsAwaited
<1>6. ASSUME overlay = "up"
      PROVE  NoPrintBeforeHandshake' /\ BufferIsDrawn' /\ LastPrintIsKept' /\ WakeUpHasNews'
  <2>1. NoPrintBeforeHandshake'
    BY <1>2, <1>6 DEF OverlayInv, NoPrintBeforeHandshake, flags
  <2>2. BufferIsDrawn' /\ LastPrintIsKept' /\ WakeUpHasNews'
    BY <1>2, <1>6 DEF OverlayInv, BufferIsDrawn, Drawn, LastPrintIsKept, WakeUpHasNews,
       SomeLineDirty, filter
  <2> QED
    BY <2>1, <2>2
<1> QED
  BY <1>2, <1>3, <1>4, <1>5, <1>6 DEF OverlayInv, flags

\* The print itself.  What is not marked now equals what is drawn.
LEMMA PrintKeeps ==
  ASSUME OverlayInv, overlay = "up", NEW t \in Printers, PrintLine(t)
  PROVE  OverlayInv'
<1> DEFINE line == printing[t].line
           text == printing[t].text
<1>1. /\ printing[t] # Nothing
      /\ msgBuf2' = [msgBuf2 EXCEPT ![line] = text]
      /\ dirty' = [dirty EXCEPT ![line] = dirty[line] \/ msgBuf1[line] # text]
      /\ signalled' = (signalled \/ msgBuf1[line] # text)
      /\ printed' = [printed EXCEPT ![line] = text]
      /\ printing' = [printing EXCEPT ![t] = Nothing]
      /\ UNCHANGED <<flags, ovThread, filter, shm, command, ack, msgBuf1, prints>>
  BY DEF PrintLine, Marked
<1>2. line \in Lines /\ text \in Texts
  BY <1>1 DEF OverlayInv, PrintsAreTexts
<1> HIDE DEF line, text
<1>3. OverlayTypeOK /\ NoPrintBeforeHandshake /\ BufferIsDrawn /\ LastPrintIsKept
      /\ WakeUpHasNews /\ PrintsAreTexts
  BY DEF OverlayInv
<1>4. initialized /\ initialized' = initialized
  BY <1>1, <1>3 DEF NoPrintBeforeHandshake, flags
<1>5. OverlayTypeOK'
  <2>1. Nothing \in [line : Lines \cup {0}, text : Texts \cup {-1}]
    BY DEF Nothing
  <2>2. printing' \in [Printers -> [line : Lines \cup {0}, text : Texts \cup {-1}]]
    BY <1>1, <1>3, <2>1 DEF OverlayTypeOK
  <2>3. msgBuf2' \in [Lines -> Texts] /\ printed' \in [Lines -> Texts]
    BY <1>1, <1>2, <1>3 DEF OverlayTypeOK
  <2>4. dirty' \in [Lines -> BOOLEAN] /\ signalled' \in BOOLEAN
    BY <1>1, <1>2, <1>3 DEF OverlayTypeOK
  <2> QED
    BY <1>1, <1>3, <2>2, <2>3, <2>4 DEF OverlayTypeOK, flags, filter
<1>6. PrintsAreTexts'
  BY <1>1, <1>3 DEF PrintsAreTexts, OverlayTypeOK
<1>7. CommandIsAwaited'
  BY <1>1 DEF OverlayInv, CommandIsAwaited
<1>8. NoPrintBeforeHandshake'
  BY <1>1, <1>3, <1>4 DEF NoPrintBeforeHandshake
<1>9. BufferIsDrawn'
  BY <1>1, <1>3 DEF BufferIsDrawn, Drawn, filter
<1>10. LastPrintIsKept'
  <2> SUFFICES ASSUME NEW l \in Lines
               PROVE  printed'[l] = IF dirty'[l] THEN msgBuf2'[l] ELSE msgBuf1[l]
    BY <1>1 DEF LastPrintIsKept
  <2>1. CASE l = line
    BY <1>1, <1>2, <1>3, <2>1 DEF OverlayTypeOK
  <2>2. CASE l # line
    BY <1>1, <1>2, <1>3, <2>2 DEF OverlayTypeOK, LastPrintIsKept
  <2> QED
    BY <2>1, <2>2
<1>11. WakeUpHasNews'
  <2> SUFFICES ASSUME ovThread = "waiting", signalled' PROVE \E l \in Lines : dirty'[l]
    BY <1>1 DEF WakeUpHasNews, SomeLineDirty
  <2>1. CASE msgBuf1[line] # text
    <3>1. dirty'[line]
      BY <1>1, <1>2, <1>3, <2>1 DEF OverlayTypeOK
    <3> QED
      BY <1>2, <3>1
  <2>2. CASE msgBuf1[line] = text
    <3>1. signalled
      BY <1>1, <2>2
    <3>2. PICK l \in Lines : dirty[l]
      BY <1>3, <3>1 DEF WakeUpHasNews, SomeLineDirty
    <3>3. dirty'[l]
      BY <1>1, <1>2, <1>3, <3>2 DEF OverlayTypeOK
    <3> QED
      BY <3>3
  <2> QED
    BY <2>1, <2>2
<1> QED
  BY <1>5, <1>6, <1>7, <1>8, <1>9, <1>10, <1>11 DEF OverlayInv

LEMMA CleanUpKeeps == OverlayInv /\ (OverlayTerminate \/ OverlayFree) => OverlayInv'
<1> SUFFICES ASSUME OverlayInv, OverlayTerminate \/ OverlayFree PROVE OverlayInv'
  OBVIOUS
<1>1. CASE OverlayTerminate
  <2>1. OverlayTypeOK'
    BY <1>1 DEF OverlayTerminate, OverlayInv, OverlayTypeOK, buffers, filter
  <2> QED
    BY <1>1, <2>1 DEF OverlayTerminate, buffers, filter, OverlayInv, PrintsAreTexts,
       CommandIsAwaited, NoPrintBeforeHandshake, BufferIsDrawn, Drawn, LastPrintIsKept,
       WakeUpHasNews, SomeLineDirty
<1>2. CASE OverlayFree
  <2>1. OverlayTypeOK'
    BY <1>2 DEF OverlayFree, OverlayInv, OverlayTypeOK, buffers
  <2> QED
    BY <1>2, <2>1 DEF OverlayFree, buffers, OverlayInv, PrintsAreTexts, CommandIsAwaited
<1> QED
  BY <1>1, <1>2
-----------------------------------------------------------------------------
(* The plug-in *)

LEMMA OverlayUntouched == OverlayInv /\ UNCHANGED overlayVars => OverlayInv'
BY DEF overlayVars, OverlayInv, OverlayTypeOK, PrintsAreTexts, CommandIsAwaited,
       NoPrintBeforeHandshake, BufferIsDrawn, Drawn, LastPrintIsKept, WakeUpHasNews,
       SomeLineDirty

\* Every step of the plug-in is one of the overlay or leaves it alone.
LEMMA PluginKeeps == OverlayInv /\ [PluginNext]_allVars => OverlayInv'
<1> SUFFICES ASSUME OverlayInv, [PluginNext]_allVars PROVE OverlayInv'
  OBVIOUS
<1>1. CASE UNCHANGED allVars
  BY <1>1, OverlayUntouched DEF allVars
<1>2. ASSUME NEW t \in Recorders, BeginRecord(t) \/ FinishRecord(t) PROVE OverlayInv'
  BY <1>2, OverlayUntouched DEF BeginRecord, FinishRecord, Fail
<1>3. ASSUME NEW t \in Printers, BeginPrint(t) \/ FinishPrint(t) PROVE OverlayInv'
  <2>1. CASE BeginPrint(t)
    BY <2>1, EntryKeeps DEF BeginPrint
  <2>2. CASE FinishPrint(t)
    BY <2>2, PrintKeeps, OverlayUntouched DEF FinishPrint, Fail
  <2> QED
    BY <1>3, <2>1, <2>2
<1>4. CASE OverlayStep
  BY <1>4, OpeningKeeps, ReadAckKeeps, LoopKeeps, SendKeeps, FilterKeeps
     DEF OverlayStep, OverlayThread
<1>5. CASE Open
  BY <1>5, InitKeeps, OverlayUntouched DEF Open, Fail
<1>6. CASE ControlThread
  BY <1>6, OverlayUntouched
     DEF ControlThread, StartInWrongState, StartPlayback, ServerUnknown, ProcessEvent,
         StartDownload, Reconnect, LeaveLoop, Fail
<1>7. CASE HttpThread
  BY <1>7, OverlayUntouched DEF HttpThread, CompleteRequest, CompleteHead, PushEvent, Fail
<1>8. CASE Close
  BY <1>8, OverlayUntouched DEF Close
<1>9. CASE CloseStep
  BY <1>9, CleanUpKeeps, OverlayUntouched
     DEF CloseStep, OutputStatistics, Terminate, CleanUpControl, CleanUpStatistics,
         CleanUpOverlay, CleanUpClients, CleanUpManagers, Fail
<1> QED
  BY <1>1, <1>2, <1>3, <1>4, <1>5, <1>6, <1>7, <1>8, <1>9 DEF PluginNext

\* However many threads print, and however prints, swaps, waits, the filter and
\* the closing of the plug-in interleave: the last print of each line is kept, and
\* drawn when the overlay's thread rests.
THEOREM NoPrintIsLost == PluginSpec => []OverlayShowsLastPrint
<1>1. PluginInit => OverlayInv
  BY AbsentInv DEF PluginInit
<1> QED
  BY <1>1, PluginKeeps, InvImpliesShown, PTL DEF PluginSpec

-----------------------------------------------------------------------------
(* The invariant *)

\* PluginTypeOK without what is proved of the overlay.
LifeTypes ==
  /\ TracesTypeOK
  /\ main \in {"closed", "open", "output", "control", "join", "statistics", "files", "overlay",
               "overlayJoin", "clients", "managers"}
  /\ opens \in 0..MaxOpens /\ withOverlay \in BOOLEAN
  /\ state \in {"Playing", "Terminating", "Dead"}
  /\ control \in {"none", "starting", "run", "hung", "done"} /\ client \in {"none", "run"}
  /\ cb \in 0..MaxRequests /\ pending \in 0..MaxRequests /\ requested \in 0..MaxRequests
  /\ arrived \in Seq(1..MaxRequests)
  /\ reqs \in {"empty", "used", "null"} /\ httpVec \in BOOLEAN
  /\ mpd \in {"none", "loaded", "dangling"}
  /\ srcVec \in Seq({"server"}) /\ sockets \subseteq Conn
  /\ recordedAtClose \in SUBSET (1..MaxRequests)
  /\ fault \in Faults

\* The steps of Close() behind the joins and the cleaning of a component.
ControlIsGone == main \in {"statistics", "files", "overlay", "overlayJoin", "clients",
                           "managers", "closed"}
TracesAreGone == main \in {"files", "overlay", "overlayJoin", "clients", "managers", "closed"}
FilesAreGone == main \in {"overlay", "overlayJoin", "clients", "managers", "closed"}
OverlayIsGone == main \in {"clients", "managers", "closed"}
ClientIsGone == main \in {"managers", "closed"}

\* Control's state tells how far Close() is, and its thread ends before it is dead.
StateFollowsMain ==
  /\ state = "Playing" => main \in {"open", "output", "control"}
  /\ state = "Terminating" => main = "join"
  /\ state = "Dead" => ControlIsGone /\ control = "none" /\ arrived = <<>>

\* A thread that has ended, or has not begun, is in no record and in no print.
EndedThreadsAreIdle ==
  /\ main # "open" => Idle("vlc")
  /\ control # "run" => Idle("control")
  /\ client = "none" => Idle("http") /\ cb = 0
  /\ main # "output" => Idle("main")
  /\ "main" \in Printers => printing["main"] = Nothing
  /\ ClientIsGone => client = "none"

\* After Statistics::cleanUp() only the client's thread may create a file.
TracesStayGone ==
  /\ TracesAreGone => ~logDir /\ \A c \in Conn : httpRequests[c] = <<>>
  /\ FilesAreGone => files \subseteq ClientFiles
  /\ recording["http"] # NoRecord => recording["http"].file \in ClientFiles

OverlayStaysGone ==
  /\ overlay # "up" => ovThread = "none"
  /\ OverlayIsGone => overlay # "up"
  /\ overlay = "up" => withOverlay

\* The current connection is the last of the table.
ConnectionsAreKept ==
  /\ sockets = {c \in DOMAIN connVec : connVec[c] = "alive"}
  /\ client = "run" => connVec # <<>> /\ connVec[Connection] = "alive" /\ srcVec # <<>>
  /\ control = "starting" => connVec = <<>> /\ requested = 0
  /\ main = "closed" => connVec = <<>> /\ srcVec = <<>>

LifeInv ==
  /\ LifeTypes
  /\ StateFollowsMain /\ EndedThreadsAreIdle /\ TracesStayGone /\ OverlayStaysGone
  /\ ConnectionsAreKept

-----------------------------------------------------------------------------
(* Steps that leave the plug-in's own variables alone *)

LEMMA ThreadFacts ==
  /\ Recorders = {"vlc", "control", "http", "main"} /\ Printers \subseteq Recorders
  /\ KindsOf["http"] \subseteq {"tcp", "sizes"}
  /\ \A t \in Recorders \ {"http"} : KindsOf[t] \cap {"tcp", "sizes"} = {}
  /\ \A t, u \in Recorders : t # u => KindsOf[t] \cap KindsOf[u] \subseteq {"scalar"}
  /\ \A t \in Recorders : KindsOf[t] \subseteq Kinds \cup {"tcp"}
  /\ MaxConn \in Nat /\ MaxConn >= 1 /\ MaxRequests \in Nat /\ MaxRequests >= 1
  /\ MaxOpens \in Nat /\ Options \subseteq BOOLEAN \X BOOLEAN
BY PluginAssumption, TracesAssumption

LEMMA FailKeepsLife ==
  ASSUME LifeInv, NEW where \in Faults, Fail(where)
  PROVE  LifeInv'
<1> USE DEF Fail, LifeInv, overlayVars, traceVars, lifeVars, controlVars, clientVars, netVars,
            buffers, filter, flags
<1>1. LifeTypes'
  BY DEF LifeTypes, TracesTypeOK
<1>2. StateFollowsMain' /\ EndedThreadsAreIdle' /\ TracesStayGone' /\ OverlayStaysGone'
  BY DEF StateFollowsMain, ControlIsGone, EndedThreadsAreIdle, Idle, ClientIsGone,
         TracesStayGone, TracesAreGone, FilesAreGone, OverlayStaysGone, OverlayIsGone
<1>3. ConnectionsAreKept'
  BY DEF ConnectionsAreKept, Connection
<1> QED
  BY <1>1, <1>2, <1>3

\* A record or a print of a thread that runs.
LEMMA BeginRecordKeepsLife ==
  ASSUME LifeInv, NEW t \in Recorders, BeginRecord(t)
  PROVE  LifeInv'
<1> USE ThreadFacts
<1>0. PICK kind \in KindsOf[t] : \E file \in FilesOf(kind) : StartRecord(t, file)
  BY DEF BeginRecord
<1>1. PICK file \in FilesOf(kind) : StartRecord(t, file)
  BY <1>0
<1>2. /\ Runs(t) /\ recording' = [recording EXCEPT ![t] = [file |-> file, open |-> file \in files]]
      /\ UNCHANGED <<logDir, files, created, httpRequests, written, overlayVars, pluginVars>>
  BY <1>1 DEF BeginRecord, StartRecord
<1> USE DEF LifeInv, overlayVars, pluginVars, lifeVars, controlVars, clientVars, netVars
<1>3. recording \in [Recorders -> [file : AllFiles \cup {<<>>}, open : BOOLEAN]]
  BY DEF LifeTypes, TracesTypeOK
<1>4. file \in AllFiles
  BY DEF AllFiles
<1>5. LifeTypes'
  BY <1>2, <1>3, <1>4 DEF LifeTypes, TracesTypeOK
<1>6. \A u \in Recorders : u # t => recording'[u] = recording[u]
  BY <1>2, <1>3
<1>7. /\ t = "vlc" => main = "open"
      /\ t = "control" => control = "run"
      /\ t = "http" => client = "run"
      /\ t # "main"
  BY <1>2 DEF Runs
<1>8. EndedThreadsAreIdle'
  BY <1>2, <1>6, <1>7 DEF EndedThreadsAreIdle, Idle, ClientIsGone
<1>9. TracesStayGone'
  <2>1. t = "http" => recording'["http"].file \in ClientFiles
    <3>1. t = "http" => file \in ClientFiles
      BY DEF ClientFiles
    <3> QED
      BY <1>2, <1>3, <3>1
  <2> QED
    BY <1>2, <1>6, <2>1 DEF TracesStayGone, TracesAreGone, FilesAreGone
<1>10. StateFollowsMain' /\ OverlayStaysGone' /\ ConnectionsAreKept'
  BY <1>2 DEF StateFollowsMain, ControlIsGone, OverlayStaysGone, OverlayIsGone,
              ConnectionsAreKept, Connection
<1> QED
  BY <1>5, <1>8, <1>9, <1>10

LEMMA OpenedRecord ==
  ASSUME NEW F, NEW r \in [file : F, open : BOOLEAN]
  PROVE  /\ [r EXCEPT !.open = TRUE] \in [file : F, open : BOOLEAN]
         /\ [r EXCEPT !.open = TRUE].file = r.file
         /\ [r EXCEPT !.open = TRUE].open = TRUE
OBVIOUS

LEMMA FinishRecordKeepsLife ==
  ASSUME LifeInv, NEW t \in Recorders, FinishRecord(t)
  PROVE  LifeInv'
<1> USE ThreadFacts
<1>1. CASE \E where \in Faults : Fail(where)
  BY <1>1, FailKeepsLife
<1>2. CASE (PrepareFile(t) \/ Write(t)) /\ UNCHANGED <<overlayVars, pluginVars>>
  <2> USE DEF LifeInv, overlayVars, pluginVars, lifeVars, controlVars, clientVars, netVars
  <2>1. /\ recording[t] # NoRecord
        /\ UNCHANGED <<logDir, httpRequests, written>>
        /\ \/ /\ files' = files \cup {recording[t].file}
              /\ created' = created \cup {recording[t].file}
              /\ recording[t].file \notin created
              /\ recording' = [recording EXCEPT ![t].open = TRUE]
           \/ /\ UNCHANGED <<files, created>>
              /\ recording' = [recording EXCEPT ![t] = NoRecord]
    <3>1. CASE PrepareFile(t)
      BY <3>1 DEF PrepareFile, MustPrepare
    <3>2. CASE Write(t)
      BY <3>2 DEF Write, NoRecord
    <3> QED
      BY <1>2, <3>1, <3>2
  <2>2. recording \in [Recorders -> [file : AllFiles \cup {<<>>}, open : BOOLEAN]]
    BY DEF LifeTypes, TracesTypeOK
  <2>3. \A u \in Recorders : recording'[u] # NoRecord => recording[u] # NoRecord
    BY <2>1, <2>2
  <2>4. recording' \in [Recorders -> [file : AllFiles \cup {<<>>}, open : BOOLEAN]]
    <3>1. NoRecord \in [file : AllFiles \cup {<<>>}, open : BOOLEAN]
      BY DEF NoRecord
    <3>2. CASE recording' = [recording EXCEPT ![t].open = TRUE]
      <4> DEFINE opened == [recording[t] EXCEPT !.open = TRUE]
      <4>1. recording[t] \in [file : AllFiles \cup {<<>>}, open : BOOLEAN]
        BY <2>2
      <4>2. opened \in [file : AllFiles \cup {<<>>}, open : BOOLEAN]
        BY <4>1, OpenedRecord
      <4>3. recording' = [recording EXCEPT ![t] = opened]
        BY <3>2, Zenon
      <4> HIDE DEF opened
      <4> QED
        BY <2>2, <4>2, <4>3
    <3>3. CASE recording' = [recording EXCEPT ![t] = NoRecord]
      BY <2>2, <3>1, <3>3
    <3> QED
      BY <2>1, <3>2, <3>3
  <2>5. recording'["http"] # NoRecord => recording'["http"].file = recording["http"].file
    BY <2>1, <2>2
  <2>6. files' \subseteq files \cup {recording[t].file} /\ files' \subseteq AllFiles
        /\ created' \subseteq AllFiles
    <3>1. files \subseteq AllFiles /\ created \subseteq AllFiles
      BY DEF LifeTypes, TracesTypeOK
    <3>2. CASE PrepareFile(t)
      <4>1. recording[t].file \in AllFiles
        BY <2>2, <3>2 DEF PrepareFile, MustPrepare, NoRecord
      <4> QED
        BY <3>1, <3>2, <4>1 DEF PrepareFile
    <3>3. CASE Write(t)
      BY <3>1, <3>3 DEF Write
    <3> QED
      BY <1>2, <3>2, <3>3
  <2>7. LifeTypes'
    BY <1>2, <2>1, <2>4, <2>6 DEF LifeTypes, TracesTypeOK
  <2>8. EndedThreadsAreIdle'
    BY <1>2, <2>3 DEF EndedThreadsAreIdle, Idle, ClientIsGone
  <2>9. TracesStayGone'
    <3>1. FilesAreGone => t = "http"
      BY <2>1 DEF FilesAreGone, EndedThreadsAreIdle, Idle, StateFollowsMain, LifeTypes
    <3> QED
      BY <1>2, <2>1, <2>3, <2>5, <2>6, <3>1 DEF TracesStayGone, TracesAreGone, FilesAreGone
  <2>10. StateFollowsMain' /\ OverlayStaysGone' /\ ConnectionsAreKept'
    BY <1>2, <2>1 DEF StateFollowsMain, ControlIsGone, OverlayStaysGone, OverlayIsGone,
                      ConnectionsAreKept, Connection
  <2> QED
    BY <2>7, <2>8, <2>9, <2>10
<1> QED
  BY <1>1, <1>2 DEF FinishRecord, Faults

LEMMA PrintKeepsLife ==
  ASSUME LifeInv, OverlayInv, NEW t \in Printers, BeginPrint(t) \/ FinishPrint(t)
  PROVE  LifeInv'
<1> USE ThreadFacts
<1>1. CASE \E where \in Faults : Fail(where)
  BY <1>1, FailKeepsLife
<1>2. CASE /\ (Runs(t) /\ \E l \in LinesOf[t], text \in Texts : PrintEntry(t, l, text)) \/ PrintLine(t)
           /\ UNCHANGED <<traceVars, pluginVars>>
  <2> USE DEF LifeInv, traceVars, pluginVars, lifeVars, controlVars, clientVars, netVars, flags
  <2>1. /\ UNCHANGED <<overlay, ovThread>>
        /\ \A u \in Printers : u # t => printing'[u] = printing[u]
        /\ printing'[t] = Nothing \/ Runs(t)
    <3>1. printing \in [Printers -> [line : Lines \cup {0}, text : Texts \cup {-1}]]
      BY DEF OverlayInv, OverlayTypeOK
    <3>2. CASE PrintLine(t)
      BY <3>1, <3>2 DEF PrintLine
    <3>3. CASE Runs(t) /\ \E l \in LinesOf[t], text \in Texts : PrintEntry(t, l, text)
      BY <3>1, <3>3 DEF PrintEntry
    <3> QED
      BY <1>2, <3>2, <3>3
  <2>2. LifeTypes' /\ StateFollowsMain' /\ TracesStayGone'
    BY <1>2 DEF LifeTypes, TracesTypeOK, StateFollowsMain, ControlIsGone, TracesStayGone,
                TracesAreGone, FilesAreGone
  <2>3. OverlayStaysGone' /\ ConnectionsAreKept'
    BY <1>2, <2>1 DEF OverlayStaysGone, OverlayIsGone, ConnectionsAreKept, Connection
  <2>4. /\ t = "vlc" => printing'[t] = Nothing \/ main = "open"
        /\ t = "control" => printing'[t] = Nothing \/ control = "run"
        /\ t = "http" => printing'[t] = Nothing \/ client = "run"
        /\ t = "main" => printing'[t] = Nothing
    BY <2>1 DEF Runs
  <2>5. EndedThreadsAreIdle'
    BY <1>2, <2>1, <2>4 DEF EndedThreadsAreIdle, Idle, ClientIsGone
  <2> QED
    BY <2>2, <2>3, <2>5
<1> QED
  BY <1>1, <1>2 DEF BeginPrint, FinishPrint, Faults

\* The thread of the overlay and the filter.
LEMMA OverlayStepKeepsLife ==
  ASSUME LifeInv, OverlayInv, OverlayStep
  PROVE  LifeInv'
<1> USE DEF LifeInv, traceVars, pluginVars, lifeVars, controlVars, clientVars, netVars, flags,
            buffers
<1>1. UNCHANGED <<traceVars, pluginVars, overlay, printing>>
  BY DEF OverlayStep, OverlayThread, EnterThread, OpenPipes, ReadAck, LoopTop, Wake, SwapBuffers,
         SendLines, FilterOpens, FilterAnswers
<1>2. overlay # "up" => ovThread' = "none"
  <2>1. overlay # "up" => ovThread = "none" /\ command = "none"
    BY DEF OverlayStaysGone, OverlayInv, CommandIsAwaited
  <2> QED
    BY <2>1 DEF OverlayStep, OverlayThread, EnterThread, OpenPipes, ReadAck, LoopTop, Wake,
         SendLines, FilterOpens, FilterAnswers
<1>3. LifeTypes' /\ StateFollowsMain' /\ TracesStayGone'
  BY <1>1 DEF LifeTypes, TracesTypeOK, StateFollowsMain, ControlIsGone, TracesStayGone,
              TracesAreGone, FilesAreGone
<1>4. OverlayStaysGone' /\ ConnectionsAreKept' /\ EndedThreadsAreIdle'
  BY <1>1, <1>2 DEF OverlayStaysGone, OverlayIsGone, ConnectionsAreKept, Connection,
                    EndedThreadsAreIdle, Idle, ClientIsGone
<1> QED
  BY <1>3, <1>4

-----------------------------------------------------------------------------
(* Open, and the control thread *)

LEMMA OpenKeepsLife ==
  ASSUME LifeInv, Open
  PROVE  LifeInv'
<1> USE ThreadFacts
<1>1. CASE \E where \in Faults : Fail(where)
  BY <1>1, FailKeepsLife
<1>2. CASE /\ main = "closed" /\ opens < MaxOpens
           /\ \E overlayOn, dir \in BOOLEAN :
                /\ ~InitFails(dir) /\ TracesInit(dir)
                /\ IF overlayOn THEN OverlayInit ELSE UNCHANGED overlayVars
                /\ withOverlay' = overlayOn
           /\ main' = "open" /\ opens' = opens + 1
           /\ state' = "Playing" /\ control' = "starting"
           /\ requested' = 0 /\ recordedAtClose' = {}
           /\ UNCHANGED <<clientVars, arrived, reqs, httpVec, mpd, netVars, fault>>
  <2> USE DEF LifeInv, clientVars, netVars
  <2>1. PICK overlayOn \in BOOLEAN, dir \in BOOLEAN :
          /\ ~InitFails(dir) /\ TracesInit(dir)
          /\ IF overlayOn THEN OverlayInit ELSE UNCHANGED overlayVars
          /\ withOverlay' = overlayOn
    BY <1>2
  <2>2. /\ logDir' \in BOOLEAN /\ UNCHANGED <<recording, httpRequests>>
        /\ files' \subseteq files \cup {<<"scalar">>} /\ created' \subseteq {<<"scalar">>}
        /\ written' = [c \in Conn |-> {}]
    BY <2>1 DEF TracesInit
  <2>3. <<"scalar">> \in AllFiles
    BY DEF AllFiles, FilesOf, Kinds
  <2>4. LifeTypes'
    <3>1. written' \in [Conn -> SUBSET (1..MaxRequests)]
      BY <2>2
    <3>2. files' \subseteq AllFiles /\ created' \subseteq AllFiles
      BY <2>2, <2>3 DEF LifeTypes, TracesTypeOK
    <3>3. TracesTypeOK'
      BY <1>2, <2>2, <3>1, <3>2 DEF LifeTypes, TracesTypeOK
    <3>4. opens' \in 0..MaxOpens /\ requested' \in 0..MaxRequests
      BY <1>2 DEF LifeTypes
    <3> QED
      BY <1>2, <2>1, <3>3, <3>4 DEF LifeTypes
  <2>5. StateFollowsMain' /\ TracesStayGone'
    BY <1>2, <2>2 DEF StateFollowsMain, TracesStayGone, TracesAreGone, FilesAreGone
  <2>6. /\ overlay' # "up" => ovThread' = "none"
        /\ \A t \in Printers : printing'[t] \in {printing[t], Nothing}
        /\ overlay' = "up" => overlayOn
    BY <1>2, <2>1 DEF OverlayInit, overlayVars, OverlayStaysGone, OverlayIsGone
  <2>7. OverlayStaysGone'
    BY <1>2, <2>1, <2>6 DEF OverlayStaysGone, OverlayIsGone
  <2>8. control = "none" /\ client = "none"
    BY <1>2 DEF StateFollowsMain, EndedThreadsAreIdle, ClientIsGone, LifeTypes
  <2>9. EndedThreadsAreIdle'
    BY <1>2, <2>2, <2>6, <2>8 DEF EndedThreadsAreIdle, Idle, ClientIsGone
  <2>10. ConnectionsAreKept'
    BY <1>2, <2>8 DEF ConnectionsAreKept, Connection
  <2> QED
    BY <2>4, <2>5, <2>7, <2>9, <2>10
<1> QED
  BY <1>1, <1>2 DEF Open, Faults

\* The table of connections and the sockets, with a connection more.
LEMMA AppendedConnection ==
  ASSUME NEW vec \in Seq({"alive", "null"}), Len(vec) < MaxConn, NEW open,
         open = {c \in DOMAIN vec : vec[c] = "alive"}, CreateConnection(vec, open)
  PROVE  /\ connVec' \in Seq({"alive", "null"}) /\ Len(connVec') <= MaxConn
         /\ sockets' \subseteq Conn
         /\ sockets' = {c \in DOMAIN connVec' : connVec'[c] = "alive"}
         /\ connVec' # <<>> /\ connVec'[Len(connVec')] = "alive"
<1> USE ThreadFacts
<1>1. /\ connVec' = Append(vec, "alive") /\ sockets' = open \cup {Len(vec) + 1}
      /\ Len(vec) \in Nat /\ DOMAIN vec = 1..Len(vec)
  BY LenProperties DEF CreateConnection
<1>2. /\ connVec' \in Seq({"alive", "null"}) /\ connVec' # <<>> /\ Len(connVec') = Len(vec) + 1
      /\ \A i \in 1..Len(vec) : connVec'[i] = vec[i]
      /\ connVec'[Len(vec) + 1] = "alive"
  BY <1>1, AppendProperties
<1>3. DOMAIN connVec' = 1..(Len(vec) + 1)
  BY <1>2, LenProperties
<1>4. sockets' = {c \in DOMAIN connVec' : connVec'[c] = "alive"}
  BY <1>1, <1>2, <1>3
<1>5. sockets' \subseteq Conn
  BY <1>1 DEF Conn
<1> QED
  BY <1>1, <1>2, <1>4, <1>5

LEMMA StartPlaybackKeepsLife ==
  ASSUME LifeInv, StartPlayback
  PROVE  LifeInv'
<1> USE ThreadFacts
<1>1. CASE ServerUnknown
  BY <1>1, FailKeepsLife DEF ServerUnknown, Faults
<1>2. CASE ~ServerUnknown
  <2> USE DEF LifeInv, traceVars, lifeVars, overlayVars
  <2>1. /\ control = "starting" /\ state = "Playing"
        /\ srcVec' = Append(srcVec, "server") /\ CreateConnection(connVec, sockets)
        /\ \/ /\ client' = "run" /\ control' = "run"
              /\ requested' = requested + 1 /\ pending' = requested + 1 /\ reqs' = "used"
           \/ control' = "hung" /\ UNCHANGED <<client, pending, requested, reqs>>
        /\ UNCHANGED <<overlayVars, traceVars, lifeVars, state, arrived, httpVec, mpd, cb,
                       recordedAtClose, fault>>
    BY <1>2 DEF StartPlayback, AddSource, CreateClient, NewRequest
  <2>2. connVec = <<>> /\ requested = 0 /\ sockets = {c \in DOMAIN connVec : connVec[c] = "alive"}
    BY <2>1 DEF ConnectionsAreKept
  <2>3. connVec \in Seq({"alive", "null"}) /\ Len(connVec) < MaxConn
    BY <2>2, EmptySeq DEF LifeTypes, TracesTypeOK
  <2>4. /\ connVec' \in Seq({"alive", "null"}) /\ Len(connVec') <= MaxConn
        /\ sockets' \subseteq Conn
        /\ sockets' = {c \in DOMAIN connVec' : connVec'[c] = "alive"}
        /\ connVec' # <<>> /\ connVec'[Len(connVec')] = "alive"
    BY <2>1, <2>2, <2>3, AppendedConnection
  <2>5. srcVec' \in Seq({"server"}) /\ srcVec' # <<>>
    BY <2>1, AppendProperties DEF LifeTypes
  <2>6. requested' \in 0..MaxRequests /\ pending' \in 0..MaxRequests
    BY <2>1, <2>2 DEF LifeTypes
  <2>7. LifeTypes'
    BY <2>1, <2>4, <2>5, <2>6 DEF LifeTypes, TracesTypeOK
  <2>8. main \in {"open", "output", "control"}
    BY <2>1 DEF StateFollowsMain
  <2>9. StateFollowsMain' /\ TracesStayGone' /\ OverlayStaysGone'
    BY <2>1 DEF StateFollowsMain, TracesStayGone, TracesAreGone, FilesAreGone,
                OverlayStaysGone, OverlayIsGone
  <2>10. EndedThreadsAreIdle'
    BY <2>1, <2>8 DEF EndedThreadsAreIdle, Idle, ClientIsGone
  <2>11. ConnectionsAreKept'
    BY <2>1, <2>4, <2>5, <2>8 DEF ConnectionsAreKept, Connection
  <2> QED
    BY <2>7, <2>9, <2>10, <2>11
<1> QED
  BY <1>1, <1>2

\* The steps of the control thread that leave the connections alone.
LEMMA ControlStepKeepsLife ==
  ASSUME LifeInv, StartInWrongState \/ StartDownload \/ LeaveLoop
  PROVE  LifeInv'
<1> USE ThreadFacts
<1>1. CASE StartInWrongState
  BY <1>1, FailKeepsLife DEF StartInWrongState, Faults
<1>2. CASE StartDownload \/ LeaveLoop
  <2> USE DEF LifeInv, traceVars, lifeVars, overlayVars, netVars, clientVars
  <2>1. /\ control = "run" /\ Idle("control")
        /\ control' \in {"done", "run"} /\ (control' = "run" => state = "Playing")
        /\ requested' \in 0..MaxRequests /\ pending' \in 0..MaxRequests /\ reqs' \in {reqs, "used"}
        /\ UNCHANGED <<overlayVars, traceVars, lifeVars, state, arrived, httpVec, mpd, client, cb,
                       recordedAtClose, fault, netVars>>
    <3>1. CASE StartDownload
      BY <3>1 DEF StartDownload, NewRequest, LifeTypes
    <3>2. CASE LeaveLoop
      BY <3>2 DEF LeaveLoop, LifeTypes
    <3> QED
      BY <1>2, <3>1, <3>2
  <2>2. LifeTypes'
    BY <2>1 DEF LifeTypes, TracesTypeOK
  <2>3. StateFollowsMain' /\ TracesStayGone' /\ OverlayStaysGone'
    BY <2>1 DEF StateFollowsMain, ControlIsGone, TracesStayGone, TracesAreGone, FilesAreGone,
                OverlayStaysGone, OverlayIsGone
  <2>4. EndedThreadsAreIdle' /\ ConnectionsAreKept'
    BY <2>1 DEF EndedThreadsAreIdle, Idle, ClientIsGone, ConnectionsAreKept, Connection
  <2> QED
    BY <2>2, <2>3, <2>4
<1> QED
  BY <1>1, <1>2

LEMMA ProcessEventKeepsLife ==
  ASSUME LifeInv, ProcessEvent
  PROVE  LifeInv'
<1> USE ThreadFacts
<1> USE DEF LifeInv, lifeVars, overlayVars, netVars, clientVars
<1>1. /\ control = "run" /\ state = "Playing" /\ arrived # <<>>
      /\ httpRequests' = [httpRequests EXCEPT ![Connection] = Append(@, Head(arrived))]
      /\ arrived' = Tail(arrived) /\ mpd' = "loaded"
      /\ UNCHANGED <<logDir, files, created, recording, written>>
      /\ UNCHANGED <<overlayVars, lifeVars, state, control, reqs, httpVec, requested, clientVars,
                     recordedAtClose, fault, netVars>>
  BY DEF ProcessEvent, RecordRequest
<1>2. arrived' \in Seq(1..MaxRequests) /\ Head(arrived) \in 1..MaxRequests
  BY <1>1, HeadTailProperties DEF LifeTypes
<1>3. httpRequests' \in [Conn -> Seq(1..MaxRequests)]
  <2>1. httpRequests \in [Conn -> Seq(1..MaxRequests)]
    BY DEF LifeTypes, TracesTypeOK
  <2>2. CASE Connection \in Conn
    <3>1. Append(httpRequests[Connection], Head(arrived)) \in Seq(1..MaxRequests)
      BY <1>2, <2>1, <2>2, AppendProperties
    <3> QED
      BY <1>1, <2>1, <3>1
  <2>3. CASE Connection \notin Conn
    BY <1>1, <2>1, <2>3
  <2> QED
    BY <2>2, <2>3
<1>4. LifeTypes'
  BY <1>1, <1>2, <1>3 DEF LifeTypes, TracesTypeOK
<1>5. main \in {"open", "output", "control"}
  BY <1>1 DEF StateFollowsMain
<1>6. StateFollowsMain' /\ TracesStayGone' /\ OverlayStaysGone'
  BY <1>1, <1>5 DEF StateFollowsMain, TracesStayGone, TracesAreGone, FilesAreGone,
                    OverlayStaysGone, OverlayIsGone
<1>7. EndedThreadsAreIdle' /\ ConnectionsAreKept'
  BY <1>1 DEF EndedThreadsAreIdle, Idle, ClientIsGone, ConnectionsAreKept, Connection
<1> QED
  BY <1>4, <1>6, <1>7

LEMMA ReconnectKeepsLife ==
  ASSUME LifeInv, Reconnect
  PROVE  LifeInv'
<1> USE ThreadFacts
<1> USE DEF LifeInv, lifeVars, overlayVars, controlVars, clientVars
<1> DEFINE vec == Disconnected(Connection)
<1>1. /\ control = "run" /\ state = "Playing" /\ client = "run" /\ Connection < MaxConn
      /\ CreateConnection(vec, CloseSocket(Connection))
      /\ files' = files \ {TcpState(Connection)}
      /\ UNCHANGED <<logDir, created, recording, httpRequests, written>>
      /\ UNCHANGED <<overlayVars, lifeVars, controlVars, clientVars, srcVec, recordedAtClose, fault>>
  BY DEF Reconnect, UnregisterTcpConnection
<1>2. /\ connVec \in Seq({"alive", "null"}) /\ connVec # <<>>
      /\ sockets = {c \in DOMAIN connVec : connVec[c] = "alive"}
  BY <1>1 DEF LifeTypes, TracesTypeOK, ConnectionsAreKept
<1>3. /\ Connection \in 1..Len(connVec) /\ DOMAIN connVec = 1..Len(connVec)
      /\ Len(connVec) \in Nat
  BY <1>2, EmptySeq, LenProperties DEF Connection
<1>4. vec \in Seq({"alive", "null"}) /\ Len(vec) = Len(connVec) /\ DOMAIN vec = DOMAIN connVec
      /\ vec[Connection] = "null" /\ \A c \in DOMAIN connVec : c # Connection => vec[c] = connVec[c]
  <2>1. /\ [connVec EXCEPT ![Connection] = "null"] \in Seq({"alive", "null"})
        /\ Len([connVec EXCEPT ![Connection] = "null"]) = Len(connVec)
    BY <1>2, <1>3, ExceptSeq
  <2> QED
    BY <1>2, <1>3, <2>1 DEF Disconnected
<1> HIDE DEF vec
<1>5. CloseSocket(Connection) = {c \in DOMAIN vec : vec[c] = "alive"}
  BY <1>2, <1>3, <1>4 DEF CloseSocket
<1>6. /\ connVec' \in Seq({"alive", "null"}) /\ Len(connVec') <= MaxConn
      /\ sockets' \subseteq Conn
      /\ sockets' = {c \in DOMAIN connVec' : connVec'[c] = "alive"}
      /\ connVec' # <<>> /\ connVec'[Len(connVec')] = "alive"
  <2>1. Len(vec) < MaxConn
    BY <1>1, <1>4 DEF Connection
  <2> QED
    BY <1>1, <1>4, <1>5, <2>1, AppendedConnection
<1>7. LifeTypes'
  BY <1>1, <1>6 DEF LifeTypes, TracesTypeOK
<1>8. main \in {"open", "output", "control"}
  BY <1>1 DEF StateFollowsMain
<1>9. StateFollowsMain' /\ TracesStayGone' /\ OverlayStaysGone'
  BY <1>1, <1>8 DEF StateFollowsMain, TracesStayGone, TracesAreGone, FilesAreGone,
                    OverlayStaysGone, OverlayIsGone
<1>10. EndedThreadsAreIdle' /\ ConnectionsAreKept'
  BY <1>1, <1>6, <1>8 DEF EndedThreadsAreIdle, Idle, ClientIsGone, ConnectionsAreKept, Connection
<1> QED
  BY <1>7, <1>9, <1>10

-----------------------------------------------------------------------------
(* The thread of the HTTP client *)

LEMMA HttpKeepsLife ==
  ASSUME LifeInv, HttpThread
  PROVE  LifeInv'
<1> USE ThreadFacts
<1>1. CASE \E where \in Faults : Fail(where)
  BY <1>1, FailKeepsLife
<1>2. CASE /\ CompleteRequest /\ client = "run" /\ pending' = 0 /\ cb' \in {pending, 0}
           /\ UNCHANGED <<overlayVars, traceVars, lifeVars, controlVars, client,
                          recordedAtClose, fault, netVars>>
  <2> USE DEF LifeInv, traceVars, lifeVars, overlayVars, controlVars, netVars
  <2>1. LifeTypes'
    BY <1>2 DEF LifeTypes, TracesTypeOK
  <2>2. StateFollowsMain' /\ TracesStayGone' /\ OverlayStaysGone'
    BY <1>2 DEF StateFollowsMain, ControlIsGone, TracesStayGone, TracesAreGone, FilesAreGone,
                OverlayStaysGone, OverlayIsGone
  <2>3. EndedThreadsAreIdle' /\ ConnectionsAreKept'
    BY <1>2 DEF EndedThreadsAreIdle, Idle, ClientIsGone, ConnectionsAreKept, Connection
  <2> QED
    BY <2>1, <2>2, <2>3
<1>3. CASE CompleteHead
  <2> USE DEF LifeInv, lifeVars, overlayVars, controlVars, netVars
  <2>1. /\ recording \in [Recorders -> [file : AllFiles \cup {<<>>}, open : BOOLEAN]]
        /\ <<"sizes">> \in AllFiles /\ <<"sizes">> \in ClientFiles
    BY DEF LifeTypes, TracesTypeOK, AllFiles, ClientFiles, FilesOf, Kinds
  <2> DEFINE record == [file |-> <<"sizes">>, open |-> <<"sizes">> \in files]
  <2>2. record \in [file : AllFiles \cup {<<>>}, open : BOOLEAN] /\ record.file = <<"sizes">>
    BY <2>1
  <2> HIDE DEF record
  <2>3. /\ client = "run" /\ state = "Playing" /\ pending' = 0
        /\ UNCHANGED <<logDir, files, created, httpRequests, written>>
        /\ recording' = recording \/ recording' = [recording EXCEPT !["http"] = record]
        /\ UNCHANGED <<overlayVars, lifeVars, controlVars, client, cb, recordedAtClose, fault, netVars>>
    BY <1>3 DEF CompleteHead, StartRecord, traceVars, record
  <2>4. /\ recording' \in [Recorders -> [file : AllFiles \cup {<<>>}, open : BOOLEAN]]
        /\ \A t \in Recorders \ {"http"} : recording'[t] = recording[t]
        /\ recording'["http"] = recording["http"] \/ recording'["http"] = record
    BY <2>1, <2>2, <2>3
  <2>5. LifeTypes'
    BY <2>3, <2>4 DEF LifeTypes, TracesTypeOK
  <2>6. StateFollowsMain' /\ OverlayStaysGone' /\ ConnectionsAreKept'
    BY <2>3 DEF StateFollowsMain, ControlIsGone, OverlayStaysGone, OverlayIsGone,
                ConnectionsAreKept, Connection
  <2>7. TracesStayGone' /\ EndedThreadsAreIdle'
    BY <2>1, <2>2, <2>3, <2>4 DEF TracesStayGone, TracesAreGone, FilesAreGone,
       EndedThreadsAreIdle, Idle, ClientIsGone
  <2> QED
    BY <2>5, <2>6, <2>7
<1>4. CASE /\ cb # 0 /\ state # "Dead" /\ arrived' = Append(arrived, cb) /\ cb' = 0
           /\ UNCHANGED <<overlayVars, traceVars, lifeVars, state, control, reqs, httpVec, mpd,
                          requested, client, pending, recordedAtClose, fault, netVars>>
  <2> USE DEF LifeInv, traceVars, lifeVars, overlayVars, netVars
  <2>1. cb \in 1..MaxRequests /\ arrived' \in Seq(1..MaxRequests)
    BY <1>4, AppendProperties DEF LifeTypes
  <2>2. LifeTypes'
    BY <1>4, <2>1 DEF LifeTypes, TracesTypeOK
  <2>3. StateFollowsMain' /\ TracesStayGone' /\ OverlayStaysGone'
    BY <1>4 DEF StateFollowsMain, ControlIsGone, TracesStayGone, TracesAreGone, FilesAreGone,
                OverlayStaysGone, OverlayIsGone
  <2>4. EndedThreadsAreIdle' /\ ConnectionsAreKept'
    BY <1>4 DEF EndedThreadsAreIdle, Idle, ClientIsGone, ConnectionsAreKept, Connection
  <2> QED
    BY <2>2, <2>3, <2>4
<1> QED
  BY <1>1, <1>2, <1>3, <1>4 DEF HttpThread, CompleteRequest, PushEvent, Faults

-----------------------------------------------------------------------------
(* Close *)

\* The requests of the connections, whatever they are.
LEMMA ListedRequests ==
  ASSUME LifeTypes, NEW c \in Conn
  PROVE  {httpRequests[c][i] : i \in DOMAIN httpRequests[c]} \subseteq 1..MaxRequests
<1>1. httpRequests[c] \in Seq(1..MaxRequests)
  BY DEF LifeTypes, TracesTypeOK
<1>2. \A i \in DOMAIN httpRequests[c] : httpRequests[c][i] \in 1..MaxRequests
  BY <1>1, LenProperties
<1> QED
  BY <1>2

LEMMA CloseKeepsLife ==
  ASSUME LifeInv, Close
  PROVE  LifeInv'
<1> USE ThreadFacts
<1> USE DEF LifeInv, overlayVars, controlVars, clientVars, netVars
<1>1. /\ main = "open" /\ main' = "output" /\ Idle("vlc")
      /\ recordedAtClose' = UNION {{httpRequests[c][i] : i \in DOMAIN httpRequests[c]} : c \in Conn}
      /\ UNCHANGED <<logDir, files, created, httpRequests, written>>
      /\ recording' = recording
         \/ recording' = [recording EXCEPT !["main"] =
                            [file |-> <<"scalar">>, open |-> <<"scalar">> \in files]]
      /\ UNCHANGED <<overlayVars, opens, withOverlay, controlVars, clientVars, fault, netVars>>
  BY DEF Close, Step, StartRecord, traceVars
<1>2. recordedAtClose' \subseteq 1..MaxRequests
  BY <1>1, ListedRequests
<1>3. recording \in [Recorders -> [file : AllFiles \cup {<<>>}, open : BOOLEAN]]
  BY DEF LifeTypes, TracesTypeOK
<1>4. <<"scalar">> \in AllFiles
  BY DEF AllFiles, FilesOf, Kinds
<1>5. /\ recording' \in [Recorders -> [file : AllFiles \cup {<<>>}, open : BOOLEAN]]
      /\ \A t \in Recorders \ {"main"} : recording'[t] = recording[t]
  <2> DEFINE record == [file |-> <<"scalar">>, open |-> <<"scalar">> \in files]
  <2>1. record \in [file : AllFiles \cup {<<>>}, open : BOOLEAN]
    BY <1>4
  <2> HIDE DEF record
  <2>2. recording' = recording \/ recording' = [recording EXCEPT !["main"] = record]
    BY <1>1 DEF record
  <2> QED
    BY <1>3, <2>1, <2>2
<1>6. LifeTypes'
  BY <1>1, <1>2, <1>5 DEF LifeTypes, TracesTypeOK
<1>7. StateFollowsMain' /\ TracesStayGone' /\ OverlayStaysGone'
  BY <1>1, <1>5 DEF StateFollowsMain, ControlIsGone, TracesStayGone, TracesAreGone, FilesAreGone,
                    OverlayStaysGone, OverlayIsGone
<1>8. EndedThreadsAreIdle' /\ ConnectionsAreKept'
  BY <1>1, <1>5 DEF EndedThreadsAreIdle, Idle, ClientIsGone, ConnectionsAreKept, Connection
<1> QED
  BY <1>6, <1>7, <1>8

LEMMA OutputKeepsLife ==
  ASSUME LifeInv, OutputStatistics
  PROVE  LifeInv'
<1> USE ThreadFacts
<1>1. CASE Fail("nullConnection")
  BY <1>1, FailKeepsLife DEF Faults
<1>2. CASE ~Fail("nullConnection")
  <2> USE DEF LifeInv, overlayVars, controlVars, clientVars, netVars, traceVars
  <2>1. /\ main = "output" /\ Idle("main")
        /\ \/ OutputRequests /\ main' = main
           \/ main' = "control" /\ UNCHANGED traceVars
        /\ UNCHANGED <<overlayVars, opens, withOverlay, controlVars, clientVars,
                       recordedAtClose, fault, netVars>>
    BY <1>2 DEF OutputStatistics
  <2>2. UNCHANGED <<logDir, files, created, recording, httpRequests>>
    BY <2>1 DEF OutputRequests
  <2>3. written' \in [Conn -> SUBSET (1..MaxRequests)]
    <3>1. written \in [Conn -> SUBSET (1..MaxRequests)]
      BY DEF LifeTypes, TracesTypeOK
    <3>2. CASE OutputRequests
      <4>1. PICK c \in NextToWrite :
              written' = [written EXCEPT ![c] = {httpRequests[c][i] : i \in DOMAIN httpRequests[c]}]
        BY <3>2 DEF OutputRequests
      <4>2. c \in Conn => {httpRequests[c][i] : i \in DOMAIN httpRequests[c]} \subseteq 1..MaxRequests
        BY ListedRequests
      <4> QED
        BY <3>1, <4>1, <4>2
    <3> QED
      BY <2>1, <3>1, <3>2
  <2>4. LifeTypes'
    BY <2>1, <2>2, <2>3 DEF LifeTypes, TracesTypeOK
  <2>5. StateFollowsMain' /\ TracesStayGone' /\ OverlayStaysGone'
    BY <2>1, <2>2 DEF StateFollowsMain, ControlIsGone, TracesStayGone, TracesAreGone, FilesAreGone,
                OverlayStaysGone, OverlayIsGone
  <2>6. EndedThreadsAreIdle' /\ ConnectionsAreKept'
    BY <2>1, <2>2 DEF EndedThreadsAreIdle, Idle, ClientIsGone, ConnectionsAreKept, Connection
  <2> QED
    BY <2>4, <2>5, <2>6
<1> QED
  BY <1>1, <1>2

\* Control's thread has been joined when its mutexes go.
LEMMA ControlCleanUpKeepsLife ==
  ASSUME LifeInv, Terminate \/ CleanUpControl
  PROVE  LifeInv'
<1> USE DEF LifeInv, overlayVars, traceVars, clientVars, netVars, Step
<1>1. CASE Terminate
  <2> USE <1>1 DEF Terminate
  <2>1. LifeTypes'
    BY DEF LifeTypes, TracesTypeOK
  <2>2. StateFollowsMain' /\ TracesStayGone' /\ OverlayStaysGone'
    BY DEF StateFollowsMain, TracesStayGone, TracesAreGone, FilesAreGone,
           OverlayStaysGone, OverlayIsGone
  <2>3. EndedThreadsAreIdle' /\ ConnectionsAreKept'
    BY DEF EndedThreadsAreIdle, Idle, ClientIsGone, ConnectionsAreKept, Connection
  <2> QED
    BY <2>1, <2>2, <2>3
<1>2. CASE CleanUpControl
  <2> USE <1>2 DEF CleanUpControl, CleanUpRequests
  <2>1. LifeTypes'
    BY EmptySeq DEF LifeTypes, TracesTypeOK
  <2>2. StateFollowsMain' /\ TracesStayGone' /\ OverlayStaysGone'
    BY DEF StateFollowsMain, ControlIsGone, TracesStayGone, TracesAreGone, FilesAreGone,
           OverlayStaysGone, OverlayIsGone
  <2>3. EndedThreadsAreIdle' /\ ConnectionsAreKept'
    BY DEF EndedThreadsAreIdle, Idle, ClientIsGone, ConnectionsAreKept, Connection
  <2> QED
    BY <2>1, <2>2, <2>3
<1> QED
  BY <1>1, <1>2

LEMMA StatisticsCleanUpKeepsLife ==
  ASSUME LifeInv, CleanUpStatistics
  PROVE  LifeInv'
<1> USE DEF LifeInv, overlayVars, controlVars, clientVars, netVars, Step
<1>1. /\ UNCHANGED <<overlayVars, opens, withOverlay, controlVars, clientVars, recordedAtClose,
                     fault, netVars>>
      /\ UNCHANGED <<created, recording, written>>
      /\ \/ /\ main = "statistics" /\ main' = "files"
            /\ logDir' = FALSE /\ httpRequests' = [c \in Conn |-> <<>>] /\ files' = files
         \/ /\ main = "files" /\ main' = "overlay"
            /\ files' = {} /\ UNCHANGED <<logDir, httpRequests>>
  BY DEF CleanUpStatistics, EraseLogDir, CloseFiles
<1>2. LifeTypes'
  <2>1. httpRequests' \in [Conn -> Seq(1..MaxRequests)]
    BY <1>1, EmptySeq DEF LifeTypes, TracesTypeOK
  <2>2. logDir' \in BOOLEAN /\ files' \subseteq AllFiles
    BY <1>1 DEF LifeTypes, TracesTypeOK
  <2>3. TracesTypeOK'
    BY <1>1, <2>1, <2>2 DEF LifeTypes, TracesTypeOK
  <2> QED
    BY <1>1, <2>3 DEF LifeTypes
<1>3. StateFollowsMain'
  BY <1>1 DEF StateFollowsMain, ControlIsGone
<1>4. TracesStayGone' /\ OverlayStaysGone'
  BY <1>1 DEF TracesStayGone, TracesAreGone, FilesAreGone, OverlayStaysGone, OverlayIsGone
<1>5. EndedThreadsAreIdle' /\ ConnectionsAreKept'
  BY <1>1 DEF EndedThreadsAreIdle, Idle, ClientIsGone, ConnectionsAreKept, Connection
<1> QED
  BY <1>2, <1>3, <1>4, <1>5

LEMMA OverlayCleanUpKeepsLife ==
  ASSUME LifeInv, CleanUpOverlay
  PROVE  LifeInv'
<1> USE DEF LifeInv, traceVars, controlVars, clientVars, netVars, Step
<1>1. /\ UNCHANGED <<traceVars, opens, withOverlay, controlVars, clientVars, recordedAtClose,
                     fault, netVars, printing>>
      /\ \/ /\ main = "overlay" /\ main' = "clients" /\ ~withOverlay
            /\ UNCHANGED <<overlay, ovThread>>
         \/ /\ main = "overlay" /\ main' = "overlayJoin" /\ UNCHANGED <<overlay, ovThread>>
         \/ /\ main = "overlayJoin" /\ main' = "clients"
            /\ overlay' = "freed" /\ ovThread' = "none"
  BY DEF CleanUpOverlay, OverlayTerminate, OverlayFree, overlayVars, buffers
<1>2. LifeTypes'
  BY <1>1 DEF LifeTypes, TracesTypeOK
<1>3. StateFollowsMain' /\ TracesStayGone'
  BY <1>1 DEF StateFollowsMain, ControlIsGone, TracesStayGone, TracesAreGone, FilesAreGone
<1>4. OverlayStaysGone'
  BY <1>1 DEF OverlayStaysGone, OverlayIsGone
<1>5. EndedThreadsAreIdle' /\ ConnectionsAreKept'
  BY <1>1 DEF EndedThreadsAreIdle, Idle, ClientIsGone, ConnectionsAreKept, Connection
<1> QED
  BY <1>2, <1>3, <1>4, <1>5

\* The client's thread has been joined when the connections go.
LEMMA ManagersCleanUpKeepsLife ==
  ASSUME LifeInv, CleanUpClients \/ CleanUpManagers
  PROVE  LifeInv'
<1>1. CASE Fail("destructor")
  BY <1>1, FailKeepsLife DEF Faults
<1> USE DEF LifeInv, overlayVars, traceVars, netVars, Step
<1>2. CASE CleanUpClients /\ ~Fail("destructor")
  <2>1. /\ main = "clients" /\ main' = "managers" /\ client' = "none" /\ httpVec' = FALSE
        /\ client = "run" => cb = 0 /\ Idle("http")
        /\ UNCHANGED <<overlayVars, traceVars, opens, withOverlay, state, control, arrived,
                       reqs, mpd, requested, cb, pending, recordedAtClose, fault, netVars>>
    BY <1>2 DEF CleanUpClients, ClientJoins
  <2>2. LifeTypes'
    BY <2>1 DEF LifeTypes, TracesTypeOK
  <2>3. StateFollowsMain' /\ TracesStayGone' /\ OverlayStaysGone'
    BY <2>1 DEF StateFollowsMain, ControlIsGone, TracesStayGone, TracesAreGone, FilesAreGone,
                OverlayStaysGone, OverlayIsGone
  <2>4. client \in {"none", "run"}
    BY DEF LifeTypes
  <2>5. EndedThreadsAreIdle' /\ ConnectionsAreKept'
    BY <2>1, <2>4 DEF EndedThreadsAreIdle, Idle, ClientIsGone, ConnectionsAreKept, Connection
  <2> QED
    BY <2>2, <2>3, <2>5
<1>3. CASE CleanUpManagers
  <2> USE DEF clientVars
  <2>1. /\ main = "managers" /\ main' = "closed"
        /\ connVec' = <<>> /\ srcVec' = <<>> /\ sockets' = {c \in sockets : connVec[c] # "alive"}
        /\ mpd' \in {mpd, "dangling"}
        /\ UNCHANGED <<overlayVars, logDir, files, created, recording, httpRequests, written,
                       opens, withOverlay, state, control, arrived, reqs,
                       httpVec, requested, clientVars, recordedAtClose, fault>>
    BY <1>3 DEF CleanUpManagers, CleanUpConnections, CleanUpSources
  <2>2. sockets' = {} /\ client = "none" /\ control = "none"
    BY <2>1 DEF ConnectionsAreKept, EndedThreadsAreIdle, ClientIsGone, StateFollowsMain, LifeTypes
  <2>3. LifeTypes'
    BY <2>1, <2>2, EmptySeq, ThreadFacts DEF LifeTypes, TracesTypeOK
  <2>4. StateFollowsMain' /\ TracesStayGone' /\ OverlayStaysGone'
    BY <2>1 DEF StateFollowsMain, ControlIsGone, TracesStayGone, TracesAreGone, FilesAreGone,
                OverlayStaysGone, OverlayIsGone
  <2>5. EndedThreadsAreIdle' /\ ConnectionsAreKept'
    BY <2>1, <2>2 DEF EndedThreadsAreIdle, Idle, ClientIsGone, ConnectionsAreKept, Connection
  <2> QED
    BY <2>3, <2>4, <2>5
<1> QED
  BY <1>1, <1>2, <1>3

-----------------------------------------------------------------------------
(* The theorem *)

LEMMA LifeBegins == PluginInit => LifeInv
<1> SUFFICES ASSUME PluginInit PROVE LifeInv
  OBVIOUS
<1> USE ThreadFacts DEF PluginInit, TracesAbsent, OverlayAbsent
<1>1. LifeTypes
  <2>1. recording \in [Recorders -> [file : AllFiles \cup {<<>>}, open : BOOLEAN]]
    BY DEF NoRecord
  <2>2. httpRequests \in [Conn -> Seq(1..MaxRequests)] /\ written \in [Conn -> SUBSET (1..MaxRequests)]
    BY EmptySeq
  <2>3. connVec \in Seq({"alive", "null"}) /\ Len(connVec) <= MaxConn
    BY EmptySeq
  <2>4. TracesTypeOK
    BY <2>1, <2>2, <2>3 DEF TracesTypeOK
  <2>5. arrived \in Seq(1..MaxRequests) /\ srcVec \in Seq({"server"})
    BY EmptySeq
  <2>6. opens \in 0..MaxOpens /\ cb \in 0..MaxRequests /\ pending \in 0..MaxRequests
        /\ requested \in 0..MaxRequests
    OBVIOUS
  <2>7. withOverlay \in BOOLEAN /\ httpVec \in BOOLEAN
    OBVIOUS
  <2>8. fault \in Faults
    BY DEF Faults
  <2> QED
    BY <2>4, <2>5, <2>6, <2>7, <2>8 DEF LifeTypes
<1>2. StateFollowsMain /\ EndedThreadsAreIdle
  BY DEF StateFollowsMain, ControlIsGone, EndedThreadsAreIdle, Idle
<1>3. TracesStayGone /\ OverlayStaysGone /\ ConnectionsAreKept
  BY DEF TracesStayGone, OverlayStaysGone, ConnectionsAreKept
<1> QED
  BY <1>1, <1>2, <1>3 DEF LifeInv

LEMMA LifeGoesOn == LifeInv /\ OverlayInv /\ [PluginNext]_allVars => LifeInv'
<1> SUFFICES ASSUME LifeInv, OverlayInv, [PluginNext]_allVars PROVE LifeInv'
  OBVIOUS
<1>1. CASE UNCHANGED allVars
  <2> USE <1>1 DEF allVars, overlayVars, traceVars, pluginVars, lifeVars, controlVars, clientVars,
                   netVars, LifeInv
  <2>1. LifeTypes'
    BY DEF LifeTypes, TracesTypeOK
  <2>2. StateFollowsMain' /\ EndedThreadsAreIdle' /\ TracesStayGone' /\ OverlayStaysGone'
    BY DEF StateFollowsMain, ControlIsGone, EndedThreadsAreIdle, Idle, ClientIsGone,
           TracesStayGone, TracesAreGone, FilesAreGone, OverlayStaysGone, OverlayIsGone
  <2>3. ConnectionsAreKept'
    BY DEF ConnectionsAreKept, Connection
  <2> QED
    BY <2>1, <2>2, <2>3
<1>2. ASSUME NEW t \in Recorders, BeginRecord(t) \/ FinishRecord(t) PROVE LifeInv'
  BY <1>2, BeginRecordKeepsLife, FinishRecordKeepsLife
<1>3. ASSUME NEW t \in Printers, BeginPrint(t) \/ FinishPrint(t) PROVE LifeInv'
  BY <1>3, PrintKeepsLife
<1>4. CASE OverlayStep
  BY <1>4, OverlayStepKeepsLife
<1>5. CASE Open
  BY <1>5, OpenKeepsLife
<1>6. CASE ControlThread
  BY <1>6, StartPlaybackKeepsLife, ControlStepKeepsLife, ProcessEventKeepsLife, ReconnectKeepsLife
  DEF ControlThread
<1>7. CASE HttpThread
  BY <1>7, HttpKeepsLife
<1>8. CASE Close
  BY <1>8, CloseKeepsLife
<1>9. CASE CloseStep
  BY <1>9, OutputKeepsLife, ControlCleanUpKeepsLife, StatisticsCleanUpKeepsLife,
     OverlayCleanUpKeepsLife, ManagersCleanUpKeepsLife DEF CloseStep
<1> QED
  BY <1>1, <1>2, <1>3, <1>4, <1>5, <1>6, <1>7, <1>8, <1>9 DEF PluginNext

LEMMA LifeHolds == PluginSpec => [](LifeInv /\ OverlayInv)
<1>1. PluginInit => LifeInv /\ OverlayInv
  BY LifeBegins, AbsentInv DEF PluginInit
<1>2. LifeInv /\ OverlayInv /\ [PluginNext]_allVars => LifeInv' /\ OverlayInv'
  BY LifeGoesOn, PluginKeeps
<1> QED
  BY <1>1, <1>2, PTL DEF PluginSpec

-----------------------------------------------------------------------------
(* The trace of the requests *)

\* A request that Close() found is in the trace of its connection, or listed for a
\* connection that outputStatistics() has still to come to.
NothingLost ==
  /\ main = "open" => \A c \in Conn : written[c] = {}
  /\ main = "output" /\ logDir =>
       \A req \in recordedAtClose :
         \E c \in Conn :
           \/ req \in written[c]
           \/ written[c] = {} /\ \E i \in DOMAIN httpRequests[c] : httpRequests[c][i] = req
  /\ logDir /\ main \in {"control", "join", "statistics"} =>
       \A req \in recordedAtClose : \E c \in Conn : req \in written[c]

\* The control thread only adds to what is listed.
LEMMA ListsGrow ==
  ASSUME LifeInv, ProcessEvent, NEW c \in Conn, NEW i \in DOMAIN httpRequests[c]
  PROVE  i \in DOMAIN httpRequests'[c] /\ httpRequests'[c][i] = httpRequests[c][i]
<1>1. /\ httpRequests \in [Conn -> Seq(1..MaxRequests)]
      /\ httpRequests' = [httpRequests EXCEPT ![Connection] = Append(@, Head(arrived))]
      /\ arrived # <<>> /\ arrived \in Seq(1..MaxRequests)
  BY DEF LifeInv, LifeTypes, TracesTypeOK, ProcessEvent, RecordRequest
<1>2. CASE c # Connection
  BY <1>1, <1>2
<1>3. CASE c = Connection
  <2>1. Head(arrived) \in 1..MaxRequests
    BY <1>1, HeadTailProperties
  <2>2. httpRequests[c] \in Seq(1..MaxRequests)
    BY <1>1
  <2>3. httpRequests'[c] = Append(httpRequests[c], Head(arrived))
    BY <1>1, <1>3
  <2> QED
    BY <2>1, <2>2, <2>3, AppendProperties, LenProperties
<1> QED
  BY <1>2, <1>3

LEMMA OutputLosesNothing ==
  ASSUME LifeInv, NothingLost, OutputStatistics
  PROVE  NothingLost'
<1>1. CASE Fail("nullConnection")
  BY <1>1 DEF Fail, traceVars, lifeVars, NothingLost
<1>2. CASE main' = "control" /\ ToWrite = {} /\ UNCHANGED <<traceVars, recordedAtClose>>
  <2>1. /\ main = "output" /\ main' = "control"
        /\ UNCHANGED <<logDir, written, httpRequests, recordedAtClose>>
    BY <1>2 DEF OutputStatistics, traceVars
  <2>2. SUFFICES ASSUME logDir, NEW req \in recordedAtClose
                 PROVE  \E c \in Conn : req \in written[c]
    BY <2>1 DEF NothingLost
  <2>3. PICK c \in Conn :
          \/ req \in written[c]
          \/ written[c] = {} /\ \E i \in DOMAIN httpRequests[c] : httpRequests[c][i] = req
    BY <2>1, <2>2 DEF NothingLost
  <2>4. written[c] = {} => httpRequests[c] = <<>>
    BY <1>2, <2>2 DEF ToWrite
  <2>5. httpRequests[c] = <<>> => DOMAIN httpRequests[c] = {}
    OBVIOUS
  <2> QED
    BY <2>3, <2>4, <2>5
<1>3. CASE main' = main /\ OutputRequests /\ UNCHANGED recordedAtClose
  <2>1. PICK c \in ToWrite :
          written' = [written EXCEPT ![c] = {httpRequests[c][i] : i \in DOMAIN httpRequests[c]}]
    BY <1>3 DEF OutputRequests, NextToWrite
  <2>2. /\ c \in Conn /\ written[c] = {} /\ written \in [Conn -> SUBSET (1..MaxRequests)]
        /\ main = "output" /\ UNCHANGED <<main, logDir, httpRequests, recordedAtClose>>
    BY <1>3 DEF ToWrite, LifeInv, LifeTypes, TracesTypeOK, OutputStatistics, OutputRequests
  <2>3. /\ \A d \in Conn : d # c => written'[d] = written[d]
        /\ written'[c] = {httpRequests[c][i] : i \in DOMAIN httpRequests[c]}
    BY <2>1, <2>2
  <2>4. SUFFICES ASSUME logDir, NEW req \in recordedAtClose
                 PROVE  \E d \in Conn :
                          \/ req \in written'[d]
                          \/ written'[d] = {} /\ \E i \in DOMAIN httpRequests[d] :
                                                   httpRequests[d][i] = req
    BY <2>2 DEF NothingLost
  <2>5. PICK d \in Conn :
          \/ req \in written[d]
          \/ written[d] = {} /\ \E i \in DOMAIN httpRequests[d] : httpRequests[d][i] = req
    BY <2>2, <2>4 DEF NothingLost
  <2> QED
    BY <2>2, <2>3, <2>5
<1> QED
  BY <1>1, <1>2, <1>3 DEF OutputStatistics, netVars

LEMMA NothingLostGoesOn ==
  LifeInv /\ NothingLost /\ [PluginNext]_allVars => NothingLost'
<1> SUFFICES ASSUME LifeInv, NothingLost, [PluginNext]_allVars PROVE NothingLost'
  OBVIOUS
<1>1. CASE UNCHANGED <<main, logDir, written, httpRequests, recordedAtClose>>
  BY <1>1 DEF NothingLost
<1>2. CASE ProcessEvent
  <2>1. UNCHANGED <<main, logDir, written, recordedAtClose>>
    BY <1>2 DEF ProcessEvent, RecordRequest, lifeVars
  <2>2. \A c \in Conn : \A req : \A i \in DOMAIN httpRequests[c] :
          httpRequests[c][i] = req => \E j \in DOMAIN httpRequests'[c] : httpRequests'[c][j] = req
    BY <1>2, ListsGrow
  <2> QED
    BY <2>1, <2>2 DEF NothingLost
<1>3. CASE Open
  <2>1. \/ UNCHANGED <<main, logDir, written, httpRequests, recordedAtClose>>
        \/ main' = "open" /\ written' = [c \in Conn |-> {}]
    BY <1>3 DEF Open, Fail, TracesInit, traceVars, lifeVars
  <2> QED
    BY <1>1, <2>1 DEF NothingLost
<1>4. CASE Close
  <2>1. /\ main = "open" /\ main' = "output"
        /\ recordedAtClose' = UNION {{httpRequests[c][i] : i \in DOMAIN httpRequests[c]} : c \in Conn}
        /\ UNCHANGED <<logDir, written, httpRequests>>
    BY <1>4 DEF Close, Step, StartRecord, traceVars
  <2> QED
    BY <2>1 DEF NothingLost
<1>5. CASE CloseStep
  <2>1. CASE OutputStatistics
    BY <2>1, OutputLosesNothing
  <2>2. CASE Terminate \/ CleanUpControl
    BY <2>2 DEF Terminate, CleanUpControl, Step, NothingLost, traceVars
  <2>3. CASE CleanUpStatistics
    BY <2>3 DEF CleanUpStatistics, Step, NothingLost, EraseLogDir, CloseFiles
  <2>4. CASE CleanUpOverlay
    BY <2>4 DEF CleanUpOverlay, Step, NothingLost
  <2>5. CASE CleanUpClients \/ CleanUpManagers
    BY <2>5 DEF CleanUpClients, CleanUpManagers, Fail, Step, NothingLost, traceVars, lifeVars
  <2> QED
    BY <1>5, <2>1, <2>2, <2>3, <2>4, <2>5 DEF CloseStep
<1>6. ASSUME NEW t \in Recorders, BeginRecord(t) \/ FinishRecord(t)
      PROVE  UNCHANGED <<main, logDir, written, httpRequests, recordedAtClose>>
  BY <1>6 DEF BeginRecord, FinishRecord, StartRecord, PrepareFile, Write, Fail, pluginVars,
              lifeVars, traceVars
<1>7. ASSUME NEW t \in Printers, BeginPrint(t) \/ FinishPrint(t)
      PROVE  UNCHANGED <<main, logDir, written, httpRequests, recordedAtClose>>
  BY <1>7 DEF BeginPrint, FinishPrint, Fail, pluginVars, lifeVars, traceVars
<1>8. CASE OverlayStep
  BY <1>1, <1>8 DEF OverlayStep, pluginVars, lifeVars, traceVars
<1>9. CASE ControlThread
  <2>1. CASE StartInWrongState \/ StartPlayback
    BY <1>1, <2>1 DEF StartInWrongState, StartPlayback, ServerUnknown, Fail, lifeVars, traceVars
  <2>2. CASE StartDownload \/ Reconnect \/ LeaveLoop
    BY <1>1, <2>2 DEF StartDownload, Reconnect, LeaveLoop, UnregisterTcpConnection, lifeVars,
                      traceVars
  <2> QED
    BY <1>2, <1>9, <2>1, <2>2 DEF ControlThread
<1>10. CASE HttpThread
  BY <1>1, <1>10 DEF HttpThread, CompleteRequest, CompleteHead, StartRecord, PushEvent, Fail,
                     lifeVars, traceVars
<1>11. CASE UNCHANGED allVars
  BY <1>1, <1>11 DEF allVars, pluginVars, lifeVars, traceVars
<1> QED
  BY <1>1, <1>2, <1>3, <1>4, <1>5, <1>6, <1>7, <1>8, <1>9, <1>10, <1>11 DEF PluginNext

\* Whatever the control thread completes while Close() writes the statistics, and
\* however many connections there were: when control is joined, each request that
\* Statistics knew at the beginning of Close() is in a file.
THEOREM NoRequestIsLost == PluginSpec => []TracesAreComplete
<1>1. PluginInit => NothingLost
  BY DEF PluginInit, TracesAbsent, NothingLost
<1>2. LifeInv /\ NothingLost => TracesAreComplete
  BY DEF NothingLost, TracesAreComplete
<1> QED
  BY <1>1, <1>2, LifeHolds, NothingLostGoesOn, PTL DEF PluginSpec

\* However the steps of Close() interleave with the threads of VLC, of Control, of the
\* HTTP client and of the overlay: a running client has its connection and its server,
\* a socket is open exactly while its connection is there, the threads of VLC and of
\* Control are in no record and no print when the traces and the overlay go, and a
\* closed plug-in has left nothing that the next Open() would find, but the files of
\* connections.
THEOREM UsersEndFirst == PluginSpec => []ComponentsOutliveTheirUsers
<1>1. LifeInv /\ OverlayInv => ComponentsOutliveTheirUsers
  <2> SUFFICES ASSUME LifeInv, OverlayInv PROVE ComponentsOutliveTheirUsers
    OBVIOUS
  <2> USE ThreadFacts DEF LifeInv
  <2>1. PluginTypeOK
    BY DEF LifeTypes, OverlayInv, PluginTypeOK
  <2>2. state = "Dead" <=> ControlIsGone
    BY DEF StateFollowsMain, ControlIsGone, LifeTypes
  <2>3. ASSUME ControlIsGone
        PROVE  /\ control = "none" /\ arrived = <<>>
               /\ \A t \in Recorders : recording[t] # NoRecord => t = "http"
               /\ \A t \in Printers : printing[t] # Nothing => t = "http"
    BY <2>2, <2>3 DEF ControlIsGone, StateFollowsMain, EndedThreadsAreIdle, Idle
  <2>4. ASSUME main = "closed"
        PROVE  /\ client = "none" /\ cb = 0 /\ ovThread = "none" /\ overlay # "up"
               /\ connVec = <<>> /\ sockets = {} /\ srcVec = <<>> /\ ~logDir
               /\ files \subseteq ClientFiles
    <3>1. client = "none" /\ cb = 0
      BY <2>4 DEF EndedThreadsAreIdle, ClientIsGone
    <3>2. ovThread = "none" /\ overlay # "up"
      BY <2>4 DEF OverlayStaysGone, OverlayIsGone
    <3>3. connVec = <<>> /\ sockets = {} /\ srcVec = <<>>
      BY <2>4 DEF ConnectionsAreKept
    <3>4. ~logDir /\ files \subseteq ClientFiles
      BY <2>4 DEF TracesStayGone, TracesAreGone, FilesAreGone
    <3> QED
      BY <3>1, <3>2, <3>3, <3>4
  <2>5. main = "closed" => httpRequests = [c \in Conn |-> <<>>]
    BY DEF TracesStayGone, TracesAreGone, LifeTypes, TracesTypeOK
  <2>6. overlay = "freed" => ovThread = "none"
    BY DEF OverlayStaysGone
  <2> QED
    BY <2>1, <2>3, <2>4, <2>5, <2>6 DEF ComponentsOutliveTheirUsers, ControlIsGone,
       ConnectionsAreKept
<1> QED
  BY <1>1, LifeHolds, PTL
-----------------------------------------------------------------------------
(* Where the process may end *)

\* A record that is begun: of a kind of its thread, with the directory set unless the
\* client's thread does it, and into a file that is open, or that nobody has created.
RecordIsSafe(t) ==
  recording[t] # NoRecord =>
    /\ \/ recording[t].file = <<"scalar">> /\ recording[t].open /\ t # "http"
       \/ recording[t].file[1] \in KindsOf[t] \ {"scalar"}
    /\ recording[t].file[1] \in Flags
    /\ logDir \/ t = "http"
    /\ logDir /\ recording[t].open => recording[t].file \in files
    /\ ~recording[t].open => recording[t].file \notin created

\* The file of the scalars is open from the start, and what has been created is open
\* unless it belongs to a connection that was replaced.
FilesAreKept ==
  /\ \A t \in Recorders : RecordIsSafe(t)
  /\ logDir /\ "scalar" \in Flags => <<"scalar">> \in files
  /\ logDir => \A file \in created \ files : \E c \in 1..(Connection - 1) : file = TcpState(c)
  /\ opens = 0 => main = "closed" /\ files = {}

\* Completed requests are listed for connections that exist, of which the last is open,
\* and while the player plays a client has a table of requests.
RequestsAreListed ==
  /\ \A c \in Conn : httpRequests[c] # <<>> => c <= Connection
  /\ connVec # <<>> => connVec[Connection] = "alive"
  /\ control = "run" => connVec # <<>>
  /\ client = "run" /\ state = "Playing" => reqs = "used"
  /\ control = "starting" => srcVec = <<>>

\* A print that is begun finds the overlay, unless the client's thread is left.
PrintsAreKept ==
  /\ initialized => overlay = "up"
  /\ \A t \in Printers :
       printing[t] # Nothing => overlay = "up" \/ (t = "http" /\ state = "Dead")

FaultInv == FilesAreKept /\ RequestsAreListed /\ PrintsAreKept

\* The kind of a file is its first component.
LEMMA FileKinds ==
  /\ \A kind : \A file \in FilesOf(kind) : file[1] = kind
  /\ <<"scalar">>[1] = "scalar" /\ <<"sizes">>[1] = "sizes"
  /\ \A c : TcpState(c)[1] = "tcp"
BY DEF FilesOf, TcpState

LEMMA AllIdle ==
  ASSUME LifeInv
  PROVE  /\ main = "closed" => \A t \in Recorders : recording[t] = NoRecord
         /\ main = "closed" => \A t \in Printers : printing[t] = Nothing
         /\ TracesAreGone => \A t \in Recorders : recording[t] # NoRecord => t = "http"
         /\ main \in {"overlay", "overlayJoin"} =>
              state = "Dead" /\ \A t \in Printers : printing[t] # Nothing => t = "http"
         /\ Connection \in Nat
<1>1. Connection \in Nat
  BY LenProperties DEF LifeInv, LifeTypes, TracesTypeOK, Connection
<1>2. main \in {"statistics", "files", "overlay", "overlayJoin", "clients", "managers", "closed"} =>
        state = "Dead" /\ control = "none"
  BY DEF LifeInv, LifeTypes, StateFollowsMain
<1> QED
  BY <1>1, <1>2, ThreadFacts DEF LifeInv, EndedThreadsAreIdle, Idle, ClientIsGone, TracesAreGone

LEMMA FilesFrame ==
  ASSUME LifeInv, FilesAreKept, UNCHANGED <<logDir, files, created, recording>>,
         UNCHANGED <<opens, main>> \/ (opens # 0 /\ opens' = opens),
         UNCHANGED connVec \/ Connection' >= Connection \/ ~logDir,
         Connection' \in Nat
  PROVE  FilesAreKept'
<1>1. Connection \in Nat
  BY AllIdle
<1>2. logDir => 1..(Connection - 1) \subseteq 1..(Connection' - 1)
  BY <1>1 DEF Connection
<1> QED
  BY <1>2 DEF FilesAreKept, RecordIsSafe

\* A file that is not open has not been created, or belongs to a replaced connection.
LEMMA BeginRecordKeepsFiles ==
  ASSUME LifeInv, FilesAreKept, NEW t \in Recorders, BeginRecord(t)
  PROVE  FilesAreKept'
<1> USE ThreadFacts
<1>1. PICK kind \in KindsOf[t] \ {"sizes"} : \E file \in FilesOf(kind) :
        (kind = "tcp" => file = TcpState(Connection)) /\ StartRecord(t, file)
  BY DEF BeginRecord
<1>2. PICK file \in FilesOf(kind) :
        (kind = "tcp" => file = TcpState(Connection)) /\ StartRecord(t, file)
  BY <1>1
<1> DEFINE record == [file |-> file, open |-> file \in files]
<1>3. /\ logDir /\ file[1] \in Flags /\ file[1] = kind /\ main # "closed"
      /\ recording' = [recording EXCEPT ![t] = record]
      /\ UNCHANGED <<logDir, files, created, opens, main, connVec>>
  <2>1. main # "closed"
    BY DEF BeginRecord, Runs, LifeInv, EndedThreadsAreIdle, StateFollowsMain, ClientIsGone,
           ControlIsGone, LifeTypes
  <2> QED
    BY <1>2, <2>1, FileKinds DEF StartRecord, BeginRecord, pluginVars, lifeVars, netVars
<1>4. record.file = file /\ (record.open <=> file \in files)
  OBVIOUS
<1> HIDE DEF record
<1>5. recording'[t] = record /\ \A u \in Recorders : u # t => recording'[u] = recording[u]
  BY <1>3 DEF LifeInv, LifeTypes, TracesTypeOK
<1>6. file \notin files => file \notin created
  <2> SUFFICES ASSUME file \notin files, file \in created PROVE FALSE
    OBVIOUS
  <2>1. PICK c \in 1..(Connection - 1) : file = TcpState(c)
    BY <1>3 DEF FilesAreKept
  <2>2. kind = "tcp"
    BY <1>3, <2>1, FileKinds
  <2>3. TcpState(c) = TcpState(Connection)
    BY <1>2, <2>1, <2>2
  <2> QED
    BY <2>1, <2>3, AllIdle DEF TcpState
<1>7. \/ file = <<"scalar">> /\ file \in files /\ t # "http"
      \/ file[1] \in KindsOf[t] \ {"scalar"}
  <2>1. CASE kind = "scalar"
    BY <1>2, <1>3, <2>1 DEF FilesOf, FilesAreKept
  <2>2. CASE kind # "scalar"
    BY <1>3, <2>2
  <2> QED
    BY <2>1, <2>2
<1>8. RecordIsSafe(t)'
  BY <1>3, <1>4, <1>5, <1>6, <1>7 DEF RecordIsSafe
<1>9. \A u \in Recorders : u # t => RecordIsSafe(u)'
  BY <1>3, <1>5 DEF FilesAreKept, RecordIsSafe
<1> QED
  BY <1>3, <1>8, <1>9 DEF FilesAreKept, Connection

LEMMA FinishRecordKeepsFiles ==
  ASSUME LifeInv, FilesAreKept, NEW t \in Recorders, PrepareFile(t) \/ Write(t),
         UNCHANGED <<opens, main, connVec>>
  PROVE  FilesAreKept'
<1> USE ThreadFacts
<1>1. recording \in [Recorders -> [file : AllFiles \cup {<<>>}, open : BOOLEAN]]
  BY DEF LifeInv, LifeTypes, TracesTypeOK
<1>2. CASE Write(t)
  <2>1. /\ UNCHANGED <<logDir, files, created>>
        /\ recording'[t] = NoRecord
        /\ \A u \in Recorders : u # t => recording'[u] = recording[u]
    BY <1>1, <1>2 DEF Write
  <2> QED
    BY <2>1 DEF FilesAreKept, RecordIsSafe, Connection
<1>3. CASE PrepareFile(t)
  <2> DEFINE opened == [recording[t] EXCEPT !.open = TRUE]
             file == recording[t].file
  <2>1. opened.file = file /\ opened.open = TRUE
    BY <1>1, OpenedRecord
  <2>2. recording' = [recording EXCEPT ![t] = opened]
    BY <1>3, Zenon DEF PrepareFile
  <2> HIDE DEF opened
  <2>3. /\ recording[t] # NoRecord /\ ~recording[t].open /\ file \notin created
        /\ files' = files \cup {file} /\ created' = created \cup {file}
        /\ UNCHANGED logDir
        /\ recording'[t] = opened
        /\ \A u \in Recorders : u # t => recording'[u] = recording[u]
    BY <1>1, <1>3, <2>2 DEF PrepareFile, MustPrepare
  <2> HIDE DEF file
  <2>4. RecordIsSafe(t)'
    BY <2>1, <2>3 DEF FilesAreKept, RecordIsSafe, file
  <2>5. ASSUME NEW u \in Recorders, u # t
        PROVE  RecordIsSafe(u)'
    <3>1. SUFFICES ASSUME recording[u] # NoRecord, ~recording[u].open
                   PROVE  recording[u].file # file
      BY <2>3, <2>5 DEF FilesAreKept, RecordIsSafe
    <3>2. file[1] \in KindsOf[t] \ {"scalar"} /\ recording[u].file[1] \in KindsOf[u] \ {"scalar"}
      BY <2>3, <3>1 DEF FilesAreKept, RecordIsSafe, file
    <3> QED
      BY <2>5, <3>2
  <2>6. opens # 0 /\ main # "closed"
    BY <2>3, AllIdle DEF FilesAreKept
  <2> QED
    BY <2>3, <2>4, <2>5, <2>6 DEF FilesAreKept, Connection
<1> QED
  BY <1>2, <1>3

\* A record that does not name a connection's file.
LEMMA OtherRecordKeepsFiles ==
  ASSUME LifeInv, FilesAreKept, NEW t \in Recorders, NEW kind \in {"scalar", "sizes"},
         kind = "scalar" => t # "http", kind = "sizes" => t = "http" /\ kind \in KindsOf[t],
         StartRecord(t, <<kind>>), opens # 0, UNCHANGED <<opens, connVec>>
  PROVE  FilesAreKept'
<1> DEFINE record == [file |-> <<kind>>, open |-> <<kind>> \in files]
<1>1. /\ logDir /\ kind \in Flags
      /\ recording' = [recording EXCEPT ![t] = record]
      /\ UNCHANGED <<logDir, files, created>>
  BY DEF StartRecord
<1>2. record.file = <<kind>> /\ (record.open <=> <<kind>> \in files) /\ <<kind>>[1] = kind
  OBVIOUS
<1> HIDE DEF record
<1>3. recording'[t] = record /\ \A u \in Recorders : u # t => recording'[u] = recording[u]
  BY <1>1 DEF LifeInv, LifeTypes, TracesTypeOK
<1>4. <<kind>> \notin files => <<kind>> \notin created
  BY <1>1, <1>2, FileKinds DEF FilesAreKept
<1>5. kind = "scalar" => <<kind>> \in files
  BY <1>1 DEF FilesAreKept
<1>6. RecordIsSafe(t)'
  BY <1>1, <1>2, <1>3, <1>4, <1>5 DEF RecordIsSafe
<1>7. \A u \in Recorders : u # t => RecordIsSafe(u)'
  BY <1>1, <1>3 DEF FilesAreKept, RecordIsSafe
<1> QED
  BY <1>1, <1>6, <1>7 DEF FilesAreKept, Connection

\* Only Open() creates files by itself.
LEMMA OpenKeepsFiles ==
  ASSUME LifeInv, FilesAreKept, Open
  PROVE  FilesAreKept'
<1>1. CASE Fail("statisticsInUse")
  BY <1>1, FilesFrame, AllIdle DEF Fail, traceVars, lifeVars, netVars, Connection
<1>2. CASE ~Fail("statisticsInUse")
  <2>1. PICK dir \in BOOLEAN : TracesInit(dir)
    BY <1>2 DEF Open
  <2>2. main = "closed" /\ opens' = opens + 1 /\ UNCHANGED <<connVec, recording>>
    BY <1>2, <2>1 DEF Open, netVars, TracesInit
  <2>3. opens' # 0
    BY <2>2 DEF LifeInv, LifeTypes
  <2>4. \A t \in Recorders : recording'[t] = NoRecord
    BY <2>2, AllIdle
  <2> QED
    BY <2>1, <2>3, <2>4 DEF FilesAreKept, RecordIsSafe, TracesInit
<1> QED
  BY <1>1, <1>2

LEMMA ControlKeepsFiles ==
  ASSUME LifeInv, LifeInv', FilesAreKept, ControlThread
  PROVE  FilesAreKept'
<1>1. Connection \in Nat /\ Connection' \in Nat
  BY AllIdle, LenProperties DEF LifeInv, LifeTypes, TracesTypeOK, Connection
<1>2. CASE UNCHANGED <<traceVars, lifeVars, connVec>>
  BY <1>1, <1>2, FilesFrame DEF traceVars, lifeVars
<1>3. CASE CreateConnection(connVec, sockets) /\ UNCHANGED <<traceVars, lifeVars>>
  <2>1. Connection' = Connection + 1
    BY <1>3, AppendProperties DEF CreateConnection, Connection, LifeInv, LifeTypes, TracesTypeOK
  <2> QED
    BY <1>1, <1>3, <2>1, FilesFrame DEF traceVars, lifeVars
<1>4. CASE ProcessEvent
  BY <1>1, <1>4, FilesFrame DEF ProcessEvent, RecordRequest, lifeVars, netVars
<1>5. CASE Reconnect
  <2>1. /\ client = "run" /\ Idle("http") /\ main # "closed"
        /\ files' = files \ {TcpState(Connection)}
        /\ CreateConnection(Disconnected(Connection), CloseSocket(Connection))
        /\ UNCHANGED <<logDir, created, recording, opens, main>>
    BY <1>5 DEF Reconnect, ClientJoins, UnregisterTcpConnection, lifeVars, LifeInv,
                EndedThreadsAreIdle, ClientIsGone
  <2>2. Connection' = Connection + 1
    <3>1. connVec \in Seq({"alive", "null"}) /\ connVec # <<>>
      BY <2>1 DEF LifeInv, LifeTypes, TracesTypeOK, ConnectionsAreKept
    <3>2. Connection \in 1..Len(connVec)
      BY <3>1, EmptySeq, LenProperties DEF Connection
    <3>3. /\ Disconnected(Connection) \in Seq({"alive", "null"})
          /\ Len(Disconnected(Connection)) = Len(connVec)
      BY <3>1, <3>2, ExceptSeq DEF Disconnected
    <3> QED
      BY <2>1, <3>3, AppendProperties DEF CreateConnection, Connection
  <2>3. ASSUME NEW t \in Recorders PROVE RecordIsSafe(t)'
    <3>1. recording[t] # NoRecord => recording[t].file # TcpState(Connection)
      <4> SUFFICES ASSUME recording[t] # NoRecord, recording[t].file = TcpState(Connection)
                   PROVE  FALSE
        OBVIOUS
      <4>1. t # "http"
        BY <2>1 DEF Idle
      <4>2. recording[t].file[1] \in KindsOf[t] \/ recording[t].file[1] = "scalar"
        BY FileKinds DEF FilesAreKept, RecordIsSafe
      <4>3. "tcp" \in KindsOf[t]
        BY <4>2, FileKinds
      <4> QED
        BY <4>1, <4>3, ThreadFacts
    <3> QED
      BY <2>1, <3>1 DEF FilesAreKept, RecordIsSafe
  <2>4. <<"scalar">> # TcpState(Connection)
    BY FileKinds
  <2>5. \A c \in 1..(Connection - 1) : c \in 1..(Connection' - 1)
    BY <1>1, <2>2
  <2>6. \A file \in created' \ files' : file \in created \ files \/ file = TcpState(Connection)
    BY <2>1
  <2>7. logDir => Connection \in 1..(Connection' - 1)
    BY <2>1, <2>2, EmptySeq, LenProperties
       DEF Connection, LifeInv, LifeTypes, TracesTypeOK, ConnectionsAreKept
  <2>8. logDir => \A file \in created' \ files' : \E c \in 1..(Connection' - 1) : file = TcpState(c)
    BY <2>5, <2>6, <2>7 DEF FilesAreKept
  <2> QED
    BY <2>1, <2>3, <2>4, <2>8 DEF FilesAreKept
<1> QED
  BY <1>2, <1>3, <1>4, <1>5 DEF ControlThread, StartInWrongState, StartPlayback, ServerUnknown,
     StartDownload, LeaveLoop, Fail, netVars

LEMMA CloseKeepsFiles ==
  ASSUME LifeInv, FilesAreKept, CloseStep
  PROVE  FilesAreKept'
<1>1. Connection \in Nat
  BY AllIdle
<1>2. main # "closed" /\ opens # 0 /\ opens' = opens
  BY DEF CloseStep, OutputStatistics, Terminate, CleanUpControl, CleanUpStatistics, CleanUpOverlay,
     CleanUpClients, CleanUpManagers, Step, Fail, lifeVars, FilesAreKept
<1>3. CASE UNCHANGED <<logDir, files, created, recording, connVec>>
  BY <1>1, <1>2, <1>3, FilesFrame DEF Connection
<1>4. CASE CleanUpStatistics
  <2>1. UNCHANGED <<created, recording>> /\ ~logDir'
        /\ \A t \in Recorders : recording[t] # NoRecord => t = "http"
    <3>1. CASE main = "statistics" /\ EraseLogDir
      <4>1. state = "Dead" /\ control = "none"
        BY <3>1 DEF LifeInv, StateFollowsMain, LifeTypes
      <4> QED
        BY <3>1, <4>1, ThreadFacts DEF EraseLogDir, LifeInv, EndedThreadsAreIdle, Idle
    <3>2. CASE main = "files" /\ CloseFiles
      BY <3>2, AllIdle DEF CloseFiles, LifeInv, TracesStayGone, TracesAreGone
    <3> QED
      BY <1>4, <3>1, <3>2 DEF CleanUpStatistics, Step
  <2> QED
    BY <1>2, <2>1 DEF FilesAreKept, RecordIsSafe
<1>5. CASE CleanUpManagers
  <2>1. ~logDir /\ UNCHANGED <<logDir, files, created, recording>> /\ connVec' = <<>>
    BY <1>5 DEF CleanUpManagers, CleanUpConnections, Step, traceVars, LifeInv, TracesStayGone,
                TracesAreGone
  <2> QED
    BY <1>2, <2>1 DEF FilesAreKept, RecordIsSafe
<1> QED
  BY <1>3, <1>4, <1>5 DEF CloseStep, OutputStatistics, OutputRequests, Terminate, CleanUpControl,
     CleanUpOverlay, CleanUpClients, Fail, traceVars, netVars

LEMMA HttpKeepsFiles ==
  ASSUME LifeInv, FilesAreKept, HttpThread
  PROVE  FilesAreKept'
<1>1. CASE UNCHANGED <<traceVars, lifeVars, netVars>>
  <2>1. Connection' = Connection /\ Connection \in Nat
    BY <1>1, AllIdle DEF netVars, Connection
  <2> QED
    BY <1>1, <2>1, FilesFrame DEF traceVars, lifeVars, netVars
<1>2. CASE CompleteHead /\ StartRecord("http", <<"sizes">>)
  <2>1. opens # 0 /\ UNCHANGED <<opens, connVec>> /\ "sizes" \in KindsOf["http"]
    BY <1>2, ThreadFacts
       DEF CompleteHead, lifeVars, netVars, FilesAreKept, LifeInv, EndedThreadsAreIdle, ClientIsGone
  <2> QED
    BY <1>2, <2>1, ThreadFacts, OtherRecordKeepsFiles
<1> QED
  BY <1>1, <1>2 DEF HttpThread, CompleteRequest, CompleteHead, PushEvent, Fail

LEMMA FilesGoOn ==
  ASSUME LifeInv, LifeInv', FilesAreKept, [PluginNext]_allVars
  PROVE  FilesAreKept'
<1>1. CASE UNCHANGED <<traceVars, lifeVars, netVars>>
  <2>1. Connection' = Connection /\ Connection \in Nat
    BY <1>1, AllIdle DEF netVars, Connection
  <2> QED
    BY <1>1, <2>1, FilesFrame DEF traceVars, lifeVars, netVars
<1>2. ASSUME NEW t \in Recorders, BeginRecord(t) \/ FinishRecord(t) PROVE FilesAreKept'
  <2>1. CASE BeginRecord(t)
    BY <2>1, BeginRecordKeepsFiles
  <2>2. CASE PrepareFile(t) \/ Write(t)
    BY <1>2, <2>1, <2>2, FinishRecordKeepsFiles DEF FinishRecord, Fail, pluginVars, lifeVars, netVars
  <2> QED
    BY <1>1, <1>2, <2>1, <2>2 DEF FinishRecord, Fail
<1>3. CASE Close
  <2>1. CASE StartRecord("main", <<"scalar">>)
    <3>1. opens # 0 /\ opens' = opens /\ UNCHANGED connVec /\ "main" \in Recorders
      BY <1>3, ThreadFacts DEF Close, Step, FilesAreKept, netVars
    <3> QED
      BY <2>1, <3>1, OtherRecordKeepsFiles
  <2>2. CASE UNCHANGED traceVars
    <3>1. opens # 0 /\ opens' = opens /\ UNCHANGED connVec
      BY <1>3 DEF Close, Step, FilesAreKept, netVars
    <3>2. Connection' = Connection /\ Connection \in Nat
      BY <3>1, AllIdle DEF Connection
    <3> QED
      BY <2>2, <3>1, <3>2, FilesFrame DEF traceVars
  <2> QED
    BY <1>3, <2>1, <2>2 DEF Close
<1>4. CASE Open
  BY <1>4, OpenKeepsFiles
<1>5. CASE ControlThread
  BY <1>5, ControlKeepsFiles
<1>6. CASE HttpThread
  BY <1>6, HttpKeepsFiles
<1>7. CASE CloseStep
  BY <1>7, CloseKeepsFiles
<1> QED
  BY <1>1, <1>2, <1>3, <1>4, <1>5, <1>6, <1>7
  DEF PluginNext, BeginPrint, FinishPrint, OverlayStep, Fail, pluginVars, allVars

\* What the overlay's thread and the threads that record and print leave alone.
LEMMA RequestsFrame ==
  ASSUME RequestsAreListed,
         UNCHANGED <<httpRequests, connVec, control, client, state, reqs, srcVec>>
  PROVE  RequestsAreListed'
BY DEF RequestsAreListed, Connection

LEMMA ControlKeepsRequests ==
  ASSUME LifeInv, LifeInv', RequestsAreListed, ControlThread
  PROVE  RequestsAreListed'
<1>1. Connection \in Nat /\ Connection' \in Nat
  BY AllIdle, LenProperties DEF LifeInv, LifeTypes, TracesTypeOK, Connection
<1>2. connVec \in Seq({"alive", "null"})
  BY DEF LifeInv, LifeTypes, TracesTypeOK
<1>3. CASE UNCHANGED <<httpRequests, connVec, control, client, state, reqs, srcVec>>
  BY <1>3, RequestsFrame
<1>4. CASE StartPlayback
  <2>1. CASE ServerUnknown
    BY <2>1, RequestsFrame DEF ServerUnknown, Fail, traceVars, controlVars, clientVars, netVars
  <2>2. CASE ~ServerUnknown
    <3>1. /\ connVec' = Append(connVec, "alive") /\ UNCHANGED <<httpRequests, state>>
          /\ (client' = "run" /\ reqs' = "used") \/ UNCHANGED <<client, reqs>>
          /\ control' # "starting"
      BY <1>4, <2>2 DEF StartPlayback, CreateConnection, CreateClient, NewRequest, traceVars
    <3>2. Connection' = Connection + 1 /\ connVec'[Connection'] = "alive" /\ connVec' # <<>>
      <4>1. Connection' = Connection + 1 /\ connVec'[Connection'] = "alive"
        BY <1>2, <3>1, AppendProperties DEF Connection
      <4>2. Len(<<>>) = 0
        OBVIOUS
      <4> QED
        BY <1>1, <4>1, <4>2 DEF Connection
    <3>3. \A c \in Conn : c <= Connection => c <= Connection'
      BY <1>1, <3>2 DEF Conn
    <3> QED
      BY <3>1, <3>2, <3>3 DEF RequestsAreListed
  <2> QED
    BY <2>1, <2>2
<1>5. CASE ProcessEvent
  <2>1. /\ httpRequests' = [httpRequests EXCEPT ![Connection] = Append(@, Head(arrived))]
        /\ UNCHANGED <<connVec, control, client, state, reqs, srcVec>>
    BY <1>5 DEF ProcessEvent, RecordRequest, netVars, clientVars
  <2>2. \A c \in Conn : httpRequests'[c] = httpRequests[c] \/ c = Connection
    BY <2>1 DEF LifeInv, LifeTypes, TracesTypeOK
  <2>3. \A c \in Conn : httpRequests'[c] # <<>> => c <= Connection
    BY <1>1, <2>2 DEF RequestsAreListed
  <2> QED
    BY <2>1, <2>3 DEF RequestsAreListed, Connection
<1>6. CASE Reconnect
  <2>1. /\ connVec # <<>> /\ Connection \in 1..Len(connVec)
        /\ connVec' = Append(Disconnected(Connection), "alive")
        /\ UNCHANGED <<httpRequests, control, client, state, reqs, srcVec>>
    <3>1. connVec # <<>>
      BY <1>6 DEF RequestsAreListed, Reconnect
    <3>2. Connection \in 1..Len(connVec)
      BY <1>2, <3>1, EmptySeq, LenProperties DEF Connection
    <3> QED
      BY <1>6, <3>1, <3>2
      DEF Reconnect, CreateConnection, UnregisterTcpConnection, controlVars, clientVars
  <2>2. /\ Disconnected(Connection) \in Seq({"alive", "null"})
        /\ Len(Disconnected(Connection)) = Len(connVec)
    BY <1>2, <2>1, ExceptSeq DEF Disconnected
  <2>3. Connection' = Connection + 1 /\ connVec'[Connection'] = "alive" /\ connVec' # <<>>
    <3>1. Connection' = Connection + 1 /\ connVec'[Connection'] = "alive"
      BY <2>1, <2>2, AppendProperties DEF Connection
    <3>2. Len(<<>>) = 0
      OBVIOUS
    <3> QED
      BY <1>1, <3>1, <3>2 DEF Connection
  <2>4. \A c \in Conn : c <= Connection => c <= Connection'
    BY <1>1, <2>3 DEF Conn
  <2> QED
    BY <2>1, <2>3, <2>4 DEF RequestsAreListed
<1>7. CASE StartDownload
  BY <1>7, AllIdle DEF StartDownload, NewRequest, RequestsAreListed, Connection, traceVars, netVars
<1>8. CASE LeaveLoop
  BY <1>8 DEF LeaveLoop, RequestsAreListed, Connection, traceVars, clientVars, netVars
<1> QED
  BY <1>3, <1>4, <1>5, <1>6, <1>7, <1>8
  DEF ControlThread, StartInWrongState, Fail, traceVars, controlVars, clientVars, netVars

LEMMA RequestsGoOn ==
  ASSUME LifeInv, LifeInv', RequestsAreListed, [PluginNext]_allVars
  PROVE  RequestsAreListed'
<1>1. CASE UNCHANGED <<httpRequests, connVec, control, client, state, reqs, srcVec>>
  BY <1>1, RequestsFrame
<1>2. CASE ControlThread
  BY <1>2, ControlKeepsRequests
<1>3. CASE Open
  <2>1. CASE Fail("statisticsInUse")
    BY <2>1, RequestsFrame DEF Fail, traceVars, controlVars, clientVars, netVars
  <2>2. CASE ~Fail("statisticsInUse")
    <3>1. /\ main = "closed" /\ control' = "starting"
          /\ UNCHANGED <<httpRequests, connVec, client, reqs, srcVec>>
      BY <1>3, <2>2 DEF Open, TracesInit, clientVars, netVars
    <3>2. client = "none" /\ srcVec = <<>>
      BY <3>1 DEF LifeInv, EndedThreadsAreIdle, ClientIsGone, ConnectionsAreKept
    <3> QED
      BY <3>1, <3>2 DEF RequestsAreListed, Connection
  <2> QED
    BY <2>1, <2>2
<1>4. CASE Terminate \/ CleanUpControl
  <2>1. /\ UNCHANGED <<httpRequests, connVec, client, srcVec>> /\ state' # "Playing"
        /\ control' \in {control, "none"}
    BY <1>4 DEF Terminate, CleanUpControl, traceVars, clientVars, netVars
  <2> QED
    BY <2>1 DEF RequestsAreListed, Connection
<1>5. CASE CleanUpStatistics
  <2>1. /\ UNCHANGED <<connVec, client, srcVec, state, control, reqs>>
        /\ \A c \in Conn : httpRequests'[c] = httpRequests[c] \/ httpRequests'[c] = <<>>
    BY <1>5 DEF CleanUpStatistics, EraseLogDir, CloseFiles, controlVars, clientVars, netVars
  <2> QED
    BY <2>1 DEF RequestsAreListed, Connection
<1>6. CASE CleanUpClients
  BY <1>6 DEF CleanUpClients, RequestsAreListed, Connection, Fail, traceVars, netVars, clientVars,
     controlVars
<1>7. CASE CleanUpManagers
  <2>1. /\ UNCHANGED <<httpRequests, client, state, control, reqs>>
        /\ connVec' = <<>> /\ srcVec' = <<>>
    BY <1>7 DEF CleanUpManagers, CleanUpConnections, CleanUpSources, traceVars, clientVars
  <2>2. /\ \A c \in Conn : httpRequests[c] = <<>>
        /\ state = "Dead" /\ control = "none"
    BY <1>7 DEF CleanUpManagers, Step, LifeInv, TracesStayGone, TracesAreGone, StateFollowsMain,
       LifeTypes
  <2> QED
    BY <2>1, <2>2 DEF RequestsAreListed
<1>8. ASSUME NEW t \in Recorders, BeginRecord(t) \/ FinishRecord(t) PROVE RequestsAreListed'
  BY <1>1, <1>8 DEF BeginRecord, FinishRecord, StartRecord, PrepareFile, Write, Fail, traceVars,
     pluginVars, controlVars, clientVars, netVars
<1> QED
  BY <1>1, <1>2, <1>3, <1>4, <1>5, <1>6, <1>7, <1>8
  DEF PluginNext, BeginPrint, FinishPrint, OverlayStep, Fail, HttpThread, CompleteRequest,
      CompleteHead, PushEvent, Close, CloseStep, OutputStatistics, OutputRequests, CleanUpOverlay,
      StartRecord, traceVars, pluginVars, controlVars, clientVars, netVars, allVars

\* The overlay may only be printed to after the handshake of its thread, and the thread of
\* Control has ended before it is freed.
LEMMA PrintsGoOn ==
  ASSUME LifeInv, OverlayInv, PrintsAreKept, [PluginNext]_allVars
  PROVE  PrintsAreKept'
<1> USE ThreadFacts
<1>1. CASE UNCHANGED <<initialized, overlay, printing>> /\ (state = "Dead" => state' = "Dead")
  BY <1>1 DEF PrintsAreKept
<1>2. ASSUME NEW t \in Printers, BeginPrint(t) \/ FinishPrint(t) PROVE PrintsAreKept'
  <2>1. printing \in [Printers -> [line : Lines \cup {0}, text : Texts \cup {-1}]]
    BY DEF OverlayInv, OverlayTypeOK
  <2>2. CASE BeginPrint(t)
    <3>1. /\ initialized /\ UNCHANGED <<initialized, overlay, state>>
          /\ \A u \in Printers : u # t => printing'[u] = printing[u]
      BY <2>1, <2>2 DEF BeginPrint, PrintEntry, flags, pluginVars, controlVars
    <3> QED
      BY <3>1 DEF PrintsAreKept
  <2>3. CASE PrintLine(t) /\ UNCHANGED <<traceVars, pluginVars>>
    <3>1. /\ UNCHANGED <<initialized, overlay, state>>
          /\ \A u \in Printers : u # t => printing'[u] = printing[u]
          /\ printing'[t] = Nothing
      BY <2>1, <2>3 DEF PrintLine, flags, pluginVars, controlVars
    <3> QED
      BY <3>1 DEF PrintsAreKept
  <2> QED
    BY <1>1, <1>2, <2>2, <2>3 DEF FinishPrint, Fail, overlayVars, controlVars
<1>3. CASE OverlayStep
  <2>1. UNCHANGED <<overlay, printing, state>>
    BY <1>3 DEF OverlayStep, OverlayThread, EnterThread, OpenPipes, ReadAck, LoopTop, Wake,
       SwapBuffers, SendLines, FilterOpens, FilterAnswers, flags, buffers, pluginVars, controlVars
  <2>2. overlay # "up" => ovThread = "none" /\ command = "none"
    BY DEF LifeInv, OverlayStaysGone, OverlayInv, CommandIsAwaited
  <2>3. initialized' => initialized \/ overlay = "up"
    BY <1>3, <2>2 DEF OverlayStep, OverlayThread, EnterThread, OpenPipes, ReadAck, LoopTop, Wake,
       SwapBuffers, SendLines, FilterOpens, FilterAnswers, flags, buffers
  <2> QED
    BY <2>1, <2>3 DEF PrintsAreKept
<1>4. CASE Open
  <2>1. CASE Fail("statisticsInUse")
    BY <1>1, <2>1 DEF Fail, overlayVars, controlVars
  <2>2. CASE ~Fail("statisticsInUse")
    <3>1. \/ /\ ~initialized' /\ \A t \in Printers : printing'[t] = Nothing
          \/ UNCHANGED overlayVars
      BY <1>4, <2>2 DEF Open, OverlayInit
    <3>2. main = "closed"
      BY <1>4 DEF Open
    <3>3. \A t \in Printers : printing[t] = Nothing
      BY <3>2, AllIdle
    <3> QED
      BY <3>1, <3>3 DEF PrintsAreKept, overlayVars
  <2> QED
    BY <2>1, <2>2
<1>5. CASE CleanUpOverlay
  <2>1. CASE OverlayFree
    <3>1. state = "Dead" /\ \A t \in Printers : printing[t] # Nothing => t = "http"
      BY <1>5, <2>1, AllIdle DEF CleanUpOverlay, Step
    <3>2. ~initialized' /\ UNCHANGED <<printing, state>>
      BY <1>5, <2>1 DEF CleanUpOverlay, OverlayFree, buffers, controlVars
    <3> QED
      BY <3>1, <3>2 DEF PrintsAreKept
  <2>2. CASE UNCHANGED <<initialized, overlay, printing>>
    BY <1>1, <1>5, <2>2 DEF CleanUpOverlay, controlVars
  <2> QED
    BY <1>5, <2>1, <2>2 DEF CleanUpOverlay, OverlayTerminate, buffers, overlayVars
<1>6. ASSUME NEW t \in Recorders, BeginRecord(t) \/ FinishRecord(t) PROVE PrintsAreKept'
  BY <1>1, <1>6 DEF BeginRecord, FinishRecord, Fail, overlayVars, pluginVars, controlVars
<1>7. CASE CloseStep
  BY <1>1, <1>5, <1>7
  DEF CloseStep, OutputStatistics, Terminate, CleanUpControl, CleanUpStatistics, CleanUpClients,
      CleanUpManagers, Fail, overlayVars, controlVars
<1>8. CASE ControlThread \/ HttpThread \/ Close \/ UNCHANGED allVars
  BY <1>1, <1>8
  DEF ControlThread, StartInWrongState, StartPlayback, ServerUnknown, ProcessEvent, StartDownload,
      Reconnect, LeaveLoop, HttpThread, CompleteRequest, CompleteHead, PushEvent, Close, Fail,
      overlayVars, controlVars, pluginVars, allVars
<1> QED
  BY <1>2, <1>3, <1>4, <1>6, <1>7, <1>8 DEF PluginNext

LEMMA FaultInvBegins == PluginInit => FaultInv
<1> SUFFICES ASSUME PluginInit PROVE FaultInv
  OBVIOUS
<1> USE ThreadFacts DEF PluginInit, TracesAbsent, OverlayAbsent
<1>1. FilesAreKept
  BY DEF FilesAreKept, RecordIsSafe
<1>2. RequestsAreListed /\ PrintsAreKept
  BY DEF RequestsAreListed, PrintsAreKept
<1> QED
  BY <1>1, <1>2 DEF FaultInv

LEMMA FaultInvGoesOn ==
  LifeInv /\ LifeInv' /\ OverlayInv /\ FaultInv /\ [PluginNext]_allVars => FaultInv'
BY FilesGoOn, RequestsGoOn, PrintsGoOn DEF FaultInv

\* What ends the process is one of the faults, and where: from a state of the invariant.
LEMMA RecordFaults ==
  ASSUME LifeInv, FilesAreKept, NEW t \in Recorders,
         FinishRecord(t), fault' # "none"
  PROVE  FaultsAreExplained'
<1> USE ThreadFacts
<1>1. /\ Running
      /\ recording \in [Recorders -> [file : AllFiles \cup {<<>>}, open : BOOLEAN]]
  BY DEF FinishRecord, LifeInv, LifeTypes, TracesTypeOK
<1>2. CASE PrepareFails(t)
  BY <1>2 DEF PrepareFails, MustPrepare, FilesAreKept, RecordIsSafe
<1>3. CASE Fail("rootDirectory") /\ PrepareMayFail(t)
  <2>1. ~logDir /\ recording["http"] # NoRecord
    BY <1>3 DEF PrepareMayFail, MustPrepare, FilesAreKept, RecordIsSafe
  <2> QED
    BY <1>3, <2>1 DEF Fail, traceVars, FaultsAreExplained
<1>4. CASE Fail("fileClosed") /\ WriteFails(t)
  <2>1. recording[t] # NoRecord
    BY <1>4 DEF WriteFails, NoRecord
  <2>2. ~logDir /\ recording["http"] # NoRecord
    BY <1>4, <2>1 DEF WriteFails, FilesAreKept, RecordIsSafe
  <2> QED
    BY <1>4, <2>2 DEF Fail, traceVars, FaultsAreExplained
<1>5. CASE Fail("sizesNotOpen") /\ PrepareSizesFails(t)
  <2>1. recording[t] # NoRecord /\ recording[t].file = <<"sizes">>
    BY <1>5 DEF PrepareSizesFails, NoRecord
  <2>2. <<"scalar">> # <<"sizes">>
    BY FileKinds
  <2>3. "sizes" \in Flags /\ "sizes" \in KindsOf[t]
    BY <2>1, <2>2, FileKinds DEF FilesAreKept, RecordIsSafe
  <2>4. t = "http"
    BY <2>3
  <2> QED
    BY <1>5, <2>1, <2>3, <2>4 DEF Fail, traceVars, FaultsAreExplained
<1> QED
  BY <1>1, <1>2, <1>3, <1>4, <1>5 DEF FinishRecord, Running, pluginVars

LEMMA OutputFaults ==
  ASSUME LifeInv, RequestsAreListed, OutputStatistics, fault' # "none"
  PROVE  FaultsAreExplained'
<1>1. OutputFails /\ Fail("nullConnection") /\ main = "output"
  BY DEF OutputStatistics, Running
<1>2. PICK c \in Conn : c \in NextToWrite /\ connVec[c] = "null"
  BY <1>1 DEF OutputFails, NextToWrite, ToWrite
<1>3. httpRequests[c] # <<>> /\ c <= Connection
  BY <1>2 DEF NextToWrite, ToWrite, RequestsAreListed
<1>4. Connection \in Nat /\ c \in Nat /\ c >= 1
  BY AllIdle, ThreadFacts DEF Conn
<1>5. connVec # <<>>
  <2>1. Len(<<>>) = 0
    OBVIOUS
  <2> QED
    BY <1>3, <1>4, <2>1 DEF Connection
<1>6. c # Connection
  BY <1>2, <1>5 DEF RequestsAreListed
<1>7. c \in 1..(Connection - 1)
  BY <1>3, <1>4, <1>6
<1> QED
  BY <1>1, <1>3, <1>7 DEF Fail, traceVars, lifeVars, netVars, Connection, FaultsAreExplained

LEMMA ControlFaults ==
  ASSUME LifeInv, RequestsAreListed, ControlThread, fault' # "none"
  PROVE  FaultsAreExplained'
<1>1. CASE StartInWrongState
  <2>1. state = "Terminating" /\ control = "starting"
    BY <1>1 DEF StartInWrongState, LifeInv, LifeTypes, StateFollowsMain
  <2> QED
    BY <1>1, <2>1 DEF StartInWrongState, Fail, controlVars, FaultsAreExplained
<1>2. CASE StartPlayback
  <2>1. ServerUnknown /\ control = "starting" /\ srcVec = <<>>
    BY <1>2 DEF StartPlayback, Running, RequestsAreListed
  <2> QED
    BY <2>1 DEF ServerUnknown, Fail, controlVars, netVars, FaultsAreExplained
<1> QED
  BY <1>1, <1>2 DEF ControlThread, ProcessEvent, StartDownload, Reconnect, LeaveLoop, Running

LEMMA ClientFaults ==
  ASSUME LifeInv, RequestsAreListed, HttpThread, fault' # "none"
  PROVE  FaultsAreExplained'
<1>1. client = "run" /\ state # "Playing"
  BY DEF HttpThread, CompleteRequest, CompleteHead, PushEvent, Running, RequestsAreListed,
     LifeInv, EndedThreadsAreIdle, LifeTypes
<1>2. fault' \in {"requestsDeleted", "mpdNotPlaying", "mutexDestroyed"} /\ Fail(fault')
  BY DEF HttpThread, CompleteRequest, CompleteHead, PushEvent, Running, Fail
<1> QED
  BY <1>1, <1>2 DEF Fail, controlVars, clientVars, FaultsAreExplained

LEMMA OpenFaults ==
  ASSUME LifeInv, FilesAreKept, Open, fault' # "none"
  PROVE  FaultsAreExplained'
<1>1. PICK dir \in BOOLEAN : InitFails(dir) /\ Fail("statisticsInUse")
  BY DEF Open, Running
<1>2. main = "closed"
  BY DEF Open
<1>3. ~logDir /\ \A c \in Conn : httpRequests[c] = <<>>
  BY <1>2 DEF LifeInv, TracesStayGone, TracesAreGone
<1>4. files # {} /\ opens # 0 /\ opens \in Nat
  BY <1>1, <1>3, ThreadFacts DEF InitFails, FilesAreKept, LifeInv, LifeTypes
<1> QED
  BY <1>1, <1>4 DEF Fail, lifeVars, traceVars, FaultsAreExplained

LEMMA PrintFaults ==
  ASSUME LifeInv, PrintsAreKept, NEW t \in Printers, FinishPrint(t), fault' # "none"
  PROVE  FaultsAreExplained'
<1>1. /\ overlay = "freed" /\ printing[t] # Nothing /\ Fail("overlayGone")
  BY DEF FinishPrint, Running, pluginVars
<1>2. state = "Dead" /\ printing["http"] # Nothing
  BY <1>1 DEF PrintsAreKept
<1> QED
  BY <1>1, <1>2 DEF Fail, controlVars, overlayVars, buffers, FaultsAreExplained

LEMMA FaultsExplainedStep ==
  ASSUME LifeInv, FaultInv, FaultsAreExplained, [PluginNext]_allVars
  PROVE  FaultsAreExplained'
<1>1. CASE UNCHANGED allVars
  BY <1>1 DEF allVars, overlayVars, traceVars, pluginVars, lifeVars, controlVars, clientVars,
     netVars, buffers, Connection, FaultsAreExplained
<1>2. CASE fault' = "none"
  BY <1>2 DEF FaultsAreExplained
<1>3. CASE PluginNext /\ fault' # "none"
  <2>1. ASSUME NEW t \in Recorders, BeginRecord(t) \/ FinishRecord(t)
        PROVE  FaultsAreExplained'
    BY <1>3, <2>1, RecordFaults DEF BeginRecord, Running, pluginVars, FaultInv
  <2>2. ASSUME NEW t \in Printers, BeginPrint(t) \/ FinishPrint(t)
        PROVE  FaultsAreExplained'
    BY <1>3, <2>2, PrintFaults DEF BeginPrint, Running, pluginVars, FaultInv
  <2>3. CASE CleanUpClients
    <3>1. Fail("destructor") /\ main = "clients" /\ pending # 0
      BY <1>3, <2>3 DEF CleanUpClients, Running
    <3> QED
      BY <3>1 DEF Fail, lifeVars, clientVars, FaultsAreExplained
  <2> QED
    BY <1>3, <2>1, <2>2, <2>3, OutputFaults, ControlFaults, ClientFaults, OpenFaults
    DEF PluginNext, FaultInv, OverlayStep, Close, CloseStep, Terminate, CleanUpControl,
        CleanUpStatistics, CleanUpOverlay, CleanUpManagers, Running, pluginVars
<1> QED
  BY <1>1, <1>2, <1>3

\* However many connections, requests, records, prints and openings there are, and however
\* the threads interleave: no print fails while the player is open, and no record but the
\* first of a segment's size if its flag is set; the threads of VLC and of Control never
\* use what Close() has taken, no file is created twice, and the process ends only where
\* FaultsAreExplained says.
THEOREM FaultsExplained == PluginSpec => []FaultsAreExplained
<1> DEFINE Inv == LifeInv /\ OverlayInv
           Kept == FaultInv /\ FaultsAreExplained
<1>1. PluginInit => Kept
  BY FaultInvBegins DEF PluginInit, FaultsAreExplained
<1>2. Inv /\ Inv' /\ Kept /\ [PluginNext]_allVars => Kept'
  BY FaultInvGoesOn, FaultsExplainedStep
<1>3. PluginSpec => []Inv
  BY LifeHolds
<1>4. Kept => FaultsAreExplained
  OBVIOUS
<1> QED
  BY <1>1, <1>2, <1>3, <1>4, PTL DEF PluginSpec
=============================================================================
