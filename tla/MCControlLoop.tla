--------------------------- MODULE MCControlLoop ---------------------------
\* Constants of ControlLoop that a .cfg cannot spell.
EXTENDS ControlLoop

\* The request for the next segment may wait for an almost empty buffer.
ShortDelays == {1, NoDelay}
=============================================================================
