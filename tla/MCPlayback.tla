----------------------------- MODULE MCPlayback -----------------------------
\* Constants of Playback that a .cfg cannot spell.
EXTENDS Playback

\* A short MPD, a short init segment and longer media segments.
Sizes == [c \in Content |-> IF c \in Seg \ {0} THEN 4 ELSE 2]
=============================================================================
