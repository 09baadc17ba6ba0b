---------------------------- MODULE MCAdaptation ----------------------------
\* Constants of Adaptation that a .cfg cannot spell.
EXTENDS Adaptation

TwoRates == <<2, 5>>

\* The last segment is shorter.
ShortEnd == [q \in 1..2 |-> [s \in 1..LastSeg |-> IF s = LastSeg THEN 1 ELSE MaxDuration]]

\* The default configuration of ControlLogicST.
DefaultAlfa == <<75, 80, 80, 80, 90>>

Lowest == -1
=============================================================================
