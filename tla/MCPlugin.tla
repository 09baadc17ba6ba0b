------------------------------ MODULE MCPlugin ------------------------------
\* A small instance of the plug-in for TLC: with the overlay or with traces.
EXTENDS Plugin

MCLinesOf == [vlc |-> {1, 2}, http |-> {2}]
MCKindsOf == [vlc |-> {"scalar"}, control |-> {"scalar"}, http |-> {"tcp", "sizes"}, main |-> {}]
MCOptions == {<<TRUE, FALSE>>, <<FALSE, TRUE>>}
=============================================================================
