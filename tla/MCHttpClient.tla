---------------------------- MODULE MCHttpClient ----------------------------
\* Constants of HttpClient that a .cfg cannot spell.
EXTENDS HttpClient

\* The server's keep-alive limit is not known: first connection to the source.
Unknown == -1

\* Every answer has a body that arrives in one piece.
OneUnit == [r \in Req |-> 1]

\* Bodies of one and two pieces.
OneOrTwoUnits == [r \in Req |-> 1 + (r % 2)]
=============================================================================
