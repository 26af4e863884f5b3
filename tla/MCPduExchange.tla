---------------------------- MODULE MCPduExchange ----------------------------
\* Values of the constants of PduExchange for TLC.
EXTENDS PduExchange

MCHandles == {0, 1, 255, 256, 65535}
MCUuids == {<<40, 0>>, <<40, 3>>, <<1, 2, 3, 4, 5, 6, 7, 8, 9, 10, 11, 12, 13, 14, 15, 16>>}
MCSignature == <<1, 2, 3, 4, 5, 6, 7, 8, 9, 10, 11, 12>>

\* Empty, short, as long as the buffer less one header, and longer; and the two
\* sides of the length that an entry of a list may have (Longest).
MCValues == {[k \in 1..n |-> k] : n \in {0, 1, 3, 9, 18, 20, 22, 30, 250, 251}}
==============================================================================
