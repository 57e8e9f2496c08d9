----------------------------- MODULE MCPowerUp ------------------------------
\* A memory of eight words of six bits, the index of a word having three.
EXTENDS PowerUp

MCFaults ==
    {[kind |-> "none"]}
    \cup {[kind |-> "address", line |-> k] : k \in 0 .. 2}
    \cup {[kind |-> "lane", lane |-> b, level |-> l] : b \in Lanes, l \in {0, 1}}
    \cup {[kind |-> "bit", word |-> a, lane |-> b, level |-> l] :
            a \in Words, b \in Lanes, l \in {0, 1}}
    \cup {[kind |-> "short", lane |-> b, level |-> l] : b \in 0 .. (Bits - 2), l \in {0, 1}}
=============================================================================
