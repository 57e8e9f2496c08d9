------------------------------ MODULE MCBoard -------------------------------
\* Small boards for Board.
EXTENDS Board

CONSTANTS ff, junk, env, v1, v2, a, b, none

\* A loader of one cell; u-boots of one and two cells, one that cannot be
\* unpacked; a file that is neither.
OneLoader == {<<v1>>}
SmallPayloads == {<<a>>, <<a, b>>, <<b, b>>}
SmallFiles ==
    {[kind |-> "loader", data |-> <<v1>>],
     [kind |-> "uboot", data |-> <<a, b>>],
     [kind |-> "uboot", data |-> <<b, b>>],
     [kind |-> "uboot", data |-> <<a>>]}
OddFiles ==
    SmallFiles \cup {[kind |-> "uboot", data |-> <<a, b, b>>],
                    [kind |-> "other", data |-> <<b>>]}

\* The smallest board, for what depends on time and keys: payloads of one cell.
TinyPayloads == {<<a>>}
TinyFiles == {[kind |-> "loader", data |-> <<v1>>],
              [kind |-> "uboot", data |-> <<a>>],
              [kind |-> "uboot", data |-> <<a, a>>],
              [kind |-> "other", data |-> <<a>>]}
TinyDelivered ==
    {[x \in Addrs |->
        IF x = 0 THEN v1
        ELSE IF x < LoaderLen THEN ff
        ELSE IF x = UbootBase THEN Header(<<a>>)
        ELSE IF x = UbootBase + 1 THEN a
        ELSE env]}

\* The requests the board may make: whole images inside their areas.
BoardStores ==
    {[addr |-> 0, len |-> Len(l), image |-> Cells(l)] : l \in Loaders} \cup
    {[addr |-> LoaderLen, len |-> Len(p) + 1, image |-> UbootImage(p)] :
        p \in {q \in Payloads : Len(q) < UbootLen}} \cup
    {[addr |-> 0, len |-> Total, image |-> Blank]}
BoardLoads == {[addr |-> LoaderLen, len |-> UbootLen]}

\* Delivered with <<a, b>>.
Delivered ==
    {[x \in Addrs |->
        IF x = 0 THEN v1
        ELSE IF x < LoaderLen THEN ff
        ELSE IF x = UbootBase THEN Header(<<a, b>>)
        ELSE IF x = UbootBase + 1 THEN a
        ELSE IF x = UbootBase + 2 THEN b
        ELSE env]}
=============================================================================
