------------------------------- MODULE MCSpi --------------------------------
\* Requests for Spi on devices of the real table.
EXTENDS Spi

\* Pieces of what board.c stores: across a page boundary of the devices with pages
\* of 264 bytes (code 12 among Codes), at the start of the u-boot area (inside a
\* page of those of 528 and 1056, codes 44 and 16), the last byte it erases, which
\* is the last of all on code 12, and the store of the test hook.  Code 36 is a part
\* the driver does not know: it refuses them all.
Store(a, b) == [kind |-> "store", addr |-> a, bytes |-> b]
Load(a, n) == [kind |-> "load", addr |-> a, bytes |-> [i \in 1 .. n |-> 0]]
MCRequests ==
    {Store(791, <<7, 255>>), Store(11352, <<90, 86>>), Store(135167, <<255>>),
     Store(2147483647, <<1>>), Load(11352, 2)}
MCWatched == {279, 790, 791, 792, 793, 11350, 11351, 11352, 11353, 11354, 135166, 135167}
MCFirst == [a \in MCWatched |-> 100 + (a % 7)]
=============================================================================
