---------------------------- MODULE MCBootImage -----------------------------
\* A small area, files that fit and do not, and a little of everything before.
EXTENDS BootImage

CONSTANT Bytes

Area(bytes) == [len |-> 3, magic |-> HdrMagic, crc |-> 0, data |-> bytes \o <<0, 255>>]
\* Each entry of the table is the first to be used by one of them.
MCAreas ==
    {Area(<<b, x, y>>) : b \in 0 .. 255, x \in Bytes, y \in Bytes}
MCFiles ==
    {<<>>, <<90>>, <<90, 86>>, <<90, 86, 1>>, <<90, 0, 86>>, <<90, 86, 255, 0>>,
     <<90, 86, 0, 0, 7>>, <<90, 86, 0, 0, 7, 1>>}
\* One bit, both ends, all, and the lower part of the polynomial.
MCBursts == {1, 3, 32769, 4129, 65535, 34952}
MCLengths == {-1, 0, 2, 4, 5, 6, 2147483647}
=============================================================================
