------------------------------ MODULE MCXmodem ------------------------------
\* Short files for Xmodem, with the CRC of the code.
EXTENDS Xmodem, SequencesExt

C16 == INSTANCE Crc16
\* The loop of crc16_ccitt; TLC evaluates a bound variable only once.
Round(crcs, b) ==
    UNION {{C16!Shifted(crc, e) : e \in {C16!Entry(crc, b)}} : crc \in crcs}
MCCrc(d) == CHOOSE crc \in FoldLeft(Round, {0}, d) : TRUE

\* Blocks of three bytes; the values are those of the protocol, on purpose.
F(bytes) == [k \in 1 .. Len(bytes) |-> <<bytes[k], 1, 4>>]
MCFiles ==
    {<<>>, F(<<4>>), F(<<1, 4, 6, 1, 4>>), F(<<5, 5, 5, 5, 5, 5, 5, 5, 5>>),
     F(<<1, 2, 3, 4, 5, 6, 7, 8, 9, 10>>)}
MCTyped == {<<>>, <<13>>}
=============================================================================
