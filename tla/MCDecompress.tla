---------------------------- MODULE MCDecompress ----------------------------
\* Images for Decompress: every kind of token, whole, padded, cut and damaged.
EXTENDS Decompress

Lit(bytes) == [lit |-> bytes]
Copy(off, len) == [off |-> off, len |-> len]
Lzf(tokens) == [kind |-> "lzf", tokens |-> tokens]
Raw(data) == [kind |-> "raw", data |-> data]

\* Copies that do and do not overlap, of each form of length; distances that need
\* their high bits; two blocks that must not refer to each other; blocks of
\* nothing, an LZF one at the end.
Rows ==
    {<<>>,
     <<Raw(<<1, 90, 86>>)>>,
     <<Lzf(<<Lit(<<1, 2, 3, 4>>), Copy(4, 3)>>), Raw(<<5>>)>>,
     <<Lzf(<<Lit(<<7, 8>>), Copy(1, 3), Copy(2, 8), Lit(<<90>>)>>),
       Lzf(<<Lit(<<9, 7>>), Copy(2, 9)>>)>>,
     <<Lzf(<<Lit(<<1, 2, 3>>), Copy(3, 264), Copy(265, 10), Copy(257, 4)>>)>>,
     <<Raw(<<1>>), Lzf(<<>>)>>,
     <<Raw(<<>>), Lzf(<<Lit([k \in 1 .. 32 |-> k]), Copy(32, 20)>>)>>}

Pad(n) == [k \in 1 .. n |-> 26]
Call(row, input, limit) == [blocks |-> row, input |-> input, limit |-> limit]

PaddedCalls ==
    UNION {{Call(row, Image(row) \o Pad(n), l) :
              n \in {0, 1, Overhead, Overhead + 1},
              l \in {Len(Content(row)), Len(Content(row)) + 1, 1000} \cup
                    {k \in {Len(Content(row)) - 1} : k >= 0}} : row \in Rows}
CutCalls ==
    UNION {{Call(row, SubSeq(Image(row), 1, n), 1000) : n \in 0 .. Len(Image(row))}
              : row \in Rows}
\* One byte is another.
DamagedCalls ==
    UNION {{Call(row, [Image(row) EXCEPT ![k] = b], l) :
              k \in 1 .. Len(Image(row)), b \in {0, 1, 2, 31, 32, 224, 255},
              l \in {Len(Content(row))}} : row \in Rows}
MCCalls == PaddedCalls \cup CutCalls \cup DamagedCalls
=============================================================================
