----------------------------- MODULE Decompress -----------------------------
(***************************************************************************)
(* decompress_image of src/decompress.c and lzf_decompress of src/lzf_d.c: *)
(* a compressed u-boot is a row of blocks, each behind a header with its   *)
(* sizes, stored as they are or as LZF tokens (a run of literal bytes, or  *)
(* a distance and a length to copy from).  One step is a block or a token. *)
(* Behind the last block may lie what fills the last XMODEM packet.        *)
(***************************************************************************)
EXTENDS Integers, Sequences, SequencesExt

CONSTANTS
    Calls,      \* [blocks, input, limit]: what is unpacked, and the room
    Behind,     \* what may lie in memory behind the input
    Overhead    \* XMODEM_PACKET_OVERHEAD, 127

Byte == 0 .. 255
Z == 90
V == 86

ASSUME DecompressAssumption ==
    /\ Behind \subseteq Byte /\ Behind # {}
    /\ Overhead \in Nat
    /\ \A c \in Calls : c.input \in Seq(Byte) /\ c.limit \in Nat

VARIABLES
    pc,         \* "block", "token" or "done"
    ip,         \* input bytes behind the decoder
    out,        \* what has been written
    ret,        \* bytes of complete blocks
    end,        \* where the input of the LZF block ends
    us,         \* the size it should unpack to
    start,      \* Len(out) when it began
    args,       \* the call
    reached     \* history: the number of input bytes looked at

vars == <<pc, ip, out, ret, end, us, start, args, reached>>

insize == Len(args.input)
At(k) == IF k < insize THEN {args.input[k + 1]} ELSE Behind
Word(k) == args.input[k + 1] * 256 + args.input[k + 2]
Rem == insize - ip
Larger(m, n) == IF m > n THEN m ELSE n

-----------------------------------------------------------------------------
(* What the input stands for. *)

\* A token is [lit] or [off, len]; the copy may overlap what it produces.
Unpack(bytes, t) ==
    IF "lit" \in DOMAIN t THEN bytes \o t.lit
    ELSE LET n == Len(bytes) IN
         bytes \o [k \in 1 .. t.len |-> bytes[n - t.off + 1 + ((k - 1) % t.off)]]
Token(t) ==
    IF "lit" \in DOMAIN t THEN <<Len(t.lit) - 1>> \o t.lit
    ELSE LET d == t.off - 1 IN
         IF t.len < 9
         THEN <<(t.len - 2) * 32 + (d \div 256), d % 256>>
         ELSE <<7 * 32 + (d \div 256), t.len - 9, d % 256>>

Made(tokens) == FoldLeft(Unpack, <<>>, tokens)
Expanded(b) == IF b.kind = "raw" THEN b.data ELSE Made(b.tokens)
Body(b) ==
    IF b.kind = "raw" THEN b.data
    ELSE FlattenSeq([k \in DOMAIN b.tokens |-> Token(b.tokens[k])])
TwoBytes(n) == <<n \div 256, n % 256>>
Framed(b) ==
    IF b.kind = "raw"
    THEN <<Z, V, 0>> \o TwoBytes(Len(b.data)) \o b.data
    ELSE <<Z, V, 1>> \o TwoBytes(Len(Body(b))) \o TwoBytes(Len(Expanded(b)))
            \o Body(b)
Image(blocks) == FlattenSeq([k \in DOMAIN blocks |-> Framed(blocks[k])])
Content(blocks) == FlattenSeq([k \in DOMAIN blocks |-> Expanded(blocks[k])])

\* What a compressor may emit: up to 32 literal bytes, or 3 to 264 bytes that stand
\* in the same block, no more than 13 bits of distance back.
IsToken(t, before) ==
    IF "lit" \in DOMAIN t THEN t.lit \in Seq(Byte) /\ Len(t.lit) \in 1 .. 32
    ELSE t.off \in 1 .. 8192 /\ t.off <= Len(before) /\ t.len \in 3 .. 264
IsSequence(s) == s \in Seq({s[k] : k \in DOMAIN s})
IsBlock(b) ==
    \/ b.kind = "raw" /\ b.data \in Seq(Byte)
    \/ /\ b.kind = "lzf" /\ IsSequence(b.tokens)
       /\ \A k \in 1 .. Len(b.tokens) :
             IsToken(b.tokens[k], Made(SubSeq(b.tokens, 1, k - 1)))

ASSUME CompressorAssumption ==
    \A c \in Calls : /\ IsSequence(c.blocks)
                     /\ \A k \in 1 .. Len(c.blocks) : IsBlock(c.blocks[k])

-----------------------------------------------------------------------------
Init ==
    /\ args \in Calls
    /\ pc = "block" /\ ip = 0 /\ out = <<>> /\ ret = 0
    /\ end = 0 /\ us = 0 /\ start = 0 /\ reached = 0

Return(n) == pc' = "done" /\ ret' = n

\* Mutant of NoBlock: the smallest header is taken for too short.
NoBlockNorFive ==
    ~(Rem >= 6 /\ args.input[ip + 1] = Z /\ args.input[ip + 2] = V)
NoBlock ==
    ~(Rem >= 5 /\ args.input[ip + 1] = Z /\ args.input[ip + 2] = V)

\* The end of the input, or of what is made of blocks: at most Overhead bytes may
\* follow.
LastBlock ==
    /\ pc = "block" /\ NoBlock
    /\ Return(IF Rem > Overhead THEN 0 ELSE ret)
    /\ UNCHANGED <<ip, out, end, us, start, args, reached>>

\* The header of the next block.
Kind == args.input[ip + 3]
HeaderSize == IF Kind = 0 THEN 5 ELSE 7
Packed == Word(ip + 3)
Unpacked == Word(ip + HeaderSize - 2)
BadHeader == ~(Kind <= 1 /\ Rem >= HeaderSize)

\* Mutant of TooLarge: what is already there is not counted.
TooLargeAlone == ~(Unpacked <= args.limit /\ Packed <= Rem - HeaderSize)
TooLarge == ~(Unpacked <= args.limit - ret /\ Packed <= Rem - HeaderSize)

\* A block that can be unpacked; its header and its bytes are there.
GoodBlock == ~BadHeader /\ ~TooLarge

BadBlock ==
    /\ pc = "block" /\ ~NoBlock /\ ~GoodBlock
    /\ Return(0)
    /\ reached' = Larger(reached, ip + (IF BadHeader THEN 3 ELSE HeaderSize))
    /\ UNCHANGED <<ip, out, end, us, start, args>>

\* Mutant of RawBlock: the input is not advanced behind the header.
RawBlockAtHeader ==
    /\ pc = "block" /\ ~NoBlock /\ GoodBlock
    /\ Kind = 0
    /\ out' = out \o SubSeq(args.input, ip + 6, ip + 5 + Unpacked)
    /\ ip' = ip + Unpacked
    /\ ret' = ret + Unpacked
    /\ reached' = Larger(reached, ip')
    /\ UNCHANGED <<pc, end, us, start, args>>
RawBlock ==
    /\ pc = "block" /\ ~NoBlock /\ GoodBlock
    /\ Kind = 0
    /\ out' = out \o SubSeq(args.input, ip + 6, ip + 5 + Unpacked)
    /\ ip' = ip + 5 + Unpacked
    /\ ret' = ret + Unpacked
    /\ reached' = Larger(reached, ip')
    /\ UNCHANGED <<pc, end, us, start, args>>

LzfBlock ==
    /\ pc = "block" /\ ~NoBlock /\ GoodBlock
    /\ Kind = 1
    /\ pc' = "token"
    /\ ip' = ip + 7 /\ end' = ip + 7 + Packed /\ us' = Unpacked
    /\ start' = Len(out)
    /\ reached' = Larger(reached, ip')
    /\ UNCHANGED <<out, ret, args>>

-----------------------------------------------------------------------------
\* lzf_decompress.

\* It returns n; decompress_image goes on behind the block if that is what the
\* header says.
Unpacks(n) ==
    /\ IF n = us
       THEN pc' = "block" /\ ip' = end /\ ret' = ret + us
       ELSE Return(0) /\ UNCHANGED ip
    /\ UNCHANGED args

\* After a token: the next, or the end of the block.
AfterToken(i, bytes) ==
    IF i < end
    THEN pc' = "token" /\ ip' = i /\ UNCHANGED <<ret, args>>
    ELSE Unpacks(Len(bytes) - start)

Room == start + us - Len(out)

Literal(c) ==
    /\ c < 32
    /\ LET n == c + 1 IN
       IF n > Room \/ ip + 1 + n > end
       THEN Unpacks(0) /\ UNCHANGED out /\ reached' = Larger(reached, ip + 1)
       ELSE /\ out' = out \o SubSeq(args.input, ip + 2, ip + 1 + n)
            /\ AfterToken(ip + 1 + n, out')
            /\ reached' = Larger(reached, ip + 1 + n)

\* Mutant of Distance: its high bits are lost.
DistanceLow(c, low) == low + 1
Distance(c, low) == (c % 32) * 256 + low + 1

\* A length of 7 is continued in a byte of its own, before the low byte of the
\* distance.  Both are looked for only inside the block.
Extended(c) == c \div 32 = 7
\* Mutant of Complete: CHECK_INPUT is off.
CompleteUnchecked(c) == c \in Byte
Complete(c) == ip + 1 < end /\ (Extended(c) => ip + 2 < end)
Length(c, more) == (c \div 32) + (IF Extended(c) THEN more ELSE 0) + 2
TokenSize(c) == IF Extended(c) THEN 3 ELSE 2

Copied(c) ==
    LET size == TokenSize(c) IN
    \E more \in At(ip + 1), low \in At(ip + size - 1) :
        LET off == Distance(c, low)
            len == Length(c, more) IN
        IF len > Room \/ off > Len(out) - start
        THEN Unpacks(0) /\ UNCHANGED out
        ELSE /\ out' = Unpack(out, [off |-> off, len |-> len])
             /\ AfterToken(ip + size, out')

BackReference(c) ==
    /\ c >= 32
    /\ IF Complete(c)
       THEN Copied(c) /\ reached' = Larger(reached, ip + TokenSize(c))
       ELSE Unpacks(0) /\ UNCHANGED out /\ reached' = Larger(reached, Larger(ip + 1, end))

\* The control byte is fetched before the end of the block is looked at.
NextToken ==
    /\ pc = "token"
    /\ \E c \in At(ip) : Literal(c) \/ BackReference(c)
    /\ UNCHANGED <<end, us, start, args>>

Next ==
    \/ LastBlock
    \/ BadBlock
    \/ RawBlock
    \/ LzfBlock
    \/ NextToken

Spec == Init /\ [][Next]_vars
FairSpec == Spec /\ WF_vars(Next)

-----------------------------------------------------------------------------
Accepted == pc = "done" /\ ret > 0

\* The image and something behind it that is not another block.
WholeImage ==
    LET n == Len(Image(args.blocks)) IN
    /\ IsPrefix(Image(args.blocks), args.input)
    /\ insize >= n + 5 => ~(args.input[n + 1] = Z /\ args.input[n + 2] = V)
Padding == insize - Len(Image(args.blocks))

\* What any compressor makes of u-boot is unpacked to u-boot, if there is exactly
\* enough room or more, and behind it no more than what fills an XMODEM packet;
\* otherwise it is rejected.
Inverts ==
    pc = "done" /\ WholeImage =>
        LET content == Content(args.blocks) IN
        IF Len(content) <= args.limit /\ Padding <= Overhead
        THEN out = content /\ ret = Len(content)
        ELSE ret = 0

\* The room given is never exceeded, not even by an image that is rejected in the
\* end, and the size reported is what was written.
WithinRoom == Len(out) <= args.limit /\ (Accepted => ret = Len(out))

\* What is accepted of an image that was cut off is a number of whole blocks, and
\* less than a header behind them: never a part of a block.
CutAtBlocks ==
    Accepted /\ IsPrefix(args.input, Image(args.blocks)) =>
        \E k \in 0 .. Len(args.blocks) :
            LET some == SubSeq(args.blocks, 1, k) IN
            /\ out = Content(some)
            /\ insize - Len(Image(some)) \in 0 .. 4

\* However the image is damaged or cut, the decoder reads at most one byte behind
\* it: the control byte of an LZF block that claims to be empty, fetched before
\* the end of the block is looked at.
LooksOneByteBehind == reached <= insize + 1

\* decompress_image returns, whatever it is given.
Returns == <>(pc = "done")
=============================================================================
