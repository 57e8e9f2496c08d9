-------------------------- MODULE DecompressProofs --------------------------
(***************************************************************************)
(* Whatever the input, however it is cut or damaged: the room is kept, what*)
(* is reported is what was written, and the decoder looks at most one byte *)
(* behind its input.  Whatever a compressor made of rows of blocks: it is  *)
(* undone, and of what was cut off no part of a block is taken.            *)
(***************************************************************************)
EXTENDS Decompress, Division, SequenceTheorems, FiniteSetTheorems

TypeOK ==
    /\ pc \in {"block", "token", "done"}
    /\ args \in Calls
    /\ ip \in Nat /\ ret \in Nat /\ end \in Nat /\ us \in Nat /\ start \in Nat
    /\ reached \in Nat
    /\ out \in Seq(Byte)

\* Between two blocks, what has been written is what has been counted.
AtBlock ==
    pc = "block" => ip <= insize /\ ret = Len(out) /\ ret <= args.limit

\* In a block, it has begun where the count stands, and it fits.
InBlock ==
    pc = "token" =>
        /\ ip <= end /\ end <= insize
        /\ start = ret /\ ret <= Len(out) /\ Len(out) <= ret + us
        /\ ret + us <= args.limit

AtEnd == pc = "done" => (ret > 0 => ret = Len(out)) /\ Len(out) <= args.limit

IInv ==
    /\ TypeOK
    /\ AtBlock
    /\ InBlock
    /\ AtEnd
    /\ LooksOneByteBehind

-----------------------------------------------------------------------------
(* The input. *)

LEMMA InputIsBytes ==
    ASSUME args \in Calls
    PROVE  /\ args.input \in Seq(Byte) /\ args.limit \in Nat
           /\ insize \in Nat
           /\ \A k \in 1 .. insize : args.input[k] \in 0 .. 255
<1>1. args.input \in Seq(Byte) /\ args.limit \in Nat
  BY DecompressAssumption
<1> DEFINE f == args.input
           n == Len(f)
<1>2. f \in Seq(Byte)
  BY <1>1
<1> HIDE DEF f
<1>3. n \in Nat /\ \A k \in 1 .. n : f[k] \in Byte
  BY <1>2
<1>4. QED
  BY <1>1, <1>3 DEF insize, Byte, f

\* A fetch yields a byte, wherever it is from.
LEMMA FetchIsByte ==
    ASSUME args \in Calls, NEW k \in Nat
    PROVE  At(k) \subseteq 0 .. 255
<1>1. CASE k < insize
  <2>1. k + 1 \in 1 .. insize
    BY <1>1, InputIsBytes
  <2>2. args.input[k + 1] \in 0 .. 255
    BY <2>1, InputIsBytes
  <2>3. QED
    BY <1>1, <2>2 DEF At
<1>2. CASE ~(k < insize)
  BY <1>2, DecompressAssumption DEF At, Byte
<1>3. QED
  BY <1>1, <1>2

\* A stretch of the input.
LEMMA Stretch ==
    ASSUME args \in Calls, NEW m \in Nat, NEW n \in Nat, m + n <= insize
    PROVE  /\ SubSeq(args.input, m + 1, m + n) \in Seq(Byte)
           /\ Len(SubSeq(args.input, m + 1, m + n)) = n
<1> DEFINE s == args.input
<1>1. s \in Seq(Byte) /\ Len(s) \in Nat /\ m + n <= Len(s)
  BY InputIsBytes DEF insize
<1> HIDE DEF s
<1>2. /\ SubSeq(s, m + 1, m + n) \in Seq(Byte)
      /\ Len(SubSeq(s, m + 1, m + n)) = n
  BY <1>1
<1>3. QED
  BY <1>2 DEF s


\* A byte that is there.
LEMMA ByteAt ==
    ASSUME args \in Calls, NEW k \in Nat, k < insize
    PROVE  args.input[k + 1] \in 0 .. 255
<1>1. k + 1 \in 1 .. insize
  BY InputIsBytes
<1>2. QED
  BY <1>1, InputIsBytes

LEMMA WordIsNat ==
    ASSUME args \in Calls, NEW k \in Nat, k + 1 < insize
    PROVE  Word(k) \in Nat
<1>1. k + 1 \in Nat /\ k < insize
  BY InputIsBytes
<1>2. args.input[k + 1] \in 0 .. 255 /\ args.input[k + 1 + 1] \in 0 .. 255
  BY <1>1, ByteAt
<1>3. k + 1 + 1 = k + 2
  OBVIOUS
<1> DEFINE x == args.input[k + 1]
           y == args.input[k + 2]
<1>4. x \in 0 .. 255 /\ y \in 0 .. 255
  BY <1>2, <1>3
<1>5. Word(k) = x * 256 + y
  BY DEF Word
<1> HIDE DEF x, y
<1>6. x * 256 + y \in Nat
  BY ONLY <1>4
<1>7. QED
  BY ONLY <1>5, <1>6

-----------------------------------------------------------------------------
(* The output. *)

LEMMA Appended ==
    ASSUME NEW b \in Seq(Byte), NEW c \in Seq(Byte)
    PROVE  b \o c \in Seq(Byte) /\ Len(b \o c) = Len(b) + Len(c)
<1> HIDE DEF Byte
<1>1. QED
  OBVIOUS

\* A copy of len bytes from off back, which may overlap itself.
LEMMA CopyAppends ==
    ASSUME NEW b \in Seq(Byte), NEW off \in Nat, NEW len \in Nat,
           1 <= off, off <= Len(b)
    PROVE  /\ Unpack(b, [off |-> off, len |-> len]) \in Seq(Byte)
           /\ Len(Unpack(b, [off |-> off, len |-> len])) = Len(b) + len
<1> DEFINE n == Len(b)
           at(k) == n - off + 1 + ((k - 1) % off)
           c == [k \in 1 .. len |-> b[at(k)]]
<1>1. Unpack(b, [off |-> off, len |-> len]) = b \o c
  BY Zenon DEF Unpack
<1>2. ASSUME NEW k \in 1 .. len PROVE at(k) \in 1 .. n
  <2>1. k - 1 \in Nat /\ off \in Nat \ {0} /\ n \in Nat
    OBVIOUS
  <2>2. (k - 1) % off \in 0 .. (off - 1)
    BY <2>1, DivMod
  <2>3. QED
    BY <2>1, <2>2
<1> HIDE DEF at
<1>3. ASSUME NEW k \in 1 .. len PROVE b[at(k)] \in Byte
  <2> HIDE DEF Byte
  <2>1. QED
    BY <1>2, <1>3
<1>4. c \in Seq(Byte) /\ Len(c) = len
  <2> HIDE DEF Byte
  <2>1. QED
    BY <1>3
<1> HIDE DEF c
<1>5. QED
  BY <1>1, <1>4, Appended


-----------------------------------------------------------------------------
(* Blocks. *)

LEMMA InitHolds == Init => IInv
<1> SUFFICES ASSUME Init PROVE IInv
  OBVIOUS
<1>1. args \in Calls /\ insize \in Nat /\ args.limit \in Nat
  BY InputIsBytes DEF Init
<1>2. <<>> \in Seq(Byte) /\ Len(<<>>) = 0
  BY EmptySeq
<1>3. TypeOK
  BY <1>1, <1>2 DEF Init, TypeOK
<1>4. QED
  BY <1>1, <1>2, <1>3 DEF Init, IInv, AtBlock, InBlock, AtEnd, LooksOneByteBehind

\* A header that says a block is there, and that makes sense.
LEMMA HeaderSays ==
    ASSUME IInv, pc = "block", ~NoBlock
    PROVE  /\ ip + 5 <= insize
           /\ BadHeader => ip + 3 <= insize
           /\ ~BadHeader => /\ Kind \in {0, 1}
                            /\ HeaderSize = (IF Kind = 0 THEN 5 ELSE 7)
                            /\ ip + HeaderSize <= insize
                            /\ Packed \in Nat /\ Unpacked \in Nat
           /\ GoodBlock => /\ ip + HeaderSize + Packed <= insize
                           /\ ret + Unpacked <= args.limit
<1>1. /\ args \in Calls /\ ip \in Nat /\ insize \in Nat /\ args.limit \in Nat
      /\ ret \in Nat
  BY InputIsBytes DEF IInv, TypeOK
<1>2. ip + 5 <= insize
  BY <1>1 DEF NoBlock, Rem
<1>3. ASSUME ~BadHeader
      PROVE  /\ Kind \in {0, 1} /\ HeaderSize = (IF Kind = 0 THEN 5 ELSE 7)
             /\ ip + HeaderSize <= insize
             /\ Packed \in Nat /\ Unpacked \in Nat
  <2>1. Kind \in 0 .. 255
    <3>1. ip + 2 \in Nat /\ ip + 2 < insize
      BY <1>1, <1>2
    <3>2. args.input[ip + 2 + 1] \in 0 .. 255
      BY <1>1, <3>1, ByteAt
    <3>3. ip + 2 + 1 = ip + 3
      BY <1>1
    <3>4. QED
      BY <3>2, <3>3 DEF Kind
  <2>2. Kind \in {0, 1} /\ HeaderSize = (IF Kind = 0 THEN 5 ELSE 7)
    BY <1>3, <2>1 DEF BadHeader, HeaderSize
  <2>3. ip + HeaderSize <= insize /\ HeaderSize \in {5, 7}
    BY <1>1, <1>3, <2>2 DEF BadHeader, Rem
  <2>4. Packed \in Nat
    <3>1. ip + 3 \in Nat /\ ip + 3 + 1 < insize
      BY <1>1, <1>2
    <3>2. QED
      BY <1>1, <3>1, WordIsNat DEF Packed
  <2>5. Unpacked \in Nat
    <3>1. ip + HeaderSize - 2 \in Nat /\ ip + HeaderSize - 2 + 1 < insize
      BY <1>1, <2>3
    <3>2. QED
      BY <1>1, <3>1, WordIsNat DEF Unpacked
  <2>6. QED
    BY <2>2, <2>3, <2>4, <2>5
<1>4. ASSUME GoodBlock
      PROVE  ip + HeaderSize + Packed <= insize /\ ret + Unpacked <= args.limit
  <2>1. /\ Packed \in Nat /\ Unpacked \in Nat /\ HeaderSize \in {5, 7}
        /\ Unpacked <= args.limit - ret /\ Packed <= Rem - HeaderSize
    BY <1>3, <1>4 DEF GoodBlock, TooLarge
  <2>2. QED
    BY <1>1, <2>1 DEF Rem
<1>5. QED
  BY <1>1, <1>2, <1>3, <1>4

LEMMA LastBlockKeeps == ASSUME IInv, LastBlock PROVE IInv'
<1>1. /\ pc = "block" /\ pc' = "done" /\ ret' \in {0, ret}
      /\ UNCHANGED <<ip, out, end, us, start, args, reached, insize>>
  BY DEF LastBlock, Return, insize
<1>2. TypeOK'
  BY <1>1 DEF IInv, TypeOK
<1>3. AtBlock' /\ InBlock' /\ LooksOneByteBehind'
  BY <1>1 DEF IInv, AtBlock, InBlock, LooksOneByteBehind
<1>4. Len(out) \in Nat /\ args.limit \in Nat
  BY InputIsBytes DEF IInv, TypeOK
<1>5. AtEnd'
  BY <1>1, <1>4 DEF IInv, TypeOK, AtBlock, AtEnd
<1>6. QED
  BY <1>2, <1>3, <1>5 DEF IInv

LEMMA LargerIs ==
    ASSUME NEW m \in Nat, NEW n \in Nat
    PROVE  /\ Larger(m, n) \in Nat /\ Larger(m, n) \in {m, n}
           /\ \A b \in Nat : m <= b /\ n <= b => Larger(m, n) <= b
BY DEF Larger

\* The decoder has looked up to n.
LEMMA LooksTo ==
    ASSUME args \in Calls, reached \in Nat, LooksOneByteBehind, NEW n \in Nat,
           n <= insize + 1,
           reached' = Larger(reached, n), args' = args
    PROVE  reached' \in Nat /\ LooksOneByteBehind'
<1>1. insize \in Nat /\ insize' = insize
  BY InputIsBytes DEF insize
<1>2. reached <= insize + 1
  BY DEF LooksOneByteBehind
<1>3. reached' \in Nat /\ reached' <= insize + 1
  BY <1>1, <1>2, LargerIs
<1>4. QED
  BY <1>1, <1>3 DEF LooksOneByteBehind

LEMMA BadBlockKeeps == ASSUME IInv, BadBlock PROVE IInv'
<1> DEFINE n == ip + (IF BadHeader THEN 3 ELSE HeaderSize)
<1>1. /\ pc = "block" /\ ~NoBlock /\ pc' = "done" /\ ret' = 0
      /\ reached' = Larger(reached, n)
      /\ UNCHANGED <<ip, out, end, us, start, args, insize>>
  BY DEF BadBlock, Return, insize
<1>2. ip \in Nat /\ insize \in Nat /\ args \in Calls /\ reached \in Nat
  BY InputIsBytes DEF IInv, TypeOK
<1>3. n \in Nat /\ n <= insize + 1
  BY <1>1, <1>2, HeaderSays
<1> HIDE DEF n
<1>4. reached' \in Nat /\ LooksOneByteBehind'
  BY <1>1, <1>2, <1>3, LooksTo DEF IInv
<1>5. TypeOK'
  BY <1>1, <1>4 DEF IInv, TypeOK
<1>6. Len(out) \in Nat /\ args.limit \in Nat
  BY InputIsBytes DEF IInv, TypeOK
<1>7. AtBlock' /\ InBlock' /\ AtEnd'
  BY <1>1, <1>2, <1>6 DEF IInv, TypeOK, AtBlock, InBlock, AtEnd
<1>8. QED
  BY <1>4, <1>5, <1>7 DEF IInv

LEMMA RawBlockKeeps == ASSUME IInv, RawBlock PROVE IInv'
<1> DEFINE s == SubSeq(args.input, ip + 6, ip + 5 + Unpacked)
<1>1. /\ pc = "block" /\ ~NoBlock /\ GoodBlock /\ Kind = 0 /\ pc' = "block"
      /\ out' = out \o s
      /\ ip' = ip + 5 + Unpacked /\ ret' = ret + Unpacked
      /\ reached' = Larger(reached, ip')
      /\ UNCHANGED <<end, us, start, args, insize>>
  BY DEF RawBlock, insize
<1>2. /\ ip \in Nat /\ insize \in Nat /\ args \in Calls /\ reached \in Nat
      /\ ret \in Nat /\ Len(out) \in Nat /\ ret = Len(out)
  BY <1>1, InputIsBytes DEF IInv, TypeOK, AtBlock
<1>3. /\ Unpacked \in Nat /\ Unpacked = Packed /\ HeaderSize = 5
      /\ ip + 5 + Unpacked <= insize /\ ret + Unpacked <= args.limit
  <2>1. /\ HeaderSize = 5 /\ ip + HeaderSize + Packed <= insize
        /\ Unpacked \in Nat /\ ret + Unpacked <= args.limit
    BY <1>1, HeaderSays DEF GoodBlock
  <2>2. ip + HeaderSize - 2 = ip + 3
    BY <1>2, <2>1
  <2>3. QED
    BY <2>1, <2>2 DEF Packed, Unpacked
<1>4. s \in Seq(Byte) /\ Len(s) = Unpacked
  <2>1. ip + 5 \in Nat /\ ip + 5 + 1 = ip + 6
    BY <1>2
  <2>2. QED
    BY <1>2, <1>3, <2>1, Stretch
<1> HIDE DEF s
<1>5. out' \in Seq(Byte) /\ Len(out') = ret'
  BY <1>1, <1>2, <1>4, Appended DEF IInv, TypeOK
<1>6. ip' \in Nat /\ ip' <= insize /\ ret' \in Nat /\ ret' <= args.limit
  BY <1>1, <1>2, <1>3
<1>7. reached' \in Nat /\ LooksOneByteBehind'
  <2>1. ip' <= insize + 1
    BY <1>2, <1>6
  <2>2. QED
    BY <1>1, <1>2, <1>6, <2>1, LooksTo DEF IInv
<1>8. TypeOK'
  BY <1>1, <1>5, <1>6, <1>7 DEF IInv, TypeOK
<1>9. AtBlock' /\ InBlock' /\ AtEnd'
  BY <1>1, <1>5, <1>6 DEF AtBlock, InBlock, AtEnd
<1>10. QED
  BY <1>7, <1>8, <1>9 DEF IInv

LEMMA LzfBlockKeeps == ASSUME IInv, LzfBlock PROVE IInv'
<1>1. /\ pc = "block" /\ ~NoBlock /\ GoodBlock /\ Kind = 1 /\ pc' = "token"
      /\ ip' = ip + 7 /\ end' = ip + 7 + Packed /\ us' = Unpacked
      /\ start' = Len(out)
      /\ reached' = Larger(reached, ip')
      /\ UNCHANGED <<out, ret, args, insize>>
  BY DEF LzfBlock, insize
<1>2. /\ ip \in Nat /\ insize \in Nat /\ args \in Calls /\ reached \in Nat
      /\ ret \in Nat /\ Len(out) \in Nat /\ ret = Len(out)
  BY <1>1, InputIsBytes DEF IInv, TypeOK, AtBlock
<1>3. /\ Unpacked \in Nat /\ Packed \in Nat
      /\ ip + 7 + Packed <= insize /\ ret + Unpacked <= args.limit
  BY <1>1, HeaderSays DEF GoodBlock
<1>4. ip' \in Nat /\ ip' <= end' /\ end' \in Nat /\ end' <= insize
  BY <1>1, <1>2, <1>3
<1>5. reached' \in Nat /\ LooksOneByteBehind'
  <2>1. ip' <= insize + 1
    BY <1>2, <1>4
  <2>2. QED
    BY <1>1, <1>2, <1>4, <2>1, LooksTo DEF IInv
<1>6. TypeOK'
  BY <1>1, <1>2, <1>3, <1>4, <1>5 DEF IInv, TypeOK
<1>7. AtBlock' /\ InBlock' /\ AtEnd'
  BY <1>1, <1>2, <1>3, <1>4 DEF AtBlock, InBlock, AtEnd
<1>8. QED
  BY <1>5, <1>6, <1>7 DEF IInv


-----------------------------------------------------------------------------
(* Tokens. *)

\* The block ends, with n bytes or as failed.
LEMMA UnpacksKeeps ==
    ASSUME IInv, pc = "token", NEW n \in Nat, Unpacks(n),
           UNCHANGED <<end, us, start>>,
           out' \in Seq(Byte), Len(out') <= ret + us,
           n = us => Len(out') = ret + us,
           reached' \in Nat, LooksOneByteBehind'
    PROVE  IInv'
<1>1. /\ args' = args /\ insize' = insize
      /\ n = us => pc' = "block" /\ ip' = end /\ ret' = ret + us
      /\ n # us => pc' = "done" /\ ret' = 0 /\ ip' = ip
  BY DEF Unpacks, Return, insize
<1>2. /\ ip \in Nat /\ end \in Nat /\ us \in Nat /\ ret \in Nat /\ start \in Nat
      /\ end <= insize /\ ret + us <= args.limit
      /\ args \in Calls /\ args.limit \in Nat
      /\ Len(out') \in Nat
  BY InputIsBytes DEF IInv, TypeOK, InBlock
<1>3. TypeOK'
  BY <1>1, <1>2 DEF TypeOK
<1>4. AtBlock' /\ InBlock' /\ AtEnd'
  BY <1>1, <1>2 DEF AtBlock, InBlock, AtEnd
<1>5. QED
  BY <1>3, <1>4 DEF IInv

\* A token is done, and the input is at i.
LEMMA TokenKeeps ==
    ASSUME IInv, pc = "token", NEW i \in Nat, i <= end, AfterToken(i, out'),
           UNCHANGED <<end, us, start>>,
           out' \in Seq(Byte), ret <= Len(out'), Len(out') <= ret + us,
           reached' \in Nat, LooksOneByteBehind'
    PROVE  IInv'
<1>1. /\ ip \in Nat /\ end \in Nat /\ us \in Nat /\ ret \in Nat /\ start = ret
      /\ end <= insize /\ ret + us <= args.limit
      /\ args \in Calls /\ Len(out') \in Nat
  BY DEF IInv, TypeOK, InBlock
<1>2. CASE i < end
  <2>1. pc' = "token" /\ ip' = i /\ UNCHANGED <<ret, args, insize>>
    BY <1>2 DEF AfterToken, insize
  <2>2. TypeOK'
    BY <1>1, <2>1 DEF IInv, TypeOK
  <2>3. AtBlock' /\ InBlock' /\ AtEnd'
    BY <1>1, <2>1 DEF AtBlock, InBlock, AtEnd
  <2>4. QED
    BY <2>2, <2>3 DEF IInv
<1>3. CASE ~(i < end)
  <2>1. Unpacks(Len(out') - start)
    BY <1>3 DEF AfterToken
  <2>2. Len(out') - start \in Nat
    BY <1>1
  <2>3. Len(out') - start = us => Len(out') = ret + us
    BY <1>1
  <2>4. QED
    BY <2>1, <2>2, <2>3, UnpacksKeeps
<1>4. QED
  BY <1>2, <1>3

\* A token that does not fit what is left of the block.
LEMMA FailureKeeps ==
    ASSUME IInv, pc = "token", Unpacks(0), UNCHANGED <<out, end, us, start>>,
           reached' \in Nat, LooksOneByteBehind'
    PROVE  IInv'
<1>1. /\ us \in Nat /\ ret \in Nat /\ Len(out) \in Nat /\ out \in Seq(Byte)
      /\ ret <= Len(out) /\ Len(out) <= ret + us
  BY DEF IInv, TypeOK, InBlock
<1>2. 0 = us => Len(out) = ret + us
  BY <1>1
<1>3. QED
  BY <1>1, <1>2, UnpacksKeeps

LEMMA LiteralKeeps ==
    ASSUME IInv, pc = "token", NEW c \in 0 .. 255, Literal(c),
           UNCHANGED <<end, us, start, args>>
    PROVE  IInv'
<1> DEFINE n == c + 1
           s == SubSeq(args.input, ip + 2, ip + 1 + n)
<1>1. /\ ip \in Nat /\ end \in Nat /\ us \in Nat /\ ret \in Nat /\ start = ret
      /\ ip <= end /\ end <= insize /\ insize \in Nat /\ args \in Calls
      /\ ret <= Len(out) /\ Len(out) <= ret + us /\ Len(out) \in Nat
      /\ out \in Seq(Byte) /\ reached \in Nat /\ LooksOneByteBehind
  BY InputIsBytes DEF IInv, TypeOK, InBlock
<1>2. n \in Nat /\ n >= 1
  OBVIOUS
<1> HIDE DEF n
<1>3. CASE n > Room \/ ip + 1 + n > end
  <2>1. Unpacks(0) /\ UNCHANGED out /\ reached' = Larger(reached, ip + 1)
    BY <1>3 DEF Literal, n
  <2>2. ip + 1 \in Nat /\ ip + 1 <= insize + 1
    BY <1>1
  <2>3. reached' \in Nat /\ LooksOneByteBehind'
    BY <1>1, <2>1, <2>2, LooksTo
  <2>4. QED
    BY <2>1, <2>3, FailureKeeps
<1>4. CASE ~(n > Room \/ ip + 1 + n > end)
  <2>1. /\ out' = out \o s
        /\ AfterToken(ip + 1 + n, out')
        /\ reached' = Larger(reached, ip + 1 + n)
    BY <1>4 DEF Literal, n
  <2>2. n <= start + us - Len(out) /\ ip + 1 + n <= end
    BY <1>1, <1>2, <1>4 DEF Room
  <2>3. s \in Seq(Byte) /\ Len(s) = n
    <3>1. ip + 1 \in Nat /\ ip + 1 + 1 = ip + 2 /\ ip + 1 + n <= insize
      BY <1>1, <1>2, <2>2
    <3>2. QED
      BY <1>1, <1>2, <3>1, Stretch
  <2> HIDE DEF s
  <2>4. out' \in Seq(Byte) /\ Len(out') = Len(out) + n
    BY <1>1, <2>1, <2>3, Appended
  <2>5. ret <= Len(out') /\ Len(out') <= ret + us
    BY <1>1, <1>2, <2>2, <2>4
  <2>6. ip + 1 + n \in Nat /\ ip + 1 + n <= insize + 1
    BY <1>1, <1>2, <2>2
  <2>7. reached' \in Nat /\ LooksOneByteBehind'
    BY <1>1, <2>1, <2>6, LooksTo
  <2>8. QED
    BY <2>1, <2>2, <2>4, <2>5, <2>6, <2>7, TokenKeeps
<1>5. QED
  BY <1>3, <1>4

\* What a copy is made of.
LEMMA TokenSays ==
    ASSUME NEW c \in 0 .. 255, NEW more \in 0 .. 255, NEW low \in 0 .. 255
    PROVE  /\ Distance(c, low) \in Nat /\ Distance(c, low) >= 1
           /\ Length(c, more) \in Nat
           /\ TokenSize(c) \in {2, 3}
<1>1. (c % 32) \in Nat /\ (c \div 32) \in Nat
  OBVIOUS
<1>2. Distance(c, low) \in Nat /\ Distance(c, low) >= 1
  BY <1>1 DEF Distance
<1>3. Length(c, more) \in Nat
  BY <1>1 DEF Length
<1>4. TokenSize(c) \in {2, 3}
  BY DEF TokenSize
<1>5. QED
  BY <1>2, <1>3, <1>4

LEMMA CopyKeeps ==
    ASSUME IInv, pc = "token", NEW c \in 0 .. 255, BackReference(c), c >= 32,
           UNCHANGED <<end, us, start, args>>
    PROVE  IInv'
<1> DEFINE size == TokenSize(c)
<1>1. /\ ip \in Nat /\ end \in Nat /\ us \in Nat /\ ret \in Nat /\ start = ret
      /\ ip <= end /\ end <= insize /\ insize \in Nat /\ args \in Calls
      /\ ret <= Len(out) /\ Len(out) <= ret + us /\ Len(out) \in Nat
      /\ out \in Seq(Byte) /\ reached \in Nat /\ LooksOneByteBehind
  BY InputIsBytes DEF IInv, TypeOK, InBlock
<1>2. size \in {2, 3}
  BY TokenSays
<1>3. CASE ~Complete(c)
  <2>1. /\ Unpacks(0) /\ UNCHANGED out
        /\ reached' = Larger(reached, Larger(ip + 1, end))
    BY <1>3 DEF BackReference
  <2>2. Larger(ip + 1, end) \in Nat /\ Larger(ip + 1, end) <= insize + 1
    BY <1>1 DEF Larger
  <2>3. reached' \in Nat /\ LooksOneByteBehind'
    BY <1>1, <2>1, <2>2, LooksTo
  <2>4. QED
    BY <2>1, <2>3, FailureKeeps
<1>4. CASE Complete(c)
  <2>1. Copied(c) /\ reached' = Larger(reached, ip + size)
    BY <1>4 DEF BackReference
  <2>2. ip + size \in Nat /\ ip + size <= end /\ ip + size <= insize + 1
    BY <1>1, <1>4, <1>2 DEF Complete, TokenSize
  <2> HIDE DEF size
  <2>3. reached' \in Nat /\ LooksOneByteBehind'
    BY <1>1, <2>1, <2>2, LooksTo
  <2>4. PICK more \in At(ip + 1), low \in At(ip + size - 1) :
            LET off == Distance(c, low)
                len == Length(c, more) IN
            IF len > Room \/ off > Len(out) - start
            THEN Unpacks(0) /\ UNCHANGED out
            ELSE /\ out' = Unpack(out, [off |-> off, len |-> len])
                 /\ AfterToken(ip + size, out')
    BY <2>1 DEF Copied, size
  <2> DEFINE off == Distance(c, low)
             len == Length(c, more)
  <2>5. off \in Nat /\ off >= 1 /\ len \in Nat
    <3>1. ip + 1 \in Nat /\ ip + size - 1 \in Nat
      BY <1>1, <1>2
    <3>2. more \in 0 .. 255 /\ low \in 0 .. 255
      BY <1>1, <2>4, <3>1, FetchIsByte
    <3>3. QED
      BY <3>2, TokenSays
  <2>6. \/ Unpacks(0) /\ UNCHANGED out
        \/ /\ ~(len > Room \/ off > Len(out) - start)
           /\ out' = Unpack(out, [off |-> off, len |-> len])
           /\ AfterToken(ip + size, out')
    BY <2>4
  <2> HIDE DEF off, len
  <2>7. CASE Unpacks(0) /\ UNCHANGED out
    BY <2>3, <2>7, FailureKeeps
  <2>8. CASE /\ ~(len > Room \/ off > Len(out) - start)
             /\ out' = Unpack(out, [off |-> off, len |-> len])
             /\ AfterToken(ip + size, out')
    <3>1. len <= start + us - Len(out) /\ off <= Len(out)
      BY <1>1, <2>5, <2>8 DEF Room
    <3>2. out' \in Seq(Byte) /\ Len(out') = Len(out) + len
      BY <1>1, <2>5, <2>8, <3>1, CopyAppends
    <3>3. ret <= Len(out') /\ Len(out') <= ret + us
      BY <1>1, <2>5, <3>1, <3>2
    <3>4. QED
      BY <2>2, <2>3, <2>8, <3>2, <3>3, TokenKeeps
  <2>9. QED
    BY <2>6, <2>7, <2>8
<1>5. QED
  BY <1>3, <1>4

LEMMA TokenStepKeeps == ASSUME IInv, NextToken PROVE IInv'
<1>1. pc = "token" /\ UNCHANGED <<end, us, start, args>>
  BY DEF NextToken
<1>2. PICK c \in At(ip) : Literal(c) \/ BackReference(c)
  BY DEF NextToken
<1>3. c \in 0 .. 255
  BY FetchIsByte DEF IInv, TypeOK
<1>4. CASE Literal(c)
  BY <1>1, <1>3, <1>4, LiteralKeeps
<1>5. CASE BackReference(c)
  <2>1. c >= 32
    BY <1>5 DEF BackReference
  <2>2. QED
    BY <1>1, <1>3, <1>5, <2>1, CopyKeeps
<1>6. QED
  BY <1>2, <1>4, <1>5

-----------------------------------------------------------------------------
LEMMA StutterKeeps == ASSUME IInv, UNCHANGED vars PROVE IInv'
BY DEF IInv, TypeOK, AtBlock, InBlock, AtEnd, LooksOneByteBehind, vars, insize

LEMMA InvariantHolds == Spec => []IInv
<1>1. Init => IInv
  BY InitHolds
<1>2. IInv /\ [Next]_vars => IInv'
  BY LastBlockKeeps, BadBlockKeeps, RawBlockKeeps, LzfBlockKeeps,
     TokenStepKeeps, StutterKeeps DEF Next
<1>3. QED
  BY <1>1, <1>2, PTL DEF Spec

\* decompress_image and lzf_decompress: for every input, whatever lies behind it,
\* and every room, nothing is written beyond the room, and the size returned is
\* that of what was written.
THEOREM RoomIsKept == Spec => []WithinRoom
<1>1. IInv => WithinRoom
  <2> SUFFICES ASSUME IInv PROVE WithinRoom
    OBVIOUS
  <2>1. Len(out) \in Nat /\ ret \in Nat /\ us \in Nat /\ args.limit \in Nat
    BY InputIsBytes DEF IInv, TypeOK
  <2>2. Len(out) <= args.limit
    BY <2>1 DEF IInv, TypeOK, AtBlock, InBlock, AtEnd
  <2>3. Accepted => ret = Len(out)
    BY DEF IInv, AtEnd, Accepted
  <2>4. QED
    BY <2>2, <2>3 DEF WithinRoom
<1>2. QED
  BY <1>1, InvariantHolds, PTL

\* The decoder never looks further than one byte behind its input, although the
\* control byte of a token is fetched before anything is compared.
THEOREM InputIsKept == Spec => []LooksOneByteBehind
<1>1. IInv => LooksOneByteBehind
  BY DEF IInv
<1>2. QED
  BY <1>1, InvariantHolds, PTL

-----------------------------------------------------------------------------
(* Rows: what a compressor made, followed block by block and token by token. *)

(* Induction, in a form the provers can use: over the members of a set.  The *)
(* least number outside would make the numbers up to k that are outside a    *)
(* finite set that taking away one maps into itself, so onto itself: but k   *)
(* has nothing above it.                                                     *)
LEMMA Induction ==
    ASSUME NEW S, 0 \in S, \A n \in Nat : n \in S => n + 1 \in S
    PROVE  \A n \in Nat : n \in S
<1> SUFFICES ASSUME NEW k \in Nat, k \notin S PROVE FALSE
  OBVIOUS
<1> DEFINE A == {n \in 0 .. k : n \notin S}
           f == [n \in A |-> n - 1]
<1>1. IsFiniteSet(A)
  <2>1. IsFiniteSet(0 .. k)
    BY FS_Interval
  <2>2. A \in SUBSET (0 .. k)
    OBVIOUS
  <2>3. QED
    BY <2>1, <2>2, FS_Subset
<1>2. \A n \in A : n - 1 \in A
  <2> SUFFICES ASSUME NEW n \in A PROVE n - 1 \in A
    OBVIOUS
  <2>1. n \in Nat /\ n # 0
    OBVIOUS
  <2>2. n - 1 \in Nat /\ (n - 1) + 1 = n
    BY <2>1
  <2>3. QED
    BY <2>2
<1>3. f \in Injection(A, A)
  BY <1>2 DEF Injection, IsInjective
<1>4. f \in Surjection(A, A)
  BY <1>1, <1>3, FS_Injection
<1>5. k \in A
  OBVIOUS
<1>6. PICK n \in A : f[n] = k
  BY <1>4, <1>5 DEF Surjection
<1>7. QED
  BY <1>6

\* f is how FlattenSeq goes through the first n members of s.
Flattens(f, n, s) ==
    f = [i \in 1 .. n |-> IF i = 1 THEN s[i] ELSE f[i - 1] \o s[i]]

LEMMA FlattensExists ==
    ASSUME NEW n \in Nat, NEW s
    PROVE  \E f : Flattens(f, n, s)
<1> DEFINE P == {m \in Nat : \E f : Flattens(f, m, s)}
<1>1. 0 \in P
  <2>1. Flattens([i \in 1 .. 0 |-> 0], 0, s)
    BY DEF Flattens
  <2>2. QED
    BY <2>1
<1>2. ASSUME NEW m \in Nat, m \in P PROVE m + 1 \in P
  <2>1. PICK f : Flattens(f, m, s)
    BY <1>2
  <2> DEFINE g == [i \in 1 .. (m + 1) |->
                     IF i = 1 THEN s[1] ELSE IF i = m + 1 THEN f[m] \o s[m + 1] ELSE f[i]]
  <2>2. \A i \in 1 .. (m + 1) : g[i] = IF i = 1 THEN s[i] ELSE g[i - 1] \o s[i]
    <3> SUFFICES ASSUME NEW i \in 1 .. (m + 1), i # 1
                 PROVE  g[i] = g[i - 1] \o s[i]
      OBVIOUS
    <3>1. i - 1 \in 1 .. m /\ g[i - 1] = f[i - 1]
      <4>1. i - 1 \in 1 .. m
        OBVIOUS
      <4>2. f[1] = s[1] \/ m = 0
        BY <2>1 DEF Flattens
      <4>3. QED
        BY <4>1, <4>2
    <3>2. CASE i = m + 1
      <4>1. i - 1 = m
        BY ONLY <3>2, m \in Nat
      <4>2. g[i] = f[m] \o s[m + 1]
        BY <3>2, Zenon
      <4> HIDE DEF g
      <4>3. QED
        BY <3>1, <3>2, <4>1, <4>2
    <3>3. CASE i # m + 1
      <4>1. i \in 1 .. m
        BY <3>3
      <4>2. f[i] = f[i - 1] \o s[i]
        BY <2>1, <4>1 DEF Flattens
      <4>3. QED
        BY <3>1, <3>3, <4>2
    <3>4. QED
      BY <3>2, <3>3
  <2>3. g = [i \in 1 .. (m + 1) |-> g[i]]
    OBVIOUS
  <2>4. Flattens(g, m + 1, s)
    <3> HIDE DEF g
    <3>1. QED
      BY <2>2, <2>3 DEF Flattens
  <2>5. QED
    BY <2>4
<1>3. QED
  <2> HIDE DEF P
  <2>1. \A m \in Nat : m \in P
    BY <1>1, <1>2, Induction
  <2> USE DEF P
  <2>2. QED
    BY <2>1

LEMMA FlattensAgree ==
    ASSUME NEW f, NEW g, NEW s, NEW t, NEW m \in Nat, NEW n \in Nat, m <= n,
           Flattens(f, m, s), Flattens(g, n, t),
           \A i \in 1 .. m : s[i] = t[i]
    PROVE  \A i \in 1 .. m : f[i] = g[i]
<1> DEFINE P == {i \in Nat : i \in 1 .. m => f[i] = g[i]}
<1>1. 0 \in P
  OBVIOUS
<1>2. ASSUME NEW i \in Nat, i \in P PROVE i + 1 \in P
  <2> SUFFICES ASSUME i + 1 \in 1 .. m PROVE f[i + 1] = g[i + 1]
    OBVIOUS
  <2>1. /\ f[i + 1] = IF i + 1 = 1 THEN s[i + 1] ELSE f[(i + 1) - 1] \o s[i + 1]
        /\ g[i + 1] = IF i + 1 = 1 THEN t[i + 1] ELSE g[(i + 1) - 1] \o t[i + 1]
    BY i + 1 \in 1 .. n DEF Flattens
  <2>2. (i + 1) - 1 = i /\ (i + 1 # 1 => i \in 1 .. m)
    OBVIOUS
  <2>3. QED
    BY <1>2, <2>1, <2>2
<1>3. QED
  <2> HIDE DEF P
  <2>1. \A i \in Nat : i \in P
    BY <1>1, <1>2, Induction
  <2> USE DEF P
  <2>2. QED
    BY <2>1

\* FlattenSeq, as a fact.
LEMMA FlattenIs ==
    ASSUME NEW s, Len(s) \in Nat \ {0}
    PROVE  \E f : Flattens(f, Len(s), s) /\ FlattenSeq(s) = f[Len(s)]
<1> DEFINE f == CHOOSE f : Flattens(f, Len(s), s)
<1>1. Flattens(f, Len(s), s)
  BY FlattensExists
<1>2. FlattenSeq(s) = f[Len(s)]
  BY Zenon DEF FlattenSeq, Flattens
<1>3. QED
  BY <1>1, <1>2

\* The first k members of s in a row, and s in Seq(Seq(S)) flattened step by step.
Joined(s, k) == FlattenSeq(SubSeq(s, 1, k))

LEMMA FirstOf ==
    ASSUME NEW S, NEW s \in Seq(S), NEW k \in 0 .. Len(s)
    PROVE  /\ SubSeq(s, 1, k) \in Seq(S) /\ Len(SubSeq(s, 1, k)) = k
           /\ \A i \in 1 .. k : SubSeq(s, 1, k)[i] = s[i]
OBVIOUS

LEMMA JoinedNothing == ASSUME NEW s PROVE Joined(s, 0) = <<>>
<1>1. SubSeq(s, 1, 0) = <<>>
  OBVIOUS
<1>2. Len(<<>>) = 0
  OBVIOUS
<1>3. QED
  BY <1>1, <1>2 DEF Joined, FlattenSeq

LEMMA FlattensSame ==
    ASSUME NEW f, NEW g, NEW u, NEW v, NEW k \in Nat,
           Flattens(f, k, u), Flattens(g, k + 1, v), \A i \in 1 .. k : u[i] = v[i]
    PROVE  \A i \in 1 .. k : f[i] = g[i]
<1>1. k + 1 \in Nat /\ k <= k + 1
  OBVIOUS
<1>2. QED
  BY <1>1, FlattensAgree

LEMMA FlattensOneMore ==
    ASSUME NEW u, NEW v, NEW k \in Nat, Len(u) = k, Len(v) = k + 1, k # 0,
           \A i \in 1 .. k : u[i] = v[i]
    PROVE  FlattenSeq(v) = FlattenSeq(u) \o v[k + 1]
<1>1. k \in Nat \ {0} /\ k + 1 \in Nat \ {0} /\ (k + 1) - 1 = k /\ k + 1 # 1
      /\ k \in 1 .. k /\ k + 1 \in 1 .. (k + 1)
  OBVIOUS
<1>2. PICK f : Flattens(f, k, u) /\ FlattenSeq(u) = f[k]
  BY <1>1, FlattenIs
<1>3. PICK g : Flattens(g, k + 1, v) /\ FlattenSeq(v) = g[k + 1]
  BY <1>1, FlattenIs
<1>4. f[k] = g[k]
  BY <1>1, <1>2, <1>3, FlattensSame
<1>5. g[k + 1] = g[k] \o v[k + 1]
  BY <1>1, <1>3 DEF Flattens
<1>6. QED
  BY <1>2, <1>3, <1>4, <1>5

LEMMA FlattensOne ==
    ASSUME NEW v, Len(v) = 1
    PROVE  FlattenSeq(v) = v[1]
<1>1. Len(v) \in Nat \ {0}
  OBVIOUS
<1>2. PICK g : Flattens(g, Len(v), v) /\ FlattenSeq(v) = g[Len(v)]
  BY <1>1, FlattenIs
<1>3. 1 \in 1 .. 1
  OBVIOUS
<1>4. g[1] = v[1]
  BY <1>2, <1>3 DEF Flattens
<1>5. QED
  BY <1>2, <1>4

LEMMA JoinedNext ==
    ASSUME NEW S, NEW s \in Seq(Seq(S)), NEW k \in 0 .. (Len(s) - 1)
    PROVE  Joined(s, k + 1) = Joined(s, k) \o s[k + 1]
<1> DEFINE u == SubSeq(s, 1, k)
           v == SubSeq(s, 1, k + 1)
<1>1. /\ k \in 0 .. Len(s) /\ k + 1 \in 0 .. Len(s) /\ k \in Nat
      /\ k + 1 \in 1 .. (k + 1) /\ \A i \in 1 .. k : i \in 1 .. (k + 1)
  OBVIOUS
<1>2. Len(u) = k /\ \A i \in 1 .. k : u[i] = s[i]
  BY <1>1, FirstOf
<1>3. Len(v) = k + 1 /\ \A i \in 1 .. (k + 1) : v[i] = s[i]
  BY <1>1, FirstOf
<1> HIDE DEF u, v
<1>4. v[k + 1] = s[k + 1]
  BY <1>1, <1>3
<1>5. CASE k = 0
  <2>1. s[k + 1] \in Seq(S)
    BY <1>1
  <2>2. <<>> \o s[k + 1] = s[k + 1]
    BY <2>1
  <2>3. Joined(s, k) = <<>>
    BY <1>5, JoinedNothing
  <2>4. FlattenSeq(v) = v[k + 1]
    BY <1>3, <1>5, FlattensOne
  <2>5. QED
    BY <1>4, <2>2, <2>3, <2>4 DEF Joined, v
<1>6. CASE k # 0
  <2>1. \A i \in 1 .. k : u[i] = v[i]
    BY ONLY <1>1, <1>2, <1>3
  <2>2. FlattenSeq(v) = FlattenSeq(u) \o v[k + 1]
    BY ONLY <1>1, <1>2, <1>3, <1>6, <2>1, FlattensOneMore
  <2>3. QED
    BY <1>4, <2>2 DEF Joined, u, v
<1>7. QED
  BY <1>5, <1>6

LEMMA JoinedType ==
    ASSUME NEW S, NEW s \in Seq(Seq(S))
    PROVE  \A k \in 0 .. Len(s) : Joined(s, k) \in Seq(S)
<1> DEFINE P == {k \in Nat : k <= Len(s) => Joined(s, k) \in Seq(S)}
<1>1. 0 \in P
  BY JoinedNothing, EmptySeq
<1>2. ASSUME NEW k \in Nat, k \in P PROVE k + 1 \in P
  <2> SUFFICES ASSUME k + 1 <= Len(s) PROVE Joined(s, k + 1) \in Seq(S)
    OBVIOUS
  <2>1. k \in 0 .. (Len(s) - 1) /\ k + 1 \in 1 .. Len(s)
    OBVIOUS
  <2>2. Joined(s, k) \in Seq(S) /\ s[k + 1] \in Seq(S)
    BY <1>2, <2>1
  <2>3. Joined(s, k) \o s[k + 1] \in Seq(S)
    BY <2>2
  <2>4. QED
    BY <2>1, <2>3, JoinedNext
<1>3. \A k \in Nat : k \in P
  <2> HIDE DEF P
  <2>1. QED
    BY <1>1, <1>2, Induction
<1>4. QED
  BY <1>3

\* One sequence begins with another.
Begins(a, b) ==
    /\ Len(a) <= Len(b)
    /\ \A i \in 1 .. Len(a) : a[i] = b[i]

LEMMA BeginsItself ==
    ASSUME NEW S, NEW a \in Seq(S), NEW b \in Seq(S)
    PROVE  Begins(a, a) /\ Begins(a, a \o b)
BY DEF Begins

LEMMA BeginsOn ==
    ASSUME NEW S, NEW a \in Seq(S), NEW b \in Seq(S), NEW c \in Seq(S),
           Begins(a, b), Begins(b, c)
    PROVE  Begins(a, c)
BY DEF Begins

LEMMA JoinedBegins ==
    ASSUME NEW S, NEW s \in Seq(Seq(S)), NEW k \in 0 .. Len(s)
    PROVE  \A n \in k .. Len(s) : Begins(Joined(s, k), Joined(s, n))
<1> DEFINE P == {n \in Nat : n \in k .. Len(s) => Begins(Joined(s, k), Joined(s, n))}
<1>1. 0 \in P
  BY JoinedType, BeginsItself
<1>2. ASSUME NEW n \in Nat, n \in P PROVE n + 1 \in P
  <2> SUFFICES ASSUME n + 1 \in k .. Len(s) PROVE Begins(Joined(s, k), Joined(s, n + 1))
    OBVIOUS
  <2>1. CASE n + 1 = k
    BY <2>1, JoinedType, BeginsItself
  <2>2. CASE n + 1 # k
    <3>1. n \in k .. Len(s) /\ n \in 0 .. (Len(s) - 1) /\ n + 1 \in 1 .. Len(s)
          /\ n \in 0 .. Len(s)
      BY <2>2
    <3>2. Joined(s, k) \in Seq(S) /\ Joined(s, n) \in Seq(S) /\ s[n + 1] \in Seq(S)
      BY <3>1, JoinedType
    <3>3. Joined(s, n + 1) = Joined(s, n) \o s[n + 1]
      BY <3>1, JoinedNext
    <3>4. Begins(Joined(s, n), Joined(s, n + 1)) /\ Joined(s, n + 1) \in Seq(S)
      <4> DEFINE a == Joined(s, n)
                 b == s[n + 1]
      <4>1. a \in Seq(S) /\ b \in Seq(S)
        BY <3>2
      <4> HIDE DEF a, b
      <4>2. Begins(a, a \o b) /\ a \o b \in Seq(S)
        BY <4>1, BeginsItself
      <4>3. QED
        BY <3>3, <4>2 DEF a, b
    <3>5. Begins(Joined(s, k), Joined(s, n))
      BY <1>2, <3>1
    <3>6. QED
      BY <3>2, <3>4, <3>5, BeginsOn
  <2>3. QED
    BY <2>1, <2>2
<1>3. \A n \in Nat : n \in P
  <2> HIDE DEF P
  <2>1. QED
    BY <1>1, <1>2, Induction
<1>4. QED
  BY <1>3

-----------------------------------------------------------------------------
(* What tokens make. *)

\* f is how Made folds over the tokens in the set D of their places.
Unpacking(f, D, q) ==
    f = [s \in SUBSET D |->
            IF s = {} THEN <<>> ELSE Unpack(f[s \ {Max(s)}], q[Max(s)])]

LEMMA LargestOf ==
    ASSUME NEW n \in Nat, NEW s \in SUBSET (1 .. (n + 1)), n + 1 \in s
    PROVE  Max(s) = n + 1
<1>1. \A y \in s : n + 1 >= y
  OBVIOUS
<1>2. \A x \in s : (\A y \in s : x >= y) => x = n + 1
  OBVIOUS
<1>3. QED
  BY <1>1, <1>2, Zenon DEF Max

LEMMA UnpackingExists ==
    ASSUME NEW n \in Nat, NEW q
    PROVE  \E f : Unpacking(f, 1 .. n, q)
<1> DEFINE P == {m \in Nat : \E f : Unpacking(f, 1 .. m, q)}
<1>1. 0 \in P
  <2> DEFINE f == [s \in SUBSET (1 .. 0) |-> <<>>]
  <2>1. \A s \in SUBSET (1 .. 0) : s = {}
    OBVIOUS
  <2>2. Unpacking(f, 1 .. 0, q)
    BY <2>1, Zenon DEF Unpacking
  <2>3. QED
    BY <2>2
<1>2. ASSUME NEW m \in Nat, m \in P PROVE m + 1 \in P
  <2>1. PICK f : Unpacking(f, 1 .. m, q)
    BY <1>2
  <2> DEFINE g == [s \in SUBSET (1 .. (m + 1)) |->
                     IF m + 1 \in s THEN Unpack(f[s \ {m + 1}], q[m + 1]) ELSE f[s]]
             h(s) == IF s = {} THEN <<>> ELSE Unpack(g[s \ {Max(s)}], q[Max(s)])
  <2>2. \A s \in SUBSET (1 .. (m + 1)) : m + 1 \notin s => s \in SUBSET (1 .. m)
    OBVIOUS
  <2>3. \A s \in SUBSET (1 .. (m + 1)) : g[s] = h(s)
    <3> SUFFICES ASSUME NEW s \in SUBSET (1 .. (m + 1)) PROVE g[s] = h(s)
      OBVIOUS
    <3>1. CASE m + 1 \in s
      <4>1. Max(s) = m + 1 /\ s # {}
        BY <3>1, LargestOf
      <4>2. s \ {m + 1} \in SUBSET (1 .. (m + 1)) /\ m + 1 \notin s \ {m + 1}
        OBVIOUS
      <4>3. g[s \ {m + 1}] = f[s \ {m + 1}]
        BY <4>2, Zenon
      <4>4. g[s] = Unpack(f[s \ {m + 1}], q[m + 1])
        BY <3>1, Zenon
      <4> HIDE DEF g
      <4>5. QED
        BY <4>1, <4>3, <4>4
    <3>2. CASE m + 1 \notin s
      <4>1. s \in SUBSET (1 .. m) /\ g[s] = f[s]
        BY <2>2, <3>2
      <4>2. f[s] = IF s = {} THEN <<>> ELSE Unpack(f[s \ {Max(s)}], q[Max(s)])
        BY <2>1, <4>1, Zenon DEF Unpacking
      <4>3. /\ s \ {Max(s)} \in SUBSET (1 .. (m + 1))
            /\ m + 1 \notin s \ {Max(s)}
        BY <3>2
      <4>4. g[s \ {Max(s)}] = f[s \ {Max(s)}]
        BY <4>3, Zenon
      <4> HIDE DEF g
      <4>5. QED
        BY <4>1, <4>2, <4>4
    <3>3. QED
      BY <3>1, <3>2
  <2>4. g = [s \in SUBSET (1 .. (m + 1)) |-> g[s]]
    OBVIOUS
  <2>5. Unpacking(g, 1 .. (m + 1), q)
    <3> HIDE DEF g
    <3>1. QED
      BY <2>3, <2>4, Zenon DEF Unpacking
  <2>6. QED
    BY <2>5
<1>3. QED
  <2> HIDE DEF P
  <2>1. \A m \in Nat : m \in P
    BY <1>1, <1>2, Induction
  <2> USE DEF P
  <2>2. QED
    BY <2>1

LEMMA MadeIs ==
    ASSUME NEW S, NEW q \in Seq(S)
    PROVE  \E f : Unpacking(f, 1 .. Len(q), q) /\ Made(q) = f[1 .. Len(q)]
<1>1. DOMAIN q = 1 .. Len(q) /\ Len(q) \in Nat
  OBVIOUS
<1> DEFINE f == CHOOSE f : f = [s \in SUBSET (DOMAIN q) |->
            IF s = {} THEN <<>> ELSE Unpack(f[s \ {Max(s)}], q[Max(s)])]
<1>2. Made(q) = f[DOMAIN q]
  BY Zenon DEF Made, FoldLeft, MapThenFoldSet
<1>3. \E g : Unpacking(g, DOMAIN q, q)
  BY <1>1, UnpackingExists
<1>4. f = CHOOSE g : Unpacking(g, DOMAIN q, q)
  BY Zenon DEF Unpacking
<1> HIDE DEF f
<1>5. Unpacking(f, DOMAIN q, q)
  BY <1>3, <1>4
<1>6. QED
  BY <1>1, <1>2, <1>5

\* A fold, along the first tokens.
LEMMA UnpackingOn ==
    ASSUME NEW n \in Nat, NEW q, NEW f, Unpacking(f, 1 .. n, q)
    PROVE  /\ f[1 .. 0] = <<>>
           /\ \A k \in 0 .. (n - 1) : f[1 .. (k + 1)] = Unpack(f[1 .. k], q[k + 1])
<1>1. f[1 .. 0] = <<>>
  <2>1. 1 .. 0 = {} /\ 1 .. 0 \in SUBSET (1 .. n)
    OBVIOUS
  <2>2. QED
    BY <2>1, Zenon DEF Unpacking
<1>2. ASSUME NEW k \in 0 .. (n - 1)
      PROVE  f[1 .. (k + 1)] = Unpack(f[1 .. k], q[k + 1])
  <2> DEFINE s == 1 .. (k + 1)
  <2>1. s \in SUBSET (1 .. n) /\ s # {} /\ k + 1 \in s /\ k \in Nat
    <3>1. k \in Nat /\ k + 1 \in s
      OBVIOUS
    <3>2. \A i \in s : i \in 1 .. n
      OBVIOUS
    <3> HIDE DEF s
    <3>3. QED
      BY <3>1, <3>2
  <2>2. Max(s) = k + 1
    BY <2>1, LargestOf
  <2>3. s \ {k + 1} = 1 .. k
    OBVIOUS
  <2> HIDE DEF s
  <2>4. f[s] = Unpack(f[s \ {Max(s)}], q[Max(s)])
    BY <2>1, Zenon DEF Unpacking
  <2>5. QED
    BY <2>2, <2>3, <2>4 DEF s
<1>3. QED
  BY <1>1, <1>2

LEMMA UnpackingSame ==
    ASSUME NEW k \in Nat, NEW u, NEW v, NEW f, NEW g,
           Unpacking(f, 1 .. k, u), Unpacking(g, 1 .. (k + 1), v),
           \A i \in 1 .. k : u[i] = v[i]
    PROVE  f[1 .. k] = g[1 .. k]
<1> DEFINE P == {i \in Nat : i <= k => f[1 .. i] = g[1 .. i]}
<1>1. k + 1 \in Nat
  OBVIOUS
<1>2. 0 \in P
  BY <1>1, UnpackingOn
<1>3. ASSUME NEW i \in Nat, i \in P PROVE i + 1 \in P
  <2> SUFFICES ASSUME i + 1 <= k PROVE f[1 .. (i + 1)] = g[1 .. (i + 1)]
    OBVIOUS
  <2>1. i \in 0 .. (k - 1) /\ i \in 0 .. ((k + 1) - 1) /\ i + 1 \in 1 .. k /\ i <= k
    OBVIOUS
  <2>2. f[1 .. (i + 1)] = Unpack(f[1 .. i], u[i + 1])
    BY <2>1, UnpackingOn
  <2>3. g[1 .. (i + 1)] = Unpack(g[1 .. i], v[i + 1])
    BY <1>1, <2>1, UnpackingOn
  <2>4. f[1 .. i] = g[1 .. i]
    BY <1>3, <2>1
  <2>5. QED
    BY <2>1, <2>2, <2>3, <2>4
<1>4. QED
  <2> HIDE DEF P
  <2>1. \A i \in Nat : i \in P
    BY <1>2, <1>3, Induction
  <2> USE DEF P
  <2>2. QED
    BY <2>1

\* What the first tokens make.
MadeBy(q, k) == Made(SubSeq(q, 1, k))

LEMMA MadeOfNothing == ASSUME NEW S, NEW q \in Seq(S) PROVE MadeBy(q, 0) = <<>>
<1> DEFINE u == SubSeq(q, 1, 0)
<1>1. 0 \in 0 .. Len(q)
  OBVIOUS
<1>2. u \in Seq(S) /\ Len(u) = 0
  BY <1>1, FirstOf
<1> HIDE DEF u
<1>3. PICK f : Unpacking(f, 1 .. 0, u) /\ Made(u) = f[1 .. 0]
  BY <1>2, MadeIs
<1>4. QED
  BY <1>3, UnpackingOn DEF MadeBy, u

LEMMA MadeNext ==
    ASSUME NEW S, NEW q \in Seq(S), NEW k \in 0 .. (Len(q) - 1)
    PROVE  MadeBy(q, k + 1) = Unpack(MadeBy(q, k), q[k + 1])
<1> DEFINE u == SubSeq(q, 1, k)
           v == SubSeq(q, 1, k + 1)
<1>1. /\ k \in 0 .. Len(q) /\ k + 1 \in 0 .. Len(q) /\ k \in Nat /\ k + 1 \in Nat
      /\ k + 1 \in 1 .. (k + 1) /\ \A i \in 1 .. k : i \in 1 .. (k + 1)
      /\ k \in 0 .. ((k + 1) - 1)
  OBVIOUS
<1>2. u \in Seq(S) /\ Len(u) = k /\ \A i \in 1 .. k : u[i] = q[i]
  BY <1>1, FirstOf
<1>3. v \in Seq(S) /\ Len(v) = k + 1 /\ \A i \in 1 .. (k + 1) : v[i] = q[i]
  BY <1>1, FirstOf
<1> HIDE DEF u, v
<1>4. PICK f : Unpacking(f, 1 .. k, u) /\ Made(u) = f[1 .. k]
  BY <1>2, MadeIs
<1>5. PICK g : Unpacking(g, 1 .. (k + 1), v) /\ Made(v) = g[1 .. (k + 1)]
  BY <1>3, MadeIs
<1>6. \A i \in 1 .. k : u[i] = v[i]
  BY <1>1, <1>2, <1>3
<1>7. f[1 .. k] = g[1 .. k]
  BY <1>1, <1>4, <1>5, <1>6, UnpackingSame
<1>8. g[1 .. (k + 1)] = Unpack(g[1 .. k], v[k + 1])
  BY <1>1, <1>5, UnpackingOn
<1>9. v[k + 1] = q[k + 1]
  BY <1>1, <1>3
<1>10. QED
  BY <1>4, <1>5, <1>7, <1>8, <1>9 DEF MadeBy, u, v

-----------------------------------------------------------------------------
(* Sequences in a row. *)

LEMMA JoinedAll ==
    ASSUME NEW S, NEW s \in Seq(S)
    PROVE  Joined(s, Len(s)) = FlattenSeq(s)
BY SubSeqFull DEF Joined

\* Where the members of a row stand.
LEMMA JoinedAt ==
    ASSUME NEW S, NEW s \in Seq(Seq(S)), NEW k \in 0 .. (Len(s) - 1)
    PROVE  /\ Len(Joined(s, k)) \in Nat /\ Len(s[k + 1]) \in Nat
           /\ Len(FlattenSeq(s)) \in Nat
           /\ Len(Joined(s, k + 1)) = Len(Joined(s, k)) + Len(s[k + 1])
           /\ Len(Joined(s, k + 1)) <= Len(FlattenSeq(s))
           /\ \A i \in 1 .. Len(s[k + 1]) :
                 FlattenSeq(s)[Len(Joined(s, k)) + i] = s[k + 1][i]
<1> DEFINE a == Joined(s, k)
           b == s[k + 1]
           c == Joined(s, k + 1)
           d == Joined(s, Len(s))
<1>1. /\ k \in 0 .. Len(s) /\ k + 1 \in 0 .. Len(s) /\ k + 1 \in 1 .. Len(s)
      /\ Len(s) \in (k + 1) .. Len(s) /\ Len(s) \in 0 .. Len(s)
  OBVIOUS
<1>2. a \in Seq(S) /\ b \in Seq(S) /\ d \in Seq(S)
  BY <1>1, JoinedType
<1>3. c = a \o b
  BY JoinedNext
<1>4. Begins(c, d)
  BY <1>1, JoinedBegins
<1>5. d = FlattenSeq(s)
  BY JoinedAll
<1> HIDE DEF a, b, c, d
<1>6. /\ Len(a) \in Nat /\ Len(b) \in Nat /\ Len(d) \in Nat
      /\ Len(c) = Len(a) + Len(b) /\ Len(c) <= Len(d)
  BY <1>2, <1>3, <1>4 DEF Begins
<1>7. \A i \in 1 .. Len(b) : d[Len(a) + i] = b[i]
  <2> SUFFICES ASSUME NEW i \in 1 .. Len(b) PROVE d[Len(a) + i] = b[i]
    OBVIOUS
  <2>1. Len(a) + i \in 1 .. Len(c)
    BY <1>6
  <2>2. d[Len(a) + i] = c[Len(a) + i]
    BY <1>4, <2>1 DEF Begins
  <2>3. (a \o b)[Len(a) + i] = b[i]
    BY <1>2
  <2>4. QED
    BY <1>3, <2>2, <2>3
<1>8. QED
  BY <1>5, <1>6, <1>7 DEF a, b, c, d

-----------------------------------------------------------------------------
(* Tokens. *)

LEMMA BackReferenceIs ==
    ASSUME NEW t, NEW m, IsToken(t, m), "lit" \notin DOMAIN t
    PROVE  t.off \in 1 .. 8192 /\ t.off <= Len(m) /\ t.len \in 3 .. 264
BY SMTT(30) DEF IsToken

\* A token unpacks behind other blocks as it does alone.
LEMMA UnpackBehind ==
    ASSUME NEW a \in Seq(Byte), NEW m \in Seq(Byte), NEW t, IsToken(t, m)
    PROVE  /\ Unpack(a \o m, t) = a \o Unpack(m, t)
           /\ Unpack(m, t) \in Seq(Byte)
           /\ Begins(m, Unpack(m, t))
           /\ Len(Unpack(m, t)) =
                 Len(m) + (IF "lit" \in DOMAIN t THEN Len(t.lit) ELSE t.len)
<1>1. CASE "lit" \in DOMAIN t
  <2>1. t.lit \in Seq(Byte)
    BY <1>1 DEF IsToken
  <2>2. Unpack(a \o m, t) = (a \o m) \o t.lit /\ Unpack(m, t) = m \o t.lit
    BY <1>1, Zenon DEF Unpack
  <2> DEFINE l == t.lit
  <2>3. l \in Seq(Byte)
    BY <2>1
  <2> HIDE DEF l, Byte
  <2>4. (a \o m) \o l = a \o (m \o l) /\ m \o l \in Seq(Byte)
        /\ Len(m \o l) = Len(m) + Len(l)
    BY <2>3
  <2>5. Begins(m, m \o l)
    BY <2>3, BeginsItself
  <2>6. QED
    BY <1>1, <2>2, <2>4, <2>5 DEF l
<1>2. CASE "lit" \notin DOMAIN t
  <2> DEFINE n == Len(m)
             off == t.off
             len == t.len
             at(k) == n - off + 1 + ((k - 1) % off)
             c == [k \in 1 .. len |-> m[at(k)]]
             d == [k \in 1 .. len |->
                     (a \o m)[Len(a \o m) - off + 1 + ((k - 1) % off)]]
  <2>1. off \in Nat /\ len \in Nat /\ 1 <= off /\ off <= n /\ n \in Nat
    <3>1. off \in 1 .. 8192 /\ off <= n /\ len \in 3 .. 264
      BY <1>2, BackReferenceIs, SMTT(30)
    <3>2. n \in Nat
      OBVIOUS
    <3> HIDE DEF off, len, n
    <3>3. QED
      BY <3>1, <3>2
  <2>2. Unpack(m, t) = m \o c /\ Unpack(a \o m, t) = (a \o m) \o d
    BY <1>2, Zenon DEF Unpack
  <2>3. ASSUME NEW k \in 1 .. len
        PROVE  at(k) \in 1 .. n
    <3>1. k - 1 \in Nat /\ off \in Nat \ {0}
      BY <2>1
    <3>2. (k - 1) % off \in 0 .. (off - 1)
      BY <3>1, DivMod
    <3> HIDE DEF off, len, n
    <3>3. QED
      BY <2>1, <3>1, <3>2
  <2>4. ASSUME NEW k \in 1 .. len
        PROVE  (a \o m)[Len(a \o m) - off + 1 + ((k - 1) % off)] = m[at(k)]
    <3>1. at(k) \in 1 .. n
      BY <2>3
    <3>2. Len(a \o m) = Len(a) + n /\ Len(a) \in Nat
      <4> HIDE DEF Byte
      <4>1. QED
        OBVIOUS
    <3>3. k - 1 \in Nat /\ off \in Nat \ {0}
      BY <2>1
    <3>4. (k - 1) % off \in Nat
      <4> HIDE DEF off
      <4>1. QED
        BY <3>3, DivMod
    <3>5. Len(a \o m) - off + 1 + ((k - 1) % off) = Len(a) + at(k)
      <4> DEFINE r == (k - 1) % off
      <4>1. r \in Nat
        BY <3>4
      <4> HIDE DEF r, off, n
      <4>2. Len(a \o m) - off + 1 + r = Len(a) + (n - off + 1 + r)
        BY <2>1, <3>2, <4>1
      <4>3. QED
        BY <4>2 DEF r
    <3> HIDE DEF at
    <3>6. (a \o m)[Len(a) + at(k)] = m[at(k)]
      <4> HIDE DEF Byte
      <4>1. QED
        BY <3>1
    <3>7. QED
      BY <3>5, <3>6
  <2>5. c = d
    BY <2>4
  <2>6. \A k \in 1 .. len : m[at(k)] \in Byte
    <3> HIDE DEF at, Byte
    <3>1. QED
      BY <2>3
  <2> HIDE DEF d
  <2>7. c \in Seq(Byte) /\ Len(c) = len
    <3> HIDE DEF at, Byte, len
    <3>1. QED
      BY <2>1, <2>6
  <2> HIDE DEF c, Byte
  <2>8. (a \o m) \o c = a \o (m \o c) /\ m \o c \in Seq(Byte)
        /\ Len(m \o c) = Len(m) + Len(c)
    <3>1. c \in Seq(Byte)
      BY <2>7
    <3>2. (a \o m) \o c = a \o (m \o c)
      BY <3>1, ConcatAssociative
    <3>3. QED
      BY <3>1, <3>2, ConcatProperties
  <2>9. Begins(m, m \o c)
    BY <2>7, BeginsItself
  <2>10. QED
    BY <1>2, <2>2, <2>5, <2>7, <2>8, <2>9
<1>3. QED
  BY <1>1, <1>2

\* The bytes of a token, as lzf_decompress finds them.
LEMMA TokenIs ==
    ASSUME NEW t, NEW m \in Seq(Byte), IsToken(t, m)
    PROVE  LET e == Token(t) IN
           /\ e \in Seq(Byte) /\ Len(e) \in Nat /\ Len(e) >= 1
           /\ "lit" \in DOMAIN t =>
                 /\ t.lit \in Seq(Byte) /\ Len(t.lit) \in 1 .. 32
                 /\ e[1] = Len(t.lit) - 1 /\ Len(e) = Len(t.lit) + 1
                 /\ \A i \in 1 .. Len(t.lit) : e[i + 1] = t.lit[i]
           /\ "lit" \notin DOMAIN t =>
                 /\ e[1] \in 32 .. 255 /\ Len(e) = TokenSize(e[1])
                 /\ t.off \in 1 .. Len(m) /\ t.len \in Nat
                 /\ Distance(e[1], e[Len(e)]) = t.off
                 /\ Length(e[1], e[2]) = t.len
<1>1. CASE "lit" \in DOMAIN t
  <2> DEFINE l == t.lit
             n == Len(t.lit) - 1
  <2>1. l \in Seq(Byte) /\ Len(l) \in 1 .. 32
    BY <1>1 DEF IsToken
  <2>2. Token(t) = <<n>> \o l
    BY <1>1, Zenon DEF Token
  <2>3. n \in 0 .. 31 /\ n \in Byte /\ n = Len(l) - 1
    BY <2>1 DEF Byte
  <2> HIDE DEF l, n, Byte
  <2>4. /\ <<n>> \o l \in Seq(Byte) /\ Len(<<n>> \o l) = Len(l) + 1
        /\ (<<n>> \o l)[1] = n
        /\ \A i \in 1 .. Len(l) : (<<n>> \o l)[i + 1] = l[i]
    BY <2>1, <2>3
  <2>5. QED
    BY <1>1, <2>1, <2>2, <2>3, <2>4, SMTT(30) DEF l
<1>2. CASE "lit" \notin DOMAIN t
  <2> DEFINE off == t.off
             d == off - 1
             len == t.len
             hi == d \div 256
             lo == d % 256
  <2>1. off \in 1 .. 8192 /\ off <= Len(m) /\ len \in 3 .. 264
    BY <1>2, BackReferenceIs, SMTT(30)
  <2>2. d \in 0 .. 8191 /\ off = d + 1
    <3> HIDE DEF off
    <3>1. QED
      BY <2>1
  <2>3. hi \in 0 .. 31 /\ lo \in 0 .. 255 /\ hi * 256 + lo = d
    <3> HIDE DEF d
    <3>1. QED
      BY <2>2
  <2>4. off \in 1 .. Len(m) /\ len \in Nat
    <3>1. Len(m) \in Nat
      OBVIOUS
    <3> HIDE DEF off, len
    <3>2. QED
      BY <2>1, <3>1
  <2>5. Token(t) = IF len < 9 THEN <<(len - 2) * 32 + hi, lo>>
                   ELSE <<7 * 32 + hi, len - 9, lo>>
    BY <1>2, Zenon DEF Token
  <2> HIDE DEF d, hi, lo, len, off
  <2>6. CASE len < 9
    <3> DEFINE c == (len - 2) * 32 + hi
    <3>1. c \in 32 .. 223 /\ c % 32 = hi /\ c \div 32 = len - 2 /\ c \div 32 # 7
      <4>1. len \in {3, 4, 5, 6, 7, 8}
        BY <2>1, <2>6
      <4>2. QED
        BY <2>3, <4>1
    <3> HIDE DEF c
    <3>2. Token(t) = <<c, lo>>
      BY <2>5, <2>6 DEF c
    <3>3. <<c, lo>> \in Seq(Byte) /\ Len(<<c, lo>>) = 2
          /\ <<c, lo>>[1] = c /\ <<c, lo>>[2] = lo
      BY <2>3, <3>1 DEF Byte
    <3>4. TokenSize(c) = 2
      BY <3>1 DEF TokenSize, Extended
    <3>5. Distance(c, lo) = off
      BY <2>2, <2>3, <3>1 DEF Distance
    <3>6. \A x : Length(c, x) = len
      BY <2>1, <3>1 DEF Length, Extended
    <3>7. c \in 32 .. 255
      BY <3>1
    <3>8. QED
      BY <1>2, <3>2, <3>3, <3>4, <3>5, <2>4, <3>6, <3>7 DEF off, len
  <2>7. CASE ~(len < 9)
    <3> DEFINE c == 7 * 32 + hi
               x == len - 9
    <3>1. c \in 224 .. 255 /\ c % 32 = hi /\ c \div 32 = 7 /\ x \in 0 .. 255
      BY <2>1, <2>3, <2>7
    <3>2. Token(t) = <<c, x, lo>>
      BY <2>5, <2>7
    <3> HIDE DEF c
    <3>3. Length(c, x) = len
      BY <2>1, <3>1 DEF Length, Extended
    <3> HIDE DEF x
    <3>4. <<c, x, lo>> \in Seq(Byte) /\ Len(<<c, x, lo>>) = 3
          /\ <<c, x, lo>>[1] = c /\ <<c, x, lo>>[2] = x /\ <<c, x, lo>>[3] = lo
      BY <2>3, <3>1 DEF Byte
    <3>5. TokenSize(c) = 3
      BY <3>1 DEF TokenSize, Extended
    <3>6. Distance(c, lo) = off
      BY <2>2, <2>3, <3>1 DEF Distance
    <3>7. c \in 32 .. 255
      BY <3>1
    <3>8. QED
      BY <1>2, <3>2, <3>3, <3>4, <3>5, <2>4, <3>6, <3>7 DEF off, len
  <2>8. QED
    BY <2>6, <2>7
<1>3. QED
  BY <1>1, <1>2

-----------------------------------------------------------------------------
(* Blocks of tokens. *)

\* The bytes of each token of a block.
Coded(b) == [k \in DOMAIN b.tokens |-> Token(b.tokens[k])]

LEMMA SequenceSays ==
    ASSUME NEW s, IsSequence(s)
    PROVE  /\ Len(s) \in Nat /\ DOMAIN s = 1 .. Len(s)
           /\ \E S : s \in Seq(S)
<1>1. s \in Seq({s[k] : k \in DOMAIN s})
  BY Zenon DEF IsSequence
<1>2. PICK S : s \in Seq(S)
  BY <1>1
<1>3. QED
  BY <1>2

LEMMA TokensSay ==
    ASSUME NEW b, IsBlock(b), b.kind # "raw"
    PROVE  /\ b.kind = "lzf" /\ IsSequence(b.tokens)
           /\ MadeBy(b.tokens, 0) = <<>>
           /\ \A j \in 0 .. Len(b.tokens) : MadeBy(b.tokens, j) \in Seq(Byte)
           /\ \A j \in 0 .. (Len(b.tokens) - 1) :
                 /\ IsToken(b.tokens[j + 1], MadeBy(b.tokens, j))
                 /\ MadeBy(b.tokens, j + 1) =
                       Unpack(MadeBy(b.tokens, j), b.tokens[j + 1])
           /\ Expanded(b) = MadeBy(b.tokens, Len(b.tokens))
<1> DEFINE q == b.tokens
           P == {j \in Nat : j <= Len(q) => MadeBy(q, j) \in Seq(Byte)}
<1>1. /\ b.kind = "lzf" /\ IsSequence(q)
      /\ \A k \in 1 .. Len(q) : IsToken(q[k], Made(SubSeq(q, 1, k - 1)))
  BY Zenon DEF IsBlock
<1>2. Len(q) \in Nat
  BY <1>1, SequenceSays
<1>3. PICK S : q \in Seq(S)
  BY <1>1, SequenceSays
<1>4. Expanded(b) = Made(q)
  BY Zenon DEF Expanded
<1> HIDE DEF q
<1>5. ASSUME NEW j \in 0 .. (Len(q) - 1)
      PROVE  /\ IsToken(q[j + 1], MadeBy(q, j))
             /\ MadeBy(q, j + 1) = Unpack(MadeBy(q, j), q[j + 1])
  <2>1. j + 1 \in 1 .. Len(q) /\ (j + 1) - 1 = j
    BY <1>2
  <2>2. IsToken(q[j + 1], MadeBy(q, j))
    BY <1>1, <2>1 DEF MadeBy
  <2>3. QED
    BY <1>3, <2>2, MadeNext
<1>6. MadeBy(q, 0) = <<>>
  BY <1>3, MadeOfNothing
<1>7. \A j \in Nat : j \in P
  <2>1. 0 \in P
    BY <1>6, EmptySeq
  <2>2. ASSUME NEW j \in Nat, j \in P PROVE j + 1 \in P
    <3> SUFFICES ASSUME j + 1 <= Len(q) PROVE MadeBy(q, j + 1) \in Seq(Byte)
      OBVIOUS
    <3>1. j \in 0 .. (Len(q) - 1) /\ j <= Len(q)
      BY <1>2
    <3>2. MadeBy(q, j) \in Seq(Byte)
      BY <2>2, <3>1
    <3>3. Unpack(MadeBy(q, j), q[j + 1]) \in Seq(Byte)
      BY <1>5, <3>1, <3>2, UnpackBehind
    <3>4. QED
      BY <1>5, <3>1, <3>3
  <2> HIDE DEF P
  <2>3. QED
    BY <2>1, <2>2, Induction
<1>8. \A j \in 0 .. Len(q) : MadeBy(q, j) \in Seq(Byte)
  BY <1>2, <1>7
<1>9. MadeBy(q, Len(q)) = Made(q)
  BY <1>3, SubSeqFull DEF MadeBy
<1>10. QED
  BY <1>1, <1>5, <1>6, <1>8, <1>4, <1>9 DEF q

\* What some tokens make stays as it is.
LEMMA MadeBegins ==
    ASSUME NEW b, IsBlock(b), b.kind # "raw", NEW j \in 0 .. Len(b.tokens)
    PROVE  Begins(MadeBy(b.tokens, j), Expanded(b))
<1> DEFINE q == b.tokens
           P == {n \in Nat : n \in j .. Len(q) => Begins(MadeBy(q, j), MadeBy(q, n))}
<1>1. Len(q) \in Nat
  BY TokensSay, SequenceSays
<1>2. \A n \in 0 .. Len(q) : MadeBy(q, n) \in Seq(Byte)
  BY TokensSay
<1>3. \A n \in 0 .. (Len(q) - 1) :
         /\ IsToken(q[n + 1], MadeBy(q, n))
         /\ MadeBy(q, n + 1) = Unpack(MadeBy(q, n), q[n + 1])
  BY TokensSay
<1>4. Expanded(b) = MadeBy(q, Len(q))
  BY TokensSay
<1>5. j \in 0 .. Len(q)
  OBVIOUS
<1> HIDE DEF q
<1>6. Begins(MadeBy(q, j), MadeBy(q, j))
  BY <1>2, <1>5, BeginsItself
<1>7. \A n \in Nat : n \in P
  <2>1. 0 \in P
    BY <1>1, <1>5, <1>6
  <2>2. ASSUME NEW n \in Nat, n \in P PROVE n + 1 \in P
    <3> SUFFICES ASSUME n + 1 \in j .. Len(q), n + 1 # j
                 PROVE  Begins(MadeBy(q, j), MadeBy(q, n + 1))
      BY <1>6
    <3>1. /\ n \in 0 .. (Len(q) - 1) /\ n \in j .. Len(q) /\ n \in 0 .. Len(q)
          /\ n + 1 \in 0 .. Len(q)
      BY <1>1, <1>5
    <3>2. Begins(MadeBy(q, j), MadeBy(q, n))
      BY <2>2, <3>1
    <3>3. MadeBy(q, n) \in Seq(Byte) /\ MadeBy(q, j) \in Seq(Byte)
          /\ MadeBy(q, n + 1) \in Seq(Byte)
      BY <1>2, <1>5, <3>1
    <3>4. Begins(MadeBy(q, n), Unpack(MadeBy(q, n), q[n + 1]))
      BY <1>3, <3>1, <3>3, UnpackBehind
    <3>5. Begins(MadeBy(q, n), MadeBy(q, n + 1))
      BY <1>3, <3>1, <3>4
    <3>6. QED
      BY <3>2, <3>3, <3>5, BeginsOn
  <2> HIDE DEF P
  <2>3. QED
    BY <2>1, <2>2, Induction
<1>8. Begins(MadeBy(q, j), MadeBy(q, Len(q)))
  BY <1>1, <1>5, <1>7
<1>9. QED
  BY <1>4, <1>8 DEF q

LEMMA CodedIs ==
    ASSUME NEW b, IsBlock(b), b.kind # "raw"
    PROVE  /\ Coded(b) \in Seq(Seq(Byte)) /\ Len(Coded(b)) = Len(b.tokens)
           /\ \A j \in 0 .. (Len(b.tokens) - 1) : Coded(b)[j + 1] = Token(b.tokens[j + 1])
           /\ Body(b) = FlattenSeq(Coded(b))
           /\ Body(b) \in Seq(Byte)
<1> DEFINE q == b.tokens
           s == Coded(b)
<1>1. IsSequence(q) /\ Len(q) \in Nat /\ DOMAIN q = 1 .. Len(q)
  BY TokensSay, SequenceSays
<1>2. \A j \in 0 .. (Len(q) - 1) : Token(q[j + 1]) \in Seq(Byte)
  <2> SUFFICES ASSUME NEW j \in 0 .. (Len(q) - 1) PROVE Token(q[j + 1]) \in Seq(Byte)
    OBVIOUS
  <2>1. j \in 0 .. Len(q)
    BY <1>1
  <2>2. MadeBy(q, j) \in Seq(Byte) /\ IsToken(q[j + 1], MadeBy(q, j))
    BY <2>1, TokensSay
  <2>3. QED
    BY <2>2, TokenIs
<1>3. s = [k \in 1 .. Len(q) |-> Token(q[k])]
  BY <1>1 DEF Coded
<1>4. Body(b) = FlattenSeq(s)
  BY Zenon DEF Body, Coded
<1> HIDE DEF q, s
<1>5. \A k \in 1 .. Len(q) : Token(q[k]) \in Seq(Byte)
  <2> SUFFICES ASSUME NEW k \in 1 .. Len(q) PROVE Token(q[k]) \in Seq(Byte)
    OBVIOUS
  <2>1. k - 1 \in 0 .. (Len(q) - 1) /\ (k - 1) + 1 = k
    BY <1>1
  <2>2. QED
    BY <1>2, <2>1
<1> DEFINE T == Seq(Byte)
<1>6. s \in Seq(T) /\ Len(s) = Len(q)
  <2>1. \A k \in 1 .. Len(q) : Token(q[k]) \in T
    BY <1>5
  <2> HIDE DEF T
  <2>2. QED
    BY <1>1, <1>3, <2>1
<1>7. \A j \in 0 .. (Len(q) - 1) : s[j + 1] = Token(q[j + 1])
  BY <1>1, <1>3
<1>8. Joined(s, Len(s)) \in Seq(Byte)
  <2>1. Len(s) \in 0 .. Len(s)
    BY <1>1, <1>6
  <2>2. QED
    BY <1>6, <2>1, JoinedType
<1>9. Joined(s, Len(s)) = FlattenSeq(s)
  BY <1>6, JoinedAll
<1>10. QED
  BY <1>4, <1>6, <1>7, <1>8, <1>9 DEF q, s

-----------------------------------------------------------------------------
(* Blocks. *)

LEMMA BlockIs ==
    ASSUME NEW b, IsBlock(b)
    PROVE  /\ Expanded(b) \in Seq(Byte) /\ Body(b) \in Seq(Byte)
           /\ b.kind = "raw" => Expanded(b) = Body(b)
<1>1. CASE b.kind = "raw"
  <2>1. b.data \in Seq(Byte)
    BY <1>1, Zenon DEF IsBlock
  <2>2. Expanded(b) = b.data /\ Body(b) = b.data
    BY <1>1, Zenon DEF Expanded, Body
  <2>3. QED
    BY <2>1, <2>2
<1>2. CASE b.kind # "raw"
  <2>1. MadeBy(b.tokens, Len(b.tokens)) \in Seq(Byte)
    <3>1. Len(b.tokens) \in 0 .. Len(b.tokens)
      <4>1. Len(b.tokens) \in Nat
        BY <1>2, TokensSay, SequenceSays
      <4>2. QED
        BY <4>1
    <3>2. QED
      BY <1>2, <3>1, TokensSay
  <2>2. QED
    BY <1>2, <2>1, TokensSay, CodedIs
<1>3. QED
  BY <1>1, <1>2

LEMMA Concat ==
    ASSUME NEW S, NEW a \in Seq(S), NEW c \in Seq(S)
    PROVE  /\ a \o c \in Seq(S) /\ Len(a \o c) = Len(a) + Len(c)
           /\ \A i \in 1 .. Len(a) : (a \o c)[i] = a[i]
           /\ \A i \in 1 .. Len(c) : (a \o c)[Len(a) + i] = c[i]
OBVIOUS

\* A header and what is behind it.
SizeOf(b) == IF b.kind = "raw" THEN 5 ELSE 7

LEMMA FramedIs ==
    ASSUME NEW b, IsBlock(b)
    PROVE  LET e == Framed(b) IN
           /\ e \in Seq(Nat) /\ Len(e) = SizeOf(b) + Len(Body(b))
           /\ Len(Body(b)) \in Nat /\ Len(Expanded(b)) \in Nat
           /\ e[1] = Z /\ e[2] = V /\ e[3] = (IF b.kind = "raw" THEN 0 ELSE 1)
           /\ e[4] * 256 + e[5] = Len(Body(b))
           /\ e[SizeOf(b) - 1] * 256 + e[SizeOf(b)] = Len(Expanded(b))
           /\ \A i \in 1 .. Len(Body(b)) : e[SizeOf(b) + i] = Body(b)[i]
<1> DEFINE c == Body(b)
           p == Len(Body(b))
           u == Len(Expanded(b))
<1>1. c \in Seq(Nat) /\ p \in Nat /\ u \in Nat
  <2>1. Body(b) \in Seq(Byte) /\ Expanded(b) \in Seq(Byte) /\ Byte \subseteq Nat
    BY BlockIs DEF Byte
  <2>2. Body(b) \in Seq(Nat)
    BY <2>1, SeqMonotonic
  <2>3. QED
    BY <2>1, <2>2
<1>2. ASSUME NEW n \in Nat
      PROVE  n \div 256 \in Nat /\ n % 256 \in Nat /\ ((n \div 256) * 256) + (n % 256) = n
  OBVIOUS
<1>3. CASE b.kind = "raw"
  <2>1. u = p
    BY <1>3, BlockIs
  <2>2. Framed(b) = (<<Z, V, 0>> \o <<p \div 256, p % 256>>) \o c
    <3>1. c = b.data
      BY <1>3, Zenon DEF Body
    <3>2. Framed(b) = <<Z, V, 0>> \o TwoBytes(Len(b.data)) \o b.data
      BY <1>3, Zenon DEF Framed
    <3>3. QED
      BY <3>1, <3>2 DEF TwoBytes
  <2> HIDE DEF c, p, u
  <2> DEFINE h == p \div 256
             l == p % 256
  <2>3. h \in Nat /\ l \in Nat /\ h * 256 + l = p
    BY <1>1, <1>2
  <2> HIDE DEF h, l
  <2> DEFINE w == <<Z, V, 0>> \o <<h, l>>
  <2>4. /\ w \in Seq(Nat) /\ Len(w) = 5
        /\ w[1] = 90 /\ w[2] = 86 /\ w[3] = 0 /\ w[4] = h /\ w[5] = l
    <3> DEFINE a == <<Z, V, 0>>
               d == <<h, l>>
    <3>1. a \in Seq(Nat) /\ Len(a) = 3 /\ a[1] = 90 /\ a[2] = 86 /\ a[3] = 0
      BY DEF Z, V
    <3>2. d \in Seq(Nat) /\ Len(d) = 2 /\ d[1] = h /\ d[2] = l
      BY <2>3
    <3> HIDE DEF a, d
    <3>3. w = a \o d
      BY DEF a, d
    <3> HIDE DEF w
    <3>4. /\ w \in Seq(Nat) /\ Len(w) = 3 + 2
          /\ \A i \in 1 .. 3 : w[i] = a[i]
          /\ \A i \in 1 .. 2 : w[3 + i] = d[i]
      <4>1. a \in Seq(Nat) /\ d \in Seq(Nat) /\ w = a \o d
        BY <3>1, <3>2, <3>3
      <4>2. /\ w \in Seq(Nat) /\ Len(w) = Len(a) + Len(d)
            /\ \A i \in 1 .. Len(a) : w[i] = a[i]
            /\ \A i \in 1 .. Len(d) : w[Len(a) + i] = d[i]
        BY ONLY <4>1, Concat
      <4>3. QED
        BY <3>1, <3>2, <4>2
    <3>5. w[3 + 1] = d[1] /\ w[3 + 2] = d[2]
      BY <3>1, <3>2, <3>4
    <3>6. QED
      BY <3>1, <3>2, <3>4, <3>5
  <2> HIDE DEF w
  <2> DEFINE e == w \o c
  <2>5. /\ e \in Seq(Nat) /\ Len(e) = 5 + p
        /\ \A i \in 1 .. 5 : e[i] = w[i]
        /\ \A i \in 1 .. p : e[5 + i] = c[i]
    <3>1. p = Len(c) /\ e = w \o c
      BY DEF p, c
    <3> HIDE DEF e
    <3>2. w \in Seq(Nat) /\ c \in Seq(Nat) /\ e = w \o c
      BY <1>1, <2>4, <3>1
    <3>3. /\ e \in Seq(Nat) /\ Len(e) = Len(w) + Len(c)
          /\ \A i \in 1 .. Len(w) : e[i] = w[i]
          /\ \A i \in 1 .. Len(c) : e[Len(w) + i] = c[i]
      BY ONLY <3>2, Concat
    <3>4. Len(w) = 5 /\ Len(c) = p
      BY <1>1, <2>4, <3>1
    <3> HIDE DEF p, c
    <3>5. QED
      BY ONLY <3>3, <3>4
  <2>6. Framed(b) = e
    BY <2>2 DEF h, l, w
  <2> HIDE DEF e
  <2>7. /\ e[1] = Z /\ e[2] = V /\ e[3] = 0
        /\ e[4] * 256 + e[5] = p /\ e[4] * 256 + e[5] = u
    BY <2>3, <2>4, <2>5, <2>1 DEF Z, V
  <2>8. SizeOf(b) = 5 /\ SizeOf(b) - 1 = 4 /\ p = Len(c)
    BY <1>3 DEF SizeOf, p, c
  <2>9. QED
    BY <1>1, <1>3, <2>5, <2>6, <2>8, <2>7 DEF c, p, u
<1>4. CASE b.kind # "raw"
  <2>1. Framed(b) = ((<<Z, V, 1>> \o <<p \div 256, p % 256>>)
                       \o <<u \div 256, u % 256>>) \o c
    BY <1>4, Zenon DEF Framed, TwoBytes
  <2> HIDE DEF c, p, u
  <2> DEFINE h == p \div 256
             l == p % 256
             g == u \div 256
             k == u % 256
  <2>2. /\ h \in Nat /\ l \in Nat /\ h * 256 + l = p
        /\ g \in Nat /\ k \in Nat /\ g * 256 + k = u
    BY <1>1, <1>2
  <2> HIDE DEF h, l, g, k
  <2> DEFINE w == (<<Z, V, 1>> \o <<h, l>>) \o <<g, k>>
  <2>3. /\ w \in Seq(Nat) /\ Len(w) = 7
        /\ w[1] = 90 /\ w[2] = 86 /\ w[3] = 1 /\ w[4] = h /\ w[5] = l
        /\ w[6] = g /\ w[7] = k
    <3> DEFINE a == <<Z, V, 1>>
               d == <<h, l>>
               f == <<g, k>>
               v == a \o d
    <3>1. a \in Seq(Nat) /\ Len(a) = 3 /\ a[1] = 90 /\ a[2] = 86 /\ a[3] = 1
      BY DEF Z, V
    <3>2. d \in Seq(Nat) /\ Len(d) = 2 /\ d[1] = h /\ d[2] = l
      BY <2>2
    <3>3. f \in Seq(Nat) /\ Len(f) = 2 /\ f[1] = g /\ f[2] = k
      BY <2>2
    <3> HIDE DEF a, d, f
    <3>4. /\ v \in Seq(Nat) /\ Len(v) = 5
          /\ v[1] = a[1] /\ v[2] = a[2] /\ v[3] = a[3]
          /\ v[4] = d[1] /\ v[5] = d[2]
      <4>1. /\ v \in Seq(Nat) /\ Len(v) = 3 + 2
            /\ \A i \in 1 .. 3 : v[i] = a[i]
            /\ \A i \in 1 .. 2 : v[3 + i] = d[i]
        <5>1. v = a \o d
          OBVIOUS
        <5> HIDE DEF v, w
        <5>2. a \in Seq(Nat) /\ d \in Seq(Nat) /\ v = a \o d
          BY <3>1, <3>2, <5>1
        <5>3. /\ v \in Seq(Nat) /\ Len(v) = Len(a) + Len(d)
              /\ \A i \in 1 .. Len(a) : v[i] = a[i]
              /\ \A i \in 1 .. Len(d) : v[Len(a) + i] = d[i]
          BY ONLY <5>2, Concat
        <5>4. QED
          BY <3>1, <3>2, <5>3
      <4> HIDE DEF v, w
      <4>2. v[3 + 1] = d[1] /\ v[3 + 2] = d[2]
        BY <3>1, <3>2, <4>1
      <4>3. QED
        BY <3>1, <3>2, <4>1, <4>2
    <3>5. w = v \o f
      BY DEF a, d, f
    <3> HIDE DEF v, w
    <3>6. /\ w \in Seq(Nat) /\ Len(w) = 5 + 2
          /\ \A i \in 1 .. 5 : w[i] = v[i]
          /\ \A i \in 1 .. 2 : w[5 + i] = f[i]
      <4>1. v \in Seq(Nat) /\ f \in Seq(Nat) /\ w = v \o f
        BY <3>3, <3>4, <3>5
      <4>2. /\ w \in Seq(Nat) /\ Len(w) = Len(v) + Len(f)
            /\ \A i \in 1 .. Len(v) : w[i] = v[i]
            /\ \A i \in 1 .. Len(f) : w[Len(v) + i] = f[i]
        BY ONLY <4>1, Concat
      <4>3. QED
        BY <3>3, <3>4, <4>2
    <3>7. w[5 + 1] = f[1] /\ w[5 + 2] = f[2]
      BY <3>3, <3>4, <3>6
    <3>8. QED
      BY <3>1, <3>2, <3>3, <3>4, <3>6, <3>7
  <2> HIDE DEF w
  <2> DEFINE e == w \o c
  <2>4. /\ e \in Seq(Nat) /\ Len(e) = 7 + p
        /\ \A i \in 1 .. 7 : e[i] = w[i]
        /\ \A i \in 1 .. p : e[7 + i] = c[i]
    <3>1. p = Len(c) /\ e = w \o c
      BY DEF p, c
    <3> HIDE DEF e
    <3>2. w \in Seq(Nat) /\ c \in Seq(Nat) /\ e = w \o c
      BY <1>1, <2>3, <3>1
    <3>3. /\ e \in Seq(Nat) /\ Len(e) = Len(w) + Len(c)
          /\ \A i \in 1 .. Len(w) : e[i] = w[i]
          /\ \A i \in 1 .. Len(c) : e[Len(w) + i] = c[i]
      BY ONLY <3>2, Concat
    <3>4. Len(w) = 7 /\ Len(c) = p
      BY <1>1, <2>3, <3>1
    <3> HIDE DEF p, c
    <3>5. QED
      BY ONLY <3>3, <3>4
  <2>5. Framed(b) = e
    BY <2>1 DEF h, l, g, k, w
  <2> HIDE DEF e
  <2>6. /\ e[1] = Z /\ e[2] = V /\ e[3] = 1
        /\ e[4] * 256 + e[5] = p /\ e[6] * 256 + e[7] = u
    <3>1. \A i \in 1 .. 7 : e[i] = w[i]
      BY <2>4
    <3>2. /\ e[1] = 90 /\ e[2] = 86 /\ e[3] = 1 /\ e[4] = h /\ e[5] = l
          /\ e[6] = g /\ e[7] = k
      BY ONLY <2>3, <3>1
    <3>3. QED
      BY ONLY <2>2, <3>2 DEF Z, V
  <2>7. SizeOf(b) = 7 /\ SizeOf(b) - 1 = 6 /\ p = Len(c)
    BY <1>4 DEF SizeOf, p, c
  <2>8. QED
    BY <1>1, <1>4, <2>4, <2>5, <2>7, <2>6 DEF c, p, u
<1>5. QED
  BY <1>3, <1>4

-----------------------------------------------------------------------------
(* Images. *)

Frames(bs) == [k \in DOMAIN bs |-> Framed(bs[k])]
Contents(bs) == [k \in DOMAIN bs |-> Expanded(bs[k])]
WellFormed(bs) == IsSequence(bs) /\ \A k \in 1 .. Len(bs) : IsBlock(bs[k])

LEMMA RowsAre ==
    ASSUME NEW bs, WellFormed(bs)
    PROVE  /\ Len(bs) \in Nat
           /\ Frames(bs) \in Seq(Seq(Nat)) /\ Len(Frames(bs)) = Len(bs)
           /\ Contents(bs) \in Seq(Seq(Byte)) /\ Len(Contents(bs)) = Len(bs)
           /\ \A k \in 1 .. Len(bs) : /\ Frames(bs)[k] = Framed(bs[k])
                                      /\ Contents(bs)[k] = Expanded(bs[k])
           /\ Image(bs) = FlattenSeq(Frames(bs))
           /\ Content(bs) = FlattenSeq(Contents(bs))
           /\ Image(bs) \in Seq(Nat) /\ Content(bs) \in Seq(Byte)
<1> DEFINE f == Frames(bs)
           c == Contents(bs)
           n == Len(bs)
           T == Seq(Nat)
           U == Seq(Byte)
<1>1. n \in Nat /\ DOMAIN bs = 1 .. n
  BY SequenceSays DEF WellFormed
<1>2. f = [k \in 1 .. n |-> Framed(bs[k])] /\ c = [k \in 1 .. n |-> Expanded(bs[k])]
  BY <1>1 DEF Frames, Contents
<1>3. \A k \in 1 .. n : Framed(bs[k]) \in T /\ Expanded(bs[k]) \in U
  BY BlockIs, FramedIs DEF WellFormed
<1>4. Image(bs) = FlattenSeq(f) /\ Content(bs) = FlattenSeq(c)
  BY Zenon DEF Image, Content, Frames, Contents
<1> HIDE DEF f, c, n, T, U
<1>5. f \in Seq(T) /\ Len(f) = n /\ c \in Seq(U) /\ Len(c) = n
  BY <1>1, <1>2, <1>3
<1>6. \A k \in 1 .. n : f[k] = Framed(bs[k]) /\ c[k] = Expanded(bs[k])
  BY <1>2
<1>7. FlattenSeq(f) \in Seq(Nat) /\ FlattenSeq(c) \in Seq(Byte)
  <2>1. n \in 0 .. n
    BY <1>1
  <2>2. Joined(f, n) \in Seq(Nat) /\ Joined(c, n) \in Seq(Byte)
    BY <1>5, <2>1, JoinedType DEF T, U
  <2>3. Joined(f, n) = FlattenSeq(f) /\ Joined(c, n) = FlattenSeq(c)
    BY <1>5, JoinedAll
  <2>4. QED
    BY <2>2, <2>3
<1>8. QED
  BY <1>1, <1>4, <1>5, <1>6, <1>7 DEF f, c, n, T, U

\* What the first blocks are, and what they expand to.
LEMMA FirstBlocks ==
    ASSUME NEW bs, WellFormed(bs), NEW k \in 0 .. Len(bs)
    PROVE  /\ Image(SubSeq(bs, 1, k)) = Joined(Frames(bs), k)
           /\ Content(SubSeq(bs, 1, k)) = Joined(Contents(bs), k)
<1> DEFINE u == SubSeq(bs, 1, k)
           f == Frames(bs)
           c == Contents(bs)
           T == Seq(Nat)
           U == Seq(Byte)
<1>1. PICK S : bs \in Seq(S)
  BY SequenceSays DEF WellFormed
<1>2. u \in Seq(S) /\ Len(u) = k /\ \A i \in 1 .. k : u[i] = bs[i]
  BY <1>1, FirstOf
<1>3. /\ Len(bs) \in Nat /\ f \in Seq(T) /\ c \in Seq(U)
      /\ Len(f) = Len(bs) /\ Len(c) = Len(bs)
      /\ \A i \in 1 .. Len(bs) : f[i] = Framed(bs[i]) /\ c[i] = Expanded(bs[i])
  BY RowsAre
<1>4. /\ Image(u) = FlattenSeq([i \in DOMAIN u |-> Framed(u[i])])
      /\ Content(u) = FlattenSeq([i \in DOMAIN u |-> Expanded(u[i])])
  BY Zenon DEF Image, Content
<1> HIDE DEF u, f, c, T, U
<1>5. DOMAIN u = 1 .. k /\ k \in Nat
  BY <1>2, <1>3
<1>6. \A i \in 1 .. k : i \in 1 .. Len(bs)
  BY <1>3
<1>7. /\ SubSeq(f, 1, k) = [i \in 1 .. k |-> f[i]]
      /\ SubSeq(c, 1, k) = [i \in 1 .. k |-> c[i]]
  BY <1>3, <1>5
<1>8. \A i \in 1 .. k : f[i] = Framed(u[i]) /\ c[i] = Expanded(u[i])
  BY <1>2, <1>3, <1>6
<1>9. /\ [i \in DOMAIN u |-> Framed(u[i])] = [i \in 1 .. k |-> f[i]]
      /\ [i \in DOMAIN u |-> Expanded(u[i])] = [i \in 1 .. k |-> c[i]]
  BY <1>5, <1>8
<1>10. QED
  BY <1>4, <1>7, <1>9, Zenon DEF Joined, u, f, c

\* Where a block stands.
LEMMA BlockAt ==
    ASSUME NEW bs, WellFormed(bs), NEW k \in 0 .. (Len(bs) - 1)
    PROVE  LET p == Len(Joined(Frames(bs), k))
               b == bs[k + 1]
               n == SizeOf(b) + Len(Body(b)) IN
           /\ IsBlock(b) /\ p \in Nat /\ n \in Nat
           /\ Len(Joined(Frames(bs), k + 1)) = p + n
           /\ p + n <= Len(Image(bs)) /\ Len(Image(bs)) \in Nat
           /\ \A i \in 1 .. n : Image(bs)[p + i] = Framed(b)[i]
           /\ Joined(Contents(bs), k) \in Seq(Byte) /\ Expanded(b) \in Seq(Byte)
           /\ Joined(Contents(bs), k + 1) = Joined(Contents(bs), k) \o Expanded(b)
           /\ Len(Joined(Contents(bs), k)) \in Nat /\ Len(Content(bs)) \in Nat
           /\ Len(Joined(Contents(bs), k)) + Len(Expanded(b)) <= Len(Content(bs))
<1> DEFINE f == Frames(bs)
           c == Contents(bs)
           b == bs[k + 1]
           n == SizeOf(b) + Len(Body(b))
<1>1. /\ Len(bs) \in Nat /\ f \in Seq(Seq(Nat)) /\ c \in Seq(Seq(Byte))
      /\ Len(f) = Len(bs) /\ Len(c) = Len(bs)
      /\ \A i \in 1 .. Len(bs) : f[i] = Framed(bs[i]) /\ c[i] = Expanded(bs[i])
      /\ Image(bs) = FlattenSeq(f) /\ Content(bs) = FlattenSeq(c)
  BY RowsAre
<1>2. k + 1 \in 1 .. Len(bs) /\ k \in 0 .. Len(bs)
  BY <1>1
<1>3. IsBlock(b)
  BY <1>2 DEF WellFormed
<1>4. Framed(b) \in Seq(Nat) /\ Len(Framed(b)) = n /\ Expanded(b) \in Seq(Byte)
  BY <1>3, FramedIs, BlockIs
<1>5. f[k + 1] = Framed(b) /\ c[k + 1] = Expanded(b)
  BY <1>1, <1>2
<1> HIDE DEF f, c, b, n
<1>6. k \in 0 .. (Len(f) - 1) /\ k \in 0 .. (Len(c) - 1)
  BY <1>1
<1>7. /\ Len(Joined(f, k)) \in Nat /\ Len(f[k + 1]) \in Nat
      /\ Len(FlattenSeq(f)) \in Nat
      /\ Len(Joined(f, k + 1)) = Len(Joined(f, k)) + Len(f[k + 1])
      /\ Len(Joined(f, k + 1)) <= Len(FlattenSeq(f))
      /\ \A i \in 1 .. Len(f[k + 1]) :
            FlattenSeq(f)[Len(Joined(f, k)) + i] = f[k + 1][i]
  BY <1>1, <1>6, JoinedAt
<1>8. /\ Len(Joined(c, k)) \in Nat /\ Len(c[k + 1]) \in Nat
      /\ Len(FlattenSeq(c)) \in Nat
      /\ Len(Joined(c, k + 1)) = Len(Joined(c, k)) + Len(c[k + 1])
      /\ Len(Joined(c, k + 1)) <= Len(FlattenSeq(c))
  BY <1>1, <1>6, JoinedAt
<1>9. Joined(c, k + 1) = Joined(c, k) \o c[k + 1]
  BY <1>1, <1>6, JoinedNext
<1>10. Joined(c, k) \in Seq(Byte)
  BY <1>1, <1>2, JoinedType
<1>11. /\ n \in Nat /\ Len(Joined(f, k + 1)) = Len(Joined(f, k)) + n
       /\ Len(Joined(f, k)) + n <= Len(Image(bs)) /\ Len(Image(bs)) \in Nat
       /\ \A i \in 1 .. n : Image(bs)[Len(Joined(f, k)) + i] = Framed(b)[i]
  BY <1>1, <1>4, <1>5, <1>7
<1>12. /\ Len(Joined(c, k)) + Len(Expanded(b)) <= Len(Content(bs))
       /\ Len(Content(bs)) \in Nat
  BY <1>1, <1>5, <1>8
<1>13. QED
  BY <1>3, <1>4, <1>5, <1>7, <1>8, <1>9, <1>10, <1>11, <1>12 DEF f, c, b, n

\* Where a token stands.
LEMMA TokenAt ==
    ASSUME NEW b, IsBlock(b), b.kind # "raw", NEW j \in 0 .. (Len(b.tokens) - 1)
    PROVE  LET p == Len(Joined(Coded(b), j))
               e == Token(b.tokens[j + 1]) IN
           /\ p \in Nat /\ Len(e) \in Nat
           /\ Len(Joined(Coded(b), j + 1)) = p + Len(e)
           /\ p + Len(e) <= Len(Body(b)) /\ Len(Body(b)) \in Nat
           /\ \A i \in 1 .. Len(e) : Body(b)[p + i] = e[i]
<1> DEFINE s == Coded(b)
<1>1. /\ s \in Seq(Seq(Byte)) /\ Len(s) = Len(b.tokens)
      /\ s[j + 1] = Token(b.tokens[j + 1]) /\ Body(b) = FlattenSeq(s)
  BY CodedIs
<1> HIDE DEF s
<1>2. /\ Len(Joined(s, j)) \in Nat /\ Len(s[j + 1]) \in Nat
      /\ Len(FlattenSeq(s)) \in Nat
      /\ Len(Joined(s, j + 1)) = Len(Joined(s, j)) + Len(s[j + 1])
      /\ Len(Joined(s, j + 1)) <= Len(FlattenSeq(s))
      /\ \A i \in 1 .. Len(s[j + 1]) :
            FlattenSeq(s)[Len(Joined(s, j)) + i] = s[j + 1][i]
  BY <1>1, JoinedAt, SMTT(30)
<1>3. QED
  BY <1>1, <1>2 DEF s

LEMMA CodedAll ==
    ASSUME NEW b, IsBlock(b), b.kind # "raw"
    PROVE  /\ Len(Joined(Coded(b), Len(b.tokens))) = Len(Body(b))
           /\ Len(Joined(Coded(b), 0)) = 0
<1>1. /\ Coded(b) \in Seq(Seq(Byte)) /\ Len(Coded(b)) = Len(b.tokens)
      /\ Body(b) = FlattenSeq(Coded(b))
  BY CodedIs
<1>2. Joined(Coded(b), Len(b.tokens)) = Body(b)
  BY <1>1, JoinedAll
<1>3. Joined(Coded(b), 0) = <<>> /\ Len(<<>>) = 0
  BY JoinedNothing
<1>4. QED
  BY <1>2, <1>3

-----------------------------------------------------------------------------
(* The input of the call. *)

LEMMA CallIsWellFormed == ASSUME args \in Calls PROVE WellFormed(args.blocks)
BY CompressorAssumption DEF WellFormed

Cut == IsPrefix(args.input, Image(args.blocks))

LEMMA PrefixIs ==
    ASSUME NEW S, NEW s \in Seq(S), NEW t \in Seq(S), IsPrefix(s, t)
    PROVE  Len(s) <= Len(t) /\ \A i \in 1 .. Len(s) : s[i] = t[i]
<1>1. Len(s) <= Len(t) /\ SubSeq(s, 1, Len(s)) = SubSeq(t, 1, Len(s))
  BY DEF IsPrefix
<1>2. \A i \in 1 .. Len(s) : SubSeq(s, 1, Len(s))[i] = s[i]
  OBVIOUS
<1>3. \A i \in 1 .. Len(s) : SubSeq(t, 1, Len(s))[i] = t[i]
  BY <1>1
<1>4. QED
  BY <1>1, <1>2, <1>3

LEMMA InputIs ==
    ASSUME args \in Calls, Cut \/ WholeImage
    PROVE  /\ Cut => insize <= Len(Image(args.blocks))
           /\ WholeImage => Len(Image(args.blocks)) <= insize
           /\ \A i \in 1 .. insize : i <= Len(Image(args.blocks)) =>
                 args.input[i] = Image(args.blocks)[i]
<1> DEFINE s == args.input
           t == Image(args.blocks)
<1>1. s \in Seq(Nat) /\ t \in Seq(Nat)
  <2>1. args.input \in Seq(Byte) /\ Byte \subseteq Nat
    BY InputIsBytes DEF Byte
  <2>2. QED
    BY <2>1, SeqMonotonic, RowsAre, CallIsWellFormed
<1>2. Cut => IsPrefix(s, t)
  BY DEF Cut
<1>3. WholeImage => IsPrefix(t, s)
  BY Zenon DEF WholeImage
<1>4. insize = Len(s)
  BY DEF insize
<1> HIDE DEF s, t
<1>5. Len(s) \in Nat /\ Len(t) \in Nat
  BY <1>1
<1>6. CASE Cut
  <2>1. Len(s) <= Len(t) /\ \A i \in 1 .. Len(s) : s[i] = t[i]
    BY <1>1, <1>2, <1>6, PrefixIs
  <2>2. WholeImage => Len(t) <= Len(s)
    BY <1>1, <1>3, PrefixIs
  <2>3. QED
    BY <1>4, <2>1, <2>2 DEF s, t
<1>7. CASE ~Cut
  <2>1. Len(t) <= Len(s) /\ \A i \in 1 .. Len(t) : t[i] = s[i]
    BY <1>1, <1>3, <1>7, PrefixIs
  <2>2. \A i \in 1 .. Len(s) : i <= Len(t) => s[i] = t[i]
    BY <1>5, <2>1
  <2>3. QED
    BY <1>4, <1>7, <2>1, <2>2 DEF s, t
<1>8. QED
  BY <1>6, <1>7

-----------------------------------------------------------------------------
(* Where the decoder is in an image. *)

\* The input behind the first k blocks, and what they expand to.
Imaged(k) == Len(Joined(Frames(args.blocks), k))
Emitted(k) == Joined(Contents(args.blocks), k)
PastHeader(k) == Imaged(k) + 7

\* The input is an image, as far as it goes or as far as the image goes.
OfImage == Cut \/ WholeImage

\* Between the first k blocks and the next.
BlockPlace(k) ==
    k \in 0 .. Len(args.blocks) /\ ip = Imaged(k) /\ out = Emitted(k)

\* In block k + 1, before token j + 1.
TokenPlace(k, j) ==
    LET b == args.blocks[k + 1] IN
    /\ k \in 0 .. (Len(args.blocks) - 1) /\ b.kind # "raw"
    /\ j \in 0 .. Len(b.tokens) /\ (j < Len(b.tokens) \/ Len(b.tokens) = 0)
    /\ ip = PastHeader(k) + Len(Joined(Coded(b), j))
    /\ end = PastHeader(k) + Len(Body(b))
    /\ us = Len(Expanded(b)) /\ start = Len(Emitted(k))
    /\ out = Emitted(k) \o MadeBy(b.tokens, j)

Placed ==
    OfImage =>
        /\ pc = "block" => \E k \in Nat : BlockPlace(k)
        /\ pc = "token" => \E k, j \in Nat : TokenPlace(k, j)

\* What is proved of every state, beside IInv.
Follows == Placed /\ Inverts /\ CutAtBlocks

-----------------------------------------------------------------------------
LEMMA ArgsStay ==
    ASSUME args' = args
    PROVE  /\ insize' = insize /\ Cut' = Cut /\ WholeImage' = WholeImage
           /\ OfImage' = OfImage /\ Padding' = Padding
           /\ \A k : Imaged(k)' = Imaged(k) /\ Emitted(k)' = Emitted(k)
BY DEF insize, Cut, WholeImage, OfImage, Padding, Imaged, Emitted

\* No claim is made of an input that is no image.
LEMMA NoImageFollows == ASSUME ~OfImage, args' = args PROVE Follows'
<1>1. ~OfImage' /\ ~Cut' /\ ~WholeImage'
  BY ArgsStay DEF OfImage
<1>2. ~IsPrefix(args.input, Image(args.blocks))'
  BY <1>1, Zenon DEF Cut
<1>3. QED
  BY <1>1, <1>2, Zenon DEF Follows, Placed, Inverts, CutAtBlocks

\* Nor before the end.
LEMMA GoesOn == ASSUME pc' # "done", Placed' PROVE Follows'
BY Zenon DEF Follows, Inverts, CutAtBlocks, Accepted

\* Where the decoder is in an image, the input is what the compressor wrote.
LEMMA InBlockIs ==
    ASSUME args \in Calls, OfImage, NEW k \in 0 .. (Len(args.blocks) - 1)
    PROVE  LET b == args.blocks[k + 1]
               n == SizeOf(b) + Len(Body(b)) IN
           /\ IsBlock(b) /\ n \in Nat /\ Imaged(k) \in Nat
           /\ Imaged(k + 1) = Imaged(k) + n
           /\ WholeImage => Imaged(k) + n <= insize
           /\ \A i \in 1 .. n : Imaged(k) + i <= insize =>
                 args.input[Imaged(k) + i] = Framed(b)[i]
           /\ Emitted(k) \in Seq(Byte) /\ Expanded(b) \in Seq(Byte)
           /\ Emitted(k + 1) = Emitted(k) \o Expanded(b)
           /\ Len(Emitted(k)) \in Nat /\ Len(Content(args.blocks)) \in Nat
           /\ Len(Emitted(k)) + Len(Expanded(b)) <= Len(Content(args.blocks))
<1> DEFINE bs == args.blocks
           b == bs[k + 1]
           n == SizeOf(b) + Len(Body(b))
           p == Imaged(k)
           t == Image(bs)
<1>1. WellFormed(bs)
  BY CallIsWellFormed
<1>2. /\ IsBlock(b) /\ p \in Nat /\ n \in Nat
      /\ Imaged(k + 1) = p + n
      /\ p + n <= Len(t) /\ Len(t) \in Nat
      /\ \A i \in 1 .. n : t[p + i] = Framed(b)[i]
      /\ Emitted(k) \in Seq(Byte) /\ Expanded(b) \in Seq(Byte)
      /\ Emitted(k + 1) = Emitted(k) \o Expanded(b)
      /\ Len(Emitted(k)) \in Nat /\ Len(Content(bs)) \in Nat
      /\ Len(Emitted(k)) + Len(Expanded(b)) <= Len(Content(bs))
  BY <1>1, BlockAt DEF Imaged, Emitted
<1>3. /\ WholeImage => Len(t) <= insize
      /\ \A i \in 1 .. insize : i <= Len(t) => args.input[i] = t[i]
  BY InputIs DEF OfImage
<1>4. insize \in Nat
  BY InputIsBytes
<1> HIDE DEF bs, b, n, p, t
<1>5. WholeImage => p + n <= insize
  BY <1>2, <1>3, <1>4
<1>6. \A i \in 1 .. n : p + i <= insize => args.input[p + i] = Framed(b)[i]
  <2> SUFFICES ASSUME NEW i \in 1 .. n, p + i <= insize
               PROVE  args.input[p + i] = Framed(b)[i]
    OBVIOUS
  <2>1. p + i \in 1 .. insize /\ p + i <= Len(t)
    BY <1>2, <1>4, SMTT(30)
  <2>2. QED
    BY <1>2, <1>3, <2>1
<1>7. QED
  BY <1>2, <1>5, <1>6 DEF bs, b, n, p, t

\* The decoder finds the header of a block where one stands, and nowhere else.
LEMMA HeaderIs ==
    ASSUME args \in Calls, ip \in Nat, OfImage, NEW k \in 0 .. (Len(args.blocks) - 1),
           ip = Imaged(k)
    PROVE  LET b == args.blocks[k + 1] IN
           /\ NoBlock <=> Rem < 5
           /\ Rem >= 5 => /\ Kind = (IF b.kind = "raw" THEN 0 ELSE 1)
                          /\ HeaderSize = SizeOf(b)
                          /\ BadHeader <=> Rem < SizeOf(b)
           /\ Rem >= SizeOf(b) => /\ Packed = Len(Body(b))
                                  /\ Unpacked = Len(Expanded(b))
<1> DEFINE b == args.blocks[k + 1]
           e == Framed(b)
           n == SizeOf(b) + Len(Body(b))
           s == args.input
<1>1. /\ IsBlock(b)
      /\ \A i \in 1 .. n : ip + i <= insize => s[ip + i] = e[i]
  BY InBlockIs
<1>2. /\ Len(Body(b)) \in Nat
      /\ e[1] = Z /\ e[2] = V /\ e[3] = (IF b.kind = "raw" THEN 0 ELSE 1)
      /\ e[4] * 256 + e[5] = Len(Body(b))
      /\ e[SizeOf(b) - 1] * 256 + e[SizeOf(b)] = Len(Expanded(b))
  <2>1. IsBlock(b)
    BY <1>1
  <2> HIDE DEF b, n, s
  <2>2. QED
    BY ONLY <2>1, FramedIs
<1>3. SizeOf(b) = (IF b.kind = "raw" THEN 5 ELSE 7) /\ SizeOf(b) \in {5, 7}
  BY DEF SizeOf
<1>4. insize \in Nat /\ Rem = insize - ip
  BY InputIsBytes DEF Rem
<1> HIDE DEF b, e, s
<1>5. \A i \in 1 .. SizeOf(b) : i <= Rem => s[ip + i] = e[i]
  <2> SUFFICES ASSUME NEW i \in 1 .. SizeOf(b), i <= Rem PROVE s[ip + i] = e[i]
    OBVIOUS
  <2>1. i \in 1 .. n /\ ip + i <= insize
    BY <1>2, <1>3, <1>4, SMTT(30)
  <2>2. QED
    BY <1>1, <2>1
<1> HIDE DEF n
<1>6. Rem >= 5 => s[ip + 1] = Z /\ s[ip + 2] = V /\ s[ip + 3] = e[3]
                  /\ s[ip + 4] = e[4] /\ s[ip + 5] = e[5]
  <2> SUFFICES ASSUME Rem >= 5
               PROVE  /\ s[ip + 1] = e[1] /\ s[ip + 2] = e[2] /\ s[ip + 3] = e[3]
                      /\ s[ip + 4] = e[4] /\ s[ip + 5] = e[5]
    BY <1>2
  <2>1. \A i \in {1, 2, 3, 4, 5} : i \in 1 .. SizeOf(b) /\ i <= Rem
    BY <1>3, <1>4
  <2>2. \A i \in {1, 2, 3, 4, 5} : s[ip + i] = e[i]
    BY ONLY <1>5, <2>1
  <2>3. QED
    BY ONLY <2>2
<1>7. NoBlock <=> Rem < 5
  BY <1>4, <1>6 DEF NoBlock, s
<1>8. Rem >= 5 => Kind = (IF b.kind = "raw" THEN 0 ELSE 1)
  BY <1>2, <1>6 DEF Kind, s
<1>9. Rem >= 5 => HeaderSize = SizeOf(b) /\ (BadHeader <=> Rem < SizeOf(b))
  BY <1>3, <1>4, <1>8 DEF HeaderSize, BadHeader
<1>10. ASSUME Rem >= SizeOf(b) PROVE Packed = Len(Body(b)) /\ Unpacked = Len(Expanded(b))
  <2>1. Rem >= 5
    BY <1>3, <1>4, <1>10
  <2>2. ip + 3 + 1 = ip + 4 /\ ip + 3 + 2 = ip + 5
    OBVIOUS
  <2>3. Packed = s[ip + 3 + 1] * 256 + s[ip + 3 + 2]
    BY Zenon DEF Packed, Word, s
  <2>4. Packed = Len(Body(b))
    <3>1. s[ip + 4] = e[4] /\ s[ip + 5] = e[5]
      BY <1>6, <2>1
    <3>2. Packed = e[4] * 256 + e[5]
      BY ONLY <2>2, <2>3, <3>1
    <3>3. QED
      BY <1>2, <3>2
  <2>5. /\ ip + HeaderSize - 2 + 1 = ip + (SizeOf(b) - 1)
        /\ ip + HeaderSize - 2 + 2 = ip + SizeOf(b)
    BY <1>3, <1>9, <2>1
  <2>6. Unpacked = s[ip + HeaderSize - 2 + 1] * 256 + s[ip + HeaderSize - 2 + 2]
    BY Zenon DEF Unpacked, Word, s
  <2>7. /\ s[ip + (SizeOf(b) - 1)] = e[SizeOf(b) - 1]
        /\ s[ip + SizeOf(b)] = e[SizeOf(b)]
    <3> DEFINE z == SizeOf(b)
    <3>1. z \in 1 .. z /\ z - 1 \in 1 .. z /\ z <= Rem /\ z - 1 <= Rem
      BY <1>3, <1>4, <1>10
    <3>2. \A i \in 1 .. z : i <= Rem => s[ip + i] = e[i]
      BY <1>5
    <3> HIDE DEF z
    <3>3. s[ip + (z - 1)] = e[z - 1] /\ s[ip + z] = e[z]
      BY ONLY <3>1, <3>2
    <3>4. QED
      BY <3>3 DEF z
  <2>8. QED
    BY <1>2, <2>4, <2>5, <2>6, <2>7
<1>11. QED
  BY <1>7, <1>8, <1>9, <1>10 DEF b

\* Behind the last block there is none.
LEMMA NoneBehind ==
    ASSUME args \in Calls, ip \in Nat, OfImage, ip = Len(Image(args.blocks))
    PROVE  NoBlock
<1>1. insize \in Nat /\ Rem = insize - ip
  BY InputIsBytes DEF Rem
<1>2. CASE Cut
  <2>1. insize <= ip
    BY <1>2, InputIs
  <2>2. QED
    BY <1>1, <2>1 DEF NoBlock
<1>3. CASE WholeImage
  <2>1. insize >= ip + 5 => ~(args.input[ip + 1] = Z /\ args.input[ip + 2] = V)
    BY <1>3, Zenon DEF WholeImage
  <2>2. QED
    BY <1>1, <2>1 DEF NoBlock
<1>4. QED
  BY <1>2, <1>3 DEF OfImage

LEMMA AllBlocks ==
    ASSUME args \in Calls
    PROVE  /\ Imaged(Len(args.blocks)) = Len(Image(args.blocks))
           /\ Emitted(Len(args.blocks)) = Content(args.blocks)
           /\ Imaged(0) = 0 /\ Emitted(0) = <<>> /\ Len(args.blocks) \in Nat
           /\ \A k \in 0 .. Len(args.blocks) :
                 /\ Imaged(k) = Len(Image(SubSeq(args.blocks, 1, k)))
                 /\ Emitted(k) = Content(SubSeq(args.blocks, 1, k))
<1> DEFINE bs == args.blocks
           f == Frames(bs)
           c == Contents(bs)
<1>1. WellFormed(bs)
  BY CallIsWellFormed
<1>2. /\ Len(bs) \in Nat /\ f \in Seq(Seq(Nat)) /\ c \in Seq(Seq(Byte))
      /\ Len(f) = Len(bs) /\ Len(c) = Len(bs)
      /\ Image(bs) = FlattenSeq(f) /\ Content(bs) = FlattenSeq(c)
  BY <1>1, RowsAre
<1>3. Joined(f, Len(bs)) = Image(bs) /\ Joined(c, Len(bs)) = Content(bs)
  BY <1>2, JoinedAll
<1>4. Joined(f, 0) = <<>> /\ Joined(c, 0) = <<>> /\ Len(<<>>) = 0
  BY JoinedNothing
<1>5. \A k \in 0 .. Len(bs) : /\ Image(SubSeq(bs, 1, k)) = Joined(f, k)
                              /\ Content(SubSeq(bs, 1, k)) = Joined(c, k)
  BY <1>1, FirstBlocks
<1>6. QED
  BY <1>2, <1>3, <1>4, <1>5, Zenon DEF Imaged, Emitted

-----------------------------------------------------------------------------
(* Each step keeps to it. *)

\* What has to hold when decompress_image returns.
LEMMA Ends ==
    ASSUME args \in Calls, pc' = "done", args' = args,
           WholeImage =>
              LET content == Content(args.blocks) IN
              IF Len(content) <= args.limit /\ Padding <= Overhead
              THEN out' = content /\ ret' = Len(content)
              ELSE ret' = 0,
           Cut /\ ret' > 0 =>
              \E k \in 0 .. Len(args.blocks) :
                 out' = Emitted(k) /\ insize - Imaged(k) \in 0 .. 4
    PROVE  Follows'
<1>1. /\ insize' = insize /\ Cut' = Cut /\ WholeImage' = WholeImage
      /\ Padding' = Padding
  BY ArgsStay
<1>2. Placed'
  BY DEF Placed
<1>3. Inverts'
  BY <1>1, Zenon DEF Inverts
<1>4. CutAtBlocks'
  <2> SUFFICES ASSUME ret' > 0, Cut'
               PROVE  \E k \in 0 .. Len(args.blocks) :
                         /\ out' = Content(SubSeq(args.blocks, 1, k))
                         /\ insize - Len(Image(SubSeq(args.blocks, 1, k))) \in 0 .. 4
    BY <1>1, Zenon DEF CutAtBlocks, Accepted, Cut
  <2>1. PICK k \in 0 .. Len(args.blocks) :
           out' = Emitted(k) /\ insize - Imaged(k) \in 0 .. 4
    BY <1>1
  <2>2. /\ Imaged(k) = Len(Image(SubSeq(args.blocks, 1, k)))
        /\ Emitted(k) = Content(SubSeq(args.blocks, 1, k))
    BY AllBlocks
  <2>3. QED
    BY <2>1, <2>2
<1>5. QED
  BY <1>2, <1>3, <1>4 DEF Follows

LEMMA InitFollows == Init => Follows
<1> SUFFICES ASSUME Init PROVE Follows
  OBVIOUS
<1>1. args \in Calls /\ pc = "block" /\ ip = 0 /\ out = <<>>
  BY DEF Init
<1>2. /\ Imaged(0) = 0 /\ Emitted(0) = <<>> /\ Len(args.blocks) \in Nat
  BY <1>1, AllBlocks
<1>3. BlockPlace(0)
  BY <1>1, <1>2 DEF BlockPlace
<1>4. Placed
  BY <1>1, <1>3 DEF Placed
<1>5. QED
  BY <1>1, <1>4, Zenon DEF Follows, Inverts, CutAtBlocks, Accepted

LEMMA LastBlockFollows == ASSUME IInv, Follows, LastBlock PROVE Follows'
<1>1. /\ pc = "block" /\ pc' = "done" /\ NoBlock
      /\ ret' = (IF Rem > Overhead THEN 0 ELSE ret)
      /\ args' = args /\ out' = out
  BY DEF LastBlock, Return
<1>2. /\ args \in Calls /\ ip \in Nat /\ insize \in Nat /\ Rem = insize - ip
      /\ ip <= insize /\ ret = Len(out) /\ ret <= args.limit
  BY <1>1, InputIsBytes DEF IInv, TypeOK, AtBlock, Rem
<1>3. SUFFICES ASSUME OfImage PROVE Follows'
  BY <1>1, NoImageFollows
<1>4. PICK k \in Nat : BlockPlace(k)
  BY <1>1, <1>3 DEF Follows, Placed
<1>5. /\ k \in 0 .. Len(args.blocks) /\ ip = Imaged(k) /\ out = Emitted(k)
  BY <1>4 DEF BlockPlace
<1>6. /\ Imaged(Len(args.blocks)) = Len(Image(args.blocks))
      /\ Emitted(Len(args.blocks)) = Content(args.blocks) /\ Len(args.blocks) \in Nat
  BY <1>2, AllBlocks
<1>7. CASE k = Len(args.blocks)
  <2>1. ip = Len(Image(args.blocks)) /\ out = Content(args.blocks)
    BY <1>5, <1>6, <1>7
  <2>2. Padding = Rem
    BY <1>2, <2>1 DEF Padding
  <2>3. Cut => insize <= ip
    BY <1>2, <1>3, <2>1, InputIs DEF OfImage
  <2>4. Cut => insize - ip \in 0 .. 4
    BY <1>2, <2>3
  <2>5. Overhead \in Nat /\ Rem \in Nat
    BY <1>2, DecompressAssumption
  <2>6. LET content == Content(args.blocks) IN
        IF Len(content) <= args.limit /\ Padding <= Overhead
        THEN out' = content /\ ret' = Len(content)
        ELSE ret' = 0
    BY <1>1, <1>2, <2>1, <2>2, <2>5
  <2>7. QED
    BY <1>1, <1>2, <1>5, <2>4, <2>6, Ends
<1>8. CASE k # Len(args.blocks)
  <2>1. k \in 0 .. (Len(args.blocks) - 1)
    BY <1>5, <1>6, <1>8
  <2>2. Rem < 5
    BY <1>1, <1>2, <1>3, <1>5, <2>1, HeaderIs
  <2>3. ~WholeImage
    <3>1. LET b == args.blocks[k + 1]
              n == SizeOf(b) + Len(Body(b)) IN
          IsBlock(b) /\ Imaged(k) \in Nat /\ (WholeImage => Imaged(k) + n <= insize)
      BY <1>2, <1>3, <2>1, InBlockIs
    <3>2. LET b == args.blocks[k + 1] IN Len(Body(b)) \in Nat /\ SizeOf(b) \in {5, 7}
      BY <3>1, FramedIs DEF SizeOf
    <3>3. QED
      BY <1>2, <1>5, <2>2, <3>1, <3>2
  <2>4. insize - Imaged(k) \in 0 .. 4
    BY <1>2, <1>5, <2>2
  <2>5. QED
    BY <1>1, <1>2, <1>5, <2>3, <2>4, Ends
<1>9. QED
  BY <1>7, <1>8

\* Where a block is found, it is one of the image's.
LEMMA FoundBlock ==
    ASSUME IInv, Follows, OfImage, pc = "block", ~NoBlock
    PROVE  \E k \in 0 .. (Len(args.blocks) - 1) :
              /\ ip = Imaged(k) /\ out = Emitted(k) /\ Rem >= 5
              /\ k \in Nat /\ k + 1 \in Nat /\ k + 1 \in 0 .. Len(args.blocks)
<1>1. args \in Calls /\ ip \in Nat /\ insize \in Nat /\ Rem = insize - ip
  BY InputIsBytes DEF IInv, TypeOK, Rem
<1>2. PICK k \in Nat : BlockPlace(k)
  BY DEF Follows, Placed
<1>3. k \in 0 .. Len(args.blocks) /\ ip = Imaged(k) /\ out = Emitted(k)
  BY <1>2 DEF BlockPlace
<1>4. Imaged(Len(args.blocks)) = Len(Image(args.blocks)) /\ Len(args.blocks) \in Nat
  BY <1>1, AllBlocks
<1>5. k # Len(args.blocks)
  BY <1>1, <1>3, <1>4, NoneBehind
<1>6. Rem >= 5
  BY <1>1 DEF NoBlock
<1>7. QED
  BY <1>3, <1>4, <1>5, <1>6

LEMMA BadBlockFollows == ASSUME IInv, Follows, BadBlock PROVE Follows'
<1>1. /\ pc = "block" /\ pc' = "done" /\ ~NoBlock /\ ~GoodBlock
      /\ ret' = 0 /\ args' = args
  BY DEF BadBlock, Return
<1>2. /\ args \in Calls /\ ip \in Nat /\ insize \in Nat /\ Rem = insize - ip
      /\ ret = Len(out) /\ args.limit \in Nat /\ ret \in Nat
  BY <1>1, InputIsBytes DEF IInv, TypeOK, AtBlock, Rem
<1>3. SUFFICES ASSUME OfImage PROVE Follows'
  BY <1>1, NoImageFollows
<1>4. PICK k \in 0 .. (Len(args.blocks) - 1) :
         /\ ip = Imaged(k) /\ out = Emitted(k) /\ Rem >= 5
  BY <1>1, <1>3, FoundBlock
<1> DEFINE b == args.blocks[k + 1]
           content == Content(args.blocks)
<1>5. /\ IsBlock(b)
      /\ WholeImage => Imaged(k) + (SizeOf(b) + Len(Body(b))) <= insize
      /\ Len(content) \in Nat /\ Len(Emitted(k)) + Len(Expanded(b)) <= Len(content)
  BY <1>2, <1>3, InBlockIs
<1>6. /\ Len(Body(b)) \in Nat /\ Len(Expanded(b)) \in Nat /\ SizeOf(b) \in {5, 7}
  BY <1>5, FramedIs DEF SizeOf
<1>7. /\ HeaderSize = SizeOf(b) /\ (BadHeader <=> Rem < SizeOf(b))
      /\ Rem >= SizeOf(b) => Packed = Len(Body(b)) /\ Unpacked = Len(Expanded(b))
  BY <1>2, <1>3, <1>4, HeaderIs
<1> HIDE DEF b, content
<1>8. WholeImage => Len(content) > args.limit
  <2> SUFFICES ASSUME WholeImage PROVE Len(content) > args.limit
    OBVIOUS
  <2>1. Rem >= SizeOf(b) + Len(Body(b)) /\ Rem >= SizeOf(b)
    BY <1>2, <1>4, <1>5, <1>6, SMTT(30)
  <2>2. ~BadHeader /\ Packed <= Rem - HeaderSize /\ Unpacked = Len(Expanded(b))
    BY <1>2, <1>6, <1>7, <2>1
  <2>3. ~(Len(Expanded(b)) <= args.limit - ret)
    BY <1>1, <2>2 DEF GoodBlock, TooLarge
  <2>4. ret + Len(Expanded(b)) <= Len(content)
    BY <1>2, <1>4, <1>5
  <2>5. QED
    BY <1>2, <1>5, <1>6, <2>3, <2>4
<1>9. WholeImage =>
        IF Len(content) <= args.limit /\ Padding <= Overhead
        THEN out' = content /\ ret' = Len(content)
        ELSE ret' = 0
  BY <1>1, <1>2, <1>5, <1>8
<1>10. ~(ret' > 0)
  BY <1>1
<1>11. QED
  BY <1>1, <1>2, <1>9, <1>10, Ends DEF content

\* A part of the input, byte by byte.
LEMMA StretchIs ==
    ASSUME args \in Calls, NEW m \in Nat, NEW n \in Nat, m + n <= insize,
           NEW t \in Seq(Byte), Len(t) = n,
           \A i \in 1 .. n : args.input[m + i] = t[i]
    PROVE  SubSeq(args.input, m + 1, m + n) = t
<1> DEFINE s == SubSeq(args.input, m + 1, m + n)
<1>1. s \in Seq(Byte) /\ Len(s) = n
  BY Stretch
<1>2. \A i \in 1 .. n : s[i] = args.input[m + i]
  <2> DEFINE r == args.input
  <2>1. r \in Seq(Byte) /\ Len(r) \in Nat /\ m + n <= Len(r)
    BY InputIsBytes DEF insize
  <2> HIDE DEF r
  <2>2. \A i \in 1 .. n : SubSeq(r, m + 1, m + n)[i] = r[m + i]
    BY <2>1
  <2>3. QED
    BY <2>2 DEF r
<1> HIDE DEF s
<1>3. \A i \in 1 .. Len(s) : s[i] = t[i]
  BY <1>1, <1>2
<1>4. Len(s) = Len(t)
  BY <1>1
<1>5. s = t
  BY ONLY <1>1, <1>3, <1>4, t \in Seq(Byte), SeqEqual
<1>6. QED
  BY <1>5 DEF s

\* What a block that is unpacked leaves behind.
LEMMA BehindBlock ==
    ASSUME args \in Calls, OfImage, NEW k \in 0 .. (Len(args.blocks) - 1),
           k + 1 \in Nat, k + 1 \in 0 .. Len(args.blocks),
           pc' = "block", args' = args,
           ip' = Imaged(k) + SizeOf(args.blocks[k + 1]) + Len(Body(args.blocks[k + 1])),
           out' = Emitted(k) \o Expanded(args.blocks[k + 1])
    PROVE  Follows'
<1> DEFINE b == args.blocks[k + 1]
<1>1. /\ IsBlock(b) /\ Imaged(k) \in Nat
      /\ Imaged(k + 1) = Imaged(k) + (SizeOf(b) + Len(Body(b)))
      /\ Emitted(k + 1) = Emitted(k) \o Expanded(b)
  BY InBlockIs
<1>2. Len(Body(b)) \in Nat /\ SizeOf(b) \in {5, 7}
  BY <1>1, FramedIs DEF SizeOf
<1> HIDE DEF b
<1>3. ip' = Imaged(k + 1) /\ out' = Emitted(k + 1)
  BY <1>1, <1>2 DEF b
<1>4. Imaged(k + 1)' = Imaged(k + 1) /\ Emitted(k + 1)' = Emitted(k + 1)
  BY ArgsStay
<1>5. BlockPlace(k + 1)'
  BY <1>3, <1>4 DEF BlockPlace
<1>6. Placed'
  BY <1>5 DEF Placed
<1>7. QED
  BY <1>6, GoesOn

LEMMA RawBlockFollows == ASSUME IInv, Follows, RawBlock PROVE Follows'
<1>1. /\ pc = "block" /\ ~NoBlock /\ GoodBlock /\ Kind = 0 /\ pc' = "block"
      /\ out' = out \o SubSeq(args.input, ip + 6, ip + 5 + Unpacked)
      /\ ip' = ip + 5 + Unpacked /\ args' = args
  BY DEF RawBlock
<1>2. /\ args \in Calls /\ ip \in Nat /\ insize \in Nat /\ Rem = insize - ip
  BY InputIsBytes DEF IInv, TypeOK, Rem
<1>3. SUFFICES ASSUME OfImage PROVE Follows'
  BY <1>1, NoImageFollows
<1>4. PICK k \in 0 .. (Len(args.blocks) - 1) :
         /\ ip = Imaged(k) /\ out = Emitted(k) /\ Rem >= 5
         /\ k + 1 \in Nat /\ k + 1 \in 0 .. Len(args.blocks)
  BY <1>1, <1>3, FoundBlock
<1> DEFINE b == args.blocks[k + 1]
           n == SizeOf(b) + Len(Body(b))
<1>5. /\ IsBlock(b) /\ n \in Nat
      /\ \A i \in 1 .. n : ip + i <= insize => args.input[ip + i] = Framed(b)[i]
  BY <1>2, <1>3, <1>4, InBlockIs
<1>6. /\ Kind = (IF b.kind = "raw" THEN 0 ELSE 1) /\ HeaderSize = SizeOf(b)
      /\ (BadHeader <=> Rem < SizeOf(b))
      /\ Rem >= SizeOf(b) => Packed = Len(Body(b)) /\ Unpacked = Len(Expanded(b))
  BY <1>2, <1>3, <1>4, HeaderIs
<1>7. b.kind = "raw" /\ SizeOf(b) = 5
  BY <1>1, <1>6 DEF SizeOf
<1>8. /\ Len(Body(b)) \in Nat /\ Expanded(b) = Body(b) /\ Body(b) \in Seq(Byte)
      /\ \A i \in 1 .. Len(Body(b)) : Framed(b)[SizeOf(b) + i] = Body(b)[i]
  <2>1. IsBlock(b)
    BY <1>5
  <2> HIDE DEF b, n
  <2>2. /\ Len(Body(b)) \in Nat
        /\ \A i \in 1 .. Len(Body(b)) : Framed(b)[SizeOf(b) + i] = Body(b)[i]
    BY ONLY <2>1, FramedIs
  <2>3. Expanded(b) = Body(b) /\ Body(b) \in Seq(Byte)
    BY ONLY <2>1, <1>7, BlockIs
  <2>4. QED
    BY ONLY <2>2, <2>3
<1> HIDE DEF b
<1>9. /\ Rem >= 5 /\ Unpacked = Len(Body(b)) /\ ip + 5 + Len(Body(b)) <= insize
  <2>1. Rem >= 5 /\ Packed = Len(Body(b)) /\ Unpacked = Len(Body(b))
    BY <1>4, <1>6, <1>7, <1>8
  <2>2. Packed <= Rem - 5
    BY <1>1, <1>6, <1>7 DEF GoodBlock, TooLarge
  <2>3. QED
    BY <1>2, <1>8, <2>1, <2>2
<1>10. SubSeq(args.input, ip + 6, ip + 5 + Unpacked) = Body(b)
  <2> DEFINE m == ip + 5
             t == Body(b)
  <2>1. m \in Nat /\ m + 1 = ip + 6 /\ Len(t) \in Nat /\ m + Len(t) <= insize
    BY <1>2, <1>8, <1>9
  <2>2. ASSUME NEW i \in 1 .. Len(t) PROVE args.input[m + i] = t[i]
    <3>1. 5 + i \in 1 .. n /\ ip + (5 + i) <= insize /\ ip + (5 + i) = m + i
      <4> DEFINE z == Len(Body(b))
      <4>1. n = 5 + z /\ z \in Nat /\ ip + 5 + z <= insize /\ i \in 1 .. z
        BY <1>7, <1>8, <1>9
      <4> HIDE DEF n, z
      <4>2. QED
        BY <1>2, <4>1
    <3>2. args.input[ip + (5 + i)] = Framed(b)[5 + i]
      BY <1>5, <3>1
    <3>3. QED
      BY <1>7, <1>8, <3>1, <3>2
  <2>3. t \in Seq(Byte)
    BY <1>8
  <2> HIDE DEF m, t
  <2>4. SubSeq(args.input, m + 1, m + Len(t)) = t
    BY <1>2, <2>1, <2>2, <2>3, StretchIs
  <2>5. QED
    BY <1>9, <2>1, <2>4 DEF m, t
<1>11. /\ out' = Emitted(k) \o Expanded(b)
       /\ ip' = Imaged(k) + SizeOf(b) + Len(Body(b))
  BY <1>1, <1>4, <1>7, <1>8, <1>9, <1>10
<1>12. QED
  BY <1>1, <1>2, <1>3, <1>4, <1>11, BehindBlock DEF b

\* The place before token j + 1 of block k + 1 has been reached.
LEMMA BeforeToken ==
    ASSUME NEW k \in Nat, NEW j \in Nat, k \in 0 .. (Len(args.blocks) - 1),
           args' = args, pc' = "token",
           args.blocks[k + 1].kind # "raw",
           j \in 0 .. Len(args.blocks[k + 1].tokens),
           j < Len(args.blocks[k + 1].tokens) \/ Len(args.blocks[k + 1].tokens) = 0,
           ip' = PastHeader(k) + Len(Joined(Coded(args.blocks[k + 1]), j)),
           end' = PastHeader(k) + Len(Body(args.blocks[k + 1])),
           us' = Len(Expanded(args.blocks[k + 1])), start' = Len(Emitted(k)),
           out' = Emitted(k) \o MadeBy(args.blocks[k + 1].tokens, j)
    PROVE  Follows'
<1>1. PastHeader(k)' = PastHeader(k) /\ Emitted(k)' = Emitted(k)
  BY DEF PastHeader, Imaged, Emitted
<1>2. TokenPlace(k, j)'
  BY <1>1, Zenon DEF TokenPlace
<1>3. \E x, y \in Nat : TokenPlace(x, y)'
  BY <1>2
<1>4. Placed'
  BY <1>3, Zenon DEF Placed
<1>5. QED
  BY <1>4, GoesOn

LEMMA LzfBlockFollows == ASSUME IInv, Follows, LzfBlock PROVE Follows'
<1>1. /\ pc = "block" /\ ~NoBlock /\ GoodBlock /\ Kind = 1 /\ pc' = "token"
      /\ ip' = ip + 7 /\ end' = ip + 7 + Packed /\ us' = Unpacked
      /\ start' = Len(out) /\ out' = out /\ args' = args
  BY DEF LzfBlock
<1>2. /\ args \in Calls /\ ip \in Nat /\ insize \in Nat /\ Rem = insize - ip
  BY InputIsBytes DEF IInv, TypeOK, Rem
<1>3. SUFFICES ASSUME OfImage PROVE Follows'
  BY <1>1, NoImageFollows
<1>4. PICK k \in 0 .. (Len(args.blocks) - 1) :
         ip = Imaged(k) /\ out = Emitted(k) /\ Rem >= 5 /\ k \in Nat
  BY <1>1, <1>3, FoundBlock
<1> DEFINE b == args.blocks[k + 1]
<1>5. IsBlock(b) /\ Emitted(k) \in Seq(Byte)
  BY <1>2, <1>3, <1>4, InBlockIs
<1>6. /\ Kind = (IF b.kind = "raw" THEN 0 ELSE 1) /\ HeaderSize = SizeOf(b)
      /\ (BadHeader <=> Rem < SizeOf(b))
      /\ Rem >= SizeOf(b) => Packed = Len(Body(b)) /\ Unpacked = Len(Expanded(b))
  BY <1>2, <1>3, <1>4, HeaderIs
<1>7. b.kind # "raw" /\ SizeOf(b) = 7
  BY <1>1, <1>6 DEF SizeOf
<1>8. /\ Len(b.tokens) \in Nat /\ MadeBy(b.tokens, 0) = <<>>
      /\ Len(Joined(Coded(b), 0)) = 0
  BY <1>5, <1>7, TokensSay, SequenceSays, CodedAll
<1>9. Packed = Len(Body(b)) /\ Unpacked = Len(Expanded(b))
  BY <1>1, <1>2, <1>6, <1>7 DEF GoodBlock
<1>10. Emitted(k) \o <<>> = Emitted(k)
  BY <1>5, ConcatEmptySeq
<1> HIDE DEF b
<1>11. /\ 0 \in 0 .. Len(b.tokens) /\ (0 < Len(b.tokens) \/ Len(b.tokens) = 0)
       /\ ip' = PastHeader(k) + Len(Joined(Coded(b), 0))
       /\ end' = PastHeader(k) + Len(Body(b))
       /\ us' = Len(Expanded(b)) /\ start' = Len(Emitted(k))
       /\ out' = Emitted(k) \o MadeBy(b.tokens, 0)
  <2> DEFINE m == Len(b.tokens)
             z == Len(Joined(Coded(b), 0))
  <2>1. m \in Nat /\ z = 0
    BY <1>8
  <2> HIDE DEF m, z
  <2>2. 0 \in 0 .. m /\ (0 < m \/ m = 0)
    BY ONLY <2>1
  <2>3. ip' = PastHeader(k) + z /\ end' = PastHeader(k) + Len(Body(b))
    BY ONLY <1>1, <1>2, <1>4, <1>9, <2>1 DEF PastHeader
  <2>4. us' = Len(Expanded(b)) /\ start' = Len(Emitted(k))
    BY ONLY <1>1, <1>4, <1>9
  <2>5. out' = Emitted(k) \o MadeBy(b.tokens, 0)
    BY ONLY <1>1, <1>4, <1>8, <1>10
  <2>6. QED
    BY <2>2, <2>3, <2>4, <2>5 DEF m, z
<1>12. QED
  BY <1>1, <1>4, <1>7, <1>11, BeforeToken DEF b

-----------------------------------------------------------------------------
\* What the place of a token says of the block.
LEMMA PlaceSays ==
    ASSUME args \in Calls, OfImage, NEW k \in Nat, NEW j \in Nat, TokenPlace(k, j)
    PROVE  LET b == args.blocks[k + 1] IN
           /\ k \in 0 .. (Len(args.blocks) - 1) /\ IsBlock(b) /\ b.kind # "raw"
           /\ k + 1 \in Nat /\ k + 1 \in 0 .. Len(args.blocks)
           /\ PastHeader(k) \in Nat /\ Len(Body(b)) \in Nat /\ Len(b.tokens) \in Nat
           /\ Emitted(k) \in Seq(Byte) /\ Len(Emitted(k)) \in Nat
           /\ j \in 0 .. Len(b.tokens) /\ (j < Len(b.tokens) \/ Len(b.tokens) = 0)
           /\ ip = PastHeader(k) + Len(Joined(Coded(b), j))
           /\ end = PastHeader(k) + Len(Body(b))
           /\ us = Len(Expanded(b)) /\ us \in Nat /\ start = Len(Emitted(k))
           /\ out = Emitted(k) \o MadeBy(b.tokens, j)
           /\ \A i \in 1 .. Len(Body(b)) : PastHeader(k) + i <= insize =>
                 args.input[PastHeader(k) + i] = Body(b)[i]
<1> DEFINE b == args.blocks[k + 1]
           n == SizeOf(b) + Len(Body(b))
           z == Len(Body(b))
<1>1. /\ k \in 0 .. (Len(args.blocks) - 1) /\ b.kind # "raw"
      /\ j \in 0 .. Len(b.tokens) /\ (j < Len(b.tokens) \/ Len(b.tokens) = 0)
      /\ ip = PastHeader(k) + Len(Joined(Coded(b), j))
      /\ end = PastHeader(k) + Len(Body(b))
      /\ us = Len(Expanded(b)) /\ start = Len(Emitted(k))
      /\ out = Emitted(k) \o MadeBy(b.tokens, j)
  BY Zenon DEF TokenPlace
<1>2. /\ IsBlock(b) /\ Imaged(k) \in Nat
      /\ \A i \in 1 .. n : Imaged(k) + i <= insize =>
            args.input[Imaged(k) + i] = Framed(b)[i]
      /\ Emitted(k) \in Seq(Byte) /\ Len(Emitted(k)) \in Nat
  BY <1>1, InBlockIs
<1>3. /\ z \in Nat /\ Len(Expanded(b)) \in Nat /\ SizeOf(b) = 7
      /\ \A i \in 1 .. z : Framed(b)[7 + i] = Body(b)[i]
  <2>1. IsBlock(b) /\ SizeOf(b) = 7
    BY <1>1, <1>2 DEF SizeOf
  <2> HIDE DEF b, n
  <2>2. /\ Len(Body(b)) \in Nat /\ Len(Expanded(b)) \in Nat
        /\ \A i \in 1 .. Len(Body(b)) : Framed(b)[SizeOf(b) + i] = Body(b)[i]
    BY ONLY <2>1, FramedIs
  <2>3. QED
    BY <2>1, <2>2
<1>4. Len(b.tokens) \in Nat
  BY <1>1, <1>2, TokensSay, SequenceSays
<1>5. PastHeader(k) \in Nat /\ insize \in Nat
  BY <1>2, InputIsBytes DEF PastHeader
<1>6. ASSUME NEW i \in 1 .. z, PastHeader(k) + i <= insize
      PROVE  args.input[PastHeader(k) + i] = Body(b)[i]
  <2>1. n = 7 + z
    BY <1>3
  <2> HIDE DEF n, z, b
  <2>2. 7 + i \in 1 .. n /\ Imaged(k) + (7 + i) = PastHeader(k) + i
    BY <1>2, <1>3, <2>1 DEF PastHeader
  <2>3. args.input[Imaged(k) + (7 + i)] = Framed(b)[7 + i]
    BY <1>2, <1>6, <2>2
  <2>4. QED
    BY <1>3, <2>2, <2>3
<1>7. k + 1 \in Nat /\ k + 1 \in 0 .. Len(args.blocks)
  <2>1. Len(args.blocks) \in Nat
    BY AllBlocks
  <2>2. QED
    BY <1>1, <2>1
<1>8. QED
  BY <1>1, <1>2, <1>3, <1>4, <1>5, <1>6, <1>7

\* The next token of the block has been unpacked as the compressor meant it.
LEMMA TokenUnpacked ==
    ASSUME args \in Calls, OfImage, NEW k \in Nat, NEW j \in Nat, TokenPlace(k, j),
           j < Len(args.blocks[k + 1].tokens),
           UNCHANGED <<end, us, start, args>>,
           NEW i, i = PastHeader(k) + Len(Joined(Coded(args.blocks[k + 1]), j + 1)),
           AfterToken(i, out'),
           out' = Emitted(k) \o MadeBy(args.blocks[k + 1].tokens, j + 1)
    PROVE  Follows'
<1> DEFINE b == args.blocks[k + 1]
           q == b.tokens
           s == Coded(b)
<1>1. /\ k \in 0 .. (Len(args.blocks) - 1) /\ IsBlock(b) /\ b.kind # "raw"
      /\ k + 1 \in Nat /\ k + 1 \in 0 .. Len(args.blocks)
      /\ PastHeader(k) \in Nat /\ Len(Body(b)) \in Nat /\ Len(q) \in Nat
      /\ Emitted(k) \in Seq(Byte) /\ Len(Emitted(k)) \in Nat
      /\ end = PastHeader(k) + Len(Body(b))
      /\ us = Len(Expanded(b)) /\ us \in Nat /\ start = Len(Emitted(k))
  BY PlaceSays
<1> DEFINE m == Len(q)
           p == Len(Joined(s, j + 1))
           z == Len(Body(b))
<1>2. m \in Nat /\ j < m /\ i = PastHeader(k) + p
  BY <1>1
<1>3. CASE j + 1 < Len(q)
  <2>1. j + 1 \in Nat /\ j + 1 \in 0 .. (Len(q) - 1) /\ j + 1 \in 0 .. Len(q)
    <3>1. j + 1 < m
      BY <1>3
    <3> HIDE DEF m
    <3>2. j + 1 \in Nat /\ j + 1 \in 0 .. (m - 1) /\ j + 1 \in 0 .. m
      BY <1>2, <3>1
    <3>3. QED
      BY <3>2 DEF m
  <2>2. /\ Len(Joined(s, j + 1)) \in Nat /\ Len(Token(q[j + 1 + 1])) \in Nat
        /\ Len(Joined(s, j + 1)) + Len(Token(q[j + 1 + 1])) <= Len(Body(b))
    BY <1>1, <2>1, TokenAt
  <2>3. Len(Token(q[j + 1 + 1])) >= 1
    <3>1. IsToken(q[j + 1 + 1], MadeBy(q, j + 1)) /\ MadeBy(q, j + 1) \in Seq(Byte)
      BY <1>1, <2>1, TokensSay
    <3>2. QED
      BY <3>1, TokenIs
  <2>4. i < end
    <3> DEFINE y == Len(Token(q[j + 1 + 1]))
    <3>1. y \in Nat /\ y >= 1 /\ p \in Nat /\ p + y <= z /\ z \in Nat
      BY <1>1, <2>2, <2>3
    <3>2. end = PastHeader(k) + z /\ PastHeader(k) \in Nat
      BY <1>1
    <3> HIDE DEF p, y, z
    <3>3. QED
      BY ONLY <1>2, <3>1, <3>2
  <2>5. pc' = "token" /\ ip' = i
    BY <2>4 DEF AfterToken
  <2>6. QED
    BY <1>1, <1>3, <2>1, <2>5, BeforeToken
<1>4. CASE ~(j + 1 < Len(q))
  <2>1. j + 1 = Len(q)
    <3>1. ~(j + 1 < m)
      BY <1>4
    <3> HIDE DEF m
    <3>2. j + 1 = m
      BY <1>2, <3>1
    <3>3. QED
      BY <3>2 DEF m
  <2>2. i = end
    BY <1>1, <2>1, CodedAll
  <2>3. MadeBy(q, j + 1) = Expanded(b) /\ Expanded(b) \in Seq(Byte)
    BY <1>1, <2>1, TokensSay, BlockIs
  <2>4. Len(out') = Len(Emitted(k)) + Len(Expanded(b))
    BY <1>1, <2>3, Appended
  <2>5. Len(out') - start = us
    BY <1>1, <2>4
  <2>6. Unpacks(us)
    <3>1. ~(i < end)
      <4>1. end \in Nat
        BY <1>1, SMTT(30)
      <4>2. QED
        BY ONLY <2>2, <4>1
    <3>2. Unpacks(Len(out') - start)
      BY ONLY <3>1, AfterToken(i, out') DEF AfterToken
    <3>3. QED
      BY ONLY <2>5, <3>2
  <2>7. pc' = "block" /\ ip' = end
    BY <2>6 DEF Unpacks
  <2>8. SizeOf(b) = 7 /\ Imaged(k) \in Nat
    BY <1>1, InBlockIs DEF SizeOf
  <2>9. ip' = Imaged(k) + SizeOf(b) + Len(Body(b))
    BY <1>1, <2>7, <2>8 DEF PastHeader
  <2>10. QED
    BY <1>1, <2>3, <2>7, <2>9, BehindBlock
<1>5. QED
  BY <1>3, <1>4

\* A block without tokens: whatever byte is fetched, nothing is unpacked, as its
\* header says.
LEMMA EmptyBlockFollows ==
    ASSUME IInv, OfImage, pc = "token", NEW k \in Nat, NEW j \in Nat, TokenPlace(k, j),
           Len(args.blocks[k + 1].tokens) = 0,
           NEW c \in 0 .. 255, Literal(c) \/ BackReference(c),
           UNCHANGED <<end, us, start, args>>
    PROVE  Follows'
<1> DEFINE b == args.blocks[k + 1]
           q == b.tokens
<1>1. args \in Calls
  BY DEF IInv, TypeOK
<1>2. /\ k \in 0 .. (Len(args.blocks) - 1) /\ IsBlock(b) /\ b.kind # "raw"
      /\ k + 1 \in Nat /\ k + 1 \in 0 .. Len(args.blocks)
      /\ PastHeader(k) \in Nat /\ j \in 0 .. Len(q)
      /\ Emitted(k) \in Seq(Byte) /\ Len(Emitted(k)) \in Nat
      /\ ip = PastHeader(k) + Len(Joined(Coded(b), j))
      /\ end = PastHeader(k) + Len(Body(b))
      /\ us = Len(Expanded(b)) /\ start = Len(Emitted(k))
      /\ out = Emitted(k) \o MadeBy(q, j)
  BY <1>1, PlaceSays
<1>3. j = 0
  BY <1>2
<1>4. /\ Len(Joined(Coded(b), 0)) = 0 /\ Len(Body(b)) = 0
      /\ MadeBy(q, 0) = <<>> /\ Expanded(b) = <<>>
  BY <1>2, CodedAll, TokensSay
<1>5. ip = end /\ us = 0 /\ Len(<<>>) = 0 /\ ip \in Nat
  BY <1>2, <1>3, <1>4
<1>6. out = Emitted(k) /\ Emitted(k) \o <<>> = Emitted(k)
  BY <1>2, <1>3, <1>4, ConcatEmptySeq
<1>7. Room = 0
  BY <1>2, <1>5, <1>6 DEF Room
<1>8. Unpacks(0) /\ UNCHANGED out
  <2>1. CASE Literal(c)
    <3>1. c + 1 > Room
      BY <1>7
    <3>2. QED
      BY <2>1, <3>1 DEF Literal
  <2>2. CASE BackReference(c)
    <3>1. ~Complete(c)
      BY <1>5 DEF Complete
    <3>2. QED
      BY <2>2, <3>1 DEF BackReference
  <2>3. QED
    BY <2>1, <2>2
<1>9. pc' = "block" /\ ip' = end
  BY <1>5, <1>8 DEF Unpacks
<1>10. SizeOf(b) = 7 /\ Imaged(k) \in Nat
  BY <1>1, <1>2, InBlockIs DEF SizeOf
<1>11. ip' = Imaged(k) + SizeOf(b) + Len(Body(b))
  BY <1>2, <1>4, <1>9, <1>10 DEF PastHeader
<1>12. out' = Emitted(k) \o Expanded(b)
  BY <1>4, <1>6, <1>8
<1>13. QED
  BY <1>1, <1>2, <1>9, <1>11, <1>12, BehindBlock

\* What lzf_decompress finds at a token, and the room it has.
LEMMA TokenFound ==
    ASSUME IInv, OfImage, pc = "token", NEW k \in Nat, NEW j \in Nat, TokenPlace(k, j),
           j < Len(args.blocks[k + 1].tokens)
    PROVE  LET q == args.blocks[k + 1].tokens
               m == MadeBy(q, j)
               e == Token(q[j + 1])
               n == Len(Unpack(m, q[j + 1])) IN
           /\ m \in Seq(Byte) /\ Emitted(k) \in Seq(Byte)
           /\ IsToken(q[j + 1], m) /\ MadeBy(q, j + 1) = Unpack(m, q[j + 1])
           /\ Len(e) \in Nat /\ Len(e) >= 1
           /\ ip \in Nat /\ end \in Nat /\ insize \in Nat
           /\ ip + Len(e) <= end /\ end <= insize
           /\ \A i \in 1 .. Len(e) : args.input[ip + i] = e[i]
           /\ ip + Len(e) =
                 PastHeader(k) + Len(Joined(Coded(args.blocks[k + 1]), j + 1))
           /\ out = Emitted(k) \o m /\ Len(out) - start = Len(m)
           /\ Room \in Int /\ n - Len(m) <= Room /\ n \in Nat
<1> DEFINE b == args.blocks[k + 1]
           q == b.tokens
           m == MadeBy(q, j)
           t == q[j + 1]
           e == Token(t)
           p == Len(Joined(Coded(b), j))
           z == Len(Body(b))
           n == Len(Unpack(m, t))
<1>1. args \in Calls /\ ip \in Nat /\ end \in Nat /\ insize \in Nat /\ end <= insize
  BY InputIsBytes DEF IInv, TypeOK, InBlock
<1>2. /\ IsBlock(b) /\ b.kind # "raw"
      /\ PastHeader(k) \in Nat /\ z \in Nat /\ Len(q) \in Nat
      /\ Emitted(k) \in Seq(Byte) /\ Len(Emitted(k)) \in Nat
      /\ ip = PastHeader(k) + p /\ end = PastHeader(k) + z
      /\ us = Len(Expanded(b)) /\ us \in Nat /\ start = Len(Emitted(k))
      /\ out = Emitted(k) \o m
      /\ \A i \in 1 .. z : PastHeader(k) + i <= insize =>
            args.input[PastHeader(k) + i] = Body(b)[i]
  BY <1>1, PlaceSays
<1>3. j \in 0 .. (Len(q) - 1) /\ j \in 0 .. Len(q) /\ j + 1 \in 0 .. Len(q)
  <2> DEFINE y == Len(q)
  <2>1. y \in Nat /\ j < y
    BY <1>2
  <2> HIDE DEF y
  <2>2. j \in 0 .. (y - 1) /\ j \in 0 .. y /\ j + 1 \in 0 .. y
    BY ONLY <2>1, j \in Nat
  <2>3. QED
    BY <2>2 DEF y
<1>4. /\ m \in Seq(Byte) /\ IsToken(t, m) /\ MadeBy(q, j + 1) = Unpack(m, t)
  BY <1>2, <1>3, TokensSay
<1>5. /\ p \in Nat /\ Len(e) \in Nat
      /\ Len(Joined(Coded(b), j + 1)) = p + Len(e)
      /\ p + Len(e) <= z
      /\ \A i \in 1 .. Len(e) : Body(b)[p + i] = e[i]
  BY <1>2, <1>3, TokenAt
<1>6. Len(e) >= 1
  BY <1>4, TokenIs
<1>7. Unpack(m, t) \in Seq(Byte) /\ Len(Unpack(m, t)) <= us
  <2>1. Begins(MadeBy(q, j + 1), Expanded(b))
    BY <1>2, <1>3, MadeBegins
  <2>2. Unpack(m, t) \in Seq(Byte)
    BY <1>4, UnpackBehind, EmptySeq
  <2>3. QED
    BY <1>2, <1>4, <2>1, <2>2 DEF Begins
<1>8. Len(out) = Len(Emitted(k)) + Len(m) /\ Len(m) \in Nat /\ n \in Nat
  <2> DEFINE a == Emitted(k)
             u == Unpack(m, t)
  <2>1. a \in Seq(Byte) /\ m \in Seq(Byte) /\ u \in Seq(Byte) /\ out = a \o m
    BY <1>2, <1>4, <1>7
  <2> HIDE DEF a, m, u, Byte
  <2>2. Len(a \o m) = Len(a) + Len(m)
    BY <2>1, Appended
  <2>3. Len(m) \in Nat /\ Len(u) \in Nat
    BY <2>1
  <2>4. QED
    BY <2>1, <2>2, <2>3 DEF a, u
<1> HIDE DEF b, q, m, t, e, p, z, n
<1> DEFINE g == Len(e)
           y == PastHeader(k)
<1>9. /\ ip \in Nat /\ insize \in Nat /\ p \in Nat /\ z \in Nat /\ g \in Nat
       /\ y \in Nat /\ ip = y + p /\ end = y + z /\ end <= insize /\ p + g <= z
       /\ Len(Joined(Coded(b), j + 1)) = p + g
  BY <1>1, <1>2, <1>5
<1>10. ip + Len(e) <= end
  <2> HIDE DEF g, y
  <2>1. ip + g <= end
    BY ONLY <1>9
  <2>2. QED
    BY <2>1 DEF g
<1>11. \A i \in 1 .. Len(e) : args.input[ip + i] = e[i]
  <2> SUFFICES ASSUME NEW i \in 1 .. Len(e) PROVE args.input[ip + i] = e[i]
    OBVIOUS
  <2>1. /\ p + i \in 1 .. z /\ PastHeader(k) + (p + i) <= insize
        /\ PastHeader(k) + (p + i) = ip + i
    <3>1. i \in 1 .. g
      OBVIOUS
    <3> HIDE DEF g, y
    <3>2. p + i \in 1 .. z /\ y + (p + i) <= insize /\ y + (p + i) = ip + i
      BY ONLY <1>9, <3>1
    <3>3. QED
      BY <3>2 DEF y
  <2>2. args.input[PastHeader(k) + (p + i)] = Body(b)[p + i]
    BY <1>2, <2>1
  <2>3. QED
    BY <1>5, <2>1, <2>2
<1>12. Len(out) - start = Len(m)
  BY <1>2, <1>8
<1>13. Room \in Int /\ n - Len(m) <= Room
  <2>1. n <= us
    BY <1>7 DEF n
  <2>2. QED
    BY <1>2, <1>8, <2>1 DEF Room
<1>14. ip + Len(e) = PastHeader(k) + Len(Joined(Coded(b), j + 1))
  <2> HIDE DEF g, y
  <2>1. ip + g = y + Len(Joined(Coded(b), j + 1))
    BY ONLY <1>9
  <2>2. QED
    BY <2>1 DEF g, y
<1>15. QED
  BY <1>1, <1>2, <1>4, <1>5, <1>6, <1>8, <1>10, <1>11, <1>12, <1>13, <1>14
     DEF b, q, m, t, e, n

LEMMA TokenFollows ==
    ASSUME IInv, OfImage, pc = "token", NEW k \in Nat, NEW j \in Nat, TokenPlace(k, j),
           j < Len(args.blocks[k + 1].tokens),
           NEW c \in At(ip), Literal(c) \/ BackReference(c),
           UNCHANGED <<end, us, start, args>>
    PROVE  Follows'
<1> DEFINE q == args.blocks[k + 1].tokens
           t == q[j + 1]
           m == MadeBy(q, j)
           e == Token(t)
           a == Emitted(k)
           n == Len(Unpack(m, t))
<1>1. args \in Calls
  BY DEF IInv, TypeOK
<1>2. /\ m \in Seq(Byte) /\ a \in Seq(Byte)
      /\ IsToken(t, m) /\ MadeBy(q, j + 1) = Unpack(m, t)
      /\ Len(e) \in Nat /\ Len(e) >= 1
      /\ ip \in Nat /\ end \in Nat /\ insize \in Nat
      /\ ip + Len(e) <= end /\ end <= insize
      /\ \A i \in 1 .. Len(e) : args.input[ip + i] = e[i]
      /\ ip + Len(e) = PastHeader(k) + Len(Joined(Coded(args.blocks[k + 1]), j + 1))
      /\ out = a \o m /\ Len(out) - start = Len(m)
      /\ Room \in Int /\ n - Len(m) <= Room /\ n \in Nat
  BY TokenFound
<1>3. /\ Unpack(a \o m, t) = a \o Unpack(m, t)
      /\ n = Len(m) + (IF "lit" \in DOMAIN t THEN Len(t.lit) ELSE t.len)
      /\ Len(m) \in Nat
  <2>1. m \in Seq(Byte) /\ a \in Seq(Byte) /\ IsToken(t, m)
    BY <1>2
  <2> HIDE DEF m, a, t
  <2>2. QED
    BY ONLY <2>1, UnpackBehind DEF n
<1>4. /\ "lit" \in DOMAIN t =>
            /\ t.lit \in Seq(Byte) /\ Len(t.lit) \in 1 .. 32
            /\ e[1] = Len(t.lit) - 1 /\ Len(e) = Len(t.lit) + 1
            /\ \A i \in 1 .. Len(t.lit) : e[i + 1] = t.lit[i]
      /\ "lit" \notin DOMAIN t =>
            /\ e[1] \in 32 .. 255 /\ Len(e) = TokenSize(e[1])
            /\ t.off \in 1 .. Len(m) /\ t.len \in Nat
            /\ Distance(e[1], e[Len(e)]) = t.off
            /\ Length(e[1], e[2]) = t.len
  BY <1>2, TokenIs
<1>5. (out' = a \o Unpack(m, t) /\ AfterToken(ip + Len(e), out')) => Follows'
  BY <1>1, <1>2, TokenUnpacked
<1> HIDE DEF q, t, m, e, a, n
<1>6. \A i \in 0 .. (Len(e) - 1) : At(ip + i) = {e[i + 1]}
  <2> SUFFICES ASSUME NEW i \in 0 .. (Len(e) - 1) PROVE At(ip + i) = {e[i + 1]}
    OBVIOUS
  <2>1. ip + i < insize /\ i + 1 \in 1 .. Len(e) /\ ip + i + 1 = ip + (i + 1)
    <3> DEFINE g == Len(e)
    <3>1. /\ ip \in Nat /\ end \in Nat /\ insize \in Nat /\ g \in Nat
          /\ ip + g <= end /\ end <= insize
      BY <1>2
    <3>2. i \in 0 .. (g - 1)
      OBVIOUS
    <3> HIDE DEF g
    <3>3. ip + i < insize /\ i + 1 \in 1 .. g /\ ip + i + 1 = ip + (i + 1)
      BY ONLY <3>1, <3>2
    <3>4. QED
      BY <3>3 DEF g
  <2>2. args.input[ip + (i + 1)] = e[i + 1]
    BY <1>2, <2>1
  <2>3. QED
    BY <2>1, <2>2 DEF At
<1>7. c = e[1]
  <2>1. 0 \in 0 .. (Len(e) - 1) /\ ip + 0 = ip /\ 0 + 1 = 1
    BY <1>2
  <2>2. At(ip) = {e[1]}
    BY <1>6, <2>1
  <2>3. QED
    BY <2>2
<1>8. CASE "lit" \in DOMAIN t
  <2> DEFINE l == t.lit
             w == Len(t.lit)
  <2>1. /\ l \in Seq(Byte) /\ w \in 1 .. 32 /\ c = w - 1 /\ Len(e) = w + 1
        /\ \A i \in 1 .. w : e[i + 1] = l[i]
        /\ n = Len(m) + w /\ w = Len(l)
    BY <1>3, <1>4, <1>7, <1>8
  <2>2. Unpack(a \o m, t) = (a \o m) \o l
    BY <1>8, Zenon DEF Unpack
  <2> HIDE DEF l, w
  <2>3. c + 1 = w /\ c < 32 /\ w <= Room /\ ip + 1 + w <= end /\ w \in Nat
        /\ ip + 1 + w = ip + Len(e)
    <3> DEFINE g == Len(e)
               x == Len(m)
    <3>1. /\ ip \in Nat /\ end \in Nat /\ g \in Nat /\ x \in Nat /\ Room \in Int
          /\ ip + g <= end /\ n - x <= Room
      BY <1>2, <1>3
    <3>2. w \in 1 .. 32 /\ c = w - 1 /\ g = w + 1 /\ n = x + w
      BY <2>1
    <3> HIDE DEF g, x
    <3>3. /\ c + 1 = w /\ c < 32 /\ w <= Room /\ ip + 1 + w <= end /\ w \in Nat
          /\ ip + 1 + w = ip + g
      BY ONLY <3>1, <3>2
    <3>4. QED
      BY <3>3 DEF g
  <2>4. Literal(c)
    <3>1. w \in 1 .. 32 /\ c = w - 1
      BY <2>1
    <3>2. c \in 0 .. 31
      BY ONLY <3>1
    <3>3. ~(c >= 32)
      BY ONLY <3>2
    <3>4. QED
      BY <3>3 DEF BackReference
  <2>5. ~(w > Room \/ ip + 1 + w > end)
    BY <1>2, <2>3
  <2>6. /\ out' = out \o SubSeq(args.input, ip + 2, ip + 1 + w)
        /\ AfterToken(ip + 1 + w, out')
    BY <2>3, <2>4, <2>5 DEF Literal
  <2>7. SubSeq(args.input, ip + 2, ip + 1 + w) = l
    <3>1. ip + 1 \in Nat /\ ip + 1 + 1 = ip + 2 /\ ip + 1 + w <= insize
      <4>1. ip \in Nat /\ end \in Nat /\ insize \in Nat /\ end <= insize
        BY <1>2
      <4>2. w \in Nat /\ ip + 1 + w <= end
        BY <2>3
      <4>3. QED
        BY ONLY <4>1, <4>2
    <3>2. \A i \in 1 .. w : args.input[ip + 1 + i] = l[i]
      <4> SUFFICES ASSUME NEW i \in 1 .. w PROVE args.input[ip + 1 + i] = l[i]
        OBVIOUS
      <4>1. i + 1 \in 1 .. Len(e) /\ ip + (i + 1) = ip + 1 + i
        BY <1>2, <2>1, <2>3
      <4>2. QED
        BY <1>2, <2>1, <4>1
    <3>3. SubSeq(args.input, ip + 1 + 1, ip + 1 + w) = l
      BY <1>1, <2>1, <2>3, <3>1, <3>2, StretchIs
    <3>4. QED
      BY <3>1, <3>3
  <2>8. out' = a \o Unpack(m, t)
    BY <1>2, <1>3, <2>2, <2>6, <2>7
  <2>9. QED
    BY <1>5, <2>3, <2>6, <2>8
<1>9. CASE "lit" \notin DOMAIN t
  <2> DEFINE off == t.off
             len == t.len
             size == TokenSize(c)
  <2>1. /\ c \in 32 .. 255 /\ Len(e) = size
        /\ off \in 1 .. Len(m) /\ len \in Nat
        /\ Distance(c, e[size]) = off /\ Length(c, e[2]) = len
        /\ n = Len(m) + len
    BY <1>3, <1>4, <1>7, <1>9
  <2>2. Unpack(a \o m, t) = Unpack(a \o m, [off |-> off, len |-> len])
    BY <1>9, Zenon DEF Unpack
  <2>3. size \in {2, 3} /\ size = (IF Extended(c) THEN 3 ELSE 2)
    BY DEF TokenSize
  <2> HIDE DEF off, len, size
  <2>4. BackReference(c)
    BY <2>1 DEF Literal
  <2>5. Complete(c)
    BY <1>2, <2>1, <2>3, SMTT(30) DEF Complete
  <2>6. At(ip + 1) = {e[2]} /\ At(ip + size - 1) = {e[size]}
    <3>1. /\ 1 \in 0 .. (Len(e) - 1) /\ size - 1 \in 0 .. (Len(e) - 1)
          /\ 1 + 1 = 2 /\ (size - 1) + 1 = size
          /\ ip + (size - 1) = ip + size - 1
      BY <1>2, <2>1, <2>3
    <3>2. At(ip + 1) = {e[1 + 1]} /\ At(ip + (size - 1)) = {e[(size - 1) + 1]}
      BY <1>6, <3>1
    <3>3. QED
      BY <3>1, <3>2
  <2>7. Copied(c)
    BY <2>4, <2>5 DEF BackReference
  <2>8. IF len > Room \/ off > Len(out) - start
        THEN Unpacks(0) /\ UNCHANGED out
        ELSE /\ out' = Unpack(out, [off |-> off, len |-> len])
             /\ AfterToken(ip + size, out')
    <3>1. PICK more \in At(ip + 1), low \in At(ip + size - 1) :
            IF Length(c, more) > Room \/ Distance(c, low) > Len(out) - start
            THEN Unpacks(0) /\ UNCHANGED out
            ELSE /\ out' = Unpack(out, [off |-> Distance(c, low),
                                        len |-> Length(c, more)])
                 /\ AfterToken(ip + size, out')
      BY <2>7, Zenon DEF Copied, size
    <3>2. more = e[2] /\ low = e[size]
      BY <2>6, <3>1
    <3>3. Length(c, more) = len /\ Distance(c, low) = off
      BY <2>1, <3>2
    <3>4. QED
      BY <3>1, <3>3
  <2>9. ~(len > Room \/ off > Len(out) - start)
    <3> DEFINE x == Len(m)
               y == Len(out) - start
    <3>1. Room \in Int /\ n - x <= Room /\ y = x /\ x \in Nat
      BY <1>2, <1>3
    <3>2. off \in 1 .. x /\ len \in Nat /\ n = x + len
      BY <2>1
    <3> HIDE DEF x, y
    <3>3. ~(len > Room \/ off > y)
      BY ONLY <3>1, <3>2
    <3>4. QED
      BY <3>3 DEF y
  <2>10. out' = Unpack(a \o m, [off |-> off, len |-> len]) /\ AfterToken(ip + size, out')
    BY <1>2, <2>8, <2>9
  <2>11. out' = a \o Unpack(m, t)
    BY <1>3, <2>2, <2>10
  <2>12. QED
    BY <1>5, <2>1, <2>10, <2>11
<1>10. QED
  BY <1>8, <1>9

LEMMA NextTokenFollows == ASSUME IInv, Follows, NextToken PROVE Follows'
<1>1. pc = "token" /\ UNCHANGED <<end, us, start, args>>
  BY DEF NextToken
<1>2. PICK c \in At(ip) : Literal(c) \/ BackReference(c)
  BY DEF NextToken
<1>3. args \in Calls /\ c \in 0 .. 255
  BY FetchIsByte DEF IInv, TypeOK
<1>4. SUFFICES ASSUME OfImage PROVE Follows'
  BY <1>1, NoImageFollows
<1>5. PICK k \in Nat, j \in Nat : TokenPlace(k, j)
  BY <1>1, <1>4, Zenon DEF Follows, Placed
<1>6. CASE j < Len(args.blocks[k + 1].tokens)
  BY <1>1, <1>2, <1>4, <1>5, <1>6, TokenFollows
<1>7. CASE ~(j < Len(args.blocks[k + 1].tokens))
  <2>1. Len(args.blocks[k + 1].tokens) = 0
    BY <1>5, <1>7, Zenon DEF TokenPlace
  <2>2. QED
    BY <1>1, <1>2, <1>3, <1>4, <1>5, <2>1, EmptyBlockFollows
<1>8. QED
  BY <1>6, <1>7

LEMMA StutterFollows == ASSUME Follows, UNCHANGED vars PROVE Follows'
<1>1. /\ args' = args /\ pc' = pc /\ ip' = ip /\ out' = out /\ ret' = ret
      /\ end' = end /\ us' = us /\ start' = start
  BY DEF vars
<1>2. /\ insize' = insize /\ WholeImage' = WholeImage /\ OfImage' = OfImage
      /\ Padding' = Padding /\ Cut' = Cut
      /\ \A k : Imaged(k)' = Imaged(k) /\ Emitted(k)' = Emitted(k)
  BY <1>1, ArgsStay
<1>3. \A k : BlockPlace(k)' = BlockPlace(k)
  BY <1>1, <1>2 DEF BlockPlace
<1>4. \A k, j : TokenPlace(k, j)' = TokenPlace(k, j)
  <2>1. \A k : PastHeader(k)' = PastHeader(k)
    BY <1>2 DEF PastHeader
  <2>2. QED
    BY <1>1, <1>2, <2>1, ZenonT(30) DEF TokenPlace
<1>5. Placed'
  BY <1>1, <1>2, <1>3, <1>4 DEF Follows, Placed
<1>6. Inverts'
  BY <1>1, <1>2, Zenon DEF Follows, Inverts
<1>7. CutAtBlocks'
  BY <1>1, <1>2, Zenon DEF Follows, CutAtBlocks, Accepted
<1>8. QED
  BY <1>5, <1>6, <1>7 DEF Follows

LEMMA AllFollows == Spec => [](IInv /\ Follows)
<1>1. Init => IInv /\ Follows
  BY InitHolds, InitFollows
<1>2. IInv /\ Follows /\ [Next]_vars => Follows'
  BY LastBlockFollows, BadBlockFollows, RawBlockFollows, LzfBlockFollows,
     NextTokenFollows, StutterFollows DEF Next
<1>3. QED
  BY <1>1, <1>2, InvariantHolds, PTL DEF Spec

\* decompress_image undoes the compressor: whatever row of blocks an image is made
\* of, it is unpacked to what the blocks stand for if there is room for it and no
\* more than Overhead bytes follow, and rejected otherwise.
THEOREM ImagesAreUnpacked == Spec => []Inverts
<1>1. Follows => Inverts
  BY DEF Follows
<1>2. QED
  BY <1>1, AllFollows, PTL

\* decompress_image never takes a part of a block of an image that was cut off.
THEOREM CutsAreAtBlocks == Spec => []CutAtBlocks
<1>1. Follows => CutAtBlocks
  BY DEF Follows
<1>2. QED
  BY <1>1, AllFollows, PTL
=============================================================================
