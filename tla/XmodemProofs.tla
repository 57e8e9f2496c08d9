---------------------------- MODULE XmodemProofs ----------------------------
(***************************************************************************)
(* What rxmodem guarantees whatever the line does to the bytes, for every  *)
(* block length, buffer, file and number of faults: it stays inside its    *)
(* buffer, and it never acknowledges what it has not accepted.             *)
(***************************************************************************)
EXTENDS Xmodem, Division

-----------------------------------------------------------------------------
(* The invariant. *)

\* len counts whole blocks, and a block is only stored where there is room.
Whole(n) == n = (n \div BlockLen) * BlockLen
Buffer ==
    /\ Whole(len)
    /\ pc = "data" => len + BlockLen <= MaxLen

\* Where the sender is in its file.
SenderPlace ==
    /\ spc = "idle" => block = 0
    /\ spc = "block" => block < Len(file)
    /\ spc \in {"eot", "done"} => block = Len(file)

\* The acknowledgements among the answers q can be numbered upwards, from above
\* c, those the sender has taken note of, to s, those that were sent.
Acks(q, c, s) ==
    /\ c <= s
    /\ \E w \in [1 .. Len(q) -> 0 .. s] :
          /\ \A k \in 1 .. Len(q) : q[k] = ACK => c < w[k]
          /\ \A j, k \in 1 .. Len(q) :
                j < k /\ q[j] = ACK /\ q[k] = ACK => w[j] < w[k]

\* One for each block acknowledged, and one for the EOT.
Noted == block + (IF spc = "done" THEN 1 ELSE 0)
Sent == (len \div BlockLen) + (IF pc = "done" /\ result = len THEN 1 ELSE 0)
AcksCounted == Acks(fromBoard, Noted, Sent)

IInv ==
    /\ TypeOK
    /\ Buffer
    /\ NoOverflow
    /\ SenderPlace
    /\ AcksCounted

-----------------------------------------------------------------------------
(* Counting blocks and acknowledgements.                                     *)

\* The numbers among the constants.
LEMMA Sizes ==
    /\ BlockLen \in Nat \ {0} /\ MaxLen \in Nat /\ PidMod \in 2 .. 256
    /\ MaxFaults \in Nat /\ Retries \in Nat
BY XmodemAssumption

\* One block more.
LEMMA NextBlock ==
    ASSUME NEW n \in Nat, Whole(n)
    PROVE  /\ n \div BlockLen \in Nat
           /\ (n + BlockLen) \div BlockLen = (n \div BlockLen) + 1
           /\ Whole(n + BlockLen)
<1>1. BlockLen \in Nat \ {0} /\ n = (n \div BlockLen) * BlockLen
  BY Sizes DEF Whole
<1>2. /\ n \div BlockLen \in Nat
      /\ (n + BlockLen) \div BlockLen = (n \div BlockLen) + 1
      /\ n + BlockLen = ((n + BlockLen) \div BlockLen) * BlockLen
  BY ONLY <1>1, n \in Nat, MultipleNext
<1>3. QED
  BY ONLY <1>2 DEF Whole

\* Where MaxLen leaves two bytes over, a block that fits leaves them too.
LEMMA CrcFits ==
    ASSUME NEW n \in Nat, Whole(n), n + BlockLen <= MaxLen, MaxLen % BlockLen >= 2
    PROVE  n + BlockLen + 1 < MaxLen
<1> DEFINE t == n + BlockLen
           r == MaxLen % BlockLen
<1>1. BlockLen \in Nat \ {0} /\ MaxLen \in Nat /\ t \in Nat
  BY ONLY Sizes, n \in Nat
<1>2. t = (t \div BlockLen) * BlockLen
  BY NextBlock DEF Whole
<1>3. r \in Nat
  BY ONLY <1>1, DivMod
<1> HIDE DEF t
<1>4. t <= MaxLen
  BY DEF t
<1>5. t + r <= MaxLen
  BY ONLY <1>1, <1>2, <1>4, MultipleRoom
<1>6. r >= 2
  OBVIOUS
<1> HIDE DEF r
<1>7. t + 1 < MaxLen
  BY ONLY <1>1, <1>3, <1>5, <1>6
<1>8. QED
  BY <1>7 DEF t

\* An answer that is no acknowledgement changes nothing, nor does it if more have
\* been sent than are under way.
LEMMA AcksOther ==
    ASSUME NEW q \in Seq({ACK, C}), NEW c \in Nat, NEW s \in Nat, NEW t \in Nat,
           Acks(q, c, s), s <= t
    PROVE  Acks(q, c, t) /\ Acks(Append(q, C), c, t)
<1>1. PICK w \in [1 .. Len(q) -> 0 .. s] :
         /\ \A k \in 1 .. Len(q) : q[k] = ACK => c < w[k]
         /\ \A j, k \in 1 .. Len(q) : j < k /\ q[j] = ACK /\ q[k] = ACK => w[j] < w[k]
  BY DEF Acks
<1>2. Acks(q, c, t)
  <2>1. w \in [1 .. Len(q) -> 0 .. t]
    BY <1>1
  <2>2. c <= t
    BY DEF Acks
  <2>3. QED
    BY <1>1, <2>1, <2>2 DEF Acks
<1>3. Acks(Append(q, C), c, t)
  <2> DEFINE p == Append(q, C)
             v == [k \in 1 .. Len(p) |-> IF k <= Len(q) THEN w[k] ELSE 0]
  <2>1. /\ Len(p) = Len(q) + 1 /\ Len(q) \in Nat
        /\ \A k \in 1 .. Len(q) : p[k] = q[k]
        /\ p[Len(q) + 1] # ACK
    BY DEF ACK, C
  <2>2. v \in [1 .. Len(p) -> 0 .. t]
    BY <1>1, <2>1
  <2>3. \A k \in 1 .. Len(p) : p[k] = ACK => k \in 1 .. Len(q) /\ q[k] = ACK /\ v[k] = w[k]
    BY <2>1
  <2> HIDE DEF p, v
  <2>4. /\ \A k \in 1 .. Len(p) : p[k] = ACK => c < v[k]
        /\ \A j, k \in 1 .. Len(p) : j < k /\ p[j] = ACK /\ p[k] = ACK => v[j] < v[k]
    BY <1>1, <2>3
  <2>5. c <= t
    BY DEF Acks
  <2>6. Acks(p, c, t)
    BY <2>2, <2>4, <2>5 DEF Acks
  <2>7. QED
    BY <2>6 DEF p
<1>4. QED
  BY <1>2, <1>3

\* One more is sent.
LEMMA AckSent ==
    ASSUME NEW q \in Seq({ACK, C}), NEW c \in Nat, NEW s \in Nat, Acks(q, c, s)
    PROVE  Acks(Append(q, ACK), c, s + 1)
<1>1. PICK w \in [1 .. Len(q) -> 0 .. s] :
         /\ \A k \in 1 .. Len(q) : q[k] = ACK => c < w[k]
         /\ \A j, k \in 1 .. Len(q) : j < k /\ q[j] = ACK /\ q[k] = ACK => w[j] < w[k]
  BY DEF Acks
<1> DEFINE p == Append(q, ACK)
           v == [k \in 1 .. Len(p) |-> IF k <= Len(q) THEN w[k] ELSE s + 1]
<1>2. /\ Len(p) = Len(q) + 1 /\ Len(q) \in Nat
      /\ \A k \in 1 .. Len(q) : p[k] = q[k]
  OBVIOUS
<1>3. v \in [1 .. Len(p) -> 0 .. (s + 1)]
  BY <1>1, <1>2
<1>4. /\ \A k \in 1 .. Len(q) : v[k] = w[k] /\ w[k] <= s
      /\ v[Len(q) + 1] = s + 1
      /\ c <= s
  BY <1>1, <1>2 DEF Acks
<1> HIDE DEF p, v
<1>5. \A k \in 1 .. Len(p) : p[k] = ACK => c < v[k]
  <2>1. SUFFICES ASSUME NEW k \in 1 .. Len(p), p[k] = ACK PROVE c < v[k]
    OBVIOUS
  <2>2. CASE k \in 1 .. Len(q)
    BY <1>1, <1>2, <1>4, <2>1, <2>2
  <2>3. CASE k = Len(q) + 1
    BY <1>4, <2>3
  <2>4. QED
    BY <1>2, <2>2, <2>3
<1>6. \A j, k \in 1 .. Len(p) : j < k /\ p[j] = ACK /\ p[k] = ACK => v[j] < v[k]
  <2>1. SUFFICES ASSUME NEW j \in 1 .. Len(p), NEW k \in 1 .. Len(p),
                        j < k, p[j] = ACK, p[k] = ACK
                 PROVE  v[j] < v[k]
    OBVIOUS
  <2>2. j \in 1 .. Len(q) /\ v[j] = w[j] /\ w[j] <= s /\ w[j] \in Nat
    BY <1>1, <1>2, <1>4, <2>1
  <2>3. CASE k \in 1 .. Len(q)
    BY <1>1, <1>2, <1>4, <2>1, <2>2, <2>3
  <2>4. CASE k = Len(q) + 1
    BY <1>4, <2>2, <2>4
  <2>5. QED
    BY <1>2, <2>3, <2>4
<1>7. Acks(p, c, s + 1)
  BY <1>3, <1>4, <1>5, <1>6 DEF Acks
<1>8. QED
  BY <1>7 DEF p

\* The first answer is lost or read; if it acknowledges something, that may be
\* noted.
LEMMA AckGone ==
    ASSUME NEW q \in Seq({ACK, C}), NEW c \in Nat, NEW s \in Nat, Acks(q, c, s),
           q # <<>>
    PROVE  /\ Acks(Tail(q), c, s)
           /\ Head(q) = ACK => Acks(Tail(q), c + 1, s)
<1>1. PICK w \in [1 .. Len(q) -> 0 .. s] :
         /\ \A k \in 1 .. Len(q) : q[k] = ACK => c < w[k]
         /\ \A j, k \in 1 .. Len(q) : j < k /\ q[j] = ACK /\ q[k] = ACK => w[j] < w[k]
  BY DEF Acks
<1> DEFINE p == Tail(q)
           v == [k \in 1 .. Len(p) |-> w[k + 1]]
<1>2. /\ Len(p) = Len(q) - 1 /\ Len(q) \in Nat \ {0}
      /\ \A k \in 1 .. Len(p) : p[k] = q[k + 1]
      /\ Head(q) = q[1]
  OBVIOUS
<1>3. v \in [1 .. Len(p) -> 0 .. s]
  BY <1>1, <1>2
<1>4. \A k \in 1 .. Len(p) : v[k] = w[k + 1] /\ k + 1 \in 1 .. Len(q) /\ w[k + 1] \in Nat
  BY <1>1, <1>2
<1> HIDE DEF p, v
<1>5. \A k \in 1 .. Len(p) : p[k] = ACK => c < v[k]
  BY <1>1, <1>2, <1>4
<1>6. \A j, k \in 1 .. Len(p) : j < k /\ p[j] = ACK /\ p[k] = ACK => v[j] < v[k]
  <2>1. SUFFICES ASSUME NEW j \in 1 .. Len(p), NEW k \in 1 .. Len(p),
                        j < k, p[j] = ACK, p[k] = ACK
                 PROVE  v[j] < v[k]
    OBVIOUS
  <2>2. /\ j + 1 \in 1 .. Len(q) /\ k + 1 \in 1 .. Len(q) /\ j + 1 < k + 1
        /\ q[j + 1] = ACK /\ q[k + 1] = ACK
    BY <1>2, <1>4, <2>1
  <2>3. w[j + 1] < w[k + 1]
    BY <1>1, <2>2
  <2>4. QED
    BY <1>4, <2>3
<1>7. Acks(p, c, s)
  BY <1>3, <1>5, <1>6 DEF Acks
<1>8. ASSUME Head(q) = ACK PROVE Acks(p, c + 1, s)
  <2>1. 1 \in 1 .. Len(q) /\ q[1] = ACK
    BY <1>2, <1>8
  <2>2. c < w[1] /\ w[1] <= s /\ w[1] \in Nat
    BY <1>1, <2>1
  <2>3. \A k \in 1 .. Len(p) : p[k] = ACK => c + 1 < v[k]
    <3>1. SUFFICES ASSUME NEW k \in 1 .. Len(p), p[k] = ACK PROVE c + 1 < v[k]
      OBVIOUS
    <3>2. w[1] < w[k + 1]
      BY <1>1, <1>2, <1>4, <2>1, <3>1
    <3>3. QED
      BY <1>4, <2>2, <3>2
  <2>4. c + 1 <= s
    BY <2>2
  <2>5. QED
    BY <1>3, <1>6, <2>3, <2>4 DEF Acks
<1>9. QED
  BY <1>7, <1>8 DEF p


-----------------------------------------------------------------------------
(* What the actions have in common.                                          *)

\* What is left of a line and what is taken from it.
LEMMA HeadAndTail ==
    ASSUME NEW S, NEW q \in Seq(S), q # <<>>
    PROVE  Head(q) \in S /\ Tail(q) \in Seq(S)
<1>1. Len(q) \in Nat \ {0} /\ q[1] \in S
  OBVIOUS
<1>2. QED
  BY <1>1

\* An answer more.
LEMMA SayTyped ==
    ASSUME NEW q \in Seq({ACK, C})
    PROVE  Append(q, ACK) \in Seq({ACK, C}) /\ Append(q, C) \in Seq({ACK, C})
OBVIOUS

LEMMA FileSize == \A f \in Files : Len(f) \in Nat
<1>1. SUFFICES ASSUME NEW f \in Files PROVE Len(f) \in Nat
  OBVIOUS
<1>2. f \in Seq([1 .. BlockLen -> 0 .. 255])
  BY XmodemAssumption
<1>3. QED
  BY ONLY <1>2

LEMMA TwoBytes ==
    \A x \in 0 .. (256 * 256 - 1) : x \div 256 \in 0 .. 255 /\ x % 256 \in 0 .. 255
<1>1. PICK p \in Nat \ {0} : p = 256
  OBVIOUS
<1>2. \A x \in 0 .. (p * p - 1) : x \div p \in 0 .. (p - 1) /\ x % p \in 0 .. (p - 1)
  BY ONLY p \in Nat \ {0}, TwoDigits
<1>3. p - 1 = 255
  BY ONLY <1>1
<1>4. \A x \in 0 .. (p * p - 1) : x \div p \in 0 .. 255 /\ x % p \in 0 .. 255
  BY ONLY <1>2, <1>3
<1>5. QED
  BY ONLY <1>1, <1>4

\* What is sent consists of bytes.
LEMMA FrameBytes ==
    ASSUME TypeOK, NEW n \in 1 .. Len(file)
    PROVE  Frame(n) \in Seq(0 .. 255)
<1> DEFINE crc == Crc(file[n])
           m == n % PidMod
<1>1. file \in Seq([1 .. BlockLen -> 0 .. 255]) /\ file \in Files
  BY XmodemAssumption DEF TypeOK
<1>2. file[n] \in [1 .. BlockLen -> 0 .. 255] /\ BlockLen \in Nat
  <2> DEFINE Blocks == [1 .. BlockLen -> 0 .. 255]
  <2>1. file \in Seq(Blocks)
    BY <1>1
  <2> HIDE DEF Blocks
  <2>2. file[n] \in Blocks
    BY ONLY <2>1, n \in 1 .. Len(file)
  <2>3. QED
    BY <2>2, Sizes DEF Blocks
<1>3. file[n] \in Seq(0 .. 255)
  BY <1>2
<1>4. crc \in 0 .. (256 * 256 - 1)
  BY <1>1, XmodemAssumption
<1>5. m \in 0 .. (PidMod - 1)
  <2>1. n \in Nat /\ PidMod \in Nat \ {0}
    BY Sizes, <1>1
  <2>2. QED
    BY ONLY <2>1, DivMod
<1> HIDE DEF crc, m
<1>6. crc \div 256 \in 0 .. 255 /\ crc % 256 \in 0 .. 255
  BY <1>4, TwoBytes
<1>7. <<crc \div 256, crc % 256>> \in Seq(0 .. 255)
  BY ONLY <1>6
<1>8. <<SOH, m, PidMod - 1 - m>> \in Seq(0 .. 255)
  BY ONLY <1>5, Sizes DEF SOH
<1> DEFINE head == <<SOH, m, PidMod - 1 - m>>
           tail == <<crc \div 256, crc % 256>>
<1>9. Frame(n) = head \o file[n] \o tail
  BY DEF Frame, crc, m
<1> HIDE DEF head, tail
<1>10. head \in Seq(0 .. 255) /\ tail \in Seq(0 .. 255)
  BY <1>7, <1>8 DEF head, tail
<1>11. QED
  BY ONLY <1>3, <1>9, <1>10

LEMMA SendPlace ==
    ASSUME TypeOK, NEW n \in 0 .. Len(file), Send(n)
    PROVE  /\ toBoard' \in Seq(0 .. 255)
           /\ block' = n
           /\ \/ spc' = "block" /\ n < Len(file)
              \/ spc' = "eot" /\ n = Len(file)
<1>1. Len(file) \in Nat
  BY FileSize DEF TypeOK
<1>2. CASE n < Len(file)
  <2>1. n + 1 \in 1 .. Len(file)
    BY <1>1, <1>2
  <2>2. Frame(n + 1) \in Seq(0 .. 255)
    BY <2>1, FrameBytes
  <2>3. spc' = "block" /\ block' = n /\ toBoard' = toBoard \o Frame(n + 1)
    BY <1>2 DEF Send
  <2>4. toBoard' \in Seq(0 .. 255)
    BY <2>2, <2>3 DEF TypeOK
  <2>5. QED
    BY ONLY <1>2, <2>3, <2>4
<1>3. CASE ~(n < Len(file))
  <2>1. toBoard \in Seq(0 .. 255) /\ EOT \in 0 .. 255
    BY DEF TypeOK, EOT
  <2>2. n = Len(file)
    BY <1>1, <1>3
  <2>3. Append(toBoard, EOT) \in Seq(0 .. 255)
    BY <2>1
  <2>4. QED
    BY <1>3, <2>2, <2>3 DEF Send
<1>4. QED
  BY <1>2, <1>3

\* The counts are numbers.
LEMMA Counts ==
    ASSUME TypeOK, Buffer
    PROVE  Noted \in Nat /\ Sent \in Nat /\ len \div BlockLen \in Nat
<1>1. len \in Nat /\ Len(file) \in Nat
  BY FileSize, Sizes DEF TypeOK
<1>2. len \div BlockLen \in Nat
  BY ONLY <1>1, Sizes, DivMod
<1>3. block \in Nat
  BY <1>1 DEF TypeOK
<1>4. QED
  BY <1>2, <1>3 DEF Noted, Sent

\* A step that neither acknowledges nor takes note of anything.
LEMMA AcksKept ==
    ASSUME IInv, Noted' = Noted, Sent' \in Nat, Sent <= Sent',
           fromBoard' = fromBoard \/ fromBoard' = Append(fromBoard, C)
    PROVE  AcksCounted'
<1>1. fromBoard \in Seq({ACK, C}) /\ Noted \in Nat /\ Sent \in Nat
  BY Counts DEF IInv, TypeOK
<1>2. Acks(fromBoard, Noted, Sent') /\ Acks(Append(fromBoard, C), Noted, Sent')
  BY <1>1, AcksOther DEF IInv, AcksCounted
<1>3. QED
  BY <1>2 DEF AcksCounted

\* A step that takes an answer from the line and takes note of what it says, if
\* anything.
LEMMA AcksTaken ==
    ASSUME IInv, fromBoard # <<>>, fromBoard' = Tail(fromBoard), Sent' = Sent,
           \/ Noted' = Noted
           \/ Head(fromBoard) = ACK /\ Noted' = Noted + 1
    PROVE  AcksCounted'
<1>1. fromBoard \in Seq({ACK, C}) /\ Noted \in Nat /\ Sent \in Nat
  BY Counts DEF IInv, TypeOK
<1>2. /\ Acks(Tail(fromBoard), Noted, Sent)
      /\ Head(fromBoard) = ACK => Acks(Tail(fromBoard), Noted + 1, Sent)
  BY <1>1, AckGone DEF IInv, AcksCounted
<1>3. QED
  BY <1>2 DEF AcksCounted

\* A step that acknowledges.
LEMMA AcksMore ==
    ASSUME IInv, Noted' = Noted, Sent' = Sent + 1, fromBoard' = Append(fromBoard, ACK)
    PROVE  AcksCounted'
<1>1. fromBoard \in Seq({ACK, C}) /\ Noted \in Nat /\ Sent \in Nat
  BY Counts DEF IInv, TypeOK
<1>2. Acks(Append(fromBoard, ACK), Noted, Sent + 1)
  BY <1>1, AckSent DEF IInv, AcksCounted
<1>3. QED
  BY <1>2 DEF AcksCounted

\* The receiver's steps leave the sender alone.
LEMMA SenderStays ==
    ASSUME IInv, UNCHANGED sender
    PROVE  SenderPlace' /\ Noted' = Noted
BY DEF IInv, sender, SenderPlace, Noted

-----------------------------------------------------------------------------
(* The invariant holds at first.                                             *)

LEMMA InitInv == Init => IInv
<1> SUFFICES ASSUME Init PROVE IInv
  OBVIOUS
<1>1. file \in Files /\ toBoard \in Typed /\ fromBoard = <<>>
  BY DEF Init
<1>2. MaxLen \in Nat /\ BlockLen \in Nat \ {0} /\ PidMod \in 2 .. 256
      /\ MaxFaults \in Nat /\ Retries \in Nat
  BY Sizes
<1>3. TypeOK
  <2>1. Len(file) \in Nat /\ toBoard \in Seq(0 .. 255)
    BY <1>1, FileSize, XmodemAssumption
  <2>2. mem \in [Cells -> 0 .. 255] /\ fromBoard \in Seq({ACK, C})
    BY DEF Init
  <2>3. /\ pc = "flush" /\ i = 0 /\ pid = 1 /\ pid1 = 0 /\ len = 0 /\ result = 0
        /\ faults = 0 /\ spc = "idle" /\ block = 0 /\ tries = 0
    BY DEF Init
  <2>4. QED
    BY ONLY <1>1, <1>2, <2>1, <2>2, <2>3 DEF TypeOK
<1>4. 0 \div BlockLen = 0
  <2>1. (0 * BlockLen) \div BlockLen = 0
    BY ONLY <1>2, MultipleDiv
  <2>2. 0 * BlockLen = 0
    BY ONLY <1>2
  <2>3. QED
    BY ONLY <2>1, <2>2
<1>5. Buffer
  BY <1>2, <1>4 DEF Init, Buffer, Whole
<1>6. NoOverflow
  BY DEF Init, NoOverflow
<1>7. SenderPlace
  BY DEF Init, SenderPlace
<1>8. AcksCounted
  <2>1. Noted = 0 /\ Sent = 0 /\ fromBoard = <<>>
    BY <1>4 DEF Init, Noted, Sent
  <2>2. Acks(<<>>, 0, 0)
    <3> DEFINE q == <<>>
               w == [k \in 1 .. Len(q) |-> 0]
    <3>1. Len(q) = 0
      OBVIOUS
    <3> HIDE DEF q
    <3>2. w \in [1 .. Len(q) -> 0 .. 0]
      OBVIOUS
    <3> HIDE DEF w
    <3>3. \A k \in 1 .. Len(q) : FALSE
      BY <3>1
    <3>4. Acks(q, 0, 0)
      BY <3>2, <3>3 DEF Acks
    <3>5. QED
      BY <3>4 DEF q
  <2>3. QED
    BY <2>1, <2>2 DEF AcksCounted
<1>9. QED
  BY <1>3, <1>5, <1>6, <1>7, <1>8 DEF IInv


-----------------------------------------------------------------------------
(* Each step of the receiver keeps it.                                       *)

LEMMA FlushInv == ASSUME IInv, Flush PROVE IInv'
<1>1. TypeOK'
  <2>1. /\ toBoard' \in Seq(0 .. 255) /\ fromBoard' \in Seq({ACK, C})
        /\ pc' \in {"flush", "wait"}
    <3>1. toBoard \in Seq(0 .. 255) /\ fromBoard \in Seq({ACK, C})
      BY DEF IInv, TypeOK
    <3>2. CASE toBoard # <<>> /\ toBoard' = Tail(toBoard) /\ pc' = pc /\ fromBoard' = fromBoard
      BY <3>1, <3>2, HeadAndTail DEF Flush
    <3>3. CASE pc' = "wait" /\ fromBoard' = Append(fromBoard, C) /\ toBoard' = toBoard
      BY <3>1, <3>3, SayTyped
    <3>4. QED
      BY <3>2, <3>3 DEF Flush, Say
  <2>2. QED
    BY <2>1 DEF IInv, TypeOK, Flush, sender
<1>2. Buffer' /\ NoOverflow'
  BY DEF IInv, Buffer, Whole, NoOverflow, Flush
<1>3. SenderPlace' /\ Noted' = Noted
  BY SenderStays DEF Flush
<1>4. AcksCounted'
  <2>1. Sent' = Sent
    BY DEF Sent, Flush
  <2>2. Sent \in Nat
    BY Counts DEF IInv
  <2>3. fromBoard' = fromBoard \/ fromBoard' = Append(fromBoard, C)
    BY DEF Flush, Say
  <2>4. QED
    BY <1>3, <2>1, <2>2, <2>3, AcksKept
<1>5. QED
  BY <1>1, <1>2, <1>3, <1>4 DEF IInv

LEMMA InviteInv == ASSUME IInv, Invite PROVE IInv'
<1>1. TypeOK'
  <2>1. fromBoard' \in Seq({ACK, C})
    BY DEF IInv, TypeOK, Invite, Say
  <2>2. QED
    BY <2>1 DEF IInv, TypeOK, Invite, receiver, sender
<1>2. Buffer' /\ NoOverflow'
  BY DEF IInv, Buffer, Whole, NoOverflow, Invite, receiver
<1>3. SenderPlace' /\ Noted' = Noted
  BY SenderStays DEF Invite
<1>4. AcksCounted'
  <2>1. Sent' = Sent
    BY DEF Sent, Invite, receiver
  <2>2. Sent \in Nat
    BY Counts DEF IInv
  <2>3. QED
    BY <1>3, <2>1, <2>2, AcksKept DEF Invite, Say
<1>5. QED
  BY <1>1, <1>2, <1>3, <1>4 DEF IInv

\* What every byte that is read has in common.
LEMMA ReadCommon ==
    ASSUME IInv, Read
    PROVE  /\ toBoard' \in Seq(0 .. 255) /\ Head(toBoard) \in 0 .. 255
           /\ UNCHANGED <<faults, sender>>
           /\ SenderPlace' /\ Noted' = Noted
<1>1. toBoard \in Seq(0 .. 255) /\ toBoard # <<>> /\ toBoard' = Tail(toBoard)
  BY DEF IInv, TypeOK, Read
<1>2. toBoard' \in Seq(0 .. 255) /\ Head(toBoard) \in 0 .. 255
  BY <1>1, HeadAndTail
<1>3. UNCHANGED <<faults, sender>>
  BY DEF Read
<1>4. QED
  BY <1>2, <1>3, SenderStays

LEMMA ReadSohInv ==
    ASSUME IInv, Read, ReadSoh(Head(toBoard))
    PROVE  IInv'
<1>1. /\ pc' \in {"pid", "done"} /\ result' \in {result, len, 0}
      /\ fromBoard' \in {fromBoard, Append(fromBoard, ACK)}
      /\ UNCHANGED <<mem, i, pid, pid1, len>> /\ pc # "done"
  BY DEF ReadSoh, Return, Say
<1>2. TypeOK'
  <2>1. fromBoard' \in Seq({ACK, C})
    <3>1. fromBoard \in Seq({ACK, C})
      BY DEF IInv, TypeOK
    <3>2. QED
      BY <1>1, <3>1, SayTyped
  <2>2. result' \in 0 .. MaxLen
    BY <1>1, Sizes DEF IInv, TypeOK
  <2>3. QED
    BY <1>1, <2>1, <2>2, ReadCommon DEF IInv, TypeOK, sender
<1>3. Buffer' /\ NoOverflow'
  BY <1>1 DEF IInv, Buffer, Whole, NoOverflow
<1>4. AcksCounted'
  <2>1. Sent = len \div BlockLen /\ Sent \in Nat
    BY <1>1, Counts DEF Sent, IInv
  <2>2. CASE fromBoard' = fromBoard
    <3>1. Sent' \in {Sent, Sent + 1}
      BY <1>1, <2>1 DEF Sent
    <3>2. QED
      BY <2>1, <2>2, <3>1, AcksKept, ReadCommon
  <2>3. CASE fromBoard' # fromBoard
    <3>1. pc' = "done" /\ result' = len /\ fromBoard' = Append(fromBoard, ACK)
      BY <2>3 DEF ReadSoh, Return, Say
    <3>2. Sent' = Sent + 1
      BY <1>1, <2>1, <3>1 DEF Sent
    <3>3. QED
      BY <3>1, <3>2, AcksMore, ReadCommon
  <2>4. QED
    BY <2>2, <2>3
<1>5. QED
  BY <1>2, <1>3, <1>4, ReadCommon DEF IInv

LEMMA ReadPidInv ==
    ASSUME IInv, Read, ReadPid(Head(toBoard))
    PROVE  IInv'
<1>1. TypeOK'
  BY ReadCommon DEF IInv, TypeOK, ReadPid, sender
<1>2. Buffer' /\ NoOverflow'
  BY DEF IInv, Buffer, Whole, NoOverflow, ReadPid
<1>3. AcksCounted'
  <2>1. Sent' = Sent
    BY DEF Sent, ReadPid
  <2>2. Sent \in Nat
    BY Counts DEF IInv
  <2>3. QED
    BY <2>1, <2>2, AcksKept, ReadCommon DEF ReadPid
<1>4. QED
  BY <1>1, <1>2, <1>3, ReadCommon DEF IInv

LEMMA ReadNpidInv ==
    ASSUME IInv, Read, ReadNpid(Head(toBoard))
    PROVE  IInv'
<1>1. /\ UNCHANGED <<mem, pid, pid1, len, fromBoard>> /\ pc = "npid"
      /\ \/ /\ pc' = "data" /\ i' = 0 /\ result' = result
            /\ len + BlockLen <= MaxLen
         \/ pc' = "done" /\ result' = 0 /\ i' = i
  BY DEF ReadNpid, Acceptable, Return
<1>2. TypeOK'
  <2>1. i' \in 0 .. (BlockLen + 1) /\ result' \in 0 .. MaxLen
    BY <1>1, Sizes DEF IInv, TypeOK
  <2>2. QED
    BY <1>1, <2>1, ReadCommon DEF IInv, TypeOK, sender
<1>3. Buffer' /\ NoOverflow'
  BY <1>1 DEF IInv, Buffer, Whole, NoOverflow
<1>4. AcksCounted'
  <2>1. Sent = len \div BlockLen /\ Sent \in Nat
    BY <1>1, Counts DEF Sent, IInv
  <2>2. Sent' \in {Sent, Sent + 1}
    BY <1>1, <2>1 DEF Sent
  <2>3. QED
    BY <1>1, <2>1, <2>2, AcksKept, ReadCommon
<1>5. QED
  BY <1>2, <1>3, <1>4, ReadCommon DEF IInv

LEMMA ReadDataInv ==
    ASSUME IInv, Read, ReadData(Head(toBoard))
    PROVE  IInv'
<1> DEFINE c == Head(toBoard)
<1>1. c \in 0 .. 255 /\ pc = "data" /\ mem' = [mem EXCEPT ![len + i] = c] /\ pid1' = pid1
  BY ReadCommon DEF ReadData
<1>2. /\ len \in Nat /\ i \in 0 .. (BlockLen + 1) /\ len + BlockLen <= MaxLen
      /\ Whole(len) /\ mem \in [Cells -> 0 .. 255] /\ len + i \in Cells
  BY <1>1, Sizes DEF IInv, TypeOK, Buffer, Cells
<1>3. mem' \in [Cells -> 0 .. 255]
  BY <1>1, <1>2
<1>4. NoOverflow'
  <2>1. SUFFICES ASSUME MaxLen % BlockLen >= 2, NEW x \in Cells, x >= MaxLen
                 PROVE  mem'[x] = 0
    BY DEF NoOverflow
  <2>2. len + BlockLen + 1 < MaxLen
    BY ONLY <1>2, <2>1, CrcFits
  <2>3. x # len + i
    BY <1>2, <2>1, <2>2, Sizes DEF Cells
  <2>4. mem[x] = 0
    BY <2>1 DEF IInv, NoOverflow
  <2>5. QED
    BY <1>1, <1>2, <2>3, <2>4
<1>5. Sent = len \div BlockLen /\ Sent \in Nat
  BY <1>1, Counts DEF Sent, IInv
<1>6. pid' \in 0 .. (PidMod - 1)
  <2>1. pid + 1 \in Nat /\ PidMod \in Nat \ {0}
    BY Sizes DEF IInv, TypeOK
  <2>2. (pid + 1) % PidMod \in 0 .. (PidMod - 1)
    BY ONLY <2>1, DivMod
  <2>3. pid' = pid \/ pid' = (pid + 1) % PidMod
    BY DEF ReadData, NextPid
  <2>4. QED
    BY <2>2, <2>3 DEF IInv, TypeOK
<1>7. CASE UNCHANGED <<len, fromBoard>>
  <2>1. /\ pc' \in {"data", "done"} /\ i' \in {i + 1, 0} /\ result' \in {result, 0}
        /\ i' # 0 => i < BlockLen + 1
    <3>1. CASE i < BlockLen + 1
      BY <1>1, <3>1 DEF ReadData
    <3>2. CASE ~(i < BlockLen + 1)
      <4>1. len + BlockLen # len
        BY <1>2, Sizes
      <4>2. QED
        BY <1>7, <3>2, <4>1 DEF ReadData, Return
    <3>3. QED
      BY <3>1, <3>2
  <2>2. i' \in 0 .. (BlockLen + 1) /\ result' \in 0 .. MaxLen
    BY <1>2, <2>1, Sizes DEF IInv, TypeOK
  <2>3. TypeOK'
    BY <1>1, <1>3, <1>6, <1>7, <2>1, <2>2, ReadCommon DEF IInv, TypeOK, sender
  <2>4. Buffer'
    BY <1>2, <1>7 DEF Buffer, Whole
  <2>5. Sent' \in {Sent, Sent + 1}
    BY <1>5, <1>7 DEF Sent
  <2>6. AcksCounted'
    BY <1>5, <1>7, <2>5, AcksKept, ReadCommon
  <2>7. QED
    BY <1>4, <2>3, <2>4, <2>6, ReadCommon DEF IInv
<1>8. CASE ~UNCHANGED <<len, fromBoard>>
  <2>1. /\ pc' = "soh" /\ i' = 0 /\ len' = len + BlockLen /\ result' = result
        /\ fromBoard' = Append(fromBoard, ACK)
    BY <1>8 DEF ReadData, Return, Say
  <2>2. len' \in 0 .. MaxLen /\ i' \in 0 .. (BlockLen + 1)
    BY <1>2, <2>1, Sizes
  <2>3. fromBoard' \in Seq({ACK, C})
    BY <2>1 DEF IInv, TypeOK
  <2>4. TypeOK'
    BY <1>1, <1>3, <1>6, <2>1, <2>2, <2>3, ReadCommon DEF IInv, TypeOK, sender
  <2>5. /\ (len + BlockLen) \div BlockLen = (len \div BlockLen) + 1
        /\ Whole(len + BlockLen)
    BY ONLY <1>2, NextBlock
  <2>6. Buffer'
    BY <2>1, <2>5 DEF Buffer, Whole
  <2>7. Sent' = Sent + 1
    BY <1>5, <2>1, <2>5 DEF Sent
  <2>8. AcksCounted'
    BY <2>1, <2>7, AcksMore, ReadCommon
  <2>9. QED
    BY <1>4, <2>4, <2>6, <2>8, ReadCommon DEF IInv
<1>9. QED
  BY <1>7, <1>8

LEMMA ReadInv == ASSUME IInv, Read PROVE IInv'
<1>1. \/ ReadSoh(Head(toBoard)) \/ ReadPid(Head(toBoard))
      \/ ReadNpid(Head(toBoard)) \/ ReadData(Head(toBoard))
  BY DEF Read
<1>2. QED
  BY <1>1, ReadSohInv, ReadPidInv, ReadNpidInv, ReadDataInv

LEMMA AfterwardsInv == ASSUME IInv, Afterwards PROVE IInv'
<1>1. toBoard' \in Seq(0 .. 255)
  BY DEF IInv, TypeOK, Afterwards
<1>2. TypeOK'
  BY <1>1 DEF IInv, TypeOK, Afterwards, receiver, sender
<1>3. Buffer' /\ NoOverflow'
  BY DEF IInv, Buffer, Whole, NoOverflow, Afterwards, receiver
<1>4. SenderPlace' /\ Noted' = Noted
  BY SenderStays DEF Afterwards
<1>5. Sent' = Sent /\ Sent \in Nat
  BY Counts DEF IInv, Sent, Afterwards, receiver
<1>6. AcksCounted'
  BY <1>4, <1>5, AcksKept DEF Afterwards
<1>7. QED
  BY <1>2, <1>3, <1>4, <1>6 DEF IInv


-----------------------------------------------------------------------------
(* So does each step of the sender and of the line.                          *)

\* What they leave alone of the receiver.
LEMMA ReceiverStays ==
    ASSUME IInv, UNCHANGED receiver
    PROVE  /\ Buffer' /\ NoOverflow'
           /\ Sent' = Sent /\ Sent \in Nat
           /\ UNCHANGED <<pc, mem, i, pid, pid1, len, result>>
<1>1. UNCHANGED <<pc, mem, i, pid, pid1, len, result>>
  BY DEF receiver
<1>2. Buffer' /\ NoOverflow' /\ Sent' = Sent
  BY <1>1 DEF IInv, Buffer, Whole, NoOverflow, Sent
<1>3. QED
  BY <1>1, <1>2, Counts DEF IInv

\* The sender's place is right when it changes to one of these.
LEMMA Typing ==
    ASSUME IInv, UNCHANGED <<receiver, file>>,
           toBoard' \in Seq(0 .. 255), fromBoard' \in Seq({ACK, C}),
           faults' \in 0 .. MaxFaults,
           spc' \in {"idle", "block", "eot", "done", "gone"},
           block' \in 0 .. Len(file), tries' \in 0 .. Retries
    PROVE  TypeOK'
BY ReceiverStays DEF IInv, TypeOK

LEMMA AgainInv ==
    ASSUME IInv, spc \in {"block", "eot"}, Again
    PROVE  /\ toBoard' \in Seq(0 .. 255) /\ block' = block /\ tries' \in 0 .. Retries
           /\ \/ spc' = "block" /\ block < Len(file)
              \/ spc' = "eot" /\ block = Len(file)
              \/ spc' = "gone"
<1>1. TypeOK /\ block \in 0 .. Len(file) /\ tries \in 0 .. Retries
      /\ toBoard \in Seq(0 .. 255)
  BY DEF IInv, TypeOK
<1>2. CASE tries < Retries
  <2>1. Send(block) /\ tries' = tries + 1
    BY <1>2 DEF Again
  <2>2. tries' \in 0 .. Retries
    BY <1>1, <1>2, <2>1, Sizes
  <2>3. QED
    BY <1>1, <2>1, <2>2, SendPlace
<1>3. CASE ~(tries < Retries)
  <2>1. spc' = "gone" /\ UNCHANGED <<block, tries, toBoard>>
    BY <1>3 DEF Again
  <2>2. QED
    BY <1>1, <2>1
<1>4. QED
  BY <1>2, <1>3

LEMMA AnswerInv == ASSUME IInv, Answer PROVE IInv'
<1> DEFINE x == Head(fromBoard)
<1>1. /\ TypeOK /\ SenderPlace
      /\ fromBoard \in Seq({ACK, C}) /\ toBoard \in Seq(0 .. 255)
      /\ block \in 0 .. Len(file) /\ tries \in 0 .. Retries /\ 0 \in 0 .. Retries
      /\ file \in Files /\ faults \in 0 .. MaxFaults
      /\ spc \in {"idle", "block", "eot", "done", "gone"}
  BY Sizes DEF IInv, TypeOK
<1>2. /\ fromBoard # <<>> /\ fromBoard' = Tail(fromBoard)
      /\ UNCHANGED <<receiver, file, faults>>
  BY DEF Answer
<1>3. fromBoard' \in Seq({ACK, C})
  BY <1>1, <1>2, HeadAndTail
<1>4. Len(file) \in Nat /\ ACK # C
  BY <1>1, FileSize DEF ACK, C
\* Each alternative moves the sender to a place that is right, and takes note of
\* an acknowledgement or of nothing.
<1> DEFINE Moved(n) ==
             /\ toBoard' \in Seq(0 .. 255) /\ tries' \in 0 .. Retries
             /\ block' \in 0 .. Len(file)
             /\ spc' \in {"idle", "block", "eot", "done", "gone"}
             /\ SenderPlace'
             /\ Noted' = Noted + n
<1>5. Moved(0) \/ (x = ACK /\ Moved(1))
  <2>1. CASE spc = "idle" /\ x = C /\ Send(0) /\ tries' = 0
    <3>1. block = 0 /\ 0 \in 0 .. Len(file)
      BY <1>1, <1>4, <2>1 DEF SenderPlace
    <3>2. /\ toBoard' \in Seq(0 .. 255) /\ block' = 0
          /\ \/ spc' = "block" /\ 0 < Len(file)
             \/ spc' = "eot" /\ 0 = Len(file)
      BY <1>1, <2>1, <3>1, SendPlace
    <3>3. Noted = 0 /\ Noted' = 0
      BY <2>1, <3>1, <3>2 DEF Noted
    <3>4. SenderPlace'
      BY <1>2, <3>2 DEF SenderPlace
    <3>5. QED
      BY <1>1, <2>1, <3>1, <3>2, <3>3, <3>4
  <2>2. CASE spc = "block" /\ x = ACK /\ Send(block + 1) /\ tries' = 0
    <3>1. block + 1 \in 0 .. Len(file)
      BY <1>1, <1>4, <2>2 DEF SenderPlace
    <3>2. /\ toBoard' \in Seq(0 .. 255) /\ block' = block + 1
          /\ \/ spc' = "block" /\ block + 1 < Len(file)
             \/ spc' = "eot" /\ block + 1 = Len(file)
      BY <1>1, <2>2, <3>1, SendPlace
    <3>3. Noted = block /\ Noted' = block + 1
      BY <1>1, <2>2, <3>2 DEF Noted
    <3>4. SenderPlace'
      BY <1>2, <3>2 DEF SenderPlace
    <3>5. QED
      BY <1>1, <2>2, <3>1, <3>2, <3>3, <3>4
  <2>3. CASE /\ spc = "eot" /\ x = ACK
             /\ spc' = "done" /\ UNCHANGED <<block, tries, toBoard>>
    <3>1. Noted = block /\ Noted' = block + 1
      BY <1>1, <2>3 DEF Noted
    <3>2. SenderPlace'
      BY <1>1, <1>2, <2>3 DEF SenderPlace
    <3>3. QED
      BY <1>1, <2>3, <3>1, <3>2
  <2>4. CASE AsksAnew(x) /\ Again
    <3>1. spc \in {"block", "eot"}
      BY <2>4 DEF AsksAnew
    <3>2. /\ toBoard' \in Seq(0 .. 255) /\ block' = block /\ tries' \in 0 .. Retries
          /\ \/ spc' = "block" /\ block < Len(file)
             \/ spc' = "eot" /\ block = Len(file)
             \/ spc' = "gone"
      BY <2>4, <3>1, AgainInv
    <3>3. Noted = block /\ Noted' = block
      BY <1>1, <3>1, <3>2 DEF Noted
    <3>4. SenderPlace'
      BY <1>2, <3>2 DEF SenderPlace
    <3>5. QED
      BY <1>1, <3>2, <3>3, <3>4
  <2>5. CASE UNCHANGED <<spc, block, tries, toBoard>>
    <3>1. Noted' = Noted /\ Noted \in Nat
      BY <2>5, Counts DEF Noted, IInv
    <3>2. SenderPlace'
      BY <1>1, <1>2, <2>5 DEF SenderPlace
    <3>3. QED
      BY <1>1, <2>5, <3>1, <3>2
  <2>6. QED
    BY <2>1, <2>2, <2>3, <2>4, <2>5 DEF Answer
<1>6. TypeOK' /\ SenderPlace'
  BY <1>1, <1>2, <1>3, <1>5, Typing
<1>7. AcksCounted'
  <2>1. Sent' = Sent /\ Noted \in Nat
    BY <1>2, ReceiverStays, Counts DEF IInv
  <2>2. Noted' = Noted \/ (Head(fromBoard) = ACK /\ Noted' = Noted + 1)
    BY <1>5, <2>1
  <2>3. QED
    BY <1>2, <2>1, <2>2, AcksTaken
<1>8. QED
  BY <1>2, <1>6, <1>7, ReceiverStays DEF IInv

LEMMA TimeoutInv == ASSUME IInv, Timeout PROVE IInv'
<1>1. /\ SenderPlace
      /\ fromBoard \in Seq({ACK, C}) /\ toBoard \in Seq(0 .. 255)
      /\ block \in 0 .. Len(file) /\ tries \in 0 .. Retries
      /\ file \in Files /\ faults \in 0 .. MaxFaults
  BY DEF IInv, TypeOK
<1>2. UNCHANGED <<receiver, fromBoard, file, faults>>
  BY DEF Timeout
<1>3. /\ toBoard' \in Seq(0 .. 255) /\ block' = block /\ tries' \in 0 .. Retries
      /\ spc \in {"idle", "block", "eot"}
      /\ \/ spc' = "block" /\ block < Len(file)
         \/ spc' = "eot" /\ block = Len(file)
         \/ spc' = "gone"
  <2>1. CASE spc \in {"block", "eot"} /\ Again
    BY <2>1, AgainInv
  <2>2. CASE spc = "idle" /\ spc' = "gone" /\ UNCHANGED <<block, tries, toBoard>>
    BY <1>1, <2>2
  <2>3. QED
    BY <2>1, <2>2 DEF Timeout
<1>4. SenderPlace'
  BY <1>2, <1>3 DEF SenderPlace
<1>5. TypeOK'
  BY <1>1, <1>2, <1>3, Typing
<1>6. AcksCounted'
  <2>1. Noted' = Noted
    BY <1>3 DEF Noted
  <2>2. QED
    BY <1>2, <2>1, AcksKept, ReceiverStays
<1>7. QED
  BY <1>2, <1>4, <1>5, <1>6, ReceiverStays DEF IInv

LEMMA SpoilInv == ASSUME IInv, Spoil PROVE IInv'
<1>1. /\ fromBoard \in Seq({ACK, C}) /\ toBoard \in Seq(0 .. 255)
      /\ faults \in 0 .. MaxFaults /\ file \in Files
  BY DEF IInv, TypeOK
<1>2. /\ UNCHANGED <<receiver, sender>> /\ UNCHANGED receiver /\ UNCHANGED sender
      /\ faults' \in 0 .. MaxFaults
  BY <1>1, Sizes DEF Spoil
<1>3. SenderPlace' /\ Noted' = Noted
  BY <1>2, SenderStays
<1>4. CASE /\ toBoard # <<>> /\ fromBoard' = fromBoard
           /\ \/ toBoard' = Tail(toBoard)
              \/ \E b \in Noise : toBoard' = <<b>> \o Tail(toBoard)
  <2>1. Tail(toBoard) \in Seq(0 .. 255)
    BY <1>1, <1>4, HeadAndTail
  <2>2. toBoard' \in Seq(0 .. 255)
    <3>1. CASE toBoard' = Tail(toBoard)
      BY <2>1, <3>1
    <3>2. CASE \E b \in Noise : toBoard' = <<b>> \o Tail(toBoard)
      <4>1. PICK b \in Noise : toBoard' = <<b>> \o Tail(toBoard)
        BY <3>2
      <4>2. b \in 0 .. 255
        BY XmodemAssumption
      <4>3. <<b>> \in Seq(0 .. 255)
        BY ONLY <4>2
      <4>4. QED
        BY ONLY <2>1, <4>1, <4>3
    <3>3. QED
      BY <1>4, <3>1, <3>2
  <2>3. TypeOK'
    BY <1>1, <1>2, <1>4, <2>2 DEF IInv, TypeOK, receiver, sender
  <2>4. AcksCounted'
    BY <1>2, <1>3, <1>4, AcksKept, ReceiverStays
  <2>5. QED
    BY <1>2, <1>3, <2>3, <2>4, ReceiverStays DEF IInv
<1>5. CASE /\ fromBoard # <<>> /\ fromBoard' = Tail(fromBoard) /\ toBoard' = toBoard
  <2>1. fromBoard' \in Seq({ACK, C})
    BY <1>1, <1>5, HeadAndTail
  <2>2. TypeOK'
    BY <1>1, <1>2, <1>5, <2>1 DEF IInv, TypeOK, receiver, sender
  <2>3. AcksCounted'
    BY <1>2, <1>3, <1>5, AcksTaken, ReceiverStays
  <2>4. QED
    BY <1>2, <1>3, <2>2, <2>3, ReceiverStays DEF IInv
<1>6. QED
  BY <1>4, <1>5 DEF Spoil

LEMMA StutterInv == ASSUME IInv, UNCHANGED vars PROVE IInv'
<1>1. UNCHANGED <<receiver, sender, toBoard, fromBoard, faults>>
  BY DEF vars, line
<1>2. TypeOK'
  BY <1>1 DEF IInv, TypeOK, receiver, sender
<1>3. SenderPlace' /\ Noted' = Noted
  BY <1>1, SenderStays
<1>4. AcksCounted'
  BY <1>1, <1>3, AcksKept, ReceiverStays
<1>5. QED
  BY <1>1, <1>2, <1>3, <1>4, ReceiverStays DEF IInv

LEMMA Invariance == Spec => []IInv
<1>1. IInv /\ [Next]_vars => IInv'
  <2> SUFFICES ASSUME IInv, [Next]_vars PROVE IInv'
    OBVIOUS
  <2>1. QED
    BY FlushInv, InviteInv, ReadInv, AfterwardsInv, AnswerInv, TimeoutInv, SpoilInv,
       StutterInv
    DEF Next
<1>2. QED
  BY <1>1, InitInv, PTL DEF Spec


-----------------------------------------------------------------------------
(* What it is for.                                                           *)

\* Type correctness: in particular no more than MaxLen bytes are accepted or
\* returned, and all that is stored lies in the cells the model has.
THEOREM ReceiverIsTyped == Spec => []TypeOK
<1>1. IInv => TypeOK
  BY DEF IInv
<1>2. QED
  BY <1>1, Invariance, PTL

\* rxmodem never writes beyond its buffer, whatever comes down the line, although
\* it checks the room for the data of a block and not for the CRC behind it.
THEOREM BufferHolds == Spec => []NoOverflow
<1>1. IInv => NoOverflow
  BY DEF IInv
<1>2. QED
  BY <1>1, Invariance, PTL

\* No block is acknowledged before it has been accepted, and no end of file before
\* rxmodem returns: the sender never counts more than the receiver has.
THEOREM NothingAckedEarly == Spec => [](Noted <= Sent)
<1>1. IInv => Noted <= Sent
  BY DEF IInv, AcksCounted, Acks
<1>2. QED
  BY <1>1, Invariance, PTL

\* Unless noise has made up blocks that the file does not have, and a CRC for each
\* of them, a sender that is told that its file has arrived is told the truth: the
\* loop of rxmodem has returned the length of the whole file.
THEOREM SenderIsRight == Spec => [](len <= Size(file) => SenderKnows)
<1>1. ASSUME IInv, len <= Size(file), spc = "done"
      PROVE  result = Size(file)
  <2> DEFINE n == Len(file)
             q == len \div BlockLen
             size == n * BlockLen
             got == q * BlockLen
  <2>1. n \in Nat /\ BlockLen \in Nat \ {0} /\ q \in Nat /\ len \in Nat
    BY <1>1, FileSize, Sizes, Counts DEF IInv, TypeOK
  <2>2. len = got /\ len <= size
    BY <1>1 DEF IInv, Buffer, Whole, Size
  <2>3. size \in Nat /\ got \in Nat /\ (n < q => size + BlockLen <= got)
    BY <2>1, NatProduct, MultipleBelow
  <2> HIDE DEF size, got
  <2>4. ~(n < q)
    BY ONLY <2>1, <2>2, <2>3
  <2>5. Noted = n + 1 /\ Noted <= Sent
    BY <1>1 DEF IInv, SenderPlace, Noted, AcksCounted, Acks
  <2>6. Sent = q + (IF pc = "done" /\ result = len THEN 1 ELSE 0)
    BY DEF Sent
  <2> HIDE DEF q, n
  <2>7. q = n /\ result = len
    BY ONLY <2>1, <2>4, <2>5, <2>6
  <2>8. QED
    BY <2>2, <2>7 DEF got, n, Size
<1>2. IInv => (len <= Size(file) => SenderKnows)
  BY <1>1 DEF SenderKnows
<1>3. QED
  BY <1>2, Invariance, PTL


-----------------------------------------------------------------------------
(* The conversation on a line that has lost and changed nothing.             *)

\* The blocks accepted, and the byte of the file that belongs at k.
Got == len \div BlockLen
Byte(k) == file[(k \div BlockLen) + 1][(k % BlockLen) + 1]

\* They are the first of the file.
Stored ==
    /\ Got <= Len(file)
    /\ pid = (Got + 1) % PidMod
    /\ \A k \in 0 .. (len - 1) : mem[k] = Byte(k)

\* Nothing is returned before the end, and nothing accepted before a byte has come.
Fresh ==
    /\ pc # "done" => result = 0
    /\ pc \in {"flush", "wait"} => len = 0

\* In what follows x is 1 where an invitation may cross the first block, which the
\* sender then repeats, and 0 where none does.

\* What is left of the frame of the next block when p bytes of it are read; where n
\* are left, nothing is behind them or block 1 begins once more.
NextFrame == Frame(Got + 1)
Behind(x, n) ==
    \/ Len(toBoard) = n
    \/ /\ x = 1 /\ Got = 0
       /\ Len(toBoard) >= n + 2 /\ toBoard[n + 1] = SOH /\ toBoard[n + 2] = 1
Coming(x, p) ==
    /\ \A k \in 1 .. (BlockLen + 5 - p) : toBoard[k] = NextFrame[p + k]
    /\ Behind(x, BlockLen + 5 - p)

Invitations(q) == \A k \in 1 .. Len(q) : q[k] = C

Inviting ==
    /\ spc = "idle" /\ toBoard = <<>> /\ Invitations(fromBoard)
    /\ \/ pc = "flush" /\ fromBoard = <<>>
       \/ pc = "wait"

\* The sender has sent what place says and is not answered.
Waiting(x, place) ==
    /\ block = Got
    /\ \/ spc = place /\ fromBoard = <<>>
       \/ x = 1 /\ Got = 0 /\ spc \in {place, "gone"} /\ Invitations(fromBoard)

Receiving(x) ==
    /\ Waiting(x, "block") /\ Got < Len(file)
    /\ \/ pc \in {"wait", "soh"} /\ Coming(x, 0)
       \/ pc = "pid" /\ Coming(x, 1)
       \/ pc = "npid" /\ Coming(x, 2) /\ pid1 = (Got + 1) % PidMod
       \/ /\ pc = "data" /\ Coming(x, i + 3)
          /\ \A k \in 0 .. (i - 1) : mem[len + k] = NextFrame[k + 4]

\* Invitations that crossed block 1 stand before its acknowledgement.
Accepted(x) ==
    /\ spc = "block" /\ pc = "soh" /\ block + 1 = Got /\ toBoard = <<>>
    /\ Len(fromBoard) = 1 \/ (x = 1 /\ Got = 1 /\ Len(fromBoard) > 1)
    /\ fromBoard[Len(fromBoard)] = ACK
    /\ \A k \in 1 .. (Len(fromBoard) - 1) : fromBoard[k] = C

\* Block 1 comes again, or the sender has repeated it too often.
Doomed(x) ==
    /\ x = 1 /\ Got = 1
    /\ \/ pc = "soh" /\ Len(toBoard) >= 2 /\ toBoard[1] = SOH /\ toBoard[2] = 1
       \/ pc = "pid" /\ Len(toBoard) >= 1 /\ toBoard[1] = 1
       \/ pc = "npid" /\ pid1 = 1
       \/ pc = "soh" /\ toBoard = <<>> /\ spc = "gone"

Ending(x) ==
    /\ Waiting(x, "eot") /\ Got = Len(file) /\ pc \in {"wait", "soh"}
    /\ Len(toBoard) >= 1 /\ toBoard[1] = EOT

\* The file is there; or the buffer is full, or block 1 has come again.
Over(x) ==
    /\ pc = "done"
    /\ \/ result = len /\ Got = Len(file)
       \/ result = 0 /\ Got < Len(file) /\ len + BlockLen > MaxLen
       \/ result = 0 /\ x = 1 /\ Got = 1

Conversation(x) ==
    Inviting \/ Receiving(x) \/ Accepted(x) \/ Doomed(x) \/ Ending(x) \/ Over(x)

Clean(x) == faults = 0 => Stored /\ Conversation(x)

\* No invitation crosses anything, unless that may be.
Undisturbed(x) == x = 1 \/ ~Crossing


\* What stands where in a sequence made of two.
LEMMA Concatenation ==
    \A S : \A s, t \in Seq(S) :
        /\ s \o t \in Seq(S) /\ Len(s \o t) = Len(s) + Len(t)
        /\ \A k \in 1 .. Len(s) : (s \o t)[k] = s[k]
        /\ \A k \in 1 .. Len(t) : (s \o t)[Len(s) + k] = t[k]
OBVIOUS

Parted(all, h, b, t, n) ==
    /\ Len(all) = n + 5
    /\ all[1] = h[1] /\ all[2] = h[2] /\ all[3] = h[3]
    /\ \A k \in 1 .. n : all[k + 3] = b[k]
    /\ all[n + 4] = t[1] /\ all[n + 5] = t[2]

LEMMA ThreeParts ==
    ASSUME NEW S, NEW h \in Seq(S), NEW b \in Seq(S), NEW t \in Seq(S), NEW n \in Nat,
           Len(h) = 3, Len(b) = n, Len(t) = 2
    PROVE  Parted(h \o b \o t, h, b, t, n)
<1> DEFINE front == h \o b
           all == front \o t
<1>1. /\ front \in Seq(S) /\ Len(front) = Len(h) + Len(b)
      /\ \A k \in 1 .. Len(h) : front[k] = h[k]
      /\ \A k \in 1 .. Len(b) : front[Len(h) + k] = b[k]
  BY ONLY h \in Seq(S), b \in Seq(S), Concatenation
<1> HIDE DEF front
<1>2. /\ Len(all) = Len(front) + Len(t)
      /\ \A k \in 1 .. Len(front) : all[k] = front[k]
      /\ \A k \in 1 .. Len(t) : all[Len(front) + k] = t[k]
  <2>1. front \in Seq(S)
    BY <1>1
  <2>2. QED
    BY ONLY <2>1, t \in Seq(S), Concatenation
<1>3. all = h \o b \o t
  BY DEF front
<1> HIDE DEF all
<1>4. Len(front) = n + 3
  BY <1>1
<1>5. /\ front[1] = h[1] /\ front[2] = h[2] /\ front[3] = h[3]
      /\ \A k \in 1 .. n : front[k + 3] = b[k]
  BY <1>1
<1>6. /\ Len(all) = n + 5
      /\ \A k \in 1 .. (n + 3) : all[k] = front[k]
      /\ all[n + 3 + 1] = t[1] /\ all[n + 3 + 2] = t[2]
  BY <1>2, <1>4
<1>7. all[n + 4] = t[1] /\ all[n + 5] = t[2]
  BY <1>6
<1>8. /\ 1 \in 1 .. (n + 3) /\ 2 \in 1 .. (n + 3) /\ 3 \in 1 .. (n + 3)
      /\ \A k \in 1 .. n : k + 3 \in 1 .. (n + 3)
  OBVIOUS
<1>9. Parted(all, h, b, t, n)
  BY <1>5, <1>6, <1>7, <1>8 DEF Parted
<1>10. QED
  BY ONLY <1>3, <1>9

LEMMA CrcWord ==
    ASSUME TypeOK, NEW n \in 1 .. Len(file)
    PROVE  Crc(file[n]) \in 0 .. (256 * 256 - 1)
BY XmodemAssumption DEF TypeOK

\* The bytes of a frame.
LEMMA FrameAt ==
    ASSUME TypeOK, NEW n \in 1 .. Len(file)
    PROVE  /\ Len(Frame(n)) = BlockLen + 5
           /\ Frame(n)[1] = SOH
           /\ Frame(n)[2] = n % PidMod
           /\ Frame(n)[3] = PidMod - 1 - (n % PidMod)
           /\ \A k \in 1 .. BlockLen : Frame(n)[k + 3] = file[n][k]
           /\ Frame(n)[BlockLen + 4] * 256 + Frame(n)[BlockLen + 5] = Crc(file[n])
           /\ DOMAIN file[n] = 1 .. BlockLen
<1> DEFINE crc == Crc(file[n])
           head == <<SOH, n % PidMod, PidMod - 1 - (n % PidMod)>>
           body == file[n]
           tail == <<crc \div 256, crc % 256>>
<1>1. file \in Seq([1 .. BlockLen -> 0 .. 255]) /\ file \in Files
  BY XmodemAssumption DEF TypeOK
<1>2. body \in [1 .. BlockLen -> 0 .. 255] /\ BlockLen \in Nat
  <2> DEFINE Blocks == [1 .. BlockLen -> 0 .. 255]
  <2>1. file \in Seq(Blocks)
    BY <1>1
  <2> HIDE DEF Blocks
  <2>2. file[n] \in Blocks
    BY ONLY <2>1, n \in 1 .. Len(file)
  <2>3. QED
    BY <2>2, Sizes DEF Blocks
<1>3. body \in Seq(0 .. 255) /\ Len(body) = BlockLen
  BY <1>2
<1>4. crc \in 0 .. (256 * 256 - 1)
  BY CrcWord
<1>5. Frame(n) = head \o body \o tail
  BY DEF Frame
<1>6. /\ Len(head) = 3 /\ head[1] = SOH /\ head[2] = n % PidMod
      /\ head[3] = PidMod - 1 - (n % PidMod)
      /\ Len(tail) = 2 /\ tail[1] = crc \div 256 /\ tail[2] = crc % 256
  OBVIOUS
<1>7. tail[1] * 256 + tail[2] = crc
  <2>1. 256 \in Nat \ {0}
    OBVIOUS
  <2>2. crc = ((crc \div 256) * 256) + (crc % 256)
    <3> HIDE DEF crc
    <3>1. crc \in Nat
      BY ONLY <1>4
    <3>2. QED
      BY ONLY <3>1, <2>1, DivMod
  <2>3. QED
    BY <1>6, <2>2
<1>8. head \in Seq(0 .. 255) /\ tail \in Seq(0 .. 255)
  <2>1. n \in Nat /\ PidMod \in Nat \ {0}
    BY Sizes, <1>1
  <2> DEFINE m == n % PidMod
  <2>2. m \in 0 .. (PidMod - 1)
    BY ONLY <2>1, DivMod
  <2>3. crc \div 256 \in 0 .. 255 /\ crc % 256 \in 0 .. 255
    BY <1>4, TwoBytes
  <2> HIDE DEF m, crc
  <2>4. <<SOH, m, PidMod - 1 - m>> \in Seq(0 .. 255) /\ tail \in Seq(0 .. 255)
    BY ONLY <2>2, <2>3, Sizes DEF SOH
  <2>5. QED
    BY <2>4 DEF m
<1> DEFINE Bytes == 0 .. 255
<1>9. /\ head \in Seq(Bytes) /\ body \in Seq(Bytes) /\ tail \in Seq(Bytes)
      /\ Len(head) = 3 /\ Len(body) = BlockLen /\ Len(tail) = 2 /\ BlockLen \in Nat
  BY <1>2, <1>3, <1>6, <1>8
<1> HIDE DEF head, body, tail, crc, Bytes
<1>10. Parted(head \o body \o tail, head, body, tail, BlockLen)
  BY ONLY <1>9, ThreeParts
<1>11. DOMAIN body = 1 .. BlockLen
  BY ONLY <1>2
<1>12. Parted(Frame(n), head, body, tail, BlockLen)
  BY ONLY <1>5, <1>10
<1>13. QED
  BY <1>6, <1>7, <1>11, <1>12 DEF body, crc, Parted


\* Where a step finds the receiver, and what it leaves as it is.
LEMMA Places ==
    ASSUME IInv
    PROVE  /\ Got \in Nat /\ len \in Nat /\ Len(file) \in Nat /\ len = Got * BlockLen
           /\ BlockLen \in Nat \ {0} /\ MaxLen \in Nat
           /\ Got < Len(file) => Got + 1 \in 1 .. Len(file)
<1>1. Got \in Nat /\ len \in Nat /\ Len(file) \in Nat
  BY Counts, FileSize, Sizes DEF IInv, TypeOK, Got
<1>2. len = Got * BlockLen
  BY DEF IInv, Buffer, Whole, Got
<1>3. Got < Len(file) => Got + 1 \in 1 .. Len(file)
  BY ONLY <1>1
<1>4. QED
  BY <1>1, <1>2, <1>3, Sizes

LEMMA NextFrameAt ==
    ASSUME IInv, Got < Len(file)
    PROVE  /\ Len(NextFrame) = BlockLen + 5 /\ NextFrame \in Seq(0 .. 255)
           /\ NextFrame[1] = SOH
           /\ NextFrame[2] = (Got + 1) % PidMod
           /\ NextFrame[3] = PidMod - 1 - ((Got + 1) % PidMod)
           /\ \A k \in 1 .. BlockLen : NextFrame[k + 3] = file[Got + 1][k]
           /\ NextFrame[BlockLen + 4] * 256 + NextFrame[BlockLen + 5] = Crc(file[Got + 1])
           /\ file[Got + 1] = [k \in 1 .. BlockLen |-> file[Got + 1][k]]
<1> DEFINE n == Got + 1
<1>1. n \in 1 .. Len(file) /\ TypeOK
  BY Places DEF IInv
<1> HIDE DEF n
<1>2. /\ Len(Frame(n)) = BlockLen + 5
      /\ Frame(n)[1] = SOH
      /\ Frame(n)[2] = n % PidMod
      /\ Frame(n)[3] = PidMod - 1 - (n % PidMod)
      /\ \A k \in 1 .. BlockLen : Frame(n)[k + 3] = file[n][k]
      /\ Frame(n)[BlockLen + 4] * 256 + Frame(n)[BlockLen + 5] = Crc(file[n])
      /\ DOMAIN file[n] = 1 .. BlockLen
  BY <1>1, FrameAt
<1>3. Frame(n) \in Seq(0 .. 255)
  BY <1>1, FrameBytes
<1>4. file[n] \in [1 .. BlockLen -> 0 .. 255]
  <2> DEFINE Blocks == [1 .. BlockLen -> 0 .. 255]
  <2>1. file \in Seq(Blocks)
    BY <1>1, XmodemAssumption DEF TypeOK
  <2> HIDE DEF Blocks
  <2>2. file[n] \in Blocks
    BY ONLY <2>1, <1>1
  <2>3. QED
    BY <2>2 DEF Blocks
<1>5. file[n] = [k \in 1 .. BlockLen |-> file[n][k]]
  BY ONLY <1>4
<1>6. NextFrame = Frame(n)
  BY DEF NextFrame, n
<1>7. QED
  BY <1>2, <1>3, <1>5, <1>6 DEF n

LEMMA FrameStays ==
    ASSUME UNCHANGED <<len, file>>
    PROVE  Got' = Got /\ NextFrame' = NextFrame
BY DEF Got, NextFrame, Frame

LEMMA StoredStays ==
    ASSUME IInv, Stored, UNCHANGED <<len, pid, file>>,
           \A k \in 0 .. (len - 1) : mem'[k] = mem[k]
    PROVE  Stored'
<1>1. \A k \in 0 .. (len - 1) : mem'[k] = Byte(k)'
  BY DEF Stored, Byte
<1>2. QED
  BY <1>1, FrameStays DEF Stored

\* The byte that is taken is the next one of the frame.
LEMMA Took ==
    ASSUME IInv, NEW x \in {0, 1}, Got < Len(file), NEW p \in 0 .. (BlockLen + 4),
           Coming(x, p), toBoard' = Tail(toBoard), UNCHANGED <<len, file>>
    PROVE  Head(toBoard) = NextFrame[p + 1] /\ Coming(x, p + 1)'
<1> DEFINE n == BlockLen + 5 - p
           rest == Tail(toBoard)
<1>1. /\ toBoard \in Seq(0 .. 255) /\ BlockLen \in Nat /\ n \in Nat \ {0}
      /\ n - 1 = BlockLen + 5 - (p + 1)
      /\ \A k \in 1 .. n : toBoard[k] = NextFrame[p + k]
      /\ Behind(x, n)
  BY Sizes DEF IInv, TypeOK, Coming
<1> HIDE DEF n
<1>2. Len(toBoard) \in Nat /\ Len(toBoard) >= n
  BY <1>1 DEF Behind
<1>3. toBoard # <<>> /\ Head(toBoard) = toBoard[1]
  BY <1>1, <1>2
<1>4. Len(rest) = Len(toBoard) - 1 /\ \A k \in 1 .. Len(rest) : rest[k] = toBoard[k + 1]
  BY ONLY <1>1, <1>3
<1> HIDE DEF rest
<1>5. Head(toBoard) = NextFrame[p + 1]
  BY <1>1, <1>3
<1>6. \A k \in 1 .. (n - 1) : rest[k] = NextFrame[(p + 1) + k]
  <2>1. SUFFICES ASSUME NEW k \in 1 .. (n - 1)
                 PROVE  rest[k] = NextFrame[(p + 1) + k]
    OBVIOUS
  <2>2. k + 1 \in 1 .. n /\ p + (k + 1) = (p + 1) + k /\ k \in 1 .. Len(rest)
    <3>1. n \in Nat \ {0} /\ p \in Nat /\ k \in 1 .. (n - 1) /\ Len(rest) = Len(toBoard) - 1
      BY <1>1, <1>4
    <3>2. QED
      BY ONLY <1>2, <3>1
  <2>3. QED
    BY <1>1, <1>4, <2>2
<1>7. Behind(x, n - 1)'
  <2>1. toBoard' = rest /\ Got' = Got
    BY FrameStays DEF rest
  <2>2. CASE Len(toBoard) = n
    BY <1>1, <1>4, <2>1, <2>2 DEF Behind
  <2>3. CASE /\ x = 1 /\ Got = 0
             /\ Len(toBoard) >= n + 2 /\ toBoard[n + 1] = SOH /\ toBoard[n + 2] = 1
    <3>1. /\ n \in 1 .. Len(rest) /\ n + 1 \in 1 .. Len(rest)
          /\ (n + 1) + 1 = n + 2 /\ (n - 1) + 1 = n /\ (n - 1) + 2 = n + 1
          /\ Len(rest) >= (n - 1) + 2
      BY ONLY <1>1, <1>2, <1>4, <2>3
    <3>2. rest[n] = SOH /\ rest[n + 1] = 1
      BY <1>4, <2>3, <3>1
    <3>3. QED
      BY <2>1, <2>3, <3>1, <3>2 DEF Behind
  <2>4. QED
    BY <1>1, <2>2, <2>3 DEF Behind
<1>8. toBoard' = rest
  BY DEF rest
<1>9. Coming(x, p + 1)'
  BY <1>1, <1>6, <1>7, <1>8, FrameStays DEF Coming
<1>10. QED
  BY <1>5, <1>9

\* A frame under way stays so when nothing, or block 1 once more, is sent behind it.
LEMMA SentBehind ==
    ASSUME IInv, NEW x \in {0, 1}, NEW p \in 0 .. (BlockLen + 4), Coming(x, p),
           NEW s \in Seq(0 .. 255), toBoard' = toBoard \o s, UNCHANGED <<len, file>>,
           x = 1 /\ Got = 0 /\ Len(s) >= 2 /\ s[1] = SOH /\ s[2] = 1
    PROVE  Coming(x, p)'
<1> DEFINE n == BlockLen + 5 - p
           q == toBoard
           all == q \o s
<1>1. /\ q \in Seq(0 .. 255) /\ n \in Nat \ {0} /\ Behind(x, n)
      /\ \A k \in 1 .. n : q[k] = NextFrame[p + k]
  BY Sizes DEF IInv, TypeOK, Coming
<1> HIDE DEF n
<1>2. Len(q) \in Nat /\ Len(q) >= n /\ Len(s) \in Nat
  BY <1>1 DEF Behind
<1>3. /\ Len(all) = Len(q) + Len(s)
      /\ \A k \in 1 .. Len(q) : all[k] = q[k]
      /\ \A k \in 1 .. Len(s) : all[Len(q) + k] = s[k]
  BY ONLY <1>1, s \in Seq(0 .. 255), Concatenation
<1> HIDE DEF all
<1>4. \A k \in 1 .. n : all[k] = NextFrame[p + k]
  BY <1>1, <1>2, <1>3
<1>5. Len(all) >= n + 2 /\ all[n + 1] = SOH /\ all[n + 2] = 1
  <2>1. CASE Len(q) = n
    BY <1>1, <1>2, <1>3, <2>1
  <2>2. CASE Len(q) >= n + 2 /\ q[n + 1] = SOH /\ q[n + 2] = 1
    <3>1. /\ n + 1 \in 1 .. Len(q) /\ n + 2 \in 1 .. Len(q)
          /\ Len(q) + Len(s) >= n + 2
      BY ONLY <1>1, <1>2, <2>2
    <3>2. QED
      BY <1>3, <2>2, <3>1
  <2>3. QED
    BY <1>1, <2>1, <2>2 DEF Behind
<1>6. toBoard' = all
  BY DEF all
<1>7. Behind(x, n)'
  BY <1>5, <1>6, FrameStays DEF Behind
<1>8. QED
  BY <1>4, <1>6, <1>7, FrameStays DEF Coming, n

\* Block 1 begins with SOH and 1.
LEMMA FirstFrame ==
    ASSUME IInv, 0 < Len(file)
    PROVE  /\ Frame(1) \in Seq(0 .. 255) /\ Len(Frame(1)) >= 2
           /\ Frame(1)[1] = SOH /\ Frame(1)[2] = 1
<1>1. TypeOK /\ 1 \in 1 .. Len(file) /\ BlockLen \in Nat
  <2>1. TypeOK /\ Len(file) \in Nat /\ BlockLen \in Nat
    BY Places DEF IInv
  <2>2. QED
    BY ONLY <2>1, 0 < Len(file)
<1>2. 1 % PidMod = 1
  <2>1. PidMod \in Nat \ {0} /\ 1 \in 0 .. (PidMod - 1)
    BY Sizes
  <2>2. QED
    BY <2>1, SmallMod
<1>3. /\ Frame(1) \in Seq(0 .. 255) /\ Len(Frame(1)) = BlockLen + 5
      /\ Frame(1)[1] = SOH /\ Frame(1)[2] = 1 % PidMod
  BY <1>1, FrameAt, FrameBytes
<1>4. QED
  BY <1>1, <1>2, <1>3

\* A sender that is asked for the beginning again.
LEMMA AgainFirst ==
    ASSUME IInv, block = 0, spc \in {"block", "eot"}, Again
    PROVE  /\ block' = 0
           /\ \/ spc' = "gone" /\ toBoard' = toBoard
              \/ /\ 0 < Len(file) /\ spc' = "block" /\ toBoard' = toBoard \o Frame(1)
              \/ /\ Len(file) = 0 /\ spc' = "eot" /\ toBoard' = Append(toBoard, EOT)
<1>1. CASE tries < Retries
  BY <1>1, Places DEF Again, Send
<1>2. CASE ~(tries < Retries)
  BY <1>2 DEF Again
<1>3. QED
  BY <1>1, <1>2

\* What is sent to a receiver that has nothing to read.
LEMMA SendClean ==
    ASSUME IInv, NEW x \in {0, 1}, toBoard = <<>>, Got <= Len(file), Send(Got),
           UNCHANGED <<len, file>>
    PROVE  /\ block' = Got
           /\ \/ Got < Len(file) /\ spc' = "block" /\ Coming(x, 0)'
              \/ Got = Len(file) /\ spc' = "eot" /\ toBoard' = <<EOT>>
<1>1. CASE Got < Len(file)
  <2>1. spc' = "block" /\ block' = Got /\ toBoard' = toBoard \o NextFrame
    BY <1>1 DEF Send, NextFrame
  <2>2. NextFrame \in Seq(0 .. 255) /\ Len(NextFrame) = BlockLen + 5
    BY <1>1, NextFrameAt
  <2>3. toBoard' = NextFrame
    BY ONLY <2>1, <2>2, toBoard = <<>>
  <2>4. BlockLen \in Nat
    BY Sizes
  <2>5. /\ BlockLen + 5 = BlockLen + 5 - 0
        /\ \A k \in 1 .. (BlockLen + 5 - 0) : NextFrame[k] = NextFrame[0 + k]
    BY ONLY <2>4
  <2>6. Coming(x, 0)'
    BY <2>2, <2>3, <2>5, FrameStays DEF Coming, Behind
  <2>7. QED
    BY <1>1, <2>1, <2>6
<1>2. CASE Got = Len(file)
  <2>1. spc' = "eot" /\ block' = Got /\ toBoard' = Append(toBoard, EOT)
    BY <1>2, Places DEF Send
  <2>2. toBoard' = <<EOT>>
    BY ONLY <2>1, toBoard = <<>>
  <2>3. QED
    BY <1>2, <2>1, <2>2
<1>3. QED
  BY <1>1, <1>2, Places


\* A frame that is on its way is not empty.
LEMMA ComingLeft ==
    ASSUME IInv, NEW x \in {0, 1}, NEW p \in 0 .. (BlockLen + 4), Coming(x, p)
    PROVE  toBoard # <<>>
<1> DEFINE n == BlockLen + 5 - p
<1>1. Behind(x, n) /\ n \in Nat \ {0}
  BY Sizes DEF Coming
<1> HIDE DEF n
<1>2. Len(toBoard) # 0
  BY <1>1 DEF Behind
<1>3. Len(<<>>) = 0
  OBVIOUS
<1>4. QED
  BY <1>2, <1>3

\* Where in a frame the receiver is.
LEMMA ReceivingAt ==
    ASSUME IInv, NEW x \in {0, 1}, Receiving(x)
    PROVE  \E p \in 0 .. (BlockLen + 4) :
              /\ Coming(x, p)
              /\ pc \in {"wait", "soh"} => p = 0
              /\ pc = "pid" => p = 1
              /\ pc = "npid" => p = 2
              /\ pc = "data" => p = i + 3
<1>1. /\ 0 \in 0 .. (BlockLen + 4) /\ 1 \in 0 .. (BlockLen + 4) /\ 2 \in 0 .. (BlockLen + 4)
      /\ pc = "data" => i + 3 \in 0 .. (BlockLen + 4)
  BY Sizes DEF IInv, TypeOK
<1>2. CASE pc \in {"wait", "soh"} /\ Coming(x, 0)
  BY <1>1, <1>2
<1>3. CASE pc = "pid" /\ Coming(x, 1)
  BY <1>1, <1>3
<1>4. CASE pc = "npid" /\ Coming(x, 2)
  BY <1>1, <1>4
<1>5. CASE pc = "data" /\ Coming(x, i + 3)
  BY <1>1, <1>5
<1>6. QED
  BY <1>2, <1>3, <1>4, <1>5 DEF Receiving

LEMMA ReceivingLeft ==
    ASSUME IInv, NEW x \in {0, 1}, Receiving(x) PROVE toBoard # <<>>
BY ReceivingAt, ComingLeft

\* Fresh holds from the beginning, whatever the line does.
LEMMA FreshAlways == Spec => []Fresh
<1>1. Init => Fresh
  BY DEF Init, Fresh
<1>2. Fresh /\ [Next]_vars => Fresh'
  <2> SUFFICES ASSUME Fresh, [Next]_vars PROVE Fresh'
    OBVIOUS
  <2>1. CASE Read
    BY <2>1 DEF Fresh, Read, ReadSoh, ReadPid, ReadNpid, ReadData, Return
  <2>2. CASE Flush
    BY <2>2 DEF Fresh, Flush
  <2>3. CASE UNCHANGED receiver
    BY <2>3 DEF Fresh, receiver
  <2>4. QED
    BY <2>1, <2>2, <2>3 DEF Next, Invite, Afterwards, Answer, Timeout, Spoil, vars
<1>3. QED
  BY <1>1, <1>2, PTL DEF Spec

LEMMA InitClean ==
    ASSUME Typed = {<<>>}, NEW x \in {0, 1} PROVE Init => Clean(x)
<1> SUFFICES ASSUME Init PROVE Stored /\ Conversation(x)
  BY DEF Clean
<1>1. IInv
  BY InitInv
<1>2. len = 0 /\ pid = 1 /\ toBoard = <<>> /\ fromBoard = <<>> /\ pc = "flush" /\ spc = "idle"
  BY DEF Init
<1>3. Got = 0
  <2>1. 0 * BlockLen = 0 /\ (0 * BlockLen) \div BlockLen = 0
    BY MultipleDiv, Sizes
  <2>2. QED
    BY <1>2, <2>1 DEF Got
<1>4. (0 + 1) % PidMod = 1
  <2>1. PidMod \in Nat \ {0} /\ 1 \in 0 .. (PidMod - 1)
    BY Sizes
  <2>2. QED
    BY <2>1, SmallMod
<1>5. Stored
  <2>1. Got <= Len(file)
    BY <1>1, <1>3, Places
  <2>2. \A k \in 0 .. (len - 1) : FALSE
    BY <1>2
  <2>3. QED
    BY <1>2, <1>3, <1>4, <2>1, <2>2 DEF Stored
<1>6. Inviting
  BY <1>2 DEF Inviting, Invitations
<1>7. QED
  BY <1>5, <1>6 DEF Conversation

\* One more invitation.
LEMMA InvitationMore ==
    ASSUME NEW q \in Seq({ACK, C}), Invitations(q)
    PROVE  Invitations(Append(q, C)) /\ Append(q, C)[Len(q) + 1] = C
           /\ Len(q) + 1 \in DOMAIN Append(q, C)
BY DEF Invitations

LEMMA FlushClean ==
    ASSUME IInv, Stored, NEW x \in {0, 1}, Conversation(x), Flush
    PROVE  Stored' /\ Conversation(x)'
<1>1. pc = "flush" /\ UNCHANGED <<mem, len, pid, file, spc>>
  BY DEF Flush, sender
<1>2. Inviting
  BY <1>1 DEF Conversation, Receiving, Accepted, Doomed, Ending, Over
<1>3. pc' = "wait" /\ fromBoard' = Append(fromBoard, C) /\ toBoard' = toBoard
      /\ fromBoard = <<>>
  BY <1>1, <1>2 DEF Inviting, Flush, Say
<1>4. Invitations(fromBoard')
  <2>1. fromBoard \in Seq({ACK, C})
    BY DEF IInv, TypeOK
  <2>2. QED
    BY <1>2, <1>3, <2>1, InvitationMore DEF Inviting
<1>5. Inviting'
  BY <1>1, <1>2, <1>3, <1>4 DEF Inviting, Invitations
<1>6. QED
  BY <1>1, <1>5, StoredStays DEF Conversation

LEMMA InviteClean ==
    ASSUME IInv, Fresh, Stored, NEW x \in {0, 1}, Conversation(x), Undisturbed(x)', Invite
    PROVE  Stored' /\ Conversation(x)'
<1>1. /\ pc = "wait" /\ fromBoard' = Append(fromBoard, C) /\ toBoard' = toBoard
      /\ UNCHANGED <<mem, i, len, pid, pid1, file, spc, block, pc>>
  BY DEF Invite, Say, sender, receiver
<1>2. Stored' /\ Got' = Got /\ NextFrame' = NextFrame
  BY <1>1, StoredStays, FrameStays
<1>3. Got = 0
  <2>1. 0 * BlockLen = 0 /\ (0 * BlockLen) \div BlockLen = 0
    BY MultipleDiv, Sizes
  <2>2. QED
    BY <1>1, <2>1 DEF Got, Fresh
<1>4. fromBoard \in Seq({ACK, C})
  BY DEF IInv, TypeOK
<1>5. CASE Inviting
  <2>1. Invitations(fromBoard')
    BY <1>1, <1>4, <1>5, InvitationMore DEF Inviting
  <2>2. Inviting'
    BY <1>1, <1>5, <2>1 DEF Inviting, Invitations
  <2>3. QED
    BY <1>2, <2>2 DEF Conversation
\* An invitation to a sender that has begun crosses what it has sent.
<1>6. ASSUME NEW place \in {"block", "eot"}, Waiting(x, place)
      PROVE  Waiting(x, place)'
  <2>1. Invitations(fromBoard)
    BY <1>6 DEF Waiting, Invitations
  <2>2. /\ Invitations(fromBoard') /\ fromBoard'[Len(fromBoard) + 1] = C
        /\ Len(fromBoard) + 1 \in DOMAIN fromBoard'
    BY <1>1, <1>4, <2>1, InvitationMore
  <2>3. spc' # "idle"
    BY <1>1, <1>6 DEF Waiting
  <2>4. Crossing'
    BY <2>2, <2>3 DEF Crossing
  <2>5. x = 1
    BY <2>4 DEF Undisturbed
  <2>6. spc' \in {place, "gone"} /\ block' = Got'
    BY <1>1, <1>2, <1>6 DEF Waiting
  <2>7. QED
    BY <1>2, <1>3, <2>2, <2>5, <2>6 DEF Waiting, Invitations
<1>7. CASE Receiving(x)
  <2>1. Waiting(x, "block")'
    BY <1>6, <1>7 DEF Receiving
  <2>2. Coming(x, 0)'
    BY <1>1, <1>2, <1>7 DEF Receiving, Coming, Behind
  <2>3. Receiving(x)'
    BY <1>1, <1>2, <1>7, <2>1, <2>2 DEF Receiving
  <2>4. QED
    BY <1>2, <2>3 DEF Conversation
<1>8. CASE Ending(x)
  <2>1. Waiting(x, "eot")'
    BY <1>6, <1>8 DEF Ending
  <2>2. Ending(x)'
    BY <1>1, <1>2, <1>8, <2>1 DEF Ending
  <2>3. QED
    BY <1>2, <2>2 DEF Conversation
<1>9. QED
  BY <1>1, <1>5, <1>7, <1>8 DEF Conversation, Accepted, Doomed, Over

\* The bytes of a frame.
LEMMA TakesByte ==
    ASSUME IInv, Stored, NEW x \in {0, 1}, Receiving(x), Read
    PROVE  /\ toBoard' = Tail(toBoard) /\ UNCHANGED <<file, spc, block>>
           /\ pc \in {"wait", "soh", "pid", "npid", "data"}
           /\ Got < Len(file) /\ block = Got /\ spc \in {"block", "gone"}
           /\ 0 \in 0 .. (BlockLen + 4) /\ 1 \in 0 .. (BlockLen + 4) /\ 2 \in 0 .. (BlockLen + 4)
BY Sizes DEF Read, Receiving, Waiting, sender

\* The sender waits on.
LEMMA WaitsOn ==
    ASSUME IInv, NEW x \in {0, 1}, NEW place, Waiting(x, place),
           UNCHANGED <<len, file, spc, block, fromBoard>>
    PROVE  Waiting(x, place)'
BY FrameStays DEF Waiting, Invitations

LEMMA SohClean ==
    ASSUME IInv, Stored, NEW x \in {0, 1}, Receiving(x), Read, ReadSoh(Head(toBoard))
    PROVE  Stored' /\ Conversation(x)'
<1>1. pc \in {"wait", "soh"} /\ UNCHANGED <<mem, len, pid>>
  BY DEF ReadSoh
<1>2. Coming(x, 0)
  BY <1>1 DEF Receiving
<1>3. Head(toBoard) = NextFrame[0 + 1] /\ Coming(x, 0 + 1)'
  BY <1>1, <1>2, Took, TakesByte
<1>4. Head(toBoard) = SOH /\ Coming(x, 1)'
  BY <1>3, NextFrameAt, TakesByte
<1>5. pc' = "pid" /\ fromBoard' = fromBoard
  BY <1>4 DEF ReadSoh
<1>6. Waiting(x, "block")'
  BY <1>1, <1>5, WaitsOn, TakesByte DEF Receiving
<1>7. Receiving(x)'
  BY <1>1, <1>4, <1>5, <1>6, FrameStays, TakesByte DEF Receiving
<1>8. QED
  BY <1>1, <1>7, StoredStays, TakesByte DEF Conversation

LEMMA PidClean ==
    ASSUME IInv, Stored, NEW x \in {0, 1}, Receiving(x), Read, ReadPid(Head(toBoard))
    PROVE  Stored' /\ Conversation(x)'
<1>1. /\ pc = "pid" /\ pc' = "npid" /\ pid1' = Head(toBoard)
      /\ UNCHANGED <<mem, len, pid, fromBoard>>
  BY DEF ReadPid
<1>2. Coming(x, 1)
  BY <1>1 DEF Receiving
<1>3. Head(toBoard) = NextFrame[1 + 1] /\ Coming(x, 1 + 1)'
  BY <1>1, <1>2, Took, TakesByte
<1>4. Head(toBoard) = (Got + 1) % PidMod /\ Coming(x, 2)'
  BY <1>3, NextFrameAt, TakesByte
<1>5. Waiting(x, "block")'
  BY <1>1, WaitsOn, TakesByte DEF Receiving
<1>6. Receiving(x)'
  BY <1>1, <1>4, <1>5, FrameStays, TakesByte DEF Receiving
<1>7. QED
  BY <1>1, <1>6, StoredStays, TakesByte DEF Conversation

LEMMA NpidClean ==
    ASSUME IInv, Stored, NEW x \in {0, 1}, Receiving(x), Read, ReadNpid(Head(toBoard))
    PROVE  Stored' /\ Conversation(x)'
<1> DEFINE m == (Got + 1) % PidMod
<1>1. pc = "npid" /\ UNCHANGED <<mem, len, pid, pid1, fromBoard>>
  BY DEF ReadNpid
<1>2. Coming(x, 2) /\ pid1 = m /\ pid = m
  BY <1>1 DEF Receiving, Stored
<1>3. Head(toBoard) = NextFrame[2 + 1] /\ Coming(x, 2 + 1)'
  BY <1>1, <1>2, Took, TakesByte
<1>4. Head(toBoard) = PidMod - 1 - m /\ Coming(x, 3)'
  BY <1>3, NextFrameAt, TakesByte
<1>5. m \in Nat /\ PidMod \in Nat \ {0}
  <2>1. Got + 1 \in Nat /\ PidMod \in Nat \ {0}
    BY Sizes, Places
  <2>2. QED
    BY ONLY <2>1, DivMod
<1> HIDE DEF m
<1>6. pid1 = PidMod - 1 - Head(toBoard)
  BY ONLY <1>2, <1>4, <1>5
<1>7. Stored'
  BY <1>1, StoredStays, TakesByte
<1>8. CASE len + BlockLen <= MaxLen
  <2>1. pc' = "data" /\ i' = 0
    BY <1>2, <1>6, <1>8 DEF ReadNpid, Acceptable
  <2>2. \A k \in 0 .. (i' - 1) : FALSE
    BY ONLY <2>1
  <2>3. i' + 3 = 3
    BY ONLY <2>1
  <2>4. Coming(x, i + 3)'
    BY <1>4, <2>3 DEF Coming, Behind
  <2>5. Waiting(x, "block")'
    BY <1>1, WaitsOn, TakesByte DEF Receiving
  <2>6. Receiving(x)'
    BY <1>1, <2>1, <2>2, <2>4, <2>5, FrameStays, TakesByte DEF Receiving
  <2>7. QED
    BY <1>7, <2>6 DEF Conversation
<1>9. CASE ~(len + BlockLen <= MaxLen)
  <2>1. pc' = "done" /\ result' = 0
    BY <1>9 DEF ReadNpid, Acceptable, Return
  <2>2. len + BlockLen > MaxLen
    BY <1>9, Places
  <2>3. Over(x)'
    BY <1>1, <2>1, <2>2, FrameStays, TakesByte DEF Over
  <2>4. QED
    BY <1>7, <2>3 DEF Conversation
<1>10. QED
  BY <1>8, <1>9


\* The byte that belongs where the next block's k-th is stored.
LEMMA NextBytes ==
    ASSUME IInv, NEW k \in 0 .. (BlockLen - 1)
    PROVE  Byte(len + k) = file[Got + 1][k + 1]
<1>1. Got \in Nat /\ len = Got * BlockLen /\ BlockLen \in Nat \ {0}
  BY Places
<1>2. (Got * BlockLen + k) \div BlockLen = Got /\ (Got * BlockLen + k) % BlockLen = k
  BY ONLY <1>1, k \in 0 .. (BlockLen - 1), AboveMultiple
<1> DEFINE x == len + k
<1>3. x = Got * BlockLen + k
  BY <1>1
<1> HIDE DEF x
<1>4. x \div BlockLen = Got /\ x % BlockLen = k
  BY ONLY <1>2, <1>3
<1>5. Byte(x) = file[Got + 1][k + 1]
  BY ONLY <1>4 DEF Byte
<1>6. QED
  BY <1>5 DEF x

LEMMA DataClean ==
    ASSUME IInv, Stored, NEW x \in {0, 1}, Receiving(x), Read, ReadData(Head(toBoard))
    PROVE  Stored' /\ Conversation(x)'
<1> DEFINE c == Head(toBoard)
<1>1. pc = "data" /\ mem' = [mem EXCEPT ![len + i] = c]
  BY DEF ReadData
<1>2. Coming(x, i + 3) /\ \A k \in 0 .. (i - 1) : mem[len + k] = NextFrame[k + 4]
  BY <1>1 DEF Receiving
<1>3. /\ len \in Nat /\ i \in 0 .. (BlockLen + 1) /\ BlockLen \in Nat \ {0}
      /\ mem \in [Cells -> 0 .. 255]
      /\ \A k \in 0 .. (BlockLen + 1) : len + k \in Cells
      /\ \A k \in 0 .. (len - 1) : k \in Cells
  BY <1>1, Sizes DEF IInv, TypeOK, Buffer, Cells
<1>4. /\ \A k \in 0 .. (len - 1) : mem'[k] = mem[k]
      /\ mem'[len + i] = c
      /\ \A k \in 0 .. (i - 1) : mem'[len + k] = mem[len + k]
  BY <1>1, <1>3
<1>5. CASE i < BlockLen + 1
  <2>1. i' = i + 1 /\ UNCHANGED <<pc, pid, len, result, fromBoard>>
    BY <1>5 DEF ReadData
  <2>2. /\ i + 3 \in 0 .. (BlockLen + 4) /\ (i + 3) + 1 = i + 4 /\ i' + 3 = (i + 3) + 1
        /\ 0 .. (i' - 1) = (0 .. (i - 1)) \cup {i}
    BY ONLY <1>3, <1>5, <2>1
  <2>3. PICK p \in 0 .. (BlockLen + 4) : p = i + 3
    BY ONLY <2>2
  <2>4. c = NextFrame[i + 4] /\ Coming(x, i + 3)'
    <3>1. c = NextFrame[p + 1] /\ Coming(x, p + 1)'
      BY <1>2, <2>1, <2>3, Took, TakesByte
    <3>2. p + 1 = i + 4 /\ p + 1 = i' + 3
      BY ONLY <2>2, <2>3
    <3>3. QED
      BY <3>1, <3>2 DEF Coming, Behind
  <2>5. \A k \in 0 .. (i' - 1) : mem'[len + k] = NextFrame[k + 4]
    BY <1>2, <1>4, <2>2, <2>4
  <2>6. Waiting(x, "block")'
    BY <2>1, WaitsOn, TakesByte DEF Receiving
  <2>7. Receiving(x)'
    BY <1>1, <2>1, <2>4, <2>5, <2>6, FrameStays, TakesByte DEF Receiving
  <2>8. QED
    BY <1>4, <2>1, <2>7, StoredStays, TakesByte DEF Conversation
<1>6. CASE ~(i < BlockLen + 1)
  <2>1. i = BlockLen + 1
    BY ONLY <1>3, <1>6
  \* The last byte that is taken completes the frame and leaves nothing, or block 1.
  <2>2. /\ c = NextFrame[BlockLen + 5]
        /\ \/ toBoard' = <<>>
           \/ /\ x = 1 /\ Got = 0
              /\ Len(toBoard') >= 2 /\ toBoard'[1] = SOH /\ toBoard'[2] = 1
    <3>1. /\ BlockLen + 5 - (i + 3) = 1 /\ (i + 3) + 1 = BlockLen + 5
          /\ 1 \in 1 .. 1 /\ 1 + 1 = 2 /\ 1 + 2 = 3
      BY ONLY <1>3, <2>1
    <3>2. toBoard[1] = NextFrame[BlockLen + 5] /\ Behind(x, 1)
      BY <1>2, <3>1 DEF Coming
    <3>3. toBoard \in Seq(0 .. 255) /\ toBoard' = Tail(toBoard)
      BY TakesByte DEF IInv, TypeOK
    <3>4. toBoard # <<>>
      BY ReceivingLeft
    <3> DEFINE rest == Tail(toBoard)
    <3>5. /\ Head(toBoard) = toBoard[1]
          /\ rest \in Seq(0 .. 255) /\ Len(rest) = Len(toBoard) - 1
          /\ \A k \in 1 .. Len(rest) : rest[k] = toBoard[k + 1]
      BY ONLY <3>3, <3>4
    <3> HIDE DEF rest
    <3>6. CASE Len(toBoard) = 1
      <4>1. rest = <<>>
        BY ONLY <3>5, <3>6
      <4>2. QED
        BY <3>2, <3>3, <3>5, <4>1 DEF rest
    <3>7. CASE /\ x = 1 /\ Got = 0
               /\ Len(toBoard) >= 3 /\ toBoard[2] = SOH /\ toBoard[3] = 1
      <4>1. Len(rest) >= 2 /\ 1 \in 1 .. Len(rest) /\ 2 \in 1 .. Len(rest)
        BY ONLY <3>3, <3>5, <3>7
      <4>2. rest[1] = SOH /\ rest[2] = 1
        BY <3>5, <3>7, <4>1
      <4>3. QED
        BY <3>2, <3>3, <3>5, <3>7, <4>1, <4>2 DEF rest
    <3>8. QED
      BY <3>1, <3>2, <3>6, <3>7 DEF Behind
  <2>3. \A k \in 0 .. (BlockLen + 1) : mem'[len + k] = NextFrame[k + 4]
    <3>1. (BlockLen + 1) + 4 = BlockLen + 5 /\ 0 .. (BlockLen + 1) = (0 .. (i - 1)) \cup {i}
      BY ONLY <1>3, <2>1
    <3>2. QED
      BY <1>2, <1>4, <2>1, <2>2, <3>1
  <2>4. \A k \in 0 .. (BlockLen - 1) : mem'[len + k] = file[Got + 1][k + 1]
    <3>1. \A k \in 0 .. (BlockLen - 1) :
             k \in 0 .. (BlockLen + 1) /\ k + 1 \in 1 .. BlockLen /\ (k + 1) + 3 = k + 4
      BY ONLY <1>3
    <3>2. \A k \in 1 .. BlockLen : NextFrame[k + 3] = file[Got + 1][k]
      BY NextFrameAt, TakesByte
    <3>3. QED
      BY ONLY <2>3, <3>1, <3>2
  <2>5. CrcMatches(mem')
    <3>1. [k \in 1 .. BlockLen |-> mem'[len + k - 1]] = file[Got + 1]
      <4>1. \A k \in 1 .. BlockLen :
               k - 1 \in 0 .. (BlockLen - 1) /\ len + (k - 1) = len + k - 1 /\ (k - 1) + 1 = k
        BY ONLY <1>3
      <4>2. \A k \in 1 .. BlockLen : mem'[len + k - 1] = file[Got + 1][k]
        BY ONLY <2>4, <4>1
      <4>3. file[Got + 1] = [k \in 1 .. BlockLen |-> file[Got + 1][k]]
        BY NextFrameAt, TakesByte
      <4>4. QED
        BY <4>2, <4>3
    <3>2. mem'[len + BlockLen] = NextFrame[BlockLen + 4]
          /\ mem'[len + BlockLen + 1] = NextFrame[BlockLen + 5]
      <4>1. /\ BlockLen \in 0 .. (BlockLen + 1) /\ BlockLen + 1 \in 0 .. (BlockLen + 1)
            /\ len + (BlockLen + 1) = len + BlockLen + 1 /\ (BlockLen + 1) + 4 = BlockLen + 5
        BY ONLY <1>3
      <4>2. QED
        BY ONLY <2>3, <4>1
    <3>3. NextFrame[BlockLen + 4] * 256 + NextFrame[BlockLen + 5] = Crc(file[Got + 1])
      BY NextFrameAt, TakesByte
    <3>4. QED
      BY ONLY <3>1, <3>2, <3>3 DEF CrcMatches
  <2>6. /\ pc' = "soh" /\ pid' = (pid + 1) % PidMod /\ len' = len + BlockLen
        /\ fromBoard' = Append(fromBoard, ACK)
    BY <1>6, <2>5 DEF ReadData, NextPid, Say
  <2>7. Got' = Got + 1 /\ Got + 1 <= Len(file)
    <3>1. (len + BlockLen) \div BlockLen = (len \div BlockLen) + 1
      BY NextBlock, <1>3 DEF IInv, Buffer
    <3>2. Got' = Got + 1
      BY <2>6, <3>1 DEF Got
    <3>3. QED
      BY <3>2, TakesByte, Places
  <2>8. pid' = (Got' + 1) % PidMod
    <3> DEFINE n == Got + 1
    <3>1. n \in Nat /\ PidMod \in Nat \ {0} /\ pid = n % PidMod
      BY Places, Sizes DEF Stored
    <3>2. ((n % PidMod) + 1) % PidMod = (n + 1) % PidMod
      BY ONLY <3>1, CounterWraps
    <3>3. QED
      BY <2>6, <2>7, <3>1, <3>2
  <2>9. \A k \in 0 .. (len' - 1) : mem'[k] = Byte(k)'
    <3>1. \A k : Byte(k)' = Byte(k)
      BY TakesByte DEF Byte
    <3>2. SUFFICES ASSUME NEW k \in 0 .. (len' - 1) PROVE mem'[k] = Byte(k)
      BY <3>1
    <3>3. CASE k < len
      <4>1. k \in 0 .. (len - 1)
        BY ONLY <1>3, <2>6, <3>3, k \in 0 .. (len' - 1)
      <4>2. QED
        BY <1>4, <4>1 DEF Stored
    <3>4. CASE ~(k < len)
      <4> DEFINE j == k - len
      <4>1. j \in 0 .. (BlockLen - 1) /\ len + j = k
        BY ONLY <1>3, <2>6, <3>4, k \in 0 .. (len' - 1)
      <4> HIDE DEF j
      <4>2. mem'[len + j] = file[Got + 1][j + 1]
        BY ONLY <2>4, <4>1
      <4>3. Byte(len + j) = file[Got + 1][j + 1]
        BY <4>1, NextBytes
      <4>4. QED
        BY ONLY <4>1, <4>2, <4>3
    <3>5. QED
      BY <3>3, <3>4
  <2>10. Stored'
    BY <2>7, <2>8, <2>9, TakesByte DEF Stored
  <2>11. fromBoard \in Seq({ACK, C}) /\ block + 1 = Got'
    BY <2>7, TakesByte DEF IInv, TypeOK
  <2>12. Stored' /\ UNCHANGED <<spc, block>>
    BY <2>10, TakesByte
  <2>13. CASE toBoard' = <<>> /\ spc = "block"
    <3> DEFINE q == Append(fromBoard, ACK)
    <3>1. /\ Len(q) = Len(fromBoard) + 1 /\ Len(fromBoard) \in Nat
          /\ q[Len(q)] = ACK
          /\ \A k \in 1 .. (Len(q) - 1) : q[k] = fromBoard[k]
      BY ONLY <2>11
    <3> HIDE DEF q
    <3>2. CASE fromBoard = <<>>
      <4>1. Len(q) = 1 /\ \A k \in 1 .. (Len(q) - 1) : FALSE
        BY ONLY <3>1, <3>2
      <4>2. Accepted(x)'
        BY <2>6, <2>11, <2>12, <2>13, <3>1, <4>1 DEF Accepted, q
      <4>3. QED
        BY <2>12, <4>2 DEF Conversation
    <3>3. CASE fromBoard # <<>>
      <4>1. x = 1 /\ Got = 0 /\ Invitations(fromBoard)
        BY <3>3 DEF Receiving, Waiting
      <4>2. Len(q) > 1
        BY ONLY <2>11, <3>1, <3>3
      <4>3. \A k \in 1 .. (Len(q) - 1) : q[k] = C
        BY <3>1, <4>1 DEF Invitations
      <4>4. Got' = 1
        BY <2>7, <4>1
      <4>5. Accepted(x)'
        BY <2>6, <2>11, <2>12, <2>13, <3>1, <4>1, <4>2, <4>3, <4>4 DEF Accepted, q
      <4>6. QED
        BY <2>12, <4>5 DEF Conversation
    <3>4. QED
      BY <3>2, <3>3
  <2>14. CASE toBoard' = <<>> /\ spc # "block"
    <3>1. x = 1 /\ Got = 0 /\ spc = "gone"
      BY <2>14 DEF Receiving, Waiting
    <3>2. Got' = 1
      BY <2>7, <3>1
    <3>3. Doomed(x)'
      BY <2>6, <2>12, <2>14, <3>1, <3>2 DEF Doomed
    <3>4. QED
      BY <2>12, <3>3 DEF Conversation
  <2>15. CASE toBoard' # <<>>
    <3>1. /\ x = 1 /\ Got = 0
          /\ Len(toBoard') >= 2 /\ toBoard'[1] = SOH /\ toBoard'[2] = 1
      BY <2>2, <2>15
    <3>2. Got' = 1
      BY <2>7, <3>1
    <3>3. Doomed(x)'
      BY <2>6, <3>1, <3>2 DEF Doomed
    <3>4. QED
      BY <2>12, <3>3 DEF Conversation
  <2>16. QED
    BY <2>13, <2>14, <2>15
<1>7. QED
  BY <1>5, <1>6

\* What is taken from what has a beginning.
LEMMA TailAt ==
    ASSUME NEW q \in Seq(0 .. 255), Len(q) >= 1
    PROVE  /\ q # <<>> /\ Head(q) = q[1] /\ Len(Tail(q)) = Len(q) - 1
           /\ Len(q) >= 2 => Tail(q)[1] = q[2]
<1>1. Len(q) \in Nat \ {0} /\ q # <<>>
  OBVIOUS
<1>2. QED
  BY <1>1

\* Block 1 is refused when it comes again: its number is not the next one.
LEMMA DoomedClean ==
    ASSUME IInv, Stored, NEW x \in {0, 1}, Doomed(x), Read
    PROVE  Stored' /\ Conversation(x)'
<1>1. /\ toBoard \in Seq(0 .. 255) /\ toBoard # <<>> /\ toBoard' = Tail(toBoard)
      /\ UNCHANGED <<file, spc, block>> /\ x = 1 /\ Got = 1
  BY DEF IInv, TypeOK, Read, Doomed, sender
<1>2. CASE pc = "soh" /\ Len(toBoard) >= 2 /\ toBoard[1] = SOH /\ toBoard[2] = 1
  <2>1. Head(toBoard) = SOH /\ Len(toBoard') >= 1 /\ toBoard'[1] = 1
    BY <1>1, <1>2, TailAt
  <2>2. ReadSoh(Head(toBoard))
    BY <1>2 DEF Read, ReadPid, ReadNpid, ReadData
  <2>3. pc' = "pid" /\ UNCHANGED <<mem, len, pid>>
    BY <2>1, <2>2 DEF ReadSoh
  <2>4. Doomed(x)'
    BY <1>1, <2>1, <2>3, FrameStays DEF Doomed
  <2>5. QED
    BY <1>1, <2>3, <2>4, StoredStays DEF Conversation
<1>3. CASE pc = "pid" /\ Len(toBoard) >= 1 /\ toBoard[1] = 1
  <2>1. Head(toBoard) = 1
    BY <1>1, <1>3, TailAt
  <2>2. ReadPid(Head(toBoard))
    BY <1>3 DEF Read, ReadSoh, ReadNpid, ReadData
  <2>3. pc' = "npid" /\ pid1' = 1 /\ UNCHANGED <<mem, len, pid>>
    BY <2>1, <2>2 DEF ReadPid
  <2>4. Doomed(x)'
    BY <1>1, <2>3, FrameStays DEF Doomed
  <2>5. QED
    BY <1>1, <2>3, <2>4, StoredStays DEF Conversation
<1>4. CASE pc = "npid" /\ pid1 = 1
  <2>1. pid # 1
    <3>1. pid = 2 % PidMod /\ PidMod \in 2 .. 256
      BY <1>1, Sizes DEF Stored
    <3>2. CASE PidMod = 2
      <4>1. 2 % 2 = 0
        OBVIOUS
      <4>2. QED
        BY ONLY <3>1, <3>2, <4>1
    <3>3. CASE PidMod # 2
      <4>1. 2 \in 0 .. (PidMod - 1) /\ PidMod \in Nat \ {0}
        BY ONLY <3>1, <3>3
      <4>2. 2 % PidMod = 2
        BY ONLY <4>1, SmallMod
      <4>3. QED
        BY ONLY <3>1, <4>2
    <3>4. QED
      BY <3>2, <3>3
  <2>2. ReadNpid(Head(toBoard))
    BY <1>4 DEF Read, ReadSoh, ReadPid, ReadData
  <2>3. pc' = "done" /\ result' = 0 /\ UNCHANGED <<mem, len, pid>>
    BY <1>4, <2>1, <2>2 DEF ReadNpid, Acceptable, Return
  <2>4. Over(x)'
    BY <1>1, <2>3, FrameStays DEF Over
  <2>5. QED
    BY <1>1, <2>3, <2>4, StoredStays DEF Conversation
<1>5. QED
  BY <1>1, <1>2, <1>3, <1>4 DEF Doomed

\* The end of the file.
LEMMA EotClean ==
    ASSUME IInv, Stored, NEW x \in {0, 1}, Ending(x), Read
    PROVE  Stored' /\ Conversation(x)'
<1>1. /\ toBoard \in Seq(0 .. 255) /\ Len(toBoard) >= 1 /\ toBoard[1] = EOT
      /\ UNCHANGED <<file, spc>> /\ pc \in {"wait", "soh"} /\ Got = Len(file)
  BY DEF IInv, TypeOK, Ending, Read, sender
<1>2. Head(toBoard) = EOT /\ EOT # SOH
  BY <1>1, TailAt DEF EOT, SOH
<1>3. ReadSoh(Head(toBoard))
  BY <1>1 DEF Read, ReadPid, ReadNpid, ReadData
<1>4. pc' = "done" /\ result' = len /\ UNCHANGED <<mem, len, pid>>
  BY <1>2, <1>3 DEF ReadSoh, Return
<1>5. Over(x)'
  BY <1>1, <1>4, FrameStays DEF Over
<1>6. QED
  BY <1>1, <1>4, <1>5, StoredStays DEF Conversation

LEMMA ReadClean ==
    ASSUME IInv, Stored, NEW x \in {0, 1}, Conversation(x), Read
    PROVE  Stored' /\ Conversation(x)'
<1>1. /\ toBoard # <<>> /\ pc # "done"
      /\ \/ ReadSoh(Head(toBoard)) \/ ReadPid(Head(toBoard))
         \/ ReadNpid(Head(toBoard)) \/ ReadData(Head(toBoard))
  BY DEF Read, ReadSoh, ReadPid, ReadNpid, ReadData
<1>2. Receiving(x) \/ Ending(x) \/ Doomed(x)
  BY <1>1 DEF Conversation, Inviting, Accepted, Over
<1>3. CASE Receiving(x)
  BY <1>1, <1>3, SohClean, PidClean, NpidClean, DataClean
<1>4. QED
  BY <1>2, <1>3, EotClean, DoomedClean

\* What has been decided stays.
LEMMA OverStays ==
    ASSUME NEW x \in {0, 1}, Over(x), UNCHANGED <<pc, result, len, file>>
    PROVE  Over(x)'
BY FrameStays DEF Over

LEMMA AfterwardsClean ==
    ASSUME IInv, Stored, NEW x \in {0, 1}, Conversation(x), Afterwards
    PROVE  Stored' /\ Conversation(x)'
<1>1. pc = "done" /\ UNCHANGED <<mem, len, pid, file, pc, result>>
  BY DEF Afterwards, receiver, sender
<1>2. Over(x)
  BY <1>1 DEF Conversation, Inviting, Receiving, Accepted, Doomed, Ending
<1>3. QED
  BY <1>1, <1>2, OverStays, StoredStays DEF Conversation

\* The sender only adds to what is under way.
LEMMA OnlyAdds ==
    ASSUME IInv, Answer \/ Timeout
    PROVE  \E s \in Seq(0 .. 255) : toBoard' = toBoard \o s
<1>1. TypeOK /\ toBoard \in Seq(0 .. 255) /\ block \in 0 .. Len(file) /\ Len(file) \in Nat
  BY FileSize DEF IInv, TypeOK
<1>2. ASSUME NEW n \in 0 .. Len(file), Send(n)
      PROVE  \E s \in Seq(0 .. 255) : toBoard' = toBoard \o s
  <2>1. CASE n < Len(file)
    <3>1. n + 1 \in 1 .. Len(file)
      BY <1>1, <2>1
    <3>2. Frame(n + 1) \in Seq(0 .. 255) /\ toBoard' = toBoard \o Frame(n + 1)
      BY <1>1, <1>2, <2>1, <3>1, FrameBytes DEF Send
    <3>3. QED
      BY <3>2
  <2>2. CASE ~(n < Len(file))
    <3>1. toBoard' = Append(toBoard, EOT) /\ EOT \in 0 .. 255
      BY <1>2, <2>2 DEF Send, EOT
    <3>2. <<EOT>> \in Seq(0 .. 255) /\ Append(toBoard, EOT) = toBoard \o <<EOT>>
      BY ONLY <1>1, <3>1
    <3>3. QED
      BY <3>1, <3>2
  <2>3. QED
    BY <2>1, <2>2
<1>3. ASSUME toBoard' = toBoard
      PROVE  \E s \in Seq(0 .. 255) : toBoard' = toBoard \o s
  <2>1. <<>> \in Seq(0 .. 255) /\ toBoard = toBoard \o <<>>
    BY ONLY <1>1
  <2>2. QED
    BY <1>3, <2>1
<1>4. 0 \in 0 .. Len(file) /\ (spc = "block" => block + 1 \in 0 .. Len(file))
  BY <1>1 DEF IInv, SenderPlace
<1>5. ASSUME Again PROVE \E s \in Seq(0 .. 255) : toBoard' = toBoard \o s
  BY <1>1, <1>2, <1>3, <1>5 DEF Again
<1>6. CASE Answer
  BY <1>2, <1>3, <1>4, <1>5, <1>6 DEF Answer
<1>7. CASE Timeout
  BY <1>3, <1>5, <1>7 DEF Timeout
<1>8. QED
  BY <1>6, <1>7

\* Nothing the sender does saves an upload whose block 1 has come again.
LEMMA DoomedOn ==
    ASSUME IInv, Stored, NEW x \in {0, 1}, Doomed(x), Answer \/ Timeout
    PROVE  Stored' /\ Conversation(x)'
<1>1. UNCHANGED <<mem, len, pid, pid1, file, pc>> /\ x = 1 /\ Got = 1 /\ Got' = 1
  BY FrameStays DEF Answer, Timeout, receiver, Doomed
<1>2. CASE pc = "soh" /\ toBoard = <<>> /\ spc = "gone"
  <2>1. UNCHANGED <<spc, toBoard>>
    BY <1>2 DEF Answer, Timeout, AsksAnew
  <2>2. Doomed(x)'
    BY <1>1, <1>2, <2>1 DEF Doomed
  <2>3. QED
    BY <1>1, <2>2, StoredStays DEF Conversation
<1>3. CASE ~(pc = "soh" /\ toBoard = <<>> /\ spc = "gone")
  <2>1. PICK s \in Seq(0 .. 255) : toBoard' = toBoard \o s
    BY OnlyAdds
  <2>2. toBoard \in Seq(0 .. 255)
    BY DEF IInv, TypeOK
  <2>3. Len(toBoard') >= Len(toBoard) /\ \A k \in 1 .. Len(toBoard) : toBoard'[k] = toBoard[k]
    BY ONLY <2>1, <2>2
  <2>4. /\ Len(toBoard) \in Nat
        /\ Len(toBoard) >= 1 => 1 \in 1 .. Len(toBoard)
        /\ Len(toBoard) >= 2 => 1 \in 1 .. Len(toBoard) /\ 2 \in 1 .. Len(toBoard)
    BY ONLY <2>2
  <2>5. Len(toBoard') \in Nat
    BY ONLY <2>1, <2>2
  <2>6. Doomed(x)'
    BY <1>1, <1>3, <2>3, <2>4, <2>5 DEF Doomed
  <2>7. QED
    BY <1>1, <2>6, StoredStays DEF Conversation
<1>4. QED
  BY <1>2, <1>3

\* The first of several invitations.
LEMMA InvitationLess ==
    ASSUME NEW q \in Seq({ACK, C}), q # <<>>, Invitations(q)
    PROVE  /\ Head(q) = C /\ Invitations(Tail(q))
           /\ Tail(q) = <<>> \/ (1 \in DOMAIN Tail(q) /\ Tail(q)[1] = C)
<1> DEFINE p == Tail(q)
<1>1. /\ Len(q) \in Nat \ {0} /\ Head(q) = q[1] /\ p \in Seq({ACK, C})
      /\ Len(p) = Len(q) - 1 /\ \A k \in 1 .. Len(p) : p[k] = q[k + 1]
  OBVIOUS
<1> HIDE DEF p
<1>2. \A k \in 1 .. Len(p) : p[k] = C
  BY <1>1 DEF Invitations
<1>3. p = <<>> \/ 1 \in 1 .. Len(p)
  BY ONLY <1>1
<1>4. DOMAIN p = 1 .. Len(p)
  BY ONLY <1>1
<1>5. Head(q) = C
  BY <1>1 DEF Invitations
<1>6. QED
  BY <1>2, <1>3, <1>4, <1>5 DEF Invitations, p

\* The sender reads the first invitation and begins.
LEMMA BeginClean ==
    ASSUME IInv, Fresh, Stored, NEW x \in {0, 1}, Inviting, Undisturbed(x)', Answer
    PROVE  Stored' /\ Conversation(x)'
<1>1. /\ fromBoard # <<>> /\ fromBoard' = Tail(fromBoard)
      /\ UNCHANGED <<mem, len, pid, file, pc, result>>
      /\ spc = "idle" /\ toBoard = <<>> /\ pc = "wait" /\ Invitations(fromBoard)
  BY DEF Answer, receiver, Inviting
<1>2. Stored' /\ Got' = Got
  BY <1>1, StoredStays, FrameStays
<1>3. /\ Head(fromBoard) = C /\ Invitations(fromBoard')
      /\ fromBoard' = <<>> \/ (1 \in DOMAIN fromBoard' /\ fromBoard'[1] = C)
  <2>1. fromBoard \in Seq({ACK, C})
    BY DEF IInv, TypeOK
  <2>2. QED
    BY <1>1, <2>1, InvitationLess
<1>4. Send(0)
  BY <1>1, <1>3 DEF Answer, AsksAnew
<1>5. Got = 0 /\ Got <= Len(file)
  <2>1. 0 * BlockLen = 0 /\ (0 * BlockLen) \div BlockLen = 0
    BY MultipleDiv, Sizes
  <2>2. QED
    BY <1>1, <2>1 DEF Got, Fresh, Stored
<1>6. Send(Got)
  BY <1>4, <1>5
<1>7. /\ block' = Got
      /\ \/ Got < Len(file) /\ spc' = "block" /\ Coming(x, 0)'
         \/ Got = Len(file) /\ spc' = "eot" /\ toBoard' = <<EOT>>
  BY <1>1, <1>5, <1>6, SendClean
\* An invitation that is not read yet crosses what is sent.
<1>8. fromBoard' = <<>> \/ x = 1
  <2>1. fromBoard' # <<>> => Crossing'
    BY <1>3, <1>7 DEF Crossing
  <2>2. QED
    BY <2>1 DEF Undisturbed
<1>9. Waiting(x, spc)'
  BY <1>2, <1>3, <1>5, <1>7, <1>8 DEF Waiting, Invitations
<1>10. Receiving(x)' \/ Ending(x)'
  <2>1. CASE Got < Len(file) /\ spc' = "block" /\ Coming(x, 0)'
    BY <1>1, <1>2, <1>9, <2>1 DEF Receiving, Waiting
  <2>2. CASE Got = Len(file) /\ spc' = "eot" /\ toBoard' = <<EOT>>
    <3>1. Len(toBoard') >= 1 /\ toBoard'[1] = EOT
      BY <2>2
    <3>2. QED
      BY <1>1, <1>2, <1>9, <2>2, <3>1 DEF Ending, Waiting
  <2>3. QED
    BY <1>7, <2>1, <2>2
<1>11. QED
  BY <1>2, <1>10 DEF Conversation

\* An invitation that crosses what has been sent has it sent once more.
LEMMA CrossedClean ==
    ASSUME IInv, Stored, NEW x \in {0, 1}, Receiving(x) \/ Ending(x), Answer
    PROVE  Stored' /\ Conversation(x)'
<1>1. /\ fromBoard # <<>> /\ fromBoard' = Tail(fromBoard)
      /\ UNCHANGED <<mem, i, len, pid, pid1, file, pc, result>>
      /\ toBoard \in Seq(0 .. 255) /\ fromBoard \in Seq({ACK, C})
  BY DEF Answer, receiver, IInv, TypeOK
<1>2. Stored' /\ Got' = Got /\ NextFrame' = NextFrame
  BY <1>1, StoredStays, FrameStays
<1>3. /\ x = 1 /\ Got = 0 /\ block = 0 /\ Invitations(fromBoard)
      /\ spc \in {"block", "eot", "gone"}
  BY <1>1 DEF Receiving, Ending, Waiting
<1>4. Head(fromBoard) = C /\ Invitations(fromBoard') /\ C # ACK
  BY <1>1, <1>3, InvitationLess DEF C, ACK
<1>5. CASE spc = "gone"
  <2>1. UNCHANGED <<spc, block, toBoard>>
    BY <1>5 DEF Answer, AsksAnew
  <2>2. ASSUME NEW place \in {"block", "eot"}, Waiting(x, place) PROVE Waiting(x, place)'
    BY <1>2, <1>3, <1>4, <2>1, <2>2 DEF Waiting, Invitations
  <2>3. CASE Receiving(x)
    <3>1. Waiting(x, "block")'
      BY <2>2, <2>3 DEF Receiving
    <3>2. Receiving(x)'
      BY <1>1, <1>2, <2>1, <2>3, <3>1 DEF Receiving, Coming, Behind
    <3>3. QED
      BY <1>2, <3>2 DEF Conversation
  <2>4. CASE Ending(x)
    <3>1. Waiting(x, "eot")'
      BY <2>2, <2>4 DEF Ending
    <3>2. Ending(x)'
      BY <1>1, <1>2, <2>1, <2>4, <3>1 DEF Ending
    <3>3. QED
      BY <1>2, <3>2 DEF Conversation
  <2>5. QED
    BY <2>3, <2>4
<1>6. CASE spc # "gone"
  <2>1. Again
    BY <1>3, <1>4, <1>6 DEF Answer, AsksAnew
  <2>2. /\ block' = 0
        /\ \/ spc' = "gone" /\ toBoard' = toBoard
           \/ /\ 0 < Len(file) /\ spc' = "block" /\ toBoard' = toBoard \o Frame(1)
           \/ /\ Len(file) = 0 /\ spc' = "eot" /\ toBoard' = Append(toBoard, EOT)
    BY <1>3, <1>6, <2>1, AgainFirst
  <2>3. CASE Receiving(x)
    <3>1. 0 < Len(file)
      BY <1>3, <2>3 DEF Receiving
    <3>2. Waiting(x, "block")'
      BY <1>2, <1>3, <1>4, <2>2, <3>1 DEF Waiting, Invitations
    <3>3. ASSUME NEW p \in 0 .. (BlockLen + 4), Coming(x, p) PROVE Coming(x, p)'
      <4>1. CASE toBoard' = toBoard
        BY <1>2, <3>3, <4>1 DEF Coming, Behind
      <4>2. CASE toBoard' = toBoard \o Frame(1)
        BY <1>1, <1>3, <3>1, <3>3, <4>2, FirstFrame, SentBehind
      <4>3. QED
        BY <2>2, <3>1, <4>1, <4>2
    <3>4. PICK p \in 0 .. (BlockLen + 4) :
             /\ Coming(x, p)
             /\ pc \in {"wait", "soh"} => p = 0
             /\ pc = "pid" => p = 1
             /\ pc = "npid" => p = 2
             /\ pc = "data" => p = i + 3
      BY <2>3, ReceivingAt
    <3>5. Coming(x, p)'
      BY <3>3, <3>4
    <3>6. Receiving(x)'
      BY <1>1, <1>2, <2>3, <3>2, <3>4, <3>5 DEF Receiving
    <3>7. QED
      BY <1>2, <3>6 DEF Conversation
  <2>4. CASE Ending(x)
    <3>1. Len(file) = 0 /\ Len(toBoard) >= 1 /\ toBoard[1] = EOT
      BY <1>3, <2>4 DEF Ending
    <3>2. Waiting(x, "eot")'
      BY <1>2, <1>3, <1>4, <2>2, <3>1 DEF Waiting, Invitations
    <3>3. Len(toBoard') >= 1 /\ toBoard'[1] = EOT
      <4>1. CASE toBoard' = toBoard
        BY <3>1, <4>1
      <4>2. CASE toBoard' = Append(toBoard, EOT)
        BY ONLY <1>1, <3>1, <4>2
      <4>3. QED
        BY <2>2, <3>1, <4>1, <4>2
    <3>4. Ending(x)'
      BY <1>1, <1>2, <2>4, <3>2, <3>3 DEF Ending
    <3>5. QED
      BY <1>2, <3>4 DEF Conversation
  <2>5. QED
    BY <2>3, <2>4
<1>7. QED
  BY <1>5, <1>6

\* The sender reads the acknowledgement, or an invitation that stands before it.
LEMMA AckedClean ==
    ASSUME IInv, Stored, NEW x \in {0, 1}, Accepted(x), Answer
    PROVE  Stored' /\ Conversation(x)'
<1>1. /\ fromBoard # <<>> /\ fromBoard' = Tail(fromBoard)
      /\ UNCHANGED <<mem, len, pid, file, pc, result>>
      /\ fromBoard \in Seq({ACK, C}) /\ ACK # C
      /\ spc = "block" /\ toBoard = <<>> /\ pc = "soh" /\ block + 1 = Got
      /\ block \in 0 .. Len(file)
  BY DEF Answer, receiver, Accepted, IInv, TypeOK, ACK, C
<1>2. Stored' /\ Got' = Got /\ Len(file) \in Nat
  BY <1>1, StoredStays, FrameStays, Places
<1>3. CASE Len(fromBoard) = 1
  <2>1. fromBoard[1] = ACK
    BY <1>3 DEF Accepted
  <2>2. Head(fromBoard) = ACK /\ fromBoard' = <<>>
    BY ONLY <1>1, <1>3, <2>1
  <2>3. Send(block + 1)
    BY <1>1, <2>2 DEF Answer, AsksAnew
  <2>4. Got <= Len(file) /\ Send(Got)
    BY <1>1, <2>3 DEF Stored
  <2>5. /\ block' = Got
        /\ \/ Got < Len(file) /\ spc' = "block" /\ Coming(x, 0)'
           \/ Got = Len(file) /\ spc' = "eot" /\ toBoard' = <<EOT>>
    BY <1>1, <2>4, SendClean
  <2>6. Waiting(x, spc)'
    BY <1>2, <2>2, <2>5 DEF Waiting
  <2>7. Receiving(x)' \/ Ending(x)'
    <3>1. CASE Got < Len(file) /\ spc' = "block" /\ Coming(x, 0)'
      BY <1>1, <1>2, <2>6, <3>1 DEF Receiving, Waiting
    <3>2. CASE Got = Len(file) /\ spc' = "eot" /\ toBoard' = <<EOT>>
      <4>1. Len(toBoard') >= 1 /\ toBoard'[1] = EOT
        BY <3>2
      <4>2. QED
        BY <1>1, <1>2, <2>6, <3>2, <4>1 DEF Ending, Waiting
    <3>3. QED
      BY <2>5, <3>1, <3>2
  <2>8. QED
    BY <1>2, <2>7 DEF Conversation
<1>4. CASE Len(fromBoard) > 1
  <2>1. x = 1 /\ Got = 1 /\ \A k \in 1 .. (Len(fromBoard) - 1) : fromBoard[k] = C
    BY <1>4 DEF Accepted
  <2>2. Head(fromBoard) = C
    <3>1. Head(fromBoard) = fromBoard[1] /\ 1 \in 1 .. (Len(fromBoard) - 1)
      BY ONLY <1>1, <1>4
    <3>2. QED
      BY <2>1, <3>1
  <2>3. block = 0
    BY ONLY <1>1, <1>2, <2>1
  <2>4. Again
    BY <1>1, <2>2, <2>3 DEF Answer, AsksAnew
  <2>5. 0 < Len(file)
    BY <1>1, <2>3 DEF IInv, SenderPlace
  <2>6. (spc' = "gone" /\ toBoard' = toBoard) \/ toBoard' = toBoard \o Frame(1)
    BY <1>1, <2>3, <2>4, <2>5, AgainFirst
  <2>7. /\ Frame(1) \in Seq(0 .. 255) /\ Len(Frame(1)) >= 2
        /\ Frame(1)[1] = SOH /\ Frame(1)[2] = 1
    BY <2>5, FirstFrame
  <2>8. <<>> \o Frame(1) = Frame(1)
    BY ONLY <2>7
  <2>9. Doomed(x)'
    BY <1>1, <1>2, <2>1, <2>6, <2>7, <2>8 DEF Doomed
  <2>10. QED
    BY <1>2, <2>9 DEF Conversation
<1>5. QED
  BY <1>1, <1>3, <1>4 DEF Accepted

LEMMA AnswerClean ==
    ASSUME IInv, Fresh, Stored, NEW x \in {0, 1}, Conversation(x), Undisturbed(x)', Answer
    PROVE  Stored' /\ Conversation(x)'
<1>1. CASE Over(x)
  <2>1. UNCHANGED <<mem, len, pid, file, pc, result>>
    BY DEF Answer, receiver
  <2>2. QED
    BY <1>1, <2>1, OverStays, StoredStays DEF Conversation
<1>2. QED
  BY <1>1, BeginClean, CrossedClean, AckedClean, DoomedOn DEF Conversation

LEMMA TimeoutClean ==
    ASSUME IInv, Stored, NEW x \in {0, 1}, Conversation(x), Timeout
    PROVE  Stored' /\ Conversation(x)'
<1>1. toBoard = <<>> /\ fromBoard = <<>> /\ UNCHANGED <<mem, len, pid, file, pc, result>>
  BY DEF Timeout, receiver
<1>2. Len(toBoard) = 0 /\ Len(fromBoard) = 0
  BY <1>1
<1>3. CASE Over(x)
  BY <1>1, <1>3, OverStays, StoredStays DEF Conversation
<1>4. ~Inviting
  BY DEF Timeout, Inviting
<1>5. ~Receiving(x) /\ ~Accepted(x) /\ ~Ending(x)
  BY <1>1, <1>2, ReceivingLeft DEF Accepted, Ending
<1>6. QED
  BY <1>3, <1>4, <1>5, DoomedOn DEF Conversation

LEMMA StutterClean ==
    ASSUME IInv, Stored, NEW x \in {0, 1}, Conversation(x), UNCHANGED vars
    PROVE  Stored' /\ Conversation(x)'
<1>1. /\ UNCHANGED <<pc, mem, i, pid, pid1, len, result, toBoard, fromBoard>>
      /\ UNCHANGED <<file, spc, block>>
  BY DEF vars, receiver, line, sender
<1>2. Stored' /\ Got' = Got /\ NextFrame' = NextFrame
  BY <1>1, StoredStays, FrameStays
<1>3. Conversation(x)'
  BY <1>1, <1>2
  DEF Conversation, Inviting, Receiving, Waiting, Accepted, Doomed, Ending, Over,
      Coming, Behind, Invitations
<1>4. QED
  BY <1>2, <1>3

\* Only a fault ends it, or an invitation that crosses what it invites to.
LEMMA CleanStep ==
    ASSUME IInv, Fresh, NEW x \in {0, 1}, Clean(x), Undisturbed(x)', [Next]_vars
    PROVE  Clean(x)'
<1> SUFFICES ASSUME faults' = 0 PROVE Stored' /\ Conversation(x)'
  BY DEF Clean
<1>1. ~Spoil
  BY DEF Spoil, IInv, TypeOK
<1>2. faults = 0
  BY <1>1 DEF Next, Flush, Invite, Read, Afterwards, Answer, Timeout, vars, line
<1>3. Stored /\ Conversation(x)
  BY <1>2 DEF Clean
<1>4. QED
  BY <1>1, <1>3, FlushClean, InviteClean, ReadClean, AfterwardsClean, AnswerClean,
     TimeoutClean, StutterClean
  DEF Next

LEMMA CleanAnyway == ASSUME Typed = {<<>>} PROVE Spec => [](IInv /\ Clean(1))
<1>1. IInv /\ Fresh /\ Clean(1) /\ [Next]_vars => Clean(1)'
  <2>1. Undisturbed(1)'
    BY DEF Undisturbed
  <2>2. QED
    BY <2>1, CleanStep
<1>2. Init => Clean(1)
  BY InitClean
<1>3. QED
  BY <1>1, <1>2, Invariance, FreshAlways, PTL DEF Spec

LEMMA CleanUncrossed ==
    ASSUME Typed = {<<>>} PROVE Spec /\ []~Crossing => [](IInv /\ Clean(0))
<1>1. IInv /\ Fresh /\ Clean(0) /\ (~Crossing)' /\ [Next]_vars => Clean(0)'
  <2>1. (~Crossing)' => Undisturbed(0)'
    BY DEF Undisturbed
  <2>2. QED
    BY <2>1, CleanStep
<1>2. Init => Clean(0)
  BY InitClean
<1>3. QED
  BY <1>1, <1>2, Invariance, FreshAlways, PTL DEF Spec

\* What the end of a conversation says of the result.
LEMMA OverSays ==
    ASSUME IInv, NEW x \in {0, 1}, Over(x)
    PROVE  \/ result = Size(file)
           \/ result = 0 /\ (Size(file) > MaxLen \/ (x = 1 /\ len = BlockLen))
<1> DEFINE size == Len(file) * BlockLen
           got == Got * BlockLen
<1>1. /\ Got \in Nat /\ len \in Nat /\ Len(file) \in Nat /\ BlockLen \in Nat \ {0}
      /\ len = got /\ MaxLen \in Nat
  BY Places
<1>2. CASE result = len /\ Got = Len(file)
  BY <1>1, <1>2 DEF Size
<1>3. CASE result = 0 /\ Got < Len(file) /\ len + BlockLen > MaxLen
  <2>1. got + BlockLen <= size
    BY ONLY <1>1, <1>3, MultipleBelow
  <2>2. size \in Nat /\ got \in Nat
    BY ONLY <1>1, NatProduct
  <2>3. Size(file) = size
    BY DEF Size
  <2> HIDE DEF size, got
  <2>4. size > MaxLen
    BY ONLY <1>1, <1>3, <2>1, <2>2
  <2>5. QED
    BY <1>3, <2>3, <2>4
<1>4. CASE result = 0 /\ x = 1 /\ Got = 1
  <2>1. 1 * BlockLen = BlockLen
    BY ONLY <1>1
  <2>2. QED
    BY <1>1, <1>4, <2>1
<1>5. QED
  BY <1>2, <1>3, <1>4 DEF Over

\* As long as the line has lost and changed nothing, and nothing was typed before,
\* what has been accepted is the beginning of the file, however many blocks there
\* are and however often their numbers start again.
THEOREM CleanLineKeepsOrder ==
    ASSUME Typed = {<<>>} PROVE Spec => [](faults = 0 => InOrder)
<1>1. ASSUME IInv, Stored PROVE InOrder
  <2>1. /\ Got \in Nat /\ len \in Nat /\ Len(file) \in Nat /\ BlockLen \in Nat \ {0}
        /\ len = Got * BlockLen /\ Got <= Len(file)
    BY <1>1, Places DEF Stored
  <2>2. len % BlockLen = 0
    BY ONLY <2>1, MultipleMod
  <2>3. len <= Size(file)
    BY ONLY <2>1, MultipleAtMost DEF Size
  <2>4. \A k \in 0 .. (len - 1) : mem[k] = BytesOf(file, Got)[k + 1]
    <3>1. SUFFICES ASSUME NEW k \in 0 .. (len - 1)
                   PROVE  mem[k] = BytesOf(file, Got)[k + 1]
      OBVIOUS
    <3> DEFINE n == Got * BlockLen
               x == k + 1
    <3>2. x \in 1 .. n /\ x - 1 = k
      BY ONLY <2>1, k \in 0 .. (len - 1)
    <3> HIDE DEF n, x
    <3>3. BytesOf(file, Got)[x] = file[((x - 1) \div BlockLen) + 1][((x - 1) % BlockLen) + 1]
      BY ONLY <3>2 DEF BytesOf, n
    <3>4. BytesOf(file, Got)[x] = Byte(k)
      BY ONLY <3>2, <3>3 DEF Byte
    <3>5. mem[k] = Byte(k)
      BY <1>1 DEF Stored
    <3>6. QED
      BY <3>4, <3>5 DEF x
  <2>5. QED
    BY <2>2, <2>3, <2>4 DEF InOrder, Got
<1>2. IInv /\ Clean(1) => (faults = 0 => InOrder)
  BY <1>1 DEF Clean
<1>3. QED
  BY <1>2, CleanAnyway, PTL

\* Such a line has no part of a file taken for the whole: when rxmodem returns, it
\* returns the length of the whole file or refuses it, the latter because the buffer
\* is full or because an invitation crossed block 1, which then came again.
THEOREM CleanLineIsHonest ==
    ASSUME Typed = {<<>>}
    PROVE  Spec => [](faults = 0 /\ pc = "done"
                        => \/ result = Size(file)
                           \/ result = 0 /\ (Size(file) > MaxLen \/ len = BlockLen))
<1>1. ASSUME IInv, Conversation(1), pc = "done"
      PROVE  \/ result = Size(file)
             \/ result = 0 /\ (Size(file) > MaxLen \/ len = BlockLen)
  <2>1. Over(1)
    BY <1>1 DEF Conversation, Inviting, Receiving, Accepted, Doomed, Ending
  <2>2. QED
    BY <1>1, <2>1, OverSays
<1>2. IInv /\ Clean(1) =>
        (faults = 0 /\ pc = "done"
            => \/ result = Size(file)
               \/ result = 0 /\ (Size(file) > MaxLen \/ len = BlockLen))
  BY <1>1 DEF Clean
<1>3. QED
  BY <1>2, CleanAnyway, PTL

\* And where no invitation crosses what it invites to, nothing that fits is refused:
\* when rxmodem returns, it returns the length of the whole file.
THEOREM CleanLineDelivers ==
    ASSUME Typed = {<<>>}
    PROVE  Spec /\ []~Crossing => [](faults = 0 /\ pc = "done" /\ Size(file) <= MaxLen
                                       => result = Size(file))
<1>1. ASSUME IInv, Conversation(0), pc = "done", Size(file) <= MaxLen
      PROVE  result = Size(file)
  <2>1. Over(0)
    BY <1>1 DEF Conversation, Inviting, Receiving, Accepted, Doomed, Ending
  <2>2. Size(file) \in Nat /\ MaxLen \in Nat
    <3>1. Len(file) \in Nat /\ BlockLen \in Nat /\ MaxLen \in Nat
      BY <1>1, Places
    <3>2. QED
      BY ONLY <3>1, NatProduct DEF Size
  <2>3. ~(Size(file) > MaxLen)
    BY ONLY <1>1, <2>2
  <2>4. QED
    BY <1>1, <2>1, <2>3, OverSays
<1>2. IInv /\ Clean(0) => (faults = 0 /\ pc = "done" /\ Size(file) <= MaxLen
                             => result = Size(file))
  BY <1>1 DEF Clean
<1>3. QED
  BY <1>2, CleanUncrossed, PTL
=============================================================================
