----------------------------- MODULE SpiProofs ------------------------------
(***************************************************************************)
(* The lower half of the driver, for every device it knows, every request  *)
(* it can be given, and every point at which a transfer may be cut off.    *)
(*                                                                         *)
(* First the addresses: every address of every device arrives (TLC follows *)
(* a few of them).  Then the transfers.                                    *)
(***************************************************************************)
EXTENDS Spi, Division, SequenceTheorems

KnownCodes == {12, 28, 44, 52, 60, 16}

\* The shift of d is a product with F.
ShiftsBy(d, F) == \A x \in Nat : ShiftLeft(x, d.page_offset) = x * F

\* The table agrees with the data sheets: the geometry, a shift that moves the page
\* number just past the offset, 5-byte commands where an address has 4 bytes, and a
\* mask that keeps every bit of an offset.
TableFits(c) ==
    LET d == Device(c)
        g == Datasheet[c]
    IN  /\ d.pages_number = g.pages /\ d.pages_size = g.size
        /\ ShiftsBy(d, Field(g))
        /\ CommandSize(d) = 1 + AddressBytes(g)
        /\ d.byte_mask + 256 = Field(g)
        /\ g.size <= Field(g)
        /\ Field(g) \in {512, 1024, 2048} /\ g.size \in {264, 528, 1056}
        /\ g.pages \in Nat
        /\ Large(d) <=> AddressBytes(g) = 4
        /\ ~Large(d) => g.pages * Field(g) <= 16777216
        /\ Large(d) => g.pages * Field(g) <= 268435456

LEMMA TableRight == \A c \in KnownCodes : TableFits(c)
<1> SUFFICES ASSUME NEW c \in KnownCodes PROVE TableFits(c)
  OBVIOUS
<1>1. CASE c = 12
  BY <1>1, SMT DEF TableFits, ShiftsBy, Device, Entry, Datasheet, ShiftLeft, CommandSize,
                            Large, Field, AddressBytes
<1>2. CASE c = 28
  BY <1>2, SMT DEF TableFits, ShiftsBy, Device, Entry, Datasheet, ShiftLeft, CommandSize,
                            Large, Field, AddressBytes
<1>3. CASE c = 44
  BY <1>3, SMT DEF TableFits, ShiftsBy, Device, Entry, Datasheet, ShiftLeft, CommandSize,
                            Large, Field, AddressBytes
<1>4. CASE c = 52
  BY <1>4, SMT DEF TableFits, ShiftsBy, Device, Entry, Datasheet, ShiftLeft, CommandSize,
                            Large, Field, AddressBytes
<1>5. CASE c = 60
  BY <1>5, SMT DEF TableFits, ShiftsBy, Device, Entry, Datasheet, ShiftLeft, CommandSize,
                            Large, Field, AddressBytes
<1>6. CASE c = 16
  BY <1>6, SMT DEF TableFits, ShiftsBy, Device, Entry, Datasheet, ShiftLeft, CommandSize,
                            Large, Field, AddressBytes
<1> QED
  BY <1>1, <1>2, <1>3, <1>4, <1>5, <1>6, SMT DEF KnownCodes

\* Taking a number apart into bytes and putting them together again.
LEMMA ThreeBytes ==
    ASSUME NEW x \in Nat, x < 16777216
    PROVE  ((x \div 65536) % 256) * 65536 + ((x \div 256) % 256) * 256 + (x % 256) = x
<1>1. (x \div 65536) % 256 = x \div 65536
  BY SMT
<1>2. (x \div 256) % 256 = (x \div 256) - 256 * (x \div 65536)
  BY SMT
<1> QED
  BY <1>1, <1>2, SMT

LEMMA FourBytes ==
    ASSUME NEW x \in Nat, x < 268435456
    PROVE  ((x \div 16777216) % 16) * 16777216 + ((x \div 65536) % 256) * 65536
           + ((x \div 256) % 256) * 256 + (x % 256) = x
<1>1. (x \div 16777216) % 16 = x \div 16777216
  BY SMT
<1>2. (x \div 65536) % 256 = (x \div 65536) - 256 * (x \div 16777216)
  BY SMT
<1>3. (x \div 256) % 256 = (x \div 256) - 256 * (x \div 65536)
  BY SMT
<1> QED
  BY <1>1, <1>2, <1>3, SMT

\* A page number and an offset in one number come apart again.
LEMMA Fields ==
    ASSUME NEW F \in {512, 1024, 2048}, NEW p \in Nat, NEW o \in Nat, o < F
    PROVE  (p * F + o) \div F = p /\ (p * F + o) % F = o
<1>1. CASE F = 512
  BY <1>1, SMT
<1>2. CASE F = 1024
  BY <1>2, SMT
<1>3. CASE F = 2048
  BY <1>3, SMT
<1> QED
  BY <1>1, <1>2, <1>3, SMT

\* The same for an address and a page size of the table.
LEMMA Pages ==
    ASSUME NEW s \in {264, 528, 1056}, NEW n \in Nat, NEW a \in Nat, a < n * s
    PROVE  /\ a \div s \in Nat /\ a \div s < n
           /\ a % s \in Nat /\ a % s < s
           /\ a = (a \div s) * s + (a % s)
<1>1. CASE s = 264
  BY <1>1, SMT
<1>2. CASE s = 528
  BY <1>2, SMT
<1>3. CASE s = 1056
  BY <1>3, SMT
<1> QED
  BY <1>1, <1>2, <1>3, SMT

\* A page number and an offset in one number stay below the number of all.
LEMMA FieldBound ==
    ASSUME NEW F \in {512, 1024, 2048}, NEW n \in Nat, NEW p \in Nat, NEW o \in Nat,
           p < n, o < F
    PROVE  p * F + o \in Nat /\ p * F + o < n * F
<1>1. CASE F = 512
  BY <1>1, SMT
<1>2. CASE F = 1024
  BY <1>2, SMT
<1>3. CASE F = 2048
  BY <1>3, SMT
<1> QED
  BY <1>1, <1>2, <1>3, SMT

\* What the driver puts on the wire is the chip's bit field, and fits the bytes sent.
WireFits(d, F, s, n, a) ==
    /\ Wire(d, a) \in Nat
    /\ Wire(d, a) < n * F
    /\ Wire(d, a) \div F = a \div s
    /\ Wire(d, a) % F = a % s
    /\ a \div s \in Nat /\ a \div s < n

\* What the table and the request must be for that.
WireMade(d, F, s, n, a) ==
    /\ F \in {512, 1024, 2048} /\ s \in {264, 528, 1056} /\ s <= F
    /\ n \in Nat /\ a \in Nat /\ a < n * s
    /\ d.pages_size = s /\ ShiftsBy(d, F)

LEMMA WireIsField ==
    ASSUME NEW d, NEW F, NEW s, NEW n, NEW a, WireMade(d, F, s, n, a)
    PROVE  WireFits(d, F, s, n, a)
<1> DEFINE p == a \div s
           o == a % s
<1> USE DEF WireMade
<1>1. p \in Nat /\ p < n /\ o \in Nat /\ o < s
  BY Pages, SMT
<1>2. Wire(d, a) = p * F + o
  BY <1>1, SMT DEF Wire, ShiftsBy
<1> HIDE DEF p, o
<1>3. o < F
  BY <1>1, SMT
<1>4. p * F + o \in Nat /\ p * F + o < n * F
  BY <1>1, <1>3, FieldBound, SMT
<1>5. (p * F + o) \div F = p /\ (p * F + o) % F = o
  BY <1>1, <1>3, Fields, SMT
<1>6. Wire(d, a) \in Nat /\ Wire(d, a) < n * F /\ Wire(d, a) \div F = p /\ Wire(d, a) % F = o
  BY <1>2, <1>4, <1>5, SMT
<1> QED
  BY <1>1, <1>6, SMT DEF p, o, WireFits

\* The bytes of command[] put together again are the number they were made from.
LEMMA BytesArrive ==
    ASSUME NEW d, NEW g, NEW opcode \in Byte, NEW a,
           Wire(d, a) \in Nat,
           Large(d) <=> AddressBytes(g) = 4,
           ~Large(d) => Wire(d, a) < 16777216,
           Large(d) => Wire(d, a) < 268435456
    PROVE  AddressIn(g, Command(d, opcode, a)) = Wire(d, a)
<1> DEFINE w == Wire(d, a)
           f == Command(d, opcode, a)
<1>1. ASSUME ~Large(d) PROVE AddressIn(g, f) = w
  <2>1. AddressBytes(g) = 3
    BY <1>1, SMT DEF AddressBytes
  <2>2. f[2] = (w \div 65536) % 256 /\ f[3] = (w \div 256) % 256 /\ f[4] = w % 256
    BY <1>1, SMT DEF Command
  <2> HIDE DEF w
  <2>3. ((w \div 65536) % 256) * 65536 + ((w \div 256) % 256) * 256 + (w % 256) = w
    BY <1>1, ThreeBytes, SMT DEF w
  <2> HIDE DEF f
  <2> QED
    BY <2>1, <2>2, <2>3, SMT DEF AddressIn
<1>2. ASSUME Large(d) PROVE AddressIn(g, f) = w
  <2>1. AddressBytes(g) = 4
    BY <1>2, SMT
  <2>2. /\ f[2] = (w \div 16777216) % 16 /\ f[3] = (w \div 65536) % 256
        /\ f[4] = (w \div 256) % 256 /\ f[5] = w % 256
    BY <1>2, SMT DEF Command
  <2> HIDE DEF w
  <2>3. ((w \div 16777216) % 16) * 16777216 + ((w \div 65536) % 256) * 65536
           + ((w \div 256) % 256) * 256 + (w % 256) = w
    BY <1>2, FourBytes, SMT DEF w
  <2> HIDE DEF f
  <2> QED
    BY <2>1, <2>2, <2>3, SMT DEF AddressIn
<1> QED
  BY <1>1, <1>2, SMT

\* AT91F_DataFlashSendCommand: whatever the address, on every device of the table, the
\* chip that gets the bytes of command[] takes them for the page and the offset that
\* the address lies at.
THEOREM AddressArrives ==
    \A c \in KnownCodes, opcode \in Byte, a \in Nat :
        a < Datasheet[c].pages * Datasheet[c].size =>
            LET g == Datasheet[c]
                f == Command(Device(c), opcode, a)
            IN  PageIn(g, f) = a \div g.size /\ OffsetIn(g, f) = a % g.size
<1> SUFFICES ASSUME NEW c \in KnownCodes, NEW opcode \in Byte, NEW a \in Nat,
                    a < Datasheet[c].pages * Datasheet[c].size
             PROVE  LET g == Datasheet[c]
                        f == Command(Device(c), opcode, a)
                    IN  PageIn(g, f) = a \div g.size /\ OffsetIn(g, f) = a % g.size
  BY SMT
<1> DEFINE d == Device(c)
           g == Datasheet[c]
           f == Command(d, opcode, a)
<1>1. /\ d.pages_size = g.size /\ g.size <= Field(g)
      /\ ShiftsBy(d, Field(g))
      /\ Field(g) \in {512, 1024, 2048} /\ g.size \in {264, 528, 1056}
      /\ g.pages \in Nat
      /\ Large(d) <=> AddressBytes(g) = 4
      /\ ~Large(d) => g.pages * Field(g) <= 16777216
      /\ Large(d) => g.pages * Field(g) <= 268435456
  BY TableRight, SMT DEF TableFits
<1>2. a < g.pages * g.size
  OBVIOUS
<1> HIDE DEF d, g
<1>3. /\ Wire(d, a) \in Nat /\ Wire(d, a) < g.pages * Field(g)
      /\ Wire(d, a) \div Field(g) = a \div g.size
      /\ Wire(d, a) % Field(g) = a % g.size
      /\ a \div g.size \in Nat /\ a \div g.size < g.pages
  <2>1. WireMade(d, Field(g), g.size, g.pages, a)
    BY <1>1, <1>2, SMT DEF WireMade
  <2>2. WireFits(d, Field(g), g.size, g.pages, a)
    BY ONLY <2>1, WireIsField, Zenon
  <2> QED
    BY <2>2, SMT DEF WireFits
<1>4. /\ ~Large(d) => Wire(d, a) < 16777216
      /\ Large(d) => Wire(d, a) < 268435456
  <2> DEFINE n == g.pages * Field(g)
             w == Wire(d, a)
  <2>1. n \in Int /\ w \in Nat /\ w < n
    BY <1>1, <1>3, SMT
  <2>2. (~Large(d) => n <= 16777216) /\ (Large(d) => n <= 268435456)
    BY <1>1, SMT
  <2> HIDE DEF n, w
  <2>3. (~Large(d) => w < 16777216) /\ (Large(d) => w < 268435456)
    BY <2>1, <2>2, SMT
  <2> QED
    BY <2>3, SMT DEF w
<1>5. AddressIn(g, f) = Wire(d, a)
  BY <1>1, <1>3, <1>4, BytesArrive, SMT
<1>6. (a \div g.size) % g.pages = a \div g.size
  BY <1>1, <1>3, SMT
<1> HIDE DEF f
<1>7. PageIn(g, f) = a \div g.size /\ OffsetIn(g, f) = a % g.size
  BY <1>3, <1>5, <1>6, SMT DEF PageIn, OffsetIn
<1> QED
  BY <1>7, SMT DEF f, d, g

\* The bytes of a buffer command put together again are the offset.
LEMMA OffsetIsField ==
    ASSUME NEW c \in KnownCodes, NEW opcode \in Byte, NEW o \in Nat,
           NEW old \in [1 .. 8 -> Byte], o < Datasheet[c].size
    PROVE  /\ AddressIn(Datasheet[c], BufferCommand(Device(c), opcode, o, old)) = o
           /\ o < Field(Datasheet[c]) /\ o % Field(Datasheet[c]) = o
           /\ o \div Field(Datasheet[c]) = 0
<1> DEFINE d == Device(c)
           g == Datasheet[c]
           F == Field(g)
           f == BufferCommand(d, opcode, o, old)
           b1 == ((o % F) \div 256) % 256
           b0 == o % 256
<1>1. /\ F \in {512, 1024, 2048} /\ o < F /\ d.byte_mask + 256 = F
      /\ Large(d) <=> AddressBytes(g) = 4
  BY TableRight, SMT DEF TableFits
<1> HIDE DEF d, g, F
<1>2. AddressIn(g, f) = b1 * 256 + b0
  <2>1. AddressBytes(g) \in {3, 4}
    BY SMT DEF AddressBytes
  <2>2. ASSUME ~Large(d) PROVE AddressIn(g, f) = b1 * 256 + b0
    <3>1. f[2] = 0 /\ f[3] = b1 /\ f[4] = b0
      BY <1>1, <2>2, SMT DEF BufferCommand
    <3>2. AddressBytes(g) = 3
      BY <1>1, <2>1, <2>2, SMT
    <3>3. b1 \in Int /\ b0 \in Int
      BY <1>1, SMT
    <3> HIDE DEF f, b1, b0
    <3> QED
      BY <3>1, <3>2, <3>3, SMT DEF AddressIn
  <2>3. ASSUME Large(d) PROVE AddressIn(g, f) = b1 * 256 + b0
    <3>1. f[2] = 0 /\ f[3] = 0 /\ f[4] = b1 /\ f[5] = b0
      BY <1>1, <2>3, SMT DEF BufferCommand
    <3>2. AddressBytes(g) = 4
      BY <1>1, <2>3, SMT
    <3>3. b1 \in Int /\ b0 \in Int
      BY <1>1, SMT
    <3> HIDE DEF f, b1, b0
    <3> QED
      BY <3>1, <3>2, <3>3, SMT DEF AddressIn
  <2> QED
    BY <2>2, <2>3, SMT
<1>3. b1 * 256 + b0 = o /\ o % F = o /\ o \div F = 0
  BY <1>1, SMT
<1> HIDE DEF f, b1, b0
<1>4. AddressIn(g, f) = o
  BY <1>2, <1>3, SMT
<1> QED
  BY <1>1, <1>3, <1>4, SMT DEF f, d, F, g

\* AT91F_DataFlashWriteBuffer: every offset in a page arrives in the chip's buffer
\* where it is meant, although the command carries no more than the low bits of it.
THEOREM OffsetArrives ==
    \A c \in KnownCodes, opcode \in Byte, o \in Nat, old \in [1 .. 8 -> Byte] :
        o < Datasheet[c].size =>
            OffsetIn(Datasheet[c], BufferCommand(Device(c), opcode, o, old)) = o
<1> SUFFICES ASSUME NEW c \in KnownCodes, NEW opcode \in Byte, NEW o \in Nat,
                    NEW old \in [1 .. 8 -> Byte],
                    o < Datasheet[c].size
             PROVE  OffsetIn(Datasheet[c], BufferCommand(Device(c), opcode, o, old)) = o
  BY SMT
<1>1. /\ AddressIn(Datasheet[c], BufferCommand(Device(c), opcode, o, old)) = o
      /\ o % Field(Datasheet[c]) = o
  BY OffsetIsField
<1> QED
  BY <1>1 DEF OffsetIn

-----------------------------------------------------------------------------
(* Transfers. *)

Areas == {"command", "scratch", "compr"}
Slots == [area : Areas, at : Nat, cnt : Nat]

Known == code \in KnownCodes /\ device = Device(code)
Probing == todo = <<Probe>>
Asking == Current.do \in {"probe", "wait"}

\* The command of a transfer, how many bytes of it are sent, what it means.
Opcode ==
    CASE Current.do = "load"    -> DB_LOAD
      [] Current.do = "erase"   -> DB_ERASE
      [] Current.do = "program" -> DB_ERASE_PGM
      [] Current.do = "read"    -> DB_READ
      [] Current.do = "buffer"  -> DB_BUF1_WRITE
Sent ==
    IF Asking THEN StatusCommand
    ELSE IF Current.do = "buffer"
         THEN BufferCommand(device, DB_BUF1_WRITE, Current.addr % device.pages_size,
                            StatusCommand)
         ELSE Command(device, Opcode, Current.addr)
SentSize ==
    IF Asking THEN 2 ELSE IF Current.do = "read" THEN 8 ELSE CommandSize(device)
Meant ==
    IF Asking THEN NoCommand
    ELSE IF Current.do = "buffer" THEN [Want(DB_BUF1_WRITE) EXCEPT !.page = 0]
    ELSE Want(Opcode)

\* The command is still going out.
CommandPhase == now.area = "command" /\ now.cnt > 0

TypeInv ==
    /\ pc \in {"idle", "next", "transfer"} /\ code \in Codes
    /\ DOMAIN ram = Areas /\ DOMAIN ram["command"] = 1 .. 8
    /\ DOMAIN ram["scratch"] = 1 .. RamSize /\ DOMAIN ram["compr"] = 1 .. RamSize
    /\ now \in Slots /\ following \in Slots
    /\ \E S : frame \in Seq(S)

JobInv ==
    /\ job.kind \in {"store", "load"} /\ job.addr \in Nat /\ job.len \in 0 .. RamSize
    /\ pc # "idle" =>
          /\ job.len # 0
          /\ \/ Masked(job.addr) = job.addr
             \/ \A c \in KnownCodes : Masked(job.addr) > Size(Device(c))

\* Steps of a call.
GoodSteps ==
    {s \in [do : {"wait", "load", "buffer", "erase", "program", "read"},
            addr : Nat, at : Nat, len : Nat] :
        /\ s.do # "wait" => s.addr < Chip.pages * Chip.size
        /\ s.do = "read" => s = Step("read", job.addr, 0, job.len)}
\* Every command is followed by a wait, and a read is the end.
Part(s) ==
    /\ s \in Seq(GoodSteps)
    /\ \A i \in 1 .. Len(s) :
          IF s[i].do = "read" THEN i = Len(s)
          ELSE s[i].do # "wait" => i < Len(s) /\ s[i + 1].do = "wait"
Whole(s) == Part(s) /\ s # <<>> /\ s[Len(s)].do = "read"

PlanInv ==
    /\ pc = "idle" => todo = <<>>
    /\ pc = "transfer" => todo # <<>>
    /\ pc # "idle" => Probing \/ (Known /\ (todo = <<>> \/ Whole(todo)))
    /\ result = "ok" => pc = "idle"

\* Where a data phase may be that has been left behind.
LeftInv ==
    /\ following.cnt # 0 => following.area # "command"
    /\ pc = "next" /\ ~Probing => following.cnt = 0
    /\ pc = "transfer" =>
          /\ following.cnt # 0 => CommandPhase
          /\ Current.do \notin {"probe", "buffer", "read"} => following.cnt = 0
          /\ Current.do \notin {"probe", "buffer", "read"} /\ now.cnt > 0 => CommandPhase

\* What the chip has heard is the beginning of what is sent.
FrameInv ==
    /\ pc # "transfer" => frame = <<>>
    /\ pc = "transfer" =>
          /\ asked = Meant
          /\ \A k \in 1 .. Len(frame) : k <= SentSize => frame[k] = Sent[k]
          /\ CommandPhase =>
                /\ now.at >= 1 /\ now.at + now.cnt = SentSize + 1
                /\ \A k \in now.at .. SentSize : ram["command"][k] = Sent[k]
                /\ ~dead => Len(frame) = now.at - 1
          /\ ~CommandPhase /\ ~dead => Len(frame) >= SentSize

\* What the status byte can be.
StatusInv ==
    pc = "transfer" /\ Asking =>
        IF CommandPhase THEN Status = 0
        ELSE /\ Status \in {255, code, code + 128}
             /\ Status = 255 => dead
             /\ Status = code + 128 => dead \/ op = NoCommand

\* What has been read.
ReadSoFar(k) ==
    \/ /\ op = NoCommand
       /\ \A i \in 1 .. k : \/ ram[Area][i] = Cell(job.addr + i - 1)
                            \/ dead /\ ram[Area][i] = Erased
    \/ dead /\ \A i \in 1 .. k : ram[Area][i] = Erased
ReadInv ==
    /\ pc = "next" /\ todo # <<>> /\ Current.do = "read" => ReadSoFar(0)
    /\ pc = "transfer" /\ Current.do = "read" =>
          /\ CommandPhase => ReadSoFar(0) /\ following = [area |-> Area, at |-> 1, cnt |-> job.len]
          /\ ~CommandPhase /\ now.cnt > 0 =>
                /\ now.area = Area /\ now.at >= 1 /\ now.at + now.cnt = job.len + 1
                /\ ~dead => Len(frame) = 8 + now.at - 1
                /\ ReadSoFar(now.at - 1)
          /\ now.cnt = 0 => ReadSoFar(job.len)
    /\ pc = "next" /\ todo = <<>> => ReadSoFar(job.len)
    /\ result = "ok" => ReadSoFar(job.len)

\* The image, until the copy is made, and the copy.
KeepInv ==
    job.kind = "store" /\ ~leftover =>
        /\ pc # "idle" /\ Probing =>
              /\ \A i \in 1 .. job.len : ram["scratch"][i] = job.bytes[i]
              /\ pc = "transfer" => following.cnt = 0 /\ (now.cnt = 0 \/ CommandPhase)
        /\ (pc # "idle" /\ ~Probing) \/ result = "ok" =>
              \A i \in 1 .. job.len : keep[i] = job.bytes[i]
        /\ result = "ok" => \A i \in 1 .. job.len : ram["scratch"][i] = keep[i]

IInv ==
    /\ TypeInv /\ JobInv /\ PlanInv /\ LeftInv
    /\ FrameInv /\ StatusInv /\ ReadInv /\ KeepInv

-----------------------------------------------------------------------------
(* Sequences of steps. *)

LEMMA WaitIsGood == Wait \in GoodSteps
BY DEF Wait, Step, GoodSteps

\* A part of a call that does not read.
WritePart(s) == Part(s) /\ \A i \in 1 .. Len(s) : s[i].do # "read"

LEMMA NoPart == WritePart(<<>>)
<1>1. <<>> \in Seq(GoodSteps) /\ Len(<<>>) = 0
  BY EmptySeq
<1>2. 1 .. 0 = {}
  OBVIOUS
<1>3. QED
  BY <1>1, <1>2 DEF WritePart, Part

LEMMA CommandAndWait ==
    ASSUME NEW s \in GoodSteps, s.do \notin {"wait", "read"}
    PROVE  WritePart(<<s, Wait>>)
<1> DEFINE t == <<s, Wait>>
<1>1. t \in Seq(GoodSteps) /\ Len(t) = 2 /\ t[1] = s /\ t[2] = Wait
  BY WaitIsGood
<1>2. Wait.do = "wait"
  BY DEF Wait, Step
<1> HIDE DEF t
<1>3. \A i \in 1 .. Len(t) : i = 1 \/ i = 2
  BY <1>1
<1>4. QED
  BY <1>1, <1>2, <1>3 DEF WritePart, Part, t

LEMMA Joined ==
    ASSUME NEW s, NEW t, WritePart(s), Part(t)
    PROVE  /\ Part(s \o t)
           /\ Len(s \o t) = Len(s) + Len(t)
           /\ Len(s) \in Nat /\ Len(t) \in Nat
           /\ \A i \in 1 .. Len(s) : (s \o t)[i] = s[i]
           /\ \A i \in 1 .. Len(t) : (s \o t)[Len(s) + i] = t[i]
<1>1. s \in Seq(GoodSteps) /\ t \in Seq(GoodSteps)
  BY DEF WritePart, Part
<1> DEFINE u == s \o t
           m == Len(s)
           n == Len(t)
<1>2. /\ u \in Seq(GoodSteps) /\ Len(u) = m + n /\ m \in Nat /\ n \in Nat
      /\ \A i \in 1 .. (m + n) : u[i] = IF i <= m THEN s[i] ELSE t[i - m]
  BY <1>1, ConcatProperties, LenProperties
<1> HIDE DEF u, m, n
<1>3. \A i \in 1 .. m : u[i] = s[i]
  BY <1>2
<1>4. \A i \in 1 .. n : u[m + i] = t[i]
  <2>1. SUFFICES ASSUME NEW i \in 1 .. n PROVE u[m + i] = t[i]
    OBVIOUS
  <2>2. m + i \in 1 .. (m + n) /\ ~(m + i <= m) /\ (m + i) - m = i
    BY <1>2
  <2>3. u[m + i] = t[(m + i) - m]
    BY <1>2, <2>2
  <2>4. QED
    BY <2>2, <2>3
<1>5. ASSUME NEW i \in 1 .. (m + n)
      PROVE  IF u[i].do = "read" THEN i = m + n
             ELSE u[i].do # "wait" => i < m + n /\ u[i + 1].do = "wait"
  <2>1. CASE i <= m
    <3>1. i \in 1 .. m /\ u[i] = s[i] /\ s[i].do # "read"
      BY <1>2, <1>3, <2>1 DEF WritePart, m
    <3>2. ASSUME s[i].do # "wait" PROVE i < m /\ s[i + 1].do = "wait"
      BY <3>1, <3>2 DEF WritePart, Part, m
    <3>3. ASSUME s[i].do # "wait" PROVE i < m + n /\ u[i + 1].do = "wait"
      <4>1. i < m /\ s[i + 1].do = "wait"
        BY <3>2, <3>3
      <4>2. i + 1 \in 1 .. m
        BY <1>2, <3>1, <4>1
      <4>3. QED
        BY <1>2, <1>3, <4>1, <4>2
    <3>4. QED
      BY <3>1, <3>3
  <2>2. CASE ~(i <= m)
    <3> DEFINE k == i - m
    <3>1. k \in 1 .. n /\ m + k = i /\ k + 1 \in Nat /\ i + 1 = m + (k + 1)
      BY <1>2, <2>2
    <3> HIDE DEF k
    <3>2. u[i] = t[k]
      BY <1>4, <3>1
    <3>3. IF t[k].do = "read" THEN k = n
          ELSE t[k].do # "wait" => k < n /\ t[k + 1].do = "wait"
      BY <3>1 DEF Part, n
    <3>4. k < n => u[i + 1] = t[k + 1]
      <4>1. k < n => k + 1 \in 1 .. n
        BY <1>2, <3>1
      <4>2. QED
        BY <1>4, <3>1, <4>1
    <3>5. (k = n => i = m + n) /\ (k < n => i < m + n)
      BY <1>2, <3>1
    <3>6. QED
      BY <3>2, <3>3, <3>4, <3>5
  <2>3. QED
    BY <2>1, <2>2
<1>6. Part(u)
  BY <1>2, <1>5 DEF Part
<1>7. QED
  BY <1>2, <1>3, <1>4, <1>6 DEF u, m, n

LEMMA WriteJoined ==
    ASSUME NEW s, NEW t, WritePart(s), WritePart(t)
    PROVE  WritePart(s \o t)
<1> DEFINE u == s \o t
           m == Len(s)
           n == Len(t)
<1>1. /\ Part(u) /\ Len(u) = m + n /\ m \in Nat /\ n \in Nat
      /\ \A i \in 1 .. m : u[i] = s[i]
      /\ \A i \in 1 .. n : u[m + i] = t[i]
  BY Joined DEF WritePart
<1>2. /\ \A i \in 1 .. m : s[i].do # "read"
      /\ \A i \in 1 .. n : t[i].do # "read"
  BY DEF WritePart
<1> HIDE DEF u, m, n
<1>3. ASSUME NEW i \in 1 .. (m + n) PROVE u[i].do # "read"
  <2>1. CASE i <= m
    <3>1. i \in 1 .. m
      BY <1>1, <2>1
    <3>2. QED
      BY <1>1, <1>2, <3>1
  <2>2. CASE ~(i <= m)
    <3>1. i - m \in 1 .. n /\ m + (i - m) = i
      BY <1>1, <2>2
    <3>2. QED
      BY <1>1, <1>2, <3>1
  <2>3. QED
    BY <2>1, <2>2
<1>4. QED
  BY <1>1, <1>3 DEF WritePart, u

LEMMA WholeJoined ==
    ASSUME NEW s, NEW t, WritePart(s), Whole(t)
    PROVE  Whole(s \o t)
<1> DEFINE u == s \o t
           m == Len(s)
           n == Len(t)
<1>1. /\ Part(u) /\ Len(u) = m + n /\ m \in Nat /\ n \in Nat
      /\ \A i \in 1 .. n : u[m + i] = t[i]
  BY Joined DEF Whole
<1>2. t \in Seq(GoodSteps) /\ t # <<>> /\ t[n].do = "read" /\ u \in Seq(GoodSteps)
  BY <1>1 DEF Whole, Part
<1>3. n \in 1 .. n
  <2>1. n # 0
    BY <1>2, EmptySeq
  <2>2. QED
    BY <1>1, <2>1
<1> HIDE DEF u, n, m
<1>4. u[m + n].do = "read" /\ m + n # 0
  BY <1>1, <1>2, <1>3
<1>5. u # <<>>
  BY <1>1, <1>4
<1>6. QED
  BY <1>1, <1>4, <1>5 DEF Whole, u


\* What is left of a call after its first step.
LEMMA WholeGoesOn ==
    ASSUME NEW s, Whole(s)
    PROVE  /\ Head(s) \in GoodSteps
           /\ Head(s).do = "read" => Tail(s) = <<>>
           /\ Head(s).do # "read" => Whole(Tail(s))
           /\ Head(s).do \notin {"wait", "read"} => Head(Tail(s)).do = "wait"
<1> DEFINE t == Tail(s)
           n == Len(s)
<1>1. s \in Seq(GoodSteps) /\ s # <<>> /\ s[n].do = "read"
  BY DEF Whole, Part
<1>2. n \in Nat /\ n >= 1
  BY <1>1, EmptySeq, LenProperties
<1>3. /\ Head(s) = s[1] /\ Head(s) \in GoodSteps
      /\ t \in Seq(GoodSteps) /\ Len(t) = n - 1
      /\ \A i \in 1 .. (n - 1) : t[i] = s[i + 1]
  BY <1>1, HeadTailProperties
<1>4. \A i \in 1 .. n : IF s[i].do = "read" THEN i = n
                        ELSE s[i].do # "wait" => i < n /\ s[i + 1].do = "wait"
  BY DEF Whole, Part
<1> HIDE DEF n, t
<1>5. 1 \in 1 .. n
  BY <1>2
<1>6. ASSUME Head(s).do = "read" PROVE t = <<>>
  <2>1. n = 1
    BY <1>3, <1>4, <1>5, <1>6
  <2>2. QED
    BY <1>3, <2>1, EmptySeq
<1>7. ASSUME Head(s).do # "read" PROVE Whole(t)
  <2>1. n # 1
    BY <1>1, <1>3, <1>7
  <2>2. Len(t) >= 1 /\ Len(t) \in Nat
    BY <1>2, <1>3, <2>1
  <2>3. t # <<>> /\ t[Len(t)].do = "read"
    <3>1. Len(t) \in 1 .. (n - 1) /\ Len(t) + 1 = n
      BY <1>2, <1>3, <2>2
    <3>2. QED
      BY <1>1, <1>3, <2>2, <3>1, EmptySeq
  <2>4. ASSUME NEW i \in 1 .. (n - 1)
        PROVE  IF t[i].do = "read" THEN i = n - 1
               ELSE t[i].do # "wait" => i < n - 1 /\ t[i + 1].do = "wait"
    <3>1. i + 1 \in 1 .. n /\ t[i] = s[i + 1]
      BY <1>2, <1>3
    <3>2. IF t[i].do = "read" THEN i + 1 = n
          ELSE t[i].do # "wait" => i + 1 < n /\ s[(i + 1) + 1].do = "wait"
      BY <1>4, <3>1
    <3>3. i + 1 < n => t[i + 1] = s[(i + 1) + 1]
      BY <1>2, <1>3
    <3>4. (i + 1 = n => i = n - 1) /\ (i + 1 < n => i < n - 1)
      BY <1>2
    <3>5. QED
      BY <3>2, <3>3, <3>4
  <2>5. QED
    BY <1>3, <2>3, <2>4 DEF Whole, Part
<1>8. ASSUME Head(s).do \notin {"wait", "read"} PROVE Head(t).do = "wait"
  <2>1. 1 < n /\ s[1 + 1].do = "wait"
    BY <1>3, <1>4, <1>5, <1>8
  <2>2. 1 \in 1 .. (n - 1) /\ Len(t) # 0
    BY <1>2, <1>3, <2>1
  <2>3. t # <<>> /\ t[1] = s[1 + 1]
    BY <1>3, <2>2, EmptySeq
  <2>4. Head(t) = t[1]
    BY <1>3, <2>3
  <2>5. QED
    BY <2>1, <2>3, <2>4
<1>9. QED
  BY <1>3, <1>6, <1>7, <1>8 DEF t

\* The probe is none of the steps of a plan.
LEMMA ProbeIsAlone ==
    /\ Head(<<Probe>>) = Probe /\ <<Probe>> # <<>> /\ Probe.do = "probe"
    /\ ~Whole(<<Probe>>) /\ ~Whole(<<>>)
<1>1. Head(<<Probe>>) = Probe /\ <<Probe>> # <<>> /\ Probe.do = "probe"
  BY DEF Probe, Step
<1>2. \A s \in GoodSteps : s.do # "probe"
  BY DEF GoodSteps
<1>3. QED
  BY <1>1, <1>2, WholeGoesOn DEF Whole


-----------------------------------------------------------------------------
(* The plan of a call. *)

\* The chip and the driver agree about the geometry.
LEMMA Agreed ==
    ASSUME code \in KnownCodes, NEW d, d = Device(code)
    PROVE  /\ Chip.size \in {264, 528, 1056} /\ Chip.pages \in Nat
           /\ d.pages_size = Chip.size /\ d.pages_number = Chip.pages
           /\ Size(d) = Chip.pages * Chip.size
<1>1. /\ Chip.size \in {264, 528, 1056} /\ Chip.pages \in Nat
      /\ d.pages_size = Chip.size /\ d.pages_number = Chip.pages
  BY TableRight DEF TableFits, Chip
<1>2. \A x, y \in Nat : x * y = y * x
  BY SMT
<1>3. QED
  BY <1>1, <1>2 DEF Size

LEMMA PartialIsPart ==
    ASSUME code \in KnownCodes, NEW d, d = Device(code),
           NEW addr \in Nat, NEW at \in Nat, NEW len \in Nat,
           addr < Chip.pages * Chip.size
    PROVE  WritePart(PartialPageWrite(d, addr, at, len))
           /\ Head(PartialPageWrite(d, addr, at, len)).do = "load"
<1> DEFINE page == addr - (addr % d.pages_size)
           load == Step("load", page, 0, 0)
           fill == Step("buffer", addr, at, len)
           erase == Step("erase", page, 0, 0)
           program == Step("program", page, 0, 0)
           tail == IF d.pages_number >= 16384 THEN <<erase, Wait>> ELSE <<>>
<1>1. page \in Nat /\ page <= addr
  <2>1. d.pages_size \in {264, 528, 1056}
    BY Agreed
  <2>2. addr % d.pages_size \in Nat /\ addr % d.pages_size <= addr
    <3>1. CASE d.pages_size = 264
      BY <3>1, SMT
    <3>2. CASE d.pages_size = 528
      BY <3>2, SMT
    <3>3. CASE d.pages_size = 1056
      BY <3>3, SMT
    <3>4. QED
      BY <2>1, <3>1, <3>2, <3>3
  <2>3. QED
    BY <2>2
<1>2. Chip.pages * Chip.size \in Int
  BY Agreed
<1> HIDE DEF page
<1>3. page < Chip.pages * Chip.size
  BY <1>1, <1>2
<1>4. /\ load \in GoodSteps /\ load.do = "load"
      /\ fill \in GoodSteps /\ fill.do = "buffer"
      /\ erase \in GoodSteps /\ erase.do = "erase"
      /\ program \in GoodSteps /\ program.do = "program"
  BY <1>1, <1>3 DEF GoodSteps, Step
<1> HIDE DEF load, fill, erase, program
<1>5. /\ WritePart(<<load, Wait>>) /\ WritePart(<<fill, Wait>>)
      /\ WritePart(<<erase, Wait>>) /\ WritePart(<<program, Wait>>)
  BY <1>4, CommandAndWait
<1>6. WritePart(tail)
  BY <1>5, NoPart
<1> HIDE DEF tail
<1>7. <<load, Wait, fill, Wait>> = <<load, Wait>> \o <<fill, Wait>>
  OBVIOUS
<1>8. WritePart(<<load, Wait, fill, Wait>>)
  BY <1>5, <1>7, WriteJoined
<1> DEFINE front == <<load, Wait, fill, Wait>>
           call == (front \o tail) \o <<program, Wait>>
<1>9. front \in Seq(GoodSteps) /\ Len(front) = 4 /\ front[1] = load
  BY <1>4, WaitIsGood
<1> HIDE DEF front
<1>10. WritePart(front \o tail) /\ WritePart(call)
  BY <1>5, <1>6, <1>8, WriteJoined DEF front
<1>11. call[1] = load /\ call \in Seq(GoodSteps) /\ call # <<>>
  <2>1. /\ (front \o tail)[1] = load /\ Len(front \o tail) >= 4
        /\ Len(front \o tail) \in Nat
    BY <1>6, <1>8, <1>9, Joined DEF WritePart, front
  <2>2. call[1] = load /\ Len(call) # 0
    <3>1. 1 \in 1 .. Len(front \o tail) /\ Len(<<program, Wait>>) = 2
      BY <2>1
    <3>2. WritePart(front \o tail) /\ Part(<<program, Wait>>)
      BY <1>5, <1>10 DEF WritePart
    <3>3. call[1] = (front \o tail)[1] /\ Len(call) = Len(front \o tail) + 2
      BY ONLY <3>1, <3>2, Joined
    <3>4. QED
      BY <2>1, <3>3
  <2>3. call \in Seq(GoodSteps)
    BY <1>10 DEF WritePart, Part
  <2>4. QED
    BY <2>2, <2>3, EmptySeq
<1>12. PartialPageWrite(d, addr, at, len) = call
  BY DEF PartialPageWrite, call, front, tail, load, fill, erase, program, page
<1>13. Head(call) = call[1]
  BY <1>11
<1> HIDE DEF call
<1>14. QED
  BY <1>4, <1>10, <1>11, <1>12, <1>13

LEMMA ReadIsWhole ==
    ASSUME job.addr \in Nat, job.len \in Nat, job.addr < Chip.pages * Chip.size
    PROVE  /\ Whole(DataFlashRead(job.addr, job.len))
           /\ Head(DataFlashRead(job.addr, job.len)).do = "wait"
<1> DEFINE read == Step("read", job.addr, 0, job.len)
           t == <<Wait, Wait, read>>
<1>1. read \in GoodSteps /\ read.do = "read" /\ Wait.do = "wait"
  BY DEF GoodSteps, Step, Wait
<1> HIDE DEF read
<1>2. t \in Seq(GoodSteps) /\ Len(t) = 3 /\ t[1] = Wait /\ t[2] = Wait /\ t[3] = read
  BY <1>1, WaitIsGood
<1>3. Head(t) = Wait /\ t # <<>>
  OBVIOUS
<1> HIDE DEF t
<1>4. \A i \in 1 .. Len(t) : i = 1 \/ i = 2 \/ i = 3
  BY <1>2
<1>5. Whole(t)
  BY <1>1, <1>2, <1>3, <1>4 DEF Whole, Part
<1>6. QED
  BY <1>1, <1>3, <1>5 DEF DataFlashRead, t, read


\* AT91F_DataFlashWrite and AT91F_DataFlashRead, when size_dataflash has no objection.
Plan(d) ==
    (IF job.kind = "store" THEN DataFlashWrite(d, job.addr, job.len) ELSE <<>>)
    \o DataFlashRead(job.addr, job.len)

LEMMA PlanIsWhole ==
    ASSUME code \in KnownCodes, NEW d, d = Device(code), Accepted(d),
           job.kind \in {"store", "load"}, job.addr \in Nat, job.len \in Nat \ {0},
           \/ Masked(job.addr) = job.addr
           \/ Masked(job.addr) > Size(d)
    PROVE  Whole(Plan(d)) /\ Head(Plan(d)).do \in {"wait", "load"}
<1> DEFINE total == Chip.pages * Chip.size
           read == DataFlashRead(job.addr, job.len)
           room == d.pages_size - (job.addr % d.pages_size)
           write == DataFlashWrite(d, job.addr, job.len)
<1>1. total \in Nat /\ Size(d) = total /\ d.pages_size \in {264, 528, 1056}
  <2>1. /\ Chip.size \in {264, 528, 1056} /\ Chip.pages \in Nat
        /\ Size(d) = Chip.pages * Chip.size /\ d.pages_size = Chip.size
    BY Agreed
  <2>2. \A x, y \in Nat : x * y \in Nat
    BY SMT
  <2>3. QED
    BY <2>1, <2>2
<1> HIDE DEF total
<1>2. job.addr + job.len <= total
  <2>1. Masked(job.addr) \in Nat
    BY SMT DEF Masked
  <2>2. Masked(job.addr) <= total /\ job.len <= total - Masked(job.addr)
    BY <1>1 DEF Accepted
  <2>3. Masked(job.addr) = job.addr
    BY <1>1, <2>1, <2>2
  <2>4. QED
    BY <1>1, <2>2, <2>3
<1>3. room \in Nat \ {0}
  <2>1. CASE d.pages_size = 264
    BY <2>1, SMT
  <2>2. CASE d.pages_size = 528
    BY <2>2, SMT
  <2>3. CASE d.pages_size = 1056
    BY <2>3, SMT
  <2>4. QED
    BY <1>1, <2>1, <2>2, <2>3
<1>4. Whole(read) /\ Head(read).do = "wait"
  BY <1>1, <1>2, ReadIsWhole DEF total
<1>5. WritePart(write) /\ Head(write).do = "load" /\ write # <<>>
  <2> HIDE DEF room
  <2>1. CASE job.len <= room
    <3>1. write = PartialPageWrite(d, job.addr, 0, job.len)
      BY <2>1 DEF DataFlashWrite, room
    <3>2. job.addr < total /\ 0 \in Nat
      BY <1>1, <1>2
    <3>3. WritePart(write) /\ Head(write).do = "load"
      BY <3>1, <3>2, PartialIsPart DEF total
    <3>4. write # <<>>
      BY <3>1, SMT DEF PartialPageWrite
    <3>5. QED
      BY <3>3, <3>4
  <2>2. CASE ~(job.len <= room)
    <3> DEFINE head == PartialPageWrite(d, job.addr, 0, room)
               tail == PartialPageWrite(d, job.addr + room, room, job.len - room)
    <3>1. write = head \o tail
      BY <2>2 DEF DataFlashWrite, room
    <3>2. /\ job.addr < total /\ job.addr + room < total /\ 0 \in Nat
          /\ job.addr + room \in Nat /\ job.len - room \in Nat /\ room \in Nat
      BY <1>1, <1>2, <1>3, <2>2
    <3>3. WritePart(head) /\ Head(head).do = "load" /\ WritePart(tail)
      BY <3>2, PartialIsPart DEF total
    <3>4. head # <<>>
      BY SMT DEF PartialPageWrite
    <3> HIDE DEF head, tail, write
    <3>5. WritePart(write)
      BY <3>1, <3>3, WriteJoined
    <3>6. /\ Len(head) \in Nat /\ Len(head) # 0 /\ Len(write) = Len(head) + Len(tail)
          /\ write[1] = head[1] /\ Len(tail) \in Nat
      <4>1. head \in Seq(GoodSteps) /\ Len(head) # 0 /\ Part(tail)
        BY <3>3, <3>4, EmptySeq DEF WritePart, Part
      <4>2. /\ Len(write) = Len(head) + Len(tail) /\ Len(head) \in Nat /\ Len(tail) \in Nat
            /\ \A i \in 1 .. Len(head) : write[i] = head[i]
        BY <3>1, <3>3, <4>1, Joined
      <4>3. 1 \in 1 .. Len(head)
        BY <4>1, <4>2
      <4>4. QED
        BY <4>1, <4>2, <4>3
    <3>7. write # <<>>
      BY <3>6, EmptySeq
    <3>8. Head(write) = Head(head)
      <4>1. write \in Seq(GoodSteps) /\ head \in Seq(GoodSteps)
        BY <3>3, <3>5 DEF WritePart, Part
      <4>2. Head(write) = write[1] /\ Head(head) = head[1]
        BY <4>1, <3>4, <3>7
      <4>3. QED
        BY <3>6, <4>2
    <3>9. QED
      BY <3>3, <3>5, <3>7, <3>8
  <2>3. QED
    BY <2>1, <2>2
<1> HIDE DEF write, read
<1>6. CASE job.kind = "store"
  <2>1. Plan(d) = write \o read
    BY <1>6 DEF Plan, write, read
  <2>2. Whole(write \o read)
    BY <1>4, <1>5, WholeJoined
  <2>3. Head(write \o read) = Head(write)
    <3>1. /\ write \in Seq(GoodSteps) /\ read \in Seq(GoodSteps)
          /\ (write \o read) \in Seq(GoodSteps) /\ (write \o read) # <<>>
          /\ Part(read)
      BY <1>4, <1>5, <2>2 DEF WritePart, Whole, Part
    <3>2. Head(write) = write[1] /\ Head(write \o read) = (write \o read)[1]
      BY <1>5, <3>1
    <3>3. Len(write) \in Nat /\ \A i \in 1 .. Len(write) : (write \o read)[i] = write[i]
      BY <1>5, <3>1, Joined
    <3>4. 1 \in 1 .. Len(write)
      BY <1>5, <3>1, <3>3, EmptySeq
    <3>5. QED
      BY <3>2, <3>3, <3>4
  <2>4. QED
    BY <1>5, <2>1, <2>2, <2>3
<1>7. CASE job.kind = "load"
  <2>1. read \in Seq(GoodSteps)
    BY <1>4 DEF Whole, Part
  <2>2. <<>> \o read = read
    BY <2>1, ConcatEmptySeq
  <2>3. Plan(d) = read
    BY <1>7, <2>2 DEF Plan, read
  <2>4. QED
    BY <1>4, <2>3
<1>8. QED
  BY <1>6, <1>7


-----------------------------------------------------------------------------
(* Commands on the wire. *)

LEMMA AddressFromFew ==
    ASSUME NEW g, NEW f, NEW h,
           f[2] = h[2] /\ f[3] = h[3] /\ f[4] = h[4],
           AddressBytes(g) = 4 => f[5] = h[5]
    PROVE  AddressIn(g, f) = AddressIn(g, h)
<1>1. AddressBytes(g) = 3 \/ AddressBytes(g) = 4
  BY SMT DEF AddressBytes
<1>2. QED
  BY <1>1 DEF AddressIn

\* The opcode of the step the driver is at.
LEMMA OpcodeIs ==
    ASSUME Current \in GoodSteps, Current.do # "wait"
    PROVE  /\ ~Asking
           /\ Current.do # "buffer" => Opcode \in {DB_LOAD, DB_ERASE, DB_ERASE_PGM, DB_READ}
           /\ Current.do = "load" => Opcode = DB_LOAD
           /\ Current.do = "erase" => Opcode = DB_ERASE
           /\ Current.do = "program" => Opcode = DB_ERASE_PGM
           /\ Current.do = "read" => Opcode = DB_READ
           /\ Current.do \notin {"buffer", "read"} => Opcode # DB_READ
<1>1. Current.do \in {"load", "buffer", "erase", "program", "read"}
  BY DEF GoodSteps
<1> USE DEF Opcode, DB_LOAD, DB_ERASE, DB_ERASE_PGM, DB_READ, DB_BUF1_WRITE
<1>2. CASE Current.do = "load"
  BY <1>2 DEF Asking
<1>3. CASE Current.do = "erase"
  BY <1>3 DEF Asking
<1>4. CASE Current.do = "program"
  BY <1>4 DEF Asking
<1>5. CASE Current.do = "read"
  BY <1>5 DEF Asking
<1>6. CASE Current.do = "buffer"
  BY <1>6 DEF Asking
<1>7. QED
  BY <1>1, <1>2, <1>3, <1>4, <1>5, <1>6

LEMMA Sizes ==
    ASSUME Known
    PROVE  /\ CommandSize(device) = 1 + AddressBytes(Chip)
           /\ CommandSize(device) \in {4, 5}
           /\ AddressBytes(Chip) = 4 => CommandSize(device) = 5
           /\ Chip = Datasheet[code] /\ code \in KnownCodes /\ device = Device(code)
           /\ device.pages_size = Chip.size /\ Chip.size \in {264, 528, 1056}
           /\ Chip.pages \in Nat
<1>1. TableFits(code)
  BY TableRight DEF Known
<1>2. CommandSize(device) \in {4, 5}
  BY SMT DEF CommandSize
<1>3. /\ CommandSize(device) = 1 + AddressBytes(Chip)
      /\ device.pages_size = Chip.size /\ Chip.size \in {264, 528, 1056}
      /\ Chip.pages \in Nat
  BY <1>1 DEF Known, TableFits, Chip
<1>4. AddressBytes(Chip) \in {3, 4}
  BY SMT DEF AddressBytes
<1>5. QED
  BY <1>2, <1>3, <1>4 DEF Known, Chip

\* Whoever hears the bytes of a command takes them for what is meant.
LEMMA HeaderArrives ==
    ASSUME Known, Current \in GoodSteps, Current.do # "wait",
           NEW f, \A k \in 1 .. SentSize : f[k] = Sent[k]
    PROVE  /\ SentSize \in {4, 5, 8}
           /\ HeaderSize(f[1]) = SentSize
           /\ f[1] # DB_STATUS
           /\ Current.do = "read" => SentSize = 8 /\ f[1] = DB_READ
           /\ Header(f) = Meant
<1> DEFINE s == Sent
           g == Chip
           n == CommandSize(device)
           a == Current.addr
<1>1. /\ n = 1 + AddressBytes(g) /\ n \in {4, 5} /\ (AddressBytes(g) = 4 => n = 5)
      /\ g = Datasheet[code] /\ code \in KnownCodes /\ device = Device(code)
      /\ device.pages_size = g.size /\ g.size \in {264, 528, 1056} /\ g.pages \in Nat
  BY Sizes
<1>2. a \in Nat /\ a < g.pages * g.size
  BY DEF GoodSteps
<1>3. ~Asking /\ SentSize = IF Current.do = "read" THEN 8 ELSE n
  BY OpcodeIs DEF SentSize
<1> HIDE DEF g, n, a
<1>4. SentSize \in {4, 5, 8} /\ SentSize >= n
  BY <1>1, <1>3
<1>5. /\ f[1] = s[1] /\ f[2] = s[2] /\ f[3] = s[3] /\ f[4] = s[4]
      /\ n = 5 => f[5] = s[5]
  BY <1>4 DEF s
<1>6. AddressIn(g, f) = AddressIn(g, s)
  BY <1>1, <1>5, AddressFromFew
<1>7. PageIn(g, f) = PageIn(g, s) /\ OffsetIn(g, f) = OffsetIn(g, s)
  BY <1>6 DEF PageIn, OffsetIn
<1>8. CASE Current.do = "buffer"
  <2> DEFINE o == a % device.pages_size
  <2>1. s = BufferCommand(device, DB_BUF1_WRITE, o, StatusCommand)
    BY <1>3, <1>8 DEF Sent, s, a
  <2>2. StatusCommand \in [1 .. 8 -> Byte] /\ DB_BUF1_WRITE \in Byte
    BY SMT DEF StatusCommand, DB_STATUS, Byte, DB_BUF1_WRITE
  <2>3. o \in Nat /\ o < g.size /\ o = a % g.size
    <3>1. o = a % g.size
      BY <1>1
    <3>2. a % g.size \in Nat /\ a % g.size < g.size
      BY <1>1, <1>2, Pages
    <3>3. QED
      BY <3>1, <3>2
  <2> HIDE DEF o
  <2>4. /\ AddressIn(g, s) = o /\ o % Field(g) = o /\ o \div Field(g) = 0
    BY <1>1, <2>1, <2>2, <2>3, OffsetIsField
  <2>5. g.pages > 0
    <3>1. g.pages # 0
      <4>1. SUFFICES ASSUME g.pages = 0 PROVE FALSE
        OBVIOUS
      <4>2. g.pages * g.size = 0
        BY <1>1, <4>1
      <4>3. QED
        BY <1>2, <4>2
    <3>2. QED
      BY <1>1, <3>1
  <2>6. 0 % g.pages = 0
    BY <1>1, <2>5, SMT
  <2>7. PageIn(g, s) = 0 /\ OffsetIn(g, s) = o
    BY <2>4, <2>6 DEF PageIn, OffsetIn
  <2>8. s[1] = DB_BUF1_WRITE
    BY <2>1, SMT DEF BufferCommand
  <2>9. Meant = [op |-> DB_BUF1_WRITE, page |-> 0, offset |-> o]
    BY <1>3, <1>8, <2>3 DEF Meant, Want, Offset, g, a
  <2>10. HeaderSize(f[1]) = n
    BY <1>1, <1>5, <2>8 DEF HeaderSize, DB_BUF1_WRITE, DB_STATUS, DB_READ, g
  <2>11. Header(f) = [op |-> f[1], page |-> PageIn(g, f), offset |-> OffsetIn(g, f)]
    BY DEF Header, g
  <2>12. f[1] # DB_STATUS
    BY <1>5, <2>8 DEF DB_STATUS, DB_BUF1_WRITE
  <2>13. QED
    BY <1>3, <1>4, <1>5, <1>7, <1>8, <2>7, <2>8, <2>9, <2>10, <2>11, <2>12
<1>9. CASE Current.do # "buffer"
  <2> DEFINE o == Opcode
  <2>1. s = Command(device, o, a)
    BY <1>3, <1>9 DEF Sent, s, a
  <2>2. /\ o \in {DB_LOAD, DB_ERASE, DB_ERASE_PGM, DB_READ}
        /\ Current.do = "read" => o = DB_READ
        /\ Current.do # "read" => o # DB_READ
    BY <1>9, OpcodeIs
  <2> HIDE DEF o
  <2>3. o \in Byte /\ o # DB_STATUS
    BY <2>2, SMT DEF DB_LOAD, DB_ERASE, DB_ERASE_PGM, DB_READ, DB_STATUS, Byte
  <2>4. PageIn(g, s) = a \div g.size /\ OffsetIn(g, s) = a % g.size
    BY <1>1, <1>2, <2>1, <2>3, AddressArrives
  <2>5. s[1] = o
    BY <2>1, SMT DEF Command
  <2>6. Meant = [op |-> o, page |-> a \div g.size, offset |-> a % g.size]
    BY <1>3, <1>9 DEF Meant, Want, Page, Offset, g, a, o
  <2>7. HeaderSize(f[1]) = IF Current.do = "read" THEN 8 ELSE n
    BY <1>1, <1>5, <2>2, <2>3, <2>5 DEF HeaderSize, g
  <2>8. Header(f) = [op |-> f[1], page |-> PageIn(g, f), offset |-> OffsetIn(g, f)]
    BY DEF Header, g
  <2>9. QED
    BY <1>3, <1>4, <1>5, <1>7, <2>2, <2>3, <2>4, <2>5, <2>6, <2>7, <2>8
<1>10. QED
  BY <1>8, <1>9


\* What the driver makes of a status byte.
LEMMA StatusMeans ==
    ASSUME code \in Codes
    PROVE  /\ code \in Nat /\ code < 127
           /\ \A st \in {0, 255, code, code + 128} :
                 Device(ProbedCode(st)) # NoDevice =>
                    Device(ProbedCode(st)) = Device(code) /\ code \in KnownCodes
<1>1. code \in {12, 16, 20, 28, 36, 44, 52, 60}
  BY SpiAssumption DEF Datasheet
<1>2. code \in Nat /\ code < 127
  BY <1>1
<1>3. Device(0) = NoDevice /\ Device(20) = NoDevice /\ Device(36) = NoDevice
  BY SMT DEF Device
<1>4. ProbedCode(0) = 0 /\ ProbedCode(255) = 0
  BY SMT DEF ProbedCode
<1>5. ProbedCode(code) = code /\ ProbedCode(code + 128) = code
  <2>1. CASE code = 12
    BY <2>1, SMT DEF ProbedCode
  <2>2. CASE code = 28
    BY <2>2, SMT DEF ProbedCode
  <2>3. CASE code = 36
    BY <2>3, SMT DEF ProbedCode
  <2>4. CASE code = 44
    BY <2>4, SMT DEF ProbedCode
  <2>5. CASE code = 52
    BY <2>5, SMT DEF ProbedCode
  <2>6. CASE code = 60
    BY <2>6, SMT DEF ProbedCode
  <2>7. CASE code = 16
    BY <2>7, SMT DEF ProbedCode
  <2>8. CASE code = 20
    BY <2>8, SMT DEF ProbedCode
  <2>9. QED
    BY <1>1, <2>1, <2>2, <2>3, <2>4, <2>5, <2>6, <2>7, <2>8
<1>6. Device(code) # NoDevice => code \in KnownCodes
  BY <1>1, <1>3 DEF KnownCodes
<1>7. QED
  BY <1>2, <1>3, <1>4, <1>5, <1>6

-----------------------------------------------------------------------------
(* A transfer and its end. *)

\* The step the driver is at.
LEMMA AtStep ==
    ASSUME PlanInv, pc = "transfer" \/ (pc = "next" /\ todo # <<>>)
    PROVE  /\ todo # <<>>
           /\ \/ Probing /\ Current.do = "probe" /\ Asking
              \/ /\ Known /\ Whole(todo) /\ ~Probing /\ Current \in GoodSteps
                 /\ Current.do # "probe"
           /\ Asking <=> Current.do \in {"probe", "wait"}
<1>1. todo # <<>> /\ pc # "idle"
  BY DEF PlanInv
<1>2. CASE Probing
  <2>1. Current = Probe
    BY <1>2, ProbeIsAlone DEF Probing, Current
  <2>2. QED
    BY <1>1, <1>2, <2>1, ProbeIsAlone DEF Asking
<1>3. CASE ~Probing
  <2>1. Known /\ Whole(todo)
    BY <1>1, <1>3 DEF PlanInv
  <2>2. Current \in GoodSteps
    BY <2>1, WholeGoesOn DEF Current
  <2>3. Current.do # "probe"
    BY <2>2 DEF GoodSteps
  <2>4. QED
    BY <1>1, <1>3, <2>1, <2>2, <2>3 DEF Asking
<1>4. QED
  BY <1>2, <1>3

LEMMA AskingSends ==
    ASSUME Asking
    PROVE  /\ SentSize = 2 /\ Sent[1] = DB_STATUS /\ Sent[2] = 0 /\ Meant = NoCommand
           /\ Sent = StatusCommand
BY SMT DEF SentSize, Sent, Meant, StatusCommand, DB_STATUS

\* How many bytes have been heard.
LEMMA FrameLength ==
    ASSUME TypeInv
    PROVE  Len(frame) \in Nat /\ (frame = <<>> <=> Len(frame) = 0)
<1>1. PICK S : frame \in Seq(S)
  BY DEF TypeInv
<1>2. QED
  BY <1>1, EmptySeq, LenProperties

\* What the chip takes a transfer for, when chip select rises.
LEMMA TakenRight ==
    ASSUME TypeInv, PlanInv, FrameInv, pc = "transfer"
    PROVE  /\ Taken(frame) \in {Meant, NoCommand}
           /\ now.cnt = 0 /\ ~dead /\ op = NoCommand => Taken(frame) = Meant
           /\ Asking => Taken(frame) = NoCommand
<1>1. Len(frame) \in Nat /\ (frame = <<>> <=> Len(frame) = 0)
  BY FrameLength
<1>2. /\ \A k \in 1 .. Len(frame) : k <= SentSize => frame[k] = Sent[k]
      /\ now.cnt = 0 /\ ~dead => Len(frame) >= SentSize
  BY DEF FrameInv, CommandPhase
<1> DEFINE n == Len(frame)
           size == SentSize
<1>3. CASE Asking
  <2>1. size = 2 /\ Sent[1] = DB_STATUS /\ Meant = NoCommand
    BY <1>3, AskingSends
  <2>2. n # 0 => frame[1] = DB_STATUS
    BY <1>1, <1>2, <2>1
  <2>3. Taken(frame) = NoCommand
    BY <1>1, <2>2 DEF Taken
  <2>4. QED
    BY <2>1, <2>3
<1>4. CASE ~Asking
  <2>1. Known /\ Current \in GoodSteps /\ Current.do # "wait"
    BY <1>4, AtStep DEF Asking
  <2>2. size \in {4, 5, 8} /\ HeaderSize(Sent[1]) = size /\ Sent[1] # DB_STATUS
    BY <2>1, HeaderArrives
  <2>3. n # 0 => frame[1] = Sent[1]
    BY <1>1, <1>2, <2>2
  <2>4. ASSUME n >= size PROVE Header(frame) = Meant
    <3>1. \A k \in 1 .. size : frame[k] = Sent[k]
      BY <1>1, <1>2, <2>2, <2>4
    <3>2. QED
      BY <2>1, <3>1, HeaderArrives
  <2>5. Taken(frame) = IF n = 0 \/ op # NoCommand \/ n < size THEN NoCommand
                       ELSE Header(frame)
    BY <1>1, <2>2, <2>3 DEF Taken
  <2>6. ~(n < size) => n >= size
    BY <1>1, <2>2
  <2>7. n >= size => n # 0 /\ ~(n < size)
    BY <1>1, <2>2
  <2>8. QED
    BY <1>2, <1>4, <2>4, <2>5, <2>6, <2>7
<1>5. QED
  BY <1>3, <1>4

\* Only a command that keeps the chip busy changes what it is busy with.
LEMMA BusyAfter ==
    ASSUME TypeInv, PlanInv, FrameInv, pc = "transfer", Deselect,
           Current.do \in {"probe", "wait", "read", "buffer"}
    PROVE  op' = op
<1>1. Taken(frame) \in {Meant, NoCommand} /\ (Asking => Taken(frame) = NoCommand)
  BY TakenRight
<1>2. NoCommand.op \notin {DB_LOAD, DB_ERASE, DB_ERASE_PGM}
  BY DEF NoCommand, DB_LOAD, DB_ERASE, DB_ERASE_PGM
<1>3. ~Asking => Meant.op \notin {DB_LOAD, DB_ERASE, DB_ERASE_PGM}
  <2>1. SUFFICES ASSUME ~Asking PROVE Meant.op \notin {DB_LOAD, DB_ERASE, DB_ERASE_PGM}
    OBVIOUS
  <2>2. Current \in GoodSteps /\ Current.do # "wait" /\ Current.do \in {"read", "buffer"}
    BY <2>1, AtStep DEF Asking
  <2>3. Meant.op = IF Current.do = "buffer" THEN DB_BUF1_WRITE ELSE Opcode
    BY <2>1 DEF Meant, Want
  <2>4. Current.do = "read" => Opcode = DB_READ
    BY <2>2, OpcodeIs
  <2>5. QED
    BY <2>2, <2>3, <2>4 DEF DB_LOAD, DB_ERASE, DB_ERASE_PGM, DB_READ, DB_BUF1_WRITE
<1>4. QED
  BY <1>1, <1>2, <1>3 DEF Deselect


-----------------------------------------------------------------------------
(* Every step keeps the invariant. *)

LEMMA SameStep ==
    ASSUME todo' = todo, device' = device, code' = code, job' = job
    PROVE  /\ Current' = Current /\ Asking' = Asking /\ Probing' = Probing
           /\ Sent' = Sent /\ SentSize' = SentSize /\ Meant' = Meant
           /\ Known' = Known /\ Chip' = Chip /\ Area' = Area /\ GoodSteps' = GoodSteps
           /\ Whole(todo)' = Whole(todo)
<1>1. Current' = Current /\ Chip' = Chip /\ Area' = Area
  BY DEF Current, Chip, Area
<1>2. Asking' = Asking /\ Probing' = Probing /\ Known' = Known
  BY <1>1 DEF Asking, Probing, Known
<1>3. Opcode' = Opcode
  BY <1>1 DEF Opcode
<1>4. Sent' = Sent /\ SentSize' = SentSize
  BY <1>1, <1>2, <1>3 DEF Sent, SentSize
<1>5. Meant' = Meant
  BY <1>1, <1>2, <1>3 DEF Meant, Want, Page, Offset
<1>6. GoodSteps' = GoodSteps
  BY <1>1 DEF GoodSteps
<1>7. Whole(todo)' = Whole(todo)
  BY <1>6 DEF Whole, Part
<1>8. QED
  BY <1>1, <1>2, <1>4, <1>5, <1>6, <1>7

\* What AT91F_SpiWrite begins with is a transfer as FrameInv has it.
LEMMA Begins ==
    ASSUME IInv, pc = "next", todo # <<>>,
           NEW command, NEW size, NEW data, NEW what,
           SpiWrite(command, size, data, what),
           UNCHANGED <<todo, device, keep, polls, job, result>>,
           DOMAIN command = 1 .. 8, size = SentSize, what = Meant,
           \A k \in 1 .. SentSize : command[k] = Sent[k],
           SentSize \in {2, 4, 5, 8},
           data \in Slots,
           data.cnt # 0 => Current.do \in {"buffer", "read"} /\ data.area # "command",
           Current.do = "read" => data = [area |-> Area, at |-> 1, cnt |-> job.len],
           ~leftover' => ~leftover /\ (Probing => following.cnt = 0)
    PROVE  IInv'
<1> DEFINE n == SentSize
           s == Sent
<1>1. /\ pc' = "transfer" /\ asked' = Meant
      /\ ram' = [ram EXCEPT !["command"] = command]
      /\ now' = [area |-> "command", at |-> 1, cnt |-> n]
      /\ following' = IF data.cnt # 0 THEN data ELSE following
      /\ code' = code /\ cells' = cells /\ op' = op /\ frame' = frame
      /\ dead' = dead /\ todo' = todo /\ device' = device /\ keep' = keep
      /\ job' = job /\ result' = result
  BY DEF SpiWrite, PdcNext, bus, n
<1>2. /\ Current' = Current /\ Asking' = Asking /\ Probing' = Probing
      /\ Sent' = s /\ SentSize' = n /\ Meant' = Meant
      /\ Known' = Known /\ Area' = Area /\ Whole(todo)' = Whole(todo)
      /\ Chip' = Chip
  BY <1>1, SameStep DEF s, n
<1>3. frame = <<>> /\ Len(frame) = 0
  BY FrameLength DEF IInv, FrameInv
<1>4. \/ Probing /\ Current.do = "probe" /\ Asking
      \/ /\ Known /\ Whole(todo) /\ ~Probing /\ Current.do # "probe"
  BY AtStep DEF IInv
<1>5. result # "ok" /\ job.len # 0
  BY DEF IInv, PlanInv, JobInv
<1>6. n \in {2, 4, 5, 8} /\ \A k \in 1 .. n : command[k] = s[k]
  BY DEF n, s
<1> HIDE DEF n, s
<1>7. /\ DOMAIN ram' = Areas /\ ram'["command"] = command
      /\ ram'["scratch"] = ram["scratch"] /\ ram'["compr"] = ram["compr"]
  BY <1>1 DEF IInv, TypeInv, Areas
<1>8. CommandPhase'
  BY <1>1, <1>6 DEF CommandPhase
<1>9. TypeInv'
  <2>1. now' \in Slots /\ following' \in Slots
    BY <1>1, <1>6 DEF IInv, TypeInv, Slots, Areas
  <2>2. QED
    BY <1>1, <1>7, <2>1 DEF IInv, TypeInv
<1>10. JobInv'
  BY <1>1, <1>5 DEF IInv, JobInv, Masked, Size
<1>11. PlanInv'
  BY <1>1, <1>2, <1>4, <1>5 DEF PlanInv
<1>12. LeftInv'
  BY <1>1, <1>2, <1>4, <1>8 DEF IInv, LeftInv
<1>13. FrameInv'
  <2>1. now'.at = 1 /\ now'.cnt = n
    BY <1>1
  <2>2. \A k \in now'.at .. n : ram'["command"][k] = s[k]
    BY <1>6, <1>7, <2>1
  <2>3. Len(frame') = 0 /\ 1 .. 0 = {}
    BY <1>1, <1>3
  <2>4. n + 1 = 1 + n /\ 1 >= 1 /\ 1 - 1 = 0
    BY <1>6
  <2>5. QED
    BY <1>1, <1>2, <1>8, <2>1, <2>2, <2>3, <2>4 DEF FrameInv
<1>14. StatusInv'
  <2>1. Asking => n = 2 /\ s[2] = 0
    BY AskingSends DEF n, s
  <2>2. Asking => ram'["command"][2] = 0
    BY <1>6, <1>7, <2>1
  <2>3. QED
    BY <1>2, <1>8, <2>2 DEF StatusInv, Status
<1>15. ReadInv'
  <2>1. ASSUME Current.do = "read"
        PROVE  ReadSoFar(0)' /\ following' = [area |-> Area, at |-> 1, cnt |-> job.len]
    <3>1. op = NoCommand \/ dead
      BY <2>1 DEF IInv, ReadInv, ReadSoFar
    <3>2. 1 .. 0 = {}
      OBVIOUS
    <3>3. ReadSoFar(0)'
      BY <1>1, <3>1, <3>2 DEF ReadSoFar
    <3>4. QED
      BY <1>1, <1>5, <2>1, <3>3
  <2>2. now'.cnt # 0
    BY <1>1, <1>6
  <2>3. QED
    BY <1>1, <1>2, <1>5, <1>8, <2>1, <2>2 DEF ReadInv
<1>16. KeepInv'
  <2>1. ASSUME job.kind = "store", ~leftover'
        PROVE  /\ Probing => following'.cnt = 0
               /\ Probing => \A i \in 1 .. job.len : ram["scratch"][i] = job.bytes[i]
               /\ ~Probing => \A i \in 1 .. job.len : keep[i] = job.bytes[i]
    BY <1>1, <1>4, <2>1 DEF IInv, KeepInv
  <2>2. QED
    BY <1>1, <1>2, <1>5, <1>7, <1>8, <2>1 DEF KeepInv
<1>17. QED
  BY <1>9, <1>10, <1>11, <1>12, <1>13, <1>14, <1>15, <1>16 DEF IInv


LEMMA NothingFits == Nothing \in Slots /\ Nothing.cnt = 0
BY DEF Nothing, Slots, Areas

LEMMA GetStatusKeeps ==
    ASSUME IInv, GetStatus
    PROVE  IInv'
<1>1. /\ pc = "next" /\ todo # <<>> /\ Current.do \in {"probe", "wait"}
      /\ SpiWrite(StatusCommand, 2, Nothing, NoCommand)
      /\ leftover' = (leftover \/ following.cnt # 0)
      /\ UNCHANGED <<todo, device, keep, polls, job, result>>
  BY DEF GetStatus, At
<1>2. Asking
  BY <1>1 DEF Asking
<1>3. Sent = StatusCommand /\ SentSize = 2 /\ Meant = NoCommand
  BY <1>2, AskingSends
<1>4. DOMAIN StatusCommand = 1 .. 8
  BY SMT DEF StatusCommand
<1>5. QED
  BY ONLY IInv, <1>1, <1>3, <1>4, NothingFits, Begins

\* The commands without data.
LEMMA CommandKeeps ==
    ASSUME IInv, NEW do \in {"load", "erase", "program"}, NEW opcode,
           opcode = CASE do = "load" -> DB_LOAD [] do = "erase" -> DB_ERASE
                      [] do = "program" -> DB_ERASE_PGM,
           SendCommand(do, opcode)
    PROVE  IInv'
<1>1. /\ pc = "next" /\ todo # <<>> /\ Current.do = do
      /\ SpiWrite(Command(device, opcode, Current.addr), CommandSize(device), Nothing,
                  Want(opcode))
      /\ UNCHANGED <<todo, device, keep, polls, job, result>> /\ leftover' = leftover
  BY DEF SendCommand, At
<1>2. Known /\ Current \in GoodSteps /\ ~Probing
  BY <1>1, AtStep DEF IInv
<1>3. Opcode = opcode /\ ~Asking
  BY <1>1, <1>2, OpcodeIs
<1>4. /\ Sent = Command(device, opcode, Current.addr) /\ SentSize = CommandSize(device)
      /\ Meant = Want(opcode)
  BY <1>1, <1>3 DEF Sent, SentSize, Meant
<1>5. DOMAIN Command(device, opcode, Current.addr) = 1 .. 8
  BY SMT DEF Command
<1>6. SentSize \in {2, 4, 5, 8}
  BY <1>2, <1>4, Sizes
<1>7. Current.do # "read"
  BY <1>1
<1>8. QED
  BY ONLY IInv, <1>1, <1>2, <1>4, <1>5, <1>6, <1>7, NothingFits, Begins

LEMMA WriteBufferKeeps ==
    ASSUME IInv, DataFlashWriteBuffer
    PROVE  IInv'
<1> DEFINE a == Current.addr % device.pages_size
           command == BufferCommand(device, DB_BUF1_WRITE, a, ram["command"])
<1>1. /\ pc = "next" /\ todo # <<>> /\ Current.do = "buffer"
      /\ SpiWrite(command, CommandSize(device), Data, [Want(DB_BUF1_WRITE) EXCEPT !.page = 0])
      /\ UNCHANGED <<todo, device, keep, polls, job, result>> /\ leftover' = leftover
  BY DEF DataFlashWriteBuffer, At
<1>2. Known /\ Current \in GoodSteps /\ ~Probing /\ ~Asking
  BY <1>1, AtStep DEF IInv
<1>3. /\ Sent = BufferCommand(device, DB_BUF1_WRITE, a, StatusCommand)
      /\ SentSize = CommandSize(device)
      /\ Meant = [Want(DB_BUF1_WRITE) EXCEPT !.page = 0]
  BY <1>1, <1>2 DEF Sent, SentSize, Meant
<1>4. SentSize \in {4, 5}
  BY <1>2, <1>3, Sizes
<1> HIDE DEF a
<1>5. DOMAIN command = 1 .. 8
  BY SMT DEF BufferCommand
<1>6. \A k \in 1 .. 5 : command[k] = BufferCommand(device, DB_BUF1_WRITE, a, StatusCommand)[k]
  BY SMT DEF BufferCommand
<1>7. \A k \in 1 .. SentSize : command[k] = Sent[k]
  BY <1>3, <1>4, <1>6
<1>8. Data \in Slots /\ Data.area # "command"
  BY <1>2 DEF Data, Slots, Areas, Area, GoodSteps
<1> HIDE DEF command
<1>9. QED
  BY ONLY IInv, <1>1, <1>2, <1>3, <1>4, <1>5, <1>7, <1>8, Begins

LEMMA ReadKeeps ==
    ASSUME IInv, ContinuousRead
    PROVE  IInv'
<1> DEFINE command == Command(device, DB_READ, Current.addr)
<1>1. /\ pc = "next" /\ todo # <<>> /\ Current.do = "read"
      /\ SpiWrite(command, 8, Data, Want(DB_READ))
      /\ UNCHANGED <<todo, device, keep, polls, job, result>> /\ leftover' = leftover
  BY DEF ContinuousRead, At
<1>2. Known /\ Current \in GoodSteps /\ ~Probing /\ ~Asking
  BY <1>1, AtStep DEF IInv
<1>3. Opcode = DB_READ
  BY <1>1, <1>2, OpcodeIs
<1>4. Sent = command /\ SentSize = 8 /\ Meant = Want(DB_READ)
  BY <1>1, <1>2, <1>3 DEF Sent, SentSize, Meant
<1>5. DOMAIN command = 1 .. 8
  BY SMT DEF Command
<1>6. Data = [area |-> Area, at |-> 1, cnt |-> job.len]
  BY <1>1, <1>2 DEF Data, GoodSteps, Step
<1>7. Data \in Slots /\ Data.area # "command"
  BY <1>6 DEF IInv, JobInv, Slots, Areas, Area
<1> HIDE DEF command
<1>8. QED
  BY ONLY IInv, <1>1, <1>2, <1>4, <1>5, <1>6, <1>7, Begins


\* What comes back for a byte: the status, or the cells from the address on.
LEMMA AnswerIs ==
    ASSUME TypeInv, PlanInv, FrameInv, JobInv, pc = "transfer"
    PROVE  /\ dead => Answer(frame) = 255
           /\ ~dead /\ Asking /\ Len(frame) = 1 =>
                 Answer(frame) = code + (IF op = NoCommand THEN 128 ELSE 0)
           /\ ~dead /\ op = NoCommand /\ Current.do = "read" /\ Len(frame) >= 8 =>
                 Answer(frame) = Cell(job.addr + Len(frame) - 8)
<1>1. Len(frame) \in Nat /\ (frame = <<>> <=> Len(frame) = 0)
  BY FrameLength
<1>2. \A k \in 1 .. Len(frame) : k <= SentSize => frame[k] = Sent[k]
  BY DEF FrameInv
<1>3. dead => Answer(frame) = 255
  BY DEF Answer
<1>4. ASSUME ~dead, Asking, Len(frame) = 1
      PROVE  Answer(frame) = code + (IF op = NoCommand THEN 128 ELSE 0)
  <2>1. frame[1] = DB_STATUS
    BY <1>2, <1>4, AskingSends
  <2>2. HeaderSize(DB_STATUS) = 1
    BY DEF HeaderSize, DB_STATUS, DB_READ
  <2>3. QED
    BY <1>1, <1>4, <2>1, <2>2 DEF Answer
<1>5. ASSUME ~dead, op = NoCommand, Current.do = "read", Len(frame) >= 8
      PROVE  Answer(frame) = Cell(job.addr + Len(frame) - 8)
  <2>1. Known /\ Current \in GoodSteps /\ Current.do # "wait"
    BY <1>5, AtStep DEF Asking
  <2>2. SentSize = 8
    BY <1>5, <2>1, HeaderArrives
  <2>3. \A k \in 1 .. SentSize : frame[k] = Sent[k]
    BY <1>1, <1>2, <1>5, <2>2
  <2>4. HeaderSize(frame[1]) = 8 /\ frame[1] = DB_READ /\ Header(frame) = Meant
    BY <1>5, <2>1, <2>2, <2>3, HeaderArrives
  <2>5. Current.addr = job.addr
    BY <1>5, <2>1 DEF GoodSteps, Step
  <2>6. /\ Meant.page = job.addr \div Chip.size /\ Meant.offset = job.addr % Chip.size
    BY <1>5, <2>1, <2>5, OpcodeIs DEF Meant, Want, Page, Offset
  <2>7. /\ Chip.size \in {264, 528, 1056} /\ Chip.pages \in Nat
        /\ job.addr \in Nat /\ job.addr < Chip.pages * Chip.size
    BY <1>5, <2>1, <2>5, Sizes DEF JobInv, GoodSteps
  <2>8. /\ job.addr = (job.addr \div Chip.size) * Chip.size + (job.addr % Chip.size)
    BY <2>7, Pages
  <2>9. DB_READ # DB_STATUS /\ frame # <<>> /\ ~(Len(frame) < 8)
    BY <1>1, <1>5 DEF DB_READ, DB_STATUS
  <2>10. Answer(frame) = Cell(Meant.page * Chip.size + Meant.offset + Len(frame) - 8)
    BY <1>5, <2>4, <2>9 DEF Answer
  <2>11. QED
    BY <2>6, <2>8, <2>10
<1>6. QED
  BY <1>3, <1>4, <1>5

LEMMA ExchangeKeeps ==
    ASSUME IInv, Exchange
    PROVE  IInv'
<1> DEFINE n == SentSize
           s == Sent
           x == Answer(frame)
           last == now.cnt = 1
           m == Len(frame)
<1>1. /\ pc = "transfer" /\ now.cnt > 0
      /\ frame' = IF dead THEN frame ELSE Append(frame, ram[now.area][now.at])
      /\ ram' = [ram EXCEPT ![now.area][now.at] = x]
      /\ last => now' = following /\ following' = Nothing
      /\ ~last => now' = [now EXCEPT !.at = @ + 1, !.cnt = @ - 1] /\ following' = following
      /\ UNCHANGED <<code, cells, buf, op, floating, dead, pc, todo, device, keep, polls,
                     job, result, asked, heard, leftover, calls>>
  BY DEF Exchange, x
<1>2. /\ Current' = Current /\ Asking' = Asking /\ Probing' = Probing
      /\ Sent' = s /\ SentSize' = n /\ Meant' = Meant
      /\ Known' = Known /\ Area' = Area /\ Whole(todo)' = Whole(todo)
      /\ Chip' = Chip
  BY <1>1, SameStep DEF s, n
<1>3. /\ \/ Probing /\ Current.do = "probe" /\ Asking
         \/ Known /\ Whole(todo) /\ ~Probing /\ Current.do # "probe" /\ Current \in GoodSteps
      /\ Asking <=> Current.do \in {"probe", "wait"}
  BY <1>1, AtStep DEF IInv
<1>4. result # "ok" /\ job.len # 0
  BY <1>1 DEF IInv, PlanInv, JobInv
<1>5. n \in {2, 4, 5, 8}
  BY <1>1, <1>3, AskingSends, HeaderArrives DEF n
<1>6. /\ m \in Nat
      /\ \A k \in 1 .. m : k <= n => frame[k] = s[k]
      /\ CommandPhase =>
            /\ now.at >= 1 /\ now.at + now.cnt = n + 1
            /\ \A k \in now.at .. n : ram["command"][k] = s[k]
            /\ ~dead => m = now.at - 1
      /\ ~CommandPhase /\ ~dead => m >= n
      /\ asked = Meant
  BY <1>1, FrameLength DEF IInv, FrameInv, n, s, m
<1>7. /\ now \in Slots /\ following \in Slots /\ Nothing \in Slots
      /\ Nothing.cnt = 0
      /\ DOMAIN ram = Areas /\ DOMAIN ram["command"] = 1 .. 8
      /\ DOMAIN ram["scratch"] = 1 .. RamSize /\ DOMAIN ram["compr"] = 1 .. RamSize
  BY NothingFits DEF IInv, TypeInv
<1>8. /\ ~last => now'.area = now.area /\ now'.at = now.at + 1 /\ now'.cnt = now.cnt - 1
                  /\ now.cnt - 1 \in Nat /\ now.cnt - 1 > 0 /\ now' \in Slots
      /\ now.cnt \in Nat /\ now.at \in Nat
  <2>1. now.area \in Areas /\ now.cnt \in Nat /\ now.at \in Nat
    BY <1>7 DEF Slots
  <2>2. ASSUME ~last
        PROVE  /\ now'.area = now.area /\ now'.at = now.at + 1 /\ now'.cnt = now.cnt - 1
               /\ now.cnt - 1 \in Nat /\ now.cnt - 1 > 0 /\ now' \in Slots
    <3>1. now.cnt - 1 \in Nat /\ now.cnt - 1 > 0 /\ now.at + 1 \in Nat
      BY <1>1, <2>1, <2>2
    <3>2. now' = [now EXCEPT !.at = @ + 1, !.cnt = @ - 1]
      BY <1>1, <2>2
    <3>3. now = [area |-> now.area, at |-> now.at, cnt |-> now.cnt]
      BY <1>7 DEF Slots
    <3>4. now' = [area |-> now.area, at |-> now.at + 1, cnt |-> now.cnt - 1]
      BY ONLY <3>2, <3>3
    <3>5. QED
      BY <2>1, <3>1, <3>4 DEF Slots
  <2>3. QED
    BY <2>1, <2>2
<1> HIDE DEF n, s, x
<1>9. /\ DOMAIN ram' = Areas /\ DOMAIN ram'["command"] = 1 .. 8
      /\ DOMAIN ram'["scratch"] = 1 .. RamSize /\ DOMAIN ram'["compr"] = 1 .. RamSize
      /\ \A a \in Areas : a # now.area => ram'[a] = ram[a]
      /\ \A k : k # now.at => ram'[now.area][k] = ram[now.area][k]
      /\ now.at \in DOMAIN ram[now.area] => ram'[now.area][now.at] = x
  BY <1>1, <1>7 DEF Areas, Slots
<1>10. /\ ~dead => Len(frame') = m + 1
       /\ dead => frame' = frame
       /\ \A k \in 1 .. m : frame'[k] = frame[k]
       /\ ~dead => frame'[m + 1] = ram[now.area][now.at]
       /\ \E S : frame' \in Seq(S)
  <2>1. PICK S : frame \in Seq(S)
    BY DEF IInv, TypeInv
  <2>2. CASE dead
    BY <1>1, <2>1, <2>2
  <2>3. CASE ~dead
    <3> DEFINE e == ram[now.area][now.at]
               T == S \cup {e}
    <3>1. frame \in Seq(T) /\ e \in T
      <4>1. S \subseteq T
        OBVIOUS
      <4>2. QED
        BY <2>1, <4>1, SeqMonotonic
    <3>2. frame' = Append(frame, e)
      BY <1>1, <2>3
    <3> HIDE DEF e, T
    <3>3. /\ Append(frame, e) \in Seq(T) /\ Len(Append(frame, e)) = m + 1
          /\ \A i \in 1 .. m : Append(frame, e)[i] = frame[i]
          /\ Append(frame, e)[m + 1] = e
      BY <3>1, AppendProperties
    <3>4. QED
      BY <2>3, <3>2, <3>3 DEF e
  <2>4. QED
    BY <2>2, <2>3
<1> HIDE DEF m
<1>11. TypeInv'
  <2>1. now' \in Slots /\ following' \in Slots
    BY <1>1, <1>7, <1>8
  <2>2. QED
    BY <1>1, <1>9, <1>10, <2>1 DEF IInv, TypeInv
<1>12. JobInv'
  BY <1>1, <1>4 DEF IInv, JobInv, Masked, Size
<1>13. PlanInv'
  BY <1>1, <1>2, <1>4 DEF IInv, PlanInv
<1>14. CommandPhase' <=> CommandPhase /\ ~last
  <2>1. CASE last
    <3>1. now'.cnt # 0 => now'.area # "command"
      BY <1>1, <2>1 DEF IInv, LeftInv
    <3>2. QED
      BY <2>1, <3>1 DEF CommandPhase
  <2>2. CASE ~last
    BY <1>1, <1>8, <2>2 DEF CommandPhase
  <2>3. QED
    BY <2>1, <2>2
<1>15. LeftInv'
  <2>1. CASE last
    <3>1. following'.cnt = 0 /\ (now'.cnt > 0 => following.cnt # 0)
      BY <1>1, <1>7, <2>1
    <3>2. QED
      BY <1>1, <1>2, <3>1 DEF IInv, LeftInv
  <2>2. CASE ~last
    BY <1>1, <1>2, <1>14, <2>2 DEF IInv, LeftInv
  <2>3. QED
    BY <2>1, <2>2

<1>16. FrameInv'
  <2>1. ASSUME NEW k \in 1 .. Len(frame'), k <= n
        PROVE  frame'[k] = s[k]
    <3>1. CASE dead
      <4>1. Len(frame') = m /\ frame' = frame
        BY <1>10, <3>1 DEF m
      <4>2. QED
        BY <1>6, <2>1, <4>1
    <3>2. CASE ~dead /\ k <= m
      <4>1. k \in 1 .. m
        BY <1>6, <1>10, <3>2
      <4>2. QED
        BY <1>6, <1>10, <2>1, <4>1
    <3>3. CASE ~dead /\ ~(k <= m)
      <4>1. k = m + 1
        BY <1>6, <1>10, <3>3
      <4>2. CommandPhase
        BY <1>5, <1>6, <2>1, <3>3, <4>1
      <4>3. now.area = "command" /\ m = now.at - 1 /\ now.at \in now.at .. n
        BY <1>5, <1>6, <1>8, <2>1, <3>3, <4>1, <4>2 DEF CommandPhase
      <4>4. ram["command"][now.at] = s[now.at]
        BY <1>6, <4>2, <4>3
      <4>5. k = now.at
        BY <1>8, <4>1, <4>3
      <4>6. QED
        BY <1>10, <3>3, <4>1, <4>3, <4>4, <4>5
    <3>4. QED
      BY <3>1, <3>2, <3>3
  <2>2. ASSUME CommandPhase'
        PROVE  /\ now'.at >= 1 /\ now'.at + now'.cnt = n + 1
               /\ \A k \in now'.at .. n : ram'["command"][k] = s[k]
               /\ ~dead => Len(frame') = now'.at - 1
    <3>1. CommandPhase /\ ~last
      BY <1>14, <2>2
    <3>2. /\ now.area = "command" /\ now'.at = now.at + 1 /\ now'.cnt = now.cnt - 1
          /\ now.at >= 1 /\ now.at + now.cnt = n + 1
          /\ \A k \in now.at .. n : ram["command"][k] = s[k]
          /\ ~dead => m = now.at - 1
      BY <1>6, <1>8, <3>1 DEF CommandPhase
    <3>3. ASSUME NEW k \in (now.at + 1) .. n PROVE ram'["command"][k] = s[k]
      <4>1. k \in now.at .. n /\ k # now.at
        BY <1>5, <1>8
      <4>2. QED
        BY <1>9, <3>2, <4>1
    <3>4. ~dead => Len(frame') = now'.at - 1
      BY <1>6, <1>8, <1>10, <3>2
    <3>5. now'.at >= 1 /\ now'.at + now'.cnt = n + 1
      BY <1>5, <1>8, <3>2
    <3>6. QED
      BY <3>2, <3>3, <3>4, <3>5
  <2>3. ASSUME ~CommandPhase', ~dead
        PROVE  Len(frame') >= n
    <3>1. CASE CommandPhase
      <4>1. now.cnt = 1 /\ now.at + now.cnt = n + 1 /\ m = now.at - 1
        BY <1>6, <1>14, <2>3, <3>1
      <4>2. QED
        BY <1>5, <1>8, <1>10, <2>3, <4>1
    <3>2. CASE ~CommandPhase
      BY <1>5, <1>6, <1>10, <2>3, <3>2
    <3>3. QED
      BY <3>1, <3>2
  <2>4. QED
    BY <1>1, <1>2, <1>6, <2>1, <2>2, <2>3 DEF FrameInv
<1>17. StatusInv'
  <2>1. SUFFICES ASSUME Asking
                 PROVE  IF CommandPhase' THEN ram'["command"][2] = 0
                        ELSE /\ ram'["command"][2] \in {255, code, code + 128}
                             /\ ram'["command"][2] = 255 => dead
                             /\ ram'["command"][2] = code + 128 => dead \/ op = NoCommand
    BY <1>1, <1>2 DEF StatusInv, Status
  <2>2. n = 2 /\ s[2] = 0
    BY <2>1, AskingSends DEF n, s
  <2>3. ASSUME CommandPhase' PROVE ram'["command"][2] = 0
    <3>1. /\ now'.at + now'.cnt = 3 /\ now'.cnt > 0 /\ now'.at \in Nat /\ now'.cnt \in Nat
          /\ \A k \in now'.at .. 2 : ram'["command"][k] = s[k]
      BY <1>1, <1>2, <1>11, <1>16, <2>2, <2>3 DEF FrameInv, CommandPhase, TypeInv, Slots
    <3>2. 2 \in now'.at .. 2
      BY <3>1
    <3>3. QED
      BY <2>2, <3>1, <3>2
  <2>4. CASE CommandPhase /\ last
    <3>1. now.at = 2 /\ now.area = "command" /\ (~dead => m = 1)
      BY <1>6, <1>8, <2>2, <2>4 DEF CommandPhase
    <3>2. ram'["command"][2] = x
      BY <1>7, <1>9, <3>1
    <3>3. dead => x = 255
      BY <1>1, AnswerIs DEF IInv, x
    <3>4. ~dead => x = code + (IF op = NoCommand THEN 128 ELSE 0)
      BY <1>1, <2>1, <3>1, AnswerIs DEF IInv, x, m
    <3>5. code \in Nat /\ code < 127
      BY StatusMeans DEF IInv, TypeInv
    <3>6. ~CommandPhase'
      BY <1>14, <2>4
    <3>7. CASE dead
      BY <3>2, <3>3, <3>5, <3>6, <3>7
    <3>8. CASE ~dead /\ op = NoCommand
      BY <3>2, <3>4, <3>5, <3>6, <3>8
    <3>9. CASE ~dead /\ op # NoCommand
      BY <3>2, <3>4, <3>5, <3>6, <3>9
    <3>10. QED
      BY <3>7, <3>8, <3>9
  <2>5. CASE ~CommandPhase
    <3>1. now.area # "command"
      BY <1>1, <2>5 DEF CommandPhase
    <3>2. ram'["command"] = ram["command"]
      BY <1>9, <3>1 DEF Areas
    <3>3. ~CommandPhase'
      BY <1>14, <2>5
    <3>4. QED
      BY <1>1, <2>1, <2>5, <3>2, <3>3 DEF IInv, StatusInv, Status
  <2>6. QED
    BY <1>14, <2>3, <2>4, <2>5
<1>18. ReadInv'
  <2>1. SUFFICES ASSUME Current.do = "read"
                 PROVE  /\ CommandPhase' =>
                              /\ ReadSoFar(0)'
                              /\ following' = [area |-> Area, at |-> 1, cnt |-> job.len]
                        /\ ~CommandPhase' /\ now'.cnt > 0 =>
                              /\ now'.area = Area /\ now'.at >= 1
                              /\ now'.at + now'.cnt = job.len + 1
                              /\ ~dead => Len(frame') = 8 + now'.at - 1
                              /\ ReadSoFar(now.at - 1)'
                        /\ now'.cnt = 0 => ReadSoFar(job.len)'
    BY <1>1, <1>2, <1>4 DEF ReadInv
  <2>2. n = 8
    BY <1>3, <2>1, HeaderArrives DEF n
  <2>3. Area \in Areas /\ Area # "command" /\ DOMAIN ram[Area] = 1 .. RamSize
        /\ job.len \in 1 .. RamSize
    BY <1>4, <1>7, SpiAssumption DEF Area, Areas, IInv, JobInv
  <2>4. CASE CommandPhase
    <3>1. (op = NoCommand \/ dead) /\ following = [area |-> Area, at |-> 1, cnt |-> job.len]
      BY <1>1, <2>1, <2>4 DEF IInv, ReadInv, ReadSoFar
    <3>2. 1 .. 0 = {} /\ 1 - 1 = 0
      OBVIOUS
    <3>3. ReadSoFar(0)'
      BY <1>1, <3>1, <3>2 DEF ReadSoFar
    <3>4. CASE last
      <4>1. now' = following /\ ~CommandPhase'
        BY <1>1, <1>14, <3>4
      <4>2. now'.area = Area /\ now'.at = 1 /\ now'.cnt = job.len
        BY <3>1, <4>1
      <4>3. ~dead => Len(frame') = 8
        BY <1>6, <1>8, <1>10, <2>2, <2>4, <3>4
      <4>4. ReadSoFar(now.at - 1)'
        BY <3>2, <3>3, <4>2 DEF ReadSoFar
      <4>5. QED
        BY <2>3, <4>1, <4>2, <4>3, <4>4
    <3>5. CASE ~last
      BY <1>1, <1>8, <1>14, <2>4, <3>1, <3>3, <3>5
    <3>6. QED
      BY <3>4, <3>5
  <2>5. CASE ~CommandPhase
    <3>1. /\ now.area = Area /\ now.at >= 1 /\ now.at + now.cnt = job.len + 1
          /\ ~dead => m = 8 + now.at - 1
          /\ ReadSoFar(now.at - 1)
      BY <1>1, <2>1, <2>5 DEF IInv, ReadInv, m
    <3>2. now.at \in 1 .. RamSize /\ now.at \in Nat
      <4>1. now.at <= job.len
        BY <1>1, <1>8, <2>3, <3>1
      <4>2. RamSize \in Nat
        BY SpiAssumption
      <4>3. QED
        BY <1>8, <2>3, <3>1, <4>1, <4>2
    <3>3. ram'[Area][now.at] = x /\ \A k : k # now.at => ram'[Area][k] = ram[Area][k]
      BY <1>9, <2>3, <3>1, <3>2
    <3>4. dead => x = Erased
      BY <1>1, AnswerIs DEF IInv, x, Erased
    <3>5. ~dead /\ op = NoCommand => x = Cell(job.addr + now.at - 1)
      <4>1. SUFFICES ASSUME ~dead, op = NoCommand PROVE x = Cell(job.addr + now.at - 1)
        OBVIOUS
      <4>2. m = 8 + now.at - 1 /\ m >= 8
        BY <3>1, <3>2, <4>1
      <4>3. x = Cell(job.addr + m - 8)
        BY <1>1, <2>1, <4>1, <4>2, AnswerIs DEF IInv, x, m
      <4>4. job.addr \in Nat
        BY DEF IInv, JobInv
      <4>5. job.addr + m - 8 = job.addr + now.at - 1
        BY <3>2, <4>2, <4>4
      <4>6. QED
        BY <4>3, <4>5
    <3>6. PICK p \in Nat : p = now.at
      BY <3>2
    <3>7. ReadSoFar(p)'
      <4>1. \A i \in 1 .. p : i = p \/ i \in 1 .. (p - 1)
        BY <3>2, <3>6
      <4>2. \A a : Cell(a)' = Cell(a)
        BY <1>1 DEF Cell
      <4>3. CASE /\ op = NoCommand
                 /\ \A i \in 1 .. (p - 1) :
                       \/ ram[Area][i] = Cell(job.addr + i - 1)
                       \/ dead /\ ram[Area][i] = Erased
        <5>1. ASSUME NEW i \in 1 .. p
              PROVE  \/ ram'[Area][i] = Cell(job.addr + i - 1)
                     \/ dead /\ ram'[Area][i] = Erased
          <6>1. CASE i = p
            BY <3>3, <3>4, <3>5, <3>6, <4>3, <6>1
          <6>2. CASE i # p
            BY <3>3, <3>6, <4>1, <4>3, <6>2
          <6>3. QED
            BY <6>1, <6>2
        <5>2. QED
          BY <1>1, <1>2, <4>2, <4>3, <5>1 DEF ReadSoFar, Cell
      <4>4. CASE dead /\ \A i \in 1 .. (p - 1) : ram[Area][i] = Erased
        <5>1. ASSUME NEW i \in 1 .. p PROVE ram'[Area][i] = Erased
          BY <3>3, <3>4, <3>6, <4>1, <4>4
        <5>2. QED
          BY <1>1, <1>2, <4>4, <5>1 DEF ReadSoFar
      <4>5. QED
        BY <3>1, <3>6, <4>3, <4>4 DEF ReadSoFar
    <3>8. CASE last
      <4>1. now'.cnt = 0
        <5>1. following.cnt = 0
          BY <1>1, <2>5 DEF IInv, LeftInv
        <5>2. QED
          BY <1>1, <3>8, <5>1
      <4>2. p = job.len
        BY <2>3, <3>1, <3>2, <3>6, <3>8
      <4>3. ReadSoFar(job.len)'
        BY <1>1, <3>7, <4>2 DEF ReadSoFar
      <4>4. QED
        BY <1>14, <2>5, <4>1, <4>3
    <3>9. CASE ~last
      <4>1. /\ now'.area = Area /\ now'.at = now.at + 1 /\ now'.cnt = now.cnt - 1
            /\ now'.cnt # 0
        BY <1>8, <3>1, <3>9
      <4>2. now'.at - 1 = p /\ now'.at >= 1 /\ now'.at + now'.cnt = job.len + 1
        <5>1. now.at \in Nat /\ now.cnt \in Nat /\ now.at + now.cnt = job.len + 1
          BY <1>8, <3>1
        <5>2. now'.at = now.at + 1 /\ now'.cnt = now.cnt - 1 /\ now.at >= 1
          BY <3>1, <4>1
        <5>3. QED
          BY ONLY <3>6, <5>1, <5>2
      <4>3. ~dead => Len(frame') = 8 + now'.at - 1
        BY <1>6, <1>10, <3>1, <3>2, <4>1
      <4>4. ReadSoFar(now.at - 1)'
        BY <3>7, <4>2 DEF ReadSoFar
      <4>5. QED
        BY <1>14, <2>5, <4>1, <4>2, <4>3, <4>4
    <3>10. QED
      BY <3>8, <3>9
  <2>6. QED
    BY <2>4, <2>5
<1>19. KeepInv'
  <2>1. SUFFICES ASSUME job.kind = "store", ~leftover
                 PROVE  /\ Probing =>
                              /\ \A i \in 1 .. job.len : ram'["scratch"][i] = job.bytes[i]
                              /\ following'.cnt = 0 /\ (now'.cnt = 0 \/ CommandPhase')
                        /\ ~Probing => \A i \in 1 .. job.len : keep[i] = job.bytes[i]
    BY <1>1, <1>2, <1>4 DEF KeepInv
  <2>2. ~Probing => \A i \in 1 .. job.len : keep[i] = job.bytes[i]
    BY <1>1, <2>1 DEF IInv, KeepInv
  <2>3. ASSUME Probing
        PROVE  /\ \A i \in 1 .. job.len : ram'["scratch"][i] = job.bytes[i]
               /\ following'.cnt = 0 /\ (now'.cnt = 0 \/ CommandPhase')
    <3>1. /\ \A i \in 1 .. job.len : ram["scratch"][i] = job.bytes[i]
          /\ following.cnt = 0 /\ CommandPhase
      BY <1>1, <2>1, <2>3 DEF IInv, KeepInv
    <3>2. ram'["scratch"] = ram["scratch"]
      BY <1>9, <3>1 DEF CommandPhase, Areas
    <3>3. QED
      BY <1>1, <1>7, <1>14, <3>1, <3>2
  <2>4. QED
    BY <2>2, <2>3
<1>20. QED
  BY <1>11, <1>12, <1>13, <1>15, <1>16, <1>17, <1>18, <1>19 DEF IInv


\* A call that gives up leaves nothing to be right about but what is left behind.
LEMMA GivesUp ==
    ASSUME IInv, pc = "transfer", Deselect, now' = Nothing,
           UNCHANGED <<following, ram, job, asked, leftover, calls>>,
           pc' = "idle", todo' = <<>>, result' \in {"notfound", "inval", "failed"}
    PROVE  IInv'
<1>1. frame' = <<>> /\ code' = code /\ result' # "ok"
  BY DEF Deselect
<1>2. TypeInv'
  <2>1. frame' \in Seq({})
    BY <1>1, EmptySeq
  <2>2. QED
    BY <1>1, <2>1, NothingFits DEF IInv, TypeInv
<1>3. JobInv'
  BY <1>1 DEF IInv, JobInv
<1>4. PlanInv'
  BY <1>1 DEF PlanInv
<1>5. LeftInv'
  BY DEF IInv, LeftInv
<1>6. FrameInv' /\ StatusInv' /\ ReadInv' /\ KeepInv'
  BY <1>1 DEF FrameInv, StatusInv, ReadInv, KeepInv
<1>7. QED
  BY <1>2, <1>3, <1>4, <1>5, <1>6 DEF IInv

\* A call that goes on has its next step to do, on the chip it has found, and a read
\* behind it or a read of all bytes in front of it.
LEMMA GoesOn ==
    ASSUME IInv, pc = "transfer", Deselect, now' = Nothing,
           UNCHANGED <<following, ram, job, asked, leftover, calls>>,
           pc' = "next", result' = result,
           following.cnt = 0, ~Probing', Known', todo' = <<>> \/ Whole(todo)',
           todo' # <<>> /\ Current'.do = "read" => op' = NoCommand \/ dead,
           todo' = <<>> => ReadSoFar(job.len) /\ op' = op,
           job.kind = "store" /\ ~leftover => \A i \in 1 .. job.len : keep'[i] = job.bytes[i]
    PROVE  IInv'
<1>1. frame' = <<>> /\ code' = code /\ dead' = dead /\ cells' = cells
  BY DEF Deselect
<1>2. result # "ok" /\ job.len # 0
  BY DEF IInv, PlanInv, JobInv
<1>3. TypeInv'
  <2>1. frame' \in Seq({})
    BY <1>1, EmptySeq
  <2>2. QED
    BY <1>1, <2>1, NothingFits DEF IInv, TypeInv
<1>4. JobInv'
  BY <1>1 DEF IInv, JobInv, Masked
<1>5. PlanInv'
  BY <1>2 DEF PlanInv
<1>6. LeftInv'
  BY DEF IInv, LeftInv
<1>7. FrameInv' /\ StatusInv'
  BY <1>1 DEF FrameInv, StatusInv
<1>8. ReadInv'
  <2>1. todo' # <<>> /\ Current'.do = "read" => ReadSoFar(0)'
    <3>1. 1 .. 0 = {}
      OBVIOUS
    <3>2. QED
      BY <1>1, <3>1 DEF ReadSoFar
  <2>2. todo' = <<>> => ReadSoFar(job.len)'
    BY <1>1 DEF ReadSoFar, Area, Cell
  <2>3. QED
    BY <1>2, <2>1, <2>2 DEF ReadInv
<1>9. KeepInv'
  BY <1>2 DEF KeepInv
<1>10. QED
  BY <1>3, <1>4, <1>5, <1>6, <1>7, <1>8, <1>9 DEF IInv

\* The answer of the probe has come, or has not.
LEMMA ProbeKeeps ==
    ASSUME IInv, NEW ok \in BOOLEAN, TransferEnds(ok), Current.do = "probe"
    PROVE  IInv'
<1>1. /\ pc = "transfer" /\ (ok <=> now.cnt = 0) /\ Deselect /\ Probed /\ now' = Nothing
      /\ UNCHANGED <<following, ram, job, asked, leftover, calls>>
  BY DEF TransferEnds, After
<1>2. Probing /\ Asking
  BY <1>1, AtStep DEF IInv
<1> DEFINE d == Device(ProbedCode(Status))
<1>3. d # NoDevice => d = Device(code) /\ code \in KnownCodes
  <2>1. Status \in {0, 255, code, code + 128}
    BY <1>1, <1>2 DEF IInv, StatusInv
  <2>2. code \in Codes
    BY DEF IInv, TypeInv
  <2>3. QED
    BY <2>1, <2>2, StatusMeans
<1>4. /\ device' = d
      /\ d = NoDevice => Return("notfound")
      /\ d # NoDevice =>
            /\ keep' = IF job.kind = "store" THEN ram["scratch"] ELSE keep
            /\ ~Accepted(d) => Return("inval")
            /\ Accepted(d) => pc' = "next" /\ todo' = Plan(d) /\ result' = result
  BY <1>1 DEF Probed, Plan, d
<1> HIDE DEF d
<1>5. CASE d = NoDevice
  BY <1>1, <1>4, <1>5, GivesUp DEF Return
<1>6. CASE d # NoDevice /\ ~Accepted(d)
  BY <1>1, <1>4, <1>6, GivesUp DEF Return
<1>7. CASE d # NoDevice /\ Accepted(d)
  <2>1. code \in KnownCodes /\ d = Device(code) /\ code' = code
    BY <1>1, <1>3, <1>7 DEF Deselect
  <2>2. /\ job.kind \in {"store", "load"} /\ job.addr \in Nat /\ job.len \in Nat \ {0}
        /\ Masked(job.addr) = job.addr \/ Masked(job.addr) > Size(d)
    BY <1>1, <2>1, SpiAssumption DEF IInv, JobInv
  <2>3. Whole(Plan(d)) /\ Head(Plan(d)).do \in {"wait", "load"}
    BY <1>7, <2>1, <2>2, PlanIsWhole
  <2>4. Whole(todo)'
    <3>1. GoodSteps' = GoodSteps
      BY <1>1, <2>1 DEF GoodSteps, Chip
    <3>2. Whole(todo)' <=> Whole(todo')
      BY <3>1 DEF Whole, Part
    <3>3. QED
      BY <1>4, <1>7, <2>3, <3>2
  <2>5. todo' # <<>> /\ Current'.do # "read" /\ ~Probing'
    <3>1. todo' = Plan(d)
      BY <1>4, <1>7
    <3>2. Plan(d) # <<Probe>> /\ Plan(d) # <<>>
      BY <2>3, ProbeIsAlone
    <3>3. QED
      BY <2>3, <3>1, <3>2 DEF Current, Probing
  <2>6. Known'
    BY <1>4, <2>1 DEF Known
  <2>7. following.cnt = 0
    <3>1. SUFFICES ASSUME following.cnt # 0 PROVE FALSE
      OBVIOUS
    <3>2. CommandPhase
      BY <1>1, <3>1 DEF IInv, LeftInv
    <3>3. Status = 0
      BY <1>1, <1>2, <3>2 DEF IInv, StatusInv
    <3>4. d = NoDevice
      BY <3>3, SMT DEF d, ProbedCode, Device
    <3>5. QED
      BY <1>7, <3>4
  <2>8. job.kind = "store" /\ ~leftover => \A i \in 1 .. job.len : keep'[i] = job.bytes[i]
    BY <1>1, <1>2, <1>4, <1>7 DEF IInv, KeepInv
  <2>9. QED
    BY ONLY IInv, <1>1, <1>4, <1>7, <2>4, <2>5, <2>6, <2>7, <2>8, GoesOn
<1>8. QED
  BY <1>5, <1>6, <1>7

\* The other transfers are over.
LEMMA StepKeeps ==
    ASSUME IInv, NEW ok \in BOOLEAN, TransferEnds(ok), Current.do # "probe"
    PROVE  IInv'
<1>1. /\ pc = "transfer" /\ (ok <=> now.cnt = 0) /\ Deselect /\ now' = Nothing
      /\ UNCHANGED <<following, ram, job, asked, leftover, calls, device, keep>>
      /\ IF Current.do = "wait" THEN Polled ELSE IF ok THEN GoOn ELSE Return("failed")
      /\ code' = code
  BY DEF TransferEnds, After, Deselect
<1>2. /\ Known /\ Whole(todo) /\ ~Probing /\ Current \in GoodSteps
      /\ (Asking <=> Current.do = "wait")
  BY <1>1, AtStep DEF IInv
<1>3. GoodSteps' = GoodSteps /\ Known'
  BY <1>1, <1>2 DEF GoodSteps, Chip, Known
<1>4. Whole(todo)' <=> Whole(todo')
  BY <1>3 DEF Whole, Part
<1>5. job.kind = "store" /\ ~leftover => \A i \in 1 .. job.len : keep'[i] = job.bytes[i]
  BY <1>1, <1>2 DEF IInv, KeepInv
<1>6. Whole(todo') => ~Probing' /\ todo' # <<>>
  BY ProbeIsAlone DEF Probing
<1>7. CASE Return("failed")
  BY <1>1, <1>7, GivesUp DEF Return
<1>8. CASE GoOn /\ (IF Current.do = "wait" THEN Status >= 128 ELSE ok)
  <2>1. pc' = "next" /\ todo' = Tail(todo) /\ result' = result
    BY <1>8 DEF GoOn
  <2>2. /\ Current.do = "read" => todo' = <<>>
        /\ Current.do # "read" => Whole(todo')
        /\ Current.do \notin {"wait", "read"} => Current'.do = "wait"
    BY <1>2, <2>1, WholeGoesOn DEF Current
  <2>3. Current.do = "wait" \/ ok
    BY <1>8
  <2>4. following.cnt = 0
    BY <1>1, <2>3 DEF IInv, LeftInv, CommandPhase
  <2>5. todo' # <<>> /\ Current'.do = "read" => op' = NoCommand \/ dead
    <3>1. SUFFICES ASSUME todo' # <<>>, Current'.do = "read"
                   PROVE  op' = NoCommand \/ dead
      OBVIOUS
    <3>2. Current.do = "wait"
      BY <2>2, <3>1
    <3>3. Status >= 128 /\ Asking
      BY <1>2, <1>8, <3>2
    <3>4. code \in Nat /\ code < 127
      BY StatusMeans DEF IInv, TypeInv
    <3>5. dead \/ op = NoCommand
      <4>1. ~CommandPhase
        BY <1>1, <3>3 DEF IInv, StatusInv
      <4>2. /\ Status \in {255, code, code + 128}
            /\ Status = 255 => dead
            /\ Status = code + 128 => dead \/ op = NoCommand
        BY <1>1, <3>3, <4>1 DEF IInv, StatusInv
      <4>3. Status # code
        BY <3>3, <3>4
      <4>4. QED
        BY <4>2, <4>3
    <3>6. op' = op
      BY <1>1, <3>2, BusyAfter DEF IInv
    <3>7. QED
      BY <3>5, <3>6
  <2>6. todo' = <<>> => ReadSoFar(job.len) /\ op' = op
    <3>1. SUFFICES ASSUME todo' = <<>> PROVE ReadSoFar(job.len) /\ op' = op
      OBVIOUS
    <3>2. Current.do = "read"
      BY <1>6, <2>2, <3>1
    <3>3. now.cnt = 0
      BY <1>1, <2>3, <3>2
    <3>4. QED
      BY <1>1, <3>2, <3>3, BusyAfter DEF IInv, ReadInv
  <2>7. todo' = <<>> \/ Whole(todo)'
    BY <1>4, <2>2
  <2>8. ~Probing'
    BY <1>6, <2>2, ProbeIsAlone DEF Probing
  <2>9. QED
    BY ONLY IInv, <1>1, <1>3, <1>5, <2>1, <2>4, <2>5, <2>6, <2>7, <2>8, GoesOn
<1>9. CASE Current.do = "wait" /\ pc' = "next" /\ todo' = todo /\ result' = result
  <2>1. Whole(todo') /\ Current' = Current
    BY <1>2, <1>9 DEF Current
  <2>2. following.cnt = 0
    BY <1>1, <1>9 DEF IInv, LeftInv
  <2>3. QED
    BY <1>1, <1>3, <1>4, <1>5, <1>6, <1>9, <2>1, <2>2, GoesOn
<1>10. QED
  BY <1>1, <1>7, <1>8, <1>9 DEF Polled


LEMMA CompareKeeps ==
    ASSUME IInv, Compare
    PROVE  IInv'
<1>1. /\ pc = "next" /\ todo = <<>>
      /\ pc' = "idle" /\ todo' = <<>>
      /\ result' = IF job.kind = "store"
                      /\ \E i \in 1 .. job.len : ram["scratch"][i] # keep[i]
                   THEN "failed" ELSE "ok"
      /\ UNCHANGED <<bus, pdc, device, ram, keep, job, asked, heard, leftover, calls>>
  BY DEF Compare, Return
<1>2. /\ code' = code /\ cells' = cells /\ op' = op /\ frame' = frame /\ dead' = dead
      /\ now' = now /\ following' = following
  BY <1>1 DEF bus, pdc
<1>3. Area' = Area /\ frame = <<>>
  BY <1>1 DEF Area, IInv, FrameInv
<1>4. ~Probing
  BY <1>1, ProbeIsAlone DEF Probing
<1>5. TypeInv'
  BY <1>1, <1>2 DEF IInv, TypeInv
<1>6. JobInv'
  BY <1>1 DEF IInv, JobInv
<1>7. PlanInv' /\ LeftInv' /\ FrameInv' /\ StatusInv'
  BY <1>1, <1>2, <1>3 DEF IInv, PlanInv, LeftInv, FrameInv, StatusInv
<1>8. ReadInv'
  <2>1. ReadSoFar(job.len)
    BY <1>1 DEF IInv, ReadInv
  <2>2. ReadSoFar(job.len)'
    BY <1>1, <1>2, <1>3, <2>1 DEF ReadSoFar, Cell
  <2>3. QED
    BY <1>1, <2>2 DEF ReadInv
<1>9. KeepInv'
  <2>1. ASSUME job.kind = "store", ~leftover, result' = "ok"
        PROVE  /\ \A i \in 1 .. job.len : keep[i] = job.bytes[i]
               /\ \A i \in 1 .. job.len : ram["scratch"][i] = keep[i]
    BY <1>1, <1>4, <2>1 DEF IInv, KeepInv
  <2>2. QED
    BY <1>1, <2>1 DEF KeepInv
<1>10. QED
  BY <1>5, <1>6, <1>7, <1>8, <1>9 DEF IInv

LEMMA CallKeeps ==
    ASSUME IInv, NEW rq \in Requests, Call(rq)
    PROVE  IInv'
<1>1. /\ pc = "idle" /\ pc' = "next" /\ todo' = <<Probe>> /\ result' = "none"
      /\ job' = [kind |-> rq.kind, addr |-> rq.addr, len |-> Len(rq.bytes),
                 bytes |-> rq.bytes]
      /\ ram' = IF rq.kind = "store"
                THEN [ram EXCEPT !["scratch"] =
                       [i \in DOMAIN @ |-> IF i <= Len(rq.bytes) THEN rq.bytes[i] ELSE @[i]]]
                ELSE ram
      /\ leftover' = FALSE
      /\ UNCHANGED <<bus, pdc, keep, asked, heard>>
  BY DEF Call
<1>2. /\ code' = code /\ frame' = frame /\ now' = now /\ following' = following
  BY <1>1 DEF bus, pdc
<1>3. /\ rq.kind \in {"store", "load"} /\ rq.addr \in Nat
      /\ Len(rq.bytes) \in 1 .. RamSize /\ RamSize \in Nat
  BY SpiAssumption
<1>4. /\ job'.kind = rq.kind /\ job'.addr = rq.addr /\ job'.len = Len(rq.bytes)
      /\ job'.bytes = rq.bytes
  BY <1>1
<1>5. Probing' /\ Current'.do = "probe" /\ frame' = <<>>
  BY <1>1, <1>2, ProbeIsAlone DEF Probing, Current, IInv, FrameInv
<1>6. /\ DOMAIN ram' = Areas /\ DOMAIN ram'["command"] = 1 .. 8
      /\ DOMAIN ram'["scratch"] = 1 .. RamSize /\ DOMAIN ram'["compr"] = 1 .. RamSize
      /\ rq.kind = "store" =>
            \A i \in 1 .. RamSize :
                i <= Len(rq.bytes) => ram'["scratch"][i] = rq.bytes[i]
  <2>1. /\ DOMAIN ram = Areas /\ DOMAIN ram["command"] = 1 .. 8
        /\ DOMAIN ram["scratch"] = 1 .. RamSize /\ DOMAIN ram["compr"] = 1 .. RamSize
    BY DEF IInv, TypeInv
  <2>2. CASE rq.kind = "store"
    <3> DEFINE new == [i \in 1 .. RamSize |-> IF i <= Len(rq.bytes) THEN rq.bytes[i]
                                              ELSE ram["scratch"][i]]
    <3>1. ram' = [ram EXCEPT !["scratch"] = new]
      BY <1>1, <2>1, <2>2
    <3>2. DOMAIN new = 1 .. RamSize
          /\ \A i \in 1 .. RamSize : i <= Len(rq.bytes) => new[i] = rq.bytes[i]
      OBVIOUS
    <3> HIDE DEF new
    <3>3. DOMAIN ram' = Areas /\ ram'["scratch"] = new /\ ram'["command"] = ram["command"]
          /\ ram'["compr"] = ram["compr"]
      BY <2>1, <3>1 DEF Areas
    <3>4. QED
      BY <2>1, <3>2, <3>3
  <2>3. CASE rq.kind # "store"
    BY <1>1, <2>1, <2>3
  <2>4. QED
    BY <2>2, <2>3
<1>7. TypeInv'
  <2>1. \E S : frame' \in Seq(S)
    BY <1>2 DEF IInv, TypeInv
  <2>2. QED
    BY <1>1, <1>2, <1>6, <2>1 DEF IInv, TypeInv
<1>8. JobInv'
  <2>1. rq.addr = job'.addr
    BY <1>4
  <2>2. \/ Masked(rq.addr) = rq.addr
        \/ \A c \in KnownCodes : Masked(rq.addr) > Size(Device(c))
    <3>1. KnownCodes \subseteq DOMAIN Datasheet
      BY DEF KnownCodes, Datasheet
    <3>2. QED
      BY <3>1, RequestsName
  <2>3. \/ Masked(job'.addr) = job'.addr
        \/ \A c \in KnownCodes : Masked(job'.addr) > Size(Device(c))
    BY <2>1, <2>2
  <2>4. job'.len # 0 /\ job'.len \in 0 .. RamSize
    BY <1>3, <1>4
  <2>5. QED
    BY <1>3, <1>4, <2>3, <2>4 DEF JobInv, Masked
<1>9. PlanInv'
  BY <1>1, <1>5 DEF PlanInv
<1>10. LeftInv'
  BY <1>1, <1>2, <1>5 DEF IInv, LeftInv
<1>11. FrameInv' /\ StatusInv' /\ ReadInv'
  BY <1>1, <1>5, ProbeIsAlone DEF FrameInv, StatusInv, ReadInv
<1>12. KeepInv'
  <2>1. job'.kind = "store" => \A i \in 1 .. job'.len : ram'["scratch"][i] = job'.bytes[i]
    <3>1. \A i \in 1 .. Len(rq.bytes) : i \in 1 .. RamSize /\ i <= Len(rq.bytes)
      BY <1>3
    <3>2. QED
      BY <1>4, <1>6, <3>1
  <2>2. QED
    BY <1>1, <1>5, <2>1 DEF KeepInv
<1>13. QED
  BY <1>7, <1>8, <1>9, <1>10, <1>11, <1>12 DEF IInv

\* What the chip and the bus do on their own.
LEMMA ChipKeeps ==
    ASSUME IInv, ChipDone \/ BusDies
    PROVE  IInv'
<1>1. /\ code' = code /\ frame' = frame
      /\ UNCHANGED <<pdc, driver, asked, heard, leftover, calls>>
      /\ \/ op # NoCommand /\ op' = NoCommand /\ dead' = dead
         \/ ~dead /\ dead' = TRUE /\ op' = op /\ cells' = cells
  BY DEF ChipDone, BusDies
<1>2. /\ now' = now /\ following' = following /\ pc' = pc /\ todo' = todo
      /\ device' = device /\ ram' = ram /\ keep' = keep /\ job' = job /\ result' = result
      /\ asked' = asked /\ leftover' = leftover
  BY <1>1 DEF pdc, driver
<1>3. /\ Current' = Current /\ Asking' = Asking /\ Probing' = Probing
      /\ Sent' = Sent /\ SentSize' = SentSize /\ Meant' = Meant
      /\ Known' = Known /\ Area' = Area /\ Whole(todo)' = Whole(todo)
  BY <1>1, <1>2, SameStep
<1>4. CommandPhase' = CommandPhase /\ (dead => dead') /\ (op = NoCommand => op' = NoCommand)
  BY <1>1, <1>2 DEF CommandPhase
<1>5. \A k : ReadSoFar(k) => ReadSoFar(k)'
  <2>1. SUFFICES ASSUME NEW k, ReadSoFar(k) PROVE ReadSoFar(k)'
    OBVIOUS
  <2>2. CASE dead /\ \A i \in 1 .. k : ram[Area][i] = Erased
    BY <1>2, <1>3, <1>4, <2>2 DEF ReadSoFar
  <2>3. CASE op = NoCommand /\ \A i \in 1 .. k : \/ ram[Area][i] = Cell(job.addr + i - 1)
                                                 \/ dead /\ ram[Area][i] = Erased
    BY <1>1, <1>2, <1>3, <2>3 DEF ReadSoFar, Cell
  <2>4. QED
    BY <2>1, <2>2, <2>3 DEF ReadSoFar
<1>6. TypeInv' /\ JobInv'
  BY <1>1, <1>2 DEF IInv, TypeInv, JobInv, Masked, Size
<1>7. PlanInv' /\ LeftInv'
  BY <1>2, <1>3, <1>4 DEF IInv, PlanInv, LeftInv
<1>8. FrameInv'
  BY <1>1, <1>2, <1>3, <1>4 DEF IInv, FrameInv
<1>9. StatusInv'
  BY <1>1, <1>2, <1>3, <1>4 DEF IInv, StatusInv, Status
<1>10. ReadInv'
  <2>1. ReadSoFar(0) => ReadSoFar(0)'
    BY <1>5
  <2>2. ReadSoFar(now.at - 1) => ReadSoFar(now.at - 1)'
    <3>1. PICK k : k = now.at - 1
      OBVIOUS
    <3>2. ReadSoFar(k) => ReadSoFar(k)'
      BY <1>5
    <3>3. QED
      BY <1>2, <3>1, <3>2 DEF ReadSoFar
  <2>3. ReadSoFar(job.len) => ReadSoFar(job.len)'
    <3>1. PICK k : k = job.len
      OBVIOUS
    <3>2. ReadSoFar(k) => ReadSoFar(k)'
      BY <1>5
    <3>3. QED
      BY <1>2, <3>1, <3>2 DEF ReadSoFar
  <2>4. QED
    BY <1>1, <1>2, <1>3, <1>4, <2>1, <2>2, <2>3 DEF IInv, ReadInv
<1>11. KeepInv'
  BY <1>2, <1>3, <1>4 DEF IInv, KeepInv
<1>12. QED
  BY <1>6, <1>7, <1>8, <1>9, <1>10, <1>11 DEF IInv


LEMMA InitIs == Init => IInv
<1> SUFFICES ASSUME Init PROVE IInv
  OBVIOUS
<1> USE DEF Init
<1>1. RamSize \in Nat
  BY SpiAssumption
<1>2. TypeInv
  <2>1. frame \in Seq({})
    BY EmptySeq
  <2>2. /\ DOMAIN ram = Areas /\ DOMAIN ram["command"] = 1 .. 8
        /\ DOMAIN ram["scratch"] = 1 .. RamSize /\ DOMAIN ram["compr"] = 1 .. RamSize
    BY DEF Areas, Blank
  <2>3. QED
    BY <2>1, <2>2, NothingFits DEF TypeInv
<1>3. JobInv
  BY <1>1 DEF JobInv
<1>4. PlanInv /\ LeftInv
  BY NothingFits DEF PlanInv, LeftInv
<1>5. FrameInv /\ StatusInv /\ ReadInv /\ KeepInv
  BY DEF FrameInv, StatusInv, ReadInv, KeepInv
<1>6. QED
  BY <1>2, <1>3, <1>4, <1>5 DEF IInv

LEMMA NextKeeps == IInv /\ [Next]_vars => IInv'
<1> SUFFICES ASSUME IInv, [Next]_vars PROVE IInv'
  OBVIOUS
<1>1. ASSUME NEW rq \in Requests, Call(rq) PROVE IInv'
  BY <1>1, CallKeeps
<1>2. CASE GetStatus
  BY <1>2, GetStatusKeeps
<1>3. CASE MainMemoryToBufferTransfert
  <2>1. SendCommand("load", DB_LOAD)
    BY <1>3 DEF MainMemoryToBufferTransfert
  <2>2. QED
    BY <2>1, CommandKeeps
<1>4. CASE PageErase
  <2>1. SendCommand("erase", DB_ERASE)
    BY <1>4 DEF PageErase
  <2>2. QED
    BY <2>1, CommandKeeps
<1>5. CASE WriteBufferToMain
  <2>1. SendCommand("program", DB_ERASE_PGM)
    BY <1>5 DEF WriteBufferToMain
  <2>2. QED
    BY <2>1, CommandKeeps
<1>6. CASE DataFlashWriteBuffer
  BY <1>6, WriteBufferKeeps
<1>7. CASE ContinuousRead
  BY <1>7, ReadKeeps
<1>8. CASE Exchange
  BY <1>8, ExchangeKeeps
<1>9. ASSUME NEW ok \in BOOLEAN, TransferEnds(ok) PROVE IInv'
  BY <1>9, ProbeKeeps, StepKeeps
<1>10. CASE Compare
  BY <1>10, CompareKeeps
<1>11. CASE ChipDone \/ BusDies
  BY <1>11, ChipKeeps
<1>12. CASE UNCHANGED vars
  <2>1. /\ UNCHANGED <<code, cells, buf, op, frame, floating, dead, now, following, pc,
                       todo, device, ram, keep, polls, job, result, asked, leftover>>
    BY <1>12 DEF vars, bus, pdc, driver
  <2>2. /\ Current' = Current /\ Asking' = Asking /\ Probing' = Probing
        /\ Sent' = Sent /\ SentSize' = SentSize /\ Meant' = Meant
        /\ Known' = Known /\ Area' = Area /\ Whole(todo)' = Whole(todo)
    BY <2>1, SameStep
  <2>3. CommandPhase' = CommandPhase
    BY <2>1 DEF CommandPhase
  <2>4. TypeInv' /\ JobInv' /\ PlanInv' /\ LeftInv' /\ KeepInv'
    BY <2>1, <2>2, <2>3 DEF IInv, TypeInv, JobInv, Masked, Size, PlanInv, LeftInv, KeepInv
  <2>5. FrameInv' /\ StatusInv'
    BY <2>1, <2>2, <2>3 DEF IInv, FrameInv, StatusInv, Status
  <2>6. ReadInv'
    BY <2>1, <2>2, <2>3 DEF IInv, ReadInv, ReadSoFar, Cell
  <2>7. QED
    BY <2>4, <2>5, <2>6 DEF IInv
<1>13. QED
  BY <1>1, <1>2, <1>3, <1>4, <1>5, <1>6, <1>7, <1>8, <1>9, <1>10, <1>11, <1>12 DEF Next

\* A data phase that a time-out has left behind goes nowhere but into the two bytes and
\* the rest of the next probe, for any device, any requests and any number of calls.
THEOREM LeftoverIsUsedUp == Spec => []LeftoverInProbe
<1>1. Init => IInv
  BY InitIs
<1>2. IInv /\ [Next]_vars => IInv'
  BY NextKeeps
<1>3. IInv => LeftoverInProbe
  BY DEF IInv, LeftInv, CommandPhase, LeftoverInProbe
<1>4. QED
  BY <1>1, <1>2, <1>3, PTL DEF Spec

\* On every device of the table and for every address, wherever a transfer is cut off,
\* the chip acts on the command it was sent or on none.
THEOREM CommandsAreObeyed == Spec => ChipObeys
<1>1. Init => IInv
  BY InitIs
<1>2. IInv /\ [Next]_vars => IInv'
  BY NextKeeps
<1>3. IInv /\ [Next]_vars =>
        [frame' = <<>> /\ pc = "transfer" /\ pc' # "transfer" =>
            /\ heard' \in {asked, NoCommand}
            /\ now.cnt = 0 /\ ~dead /\ op = NoCommand => heard' = asked]_vars
  <2> SUFFICES ASSUME IInv, [Next]_vars, pc = "transfer", pc' # "transfer"
               PROVE  /\ heard' \in {asked, NoCommand}
                      /\ now.cnt = 0 /\ ~dead /\ op = NoCommand => heard' = asked
    OBVIOUS
  <2>1. \E ok \in BOOLEAN : TransferEnds(ok)
    <3>1. ASSUME NEW rq \in Requests, Call(rq) PROVE FALSE
      BY <3>1 DEF Call
    <3>2. ~GetStatus /\ ~DataFlashWriteBuffer /\ ~ContinuousRead
      BY DEF GetStatus, DataFlashWriteBuffer, ContinuousRead, At
    <3>3. ~MainMemoryToBufferTransfert /\ ~PageErase /\ ~WriteBufferToMain
      BY DEF MainMemoryToBufferTransfert, PageErase, WriteBufferToMain, SendCommand, At
    <3>4. ~Exchange /\ ~Compare
      BY DEF Exchange, Compare
    <3>5. ~ChipDone /\ ~BusDies /\ ~UNCHANGED vars
      BY DEF ChipDone, BusDies, driver, vars
    <3>6. QED
      BY <3>1, <3>2, <3>3, <3>4, <3>5 DEF Next
  <2>2. heard' = Taken(frame)
    BY <2>1 DEF TransferEnds, Deselect
  <2>3. asked = Meant
    BY DEF IInv, FrameInv
  <2>4. QED
    BY <2>2, <2>3, TakenRight DEF IInv
<1>4. QED
  BY <1>1, <1>2, <1>3, PTL DEF Spec, ChipObeys

\* "Flash WR OK" and a good load mean what they say, with the two exceptions the code
\* has, for any device, any requests, any polls and any faults of bus and transfers.
THEOREM ReportsAreTrue == Spec => []Truthful
<1>1. Init => IInv
  BY InitIs
<1>2. IInv /\ [Next]_vars => IInv'
  BY NextKeeps
<1>3. IInv => Truthful
  <2> SUFFICES ASSUME IInv, result = "ok", NEW i \in 1 .. job.len
               PROVE  \/ Claimed[i] = Cell(job.addr + i - 1)
                      \/ dead /\ Claimed[i] = Erased
                      \/ job.kind = "store" /\ leftover
    BY DEF Truthful
  <2>1. ReadSoFar(job.len)
    BY DEF IInv, ReadInv
  <2>2. \/ ram[Area][i] = Cell(job.addr + i - 1)
        \/ dead /\ ram[Area][i] = Erased
    BY <2>1 DEF ReadSoFar
  <2>3. CASE job.kind = "store" /\ ~leftover
    <3>1. job.bytes[i] = ram["scratch"][i]
      BY <2>3 DEF IInv, KeepInv
    <3>2. QED
      BY <2>2, <2>3, <3>1 DEF Claimed, Area
  <2>4. CASE job.kind # "store"
    BY <2>2, <2>4 DEF Claimed, Area
  <2>5. QED
    BY <2>3, <2>4
<1>4. QED
  BY <1>1, <1>2, <1>3, PTL DEF Spec
=============================================================================
