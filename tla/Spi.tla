-------------------------------- MODULE Spi ---------------------------------
(***************************************************************************)
(* The lower half of src/dataflash.c: how a command becomes bytes on the   *)
(* SPI bus.  The driver fills command[8], loads the counters of the DMA    *)
(* channel (PDC) and waits until as many bytes have come back as went out; *)
(* the chip looks at the bytes between two edges of chip select and takes  *)
(* them for a command if they are one.  One step is one byte.              *)
(*                                                                         *)
(* The calls are flash_store and read_dataflash, on the devices of the real*)
(* table; what is stored is shorter than a page, as the head and the tail  *)
(* of an image are (DataFlash has the pages between them).  A transfer may *)
(* time out after any byte, and the bus may go dead and read as 0xFF.  What*)
(* the chip and the PDC do is external: sending and receiving go hand in   *)
(* hand and stop between bytes; resetting the SPI leaves the PDC alone.    *)
(***************************************************************************)
EXTENDS SpiAddress, Sequences

CONSTANTS Codes,        \* density codes of the chips that may be fitted
          Requests,     \* [kind, addr, bytes]: bytes to store, or to overwrite
          RamSize,      \* how many bytes of SCRATCH_RAM_ADR and the like are followed
          Watched,      \* the addresses whose cells are followed
          First,        \* what they hold at the start
          Elsewhere,    \* what all other cells hold
          MaxPolls,     \* AT91C_TIMEOUT_WRDY
          MaxCalls      \* how many calls are made

Erased == 255

ASSUME SpiAssumption ==
    /\ Codes \subseteq DOMAIN Datasheet
    /\ First \in [Watched -> Byte] /\ Elsewhere \in Byte
    /\ RamSize \in 1 .. 264
    /\ \A r \in Requests :
          /\ r.kind \in {"store", "load"} /\ r.addr \in Nat
          /\ r.bytes \in Seq(Byte) /\ Len(r.bytes) \in 1 .. RamSize
    /\ MaxPolls \in Nat \ {0} /\ MaxCalls \in Nat

VARIABLES
    \* the chip and the bus
    code,       \* which chip it is
    cells,      \* its main memory, where it is watched
    buf,        \* its buffer 1, likewise
    op,         \* the operation it is busy with
    frame,      \* bytes it has heard since chip select fell
    floating,   \* what is read while it does not drive the bus
    dead,       \* nothing gets through any more
    \* the PDC: [area, at, cnt] now, and what it goes on with
    now, following,
    \* the driver
    pc,         \* "idle", "next" (between two transfers) or "transfer"
    todo,       \* the steps of the call from the current one on
    device,     \* dataflash_info.Device
    ram,        \* command[8], SCRATCH_RAM_ADR, UBOOT_SDRAM_COMPR
    keep,       \* the copy at VERIFY_RAM_ADR
    polls, job, result,
    \* history, read by properties only
    asked,      \* the command of the transfer
    heard,      \* the command the chip took it for
    leftover,   \* the probe of this call had a data phase to use up
    calls       \* calls made

bus == <<code, cells, buf, op, frame, floating, dead>>
pdc == <<now, following>>
driver == <<pc, todo, device, ram, keep, polls, job, result>>
vars == <<bus, pdc, driver, asked, heard, leftover, calls>>

NoCommand == [op |-> 0, page |-> 0, offset |-> 0]
Nothing == [area |-> "command", at |-> 0, cnt |-> 0]

DB_STATUS == 215        \* 0xD7
DB_READ == 232          \* 0xE8
DB_BUF1_WRITE == 132    \* 0x84
DB_LOAD == 83           \* 0x53
DB_ERASE == 129         \* 0x81
DB_ERASE_PGM == 131     \* 0x83

-----------------------------------------------------------------------------
(* The chip (external). *)

Chip == Datasheet[code]
Cell(a) == IF a \in Watched THEN cells[a] ELSE Elsewhere
Page(a) == a \div Chip.size
Offset(a) == a % Chip.size

\* Bytes of a command before its data.
HeaderSize(opcode) ==
    CASE opcode = DB_STATUS -> 1
      [] opcode = DB_READ   -> 8
      [] OTHER              -> 1 + AddressBytes(Chip)
Header(f) ==
    [op |-> f[1], page |-> PageIn(Chip, f), offset |-> OffsetIn(Chip, f)]

\* What the chip drives while the byte behind f is exchanged.
Answer(f) ==
    IF dead THEN 255
    ELSE IF f = <<>> \/ Len(f) < HeaderSize(f[1]) THEN floating
    ELSE IF f[1] = DB_STATUS THEN code + (IF op = NoCommand THEN 128 ELSE 0)
    ELSE IF f[1] = DB_READ /\ op = NoCommand
         THEN Cell(Header(f).page * Chip.size + Header(f).offset + Len(f) - 8)
         ELSE floating

\* Chip select rises.
Taken(f) ==
    IF f = <<>> \/ op # NoCommand THEN NoCommand
    ELSE IF f[1] = DB_STATUS \/ Len(f) < HeaderSize(f[1]) THEN NoCommand
    ELSE Header(f)
Filled(f) ==
    LET n == Len(f) - HeaderSize(f[1])
        k(o) == (o - Header(f).offset) % Chip.size
    IN  [o \in DOMAIN buf |-> IF k(o) < n THEN f[HeaderSize(f[1]) + k(o) + 1]
                                          ELSE buf[o]]
Deselect ==
    LET c == Taken(frame) IN
    /\ heard' = c
    /\ op' = IF c.op \in {DB_LOAD, DB_ERASE, DB_ERASE_PGM} THEN c ELSE op
    /\ buf' = IF c.op = DB_BUF1_WRITE THEN Filled(frame) ELSE buf
    /\ frame' = <<>>
    /\ UNCHANGED <<code, cells, floating, dead>>

ChipDone ==
    /\ op # NoCommand
    /\ op' = NoCommand
    /\ cells' = [a \in Watched |->
                    IF Page(a) # op.page THEN cells[a]
                    ELSE CASE op.op = DB_LOAD      -> cells[a]
                           [] op.op = DB_ERASE     -> Erased
                           [] op.op = DB_ERASE_PGM -> buf[Offset(a)]]
    /\ buf' = IF op.op = DB_LOAD
              THEN [o \in DOMAIN buf |-> Cell(op.page * Chip.size + o)] ELSE buf
    /\ UNCHANGED <<code, frame, floating, dead, pdc, driver, asked, heard, leftover, calls>>

BusDies ==
    /\ ~dead /\ dead' = TRUE
    /\ UNCHANGED <<code, cells, buf, op, frame, floating, pdc, driver, asked, heard,
                   leftover, calls>>

-----------------------------------------------------------------------------
(* The steps of a call. *)

Step(do, addr, at, len) == [do |-> do, addr |-> addr, at |-> at, len |-> len]
Probe == Step("probe", 0, 0, 0)
Wait == Step("wait", 0, 0, 0)

PartialPageWrite(d, addr, at, len) ==
    LET page == addr - (addr % d.pages_size)
    IN  <<Step("load", page, 0, 0), Wait, Step("buffer", addr, at, len), Wait>>
        \o (IF d.pages_number >= 16384 THEN <<Step("erase", page, 0, 0), Wait>> ELSE <<>>)
        \o <<Step("program", page, 0, 0), Wait>>

\* Less than a page: the part up to a page boundary, and the rest.
DataFlashWrite(d, addr, len) ==
    LET room == d.pages_size - (addr % d.pages_size)
    IN  IF len <= room THEN PartialPageWrite(d, addr, 0, len)
        ELSE PartialPageWrite(d, addr, 0, room)
             \o PartialPageWrite(d, addr + room, room, len - room)
DataFlashRead(addr, len) == <<Wait, Wait, Step("read", addr, 0, len)>>

Size(d) == d.pages_size * d.pages_number
Masked(addr) == addr % 268435456        \* 0x0FFFFFFF

\* What board.c asks for are addresses in the flash, or so high that no device has
\* them even with the upper bits masked out.
ASSUME RequestsName ==
    \A r \in Requests :
        \/ Masked(r.addr) = r.addr
        \/ \A c \in DOMAIN Datasheet : Masked(r.addr) > Size(Device(c))

Accepted(d) ==
    Masked(job.addr) <= Size(d) /\ job.len <= Size(d) - Masked(job.addr)
Area == IF job.kind = "store" THEN "scratch" ELSE "compr"

-----------------------------------------------------------------------------
(* AT91F_SpiWrite. *)

PdcNext(data) == IF data.cnt # 0 THEN data ELSE following

\* size bytes of command go out, then the data; the answers replace both.
SpiWrite(command, size, data, what) ==
    /\ ram' = [ram EXCEPT !["command"] = command]
    /\ now' = [area |-> "command", at |-> 1, cnt |-> size]
    /\ following' = PdcNext(data)
    /\ asked' = what
    /\ pc' = "transfer"
    /\ UNCHANGED <<bus, heard, calls>>

Exchange ==
    /\ pc = "transfer" /\ now.cnt > 0
    /\ frame' = IF dead THEN frame ELSE Append(frame, ram[now.area][now.at])
    /\ ram' = [ram EXCEPT ![now.area][now.at] = Answer(frame)]
    /\ IF now.cnt = 1
       THEN now' = following /\ following' = Nothing
       ELSE now' = [now EXCEPT !.at = @ + 1, !.cnt = @ - 1] /\ UNCHANGED following
    /\ UNCHANGED <<code, cells, buf, op, floating, dead, pc, todo, device, keep, polls,
                   job, result, asked, heard, leftover, calls>>

-----------------------------------------------------------------------------
(* Commands. *)

Current == Head(todo)
At(do) == pc = "next" /\ todo # <<>> /\ Current.do = do

\* AT91F_DataFlashGetStatus; the bytes behind the first two are not sent.
StatusCommand == <<DB_STATUS, 0, 0, 0, 0, 0, 0, 0>>
GetStatus ==
    /\ At("probe") \/ At("wait")
    /\ SpiWrite(StatusCommand, 2, Nothing, NoCommand)
    /\ leftover' = (leftover \/ following.cnt # 0)
    /\ UNCHANGED <<todo, device, keep, polls, job, result>>

Data == [area |-> Area, at |-> Current.at + 1, cnt |-> Current.len]
Want(opcode) ==
    [op |-> opcode, page |-> Page(Current.addr), offset |-> Offset(Current.addr)]

SendCommand(do, opcode) ==
    /\ At(do)
    /\ SpiWrite(Command(device, opcode, Current.addr), CommandSize(device), Nothing,
                Want(opcode))
    /\ UNCHANGED <<todo, device, keep, polls, job, result, leftover>>

MainMemoryToBufferTransfert == SendCommand("load", DB_LOAD)
PageErase == SendCommand("erase", DB_ERASE)
WriteBufferToMain == SendCommand("program", DB_ERASE_PGM)

DataFlashWriteBuffer ==
    /\ At("buffer")
    /\ SpiWrite(BufferCommand(device, DB_BUF1_WRITE, Current.addr % device.pages_size,
                              ram["command"]),
                CommandSize(device), Data,
                [Want(DB_BUF1_WRITE) EXCEPT !.page = 0])
    /\ UNCHANGED <<todo, device, keep, polls, job, result, leftover>>

ContinuousRead ==
    /\ At("read")
    /\ SpiWrite(Command(device, DB_READ, Current.addr), 8, Data, Want(DB_READ))
    /\ UNCHANGED <<todo, device, keep, polls, job, result, leftover>>

-----------------------------------------------------------------------------
(* After a transfer. *)

Return(r) == pc' = "idle" /\ todo' = <<>> /\ polls' = 0 /\ result' = r

\* AT91F_DataflashInit has the answer of the probe; flash_store copies the image,
\* then write_dataflash and read_dataflash check the request.
Status == ram["command"][2]
Probed ==
    LET d == Device(ProbedCode(Status)) IN
    /\ device' = d
    /\ IF d = NoDevice
       THEN Return("notfound") /\ UNCHANGED keep
       ELSE /\ keep' = IF job.kind = "store" THEN ram["scratch"] ELSE keep
            /\ IF ~Accepted(d)
               THEN Return("inval")
               ELSE /\ pc' = "next"
                    /\ todo' = (IF job.kind = "store"
                                THEN DataFlashWrite(d, job.addr, job.len)
                                ELSE <<>>)
                               \o DataFlashRead(job.addr, job.len)
                    /\ UNCHANGED <<polls, result>>

GoOn == pc' = "next" /\ todo' = Tail(todo) /\ polls' = 0 /\ UNCHANGED result
Polled ==
    IF Status >= 128 THEN GoOn
    ELSE IF polls + 1 < MaxPolls
         THEN pc' = "next" /\ polls' = polls + 1 /\ UNCHANGED <<todo, result>>
         ELSE Return("failed")

\* Mutant of After: nobody asks whether the transfer succeeded.
AfterUnasked(ok) ==
    IF Current.do = "probe" THEN Probed
    ELSE /\ IF Current.do = "wait" THEN Polled ELSE GoOn
         /\ UNCHANGED <<device, keep>>
\* Neither the probe nor WaitReady asks; the others give up.
After(ok) ==
    IF Current.do = "probe" THEN Probed
    ELSE /\ IF Current.do = "wait" THEN Polled
            ELSE IF ok THEN GoOn ELSE Return("failed")
         /\ UNCHANGED <<device, keep>>

\* RXBUFF is set, or time is up after some of the bytes.  The current counters are
\* written anew for every transfer, the next ones are not.
TransferEnds(ok) ==
    /\ pc = "transfer"
    /\ ok <=> now.cnt = 0
    /\ Deselect
    /\ After(ok)
    /\ now' = Nothing
    /\ UNCHANGED <<following, ram, job, asked, leftover, calls>>

\* Mutant of Compare: one byte is left out.
CompareOneLess ==
    /\ pc = "next" /\ todo = <<>>
    /\ Return(IF job.kind = "store" /\ \E i \in 2 .. job.len : ram["scratch"][i] # keep[i]
              THEN "failed" ELSE "ok")
    /\ UNCHANGED <<bus, pdc, device, ram, keep, job, asked, heard, leftover, calls>>
\* The read-back is there: flash_verify compares, a load is done.
Compare ==
    /\ pc = "next" /\ todo = <<>>
    /\ Return(IF job.kind = "store" /\ \E i \in 1 .. job.len : ram["scratch"][i] # keep[i]
              THEN "failed" ELSE "ok")
    /\ UNCHANGED <<bus, pdc, device, ram, keep, job, asked, heard, leftover, calls>>

-----------------------------------------------------------------------------
\* A call from the menu.  What it overwrites has been received or is stale; then
\* AT91F_SpiInit resets the SPI, and the PDC keeps what it was left with.
Call(rq) ==
    /\ pc = "idle"
    /\ calls < MaxCalls /\ calls' = calls + 1
    /\ job' = [kind |-> rq.kind, addr |-> rq.addr, len |-> Len(rq.bytes),
               bytes |-> rq.bytes]
    /\ ram' = IF rq.kind = "store"
              THEN [ram EXCEPT !["scratch"] =
                       [i \in DOMAIN @ |-> IF i <= Len(rq.bytes) THEN rq.bytes[i] ELSE @[i]]]
              ELSE ram
    /\ pc' = "next" /\ todo' = <<Probe>> /\ polls' = 0 /\ result' = "none"
    /\ device' = NoDevice
    /\ leftover' = FALSE
    /\ UNCHANGED <<bus, pdc, keep, asked, heard>>

Blank == [i \in 1 .. RamSize |-> 0]
Init ==
    /\ code \in Codes /\ floating \in {0, 255} /\ dead = FALSE
    /\ cells = First
    /\ buf = [o \in {Offset(a) : a \in Watched} |-> 0]
    /\ op = NoCommand /\ frame = <<>>
    /\ now = Nothing /\ following = Nothing
    /\ pc = "idle" /\ todo = <<>> /\ device = NoDevice /\ polls = 0
    /\ ram = [command |-> [i \in 1 .. 8 |-> 0], scratch |-> Blank, compr |-> Blank]
    /\ keep = Blank
    /\ job = [kind |-> "load", addr |-> 0, len |-> 0, bytes |-> <<>>]
    /\ result = "none"
    /\ asked = NoCommand /\ heard = NoCommand /\ leftover = FALSE /\ calls = 0

Next ==
    \/ \E rq \in Requests : Call(rq)
    \/ GetStatus
    \/ MainMemoryToBufferTransfert
    \/ DataFlashWriteBuffer
    \/ PageErase
    \/ WriteBufferToMain
    \/ ContinuousRead
    \/ Exchange
    \/ \E ok \in BOOLEAN : TransferEnds(ok)
    \/ Compare
    \/ ChipDone
    \/ BusDies

Spec == Init /\ [][Next]_vars

-----------------------------------------------------------------------------
\* The chip never takes what it hears for another command than the one it was
\* sent, and once a transfer is complete it has taken it, unless it was busy or
\* not there: commands of 4 and 5 bytes, transfers cut off after any byte, data
\* phases left over from one that was cut off.
ChipObeys ==
    [][frame' = <<>> /\ pc = "transfer" /\ pc' # "transfer" =>
          /\ heard' \in {asked, NoCommand}
          /\ now.cnt = 0 /\ ~dead /\ op = NoCommand => heard' = asked]_vars

\* "Flash WR OK" means that the chip holds what was received, and a load that is
\* reported good has delivered what the chip holds.  Two exceptions are as narrow
\* as this: a bus that has died reads as 0xFF, so that erasing is "verified"; and
\* after a call that gave up, the probe of the next may write over the image
\* before flash_store copies it.
Claimed == IF job.kind = "store" THEN job.bytes ELSE ram["compr"]
Truthful ==
    result = "ok" =>
        \A i \in 1 .. job.len :
            \/ Claimed[i] = Cell(job.addr + i - 1)
            \/ dead /\ Claimed[i] = Erased
            \/ job.kind = "store" /\ leftover

\* A data phase left over from a transfer that was cut off is used up by the probe
\* of the next call: it never runs on behind a command or a poll of WaitReady.
LeftoverInProbe ==
    pc = "transfer" /\ Current.do \in {"wait", "load", "erase", "program"} =>
        following.cnt = 0 /\ (now.cnt > 0 => now.area = "command")
=============================================================================
