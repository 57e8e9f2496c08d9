----------------------------- MODULE DataFlash ------------------------------
(***************************************************************************)
(* The serial-flash driver of src/dataflash.c with the two operations      *)
(* board.c runs on it, flash_store (write, read back, compare) and the     *)
(* read boot_uboot starts with, and the AT45 chip they talk to.            *)
(*                                                                         *)
(* The chip works on its own after a command: it is busy until ChipDone,   *)
(* takes no command but "read status" meanwhile, and may lose power in the *)
(* middle of a page.  The driver sends one command per step and polls the  *)
(* status register in between.  A cell holds a value of the image, the     *)
(* erased value 0xFF, or Junk: a value nobody asked for.                   *)
(***************************************************************************)
EXTENDS FlashGeometry

CONSTANTS Data,         \* byte values an image is made of
          Erased,       \* 0xFF
          Junk,         \* a byte nobody sent
          Contents,     \* what the chip may hold at the start
          Stores,       \* flash_store requests: [addr, len, image]
          Loads,        \* read requests of boot_uboot: [addr, len]
          MaxPolls,     \* AT91C_TIMEOUT_WRDY
          ReadChunk,    \* 0x8000, the most one continuous read fetches
          BigPages,     \* 16384, pages of a 128 Mbit device
          BusyStart     \* may a call begin while the chip is still busy?

Byte == Data \cup {Erased}
Cell == Byte \cup {Junk}
Image(len) == [0 .. (len - 1) -> Byte]
Ram(len) == [0 .. (len - 1) -> Cell]

ASSUME DataFlashAssumption ==
    /\ Junk \notin Byte
    /\ Contents \subseteq [Addrs -> Cell]
    /\ \A s \in Stores : /\ s.addr \in Nat
                         /\ s.len \in Nat \ {0}
                         /\ s.image \in Image(s.len)
    /\ \A l \in Loads : l.addr \in Nat /\ l.len \in Nat \ {0}
    /\ MaxPolls \in Nat \ {0}
    /\ ReadChunk \in Nat \ {0}
    /\ BigPages \in Nat
    /\ BusyStart \in BOOLEAN

VARIABLES
    \* the chip
    cells,      \* main memory
    buf,        \* SRAM buffer 1
    op,         \* the internal operation in progress and its page
    \* the driver
    pc,         \* the next driver step; "idle" when no call is running
    next,       \* where WaitReady continues
    polls,      \* unsuccessful polls of this WaitReady
    job,        \* the call that runs, or ran last
    done,       \* bytes of it behind the driver: dest = addr + done
    scratch,    \* the RAM at SCRATCH_RAM_ADR (UBOOT_SDRAM_COMPR for a load)
    keep,       \* the copy at VERIFY_RAM_ADR
    result,     \* what the last call reported
    \* history, read by properties only
    image,      \* the bytes the call was given
    before,     \* main memory when the call began
    inherited,  \* the page an older operation was still busy with then
    worn        \* the chip failed to erase or program since then

chip == <<cells, buf, op>>
driver == <<pc, next, polls, job, done, scratch, keep, result>>
history == <<image, before, inherited, worn>>
vars == <<chip, driver, history>>

NoOp == [kind |-> "idle", base |-> 0]
OpKinds == {"load", "erase", "pgm", "erase_pgm"}
Bases == {PageBase(a) : a \in Addrs}

\* Steps at which the driver sends a command, and the others.
PartialSteps == {"p_load", "p_buf", "p_erase", "p_pgm"}
FullSteps == {"f_buf", "f_erase", "f_pgm"}
ReadSteps == {"r_loop", "r_chunk", "compare"}
CommandSteps == PartialSteps \cup FullSteps \cup {"r_chunk"}
Resumptions == PartialSteps \cup FullSteps \cup {"advance", "r_loop", "r_chunk"}
Steps == {"idle", "wait"} \cup PartialSteps \cup FullSteps \cup ReadSteps

Results == {"none", "notfound", "inval", "wrfail", "verifyfail", "readfail", "ok"}

Jobs == [kind : {"store", "load"}, addr : Nat, len : Nat \ {0}]

Left == job.len - done
Dest == job.addr + done
JobTarget == Target(job.addr, job.len)
JobTouched == Touched(job.addr, job.len)

-----------------------------------------------------------------------------
\* The pieces of a write: the head up to a page boundary, full pages, the tail.
Partial(dest, left) == dest % PageSize # 0 \/ left < PageSize
Piece(dest, left) ==
    LET room == PageSize - (dest % PageSize)
    IN  IF left < room THEN left ELSE room
WriteStep(dest, left) ==
    IF Partial(dest, left) THEN "p_load" ELSE "f_buf"

ReadSize(left) == IF left < ReadChunk THEN left ELSE ReadChunk

\* The command after each command of a piece; "advance" ends the piece.
Follow(step) ==
    CASE step = "p_load"  -> "p_buf"
      [] step = "p_buf"   -> IF Pages >= BigPages THEN "p_erase" ELSE "p_pgm"
      [] step = "p_erase" -> "p_pgm"
      [] step = "p_pgm"   -> "advance"
      [] step = "f_buf"   -> "f_erase"
      [] step = "f_erase" -> "f_pgm"
      [] step = "f_pgm"   -> "advance"

\* size_dataflash, and the same test in AT91F_DataFlashWrite and ContinuousRead.
Accepted(addr, len) == addr <= Total /\ len <= Total - addr

-----------------------------------------------------------------------------
TypeOK ==
    /\ cells \in [Addrs -> Cell]
    /\ buf \in [Offsets -> Cell]
    /\ op \in [kind : OpKinds, base : Bases] \cup {NoOp}
    /\ pc \in Steps
    /\ next \in Resumptions
    /\ polls \in 0 .. (MaxPolls - 1)
    /\ job \in Jobs
    /\ done \in 0 .. job.len
    /\ scratch \in Ram(job.len)
    /\ keep \in Ram(job.len)
    /\ result \in Results
    /\ image \in Ram(job.len)
    /\ before \in [Addrs -> Cell]
    /\ inherited \in SUBSET Addrs
    /\ worn \in BOOLEAN

Init ==
    /\ cells \in Contents
    /\ buf = [o \in Offsets |-> Junk]
    /\ op = NoOp
    /\ pc = "idle" /\ next = "advance" /\ polls = 0
    /\ job = [kind |-> "load", addr |-> 0, len |-> 1]
    /\ done = 0
    /\ scratch = [i \in 0 .. 0 |-> Junk]
    /\ keep = [i \in 0 .. 0 |-> Junk]
    /\ result = "none"
    /\ image = keep
    /\ before = cells
    /\ inherited = {}
    /\ worn = FALSE

-----------------------------------------------------------------------------
\* Parts of the driver's steps.

\* AT91F_DataFlashWaitReady is entered and will continue at step n.
Await(n) == pc' = "wait" /\ next' = n /\ polls' = 0

\* The call returns r to the menu.
Return(r) ==
    /\ pc' = "idle" /\ next' = "advance" /\ polls' = 0
    /\ result' = r

\* The error a failing step turns into: flash_store prints "Flash WR FAIL"
\* when the write failed and "Verify FAIL" when the read-back did.
Label == IF pc = "wait" THEN next ELSE pc
Failure ==
    IF job.kind = "load" THEN "readfail"
    ELSE IF Label \in ReadSteps THEN "verifyfail" ELSE "wrfail"

\* Mutant: the page number is rounded up.
StartRoundedUp(kind, dest) ==
    op' = IF op.kind = "idle"
          THEN [kind |-> kind, base |-> PageBase(dest + PageSize - 1)] ELSE op
\* AT91F_DataFlashSendCommand: a chip that is busy ignores the command.
Start(kind, dest) ==
    op' = IF op.kind = "idle" THEN [kind |-> kind, base |-> PageBase(dest)]
                              ELSE op

\* The first n bytes of the piece reach the chip's buffer; the PDC receives
\* into the buffer it sends from, so as many source bytes are gone.
Sent(n) == {done + i : i \in 0 .. (n - 1)}
BufferAfterFromZero(n) ==       \* mutant: AdrInPage forgotten
    [o \in Offsets |-> IF o < n THEN scratch[done + o] ELSE buf[o]]
BufferAfter(n) ==
    [o \in Offsets |->
        LET i == o - (Dest % PageSize)
        IN  IF 0 <= i /\ i < n THEN scratch[done + i] ELSE buf[o]]
WriteBuffer(n) ==
    /\ buf' = IF op.kind = "idle" THEN BufferAfter(n) ELSE buf
    /\ scratch' = [i \in DOMAIN scratch |->
                      IF done <= i /\ i < done + n THEN Junk ELSE scratch[i]]

-----------------------------------------------------------------------------
\* Calls from the menu.

Begin(kind, rq, ram) ==
    /\ pc = "idle"
    /\ BusyStart \/ op.kind = "idle"
    /\ job' = [kind |-> kind, addr |-> rq.addr, len |-> rq.len]
    /\ done' = 0
    /\ scratch' = ram
    /\ keep' = ram
    /\ image' = ram
    /\ before' = cells
    /\ inherited' = IF op.kind = "idle" THEN {} ELSE PageCells(op.base)
    /\ worn' = FALSE

\* flash_store: the device answers the probe, the request fits, the image is
\* copied to VERIFY_RAM_ADR.  AT91F_DataFlashWrite does not wait for the chip
\* before its first command.
FlashStore(rq) ==
    /\ Accepted(rq.addr, rq.len)
    /\ Begin("store", rq, rq.image)
    /\ pc' = WriteStep(rq.addr, rq.len)
    /\ result' = "none"
    /\ UNCHANGED <<chip, next, polls>>

\* read_dataflash: AT91F_DataFlashRead waits for the chip first.
ReadDataflash(rq) ==
    /\ Accepted(rq.addr, rq.len)
    /\ Begin("load", rq, [i \in 0 .. (rq.len - 1) |-> Junk])
    /\ Await("r_loop")
    /\ result' = "none"
    /\ UNCHANGED chip

\* AT91F_DataflashInit does not find a device it knows, or size_dataflash
\* refuses the request: nothing is sent.
Refuse(rq) ==
    /\ pc = "idle"
    /\ \/ result' = "notfound"
       \/ ~Accepted(rq.addr, rq.len) /\ result' = "inval"
    /\ UNCHANGED <<chip, pc, next, polls, job, done, scratch, keep, history>>

-----------------------------------------------------------------------------
\* Commands.

\* Mutant: a piece of a page is written without loading the page first.
TransferForgotten ==
    /\ pc = "p_load"
    /\ Await(Follow(pc))
    /\ UNCHANGED <<chip, job, done, scratch, keep, result, history>>

MainMemoryToBufferTransfert ==
    /\ pc = "p_load"
    /\ Start("load", Dest)
    /\ Await(Follow(pc))
    /\ UNCHANGED <<cells, buf, job, done, scratch, keep, result, history>>

DataFlashWriteBuffer ==
    /\ pc \in {"p_buf", "f_buf"}
    /\ WriteBuffer(Piece(Dest, Left))
    /\ Await(Follow(pc))
    /\ UNCHANGED <<cells, op, job, done, keep, result, history>>

PageErase ==
    /\ pc \in {"p_erase", "f_erase"}
    /\ Start("erase", Dest)
    /\ Await(Follow(pc))
    /\ UNCHANGED <<cells, buf, job, done, scratch, keep, result, history>>

WriteBufferToMain ==
    /\ pc \in {"p_pgm", "f_pgm"}
    /\ Start(IF pc = "p_pgm" THEN "erase_pgm" ELSE "pgm", Dest)
    /\ Await(Follow(pc))
    /\ UNCHANGED <<cells, buf, job, done, scratch, keep, result, history>>

\* Mutant: the address does not move on with the chunks.
ScratchAfterReadStuck(n) ==
    [i \in DOMAIN scratch |->
        IF done <= i /\ i < done + n
        THEN (IF op.kind = "idle" THEN cells[job.addr + i - done] ELSE Junk)
        ELSE scratch[i]]
\* What a continuous read of n bytes leaves in RAM.
ScratchAfterRead(n) ==
    [i \in DOMAIN scratch |->
        IF done <= i /\ i < done + n
        THEN (IF op.kind = "idle" THEN cells[job.addr + i] ELSE Junk)
        ELSE scratch[i]]
ContinuousRead ==
    /\ pc = "r_chunk"
    /\ scratch' = ScratchAfterRead(ReadSize(Left))
    /\ done' = done + ReadSize(Left)
    /\ pc' = "r_loop"
    /\ UNCHANGED <<chip, next, polls, job, keep, result, history>>

\* AT91F_SpiWrite gives up while a command is under way: it may have reached
\* the chip, a data phase may have been cut short.
SpiTimeout ==
    /\ \/ /\ pc \in CommandSteps
          /\ UNCHANGED <<chip, scratch>>
       \/ /\ pc \in {"p_load"}
          /\ Start("load", Dest) /\ UNCHANGED <<cells, buf, scratch>>
       \/ /\ pc \in {"p_erase", "f_erase"}
          /\ Start("erase", Dest) /\ UNCHANGED <<cells, buf, scratch>>
       \/ /\ pc \in {"p_pgm", "f_pgm"}
          /\ Start(IF pc = "p_pgm" THEN "erase_pgm" ELSE "pgm", Dest)
          /\ UNCHANGED <<cells, buf, scratch>>
       \/ /\ pc \in {"p_buf", "f_buf"}
          /\ \E n \in 0 .. Piece(Dest, Left) : WriteBuffer(n)
          /\ UNCHANGED <<cells, op>>
       \/ /\ pc = "r_chunk"
          /\ \E n \in 0 .. ReadSize(Left) : scratch' = ScratchAfterRead(n)
          /\ UNCHANGED chip
    /\ Return(Failure)
    /\ UNCHANGED <<job, done, keep, history>>

-----------------------------------------------------------------------------
\* AT91F_DataFlashWaitReady.

\* What the driver was waiting for is done.  At the end of a piece the write goes
\* on with the next one; after the last, flash_verify starts reading, which
\* begins with a WaitReady of its own.
Continue ==
    /\ IF next # "advance"
       THEN pc' = next /\ next' = "advance" /\ polls' = 0 /\ UNCHANGED done
       ELSE LET d == done + Piece(Dest, Left)
            IN  IF d = job.len
                THEN done' = 0 /\ Await("r_loop")
                ELSE /\ done' = d
                     /\ pc' = WriteStep(job.addr + d, job.len - d)
                     /\ polls' = 0
                     /\ UNCHANGED next
    /\ UNCHANGED <<chip, job, scratch, keep, result, history>>

\* Mutant: the wait after the program command of a piece is missing.
PollReadyButAtPageEnd ==
    /\ pc = "wait"
    /\ op.kind = "idle" \/ next = "advance"
    /\ Continue

\* The status register says ready.
PollReady ==
    /\ pc = "wait"
    /\ op.kind = "idle"
    /\ Continue

\* Mutant: WaitReady has no bound.
PollForEver ==
    /\ pc = "wait"
    /\ UNCHANGED vars

\* Busy, or the status transfer itself timed out: command[1] is then still the
\* 0 that was put there to be sent, which reads as busy.
PollBusy ==
    /\ pc = "wait"
    /\ IF polls + 1 < MaxPolls
       THEN polls' = polls + 1 /\ UNCHANGED <<pc, next, result>>
       ELSE Return(Failure)
    /\ UNCHANGED <<chip, job, done, scratch, keep, history>>

-----------------------------------------------------------------------------
\* The loop of AT91F_DataFlashRead: another WaitReady before every chunk.
ReadLoop ==
    /\ pc = "r_loop"
    /\ IF Left > 0
       THEN Await("r_chunk") /\ UNCHANGED result
       ELSE IF job.kind = "load"
            THEN Return("ok")
            ELSE pc' = "compare" /\ UNCHANGED <<next, polls, result>>
    /\ UNCHANGED <<chip, job, done, scratch, keep, history>>

\* Mutant: the read-back is not compared.
CompareSkipped ==
    /\ pc = "compare"
    /\ Return("ok")
    /\ UNCHANGED <<chip, job, done, scratch, keep, history>>

\* The comparison of flash_verify.
Compare ==
    /\ pc = "compare"
    /\ Return(IF scratch = keep THEN "ok" ELSE "verifyfail")
    /\ UNCHANGED <<chip, job, done, scratch, keep, history>>

-----------------------------------------------------------------------------
\* The chip (external).

\* Programming without an erase only works on erased cells.
Programmed(old, new) ==
    IF old = Erased THEN new ELSE IF old = new THEN old ELSE Junk

Effect(a) ==
    CASE op.kind = "erase"     -> Erased
      [] op.kind = "pgm"       -> Programmed(cells[a], buf[a % PageSize])
      [] op.kind = "erase_pgm" -> buf[a % PageSize]
      [] op.kind = "load"      -> cells[a]

ChipDone ==
    /\ op.kind # "idle"
    /\ op' = NoOp
    /\ cells' = [a \in Addrs |->
                    IF PageBase(a) = op.base THEN Effect(a) ELSE cells[a]]
    /\ buf' = IF op.kind = "load" THEN [o \in Offsets |-> cells[op.base + o]]
                                  ELSE buf
    /\ UNCHANGED <<driver, history>>

\* A worn page: the operation ends, some of its cells did not take the value.
ChipDoneBad ==
    /\ op.kind \in OpKinds \ {"load"}
    /\ op' = NoOp
    /\ \E bad \in SUBSET PageCells(op.base) \ {{}} :
          cells' = [a \in Addrs |->
                      IF a \in bad THEN Junk
                      ELSE IF PageBase(a) = op.base THEN Effect(a) ELSE cells[a]]
    /\ worn' = TRUE
    /\ UNCHANGED <<buf, driver, image, before, inherited>>

\* The processor restarts (reset button, or reset_cpu after an exception); the
\* chip has no reset line and carries on.
CpuReset ==
    /\ pc # "idle"
    /\ Return("none")
    /\ UNCHANGED <<chip, job, done, scratch, keep, history>>

\* Board and chip lose power: of a page being erased or programmed no cell can
\* be relied on, so all are Junk, the worst that can be left of it.
PowerLoss ==
    /\ pc # "idle" \/ op.kind # "idle"
    /\ Return("none")
    /\ cells' = [a \in Addrs |->
                    IF op.kind \in OpKinds \ {"load"} /\ PageBase(a) = op.base
                    THEN Junk ELSE cells[a]]
    /\ buf' = [o \in Offsets |-> Junk]
    /\ op' = NoOp
    /\ UNCHANGED <<job, done, scratch, keep, history>>

-----------------------------------------------------------------------------
DriverStep ==
    \/ MainMemoryToBufferTransfert
    \/ DataFlashWriteBuffer
    \/ PageErase
    \/ WriteBufferToMain
    \/ ContinuousRead
    \/ SpiTimeout
    \/ PollReady
    \/ PollBusy
    \/ ReadLoop
    \/ Compare

Next ==
    \/ \E rq \in Stores : FlashStore(rq)
    \/ \E rq \in Loads : ReadDataflash(rq)
    \/ \E rq \in Stores \cup Loads : Refuse(rq)
    \/ DriverStep
    \/ ChipDone
    \/ ChipDoneBad
    \/ CpuReset
    \/ PowerLoss

Spec == Init /\ [][Next]_vars

\* The processor keeps executing a call it has begun.
FairSpec == Spec /\ WF_vars(DriverStep)

-----------------------------------------------------------------------------
(* What the driver promises. *)

Stored == result = "ok" /\ job.kind = "store"

\* "Flash WR OK" is printed only when the chip holds the image, whatever went
\* wrong on the way: a chip still busy with an older operation, worn cells, a
\* transfer that timed out, the source destroyed by the PDC.
VerifiedStored ==
    Stored => \A i \in 0 .. (job.len - 1) : cells[job.addr + i] = image[i]

\* A read that succeeds delivers what the chip holds, in chunks of any size.
LoadedFaithfully ==
    result = "ok" /\ job.kind = "load" =>
        \A i \in 0 .. (job.len - 1) : scratch[i] = cells[job.addr + i]

\* No command is lost on a busy chip, except the very first one of a write:
\* AT91F_DataFlashWrite sends that one without waiting.  The first command of
\* each later piece follows the wait at the end of the piece before.
CommandsWhenReady ==
    pc \in CommandSteps /\ ~(pc \in {"p_load", "f_buf"} /\ done = 0)
        => op.kind = "idle"

\* A call changes nothing outside the pages its bytes lie in (and the page an
\* older operation was still busy with), not even when it fails, when a page
\* is worn, or when power fails in the middle.
Confined ==
    \A a \in Addrs \ (JobTouched \cup inherited) : cells[a] = before[a]

\* A write that reports success kept the rest of the pages it rewrote: the
\* read-modify-write of a head or tail gives back the neighbours' bytes.  Only
\* if the chip was idle when it began, and not worn.
NeighboursKept ==
    Stored /\ inherited = {} /\ ~worn =>
        \A a \in JobTouched \ JobTarget : cells[a] = before[a]

\* The pieces put every byte in its place: on an idle, sound chip the
\* comparison never finds a difference.
WriteIsRight ==
    pc = "compare" /\ inherited = {} /\ ~worn => scratch = keep

\* The driver never stays in a call for ever, whatever the chip does.
OperationReturns == pc # "idle" ~> pc = "idle"

\* What board.c relies on: the driver and the chip together behave like the
\* storage of FlashStorage.
Writing == op.kind \in OpKinds \ {"load"}
Storage == INSTANCE FlashStorage WITH
    content <- cells,
    base    <- before,
    call    <- [kind |-> job.kind, addr |-> job.addr, len |-> job.len,
                image |-> image],
    running <- pc # "idle",
    loose   <- IF job.kind = "store" /\ pc # "idle" THEN JobTouched
               ELSE IF Writing THEN PageCells(op.base) ELSE {},
    outcome <- result,
    answer  <- IF result = "ok" /\ job.kind = "load" THEN scratch ELSE <<>>
ImplementsStorage == Storage!StorageSpec
=============================================================================
