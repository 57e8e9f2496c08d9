# darrel-loader in TLA+

darrel-loader is the first stage boot loader of an AT91RM9200 board.  The
BootROM copies it from a serial flash (AT45 DataFlash) into SRAM; it configures
the SDRAM, offers a menu on the console, receives a new loader or a new u-boot
by XMODEM, stores it in the flash, and, when nobody presses a key for a second,
loads u-boot from the flash, checks and unpacks it and jumps to it.  There is no
operating system, no interrupt and one thread; what makes the program hard is
what goes on beside it: a chip that works on its own after each command, a timer
that wraps behind its back, a sender with retries of its own, a line that loses
characters, and resets and power failures at any moment.

Paths below are those of the repository (`src/board.c` is the file in its `src`
directory).

## 1. Inventory

| Component | Code | State it keeps | Operations | Modelled in |
|---|---|---|---|---|
| Serial flash driver | `dataflash.c`, `flash_store`, `flash_verify` | device geometry, transfer descriptor; the chip's memory, buffer and busy operation | write, read, verify, WaitReady, probe | `FlashGeometry`, `DataFlash`; bytes and registers in `SpiAddress`, `Spi` |
| Storage contract | what `board.c` relies on | content, request under way | store, load | `FlashStorage` |
| Menu and autoboot | `board.c` | `autoboot`, `dispmenu`, the countdown | uploads, boot, erase, confirmation, draining | `Board` |
| Time base | `interrupts.c` | `timestamp`, `lastinc`, hardware counter | reset, get, udelay | `Timer` |
| XMODEM receiver | `xmodem.c` | block number, length, buffer | `rxmodem` | `Xmodem` |
| CRC and image header | `xmodem.c`, `board.c` | the header in the flash | `crc16_ccitt`, header of `upload_uboot`, checks of `boot_uboot` | `Crc16`, `BootImage` |
| Decompressor | `decompress.c`, `lzf_d.c` | position in input and output | `decompress_image`, `lzf_decompress` | `Decompress` |
| SDRAM configuration, memory tests | `board.c` | controller registers, memory | `configure_sdram`, `memory_test`, `memory_test_full` | `PowerUp` |
| Startup, exceptions | `start.S`, `interrupts.c` | bss, clocks, what has been set up | clear bss, the initialisations, exception to reset | `PowerUp`; its effect, a restart, is in `Board` and `DataFlash` |
| Serial port, numbers | `serial.c`, `io.c` | one received character | `tstc`, `getc`, `putc`, `uintprint`, `hexprint` | its receiver is in `Board` and `Xmodem`, its set-up in `PowerUp` |
| Build, headers, test harness | `Makefile`, `include/` | none | none | not modelled |

How they interact: the menu polls the serial port and the timer, calls
`rxmodem`, which fills RAM and polls the same two, then calls `flash_store` or
`read_dataflash`, which block until the chip is done or a bound is reached.
Calls are synchronous; nothing is shared between threads; the only things that
move on their own are the flash chip, the hardware counter, the receiver
register and the other end of the line.

What makes each component correct:

* **Driver.** Success is never reported unless the chip holds the image; a call,
  even one that fails or is cut off, changes nothing outside its pages; heads and
  tails keep their neighbours; no command but possibly the very first of a write
  meets a busy chip, not even the first of a later page; each call returns.
* **Menu.** Whatever is interrupted and repeated, only a payload that was
  received as a whole is started; the loader is only at risk while it replaces
  itself or a confirmed erase runs; the environment survives uploads; a burst of
  characters cannot confirm an erase; the countdown means silence; a failed boot
  is not repeated; the menu always comes back.
* **Time base.** A wait is never too short; time is exact unless a whole turn of
  the counter goes unread, and then only turns are lost.
* **XMODEM.** What has been accepted is a prefix of the file; a sender that is
  told so has delivered all of it; nothing is written beyond the buffer; on a
  clean line the file arrives, unless an invitation crosses its first block, and
  then the upload is refused, never taken for something else.
* **Decompressor.** What a compressor made is undone, padding aside; nothing is
  written beyond the room, whatever the image; an image that was cut off is never
  unpacked into the middle of a block.
* **CRC and header.** The table and the loop compute the remainder they are named
  for; what was uploaded is what is unpacked, a short burst of damage is found
  out, and nothing the header says leads out of the area.
* **Wire.** The chip takes each command for what the driver means, on every
  device of the table, and what is reported is true.
* **Start.** Nothing is used before it is set up, on the first start and on later
  ones; a memory test says what it claims to; an exception ends in a new start.

The code paths that a test would hardly reach are listed, each at its line,
under `hazards` in `PROJECT.json` with the properties that cover them.

## 2. The modules

```
FlashGeometry  <--  FlashStorage  <--  Board  <--  MCBoard
      ^                   ^             ^-------------------  BoardProofs *
      |                   | Storage == INSTANCE FlashStorage WITH ...
      +--------------  DataFlash  <--  MCDataFlash
                          ^-------------------------------  DataFlashProofs *
SpiAddress  <--  Spi  <--  MCSpi
                  ^---------------------------------------  SpiProofs *
Timer    <----------------------------------------------  TimerProofs *
Xmodem   <--  MCXmodem  (which takes Xmodem's Crc from Crc16)
   ^------------------------------------------------------  XmodemProofs *
PowerUp  <--  MCPowerUp
   ^------------------------------------------------------  PowerUpProofs
Decompress  <--  MCDecompress
   ^------------------------------------------------------  DecompressProofs
Crc16    <--  BootImage  <--  MCBootImage
Division  <--  the modules marked *
```
(`A <-- B`: B extends A.)

### FlashGeometry
Linear addresses, pages, and the pages a request falls in.  A device is
`PageSize * Pages` cells; the table of devices is the choice of the two
constants (264 x 512 up to 1056 x 16384).

### DataFlash
One step per SPI command or poll of the status register.  `pc` names the next
command; `"wait"` is the loop of `AT91F_DataFlashWaitReady`, and `next` is where
it continues.

| Model | Code |
|---|---|
| `FlashStore` | `flash_store` up to the first command of `AT91F_DataFlashWrite` |
| `MainMemoryToBufferTransfert`, `DataFlashWriteBuffer`, `PageErase`, `WriteBufferToMain` | the functions of these names; `Follow` is the order `AT91F_PartialPageWrite` and the full-page loop call them in |
| `Piece`, `Partial` | head, full pages and tail |
| `PollReady`, `PollBusy` | one round of WaitReady; the status of the transfer is ignored, as in the code |
| `Continue` | what follows a wait: the next command, the next piece, or `flash_verify` |
| `ReadDataflash`, `ReadLoop`, `ContinuousRead` | `AT91F_DataFlashRead` in chunks of `ReadChunk` |
| `Compare` | the loop of `flash_verify` |
| `SpiTimeout` | `AT91F_SpiWrite` giving up: the command may have reached the chip, data may have been cut short |
| `ChipDone`, `ChipDoneBad`, `CpuReset`, `PowerLoss` | the environment |

The PDC receives into the buffer it sends from, so a write turns its source into
`Junk`, and the comparison uses the copy (`keep`, `VERIFY_RAM_ADR`).  A write
does not wait for the chip before its first command (the first command of each
later piece follows the wait at the end of the piece before), and a reset of the
processor does not reset the chip; both are in the model, so a write can begin
on a chip that ignores its first command.  `BusyStart = FALSE` excludes this for
the refinement below, which is about calls that begin on an idle chip.

### SpiAddress and Spi
`DataFlash` has commands; these two have what the commands are made of.
`SpiAddress` is the table of devices in `AT91F_DataflashInit` and the bytes
`AT91F_DataFlashSendCommand` and `AT91F_DataFlashWriteBuffer` make of an address,
next to what the data sheet of each part says it expects (`Datasheet`, `Field`,
`PageIn`, `OffsetIn`, external).  `Spi` sends them, one byte per step.

| Model | Code |
|---|---|
| `Call` | `flash_store` or `read_dataflash` up to `AT91F_DataflashInit` |
| `GetStatus`, `Probed`, `Polled` | `AT91F_DataFlashGetStatus` with the probe, the rest of `AT91F_DataflashInit`, one round of WaitReady |
| `MainMemoryToBufferTransfert`, `DataFlashWriteBuffer`, `PageErase`, `WriteBufferToMain`, `ContinuousRead` | the functions of these names, as far as `AT91F_SpiWrite` |
| `SpiWrite`, `Exchange`, `TransferEnds` | `AT91F_SpiWrite`: the counters are loaded, bytes go out and come back, RXBUFF is set or time is up |
| `Compare` | `flash_verify` |
| `ChipDone`, `BusDies`, `Deselect` | the chip and the bus |

`now` and `following` are the current and the next counters of the PDC.  The
current ones are written for each transfer, the next ones only for one with a
data phase, so a transfer that is cut off in its command leaves a data phase
behind; `SpiWrite` keeps it, as the code does.  Pages between head and tail are
in `DataFlash` and left out here: a request is shorter than a page, and
`RamSize` is how many bytes of each area of RAM are followed.  `RequestsName`
says which addresses occur: those of `config-bf200.h`, whose mask leaves them as
they are, and the one of key `f`, which is beyond every device even when masked.

The CPU is not reset in `Spi` (it is in `DataFlash`); a status that reads 0xFF is
"no device" to the probe and "ready" to WaitReady, as in the code.

### FlashStorage
The contract between driver and menu, without commands, buffers and polls: a
store that succeeds has put the image in place; one that fails or is cut off has
left in every cell of its pages the old value, the new one, an erased cell or
junk; nothing else changes; a load that succeeds is exact.  `DataFlash` is shown
to implement it (`ImplementsStorage`), `Board` is built on it and is shown to
call it as it allows (`UsesStorage`).  `Collect` is the caller taking note of the
result; it waits for the chip to be idle, which in the code the time a person,
a sender, or start-up with its output takes sees to, an erase of a page lasting
milliseconds.

### Board
`pc` says where the program is: the BootROM, the loop of `start_armboot`, an
XMODEM reception, `drain_uart`, the question of `confirm_yes`, a storage call,
u-boot, or a board that no longer starts.  Time is counted in seconds.

| Model | Code |
|---|---|
| `MenuKey`, `Countdown` | one round of the loop with and without a character |
| `ToMenu` | `dispmenu = 1` and the countdown restarted with the menu |
| `Received`, `NotReceived` | `upload_loader`, `upload_uboot` after `rxmodem` has returned |
| `Drain`, `DrainChar`, `DrainEnd` | `drain_uart` |
| `AskAnswer`, `AskTimeout` | `confirm_yes` and `erase_flash` |
| `BootUboot`, `Bootable`, `AfterFlash` | `boot_uboot` |
| `FlashWork`, `FlashReturn` | the storage, one cell at a time |
| `Start`, `Restart` | the BootROM and a reset or power failure |

`rxmodem` is external here: it delivers any of `Files` that fits or gives up
(`Xmodem` is about what it may take for a file; a file cut short is just another
member of `Files`).  The CRC is taken to tell payloads apart; `Crc16` is about
the CRC itself.  What `decompress_image` rejects is the constant `Unpackable` (`Decompress` is
about what it rejects).
What `upload_loader` writes over vector 6 of the image is left out.  u-boot, once
running, is out of the model.

The geometry is one in which areas begin at page boundaries, as they do on the
264-byte devices the layout of `config-bf200.h` is made for.  On devices with
larger pages `DATAFLASH_UBOOT_BASE` lies inside a page, the read-modify-write of
that page includes the end of the loader area, and `LoaderSurvives` is not
claimed there: what holds there is `Confined` and `NeighboursKept`.

`EraseConfirmed` presumes that a burst is shorter than the 32768 characters
`drain_uart` reads at most (`MaxBurst <= DrainMax`); the case of an endless
stream is in `BoardLive`, where it is asked only whether the menu comes back.

### Timer
The free running 16-bit counter, read now and then and extended to 32 bits in
software, and the one loop all waits share.  `Tick` lets any number of `Steps`
pass, so that reads may be rarer than a turn of the counter, as they are while
the program prints.

### Xmodem
`rxmodem` byte by byte (`pc` is the `getc` it waits in), with an XMODEM-CRC
sender and a line that loses and changes bytes in both directions.  The sender
repeats a block that is not acknowledged, and gives up after `Retries`.  The
receiver has no retry of its own: it gives up at the first thing it does not
expect, and its `getc` waits for ever.

`Invite` is the other 'C' that goes out with each second in which nothing has
arrived.  The code sends it whether or not the sender has read the one before, so
several may be under way, up to `MaxInvites` in the model.  A sender that has
begun and then reads one of them takes it for a request to begin again
(`AsksAnew`).  `rxmodem` takes block 1 once, refuses the repeated one for its
number (`xmodem.c:76`), and returns 0: with such a sender an upload can fail on a
perfect line.  `Crossing` is this case, which `CleanDelivery` sets aside;
`CleanLineIsHonest` says that nothing worse comes of it.

### Crc16 and BootImage
`Crc16` has the table and the round of `crc16_ccitt`, and a bit-by-bit long
division to compare them with.  `BootImage` runs the loop over the u-boot area, a byte
per step: `UploadUboot` writes length, magic number, CRC and payload over
whatever the area held; `Damage` turns over a run of at most 16 bits of payload
or CRC, or makes the header say something else; `BootUboot` and `CrcCompare` are
the checks of `boot_uboot` in their order.  That a CRC of 16 bits finds every
run of at most 16 bits is the reason it is there, and needs the table, the loop,
the order of bits and the comparison to be right at once.

`UbootOk` accepts more than 256 bytes, `boot_uboot` rejects less than 8192: a file
in between can be stored and never starts.  `BootJudges` says so (`refused`
without damage means too short).

### PowerUp
From the reset to the menu, once more after each exception, on memory that may
be faulty.  A word of memory is the set of its bits that are 1.  `Size` is
the number of words and `QuickSize` that of the last megabyte, which
`memory_test` goes through.  `IsFault` says which faults there are: nothing, a
bit stuck in one word or in all, two neighbouring data lines that touch, an address
line that is stuck.  There are no more address lines than data lines, as on the
board, so that the index of a word fits a word.

| Model | Code |
|---|---|
| `ClearBss` | `clear_bss` in `start.S` |
| `WaitLocked` | the two loops of `clock_init` |
| `InterruptInit`, `SerialInit`, `Udelay`, `Banner` | the calls of `start_armboot` up to `configure_sdram` |
| `Configure`, `Precharge`, `RefreshAccess`, `LoadMode`, `LoadAccess` | `configure_sdram`, an access per step |
| `Write`, `Read`, `Tested` | a word of `memory_test` (`test = "quick"`) or `memory_test_full` |
| `RamTest` | key 6 of the menu (`CONFIG_SDRAM_TEST`) |
| `Exception`, `Handled`, `Reset` | an exception, its handler with `bad_mode` and `reset_cpu`, the watchdog |

`clear_bss` adds 4 before its first store although its comment says "start at
first byte of bss", so one variable keeps what SRAM held, and which one it is
is up to the linker (`first`).  `ReadyBeforeUse` says that it does not matter:
the time base is assigned before it is read, and `AT91F_DataflashInit` assigns
what is read of `dataflash_info`.  Likewise, the comment in
`bad_save_user_regs` has three words saved where `get_bad_stack` saves two; the
third is whatever was there, and nothing reads the frame.

An exception before the serial port has been set up is not in the model: the
handler would wait for a transmitter that is off, and no code before it can
raise one short of failing hardware.

### Decompress
`decompress_image` a block and `lzf_decompress` a token at a time.  `out` is the
part of the output written so far; a copy is bytewise, overlaps included, which
is what the three ways of copying in `lzf_d.c` amount to.  A fetch of a byte
behind the input yields any of `Behind`; `reached` records how far the decoder
has looked.

| Model | Code |
|---|---|
| `LastBlock` | the end of the loop, and what may lie behind the last block |
| `BadBlock` | headers that make no sense, sizes that do not fit |
| `RawBlock`, `LzfBlock` | the two kinds of block |
| `Literal`, `BackReference` | the two kinds of token; either may end the block as failed |
| `Unpacks` | the comparison of the result of `lzf_decompress` with the header |

`Image` and `Content` are the other side: the bytes a compressor makes of a list
of blocks and tokens, and what they stand for.  The images are those of seven lists,
followed by padding, cut at every byte, or with one byte replaced.  What a
compressor may emit is `IsBlock` and `IsToken`: up to 32 literal bytes, or a copy
of 3 to 264 bytes from at most 8192 bytes back in what the block has made so far.
What follows an image is not the header of a further block (`WholeImage`).

A compressed empty block (one list ends with it) makes the decoder fetch a byte
at its end before it looks where it is.  The byte has no influence, since there
is no room for what it might ask for; `LooksOneByteBehind` says that this is as
far as it goes.  The buffer the input lies in is followed by SDRAM.

## 3. Runs

| Run | Question | Bounds and why they are enough |
|---|---|---|
| `DataFlashPages` | Is success only reported for what is stored, does damage stay in its pages, what meets a busy chip? | 2 pages of 2 cells, `BigPages = 2` (the commands of the largest device), a chip that may be busy at the start; requests inside a page, of one whole page, of two pieces (a head and a page, whose first command must find the chip ready), and one byte too long; three bytes read in chunks of two and one; one unsuccessful poll ends a wait, as any number does |
| `DataFlashRefines` | Does the driver implement the contract, write heads and tails rightly, and return? | 3 pages of 2 cells, a request that is a head, a full page and a tail, and is read back in a chunk of three bytes and one of one, which do not match pages; loads; two polls |
| `BoardFlash` | What is started after interrupted uploads, and what is lost? | 6 cells: a loader area of 2, a u-boot area of 3, 1 of environment; payloads of one and two cells, one of them the beginning of another; files that are too short, too long, or neither; keys 1 and 2 only, so that no erase occurs here: erases between uploads are in `OnlyReceivedBoots`, `LastStoreBoots` and `LoaderStaysAlive` (section 4), which hold for all keys |
| `BoardKeys` | When is the flash erased, when does the countdown boot? | all keys the loop distinguishes, bursts of 2 and pauses of up to 2 s against a countdown of 1 s and a question of 2 s |
| `BoardLive` | Does the menu come back, does the board settle, is the storage used as allowed? | the smallest board, bursts without end |
| `TimerWraps` | How wrong can the time be? | a counter of 4 and a word of 16 values, gaps of up to 9 ticks: two turns unread, and a wrap of the word |
| `TimerDelay` | Does `udelay(200)` wait 200 us? (It does not, see below.) | the real clock rate |
| `Spi` | Does the chip hear what the driver means, and is what it reports true? | four parts (`Codes`), three of them devices of the table in their real sizes: code 12, the smallest (512 pages of 264), with the two pages of a head and a tail (bytes 791 and 792) and its last byte (135167); code 44, with a page two areas share (528); code 16, with addresses of four bytes and an erase (1056); and code 36, a part the driver does not know; one and two bytes of data, an address out of range; the two bytes of RAM a request of that size can use (`RamSize`); three calls, so that one can follow one that was cut off; one poll |
| `BootImage` | Is the CRC right, and does `boot_uboot` tell good from damaged? | an area of 5 bytes, at least 3 of them used; every first byte, so every entry of the table; damage at every bit by six bursts: one bit, two neighbours, both ends, all of them, and the polynomial's own lower part, and another; seven wrong lengths, negative and huge among them; one upload |
| `PowerUp` | Is everything set up before use, what do the tests find, does an exception end in a new start? | 8 words of 6 bits (the index of a word has 3), the quick test covering 4 of them (`QuickSize`); every line, bit and neighbouring pair faulty in turn, stuck high and low; exceptions without bound |
| `Decompress` | What is unpacked, rejected and touched? | seven lists of up to two blocks with copies of each form of length and distances with and without high bits; room one byte short, exact and ample; padding of none, one, as much as is allowed and one more |
| `Xmodem` | What can be taken for the file? | up to 10 blocks of 3 bytes against a buffer of 9 blocks and 2 bytes, block numbers modulo 8, data that look like protocol bytes, two faults, two retries; another 'C' while fewer than `MaxInvites` (2) answers are unread, enough for one to cross the first block and one to follow it |

`MaxPolls`, `MaxBurst`, `MaxSeconds`, `MaxGap`, `MaxElapsed`, `MaxFaults` and
`MaxInvites` are bounds of the models; `ReadChunk`, `BigPages`, `DrainMax`, `PidMod`,
`BlockLen`, `Overhead`, `Wrap` and `Word` are numbers of the code, made small.  With
`PidMod` at 8, a block number or its complement still equals EOT (4 and 3
stand for 4 and 251), which is what `ShortOnlyAtEot` is about: a receiver that
misses the start of such a block takes part of its header for the end of the
file and reports the part received so far as complete.  The upload is then
stopped by the magic and CRC of the image, or by nothing in the case of a
loader longer than its vectors; the sender, whose block stays unacknowledged or
is acknowledged out of turn, is the one who knows, to the extent `SenderKnows`
says.

`Xmodem`, `Decompress`, `BootImage`, `Spi`, `PowerUp` and `TimerDelay` do not check for
deadlock, since the transfer, the call, the judgement, the calls and the delay
come to an end, and `hang` is for ever.

### What TLC found
`TimerDelay`: `CFG_HZ / 1000000` is an integer division (29.952 becomes 29), so
`udelay(200)`, called because the SDRAM needs 200 us (`board.c:453`), waits
193.6 us.  Every delay is 3.2 percent short.  In practice the banner printed
next takes longer than the difference: `ReadyBeforeUse` of `PowerUp` counts it in.

Three more things that are right in the runs, and narrower than one would think:

* `Truthful` has two exceptions.  A bus that dies after the probe reads as 0xFF,
  so that an erase is "verified" on a chip that is no longer there.  And after a
  call that was cut off, the probe of the next may carry the data phase left in
  the PDC, and overwrite the image before `flash_store` makes its copy: what
  is stored and verified then is the copy, not what was received.
* `LeftoverInProbe` is why it is no worse: a data phase left behind is used up
  there and never runs on behind a command.  That rests on every command but the
  polls giving up when a transfer fails.
* `memory_test` writes the index of a word into it, in the last megabyte only: a bit that is stuck
  at the value it should have, lines that touch, and address lines above the megabyte get by it.
  `TestsTell` claims only what it does find; `memory_test_full` finds them all.

### Fairness
* `DataFlash`: the processor goes on with a call it has begun
  (`WF(DriverStep)`).  Nothing is assumed of the chip: `OperationReturns` rests
  on the bound of WaitReady and the timeout of a transfer.
* `Board`: the program goes on, seconds pass, and storage calls return, which is
  `OperationReturns` of `DataFlash`.  Nothing is assumed of senders or keys.
* `Timer`: the counter counts and the waiting loop reads it.
* `Xmodem`: both ends run and the line delivers what it does not lose, in order.
  The receiver's reading, its invitations, the sender's answers and its time-outs
  are each fair by themselves, so that a receiver that goes on inviting cannot keep
  what is under way from arriving.
* `Decompress`: the processor goes on with the call.
* `PowerUp`: the program goes on; a PLL locks and a watchdog that has been armed
  fires, since `clock_init` and `reset_cpu` wait for them without a bound.
* `Spi` and `BootImage` are about safety and state none; that calls return is
  `OperationReturns` of `DataFlash`.

Weak fairness is enough everywhere, and all the code justifies: it is one loop on
a processor that does not stop.

## 4. Proofs

| Module | Theorems | which say |
|---|---|---|
| `Division` | | quotients and remainders of naturals, which the provers know little about; used by the others |
| `DataFlashProofs` | `TypeCorrect`, `StoreIsVerified`, `LoadIsFaithful`, `DamageIsConfined`, `CommandsMeetReadyChip` | what is reported is true, and what goes wrong stays in the pages of the request |
| | `WritesEveryByte`, `NeighboursSurvive` | a store on a sound chip writes each byte where it belongs, and the rest of its pages keep their values |
| | `DriverImplementsStorage` | every step of driver and chip is a step of `FlashStorage` or none |
| `SpiProofs` | `AddressArrives`, `OffsetArrives` | the bytes of an address, on every device of the table |
| | `CommandsAreObeyed`, `LeftoverIsUsedUp`, `ReportsAreTrue` | `ChipObeys`, `LeftoverInProbe`, `Truthful` |
| `TimerProofs` | `TypeCorrect`, `WaitsAreLongEnough`, `TimeIsExact`, `OnlyTurnsAreLost` | no wait is too short, and what the software clock loses is whole turns |
| `BoardProofs` | `OnlyReceivedBoots`, `LastStoreBoots` | what is started |
| | `LoaderStaysAlive`, `EnvironmentStays` | what storing u-boot leaves alone |
| | `AutobootIsSilent`, `EraseIsConfirmed` | what the countdown and a burst of characters cannot do |
| | `BoardUsesStorage` | every step of the board is one `FlashStorage` allows |
| `XmodemProofs` | `ReceiverIsTyped`, `BufferHolds`, `NothingAckedEarly`, `SenderIsRight` | the buffer, and what an acknowledgement means, whatever the line does |
| | `CleanLineKeepsOrder`, `CleanLineIsHonest`, `CleanLineDelivers` | the file, on a line without faults, with invitations that cross and without |
| `PowerUpProofs` | `StartIsInOrder`, `VerdictIsRight` | `ReadyBeforeUse` and `TestsTell` |
| `DecompressProofs` | `RoomIsKept`, `InputIsKept` | `WithinRoom` and `LooksOneByteBehind`, for every input |
| | `ImagesAreUnpacked`, `CutsAreAtBlocks` | `Inverts` and `CutAtBlocks`, for every row of blocks and tokens, of any length |

`DriverImplementsStorage` and `BoardUsesStorage` are the two halves of one
argument: the contract the menu relies on is the one the driver keeps.

### What is assumed
The theorems hold for every value of the constants that the assumptions of the
modules allow (`GeometryAssumption`, `DataFlashAssumption`, `SpiAssumption`,
`TimerAssumption`, `BoardAssumption`, `DeliveryAssumption`, `XmodemAssumption`,
`PowerUpAssumption`, `DecompressAssumption`, `CompressorAssumption`): numbers are numbers of the right
size, data are of their types, and special values differ from each other.  TLC
evaluates them in each run.  Those that say more:

* `SpiAssumption`: the part of each area of RAM that is followed (`RamSize`) is
  at most the smallest page, and requests fit it, which is the abstraction
  described above.
* `RequestsName` of `Spi`: addresses are those `board.c` uses.  An address whose
  upper bits are lost in the mask of the driver, and which is on the device
  without them, would be another address; no caller has one.
* `PowerUpAssumption`: the faults of `IsFault`, and at most the 8 refresh cycles
  that `configure_sdram` performs.
* `CompressorAssumption` of `Decompress`: the blocks of every call are such as LZF
  knows (`IsBlock`).  Of the input of the call nothing is assumed but that it is
  bytes: it may be their image, cut, padded or damaged, or something else.
* `DeliveryAssumption` of `Board`: the board is delivered with a loader that
  works and an environment, and erased or lost cells do not read as a header.

Some theorems have a hypothesis of their own:

* `~BusyStart` (`DriverImplementsStorage`): the call begins on an idle chip, as
  `Collect` has it for the caller.  A write that begins on a busy chip, after a
  reset, can lose its first command; `WritesEveryByte` and `NeighboursSurvive`
  say so themselves, and the theorems about reports and damage hold with it.
* `PagesAligned` (`LoaderStaysAlive`, `EnvironmentStays`): no page lies in two
  areas. `config-bf200.h` puts the areas at multiples of 264; on larger pages it
  does not hold, and neither do the properties.
* `BurstsAreDrained` (`EraseIsConfirmed`): a burst is no longer than what
  `drain_uart` reads, 32768 characters.
* `AreaRequests` (`BoardUsesStorage`): the storage takes every image that fits
  its area, an erase of everything and a read of the u-boot area, all of which
  lie on the device.
* `Typed = {<<>>}` and `faults = 0` (`CleanLineKeepsOrder`, `CleanLineIsHonest`,
  `CleanLineDelivers`): nothing was typed before the transfer, and the line has
  lost and changed nothing so far.
* `[]~Crossing` (`CleanLineDelivers`): no invitation crosses what it invites to.
  The code cannot prevent that; a sender that answers at once all but does.
  Without it `CleanLineIsHonest` is what is left.
* `len <= Size(file)` (`SenderIsRight`): noise has not made up blocks the file
  does not have, a right CRC included.  In the run, where the CRC tells apart
  what the line can make of a block, `SenderKnows` holds without it.

### The inductive invariants
Each was checked by TLC as an invariant of the component's run before it was
proved.

**DataFlash.** `TInv` adds to `TypeOK` what the position in the call implies:
the request fits the device (`JobFits`), and at each command, and in each wait
but the one before a read, some of the request is left (`Underway`).  Without it
the next piece might lie outside the request, and `buf` and `scratch` be read
outside their ranges.  `SInv` adds what the theorems on reports and damage need:
the copy still is the image (`Copied`); what has been read back is what the chip
holds, and the chip is idle from the first chunk on (`ReadBack`); after "ok"
nothing is under way (`AtRest`); the chip works only on a page of the request or
one it was busy with when the call began (`Placed`).  `VerifiedStored` follows:
the comparison is of the copy with what an idle chip holds, and only another
call can set the chip to work again.  `Confined` follows from `Placed`, since
the only steps that change memory change the page of `op`.

Neither says that the right bytes are written; a store that went wrong would be
found out. That needs a history: `Plan(a, n)` is what cell `a` should hold once
the request is written up to address `n`.  `OnPlan` says for each position of
the call how far flash and buffer follow it: the pages before the current one
wholly, its buffer as loaded, with the piece in it once that was sent, its page
erased or written.  `Owned` says that the chip works on the page of the current
command and that the source has not become junk ahead of the part that is
written.  A chip that fails to program (`worn`) leaves the plan; what holds then
is that each cell has a value somebody meant it to have, or is erased or lost
(`AInv`).  `WriteIsRight` and `NeighboursKept` follow from `WInv`, `TInv` and
`SInv`.

For the refinement, `MapStep` takes the actions one by one: accepting a request
is `Store` or `Load`, a step that changes memory or the plan is one that writes
cells of the request's pages, the reports are the returns (`SInv` and `AInv`
give what they promise), a reset is the cut, all others are stutters.

**Spi.** `TableRight` compares the table of devices with the data sheets.  The
number the driver sends is page times field plus offset (`WireIsField`) and fits
the bytes it is cut into (`FieldBound`, `ThreeBytes`, `FourBytes`), so that the
chip puts it together again (`BytesArrive`) and page and offset are its quotient
and remainder (`Fields`).  `OffsetIsField` and `OffsetArrives` are the same for
the offset alone, with the masks of the table.

The sequential part carries more in its invariant than the others, because what
a transfer does depends on counters that an earlier one may have left.
`PlanInv`: what is to be done is a row of commands each followed by a wait, with
the read at its end (`Part`, `Whole`, and `PlanIsWhole` that the driver makes
such a row of every request). `LeftInv`: a data phase left behind is only there
in the probe, and while a command that has one of its own goes out.  `FrameInv`:
what the chip has heard is the beginning of what the driver means, so that at
the end of the command (`HeaderArrives`, `TakenRight`) it is what was meant.
`StatusInv`: a status is that of the device, busy or not, or 0xFF on a dead bus.
`ReadInv`: what has come back so far is what is in the flash, or 0xFF.
`KeepInv`: the image is in RAM until the copy is made, and the copy after that,
unless the call before left a data phase.

**Timer.** `IInv` says that the counter stands where the ticks since the last
reading have put it (`CounterMoved`), that the time stamp never runs ahead
(`NotAhead`), that a gap of a whole turn is remembered (`GapRemembered`), and
that what went unnoticed is a whole number of turns (`TurnsLost`).  `Passed`
then is the one residue of `gap` (`PassedRight`, from `Division`), whence the
step of `Poll`; `NeverEarly` is `NotAhead` at the moment the loop ends.

**Board.** `CallInv` ties each storage call to the menu command that made it:
while one runs, or its result is awaited, it is the call this command makes, and
its cells lie in the area the command is about.  On it rest three invariants
that do not need each other. `HeaderInv`: a header in the first
cell of the u-boot area, or one that may still get there while the cell is being
written, is that of a payload received whole (`HeaderKnown`); where it is known
what the flash holds, the header is that of the last payload stored, or none
after an erase (`StoredHolds`); a call that succeeded has read or written what
is there (`HeaderDone`).  This is why an interrupted upload starts nothing that
was not received: what is started has the CRC its header names, and a payload
that is partly old or lost does not.  `AreasInv`: the loader and the
environment are what they were at delivery until a call that is about them
begins to write.  `LineInv`: seconds without a character are counted as what
they are, and what is left of a burst after `drain_uart` is nothing.

**Xmodem.** `Buffer` says that `len` counts whole blocks and that data are only
read where a whole block has room; that the two CRC bytes have it too is
`CrcFits`, and rests on the buffer's size being no multiple of a block but two
or more above one.  `AcksCounted` is what makes an acknowledgement mean
something although several may be under way: those on the line can be numbered
upwards from the last one noted to the last one sent, so that the sender's
`block` never passes the receiver's count.

On a clean line more is true: the conversation is in one of six phases
(`Inviting`, `Receiving`, `Accepted`, `Doomed`, `Ending`, `Over`), in which what is
on the line, where each end is, and the number of blocks are tied to each other,
and what has been stored is the file so far (`Stored`).  Block numbers may wrap any
number of times.  `Conversation(x)` is the invariant twice: with `x = 1` an
invitation may have crossed block 1, which then may come again behind itself
(`Behind`), before its acknowledgement or after it (`Doomed`); with `x = 0` none
has, and there is no such phase.

**PowerUp.** `RInv` is the order of the initialisations: what each leaves behind
(`SetUp`), the time the SDRAM has had (`Waited`, of which `ReadyBeforeUse` needs
the last microseconds from the banner), and the steps of `configure_sdram`, each
building on the one before (`Configuring`). `MInv` has one clause for each kind
of fault: sound memory holds what was written (`SoundHolds`); a stuck bit is
found right only by patterns that have it so (`StuckShows`); lines that touch do
not survive the pattern 0x55555555 (`ShortShows`); where two words are one, the
first holds the index of the second, and the first pass goes no further
(`AddressShows`).  The patterns of the full test have each bit both ways, so a
verdict of "ok" excludes each fault in turn.

**Decompress.** Between blocks, what is written is what is counted (`AtBlock`);
in a block, the input read lies before its end, and what is written fits what
the header has announced, which fits the room (`InBlock`).  `LooksOneByteBehind`
is the case of a compressed empty block, which `InBlock` leaves as the only one.

For `Inverts` and `CutAtBlocks` the invariant says where in an image the decoder
is, if the input is one or the beginning of one (`Placed`): between blocks, `ip` is
where some block begins and `out` is what the blocks before it stand for
(`BlockPlace`); in a block, `ip` is where one of its tokens begins, `out` what the
blocks and the tokens before it stand for, and `end`, `us` and `start` are what the
header of the block says (`TokenPlace`).  A header is read as it was written
(`FramedIs`, `HeaderIs`), a block is rejected for its size only if the input is cut
in it or the room is too small (`BadBlockFollows`), and a token read does to `out`
what it stands for (`TokenIs`, `UnpackBehind`, `TokenFollows`).  An image and its
content are defined by concatenation and by a fold, so this needs induction over
data: `k + 1` blocks or tokens make what `k` make, and behind it what the last one
makes (`JoinedNext`, `MadeNext`).  The library's induction theorems cannot be used
(they take an operator as a parameter), so the proofs use a form over the members
of a set (`Induction`), which follows from a fact about finite sets: were there a
number that is not in the set, taking one away would map the numbers up to it that
are not in the set into themselves, one to one and so onto, although the last has
none above it.

### What is only model-checked
* Liveness (`OperationReturns`, `MenuReturns`, `AutobootResolves`, `WaitEnds`,
  `CleanDelivery`, `ReturnsOrSenderGone`, `Returns`, `Restarts`): the prover has
  no rules for fairness.  Of `CleanDelivery`, `CleanLineDelivers` is the safety
  half.
* `IsRemainder` and `BootJudges` (`BootImage`): the CRC is made of exclusive ors of
  words, which `Bitwise` defines by recursion; the provers cannot be used in a
  module that reaches it.
* `InOrder` and `ShortOnlyAtEot` on a line with faults: they hold because few
  faults cannot forge a block and its CRC, so a proof has to count faults and
  needs a model of the CRC that says how many it withstands.

The type invariants of `DataFlash` and `Timer` (`TypeCorrect`), and that of
`Xmodem` (`ReceiverIsTyped`), are proved and not run; those of the other
components are part of the invariants above.

## 5. What is not modelled

* Functions nobody calls: `AT91F_PagePgmBuf`, `AT91F_BlockErase`, `addr_dataflash`,
  `reset_timer`, `get_timer`, `set_timer`, `get_ticks`, the interrupt stubs.
* What is compiled in for tests only (`TEST_HOOKS`, `DRYRUN_FLASH`), but for the
  request out of range of key `f`, which `Spi` makes; `decompress_image` without
  `CONFIG_UBOOT_LZF_COMPRESSED`, which is a bounded copy.
* Registers that are written once and never again: pins, the baud rate, the
  geometry in `SDRAMC_CR`, the clock of the SPI.
* The vectors, the processor mode and the register frame of an exception.
* Output: what is printed is only present as the time it takes.  `uintprint` and
  `hexprint` format numbers for it; no behaviour depends on them.
* `include/`: vendored headers of the processor and of ARM Linux (`mach-types.h`
  alone is a third of all lines of the repository).  They define names for
  registers and machine numbers and hold no logic; the few that matter are
  constants of the modules.

## 6. Plan

1. *Done*: geometry, driver and chip down to the bytes on the bus, storage
   contract, board, time base, XMODEM, CRC and image header, decompressor,
   start-up with the SDRAM and its tests.
2. *Done*: theorems for every safety and action property of the runs but `InOrder` and
   `ShortOnlyAtEot` under faults and the two of `BootImage`, and for both refinements.
3. *Next*: `InOrder` for any number of faults below what forges a block, with the CRC
   as a constant that tells apart blocks that differ in so many bytes; the CRC over
   sequences of bits, whose exclusive or is a function and needs no `Bitwise`, and
   `IsRemainder` of it by the induction that `DecompressProofs` has.  Liveness stays
   with TLC.
