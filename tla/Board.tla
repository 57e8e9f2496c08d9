------------------------------- MODULE Board --------------------------------
(***************************************************************************)
(* The menu program of src/board.c: start_armboot and the functions the    *)
(* menu calls, on top of the storage promised by FlashStorage, with the    *)
(* console line, the person or file sender at its other end, resets and    *)
(* power failures.                                                         *)
(*                                                                         *)
(* Time is counted in seconds, the unit of every delay in board.c.  While  *)
(* the program waits it polls its one-character receiver far more often    *)
(* than once per second, so there no second passes with a character        *)
(* unread, and a character is only overwritten by the next one while the   *)
(* program is busy: with the flash, or printing, which it does in the      *)
(* first second of each wait.  A burst is a run of characters with less    *)
(* than a second between them.                                             *)
(***************************************************************************)
EXTENDS FlashStorage, Sequences

CONSTANTS
    Keys,           \* characters that may arrive; any but those of the menu,
                    \* '~' and 'y' stand for the rest
    Files,          \* what may be sent by XMODEM: [kind, data]
    Loaders,        \* loaders that work, as sequences of cells
    Payloads,       \* compressed u-boots that may be in the flash
    Unpackable,     \* those decompress_image rejects
    EnvWord,        \* what the environment cells hold at first
    LoaderLen,      \* DATAFLASH_LOADER_LEN
    UbootLen,       \* DATAFLASH_UBOOT_LEN
    MinImage,       \* MIN_IMAGE_SIZE
    MinBoot,        \* DATAFLASH_UBOOT_MINLEN
    AutobootDelay,  \* AUTOBOOT_DELAY, in seconds
    AskTime,        \* how long confirm_yes waits
    DrainMax,       \* how many characters drain_uart reads at most
    MaxBurst,       \* characters of a burst are not counted beyond this ...
    Endless,        \* ... and it ends there unless bursts may be endless
    MaxSeconds,     \* seconds are not counted beyond this
    None

ASSUME BoardAssumption ==
    /\ LoaderLen \in Nat \ {0} /\ UbootLen \in Nat \ {0}
    /\ LoaderLen + UbootLen < Total
    /\ MaxSeconds \in Nat
    /\ AutobootDelay \in 1 .. MaxSeconds /\ AskTime \in 1 .. MaxSeconds
    /\ DrainMax \in Nat \ {0} /\ MaxBurst \in Nat \ {0} /\ Endless \in BOOLEAN
    /\ \A k \in Keys : \A p \in BOOLEAN : [key |-> k, paused |-> p] # None
    /\ \A f \in Files : f.data \in Seq({f.data[i] : i \in DOMAIN f.data})

VARIABLES
    pc,         \* where the program is
    task,       \* the menu command that runs
    rx,         \* the receiver: a character and whether a pause preceded it
    burst,      \* characters of the current burst so far
    timer,      \* seconds since reset_timer_masked
    drained,    \* characters drain_uart has read
    autoboot,   \* start_armboot's flag
    jumped,     \* the payload u-boot was started from
    \* history, read by properties only
    received,   \* payloads delivered with the board or received since
    stored,     \* the payload the flash holds for certain (None: it holds none)
    since,      \* seconds without a character (NULs aside) since the start
    paused,     \* a quiet second passed since '5' was read
    escaped,    \* since start, '~' was read or a boot failed
    rewritten,  \* a loader upload or an erase began to write
    erased      \* an erase began to write

program == <<pc, task, timer, drained, autoboot, jumped>>
line == <<rx, burst>>
ghosts == <<received, stored, since, paused, escaped, rewritten, erased>>
bvars == <<svars, program, line, ghosts>>

\* Mutant of UbootBase: u-boot goes to DATAFLASH_LOADER_BASE.
UbootBaseOfLoader == 0

UbootBase == LoaderLen
EnvCells == (UbootBase + UbootLen) .. (Total - 1)
UbootCells == UbootBase .. (UbootBase + UbootLen - 1)

\* The header upload_uboot puts before a payload: length and CRC.  The CRC is
\* taken to tell payloads apart.
Header(p) == [len |-> Len(p), crc |-> p]
Cells(s) == [i \in 0 .. (Len(s) - 1) |-> s[i + 1]]
UbootImage(p) == Cells(<<Header(p)>> \o p)
Blank == [a \in Addrs |-> Erased]

\* How the board is delivered: with a loader that works, in its place, and the
\* environment; and cells that hold no header are never taken for one.
ASSUME DeliveryAssumption ==
    /\ \A c \in Contents :
          /\ DOMAIN c = Addrs
          /\ \E f \in Loaders : /\ Len(f) \in 0 .. LoaderLen
                              /\ \A i \in 1 .. Len(f) : c[i - 1] = f[i]
          /\ \A a \in EnvCells : c[a] = EnvWord
    /\ {Erased, Junk} \cap {Header(p) : p \in Payloads} = {}

Capped(n) == IF n < MaxSeconds THEN n + 1 ELSE n

-----------------------------------------------------------------------------
\* Power comes on with nothing on the line.
BoardInit ==
    /\ StorageInit
    /\ pc = "rom" /\ task = "none"
    /\ rx = None /\ burst = 0
    /\ timer = 0 /\ drained = 0
    /\ autoboot = TRUE
    /\ jumped = None
    /\ received = {p \in Payloads : content[UbootBase] = Header(p)}
    /\ stored = "unknown"
    /\ since = 0
    /\ paused = FALSE /\ escaped = FALSE
    /\ rewritten = FALSE /\ erased = FALSE

-----------------------------------------------------------------------------
\* The line.

Arrive(k) ==
    /\ pc \in {"menu", "drain", "ask", "flash"}
    /\ burst < MaxBurst \/ Endless
    /\ rx = None \/ pc = "flash" \/ timer = 0
    /\ rx' = [key |-> k, paused |-> paused]
    /\ burst' = IF burst < MaxBurst THEN burst + 1 ELSE burst
    /\ since' = IF k = "nul" THEN since ELSE 0
    /\ UNCHANGED <<svars, program, received, stored, paused, escaped,
                   rewritten, erased>>

\* A second in which nothing arrives.
Second ==
    /\ pc \in {"menu", "drain", "ask"} => rx = None
    /\ pc \in {"menu", "drain", "ask", "flash", "rx"}
    /\ timer' = Capped(timer)
    /\ since' = Capped(since)
    /\ burst' = 0
    /\ paused' = TRUE
    /\ UNCHANGED <<svars, pc, task, drained, autoboot, jumped, rx, received,
                   stored, escaped, rewritten, erased>>

-----------------------------------------------------------------------------
\* Parts of the program's steps.

\* Mutant of ToMenu: the countdown is not restarted.
ToMenuStaleTimer ==
    /\ pc' = "menu" /\ task' = "none"
    /\ UNCHANGED timer /\ drained' = 0

\* dispmenu = 1: the menu is printed and the autoboot countdown starts anew.
ToMenu ==
    /\ pc' = "menu" /\ task' = "none"
    /\ timer' = 0 /\ drained' = 0

\* Mutant of Drain: confirm_yes asks without draining the line.
DrainNotBeforeAsk(t) ==
    /\ pc' = (IF t = "erase" THEN "ask" ELSE "drain") /\ task' = t
    /\ timer' = 0 /\ drained' = 0

\* drain_uart is entered on behalf of t.
Drain(t) ==
    /\ pc' = "drain" /\ task' = t
    /\ timer' = 0 /\ drained' = 0

\* flash_store on behalf of t; the chip may not answer.
FlashStore(t, addr, len, img) ==
    /\ pc' = "flash" /\ task' = t
    /\ \/ /\ Store([addr |-> addr, len |-> len, image |-> img])
          /\ stored' = IF Touched(addr, len) \cap UbootCells = {}
                       THEN stored ELSE "unknown"
          /\ rewritten' = (rewritten \/ t \in {"loader", "erase"})
          /\ erased' = (erased \/ t = "erase")
       \/ /\ Refuse
          /\ UNCHANGED <<stored, rewritten, erased>>

\* The payload boot_uboot unpacks, its length taken from the header.
Payload(area) == [i \in 1 .. area[0].len |-> area[i]]

\* Mutant of Bootable: the CRC is not compared.
BootableWithoutCrc(area) ==
    /\ area[0] \in {Header(p) : p \in Payloads}
    /\ area[0].len >= MinBoot
    /\ area[0].len <= UbootLen - 1

\* The checks boot_uboot makes on the area it has read: the magic number, the
\* length, the CRC.
Bootable(area) ==
    /\ area[0] \in {Header(p) : p \in Payloads}
    /\ area[0].len >= MinBoot
    /\ area[0].len <= UbootLen - 1
    /\ Payload(area) = area[0].crc

\* The BootROM starts what is at LOADER_BASE.
LoaderRuns ==
    \E f \in Loaders : \A i \in 1 .. Len(f) : content[i - 1] = f[i]

-----------------------------------------------------------------------------
\* Start.

Start ==
    /\ pc = "rom"
    /\ Collect
    /\ IF LoaderRuns THEN pc' = "menu" ELSE pc' = "dead"
    /\ task' = "none" /\ timer' = 0 /\ drained' = 0
    /\ autoboot' = TRUE
    /\ since' = 0
    /\ escaped' = FALSE
    /\ UNCHANGED <<jumped, line, received, stored, paused, rewritten, erased>>

\* A reset or a power failure, in the middle of anything; the storage call that
\* runs is cut off.
Restart ==
    /\ pc # "rom"
    /\ outcome' = "none" /\ content' = content /\ loose' = {} /\ Break
    /\ pc' = "rom" /\ task' = "none"
    /\ timer' = 0 /\ drained' = 0
    /\ jumped' = None
    /\ rx' = None
    /\ UNCHANGED <<autoboot, burst, ghosts>>

-----------------------------------------------------------------------------
\* The loop of start_armboot.

\* boot_uboot reads the whole u-boot area.
BootUboot ==
    /\ pc' = "flash" /\ task' = "boot"
    /\ \/ Load([addr |-> UbootBase, len |-> UbootLen])
       \/ Refuse
    /\ UNCHANGED <<timer, drained>>

\* A key is read and acted upon.
MenuKey ==
    /\ pc = "menu" /\ rx # None
    /\ rx' = None
    /\ \/ /\ rx.key \in {"1", "2"}
          /\ pc' = "rx"
          /\ task' = IF rx.key = "1" THEN "loader" ELSE "uboot"
          /\ UNCHANGED <<svars, timer, drained, autoboot, paused, escaped>>
       \/ /\ rx.key = "4"
          /\ BootUboot
          /\ UNCHANGED <<autoboot, paused, escaped>>
       \/ /\ rx.key = "5"
          /\ Drain("erase")
          /\ paused' = FALSE
          /\ UNCHANGED <<svars, autoboot, escaped>>
       \/ /\ rx.key = "~"
          /\ autoboot' = FALSE /\ escaped' = TRUE
          /\ UNCHANGED <<svars, pc, task, timer, drained, paused>>
       \/ /\ rx.key = "nul"                     \* taken for no key at all
          /\ UNCHANGED <<svars, pc, task, timer, drained, autoboot, paused,
                         escaped>>
       \/ /\ rx.key \notin {"1", "2", "4", "5", "~", "nul"}
          /\ ToMenu                                      \* "Invalid input"
          /\ UNCHANGED <<svars, autoboot, paused, escaped>>
    /\ UNCHANGED <<jumped, burst, received, stored, since, rewritten, erased>>

\* No key, and the countdown has run out.
Countdown ==
    /\ pc = "menu" /\ rx = None
    /\ autoboot /\ timer >= AutobootDelay
    /\ BootUboot
    /\ UNCHANGED <<autoboot, jumped, line, ghosts>>

-----------------------------------------------------------------------------
\* upload_loader and upload_uboot.  rxmodem is external here: it waits for the
\* sender as long as it takes, delivers a file that fits, or gives up; then the
\* sender may well go on (see module Xmodem).

\* Mutant of Room: the header is not counted.
RoomWithoutHeader(t) == IF t = "loader" THEN LoaderLen ELSE UbootLen

Room(t) == IF t = "loader" THEN LoaderLen ELSE UbootLen - 1

LoaderOk(f) ==
    /\ Len(f.data) > MinImage /\ Len(f.data) < LoaderLen
    /\ f.kind = "loader"                       \* loader_image_ok
UbootOk(f) ==
    /\ Len(f.data) > MinImage /\ Len(f.data) <= Room("uboot")
    /\ f.kind = "uboot"                        \* 'Z', 'V'

Received(f) ==
    /\ pc = "rx" /\ Len(f.data) <= Room(task)
    /\ IF task = "loader"
       THEN IF LoaderOk(f)
            THEN /\ FlashStore("loader", 0, Len(f.data), Cells(f.data))
                 /\ UNCHANGED <<timer, drained>>
            ELSE Drain("none") /\ UNCHANGED <<svars, stored, rewritten, erased>>
       ELSE IF UbootOk(f)
            THEN /\ FlashStore("uboot", UbootBase, Len(f.data) + 1,
                               UbootImage(f.data))
                 /\ UNCHANGED <<timer, drained>>
            ELSE Drain("none") /\ UNCHANGED <<svars, stored, rewritten, erased>>
    /\ received' = received \cup ({f.data} \cap Payloads)
    /\ burst' = 1 /\ since' = 0
    /\ UNCHANGED <<autoboot, jumped, rx, paused, escaped>>

\* rxmodem returns 0: "Image error" after the line has been drained.
NotReceived ==
    /\ pc = "rx"
    /\ Drain("none")
    /\ burst' = 1 /\ since' = 0
    /\ UNCHANGED <<svars, autoboot, jumped, rx, received, stored, paused,
                   escaped, rewritten, erased>>

-----------------------------------------------------------------------------
\* drain_uart.

\* Mutant of DrainChar: the count is forgotten.
DrainCharForEver ==
    /\ pc = "drain" /\ rx # None
    /\ timer < 1
    /\ rx' = None
    /\ timer' = 0
    /\ UNCHANGED <<svars, pc, task, drained, autoboot, jumped, burst, ghosts>>

DrainChar ==
    /\ pc = "drain" /\ rx # None
    /\ timer < 1 /\ drained < DrainMax
    /\ rx' = None
    /\ drained' = drained + 1 /\ timer' = 0
    /\ UNCHANGED <<svars, pc, task, autoboot, jumped, burst, ghosts>>

\* Quiet for a second, or enough read: the menu, or the question of confirm_yes.
DrainEnd ==
    /\ pc = "drain"
    /\ timer >= 1 \/ drained >= DrainMax
    /\ IF task = "erase" THEN /\ pc' = "ask" /\ timer' = 0 /\ drained' = 0
                              /\ UNCHANGED task
                         ELSE ToMenu
    /\ UNCHANGED <<svars, autoboot, jumped, line, ghosts>>

-----------------------------------------------------------------------------
\* confirm_yes and erase_flash.

AskAnswer ==
    /\ pc = "ask" /\ rx # None
    /\ timer < AskTime
    /\ rx' = None
    /\ IF rx.key = "y"
       THEN FlashStore("erase", 0, Total, Blank) /\ UNCHANGED <<timer, drained>>
       ELSE ToMenu /\ UNCHANGED <<svars, stored, rewritten, erased>>
    /\ UNCHANGED <<autoboot, jumped, burst, received, since, paused, escaped>>

AskTimeout ==
    /\ pc = "ask"
    /\ timer >= AskTime
    /\ ToMenu
    /\ UNCHANGED <<svars, autoboot, jumped, line, ghosts>>

-----------------------------------------------------------------------------
\* The storage at work, one cell at a time, and the end of its call.

FlashWork ==
    /\ running
    /\ \E a \in loose : \E v \in Possible(a) :
          content' = [content EXCEPT ![a] = v]
    /\ UNCHANGED <<base, call, running, loose, outcome, answer>>
    /\ UNCHANGED <<program, line, ghosts>>

FlashReturn ==
    /\ running
    /\ \/ Succeed
       \/ /\ outcome' = IF call.kind = "store" THEN "wrfail" ELSE "readfail"
          /\ content' = content /\ loose' = {}
          /\ Break
    /\ UNCHANGED <<program, line, ghosts>>

\* Mutant of BootFailed: autoboot is not cleared.
BootFailedRetries ==
    /\ ToMenu
    /\ UNCHANGED autoboot /\ escaped' = TRUE

\* A boot that failed is not repeated.
BootFailed ==
    /\ ToMenu
    /\ autoboot' = FALSE /\ escaped' = TRUE

\* What the storage answered is acted upon: the jump to u-boot, or the menu.
AfterFlash ==
    /\ pc = "flash" /\ ~running
    /\ IF task = "boot"
       THEN IF outcome = "ok" /\ Bootable(answer)
                  /\ Payload(answer) \notin Unpackable
            THEN /\ pc' = "booted" /\ jumped' = Payload(answer)
                 /\ UNCHANGED <<task, timer, drained, autoboot, escaped>>
            ELSE BootFailed /\ UNCHANGED jumped
       ELSE ToMenu /\ UNCHANGED <<autoboot, jumped, escaped>>
    /\ stored' = IF outcome # "ok" THEN stored
                 ELSE IF task = "uboot" THEN call.image[0].crc
                 ELSE IF task = "erase" THEN None ELSE stored
    /\ Collect
    /\ UNCHANGED <<line, received, since, paused, rewritten, erased>>

-----------------------------------------------------------------------------
ProgramStep ==
    \/ Start
    \/ MenuKey
    \/ Countdown
    \/ DrainChar
    \/ DrainEnd
    \/ AskAnswer
    \/ AskTimeout
    \/ AfterFlash

BoardNext ==
    \/ ProgramStep
    \/ \E k \in Keys : Arrive(k)
    \/ Second
    \/ \E f \in Files : Received(f)
    \/ NotReceived
    \/ FlashWork
    \/ FlashReturn
    \/ Restart

BoardSpec == BoardInit /\ [][BoardNext]_bvars

\* The processor runs, time passes, and a storage call returns
\* (OperationReturns of DataFlash).
BoardFairSpec ==
    /\ BoardSpec
    /\ WF_bvars(ProgramStep)
    /\ WF_bvars(Second)
    /\ WF_bvars(FlashReturn)

-----------------------------------------------------------------------------
(* What the board promises. *)

\* u-boot is only ever started from a payload that was received as a whole, no
\* matter how often writing it was interrupted, by what, and on top of what.
BootsOnlyReceived == pc = "booted" => jumped \in received

\* After "Flash WR OK" nothing but that payload is started, and nothing at all
\* after an erase, until the area is written again.
LastStoreWins == pc = "booted" /\ stored # "unknown" => jumped = stored

\* The board only ever stops starting if a loader upload or an erase began to
\* write: an interrupted u-boot upload cannot do it.  (Where a page does not
\* straddle the two areas.)
LoaderSurvives == pc = "dead" => rewritten

\* Only a confirmed erase changes u-boot's environment.
EnvironmentKept == ~erased => \A a \in EnvCells : content[a] = EnvWord

\* A confirmation is an answer: a quiet second lies between the '5' and the 'y',
\* so that no burst, such as the tail of an XMODEM transfer, is both.
EraseConfirmed ==
    [][task = "erase" /\ pc = "ask" /\ task' = "erase"
       => pc' # "flash" \/ (rx.key = "y" /\ rx.paused)]_bvars

\* The countdown only ends in a boot after as much silence, and not after '~' or
\* a failed boot.
AutobootAfterSilence ==
    [][pc = "menu" /\ task' = "boot" /\ rx = None
       => since >= AutobootDelay /\ ~escaped]_bvars

\* The steps of the board use the storage as FlashStorage allows.
UsesStorage == StorageSpec

\* Draining, asking and writing come to an end, even if characters keep coming.
MenuReturns ==
    pc \in {"drain", "ask", "flash"} ~> pc \in {"menu", "booted", "rom", "dead"}

\* Once the line has fallen silent and the power stays on, the program settles:
\* u-boot runs, or autoboot is off and the menu waits, or an XMODEM receiver
\* waits for its sender, or the loader is gone.
Silence == <>[][~Restart /\ \A k \in Keys : ~Arrive(k)]_bvars
AutobootResolves ==
    Silence => <>[](\/ pc \in {"booted", "rx", "dead"}
                    \/ pc = "menu" /\ ~autoboot)
=============================================================================
