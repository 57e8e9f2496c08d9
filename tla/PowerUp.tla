------------------------------ MODULE PowerUp -------------------------------
(***************************************************************************)
(* From reset to the menu: start.S, the first half of start_armboot,       *)
(* configure_sdram and its preliminary test, the memory test of the menu,  *)
(* and the way back from an exception to a reset.  The memory may be       *)
(* faulty; a word is the set of its bits that are 1.                       *)
(*                                                                         *)
(* TEXT_BASE is 0, so that start.S copies the vectors onto themselves.     *)
(***************************************************************************)
EXTENDS Integers

CONSTANTS
    Size,       \* words of SDRAM
    QuickSize,  \* words of its last megabyte
    Bits,       \* data lines
    Faults,     \* what the memory may suffer from
    Refreshes   \* refresh cycles the device wants, 8

Words == 0 .. (Size - 1)
Lanes == 0 .. (Bits - 1)

\* Address line k tells apart words that are 2^k from each other; there are no more
\* of them than data lines.  It is low where the last megabyte begins, if it changes
\* there at all.
IsFault(f) ==
    \/ f = [kind |-> "none"]
    \/ \E k \in Lanes : /\ f = [kind |-> "address", line |-> k]
                        /\ 2^k \in 1 .. (Size - 1)
                        /\ 2^k < QuickSize => (Size - QuickSize) % (2 * 2^k) = 0
    \/ \E b \in Lanes, l \in {0, 1} :
          \/ f = [kind |-> "lane", lane |-> b, level |-> l]
          \/ \E a \in Words : f = [kind |-> "bit", word |-> a, lane |-> b, level |-> l]
          \/ b + 1 \in Lanes /\ f = [kind |-> "short", lane |-> b, level |-> l]

ASSUME PowerUpAssumption ==
    /\ Size \in Nat \ {0} /\ QuickSize \in 1 .. Size /\ Bits \in Nat \ {0}
    /\ \A f \in Faults : IsFault(f)
    /\ Refreshes \in 0 .. 8

VARIABLES
    pc,
    pos, pass,  \* in a memory test: i and pass; in a row of accesses: how many
    test,       \* which test: "quick" (memory_test) or "full" (memory_test_full)
    \* hardware
    locked,     \* PLLs that have locked
    soc,        \* what the program has switched on: "plla", "timer", "uart"
    ctrl,       \* SDRAM controller: mode, timing and refresh rate set
    chip,       \* SDRAM: age in us, precharged, refreshes, mode register loaded
    mem, fault,
    \* program
    first,      \* the variable that the linker puts first in bss
    defined,    \* variables whose value does not depend on what SRAM came up with
    verdict     \* of the memory test: "none", "ok" or "failed"

place == <<pc, pos, pass, test>>
sdram == <<ctrl, chip, mem>>
fixed == <<fault, first>>
program == <<defined, verdict>>
vars == <<place, locked, soc, sdram, fixed, program>>

TimeBase == {"tmr", "lastinc", "timestamp"}
Statics == TimeBase \cup {"dataflash_info"}

Quiet == [mode |-> "normal", timing |-> FALSE, rate |-> FALSE]
Raw == [age |-> 0, precharged |-> FALSE, refreshes |-> 0, moded |-> FALSE]

Init ==
    /\ pc = "clear_bss" /\ pos = 0 /\ pass = 0 /\ test = "quick"
    /\ locked = {} /\ soc = {} /\ ctrl = Quiet /\ chip = Raw
    /\ mem \in {[a \in Words |-> {}], [a \in Words |-> Lanes]}
    /\ fault \in Faults /\ first \in Statics
    /\ defined = {} /\ verdict = "none"

Goto(label) == pc' = label /\ pos' = 0 /\ pass' = 0 /\ test' = "quick"

-----------------------------------------------------------------------------
\* The loop of clear_bss steps before it stores: the first word stays as it was.
ClearBss ==
    /\ pc = "clear_bss"
    /\ defined' = Statics \ {first}
    /\ Goto("plla")
    /\ UNCHANGED <<locked, soc, sdram, fixed, verdict>>

\* clock_init: two waits, then the master clock is switched.
Lock(pll) ==
    /\ pc = pll /\ locked' = locked \cup {pll}
    /\ UNCHANGED <<place, soc, sdram, fixed, program>>
WaitLocked(pll, label) ==
    /\ pc = pll /\ pll \in locked
    /\ Goto(label)
    /\ soc' = IF pll = "pllb" THEN soc \cup {"plla"} ELSE soc
    /\ UNCHANGED <<locked, sdram, fixed, program>>

InterruptInit ==
    /\ pc = "interrupt_init"
    /\ defined' = defined \cup TimeBase
    /\ soc' = soc \cup {"timer"}
    /\ Goto("serial_init")
    /\ UNCHANGED <<locked, sdram, fixed, verdict>>
SerialInit ==
    /\ pc = "serial_init"
    /\ soc' = soc \cup {"uart"}
    /\ Goto("udelay")
    /\ UNCHANGED <<locked, sdram, fixed, program>>

\* udelay(200) lasts 193 us (DelayLongEnough of Timer); the banner has more than
\* 60 characters of 87 us each.
Older(us) == chip' = [chip EXCEPT !.age = IF @ + us > 200 THEN 200 ELSE @ + us]
Udelay ==
    /\ pc = "udelay"
    /\ Older(193)
    /\ Goto("banner")
    /\ UNCHANGED <<locked, soc, ctrl, mem, fixed, program>>
Banner ==
    /\ pc = "banner"
    /\ Older(60 * 87)
    /\ Goto("configure")
    /\ UNCHANGED <<locked, soc, ctrl, mem, fixed, program>>

-----------------------------------------------------------------------------
(* configure_sdram. *)

\* What the device makes of an access, by the mode of the controller (external).
Access ==
    CASE ctrl.mode = "precharge" -> [chip EXCEPT !.precharged = TRUE]
      [] ctrl.mode = "refresh" ->
             [chip EXCEPT !.refreshes =
                 IF chip.precharged /\ @ < Refreshes THEN @ + 1 ELSE @]
      [] ctrl.mode = "load" -> [chip EXCEPT !.moded = chip.precharged /\ ctrl.timing]

Configure ==
    /\ pc = "configure"
    /\ ctrl' = [ctrl EXCEPT !.timing = TRUE, !.mode = "precharge"]
    /\ Goto("precharge")
    /\ UNCHANGED <<locked, soc, chip, mem, fixed, program>>
Precharge ==
    /\ pc = "precharge"
    /\ chip' = Access
    /\ ctrl' = [ctrl EXCEPT !.mode = "refresh"]
    /\ Goto("refresh")
    /\ UNCHANGED <<locked, soc, mem, fixed, program>>

\* Mutant of Refreshed: one access too few.
RefreshedOnceLess == pos = 7
Refreshed == pos = 8
RefreshAccess ==
    /\ pc = "refresh" /\ ~Refreshed
    /\ chip' = Access
    /\ pos' = pos + 1
    /\ UNCHANGED <<pc, pass, test, locked, soc, ctrl, mem, fixed, program>>
LoadMode ==
    /\ pc = "refresh" /\ Refreshed
    /\ ctrl' = [ctrl EXCEPT !.mode = "load"]
    /\ Goto("load")
    /\ UNCHANGED <<locked, soc, chip, mem, fixed, program>>

\* udelay(1), two accesses with the refresh rate between them.
LoadAccess ==
    /\ pc = "load"
    /\ chip' = Access
    /\ IF pos = 0
       THEN pos' = 1 /\ ctrl' = [ctrl EXCEPT !.rate = TRUE] /\ UNCHANGED <<pc, pass, test>>
       ELSE Goto("write") /\ ctrl' = [ctrl EXCEPT !.mode = "normal"]
    /\ UNCHANGED <<locked, soc, mem, fixed, program>>

-----------------------------------------------------------------------------
(* Memory with faults (external). *)

\* A line that is not connected makes two words one.
Cell(a) ==
    IF fault.kind = "address" /\ (a \div 2^fault.line) % 2 = 1
    THEN a - 2^fault.line ELSE a
Stuck(word, lane, level) == IF level = 1 THEN word \cup {lane} ELSE word \ {lane}
\* Two lines that touch: both low if one is, or both high.
Shorted(word, pair, level) ==
    IF word \cap pair \in {{}, pair} THEN word
    ELSE IF level = 1 THEN word \cup pair ELSE word \ pair
Seen(a, word) ==
    CASE fault.kind = "lane"  -> Stuck(word, fault.lane, fault.level)
      [] fault.kind = "bit" /\ fault.word = a
                              -> Stuck(word, fault.lane, fault.level)
      [] fault.kind = "short" -> Shorted(word, {fault.lane, fault.lane + 1}, fault.level)
      [] OTHER                -> word

Put(a, word) == mem' = [mem EXCEPT ![Cell(a)] = Seen(Cell(a), word)]
Got(a) == Seen(Cell(a), mem[Cell(a)])

-----------------------------------------------------------------------------
(* The memory tests. *)

Index(i) == {k \in Lanes : (i \div 2^k) % 2 = 1}
\* mt_pattern; memory_test knows the first only.
MtPattern(i, n) ==
    CASE n = 0 -> Index(i)
      [] n = 1 -> Lanes \ Index(i)
      [] n = 2 -> {k \in Lanes : k % 2 = 0}
      [] n = 3 -> {k \in Lanes : k % 2 = 1}

\* Mutant of LastPass: the last two are left out.
LastPassOne == IF test = "full" THEN 1 ELSE 0
LastPass == IF test = "full" THEN 3 ELSE 0
Length == IF test = "full" THEN Size ELSE QuickSize
Address == IF test = "full" THEN pos ELSE Size - QuickSize + pos

\* The end of the one loop and of the other, or the next word.
Onward ==
    /\ UNCHANGED test
    /\ IF pos + 1 < Length THEN pos' = pos + 1 /\ UNCHANGED <<pc, pass>>
       ELSE /\ pos' = 0
            /\ \/ pc = "write" /\ pc' = "read" /\ UNCHANGED pass
               \/ pc = "read" /\ pc' = "write" /\ pass' = pass + 1
Write ==
    /\ pc = "write"
    /\ Put(Address, MtPattern(pos, pass))
    /\ Onward
    /\ UNCHANGED <<locked, soc, ctrl, chip, fixed, program>>
Same == Got(Address) = MtPattern(pos, pass)
Last == pos + 1 = Length /\ pass = LastPass
Read ==
    /\ pc = "read" /\ Same /\ ~Last
    /\ Onward
    /\ UNCHANGED <<locked, soc, sdram, fixed, program>>

\* A word differs, or all were right: configure_sdram hangs in the first case.
Tested ==
    /\ pc = "read" /\ (~Same \/ Last)
    /\ Goto(IF test = "quick" /\ ~Same THEN "hang" ELSE "menu")
    /\ verdict' = IF test = "quick" THEN "none" ELSE IF Same THEN "ok" ELSE "failed"
    /\ UNCHANGED <<locked, soc, sdram, fixed, defined>>

\* Menu item 6.
RamTest ==
    /\ pc = "menu"
    /\ pc' = "write" /\ test' = "full" /\ pos' = 0 /\ pass' = 0
    /\ verdict' = "none"
    /\ UNCHANGED <<locked, soc, sdram, fixed, defined>>

-----------------------------------------------------------------------------
\* An instruction of the menu or of a test raises an exception: a handler of start.S,
\* do_*, bad_mode.
Exception ==
    /\ pc \in {"menu", "write", "read"}
    /\ Goto("exception")
    /\ UNCHANGED <<locked, soc, sdram, fixed, program>>

\* Mutant of Handled: the watchdog is started without RSTEN.
HandledUnarmed ==
    /\ pc = "exception" /\ "uart" \in soc
    /\ Goto("spin")
    /\ UNCHANGED <<locked, soc, sdram, fixed, program>>
\* It prints, which needs the serial port, then reset_cpu arms the watchdog.
Handled ==
    /\ pc = "exception" /\ "uart" \in soc
    /\ Goto("watchdog")
    /\ UNCHANGED <<locked, soc, sdram, fixed, program>>

\* The watchdog resets the processor (external): the peripherals start anew, SRAM
\* and SDRAM keep what they hold.  BSS is not part of what the BootROM loads.
Reset ==
    /\ pc = "watchdog"
    /\ Goto("clear_bss")
    /\ locked' = {} /\ soc' = {} /\ ctrl' = Quiet
    /\ defined' = {} /\ verdict' = "none"
    /\ UNCHANGED <<chip, mem, fixed>>

Program ==
    \/ ClearBss
    \/ WaitLocked("plla", "pllb")
    \/ WaitLocked("pllb", "interrupt_init")
    \/ InterruptInit
    \/ SerialInit
    \/ Udelay
    \/ Banner
    \/ Configure
    \/ Precharge
    \/ RefreshAccess
    \/ LoadMode
    \/ LoadAccess
    \/ Write
    \/ Read
    \/ Tested
    \/ Handled
Hardware ==
    \/ \E pll \in {"plla", "pllb"} : Lock(pll)
    \/ Reset
Next ==
    \/ Program
    \/ Hardware
    \/ RamTest
    \/ Exception

Spec == Init /\ [][Next]_vars
FairSpec == Spec /\ WF_vars(Program) /\ WF_vars(Hardware)

-----------------------------------------------------------------------------
\* Nothing is used before it has been set up, on the first start and on those after
\* an exception: the time base and its variables before a delay, although bss is
\* cleared but for its first word and holds what the last run left; the serial
\* port and its clock before something is printed; 200 us, before the SDRAM gets its
\* first command, although the delay meant for them is short; precharge, refresh
\* cycles, mode register, timing and refresh rate before the SDRAM holds data.
Printing == pc \in {"banner", "hang", "menu", "exception"}
UsesSdram == pc \in {"write", "read", "menu"}
ReadyBeforeUse ==
    /\ pc = "udelay" => TimeBase \subseteq defined /\ {"timer", "plla"} \subseteq soc
    /\ Printing => {"uart", "plla"} \subseteq soc
    /\ pc = "precharge" => chip.age >= 200
    /\ UsesSdram => /\ chip.precharged /\ chip.refreshes = Refreshes /\ chip.moded
                    /\ ctrl = [mode |-> "normal", timing |-> TRUE, rate |-> TRUE]

\* Memory that is sound is never rejected.  memory_test_full finds what its comment
\* says it finds: words that are one and the same, bits that are stuck, neighbouring
\* data lines that touch.  memory_test, which knows one pattern and one megabyte, at
\* least keeps a part with too few columns from being used.
TestsTell ==
    /\ pc = "hang" \/ verdict = "failed" => fault.kind # "none"
    /\ verdict = "ok" => fault.kind = "none"
    /\ pc = "menu" /\ fault.kind = "address" => 2^fault.line >= QuickSize

\* An exception always ends in a reset, and a board with sound memory is back in the
\* menu after it, unless there is another.
Restarts ==
    /\ pc = "exception" ~> pc = "clear_bss"
    /\ pc = "clear_bss" ~> pc \in {"menu", "hang", "exception"}
=============================================================================
