--------------------------- MODULE PowerUpProofs ----------------------------
(***************************************************************************)
(* What the start and the memory tests rest on, for memory of every size   *)
(* and width and for every fault.                                          *)
(***************************************************************************)
EXTENDS PowerUp, Division

Labels == {"clear_bss", "plla", "pllb", "interrupt_init", "serial_init", "udelay",
           "banner", "configure", "precharge", "refresh", "load", "write", "read",
           "hang", "menu", "exception", "watchdog"}
Ctrls == [mode : {"normal", "precharge", "refresh", "load"}, timing : BOOLEAN,
          rate : BOOLEAN]
Chips == [age : Nat, precharged : BOOLEAN, refreshes : 0 .. Refreshes, moded : BOOLEAN]

TypeOK ==
    /\ pc \in Labels
    /\ pos \in Nat
    /\ ctrl \in Ctrls
    /\ chip \in Chips

-----------------------------------------------------------------------------
(* Nothing is used before it is set up. *)

\* What each initialisation leaves behind, up to the next reset.
NoClock == {"clear_bss", "plla", "pllb"}
NoTime == NoClock \cup {"interrupt_init"}
NoPort == NoTime \cup {"serial_init"}
SetUp ==
    /\ pc \notin NoClock => "plla" \in soc
    /\ pc \notin NoTime => TimeBase \subseteq defined /\ "timer" \in soc
    /\ pc \notin NoPort => "uart" \in soc

\* Time the SDRAM has been given.
Waited ==
    /\ pc = "banner" => chip.age >= 193
    /\ pc \in {"configure", "precharge"} => chip.age >= 200

\* The steps of configure_sdram, one building on the other.
Configuring ==
    /\ pc = "precharge" => ctrl.mode = "precharge" /\ ctrl.timing
    /\ pc \in {"refresh", "load"} => ctrl.mode = pc /\ ctrl.timing /\ chip.precharged
    /\ pc = "refresh" => pos <= 8 /\ (chip.refreshes < pos => chip.refreshes = Refreshes)
    /\ pc = "load" => /\ chip.refreshes = Refreshes
                      /\ pos \in {0, 1} /\ (pos = 1 => ctrl.rate /\ chip.moded)
    /\ UsesSdram =>
          /\ chip.precharged /\ chip.refreshes = Refreshes /\ chip.moded
          /\ ctrl = [mode |-> "normal", timing |-> TRUE, rate |-> TRUE]

RInv == TypeOK /\ SetUp /\ Waited /\ Configuring

LEMMA AccessIs ==
    ASSUME chip \in Chips, ctrl \in Ctrls
    PROVE  /\ ctrl.mode = "precharge" => Access = [chip EXCEPT !.precharged = TRUE]
           /\ ctrl.mode = "refresh" =>
                 Access = [chip EXCEPT !.refreshes =
                    IF chip.precharged /\ @ < Refreshes THEN @ + 1 ELSE @]
           /\ ctrl.mode = "load" =>
                 Access = [chip EXCEPT !.moded = chip.precharged /\ ctrl.timing]
BY DEF Access

LEMMA RInit == Init => RInv
BY PowerUpAssumption DEF Init, RInv, TypeOK, Labels, Ctrls, Chips, Quiet, Raw, SetUp, Waited,
   Configuring, UsesSdram, NoClock, NoTime, NoPort

\* A step that leaves the SDRAM and its controller alone and does not enter the
\* phases that are about them.
LEMMA Apart ==
    ASSUME RInv, UNCHANGED <<ctrl, chip>>, pc' \in Labels, pos' \in Nat,
           pc' \notin {"banner", "configure", "precharge", "refresh", "load"},
           UsesSdram' => UsesSdram
    PROVE  (TypeOK /\ Waited /\ Configuring)'
BY DEF RInv, TypeOK, Waited, Configuring

LEMMA RStep == ASSUME RInv, [Next]_vars PROVE RInv'
<1> USE DEF NoClock, NoTime, NoPort, Labels
<1>1. CASE ClearBss
  <2>1. pc' = "plla" /\ pos' = 0 /\ UNCHANGED <<ctrl, chip, soc>>
    BY <1>1 DEF ClearBss, Goto, sdram
  <2>2. QED
    BY <2>1, Apart DEF RInv, SetUp, UsesSdram
<1>2. CASE WaitLocked("plla", "pllb") \/ WaitLocked("pllb", "interrupt_init")
  <2>1. /\ pc \in {"plla", "pllb"} /\ pos' = 0 /\ UNCHANGED <<ctrl, chip, defined>>
        /\ pc = "plla" => pc' = "pllb"
        /\ pc = "pllb" => pc' = "interrupt_init" /\ soc' = soc \cup {"plla"}
    BY <1>2 DEF WaitLocked, Goto, sdram, program
  <2>2. QED
    BY <2>1, Apart DEF RInv, SetUp, UsesSdram
<1>3. CASE InterruptInit
  <2>1. /\ pc = "interrupt_init" /\ pc' = "serial_init" /\ pos' = 0
        /\ UNCHANGED <<ctrl, chip>>
        /\ defined' = defined \cup TimeBase /\ soc' = soc \cup {"timer"}
    BY <1>3 DEF InterruptInit, Goto, sdram
  <2>2. QED
    BY <2>1, Apart DEF RInv, SetUp, UsesSdram
<1>4. CASE SerialInit
  <2>1. /\ pc = "serial_init" /\ pc' = "udelay" /\ pos' = 0
        /\ UNCHANGED <<ctrl, chip, defined>>
        /\ soc' = soc \cup {"uart"}
    BY <1>4 DEF SerialInit, Goto, sdram, program
  <2>2. QED
    BY <2>1, Apart DEF RInv, SetUp, UsesSdram
<1>5. CASE Udelay \/ Banner
  <2>1. /\ pc \in {"udelay", "banner"} /\ pos' = 0
        /\ pc = "udelay" => pc' = "banner" /\ Older(193)
        /\ pc = "banner" => pc' = "configure" /\ Older(60 * 87)
        /\ UNCHANGED <<ctrl, defined, soc>>
    BY <1>5 DEF Udelay, Banner, Goto, program
  <2>2. /\ chip' \in Chips /\ UNCHANGED <<chip.precharged>>
        /\ pc = "udelay" => chip'.age >= 193
        /\ pc = "banner" => chip'.age >= 200
    BY <2>1 DEF RInv, TypeOK, Chips, Waited, Older
  <2>3. QED
    BY <2>1, <2>2 DEF RInv, TypeOK, SetUp, Waited, Configuring, UsesSdram
<1>6. CASE Configure
  <2>1. /\ pc = "configure" /\ pc' = "precharge" /\ pos' = 0
        /\ ctrl' = [ctrl EXCEPT !.timing = TRUE, !.mode = "precharge"]
        /\ UNCHANGED <<chip, defined, soc>>
    BY <1>6 DEF Configure, Goto, program
  <2>2. ctrl' \in Ctrls /\ ctrl'.mode = "precharge" /\ ctrl'.timing
    BY <2>1 DEF RInv, TypeOK, Ctrls
  <2>3. QED
    BY <2>1, <2>2 DEF RInv, TypeOK, SetUp, Waited, Configuring, UsesSdram
<1>7. CASE Precharge
  <2>1. /\ pc = "precharge" /\ pc' = "refresh" /\ pos' = 0
        /\ chip' = Access /\ ctrl' = [ctrl EXCEPT !.mode = "refresh"]
        /\ UNCHANGED <<defined, soc>>
    BY <1>7 DEF Precharge, Goto, program
  <2>2. chip' \in Chips /\ chip'.precharged /\ chip'.refreshes \in Nat
    <3>1. chip' = [chip EXCEPT !.precharged = TRUE]
      BY <2>1, AccessIs DEF RInv, TypeOK, Configuring
    <3>2. chip \in Chips /\ chip.refreshes \in Nat
      BY PowerUpAssumption DEF RInv, TypeOK, Chips
    <3>3. QED
      BY <3>1, <3>2 DEF Chips
  <2>3. ctrl' \in Ctrls /\ ctrl'.mode = "refresh" /\ ctrl'.timing
    BY <2>1 DEF RInv, TypeOK, Ctrls, Configuring
  <2>4. QED
    BY <2>1, <2>2, <2>3 DEF RInv, TypeOK, SetUp, Waited, Configuring, UsesSdram
<1>8. CASE RefreshAccess
  <2>1. /\ pc = "refresh" /\ pc' = "refresh" /\ pos # 8 /\ pos' = pos + 1
        /\ chip' = Access
        /\ UNCHANGED <<ctrl, defined, soc>>
    BY <1>8 DEF RefreshAccess, Refreshed, program
  <2>2. /\ chip' \in Chips /\ chip'.precharged
        /\ chip'.refreshes < pos + 1 => chip'.refreshes = Refreshes
    BY <2>1, AccessIs, PowerUpAssumption DEF RInv, TypeOK, Chips, Configuring
  <2>3. QED
    BY <2>1, <2>2 DEF RInv, TypeOK, SetUp, Waited, Configuring, UsesSdram
<1>9. CASE LoadMode
  <2>1. /\ pc = "refresh" /\ pc' = "load" /\ pos = 8 /\ pos' = 0
        /\ ctrl' = [ctrl EXCEPT !.mode = "load"]
        /\ UNCHANGED <<chip, defined, soc>>
    BY <1>9 DEF LoadMode, Refreshed, Goto, program
  <2>2. ctrl' \in Ctrls /\ ctrl'.mode = "load" /\ ctrl'.timing
    BY <2>1 DEF RInv, TypeOK, Ctrls, Configuring
  <2>3. chip.refreshes = Refreshes
    BY <2>1, PowerUpAssumption DEF RInv, TypeOK, Chips, Configuring
  <2>4. QED
    BY <2>1, <2>2, <2>3 DEF RInv, TypeOK, SetUp, Waited, Configuring, UsesSdram
<1>10. CASE LoadAccess
  <2>1. /\ pc = "load" /\ chip' = Access
        /\ pos = 0 => /\ pc' = "load" /\ pos' = 1 /\ ctrl' = [ctrl EXCEPT !.rate = TRUE]
        /\ pos # 0 => /\ pc' = "write" /\ pos' = 0
                      /\ ctrl' = [ctrl EXCEPT !.mode = "normal"]
        /\ UNCHANGED <<defined, soc>>
    BY <1>10 DEF LoadAccess, Goto, program
  <2>2. /\ chip' \in Chips /\ chip'.precharged /\ chip'.moded
        /\ chip'.refreshes = Refreshes
    BY <2>1, AccessIs DEF RInv, TypeOK, Chips, Configuring
  <2>3. /\ ctrl' \in Ctrls /\ ctrl'.timing /\ ctrl'.rate
        /\ pos = 0 => ctrl'.mode = "load"
        /\ pos # 0 => ctrl' = [mode |-> "normal", timing |-> TRUE, rate |-> TRUE]
    BY <2>1 DEF RInv, TypeOK, Ctrls, Configuring
  <2>4. QED
    BY <2>1, <2>2, <2>3 DEF RInv, TypeOK, SetUp, Waited, Configuring, UsesSdram
<1>11. CASE Write \/ Read
  <2>1. /\ pc \in {"write", "read"} /\ pc' \in {"write", "read"} /\ pos' \in {0, pos + 1}
        /\ UNCHANGED <<ctrl, chip, soc, defined>>
    BY <1>11 DEF Write, Read, Onward, sdram, program
  <2>2. QED
    BY <2>1, Apart DEF RInv, TypeOK, SetUp, UsesSdram
<1>12. CASE Tested
  <2>1. /\ pc = "read" /\ pc' \in {"hang", "menu"} /\ pos' = 0
        /\ UNCHANGED <<ctrl, chip, soc, defined>>
    BY <1>12 DEF Tested, Goto, sdram
  <2>2. QED
    BY <2>1, Apart DEF RInv, SetUp, UsesSdram
<1>13. CASE RamTest \/ Exception \/ Handled
  <2>1. /\ pc \in {"menu", "write", "read", "exception"} /\ pos' = 0
        /\ pc' \in {"write", "exception", "watchdog"}
        /\ pc' = "write" => pc = "menu"
        /\ UNCHANGED <<ctrl, chip, soc, defined>>
    BY <1>13 DEF RamTest, Exception, Handled, Goto, sdram, program
  <2>2. QED
    BY <2>1, Apart DEF RInv, SetUp, UsesSdram
<1>14. CASE Reset
  <2>1. /\ pc' = "clear_bss" /\ pos' = 0 /\ ctrl' = Quiet /\ UNCHANGED chip
    BY <1>14 DEF Reset, Goto
  <2>2. ctrl' \in Ctrls
    BY <2>1 DEF Quiet, Ctrls
  <2>3. QED
    BY <2>1, <2>2 DEF RInv, TypeOK, SetUp, Waited, Configuring, UsesSdram
<1>15. CASE \E pll \in {"plla", "pllb"} : Lock(pll)
  <2>1. UNCHANGED <<pc, pos, ctrl, chip, soc, defined>>
    BY <1>15 DEF Lock, place, sdram, program
  <2>2. QED
    BY <2>1 DEF RInv, TypeOK, SetUp, Waited, Configuring, UsesSdram
<1>16. CASE UNCHANGED vars
  <2>1. UNCHANGED <<pc, pos, ctrl, chip, soc, defined>>
    BY <1>16 DEF vars, place, sdram, program
  <2>2. QED
    BY <2>1 DEF RInv, TypeOK, SetUp, Waited, Configuring, UsesSdram
<1>17. QED
  BY <1>1, <1>2, <1>3, <1>4, <1>5, <1>6, <1>7, <1>8, <1>9, <1>10, <1>11, <1>12,
     <1>13, <1>14, <1>15, <1>16 DEF Next, Program, Hardware

\* start.S, start_armboot and configure_sdram: on the first start and on each one
\* after an exception, whatever SRAM held and whichever variable clear_bss misses,
\* nothing is used before it has been set up.
THEOREM StartIsInOrder == Spec => []ReadyBeforeUse
<1>1. RInv => ReadyBeforeUse
  BY DEF RInv, SetUp, Waited, Configuring, ReadyBeforeUse, Printing,
     NoClock, NoTime, NoPort
<1>2. RInv /\ [Next]_vars => RInv'
  BY RStep
<1>3. QED
  BY RInit, <1>1, <1>2, PTL DEF Spec


-----------------------------------------------------------------------------
(* The memory tests tell. *)

\* The word that is number q of the test.
Place(q) == IF test = "full" THEN q ELSE Size - QuickSize + q
Testing == pc \in {"write", "read"}

PlaceOK ==
    /\ pc \in Labels
    /\ test \in {"quick", "full"} /\ (test = "full" => Testing)
    /\ pos \in Nat /\ pass \in 0 .. 3
    /\ Testing => pos < Length /\ pass <= LastPass
    /\ DOMAIN mem = Words
    /\ fault \in Faults

\* Sound memory holds what has been written.
SoundHolds ==
    fault.kind = "none" =>
        /\ pc # "hang" /\ verdict # "failed"
        /\ pc = "write" => \A q \in 0 .. (pos - 1) : mem[Place(q)] = MtPattern(q, pass)
        /\ pc = "read" => \A q \in 0 .. (Length - 1) : mem[Place(q)] = MtPattern(q, pass)

\* Word q has been found right in pass n of memory_test_full.
FoundRight(q, n) ==
    test = "full" /\ (pass > n \/ (pass = n /\ pc = "read" /\ pos > q))

\* A word with a stuck bit is right in a pass only if the pattern has it at that.
StuckWord == IF fault.kind = "bit" THEN fault.word ELSE 0
StuckShows ==
    fault.kind \in {"lane", "bit"} =>
        \A n \in 0 .. 3 :
            FoundRight(StuckWord, n) =>
                (fault.lane \in MtPattern(StuckWord, n) <=> fault.level = 1)

\* Lines that touch do not survive 0x55555555.
ShortShows == fault.kind = "short" => ~FoundRight(0, 2)

\* Where two words are one, the first holds the index of the second from then on,
\* and the first pass goes no further.
Distance == 2^fault.line
AddressShows ==
    fault.kind = "address" /\ Testing /\ Distance < Length =>
        /\ pass = 0
        /\ pc = "write" /\ pos > Distance => mem[Place(0)] = Index(Distance)
        /\ pc = "read" => pos = 0 /\ mem[Place(0)] = Index(Distance)

Concluded ==
    /\ verdict = "ok" => fault.kind = "none"
    /\ (pc = "menu" \/ test = "full") /\ fault.kind = "address" => Distance >= QuickSize

MInv ==
    /\ PlaceOK
    /\ SoundHolds
    /\ StuckShows
    /\ ShortShows
    /\ AddressShows
    /\ Concluded

LEMMA FaultIs ==
    ASSUME fault \in Faults
    PROVE  /\ fault.kind \in {"none", "address", "lane", "bit", "short"}
           /\ fault.kind \in {"lane", "bit"} =>
                 /\ fault.lane \in Lanes /\ fault.level \in {0, 1}
                 /\ StuckWord \in Words
           /\ fault.kind = "short" =>
                 fault.lane \in Lanes /\ fault.lane + 1 \in Lanes
           /\ fault.kind = "address" =>
                 /\ fault.line \in Lanes /\ Distance \in 1 .. (Size - 1)
                 /\ Distance < QuickSize => (Size - QuickSize) % (2 * Distance) = 0
<1>1. IsFault(fault) /\ 0 \in Words
  BY PowerUpAssumption DEF Words
<1>2. CASE fault = [kind |-> "none"]
  BY <1>2
<1>3. CASE \E k \in Lanes : /\ fault = [kind |-> "address", line |-> k]
                            /\ 2^k \in 1 .. (Size - 1)
                            /\ 2^k < QuickSize => (Size - QuickSize) % (2 * 2^k) = 0
  BY <1>3 DEF Distance
<1>4. CASE \E b \in Lanes, l \in {0, 1} :
              \/ fault = [kind |-> "lane", lane |-> b, level |-> l]
              \/ \E a \in Words :
                    fault = [kind |-> "bit", word |-> a, lane |-> b, level |-> l]
              \/ b + 1 \in Lanes /\ fault = [kind |-> "short", lane |-> b, level |-> l]
  BY <1>1, <1>4 DEF StuckWord
<1>5. QED
  BY <1>1, <1>2, <1>3, <1>4 DEF IsFault

\* Words of a test are words of the memory, and each is another one.
LEMMA PlaceIs ==
    ASSUME PlaceOK
    PROVE  /\ Length \in Nat \ {0} /\ Length <= Size
           /\ \A q \in 0 .. (Length - 1) : Place(q) \in Words
           /\ \A q, r \in Nat : Place(q) = Place(r) => q = r
           /\ Address = Place(pos)
           /\ \A q \in Nat : Place(q) = Place(0) + q
BY PowerUpAssumption DEF PlaceOK, Length, Place, Words, Address

LEMMA SeenIs ==
    ASSUME PlaceOK, NEW a, NEW word
    PROVE  /\ fault.kind # "address" => Cell(a) = a
           /\ fault.kind \in {"none", "address"} => Seen(a, word) = word
           /\ fault.kind = "lane" \/ (fault.kind = "bit" /\ fault.word = a) =>
                 Seen(a, word) = Stuck(word, fault.lane, fault.level)
           /\ fault.kind = "short" =>
                 Seen(a, word) =
                    Shorted(word, {fault.lane, fault.lane + 1}, fault.level)
BY FaultIs DEF PlaceOK, Cell, Seen

LEMMA PatternIs ==
    /\ \A i : MtPattern(i, 0) = Index(i)
    /\ \A i : MtPattern(i, 2) = {k \in Lanes : k % 2 = 0}
    /\ \A i : MtPattern(i, 3) = {k \in Lanes : k % 2 = 1}
BY DEF MtPattern

\* The index of the word that is 2^k from the first one has bit k.
LEMMA IndexTells ==
    ASSUME PlaceOK, fault.kind = "address"
    PROVE  Index(Distance) # Index(0)
<1>1. fault.line \in Lanes /\ Distance \in Nat \ {0}
  BY FaultIs, PowerUpAssumption DEF PlaceOK
<1> DEFINE D == Distance
<1>2. 1 * D = D /\ 0 * D = 0
  BY <1>1
<1>3. D \div D = 1 /\ 0 \div D = 0
  BY <1>1, <1>2, MultipleDiv
<1>4. fault.line \in Index(D)
  BY <1>1, <1>3 DEF Index, Distance
<1>5. fault.line \notin Index(0)
  BY <1>1, <1>3 DEF Index, Distance
<1>6. QED
  BY <1>4, <1>5

\* Of the words of a test, the first and the one at the distance share a cell.
LEMMA CellShared ==
    ASSUME PlaceOK, fault.kind = "address", Distance < Length,
           NEW q \in 0 .. (Length - 1)
    PROVE  Cell(Place(q)) = Place(0) <=> q \in {0, Distance}
<1> DEFINE D == Distance
           b == Place(0)
<1>1. D \in Nat \ {0} /\ D < Length /\ Length \in Nat
  BY FaultIs, PlaceIs, PowerUpAssumption DEF PlaceOK
<1>2. b \in Nat /\ b % (2 * D) = 0
  <2>1. CASE test = "full"
    <3>1. b = 0
      BY <2>1 DEF Place
    <3>2. 2 * D \in Nat \ {0} /\ 0 \in 0 .. (2 * D - 1)
      BY <1>1
    <3>3. 0 % (2 * D) = 0
      BY <3>2, SmallMod
    <3>4. QED
      BY <3>1, <3>3
  <2>2. CASE test # "full"
    <3>1. b = Size - QuickSize /\ Length = QuickSize
      BY <2>2, PowerUpAssumption DEF Place, Length
    <3>2. QED
      BY <1>1, <3>1, FaultIs, PowerUpAssumption DEF PlaceOK
  <2>3. QED
    BY <2>1, <2>2
<1>3. (b \div D) % 2 = 0 /\ ((b + D) \div D) % 2 = 1
  BY <1>1, <1>2, EvenMultiple
<1>4. Place(q) = b + q
  BY PlaceIs
<1>5. \A a : Cell(a) = IF (a \div D) % 2 = 1 THEN a - D ELSE a
  BY DEF Cell, Distance
<1> HIDE DEF D, b
<1>6. Cell(b) = b /\ Cell(b + D) = b
  BY <1>1, <1>2, <1>3, <1>5
<1>7. Cell(b + q) = b => q = 0 \/ q = D
  BY <1>1, <1>2, <1>5
<1>8. b + 0 = b
  BY <1>2
<1>9. QED
  BY <1>4, <1>6, <1>7, <1>8 DEF D, b


LEMMA MInit == Init => MInv
BY PowerUpAssumption DEF Init, MInv, PlaceOK, Labels, Testing, Statics, Words,
   SoundHolds, StuckShows, FoundRight, ShortShows, AddressShows, Concluded

\* Any step but those of a test: what is under way ends, or begins anew.
LEMMA MLeaves ==
    ASSUME MInv, UNCHANGED <<mem, fault>>, pc' \in Labels \ {"menu", "hang", "read"},
           pos' = 0, pass' = 0, test' = "quick", verdict' \in {verdict, "none"}
    PROVE  MInv'
<1>1. PlaceOK'
  BY PowerUpAssumption DEF MInv, PlaceOK, Testing, Length, LastPass
<1>2. Distance' = Distance /\ (fault.kind = "address" => Distance \in Nat)
  BY FaultIs, PowerUpAssumption DEF MInv, PlaceOK, Distance
<1>3. Length' = QuickSize /\ QuickSize \in Nat
  BY PowerUpAssumption DEF Length
<1>4. SoundHolds'
  <2>1. verdict' = "failed" => verdict = "failed"
    OBVIOUS
  <2>2. 0 .. (pos' - 1) = {}
    OBVIOUS
  <2>3. QED
    BY <2>1, <2>2 DEF MInv, SoundHolds
<1>5. StuckShows' /\ ShortShows'
  <2>1. \A q, n : ~FoundRight(q, n)'
    BY DEF FoundRight
  <2>2. QED
    BY <2>1 DEF StuckShows, ShortShows
<1>6. AddressShows'
  BY <1>1, <1>2, <1>3 DEF AddressShows
<1>7. Concluded'
  <2>1. verdict' = "ok" => verdict = "ok"
    OBVIOUS
  <2>2. QED
    BY <2>1 DEF MInv, Concluded
<1>8. QED
  BY <1>1, <1>4, <1>5, <1>6, <1>7 DEF MInv


\* Any other step that is not one of the tests: at most the place in a row of
\* accesses changes.
LEMMA MStays ==
    ASSUME MInv, UNCHANGED <<pc, pass, test, mem, fault, verdict>>, pos' \in Nat,
           Testing => pos' = pos
    PROVE  MInv'
<1>1. PlaceOK'
  BY DEF MInv, PlaceOK, Testing, Length, LastPass
<1>2. \A q, n : FoundRight(q, n)' => FoundRight(q, n)
  BY DEF MInv, PlaceOK, Testing, FoundRight
<1>3. SoundHolds'
  BY DEF MInv, SoundHolds, Testing, Place, Length
<1>4. StuckShows' /\ ShortShows'
  BY <1>2 DEF MInv, StuckShows, ShortShows, StuckWord
<1>5. AddressShows' /\ Concluded'
  BY DEF MInv, AddressShows, Concluded, Testing, Length, Place, Distance
<1>6. QED
  BY <1>1, <1>3, <1>4, <1>5 DEF MInv

\* What Put does to the words of the test.
LEMMA PutIs ==
    ASSUME PlaceOK, NEW word, Testing, Put(Address, word)
    PROVE  /\ DOMAIN mem' = DOMAIN mem
           /\ fault.kind = "none" =>
                 /\ mem'[Place(pos)] = word
                 /\ \A q \in 0 .. (Length - 1) :
                       q # pos => mem'[Place(q)] = mem[Place(q)]
           /\ fault.kind = "address" /\ Distance < Length =>
                 mem'[Place(0)] = IF pos \in {0, Distance} THEN word ELSE mem[Place(0)]
<1>1. mem' = [mem EXCEPT ![Cell(Address)] = Seen(Cell(Address), word)]
  BY DEF Put
<1>2. Address = Place(pos) /\ pos \in 0 .. (Length - 1) /\ Length \in Nat
  BY PlaceIs DEF PlaceOK
<1>3. \A q \in 0 .. (Length - 1) : Place(q) \in DOMAIN mem
  BY PlaceIs DEF PlaceOK
<1>4. ASSUME fault.kind = "none"
      PROVE  /\ mem'[Place(pos)] = word
             /\ \A q \in 0 .. (Length - 1) : q # pos => mem'[Place(q)] = mem[Place(q)]
  <2>1. mem' = [mem EXCEPT ![Place(pos)] = word]
    BY <1>1, <1>2, <1>4, SeenIs
  <2>2. \A q \in 0 .. (Length - 1) : q # pos => Place(q) # Place(pos)
    BY <1>2, PlaceIs
  <2>3. QED
    BY <1>2, <1>3, <2>1, <2>2
<1>5. ASSUME fault.kind = "address", Distance < Length
      PROVE  mem'[Place(0)] = IF pos \in {0, Distance} THEN word ELSE mem[Place(0)]
  <2>1. mem' = [mem EXCEPT ![Cell(Place(pos))] = word]
    BY <1>1, <1>2, <1>5, SeenIs
  <2>2. Cell(Place(pos)) = Place(0) <=> pos \in {0, Distance}
    BY <1>2, <1>5, CellShared
  <2>3. Place(0) \in DOMAIN mem
    BY <1>2, <1>3
  <2>4. QED
    BY <2>1, <2>2, <2>3
<1>6. QED
  BY <1>1, <1>4, <1>5

LEMMA MWrite == ASSUME MInv, Write PROVE MInv'
<1>1. /\ pc = "write" /\ Testing /\ PlaceOK
      /\ Put(Address, MtPattern(pos, pass))
      /\ UNCHANGED <<fault, verdict, test, pass, Length, LastPass, StuckWord, Distance>>
      /\ pos \in Nat /\ pos < Length /\ Length \in Nat
      /\ \/ pos + 1 < Length /\ pc' = "write" /\ pos' = pos + 1
         \/ pos + 1 = Length /\ pc' = "read" /\ pos' = 0
  <2>1. /\ pc = "write" /\ Testing /\ PlaceOK
        /\ Put(Address, MtPattern(pos, pass)) /\ Onward
        /\ UNCHANGED <<fault, verdict, test>>
    BY DEF Write, Testing, MInv, fixed, program, Onward
  <2>2. pos \in Nat /\ pos < Length /\ Length \in Nat
    BY <2>1, PlaceIs DEF PlaceOK
  <2>3. /\ UNCHANGED pass
        /\ \/ pos + 1 < Length /\ pc' = "write" /\ pos' = pos + 1
           \/ ~(pos + 1 < Length) /\ pc' = "read" /\ pos' = 0
    BY <2>1 DEF Onward
  <2>4. QED
    BY <2>1, <2>2, <2>3 DEF Length, LastPass, StuckWord, Distance
<1>2. \A q : Place(q)' = Place(q)
  BY <1>1 DEF Place
<1>3. PlaceOK'
  BY <1>1, PutIs DEF PlaceOK, Testing, Labels
<1>4. SoundHolds'
  <2>1. SUFFICES ASSUME fault.kind = "none" PROVE SoundHolds'
    BY <1>1 DEF SoundHolds
  <2>2. \A q \in 0 .. pos : mem'[Place(q)] = MtPattern(q, pass)
    <3>1. \A q \in 0 .. (pos - 1) : mem[Place(q)] = MtPattern(q, pass)
      BY <1>1, <2>1 DEF MInv, SoundHolds
    <3>2. ASSUME NEW q \in 0 .. pos
          PROVE  mem'[Place(q)] = MtPattern(q, pass)
      <4>1. CASE q = pos
        BY <1>1, <2>1, <4>1, PutIs
      <4>2. CASE q # pos
        <5>1. q \in 0 .. (pos - 1) /\ q \in 0 .. (Length - 1)
          BY <1>1, <3>2, <4>2
        <5>2. mem'[Place(q)] = mem[Place(q)]
          BY <1>1, <2>1, <4>2, <5>1, PutIs
        <5>3. QED
          BY <3>1, <5>1, <5>2
      <4>3. QED
        BY <4>1, <4>2
    <3>3. QED
      BY <3>2
  <2>3. pc' = "write" => 0 .. (pos' - 1) = 0 .. pos
    BY <1>1
  <2>4. pc' = "read" => 0 .. (Length - 1) = 0 .. pos
    BY <1>1
  <2>5. pc # "hang" /\ verdict # "failed" /\ pc' # "hang"
    BY <1>1, <2>1 DEF MInv, SoundHolds
  <2>6. QED
    BY <1>1, <1>2, <2>2, <2>3, <2>4, <2>5 DEF SoundHolds
<1>5. \A n : \A q \in Nat : FoundRight(q, n)' => FoundRight(q, n)
  BY <1>1 DEF FoundRight
<1>6. StuckShows'
  <2>1. StuckWord \in Nat \/ fault.kind \notin {"lane", "bit"}
    BY <1>1, FaultIs DEF PlaceOK, Words
  <2>2. QED
    BY <1>1, <1>5, <2>1 DEF MInv, StuckShows
<1>7. ShortShows'
  BY <1>1, <1>5 DEF MInv, ShortShows
<1>8. AddressShows'
  <2>1. SUFFICES ASSUME fault.kind = "address", Distance < Length
                 PROVE  AddressShows'
    BY <1>1 DEF AddressShows
  <2>2. Distance \in Nat \ {0}
    BY <1>1, <2>1, FaultIs, PowerUpAssumption DEF PlaceOK
  <2>3. /\ pass = 0
        /\ pos > Distance => mem[Place(0)] = Index(Distance)
    BY <1>1, <2>1 DEF MInv, AddressShows
  <2>4. MtPattern(pos, pass) = Index(pos)
    BY <2>3, PatternIs
  <2>5. pos >= Distance => mem'[Place(0)] = Index(Distance)
    BY <1>1, <2>1, <2>2, <2>3, <2>4, PutIs
  <2>6. pc' = "write" /\ pos' > Distance => pos >= Distance
    BY <1>1, <2>2
  <2>7. pc' = "read" => pos >= Distance /\ pos' = 0
    BY <1>1, <2>1, <2>2
  <2>8. QED
    BY <1>1, <1>2, <2>3, <2>5, <2>6, <2>7 DEF AddressShows
<1>9. Concluded'
  BY <1>1 DEF MInv, Concluded
<1>10. QED
  BY <1>3, <1>4, <1>6, <1>7, <1>8, <1>9 DEF MInv


\* Reading a word that is not what was written, where words are one.
LEMMA AddressFails ==
    ASSUME MInv, pc = "read", fault.kind = "address", Distance < Length
    PROVE  ~Same
<1>1. PlaceOK /\ Testing /\ pos = 0 /\ pass = 0 /\ mem[Place(0)] = Index(Distance)
  BY DEF MInv, AddressShows, Testing
<1>2. Address = Place(0) /\ 0 \in 0 .. (Length - 1)
  BY <1>1, PlaceIs
<1>3. Cell(Place(0)) = Place(0)
  BY <1>1, <1>2, CellShared
<1>4. Got(Address) = Index(Distance)
  BY <1>1, <1>2, <1>3, SeenIs DEF Got
<1>5. MtPattern(pos, pass) = Index(0)
  BY <1>1, PatternIs
<1>6. QED
  BY <1>1, <1>4, <1>5, IndexTells DEF Same

\* Reading a word with a stuck bit.
LEMMA StuckReads ==
    ASSUME MInv, pc = "read", test = "full", fault.kind \in {"lane", "bit"},
           pos = StuckWord, Same
    PROVE  fault.lane \in MtPattern(StuckWord, pass) <=> fault.level = 1
<1>1. PlaceOK /\ Address = pos
  BY DEF MInv, Address
<1>2. fault.level \in {0, 1}
  BY <1>1, FaultIs DEF PlaceOK
<1>3. fault.kind = "bit" => fault.word = pos
  BY DEF StuckWord
<1>4. \E word : Got(Address) = Stuck(word, fault.lane, fault.level)
  BY <1>1, <1>3, SeenIs DEF Got
<1>5. fault.lane \in Got(Address) <=> fault.level = 1
  BY <1>2, <1>4 DEF Stuck
<1>6. QED
  BY <1>5 DEF Same

\* Reading the first word of 0x55555555 where lines touch.
LEMMA ShortFails ==
    ASSUME MInv, pc = "read", test = "full", fault.kind = "short", pass = 2
    PROVE  ~Same
<1> DEFINE pair == {fault.lane, fault.lane + 1}
           word == mem[Cell(Address)]
           pattern == MtPattern(pos, 2)
<1>1. PlaceOK /\ fault.lane \in Lanes /\ fault.lane + 1 \in Lanes
  BY FaultIs DEF MInv, PlaceOK
<1>2. Got(Address) = Shorted(word, pair, fault.level)
  <2>1. Cell(Address) = Address
    BY <1>1, SeenIs
  <2>2. QED
    BY <1>1, <2>1, SeenIs DEF Got
<1>3. pattern = {k \in Lanes : k % 2 = 0}
  BY PatternIs
<1>4. \/ fault.lane \in pattern /\ fault.lane + 1 \notin pattern
      \/ fault.lane \notin pattern /\ fault.lane + 1 \in pattern
  <2>1. \A k \in Nat : (k % 2 = 0 /\ (k + 1) % 2 # 0) \/ (k % 2 # 0 /\ (k + 1) % 2 = 0)
    OBVIOUS
  <2>2. fault.lane \in Nat
    BY <1>1 DEF Lanes
  <2>3. QED
    BY <1>1, <1>3, <2>1, <2>2
<1>5. Shorted(word, pair, fault.level) \cap pair \in {{}, pair}
  <2> HIDE DEF pair, word
  <2>1. CASE word \cap pair \in {{}, pair}
    BY <2>1 DEF Shorted
  <2>2. CASE word \cap pair \notin {{}, pair}
    BY <2>2 DEF Shorted
  <2>3. QED
    BY <2>1, <2>2
<1>6. pattern \cap pair \notin {{}, pair}
  BY <1>4
<1>7. QED
  BY <1>2, <1>5, <1>6 DEF Same

LEMMA MRead == ASSUME MInv, Read PROVE MInv'
<1>1. /\ pc = "read" /\ Testing /\ PlaceOK /\ Same /\ ~Last
      /\ UNCHANGED <<mem, fault, verdict, test, Length, LastPass, StuckWord, Distance>>
      /\ pos \in Nat /\ pos < Length /\ Length \in Nat /\ pass \in 0 .. 3
      /\ pass <= LastPass /\ LastPass \in {0, 3}
      /\ \/ pos + 1 < Length /\ pc' = "read" /\ pos' = pos + 1 /\ pass' = pass
         \/ pos + 1 = Length /\ pc' = "write" /\ pos' = 0 /\ pass' = pass + 1
  <2>1. /\ pc = "read" /\ Testing /\ PlaceOK /\ Same /\ ~Last /\ Onward
        /\ UNCHANGED <<mem, fault, verdict, test>>
    BY DEF Read, Testing, MInv, sdram, fixed, program, Onward
  <2>2. /\ pos \in Nat /\ pos < Length /\ Length \in Nat /\ pass \in 0 .. 3
        /\ pass <= LastPass /\ LastPass \in {0, 3}
    BY <2>1, PlaceIs DEF PlaceOK, LastPass
  <2>3. \/ pos + 1 < Length /\ pc' = "read" /\ pos' = pos + 1 /\ pass' = pass
        \/ ~(pos + 1 < Length) /\ pc' = "write" /\ pos' = 0 /\ pass' = pass + 1
    BY <2>1 DEF Onward
  <2>4. QED
    BY <2>1, <2>2, <2>3 DEF Length, LastPass, StuckWord, Distance
<1>2. \A q : Place(q)' = Place(q)
  BY <1>1 DEF Place
<1>3. PlaceOK'
  <2>1. pos + 1 = Length => pass < LastPass
    BY <1>1 DEF Last
  <2>2. QED
    BY <1>1, <2>1 DEF PlaceOK, Testing, Labels
<1>4. SoundHolds'
  <2>1. 0 .. (0 - 1) = {}
    OBVIOUS
  <2>2. QED
    BY <1>1, <1>2, <2>1 DEF MInv, SoundHolds
<1>5. \A n \in 0 .. 3 : \A q \in 0 .. (Length - 1) :
        FoundRight(q, n)' =>
            FoundRight(q, n) \/ (test = "full" /\ n = pass /\ q = pos)
  BY <1>1 DEF FoundRight
<1>6. StuckShows'
  <2>1. SUFFICES ASSUME fault.kind \in {"lane", "bit"}, NEW n \in 0 .. 3,
                        FoundRight(StuckWord, n)'
                 PROVE  fault.lane \in MtPattern(StuckWord, n) <=> fault.level = 1
    BY <1>1 DEF StuckShows
  <2>2. test = "full" /\ StuckWord \in 0 .. (Length - 1)
    BY <1>1, <2>1, FaultIs DEF PlaceOK, Words, FoundRight, Length
  <2>3. CASE FoundRight(StuckWord, n)
    BY <2>1, <2>3 DEF MInv, StuckShows
  <2>4. CASE n = pass /\ StuckWord = pos
    BY <1>1, <2>1, <2>2, <2>4, StuckReads
  <2>5. FoundRight(StuckWord, n) \/ (n = pass /\ StuckWord = pos)
    <3>1. FoundRight(StuckWord, n)'
              <=> test' = "full" /\ (pass' > n \/ (pass' = n /\ pc' = "read" /\ pos' > StuckWord))
      BY <1>1 DEF FoundRight
    <3>2. QED
      BY <1>1, <2>1, <2>2, <3>1 DEF FoundRight
  <2>6. QED
    BY <2>3, <2>4, <2>5
<1>7. ShortShows'
  <2>1. SUFFICES ASSUME fault.kind = "short", FoundRight(0, 2)' PROVE FALSE
    BY <1>1 DEF ShortShows
  <2>2. ~FoundRight(0, 2)
    BY <2>1 DEF MInv, ShortShows
  <2>3. test = "full" /\ pass = 2
    BY <1>1, <1>5, <2>1, <2>2
  <2>4. QED
    BY <1>1, <2>1, <2>3, ShortFails
<1>8. AddressShows'
  BY <1>1, AddressFails DEF AddressShows
<1>9. Concluded'
  BY <1>1 DEF MInv, Concluded
<1>10. QED
  BY <1>3, <1>4, <1>6, <1>7, <1>8, <1>9 DEF MInv


\* What "RAM OK" says of memory_test_full.
LEMMA PassedIsSound ==
    ASSUME MInv, pc = "read", test = "full", Same, Last
    PROVE  fault.kind = "none"
<1>1. /\ PlaceOK /\ Testing /\ pass = 3 /\ pos + 1 = Length /\ Length = Size
      /\ pos \in Nat /\ Size \in Nat \ {0}
  BY PowerUpAssumption DEF MInv, PlaceOK, Testing, Last, LastPass, Length
<1>2. fault.kind # "address"
  <2>1. SUFFICES ASSUME fault.kind = "address" PROVE FALSE
    OBVIOUS
  <2>2. Distance < Length
    BY <1>1, <2>1, FaultIs DEF PlaceOK
  <2>3. QED
    BY <1>1, <2>1, <2>2 DEF MInv, AddressShows
<1>3. fault.kind # "short"
  BY <1>1 DEF MInv, ShortShows, FoundRight
<1>4. fault.kind \notin {"lane", "bit"}
  <2>1. SUFFICES ASSUME fault.kind \in {"lane", "bit"} PROVE FALSE
    OBVIOUS
  <2>2. fault.lane \in Lanes /\ StuckWord \in 0 .. pos
    BY <1>1, <2>1, FaultIs DEF PlaceOK, Words
  <2>3. fault.lane \in MtPattern(StuckWord, 2) <=> fault.level = 1
    BY <1>1, <2>1 DEF MInv, StuckShows, FoundRight
  <2>4. fault.lane \in MtPattern(StuckWord, 3) <=> fault.level = 1
    <3>1. CASE StuckWord = pos
      BY <1>1, <2>1, <3>1, StuckReads
    <3>2. CASE StuckWord # pos
      <4>1. pos > StuckWord
        BY <1>1, <2>2, <3>2
      <4>2. QED
        BY <1>1, <2>1, <4>1 DEF MInv, StuckShows, FoundRight
    <3>3. QED
      BY <3>1, <3>2
  <2>5. fault.lane % 2 = 0 <=> fault.lane % 2 = 1
    BY <2>2, <2>3, <2>4, PatternIs
  <2>6. fault.lane % 2 \in {0, 1}
    BY <2>2, PowerUpAssumption DEF Lanes
  <2>7. QED
    BY <2>5, <2>6
<1>5. QED
  BY <1>1, <1>2, <1>3, <1>4, FaultIs DEF PlaceOK

LEMMA MTested == ASSUME MInv, Tested PROVE MInv'
<1>1. /\ pc = "read" /\ Testing /\ PlaceOK /\ (~Same \/ Last)
      /\ UNCHANGED <<mem, fault, Distance>>
      /\ pos' = 0 /\ pass' = 0 /\ test' = "quick"
      /\ pc' = IF test = "quick" /\ ~Same THEN "hang" ELSE "menu"
      /\ verdict' = IF test = "quick" THEN "none" ELSE IF Same THEN "ok" ELSE "failed"
  BY DEF Tested, Goto, Testing, MInv, sdram, fixed, Distance
<1>2. PlaceOK'
  BY <1>1 DEF PlaceOK, Testing, Labels
<1>3. SoundHolds'
  <2>1. SUFFICES ASSUME fault.kind = "none" PROVE Same
    BY <1>1 DEF SoundHolds
  <2>2. pos \in 0 .. (Length - 1) /\ Address = Place(pos)
    BY <1>1, PlaceIs DEF PlaceOK
  <2>3. mem[Place(pos)] = MtPattern(pos, pass)
    BY <1>1, <2>1, <2>2 DEF MInv, SoundHolds
  <2>4. Got(Address) = mem[Place(pos)]
    BY <1>1, <2>1, <2>2, SeenIs DEF Got
  <2>5. QED
    BY <2>3, <2>4 DEF Same
<1>4. StuckShows' /\ ShortShows' /\ AddressShows'
  <2>1. \A q, n : ~FoundRight(q, n)'
    BY <1>1 DEF FoundRight
  <2>2. QED
    BY <1>1, <2>1 DEF StuckShows, ShortShows, AddressShows, Testing
<1>5. Concluded'
  <2>1. verdict' = "ok" => fault.kind = "none"
    BY <1>1, PassedIsSound DEF PlaceOK
  <2>2. ASSUME pc' = "menu", fault.kind = "address" PROVE Distance >= QuickSize
    <3>1. CASE test = "full"
      BY <2>2, <3>1 DEF MInv, Concluded
    <3>2. CASE test = "quick"
      <4>1. Same /\ Length = QuickSize
        BY <1>1, <2>2, <3>2 DEF Length
      <4>2. ~(Distance < QuickSize)
        BY <1>1, <2>2, <4>1, AddressFails
      <4>3. QED
        BY <1>1, <2>2, <4>2, FaultIs, PowerUpAssumption DEF PlaceOK
    <3>3. QED
      BY <1>1, <3>1, <3>2 DEF PlaceOK
  <2>3. QED
    BY <1>1, <2>1, <2>2 DEF Concluded
<1>6. QED
  BY <1>2, <1>3, <1>4, <1>5 DEF MInv

LEMMA MRamTest == ASSUME MInv, RamTest PROVE MInv'
<1>1. /\ pc = "menu" /\ pc' = "write" /\ test' = "full" /\ pos' = 0 /\ pass' = 0
      /\ verdict' = "none"
      /\ UNCHANGED <<mem, fault, Distance>>
  BY DEF RamTest, sdram, fixed, Distance
<1>2. PlaceOK'
  BY <1>1, PowerUpAssumption DEF MInv, PlaceOK, Testing, Labels, Length, LastPass
<1>3. SoundHolds'
  <2>1. 0 .. (0 - 1) = {}
    OBVIOUS
  <2>2. QED
    BY <1>1, <2>1 DEF SoundHolds
<1>4. StuckShows' /\ ShortShows'
  BY <1>1 DEF StuckShows, ShortShows, FoundRight
<1>5. AddressShows'
  BY <1>1, FaultIs, PowerUpAssumption DEF MInv, PlaceOK, AddressShows
<1>6. Concluded'
  BY <1>1 DEF MInv, Concluded
<1>7. QED
  BY <1>2, <1>3, <1>4, <1>5, <1>6 DEF MInv

LEMMA MStep == ASSUME MInv, [Next]_vars PROVE MInv'
<1>1. CASE Write
  BY <1>1, MWrite
<1>2. CASE Read
  BY <1>2, MRead
<1>3. CASE Tested
  BY <1>3, MTested
<1>4. CASE RamTest
  BY <1>4, MRamTest
<1>5. CASE LoadAccess
  <2>1. CASE pos = 0
    <3>1. pos' \in Nat /\ UNCHANGED <<pc, pass, test, mem, fault, verdict>>
      BY <1>5, <2>1 DEF LoadAccess, fixed, program
    <3>2. ~Testing
      BY <1>5 DEF LoadAccess, Testing
    <3>3. QED
      BY <3>1, <3>2, MStays
  <2>2. CASE pos # 0
    BY <1>5, <2>2, MLeaves DEF LoadAccess, Goto, fixed, program, Labels
  <2>3. QED
    BY <2>1, <2>2
<1>6. CASE RefreshAccess
  <2>1. pos' \in Nat /\ UNCHANGED <<pc, pass, test, mem, fault, verdict>>
    BY <1>6 DEF RefreshAccess, fixed, program, MInv, PlaceOK
  <2>2. ~Testing
    BY <1>6 DEF RefreshAccess, Testing
  <2>3. QED
    BY <2>1, <2>2, MStays
<1>7. CASE (\E pll \in {"plla", "pllb"} : Lock(pll)) \/ UNCHANGED vars
  <2>1. UNCHANGED <<pc, pos, pass, test, mem, fault, verdict>>
    BY <1>7 DEF Lock, vars, place, sdram, fixed, program
  <2>2. QED
    BY <2>1, MStays DEF MInv, PlaceOK
<1>8. CASE ClearBss \/ Reset
  BY <1>8, MLeaves DEF ClearBss, Reset, Goto, sdram, fixed, Labels
<1>9. CASE WaitLocked("plla", "pllb") \/ WaitLocked("pllb", "interrupt_init")
  BY <1>9, MLeaves DEF WaitLocked, Goto, sdram, fixed, program, Labels
<1>10. CASE InterruptInit \/ SerialInit
  BY <1>10, MLeaves DEF InterruptInit, SerialInit, Goto, sdram, fixed, program, Labels
<1>11. CASE Udelay \/ Banner
  BY <1>11, MLeaves DEF Udelay, Banner, Goto, fixed, program, Labels
<1>12. CASE Configure \/ Precharge \/ LoadMode
  BY <1>12, MLeaves DEF Configure, Precharge, LoadMode, Goto, fixed, program, Labels
<1>13. CASE Exception \/ Handled
  BY <1>13, MLeaves DEF Exception, Handled, Goto, sdram, fixed, program, Labels
<1>14. QED
  BY <1>1, <1>2, <1>3, <1>4, <1>5, <1>6, <1>7, <1>8, <1>9, <1>10, <1>11, <1>12,
     <1>13 DEF Next, Program, Hardware

\* memory_test and memory_test_full: memory that is sound is never rejected, and
\* memory_test_full, if it is content, has shown that no bit is stuck, no two
\* neighbouring lines touch and no address line is dead, for memory of any size and
\* width; memory_test keeps a part with dead lines inside the last megabyte from
\* being used.
THEOREM VerdictIsRight == Spec => []TestsTell
<1>1. MInv => TestsTell
  BY DEF MInv, SoundHolds, Concluded, TestsTell, Distance
<1>2. MInv /\ [Next]_vars => MInv'
  BY MStep
<1>3. QED
  BY MInit, <1>1, <1>2, PTL DEF Spec
=============================================================================
