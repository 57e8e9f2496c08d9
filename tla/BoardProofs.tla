---------------------------- MODULE BoardProofs -----------------------------
(***************************************************************************)
(* What Board promises, for every size of the areas and pages, every file, *)
(* payload and loader, and every bound on time and bursts.                 *)
(***************************************************************************)
EXTENDS Board, Division

LEMMA TotalNat == Total \in Nat /\ Total >= PageSize /\ Total >= 1
<1>1. 0 * PageSize + PageSize <= Pages * PageSize
  BY MultipleBelow, GeometryAssumption
<1>2. QED
  BY <1>1, GeometryAssumption DEF Total

\* An address is its page's start plus its offset in the page.
LEMMA PageOf ==
    ASSUME NEW a \in Nat
    PROVE  /\ PageBase(a) \in Nat
           /\ a % PageSize \in Offsets
           /\ a = PageBase(a) + (a % PageSize)
<1>1. /\ a \div PageSize \in Nat
      /\ a % PageSize \in Offsets
      /\ a = ((a \div PageSize) * PageSize) + (a % PageSize)
  BY DivMod, GeometryAssumption DEF Offsets
<1>2. \A k, p \in Nat : k * p \in Nat
  BY SMT
<1>3. (a \div PageSize) * PageSize \in Nat
  BY <1>1, <1>2, GeometryAssumption
<1>4. QED
  BY <1>1, <1>3 DEF PageBase

-----------------------------------------------------------------------------
(* The storage call that runs, or has just succeeded, is the one the menu    *)
(* command makes.                                                            *)

Engaged == pc = "flash" /\ (running \/ outcome = "ok")

BootCall ==
    /\ call.kind = "load"
    /\ call.addr = UbootBase /\ call.len = UbootLen

LoaderCall ==
    \E f \in Files :
        /\ LoaderOk(f)
        /\ call.kind = "store"
        /\ call.addr = 0 /\ call.len = Len(f.data)

UbootCall ==
    \E f \in Files :
        /\ UbootOk(f)
        /\ call.kind = "store"
        /\ call.addr = UbootBase /\ call.len = Len(f.data) + 1
        /\ call.image = UbootImage(f.data)
        /\ {f.data} \cap Payloads \subseteq received

EraseCall ==
    /\ call.kind = "store"
    /\ call.addr = 0 /\ call.len = Total
    /\ call.image = Blank

CallInv ==
    /\ running => pc = "flash" /\ outcome = "none"
    /\ loose # {} => running
    /\ pc = "flash" => task \in {"boot", "loader", "uboot", "erase"}
    /\ Engaged => /\ task = "boot" => BootCall
                  /\ task = "loader" => LoaderCall
                  /\ task = "uboot" => UbootCall
                  /\ task = "erase" => EraseCall
    /\ DOMAIN content = Addrs
    /\ loose \subseteq Touched(call.addr, call.len)

-----------------------------------------------------------------------------
(* The first cell of the u-boot area, the header, says what is there.        *)

Known(v) == \A p \in Payloads : v = Header(p) => p \in received

\* A header that is in the flash, or may still get there, is that of a payload
\* that was received.
HeaderKnown ==
    /\ Known(content[UbootBase])
    /\ UbootBase \in loose => \A v \in Possible(UbootBase) : Known(v)

\* What the flash holds for certain is what its header says.
StoredHolds ==
    \/ stored = "unknown"
    \/ /\ UbootBase \notin loose
       /\ \/ stored = None /\ content[UbootBase] = Erased
          \/ content[UbootBase] = Header(stored)

\* What a successful call has read or written of it.
HeaderDone ==
    pc = "flash" /\ ~running /\ outcome = "ok" =>
        /\ task = "boot" => answer[0] = content[UbootBase]
        /\ task = "uboot" => content[UbootBase] = call.image[0]
        /\ task = "erase" => content[UbootBase] = Erased

Booted ==
    pc = "booted" => /\ jumped \in received
                     /\ stored = "unknown" \/ jumped = stored

HeaderInv == HeaderKnown /\ StoredHolds /\ HeaderDone /\ Booted

-----------------------------------------------------------------------------
(* The other two areas.                                                      *)

\* No page lies in two of the three areas (config-bf200.h puts the areas at
\* multiples of 264, so this holds of the chips with pages of that size).
PagesAligned ==
    /\ LoaderLen % PageSize = 0
    /\ (LoaderLen + UbootLen) % PageSize = 0

\* A loader that works is in the flash, and no cell of it is being written.
LoaderThere ==
    \E f \in Loaders :
        /\ Len(f) \in 0 .. LoaderLen
        /\ \A i \in 1 .. Len(f) : content[i - 1] = f[i] /\ i - 1 \notin loose

LoaderKept ==
    /\ rewritten \/ LoaderThere
    /\ pc = "dead" => rewritten

EnvKept ==
    erased \/ \A a \in EnvCells : content[a] = EnvWord /\ a \notin loose

AreasInv == LoaderKept /\ EnvKept

-----------------------------------------------------------------------------
(* Characters and seconds.                                                   *)

LineTypes ==
    /\ timer \in Nat /\ since \in Nat /\ drained \in Nat
    /\ burst \in 0 .. MaxBurst
    /\ paused \in BOOLEAN
    /\ rx = None \/ (\E k \in Keys, p \in BOOLEAN : rx = [key |-> k, paused |-> p])

\* While the menu counts down, every second of the countdown was silent, or the
\* character that broke the silence is still to be read.
CountsSilence ==
    /\ pc = "menu" => task = "none"
    /\ autoboot => ~escaped
    /\ pc = "menu" /\ autoboot =>
          since >= timer \/ (rx # None /\ rx.key # "nul")

\* Between the '5' and a quiet second, drain_uart reads all of the burst.
DrainsBurst ==
    pc \in {"drain", "ask"} /\ task = "erase" =>
        /\ timer >= 1 /\ pc = "drain" => paused
        /\ rx # None => rx.paused = paused
        /\ pc = "drain" =>
              paused \/ burst >= drained + (IF rx = None THEN 0 ELSE 1)
        /\ pc = "ask" => paused \/ (rx = None /\ burst >= MaxBurst)

LineInv == LineTypes /\ CountsSilence /\ DrainsBurst

-----------------------------------------------------------------------------
(* The steps, as the storage and the history see them.                       *)

\* Nothing happens to the flash.
Quiet ==
    /\ UNCHANGED <<svars, stored, rewritten, erased, jumped>>
    /\ received \subseteq received'
    /\ \/ UNCHANGED <<pc, task>>
       \/ pc # "flash" /\ pc' \in {"menu", "rx", "drain", "ask"}

Boots ==
    /\ pc # "flash"
    /\ BootUboot
    /\ UNCHANGED <<stored, rewritten, erased, received>>

StoresLoader ==
    \E f \in Files :
        /\ LoaderOk(f)
        /\ FlashStore("loader", 0, Len(f.data), Cells(f.data))
        /\ received \subseteq received'

StoresUboot ==
    \E f \in Files :
        /\ UbootOk(f)
        /\ FlashStore("uboot", UbootBase, Len(f.data) + 1, UbootImage(f.data))
        /\ received' = received \cup ({f.data} \cap Payloads)

Erases ==
    /\ FlashStore("erase", 0, Total, Blank)
    /\ UNCHANGED received

\* Each step of the board is of one of these kinds.
LEMMA StepKinds ==
    ASSUME [BoardNext]_bvars
    PROVE  \/ Quiet \/ Boots \/ StoresLoader \/ StoresUboot \/ Erases
           \/ Start \/ FlashWork \/ FlashReturn \/ AfterFlash \/ Restart
<1>1. CASE UNCHANGED bvars
  BY <1>1 DEF bvars, program, line, ghosts, Quiet
<1>2. CASE MenuKey
  <2>1. CASE rx.key \in {"1", "2"}
    BY <1>2, <2>1 DEF MenuKey, Quiet
  <2>2. CASE rx.key = "4"
    BY <1>2, <2>2 DEF MenuKey, Boots
  <2>3. CASE rx.key = "5"
    BY <1>2, <2>3 DEF MenuKey, Drain, Quiet
  <2>4. CASE rx.key \in {"~", "nul"}
    BY <1>2, <2>4 DEF MenuKey, Quiet
  <2>5. CASE rx.key \notin {"1", "2", "4", "5", "~", "nul"}
    <3>1. /\ pc = "menu" /\ ToMenu
          /\ UNCHANGED <<svars, autoboot, paused, escaped>>
          /\ UNCHANGED <<jumped, burst, received, stored, since, rewritten, erased>>
      BY <1>2, <2>5 DEF MenuKey
    <3>2. QED
      BY <3>1 DEF ToMenu, Quiet
  <2>6. QED
    BY <2>1, <2>2, <2>3, <2>4, <2>5
<1>3. CASE Countdown
  BY <1>3 DEF Countdown, ghosts, Boots
<1>4. CASE DrainChar \/ DrainEnd
  BY <1>4 DEF DrainChar, DrainEnd, ToMenu, line, ghosts, Quiet
<1>5. CASE AskAnswer
  <2>1. CASE rx.key = "y"
    BY <1>5, <2>1 DEF AskAnswer, Erases
  <2>2. CASE rx.key # "y"
    BY <1>5, <2>2 DEF AskAnswer, ToMenu, Quiet
  <2>3. QED
    BY <2>1, <2>2
<1>6. CASE AskTimeout
  BY <1>6 DEF AskTimeout, ToMenu, line, ghosts, Quiet
<1>7. CASE \E k \in Keys : Arrive(k)
  BY <1>7 DEF Arrive, program, Quiet
<1>8. CASE Second
  BY <1>8 DEF Second, Quiet
<1>9. CASE NotReceived
  BY <1>9 DEF NotReceived, Drain, Quiet
<1>10. CASE \E f \in Files : Received(f)
  <2>1. PICK f \in Files : Received(f)
    BY <1>10
  <2>2. CASE task = "loader" /\ LoaderOk(f)
    BY <2>1, <2>2 DEF Received, StoresLoader
  <2>3. CASE task # "loader" /\ UbootOk(f)
    BY <2>1, <2>3 DEF Received, StoresUboot
  <2>4. CASE ~ (task = "loader" /\ LoaderOk(f)) /\ ~ (task # "loader" /\ UbootOk(f))
    BY <2>1, <2>4 DEF Received, Drain, Quiet
  <2>5. QED
    BY <2>2, <2>3, <2>4
<1>11. QED
  BY <1>1, <1>2, <1>3, <1>4, <1>5, <1>6, <1>7, <1>8, <1>9, <1>10
  DEF BoardNext, ProgramStep

\* Where the areas lie.
LEMMA Areas ==
    /\ UbootBase \in Nat /\ UbootBase \in Addrs /\ UbootBase \in UbootCells
    /\ LoaderLen \in Nat /\ UbootLen \in Nat \ {0} /\ Total \in Nat
    /\ EnvCells \subseteq Addrs
    /\ 0 \in Addrs
BY BoardAssumption, TotalNat DEF UbootBase, Addrs, UbootCells, EnvCells

\* A store begins, or the chip is not found or refuses.
LEMMA StoreBegins ==
    ASSUME NEW t, NEW addr, NEW n, NEW img, FlashStore(t, addr, n, img), CallInv
    PROVE  /\ pc' = "flash" /\ task' = t
           /\ content' = content
           /\ ~running /\ loose = {}
           /\ \/ /\ running' = TRUE /\ outcome' = "none"
                 /\ call' = [kind |-> "store", addr |-> addr, len |-> n,
                             image |-> img]
                 /\ base' = content
                 /\ loose' = Touched(addr, n)
                 /\ stored' = IF Touched(addr, n) \cap UbootCells = {}
                              THEN stored ELSE "unknown"
                 /\ rewritten' = (rewritten \/ t \in {"loader", "erase"})
                 /\ erased' = (erased \/ t = "erase")
              \/ /\ outcome' \in {"notfound", "inval"}
                 /\ UNCHANGED <<base, call, running, loose, stored, rewritten,
                                erased>>
<1>1. CASE Refuse /\ UNCHANGED <<stored, rewritten, erased>>
  BY <1>1 DEF FlashStore, Refuse, CallInv
<1>2. CASE Store([addr |-> addr, len |-> n, image |-> img])
  BY <1>2 DEF FlashStore, Store, Call, Refuse, CallInv
<1>3. QED
  BY <1>1, <1>2 DEF FlashStore

\* So does boot_uboot's reading.
LEMMA BootBegins ==
    ASSUME Boots, CallInv
    PROVE  /\ pc' = "flash" /\ task' = "boot"
           /\ content' = content
           /\ ~running /\ loose = {} /\ loose' = {}
           /\ \/ /\ running' = TRUE /\ outcome' = "none"
                 /\ call' = [kind |-> "load", addr |-> UbootBase,
                             len |-> UbootLen, image |-> Unread(UbootLen)]
              \/ /\ running' = FALSE /\ outcome' \in {"notfound", "inval"}
           /\ UNCHANGED <<stored, rewritten, erased, received>>
<1>1. CASE Refuse
  BY <1>1 DEF Boots, BootUboot, Refuse, CallInv
<1>2. CASE Load([addr |-> UbootBase, len |-> UbootLen])
  BY <1>2 DEF Boots, BootUboot, Load, Call, CallInv
<1>3. QED
  BY <1>1, <1>2 DEF Boots, BootUboot

\* A call returns: it succeeds, or it reports an error.
LEMMA Returns ==
    ASSUME FlashReturn, CallInv
    PROVE  /\ pc = "flash" /\ UNCHANGED <<pc, task, jumped>>
           /\ content' = content /\ call' = call
           /\ running /\ ~running' /\ loose' = {}
           /\ UNCHANGED <<stored, rewritten, erased, received>>
           /\ outcome' = "ok" =>
                /\ call.kind = "store" =>
                      \A i \in 0 .. (call.len - 1) :
                          content[call.addr + i] = call.image[i]
                /\ call.kind = "load" =>
                      answer' = [i \in 0 .. (call.len - 1) |->
                                    content[call.addr + i]]
<1>1. CASE Succeed
  BY <1>1 DEF FlashReturn, Succeed, CallInv, program, ghosts
<1>2. CASE ~ Succeed
  BY <1>2 DEF FlashReturn, Break, CallInv, program, ghosts
<1>3. QED
  BY <1>1, <1>2

-----------------------------------------------------------------------------
(* Calls.                                                                    *)

LEMMA CallInit == BoardInit => CallInv
BY DeliveryAssumption DEF BoardInit, StorageInit, CallInv, Engaged

LEMMA CallKept == CallInv /\ [BoardNext]_bvars => CallInv'
<1>1. SUFFICES ASSUME CallInv, [BoardNext]_bvars PROVE CallInv'
  OBVIOUS
<1>2. CASE Quiet
  <2>1. CASE UNCHANGED <<pc, task>>
    BY <1>1, <1>2, <2>1 DEF CallInv, Quiet, svars, Engaged, BootCall, LoaderCall,
                            UbootCall, EraseCall
  <2>2. CASE pc # "flash" /\ pc' \in {"menu", "rx", "drain", "ask"}
    BY <1>1, <1>2, <2>2 DEF CallInv, Quiet, svars, Engaged
  <2>3. QED
    BY <1>2, <2>1, <2>2 DEF Quiet
<1>3. CASE Boots
  <2>1. /\ pc' = "flash" /\ task' = "boot" /\ content' = content /\ loose' = {}
        /\ \/ /\ running' = TRUE /\ outcome' = "none"
              /\ call' = [kind |-> "load", addr |-> UbootBase,
                          len |-> UbootLen, image |-> Unread(UbootLen)]
           \/ running' = FALSE /\ outcome' \in {"notfound", "inval"}
    BY <1>1, <1>3, BootBegins
  <2>2. QED
    BY <1>1, <2>1 DEF CallInv, Engaged, BootCall
<1>4. CASE StoresLoader
  <2>1. PICK f \in Files : LoaderOk(f) /\ FlashStore("loader", 0, Len(f.data), Cells(f.data))
    BY <1>4 DEF StoresLoader
  <2>2. /\ pc' = "flash" /\ task' = "loader" /\ content' = content
        /\ ~running /\ loose = {}
        /\ \/ /\ running' = TRUE /\ outcome' = "none"
              /\ call' = [kind |-> "store", addr |-> 0,
                          len |-> Len(f.data), image |-> Cells(f.data)]
              /\ loose' = Touched(0, Len(f.data))
           \/ outcome' \in {"notfound", "inval"} /\ UNCHANGED <<running, loose>>
    BY <1>1, <2>1, StoreBegins
  <2>3. QED
    BY <1>1, <2>1, <2>2 DEF CallInv, Engaged, LoaderCall
<1>5. CASE StoresUboot
  <2>1. PICK f \in Files :
           /\ UbootOk(f)
           /\ FlashStore("uboot", UbootBase, Len(f.data) + 1, UbootImage(f.data))
           /\ received' = received \cup ({f.data} \cap Payloads)
    BY <1>5 DEF StoresUboot
  <2>2. /\ pc' = "flash" /\ task' = "uboot" /\ content' = content
        /\ ~running /\ loose = {}
        /\ \/ /\ running' = TRUE /\ outcome' = "none"
              /\ call' = [kind |-> "store", addr |-> UbootBase,
                          len |-> Len(f.data) + 1, image |-> UbootImage(f.data)]
              /\ loose' = Touched(UbootBase, Len(f.data) + 1)
           \/ outcome' \in {"notfound", "inval"} /\ UNCHANGED <<running, loose>>
    BY <1>1, <2>1, StoreBegins
  <2>3. CASE running'
    <3>1. call' = [kind |-> "store", addr |-> UbootBase,
                   len |-> Len(f.data) + 1, image |-> UbootImage(f.data)]
      BY <2>2, <2>3
    <3>2. UbootCall'
      BY <2>1, <3>1 DEF UbootCall
    <3>3. QED
      BY <1>1, <2>2, <2>3, <3>1, <3>2 DEF CallInv, Engaged
  <2>4. CASE ~ running'
    BY <1>1, <2>1, <2>2, <2>4 DEF CallInv, Engaged
  <2>5. QED
    BY <2>3, <2>4
<1>6. CASE Erases
  <2>1. /\ pc' = "flash" /\ task' = "erase" /\ content' = content
        /\ ~running /\ loose = {}
        /\ \/ /\ running' = TRUE /\ outcome' = "none"
              /\ call' = [kind |-> "store", addr |-> 0,
                          len |-> Total, image |-> Blank]
              /\ loose' = Touched(0, Total)
           \/ outcome' \in {"notfound", "inval"} /\ UNCHANGED <<running, loose>>
    BY <1>1, <1>6, StoreBegins DEF Erases
  <2>2. QED
    BY <1>1, <2>1 DEF CallInv, Engaged, EraseCall
<1>7. CASE Start
  BY <1>1, <1>7 DEF Start, Collect, CallInv, Engaged
<1>8. CASE FlashWork
  BY <1>1, <1>8 DEF FlashWork, program, ghosts, CallInv, Engaged, BootCall,
                    LoaderCall, UbootCall, EraseCall
<1>9. CASE FlashReturn
  BY <1>1, <1>9, Returns DEF CallInv, Engaged, BootCall, LoaderCall, UbootCall,
                             EraseCall
<1>10. CASE AfterFlash
  BY <1>1, <1>10 DEF AfterFlash, Collect, BootFailed, ToMenu, CallInv, Engaged
<1>11. CASE Restart
  BY <1>1, <1>11 DEF Restart, Break, CallInv, Engaged
<1>12. QED
  BY <1>1, <1>2, <1>3, <1>4, <1>5, <1>6, <1>7, <1>8, <1>9, <1>10, <1>11, StepKinds

LEMMA CallAlways == BoardSpec => []CallInv
BY CallInit, CallKept, PTL DEF BoardSpec

-----------------------------------------------------------------------------
(* The header.                                                               *)

\* The first cell of an image is the header of its payload.
LEMMA ImageHeader ==
    ASSUME NEW f \in Files, UbootOk(f)
    PROVE  /\ UbootImage(f.data)[0] = Header(f.data)
           /\ Len(f.data) \in Nat
<1> DEFINE S == {f.data[i] : i \in DOMAIN f.data}
           p == f.data
<1>1. p \in Seq(S)
  BY BoardAssumption
<1> HIDE DEF S, p
<1> DEFINE h == Header(p)
           T == S \cup {h}
<1> HIDE DEF h
<1>2. p \in Seq(T) /\ <<h>> \in Seq(T)
  BY <1>1
<1> HIDE DEF T
<1>3. /\ Len(<<h>> \o p) = 1 + Len(p)
      /\ (<<h>> \o p)[1] = h
      /\ Len(p) \in Nat
  BY <1>2
<1>4. 0 \in 0 .. (Len(<<h>> \o p) - 1)
  BY <1>3
<1>5. UbootImage(p)[0] = h
  BY <1>3, <1>4 DEF UbootImage, Cells, h
<1>6. QED
  BY <1>3, <1>5 DEF p, h

\* A header tells the payload, and erased cells and junk are none.
LEMMA HeaderTells ==
    /\ \A p, q : Header(p) = Header(q) => p = q
    /\ \A p \in Payloads : Header(p) \notin {Erased, Junk}
<1>1. \A p, q : Header(p) = Header(q) => p = q
  BY DEF Header
<1>2. \A p \in Payloads : Header(p) \in {Header(q) : q \in Payloads}
  OBVIOUS
<1>3. QED
  BY <1>1, <1>2, DeliveryAssumption

LEMMA HeaderInit == BoardInit => HeaderInv
<1>1. SUFFICES ASSUME BoardInit PROVE HeaderInv
  OBVIOUS
<1>2. HeaderKnown
  BY <1>1 DEF BoardInit, StorageInit, HeaderKnown, Known
<1>3. QED
  BY <1>1, <1>2 DEF BoardInit, HeaderInv, StoredHolds, HeaderDone, Booted

\* Storing an image that has, where the header is to be, the header of a
\* payload that was received, or none.
LEMMA StoreKeepsHeader ==
    ASSUME NEW t, NEW addr \in Nat, NEW n \in Nat, NEW img,
           FlashStore(t, addr, n, img), CallInv, HeaderInv,
           received \subseteq received',
           addr <= UbootBase /\ UbootBase < addr + n =>
                \A p \in Payloads : img[UbootBase - addr] = Header(p) => p \in received'
    PROVE  HeaderInv'
<1>1. /\ pc' = "flash" /\ content' = content
      /\ ~running /\ loose = {}
      /\ \/ /\ running' = TRUE /\ outcome' = "none"
            /\ call' = [kind |-> "store", addr |-> addr, len |-> n, image |-> img]
            /\ base' = content
            /\ loose' = Touched(addr, n)
            /\ stored' = IF Touched(addr, n) \cap UbootCells = {}
                         THEN stored ELSE "unknown"
         \/ /\ outcome' \in {"notfound", "inval"}
            /\ UNCHANGED <<running, loose, stored>>
  BY StoreBegins
<1>2. HeaderKnown'
  <2>1. Known(content[UbootBase])'
    BY <1>1 DEF HeaderInv, HeaderKnown, Known
  <2>2. ASSUME UbootBase \in loose', NEW v \in Possible(UbootBase)'
        PROVE  Known(v)'
    <3>1. /\ call' = [kind |-> "store", addr |-> addr, len |-> n, image |-> img]
          /\ base' = content
      BY <1>1, <2>2
    <3>2. CASE v = base'[UbootBase]
      BY <3>1, <3>2 DEF HeaderInv, HeaderKnown, Known
    <3>3. CASE v \in {Erased, Junk}
      BY <3>3, HeaderTells DEF Known
    <3>4. CASE /\ addr <= UbootBase /\ UbootBase < addr + n
               /\ v = img[UbootBase - addr]
      BY <3>4 DEF Known
    <3>5. QED
      BY <2>2, <3>1, <3>2, <3>3, <3>4 DEF Possible, InCall
  <2>3. QED
    BY <2>1, <2>2 DEF HeaderKnown
<1>3. StoredHolds'
  <2>1. CASE UNCHANGED <<loose, stored>>
    BY <1>1, <2>1 DEF HeaderInv, StoredHolds
  <2>2. CASE /\ loose' = Touched(addr, n)
             /\ stored' = IF Touched(addr, n) \cap UbootCells = {}
                          THEN stored ELSE "unknown"
    BY <1>1, <2>2, Areas DEF HeaderInv, StoredHolds
  <2>3. QED
    BY <1>1, <2>1, <2>2
<1>4. HeaderDone' /\ Booted'
  BY <1>1 DEF HeaderDone, Booted
<1>5. QED
  BY <1>2, <1>3, <1>4 DEF HeaderInv

LEMMA HeaderKept ==
    CallInv /\ HeaderInv /\ [BoardNext]_bvars => HeaderInv'
<1>1. SUFFICES ASSUME CallInv, HeaderInv, [BoardNext]_bvars PROVE HeaderInv'
  OBVIOUS
<1>2. CASE Quiet
  <2>1. /\ UNCHANGED <<content, base, call, running, loose, outcome, answer>>
        /\ UNCHANGED <<stored, jumped>> /\ received \subseteq received'
    BY <1>2 DEF Quiet, svars
  <2>2. HeaderKnown' /\ StoredHolds'
    BY <1>1, <2>1 DEF HeaderInv, HeaderKnown, StoredHolds, Known, Possible, InCall
  <2>3. HeaderDone' /\ Booted'
    BY <1>1, <1>2, <2>1 DEF Quiet, HeaderInv, HeaderDone, Booted
  <2>4. QED
    BY <2>2, <2>3 DEF HeaderInv
<1>3. CASE Boots
  <2>1. /\ pc' = "flash" /\ content' = content /\ loose' = {} /\ loose = {}
        /\ running' \/ outcome' # "ok"
        /\ UNCHANGED <<stored, received>>
    BY <1>1, <1>3, BootBegins
  <2>2. QED
    BY <1>1, <2>1 DEF HeaderInv, HeaderKnown, StoredHolds, Known, HeaderDone, Booted
<1>4. CASE StoresLoader
  <2>1. PICK f \in Files :
           /\ LoaderOk(f)
           /\ FlashStore("loader", 0, Len(f.data), Cells(f.data))
           /\ received \subseteq received'
    BY <1>4 DEF StoresLoader
  <2>2. Len(f.data) \in Nat /\ 0 + Len(f.data) <= UbootBase
    <3>1. Len(f.data) \in Nat
      BY BoardAssumption
    <3>2. QED
      BY <2>1, <3>1, Areas DEF LoaderOk, UbootBase
  <2>3. QED
    BY <1>1, <2>1, <2>2, Areas, StoreKeepsHeader
<1>5. CASE StoresUboot
  <2>1. PICK f \in Files :
           /\ UbootOk(f)
           /\ FlashStore("uboot", UbootBase, Len(f.data) + 1, UbootImage(f.data))
           /\ received' = received \cup ({f.data} \cap Payloads)
    BY <1>5 DEF StoresUboot
  <2>2. /\ UbootImage(f.data)[0] = Header(f.data)
        /\ Len(f.data) + 1 \in Nat
    BY <2>1, ImageHeader
  <2>3. \A p \in Payloads :
           UbootImage(f.data)[UbootBase - UbootBase] = Header(p) => p \in received'
    BY <2>1, <2>2, HeaderTells, Areas
  <2>4. QED
    BY <1>1, <2>1, <2>2, <2>3, Areas, StoreKeepsHeader
<1>6. CASE Erases
  <2>1. \A p \in Payloads : Blank[UbootBase - 0] # Header(p)
    BY HeaderTells, Areas DEF Blank
  <2>2. FlashStore("erase", 0, Total, Blank) /\ received \subseteq received'
    BY <1>6 DEF Erases
  <2>3. QED
    BY <1>1, <2>1, <2>2, Areas, StoreKeepsHeader
<1>7. CASE Start
  BY <1>1, <1>7 DEF Start, Collect, line, HeaderInv, HeaderKnown, StoredHolds, Known,
                    HeaderDone, Booted
<1>8. CASE FlashWork
  <2>1. PICK a \in loose : \E v \in Possible(a) : content' = [content EXCEPT ![a] = v]
    BY <1>8 DEF FlashWork
  <2>2. PICK v \in Possible(a) : content' = [content EXCEPT ![a] = v]
    BY <2>1
  <2>3. /\ UNCHANGED <<base, call, running, loose, outcome, answer>>
        /\ UNCHANGED <<pc, task, jumped, received, stored>>
        /\ running /\ pc = "flash"
    BY <1>1, <1>8 DEF FlashWork, program, ghosts, CallInv
  <2>4. UbootBase \in DOMAIN content
    BY <1>1, Areas DEF CallInv
  <2>5. content'[UbootBase] = IF a = UbootBase THEN v ELSE content[UbootBase]
    BY <2>2, <2>4
  <2>6. Known(content[UbootBase])'
    BY <1>1, <2>1, <2>2, <2>3, <2>5 DEF HeaderInv, HeaderKnown, Known
  <2>7. HeaderKnown'
    BY <1>1, <2>3, <2>6 DEF HeaderInv, HeaderKnown, Known, Possible, InCall
  <2>8. StoredHolds'
    BY <1>1, <2>1, <2>3, <2>5 DEF HeaderInv, StoredHolds
  <2>9. QED
    BY <2>3, <2>7, <2>8 DEF HeaderInv, HeaderDone, Booted
<1>9. CASE FlashReturn
  <2>1. /\ pc = "flash" /\ UNCHANGED <<pc, task, content, call, stored, received>>
        /\ running /\ loose' = {}
        /\ outcome' = "ok" =>
             /\ call.kind = "store" =>
                   \A i \in 0 .. (call.len - 1) :
                       content[call.addr + i] = call.image[i]
             /\ call.kind = "load" =>
                   answer' = [i \in 0 .. (call.len - 1) |-> content[call.addr + i]]
    BY <1>1, <1>9, Returns
  <2>2. HeaderKnown' /\ StoredHolds'
    BY <1>1, <2>1 DEF HeaderInv, HeaderKnown, StoredHolds, Known
  <2>3. Engaged
    BY <2>1 DEF Engaged
  <2>4. ASSUME outcome' = "ok", task = "boot" PROVE answer'[0] = content[UbootBase]
    <3>1. call.kind = "load" /\ call.addr = UbootBase /\ call.len = UbootLen
      BY <1>1, <2>3, <2>4 DEF CallInv, BootCall
    <3>2. 0 \in 0 .. (call.len - 1) /\ call.addr + 0 = UbootBase
      BY <3>1, Areas
    <3>3. QED
      BY <2>1, <2>4, <3>1, <3>2
  <2>5. ASSUME outcome' = "ok", task = "uboot" PROVE content[UbootBase] = call.image[0]
    <3>1. PICK f \in Files : /\ UbootOk(f) /\ call.kind = "store"
                             /\ call.addr = UbootBase
                             /\ call.len = Len(f.data) + 1
      BY <1>1, <2>3, <2>5 DEF CallInv, UbootCall
    <3>2. 0 \in 0 .. (call.len - 1) /\ call.addr + 0 = UbootBase
      BY <3>1, Areas, ImageHeader
    <3>3. QED
      BY <2>1, <2>5, <3>1, <3>2
  <2>6. ASSUME outcome' = "ok", task = "erase" PROVE content[UbootBase] = Erased
    <3>1. /\ call.kind = "store" /\ call.addr = 0 /\ call.len = Total
          /\ call.image = Blank
      BY <1>1, <2>3, <2>6 DEF CallInv, EraseCall
    <3>2. UbootBase \in 0 .. (call.len - 1) /\ call.addr + UbootBase = UbootBase
      BY <3>1, Areas DEF Addrs
    <3>3. Blank[UbootBase] = Erased
      BY Areas DEF Blank
    <3>4. QED
      BY <2>1, <2>6, <3>1, <3>2, <3>3
  <2>7. HeaderDone' /\ Booted'
    BY <2>1, <2>4, <2>5, <2>6 DEF HeaderDone, Booted
  <2>8. QED
    BY <2>2, <2>7 DEF HeaderInv
<1>10. CASE AfterFlash
  <2>1. /\ pc = "flash" /\ ~running /\ loose = {}
        /\ content' = content /\ loose' = {} /\ received' = received
        /\ outcome' = "none"
        /\ stored' = IF outcome # "ok" THEN stored
                     ELSE IF task = "uboot" THEN call.image[0].crc
                     ELSE IF task = "erase" THEN None ELSE stored
    BY <1>10 DEF AfterFlash, Collect
  <2>2. HeaderKnown'
    BY <1>1, <2>1 DEF HeaderInv, HeaderKnown, Known
  <2>3. StoredHolds'
    <3>1. CASE outcome = "ok" /\ task = "uboot"
      <4>1. PICK f \in Files : UbootOk(f) /\ call.image = UbootImage(f.data)
        BY <1>1, <2>1, <3>1 DEF CallInv, Engaged, UbootCall
      <4>2. call.image[0] = Header(f.data)
        BY <4>1, ImageHeader
      <4>3. stored' = f.data
        BY <2>1, <3>1, <4>2 DEF Header
      <4>4. content[UbootBase] = Header(f.data)
        BY <1>1, <2>1, <3>1, <4>2 DEF HeaderInv, HeaderDone
      <4>5. QED
        BY <2>1, <4>3, <4>4 DEF StoredHolds
    <3>2. CASE outcome = "ok" /\ task = "erase"
      BY <1>1, <2>1, <3>2 DEF HeaderInv, HeaderDone, StoredHolds
    <3>3. CASE ~ (outcome = "ok" /\ task \in {"uboot", "erase"})
      BY <1>1, <2>1, <3>3 DEF HeaderInv, StoredHolds
    <3>4. QED
      BY <3>1, <3>2, <3>3
  <2>4. Booted'
    <3>1. SUFFICES ASSUME pc' = "booted"
                   PROVE  /\ jumped' \in received'
                          /\ stored' = "unknown" \/ jumped' = stored'
      BY DEF Booted
    <3>2. /\ task = "boot" /\ outcome = "ok"
          /\ Bootable(answer) /\ jumped' = Payload(answer)
      BY <1>10, <3>1 DEF AfterFlash, BootFailed, ToMenu
    <3>3. PICK p \in Payloads : answer[0] = Header(p)
      BY <3>2 DEF Bootable
    <3>4. jumped' = p
      BY <3>2, <3>3 DEF Bootable, Header
    <3>5. content[UbootBase] = Header(p)
      BY <1>1, <2>1, <3>2, <3>3 DEF HeaderInv, HeaderDone
    <3>6. p \in received
      BY <1>1, <3>5 DEF HeaderInv, HeaderKnown, Known
    <3>7. stored = "unknown" \/ p = stored
      BY <1>1, <3>5, HeaderTells DEF HeaderInv, StoredHolds
    <3>8. QED
      BY <2>1, <3>2, <3>4, <3>6, <3>7
  <2>5. QED
    BY <2>1, <2>2, <2>3, <2>4 DEF HeaderInv, HeaderDone
<1>11. CASE Restart
  BY <1>1, <1>11 DEF Restart, Break, ghosts, HeaderInv, HeaderKnown, StoredHolds,
                     Known, HeaderDone, Booted
<1>12. QED
  BY <1>1, <1>2, <1>3, <1>4, <1>5, <1>6, <1>7, <1>8, <1>9, <1>10, <1>11, StepKinds

LEMMA HeaderAlways == BoardSpec => []HeaderInv
<1>1. CallInv /\ HeaderInv /\ [BoardNext]_bvars => HeaderInv'
  BY HeaderKept
<1>2. QED
  BY <1>1, HeaderInit, CallAlways, PTL DEF BoardSpec

\* A board only ever starts a u-boot that was received as a whole, in spite of
\* resets and power failures in the middle of stores and of their repetition:
\* boot_uboot's check of the header and the CRC suffices.
THEOREM OnlyReceivedBoots == BoardSpec => []BootsOnlyReceived
<1>1. HeaderInv => BootsOnlyReceived
  BY DEF HeaderInv, Booted, BootsOnlyReceived
<1>2. QED
  BY <1>1, HeaderAlways, PTL

\* Once flash_store has reported success, the board starts what was stored
\* last, or nothing after an erase.
THEOREM LastStoreBoots == BoardSpec => []LastStoreWins
<1>1. HeaderInv => LastStoreWins
  BY DEF HeaderInv, Booted, LastStoreWins
<1>2. QED
  BY <1>1, HeaderAlways, PTL

-----------------------------------------------------------------------------
(* The loader and the environment.                                           *)

\* Addresses on the two sides of a page boundary are in different pages.
LEMMA AlignedBelow ==
    ASSUME NEW m \in Nat, m % PageSize = 0,
           NEW x \in Nat, NEW y \in Nat, PageBase(x) = PageBase(y), x < m
    PROVE  y < m
<1> DEFINE q == m \div PageSize
           k == x \div PageSize
<1>1. q \in Nat /\ m = q * PageSize
  <2>1. /\ q \in Nat
        /\ m = q * PageSize + (m % PageSize)
    BY DivMod, GeometryAssumption
  <2>2. q * PageSize \in Nat
    BY <2>1, MultipleBelow, GeometryAssumption
  <2>3. QED
    BY <2>1, <2>2
<1>2. /\ k \in Nat /\ PageBase(x) = k * PageSize /\ PageBase(x) \in Nat
      /\ PageBase(x) <= x
  <2>1. k \in Nat
    BY DivMod, GeometryAssumption
  <2>2. PageBase(x) = k * PageSize
    BY DEF PageBase
  <2>3. PageBase(x) \in Nat /\ PageBase(x) <= x
    BY PageOf, GeometryAssumption DEF Offsets
  <2>4. QED
    BY <2>1, <2>2, <2>3
<1> HIDE DEF q, k
<1>3. k < q
  <2>1. SUFFICES ASSUME q <= k PROVE FALSE
    BY <1>1, <1>2
  <2>2. q * PageSize <= k * PageSize
    <3>1. CASE q = k
      BY <3>1, <1>1, <1>2
    <3>2. CASE q < k
      BY <3>2, MultipleBelow, GeometryAssumption, <1>1, <1>2
    <3>3. QED
      BY <2>1, <3>1, <3>2, <1>1, <1>2
  <2>3. QED
    BY <1>1, <1>2, <2>2
<1>4. k * PageSize + PageSize <= m
  BY <1>1, <1>2, <1>3, MultipleBelow, GeometryAssumption
<1>5. y < PageBase(y) + PageSize
  BY PageOf, GeometryAssumption DEF Offsets
<1>6. QED
  BY <1>2, <1>4, <1>5, GeometryAssumption

\* A request on one side of a page boundary touches no page of the other.
LEMMA TouchedInside ==
    ASSUME NEW m \in Nat, m % PageSize = 0,
           NEW d \in Nat, NEW n \in Nat, NEW a \in Touched(d, n)
    PROVE  /\ d + n <= m => a < m
           /\ m <= d => m <= a
<1>1. PICK x \in Addrs : /\ d <= x /\ x < d + n
                         /\ PageBase(x) = PageBase(a)
  BY DEF Touched, Target
<1>2. x \in Nat /\ a \in Nat
  BY TotalNat DEF Addrs, Touched
<1>3. d + n <= m => a < m
  BY <1>1, <1>2, AlignedBelow
<1>4. a < m => x < m
  BY <1>1, <1>2, AlignedBelow
<1>5. QED
  BY <1>1, <1>2, <1>3, <1>4

LEMMA AreasInit == BoardInit => AreasInv
<1>1. SUFFICES ASSUME BoardInit PROVE AreasInv
  OBVIOUS
<1>2. content \in Contents /\ loose = {} /\ pc = "rom"
  BY <1>1 DEF BoardInit, StorageInit
<1>3. LoaderThere
  BY <1>2, DeliveryAssumption DEF LoaderThere
<1>4. \A a \in EnvCells : content[a] = EnvWord /\ a \notin loose
  BY <1>2, DeliveryAssumption
<1>5. QED
  BY <1>2, <1>3, <1>4 DEF AreasInv, LoaderKept, EnvKept

\* A step that changes no cell and makes none loose.
LEMMA AreasAsTheyWere ==
    ASSUME AreasInv, content' = content, loose' \subseteq loose,
           pc' = "dead" => rewritten', UNCHANGED <<rewritten, erased>>
    PROVE  AreasInv'
<1>1. LoaderThere => LoaderThere'
  <2>1. SUFFICES ASSUME LoaderThere PROVE LoaderThere'
    OBVIOUS
  <2>2. PICK f \in Loaders :
           /\ Len(f) \in 0 .. LoaderLen
           /\ \A i \in 1 .. Len(f) : content[i - 1] = f[i] /\ i - 1 \notin loose
    BY <2>1 DEF LoaderThere
  <2>3. \A i \in 1 .. Len(f) : content'[i - 1] = f[i] /\ i - 1 \notin loose'
    BY <2>2
  <2>4. QED
    BY <2>2, <2>3 DEF LoaderThere
<1>2. QED
  BY <1>1 DEF AreasInv, LoaderKept, EnvKept

\* A store that begins makes none of the loader's cells loose unless it is
\* an upload of the loader or an erase, and none of the environment's unless
\* it is an erase.
LEMMA StoreKeepsAreas ==
    ASSUME NEW t, NEW addr \in Nat, NEW n \in Nat, NEW img,
           FlashStore(t, addr, n, img), CallInv, AreasInv,
           t \notin {"loader", "erase"} =>
              \A a \in Touched(addr, n) : LoaderLen <= a,
           t # "erase" => \A a \in Touched(addr, n) : a < LoaderLen + UbootLen
    PROVE  AreasInv'
<1>1. pc' = "flash" /\ content' = content /\ loose = {}
  BY StoreBegins
<1>2. CASE UNCHANGED <<loose, rewritten, erased>>
  BY <1>1, <1>2, AreasAsTheyWere
<1>3. CASE /\ loose' = Touched(addr, n)
           /\ rewritten' = (rewritten \/ t \in {"loader", "erase"})
           /\ erased' = (erased \/ t = "erase")
  <2>1. rewritten' \/ LoaderThere'
    <3>1. SUFFICES ASSUME ~rewritten, t \notin {"loader", "erase"}
                   PROVE  LoaderThere'
      BY <1>3
    <3>2. PICK f \in Loaders :
             /\ Len(f) \in 0 .. LoaderLen
             /\ \A i \in 1 .. Len(f) : content[i - 1] = f[i]
      BY <3>1 DEF AreasInv, LoaderKept, LoaderThere
    <3>3. \A i \in 1 .. Len(f) : content'[i - 1] = f[i]
      BY <1>1, <3>2
    <3>4. \A i \in 1 .. Len(f) : i - 1 \notin loose'
      BY <1>3, <3>1, <3>2, Areas
    <3>5. QED
      BY <3>2, <3>3, <3>4 DEF LoaderThere
  <2>2. erased' \/ \A a \in EnvCells : content'[a] = EnvWord /\ a \notin loose'
    <3>1. SUFFICES ASSUME ~erased, t # "erase", NEW a \in EnvCells
                   PROVE  content'[a] = EnvWord /\ a \notin loose'
      BY <1>3
    <3>2. content'[a] = EnvWord
      BY <1>1, <3>1 DEF AreasInv, EnvKept
    <3>3. a \notin loose'
      BY <1>3, <3>1, Areas DEF EnvCells, UbootBase
    <3>4. QED
      BY <3>2, <3>3
  <2>3. pc' # "dead"
    BY <1>1
  <2>4. QED
    BY <2>1, <2>2, <2>3 DEF AreasInv, LoaderKept, EnvKept
<1>4. QED
  BY <1>2, <1>3, StoreBegins

LEMMA AreasKept ==
    ASSUME PagesAligned, CallInv, AreasInv, [BoardNext]_bvars
    PROVE  AreasInv'
<1>1. CASE Quiet
  <2>1. /\ content' = content /\ loose' = loose
        /\ UNCHANGED <<rewritten, erased>>
        /\ pc' = "dead" => pc = "dead"
    BY <1>1 DEF Quiet, svars
  <2>2. pc' = "dead" => rewritten'
    BY <2>1 DEF AreasInv, LoaderKept
  <2>3. QED
    BY <2>1, <2>2, AreasAsTheyWere
<1>2. CASE Boots
  <2>1. pc' = "flash" /\ content' = content /\ loose' = {}
        /\ UNCHANGED <<rewritten, erased>>
    BY <1>2, BootBegins
  <2>2. QED
    BY <2>1, AreasAsTheyWere
<1>3. CASE StoresLoader
  <2>1. PICK f \in Files :
           /\ LoaderOk(f)
           /\ FlashStore("loader", 0, Len(f.data), Cells(f.data))
    BY <1>3 DEF StoresLoader
  <2>2. Len(f.data) \in Nat
    BY BoardAssumption
  <2>3. 0 + Len(f.data) <= LoaderLen
    BY <2>1, <2>2, Areas DEF LoaderOk
  <2>4. \A a \in Touched(0, Len(f.data)) : a < LoaderLen /\ a \in Nat
    BY <2>2, <2>3, Areas, TouchedInside, TotalNat DEF PagesAligned, Touched, Addrs
  <2>5. \A a \in Touched(0, Len(f.data)) : a < LoaderLen + UbootLen
    BY <2>4, Areas
  <2>6. QED
    BY <2>1, <2>2, <2>5, StoreKeepsAreas
<1>4. CASE StoresUboot
  <2>1. PICK f \in Files :
           /\ UbootOk(f)
           /\ FlashStore("uboot", UbootBase, Len(f.data) + 1, UbootImage(f.data))
    BY <1>4 DEF StoresUboot
  <2>2. Len(f.data) \in Nat
    BY <2>1, ImageHeader
  <2>3. UbootBase + (Len(f.data) + 1) <= LoaderLen + UbootLen
    BY <2>1, <2>2, Areas DEF UbootOk, Room, UbootBase
  <2>4. LoaderLen + UbootLen \in Nat /\ Len(f.data) + 1 \in Nat
    BY <2>2, Areas
  <2>5. \A a \in Touched(UbootBase, Len(f.data) + 1) : a < LoaderLen + UbootLen
    BY <2>3, <2>4, Areas, TouchedInside DEF PagesAligned
  <2>6. \A a \in Touched(UbootBase, Len(f.data) + 1) : LoaderLen <= a
    BY <2>4, Areas, TouchedInside DEF PagesAligned, UbootBase
  <2>7. QED
    BY <2>1, <2>4, <2>5, <2>6, Areas, StoreKeepsAreas
<1>5. CASE Erases
  <2>1. FlashStore("erase", 0, Total, Blank)
    BY <1>5 DEF Erases
  <2>2. QED
    BY <2>1, Areas, StoreKeepsAreas
<1>6. CASE Start
  <2>1. /\ content' = content /\ loose' = loose
        /\ UNCHANGED <<rewritten, erased>>
        /\ pc' = "dead" => ~ LoaderRuns
    BY <1>6 DEF Start, Collect
  <2>2. LoaderThere => LoaderRuns
    BY DEF LoaderThere, LoaderRuns
  <2>3. pc' = "dead" => rewritten'
    BY <2>1, <2>2 DEF AreasInv, LoaderKept
  <2>4. QED
    BY <2>1, <2>3, AreasAsTheyWere
<1>7. CASE FlashWork
  <2>1. PICK a \in loose : \E v \in Possible(a) : content' = [content EXCEPT ![a] = v]
    BY <1>7 DEF FlashWork
  <2>2. PICK v \in Possible(a) : content' = [content EXCEPT ![a] = v]
    BY <2>1
  <2>3. loose' = loose /\ UNCHANGED <<pc, rewritten, erased>>
    BY <1>7 DEF FlashWork, program, ghosts
  <2>4. \A x : x \notin loose => content'[x] = content[x]
    BY <2>2
  <2>5. LoaderThere => LoaderThere'
    <3>1. SUFFICES ASSUME LoaderThere PROVE LoaderThere'
      OBVIOUS
    <3>2. PICK f \in Loaders :
             /\ Len(f) \in 0 .. LoaderLen
             /\ \A i \in 1 .. Len(f) : content[i - 1] = f[i] /\ i - 1 \notin loose
      BY <3>1 DEF LoaderThere
    <3>3. \A i \in 1 .. Len(f) : content'[i - 1] = f[i] /\ i - 1 \notin loose'
      BY <2>3, <2>4, <3>2
    <3>4. QED
      BY <3>2, <3>3 DEF LoaderThere
  <2>6. EnvKept'
    BY <2>3, <2>4 DEF AreasInv, EnvKept
  <2>7. QED
    BY <2>3, <2>5, <2>6 DEF AreasInv, LoaderKept
<1>8. CASE FlashReturn
  <2>1. /\ pc' = "flash" /\ content' = content /\ loose' = {}
        /\ UNCHANGED <<rewritten, erased>>
    BY <1>8, Returns
  <2>2. QED
    BY <2>1, AreasAsTheyWere
<1>9. CASE AfterFlash
  <2>1. /\ pc' \in {"booted", "menu"} /\ content' = content /\ loose' = loose
        /\ UNCHANGED <<rewritten, erased>>
    BY <1>9 DEF AfterFlash, Collect, BootFailed, ToMenu
  <2>2. QED
    BY <2>1, AreasAsTheyWere
<1>10. CASE Restart
  <2>1. /\ pc' = "rom" /\ content' = content /\ loose' = {}
        /\ UNCHANGED <<rewritten, erased>>
    BY <1>10 DEF Restart, ghosts
  <2>2. QED
    BY <2>1, AreasAsTheyWere
<1>11. QED
  BY <1>1, <1>2, <1>3, <1>4, <1>5, <1>6, <1>7, <1>8, <1>9, <1>10, StepKinds

LEMMA AreasAlways == ASSUME PagesAligned PROVE BoardSpec => []AreasInv
<1>1. CallInv /\ AreasInv /\ [BoardNext]_bvars => AreasInv'
  BY PagesAligned, AreasKept
<1>2. QED
  BY <1>1, AreasInit, CallAlways, PTL DEF BoardSpec

\* Where no page lies in two areas, the board keeps starting until a loader
\* upload or an erase begins to write: storing u-boot, interrupted or not, leaves
\* the loader alone.
THEOREM LoaderStaysAlive == ASSUME PagesAligned PROVE BoardSpec => []LoaderSurvives
<1>1. AreasInv => LoaderSurvives
  BY DEF AreasInv, LoaderKept, LoaderSurvives
<1>2. QED
  BY <1>1, AreasAlways, PTL

\* Where no page lies in two areas, u-boot's environment only changes once an
\* erase has begun to write, which takes a confirmation (EraseConfirmed).
THEOREM EnvironmentStays == ASSUME PagesAligned PROVE BoardSpec => []EnvironmentKept
<1>1. AreasInv => EnvironmentKept
  BY DEF AreasInv, EnvKept, EnvironmentKept
<1>2. QED
  BY <1>1, AreasAlways, PTL

-----------------------------------------------------------------------------
(* Silence before autoboot.                                                  *)

LEMMA LineTypesInit == BoardInit => LineTypes
<1>1. SUFFICES ASSUME BoardInit PROVE LineTypes
  OBVIOUS
<1>2. /\ timer = 0 /\ since = 0 /\ drained = 0 /\ burst = 0 /\ rx = None
      /\ paused = FALSE
  BY <1>1 DEF BoardInit
<1>3. burst \in 0 .. MaxBurst
  BY <1>2, BoardAssumption
<1>4. QED
  BY <1>2, <1>3 DEF LineTypes

LEMMA LineTypesKept == LineTypes /\ [BoardNext]_bvars => LineTypes'
<1>1. SUFFICES ASSUME LineTypes, [BoardNext]_bvars PROVE LineTypes'
  OBVIOUS
<1>2. CASE UNCHANGED bvars
  BY <1>1, <1>2 DEF bvars, program, line, ghosts, LineTypes
<1>3. CASE MenuKey
  <2>1. /\ rx' = None
        /\ UNCHANGED <<burst, since>>
        /\ paused' = FALSE \/ paused' = paused
        /\ timer' = 0 \/ timer' = timer
        /\ drained' = 0 \/ drained' = drained
    BY <1>3 DEF MenuKey, BootUboot, Drain, ToMenu
  <2>2. paused' \in BOOLEAN
    BY <1>1, <2>1 DEF LineTypes
  <2>3. timer' \in Nat /\ drained' \in Nat
    BY <1>1, <2>1 DEF LineTypes
  <2>4. QED
    BY <1>1, <2>1, <2>2, <2>3 DEF LineTypes
<1>4. CASE Countdown
  BY <1>1, <1>4 DEF Countdown, BootUboot, line, ghosts, LineTypes
<1>5. CASE DrainChar \/ DrainEnd
  BY <1>1, <1>5 DEF DrainChar, DrainEnd, ToMenu, line, ghosts, LineTypes
<1>6. CASE AskAnswer \/ AskTimeout
  BY <1>1, <1>6 DEF AskAnswer, AskTimeout, ToMenu, line, ghosts, LineTypes
<1>7. CASE \E k \in Keys : Arrive(k)
  BY <1>1, <1>7, BoardAssumption DEF Arrive, program, LineTypes
<1>8. CASE Second
  BY <1>1, <1>8, BoardAssumption DEF Second, Capped, LineTypes
<1>9. CASE NotReceived \/ \E f \in Files : Received(f)
  BY <1>1, <1>9, BoardAssumption DEF NotReceived, Received, Drain, LineTypes
<1>10. CASE Start \/ Restart
  BY <1>1, <1>10 DEF Start, Restart, line, ghosts, LineTypes
<1>11. CASE FlashWork \/ FlashReturn
  BY <1>1, <1>11 DEF FlashWork, FlashReturn, program, line, ghosts, LineTypes
<1>12. CASE AfterFlash
  BY <1>1, <1>12 DEF AfterFlash, BootFailed, ToMenu, line, LineTypes
<1>13. QED
  BY <1>1, <1>2, <1>3, <1>4, <1>5, <1>6, <1>7, <1>8, <1>9, <1>10, <1>11, <1>12
  DEF BoardNext, ProgramStep

LEMMA SilenceKept ==
    LineTypes /\ CountsSilence /\ [BoardNext]_bvars => CountsSilence'
<1>1. SUFFICES ASSUME LineTypes, CountsSilence, [BoardNext]_bvars
               PROVE  CountsSilence'
  OBVIOUS
<1>2. CASE UNCHANGED bvars
  BY <1>1, <1>2 DEF bvars, program, line, ghosts, CountsSilence
<1>3. CASE MenuKey
  BY <1>1, <1>3 DEF MenuKey, BootUboot, Drain, ToMenu, LineTypes, CountsSilence
<1>4. CASE Countdown
  BY <1>1, <1>4 DEF Countdown, BootUboot, line, ghosts, CountsSilence
<1>5. CASE DrainChar \/ DrainEnd
  BY <1>1, <1>5 DEF DrainChar, DrainEnd, ToMenu, line, ghosts, LineTypes, CountsSilence
<1>6. CASE AskAnswer \/ AskTimeout
  BY <1>1, <1>6 DEF AskAnswer, AskTimeout, FlashStore, ToMenu, line, ghosts, LineTypes,
                    CountsSilence
<1>7. CASE \E k \in Keys : Arrive(k)
  <2>1. PICK k \in Keys : Arrive(k)
    BY <1>7
  <2>2. /\ UNCHANGED <<pc, task, timer, autoboot, escaped>>
        /\ rx' = [key |-> k, paused |-> paused] /\ rx' # None
        /\ since' = IF k = "nul" THEN since ELSE 0
        /\ pc = "menu" => rx = None \/ timer = 0
    BY <2>1, <1>1, BoardAssumption DEF Arrive, program, LineTypes
  <2>3. CASE pc = "menu" /\ autoboot
    <3>1. CASE k # "nul"
      BY <1>1, <2>2, <2>3, <3>1 DEF CountsSilence
    <3>2. CASE k = "nul"
      BY <1>1, <2>2, <2>3, <3>2 DEF CountsSilence, LineTypes
    <3>3. QED
      BY <3>1, <3>2
  <2>4. CASE ~ (pc = "menu" /\ autoboot)
    BY <1>1, <2>2, <2>4 DEF CountsSilence
  <2>5. QED
    BY <2>3, <2>4
<1>8. CASE Second
  <2>1. /\ UNCHANGED <<pc, task, autoboot, rx, escaped>>
        /\ pc = "menu" => rx = None
        /\ timer' = Capped(timer) /\ since' = Capped(since)
    BY <1>8 DEF Second
  <2>2. timer <= since => Capped(timer) <= Capped(since)
    BY <1>1, BoardAssumption DEF Capped, LineTypes
  <2>3. QED
    BY <1>1, <2>1, <2>2 DEF CountsSilence, LineTypes, Capped
<1>9. CASE NotReceived
  BY <1>1, <1>9 DEF NotReceived, Drain, CountsSilence
<1>10. CASE \E f \in Files : Received(f)
  BY <1>1, <1>10 DEF Received, FlashStore, Drain, CountsSilence
<1>11. CASE Start \/ Restart
  BY <1>1, <1>11 DEF Start, Restart, line, ghosts, LineTypes, CountsSilence
<1>12. CASE FlashWork \/ FlashReturn
  BY <1>1, <1>12 DEF FlashWork, FlashReturn, program, line, ghosts, CountsSilence
<1>13. CASE AfterFlash
  BY <1>1, <1>13 DEF AfterFlash, BootFailed, ToMenu, line, LineTypes, CountsSilence
<1>14. QED
  BY <1>1, <1>2, <1>3, <1>4, <1>5, <1>6, <1>7, <1>8, <1>9, <1>10, <1>11, <1>12, <1>13
  DEF BoardNext, ProgramStep

\* Autoboot only starts after AUTOBOOT_DELAY seconds of silence, whatever the
\* line did before, and never after '~' or a boot that failed.
THEOREM AutobootIsSilent == BoardSpec => AutobootAfterSilence
<1> DEFINE A == pc = "menu" /\ task' = "boot" /\ rx = None
                => since >= AutobootDelay /\ ~escaped
<1>1. BoardInit => LineTypes /\ CountsSilence
  BY LineTypesInit DEF BoardInit, CountsSilence
<1>2. LineTypes /\ CountsSilence /\ [BoardNext]_bvars => (LineTypes /\ CountsSilence)'
  BY LineTypesKept, SilenceKept
<1>3. LineTypes /\ CountsSilence /\ [BoardNext]_bvars => [A]_bvars
  <2>1. SUFFICES ASSUME LineTypes, CountsSilence, [BoardNext]_bvars,
                        pc = "menu", task' = "boot", rx = None
                 PROVE  since >= AutobootDelay /\ ~escaped
    OBVIOUS
  <2>2. task = "none"
    BY <2>1 DEF CountsSilence
  <2>3. CASE Countdown
    BY <2>1, <2>3, BoardAssumption DEF Countdown, CountsSilence, LineTypes
  <2>4. CASE ~ Countdown
    BY <2>1, <2>2, <2>4
    DEF BoardNext, ProgramStep, bvars, program, Start, MenuKey, DrainChar, DrainEnd,
        AskAnswer, AskTimeout, AfterFlash, Arrive, Second, Received, NotReceived,
        FlashWork, FlashReturn, Restart
  <2>5. QED
    BY <2>3, <2>4
<1>4. BoardSpec => [][A]_bvars
  BY <1>1, <1>2, <1>3, PTL DEF BoardSpec
<1>5. QED
  BY <1>4 DEF AutobootAfterSilence

-----------------------------------------------------------------------------
(* The confirmation of an erase.                                             *)

\* A burst ends, and drain_uart reads at least as much as one may hold.
BurstsAreDrained == ~Endless /\ MaxBurst <= DrainMax

LEMMA BurstKept ==
    ASSUME BurstsAreDrained, LineTypes, DrainsBurst, [BoardNext]_bvars
    PROVE  DrainsBurst'
<1> USE DEF DrainsBurst
<1>1. CASE UNCHANGED bvars
  BY <1>1 DEF bvars, program, line, ghosts
<1>2. CASE MenuKey
  BY <1>2 DEF MenuKey, BootUboot, Drain, ToMenu, LineTypes
<1>3. CASE Countdown
  BY <1>3 DEF Countdown, BootUboot
<1>4. CASE DrainChar
  <2>1. /\ pc = "drain" /\ rx # None /\ timer < 1
        /\ rx' = None /\ drained' = drained + 1 /\ timer' = 0
        /\ UNCHANGED <<pc, task, burst, paused>>
    BY <1>4 DEF DrainChar, ghosts
  <2>2. QED
    BY <2>1 DEF LineTypes
<1>5. CASE DrainEnd
  <2>1. /\ pc = "drain"
        /\ timer >= 1 \/ drained >= DrainMax
        /\ UNCHANGED <<rx, burst, paused>>
        /\ task = "erase" => pc' = "ask"
        /\ task # "erase" => pc' = "menu"
        /\ task' = "erase" => task = "erase"
    BY <1>5 DEF DrainEnd, ToMenu, line, ghosts
  <2>2. ASSUME task = "erase" PROVE paused \/ (rx = None /\ burst >= MaxBurst)
    BY <1>5, <2>1, <2>2, BoardAssumption DEF DrainEnd, LineTypes, BurstsAreDrained
  <2>3. QED
    BY <1>5, <2>1, <2>2 DEF DrainEnd
<1>6. CASE AskAnswer
  BY <1>6 DEF AskAnswer, FlashStore, ToMenu
<1>7. CASE AskTimeout
  BY <1>7 DEF AskTimeout, ToMenu
<1>8. CASE \E k \in Keys : Arrive(k)
  <2>1. PICK k \in Keys : Arrive(k)
    BY <1>8
  <2>2. /\ UNCHANGED <<pc, task, timer, drained, paused>>
        /\ burst < MaxBurst /\ burst' = burst + 1
        /\ rx' = [key |-> k, paused |-> paused] /\ rx' # None
    BY <2>1, BoardAssumption DEF Arrive, program, LineTypes, BurstsAreDrained
  <2>3. rx'.paused = paused
    BY <2>2
  <2>4. QED
    BY <2>2, <2>3, BoardAssumption DEF LineTypes
<1>9. CASE Second
  BY <1>9 DEF Second
<1>10. CASE NotReceived \/ \E f \in Files : Received(f)
  BY <1>10 DEF NotReceived, Received, FlashStore, Drain
<1>11. CASE Start \/ Restart
  BY <1>11 DEF Start, Restart
<1>12. CASE FlashWork \/ FlashReturn
  BY <1>12 DEF FlashWork, FlashReturn, program, line, ghosts
<1>13. CASE AfterFlash
  BY <1>13 DEF AfterFlash, BootFailed, ToMenu
<1>14. QED
  BY <1>1, <1>2, <1>3, <1>4, <1>5, <1>6, <1>7, <1>8, <1>9, <1>10, <1>11, <1>12, <1>13
  DEF BoardNext, ProgramStep

\* Where drain_uart reads as much as a burst may hold, an erase starts only upon
\* a 'y' that came after a quiet second, never upon the tail of the burst that
\* held the '5'.
THEOREM EraseIsConfirmed ==
    ASSUME BurstsAreDrained
    PROVE  BoardSpec => EraseConfirmed
<1> DEFINE A == task = "erase" /\ pc = "ask" /\ task' = "erase"
                => pc' # "flash" \/ (rx.key = "y" /\ rx.paused)
<1>1. BoardInit => LineTypes /\ DrainsBurst
  BY LineTypesInit DEF BoardInit, DrainsBurst
<1>2. LineTypes /\ DrainsBurst /\ [BoardNext]_bvars => (LineTypes /\ DrainsBurst)'
  BY BurstsAreDrained, LineTypesKept, BurstKept
<1>3. LineTypes /\ DrainsBurst /\ [BoardNext]_bvars => [A]_bvars
  <2>1. SUFFICES ASSUME LineTypes, DrainsBurst, [BoardNext]_bvars,
                        task = "erase", pc = "ask", pc' = "flash"
                 PROVE  rx.key = "y" /\ rx.paused
    OBVIOUS
  <2>2. CASE AskAnswer
    BY <2>1, <2>2 DEF AskAnswer, ToMenu, DrainsBurst, LineTypes
  <2>3. CASE ~ AskAnswer
    BY <2>1, <2>3
    DEF BoardNext, ProgramStep, bvars, program, Start, MenuKey, Countdown, DrainChar,
        DrainEnd, AskTimeout, ToMenu, AfterFlash, Arrive, Second, Received,
        NotReceived, FlashWork, FlashReturn, Restart
  <2>4. QED
    BY <2>2, <2>3
<1>4. BoardSpec => [][A]_bvars
  BY <1>1, <1>2, <1>3, PTL DEF BoardSpec
<1>5. QED
  BY <1>4 DEF EraseConfirmed

-----------------------------------------------------------------------------
(* The board as a user of the storage.                                       *)

\* The storage takes every image that fits its area, an erase of everything,
\* and the reading of the u-boot area.
AreaRequests ==
    /\ \A f \in Files : Len(f.data) <= LoaderLen =>
          [addr |-> 0, len |-> Len(f.data), image |-> Cells(f.data)] \in Stores
    /\ \A f \in Files : Len(f.data) + 1 <= UbootLen =>
          [addr |-> UbootBase, len |-> Len(f.data) + 1,
           image |-> UbootImage(f.data)] \in Stores
    /\ [addr |-> 0, len |-> Total, image |-> Blank] \in Stores
    /\ [addr |-> UbootBase, len |-> UbootLen] \in Loads

\* A request the board begins is one of these, or is refused.
LEMMA StoreIsStorage ==
    ASSUME NEW t, NEW addr, NEW n, NEW img, FlashStore(t, addr, n, img),
           [addr |-> addr, len |-> n, image |-> img] \in Stores
    PROVE  StorageNext
BY DEF FlashStore, StorageNext

LEMMA BoardUses ==
    ASSUME AreaRequests, CallInv, [BoardNext]_bvars
    PROVE  [StorageNext]_svars
<1>1. CASE Quiet
  BY <1>1 DEF Quiet
<1>2. CASE Boots
  BY <1>2, AreaRequests DEF Boots, BootUboot, StorageNext, AreaRequests
<1>3. CASE StoresLoader
  <2>1. PICK f \in Files :
           /\ LoaderOk(f)
           /\ FlashStore("loader", 0, Len(f.data), Cells(f.data))
    BY <1>3 DEF StoresLoader
  <2>2. Len(f.data) <= LoaderLen
    <3>1. Len(f.data) \in Nat
      BY BoardAssumption
    <3>2. QED
      BY <2>1, <3>1, Areas DEF LoaderOk
  <2>3. QED
    BY <2>1, <2>2, AreaRequests, StoreIsStorage DEF AreaRequests
<1>4. CASE StoresUboot
  <2>1. PICK f \in Files :
           /\ UbootOk(f)
           /\ FlashStore("uboot", UbootBase, Len(f.data) + 1, UbootImage(f.data))
    BY <1>4 DEF StoresUboot
  <2>2. Len(f.data) + 1 <= UbootLen
    BY <2>1, ImageHeader, Areas DEF UbootOk, Room
  <2>3. QED
    BY <2>1, <2>2, AreaRequests, StoreIsStorage DEF AreaRequests
<1>5. CASE Erases
  BY <1>5, AreaRequests, StoreIsStorage DEF Erases, AreaRequests
<1>6. CASE Start \/ AfterFlash
  BY <1>6 DEF Start, AfterFlash, StorageNext
<1>7. CASE FlashWork
  <2>1. PICK a \in loose : \E v \in Possible(a) : content' = [content EXCEPT ![a] = v]
    BY <1>7 DEF FlashWork
  <2>2. PICK v \in Possible(a) : content' = [content EXCEPT ![a] = v]
    BY <2>1
  <2>3. DOMAIN content = Addrs
    BY DEF CallInv
  <2>4. Disturbed
    BY <2>1, <2>2, <2>3 DEF Disturbed
  <2>5. QED
    BY <1>7, <2>4 DEF FlashWork, Disturb, StorageNext
<1>8. CASE FlashReturn
  BY <1>8 DEF FlashReturn, StorageNext
<1>9. CASE Restart
  BY <1>9 DEF Restart, StorageNext
<1>10. QED
  BY <1>1, <1>2, <1>3, <1>4, <1>5, <1>6, <1>7, <1>8, <1>9, StepKinds

\* Every step of the board is one FlashStorage allows, the cuts of a reset
\* included, so that what DataFlash implements is what the board relies on.
THEOREM BoardUsesStorage == ASSUME AreaRequests PROVE BoardSpec => UsesStorage
<1>1. BoardInit => StorageInit
  BY DEF BoardInit
<1>2. CallInv /\ [BoardNext]_bvars => [StorageNext]_svars
  BY AreaRequests, BoardUses
<1>3. BoardSpec => StorageSpec
  BY <1>1, <1>2, CallAlways, PTL DEF BoardSpec, StorageSpec
<1>4. QED
  BY <1>3 DEF UsesStorage
=============================================================================
