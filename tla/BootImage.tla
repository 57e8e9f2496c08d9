----------------------------- MODULE BootImage ------------------------------
(***************************************************************************)
(* The header of the u-boot image: upload_uboot puts the length, a magic   *)
(* number and the CRC in front of what it received, and boot_uboot believes*)
(* them or not, after whatever has happened to the flash in between.  The  *)
(* loop of crc16_ccitt runs a byte per step.                               *)
(***************************************************************************)
EXTENDS Crc16

CONSTANTS
    Room,       \* DATAFLASH_UBOOT_LEN - UBOOT_HDR_SIZE
    MinLength,  \* DATAFLASH_UBOOT_MINLEN
    MinImage,   \* MIN_IMAGE_SIZE
    Files,      \* what rxmodem may deliver
    Areas,      \* what the area may hold before any upload
    Bursts,     \* runs of at most 16 damaged bits, as numbers
    Lengths     \* what a damaged length field may say

ASSUME BootImageAssumption ==
    /\ MinImage \in Nat /\ MinLength \in Nat /\ MinImage <= MinLength
    /\ Room \in Nat /\ MinLength <= Room
    /\ Bursts \subseteq 1 .. 65535

VARIABLES
    area,       \* [len, magic, crc, data] in the flash; data is Room bytes long
    pc,         \* "menu", "crc", "unpack" (it will be unpacked) or "refused"
    pos, crc,   \* the bytes gone through, and their CRC
    sent,       \* history: the payload of the last upload
    harm        \* history: what has happened to the area since

vars == <<area, pc, pos, crc, sent, harm>>

Nothing == <<>>
HdrMagic == 45311       \* 0xB0FF

Init ==
    /\ area \in Areas
    /\ pc = "menu" /\ pos = 0 /\ crc = 0
    /\ sent = Nothing /\ harm = "none"

-----------------------------------------------------------------------------
\* len > MIN_IMAGE_SIZE, no longer than the room, and "ZV".
UbootOk(file) ==
    /\ Len(file) > MinImage /\ Len(file) <= Room
    /\ file[1] = 90 /\ file[2] = 86

\* What flash_store does not write stays as it was.  One upload, a bound.
UploadUboot(file) ==
    /\ pc = "menu" /\ sent = Nothing
    /\ UbootOk(file)
    /\ area' = [len |-> Len(file), magic |-> HdrMagic, crc |-> crc16_ccitt(file),
                data |-> file \o SubSeq(area.data, Len(file) + 1, Room)]
    /\ sent' = file
    /\ UNCHANGED <<pc, pos, crc, harm>>

\* Bits of the flash turn over (external): a run of at most 16 of them in the
\* payload or in the CRC, or anything at all in the length or the magic number.
Turned(data, at, burst) ==
    LET v == burst * 2^(8 - (at % 8))
        first == (at \div 8) + 1
        Mask(k) == CASE k = first     -> v \div 65536
                     [] k = first + 1 -> (v \div 256) % 256
                     [] k = first + 2 -> v % 256
                     [] OTHER         -> 0
    IN  [k \in DOMAIN data |-> data[k] ^^ Mask(k)]
Damage ==
    /\ pc = "menu" /\ sent # Nothing /\ harm = "none"
    /\ \/ /\ \E b \in Bursts :
                 \/ \E at \in 0 .. (8 * Room - 1) :
                        area' = [area EXCEPT !.data = Turned(@, at, b)]
                 \/ area' = [area EXCEPT !.crc = @ ^^ b]
          /\ harm' = "burst"
       \/ /\ \/ \E l \in Lengths : area' = [area EXCEPT !.len = l]
             \/ area' = [area EXCEPT !.magic = 0]
          /\ harm' = "header"
    /\ UNCHANGED <<pc, pos, crc, sent>>

-----------------------------------------------------------------------------
\* Both comparisons catch a negative length.
LengthOk(l) == ~(l < MinLength \/ l > Room)

\* boot_uboot with the area in SDRAM: the magic number, then the length.
BootUboot ==
    /\ pc = "menu"
    /\ pc' = IF area.magic = HdrMagic /\ LengthOk(area.len) THEN "crc" ELSE "refused"
    /\ pos' = 0 /\ crc' = 0
    /\ UNCHANGED <<area, sent, harm>>

CrcRound ==
    /\ pc = "crc" /\ pos < area.len
    /\ pos' = pos + 1
    /\ crc' = Update(crc, area.data[pos + 1])
    /\ UNCHANGED <<area, pc, sent, harm>>

\* Mutant of CrcCompare: only the low byte is compared.
CrcCompareLow ==
    /\ pc = "crc" /\ pos = area.len
    /\ pc' = IF crc % 256 = area.crc % 256 THEN "unpack" ELSE "refused"
    /\ UNCHANGED <<area, pos, crc, sent, harm>>
CrcCompare ==
    /\ pc = "crc" /\ pos = area.len
    /\ pc' = IF crc = area.crc THEN "unpack" ELSE "refused"
    /\ UNCHANGED <<area, pos, crc, sent, harm>>

Next ==
    \/ \E file \in Files : UploadUboot(file)
    \/ Damage
    \/ BootUboot
    \/ CrcRound
    \/ CrcCompare

Spec == Init /\ [][Next]_vars

-----------------------------------------------------------------------------
\* The loop and its table of 256 numbers compute the CRC they are named for, over
\* whatever the area holds; rxmodem and upload_uboot rely on the same loop.
IsRemainder == pc = "crc" => crc = Remainder(SubSeq(area.data, 1, pos))

\* What has been uploaded is unpacked, or it is too short for u-boot; a run of up to
\* 16 bits that turned over is found out, unless it lies behind the image; whatever
\* the length field says, no more is read than the area holds.
BootJudges ==
    /\ pc = "crc" => pos <= Room
    /\ pc = "unpack" => area.len \in MinLength .. Room
    /\ pc = "unpack" /\ sent # Nothing /\ harm # "header" =>
           SubSeq(area.data, 1, area.len) = sent
    /\ pc = "refused" /\ sent # Nothing /\ harm = "none" => Len(sent) < MinLength
=============================================================================
