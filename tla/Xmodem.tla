------------------------------- MODULE Xmodem -------------------------------
(***************************************************************************)
(* rxmodem of src/xmodem.c, byte by byte, at one end of a serial line, and *)
(* an ordinary XMODEM-CRC sender, which is external, at the other.  The    *)
(* line loses and changes bytes in both directions.                        *)
(***************************************************************************)
EXTENDS Integers, Sequences

CONSTANTS
    Files,      \* what the sender may send: sequences of blocks
    Typed,      \* what may be on the line before
    BlockLen,   \* 128
    MaxLen,     \* size of the buffer, in bytes
    PidMod,     \* block numbers count modulo this; 256
    Crc(_),     \* crc16_ccitt of a block
    Noise,      \* what a byte may be changed to
    MaxFaults,  \* bound: bytes lost or changed
    MaxInvites, \* bound: answers under way when another 'C' is sent
    Retries     \* how often the sender repeats a block

SOH == 1
EOT == 4
ACK == 6
C == 67

ASSUME XmodemAssumption ==
    /\ BlockLen \in Nat \ {0} /\ MaxLen \in Nat /\ PidMod \in 2 .. 256
    /\ \A f \in Files : f \in Seq([1 .. BlockLen -> 0 .. 255])
    /\ Typed \subseteq Seq(0 .. 255)
    /\ Noise \subseteq 0 .. 255
    /\ \A f \in Files : \A k \in 1 .. Len(f) : Crc(f[k]) \in 0 .. (256 * 256 - 1)
    /\ MaxFaults \in Nat /\ MaxInvites \in Nat \ {0} /\ Retries \in Nat

VARIABLES
    \* the receiver
    pc,         \* where rxmodem waits for a byte
    mem,        \* the bytes from dest's first value on; zero before they are
                \* written
    i,          \* bytes of the block stored so far
    pid,        \* the block number that is expected
    pid1,       \* the one that was read
    len,        \* the bytes accepted
    result,     \* what rxmodem returns
    \* the line
    toBoard, fromBoard,
    faults,
    \* the sender
    file,
    spc,        \* "idle" until invited, "block" or "eot" when one is sent and
                \* not acknowledged, "done", "gone" when it has given up
    block,      \* blocks acknowledged
    tries

receiver == <<pc, mem, i, pid, pid1, len, result>>
line == <<toBoard, fromBoard, faults>>
sender == <<file, spc, block, tries>>
vars == <<receiver, line, sender>>

\* The bytes of the blocks f[1], ..., f[n].
BytesOf(f, n) ==
    [k \in 1 .. (n * BlockLen) |->
        f[((k - 1) \div BlockLen) + 1][((k - 1) % BlockLen) + 1]]
Size(f) == Len(f) * BlockLen

\* Cells of memory the model has: the buffer and what a block and its CRC could
\* reach beyond it.
Cells == 0 .. (MaxLen + BlockLen + 1)

TypeOK ==
    /\ pc \in {"flush", "wait", "soh", "pid", "npid", "data", "done"}
    /\ mem \in [Cells -> 0 .. 255]
    /\ i \in 0 .. (BlockLen + 1)
    /\ pid \in 0 .. (PidMod - 1)
    /\ pid1 \in 0 .. 255
    /\ len \in 0 .. MaxLen
    /\ result \in 0 .. MaxLen
    /\ toBoard \in Seq(0 .. 255) /\ fromBoard \in Seq({ACK, C})
    /\ faults \in 0 .. MaxFaults
    /\ file \in Files
    /\ spc \in {"idle", "block", "eot", "done", "gone"}
    /\ block \in 0 .. Len(file)
    /\ tries \in 0 .. Retries

Init ==
    /\ pc = "flush"
    /\ mem = [x \in Cells |-> 0]
    /\ i = 0 /\ pid = 1 /\ pid1 = 0 /\ len = 0 /\ result = 0
    /\ toBoard \in Typed /\ fromBoard = <<>> /\ faults = 0
    /\ file \in Files
    /\ spc = "idle" /\ block = 0 /\ tries = 0

-----------------------------------------------------------------------------
\* The receiver.

Say(x) == fromBoard' = Append(fromBoard, x)

\* while (tstc()) getc(), then the first 'C'; a byte may still be under way.
Flush ==
    /\ pc = "flush"
    /\ \/ /\ toBoard # <<>>
          /\ toBoard' = Tail(toBoard)
          /\ UNCHANGED <<pc, fromBoard>>
       \/ /\ pc' = "wait"
          /\ Say(C)
          /\ UNCHANGED toBoard
    /\ UNCHANGED <<mem, i, pid, pid1, len, result, faults, sender>>

\* Mutant of Invite: one 'C' is all.
InviteOnce == FALSE

\* A second in which nothing has arrived: another 'C', whether or not the sender
\* has read the last, and although its first byte may be under way.
Invite ==
    /\ pc = "wait" /\ Len(fromBoard) < MaxInvites
    /\ Say(C)
    /\ UNCHANGED <<receiver, toBoard, faults, sender>>

\* rxmodem returns.
Return(n) == pc' = "done" /\ result' = n

\* Mutants of ReadSoh: whatever is not a block ends the file; every end is
\* acknowledged.
ReadSohOrEnd(c) ==
    /\ pc \in {"wait", "soh"}
    /\ IF c = SOH THEN pc' = "pid" /\ UNCHANGED <<result, fromBoard>>
       ELSE Return(len) /\ Say(ACK)
    /\ UNCHANGED <<mem, i, pid, pid1, len>>
ReadSohAcksAll(c) ==
    /\ pc \in {"wait", "soh"}
    /\ IF c = SOH THEN pc' = "pid" /\ UNCHANGED <<result, fromBoard>>
       ELSE Return(IF c = EOT THEN len ELSE 0) /\ Say(ACK)
    /\ UNCHANGED <<mem, i, pid, pid1, len>>

ReadSoh(c) ==
    /\ pc \in {"wait", "soh"}
    /\ IF c = SOH THEN pc' = "pid" /\ UNCHANGED <<result, fromBoard>>
       ELSE IF c = EOT THEN Return(len) /\ Say(ACK)
       ELSE Return(0) /\ UNCHANGED fromBoard
    /\ UNCHANGED <<mem, i, pid, pid1, len>>

ReadPid(c) ==
    /\ pc = "pid"
    /\ pid1' = c
    /\ pc' = "npid"
    /\ UNCHANGED <<mem, i, pid, len, result, fromBoard>>

\* Mutants of Acceptable: any block number will do; a full buffer takes one more
\* block.
AcceptableAnyNumber(c) ==
    /\ pid1 = PidMod - 1 - c
    /\ len + BlockLen <= MaxLen
AcceptableOneMore(c) ==
    /\ pid1 = PidMod - 1 - c
    /\ pid1 = pid
    /\ len <= MaxLen
\* The block number, its complement and the room left are checked.
Acceptable(c) ==
    /\ pid1 = PidMod - 1 - c
    /\ pid1 = pid
    /\ len + BlockLen <= MaxLen

ReadNpid(c) ==
    /\ pc = "npid"
    /\ IF Acceptable(c) THEN pc' = "data" /\ i' = 0 /\ UNCHANGED result
                        ELSE Return(0) /\ UNCHANGED i
    /\ UNCHANGED <<mem, pid, pid1, len, fromBoard>>

\* The CRC of the block just stored is the one that follows it.
CrcMatches(m) ==
    Crc([k \in 1 .. BlockLen |-> m[len + k - 1]])
        = m[len + BlockLen] * 256 + m[len + BlockLen + 1]

\* Mutant of NextPid: the mask is missing.
NextPidUnmasked == pid + 1

NextPid == (pid + 1) % PidMod

\* One of BlockLen + 2 bytes is stored; after the last the CRC is compared.
ReadData(c) ==
    /\ pc = "data"
    /\ mem' = [mem EXCEPT ![len + i] = c]
    /\ IF i < BlockLen + 1
       THEN i' = i + 1 /\ UNCHANGED <<pc, pid, len, result, fromBoard>>
       ELSE /\ i' = 0
            /\ IF CrcMatches(mem')
               THEN /\ pc' = "soh"
                    /\ pid' = NextPid
                    /\ len' = len + BlockLen
                    /\ Say(ACK)
                    /\ UNCHANGED result
               ELSE Return(0) /\ UNCHANGED <<pid, len, fromBoard>>
    /\ UNCHANGED pid1

Read ==
    /\ toBoard # <<>>
    /\ LET c == Head(toBoard) IN
          ReadSoh(c) \/ ReadPid(c) \/ ReadNpid(c) \/ ReadData(c)
    /\ toBoard' = Tail(toBoard)
    /\ UNCHANGED <<faults, sender>>

\* What comes after rxmodem has returned goes to its callers.
Afterwards ==
    /\ pc = "done" /\ toBoard # <<>>
    /\ toBoard' = Tail(toBoard)
    /\ UNCHANGED <<receiver, fromBoard, faults, sender>>

-----------------------------------------------------------------------------
\* The sender.

\* Block n and its frame.
Frame(n) ==
    LET crc == Crc(file[n]) IN
    <<SOH, n % PidMod, PidMod - 1 - (n % PidMod)>> \o file[n]
        \o <<crc \div 256, crc % 256>>

\* What comes after n blocks are acknowledged is sent.
Send(n) ==
    /\ block' = n
    /\ IF n < Len(file)
       THEN spc' = "block" /\ toBoard' = toBoard \o Frame(n + 1)
       ELSE spc' = "eot" /\ toBoard' = Append(toBoard, EOT)

\* The same once more, or enough.
Again ==
    IF tries < Retries
    THEN Send(block) /\ tries' = tries + 1
    ELSE spc' = "gone" /\ UNCHANGED <<block, tries, toBoard>>

\* While nothing is acknowledged, a 'C' asks for the beginning again.
AsksAnew(x) == spc \in {"block", "eot"} /\ block = 0 /\ x = C

\* An answer arrives.
Answer ==
    /\ fromBoard # <<>>
    /\ fromBoard' = Tail(fromBoard)
    /\ LET x == Head(fromBoard) IN
       \/ spc = "idle" /\ x = C /\ Send(0) /\ tries' = 0
       \/ spc = "block" /\ x = ACK /\ Send(block + 1) /\ tries' = 0
       \/ /\ spc = "eot" /\ x = ACK
          /\ spc' = "done" /\ UNCHANGED <<block, tries, toBoard>>
       \/ AsksAnew(x) /\ Again
       \/ /\ ~(spc = "idle" /\ x = C) /\ ~(spc \in {"block", "eot"} /\ x = ACK)
          /\ ~AsksAnew(x)
          /\ UNCHANGED <<spc, block, tries, toBoard>>
    /\ UNCHANGED <<receiver, file, faults>>

\* Nothing comes for so long that nothing is under way: once more, or, for a
\* sender that is no longer invited, enough.
Timeout ==
    /\ toBoard = <<>> /\ fromBoard = <<>>
    /\ \/ spc \in {"block", "eot"} /\ Again
       \/ /\ spc = "idle" /\ pc \notin {"flush", "wait"}
          /\ spc' = "gone" /\ UNCHANGED <<block, tries, toBoard>>
    /\ UNCHANGED <<receiver, fromBoard, file, faults>>

-----------------------------------------------------------------------------
\* The line.  Each byte comes to be the next one, so it is enough to spoil that.
Spoil ==
    /\ faults < MaxFaults
    /\ faults' = faults + 1
    /\ \/ /\ toBoard # <<>>
          /\ \/ toBoard' = Tail(toBoard)
             \/ \E b \in Noise : toBoard' = <<b>> \o Tail(toBoard)
          /\ UNCHANGED fromBoard
       \/ /\ fromBoard # <<>>
          /\ fromBoard' = Tail(fromBoard)
          /\ UNCHANGED toBoard
    /\ UNCHANGED <<receiver, sender>>

-----------------------------------------------------------------------------
Next ==
    \/ Flush
    \/ Invite
    \/ Read
    \/ Afterwards
    \/ Answer
    \/ Timeout
    \/ Spoil

Spec == Init /\ [][Next]_vars

\* Both ends run and the line delivers what it does not lose: what is under way
\* arrives, however often the receiver invites meanwhile.
FairSpec == Spec /\ WF_vars(Flush \/ Read \/ Afterwards) /\ WF_vars(Invite)
                 /\ WF_vars(Answer) /\ WF_vars(Timeout)

-----------------------------------------------------------------------------
\* What has been accepted is the beginning of the file: no block is missing,
\* doubled, out of order or changed.
InOrder ==
    /\ len % BlockLen = 0 /\ len <= Size(file)
    /\ \A k \in 0 .. (len - 1) :
          mem[k] = BytesOf(file, len \div BlockLen)[k + 1]

\* A file is only taken for complete when it is not where the number of the
\* next block, or of the last if that is repeated, or the complement of the
\* number looks like an EOT to a receiver that has missed what comes before it.
\* (For up to two bytes lost, and where noise does not make an EOT by itself.)
ShortOnlyAtEot ==
    0 < result /\ result < Size(file)
        => LET n == result \div BlockLen IN
           {n % PidMod, (n + 1) % PidMod} \cap {EOT, PidMod - 1 - EOT} # {}

\* A sender that is told so has delivered the whole file.
SenderKnows == spc = "done" => result = Size(file)

\* Nothing is written beyond the buffer, although the CRC of each block is put
\* behind its data and only the data is counted: the buffers of both callers
\* (11352 and 123280 bytes) leave at least two bytes behind the last block.
NoOverflow ==
    MaxLen % BlockLen >= 2 => \A x \in Cells : x >= MaxLen => mem[x] = 0

Delivered ==
    pc = "done" /\ result \div BlockLen = Len(file) /\ spc = "done"

\* An invitation has crossed what it invites to: the sender has begun and will
\* read another 'C'.  It begins again, and rxmodem, which counts the block once it
\* has it, takes the repetition for a wrong one and refuses the upload.
Crossing == spc # "idle" /\ \E k \in DOMAIN fromBoard : fromBoard[k] = C

\* On a clean and quiet line a file that fits is received, unless an invitation
\* crosses its beginning.
CleanDelivery ==
    [](faults = 0 /\ ~Crossing /\ Len(file) <= MaxLen \div BlockLen)
        /\ toBoard = <<>>
        => <>Delivered

\* rxmodem returns, unless the sender gives up first: then it waits for ever.
ReturnsOrSenderGone == <>(pc = "done" \/ spc = "gone")
=============================================================================
