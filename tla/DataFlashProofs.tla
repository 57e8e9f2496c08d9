-------------------------- MODULE DataFlashProofs ---------------------------
(***************************************************************************)
(* Type correctness and safety of DataFlash, for every geometry, request,  *)
(* timeout and chunk size, in three parts: the arithmetic of pages; what   *)
(* holds of every call; and what the pieces of a write put where, so that  *)
(* on a sound chip a store leaves exactly the image and the neighbours'    *)
(* bytes, and whatever goes wrong it implements the storage of             *)
(* FlashStorage.                                                           *)
(***************************************************************************)
EXTENDS DataFlash, Division

-----------------------------------------------------------------------------
(* Pages. *)

LEMMA TotalNat == Total \in Nat /\ Total >= PageSize /\ Total >= 1
<1>1. 0 * PageSize + PageSize <= Pages * PageSize
  BY MultipleBelow, GeometryAssumption
<1>2. QED
  BY <1>1, GeometryAssumption DEF Total

\* An address is its page's start plus its offset in the page.
LEMMA PageOf ==
    ASSUME NEW a \in Nat
    PROVE  /\ PageBase(a) \in Nat
           /\ a % PageSize \in Offsets
           /\ a = PageBase(a) + (a % PageSize)
<1>1. /\ a \div PageSize \in Nat
      /\ a % PageSize \in Offsets
      /\ a = ((a \div PageSize) * PageSize) + (a % PageSize)
  BY DivMod, GeometryAssumption DEF Offsets
<1>2. \A k, p \in Nat : k * p \in Nat
  BY SMT
<1>3. (a \div PageSize) * PageSize \in Nat
  BY <1>1, <1>2, GeometryAssumption
<1>4. QED
  BY <1>1, <1>3 DEF PageBase

\* All cells of a page are cells of the device.
LEMMA PageFits ==
    ASSUME NEW a \in Addrs, NEW o \in Offsets
    PROVE  PageBase(a) + o \in Addrs
<1> DEFINE k == a \div PageSize
<1>1. /\ a \in Nat
      /\ k \in Nat
      /\ PageBase(a) = k * PageSize
      /\ PageBase(a) \in Nat
  BY PageOf, DivMod, TotalNat, GeometryAssumption DEF Addrs, PageBase
<1> HIDE DEF k
<1>2. k < Pages
  <2>1. SUFFICES ASSUME Pages <= k PROVE FALSE
    BY <1>1, GeometryAssumption
  <2>2. Pages * PageSize <= k * PageSize
    <3>1. CASE Pages = k
      <4>1. \A x, y \in Nat : x * y \in Nat
        BY SMT
      <4>2. QED
        BY <3>1, <4>1, <1>1, GeometryAssumption
    <3>2. CASE Pages < k
      BY <3>2, MultipleBelow, GeometryAssumption, <1>1
    <3>3. QED
      BY <3>1, <3>2, <2>1, <1>1, GeometryAssumption
  <2>3. a >= k * PageSize
    BY PageOf, <1>1, GeometryAssumption DEF Offsets
  <2>4. a < Pages * PageSize
    BY TotalNat, GeometryAssumption DEF Total, Addrs
  <2>5. QED
    BY <2>2, <2>3, <2>4, <1>1, GeometryAssumption
<1>3. k * PageSize + PageSize <= Total
  BY <1>2, <1>1, MultipleBelow, GeometryAssumption DEF Total
<1>4. QED
  BY <1>1, <1>3, TotalNat, GeometryAssumption DEF Offsets, Addrs

\* Up to the end of a's page, addresses have a's page and consecutive offsets.
LEMMA SamePage ==
    ASSUME NEW a \in Nat, NEW b \in Nat,
           a <= b, b < a + (PageSize - (a % PageSize))
    PROVE  /\ PageBase(b) = PageBase(a)
           /\ b % PageSize = (a % PageSize) + (b - a)
<1> DEFINE k == a \div PageSize
           m == b \div PageSize
<1>1. /\ a = k * PageSize + (a % PageSize)
      /\ b = m * PageSize + (b % PageSize)
      /\ k \in Nat /\ m \in Nat
      /\ a % PageSize \in 0 .. (PageSize - 1)
      /\ b % PageSize \in 0 .. (PageSize - 1)
  BY DivMod, GeometryAssumption
<1> HIDE DEF k, m
<1>2. (a % PageSize) + (b - a) \in 0 .. (PageSize - 1)
  BY <1>1, GeometryAssumption
<1>3. k * PageSize + ((a % PageSize) + (b - a)) = m * PageSize + (b % PageSize)
  BY <1>1, GeometryAssumption
<1>4. k = m /\ (a % PageSize) + (b - a) = b % PageSize
  BY <1>1, <1>2, <1>3, OneQuotient, GeometryAssumption
<1>5. QED
  BY <1>4 DEF PageBase, k, m

\* The start of a page is an address of that page.
LEMMA BaseOfBase ==
    ASSUME NEW a \in Nat
    PROVE  PageBase(PageBase(a)) = PageBase(a) /\ PageBase(a) % PageSize = 0
<1> DEFINE b == PageBase(a)
<1>1. b \in Nat /\ a = b + (a % PageSize) /\ a % PageSize \in 0 .. (PageSize - 1)
  BY PageOf DEF Offsets
<1>2. b = (a \div PageSize) * PageSize /\ a \div PageSize \in Nat
  BY DivMod, GeometryAssumption DEF PageBase
<1>3. /\ b \div PageSize \in Nat
      /\ b % PageSize \in 0 .. (PageSize - 1)
      /\ b = ((b \div PageSize) * PageSize) + (b % PageSize)
  BY <1>1, DivMod, GeometryAssumption
<1> HIDE DEF b
<1> DEFINE k == a \div PageSize
           m == b \div PageSize
<1>4. /\ b = k * PageSize
      /\ b = m * PageSize + (b % PageSize)
      /\ k \in Nat /\ m \in Nat
      /\ b % PageSize \in 0 .. (PageSize - 1)
  BY <1>2, <1>3
<1> HIDE DEF k, m
<1>5. 0 \in 0 .. (PageSize - 1) /\ k * PageSize + 0 = m * PageSize + (b % PageSize)
  BY <1>4, GeometryAssumption
<1>7. k = m /\ b % PageSize = 0
  BY <1>4, <1>5, OneQuotient, GeometryAssumption
<1>8. b % PageSize = 0 /\ PageBase(b) = b
  BY <1>7, <1>4 DEF PageBase, m
<1>9. QED
  BY <1>8 DEF b

\* The page of an address a request names is a page the request touches.
LEMMA PageTouched ==
    ASSUME NEW d \in Nat, NEW n \in Nat, NEW x \in Addrs, NEW a \in Addrs,
           d <= x, x < d + n, PageBase(a) = PageBase(x)
    PROVE  a \in Touched(d, n)
BY DEF Touched, Target

-----------------------------------------------------------------------------
(* Every call. *)

\* The job lies in the device, and at every command some of it is left.
JobFits == job.addr + job.len <= Total
Underway ==
    /\ pc \in CommandSteps => done < job.len
    /\ pc = "wait" /\ next # "r_loop" => done < job.len

TInv == TypeOK /\ JobFits /\ Underway

-----------------------------------------------------------------------------
\* The next byte, the piece and the chunk of a job under way are in range.
LEMMA InRange ==
    ASSUME TypeOK, JobFits, done < job.len
    PROVE  /\ Dest \in Addrs
           /\ Left \in 1 .. job.len
           /\ Piece(Dest, Left) \in 1 .. Left
           /\ Piece(Dest, Left) <= PageSize - (Dest % PageSize)
           /\ ReadSize(Left) \in 1 .. Left
<1>1. job.addr \in Nat /\ job.len \in Nat \ {0} /\ done \in 0 .. job.len
  BY DEF TypeOK, Jobs
<1>2. Dest \in Addrs /\ Left \in 1 .. job.len
  BY <1>1, TotalNat DEF JobFits, Dest, Left, Addrs
<1>3. Dest % PageSize \in 0 .. (PageSize - 1)
  BY <1>2, PageOf DEF Addrs, Offsets
<1> HIDE DEF Dest, Left
<1>4. /\ Piece(Dest, Left) \in 1 .. Left
      /\ Piece(Dest, Left) <= PageSize - (Dest % PageSize)
  BY <1>1, <1>2, <1>3, GeometryAssumption DEF Piece
<1>5. ReadSize(Left) \in 1 .. Left
  BY <1>1, <1>2, DataFlashAssumption DEF ReadSize
<1>6. QED
  BY <1>2, <1>4, <1>5

\* A command aimed at the device starts an operation on one of its pages.
LEMMA StartTyped ==
    ASSUME NEW kind \in OpKinds, NEW d \in Addrs, TypeOK, Start(kind, d)
    PROVE  op' \in [kind : OpKinds, base : Bases] \cup {NoOp}
<1>1. PageBase(d) \in Bases
  BY DEF Bases
<1>2. QED
  BY <1>1 DEF Start, TypeOK

\* A request that is accepted is a job that fits.
LEMMA BeginTyped ==
    ASSUME NEW kind \in {"store", "load"}, NEW rq,
           rq.addr \in Nat, rq.len \in Nat \ {0},
           NEW ram \in Ram(rq.len),
           TypeOK, Accepted(rq.addr, rq.len), Begin(kind, rq, ram)
    PROVE  /\ job' \in Jobs
           /\ job'.addr = rq.addr /\ job'.len = rq.len
           /\ done' = 0
           /\ scratch' \in Ram(job'.len)
           /\ keep' \in Ram(job'.len)
           /\ image' \in Ram(job'.len)
           /\ before' \in [Addrs -> Cell]
           /\ inherited' \in SUBSET Addrs
           /\ worn' \in BOOLEAN
           /\ JobFits'
<1>1. job' \in Jobs /\ job'.addr = rq.addr /\ job'.len = rq.len
  BY DEF Begin, Jobs
<1>2. done' = 0 /\ scratch' = ram /\ keep' = ram /\ image' = ram /\ worn' = FALSE
  BY DEF Begin
<1>3. before' \in [Addrs -> Cell]
  BY DEF Begin, TypeOK
<1>4. inherited' \in SUBSET Addrs
  BY DEF Begin, PageCells
<1>5. JobFits'
  BY <1>1, TotalNat DEF Accepted, JobFits
<1>6. QED
  BY <1>1, <1>2, <1>3, <1>4, <1>5

LEMMA WriteStepTyped ==
    \A d, n : WriteStep(d, n) \in {"p_load", "f_buf"}
BY DEF WriteStep

\* What the data phase of a buffer write leaves behind.
LEMMA WriteBufferTyped ==
    ASSUME TypeOK, JobFits, done < job.len,
           NEW n \in 0 .. Piece(Dest, Left), WriteBuffer(n)
    PROVE  buf' \in [Offsets -> Cell] /\ scratch' \in Ram(job.len)
<1>1. n \in Nat /\ n <= Left /\ Left \in Nat /\ Dest \in Nat
  BY InRange, TotalNat DEF Addrs
<1>2. done \in Nat /\ job.len \in Nat /\ done + n <= job.len
  BY <1>1 DEF TypeOK, Jobs, Left
<1>3. scratch \in Ram(job.len) /\ buf \in [Offsets -> Cell] /\ Junk \in Cell
  BY DEF TypeOK, Cell
<1>4. ASSUME NEW o \in Offsets
      PROVE  (LET i == o - (Dest % PageSize)
              IN  IF 0 <= i /\ i < n THEN scratch[done + i] ELSE buf[o]) \in Cell
  <2> DEFINE i == o - (Dest % PageSize)
  <2>1. i \in Int
    BY PageOf, <1>1, GeometryAssumption DEF Offsets
  <2> HIDE DEF i
  <2>2. 0 <= i /\ i < n => done + i \in 0 .. (job.len - 1)
    BY <2>1, <1>1, <1>2
  <2>3. (IF 0 <= i /\ i < n THEN scratch[done + i] ELSE buf[o]) \in Cell
    BY <2>2, <1>3 DEF Ram
  <2>4. QED
    BY <2>3 DEF i
<1>5. BufferAfter(n) \in [Offsets -> Cell]
  BY <1>4 DEF BufferAfter
<1>6. buf' \in [Offsets -> Cell]
  BY <1>3, <1>5 DEF WriteBuffer
<1>7. scratch' \in Ram(job.len)
  BY <1>3 DEF WriteBuffer, Ram
<1>8. QED
  BY <1>6, <1>7

\* What a continuous read leaves behind.
LEMMA ScratchAfterReadTyped ==
    ASSUME TypeOK, JobFits, NEW n \in Nat
    PROVE  ScratchAfterRead(n) \in Ram(job.len)
<1>1. scratch \in Ram(job.len) /\ Junk \in Cell /\ cells \in [Addrs -> Cell]
  BY DEF TypeOK, Cell
<1>2. job.addr \in Nat /\ job.len \in Nat \ {0}
  BY DEF TypeOK, Jobs
<1>3. \A i \in 0 .. (job.len - 1) : job.addr + i \in Addrs
  BY <1>2, TotalNat DEF JobFits, Addrs
<1>4. QED
  BY <1>1, <1>3 DEF ScratchAfterRead, Ram

\* What the operation in progress makes of a cell.
LEMMA EffectTyped ==
    ASSUME TypeOK, op.kind # "idle", NEW a \in Addrs
    PROVE  Effect(a) \in Cell
<1>1. a % PageSize \in Offsets
  BY PageOf, TotalNat DEF Addrs
<1>2. cells[a] \in Cell /\ buf[a % PageSize] \in Cell
  BY <1>1 DEF TypeOK
<1>3. Erased \in Cell /\ Junk \in Cell
  BY DEF Cell, Byte
<1>4. op.kind \in OpKinds
  BY DEF TypeOK, NoOp
<1>5. QED
  BY <1>2, <1>3, <1>4 DEF Effect, Programmed, OpKinds

LEMMA FollowTyped ==
    \A step \in PartialSteps \cup FullSteps :
        Follow(step) \in Resumptions \ {"r_loop", "r_chunk"}
<1>1. SUFFICES ASSUME NEW step \in PartialSteps \cup FullSteps
               PROVE  Follow(step) \in Resumptions \ {"r_loop", "r_chunk"}
  OBVIOUS
<1>2. \/ step = "p_load" /\ Follow(step) = "p_buf"
      \/ step = "p_buf" /\ Follow(step) \in {"p_erase", "p_pgm"}
      \/ step = "p_erase" /\ Follow(step) = "p_pgm"
      \/ step = "p_pgm" /\ Follow(step) = "advance"
      \/ step = "f_buf" /\ Follow(step) = "f_erase"
      \/ step = "f_erase" /\ Follow(step) = "f_pgm"
      \/ step = "f_pgm" /\ Follow(step) = "advance"
  BY ZenonT(60) DEF Follow, PartialSteps, FullSteps
<1>3. QED
  BY <1>2 DEF Resumptions, PartialSteps, FullSteps

\* A call that has returned is at rest.
LEMMA ReturnTyped ==
    ASSUME NEW r \in Results, Return(r)
    PROVE  /\ pc' = "idle" /\ pc' \in Steps
           /\ next' \in Resumptions
           /\ polls' \in 0 .. (MaxPolls - 1)
           /\ result' \in Results
BY DataFlashAssumption DEF Return, Steps, Resumptions

LEMMA AwaitTyped ==
    ASSUME NEW n \in Resumptions, Await(n)
    PROVE  /\ pc' = "wait" /\ pc' \in Steps
           /\ next' = n /\ next' \in Resumptions
           /\ polls' \in 0 .. (MaxPolls - 1)
BY DataFlashAssumption DEF Await, Steps

LEMMA FailureTyped == Failure \in Results
BY DEF Failure, Results

-----------------------------------------------------------------------------
\* TypeOK together with the range of the job is inductive.
LEMMA TInvInit == Init => TInv
<1>1. SUFFICES ASSUME Init PROVE TInv
  OBVIOUS
<1>2. cells \in [Addrs -> Cell]
  BY <1>1, DataFlashAssumption DEF Init
<1>3. buf \in [Offsets -> Cell] /\ keep \in Ram(1) /\ scratch \in Ram(1)
  BY <1>1 DEF Init, Cell, Ram
<1>4. job \in Jobs /\ job.len = 1 /\ job.addr = 0 /\ done \in 0 .. job.len
  BY <1>1 DEF Init, Jobs
<1>5. polls \in 0 .. (MaxPolls - 1)
  BY <1>1, DataFlashAssumption DEF Init
<1>6. TypeOK
  BY <1>1, <1>2, <1>3, <1>4, <1>5
     DEF Init, TypeOK, Steps, Resumptions, Results
<1>7. JobFits
  BY <1>4, TotalNat DEF JobFits
<1>8. Underway
  BY <1>1 DEF Init, Underway, CommandSteps, PartialSteps, FullSteps
<1>9. QED
  BY <1>6, <1>7, <1>8 DEF TInv

LEMMA TInvStep == TInv /\ [Next]_vars => TInv'
<1>1. SUFFICES ASSUME TInv, [Next]_vars PROVE TInv'
  OBVIOUS
<1>2. TypeOK /\ JobFits /\ Underway
  BY <1>1 DEF TInv
<1>3. ASSUME NEW rq \in Stores, FlashStore(rq) PROVE TInv'
  <2>1. /\ rq.addr \in Nat /\ rq.len \in Nat \ {0}
        /\ rq.image \in Ram(rq.len)
    BY DataFlashAssumption DEF Image, Ram, Cell
  <2>2. Begin("store", rq, rq.image) /\ Accepted(rq.addr, rq.len)
    BY <1>3 DEF FlashStore
  <2>3. pc' \in {"p_load", "f_buf"} /\ next' = next /\ polls' = polls
        /\ chip' = chip /\ result' = "none"
    BY <1>3, WriteStepTyped DEF FlashStore
  <2>4. TypeOK' /\ JobFits'
    BY <1>2, <2>1, <2>2, <2>3, BeginTyped
       DEF TypeOK, chip, Steps, PartialSteps, FullSteps, Results
  <2>5. Underway'
    BY <2>1, <2>2, <2>3, <1>2, BeginTyped DEF Underway
  <2>6. QED
    BY <2>4, <2>5 DEF TInv
<1>4. ASSUME NEW rq \in Loads, ReadDataflash(rq) PROVE TInv'
  <2> DEFINE ram == [i \in 0 .. (rq.len - 1) |-> Junk]
  <2>1. /\ rq.addr \in Nat /\ rq.len \in Nat \ {0}
        /\ ram \in Ram(rq.len)
    BY DataFlashAssumption DEF Ram, Cell
  <2>2. Begin("load", rq, ram) /\ Accepted(rq.addr, rq.len)
    BY <1>4 DEF ReadDataflash
  <2>3. Await("r_loop") /\ chip' = chip /\ result' = "none"
    BY <1>4 DEF ReadDataflash
  <2>4. "r_loop" \in Resumptions
    BY DEF Resumptions
  <2> HIDE DEF ram
  <2>5. TypeOK' /\ JobFits'
    BY <1>2, <2>1, <2>2, <2>3, <2>4, BeginTyped, AwaitTyped
       DEF TypeOK, chip, Results
  <2>6. Underway'
    BY <2>3, <2>4, AwaitTyped DEF Underway, CommandSteps, PartialSteps, FullSteps
  <2>7. QED
    BY <2>5, <2>6 DEF TInv
<1>5. ASSUME NEW rq, Refuse(rq) PROVE TInv'
  <2>1. result' \in Results
    BY <1>5 DEF Refuse, Results
  <2>2. QED
    BY <1>2, <1>5, <2>1
       DEF Refuse, TInv, TypeOK, JobFits, Underway, chip, history
<1>6. CASE MainMemoryToBufferTransfert
  <2>1. pc = "p_load" /\ done < job.len
    BY <1>2, <1>6 DEF MainMemoryToBufferTransfert, Underway, CommandSteps, PartialSteps
  <2>2. op' \in [kind : OpKinds, base : Bases] \cup {NoOp}
    BY <1>2, <1>6, <2>1, InRange, StartTyped
       DEF MainMemoryToBufferTransfert, OpKinds
  <2>3. Follow(pc) \in Resumptions
    BY <2>1, FollowTyped DEF PartialSteps
  <2>4. TypeOK' /\ JobFits'
    BY <1>2, <1>6, <2>2, <2>3, AwaitTyped
       DEF MainMemoryToBufferTransfert, TypeOK, JobFits, history
  <2>5. Underway'
    BY <1>6, <2>1, <2>3, AwaitTyped DEF MainMemoryToBufferTransfert,
       Underway, CommandSteps, PartialSteps, FullSteps
  <2>6. QED
    BY <2>4, <2>5 DEF TInv
<1>7. CASE DataFlashWriteBuffer
  <2>1. pc \in {"p_buf", "f_buf"} /\ done < job.len
    BY <1>2, <1>7 DEF DataFlashWriteBuffer, Underway, CommandSteps,
       PartialSteps, FullSteps
  <2>2. buf' \in [Offsets -> Cell] /\ scratch' \in Ram(job.len)
    <3>1. Piece(Dest, Left) \in 0 .. Piece(Dest, Left)
      BY <1>2, <2>1, InRange
    <3>2. QED
      BY <1>2, <1>7, <2>1, <3>1, WriteBufferTyped DEF DataFlashWriteBuffer
  <2>3. Follow(pc) \in Resumptions
    BY <2>1, FollowTyped DEF PartialSteps, FullSteps
  <2>4. TypeOK' /\ JobFits'
    BY <1>2, <1>7, <2>2, <2>3, AwaitTyped
       DEF DataFlashWriteBuffer, TypeOK, JobFits, history
  <2>5. Underway'
    BY <1>7, <2>1, <2>3, AwaitTyped DEF DataFlashWriteBuffer,
       Underway, CommandSteps, PartialSteps, FullSteps
  <2>6. QED
    BY <2>4, <2>5 DEF TInv
<1>8. CASE PageErase
  <2>1. pc \in {"p_erase", "f_erase"} /\ done < job.len
    BY <1>2, <1>8 DEF PageErase, Underway, CommandSteps, PartialSteps, FullSteps
  <2>2. op' \in [kind : OpKinds, base : Bases] \cup {NoOp}
    BY <1>2, <1>8, <2>1, InRange, StartTyped DEF PageErase, OpKinds
  <2>3. Follow(pc) \in Resumptions
    BY <2>1, FollowTyped DEF PartialSteps, FullSteps
  <2>4. TypeOK' /\ JobFits'
    BY <1>2, <1>8, <2>2, <2>3, AwaitTyped
       DEF PageErase, TypeOK, JobFits, history
  <2>5. Underway'
    BY <1>8, <2>1, <2>3, AwaitTyped DEF PageErase,
       Underway, CommandSteps, PartialSteps, FullSteps
  <2>6. QED
    BY <2>4, <2>5 DEF TInv
<1>9. CASE WriteBufferToMain
  <2>1. pc \in {"p_pgm", "f_pgm"} /\ done < job.len
    BY <1>2, <1>9 DEF WriteBufferToMain, Underway, CommandSteps,
       PartialSteps, FullSteps
  <2>2. op' \in [kind : OpKinds, base : Bases] \cup {NoOp}
    BY <1>2, <1>9, <2>1, InRange, StartTyped DEF WriteBufferToMain, OpKinds
  <2>3. Follow(pc) \in Resumptions
    BY <2>1, FollowTyped DEF PartialSteps, FullSteps
  <2>4. TypeOK' /\ JobFits'
    BY <1>2, <1>9, <2>2, <2>3, AwaitTyped
       DEF WriteBufferToMain, TypeOK, JobFits, history
  <2>5. Underway'
    BY <1>9, <2>1, <2>3, AwaitTyped DEF WriteBufferToMain,
       Underway, CommandSteps, PartialSteps, FullSteps
  <2>6. QED
    BY <2>4, <2>5 DEF TInv
<1>10. CASE ContinuousRead
  <2>1. pc = "r_chunk" /\ done < job.len
    BY <1>2, <1>10 DEF ContinuousRead, Underway, CommandSteps
  <2>2. ReadSize(Left) \in Nat /\ done + ReadSize(Left) \in 0 .. job.len
    BY <1>2, <2>1, InRange DEF TypeOK, Jobs, Left
  <2>3. scratch' \in Ram(job.len)
    BY <1>2, <1>10, <2>2, ScratchAfterReadTyped DEF ContinuousRead
  <2>4. TypeOK' /\ JobFits'
    BY <1>2, <1>10, <2>2, <2>3
       DEF ContinuousRead, TypeOK, JobFits, chip, history, Steps, ReadSteps
  <2>5. Underway'
    BY <1>10 DEF ContinuousRead, Underway, CommandSteps, PartialSteps, FullSteps
  <2>6. QED
    BY <2>4, <2>5 DEF TInv
<1>11. CASE SpiTimeout
  <2>1. pc \in CommandSteps /\ done < job.len
    BY <1>2, <1>11 DEF SpiTimeout, Underway, CommandSteps, PartialSteps, FullSteps
  <2>2. Dest \in Addrs /\ Piece(Dest, Left) \in Nat /\ ReadSize(Left) \in Nat
    BY <1>2, <2>1, InRange
  <2>3. /\ op' \in [kind : OpKinds, base : Bases] \cup {NoOp}
        /\ cells' \in [Addrs -> Cell]
        /\ buf' \in [Offsets -> Cell]
        /\ scratch' \in Ram(job.len)
    <3>1. CASE UNCHANGED <<chip, scratch>>
      BY <1>2, <3>1 DEF TypeOK, chip
    <3>2. CASE /\ \E kind \in OpKinds : Start(kind, Dest)
               /\ UNCHANGED <<cells, buf, scratch>>
      BY <1>2, <2>2, <3>2, StartTyped DEF TypeOK
    <3>3. CASE /\ \E n \in 0 .. Piece(Dest, Left) : WriteBuffer(n)
               /\ UNCHANGED <<cells, op>>
      BY <1>2, <2>1, <3>3, WriteBufferTyped DEF TypeOK
    <3>4. CASE /\ \E n \in 0 .. ReadSize(Left) : scratch' = ScratchAfterRead(n)
               /\ UNCHANGED chip
      BY <1>2, <3>4, <2>2, ScratchAfterReadTyped DEF TypeOK, chip
    <3>5. QED
      BY <1>11, <3>1, <3>2, <3>3, <3>4 DEF SpiTimeout, OpKinds
  <2>4. Return(Failure) /\ UNCHANGED <<job, done, keep, history>>
    BY <1>11 DEF SpiTimeout
  <2>5. TypeOK' /\ JobFits'
    BY <1>2, <2>3, <2>4, ReturnTyped, FailureTyped DEF TypeOK, JobFits, history
  <2>6. Underway'
    BY <2>4, ReturnTyped, FailureTyped DEF Underway, CommandSteps,
       PartialSteps, FullSteps
  <2>7. QED
    BY <2>5, <2>6 DEF TInv
<1>12. CASE PollReady
  <2>1. CASE next # "advance"
    <3>1. /\ pc' = next /\ next' = "advance" /\ polls' = 0
          /\ UNCHANGED <<chip, job, done, scratch, keep, result, history>>
      BY <1>12, <2>1 DEF PollReady, Continue
    <3>2. next \in Steps
      BY <1>2, <2>1 DEF TypeOK, Resumptions, Steps, ReadSteps
    <3>3. TypeOK' /\ JobFits'
      BY <1>2, <3>1, <3>2, DataFlashAssumption
         DEF TypeOK, JobFits, chip, history, Resumptions
    <3>4. Underway'
      BY <1>2, <1>12, <3>1 DEF PollReady, Continue, Underway, CommandSteps,
         PartialSteps, FullSteps
    <3>5. QED
      BY <3>3, <3>4 DEF TInv
  <2>2. CASE next = "advance"
    <3> DEFINE d == done + Piece(Dest, Left)
    <3>1. done < job.len
      BY <1>2, <1>12, <2>2 DEF PollReady, Continue, Underway
    <3>2. d \in 1 .. job.len
      BY <1>2, <3>1, InRange DEF TypeOK, Jobs, Left
    <3>3. UNCHANGED <<chip, job, scratch, keep, result, history>>
      BY <1>12 DEF PollReady, Continue
    <3>4. CASE d = job.len
      <4>1. done' = 0 /\ Await("r_loop")
        BY <1>12, <2>2, <3>4 DEF PollReady, Continue
      <4>2. "r_loop" \in Resumptions
        BY DEF Resumptions
      <4>3. TypeOK' /\ JobFits'
        BY <1>2, <3>3, <4>1, <4>2, AwaitTyped
           DEF TypeOK, Jobs, JobFits, chip, history
      <4>4. Underway'
        BY <4>1, <4>2, AwaitTyped DEF Underway, CommandSteps, PartialSteps, FullSteps
      <4>5. QED
        BY <4>3, <4>4 DEF TInv
    <3>5. CASE d # job.len
      <4>1. done' = d /\ pc' \in {"p_load", "f_buf"} /\ polls' = 0 /\ next' = next
        BY <1>12, <2>2, <3>5, WriteStepTyped DEF PollReady, Continue
      <4> HIDE DEF d
      <4>2. TypeOK' /\ JobFits'
        BY <1>2, <3>2, <3>3, <4>1, DataFlashAssumption
           DEF TypeOK, JobFits, chip, history, Steps, PartialSteps, FullSteps
      <4>3. Underway'
        BY <1>2, <3>2, <3>3, <3>5, <4>1 DEF Underway, TypeOK, Jobs
      <4>4. QED
        BY <4>2, <4>3 DEF TInv
    <3>6. QED
      BY <3>4, <3>5
  <2>3. QED
    BY <2>1, <2>2
<1>13. CASE PollBusy
  <2>1. CASE polls + 1 < MaxPolls
    BY <1>2, <1>13, <2>1, DataFlashAssumption
       DEF PollBusy, TInv, TypeOK, JobFits, Underway, chip, history
  <2>2. CASE ~ (polls + 1 < MaxPolls)
    <3>1. Return(Failure) /\ UNCHANGED <<chip, job, done, scratch, keep, history>>
      BY <1>13, <2>2 DEF PollBusy
    <3>2. TypeOK' /\ JobFits'
      BY <1>2, <3>1, ReturnTyped, FailureTyped DEF TypeOK, JobFits, chip, history
    <3>3. Underway'
      BY <3>1, ReturnTyped, FailureTyped DEF Underway, CommandSteps,
         PartialSteps, FullSteps
    <3>4. QED
      BY <3>2, <3>3 DEF TInv
  <2>3. QED
    BY <2>1, <2>2
<1>14. CASE ReadLoop
  <2>1. UNCHANGED <<chip, job, done, scratch, keep, history>>
    BY <1>14 DEF ReadLoop
  <2>2. CASE Left > 0
    <3>1. Await("r_chunk") /\ UNCHANGED result
      BY <1>14, <2>2 DEF ReadLoop
    <3>2. "r_chunk" \in Resumptions
      BY DEF Resumptions
    <3>3. TypeOK' /\ JobFits'
      BY <1>2, <2>1, <3>1, <3>2, AwaitTyped DEF TypeOK, JobFits, chip, history
    <3>4. done' < job'.len
      BY <1>2, <2>1, <2>2 DEF TypeOK, Jobs, Left
    <3>5. Underway'
      BY <3>4 DEF Underway
    <3>6. QED
      BY <3>3, <3>5 DEF TInv
  <2>3. CASE ~ (Left > 0) /\ job.kind = "load"
    <3>1. Return("ok") /\ "ok" \in Results
      BY <1>14, <2>3 DEF ReadLoop, Results
    <3>2. TypeOK' /\ JobFits'
      BY <1>2, <2>1, <3>1, ReturnTyped DEF TypeOK, JobFits, chip, history
    <3>3. Underway'
      BY <3>1, ReturnTyped DEF Underway, CommandSteps, PartialSteps, FullSteps
    <3>4. QED
      BY <3>2, <3>3 DEF TInv
  <2>4. CASE ~ (Left > 0) /\ job.kind # "load"
    <3>1. pc' = "compare" /\ UNCHANGED <<next, polls, result>>
      BY <1>14, <2>4 DEF ReadLoop
    <3>2. QED
      BY <1>2, <2>1, <3>1 DEF TInv, TypeOK, JobFits, Underway, chip, history,
         Steps, ReadSteps, CommandSteps, PartialSteps, FullSteps
  <2>5. QED
    BY <2>2, <2>3, <2>4
<1>15. CASE Compare
  <2>1. \E r \in Results : Return(r)
    BY <1>15 DEF Compare, Results
  <2>2. UNCHANGED <<chip, job, done, scratch, keep, history>>
    BY <1>15 DEF Compare
  <2>3. TypeOK' /\ JobFits'
    BY <1>2, <2>1, <2>2, ReturnTyped DEF TypeOK, JobFits, chip, history
  <2>4. Underway'
    BY <2>1, ReturnTyped DEF Underway, CommandSteps, PartialSteps, FullSteps
  <2>5. QED
    BY <2>3, <2>4 DEF TInv
<1>16. CASE ChipDone
  <2>1. op.kind # "idle" /\ op' = NoOp /\ UNCHANGED <<driver, history>>
    BY <1>16 DEF ChipDone
  <2>2. cells' \in [Addrs -> Cell]
    <3>1. \A a \in Addrs : Effect(a) \in Cell /\ cells[a] \in Cell
      BY <1>2, <2>1, EffectTyped DEF TypeOK
    <3>2. QED
      BY <1>16, <3>1 DEF ChipDone
  <2>3. buf' \in [Offsets -> Cell]
    <3>1. op.base \in Bases
      BY <1>2, <2>1 DEF TypeOK, NoOp
    <3>2. \A o \in Offsets : op.base + o \in Addrs
      BY <3>1, PageFits DEF Bases
    <3>3. [o \in Offsets |-> cells[op.base + o]] \in [Offsets -> Cell]
      BY <1>2, <3>2 DEF TypeOK
    <3>4. QED
      BY <1>2, <1>16, <3>3 DEF ChipDone, TypeOK
  <2>4. QED
    BY <1>2, <2>1, <2>2, <2>3
       DEF TInv, TypeOK, JobFits, Underway, driver, history
<1>17. CASE ChipDoneBad
  <2>1. /\ op.kind \in OpKinds /\ op' = NoOp /\ worn' = TRUE
        /\ UNCHANGED <<buf, driver, image, before, inherited>>
    BY <1>17 DEF ChipDoneBad
  <2>2. cells' \in [Addrs -> Cell]
    <3>1. \A a \in Addrs : Effect(a) \in Cell /\ cells[a] \in Cell /\ Junk \in Cell
      BY <1>2, <2>1, EffectTyped DEF TypeOK, OpKinds, Cell
    <3>2. QED
      BY <1>17, <3>1 DEF ChipDoneBad
  <2>3. QED
    BY <1>2, <2>1, <2>2 DEF TInv, TypeOK, JobFits, Underway, driver
<1>18. CASE CpuReset
  <2>1. Return("none") /\ "none" \in Results
        /\ UNCHANGED <<chip, job, done, scratch, keep, history>>
    BY <1>18 DEF CpuReset, Results
  <2>2. TypeOK' /\ JobFits'
    BY <1>2, <2>1, ReturnTyped DEF TypeOK, JobFits, chip, history
  <2>3. Underway'
    BY <2>1, ReturnTyped DEF Underway, CommandSteps, PartialSteps, FullSteps
  <2>4. QED
    BY <2>2, <2>3 DEF TInv
<1>19. CASE PowerLoss
  <2>1. /\ Return("none") /\ "none" \in Results
        /\ op' = NoOp
        /\ UNCHANGED <<job, done, scratch, keep, history>>
    BY <1>19 DEF PowerLoss, Results
  <2>2. cells' \in [Addrs -> Cell] /\ buf' \in [Offsets -> Cell]
    BY <1>2, <1>19 DEF PowerLoss, TypeOK, Cell
  <2>3. TypeOK' /\ JobFits'
    BY <1>2, <2>1, <2>2, ReturnTyped DEF TypeOK, JobFits, history
  <2>4. Underway'
    BY <2>1, ReturnTyped DEF Underway, CommandSteps, PartialSteps, FullSteps
  <2>5. QED
    BY <2>3, <2>4 DEF TInv
<1>20. CASE UNCHANGED vars
  BY <1>2, <1>20 DEF TInv, TypeOK, JobFits, Underway, vars, chip, driver, history
<1>21. QED
  BY <1>1, <1>3, <1>4, <1>5, <1>6, <1>7, <1>8, <1>9, <1>10, <1>11, <1>12,
     <1>13, <1>14, <1>15, <1>16, <1>17, <1>18, <1>19, <1>20
     DEF Next, DriverStep

\* Every variable keeps its type, and the job under way stays in the device.
THEOREM TypeCorrect == Spec => []TypeOK
<1>1. TInv => TypeOK
  BY DEF TInv
<1>2. QED
  BY TInvInit, TInvStep, <1>1, PTL DEF Spec

-----------------------------------------------------------------------------
(***************************************************************************)
(* Safety.  Why a reported success is the truth: while the read-back runs  *)
(* the chip is idle, so what has been read stays what the chip holds; the  *)
(* comparison is with an untouched copy; and after "ok" nothing is under   *)
(* way that could still change a cell.                                     *)
(***************************************************************************)

Copied == keep = image

ReadBack ==
    /\ Label \in ReadSteps =>
          \A i \in 0 .. (done - 1) : scratch[i] = cells[job.addr + i]
    /\ pc = "wait" /\ next = "r_loop" => done = 0
    /\ \/ pc \in ReadSteps
       \/ pc = "wait" /\ next = "r_chunk"
       => op.kind = "idle"
    /\ pc = "compare" => done = job.len /\ job.kind = "store"

AtRest == result = "ok" => pc = "idle" /\ op.kind = "idle"

\* The page the chip works on is one of the job's, or was left to it busy.
Placed == op.kind # "idle" => PageCells(op.base) \subseteq JobTouched \cup inherited

SInv ==
    /\ Copied
    /\ ReadBack
    /\ AtRest
    /\ CommandsWhenReady
    /\ VerifiedStored
    /\ LoadedFaithfully
    /\ Placed
    /\ Confined

\* A page of the next byte's address is touched by the job.
LEMMA DestTouched ==
    ASSUME TypeOK, JobFits, done < job.len
    PROVE  PageCells(PageBase(Dest)) \subseteq JobTouched
<1>1. Dest \in Addrs
  BY InRange
<1>2. /\ job.addr \in Nat /\ job.len \in Nat
      /\ job.addr <= Dest /\ Dest < job.addr + job.len
  BY DEF TypeOK, Jobs, Dest
<1>3. ASSUME NEW a \in PageCells(PageBase(Dest))
      PROVE  a \in JobTouched
  <2>1. a \in Addrs /\ PageBase(a) = PageBase(Dest)
    BY DEF PageCells
  <2>2. QED
    BY <1>1, <1>2, <2>1, PageTouched DEF JobTouched
<1>4. QED
  BY <1>3

\* A command puts the chip to work on one of the job's pages only.
LEMMA StartPlaced ==
    ASSUME TypeOK, JobFits, done < job.len, Placed,
           NEW kind, Start(kind, Dest), UNCHANGED <<job, inherited>>
    PROVE  Placed'
<1>1. CASE op.kind = "idle"
  <2>1. op'.base = PageBase(Dest)
    BY <1>1 DEF Start
  <2>2. PageCells(PageBase(Dest)) \subseteq JobTouched
    BY DestTouched
  <2>3. PageCells(op'.base) \subseteq JobTouched'
    BY <2>1, <2>2 DEF JobTouched
  <2>4. QED
    BY <2>3 DEF Placed
<1>2. CASE op.kind # "idle"
  BY <1>2 DEF Start, Placed, JobTouched
<1>3. QED
  BY <1>1, <1>2

\* A step that leaves the cells and the job alone keeps Confined.
LEMMA ConfinedKept ==
    ASSUME Confined, UNCHANGED <<cells, job, before, inherited>>
    PROVE  Confined'
BY DEF Confined, JobTouched

\* The operation in progress changes cells of its page only.
LEMMA ConfinedByPage ==
    ASSUME Confined, Placed, op.kind # "idle",
           UNCHANGED <<job, before, inherited>>,
           \A a \in Addrs : PageBase(a) # op.base => cells'[a] = cells[a]
    PROVE  Confined'
<1>1. SUFFICES ASSUME NEW a \in Addrs \ (JobTouched \cup inherited)
               PROVE  cells'[a] = before[a]
  BY DEF Confined, JobTouched
<1>2. a \notin PageCells(op.base)
  BY DEF Placed
<1>3. PageBase(a) # op.base
  BY <1>2 DEF PageCells
<1>4. QED
  BY <1>3 DEF Confined

\* A call that fails, or is cut off, establishes what SInv says of results.
LEMMA Failed ==
    ASSUME NEW r, r # "ok", Return(r)
    PROVE  ReadBack' /\ AtRest' /\ CommandsWhenReady' /\ VerifiedStored'
           /\ LoadedFaithfully'
BY DEF Return, ReadBack, Label, AtRest, CommandsWhenReady, VerifiedStored,
   Stored, LoadedFaithfully, ReadSteps, CommandSteps, PartialSteps, FullSteps

LEMMA FailureIsNotOk == Failure # "ok"
BY DEF Failure

\* A command of the writing phase, when it is over, leaves WaitReady to run.
LEMMA Commanded ==
    ASSUME AtRest, pc \in PartialSteps \cup FullSteps, Await(Follow(pc)),
           result' = result
    PROVE  ReadBack' /\ AtRest' /\ CommandsWhenReady' /\ VerifiedStored'
           /\ LoadedFaithfully'
<1>1. pc' = "wait" /\ next' \in Resumptions \ {"r_loop", "r_chunk"}
  BY FollowTyped DEF Await
<1>2. next' \notin ReadSteps
  BY <1>1 DEF Resumptions, ReadSteps, PartialSteps, FullSteps
<1>3. result' # "ok"
  BY DEF AtRest, PartialSteps, FullSteps
<1>4. ReadBack' /\ CommandsWhenReady'
  BY <1>1, <1>2 DEF ReadBack, Label, CommandsWhenReady, ReadSteps,
     CommandSteps, PartialSteps, FullSteps
<1>5. AtRest' /\ VerifiedStored' /\ LoadedFaithfully'
  BY <1>3 DEF AtRest, VerifiedStored, Stored, LoadedFaithfully
<1>6. QED
  BY <1>4, <1>5

LEMMA SInvInit == Init => SInv
<1>1. SUFFICES ASSUME Init PROVE SInv
  OBVIOUS
<1>2. pc = "idle" /\ op = NoOp /\ result = "none" /\ image = keep /\ before = cells
  BY <1>1 DEF Init
<1>3. ReadBack /\ CommandsWhenReady
  BY <1>2 DEF ReadBack, Label, CommandsWhenReady, ReadSteps, CommandSteps,
     PartialSteps, FullSteps
<1>4. QED
  BY <1>2, <1>3 DEF SInv, Copied, AtRest, VerifiedStored, Stored,
     LoadedFaithfully, Placed, Confined, NoOp

LEMMA SInvStep == TInv /\ SInv /\ [Next]_vars => SInv'
<1>1. SUFFICES ASSUME TInv, SInv, [Next]_vars PROVE SInv'
  OBVIOUS
<1>2. TypeOK /\ JobFits /\ Underway
  BY <1>1 DEF TInv
<1>3. /\ Copied /\ ReadBack /\ AtRest /\ CommandsWhenReady
      /\ VerifiedStored /\ LoadedFaithfully /\ Placed /\ Confined
  BY <1>1 DEF SInv
<1>4. ASSUME NEW kind, NEW rq, NEW ram, Begin(kind, rq, ram),
             chip' = chip
      PROVE  Copied' /\ Placed' /\ Confined'
  <2>1. /\ keep' = image'
        /\ before' = cells' /\ op' = op
        /\ inherited' = IF op.kind = "idle" THEN {} ELSE PageCells(op.base)
    BY <1>4 DEF Begin, chip
  <2>2. QED
    BY <2>1 DEF Copied, Placed, Confined
<1>5. ASSUME NEW rq \in Stores, FlashStore(rq) PROVE SInv'
  <2>1. /\ Begin("store", rq, rq.image) /\ chip' = chip
        /\ pc' \in {"p_load", "f_buf"} /\ done' = 0 /\ result' = "none"
    BY <1>5, WriteStepTyped DEF FlashStore, Begin
  <2>2. ReadBack' /\ CommandsWhenReady' /\ AtRest' /\ VerifiedStored'
        /\ LoadedFaithfully'
    BY <2>1 DEF ReadBack, Label, CommandsWhenReady, AtRest, VerifiedStored,
       Stored, LoadedFaithfully, ReadSteps
  <2>3. QED
    BY <1>4, <2>1, <2>2 DEF SInv
<1>6. ASSUME NEW rq \in Loads, ReadDataflash(rq) PROVE SInv'
  <2> DEFINE ram == [i \in 0 .. (rq.len - 1) |-> Junk]
  <2>1. /\ Begin("load", rq, ram) /\ chip' = chip
        /\ pc' = "wait" /\ next' = "r_loop" /\ result' = "none"
    BY <1>6 DEF ReadDataflash, Await
  <2>2. done' = 0
    BY <2>1 DEF Begin
  <2>3. ReadBack' /\ CommandsWhenReady' /\ AtRest' /\ VerifiedStored'
        /\ LoadedFaithfully'
    BY <2>1, <2>2 DEF ReadBack, Label, CommandsWhenReady, AtRest,
       VerifiedStored, Stored, LoadedFaithfully, ReadSteps, CommandSteps,
       PartialSteps, FullSteps
  <2>4. QED
    BY <1>4, <2>1, <2>3 DEF SInv
<1>7. ASSUME NEW rq, Refuse(rq) PROVE SInv'
  <2>1. /\ result' # "ok"
        /\ UNCHANGED <<chip, pc, next, polls, job, done, scratch, keep, history>>
    BY <1>7 DEF Refuse
  <2>2. QED
    BY <1>3, <2>1 DEF SInv, Copied, ReadBack, Label, AtRest, CommandsWhenReady,
       VerifiedStored, Stored, LoadedFaithfully, Placed, Confined, JobTouched,
       chip, history
<1>8. CASE MainMemoryToBufferTransfert
  <2>1. /\ pc = "p_load" /\ Start("load", Dest) /\ Await(Follow(pc))
        /\ UNCHANGED <<cells, buf, job, done, scratch, keep, result, history>>
    BY <1>8 DEF MainMemoryToBufferTransfert
  <2>2. pc \in PartialSteps \cup FullSteps /\ done < job.len
    BY <1>2, <2>1 DEF Underway, CommandSteps, PartialSteps
  <2>3. Copied' /\ Placed' /\ Confined'
    BY <1>2, <1>3, <2>1, <2>2, StartPlaced, ConfinedKept DEF Copied, history
  <2>4. QED
    BY <1>3, <2>1, <2>2, <2>3, Commanded DEF SInv
<1>9. CASE DataFlashWriteBuffer
  <2>1. /\ pc \in {"p_buf", "f_buf"} /\ Await(Follow(pc))
        /\ UNCHANGED <<cells, op, job, done, keep, result, history>>
    BY <1>9 DEF DataFlashWriteBuffer
  <2>2. pc \in PartialSteps \cup FullSteps
    BY <2>1 DEF PartialSteps, FullSteps
  <2>3. Copied' /\ Placed' /\ Confined'
    BY <1>3, <2>1, ConfinedKept DEF Copied, Placed, JobTouched, history
  <2>4. QED
    BY <1>3, <2>1, <2>2, <2>3, Commanded DEF SInv
<1>10. CASE PageErase
  <2>1. /\ pc \in {"p_erase", "f_erase"} /\ Start("erase", Dest)
        /\ Await(Follow(pc))
        /\ UNCHANGED <<cells, buf, job, done, scratch, keep, result, history>>
    BY <1>10 DEF PageErase
  <2>2. pc \in PartialSteps \cup FullSteps /\ done < job.len
    BY <1>2, <2>1 DEF Underway, CommandSteps, PartialSteps, FullSteps
  <2>3. Copied' /\ Placed' /\ Confined'
    BY <1>2, <1>3, <2>1, <2>2, StartPlaced, ConfinedKept DEF Copied, history
  <2>4. QED
    BY <1>3, <2>1, <2>2, <2>3, Commanded DEF SInv
<1>11. CASE WriteBufferToMain
  <2>1. /\ pc \in {"p_pgm", "f_pgm"} /\ \E kind \in OpKinds : Start(kind, Dest)
        /\ Await(Follow(pc))
        /\ UNCHANGED <<cells, buf, job, done, scratch, keep, result, history>>
    BY <1>11 DEF WriteBufferToMain, OpKinds
  <2>2. pc \in PartialSteps \cup FullSteps /\ done < job.len
    BY <1>2, <2>1 DEF Underway, CommandSteps, PartialSteps, FullSteps
  <2>3. Copied' /\ Placed' /\ Confined'
    BY <1>2, <1>3, <2>1, <2>2, StartPlaced, ConfinedKept DEF Copied, history
  <2>4. QED
    BY <1>3, <2>1, <2>2, <2>3, Commanded DEF SInv
<1>12. CASE ContinuousRead
  <2> DEFINE n == ReadSize(Left)
  <2>1. /\ pc = "r_chunk" /\ pc' = "r_loop"
        /\ scratch' = ScratchAfterRead(n) /\ done' = done + n
        /\ UNCHANGED <<chip, next, polls, job, keep, result, history>>
    BY <1>12 DEF ContinuousRead
  <2>2. op.kind = "idle"
    BY <1>3, <2>1 DEF ReadBack, ReadSteps
  <2>3. n \in Nat /\ done \in Nat /\ done + n <= job.len /\ job.len \in Nat
    BY <1>2, <2>1, InRange DEF Underway, CommandSteps, TypeOK, Jobs, Left
  <2>4. scratch \in [0 .. (job.len - 1) -> Cell]
    BY <1>2 DEF TypeOK, Ram
  <2>5. \A i \in 0 .. (done - 1) : scratch[i] = cells[job.addr + i]
    BY <1>3, <2>1 DEF ReadBack, Label, ReadSteps
  <2> HIDE DEF n
  <2>6. ASSUME NEW i \in 0 .. (done + n - 1)
        PROVE  scratch'[i] = cells[job.addr + i]
    <3>1. i \in DOMAIN scratch
      BY <2>3, <2>4, <2>6
    <3>2. scratch'[i] = IF done <= i /\ i < done + n
                        THEN cells[job.addr + i] ELSE scratch[i]
      BY <2>1, <2>2, <3>1 DEF ScratchAfterRead
    <3>3. QED
      BY <2>3, <2>5, <2>6, <3>2
  <2>7. ReadBack'
    <3>0. cells' = cells /\ job' = job /\ done' = done + n
      BY <2>1 DEF chip
    <3>1. \A i \in 0 .. (done' - 1) : scratch'[i] = cells'[job'.addr + i]
      BY <2>3, <2>6, <3>0
    <3>2. pc' = "r_loop" /\ op'.kind = "idle"
      BY <2>1, <2>2 DEF chip
    <3>3. QED
      BY <3>1, <3>2 DEF ReadBack, Label
  <2>8. AtRest' /\ VerifiedStored' /\ LoadedFaithfully' /\ CommandsWhenReady'
    BY <1>3, <2>1 DEF AtRest, VerifiedStored, Stored, LoadedFaithfully,
       CommandsWhenReady, CommandSteps, PartialSteps, FullSteps
  <2>9. Copied' /\ Placed' /\ Confined'
    BY <1>3, <2>1, ConfinedKept DEF Copied, Placed, JobTouched, chip, history
  <2>10. QED
    BY <2>7, <2>8, <2>9 DEF SInv
<1>13. CASE SpiTimeout
  <2>1. pc \in CommandSteps /\ done < job.len
    BY <1>2, <1>13 DEF SpiTimeout, Underway, CommandSteps, PartialSteps, FullSteps
  <2>2. Return(Failure) /\ UNCHANGED <<job, done, keep, history>>
    BY <1>13 DEF SpiTimeout
  <2>3. /\ cells' = cells
        /\ op' = op \/ \E kind \in OpKinds : Start(kind, Dest)
    BY <1>13 DEF SpiTimeout, OpKinds, chip
  <2>4. Placed'
    BY <1>2, <1>3, <2>1, <2>2, <2>3, StartPlaced DEF history, Placed, JobTouched
  <2>5. Copied' /\ Confined'
    BY <1>3, <2>2, <2>3, ConfinedKept DEF Copied, history
  <2>6. QED
    BY <2>2, <2>4, <2>5, Failed, FailureIsNotOk DEF SInv
<1>14. CASE PollReady
  <2>1. /\ pc = "wait" /\ op.kind = "idle"
        /\ UNCHANGED <<chip, job, scratch, keep, result, history>>
    BY <1>14 DEF PollReady, Continue
  <2>2. Copied' /\ Placed' /\ Confined'
    BY <1>3, <2>1, ConfinedKept DEF Copied, Placed, JobTouched, chip, history
  <2>3. AtRest' /\ VerifiedStored' /\ LoadedFaithfully'
    BY <1>3, <2>1 DEF AtRest, VerifiedStored, Stored, LoadedFaithfully
  <2>4. CommandsWhenReady'
    BY <2>1 DEF CommandsWhenReady, chip
  <2>5. ReadBack'
    <3>1. CASE next # "advance"
      <4>1. pc' = next /\ done' = done
        BY <1>14, <3>1 DEF PollReady, Continue
      <4>2. pc' # "compare" /\ pc' # "wait"
        BY <1>2, <4>1 DEF TypeOK, Resumptions, PartialSteps, FullSteps
      <4>3. QED
        BY <1>3, <2>1, <4>1, <4>2 DEF ReadBack, Label, chip
    <3>2. CASE next = "advance"
      <4>1. \/ pc' = "wait" /\ next' = "r_loop" /\ done' = 0
            \/ pc' \in {"p_load", "f_buf"}
        BY <1>14, <3>2, WriteStepTyped DEF PollReady, Continue, Await
      <4>2. QED
        BY <2>1, <4>1 DEF ReadBack, Label, ReadSteps
    <3>3. QED
      BY <3>1, <3>2
  <2>6. QED
    BY <2>2, <2>3, <2>4, <2>5 DEF SInv
<1>15. CASE PollBusy
  <2>1. UNCHANGED <<chip, job, done, scratch, keep, history>>
    BY <1>15 DEF PollBusy
  <2>2. Copied' /\ Placed' /\ Confined'
    BY <1>3, <2>1, ConfinedKept DEF Copied, Placed, JobTouched, chip, history
  <2>3. CASE UNCHANGED <<pc, next, result>>
    BY <1>3, <2>1, <2>2, <2>3 DEF SInv, ReadBack, Label, AtRest,
       CommandsWhenReady, VerifiedStored, Stored, LoadedFaithfully, chip, history
  <2>4. CASE Return(Failure)
    BY <2>2, <2>4, Failed, FailureIsNotOk DEF SInv
  <2>5. QED
    BY <1>15, <2>3, <2>4 DEF PollBusy
<1>16. CASE ReadLoop
  <2>1. pc = "r_loop" /\ UNCHANGED <<chip, job, done, scratch, keep, history>>
    BY <1>16 DEF ReadLoop
  <2>2. Copied' /\ Placed' /\ Confined'
    BY <1>3, <2>1, ConfinedKept DEF Copied, Placed, JobTouched, chip, history
  <2>3. /\ op.kind = "idle"
        /\ \A i \in 0 .. (done - 1) : scratch[i] = cells[job.addr + i]
    BY <1>3, <2>1 DEF ReadBack, Label, ReadSteps
  <2>4. result # "ok"
    BY <1>3, <2>1 DEF AtRest
  <2>5. CASE Left > 0
    <3>1. pc' = "wait" /\ next' = "r_chunk" /\ result' = result
      BY <1>16, <2>5 DEF ReadLoop, Await
    <3>2. ReadBack' /\ CommandsWhenReady'
      BY <2>1, <2>3, <3>1 DEF ReadBack, Label, ReadSteps, CommandsWhenReady,
         CommandSteps, PartialSteps, FullSteps, chip
    <3>3. AtRest' /\ VerifiedStored' /\ LoadedFaithfully'
      BY <2>4, <3>1 DEF AtRest, VerifiedStored, Stored, LoadedFaithfully
    <3>4. QED
      BY <2>2, <3>2, <3>3 DEF SInv
  <2>6. CASE ~ (Left > 0)
    <3>1. done = job.len
      BY <1>2, <2>6 DEF TypeOK, Jobs, Left
    <3>2. CASE job.kind = "load"
      <4>1. pc' = "idle" /\ result' = "ok"
        BY <1>16, <2>6, <3>2 DEF ReadLoop, Return
      <4>2. ReadBack' /\ AtRest' /\ CommandsWhenReady' /\ VerifiedStored'
        BY <2>1, <2>3, <3>2, <4>1 DEF ReadBack, Label, AtRest,
           CommandsWhenReady, VerifiedStored, Stored, ReadSteps, CommandSteps,
           PartialSteps, FullSteps, chip
      <4>3. LoadedFaithfully'
        BY <2>1, <2>3, <3>1 DEF LoadedFaithfully, chip
      <4>4. QED
        BY <2>2, <4>2, <4>3 DEF SInv
    <3>3. CASE job.kind # "load"
      <4>1. pc' = "compare" /\ result' = result
        BY <1>16, <2>6, <3>3 DEF ReadLoop
      <4>2. job.kind = "store"
        BY <1>2, <3>3 DEF TypeOK, Jobs
      <4>3. ReadBack' /\ CommandsWhenReady'
        BY <2>1, <2>3, <3>1, <4>1, <4>2 DEF ReadBack, Label,
           CommandsWhenReady, ReadSteps, CommandSteps, PartialSteps, FullSteps, chip
      <4>4. AtRest' /\ VerifiedStored' /\ LoadedFaithfully'
        BY <2>4, <4>1 DEF AtRest, VerifiedStored, Stored, LoadedFaithfully
      <4>5. QED
        BY <2>2, <4>3, <4>4 DEF SInv
    <3>4. QED
      BY <3>2, <3>3
  <2>7. QED
    BY <2>5, <2>6
<1>17. CASE Compare
  <2>1. pc = "compare" /\ UNCHANGED <<chip, job, done, scratch, keep, history>>
    BY <1>17 DEF Compare
  <2>2. Copied' /\ Placed' /\ Confined'
    BY <1>3, <2>1, ConfinedKept DEF Copied, Placed, JobTouched, chip, history
  <2>3. /\ op.kind = "idle" /\ done = job.len /\ job.kind = "store"
        /\ \A i \in 0 .. (done - 1) : scratch[i] = cells[job.addr + i]
    BY <1>3, <2>1 DEF ReadBack, Label, ReadSteps
  <2>4. CASE scratch = keep
    <3>1. Return("ok")
      BY <1>17, <2>4 DEF Compare
    <3>2. VerifiedStored'
      BY <1>3, <2>1, <2>3, <2>4 DEF VerifiedStored, Copied, chip, history
    <3>3. ReadBack' /\ AtRest' /\ CommandsWhenReady' /\ LoadedFaithfully'
      BY <2>1, <2>3, <3>1 DEF Return, ReadBack, Label, AtRest,
         CommandsWhenReady, LoadedFaithfully, ReadSteps, CommandSteps,
         PartialSteps, FullSteps, chip
    <3>4. QED
      BY <2>2, <3>2, <3>3 DEF SInv
  <2>5. CASE scratch # keep
    <3>1. Return("verifyfail")
      BY <1>17, <2>5 DEF Compare
    <3>2. QED
      BY <2>2, <3>1, Failed DEF SInv
  <2>6. QED
    BY <2>4, <2>5
<1>18. ASSUME op.kind # "idle", op' = NoOp, UNCHANGED driver,
              UNCHANGED <<image, before, inherited>>,
              \A a \in Addrs : PageBase(a) # op.base => cells'[a] = cells[a]
       PROVE  SInv'
  <2>1. result # "ok" /\ pc \notin ReadSteps
        /\ (pc = "wait" => next # "r_chunk")
    BY <1>3, <1>18 DEF AtRest, ReadBack
  <2>2. Confined'
    BY <1>3, <1>18, ConfinedByPage DEF driver
  <2>3. Copied' /\ Placed' /\ AtRest' /\ VerifiedStored' /\ LoadedFaithfully'
        /\ CommandsWhenReady'
    BY <1>3, <1>18, <2>1 DEF Copied, Placed, AtRest, VerifiedStored, Stored,
       LoadedFaithfully, CommandsWhenReady, NoOp, driver
  <2>4. ReadBack'
    <3>1. Label' \in ReadSteps => pc = "wait" /\ next = "r_loop"
      BY <1>2, <1>18, <2>1 DEF Label, driver, ReadSteps, TypeOK, Resumptions,
         PartialSteps, FullSteps
    <3>2. QED
      BY <1>3, <1>18, <2>1, <3>1 DEF ReadBack, NoOp, driver
  <2>5. QED
    BY <2>2, <2>3, <2>4 DEF SInv
<1>19. CASE ChipDone
  <2>1. \A a \in Addrs : PageBase(a) # op.base => cells'[a] = cells[a]
    BY <1>19 DEF ChipDone
  <2>2. QED
    BY <1>18, <1>19, <2>1 DEF ChipDone, history
<1>20. CASE ChipDoneBad
  <2>1. \A a \in Addrs : PageBase(a) # op.base => cells'[a] = cells[a]
    BY <1>20 DEF ChipDoneBad, PageCells
  <2>2. op.kind # "idle"
    BY <1>20 DEF ChipDoneBad, OpKinds
  <2>3. QED
    BY <1>18, <1>20, <2>1, <2>2 DEF ChipDoneBad
<1>21. CASE CpuReset
  <2>1. Return("none") /\ UNCHANGED <<chip, job, done, scratch, keep, history>>
    BY <1>21 DEF CpuReset
  <2>2. Copied' /\ Placed' /\ Confined'
    BY <1>3, <2>1, ConfinedKept DEF Copied, Placed, JobTouched, chip, history
  <2>3. QED
    BY <2>1, <2>2, Failed DEF SInv
<1>22. CASE PowerLoss
  <2>1. /\ Return("none") /\ op' = NoOp
        /\ UNCHANGED <<job, done, scratch, keep, history>>
    BY <1>22 DEF PowerLoss
  <2>2. Copied' /\ Placed'
    BY <1>3, <2>1 DEF Copied, Placed, NoOp, history
  <2>3. Confined'
    <3>1. CASE op.kind = "idle"
      <4>1. \A a \in Addrs : cells'[a] = cells[a]
        BY <1>22, <3>1 DEF PowerLoss, OpKinds
      <4>2. QED
        BY <1>3, <2>1, <4>1 DEF Confined, JobTouched, history
    <3>2. CASE op.kind # "idle"
      <4>1. \A a \in Addrs : PageBase(a) # op.base => cells'[a] = cells[a]
        BY <1>22 DEF PowerLoss
      <4>2. QED
        BY <1>3, <2>1, <3>2, <4>1, ConfinedByPage DEF history
    <3>3. QED
      BY <3>1, <3>2
  <2>4. QED
    BY <2>1, <2>2, <2>3, Failed DEF SInv
<1>23. CASE UNCHANGED vars
  BY <1>3, <1>23 DEF SInv, Copied, ReadBack, Label, AtRest, CommandsWhenReady,
     VerifiedStored, Stored, LoadedFaithfully, Placed, Confined, JobTouched,
     vars, chip, driver, history
<1>24. QED
  BY <1>1, <1>5, <1>6, <1>7, <1>8, <1>9, <1>10, <1>11, <1>12, <1>13, <1>14,
     <1>15, <1>16, <1>17, <1>19, <1>20, <1>21, <1>22, <1>23
     DEF Next, DriverStep

\* The inductive invariant, under which the safety properties stand.
LEMMA Inductive == Spec => [](TInv /\ SInv)
<1>1. Init => TInv /\ SInv
  BY TInvInit, SInvInit
<1>2. TInv /\ SInv /\ [Next]_vars => (TInv /\ SInv)'
  BY TInvStep, SInvStep
<1>3. QED
  BY <1>1, <1>2, PTL DEF Spec

\* "Flash WR OK" is only printed of an image that is in the flash.
THEOREM StoreIsVerified == Spec => []VerifiedStored
<1>1. SInv => VerifiedStored
  BY DEF SInv
<1>2. QED
  BY Inductive, <1>1, PTL

\* boot_uboot works on what the flash holds.
THEOREM LoadIsFaithful == Spec => []LoadedFaithfully
<1>1. SInv => LoadedFaithfully
  BY DEF SInv
<1>2. QED
  BY Inductive, <1>1, PTL

\* No call damages a page it was not asked to write.
THEOREM DamageIsConfined == Spec => []Confined
<1>1. SInv => Confined
  BY DEF SInv
<1>2. QED
  BY Inductive, <1>1, PTL

\* Every command of a write but its very first meets an idle chip, and so does
\* every command of a read.
THEOREM CommandsMeetReadyChip == Spec => []CommandsWhenReady
<1>1. SInv => CommandsWhenReady
  BY DEF SInv
<1>2. QED
  BY Inductive, <1>1, PTL

-----------------------------------------------------------------------------
(* What a write puts where. *)

WriteSteps == PartialSteps \cup FullSteps \cup {"advance"}

\* The piece is still to be copied from scratch to the chip's buffer.
Sources == {"p_load", "p_buf", "f_buf"}
\* The buffer holds the page as it shall become.
Filled == {"p_erase", "p_pgm", "f_erase", "f_pgm", "advance"}

Page == PageBase(Dest)
PieceEnd == Dest + Piece(Dest, Left)

\* The flash when the bytes of the image below address d have been written.
Plan(a, d) ==
    IF job.addr <= a /\ a < d THEN image[a - job.addr] ELSE before[a]

-----------------------------------------------------------------------------
(* A call that found the chip idle has it for itself. *)

\* Only a store writes.
Writer == Label \in WriteSteps => job.kind = "store"

\* What the chip may be doing for the driver, by the step the driver is at.
Engaged ==
    pc # "idle" =>
        /\ op.kind = "load" => Label = "p_buf"
        /\ op.kind = "erase" => Label \in {"p_pgm", "f_pgm"}
        /\ op.kind \in {"pgm", "erase_pgm"} => Label = "advance"
        /\ op.kind # "idle" => op.base = Page

\* The PDC has destroyed no source byte that is still needed.
SourceIntact ==
    /\ Label \in Sources =>
          \A i \in done .. (job.len - 1) : scratch[i] = image[i]
    /\ Label \in Filled =>
          \A i \in (done + Piece(Dest, Left)) .. (job.len - 1) :
              scratch[i] = image[i]

FullPage == Label \in FullSteps => ~Partial(Dest, Left)

Owned == Writer /\ Engaged /\ SourceIntact /\ FullPage

-----------------------------------------------------------------------------
(* On a sound chip the flash follows the plan, piece by piece. *)

OtherPages ==
    Label \in WriteSteps =>
        \A a \in Addrs : PageBase(a) # Page => cells[a] = Plan(a, Dest)

PageBefore ==
    Label \in Sources =>
        \A a \in PageCells(Page) : cells[a] = Plan(a, Dest)

PageLoaded ==
    Label = "p_buf" /\ op.kind = "idle" =>
        \A a \in PageCells(Page) : buf[a % PageSize] = Plan(a, Dest)

BufferReady ==
    Label \in Filled =>
        \A a \in PageCells(Page) : buf[a % PageSize] = Plan(a, PieceEnd)

PageErased ==
    (Label = "f_pgm" /\ op.kind = "idle") \/ (pc # "idle" /\ op.kind = "pgm") =>
        \A a \in PageCells(Page) : cells[a] = Erased

PageWritten ==
    Label = "advance" /\ op.kind = "idle" =>
        \A a \in PageCells(Page) : cells[a] = Plan(a, PieceEnd)

AllWritten ==
    job.kind = "store" /\ (Label \in ReadSteps \/ result = "ok") =>
        \A a \in Addrs : cells[a] = Plan(a, job.addr + job.len)

OnPlan ==
    /\ OtherPages /\ PageBefore /\ PageLoaded /\ BufferReady
    /\ PageErased /\ PageWritten /\ AllWritten

WInv == inherited = {} => Owned /\ (~worn => OnPlan)

-----------------------------------------------------------------------------
(* Whatever goes wrong, a cell holds a value somebody meant it to hold. *)

Allowed(a) ==
    {before[a], Erased, Junk} \cup
        (IF job.addr <= a /\ a < job.addr + job.len
         THEN {image[a - job.addr]} ELSE {})

CellsAllowed == \A a \in Addrs : cells[a] \in Allowed(a)

BufferAllowed ==
    /\ Label \in Filled \/ (Label = "p_buf" /\ op.kind = "idle") =>
          \A a \in PageCells(Page) : buf[a % PageSize] \in Allowed(a)
    /\ op.kind \in {"pgm", "erase_pgm"} =>
          \A a \in PageCells(op.base) : buf[a % PageSize] \in Allowed(a)

AInv == inherited = {} => CellsAllowed /\ BufferAllowed

-----------------------------------------------------------------------------
(* Where the bytes of a piece are. *)

\* The job under way in numbers.
LEMMA JobRange ==
    ASSUME TypeOK, JobFits, done < job.len
    PROVE  /\ job.addr \in Nat /\ job.len \in Nat /\ done \in Nat
           /\ Dest \in Addrs /\ Dest \in Nat /\ Dest = job.addr + done
           /\ Piece(Dest, Left) \in Nat /\ Piece(Dest, Left) >= 1
           /\ PieceEnd \in Nat /\ PieceEnd = Dest + Piece(Dest, Left)
           /\ PieceEnd <= job.addr + job.len
           /\ PieceEnd <= Dest + (PageSize - (Dest % PageSize))
           /\ Dest % PageSize \in Nat
<1>1. job.addr \in Nat /\ job.len \in Nat \ {0} /\ done \in 0 .. job.len
  BY DEF TypeOK, Jobs
<1>2. Dest \in Addrs /\ Dest \in Nat /\ Dest = job.addr + done
  BY <1>1, InRange, TotalNat DEF Addrs, Dest
<1>3. Left = job.len - done
  BY DEF Left
<1>4. Dest % PageSize \in Nat
  BY <1>2, PageOf, GeometryAssumption DEF Offsets
<1>5. Piece(Dest, Left) \in Nat /\ Piece(Dest, Left) >= 1
      /\ Piece(Dest, Left) <= job.len - done
      /\ Piece(Dest, Left) <= PageSize - (Dest % PageSize)
  BY <1>1, <1>3, InRange
<1>6. PieceEnd = Dest + Piece(Dest, Left)
  BY DEF PieceEnd
<1> HIDE DEF Dest, Left, PieceEnd
<1>7. QED
  BY <1>1, <1>2, <1>4, <1>5, <1>6, GeometryAssumption

\* A piece lies in one page.
LEMMA PieceOnPage ==
    ASSUME TypeOK, JobFits, done < job.len,
           NEW a \in Addrs, Dest <= a, a < PieceEnd
    PROVE  PageBase(a) = Page
<1>1. /\ Dest \in Nat /\ PieceEnd \in Nat /\ Dest % PageSize \in Nat
      /\ PieceEnd <= Dest + (PageSize - (Dest % PageSize))
  BY JobRange
<1>2. a \in Nat
  BY TotalNat DEF Addrs
<1> HIDE DEF Dest, PieceEnd
<1>3. a < Dest + (PageSize - (Dest % PageSize))
  BY <1>1, <1>2, GeometryAssumption
<1>4. QED
  BY <1>1, <1>2, <1>3, SamePage DEF Page

\* Cells of one page are as far apart as their offsets.
LEMMA OffsetsApart ==
    ASSUME TypeOK, JobFits, done < job.len, NEW a \in PageCells(Page)
    PROVE  (a % PageSize) - (Dest % PageSize) = a - Dest
<1>1. a \in Nat /\ PageBase(a) = PageBase(Dest)
  BY TotalNat DEF Addrs, PageCells, Page
<1>2. Dest \in Nat
  BY JobRange
<1> HIDE DEF Dest
<1>3. /\ a = PageBase(a) + (a % PageSize)
      /\ Dest = PageBase(Dest) + (Dest % PageSize)
      /\ PageBase(a) \in Nat
      /\ a % PageSize \in Nat /\ Dest % PageSize \in Nat
  BY <1>1, <1>2, PageOf, GeometryAssumption DEF Offsets
<1>4. QED
  BY <1>1, <1>3

\* The plan changes by the piece only.
LEMMA PlanStep ==
    ASSUME TypeOK, JobFits, done < job.len, NEW a \in Addrs
    PROVE  Plan(a, PieceEnd) =
              IF Dest <= a /\ a < PieceEnd THEN image[a - job.addr]
              ELSE Plan(a, Dest)
<1>1. /\ job.addr \in Nat /\ done \in Nat /\ Dest \in Nat /\ PieceEnd \in Nat
      /\ Dest = job.addr + done /\ PieceEnd >= Dest
  BY JobRange
<1>2. a \in Nat
  BY TotalNat DEF Addrs
<1> HIDE DEF Dest, PieceEnd
<1>3. QED
  BY <1>1, <1>2 DEF Plan

LEMMA PlanOffPage ==
    ASSUME TypeOK, JobFits, done < job.len,
           NEW a \in Addrs, PageBase(a) # Page
    PROVE  Plan(a, PieceEnd) = Plan(a, Dest)
BY PlanStep, PieceOnPage

\* What the first n bytes of the piece make of the buffer, cell by cell.
LEMMA BufferCell ==
    ASSUME TypeOK, JobFits, done < job.len,
           NEW n \in 0 .. Piece(Dest, Left), NEW a \in PageCells(Page)
    PROVE  BufferAfter(n)[a % PageSize] =
              IF Dest <= a /\ a < Dest + n THEN scratch[a - job.addr]
              ELSE buf[a % PageSize]
<1>1. a \in Nat /\ a % PageSize \in Offsets
  BY PageOf, TotalNat DEF Addrs, PageCells
<1>2. (a % PageSize) - (Dest % PageSize) = a - Dest
  BY OffsetsApart
<1>3. /\ Dest \in Nat /\ done \in Nat /\ job.addr \in Nat
      /\ Dest = job.addr + done /\ Piece(Dest, Left) \in Nat
  BY JobRange
<1>4. BufferAfter(n)[a % PageSize] =
        IF 0 <= a - Dest /\ a - Dest < n THEN scratch[done + (a - Dest)]
        ELSE buf[a % PageSize]
  BY <1>1, <1>2 DEF BufferAfter
<1> HIDE DEF Dest, Left
<1>5. done + (a - Dest) = a - job.addr
  BY <1>1, <1>3
<1>6. (0 <= a - Dest /\ a - Dest < n) <=> (Dest <= a /\ a < Dest + n)
  BY <1>1, <1>3
<1>7. QED
  BY <1>4, <1>5, <1>6

\* A full page leaves no byte of the buffer as it was.
LEMMA FullPageCovered ==
    ASSUME TypeOK, JobFits, done < job.len, ~Partial(Dest, Left),
           NEW a \in PageCells(Page)
    PROVE  Dest <= a /\ a < PieceEnd
<1>1. a \in Nat /\ a % PageSize \in Offsets
  BY PageOf, TotalNat DEF Addrs, PageCells
<1>2. (a % PageSize) - (Dest % PageSize) = a - Dest
  BY OffsetsApart
<1>3. Dest % PageSize = 0 /\ ~(Left < PageSize)
  BY DEF Partial
<1>4. Dest \in Nat /\ Left \in Nat
  BY InRange, JobRange
<1>5. Piece(Dest, Left) = PageSize
  BY <1>3, <1>4, GeometryAssumption DEF Piece
<1>6. PieceEnd = Dest + PageSize
  BY <1>5 DEF PieceEnd
<1> HIDE DEF Dest, Left, PieceEnd
<1>7. QED
  BY <1>1, <1>2, <1>3, <1>4, <1>6, GeometryAssumption DEF Offsets

-----------------------------------------------------------------------------
(* WInv is inductive. *)

\* A step that leaves the chip, the job and its bytes alone, and the place in
\* the call too.
LEMMA WKept ==
    ASSUME WInv, Label' = Label, (pc' = "idle") <=> (pc = "idle"),
           result' = "ok" => result = "ok" \/ job.kind = "load",
           UNCHANGED <<chip, job, done, scratch, history>>
    PROVE  WInv'
<1>1. /\ UNCHANGED <<cells, buf, op, job, done, scratch, image, before,
                     inherited, worn, Dest, Left, Page, PieceEnd>>
      /\ \A a, d : Plan(a, d)' = Plan(a, d)
  BY DEF chip, history, Dest, Left, Page, PieceEnd, Plan
<1>2. SUFFICES ASSUME inherited = {} PROVE Owned' /\ (~worn => OnPlan')
  BY <1>1 DEF WInv
<1>3. Owned /\ (~worn => OnPlan)
  BY <1>2 DEF WInv
<1>4. Owned'
  BY <1>1, <1>3 DEF Owned, Writer, Engaged, SourceIntact, FullPage
<1>5. ASSUME ~worn PROVE OnPlan'
  <2>1. OnPlan
    BY <1>3, <1>5
  <2> USE <1>1, <2>1 DEF OnPlan
  <2>2. OtherPages' /\ PageBefore'
    BY DEF OtherPages, PageBefore
  <2>3. PageLoaded' /\ BufferReady'
    BY DEF PageLoaded, BufferReady
  <2>4. PageErased' /\ PageWritten'
    BY DEF PageErased, PageWritten
  <2>5. AllWritten'
    BY DEF AllWritten
  <2>6. QED
    BY <2>2, <2>3, <2>4, <2>5
<1>6. QED
  BY <1>4, <1>5

\* A call that is over without success.
LEMMA WOver ==
    ASSUME pc' = "idle", result' # "ok"
    PROVE  WInv'
<1>1. Label' = "idle"
  BY DEF Label
<1>2. Owned'
  BY <1>1 DEF Owned, Writer, Engaged, SourceIntact, FullPage, WriteSteps,
     Sources, Filled, PartialSteps, FullSteps
<1>3. OnPlan'
  BY <1>1 DEF OnPlan, OtherPages, PageBefore, PageLoaded, BufferReady,
     PageErased, PageWritten, AllWritten, WriteSteps, Sources, Filled,
     PartialSteps, FullSteps, ReadSteps
<1>4. QED
  BY <1>2, <1>3 DEF WInv

\* After a command at a step of the write phase, WaitReady goes on at n.
LEMMA Awaited ==
    ASSUME NEW n, Await(n)
    PROVE  Label' = n /\ pc' # "idle"
BY DEF Await, Label

LEMMA WInit == Init => WInv
<1>1. SUFFICES ASSUME Init PROVE WInv
  OBVIOUS
<1>2. Label = "idle" /\ pc = "idle" /\ result = "none"
  BY <1>1 DEF Init, Label
<1>3. Owned
  BY <1>2 DEF Owned, Writer, Engaged, SourceIntact, FullPage, WriteSteps,
     Sources, Filled, PartialSteps, FullSteps
<1>4. OnPlan
  BY <1>2 DEF OnPlan, OtherPages, PageBefore, PageLoaded, BufferReady,
     PageErased, PageWritten, AllWritten, WriteSteps, Sources, Filled,
     PartialSteps, FullSteps, ReadSteps
<1>5. QED
  BY <1>3, <1>4 DEF WInv

\* A call inherits no page only if it finds the chip idle: a page has cells.
LEMMA FoundIdle ==
    ASSUME TypeOK, inherited' = {},
           inherited' = IF op.kind = "idle" THEN {} ELSE PageCells(op.base)
    PROVE  op.kind = "idle"
<1>1. SUFFICES ASSUME op.kind # "idle" PROVE FALSE
  OBVIOUS
<1>2. op.base \in Bases
  BY <1>1 DEF TypeOK, NoOp
<1>3. PICK a \in Addrs : op.base = PageBase(a)
  BY <1>2 DEF Bases
<1>4. a \in PageCells(op.base)
  BY <1>3 DEF PageCells
<1>5. QED
  BY <1>1, <1>4

\* A store that begins on an idle chip.
LEMMA WStore ==
    ASSUME TInv, NEW rq \in Stores, FlashStore(rq)
    PROVE  WInv'
<1>1. /\ rq.addr \in Nat /\ rq.len \in Nat \ {0}
      /\ rq.image \in Ram(rq.len)
  BY DataFlashAssumption DEF Image, Ram, Cell
<1>2. /\ Begin("store", rq, rq.image)
      /\ pc' = WriteStep(rq.addr, rq.len)
      /\ result' = "none" /\ cells' = cells /\ op' = op
  BY DEF FlashStore, chip
<1>3. /\ job' = [kind |-> "store", addr |-> rq.addr, len |-> rq.len]
      /\ done' = 0 /\ scratch' = image' /\ before' = cells
      /\ inherited' = IF op.kind = "idle" THEN {} ELSE PageCells(op.base)
  BY <1>2 DEF Begin
<1>4. job'.kind = "store" /\ job'.addr = rq.addr /\ job'.len = rq.len
  BY <1>3
<1>5. Dest' = rq.addr /\ Left' = rq.len
  BY <1>1, <1>3, <1>4 DEF Dest, Left
<1>6. pc' \in {"p_load", "f_buf"} /\ Label' = pc'
      /\ (pc' = "f_buf" => ~Partial(Dest', Left'))
  BY <1>2, <1>5 DEF WriteStep, Label
<1>7. SUFFICES ASSUME inherited' = {} PROVE Owned' /\ OnPlan'
  BY DEF WInv
<1>8. op.kind = "idle"
  BY <1>3, <1>7, FoundIdle DEF TInv
<1>9. Owned'
  BY <1>2, <1>3, <1>4, <1>5, <1>6, <1>8
     DEF Owned, Writer, Engaged, SourceIntact, FullPage, WriteSteps, Sources,
         Filled, PartialSteps, FullSteps, Partial
<1>10. ASSUME NEW a \in Addrs PROVE cells'[a] = Plan(a, Dest)'
  <2>1. a \in Nat
    BY TotalNat DEF Addrs
  <2>2. Plan(a, Dest)' = before'[a]
    BY <1>1, <1>4, <1>5, <2>1 DEF Plan
  <2>3. QED
    BY <1>2, <1>3, <2>2
<1>11. OnPlan'
  <2>1. OtherPages' /\ PageBefore'
    BY <1>10 DEF OtherPages, PageBefore, PageCells
  <2>2. PageLoaded' /\ BufferReady' /\ PageErased' /\ PageWritten' /\ AllWritten'
    BY <1>2, <1>6, <1>8 DEF PageLoaded, BufferReady, PageErased, PageWritten,
       AllWritten, Filled, ReadSteps
  <2>3. QED
    BY <2>1, <2>2 DEF OnPlan
<1>12. QED
  BY <1>9, <1>11

\* A read that begins on an idle chip.
LEMMA WLoad ==
    ASSUME TInv, NEW rq \in Loads, ReadDataflash(rq)
    PROVE  WInv'
<1> DEFINE ram == [i \in 0 .. (rq.len - 1) |-> Junk]
<1>1. Begin("load", rq, ram) /\ Await("r_loop") /\ op' = op /\ result' = "none"
  BY DEF ReadDataflash, chip
<1> HIDE DEF ram
<1>2. /\ job' = [kind |-> "load", addr |-> rq.addr, len |-> rq.len]
      /\ inherited' = IF op.kind = "idle" THEN {} ELSE PageCells(op.base)
  BY <1>1 DEF Begin
<1>3. Label' = "r_loop" /\ job'.kind = "load"
  BY <1>1, <1>2, Awaited
<1>4. SUFFICES ASSUME inherited' = {} PROVE Owned' /\ OnPlan'
  BY DEF WInv
<1>5. op.kind = "idle"
  BY <1>2, <1>4, FoundIdle DEF TInv
<1>6. Owned'
  BY <1>1, <1>3, <1>5 DEF Owned, Writer, Engaged, SourceIntact, FullPage,
     WriteSteps, Sources, Filled, PartialSteps, FullSteps
<1>7. OnPlan'
  BY <1>1, <1>3, <1>5 DEF OnPlan, OtherPages, PageBefore, PageLoaded,
     BufferReady, PageErased, PageWritten, AllWritten, WriteSteps, Sources,
     Filled, PartialSteps, FullSteps, ReadSteps
<1>8. QED
  BY <1>6, <1>7

\* A call that has the chip for itself never sends a command it ignores.
LEMMA CommandMet ==
    ASSUME TypeOK, CommandsWhenReady, Engaged, pc \in CommandSteps
    PROVE  op.kind = "idle"
<1>1. op.kind \in {"load", "erase", "pgm", "erase_pgm", "idle"}
  BY DEF TypeOK, OpKinds, NoOp
<1>2. CASE pc \in {"p_load", "f_buf"}
  BY <1>1, <1>2 DEF Engaged, Label
<1>3. CASE pc \notin {"p_load", "f_buf"}
  BY <1>3 DEF CommandsWhenReady
<1>4. QED
  BY <1>2, <1>3

\* Loading the page: the first command, or the first of a later piece.
LEMMA WTransfer ==
    ASSUME TInv, SInv, WInv, MainMemoryToBufferTransfert
    PROVE  WInv'
<1>1. /\ pc = "p_load" /\ Start("load", Dest) /\ Await(Follow(pc))
      /\ UNCHANGED <<cells, buf, job, done, scratch, keep, result, history>>
  BY DEF MainMemoryToBufferTransfert
<1>2. Label = "p_load" /\ Label' = "p_buf" /\ pc' = "wait"
  BY <1>1, Awaited DEF Label, Follow, Await
<1>3. /\ UNCHANGED <<cells, job, done, scratch, image, before, inherited,
                     worn, result, Dest, Left, Page, PieceEnd>>
      /\ \A a, d : Plan(a, d)' = Plan(a, d)
  BY <1>1 DEF history, Dest, Left, Page, PieceEnd, Plan
<1>4. SUFFICES ASSUME inherited = {} PROVE Owned' /\ (~worn => OnPlan')
  BY <1>3 DEF WInv
<1>5. Owned /\ (~worn => OnPlan)
  BY <1>4 DEF WInv
<1>6. op.kind = "idle"
  BY <1>1, <1>5, CommandMet DEF Owned, TInv, SInv, CommandSteps, PartialSteps,
     FullSteps
<1>7. op' = [kind |-> "load", base |-> Page]
  BY <1>1, <1>6 DEF Start, Page
<1>8. op'.kind = "load" /\ op'.base = Page
  BY <1>7
<1>9. Owned'
  BY <1>2, <1>3, <1>5, <1>8 DEF Owned, Writer, Engaged, SourceIntact,
     FullPage, WriteSteps, Sources, Filled, PartialSteps, FullSteps
<1>10. ASSUME OnPlan PROVE OnPlan'
  <2>1. OtherPages' /\ PageBefore'
    BY <1>2, <1>3, <1>10 DEF OnPlan, OtherPages, PageBefore, Sources,
       WriteSteps, PartialSteps, FullSteps
  <2>2. PageLoaded' /\ BufferReady' /\ PageErased' /\ PageWritten' /\ AllWritten'
    <3>1. result' # "ok"
      BY <1>1, <1>3 DEF SInv, AtRest
    <3>2. QED
      BY <1>2, <1>8, <3>1 DEF PageLoaded, BufferReady, PageErased,
         PageWritten, AllWritten, Filled, ReadSteps
  <2>3. QED
    BY <2>1, <2>2 DEF OnPlan
<1>11. QED
  BY <1>5, <1>9, <1>10

\* Filling the buffer from scratch.
LEMMA WBuffer ==
    ASSUME TInv, SInv, WInv, DataFlashWriteBuffer
    PROVE  WInv'
<1> DEFINE n == Piece(Dest, Left)
<1>1. /\ pc \in {"p_buf", "f_buf"} /\ WriteBuffer(n) /\ Await(Follow(pc))
      /\ UNCHANGED <<cells, op, job, done, keep, result, history>>
  BY DEF DataFlashWriteBuffer
<1>2. /\ Label = pc /\ pc' = "wait"
      /\ pc = "p_buf" => Label' \in {"p_erase", "p_pgm"}
      /\ pc = "f_buf" => Label' = "f_erase"
  BY <1>1, Awaited DEF Label, Follow, Await
<1>3. /\ UNCHANGED <<cells, op, job, done, image, before, inherited,
                     worn, result, Dest, Left, Page, PieceEnd>>
      /\ \A a, d : Plan(a, d)' = Plan(a, d)
  BY <1>1 DEF history, Dest, Left, Page, PieceEnd, Plan
<1>4. SUFFICES ASSUME inherited = {} PROVE Owned' /\ (~worn => OnPlan')
  BY <1>3 DEF WInv
<1>5. Owned /\ (~worn => OnPlan)
  BY <1>4 DEF WInv
<1>6. op.kind = "idle"
  BY <1>1, <1>5, CommandMet DEF Owned, TInv, SInv, CommandSteps, PartialSteps,
     FullSteps
<1>7. TypeOK /\ JobFits /\ done < job.len
  BY <1>1 DEF TInv, Underway, CommandSteps, PartialSteps, FullSteps
<1>8. /\ n \in Nat /\ n >= 1 /\ done \in Nat /\ job.len \in Nat
      /\ job.addr \in Nat /\ Dest = job.addr + done /\ Dest \in Nat
      /\ PieceEnd = Dest + n
      /\ PieceEnd <= job.addr + job.len
  BY <1>7, JobRange
<1>9. \A i \in done .. (job.len - 1) : scratch[i] = image[i]
  BY <1>1, <1>2, <1>5 DEF Owned, SourceIntact, Sources
<1>10. n \in 0 .. Piece(Dest, Left)
  BY <1>8
<1> HIDE DEF n
<1>11. Owned'
  <2>1. \A i \in (done + n) .. (job.len - 1) : scratch'[i] = image[i]
    <3>1. scratch \in [0 .. (job.len - 1) -> Cell]
      BY <1>7 DEF TypeOK, Ram
    <3>2. \A i \in DOMAIN scratch : i >= done + n => scratch'[i] = scratch[i]
      BY <1>1, <1>8, <3>1 DEF WriteBuffer
    <3>3. SUFFICES ASSUME NEW i \in (done + n) .. (job.len - 1)
                   PROVE  scratch'[i] = image[i]
      OBVIOUS
    <3>4. i >= done + n /\ i \in done .. (job.len - 1) /\ i \in 0 .. (job.len - 1)
      BY <1>8
    <3>5. scratch'[i] = scratch[i] /\ scratch[i] = image[i]
      BY <1>9, <3>1, <3>2, <3>4
    <3>6. QED
      BY <3>5
  <2>2. Piece(Dest, Left)' = n
    BY <1>3 DEF n, Piece
  <2>3. SourceIntact'
    BY <1>1, <1>2, <1>3, <2>1, <2>2 DEF SourceIntact, Sources, Filled
  <2>4. FullPage'
    BY <1>1, <1>2, <1>3, <1>5 DEF Owned, FullPage, FullSteps
  <2>5. Writer' /\ Engaged'
    BY <1>1, <1>2, <1>3, <1>5, <1>6 DEF Owned, Writer, Engaged, WriteSteps,
       PartialSteps, FullSteps, TInv, TypeOK, NoOp
  <2>6. QED
    BY <2>3, <2>4, <2>5 DEF Owned
<1>12. ASSUME OnPlan PROVE OnPlan'
  <2>1. OtherPages'
    BY <1>1, <1>2, <1>3, <1>12 DEF OnPlan, OtherPages, WriteSteps,
       PartialSteps, FullSteps
  <2>2. BufferReady'
    <3>1. SUFFICES ASSUME NEW a \in PageCells(Page)
                   PROVE  buf'[a % PageSize] = Plan(a, PieceEnd)
      BY <1>3 DEF BufferReady
    <3>2. a \in Addrs /\ a \in Nat
      BY TotalNat DEF PageCells, Addrs
    <3>3. buf'[a % PageSize] =
            IF Dest <= a /\ a < PieceEnd THEN scratch[a - job.addr]
            ELSE buf[a % PageSize]
      BY <1>1, <1>6, <1>7, <1>8, <1>10, BufferCell DEF WriteBuffer
    <3>4. CASE Dest <= a /\ a < PieceEnd
      <4>1. a - job.addr \in done .. (job.len - 1)
        BY <1>8, <3>2, <3>4
      <4>2. scratch[a - job.addr] = image[a - job.addr]
        BY <1>9, <4>1
      <4>3. QED
        BY <1>7, <3>2, <3>3, <3>4, <4>2, PlanStep
    <3>5. CASE ~(Dest <= a /\ a < PieceEnd)
      <4>1. pc = "p_buf"
        BY <1>1, <1>2, <1>5, <1>7, <3>5, FullPageCovered DEF Owned, FullPage,
           FullSteps
      <4>2. buf[a % PageSize] = Plan(a, Dest)
        BY <1>2, <1>6, <1>12, <4>1 DEF OnPlan, PageLoaded
      <4>3. QED
        BY <1>7, <3>2, <3>3, <3>5, <4>2, PlanStep
    <3>6. QED
      BY <3>4, <3>5
  <2>3. PageBefore' /\ PageLoaded' /\ PageErased' /\ PageWritten' /\ AllWritten'
    <3>1. result' # "ok"
      BY <1>1, <1>3 DEF SInv, AtRest
    <3>2. QED
      BY <1>1, <1>2, <1>3, <1>6, <3>1 DEF PageBefore, PageLoaded, PageErased,
         PageWritten, AllWritten, Sources, ReadSteps
  <2>4. QED
    BY <2>1, <2>2, <2>3 DEF OnPlan
<1>13. QED
  BY <1>5, <1>11, <1>12

\* Erasing the page, on a big device or before a full page.
LEMMA WErase ==
    ASSUME TInv, SInv, WInv, PageErase
    PROVE  WInv'
<1>1. /\ pc \in {"p_erase", "f_erase"} /\ Start("erase", Dest)
      /\ Await(Follow(pc))
      /\ UNCHANGED <<cells, buf, job, done, scratch, keep, result, history>>
  BY DEF PageErase
<1>2. /\ Label = pc /\ pc' = "wait"
      /\ pc = "p_erase" => Label' = "p_pgm"
      /\ pc = "f_erase" => Label' = "f_pgm"
  BY <1>1, Awaited DEF Label, Follow, Await
<1>3. /\ UNCHANGED <<cells, buf, job, done, scratch, image, before, inherited,
                     worn, result, Dest, Left, Page, PieceEnd>>
      /\ \A a, d : Plan(a, d)' = Plan(a, d)
  BY <1>1 DEF history, Dest, Left, Page, PieceEnd, Plan
<1>4. SUFFICES ASSUME inherited = {} PROVE Owned' /\ (~worn => OnPlan')
  BY <1>3 DEF WInv
<1>5. Owned /\ (~worn => OnPlan)
  BY <1>4 DEF WInv
<1>6. op.kind = "idle"
  BY <1>1, <1>5, CommandMet DEF Owned, TInv, SInv, CommandSteps, PartialSteps,
     FullSteps
<1>7. op' = [kind |-> "erase", base |-> Page]
  BY <1>1, <1>6 DEF Start, Page
<1>8. op'.kind = "erase" /\ op'.base = Page
  BY <1>7
<1>9. Owned'
  BY <1>1, <1>2, <1>3, <1>5, <1>8 DEF Owned, Writer, Engaged, SourceIntact,
     FullPage, WriteSteps, Sources, Filled, PartialSteps, FullSteps
<1>10. ASSUME OnPlan PROVE OnPlan'
  <2>1. OtherPages' /\ BufferReady'
    BY <1>1, <1>2, <1>3, <1>10 DEF OnPlan, OtherPages, BufferReady, Filled,
       WriteSteps, PartialSteps, FullSteps
  <2>2. PageBefore' /\ PageLoaded' /\ PageErased' /\ PageWritten' /\ AllWritten'
    <3>1. result' # "ok"
      BY <1>1, <1>3 DEF SInv, AtRest
    <3>2. QED
      BY <1>1, <1>2, <1>8, <3>1 DEF PageBefore, PageLoaded, PageErased,
         PageWritten, AllWritten, Sources, ReadSteps
  <2>3. QED
    BY <2>1, <2>2 DEF OnPlan
<1>11. QED
  BY <1>5, <1>9, <1>10

\* Programming the page from the buffer.
LEMMA WProgram ==
    ASSUME TInv, SInv, WInv, WriteBufferToMain
    PROVE  WInv'
<1> DEFINE kind == IF pc = "p_pgm" THEN "erase_pgm" ELSE "pgm"
<1>1. /\ pc \in {"p_pgm", "f_pgm"} /\ Start(kind, Dest)
      /\ Await(Follow(pc))
      /\ UNCHANGED <<cells, buf, job, done, scratch, keep, result, history>>
  BY DEF WriteBufferToMain
<1>2. Label = pc /\ pc' = "wait" /\ Label' = "advance"
  BY <1>1, Awaited DEF Label, Follow, Await
<1>3. /\ UNCHANGED <<cells, buf, job, done, scratch, image, before, inherited,
                     worn, result, Dest, Left, Page, PieceEnd>>
      /\ \A a, d : Plan(a, d)' = Plan(a, d)
  BY <1>1 DEF history, Dest, Left, Page, PieceEnd, Plan
<1>4. SUFFICES ASSUME inherited = {} PROVE Owned' /\ (~worn => OnPlan')
  BY <1>3 DEF WInv
<1>5. Owned /\ (~worn => OnPlan)
  BY <1>4 DEF WInv
<1>6. op.kind = "idle"
  BY <1>1, <1>5, CommandMet DEF Owned, TInv, SInv, CommandSteps, PartialSteps,
     FullSteps
<1>7. op' = [kind |-> kind, base |-> Page]
  BY <1>1, <1>6 DEF Start, Page
<1>8. /\ op'.kind \in {"erase_pgm", "pgm"} /\ op'.base = Page
      /\ op'.kind = "pgm" => pc = "f_pgm"
  BY <1>1, <1>7
<1>9. Owned'
  BY <1>1, <1>2, <1>3, <1>5, <1>8 DEF Owned, Writer, Engaged, SourceIntact,
     FullPage, WriteSteps, Sources, Filled, PartialSteps, FullSteps
<1>10. ASSUME OnPlan PROVE OnPlan'
  <2>1. OtherPages' /\ BufferReady'
    BY <1>1, <1>2, <1>3, <1>10 DEF OnPlan, OtherPages, BufferReady, Filled,
       WriteSteps, PartialSteps, FullSteps
  <2>2. PageErased'
    BY <1>2, <1>3, <1>6, <1>8, <1>10 DEF OnPlan, PageErased
  <2>3. PageBefore' /\ PageLoaded' /\ PageWritten' /\ AllWritten'
    <3>1. result' # "ok"
      BY <1>1, <1>3 DEF SInv, AtRest
    <3>2. QED
      BY <1>2, <1>8, <3>1 DEF PageBefore, PageLoaded, PageWritten, AllWritten,
         Sources, ReadSteps
  <2>4. QED
    BY <2>1, <2>2, <2>3 DEF OnPlan
<1>11. QED
  BY <1>5, <1>9, <1>10

\* WaitReady ends: the write goes on, with the next piece or to the read-back.
LEMMA WReady ==
    ASSUME TInv, SInv, WInv, PollReady
    PROVE  WInv'
<1>1. /\ pc = "wait" /\ op.kind = "idle" /\ result # "ok"
      /\ UNCHANGED <<chip, job, scratch, keep, result, history>>
  BY DEF PollReady, Continue, SInv, AtRest
<1>2. CASE next # "advance"
  <2>1. pc' = next /\ UNCHANGED done
    BY <1>2 DEF PollReady, Continue
  <2>2. next # "idle" /\ next # "wait"
    BY DEF TInv, TypeOK, Resumptions, PartialSteps, FullSteps
  <2>3. Label' = Label /\ ((pc' = "idle") <=> (pc = "idle"))
    BY <1>1, <2>1, <2>2 DEF Label
  <2>4. QED
    BY <1>1, <2>1, <2>3, WKept
<1>3. CASE next = "advance"
  <2> DEFINE d == done + Piece(Dest, Left)
  <2>1. Label = "advance" /\ done < job.len /\ TypeOK /\ JobFits
    BY <1>1, <1>3 DEF Label, TInv, Underway
  <2>2. /\ d \in Nat /\ job.addr \in Nat /\ job.len \in Nat
        /\ PieceEnd = job.addr + d
    BY <2>1, JobRange
  <2>3. \/ d = job.len /\ done' = 0 /\ Label' = "r_loop" /\ pc' = "wait"
        \/ /\ d # job.len /\ done' = d
           /\ pc' = WriteStep(job.addr + d, job.len - d)
    BY <1>3, Awaited DEF PollReady, Continue, Await
  <2> HIDE DEF d
  <2>4. /\ UNCHANGED <<cells, buf, op, job, scratch, image, before, inherited,
                       worn, result>>
        /\ \A a, e : Plan(a, e)' = Plan(a, e)
    BY <1>1 DEF chip, history, Plan
  <2>5. SUFFICES ASSUME inherited = {} PROVE Owned' /\ (~worn => OnPlan')
    BY <2>4 DEF WInv
  <2>6. Owned /\ (~worn => OnPlan)
    BY <2>5 DEF WInv
  <2>7. ASSUME OnPlan, NEW a \in Addrs PROVE cells[a] = Plan(a, PieceEnd)
    <3>1. CASE PageBase(a) = Page
      BY <1>1, <2>1, <2>7, <3>1 DEF OnPlan, PageWritten, PageCells
    <3>2. CASE PageBase(a) # Page
      BY <2>1, <2>7, <3>2, PlanOffPage DEF OnPlan, OtherPages, WriteSteps
    <3>3. QED
      BY <3>1, <3>2
  <2>8. CASE d = job.len /\ done' = 0 /\ Label' = "r_loop" /\ pc' = "wait"
    <3>1. Owned'
      BY <1>1, <2>4, <2>8 DEF Owned, Writer, Engaged, SourceIntact, FullPage,
         WriteSteps, Sources, Filled, PartialSteps, FullSteps
    <3>2. ASSUME OnPlan PROVE OnPlan'
      <4>1. AllWritten'
        BY <2>2, <2>4, <2>7, <2>8, <3>2 DEF AllWritten
      <4>2. QED
        BY <1>1, <2>4, <2>8, <4>1 DEF OnPlan, OtherPages, PageBefore,
           PageLoaded, BufferReady, PageErased, PageWritten, WriteSteps,
           Sources, Filled, PartialSteps, FullSteps
    <3>3. QED
      BY <2>6, <3>1, <3>2
  <2>9. CASE /\ d # job.len /\ done' = d
             /\ pc' = WriteStep(job.addr + d, job.len - d)
    <3>1. Dest' = PieceEnd /\ Left' = job.len - d
      BY <2>2, <2>4, <2>9 DEF Dest, Left
    <3>2. /\ pc' \in {"p_load", "f_buf"} /\ Label' = pc'
          /\ pc' = "f_buf" => ~Partial(Dest', Left')
      BY <2>2, <2>9, <3>1 DEF WriteStep, Label
    <3>3. Owned'
      <4>1. FullPage'
        BY <3>2 DEF FullPage, FullSteps, Partial
      <4>2. SourceIntact'
        BY <2>1, <2>4, <2>6, <2>9, <3>2 DEF Owned, SourceIntact, Sources,
           Filled, d
      <4>3. Writer' /\ Engaged'
        BY <1>1, <2>1, <2>4, <2>6, <3>2 DEF Owned, Writer, Engaged, WriteSteps
      <4>4. QED
        BY <4>1, <4>2, <4>3 DEF Owned
    <3>4. ASSUME OnPlan PROVE OnPlan'
      <4>1. \A a \in Addrs : cells'[a] = Plan(a, Dest)'
        BY <2>4, <2>7, <3>1, <3>4
      <4>2. OtherPages' /\ PageBefore'
        BY <4>1 DEF OtherPages, PageBefore, PageCells
      <4>3. PageLoaded' /\ BufferReady' /\ PageErased' /\ PageWritten'
            /\ AllWritten'
        BY <1>1, <2>4, <3>2 DEF PageLoaded, BufferReady, PageErased,
           PageWritten, AllWritten, Filled, ReadSteps
      <4>4. QED
        BY <4>2, <4>3 DEF OnPlan
    <3>5. QED
      BY <2>6, <3>3, <3>4
  <2>10. QED
    BY <2>3, <2>8, <2>9
<1>4. QED
  BY <1>2, <1>3

\* Reading: the chip is idle, and no cell changes.
LEMMA WRead ==
    ASSUME TInv, SInv, WInv, Label \in ReadSteps,
           Label' \in ReadSteps \/ pc' = "idle",
           result' = "ok" => result = "ok" \/ job.kind = "load" \/ Label = "compare",
           UNCHANGED <<chip, job, history>>,
           pc # "idle", op.kind = "idle"
    PROVE  WInv'
<1>1. /\ UNCHANGED <<cells, op, job, image, before, inherited, worn>>
      /\ \A a, d : Plan(a, d)' = Plan(a, d)
  BY DEF chip, history, Plan
<1>2. Label' \notin WriteSteps \cup Sources \cup Filled
  BY DEF Label, ReadSteps, WriteSteps, Sources, Filled, PartialSteps, FullSteps
<1>3. SUFFICES ASSUME inherited = {} PROVE Owned' /\ (~worn => OnPlan')
  BY <1>1 DEF WInv
<1>4. Owned /\ (~worn => OnPlan)
  BY <1>3 DEF WInv
<1>5. Owned'
  BY <1>1, <1>2 DEF Owned, Writer, Engaged, SourceIntact, FullPage,
     WriteSteps
<1>6. ASSUME OnPlan PROVE OnPlan'
  <2>1. AllWritten'
    BY <1>1, <1>6 DEF OnPlan, AllWritten
  <2>2. QED
    BY <1>1, <1>2, <2>1 DEF OnPlan, OtherPages, PageBefore, PageLoaded,
       BufferReady, PageErased, PageWritten, WriteSteps, Sources, Filled,
       PartialSteps, FullSteps
<1>7. QED
  BY <1>4, <1>5, <1>6

\* The chip ends the operation of this call.
LEMMA WDone ==
    ASSUME TInv, SInv, WInv, ChipDone
    PROVE  WInv'
<1>1. /\ op.kind # "idle" /\ op' = NoOp /\ UNCHANGED <<driver, history>>
      /\ result # "ok"
  BY DEF ChipDone, SInv, AtRest
<1>2. /\ UNCHANGED <<pc, Label, job, done, scratch, image, before, inherited,
                     worn, result, Dest, Left, Page, PieceEnd>>
      /\ \A a, d : Plan(a, d)' = Plan(a, d)
  BY <1>1 DEF driver, history, Label, Dest, Left, Page, PieceEnd, Plan
<1>3. CASE pc = "idle"
  BY <1>1, <1>2, <1>3, WOver
<1>4. CASE pc # "idle"
  <2>1. SUFFICES ASSUME inherited = {} PROVE Owned' /\ (~worn => OnPlan')
    BY <1>2 DEF WInv
  <2>2. Owned /\ (~worn => OnPlan)
    BY <2>1 DEF WInv
  <2>3. /\ op.base = Page
        /\ \/ op.kind = "load" /\ Label = "p_buf"
           \/ op.kind = "erase" /\ Label \in {"p_pgm", "f_pgm"}
           \/ op.kind \in {"pgm", "erase_pgm"} /\ Label = "advance"
    BY <1>1, <1>4, <2>2 DEF Owned, Engaged, TInv, TypeOK, OpKinds, NoOp
  <2>4. Owned'
    BY <1>1, <1>2, <2>2 DEF Owned, Writer, Engaged, SourceIntact, FullPage,
       NoOp
  <2>5. /\ \A a \in Addrs : PageBase(a) # Page => cells'[a] = cells[a]
        /\ \A a \in PageCells(Page) : cells'[a] = Effect(a)
        /\ op.kind # "load" => buf' = buf
    BY <2>3 DEF ChipDone, PageCells
  <2>6. ASSUME OnPlan PROVE OnPlan'
    <3>1. OtherPages'
      BY <1>2, <2>5, <2>6 DEF OnPlan, OtherPages
    <3>2. AllWritten'
      BY <1>1, <1>2, <2>3 DEF AllWritten, ReadSteps
    <3>3. CASE op.kind = "load"
      <4>1. \A a \in PageCells(Page) : cells'[a] = cells[a]
        BY <2>5, <3>3 DEF Effect
      <4>2. \A a \in PageCells(Page) : buf'[a % PageSize] = cells[a]
        <5>1. SUFFICES ASSUME NEW a \in PageCells(Page)
                       PROVE  buf'[a % PageSize] = cells[a]
          OBVIOUS
        <5>2. a \in Nat /\ PageBase(a) = Page
          BY TotalNat DEF PageCells, Addrs
        <5>3. a % PageSize \in Offsets /\ a = Page + (a % PageSize)
          BY <5>2, PageOf
        <5>4. buf' = [o \in Offsets |-> cells[Page + o]]
          BY <2>3, <3>3 DEF ChipDone
        <5>5. QED
          BY <5>3, <5>4
      <4>3. PageBefore' /\ PageLoaded'
        BY <1>2, <2>3, <2>6, <3>3, <4>1, <4>2 DEF OnPlan, PageBefore,
           PageLoaded, Sources
      <4>4. BufferReady' /\ PageErased' /\ PageWritten'
        BY <1>1, <1>2, <2>3, <3>3 DEF BufferReady, PageErased, PageWritten,
           Filled, NoOp
      <4>5. QED
        BY <3>1, <3>2, <4>3, <4>4 DEF OnPlan
    <3>4. CASE op.kind = "erase"
      <4>1. \A a \in PageCells(Page) : cells'[a] = Erased
        BY <2>5, <3>4 DEF Effect
      <4>2. PageErased' /\ BufferReady'
        BY <1>2, <2>5, <2>6, <3>4, <4>1 DEF OnPlan, PageErased, BufferReady
      <4>3. PageBefore' /\ PageLoaded' /\ PageWritten'
        BY <1>2, <2>3, <3>4 DEF PageBefore, PageLoaded, PageWritten, Sources
      <4>4. QED
        BY <3>1, <3>2, <4>2, <4>3 DEF OnPlan
    <3>5. CASE op.kind \in {"pgm", "erase_pgm"}
      <4>1. \A a \in PageCells(Page) : cells'[a] = Plan(a, PieceEnd)
        <5>1. SUFFICES ASSUME NEW a \in PageCells(Page)
                       PROVE  Effect(a) = Plan(a, PieceEnd)
          BY <2>5
        <5>2. buf[a % PageSize] = Plan(a, PieceEnd)
          BY <2>3, <2>6, <3>5 DEF OnPlan, BufferReady, Filled
        <5>3. op.kind = "pgm" => cells[a] = Erased
          BY <1>4, <2>6 DEF OnPlan, PageErased
        <5>4. QED
          BY <3>5, <5>2, <5>3 DEF Effect, Programmed
      <4>2. PageWritten' /\ BufferReady'
        BY <1>2, <2>5, <2>6, <3>5, <4>1 DEF OnPlan, PageWritten, BufferReady
      <4>3. PageBefore' /\ PageLoaded' /\ PageErased'
        BY <1>1, <1>2, <2>3, <3>5 DEF PageBefore, PageLoaded, PageErased,
           Sources, NoOp
      <4>4. QED
        BY <3>1, <3>2, <4>2, <4>3 DEF OnPlan
    <3>6. QED
      BY <2>3, <3>3, <3>4, <3>5
  <2>7. QED
    BY <2>2, <2>4, <2>6
<1>5. QED
  BY <1>3, <1>4

LEMMA WStep == TInv /\ SInv /\ WInv /\ [Next]_vars => WInv'
<1>1. SUFFICES ASSUME TInv, SInv, WInv, [Next]_vars PROVE WInv'
  OBVIOUS
<1>2. ASSUME NEW rq, Refuse(rq) PROVE WInv'
  <2>1. /\ result' # "ok" /\ Label' = Label /\ pc' = pc
        /\ UNCHANGED <<chip, job, done, scratch, history>>
    BY <1>2 DEF Refuse, Label
  <2>2. QED
    BY <1>1, <2>1, WKept
<1>3. CASE ContinuousRead
  <2>1. /\ Label \in ReadSteps /\ Label' \in ReadSteps /\ pc # "idle"
        /\ op.kind = "idle" /\ result' = result
        /\ UNCHANGED <<chip, job, history>>
    BY <1>1, <1>3 DEF ContinuousRead, Label, ReadSteps, SInv, ReadBack
  <2>2. QED
    BY <1>1, <2>1, WRead
<1>4. CASE SpiTimeout
  <2>1. pc' = "idle" /\ result' # "ok"
    BY <1>4, FailureIsNotOk DEF SpiTimeout, Return
  <2>2. QED
    BY <2>1, WOver
<1>5. CASE PollBusy
  <2>1. UNCHANGED <<chip, job, done, scratch, history>>
    BY <1>5 DEF PollBusy
  <2>2. CASE polls + 1 < MaxPolls
    <3>1. Label' = Label /\ pc' = pc /\ result' = result
      BY <1>5, <2>2 DEF PollBusy, Label
    <3>2. QED
      BY <1>1, <2>1, <3>1, WKept
  <2>3. CASE ~(polls + 1 < MaxPolls)
    <3>1. pc' = "idle" /\ result' # "ok"
      BY <1>5, <2>3, FailureIsNotOk DEF PollBusy, Return
    <3>2. QED
      BY <3>1, WOver
  <2>4. QED
    BY <2>2, <2>3
<1>6. CASE ReadLoop
  <2>1. /\ Label \in ReadSteps
        /\ Label' \in ReadSteps \/ pc' = "idle"
        /\ pc # "idle" /\ op.kind = "idle"
        /\ result' = "ok" => result = "ok" \/ job.kind = "load"
        /\ UNCHANGED <<chip, job, history>>
    BY <1>1, <1>6 DEF ReadLoop, Return, Await, Label, ReadSteps, SInv, ReadBack
  <2>2. Label \in ReadSteps
    BY <1>6 DEF ReadLoop, Label, ReadSteps
  <2>3. QED
    BY <1>1, <2>1, <2>2, WRead
<1>7. CASE Compare
  <2>1. /\ Label = "compare" /\ Label \in ReadSteps /\ pc' = "idle"
        /\ pc # "idle" /\ op.kind = "idle"
        /\ UNCHANGED <<chip, job, history>>
    BY <1>1, <1>7 DEF Compare, Return, Label, ReadSteps, SInv, ReadBack
  <2>2. QED
    BY <1>1, <2>1, WRead
<1>8. CASE ChipDoneBad
  <2>1. /\ op.kind \in OpKinds /\ op' = NoOp /\ worn' = TRUE
        /\ UNCHANGED <<driver, inherited, image>>
    BY <1>8 DEF ChipDoneBad
  <2>2. inherited = {} => Owned
    BY <1>1 DEF WInv
  <2>3. Owned => Owned'
    BY <2>1 DEF Owned, Writer, Engaged, SourceIntact, FullPage, driver, Label,
       NoOp, Dest, Left
  <2>4. QED
    BY <2>1, <2>2, <2>3 DEF WInv
<1>9. CASE CpuReset \/ PowerLoss
  <2>1. pc' = "idle" /\ result' # "ok"
    BY <1>9 DEF CpuReset, PowerLoss, Return
  <2>2. QED
    BY <2>1, WOver
<1>10. CASE UNCHANGED vars
  <2>1. /\ Label' = Label /\ pc' = pc /\ result' = result
        /\ UNCHANGED <<chip, job, done, scratch, history>>
    BY <1>10 DEF vars, driver, Label
  <2>2. QED
    BY <1>1, <2>1, WKept
<1>11. QED
  BY <1>1, <1>2, <1>3, <1>4, <1>5, <1>6, <1>7, <1>8, <1>9, <1>10, WStore,
     WLoad, WTransfer, WBuffer, WErase, WProgram, WReady, WDone
     DEF Next, DriverStep

LEMMA WInductive == Spec => [](TInv /\ SInv /\ WInv)
<1>1. Init => TInv /\ SInv /\ WInv
  BY TInvInit, SInvInit, WInit
<1>2. TInv /\ SInv /\ WInv /\ [Next]_vars => (TInv /\ SInv /\ WInv)'
  BY TInvStep, SInvStep, WStep
<1>3. QED
  BY <1>1, <1>2, PTL DEF Spec

\* On an idle, sound chip every byte of the image arrives where it belongs:
\* the comparison of flash_verify finds what was to be written.
THEOREM WritesEveryByte == Spec => []WriteIsRight
<1>1. TInv /\ SInv /\ WInv => WriteIsRight
  <2>1. SUFFICES ASSUME TInv, SInv, WInv, pc = "compare", inherited = {}, ~worn
                 PROVE  scratch = keep
    BY DEF WriteIsRight
  <2>2. /\ done = job.len /\ job.kind = "store" /\ keep = image
        /\ \A i \in 0 .. (done - 1) : scratch[i] = cells[job.addr + i]
    BY <2>1 DEF SInv, ReadBack, Copied, Label, ReadSteps
  <2>3. \A a \in Addrs : cells[a] = Plan(a, job.addr + job.len)
    BY <2>1, <2>2 DEF WInv, OnPlan, AllWritten, Label, ReadSteps
  <2>4. /\ job.addr \in Nat /\ job.len \in Nat /\ job.addr + job.len <= Total
        /\ scratch \in Ram(job.len) /\ keep \in Ram(job.len)
    BY <2>1 DEF TInv, TypeOK, Jobs, JobFits
  <2>5. ASSUME NEW i \in 0 .. (job.len - 1) PROVE scratch[i] = keep[i]
    <3>1. /\ job.addr + i \in Addrs /\ (job.addr + i) - job.addr = i
          /\ job.addr <= job.addr + i /\ job.addr + i < job.addr + job.len
      BY <2>4, <2>5, TotalNat DEF Addrs
    <3>2. cells[job.addr + i] = image[i]
      BY <2>3, <3>1 DEF Plan
    <3>3. QED
      BY <2>2, <2>5, <3>2
  <2>6. QED
    BY <2>4, <2>5 DEF Ram
<1>2. QED
  BY WInductive, <1>1, PTL

\* Such a store gives the neighbours on its pages their bytes back.
THEOREM NeighboursSurvive == Spec => []NeighboursKept
<1>1. TInv /\ WInv => NeighboursKept
  <2>1. SUFFICES ASSUME TInv, WInv, Stored, inherited = {}, ~worn,
                        NEW a \in JobTouched \ JobTarget
                 PROVE  cells[a] = before[a]
    BY DEF NeighboursKept
  <2>2. a \in Addrs /\ ~(job.addr <= a /\ a < job.addr + job.len)
    BY <2>1 DEF JobTouched, JobTarget, Touched, Target
  <2>3. cells[a] = Plan(a, job.addr + job.len)
    BY <2>1, <2>2 DEF Stored, WInv, OnPlan, AllWritten
  <2>4. QED
    BY <2>2, <2>3 DEF Plan
<1>2. QED
  BY WInductive, <1>1, PTL

-----------------------------------------------------------------------------
(* AInv is inductive too, worn pages and cut-off writes included. *)

\* A step that changes neither the chip nor the place in the call.
LEMMA AKept ==
    ASSUME AInv, UNCHANGED <<chip, job, image, before, inherited>>,
           Label' \notin Filled \cup {"p_buf"} \/ (Label' = Label /\ done' = done)
    PROVE  AInv'
<1>1. /\ UNCHANGED <<cells, buf, op, job, image, before, inherited>>
      /\ \A a : Allowed(a)' = Allowed(a)
  BY DEF chip, Allowed
<1>2. CellsAllowed => CellsAllowed'
  BY <1>1 DEF CellsAllowed
<1>3. BufferAllowed => BufferAllowed'
  <2>1. CASE Label' \notin Filled \cup {"p_buf"}
    BY <1>1, <2>1 DEF BufferAllowed
  <2>2. CASE Label' = Label /\ done' = done
    BY <1>1, <2>2 DEF BufferAllowed, Page, Dest
  <2>3. QED
    BY <2>1, <2>2
<1>4. QED
  BY <1>1, <1>2, <1>3 DEF AInv

\* A call that begins on an idle chip.
LEMMA ABegins ==
    ASSUME TypeOK, NEW kind, NEW rq, NEW ram, Begin(kind, rq, ram),
           chip' = chip, Label' \in {"p_load", "f_buf", "r_loop"}
    PROVE  AInv'
<1>1. SUFFICES ASSUME inherited' = {} PROVE CellsAllowed' /\ BufferAllowed'
  BY DEF AInv
<1>2. /\ cells' = cells /\ op' = op /\ before' = cells
      /\ inherited' = IF op.kind = "idle" THEN {} ELSE PageCells(op.base)
  BY DEF Begin, chip
<1>3. op.kind = "idle"
  BY <1>1, <1>2, FoundIdle
<1>4. CellsAllowed'
  BY <1>2 DEF CellsAllowed, Allowed
<1>5. BufferAllowed'
  BY <1>2, <1>3 DEF BufferAllowed, Filled
<1>6. QED
  BY <1>4, <1>5

\* A command that starts an operation on the page of the piece.
LEMMA AStarts ==
    ASSUME TInv, SInv, Engaged, AInv, inherited = {},
           NEW kind, Start(kind, Dest),
           pc \in CommandSteps,
           kind \in {"pgm", "erase_pgm"} => pc \in {"p_pgm", "f_pgm"},
           UNCHANGED <<cells, buf, job, done, image, before, inherited>>,
           \/ Label' = "idle"
           \/ Label' = "p_buf" /\ kind = "load"
           \/ pc \in {"p_erase", "f_erase", "p_pgm", "f_pgm"}
    PROVE  AInv'
<1>1. op.kind = "idle"
  BY CommandMet DEF TInv, SInv
<1>2. op'.kind = kind /\ op'.base = Page
  BY <1>1 DEF Start, Page
<1>3. Page' = Page /\ \A a : Allowed(a)' = Allowed(a)
  BY DEF Page, Dest, Allowed
<1>4. CellsAllowed /\ BufferAllowed
  BY DEF AInv
<1>5. CellsAllowed'
  BY <1>3, <1>4 DEF CellsAllowed
<1>6. Label = pc
  BY DEF Label, CommandSteps, PartialSteps, FullSteps
<1>7. pc \in {"p_erase", "f_erase", "p_pgm", "f_pgm"} =>
        \A a \in PageCells(Page) : buf'[a % PageSize] \in Allowed(a)'
  BY <1>3, <1>4, <1>6 DEF BufferAllowed, Filled
<1>8. BufferAllowed'
  BY <1>2, <1>3, <1>7 DEF BufferAllowed, Filled
<1>9. QED
  BY <1>5, <1>8 DEF AInv

\* Filling the buffer: every byte of the page comes from the page or the image.
LEMMA ABuffer ==
    ASSUME TInv, SInv, WInv, AInv, DataFlashWriteBuffer
    PROVE  AInv'
<1> DEFINE n == Piece(Dest, Left)
<1>1. /\ pc \in {"p_buf", "f_buf"} /\ WriteBuffer(n)
      /\ UNCHANGED <<cells, op, job, done, keep, result, history>>
  BY DEF DataFlashWriteBuffer
<1>2. Label = pc
  BY <1>1 DEF Label
<1>3. /\ UNCHANGED <<cells, op, inherited, Page>>
      /\ \A a : Allowed(a)' = Allowed(a)
  BY <1>1 DEF history, Page, Dest, Allowed
<1>4. SUFFICES ASSUME inherited = {} PROVE CellsAllowed' /\ BufferAllowed'
  BY <1>3 DEF AInv
<1>5. Owned /\ CellsAllowed /\ BufferAllowed
  BY <1>4 DEF WInv, AInv
<1>6. op.kind = "idle"
  BY <1>1, <1>5, CommandMet DEF Owned, TInv, SInv, CommandSteps, PartialSteps,
     FullSteps
<1>7. TypeOK /\ JobFits /\ done < job.len
  BY <1>1 DEF TInv, Underway, CommandSteps, PartialSteps, FullSteps
<1>8. /\ n \in Nat /\ done \in Nat /\ job.len \in Nat
      /\ job.addr \in Nat /\ Dest = job.addr + done /\ Dest \in Nat
      /\ PieceEnd = Dest + n
      /\ PieceEnd <= job.addr + job.len
  BY <1>7, JobRange
<1>9. \A i \in done .. (job.len - 1) : scratch[i] = image[i]
  BY <1>1, <1>2, <1>5 DEF Owned, SourceIntact, Sources
<1>10. n \in 0 .. Piece(Dest, Left)
  BY <1>8
<1> HIDE DEF n
<1>11. ASSUME NEW a \in PageCells(Page) PROVE buf'[a % PageSize] \in Allowed(a)
  <2>1. a \in Addrs /\ a \in Nat
    BY TotalNat DEF PageCells, Addrs
  <2>2. buf'[a % PageSize] =
          IF Dest <= a /\ a < PieceEnd THEN scratch[a - job.addr]
          ELSE buf[a % PageSize]
    BY <1>1, <1>6, <1>7, <1>8, <1>10, BufferCell DEF WriteBuffer
  <2>3. CASE Dest <= a /\ a < PieceEnd
    <3>1. /\ a - job.addr \in done .. (job.len - 1)
          /\ job.addr <= a /\ a < job.addr + job.len
      BY <1>8, <2>1, <2>3
    <3>2. scratch[a - job.addr] = image[a - job.addr]
      BY <1>9, <3>1
    <3>3. QED
      BY <2>2, <2>3, <3>1, <3>2 DEF Allowed
  <2>4. CASE ~(Dest <= a /\ a < PieceEnd)
    <3>1. pc = "p_buf"
      BY <1>1, <1>2, <1>5, <1>7, <2>4, FullPageCovered DEF Owned, FullPage,
         FullSteps
    <3>2. buf[a % PageSize] \in Allowed(a)
      BY <1>2, <1>5, <1>6, <3>1 DEF BufferAllowed
    <3>3. QED
      BY <2>2, <2>4, <3>2
  <2>5. QED
    BY <2>3, <2>4
<1>12. CellsAllowed'
  BY <1>3, <1>5 DEF CellsAllowed
<1>13. BufferAllowed'
  BY <1>3, <1>6, <1>11 DEF BufferAllowed
<1>14. QED
  BY <1>12, <1>13

\* The chip ends an operation, well or badly.
LEMMA ADone ==
    ASSUME TInv, SInv, WInv, AInv, ChipDone \/ ChipDoneBad
    PROVE  AInv'
<1>1. /\ op.kind # "idle" /\ op' = NoOp
      /\ UNCHANGED <<driver, image, before, inherited>>
      /\ op.kind # "load" => buf' = buf
  BY DEF ChipDone, ChipDoneBad, OpKinds, history
<1>2. /\ UNCHANGED <<Label, Page>> /\ \A a : Allowed(a)' = Allowed(a)
  BY <1>1 DEF driver, Label, Page, Dest, Allowed
<1>3. SUFFICES ASSUME inherited = {} PROVE CellsAllowed' /\ BufferAllowed'
  BY <1>1 DEF AInv
<1>4. Owned /\ CellsAllowed /\ BufferAllowed
  BY <1>3 DEF WInv, AInv
<1>5. op.kind \in {"load", "erase", "pgm", "erase_pgm"}
  BY <1>1 DEF TInv, TypeOK, OpKinds, NoOp
<1>6. ASSUME NEW a \in Addrs, PageBase(a) = op.base PROVE Effect(a) \in Allowed(a)
  <2>1. cells[a] \in Allowed(a) /\ Junk \in Allowed(a) /\ Erased \in Allowed(a)
    BY <1>4 DEF CellsAllowed, Allowed
  <2>2. op.kind \in {"pgm", "erase_pgm"} => buf[a % PageSize] \in Allowed(a)
    BY <1>4, <1>6 DEF BufferAllowed, PageCells
  <2>3. QED
    BY <1>5, <2>1, <2>2 DEF Effect, Programmed
<1>7. CellsAllowed'
  <2>1. SUFFICES ASSUME NEW a \in Addrs PROVE cells'[a] \in Allowed(a)
    BY <1>2 DEF CellsAllowed
  <2>2. cells[a] \in Allowed(a) /\ Junk \in Allowed(a)
    BY <1>4 DEF CellsAllowed, Allowed
  <2>3. \/ cells'[a] = cells[a] \/ cells'[a] = Junk
        \/ PageBase(a) = op.base /\ cells'[a] = Effect(a)
    BY DEF ChipDone, ChipDoneBad
  <2>4. QED
    BY <1>6, <2>2, <2>3
<1>8. BufferAllowed'
  <2>1. op'.kind = "idle"
    BY <1>1 DEF NoOp
  <2>2. SUFFICES ASSUME Label \in Filled \cup {"p_buf"}, NEW a \in PageCells(Page)
                 PROVE  buf'[a % PageSize] \in Allowed(a)
    BY <1>2, <2>1 DEF BufferAllowed
  <2>3. pc # "idle"
    BY <2>2 DEF Label, Filled
  <2>4. CASE op.kind = "load"
    <3>1. Label = "p_buf" /\ op.base = Page
      BY <1>1, <1>4, <2>3, <2>4 DEF Owned, Engaged
    <3>2. a \in Addrs /\ a \in Nat /\ PageBase(a) = Page
      BY TotalNat DEF PageCells, Addrs
    <3>3. a % PageSize \in Offsets /\ a = Page + (a % PageSize)
      BY <3>2, PageOf
    <3>4. buf' = [o \in Offsets |-> cells[Page + o]]
      BY <2>4, <3>1 DEF ChipDone, ChipDoneBad
    <3>5. buf'[a % PageSize] = cells[a]
      BY <3>3, <3>4
    <3>6. QED
      BY <1>4, <3>2, <3>5 DEF CellsAllowed
  <2>5. CASE op.kind # "load"
    <3>1. Label # "p_buf"
      BY <1>4, <1>5, <2>3, <2>5 DEF Owned, Engaged
    <3>2. QED
      BY <1>1, <1>4, <2>2, <2>5, <3>1 DEF BufferAllowed
  <2>6. QED
    BY <2>4, <2>5
<1>9. QED
  BY <1>7, <1>8

LEMMA AInit == Init => AInv
<1>1. SUFFICES ASSUME Init PROVE AInv
  OBVIOUS
<1>2. Label = "idle" /\ op.kind = "idle" /\ before = cells
  BY <1>1 DEF Init, Label, NoOp
<1>3. QED
  BY <1>2 DEF AInv, CellsAllowed, BufferAllowed, Allowed, Filled

LEMMA AStep == TInv /\ SInv /\ WInv /\ AInv /\ [Next]_vars => AInv'
<1>1. SUFFICES ASSUME TInv, SInv, WInv, AInv, [Next]_vars PROVE AInv'
  OBVIOUS
<1>2. inherited = {} => Engaged
  BY <1>1 DEF WInv, Owned
<1>3. ASSUME NEW rq \in Stores, FlashStore(rq) PROVE AInv'
  <2>1. /\ Begin("store", rq, rq.image) /\ chip' = chip
        /\ Label' \in {"p_load", "f_buf", "r_loop"}
    BY <1>3 DEF FlashStore, WriteStep, Label
  <2>2. QED
    BY <1>1, <2>1, ABegins DEF TInv
<1>4. ASSUME NEW rq \in Loads, ReadDataflash(rq) PROVE AInv'
  <2>1. /\ \E ram : Begin("load", rq, ram)
        /\ chip' = chip /\ Label' \in {"p_load", "f_buf", "r_loop"}
    BY <1>4, Awaited DEF ReadDataflash
  <2>2. QED
    BY <1>1, <2>1, ABegins DEF TInv
<1>5. ASSUME NEW rq, Refuse(rq) PROVE AInv'
  <2>1. /\ Label' = Label /\ done' = done
        /\ UNCHANGED <<chip, job, image, before, inherited>>
    BY <1>5 DEF Refuse, Label, history
  <2>2. QED
    BY <1>1, <2>1, AKept
<1>6. CASE MainMemoryToBufferTransfert
  <2>1. /\ pc = "p_load" /\ pc \in CommandSteps
        /\ Start("load", Dest) /\ Label' = "p_buf"
        /\ UNCHANGED <<cells, buf, job, done, image, before, inherited>>
    BY <1>6, Awaited DEF MainMemoryToBufferTransfert, Follow, history,
       CommandSteps, PartialSteps
  <2>2. CASE inherited = {}
    BY <1>1, <1>2, <2>1, <2>2, AStarts
  <2>3. CASE inherited # {}
    BY <2>1, <2>3 DEF AInv
  <2>4. QED
    BY <2>2, <2>3
<1>7. CASE PageErase
  <2>1. /\ pc \in {"p_erase", "f_erase"} /\ pc \in CommandSteps
        /\ Start("erase", Dest)
        /\ UNCHANGED <<cells, buf, job, done, image, before, inherited>>
    BY <1>7 DEF PageErase, history, CommandSteps, PartialSteps, FullSteps
  <2>2. CASE inherited = {}
    BY <1>1, <1>2, <2>1, <2>2, AStarts
  <2>3. CASE inherited # {}
    BY <2>1, <2>3 DEF AInv
  <2>4. QED
    BY <2>2, <2>3
<1>8. CASE WriteBufferToMain
  <2>1. /\ pc \in {"p_pgm", "f_pgm"} /\ pc \in CommandSteps
        /\ \E kind : Start(kind, Dest)
        /\ UNCHANGED <<cells, buf, job, done, image, before, inherited>>
    BY <1>8 DEF WriteBufferToMain, history, CommandSteps, PartialSteps, FullSteps
  <2>2. CASE inherited = {}
    BY <1>1, <1>2, <2>1, <2>2, AStarts
  <2>3. CASE inherited # {}
    BY <2>1, <2>3 DEF AInv
  <2>4. QED
    BY <2>2, <2>3
<1>9. CASE ContinuousRead
  <2>1. /\ Label' \notin Filled \cup {"p_buf"}
        /\ UNCHANGED <<chip, job, image, before, inherited>>
    BY <1>9 DEF ContinuousRead, history, Label, Filled
  <2>2. QED
    BY <1>1, <2>1, AKept
<1>10. CASE SpiTimeout
  <2>1. /\ Label' = "idle" /\ Label' \notin Filled \cup {"p_buf"}
        /\ UNCHANGED <<job, done, image, before, inherited>>
    BY <1>10 DEF SpiTimeout, Return, Label, history, Filled
  <2>2. pc \in CommandSteps
    BY <1>10 DEF SpiTimeout, CommandSteps, PartialSteps, FullSteps
  <2>3. CASE UNCHANGED chip
    BY <1>1, <2>1, <2>3, AKept
  <2>4. CASE /\ \E kind : /\ Start(kind, Dest)
                          /\ kind \in {"pgm", "erase_pgm"} =>
                                pc \in {"p_pgm", "f_pgm"}
             /\ UNCHANGED <<cells, buf>>
    <3>1. CASE inherited = {}
      BY <1>1, <1>2, <2>1, <2>2, <2>4, <3>1, AStarts
    <3>2. CASE inherited # {}
      BY <2>1, <3>2 DEF AInv
    <3>3. QED
      BY <3>1, <3>2
  <2>5. CASE /\ op' = op /\ cells' = cells
             /\ op.kind # "idle" => buf' = buf
    <3>1. \A a : Allowed(a)' = Allowed(a)
      BY <2>1 DEF Allowed
    <3>2. CellsAllowed => CellsAllowed'
      BY <2>5, <3>1 DEF CellsAllowed
    <3>3. BufferAllowed => BufferAllowed'
      BY <2>1, <2>5, <3>1 DEF BufferAllowed
    <3>4. QED
      BY <1>1, <2>1, <3>2, <3>3 DEF AInv
  <2>6. QED
    BY <1>10, <2>3, <2>4, <2>5 DEF SpiTimeout, WriteBuffer
<1>11. CASE PollReady
  <2>1. UNCHANGED <<chip, job, image, before, inherited>>
    BY <1>11 DEF PollReady, Continue, history
  <2>2. CASE next # "advance"
    <3>1. pc' = next /\ done' = done /\ pc = "wait" /\ next # "wait"
      BY <1>1, <1>11, <2>2 DEF PollReady, Continue, TInv, TypeOK, Resumptions,
         PartialSteps, FullSteps
    <3>2. Label' = Label /\ done' = done
      BY <3>1 DEF Label
    <3>3. QED
      BY <1>1, <2>1, <3>2, AKept
  <2>3. CASE next = "advance"
    <3>1. Label' \in {"p_load", "f_buf", "r_loop"}
      BY <1>11, <2>3 DEF PollReady, Continue, Await, WriteStep, Label
    <3>2. Label' \notin Filled \cup {"p_buf"}
      BY <3>1 DEF Filled
    <3>3. QED
      BY <1>1, <2>1, <3>2, AKept
  <2>4. QED
    BY <2>2, <2>3
<1>12. CASE PollBusy
  <2>1. /\ UNCHANGED <<chip, job, image, before, inherited>>
        /\ \/ Label' = Label /\ done' = done
           \/ Label' \notin Filled \cup {"p_buf"}
    BY <1>12 DEF PollBusy, Return, Label, history, Filled
  <2>2. QED
    BY <1>1, <2>1, AKept
<1>13. CASE ReadLoop \/ Compare \/ CpuReset
  <2>1. /\ UNCHANGED <<chip, job, image, before, inherited>>
        /\ Label' \notin Filled \cup {"p_buf"}
    BY <1>13 DEF ReadLoop, Compare, CpuReset, Return, Await, Label, history, Filled
  <2>2. QED
    BY <1>1, <2>1, AKept
<1>14. CASE PowerLoss
  <2>1. /\ Label' = "idle" /\ op'.kind = "idle"
        /\ UNCHANGED <<job, image, before, inherited>>
        /\ \A a \in Addrs : cells'[a] = Junk \/ cells'[a] = cells[a]
    BY <1>14 DEF PowerLoss, Return, Label, history, NoOp
  <2>2. CellsAllowed => CellsAllowed'
    BY <2>1 DEF CellsAllowed, Allowed
  <2>3. BufferAllowed'
    BY <2>1 DEF BufferAllowed, Filled
  <2>4. QED
    BY <1>1, <2>1, <2>2, <2>3 DEF AInv
<1>15. CASE UNCHANGED vars
  <2>1. /\ Label' = Label /\ done' = done
        /\ UNCHANGED <<chip, job, image, before, inherited>>
    BY <1>15 DEF vars, driver, history, Label
  <2>2. QED
    BY <1>1, <2>1, AKept
<1>16. QED
  BY <1>1, <1>3, <1>4, <1>5, <1>6, <1>7, <1>8, <1>9, <1>10, <1>11, <1>12,
     <1>13, <1>14, <1>15, ABuffer, ADone DEF Next, DriverStep

-----------------------------------------------------------------------------
(***************************************************************************)
(* The driver and the chip implement the storage of FlashStorage, if every *)
(* call waits until the chip is idle.  A command, a poll and a chunk read  *)
(* change nothing the storage shows; the chip ending an operation is a     *)
(* Disturb; a time-out, a reset or a power failure is a Break.             *)
(***************************************************************************)

\* The refinement mapping, by name.
Loose == IF job.kind = "store" /\ pc # "idle" THEN JobTouched
         ELSE IF Writing THEN PageCells(op.base) ELSE {}
Answer == IF result = "ok" /\ job.kind = "load" THEN scratch ELSE <<>>

RInv ==
    /\ TInv /\ SInv /\ WInv /\ AInv
    /\ inherited = {}

LEMMA RInductive ==
    ASSUME ~BusyStart
    PROVE  Spec => []RInv
<1>1. Init => RInv
  <2>1. Init => inherited = {}
    BY DEF Init
  <2>2. QED
    BY <2>1, TInvInit, SInvInit, WInit, AInit DEF RInv
<1>2. RInv /\ [Next]_vars => RInv'
  <2>1. SUFFICES ASSUME RInv, [Next]_vars PROVE inherited' = {}
    BY TInvStep, SInvStep, WStep, AStep DEF RInv
  <2>2. ASSUME NEW kind, NEW rq, NEW ram, Begin(kind, rq, ram)
        PROVE  inherited' = {}
    BY <2>2 DEF Begin
  <2>3. CASE \E rq \in Stores : FlashStore(rq)
    BY <2>2, <2>3 DEF FlashStore
  <2>4. CASE \E rq \in Loads : ReadDataflash(rq)
    BY <2>2, <2>4 DEF ReadDataflash
  <2>5. CASE UNCHANGED inherited
    BY <2>1, <2>5 DEF RInv
  <2>6. QED
    BY <2>1, <2>3, <2>4, <2>5 DEF Next, DriverStep, Refuse,
       MainMemoryToBufferTransfert, DataFlashWriteBuffer, PageErase,
       WriteBufferToMain, ContinuousRead, SpiTimeout, PollReady, Continue,
       PollBusy, ReadLoop, Compare, ChipDone, ChipDoneBad, CpuReset, PowerLoss, vars,
       history
<1>3. QED
  BY <1>1, <1>2, PTL DEF Spec

\* The cells the chip may be changing are loose.
LEMMA WorkedOnIsLoose ==
    ASSUME RInv, Writing
    PROVE  PageCells(op.base) \subseteq Loose
BY DEF RInv, SInv, Placed, Loose, Writing, OpKinds

\* While a read runs, nothing is loose.
LEMMA LoadIsQuiet ==
    ASSUME RInv, pc # "idle", job.kind # "store"
    PROVE  op.kind = "idle"
<1>1. Label \notin WriteSteps /\ Engaged
  BY DEF RInv, WInv, Owned, Writer
<1>2. op.kind \in {"load", "erase", "pgm", "erase_pgm", "idle"}
  BY DEF RInv, TInv, TypeOK, OpKinds, NoOp
<1>3. QED
  BY <1>1, <1>2 DEF Engaged, WriteSteps, PartialSteps, FullSteps

LEMMA MapStutter ==
    ASSUME UNCHANGED <<cells, before, job, image, Loose, Answer, result>>,
           (pc' = "idle") <=> (pc = "idle")
    PROVE  UNCHANGED Storage!svars
BY DEF Storage!svars, Loose, Answer

\* The storage has the driver's pages.
LEMMA MapGeometry ==
    /\ Storage!Total = Total /\ Storage!Addrs = Addrs
    /\ \A d, n : Storage!Touched(d, n) = Touched(d, n)
<1>1. Storage!Total = Total
  BY DEF Storage!Total, Total
<1>2. Storage!Addrs = Addrs
  BY <1>1 DEF Storage!Addrs, Addrs
<1>3. ASSUME NEW d, NEW n PROVE Storage!Touched(d, n) = Touched(d, n)
  <2>1. \A a : Storage!PageBase(a) = PageBase(a)
    BY DEF Storage!PageBase, PageBase
  <2>2. Storage!Target(d, n) = Target(d, n)
    BY <1>2 DEF Storage!Target, Target
  <2>3. QED
    BY <1>2, <2>1, <2>2 DEF Storage!Touched, Touched
<1>4. QED
  BY <1>1, <1>2, <1>3

\* What Possible says of a cell is what Allowed says.
LEMMA MapPossible == \A a : Storage!Possible(a) = Allowed(a)
BY DEF Storage!Possible, Storage!InCall, Allowed

LEMMA MapDisturbed ==
    ASSUME DOMAIN cells' = Addrs,
           \A a \in Addrs : \/ cells'[a] = cells[a]
                            \/ a \in Loose /\ cells'[a] \in Allowed(a)
    PROVE  Storage!Disturbed
BY MapPossible, MapGeometry DEF Storage!Disturbed, Loose

LEMMA MapDisturb ==
    ASSUME Storage!Disturbed, Loose' \subseteq Loose,
           UNCHANGED <<before, job, image, Answer, result>>,
           (pc' = "idle") <=> (pc = "idle")
    PROVE  Storage!StorageNext
<1>1. Storage!Disturb
  BY DEF Storage!Disturb, Loose, Answer
<1>2. QED
  BY <1>1 DEF Storage!StorageNext

LEMMA MapBreak ==
    ASSUME Storage!Disturbed, Loose' \subseteq Loose,
           UNCHANGED <<before, job, image>>, pc' = "idle",
           result' \in {"notfound", "inval", "wrfail", "verifyfail", "readfail",
                        "none"}
    PROVE  Storage!StorageNext
<1>1. Storage!Break
  BY DEF Storage!Break, Storage!Errors, Loose
<1>2. QED
  BY <1>1 DEF Storage!StorageNext

\* A call that is cut off leaves at most what was loose before.
LEMMA CutOff ==
    ASSUME RInv, RInv', pc # "idle", pc' = "idle", UNCHANGED job,
           op' = op \/ job.kind = "store"
    PROVE  Loose' \subseteq Loose
<1>1. Loose' = IF Writing' THEN PageCells(op.base)' ELSE {}
  BY DEF Loose
<1>2. CASE job.kind = "store"
  <2>1. Loose = JobTouched /\ JobTouched' = JobTouched
    BY <1>2 DEF Loose, JobTouched
  <2>2. Writing' => PageCells(op.base)' \subseteq JobTouched
    BY <2>1 DEF RInv, SInv, Placed, Writing, OpKinds
  <2>3. QED
    BY <1>1, <2>1, <2>2
<1>3. CASE job.kind # "store"
  <2>1. op.kind = "idle" /\ op' = op
    BY <1>3, LoadIsQuiet
  <2>2. QED
    BY <1>1, <2>1 DEF Writing, OpKinds
<1>4. QED
  BY <1>2, <1>3

\* An error is reported, or the processor restarts; the cells stay.
LEMMA MapFailure ==
    ASSUME RInv, RInv', pc # "idle", pc' = "idle",
           UNCHANGED <<cells, before, job, image>>,
           op' = op \/ job.kind = "store",
           result' \in {"wrfail", "verifyfail", "readfail", "none"}
    PROVE  Storage!StorageNext
<1>1. Loose' \subseteq Loose
  BY CutOff
<1>2. DOMAIN cells' = Addrs
  BY DEF RInv, TInv, TypeOK
<1>3. Storage!Disturbed
  BY <1>2, MapDisturbed
<1>4. QED
  BY <1>1, <1>3, MapBreak

LEMMA MapStore ==
    ASSUME RInv, ~BusyStart, NEW rq \in Stores, FlashStore(rq)
    PROVE  Storage!StorageNext
<1>1. /\ pc = "idle" /\ op.kind = "idle" /\ Accepted(rq.addr, rq.len)
      /\ job' = [kind |-> "store", addr |-> rq.addr, len |-> rq.len]
      /\ image' = rq.image /\ before' = cells /\ cells' = cells
      /\ result' = "none" /\ pc' # "idle"
  BY DEF FlashStore, Begin, WriteStep, chip
<1>2. job'.kind = "store" /\ job'.addr = rq.addr /\ job'.len = rq.len
  BY <1>1
<1>3. ~Writing
  BY <1>1 DEF Writing, OpKinds
<1>4. JobTouched' = Storage!Touched(rq.addr, rq.len)
  BY <1>2, MapGeometry DEF JobTouched
<1>5. Storage!Store(rq)
  BY <1>1, <1>2, <1>3, <1>4, MapGeometry
     DEF Storage!Store, Storage!Call, Storage!Fits, Accepted
<1>6. QED
  BY <1>5 DEF Storage!StorageNext

LEMMA MapLoad ==
    ASSUME RInv, ~BusyStart, NEW rq \in Loads, ReadDataflash(rq)
    PROVE  Storage!StorageNext
<1>1. /\ pc = "idle" /\ op.kind = "idle" /\ Accepted(rq.addr, rq.len)
      /\ job' = [kind |-> "load", addr |-> rq.addr, len |-> rq.len]
      /\ image' = [i \in 0 .. (rq.len - 1) |-> Junk]
      /\ before' = cells /\ cells' = cells /\ op' = op
      /\ result' = "none" /\ pc' # "idle"
  BY DEF ReadDataflash, Begin, Await, chip
<1>2. job'.kind = "load" /\ job'.addr = rq.addr /\ job'.len = rq.len
  BY <1>1
<1>3. ~Writing /\ ~Writing'
  BY <1>1 DEF Writing, OpKinds
<1>4. Storage!Load(rq)
  BY <1>1, <1>2, <1>3, MapGeometry
     DEF Storage!Load, Storage!Call, Storage!Fits, Storage!Unread, Accepted
<1>5. QED
  BY <1>4 DEF Storage!StorageNext

LEMMA MapRefuse ==
    ASSUME RInv, NEW rq, Refuse(rq)
    PROVE  Storage!StorageNext
<1>1. /\ pc = "idle" /\ result' \in {"notfound", "inval"}
      /\ UNCHANGED <<cells, op, pc, job, image, before>>
  BY DEF Refuse, chip, history
<1>2. JobTouched' = JobTouched /\ (Writing' <=> Writing)
  BY <1>1 DEF JobTouched, Writing
<1>3. Storage!Refuse
  BY <1>1, <1>2 DEF Storage!Refuse
<1>4. QED
  BY <1>3 DEF Storage!StorageNext

\* "Flash WR OK", or the last chunk of a read.
LEMMA MapSuccess ==
    ASSUME RInv, RInv', pc # "idle", op.kind = "idle",
           pc' = "idle", result' = "ok",
           UNCHANGED <<cells, op, before, job, image, scratch>>
    PROVE  Storage!StorageNext
<1>1. ~Writing'
  BY DEF Writing, OpKinds
<1>2. job.kind \in {"store", "load"} /\ scratch \in Ram(job.len)
  BY DEF RInv, TInv, TypeOK, Jobs
<1>3. CASE job.kind = "store"
  <2>1. \A i \in 0 .. (job.len - 1) : cells[job.addr + i] = image[i]
    BY <1>3 DEF RInv, SInv, VerifiedStored, Stored
  <2>2. Storage!Succeed
    BY <1>1, <1>3, <2>1 DEF Storage!Succeed
  <2>3. QED
    BY <2>2 DEF Storage!StorageNext
<1>4. CASE job.kind = "load"
  <2>1. \A i \in 0 .. (job.len - 1) : scratch[i] = cells[job.addr + i]
    BY <1>4 DEF RInv, SInv, LoadedFaithfully
  <2>2. scratch = [i \in 0 .. (job.len - 1) |-> cells[job.addr + i]]
    BY <1>2, <2>1 DEF Ram
  <2>3. Storage!Succeed
    BY <1>1, <1>4, <2>2 DEF Storage!Succeed
  <2>4. QED
    BY <2>3 DEF Storage!StorageNext
<1>5. QED
  BY <1>2, <1>3, <1>4

\* The chip ends an operation: only loose cells change.
LEMMA MapDone ==
    ASSUME RInv, RInv', ChipDone \/ ChipDoneBad
    PROVE  Storage!StorageNext
<1>1. /\ op.kind # "idle" /\ op' = NoOp
      /\ UNCHANGED <<driver, image, before>>
  BY DEF ChipDone, ChipDoneBad, OpKinds, history
<1>2. DOMAIN cells' = Addrs /\ (\A a \in Addrs : cells'[a] \in Allowed(a)')
  BY DEF RInv, TInv, TypeOK, AInv, CellsAllowed
<1>3. \A a : Allowed(a)' = Allowed(a)
  BY <1>1 DEF Allowed, driver
<1>4. ASSUME NEW a \in Addrs PROVE cells'[a] = cells[a] \/ a \in Loose
  <2>1. CASE op.kind = "load"
    BY <2>1 DEF ChipDone, ChipDoneBad, Effect
  <2>2. CASE op.kind # "load"
    <3>1. Writing
      BY <1>1, <2>2 DEF Writing, RInv, TInv, TypeOK, OpKinds, NoOp
    <3>2. cells'[a] = cells[a] \/ a \in PageCells(op.base)
      BY DEF ChipDone, ChipDoneBad, PageCells
    <3>3. QED
      BY <3>1, <3>2, WorkedOnIsLoose
  <2>3. QED
    BY <2>1, <2>2
<1>5. Storage!Disturbed
  BY <1>2, <1>3, <1>4, MapDisturbed
<1>6. Loose' \subseteq Loose
  BY <1>1 DEF Loose, driver, JobTouched, Writing, NoOp, OpKinds
<1>7. Answer' = Answer
  BY <1>1 DEF Answer, driver
<1>8. QED
  BY <1>1, <1>5, <1>6, <1>7, MapDisturb DEF driver

\* Power fails: the page the chip was changing is lost.
LEMMA MapPowerLoss ==
    ASSUME RInv, RInv', PowerLoss
    PROVE  Storage!StorageNext
<1>1. /\ pc' = "idle" /\ result' = "none" /\ op' = NoOp
      /\ UNCHANGED <<job, image, before>>
  BY DEF PowerLoss, Return, history
<1>2. DOMAIN cells' = Addrs
  BY DEF PowerLoss
<1>3. ASSUME NEW a \in Addrs
      PROVE  \/ cells'[a] = cells[a]
             \/ a \in Loose /\ cells'[a] \in Allowed(a)
  <2>1. CASE Writing /\ PageBase(a) = op.base
    <3>1. cells'[a] = Junk /\ a \in PageCells(op.base)
      BY <2>1 DEF PowerLoss, Writing, PageCells
    <3>2. QED
      BY <2>1, <3>1, WorkedOnIsLoose DEF Allowed
  <2>2. CASE ~(Writing /\ PageBase(a) = op.base)
    BY <2>2 DEF PowerLoss, Writing
  <2>3. QED
    BY <2>1, <2>2
<1>4. Storage!Disturbed
  BY <1>2, <1>3, MapDisturbed
<1>5. Loose' \subseteq Loose
  BY <1>1 DEF Loose, Writing, NoOp, OpKinds
<1>6. QED
  BY <1>1, <1>4, <1>5, MapBreak

LEMMA MapInit == Init => Storage!StorageInit
<1>1. SUFFICES ASSUME Init PROVE Storage!StorageInit
  OBVIOUS
<1>2. /\ job.kind = "load" /\ job.addr = 0 /\ job.len = 1
      /\ image = [i \in 0 .. 0 |-> Junk]
      /\ pc = "idle" /\ result = "none" /\ op.kind = "idle"
      /\ cells \in Contents /\ before = cells
  BY <1>1 DEF Init, NoOp
<1>3. Storage!Unread(1) = [i \in 0 .. 0 |-> Junk]
  BY DEF Storage!Unread
<1>4. ~Writing
  BY <1>2 DEF Writing, OpKinds
<1>5. QED
  BY <1>2, <1>3, <1>4 DEF Storage!StorageInit, Storage!NoCall

\* Nothing the storage shows changes.
LEMMA MapUnseen ==
    ASSUME RInv, RInv', UNCHANGED <<cells, job, image, before, result>>,
           (pc' = "idle") <=> (pc = "idle"),
           op' = op \/ (pc # "idle" /\ job.kind = "store"),
           scratch' = scratch \/ result # "ok"
    PROVE  UNCHANGED Storage!svars
<1>1. Loose' = Loose
  <2>1. CASE op' = op
    BY <2>1 DEF Loose, JobTouched, Writing
  <2>2. CASE pc # "idle" /\ job.kind = "store"
    BY <2>2 DEF Loose, JobTouched
  <2>3. QED
    BY <2>1, <2>2
<1>2. Answer' = Answer
  BY DEF Answer
<1>3. QED
  BY <1>1, <1>2, MapStutter

LEMMA MapStep ==
    ASSUME ~BusyStart, RInv, RInv', [Next]_vars
    PROVE  Storage!StorageNext \/ UNCHANGED Storage!svars
<1>1. /\ result = "ok" => pc = "idle"
      /\ Label \in WriteSteps => job.kind = "store"
  BY DEF RInv, SInv, AtRest, WInv, Owned, Writer
<1>2. Failure \in {"wrfail", "verifyfail", "readfail"}
  BY DEF Failure
<1>3. CASE \/ MainMemoryToBufferTransfert \/ DataFlashWriteBuffer
           \/ PageErase \/ WriteBufferToMain
  <2>1. /\ pc \in PartialSteps \cup FullSteps /\ pc' = "wait"
        /\ UNCHANGED <<cells, job, image, before, result>>
    BY <1>3 DEF MainMemoryToBufferTransfert, DataFlashWriteBuffer, PageErase,
       WriteBufferToMain, Await, history, PartialSteps, FullSteps
  <2>2. Label = pc /\ pc # "idle" /\ Label \in WriteSteps
    BY <2>1 DEF Label, WriteSteps, PartialSteps, FullSteps
  <2>3. QED
    BY <1>1, <2>1, <2>2, MapUnseen
<1>4. CASE ContinuousRead
  <2>1. /\ pc = "r_chunk" /\ pc' = "r_loop" /\ op' = op
        /\ UNCHANGED <<cells, job, image, before, result>>
    BY <1>4 DEF ContinuousRead, chip, history
  <2>2. QED
    BY <1>1, <2>1, MapUnseen
<1>5. CASE SpiTimeout
  <2>1. /\ pc \in CommandSteps /\ pc' = "idle" /\ result' = Failure
        /\ UNCHANGED <<cells, before, job, image>>
    BY <1>5 DEF SpiTimeout, Return, chip, history, CommandSteps, PartialSteps,
       FullSteps
  <2>2. op' = op \/ pc \in PartialSteps \cup FullSteps
    BY <1>5 DEF SpiTimeout, chip, PartialSteps, FullSteps
  <2>3. pc # "idle" /\ (pc \in PartialSteps \cup FullSteps => job.kind = "store")
    BY <1>1, <2>1 DEF Label, WriteSteps, CommandSteps, PartialSteps, FullSteps
  <2>4. QED
    BY <1>2, <2>1, <2>2, <2>3, MapFailure
<1>6. CASE PollReady
  <2>1. /\ pc = "wait" /\ pc' # "idle"
        /\ UNCHANGED <<chip, job, scratch, result, history>>
    BY <1>6 DEF PollReady, Continue, Await, WriteStep, RInv, TInv, TypeOK, Resumptions,
       PartialSteps, FullSteps
  <2>2. QED
    BY <2>1, MapUnseen DEF chip, history
<1>7. CASE PollBusy
  <2>1. pc = "wait" /\ UNCHANGED <<chip, job, scratch, history>>
    BY <1>7 DEF PollBusy
  <2>2. CASE polls + 1 < MaxPolls
    <3>1. pc' = pc /\ result' = result
      BY <1>7, <2>2 DEF PollBusy
    <3>2. QED
      BY <2>1, <3>1, MapUnseen DEF chip, history
  <2>3. CASE ~(polls + 1 < MaxPolls)
    <3>1. pc' = "idle" /\ result' = Failure
      BY <1>7, <2>3 DEF PollBusy, Return
    <3>2. QED
      BY <1>2, <2>1, <3>1, MapFailure DEF chip, history
  <2>4. QED
    BY <2>2, <2>3
<1>8. CASE ReadLoop
  <2>1. /\ pc = "r_loop" /\ op.kind = "idle"
        /\ UNCHANGED <<chip, job, done, scratch, history>>
    BY <1>8 DEF ReadLoop, RInv, SInv, ReadBack, ReadSteps
  <2>2. \/ pc' # "idle" /\ result' = result
        \/ pc' = "idle" /\ result' = "ok"
    BY <1>8 DEF ReadLoop, Await, Return
  <2>3. CASE pc' # "idle" /\ result' = result
    BY <2>1, <2>3, MapUnseen DEF chip, history
  <2>4. CASE pc' = "idle" /\ result' = "ok"
    BY <2>1, <2>4, MapSuccess DEF chip, history
  <2>5. QED
    BY <2>2, <2>3, <2>4
<1>9. CASE Compare
  <2>1. /\ pc = "compare" /\ op.kind = "idle"
        /\ UNCHANGED <<chip, job, done, scratch, history>>
    BY <1>9 DEF Compare, RInv, SInv, ReadBack, ReadSteps
  <2>2. pc' = "idle" /\ result' \in {"ok", "verifyfail"}
    BY <1>9 DEF Compare, Return
  <2>3. CASE result' = "ok"
    BY <2>1, <2>2, <2>3, MapSuccess DEF chip, history
  <2>4. CASE result' = "verifyfail"
    BY <2>1, <2>2, <2>4, MapFailure DEF chip, history
  <2>5. QED
    BY <2>2, <2>3, <2>4
<1>10. CASE CpuReset
  <2>1. /\ pc # "idle" /\ pc' = "idle" /\ result' = "none"
        /\ UNCHANGED <<chip, job, history>>
    BY <1>10 DEF CpuReset, Return
  <2>2. QED
    BY <2>1, MapFailure DEF chip, history
<1>11. CASE UNCHANGED vars
  BY <1>11, MapUnseen DEF vars, chip, driver, history
<1>12. QED
  BY <1>3, <1>4, <1>5, <1>6, <1>7, <1>8, <1>9, <1>10, <1>11, MapStore, MapLoad,
     MapRefuse, MapDone, MapPowerLoss DEF Next, DriverStep

\* The driver and the chip keep what board.c relies on: a store that succeeds
\* is complete, one that is cut off leaves old, new, erased or lost cells on
\* its own pages only, and a read is exact.
THEOREM DriverImplementsStorage ==
    ASSUME ~BusyStart
    PROVE  Spec => ImplementsStorage
<1>1. RInv /\ RInv' /\ [Next]_vars => [Storage!StorageNext]_(Storage!svars)
  BY MapStep
<1>2. QED
  BY RInductive, MapInit, <1>1, PTL DEF Spec, ImplementsStorage,
     Storage!StorageSpec
=============================================================================
