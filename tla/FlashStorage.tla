---------------------------- MODULE FlashStorage ----------------------------
(***************************************************************************)
(* What flash_store and read_dataflash promise to the menu (board.c), with *)
(* no trace of commands, buffers or polls:                                 *)
(*   - a store that succeeds has put every byte of the image in place;     *)
(*   - a store that fails, or is cut off by a reset or a power failure, has*)
(*     left in each cell of the pages it touches the old value, the new    *)
(*     value, an erased cell or junk, and may leave one of these pages     *)
(*     changing for a while;                                               *)
(*   - nothing else ever changes, and a read that succeeds is exact.       *)
(* A call is only made once the chip is idle again (see the README).       *)
(***************************************************************************)
EXTENDS FlashGeometry

CONSTANTS Erased, Junk,
          Contents,     \* what the flash may hold at the start
          Stores,       \* requests [addr, len, image]
          Loads         \* requests [addr, len]

VARIABLES
    content,    \* the flash
    base,       \* its content when the last call began
    call,       \* the last call
    running,    \* has it not returned yet?
    loose,      \* cells that may still change on its account
    outcome,    \* what the last call reported
    answer      \* the bytes a successful read delivered

svars == <<content, base, call, running, loose, outcome, answer>>

Errors == {"notfound", "inval", "wrfail", "verifyfail", "readfail"}
Fits(rq) == rq.addr <= Total /\ rq.len <= Total - rq.addr
Unread(len) == [i \in 0 .. (len - 1) |-> Junk]
NoCall == [kind |-> "load", addr |-> 0, len |-> 1, image |-> Unread(1)]

InCall(a) == call.addr <= a /\ a < call.addr + call.len

\* What a cell that is loose may hold.
Possible(a) ==
    {base[a], Erased, Junk} \cup
        (IF InCall(a) THEN {call.image[a - call.addr]} ELSE {})

\* The cells that are loose may change, the others stay as they are.
Disturbed ==
    /\ DOMAIN content' = Addrs
    /\ \A a \in Addrs : \/ content'[a] = content[a]
                        \/ a \in loose /\ content'[a] \in Possible(a)

StorageInit ==
    /\ content \in Contents
    /\ base = content
    /\ call = NoCall
    /\ running = FALSE
    /\ loose = {}
    /\ outcome = "none"
    /\ answer = <<>>

Call(c, touched) ==
    /\ ~running /\ loose = {}
    /\ Fits(c)
    /\ call' = c
    /\ base' = content
    /\ running' = TRUE
    /\ loose' = touched
    /\ outcome' = "none"
    /\ answer' = <<>>
    /\ UNCHANGED content

Store(rq) ==
    Call([kind |-> "store", addr |-> rq.addr, len |-> rq.len,
          image |-> rq.image], Touched(rq.addr, rq.len))
Load(rq) ==
    Call([kind |-> "load", addr |-> rq.addr, len |-> rq.len,
          image |-> Unread(rq.len)], {})

Refuse ==
    /\ ~running
    /\ outcome' \in {"notfound", "inval"}
    /\ answer' = <<>>
    /\ UNCHANGED <<content, base, call, running, loose>>

\* The write and the chip at work.
Disturb ==
    /\ Disturbed
    /\ loose' \in SUBSET loose
    /\ UNCHANGED <<base, call, running, outcome, answer>>

\* Mutant of Succeed: "Flash WR OK" without the comparison of flash_verify.
SucceedUnverified ==
    /\ running
    /\ \/ /\ call.kind = "store"
          /\ answer' = <<>>
       \/ /\ call.kind = "load"
          /\ answer' = [i \in 0 .. (call.len - 1) |-> content[call.addr + i]]
    /\ running' = FALSE
    /\ outcome' = "ok"
    /\ loose' = {}
    /\ UNCHANGED <<content, base, call>>

Succeed ==
    /\ running
    /\ \/ /\ call.kind = "store"
          /\ \A i \in 0 .. (call.len - 1) :
                content[call.addr + i] = call.image[i]
          /\ answer' = <<>>
       \/ /\ call.kind = "load"
          /\ answer' = [i \in 0 .. (call.len - 1) |-> content[call.addr + i]]
    /\ running' = FALSE
    /\ outcome' = "ok"
    /\ loose' = {}
    /\ UNCHANGED <<content, base, call>>

\* An error is reported, or (outcome "none") the board restarts.
Break ==
    /\ outcome' \in Errors \cup {"none"}
    /\ running' = FALSE
    /\ answer' = <<>>
    /\ Disturbed
    /\ loose' \in SUBSET loose
    /\ UNCHANGED <<base, call>>

\* The caller has seen what a call reported; it is over.
Collect ==
    /\ ~running /\ loose = {}
    /\ call' = NoCall /\ base' = content
    /\ outcome' = "none" /\ answer' = <<>>
    /\ UNCHANGED <<content, running, loose>>

StorageNext ==
    \/ \E rq \in Stores : Store(rq)
    \/ \E rq \in Loads : Load(rq)
    \/ Refuse
    \/ Disturb
    \/ Succeed
    \/ Break
    \/ Collect

StorageSpec == StorageInit /\ [][StorageNext]_svars
=============================================================================
