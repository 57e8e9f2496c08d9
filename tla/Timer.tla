------------------------------- MODULE Timer --------------------------------
(***************************************************************************)
(* The time base of src/interrupts.c: a free running 16-bit hardware       *)
(* counter, extended to 32 bits only when somebody reads it, and the loops *)
(* that wait for a deadline on it (udelay_masked, drain_uart, confirm_yes, *)
(* the autoboot countdown, the 'C' of rxmodem): all of them reset the      *)
(* timer, then read it until it reaches a number of ticks.                 *)
(***************************************************************************)
EXTENDS Integers

CONSTANTS
    Wrap,        \* TIMER_LOAD_VAL + 1: the counter counts modulo this
    Word,        \* a ulong counts modulo this
    TicksPerMs,  \* CFG_HZ / 1000
    Deadlines,   \* what callers wait for, in ticks
    Delays,      \* what callers of udelay ask for, in microseconds
    Steps,       \* ticks that may pass at a time
    MaxGap,      \* bound: ticks between two reads
    MaxElapsed   \* bound: ticks since the last reset

ASSUME TimerAssumption ==
    /\ Wrap \in Nat \ {0} /\ Word \in Nat \ {0} /\ TicksPerMs \in Nat
    /\ Deadlines \subseteq Nat /\ Delays \subseteq Nat
    /\ Steps \subseteq Nat
    /\ MaxGap \in Nat /\ MaxElapsed \in Nat

VARIABLES
    counter,    \* TC_CV
    lastinc,    \* the counter when it was last read
    timestamp,  \* ticks since reset_timer_masked, as far as noticed
    pc,         \* "off", then "waiting" for a deadline or "done"
    tmo,        \* the deadline
    \* history, read by properties only
    usec,       \* the argument of udelay, if the wait is one
    elapsed,    \* ticks since reset_timer_masked
    gap,        \* ticks since the counter was last read
    missed      \* a gap of a whole turn of the counter since the reset

vars == <<counter, lastinc, timestamp, pc, tmo, usec, elapsed, gap, missed>>

TypeOK ==
    /\ counter \in 0 .. (Wrap - 1) /\ lastinc \in 0 .. (Wrap - 1)
    /\ timestamp \in 0 .. (Word - 1)
    /\ pc \in {"off", "waiting", "done"}
    /\ tmo \in Nat /\ usec \in Nat /\ elapsed \in Nat /\ gap \in Nat
    /\ missed \in BOOLEAN

\* interrupt_init.
Init ==
    /\ counter = 0 /\ lastinc = Wrap - 1 /\ timestamp = 0
    /\ pc = "off" /\ tmo = 0 /\ usec = 0
    /\ elapsed = 0 /\ gap = 0 /\ missed = FALSE

-----------------------------------------------------------------------------
\* The hardware counts.
Tick(n) ==
    /\ gap + n <= MaxGap /\ elapsed + n <= MaxElapsed
    /\ counter' = (counter + n) % Wrap
    /\ elapsed' = elapsed + n /\ gap' = gap + n
    /\ missed' = (missed \/ gap' >= Wrap)
    /\ UNCHANGED <<lastinc, timestamp, pc, tmo, usec>>

\* Mutant of Reset: only the time stamp is cleared.
ResetKeepsLastinc ==
    /\ timestamp' = 0 /\ elapsed' = 0 /\ gap' = 0 /\ missed' = FALSE
    /\ UNCHANGED <<counter, lastinc>>

\* reset_timer_masked.
Reset ==
    /\ lastinc' = counter /\ timestamp' = 0
    /\ elapsed' = 0 /\ gap' = 0 /\ missed' = FALSE
    /\ UNCHANGED counter

\* A loop starts to wait, or, having seen a character, starts anew.
Wait(t) ==
    /\ Reset
    /\ pc' = "waiting" /\ tmo' = t /\ usec' = 0

\* udelay_masked; CFG_HZ / 1000000 is an integer division.
UsecToTicks(us) == (us * (TicksPerMs \div 1000)) % Word
Udelay(us) ==
    /\ pc # "waiting"
    /\ Reset
    /\ pc' = "waiting" /\ tmo' = UsecToTicks(us) /\ usec' = us

\* Mutants of Passed: one tick short at a wrap; wraps are not counted.
PassedOneShort ==
    IF counter >= lastinc THEN counter - lastinc
                          ELSE counter + (Wrap - 1) - lastinc
PassedNoWrap == IF counter >= lastinc THEN counter - lastinc ELSE 0

\* Ticks since the last read, as get_timer_masked works them out.
Passed ==
    IF counter >= lastinc THEN counter - lastinc
                          ELSE counter + (Wrap - 1) + 1 - lastinc

\* get_timer_masked and the test of the loop around it.
Poll ==
    /\ pc = "waiting"
    /\ timestamp' = (timestamp + Passed) % Word
    /\ lastinc' = counter /\ gap' = 0
    /\ pc' = IF timestamp' >= tmo THEN "done" ELSE "waiting"
    /\ UNCHANGED <<counter, tmo, usec, elapsed, missed>>

Next ==
    \/ \E n \in Steps : Tick(n)
    \/ \E t \in Deadlines : Wait(t)
    \/ \E us \in Delays : Udelay(us)
    \/ Poll

Spec == Init /\ [][Next]_vars

\* The clock runs, and the loop that waits runs.
FairSpec ==
    /\ Spec
    /\ WF_vars(\E n \in Steps : Tick(n))
    /\ WF_vars(Poll)

-----------------------------------------------------------------------------
\* A wait never ends before its ticks have passed, however rarely the counter
\* is read.
NeverEarly == pc = "done" => elapsed - gap >= tmo

\* Time is exact as long as no whole turn of the counter goes unread (and the
\* time stamp itself does not wrap, which takes 143 s).
ExactWithinATurn ==
    pc # "off" /\ ~missed /\ elapsed < Word => timestamp + gap = elapsed

\* Of what goes unread, whole turns are lost and nothing else.
LosesWholeTurns ==
    pc # "off" /\ elapsed < Word => (elapsed - gap - timestamp) % Wrap = 0

\* A wait that is not started anew for ever ends, if from some time on no
\* whole turn of the counter goes unread.
WaitEnds ==
    <>[][\A t \in Deadlines : ~Wait(t)]_vars /\ <>[](~missed)
        => []<>(pc # "waiting")

\* What udelay(usec) promises: that many microseconds at least.
DelayLongEnough == pc = "done" => elapsed * 1000 >= usec * TicksPerMs
=============================================================================
