---------------------------- MODULE TimerProofs -----------------------------
(***************************************************************************)
(* What Timer promises, for every width of the counter and of the time     *)
(* stamp and however rarely the counter is read.                           *)
(***************************************************************************)
EXTENDS Timer, Division

\* The counter stands where the ticks since the last read have put it.
CounterMoved == pc # "off" => counter = (lastinc + gap) % Wrap

\* The time stamp never runs ahead.
NotAhead == pc # "off" => timestamp + gap <= elapsed

\* A gap of a whole turn is remembered.
GapRemembered == pc # "off" /\ ~missed => gap < Wrap

\* The ticks that went unnoticed are whole turns.
TurnsLost ==
    pc # "off" /\ elapsed < Word
        => \E k \in Nat : elapsed - gap - timestamp = k * Wrap

IInv ==
    /\ TypeOK
    /\ CounterMoved
    /\ NotAhead
    /\ GapRemembered
    /\ TurnsLost
    /\ ExactWithinATurn
    /\ NeverEarly

\* get_timer_masked never counts more than what has passed, less only by whole
\* turns, and exactly that within a turn.
LEMMA PassedRight ==
    ASSUME TypeOK, counter = (lastinc + gap) % Wrap
    PROVE  /\ Passed \in Nat
           /\ Passed <= gap
           /\ gap < Wrap => Passed = gap
           /\ \E k \in Nat : gap - Passed = k * Wrap
<1>. DEFINE q == (lastinc + gap) \div Wrap
<1>1. /\ Wrap \in Nat \ {0} /\ gap \in Nat
      /\ lastinc \in 0 .. (Wrap - 1) /\ counter \in 0 .. (Wrap - 1)
  BY TimerAssumption DEF TypeOK
<1>2. q \in Nat /\ lastinc + gap = q * Wrap + counter
  <2>1. lastinc + gap \in Nat
    BY <1>1
  <2>2. /\ (lastinc + gap) \div Wrap \in Nat
        /\ lastinc + gap
              = (((lastinc + gap) \div Wrap) * Wrap) + ((lastinc + gap) % Wrap)
    BY <1>1, <2>1, DivMod
  <2>3. QED
    BY <2>2
<1>3. CASE counter >= lastinc
  <2>1. Passed = counter - lastinc
    BY <1>3 DEF Passed
  <2>2. gap - Passed = q * Wrap
    <3>1. q * Wrap \in Nat
      BY <1>1, <1>2
    <3>2. QED
      BY <1>1, <1>2, <2>1, <3>1
  <2>3. q * Wrap \in Nat
    BY <1>1, <1>2
  <2>4. gap < Wrap => q = 0
    <3>1. 0 < q => 0 * Wrap + Wrap <= q * Wrap
      BY <1>1, <1>2, MultipleBelow
    <3>2. QED
      BY <1>1, <1>2, <1>3, <2>1, <2>2, <2>3, <3>1
  <2>5. q = 0 => q * Wrap = 0
    BY <1>1
  <2>6. QED
    <3>1. gap < Wrap => Passed = gap
      BY <1>1, <2>1, <2>2, <2>4, <2>5
    <3>2. \E k \in Nat : gap - Passed = k * Wrap
      BY <1>2, <2>2
    <3>. HIDE DEF q
    <3>3. Passed \in Nat /\ Passed <= gap
      BY <1>1, <1>3, <2>1, <2>2, <2>3
    <3>4. QED
      BY <3>1, <3>2, <3>3
<1>4. CASE counter < lastinc
  <2>1. Passed = counter + Wrap - lastinc /\ Passed \in Nat
    BY <1>1, <1>4 DEF Passed
  <2>2. q # 0
    <3>1. q = 0 => q * Wrap = 0
      BY <1>1
    <3>2. QED
      BY <1>1, <1>2, <1>4, <3>1
  <2>3. q - 1 \in Nat
    BY <1>2, <2>2
  <2>4. q * Wrap = (q - 1) * Wrap + Wrap
    BY <1>1, <1>2
  <2>5. (q - 1) * Wrap \in Nat
    BY <1>1, <2>3
  <2>6. gap - Passed = (q - 1) * Wrap
    BY <1>1, <1>2, <2>1, <2>4, <2>5
  <2>7. gap < Wrap => q - 1 = 0
    <3>1. 0 < q - 1 => 0 * Wrap + Wrap <= (q - 1) * Wrap
      BY <1>1, <2>3, MultipleBelow
    <3>2. QED
      BY <1>1, <2>1, <2>3, <2>5, <2>6, <3>1
  <2>8. q - 1 = 0 => (q - 1) * Wrap = 0
    BY <1>1
  <2>9. QED
    <3>1. gap < Wrap => Passed = gap
      BY <1>1, <2>1, <2>6, <2>7, <2>8
    <3>2. \E k \in Nat : gap - Passed = k * Wrap
      BY <2>3, <2>6
    <3>. HIDE DEF q
    <3>3. Passed \in Nat /\ Passed <= gap
      BY <1>1, <2>1, <2>5, <2>6
    <3>4. QED
      BY <3>1, <3>2, <3>3
<1>5. QED
  BY <1>1, <1>3, <1>4

LEMMA InitHolds == Init => IInv
<1>1. SUFFICES ASSUME Init PROVE IInv
  OBVIOUS
<1>2. TypeOK
  <2>1. missed \in BOOLEAN
    BY <1>1 DEF Init
  <2>2. 0 \in 0 .. (Wrap - 1) /\ Wrap - 1 \in 0 .. (Wrap - 1)
        /\ 0 \in 0 .. (Word - 1)
    BY TimerAssumption
  <2>3. QED
    BY <1>1, <2>1, <2>2 DEF Init, TypeOK
<1>3. QED
  BY <1>1, <1>2
     DEF Init, IInv, CounterMoved, NotAhead, GapRemembered, TurnsLost,
         ExactWithinATurn, NeverEarly

\* After reset_timer_masked the time stamp is exact.
LEMMA ResetHolds ==
    ASSUME IInv, Reset, pc' = "waiting", tmo' \in Nat, usec' \in Nat
    PROVE  IInv'
<1>1. TypeOK'
  <2>1. missed' \in BOOLEAN
    BY DEF Reset
  <2>2. 0 \in 0 .. (Word - 1)
    BY TimerAssumption
  <2>3. QED
    BY <2>1, <2>2 DEF IInv, TypeOK, Reset
<1>2. CounterMoved'
  <2>1. counter' \in 0 .. (Wrap - 1) /\ lastinc' = counter' /\ gap' = 0
    BY DEF IInv, TypeOK, Reset
  <2>2. counter' % Wrap = counter'
    BY <2>1, SmallMod, TimerAssumption
  <2>3. lastinc' + gap' = counter'
    <3>1. counter' \in Int
      BY <2>1, TimerAssumption
    <3>2. \A z \in Int : z + 0 = z
      OBVIOUS
    <3>3. counter' + 0 = counter'
      BY <3>1, <3>2
    <3>4. QED
      BY <2>1, <3>3
  <2>4. QED
    BY <2>2, <2>3 DEF CounterMoved
<1>3. NotAhead' /\ GapRemembered' /\ ExactWithinATurn' /\ NeverEarly'
  BY TimerAssumption
     DEF Reset, NotAhead, GapRemembered, ExactWithinATurn, NeverEarly
<1>4. TurnsLost'
  <2>1. elapsed' - gap' - timestamp' = 0 * Wrap
    BY TimerAssumption DEF Reset
  <2>2. QED
    BY <2>1 DEF TurnsLost
<1>5. QED
  BY <1>1, <1>2, <1>3, <1>4 DEF IInv

LEMMA TickHolds ==
    ASSUME IInv, NEW n \in Steps, Tick(n)
    PROVE  IInv'
<1>1. /\ Wrap \in Nat \ {0} /\ Word \in Nat \ {0} /\ n \in Nat
      /\ gap \in Nat /\ elapsed \in Nat /\ missed \in BOOLEAN
      /\ lastinc \in 0 .. (Wrap - 1) /\ counter \in 0 .. (Wrap - 1)
      /\ timestamp \in 0 .. (Word - 1)
  BY TimerAssumption DEF IInv, TypeOK
<1>2. /\ counter' = (counter + n) % Wrap
      /\ elapsed' = elapsed + n /\ gap' = gap + n
      /\ missed' = (missed \/ gap' >= Wrap)
      /\ lastinc' = lastinc /\ timestamp' = timestamp
      /\ pc' = pc /\ tmo' = tmo /\ usec' = usec
  BY DEF Tick
<1>3. TypeOK'
  <2>1. counter' \in 0 .. (Wrap - 1)
    BY <1>1, <1>2, DivMod
  <2>2. missed' \in BOOLEAN
    BY <1>2
  <2>3. QED
    BY <1>1, <1>2, <2>1, <2>2 DEF IInv, TypeOK
<1>4. CounterMoved'
  <2>1. SUFFICES ASSUME pc # "off"
                 PROVE  (counter + n) % Wrap = (lastinc + gap + n) % Wrap
    BY <1>1, <1>2 DEF CounterMoved
  <2>2. counter = (lastinc + gap) % Wrap
    BY <2>1 DEF IInv, CounterMoved
  <2>. DEFINE q == (lastinc + gap) \div Wrap
             x == counter + n
             y == lastinc + gap + n
  <2>3. q \in Nat /\ lastinc + gap = q * Wrap + counter
    <3>1. lastinc + gap \in Nat
      BY <1>1
    <3>2. /\ (lastinc + gap) \div Wrap \in Nat
          /\ lastinc + gap
              = (((lastinc + gap) \div Wrap) * Wrap) + ((lastinc + gap) % Wrap)
      BY <1>1, <3>1, DivMod
    <3>3. QED
      BY <2>2, <3>2
  <2>4. x \in Nat /\ y \in Nat
    BY <1>1
  <2>5. /\ x \div Wrap \in Nat /\ x % Wrap \in 0 .. (Wrap - 1)
        /\ x = ((x \div Wrap) * Wrap) + (x % Wrap)
    BY <1>1, <2>4, DivMod
  <2>6. /\ y \div Wrap \in Nat /\ y % Wrap \in 0 .. (Wrap - 1)
        /\ y = ((y \div Wrap) * Wrap) + (y % Wrap)
    BY <1>1, <2>4, DivMod
  <2>7. (q + (x \div Wrap)) * Wrap = q * Wrap + (x \div Wrap) * Wrap
    BY <1>1, <2>3, <2>5
  <2>8. q * Wrap \in Nat /\ (x \div Wrap) * Wrap \in Nat
    BY <1>1, <2>3, <2>5
  <2>9. y = q * Wrap + x
    BY <1>1, <2>3, <2>8
  <2>10. (q + (x \div Wrap)) * Wrap + (x % Wrap)
            = ((y \div Wrap) * Wrap) + (y % Wrap)
    <3>. HIDE DEF x, y, q
    <3>1. QED
      BY <2>4, <2>5, <2>6, <2>7, <2>8, <2>9
  <2>11. q + (x \div Wrap) \in Nat
    BY <2>3, <2>5
  <2>12. x % Wrap = y % Wrap
    <3>. HIDE DEF x, y, q
    <3>1. QED
      <4>1. /\ Wrap \in Nat \ {0} /\ q + (x \div Wrap) \in Nat
            /\ y \div Wrap \in Nat
            /\ x % Wrap \in 0 .. (Wrap - 1) /\ y % Wrap \in 0 .. (Wrap - 1)
        BY <1>1, <2>5, <2>6, <2>11
      <4>. DEFINE k == q + (x \div Wrap)
                  m == y \div Wrap
                  r == x % Wrap
                  s == y % Wrap
      <4>2. /\ k \in Nat /\ m \in Nat
            /\ r \in 0 .. (Wrap - 1) /\ s \in 0 .. (Wrap - 1)
            /\ k * Wrap + r = m * Wrap + s
        BY <4>1, <2>10
      <4>. HIDE DEF k, m, r, s
      <4>3. r = s
        BY <4>1, <4>2, OneQuotient
      <4>4. QED
        BY <4>3 DEF r, s
  <2>13. QED
    BY <2>12
<1>5. NotAhead' /\ GapRemembered' /\ ExactWithinATurn'
  <2>1. ~missed' => ~missed /\ gap' < Wrap
    <3>1. ~missed' => ~missed /\ ~(gap' >= Wrap)
      BY <1>2
    <3>2. ~(gap' >= Wrap) => gap' < Wrap
      BY <1>1, <1>2
    <3>3. QED
      BY <3>1, <3>2
  <2>2. elapsed' < Word => elapsed < Word
    BY <1>1, <1>2
  <2>3. timestamp + gap <= elapsed => timestamp' + gap' <= elapsed'
    BY <1>1, <1>2
  <2>4. timestamp + gap = elapsed => timestamp' + gap' = elapsed'
    BY <1>1, <1>2
  <2>5. QED
    BY <1>2, <2>1, <2>2, <2>3, <2>4
       DEF IInv, NotAhead, GapRemembered, ExactWithinATurn
<1>6. NeverEarly'
  <2>1. elapsed' - gap' = elapsed - gap
    BY <1>1, <1>2
  <2>2. QED
    BY <1>2, <2>1 DEF IInv, NeverEarly
<1>7. TurnsLost'
  <2>1. elapsed' - gap' - timestamp' = elapsed - gap - timestamp
    BY <1>1, <1>2
  <2>2. elapsed' < Word => elapsed < Word
    BY <1>1, <1>2
  <2>3. QED
    BY <1>2, <2>1, <2>2 DEF IInv, TurnsLost
<1>8. QED
  BY <1>3, <1>4, <1>5, <1>6, <1>7 DEF IInv

LEMMA PollHolds ==
    ASSUME IInv, Poll
    PROVE  IInv'
<1>1. /\ Wrap \in Nat \ {0} /\ Word \in Nat \ {0}
      /\ gap \in Nat /\ elapsed \in Nat /\ missed \in BOOLEAN
      /\ lastinc \in 0 .. (Wrap - 1) /\ counter \in 0 .. (Wrap - 1)
      /\ timestamp \in 0 .. (Word - 1) /\ tmo \in Nat /\ usec \in Nat
  BY TimerAssumption DEF IInv, TypeOK
<1>2. /\ pc = "waiting"
      /\ timestamp' = (timestamp + Passed) % Word
      /\ lastinc' = counter /\ gap' = 0
      /\ pc' = IF timestamp' >= tmo THEN "done" ELSE "waiting"
      /\ counter' = counter /\ tmo' = tmo /\ usec' = usec
      /\ elapsed' = elapsed /\ missed' = missed
  BY DEF Poll
<1>3. /\ Passed \in Nat /\ Passed <= gap
      /\ gap < Wrap => Passed = gap
      /\ \E k \in Nat : gap - Passed = k * Wrap
  BY <1>2, PassedRight DEF IInv, CounterMoved
<1>4. /\ timestamp' \in 0 .. (Word - 1)
      /\ timestamp' <= timestamp + Passed
  <2>1. timestamp + Passed \in Nat
    BY <1>1, <1>3
  <2>2. (timestamp + Passed) % Word \in 0 .. (Word - 1)
    BY <1>1, <2>1, DivMod
  <2>3. (timestamp + Passed) % Word <= timestamp + Passed
    BY <1>1, <2>1, ModAtMost
  <2>4. QED
    BY <1>2, <2>2, <2>3
<1>5. timestamp + gap <= elapsed
  BY <1>2 DEF IInv, NotAhead
<1>6. timestamp' <= elapsed
  BY <1>1, <1>3, <1>4, <1>5
<1>7. elapsed < Word => timestamp' = timestamp + Passed
  BY <1>1, <1>2, <1>3, <1>5, SmallMod
<1>8. TypeOK'
  BY <1>1, <1>2, <1>4 DEF TypeOK
<1>9. CounterMoved'
  <2>1. counter % Wrap = counter
    BY <1>1, SmallMod
  <2>2. lastinc' + gap' = counter
    BY <1>1, <1>2
  <2>3. QED
    BY <1>2, <2>1, <2>2 DEF CounterMoved
<1>10. NotAhead' /\ GapRemembered'
  BY <1>1, <1>2, <1>4, <1>6 DEF NotAhead, GapRemembered
<1>11. NeverEarly'
  BY <1>1, <1>2, <1>4, <1>6 DEF NeverEarly
<1>12. ExactWithinATurn'
  BY <1>1, <1>2, <1>3, <1>4, <1>7
     DEF IInv, ExactWithinATurn, GapRemembered
<1>13. TurnsLost'
  <2>1. SUFFICES ASSUME elapsed < Word
                 PROVE  \E k \in Nat : elapsed - timestamp' = k * Wrap
    BY <1>1, <1>2, <1>4 DEF TurnsLost
  <2>2. PICK i \in Nat : elapsed - gap - timestamp = i * Wrap
    BY <1>2, <2>1 DEF IInv, TurnsLost
  <2>3. PICK j \in Nat : gap - Passed = j * Wrap
    BY <1>3
  <2>4. (i + j) * Wrap = i * Wrap + j * Wrap
    BY <1>1
  <2>5. elapsed - timestamp' = (i + j) * Wrap
    BY <1>1, <1>3, <1>7, <2>1, <2>2, <2>3, <2>4
  <2>6. i + j \in Nat
    OBVIOUS
  <2>7. QED
    BY <2>5, <2>6
<1>14. QED
  BY <1>8, <1>9, <1>10, <1>11, <1>12, <1>13 DEF IInv

LEMMA StepHolds == IInv /\ [Next]_vars => IInv'
<1>1. SUFFICES ASSUME IInv, [Next]_vars PROVE IInv'
  OBVIOUS
<1>2. CASE \E n \in Steps : Tick(n)
  BY <1>1, <1>2, TickHolds
<1>3. ASSUME NEW t \in Deadlines, Wait(t) PROVE IInv'
  BY <1>1, <1>3, ResetHolds, TimerAssumption DEF Wait
<1>4. ASSUME NEW us \in Delays, Udelay(us) PROVE IInv'
  <2>1. UsecToTicks(us) \in Nat
    <3>1. TicksPerMs \div 1000 \in Nat
      BY DivMod, TimerAssumption
    <3>2. us * (TicksPerMs \div 1000) \in Nat
      BY <3>1, TimerAssumption
    <3>3. QED
      BY <3>2, DivMod, TimerAssumption DEF UsecToTicks
  <2>2. QED
    BY <1>1, <1>4, <2>1, ResetHolds, TimerAssumption DEF Udelay
<1>5. CASE Poll
  BY <1>1, <1>5, PollHolds
<1>6. CASE UNCHANGED vars
  BY <1>1, <1>6
     DEF vars, IInv, TypeOK, CounterMoved, NotAhead, GapRemembered,
         TurnsLost, ExactWithinATurn, NeverEarly
<1>7. QED
  BY <1>1, <1>2, <1>3, <1>4, <1>5, <1>6 DEF Next

LEMMA Invariance == Spec => []IInv
BY InitHolds, StepHolds, PTL DEF Spec

\* The counter, the time stamp and the deadline keep to their widths.
THEOREM TypeCorrect == Spec => []TypeOK
<1>1. IInv => TypeOK
  BY DEF IInv
<1>2. QED
  BY <1>1, Invariance, PTL

\* No loop on the timer ends early, whatever the gaps between its reads.
THEOREM WaitsAreLongEnough == Spec => []NeverEarly
<1>1. IInv => NeverEarly
  BY DEF IInv
<1>2. QED
  BY <1>1, Invariance, PTL

\* Read at least once per turn of the counter, the timer is exact.
THEOREM TimeIsExact == Spec => []ExactWithinATurn
<1>1. IInv => ExactWithinATurn
  BY DEF IInv
<1>2. QED
  BY <1>1, Invariance, PTL

\* Otherwise it loses whole turns, and nothing else.
THEOREM OnlyTurnsAreLost == Spec => []LosesWholeTurns
<1>1. IInv => LosesWholeTurns
  <2>1. SUFFICES ASSUME IInv, pc # "off", elapsed < Word
                 PROVE  (elapsed - gap - timestamp) % Wrap = 0
    BY DEF LosesWholeTurns
  <2>2. PICK k \in Nat : elapsed - gap - timestamp = k * Wrap
    BY <2>1 DEF IInv, TurnsLost
  <2>3. QED
    BY <2>2, MultipleMod, TimerAssumption
<1>2. QED
  BY <1>1, Invariance, PTL
=============================================================================
