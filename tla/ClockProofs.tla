---------------------------- MODULE ClockProofs -----------------------------
(***************************************************************************)
(* The clocks of the firmware and of the frequency counter are exact for   *)
(* every width of their digits.  A clock is wider than its register, so its*)
(* upper digits are counted by software, which may lag behind the register *)
(* by one overflow: the invariants say by how much, at each step of a read.*)
(***************************************************************************)
EXTENDS Timer, Counter, TLAPS

-----------------------------------------------------------------------------
(* timer_read()                                                            *)

\* An overflow is either counted in timer_h or shown by TOV1.
Counted == overflows = IF tov1 THEN Succ(timer_h, HIGH) ELSE timer_h

\* Between the reads: "high" is of timer_h as it is, and TCNT1 was taken at a
\* time whose overflow count is "high", unless TOV1 was or is set.
Halfway ==
    /\ at \in {"low", "again"} => hi = timer_h
    /\ at = "again" => instant.low = low /\ (tov1 \/ instant.high = hi)

TimerIInv == TimerTypeOK /\ Counted /\ Halfway /\ TimerExact

LEMMA SuccInRange ==
    ASSUME NEW size \in Nat \ {0, 1}, NEW n \in 0..size - 1
    PROVE  Succ(n, size) \in 0..size - 1
  BY DEF Succ

LEMMA TimerInvInit == TimerInit => TimerIInv
<1> SUFFICES ASSUME TimerInit PROVE TimerIInv
  OBVIOUS
<1>1. 0 \in 0..ROUND - 1 /\ 0 \in 0..HIGH - 1 /\ 0 \in 0..Ticks
  BY TimerAssumption
<1>2. TimerTypeOK
  BY <1>1 DEF TimerInit, TimerTypeOK, Times
<1>3. Counted /\ Halfway /\ TimerExact
  BY DEF TimerInit, Counted, Halfway, TimerExact
<1>4. QED
  BY <1>2, <1>3 DEF TimerIInv

LEMMA TimerInvNext == TimerIInv /\ [TimerNext]_timerVars => TimerIInv'
<1> SUFFICES ASSUME TimerIInv, [TimerNext]_timerVars PROVE TimerIInv'
  OBVIOUS
<1> USE TimerAssumption DEF TimerIInv, TimerTypeOK, Counted, Halfway, TimerExact, Times
<1>1. CASE Tick
  <2>1. Succ(tcnt, ROUND) \in 0..ROUND - 1 /\ Succ(overflows, HIGH) \in 0..HIGH - 1
    BY SuccInRange
  <2>2. ticks + 1 \in 0..Ticks
    BY <1>1 DEF Tick
  <2>3. TimerTypeOK'
    BY <1>1, <2>1, <2>2 DEF Tick
  <2>4. Counted'
    BY <1>1 DEF Tick
  <2>5. Halfway' /\ TimerExact'
    BY <1>1 DEF Tick
  <2>6. QED
    BY <2>3, <2>4, <2>5
<1>2. CASE Overflow
  BY <1>2, SuccInRange DEF Overflow
<1>3. CASE TimerRead
  BY <1>3 DEF TimerRead
<1>4. CASE TestFlag
  BY <1>4, SuccInRange DEF TestFlag
<1>5. CASE ReadHigh
  BY <1>5 DEF ReadHigh
<1>6. CASE ReadLow
  BY <1>6 DEF ReadLow
<1>7. CASE Return
  BY <1>7 DEF Return
<1>8. CASE UNCHANGED timerVars
  BY <1>8 DEF timerVars
<1>9. QED
  BY <1>1, <1>2, <1>3, <1>4, <1>5, <1>6, <1>7, <1>8 DEF TimerNext

\* Whatever timer_read() has returned is the time at one moment of the call.
THEOREM ReadIsExact == TimerSpec => []TimerExact
<1>1. TimerIInv => TimerExact
  BY DEF TimerIInv
<1>2. QED
  BY <1>1, TimerInvInit, TimerInvNext, PTL DEF TimerSpec

-----------------------------------------------------------------------------
(* The frequency counter.  An edge that brings a digit back to 0 makes it  *)
(* smaller than what was seen of it, and it stays smaller as long as it    *)
(* does not come round to that, so that one comparison finds every         *)
(* overflow.                                                               *)

\* How far TH0 has come since the firmware took cntr[1] from it.
Pos(x) == IF x >= cntr.th THEN x - cntr.th ELSE x - cntr.th + TH

\* The upper digits that belong to the value x of TH0.
ExtOf(x) == IF x < cntr.th THEN Inc(cntr.ext, EXT) ELSE cntr.ext

Behind ==
    /\ count.ext = ExtOf(count.th)
    /\ fw \in {"tl", "check"} => Pos(th) <= Pos(count.th)

HalfRead ==
    fw = "check" =>
        /\ cntr.tl = was.tl
        /\ Pos(th) <= Pos(was.th) /\ Pos(was.th) <= Pos(count.th)
        /\ was.ext = ExtOf(was.th)

AllRead == fw = "poll" => cntr = Low(was)

Round(c, d) == IF Less(c, d) THEN 1 ELSE 0

HighOf == count.high = was.high + Round(count, was)

HighOfTool ==
    tool \in Sampling =>
        /\ was.high = base + high + Round(was, last)
        /\ count.high = base + high + Round(count, last)

Unsampled ==
    /\ tool \in {"off", "first burst", "first measure"} => last = Low(Zero) /\ high = 0
    /\ tool \in {"off", "first burst", "first measure", "best"} => counted = 0

IInv == CounterTypeOK /\ Behind /\ HalfRead /\ AllRead /\ HighOf /\ HighOfTool
        /\ Unsampled /\ CountExact /\ BurstsAddUp
-----------------------------------------------------------------------------
(* One edge                                                                *)

LEMMA OneMoreType ==
    ASSUME NEW c \in Count
    PROVE  OneMore(c) \in Count
<1>1. CASE c.tl < TL - 1
  BY <1>1, CounterAssumption DEF OneMore, Count
<1>2. CASE ~(c.tl < TL - 1) /\ c.th < TH - 1
  <2>1. 0 \in 0..TL - 1 /\ c.th + 1 \in 0..TH - 1
    BY <1>2, CounterAssumption DEF Count
  <2>2. OneMore(c) = [c EXCEPT !.tl = 0, !.th = c.th + 1]
    BY <1>2 DEF OneMore
  <2>3. QED
    BY <2>1, <2>2 DEF Count
<1>3. CASE ~(c.tl < TL - 1) /\ ~(c.th < TH - 1)
  <2>1. Inc(c.ext, EXT) \in 0..EXT - 1
    BY CounterAssumption DEF Inc, Count
  <2>2. (IF c.ext = EXT - 1 THEN c.high + 1 ELSE c.high) \in Nat
    BY DEF Count
  <2>3. 0 \in 0..TH - 1 /\ 0 \in 0..TL - 1
    BY CounterAssumption
  <2>4. QED
    BY <1>3, <2>1, <2>2, <2>3 DEF OneMore, Count
<1>4. QED
  BY <1>1, <1>2, <1>3

\* An edge makes the count smaller than d exactly if it brings it round.
LEMMA OneMoreRound ==
    ASSUME NEW c \in Count, NEW d,
           d.ext \in 0..EXT - 1, d.th \in 0..TH - 1, d.tl \in 0..TL - 1,
           Low(OneMore(c)) # Low(d)
    PROVE  OneMore(c).high - c.high = Round(OneMore(c), d) - Round(c, d)
<1> DEFINE m == OneMore(c)
<1>1. m.ext # d.ext \/ m.th # d.th \/ m.tl # d.tl
  BY DEF Low
<1>2. CASE c.tl < TL - 1
  <2>1. m = [c EXCEPT !.tl = c.tl + 1]
    BY <1>2 DEF OneMore
  <2>2. m.tl = c.tl + 1 /\ m.th = c.th /\ m.ext = c.ext /\ m.high = c.high
    BY <2>1 DEF Count
  <2>3. QED
    BY <1>1, <1>2, <2>2, CounterAssumption DEF Round, Less, Count
<1>3. CASE c.tl = TL - 1 /\ c.th < TH - 1
  <2>1. m = [c EXCEPT !.tl = 0, !.th = c.th + 1]
    BY <1>3, CounterAssumption DEF OneMore
  <2>2. m.tl = 0 /\ m.th = c.th + 1 /\ m.ext = c.ext /\ m.high = c.high
    BY <2>1 DEF Count
  <2>3. QED
    BY <1>1, <1>3, <2>2, CounterAssumption DEF Round, Less, Count
<1>4. CASE c.tl = TL - 1 /\ c.th = TH - 1
  <2>1. m = [high |-> IF c.ext = EXT - 1 THEN c.high + 1 ELSE c.high,
             ext |-> Inc(c.ext, EXT), th |-> 0, tl |-> 0]
    BY <1>4, CounterAssumption DEF OneMore
  <2>2. m.tl = 0 /\ m.th = 0 /\ m.ext = Inc(c.ext, EXT)
        /\ m.high = IF c.ext = EXT - 1 THEN c.high + 1 ELSE c.high
    BY <2>1
  <2>3. QED
    BY <1>1, <1>4, <2>2, CounterAssumption DEF Round, Less, Count, Inc
<1>5. c.tl < TL - 1 \/ (c.tl = TL - 1 /\ c.th < TH - 1) \/ (c.tl = TL - 1 /\ c.th = TH - 1)
  BY CounterAssumption DEF Count
<1>6. QED
  BY <1>2, <1>3, <1>4, <1>5

\* An edge that does not bring TH0 back to cntr[1] takes it further from there,
\* and leaves the upper digits what they should be.
LEMMA OneMoreTH ==
    ASSUME NEW c \in Count, cntr \in Digits,
           OneMore(c).th # c.th => OneMore(c).th # cntr.th,
           c.ext = ExtOf(c.th)
    PROVE  /\ OneMore(c).ext = ExtOf(OneMore(c).th)
           /\ Pos(c.th) <= Pos(OneMore(c).th)
<1> DEFINE m == OneMore(c)
<1>2. CASE c.tl < TL - 1
  <2>1. m.th = c.th /\ m.ext = c.ext
    BY <1>2 DEF OneMore, Count
  <2>2. QED
    BY <2>1, CounterAssumption DEF ExtOf, Pos, Count, Digits
<1>3. CASE c.tl = TL - 1 /\ c.th < TH - 1
  <2>1. m.th = c.th + 1 /\ m.ext = c.ext
    BY <1>3, CounterAssumption DEF OneMore, Count
  <2>2. QED
    BY <2>1, CounterAssumption DEF ExtOf, Pos, Count, Digits
<1>4. CASE c.tl = TL - 1 /\ c.th = TH - 1
  <2>1. m.th = 0 /\ m.ext = Inc(c.ext, EXT)
    BY <1>4, CounterAssumption DEF OneMore
  <2>2. QED
    BY <1>4, <2>1, CounterAssumption DEF ExtOf, Pos, Count, Digits
<1>5. c.tl < TL - 1 \/ (c.tl = TL - 1 /\ c.th < TH - 1) \/ (c.tl = TL - 1 /\ c.th = TH - 1)
  BY CounterAssumption DEF Count
<1>6. QED
  BY <1>2, <1>3, <1>4, <1>5
-----------------------------------------------------------------------------
(* Types                                                                   *)

LEMMA ValueType ==
    ASSUME NEW c \in Count
    PROVE  Value(c) \in Int
<1> DEFINE a == c.high * EXT + c.ext
           b == a * TH + c.th
<1>1. a \in Int
  BY CounterAssumption DEF Count
<1>2. b \in Int
  BY <1>1, CounterAssumption DEF Count
<1>3. b * TL + c.tl \in Int
  BY <1>2, CounterAssumption DEF Count
<1>4. QED
  BY <1>3 DEF Value

LEMMA ZeroType == Zero \in Count /\ Low(Zero) \in Digits
<1>1. 0 \in 0..EXT - 1 /\ 0 \in 0..TH - 1 /\ 0 \in 0..TL - 1
  BY CounterAssumption
<1>2. QED
  BY <1>1 DEF Zero, Low, Count, Digits

LEMMA TakenType ==
    ASSUME CounterTypeOK
    PROVE  /\ High \in Nat
           /\ Taken \in Count
<1>1. High \in Nat
  <2>1. high \in Nat
    BY DEF CounterTypeOK
  <2>2. high + 1 \in Nat
    BY <2>1
  <2>3. QED
    BY <2>1, <2>2 DEF High
<1>2. cntr \in Digits
  BY DEF CounterTypeOK
<1>3. QED
  BY <1>1, <1>2 DEF Taken, Sample, Count, Digits

LEMMA PosType ==
    ASSUME cntr \in Digits, NEW x \in 0..TH - 1
    PROVE  Pos(x) \in Int
  BY CounterAssumption DEF Pos, Digits

LEMMA LowType ==
    ASSUME NEW c \in Count
    PROVE  Low(c) \in Digits /\ Low(c).ext = c.ext /\ Low(c).th = c.th /\ Low(c).tl = c.tl
  BY DEF Count, Digits, Low

\* Less() looks at 32 bits only.
LEMMA LessLow ==
    ASSUME NEW c \in Count, NEW d
    PROVE  Less(Low(c), d) = Less(c, d) /\ Less(d, Low(c)) = Less(d, c) /\ ~Less(c, c)
  BY LowType DEF Less, Count
-----------------------------------------------------------------------------
LEMMA InvInit == CounterInit => IInv
<1> SUFFICES ASSUME CounterInit PROVE IInv
  OBVIOUS
<1>1. CounterTypeOK
  <2>1. 0 \in 0..TH - 1 /\ 0 \in 0..TRIES
    BY CounterAssumption
  <2>2. count \in Count /\ was \in Count /\ moment \in Count /\ start \in Count /\ stable \in Count /\ first \in Count
    BY <2>1, ZeroType DEF CounterInit
  <2>3. cntr \in Digits /\ last \in Digits
    BY <2>1, ZeroType DEF CounterInit
  <2>4. fw \in {"th", "tl", "check", "poll"} /\ tool \in {"off", "first burst", "first measure", "done"} \cup Sampling
    BY DEF CounterInit, Sampling
  <2>5. th \in 0..TH - 1 /\ high \in Nat /\ base \in Nat /\ counted \in Int
    BY <2>1 DEF CounterInit
  <2>6. tries \in 0..TRIES /\ stop \in BOOLEAN
    BY <2>1 DEF CounterInit
  <2>7. QED
    BY <2>2, <2>3, <2>4, <2>5, <2>6 DEF CounterTypeOK
<1>2. Behind
  <2>1. ~(0 < 0)
    OBVIOUS
  <2>2. QED
    BY <2>1 DEF CounterInit, Behind, ExtOf, Low, Zero
<1>3. HighOf
  BY ZeroType, LessLow DEF CounterInit, HighOf, Round, Zero
<1>4. HalfRead /\ AllRead /\ HighOfTool /\ Unsampled /\ CountExact
  BY DEF CounterInit, HalfRead, AllRead, HighOfTool, Unsampled, CountExact, Sampling
<1>5. BurstsAddUp
  <2>1. Value(Zero) - Value(Zero) = 0
    BY ZeroType, ValueType
  <2>2. QED
    BY <2>1 DEF CounterInit, BurstsAddUp
<1>6. QED
  BY <1>1, <1>2, <1>3, <1>4, <1>5 DEF IInv

LEMMA EdgeKeeps == IInv /\ Edge => IInv'
<1> SUFFICES ASSUME IInv, Edge PROVE IInv'
  OBVIOUS
<1> DEFINE c == OneMore(count)
<1> USE DEF toolVars
<1>1. count' = c /\ UNCHANGED <<fw, th, cntr, was, toolVars>>
  BY DEF Edge
<1>2. count \in Count /\ was \in Count /\ cntr \in Digits /\ last \in Digits /\ c \in Count
  BY OneMoreType DEF IInv, CounterTypeOK
<1>3. CounterTypeOK'
  BY <1>1, <1>2 DEF IInv, CounterTypeOK
<1>4. c.ext = ExtOf(c.th) /\ Pos(count.th) <= Pos(c.th)
  <2>1. c.th # count.th => c.th # cntr.th
    BY DEF Edge
  <2>2. count.ext = ExtOf(count.th)
    BY DEF IInv, Behind
  <2>3. QED
    BY <1>2, <2>1, <2>2, OneMoreTH
<1>5. Pos(th) \in Int /\ Pos(was.th) \in Int /\ Pos(count.th) \in Int /\ Pos(c.th) \in Int
  <2>1. th \in 0..TH - 1 /\ was.th \in 0..TH - 1 /\ count.th \in 0..TH - 1 /\ c.th \in 0..TH - 1
    BY <1>2 DEF Count, IInv, CounterTypeOK
  <2>2. QED
    BY <1>2, <2>1, PosType
<1>6. /\ (Pos(th))' = Pos(th)
      /\ Pos(count.th)' = Pos(c.th) /\ Pos(was.th)' = Pos(was.th)
      /\ ExtOf(was.th)' = ExtOf(was.th) /\ ExtOf(count.th)' = ExtOf(c.th)
  <2>1. count' = c /\ th' = th /\ was' = was /\ cntr' = cntr
    BY <1>1
  <2>2. ExtOf(was.th)' = ExtOf(was.th) /\ ExtOf(count.th)' = ExtOf(c.th)
    BY <2>1 DEF ExtOf
  <2>3. (Pos(th))' = Pos(th) /\ Pos(count.th)' = Pos(c.th) /\ Pos(was.th)' = Pos(was.th)
    BY <2>1 DEF Pos
  <2>4. QED
    BY <2>2, <2>3
<1>7. Behind'
  BY <1>1, <1>4, <1>5, <1>6 DEF IInv, Behind
<1>8. HalfRead'
  BY <1>1, <1>4, <1>5, <1>6 DEF IInv, HalfRead
<1>9. AllRead' /\ Unsampled' /\ CountExact' /\ BurstsAddUp'
  BY <1>1 DEF IInv, AllRead, Unsampled, CountExact, BurstsAddUp
<1>10. c.high - count.high = Round(c, was) - Round(count, was)
  <2>1. Low(c) # Low(was)
    BY DEF Edge
  <2>2. QED
    BY <1>2, <2>1, OneMoreRound DEF Count
<1>11. ASSUME tool \in Sampling
       PROVE  c.high - count.high = Round(c, last) - Round(count, last)
  <2>1. Low(c) # Low(last)
    <3>1. Low(c) # last
      BY <1>11 DEF Edge
    <3>2. Low(last) = last
      BY <1>2 DEF Low, Digits
    <3>3. QED
      BY <3>1, <3>2
  <2>2. QED
    BY <1>2, <2>1, OneMoreRound DEF Digits
<1>12. \A d, e : Round(d, e) \in {0, 1}
  BY DEF Round
<1>13. HighOf'
  <2>1. count.high = was.high + Round(count, was)
    BY DEF IInv, HighOf
  <2>2. c.high = was.high + Round(c, was)
    BY <1>2, <1>10, <1>12, <2>1 DEF Count
  <2>3. QED
    BY <1>1, <2>2 DEF HighOf, Round
<1>14. HighOfTool'
  <2>1. SUFFICES ASSUME tool \in Sampling
                 PROVE  c.high = base + high + Round(c, last)
                        /\ was.high = base + high + Round(was, last)
    BY <1>1 DEF HighOfTool, Round
  <2>2. count.high = base + high + Round(count, last)
        /\ was.high = base + high + Round(was, last)
    BY <2>1 DEF IInv, HighOfTool
  <2>3. base \in Nat /\ high \in Nat
    BY DEF IInv, CounterTypeOK
  <2>4. QED
    BY <1>2, <1>11, <1>12, <2>1, <2>2, <2>3 DEF Count
<1>15. QED
  BY <1>3, <1>7, <1>8, <1>9, <1>13, <1>14 DEF IInv

\* What a step keeps that leaves the hardware, the firmware and the history alone.
LEMMA SameFirmware ==
    ASSUME IInv, UNCHANGED <<count, th, cntr, was>>,
           fw' = fw \/ (fw = "poll" /\ fw' = "th")
    PROVE  Behind' /\ HalfRead' /\ AllRead' /\ HighOf'
<1>1. Behind' /\ HalfRead'
  BY DEF IInv, Behind, HalfRead, ExtOf, Pos
<1>2. AllRead' /\ HighOf'
  BY DEF IInv, AllRead, HighOf
<1>3. QED
  BY <1>1, <1>2

\* What a step keeps that leaves the tool alone.
LEMMA SameTool ==
    ASSUME IInv, UNCHANGED toolVars
    PROVE  Unsampled' /\ CountExact' /\ BurstsAddUp'
  BY DEF IInv, toolVars, Unsampled, CountExact, BurstsAddUp

LEMMA FirmwareKeeps == IInv /\ Firmware => IInv'
<1> SUFFICES ASSUME IInv, Firmware PROVE IInv'
  OBVIOUS
<1>0. /\ count \in Count /\ was \in Count /\ cntr \in Digits /\ last \in Digits
      /\ th \in 0..TH - 1
  BY DEF IInv, CounterTypeOK
<1>1. CASE ReadTH
  <2>1. CounterTypeOK'
    BY <1>0, <1>1 DEF ReadTH, IInv, CounterTypeOK, toolVars, Count
  <2>2. Pos(count.th) \in Int
    BY <1>0, PosType DEF Count
  <2>3. Behind'
    BY <1>1, <2>2 DEF ReadTH, IInv, Behind, ExtOf, Pos
  <2>4. HalfRead' /\ AllRead' /\ HighOf' /\ HighOfTool'
    BY <1>1 DEF ReadTH, IInv, HalfRead, AllRead, HighOf, HighOfTool, toolVars
  <2>5. QED
    BY <1>1, <2>1, <2>3, <2>4, SameTool DEF ReadTH, IInv
<1>2. CASE ReadTL
  <2>1. cntr' \in Digits /\ cntr'.tl = count.tl /\ cntr'.th = cntr.th /\ cntr'.ext = cntr.ext
    BY <1>0, <1>2 DEF ReadTL, Digits, Count
  <2>2. CounterTypeOK'
    BY <1>0, <1>2, <2>1 DEF ReadTL, IInv, CounterTypeOK, toolVars
  <2>3. Pos(count.th) \in Int /\ Pos(th) \in Int
    BY <1>0, PosType DEF Count
  <2>4. count.ext = ExtOf(count.th) /\ Pos(th) <= Pos(count.th)
    BY <1>2 DEF ReadTL, IInv, Behind
  <2>5. /\ count' = count /\ was' = count /\ th' = th
        /\ Pos(count.th)' = Pos(count.th) /\ Pos(th)' = Pos(th) /\ Pos(was.th)' = Pos(count.th)
        /\ ExtOf(count.th)' = ExtOf(count.th) /\ ExtOf(was.th)' = ExtOf(count.th)
    <3>1. count' = count /\ was' = count /\ th' = th
      BY <1>2 DEF ReadTL
    <3>2. QED
      BY <2>1, <3>1 DEF Pos, ExtOf
  <2>6. Behind'
    BY <2>4, <2>5 DEF Behind
  <2>7. HalfRead'
    BY <2>1, <2>3, <2>4, <2>5 DEF HalfRead
  <2>8. AllRead'
    BY <1>2 DEF ReadTL, AllRead
  <2>9. HighOf'
    <3>1. Round(count, count) = 0
      BY <1>0, LessLow DEF Round
    <3>2. count.high = count.high + Round(count, count)
      BY <1>0, <3>1 DEF Count
    <3>3. QED
      BY <2>5, <3>2 DEF HighOf, Round
  <2>10. HighOfTool'
    BY <1>2 DEF ReadTL, IInv, HighOfTool, Round, toolVars
  <2>11. QED
    BY <1>2, <2>2, <2>6, <2>7, <2>8, <2>9, <2>10, SameTool DEF ReadTL, IInv
<1>3. CASE Changed
  <2>1. CounterTypeOK'
    BY <1>0, <1>3 DEF Changed, IInv, CounterTypeOK, toolVars, Count
  <2>2. Pos(count.th) \in Int
    BY <1>0, PosType DEF Count
  <2>3. Behind'
    BY <1>3, <2>2 DEF Changed, IInv, Behind, ExtOf, Pos
  <2>4. HalfRead' /\ AllRead' /\ HighOf' /\ HighOfTool'
    BY <1>3 DEF Changed, IInv, HalfRead, AllRead, HighOf, HighOfTool, toolVars
  <2>5. QED
    BY <1>3, <2>1, <2>3, <2>4, SameTool DEF Changed, IInv
<1>4. CASE Same
  <2>1. fw = "check" /\ th = count.th /\ fw' = "poll" /\ UNCHANGED <<count, th, was, toolVars>>
    BY <1>4 DEF Same, Settle
  <2>2. Inc(cntr.ext, EXT) \in 0..EXT - 1
    BY <1>0, CounterAssumption DEF Inc, Digits
  <2>3. cntr' \in Digits /\ cntr'.th = th /\ cntr'.tl = cntr.tl /\ cntr'.ext = ExtOf(th)
    BY <1>0, <1>4, <2>2 DEF Same, Settle, Digits, ExtOf
  <2>4. was.th = th
    <3>1. was.th \in 0..TH - 1
      BY <1>0 DEF Count
    <3>2. Pos(th) <= Pos(was.th) /\ Pos(was.th) <= Pos(th)
      BY <2>1 DEF IInv, HalfRead
    <3>3. QED
      BY <1>0, <3>1, <3>2, CounterAssumption DEF Pos, Digits
  <2>5. was.ext = ExtOf(th) /\ was.tl = cntr.tl /\ count.ext = ExtOf(th)
    BY <2>1, <2>4 DEF IInv, HalfRead, Behind
  <2>6. CounterTypeOK'
    BY <1>0, <2>1, <2>3 DEF IInv, CounterTypeOK, toolVars
  <2>7. Behind'
    <3>1. ~(th < th)
      BY <1>0
    <3>2. QED
      BY <2>1, <2>3, <2>5, <3>1 DEF Behind, ExtOf
  <2>8. cntr' = Low(was)
    <3>1. cntr' = [ext |-> cntr'.ext, th |-> cntr'.th, tl |-> cntr'.tl]
      BY <2>3 DEF Digits
    <3>2. QED
      BY <2>3, <2>4, <2>5, <3>1 DEF Low
  <2>9. HalfRead' /\ AllRead' /\ HighOf'
    BY <2>1, <2>8 DEF IInv, HalfRead, AllRead, HighOf, Round, Low
  <2>10. HighOfTool'
    BY <2>1 DEF IInv, HighOfTool, Round, toolVars
  <2>11. QED
    BY <2>1, <2>6, <2>7, <2>9, <2>10, SameTool DEF IInv
<1>5. CASE Poll
  <2>1. CounterTypeOK' /\ HighOfTool'
    BY <1>5 DEF Poll, IInv, CounterTypeOK, HighOfTool, toolVars
  <2>2. QED
    BY <1>5, <2>1, SameFirmware, SameTool DEF Poll, IInv
<1>6. CASE Reset
  <2>1. CounterTypeOK'
    <3>1. 0 \in 0..TH - 1
      BY CounterAssumption
    <3>2. QED
      BY <1>6, <3>1, ZeroType DEF Reset, IInv, CounterTypeOK
  <2>2. Behind'
    <3>1. ~(0 < 0)
      OBVIOUS
    <3>2. QED
      BY <1>6, <3>1 DEF Reset, Behind, ExtOf, Low, Zero
  <2>3. HighOf'
    BY <1>6, ZeroType, LessLow DEF Reset, HighOf, Round, Zero
  <2>4. HalfRead' /\ AllRead'
    BY <1>6 DEF Reset, HalfRead, AllRead
  <2>5. HighOfTool' /\ CountExact' /\ Unsampled' /\ BurstsAddUp'
    BY <1>6 DEF Reset, IInv, HighOfTool, CountExact, Unsampled, BurstsAddUp, Sampling
  <2>6. QED
    BY <2>1, <2>2, <2>3, <2>4, <2>5 DEF IInv
<1>7. QED
  BY <1>1, <1>2, <1>3, <1>4, <1>5, <1>6 DEF Firmware

\* What get_sample() does to the relation of the counts.
LEMMA Sampled ==
    ASSUME IInv, GetSample, tool # "done", tool' \in Sampling,
           base' = IF tool \in Sampling THEN base ELSE was.high
    PROVE  /\ HighOfTool' /\ CountExact'
           /\ High \in Nat /\ high' = High /\ last' = cntr /\ moment' = was
<1>0. /\ count \in Count /\ was \in Count /\ cntr \in Digits /\ last \in Digits
      /\ high \in Nat /\ base \in Nat /\ High \in Nat
  BY TakenType DEF IInv, CounterTypeOK
<1>1. /\ high' = High /\ last' = cntr /\ moment' = was /\ cntr = Low(was)
      /\ UNCHANGED <<count, was, cntr>>
  BY DEF GetSample, IInv, AllRead
<1>2. was.high = base' + High
  <2>1. High = high + Round(was, last)
    BY <1>0, <1>1, LessLow DEF High, Round
  <2>2. CASE tool \in Sampling
    <3>1. Round(was, last) \in {0, 1}
      BY DEF Round
    <3>2. was.high = base + high + Round(was, last)
      BY <2>2 DEF IInv, HighOfTool
    <3>3. QED
      BY <1>0, <2>1, <2>2, <3>1, <3>2
  <2>3. CASE tool \notin Sampling
    <3>1. tool \in {"off", "first burst", "first measure"}
      BY <2>3 DEF IInv, CounterTypeOK
    <3>2. High = 0
      <4>1. ~Less(cntr, Low(Zero))
        BY <1>0, CounterAssumption DEF Less, Low, Zero, Digits
      <4>2. QED
        BY <3>1, <4>1 DEF IInv, Unsampled, High
    <3>3. QED
      BY <1>0, <2>3, <3>2 DEF Count
  <2>4. QED
    BY <2>2, <2>3
<1>3. Round(was, cntr) = 0 /\ Round(count, cntr) = Round(count, was)
  BY <1>0, <1>1, LessLow DEF Round
<1>4. count.high = base' + High + Round(count, cntr)
  BY <1>2, <1>3 DEF IInv, HighOf
<1>5. was.high = base' + High + Round(was, cntr)
  BY <1>0, <1>2, <1>3 DEF Count
<1>6. HighOfTool'
  BY <1>1, <1>4, <1>5 DEF HighOfTool, Round
<1>7. CountExact'
  BY <1>1, <1>2 DEF CountExact
<1>8. QED
  BY <1>0, <1>1, <1>6, <1>7

\* One more burst on the sum.
LEMMA SumOfBursts ==
    ASSUME NEW a \in Int, NEW b \in Int, NEW c \in Int, NEW n \in Int, n = b - a
    PROVE  n + (c - b) = c - a /\ n + (c - b) \in Int
  OBVIOUS

LEMMA BurstKeeps ==
    ASSUME IInv, NEW s \in Count, Burst(s)
    PROVE  /\ BurstsAddUp' /\ counted' \in Int
           /\ start' \in Count /\ stable' \in Count
           /\ tool' \in {"burst", "done"}
           /\ UNCHANGED <<base, first, tries, stop>>
<1>1. /\ start \in Count /\ stable \in Count /\ first \in Count
      /\ counted \in Int /\ counted = Value(start) - Value(first)
  BY DEF IInv, CounterTypeOK, BurstsAddUp
<1>2. Value(start) \in Int /\ Value(first) \in Int /\ Value(s) \in Int
  BY <1>1, ValueType
<1>3. counted + (Value(s) - Value(start)) = Value(s) - Value(first)
      /\ counted + (Value(s) - Value(start)) \in Int
  BY <1>1, <1>2, SumOfBursts
<1>4. \/ UNCHANGED <<start, counted, first>>
      \/ start' = s /\ first' = first /\ counted' = counted + (Value(s) - Value(start))
  BY DEF Burst
<1>5. BurstsAddUp' /\ counted' \in Int
  BY <1>1, <1>3, <1>4 DEF BurstsAddUp
<1>6. QED
  BY <1>1, <1>5 DEF Burst, OrDone

LEMMA ToolKeeps == IInv /\ Tool => IInv'
<1> SUFFICES ASSUME IInv, Tool PROVE IInv'
  OBVIOUS
<1>1. CASE Start
  <2>1. CounterTypeOK' /\ HighOfTool' /\ Unsampled' /\ CountExact' /\ BurstsAddUp'
    BY <1>1 DEF Start, IInv, CounterTypeOK, HighOfTool, Unsampled, CountExact, BurstsAddUp, Sampling
  <2>2. QED
    BY <1>1, <2>1, SameFirmware DEF Start, IInv
<1>2. CASE SetStop
  <2>1. CounterTypeOK' /\ HighOfTool' /\ Unsampled' /\ CountExact' /\ BurstsAddUp'
    BY <1>2 DEF SetStop, IInv, CounterTypeOK, HighOfTool, Unsampled, CountExact, BurstsAddUp
  <2>2. QED
    BY <1>2, <2>1, SameFirmware DEF SetStop, IInv
<1>3. CASE First
  <2>1. Taken \in Count /\ Value(Taken) \in Int /\ Value(Taken) - Value(Taken) = 0
    BY TakenType, ValueType DEF IInv
  <2>2. tool \in {"first burst", "first measure"} /\ tool' \in {"best", "burst", "done"}
    BY <1>3 DEF First, OrDone
  <2>3. counted' = 0 /\ start' = Taken /\ first' = Taken /\ stable' = Taken
    BY <1>3, <2>2 DEF First, IInv, Unsampled
  <2>4. BurstsAddUp' /\ Unsampled'
    BY <2>1, <2>2, <2>3 DEF BurstsAddUp, Unsampled
  <2>5. HighOfTool' /\ CountExact' /\ high' \in Nat /\ last' \in Digits /\ moment' \in Count
    <3>1. high' \in Nat /\ last' \in Digits /\ moment' \in Count
      BY <1>3, TakenType DEF First, GetSample, IInv, CounterTypeOK
    <3>2. CASE tool' = "done"
      BY <3>1, <3>2 DEF HighOfTool, CountExact, Sampling
    <3>3. CASE tool' # "done"
      <4>1. tool' \in Sampling /\ tool \notin Sampling
        BY <2>2, <3>3 DEF Sampling
      <4>2. QED
        BY <1>3, <2>2, <3>1, <4>1, Sampled DEF First
    <3>4. QED
      BY <3>2, <3>3
  <2>6. CounterTypeOK'
    BY <1>3, <2>1, <2>2, <2>3, <2>5 DEF First, GetSample, IInv, CounterTypeOK, Sampling, Count
  <2>7. QED
    BY <1>3, <2>4, <2>5, <2>6, SameFirmware DEF First, GetSample, IInv
<1>4. CASE Best
  <2>1. CASE tries < TRIES
    <3>1. tool = "best" /\ tool' = tool /\ GetSample /\ base' = base
      BY <1>4, <2>1 DEF Best
    <3>2. HighOfTool' /\ CountExact' /\ high' \in Nat /\ last' \in Digits /\ moment' \in Count
      <4>1. tool # "done" /\ tool \in Sampling /\ tool' \in Sampling
        BY <3>1 DEF Sampling
      <4>2. QED
        BY <3>1, <4>1, Sampled DEF IInv, CounterTypeOK
    <3>3. start' \in Count /\ first' = start' /\ counted' = counted /\ counted = 0
      BY <1>4, <2>1, <3>1, TakenType DEF Best, IInv, CounterTypeOK, Unsampled
    <3>4. BurstsAddUp' /\ Unsampled'
      <4>1. Value(start') - Value(start') = 0
        BY <3>3, ValueType
      <4>2. QED
        BY <3>1, <3>3, <4>1 DEF BurstsAddUp, Unsampled, Value
    <3>5. tries + 1 \in 0..TRIES
      <4>1. tries \in 0..TRIES
        BY DEF IInv, CounterTypeOK
      <4>2. QED
        BY <2>1, <4>1, CounterAssumption
    <3>6. CounterTypeOK'
      BY <1>4, <2>1, <3>1, <3>2, <3>3, <3>5 DEF Best, GetSample, IInv, CounterTypeOK
    <3>7. QED
      BY <3>1, <3>2, <3>4, <3>6, SameFirmware DEF GetSample, IInv
  <2>2. CASE ~(tries < TRIES)
    <3>1. /\ tool = "best" /\ tool' \in {"measure", "done"}
          /\ UNCHANGED <<count, fw, th, cntr, was, last, high, moment, start, first, tries, base, stable, counted, stop>>
      BY <1>4, <2>2 DEF Best, OrDone
    <3>2. CounterTypeOK' /\ HighOfTool' /\ Unsampled' /\ CountExact' /\ BurstsAddUp'
      BY <3>1 DEF IInv, CounterTypeOK, HighOfTool, Unsampled, CountExact, BurstsAddUp, Sampling
    <3>3. QED
      BY <3>1, <3>2, SameFirmware DEF IInv
  <2>3. QED
    BY <2>1, <2>2
<1>5. CASE Measure
  <2>1. tool = "measure" /\ tool' \in {"measure", "done"} /\ GetSample /\ stop' \in BOOLEAN
        /\ UNCHANGED <<base, start, stable, first, counted, tries>>
    BY <1>5 DEF Measure, IInv, CounterTypeOK
  <2>2. high' \in Nat /\ last' \in Digits /\ moment' \in Count
    BY <2>1, TakenType DEF GetSample, IInv, CounterTypeOK
  <2>3. HighOfTool' /\ CountExact'
    <3>1. CASE tool' = "done"
      BY <3>1 DEF HighOfTool, CountExact, Sampling
    <3>2. CASE tool' = "measure"
      BY <2>1, <3>2, Sampled DEF Sampling
    <3>3. QED
      BY <2>1, <3>1, <3>2
  <2>4. CounterTypeOK' /\ Unsampled' /\ BurstsAddUp'
    BY <2>1, <2>2 DEF GetSample, IInv, CounterTypeOK, Unsampled, BurstsAddUp, Sampling
  <2>5. QED
    BY <2>1, <2>3, <2>4, SameFirmware DEF GetSample, IInv
<1>6. CASE CountBursts
  <2>1. tool = "burst" /\ GetSample /\ Burst(Taken) /\ Taken \in Count
    BY <1>6, TakenType DEF CountBursts, IInv
  <2>2. /\ BurstsAddUp' /\ counted' \in Int /\ start' \in Count /\ stable' \in Count
        /\ tool' \in {"burst", "done"} /\ UNCHANGED <<base, first, tries, stop>>
    BY <2>1, BurstKeeps
  <2>3. high' \in Nat /\ last' \in Digits /\ moment' \in Count
    BY <2>1, TakenType DEF GetSample, IInv, CounterTypeOK
  <2>4. HighOfTool' /\ CountExact'
    <3>1. CASE tool' = "done"
      BY <3>1 DEF HighOfTool, CountExact, Sampling
    <3>2. CASE tool' = "burst"
      BY <2>1, <2>2, <3>2, Sampled DEF Sampling
    <3>3. QED
      BY <2>2, <3>1, <3>2
  <2>5. CounterTypeOK' /\ Unsampled'
    BY <2>1, <2>2, <2>3 DEF GetSample, IInv, CounterTypeOK, Unsampled, Sampling
  <2>6. QED
    BY <2>1, <2>2, <2>4, <2>5, SameFirmware DEF GetSample, IInv
<1>7. CASE BadSample
  <2>1. CounterTypeOK' /\ HighOfTool'
    BY <1>7 DEF BadSample, IInv, CounterTypeOK, HighOfTool, toolVars
  <2>2. QED
    BY <1>7, <2>1, SameFirmware, SameTool DEF BadSample, IInv
<1>8. CASE BadWhenStopped
  <2>1. stop /\ fw = "poll" /\ fw' = "th" /\ UNCHANGED <<count, th, cntr, was, last, high, moment>>
    BY <1>8 DEF BadWhenStopped
  <2>2. /\ BurstsAddUp' /\ counted' \in Int /\ start' \in Count /\ stable' \in Count
        /\ tool' = "done" /\ UNCHANGED <<base, first, tries, stop>>
    <3>1. CASE tool = "burst" /\ \E s \in {stable} \cup (IF stable = first THEN {Zero} ELSE {}) : Burst(s)
      <4>1. PICK s \in {stable, Zero} : Burst(s)
        BY <3>1
      <4>2. s \in Count
        BY <4>1, ZeroType DEF IInv, CounterTypeOK
      <4>3. tool' = "done"
        BY <2>1, <4>1 DEF Burst, OrDone
      <4>4. QED
        BY <4>1, <4>2, <4>3, BurstKeeps
    <3>2. CASE tool' = "done" /\ UNCHANGED <<base, start, stable, first, counted, tries, stop>>
      BY <3>2 DEF IInv, CounterTypeOK, BurstsAddUp
    <3>3. QED
      BY <1>8, <3>1, <3>2 DEF BadWhenStopped
  <2>3. CounterTypeOK' /\ HighOfTool' /\ Unsampled' /\ CountExact'
    BY <2>1, <2>2 DEF IInv, CounterTypeOK, HighOfTool, Unsampled, CountExact, Sampling
  <2>4. QED
    BY <2>1, <2>2, <2>3, SameFirmware DEF IInv
<1>9. QED
  BY <1>1, <1>2, <1>3, <1>4, <1>5, <1>6, <1>7, <1>8 DEF Tool

LEMMA InvNext == IInv /\ [CounterNext]_counterVars => IInv'
<1>1. ASSUME IInv, UNCHANGED counterVars PROVE IInv'
  <2>1. CounterTypeOK' /\ HighOfTool'
    BY <1>1 DEF counterVars, IInv, CounterTypeOK, HighOfTool
  <2>2. QED
    BY <1>1, <2>1, SameFirmware, SameTool DEF counterVars, toolVars, IInv
<1>2. QED
  BY <1>1, EdgeKeeps, FirmwareKeeps, ToolKeeps DEF CounterNext

LEMMA Inductive == CounterSpec => []IInv
  BY InvInit, InvNext, PTL DEF CounterSpec

\* Every variable has its type, for every width of the digits.
THEOREM CounterTypes == CounterSpec => []CounterTypeOK
<1>1. IInv => CounterTypeOK
  BY DEF IInv
<1>2. QED
  BY <1>1, Inductive, PTL

\* Every sample the tool has accepted is the count of one moment.
THEOREM SamplesAreExact == CounterSpec => []CountExact
<1>1. IInv => CountExact
  BY DEF IInv
<1>2. QED
  BY <1>1, Inductive, PTL

\* The bursts printed add up to the edges between the samples they are between.
THEOREM NoBurstIsLost == CounterSpec => []BurstsAddUp
<1>1. IInv => BurstsAddUp
  BY DEF IInv
<1>2. QED
  BY <1>1, Inductive, PTL
=============================================================================
