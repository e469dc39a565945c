------------------------------- MODULE Counter -------------------------------
(***************************************************************************)
(* The frequency counter (cntr/): a 16 bit hardware counter of the edges   *)
(* of a signal, the firmware that reads its two bytes and extends it to 32 *)
(* bits, and the tool that asks for samples, discards the damaged ones,    *)
(* extends them to 64 bits, and reports bursts or a frequency from them.   *)
(* A count is a record of digits: "tl" and "th" are the registers TL0 and  *)
(* TH0, "ext" stands for cntr[2] and cntr[3], "high" for the tool's.       *)
(***************************************************************************)
EXTENDS Integers

CONSTANTS
    TL, TH, EXT,    \* values of a digit: 2^8, 2^8, 2^16
    TRIES,          \* samples measure() takes to improve its first one
    Wraps           \* bound: how often the 32 bit count comes round

ASSUME CounterAssumption ==
    /\ TL \in Nat \ {0, 1} /\ TH \in Nat \ {0, 1} /\ EXT \in Nat \ {0, 1}
    /\ TRIES \in Nat /\ Wraps \in Nat

VARIABLES
    count,      \* the edges there were: th and tl are in the hardware
    fw,         \* where the firmware is: in read_counter(), or in usb_poll()
    th,         \* read_counter()'s variable
    cntr,       \* what it makes available
    was,        \* history: the count when TL0 was read
    tool,       \* what the tool does: "off" if it is not running
    last, high, \* get_sample()'s variables
    moment,     \* history: "was" of the last good sample
    base,       \* history: "high" of the count when there was the first one
    start, stable,      \* the tool's samples; "now" and its "last" are like "stable"
    first,      \* history: the first "start"
    counted,    \* history: the sum of the bursts the tool printed
    tries, stop
counterVars == <<count, fw, th, cntr, was, tool, last, high, moment, base,
                 start, stable, first, counted, tries, stop>>
toolVars == <<tool, last, high, moment, base, start, stable, first, counted, tries, stop>>

Digits == [ext : 0..EXT - 1, th : 0..TH - 1, tl : 0..TL - 1]
Count == [high : Nat, ext : 0..EXT - 1, th : 0..TH - 1, tl : 0..TL - 1]

\* The 32 bits of a count, and a count made of them.
Low(c) == [ext |-> c.ext, th |-> c.th, tl |-> c.tl]
Sample(d, h) == [high |-> h, ext |-> d.ext, th |-> d.th, tl |-> d.tl]

Less(a, b) ==
    \/ a.ext < b.ext
    \/ a.ext = b.ext /\ a.th < b.th
    \/ a.ext = b.ext /\ a.th = b.th /\ a.tl < b.tl

Value(c) == ((c.high * EXT + c.ext) * TH + c.th) * TL + c.tl

Inc(n, size) == IF n = size - 1 THEN 0 ELSE n + 1

OneMore(c) ==
    IF c.tl < TL - 1 THEN [c EXCEPT !.tl = @ + 1]
    ELSE IF c.th < TH - 1 THEN [c EXCEPT !.tl = 0, !.th = @ + 1]
    ELSE [high |-> IF c.ext = EXT - 1 THEN c.high + 1 ELSE c.high,
          ext |-> Inc(c.ext, EXT), th |-> 0, tl |-> 0]

Zero == [high |-> 0, ext |-> 0, th |-> 0, tl |-> 0]

CounterInit ==
    /\ count = Zero /\ was = Zero
    /\ fw = "th" /\ th = 0 /\ cntr = Low(Zero)
    /\ tool = "off" /\ last = Low(Zero) /\ high = 0
    /\ moment = Zero /\ base = 0
    /\ start = Zero /\ stable = Zero /\ first = Zero
    /\ counted = 0 /\ tries = 0 /\ stop = FALSE

Sampling == {"best", "burst", "measure"}
-----------------------------------------------------------------------------
(* The hardware and the firmware                                           *)

\* An edge.  The signal can be no faster than a quarter of the CPU's clock: 2^16
\* edges take 10 ms, in which the main loop comes round, so that TH0 does not get
\* back to what the firmware has seen; and 2^32 take minutes, in which the tool has
\* a sample.
Edge ==
    LET c == OneMore(count) IN
    /\ c.high <= Wraps
    /\ c.th # count.th => c.th # cntr.th
    /\ Low(c) # Low(was)
    /\ tool \in Sampling => Low(c) # last
    /\ count' = c
    /\ UNCHANGED <<fw, th, cntr, was, toolVars>>

ReadTH ==
    /\ fw = "th"
    /\ th' = count.th
    /\ fw' = "tl"
    /\ UNCHANGED <<count, cntr, was, toolVars>>

ReadTL ==
    /\ fw = "tl"
    /\ cntr' = [cntr EXCEPT !.tl = count.tl]
    /\ was' = count
    /\ fw' = "check"
    /\ UNCHANGED <<count, th, toolVars>>

Changed ==
    /\ fw = "check" /\ th # count.th
    /\ th' = count.th
    /\ fw' = "tl"
    /\ UNCHANGED <<count, cntr, was, toolVars>>

Settle ==
    /\ cntr' = [cntr EXCEPT !.ext = IF th < cntr.th THEN Inc(@, EXT) ELSE @,
                            !.th = th]
    /\ fw' = "poll"
    /\ UNCHANGED <<count, th, was, toolVars>>

\* The mutant takes the bytes as they come.
Same_NoRetryMutant == fw = "check" /\ Settle

Same == fw = "check" /\ th = count.th /\ Settle

\* usb_poll() finds nothing to do.
Poll ==
    /\ fw = "poll"
    /\ fw' = "th"
    /\ UNCHANGED <<count, th, cntr, was, toolVars>>

\* CNTR_RESET, sent by another run of the tool, which prints an error, as the
\* device is gone before it has answered.  So is it for the tool that is sampling.
Reset ==
    /\ fw = "poll"
    /\ count' = Zero /\ was' = Zero
    /\ fw' = "th" /\ th' = 0 /\ cntr' = Low(Zero)
    /\ tool' = IF tool = "off" THEN "off" ELSE "done"
    /\ UNCHANGED <<last, high, moment, base, start, stable, first, counted, tries, stop>>
-----------------------------------------------------------------------------
(* The tool                                                                *)

Start ==
    /\ tool = "off"
    /\ tool' \in {"first burst", "first measure"}
    /\ UNCHANGED <<count, fw, th, cntr, was, last, high, moment, base,
                   start, stable, first, counted, tries, stop>>

SetStop ==
    /\ tool \notin {"off", "done"} /\ ~stop
    /\ stop' = TRUE
    /\ UNCHANGED <<count, fw, th, cntr, was, tool, last, high, moment, base,
                   start, stable, first, counted, tries>>

\* get_sample() has found that the 32 bits have come round.  The mutant takes a
\* count that has not moved for one that has.
High_EqualMutant == IF Less(last, cntr) THEN high ELSE high + 1
High == IF Less(cntr, last) THEN high + 1 ELSE high

\* The sample it makes of what the firmware has.
Taken == Sample(cntr, High)

\* usb_poll() serves the tool's CNTR_READ, and its answer comes undamaged.

GetSample ==
    /\ fw = "poll" /\ fw' = "th"
    /\ high' = High
    /\ last' = cntr
    /\ moment' = was
    /\ UNCHANGED <<count, th, cntr, was>>

\* "stop" is looked at when a sample has been dealt with.
OrDone(where) == IF stop THEN "done" ELSE where

First ==
    /\ tool \in {"first burst", "first measure"}
    /\ GetSample
    /\ base' = was.high
    /\ start' = Taken /\ stable' = Taken /\ first' = Taken
    /\ tool' = IF tool = "first measure" THEN "best" ELSE OrDone("burst")
    /\ UNCHANGED <<counted, tries, stop>>

\* measure() takes the first sample again if that makes its round-trip shorter.
Best ==
    /\ tool = "best"
    /\ IF tries < TRIES
         THEN /\ GetSample
              /\ start' \in {start, Taken}
              /\ first' = start'
              /\ tries' = tries + 1
              /\ UNCHANGED tool
         ELSE /\ tool' = OrDone("measure")
              /\ UNCHANGED <<count, fw, th, cntr, was, last, high, moment, start, first, tries>>
    /\ UNCHANGED <<base, stable, counted, stop>>

\* It is done when there are counts, and the error has become small enough.
Measure ==
    /\ tool = "measure"
    /\ GetSample
    /\ stop' \in IF Taken # start THEN {stop, TRUE} ELSE {stop}
    /\ tool' = IF stop' THEN "done" ELSE "measure"
    /\ UNCHANGED <<base, start, stable, first, counted, tries>>

\* The mutant takes the end of the burst for the next beginning before it is sure.
Burst_EagerMutant(s) ==
    /\ \/ /\ stable # s
          /\ stable' = s /\ start' = s
          /\ UNCHANGED counted
       \/ /\ stable = s
          /\ start' = s
          /\ counted' = counted + (Value(s) - Value(start))
          /\ UNCHANGED stable
    /\ tool' = OrDone("burst")
    /\ UNCHANGED <<base, first, tries, stop>>

\* The rest of the loop in count_bursts(), with the sample s.  Whether
\* the counter has been idle for long enough is left open.
Burst(s) ==
    /\ \/ /\ stable # s
          /\ stable' = s
          /\ UNCHANGED <<start, counted>>
       \/ /\ stable = s
          /\ UNCHANGED <<start, stable, counted>>
       \/ /\ stable = s
          /\ start' = s
          /\ counted' = counted + (Value(s) - Value(start))
          /\ UNCHANGED stable
    /\ tool' = OrDone("burst")
    /\ UNCHANGED <<base, first, tries, stop>>

CountBursts ==
    /\ tool = "burst"
    /\ GetSample
    /\ Burst(Taken)

\* The answer is damaged: its CRC or the inverted count is wrong.
BadSample ==
    /\ fw = "poll" /\ fw' = "th"
    /\ tool \notin {"off", "done"}
    /\ tool = "best" => tries < TRIES
    /\ tool \in {"burst", "measure"} => ~stop
    /\ UNCHANGED <<count, th, cntr, was, toolVars>>

\* When it has been stopped, the tool goes on with the sample it had before.  In
\* count_bursts(), that may be none, and anything.
BadWhenStopped ==
    /\ fw = "poll" /\ fw' = "th"
    /\ stop
    /\ \/ /\ tool = "burst"
          /\ \E s \in {stable} \cup (IF stable = first THEN {Zero} ELSE {}) : Burst(s)
       \/ /\ tool = "measure"
          /\ tool' = "done"
          /\ UNCHANGED <<base, start, stable, first, counted, tries, stop>>
    /\ UNCHANGED <<count, th, cntr, was, last, high, moment>>

Firmware == ReadTH \/ ReadTL \/ Changed \/ Same \/ Poll \/ Reset
Tool == Start \/ SetStop \/ First \/ Best \/ Measure \/ CountBursts \/ BadSample \/ BadWhenStopped
CounterNext == Edge \/ Firmware \/ Tool

CounterSpec == CounterInit /\ [][CounterNext]_counterVars
-----------------------------------------------------------------------------
(* Properties                                                              *)

\* Every variable has its type.  No number the tool extends a count with is negative.
CounterTypeOK ==
    /\ count \in Count /\ was \in Count /\ moment \in Count
    /\ start \in Count /\ stable \in Count /\ first \in Count
    /\ cntr \in Digits /\ last \in Digits
    /\ fw \in {"th", "tl", "check", "poll"}
    /\ th \in 0..TH - 1
    /\ tool \in {"off", "first burst", "first measure", "done"} \cup Sampling
    /\ high \in Nat /\ base \in Nat /\ counted \in Int
    /\ tries \in 0..TRIES /\ stop \in BOOLEAN

\* A sample is the count of one moment, although its bytes are read one after the
\* other while they change, the firmware finds out about an overflow of TH0 only by
\* comparing, and so does the tool about one of the 32 bits.
CountExact ==
    tool \in Sampling => Low(moment) = last /\ moment.high = base + high

\* The bursts printed so far are all the edges between the first sample and the
\* one the next burst is counted from: none is lost between two, or counted twice.
BurstsAddUp ==
    counted = Value(start) - Value(first)
=============================================================================
