---------------------------- MODULE ToolsProofs -----------------------------
(***************************************************************************)
(* The measurement programs of the host: what a production test decides is *)
(* about the wave it has asked for (Sweep), and what a station of          *)
(* atrf-txrx sends is what its command line asks for (TxRx), for every set *)
(* of channels, every number of sweeps and every pair of programs.         *)
(***************************************************************************)
EXTENDS Sweep, TxRx, TLAPS

-----------------------------------------------------------------------------
(* The production test: Sweep                                              *)

(* The wave that is measured *)

SweepSteps == {"main", "sweep", "half", "channel", "init", "wave", "lock", "read", "stop",
               "compare", "key", "over", "exit"}
Senders == [chan : 0..N_CHAN, power : BOOLEAN, prepared : Offsets \cup {"none"},
            wave : Offsets \cup {"off", "bad"}]
Verdicts == {"pass", "under", "over"}

SweepTypeOK ==
    /\ link \in [chip : {"230", "231"}, driver : {"usb", "usb-spi", "ben"}]
    /\ cont_tx \in Offsets \cup {"both"} /\ graphical \in BOOLEAN /\ sweeps \in 0..SWEEPS
    /\ tx \in Senders /\ rx \in Senders /\ tx_error \in BOOLEAN
    /\ at_step \in SweepSteps /\ half \in Offsets /\ chan \in Chans /\ need_init \in BOOLEAN
    /\ fails \in [Offsets -> {-1, 0, 1}] /\ cycle \in Nat
    /\ result \in {-1, 0, 1} /\ decision \in {-1, 0, 1}
    /\ classes \subseteq {"below", "within", "above"} /\ verdicts \subseteq Verdicts

InHalf == {"channel", "init", "wave", "lock", "read", "stop"}

\* How the sender stands if it has not failed: on the channel from SetChannel on, with
\* its power from InitTx on, and, if it is one that resumes, prepared for the offset
\* of this half, unless the next wave begins anew; and prepared when it is to start.
SenderReady ==
    ~tx_error =>
        /\ at_step \in {"init", "wave", "lock", "read"} => tx.chan = chan /\ rx.chan = chan
        /\ at_step \in {"wave", "lock", "read"} => tx.power
        /\ ~NeedsReset /\ at_step # "main" => tx.power
        /\ ~NeedsReset /\ ~need_init /\ cont_tx # "both" => tx.prepared = cont_tx
        /\ ~NeedsReset /\ ~need_init /\ cont_tx = "both" /\ at_step \in InHalf
              /\ (chan > 0 \/ at_step \in {"read", "stop"}) => tx.prepared = half
        /\ NeedsReset /\ at_step = "wave" => need_init
        /\ link.chip = "231" /\ at_step = "lock" => tx.prepared = half
        /\ at_step = "read" => tx.wave = half

Measured == cont_tx # "both" /\ at_step \in InHalf => half = cont_tx

WaveInv == SweepTypeOK /\ SenderReady /\ Measured

LEMMA WaveInit == SweepInit => WaveInv
<1> SUFFICES ASSUME SweepInit PROVE WaveInv
  OBVIOUS
<1>1. tx \in Senders /\ rx \in Senders
  <2>1. 0 \in 0..N_CHAN /\ N_CHAN \in 0..N_CHAN
    BY SweepAssumption
  <2>2. Unset \in Senders
    BY <2>1 DEF Unset, Senders
  <2>3. [chan : {0}, power : {FALSE}, prepared : Offsets, wave : {"off"} \cup Offsets]
          \subseteq Senders
    BY <2>1 DEF Senders
  <2>4. QED
    BY <2>2, <2>3 DEF SweepInit
<1>2. 0 \in Chans
  BY SweepAssumption DEF Chans
<1>3. SweepTypeOK
  BY <1>1, <1>2 DEF SweepInit, SweepTypeOK, SweepSteps, Offsets
<1>4. QED
  BY <1>3 DEF SweepInit, WaveInv, SenderReady, Measured, InHalf

LEMMA SenderTypes ==
    ASSUME NEW t \in Senders, NEW c \in Chans, NEW offset \in Offsets, SweepTypeOK
    PROVE  /\ Unset \in Senders /\ InitTx(t) \in Senders
           /\ [t EXCEPT !.chan = c] \in Senders /\ [t EXCEPT !.wave = "off"] \in Senders
           /\ Preparing(t, offset) \in Senders /\ Starting(t, offset) \in Senders
<1>1. Unset \in Senders
  BY SweepAssumption DEF Unset, Senders
<1>2. c \in 0..N_CHAN
  BY SweepAssumption DEF Chans
<1>3. QED
  BY <1>1, <1>2 DEF InitTx, Preparing, Starting, Senders

LEMMA WorseType ==
    ASSUME NEW fail \in {-1, 0, 1}, NEW class
    PROVE  Worse(fail, class) \in {-1, 0, 1}
  BY DEF Worse

LEMMA SweepTypes == SweepTypeOK /\ [SweepNext]_sweepVars => SweepTypeOK'
<1> SUFFICES ASSUME SweepTypeOK, [SweepNext]_sweepVars PROVE SweepTypeOK'
  OBVIOUS
<1> USE SweepAssumption DEF SweepTypeOK, options, history
<1>1. CASE SweepMain
  BY <1>1, SenderTypes DEF SweepMain, TxDo, SweepSteps
<1>2. CASE BeginSweep
  BY <1>2 DEF BeginSweep, SweepSteps, Offsets
<1>3. CASE BeginHalf
  BY <1>3 DEF BeginHalf, EndHalf, SweepSteps, Offsets, Chans
<1>4. CASE SetChannel
  BY <1>4, SenderTypes DEF SetChannel, TxDo, SweepSteps
<1>5. CASE InitSender
  BY <1>5, SenderTypes DEF InitSender, TxDo, SweepSteps
<1>6. CASE PrepareWave
  <2>1. tx' \in {tx, Unset, Preparing(tx, half)}
    BY <1>6 DEF PrepareWave, TxDo
  <2>a. Unset \in Senders /\ Preparing(tx, half) \in Senders
    BY SenderTypes
  <2>2. tx' \in Senders
    BY <2>1, <2>a
  <2>3. at_step' \in SweepSteps
    BY <1>6 DEF PrepareWave, SweepSteps
  <2>4. QED
    BY <1>6, <2>2, <2>3 DEF PrepareWave
<1>14. CASE StartWave
  BY <1>14, SenderTypes DEF StartWave, SweepSteps
<1>7. CASE ReadRssi
  BY <1>7, WorseType DEF ReadRssi, SweepSteps
<1>8. CASE StopWave
  <2>1. chan < N_CHAN - 1 => chan + 1 \in Chans
    BY DEF Chans
  <2>2. tx' \in Senders
    BY <1>8, SenderTypes DEF StopWave, TxDo, Offsets
  <2>3. chan' \in Chans /\ half' \in Offsets /\ at_step' \in SweepSteps
    BY <1>8, <2>1 DEF StopWave, EndHalf, SweepSteps, Offsets
  <2>4. QED
    BY <1>8, <2>2, <2>3 DEF StopWave
<1>9. CASE EndSweep
  <2>1. result' \in {-1, 0, 1} /\ decision' \in {-1, 0, 1} /\ Verdict \in Verdicts
    BY <1>9 DEF EndSweep, Result, Decide, Verdict, Verdicts
  <2>2. QED
    BY <1>9, <2>1 DEF EndSweep, SweepSteps
<1>10. CASE Key
  BY <1>10 DEF Key, SweepSteps
<1>11. CASE TxFails
  BY <1>11, SenderTypes DEF TxFails
<1>12. CASE UNCHANGED sweepVars
  BY <1>12 DEF sweepVars
<1>13. QED
  BY <1>1, <1>2, <1>3, <1>4, <1>5, <1>6, <1>7, <1>8, <1>9, <1>10, <1>11, <1>12, <1>14
     DEF SweepNext

LEMMA WaveNext == WaveInv /\ [SweepNext]_sweepVars => WaveInv'
<1> SUFFICES ASSUME WaveInv, [SweepNext]_sweepVars PROVE SenderReady' /\ Measured'
  BY SweepTypes DEF WaveInv
<1> USE DEF WaveInv, SweepTypeOK, SenderReady, Measured, InHalf, NeedsReset, OnUsb, options, history
<1>1. CASE SweepMain
  BY <1>1 DEF SweepMain, TxDo, InitTx, Senders
<1>2. CASE BeginSweep
  BY <1>2 DEF BeginSweep
<1>3. CASE BeginHalf
  BY <1>3 DEF BeginHalf, EndHalf, Offsets
<1>4. CASE SetChannel
  BY <1>4 DEF SetChannel, TxDo, Senders
<1>5. CASE InitSender
  BY <1>5 DEF InitSender, TxDo, InitTx, Senders
<1>6. CASE PrepareWave
  <2>1. CASE at_step' = "exit"
    <3>1. ~tx_error => NeedsReset
      BY <1>6, <2>1 DEF PrepareWave, NoTestMode, NotOff
    <3> QED BY <1>6, <2>1, <3>1 DEF PrepareWave
  <2>2. CASE at_step' = "lock"
    <3>1. CASE tx_error
      BY <1>6, <2>2, <3>1 DEF PrepareWave
    <3>2. CASE ~tx_error /\ BeginsAnew
      <4>1. tx' = Preparing(tx, half)
        BY <1>6, <2>2, <3>2 DEF PrepareWave, TxDo
      <4>2. /\ tx'.chan = tx.chan /\ tx'.power = tx.power
            /\ link.chip = "231" => tx'.prepared = half
        BY <4>1 DEF Preparing, Senders
      <4> QED BY <1>6, <2>2, <3>2, <4>2 DEF PrepareWave, BeginsAnew, Offsets
    <3>3. CASE ~tx_error /\ ~BeginsAnew
      <4>1. tx' = tx
        BY <1>6, <2>2, <3>3 DEF PrepareWave, TxDo
      <4>2. ~need_init /\ (cont_tx = "both" => chan > 0)
        BY <3>3 DEF BeginsAnew, Chans
      <4>3. at_step = "wave" /\ ~NeedsReset
        BY <1>6, <3>3, <4>2 DEF PrepareWave
      <4>4. tx.prepared = half
        BY <3>3, <4>2, <4>3
      <4> QED BY <1>6, <2>2, <3>3, <4>1, <4>4 DEF PrepareWave
    <3> QED BY <3>1, <3>2, <3>3
  <2> QED BY <1>6, <2>1, <2>2 DEF PrepareWave
<1>14. CASE StartWave
  BY <1>14 DEF StartWave, Starting, Senders, Offsets
<1>7. CASE ReadRssi
  BY <1>7 DEF ReadRssi
<1>8. CASE StopWave
  BY <1>8 DEF StopWave, TxDo, EndHalf, Senders, Offsets
<1>9. CASE EndSweep
  BY <1>9 DEF EndSweep
<1>10. CASE Key
  BY <1>10 DEF Key
<1>11. CASE TxFails
  BY <1>11 DEF TxFails
<1>12. CASE UNCHANGED sweepVars
  BY <1>12 DEF sweepVars
<1>13. QED
  BY <1>1, <1>2, <1>3, <1>4, <1>5, <1>6, <1>7, <1>8, <1>9, <1>10, <1>11, <1>12, <1>14
     DEF SweepNext

\* For every number of channels and sweeps, either chip, each driver of this host and
\* whatever the last user has left, a reading is of the wave it is stored for.
THEOREM WaveIsRight == SweepSpec => []RightWave
<1>1. WaveInv => RightWave
  BY DEF WaveInv, SenderReady, RightWave
<1>2. QED
  BY <1>1, WaveInit, WaveNext, PTL DEF SweepSpec
-----------------------------------------------------------------------------
(* The decision *)

\* What is remembered of a sweep is what its levels were.
FailsTell ==
    /\ (\E h \in Offsets : fails[h] = 1) <=> "above" \in classes
    /\ "below" \in classes => \E h \in Offsets : fails[h] # 0
    /\ (\E h \in Offsets : fails[h] = -1) => "below" \in classes

\* "result" is the last verdict, and "decision" what all of them have in common.
DecisionTells ==
    /\ cycle = 0 => verdicts = {} /\ decision = 0
    /\ ~graphical /\ cycle > 0 =>
          /\ decision = 1 <=> verdicts = {"pass"}
          /\ decision = -1 <=> verdicts = {"under"}
          /\ verdicts # {}
    /\ graphical /\ cycle > 0 =>
          /\ \E v \in Verdicts : verdicts = {v}
          /\ result = -1 <=> verdicts = {"under"}
          /\ result = 0 <=> verdicts = {"pass"}
    /\ graphical /\ at_step # "over" => decision = 0
    /\ at_step = "key" => graphical
    /\ graphical => DecisionRight

DecisionInv == SweepTypeOK /\ FailsTell /\ DecisionTells

LEMMA DecisionInit == SweepInit => DecisionInv
<1> SUFFICES ASSUME SweepInit PROVE FailsTell /\ DecisionTells
  BY WaveInit DEF DecisionInv, WaveInv
<1>1. QED
  BY DEF SweepInit, FailsTell, DecisionTells, DecisionRight

\* do_sweep() returns what its levels say.
LEMMA ResultTells ==
    ASSUME SweepTypeOK, FailsTell
    PROVE  /\ Verdict = "over" <=> Result = 1
           /\ Verdict = "under" <=> Result = -1
           /\ Verdict = "pass" <=> Result = 0
  BY DEF SweepTypeOK, FailsTell, Verdict, Result

LEMMA FailsNext == ASSUME SweepTypeOK, FailsTell, ReadRssi PROVE FailsTell'
<1>1. PICK class \in {"below", "within", "above"} :
         fails' = [fails EXCEPT ![half] = Worse(@, class)] /\ classes' = classes \cup {class}
  BY DEF ReadRssi
<1>2. half \in Offsets /\ fails \in [Offsets -> {-1, 0, 1}]
  BY DEF SweepTypeOK
<1>3. CASE class = "above"
  BY <1>1, <1>2, <1>3 DEF FailsTell, Worse, Offsets
<1>4. CASE class = "below"
  BY <1>1, <1>2, <1>4 DEF FailsTell, Worse, Offsets
<1>5. CASE class = "within"
  BY <1>1, <1>2, <1>5 DEF FailsTell, Worse, Offsets
<1>6. QED
  BY <1>1, <1>3, <1>4, <1>5

LEMMA EndSweepTells == ASSUME DecisionInv, EndSweep PROVE DecisionTells'
<1> USE DEF DecisionInv, SweepTypeOK
<1>1. /\ Verdict = "over" <=> Result = 1
      /\ Verdict = "under" <=> Result = -1
      /\ Verdict = "pass" <=> Result = 0
      /\ Verdict \in Verdicts
  BY ResultTells DEF Verdict, Verdicts
<1>2. /\ result' = Result /\ cycle' > 0 /\ graphical' = graphical
      /\ at_step' = "key" => graphical
  BY DEF EndSweep, options
<1>3. CASE graphical
  <2>1. verdicts' = {Verdict} /\ decision' = 0
    BY <1>3 DEF EndSweep
  <2>2. QED
    BY <1>1, <1>2, <1>3, <2>1 DEF DecisionTells, DecisionRight
<1>4. CASE ~graphical
  <2>1. verdicts' = verdicts \cup {Verdict}
    BY <1>4 DEF EndSweep
  <2>2. decision' = Decide(IF Result < 0 THEN -1 ELSE IF Result > 0 THEN 0 ELSE 1)
    BY <1>4 DEF EndSweep
  <2>3. Result \in {-1, 0, 1}
    BY DEF Result
  <2>4. CASE cycle = 0
    <3>1. verdicts' = {Verdict}
      BY <2>1, <2>4 DEF DecisionTells
    <3>2. decision' = IF Result = 1 THEN 0 ELSE IF Result = 0 THEN 1 ELSE -1
      BY <2>2, <2>3, <2>4 DEF Decide
    <3>3. QED
      BY <1>1, <1>2, <1>4, <2>3, <3>1, <3>2 DEF DecisionTells
  <2>5. CASE cycle > 0
    <3>1. decision' = IF Result = 1 THEN 0
                      ELSE IF Result = 0 THEN (IF decision = 1 THEN 1 ELSE 0)
                      ELSE (IF decision = -1 THEN -1 ELSE 0)
      BY <2>2, <2>3, <2>5 DEF Decide
    <3>2. /\ decision = 1 <=> verdicts = {"pass"}
          /\ decision = -1 <=> verdicts = {"under"}
          /\ verdicts # {}
      BY <1>4, <2>5 DEF DecisionTells
    <3>3. /\ decision' = 1 <=> verdicts' = {"pass"}
          /\ decision' = -1 <=> verdicts' = {"under"}
          /\ verdicts' # {}
      BY <1>1, <2>1, <2>3, <3>1, <3>2
    <3>4. QED
      BY <1>2, <1>4, <3>3 DEF DecisionTells
  <2>6. QED
    BY <2>4, <2>5
<1>5. QED
  BY <1>3, <1>4

LEMMA DecisionNext == DecisionInv /\ [SweepNext]_sweepVars => DecisionInv'
<1> SUFFICES ASSUME DecisionInv, [SweepNext]_sweepVars PROVE FailsTell' /\ DecisionTells'
  BY SweepTypes DEF DecisionInv
<1> USE DEF DecisionInv, SweepTypeOK, options, history
<1>1. CASE SweepMain
  BY <1>1 DEF SweepMain, FailsTell, DecisionTells, DecisionRight
<1>2. CASE BeginSweep
  BY <1>2 DEF BeginSweep, FailsTell, DecisionTells, DecisionRight
<1>3. CASE BeginHalf
  BY <1>3 DEF BeginHalf, EndHalf, FailsTell, DecisionTells, DecisionRight
<1>4. CASE SetChannel \/ InitSender \/ PrepareWave \/ StartWave
  BY <1>4 DEF SetChannel, InitSender, PrepareWave, StartWave, FailsTell, DecisionTells, DecisionRight
<1>5. CASE ReadRssi
  BY <1>5, FailsNext DEF ReadRssi, DecisionTells, DecisionRight
<1>6. CASE StopWave
  BY <1>6 DEF StopWave, EndHalf, FailsTell, DecisionTells, DecisionRight
<1>7. CASE EndSweep
  BY <1>7, EndSweepTells DEF EndSweep, FailsTell
<1>8. CASE Key
  BY <1>8 DEF Key, FailsTell, DecisionTells, DecisionRight
<1>9. CASE TxFails
  BY <1>9 DEF TxFails, FailsTell, DecisionTells, DecisionRight
<1>10. CASE UNCHANGED sweepVars
  BY <1>10 DEF sweepVars, FailsTell, DecisionTells, DecisionRight
<1>11. QED
  BY <1>1, <1>2, <1>3, <1>4, <1>5, <1>6, <1>7, <1>8, <1>9, <1>10 DEF SweepNext

\* For every number of sweeps and channels, a board passes if all its sweeps do, and
\* fails if all of them are below the minimum and nowhere above the maximum.
THEOREM DecisionIsRight == SweepSpec => []DecisionRight
<1>1. DecisionInv => DecisionRight
  BY DEF DecisionInv, SweepTypeOK, DecisionTells, DecisionRight
<1>2. QED
  BY <1>1, DecisionInit, DecisionNext, PTL DEF SweepSpec

-----------------------------------------------------------------------------
(* Two stations: TxRx                                                      *)

Modes == Pinging \cup Hmac \cup Receiving
             \cup {"per", "transmit", "rtt_master", "rtt_slave", "cont_tx"}

\* Where the loop of a mode can be.
PCs == {"start", "over", "exit", "next", "pll", "lock", "load", "tx", "sent", "rx", "rxlock",
        "listen", "read", "rx_mode", "rx_mode_off", "cw", "cmd"}
Places(m) == {"start", "over", "exit"} \cup
    (CASE m \in Pinging -> {"next", "pll", "lock", "load", "tx", "sent", "rx", "listen", "read"}
       [] m \in {"transmit", "per"} -> {"pll", "lock", "load", "tx", "sent"}
       [] m = "transmit_hmac" -> {"rx_mode", "tx", "sent", "rx_mode_off"}
       [] m \in {"receive", "receive_pcap"} -> {"rx", "rxlock", "listen", "read"}
       [] m = "receive_hmac" -> {"rx_mode", "listen", "read", "rx_mode_off"}
       [] m = "rtt_master" -> {"load", "tx", "rx", "sent", "listen", "read"}
       [] m = "rtt_slave" -> {"rx", "listen", "read", "load", "tx", "sent"}
       [] m = "rtt_slave_hmac" -> {"rx_mode", "listen", "read", "tx", "sent", "rx_mode_off"}
       [] m = "cont_tx" -> {"cw", "cmd"})

Irqs == {"PLL_LOCK", "RX_START", "TRX_END"}
Frames == [from : Stations \cup {"none"}, what : {"junk", "ping", "zeros", "pattern", "message"},
           seq : Nat, ack : Nat]
RadioType ==
    [state : {"TRX_OFF", "PLL_ON", "RX_ON", "BUSY_TX", "BUSY_RX", "CW"},
     next : {"none", "TRX_OFF", "PLL_ON", "RX_ON"},
     tuned : BOOLEAN, power : BOOLEAN, crc : BOOLEAN,
     frame : Frames, valid : BOOLEAN, irq : SUBSET Irqs]
StationType == [seq : Nat, ack : Nat, left : Nat, first : BOOLEAN, run : BOOLEAN]

\* From the first command on, the transceiver is set up; it is off before and after.
SetUp(m, p, r) ==
    /\ p = "start" => r.state = "TRX_OFF"
    /\ \/ p \in {"start", "over", "exit"} /\ r.state = "TRX_OFF"
       \/ /\ r.tuned
          /\ m \notin Receiving => r.power /\ r.crc = (m \notin {"per", "cont_tx"})
    /\ m \in Receiving => r.state # "BUSY_TX"
    /\ r.state = "CW" => m = "cont_tx"

\* The frames of these modes are always the same.
SameFrame(s, m) == Frame(s, IF m = "per" THEN "pattern" ELSE "message", 0, 0)
OneFrame(s, m, p, r) ==
    /\ m \in {"transmit", "per"} =>
          /\ r.state \in {"TRX_OFF", "PLL_ON", "BUSY_TX"} /\ r.next # "RX_ON"
          /\ p \in {"tx", "sent"} => r.frame = SameFrame(s, m)
    /\ m \in {"transmit", "per", "transmit_hmac"} /\ r.state = "BUSY_TX" =>
          r.frame = SameFrame(s, m)

\* Ping-pong, until Ctrl-C: nothing comes in between the end of the wait for the PLL
\* and that of the transmission, and an interrupt that ends one of these waits is
\* the one it is for.
Exchange(s, m, p, st, r) ==
    m \in Pinging /\ st.run /\ p # "exit" =>
        /\ r.state = "BUSY_TX" => p = "sent" /\ "TRX_END" \notin r.irq /\ r.next = "PLL_ON"
        /\ p \in {"load", "tx"} => r.state = "PLL_ON" /\ "TRX_END" \notin r.irq
        /\ p \in {"tx", "sent"} =>
              r.state \in {"PLL_ON", "BUSY_TX"} /\ r.frame = Frame(s, "ping", st.seq, st.ack)
        /\ p = "lock" =>
              r.state = "PLL_ON" \/ (r.state = "BUSY_RX" /\ r.next = "PLL_ON")
        /\ p = "lock" /\ r.state = "BUSY_RX" => "PLL_LOCK" \notin r.irq
        /\ p \in {"next", "pll", "read"} => "PLL_LOCK" \notin r.irq

Fine(s, m, p, st, r) ==
    /\ p \in Places(m)
    /\ Busy(r) => r.next # "none"
    /\ SetUp(m, p, r)
    /\ OneFrame(s, m, p, r)
    /\ Exchange(s, m, p, st, r)

TxRxTypeOK ==
    /\ job \in [Stations -> [mode : Modes, wait : BOOLEAN, times : Nat]]
    /\ pc \in [Stations -> PCs]
    /\ station \in [Stations -> StationType]
    /\ radio \in [Stations -> RadioType]

SendInv ==
    /\ TxRxTypeOK
    /\ \A s \in Stations : Fine(s, Mode(s), pc[s], station[s], radio[s])

LEMMA SendInvInit == TxRxInit => SendInv
<1> SUFFICES ASSUME TxRxInit PROVE SendInv
  OBVIOUS
<1> USE DEF Stations, Modes, Pinging, Hmac, Receiving
<1>1. PICK first \in Masters : \E sl \in Slave(first.mode) :
          job = [s \in Stations |-> IF s = "A" THEN first ELSE Job(sl, FALSE, 0)]
  BY DEF TxRxInit
<1>2. PICK sl \in Slave(first.mode) :
          job = [s \in Stations |-> IF s = "A" THEN first ELSE Job(sl, FALSE, 0)]
  BY <1>1
<1>3. first \in [mode : Modes, wait : BOOLEAN, times : Nat]
  <2>1. \A w \in BOOLEAN : Job("ping", w, 0) \in [mode : Modes, wait : BOOLEAN, times : Nat]
    BY DEF Job
  <2>2. \A n \in Nat : Job("per", FALSE, n) \in [mode : Modes, wait : BOOLEAN, times : Nat]
    BY DEF Job
  <2>3. \A n \in Nat :
            /\ Job("transmit", FALSE, n) \in [mode : Modes, wait : BOOLEAN, times : Nat]
            /\ Job("rtt_master", FALSE, n) \in [mode : Modes, wait : BOOLEAN, times : Nat]
            /\ Job("transmit_hmac", FALSE, n) \in [mode : Modes, wait : BOOLEAN, times : Nat]
            /\ Job("cont_tx", FALSE, n) \in [mode : Modes, wait : BOOLEAN, times : Nat]
    BY DEF Job
  <2>4. 0..Times \subseteq Nat /\ 1..Times \subseteq Nat /\ 1 \in Nat
    BY TxRxAssumption
  <2> QED
    <3>1. CASE first \in {Job("ping", w, 0) : w \in BOOLEAN}
      BY <2>1, <3>1
    <3>2. CASE first \in {Job("per", FALSE, n) : n \in 0..Times}
      BY <2>2, <2>4, <3>2
    <3>3. CASE first \in {Job("transmit", FALSE, n) : n \in 1..Times}
      <4>1. PICK n \in 1..Times : first = Job("transmit", FALSE, n)
        BY <3>3
      <4> QED
        BY <2>3, <2>4, <4>1
    <3>4. CASE first \in {Job("rtt_master", FALSE, n) : n \in 1..Times}
      <4>1. PICK n \in 1..Times : first = Job("rtt_master", FALSE, n)
        BY <3>4
      <4> QED
        BY <2>3, <2>4, <4>1
    <3>5. CASE first \in {Job(mode, FALSE, 1) : mode \in {"transmit_hmac", "cont_tx"}}
      BY <2>3, <2>4, <3>5
    <3> QED
      BY <3>1, <3>2, <3>3, <3>4, <3>5 DEF Masters
<1>4. Job(sl, FALSE, 0) \in [mode : Modes, wait : BOOLEAN, times : Nat]
  BY DEF Slave, Job
<1>5. job \in [Stations -> [mode : Modes, wait : BOOLEAN, times : Nat]]
  BY <1>2, <1>3, <1>4
<1>6. OffRadio \in RadioType
  BY DEF OffRadio, RadioType, Frames, Frame, Junk
<1>7. \A s \in Stations : NewStation(job[s].times) \in StationType
  BY <1>5 DEF NewStation, StationType
<1>8. TxRxTypeOK
  <2>1. pc \in [Stations -> PCs]
    BY DEF TxRxInit, PCs
  <2>2. station \in [Stations -> StationType]
    BY <1>7 DEF TxRxInit
  <2>3. radio \in [Stations -> RadioType]
    BY <1>6 DEF TxRxInit
  <2> QED
    BY <1>5, <2>1, <2>2, <2>3 DEF TxRxTypeOK
<1>9. ASSUME NEW s \in Stations PROVE Fine(s, Mode(s), pc[s], station[s], radio[s])
  <2>1. pc[s] = "start" /\ radio[s] = OffRadio
    BY DEF TxRxInit
  <2>2. radio[s].state = "TRX_OFF" /\ radio[s].next = "none"
    BY <2>1 DEF OffRadio
  <2>3. "start" \in Places(Mode(s))
    BY DEF Places
  <2> QED
    BY <2>1, <2>2, <2>3 DEF Fine, SetUp, OneFrame, Exchange, Busy
<1> QED
  BY <1>8, <1>9 DEF SendInv

LEMMA Hears ==
    ASSUME NEW s, NEW m, NEW p, NEW st, NEW r \in RadioType,
           Fine(s, m, p, st, r), NEW other
    PROVE  Hearing(other, r) \in RadioType /\ Fine(s, m, p, st, Hearing(other, r))
<1> DEFINE r1 == [r EXCEPT !.state = "BUSY_RX", !.next = "RX_ON", !.irq = @ \cup {"RX_START"}]
<1>0. CASE Hearing(other, r) = r
  BY <1>0
<1> SUFFICES ASSUME Hearing(other, r) = r1, r.state = "RX_ON"
             PROVE  r1 \in RadioType /\ Fine(s, m, p, st, r1)
  BY <1>0 DEF Hearing
<1>1. r1 \in RadioType
  BY DEF RadioType, Irqs
<1>2. /\ r1.state = "BUSY_RX" /\ r1.next = "RX_ON" /\ r1.irq = r.irq \cup {"RX_START"}
      /\ r1.tuned = r.tuned /\ r1.power = r.power /\ r1.crc = r.crc /\ r1.frame = r.frame
  BY DEF RadioType
<1> HIDE DEF r1
<1>3. p \in Places(m) /\ (Busy(r1) => r1.next # "none")
  BY <1>2 DEF Fine
<1>4. SetUp(m, p, r1)
  BY <1>2 DEF Fine, SetUp
<1>5. OneFrame(s, m, p, r1)
  BY <1>2 DEF Fine, OneFrame
<1>6. Exchange(s, m, p, st, r1)
  BY <1>2 DEF Fine, Exchange
<1>7. Fine(s, m, p, st, r1)
  BY <1>3, <1>4, <1>5, <1>6 DEF Fine
<1> QED
  BY <1>1, <1>7

LEMMA HasReceived ==
    ASSUME NEW s, NEW m, NEW p, NEW st, NEW r \in RadioType,
           Fine(s, m, p, st, r), NEW f \in Frames, NEW outcome \in {"good", "damaged", "lost"}
    PROVE  /\ Received0(r, f, outcome) \in RadioType
           /\ Fine(s, m, p, st, Received0(r, f, outcome))
<1> DEFINE r1 == Received0(r, f, outcome)
<1>1. CASE r.state # "BUSY_RX"
  BY <1>1 DEF Received0
<1>2. CASE r.state = "BUSY_RX"
  <2>1. r.next \in {"TRX_OFF", "PLL_ON", "RX_ON"}
    BY <1>2 DEF Fine, Busy, RadioType
  <2>2. r1 \in RadioType
    BY <1>2, <2>1 DEF RadioType, Irqs, Received0, Settled, Frames, Junk, Frame, Stations
  <2>3. /\ r1.state = r.next /\ r1.next = "none" /\ r1.irq \subseteq r.irq \cup {"TRX_END"}
        /\ r1.tuned = r.tuned /\ r1.power = r.power /\ r1.crc = r.crc
    BY <1>2 DEF Received0, Settled, RadioType
  <2> HIDE DEF r1
  <2>4. p \in Places(m) /\ ~Busy(r1)
    BY <2>1, <2>3 DEF Fine, Busy
  <2>5. SetUp(m, p, r1)
    BY <1>2, <2>1, <2>3 DEF Fine, SetUp
  <2>6. OneFrame(s, m, p, r1)
    BY <1>2, <2>1, <2>3 DEF Fine, OneFrame
  <2>7. Exchange(s, m, p, st, r1)
    BY <1>2, <2>1, <2>3 DEF Fine, Exchange
  <2> QED
    BY <2>2, <2>4, <2>5, <2>6, <2>7 DEF Fine, r1
<1> QED
  BY <1>1, <1>2

\* A step of one station that the other does not notice.
LEMMA OnlyOne ==
    ASSUME SendInv, NEW s \in Stations, UNCHANGED job,
           NEW p \in PCs, NEW st \in StationType, NEW r \in RadioType,
           pc' = [pc EXCEPT ![s] = p], station' = [station EXCEPT ![s] = st],
           radio' = [radio EXCEPT ![s] = r], Fine(s, Mode(s), p, st, r)
    PROVE  SendInv'
<1>1. TxRxTypeOK'
  BY DEF SendInv, TxRxTypeOK
<1>2. ASSUME NEW t \in Stations PROVE Fine(t, Mode(t), pc[t], station[t], radio[t])'
  <2>1. CASE t = s
    <3>1. Mode(s)' = Mode(s) /\ pc'[s] = p /\ station'[s] = st /\ radio'[s] = r
      BY DEF SendInv, TxRxTypeOK, Mode
    <3> QED
      BY <2>1, <3>1 DEF Fine, Busy, SetUp, OneFrame, Exchange
  <2>2. CASE t # s
    <3>1. /\ Mode(t)' = Mode(t) /\ pc'[t] = pc[t] /\ station'[t] = station[t]
          /\ radio'[t] = radio[t]
      BY <2>2 DEF SendInv, TxRxTypeOK, Mode
    <3>2. Fine(t, Mode(t), pc[t], station[t], radio[t])
      BY DEF SendInv
    <3> QED
      BY <3>1, <3>2 DEF Fine, Busy, SetUp, OneFrame, Exchange
  <2> QED
    BY <2>1, <2>2
<1> QED
  BY <1>1, <1>2 DEF SendInv

LEMMA Types ==
    ASSUME SendInv, NEW s \in Stations
    PROVE  /\ Mode(s) \in Modes /\ pc[s] \in PCs /\ station[s] \in StationType
           /\ radio[s] \in RadioType /\ Fine(s, Mode(s), pc[s], station[s], radio[s])
           /\ pc = [pc EXCEPT ![s] = pc[s]] /\ station = [station EXCEPT ![s] = station[s]]
           /\ radio = [radio EXCEPT ![s] = radio[s]]
  BY DEF SendInv, TxRxTypeOK, Mode

LEMMA Commanded ==
    ASSUME NEW r \in RadioType, NEW x \in {"TRX_OFF", "PLL_ON", "RX_ON"}
    PROVE  /\ Command(r, x) \in RadioType
           /\ LET r1 == Command(r, x) IN
              /\ r1.tuned = r.tuned /\ r1.power = r.power /\ r1.crc = r.crc
              /\ r1.frame = r.frame
              /\ Busy(r) => r1.state = r.state /\ r1.next = x /\ r1.irq = r.irq
              /\ ~Busy(r) => r1.state = x /\ r1.next = r.next
              /\ "TRX_END" \in r1.irq => "TRX_END" \in r.irq
              /\ "PLL_LOCK" \in r1.irq => "PLL_LOCK" \in r.irq \/ r.state = "TRX_OFF"
<1>1. CASE Busy(r)
  BY <1>1 DEF Command, RadioType
<1>2. CASE ~Busy(r)
  BY <1>2 DEF Command, RadioType, Irqs
<1> QED
  BY <1>1, <1>2

LEMMA Cleared ==
    ASSUME NEW r \in RadioType
    PROVE  LET r1 == [r EXCEPT !.irq = {}] IN
           /\ r1 \in RadioType
           /\ r1.tuned = r.tuned /\ r1.power = r.power /\ r1.crc = r.crc
           /\ r1.frame = r.frame /\ r1.state = r.state /\ r1.next = r.next /\ r1.irq = {}
  BY DEF RadioType

\* The places and who is there.
LEMMA Who ==
    ASSUME NEW m \in Modes, NEW p \in Places(m)
    PROVE  /\ p \in {"next"} => m \in Pinging
           /\ p \in {"pll", "lock"} => m \in Pinging \cup {"transmit", "per"}
           /\ p = "load" => m \in Pinging \cup {"transmit", "per", "rtt_master", "rtt_slave"}
           /\ p \in {"tx", "sent"} => m \notin Receiving \cup {"cont_tx"}
           /\ p = "rx" => m \in Pinging \cup {"rtt_master", "rtt_slave", "receive", "receive_pcap"}
           /\ p = "rxlock" => m \in {"receive", "receive_pcap"}
           /\ p \in {"listen", "read"} => m \notin {"transmit", "per", "transmit_hmac", "cont_tx"}
           /\ p \in {"rx_mode", "rx_mode_off"} => m \in Hmac
           /\ p \in {"cw", "cmd"} => m = "cont_tx"
           /\ p \in PCs
  BY DEF Places, Modes, Pinging, Hmac, Receiving, PCs

LEMMA ConfigureKeeps ==
    ASSUME SendInv, NEW s \in Stations, Configure(s)
    PROVE  SendInv'
<1> DEFINE m == Mode(s)
           r1 == Configured(s)
           p1 == FirstStep(s)
           st == station[s]
<1>1. /\ r1 \in RadioType /\ r1.state = "TRX_OFF" /\ r1.next = "none" /\ r1.irq = {}
      /\ r1.tuned
  BY Types DEF Configured, Tuned, Powered, OffRadio, RadioType, Irqs
<1>2. m \notin Receiving => r1.power /\ r1.crc = (m \notin {"per", "cont_tx"})
  BY DEF Configured, Tuned, Powered, OffRadio
<1>3. p1 \in Places(m) /\ p1 \in PCs /\ p1 \in {"pll", "next", "rx", "load", "cw", "rx_mode"}
  BY Types DEF FirstStep, Places, Modes, Pinging, Hmac, Receiving, PCs
<1>4. m \in Pinging => p1 = "next"
  BY DEF FirstStep, Pinging
<1> HIDE DEF m, r1, p1
<1>5. SetUp(m, p1, r1)
  BY <1>1, <1>2, <1>3 DEF SetUp
<1>6. OneFrame(s, m, p1, r1)
  BY <1>1, <1>3 DEF OneFrame
<1>7. Exchange(s, m, p1, st, r1)
  BY <1>1, <1>4 DEF Exchange
<1>8. Fine(s, m, p1, st, r1)
  BY <1>1, <1>3, <1>5, <1>6, <1>7 DEF Fine, Busy
<1> QED
  BY <1>1, <1>3, <1>8, OnlyOne, Types DEF Configure, Goto, m, r1, p1

LEMMA PllOnKeeps ==
    ASSUME SendInv, NEW s \in Stations, PllOn(s)
    PROVE  SendInv'
<1> DEFINE m == Mode(s)
           r == radio[s]
           p == pc[s]
           st == station[s]
<1>0. m \in Modes /\ r \in RadioType /\ p \in Places(m) /\ st \in StationType /\ Fine(s, m, p, st, r)
  BY Types DEF Fine
<1> DEFINE r1 == Command(r, "PLL_ON")
<1>1. pc' = [pc EXCEPT ![s] = "lock"] /\ radio' = [radio EXCEPT ![s] = r1] /\ p = "pll"
  BY DEF PllOn, Goto
<1>2. UNCHANGED job /\ station' = [station EXCEPT ![s] = st]
  BY Types DEF PllOn
<1> HIDE DEF m, r, p, st
<1>3. m \in Pinging \cup {"transmit", "per"}
  BY <1>0, <1>1, Who
<1>4. "lock" \in Places(m) /\ "lock" \in PCs
  BY <1>3 DEF Places, Pinging, PCs
<1>5. Busy(r1) => r1.next # "none"
  BY <1>0, Commanded DEF Busy
<1>6. SetUp(m, "lock", r1)
  BY <1>0, <1>1, <1>3, Commanded DEF Fine, SetUp, Pinging, Receiving
<1>7. OneFrame(s, m, "lock", r1)
  BY <1>0, <1>1, <1>3, Commanded DEF Fine, OneFrame, Pinging, Busy
<1>8. Exchange(s, m, "lock", st, r1)
  BY <1>0, <1>1, <1>3, Commanded DEF Fine, Exchange, Pinging, Busy, RadioType
<1>9. Fine(s, m, "lock", st, r1)
  BY <1>4, <1>5, <1>6, <1>7, <1>8 DEF Fine
<1>10. r1 \in RadioType
  BY <1>0, Commanded
<1> HIDE DEF r1
<1> QED
  BY <1>0, <1>1, <1>2, <1>4, <1>9, <1>10, OnlyOne DEF m

LEMMA LockedKeeps ==
    ASSUME SendInv, NEW s \in Stations, Locked(s)
    PROVE  SendInv'
<1> DEFINE m == Mode(s)
           r == radio[s]
           p == pc[s]
           st == station[s]
<1>0. m \in Modes /\ r \in RadioType /\ p \in Places(m) /\ st \in StationType /\ Fine(s, m, p, st, r)
  BY Types DEF Fine
<1> DEFINE r1 == [r EXCEPT !.irq = {}]
           p1 == IF p = "lock" THEN "load" ELSE "listen"
<1>1. pc' = [pc EXCEPT ![s] = p1] /\ radio' = [radio EXCEPT ![s] = r1] /\ p \in {"lock", "rxlock"}
  BY Types DEF Locked, Goto, ClearIrq
<1>2. UNCHANGED job /\ station' = [station EXCEPT ![s] = st]
  BY Types DEF Locked
<1>3. p = "lock" /\ m \in Pinging /\ st.run => "PLL_LOCK" \in r.irq \/ ~Busy(r)
  BY DEF Locked, Returns, Limit0, WaitsFor, Run, Pinging, Hmac
<1> HIDE DEF m, r, p, st
<1>4. p = "lock" => m \in Pinging \cup {"transmit", "per"}
  BY <1>0, Who
<1>5. p = "rxlock" => m \in {"receive", "receive_pcap"}
  BY <1>0, Who
<1>6. p1 \in Places(m) /\ p1 \in PCs
  BY <1>1, <1>4, <1>5 DEF Places, Pinging, PCs
<1>7. Busy(r1) => r1.next # "none"
  BY <1>0, Cleared DEF Busy, Fine
<1>8. SetUp(m, p1, r1)
  BY <1>0, <1>1, <1>4, <1>5, Cleared DEF Fine, SetUp, Pinging, Receiving
<1>9. OneFrame(s, m, p1, r1)
  BY <1>0, <1>1, Cleared DEF Fine, OneFrame
<1>10. Exchange(s, m, p1, st, r1)
  BY <1>0, <1>1, <1>3, <1>5, Cleared DEF Fine, Exchange, Pinging, Busy
<1>11. Fine(s, m, p1, st, r1)
  BY <1>6, <1>7, <1>8, <1>9, <1>10 DEF Fine
<1>12. r1 \in RadioType
  BY <1>0, Cleared
<1> HIDE DEF r1, p1
<1> QED
  BY <1>0, <1>1, <1>2, <1>6, <1>11, <1>12, OnlyOne DEF m

LEMMA SentKeeps ==
    ASSUME SendInv, NEW s \in Stations, Sent(s)
    PROVE  SendInv'
<1> DEFINE m == Mode(s)
           r == radio[s]
           p == pc[s]
           st == station[s]
<1>0. m \in Modes /\ r \in RadioType /\ p \in Places(m) /\ st \in StationType /\ Fine(s, m, p, st, r)
  BY Types DEF Fine
<1> DEFINE r1 == [r EXCEPT !.irq = {}]
           p1 == AfterTx(s)
<1>1. pc' = [pc EXCEPT ![s] = p1] /\ radio' = [radio EXCEPT ![s] = r1] /\ p = "sent"
  BY Types DEF Sent, Goto, ClearIrq
<1>2. UNCHANGED job /\ station' = [station EXCEPT ![s] = st]
  BY Types DEF Sent
<1>3. m \in Pinging /\ st.run => "TRX_END" \in r.irq \/ ~Busy(r)
  BY DEF Sent, Returns, Limit0, WaitsFor, Run, Pinging, Hmac
<1>4. m \notin Receiving \cup {"cont_tx"}
  BY <1>0, <1>1, Who
<1>5. p1 \in Places(m) /\ p1 \in {"rx", "over", "listen", "rx_mode_off", "tx", "load"}
  BY <1>0, <1>4 DEF AfterTx, Places, Pinging, Hmac, Receiving, Modes
<1>6. m \in Pinging => p1 \in {"rx", "over"} /\ (st.run => p1 = "rx")
  BY DEF AfterTx, Pinging, Run
<1> HIDE DEF m, r, p, st, p1
<1>7. Busy(r1) => r1.next # "none"
  BY <1>0, Cleared DEF Busy, Fine
<1>8. SetUp(m, p1, r1)
  BY <1>0, <1>1, <1>5, Cleared DEF Fine, SetUp
<1>9. OneFrame(s, m, p1, r1)
  BY <1>0, <1>1, <1>5, Cleared DEF Fine, OneFrame
<1>10. Exchange(s, m, p1, st, r1)
  BY <1>0, <1>1, <1>3, <1>6, Cleared DEF Fine, Exchange, Busy
<1>11. Fine(s, m, p1, st, r1)
  BY <1>5, <1>7, <1>8, <1>9, <1>10 DEF Fine
<1>12. r1 \in RadioType /\ p1 \in PCs
  BY <1>0, <1>5, Cleared DEF PCs
<1> HIDE DEF r1
<1> QED
  BY <1>0, <1>1, <1>2, <1>11, <1>12, OnlyOne DEF m

LEMMA ListenedKeeps ==
    ASSUME SendInv, NEW s \in Stations, Listened(s)
    PROVE  SendInv'
<1> DEFINE m == Mode(s)
           r == radio[s]
           p == pc[s]
           st == station[s]
<1>0. m \in Modes /\ r \in RadioType /\ p \in Places(m) /\ st \in StationType /\ Fine(s, m, p, st, r)
  BY Types DEF Fine
<1> DEFINE r1 == [r EXCEPT !.irq = {}]
           p1 == IF ~Run(s) /\ Mode(s) \notin Hmac \cup {"rtt_master"} THEN "over"
                 ELSE IF radio[s].irq # {} THEN "read"
                 ELSE IF Mode(s) = "rtt_master" THEN NextPacket(s)
                 ELSE "next"
<1>1. pc' = [pc EXCEPT ![s] = p1] /\ radio' = [radio EXCEPT ![s] = r1] /\ p = "listen"
  BY Types DEF Listened, Goto, ClearIrq
<1>2. UNCHANGED job /\ station' = [station EXCEPT ![s] = st]
  BY Types DEF Listened
<1>3. m \notin {"transmit", "per", "transmit_hmac", "cont_tx"}
  BY <1>0, <1>1, Who
<1>4. p1 = "next" => m \in Pinging
  BY <1>1, <1>3 DEF Listened, Returns, Limit0, WaitsFor, Hmac, Pinging, NextPacket
<1>5. p1 \in Places(m) /\ p1 \in {"over", "read", "next", "load"}
  BY <1>0, <1>3, <1>4 DEF Places, Pinging, Hmac, Receiving, Modes, NextPacket
<1>6. m \in Pinging => p1 \in {"over", "read", "next"} /\ (st.run => p1 # "over")
  BY DEF Pinging, Hmac, Run
<1> HIDE DEF m, r, p, st, p1
<1>7. Busy(r1) => r1.next # "none"
  BY <1>0, Cleared DEF Busy, Fine
<1>8. SetUp(m, p1, r1)
  BY <1>0, <1>1, <1>5, Cleared DEF Fine, SetUp
<1>9. OneFrame(s, m, p1, r1)
  BY <1>0, <1>1, <1>5, Cleared DEF Fine, OneFrame
<1>10. Exchange(s, m, p1, st, r1)
  BY <1>0, <1>1, <1>6, Cleared DEF Fine, Exchange, Busy
<1>11. Fine(s, m, p1, st, r1)
  BY <1>5, <1>7, <1>8, <1>9, <1>10 DEF Fine
<1>12. r1 \in RadioType /\ p1 \in PCs
  BY <1>0, <1>5, Cleared DEF PCs
<1> HIDE DEF r1
<1> QED
  BY <1>0, <1>1, <1>2, <1>11, <1>12, OnlyOne DEF m

LEMMA IgnoreKeeps ==
    ASSUME SendInv, NEW s \in Stations, Ignore(s)
    PROVE  SendInv'
<1> DEFINE m == Mode(s)
           r == radio[s]
           p == pc[s]
           st == station[s]
<1>0. m \in Modes /\ r \in RadioType /\ p \in Places(m) /\ st \in StationType /\ Fine(s, m, p, st, r)
  BY Types DEF Fine
<1> DEFINE r1 == [r EXCEPT !.irq = {}]
<1>1. pc' = [pc EXCEPT ![s] = p] /\ radio' = [radio EXCEPT ![s] = r1]
  BY Types DEF Ignore, ClearIrq
<1>2. UNCHANGED job /\ station' = [station EXCEPT ![s] = st]
  BY Types DEF Ignore
<1> HIDE DEF m, r, p, st
<1>7. Busy(r1) => r1.next # "none"
  BY <1>0, Cleared DEF Busy, Fine
<1>8. SetUp(m, p, r1)
  BY <1>0, Cleared DEF Fine, SetUp
<1>9. OneFrame(s, m, p, r1)
  BY <1>0, Cleared DEF Fine, OneFrame
<1>10. Exchange(s, m, p, st, r1)
  BY <1>0, Cleared DEF Fine, Exchange
<1>11. Fine(s, m, p, st, r1)
  BY <1>0, <1>7, <1>8, <1>9, <1>10 DEF Fine
<1>12. r1 \in RadioType /\ p \in PCs
  BY <1>0, Cleared, Who
<1> HIDE DEF r1
<1> QED
  BY <1>0, <1>1, <1>2, <1>11, <1>12, OnlyOne DEF m

LEMMA LoadKeeps ==
    ASSUME SendInv, NEW s \in Stations, Load(s)
    PROVE  SendInv'
<1> DEFINE m == Mode(s)
           r == radio[s]
           p == pc[s]
           st == station[s]
<1>0. m \in Modes /\ r \in RadioType /\ p \in Places(m) /\ st \in StationType /\ Fine(s, m, p, st, r)
  BY Types DEF Fine
<1> DEFINE r0 == IF m \in {"rtt_master", "rtt_slave"} THEN Command(r, "PLL_ON") ELSE r
           f == Content(s)
           r1 == [r0 EXCEPT !.frame = f]
<1>1. pc' = [pc EXCEPT ![s] = "tx"] /\ radio' = [radio EXCEPT ![s] = r1] /\ p = "load"
  BY DEF Load, Goto
<1>2. UNCHANGED job /\ station' = [station EXCEPT ![s] = st]
  BY Types DEF Load
<1>3. m \in Pinging \cup {"transmit", "per", "rtt_master", "rtt_slave"}
  BY <1>0, <1>1, Who
<1>4. f \in Frames
  BY <1>0 DEF Content, Frame, Frames, RadioType, StationType, Stations
<1>5. /\ m \in {"transmit", "per"} => f = SameFrame(s, m)
      /\ m \in Pinging => f = Frame(s, "ping", st.seq, st.ack)
  BY DEF Content, SameFrame, Pinging
<1> HIDE DEF m, r, p, st, f
<1>6. /\ r0 \in RadioType /\ r0.tuned = r.tuned /\ r0.power = r.power /\ r0.crc = r.crc
      /\ Busy(r0) => r0.next # "none"
      /\ m \notin {"rtt_master", "rtt_slave"} => r0 = r
      /\ r0.state = "CW" => r.state = "CW"
  BY <1>0, Commanded DEF Fine, Busy
<1> HIDE DEF r0
<1>7. /\ r1 \in RadioType /\ r1.tuned = r.tuned /\ r1.power = r.power /\ r1.crc = r.crc
      /\ r1.state = r0.state /\ r1.next = r0.next /\ r1.irq = r0.irq /\ r1.frame = f
  BY <1>4, <1>6 DEF RadioType
<1> HIDE DEF r1
<1>8. "tx" \in Places(m) /\ "tx" \in PCs
  BY <1>3 DEF Places, Pinging, PCs
<1>9. SetUp(m, "tx", r1)
  BY <1>0, <1>1, <1>3, <1>6, <1>7 DEF Fine, SetUp, Pinging, Receiving
<1>10. OneFrame(s, m, "tx", r1)
  BY <1>0, <1>1, <1>3, <1>5, <1>6, <1>7 DEF Fine, OneFrame, Pinging
<1>11. Exchange(s, m, "tx", st, r1)
  BY <1>0, <1>1, <1>3, <1>5, <1>6, <1>7 DEF Fine, Exchange, Pinging
<1>12. Fine(s, m, "tx", st, r1)
  BY <1>6, <1>7, <1>8, <1>9, <1>10, <1>11 DEF Fine, Busy
<1> QED
  BY <1>0, <1>1, <1>2, <1>7, <1>8, <1>12, OnlyOne DEF m

LEMMA RxOnKeeps ==
    ASSUME SendInv, NEW s \in Stations, RxOn(s)
    PROVE  SendInv'
<1> DEFINE m == Mode(s)
           r == radio[s]
           p == pc[s]
           st == station[s]
<1>0. m \in Modes /\ r \in RadioType /\ p \in Places(m) /\ st \in StationType /\ Fine(s, m, p, st, r)
  BY Types DEF Fine
<1> DEFINE r1 == Command(r, "RX_ON")
           p1 == CASE Mode(s) \in {"receive", "receive_pcap"} -> "rxlock"
                   [] Mode(s) = "rtt_master" -> "sent"
                   [] OTHER -> "listen"
<1>1. pc' = [pc EXCEPT ![s] = p1] /\ radio' = [radio EXCEPT ![s] = r1] /\ p = "rx"
  BY DEF RxOn, Goto
<1>2. UNCHANGED job /\ station' = [station EXCEPT ![s] = st]
  BY Types DEF RxOn
<1>3. m \in Pinging \cup {"rtt_master", "rtt_slave", "receive", "receive_pcap"}
  BY <1>0, <1>1, Who
<1>4. p1 \in Places(m) /\ p1 \in {"rxlock", "sent", "listen"} /\ p1 \in PCs
  BY <1>3 DEF Places, Pinging, PCs
<1>5. m \in Pinging => p1 = "listen"
  BY DEF Pinging
<1> HIDE DEF m, r, p, st, p1
<1>6. Busy(r1) => r1.next # "none"
  BY <1>0, Commanded DEF Busy
<1>7. SetUp(m, p1, r1)
  BY <1>0, <1>1, <1>4, Commanded DEF Fine, SetUp
<1>8. OneFrame(s, m, p1, r1)
  BY <1>3 DEF OneFrame, Pinging
<1>9. Exchange(s, m, p1, st, r1)
  BY <1>0, <1>1, <1>5, Commanded DEF Fine, Exchange, Busy
<1>10. Fine(s, m, p1, st, r1)
  BY <1>4, <1>6, <1>7, <1>8, <1>9 DEF Fine
<1>11. r1 \in RadioType
  BY <1>0, Commanded
<1> HIDE DEF r1
<1> QED
  BY <1>0, <1>1, <1>2, <1>4, <1>10, <1>11, OnlyOne DEF m

LEMMA RxModeKeeps ==
    ASSUME SendInv, NEW s \in Stations, RxMode(s)
    PROVE  SendInv'
<1> DEFINE m == Mode(s)
           r == radio[s]
           p == pc[s]
           st == station[s]
<1>0. m \in Modes /\ r \in RadioType /\ p \in Places(m) /\ st \in StationType /\ Fine(s, m, p, st, r)
  BY Types DEF Fine
<1> DEFINE r1 == Command(r, IF p = "rx_mode" THEN "RX_ON" ELSE "TRX_OFF")
           p1 == IF p # "rx_mode" THEN "over" ELSE IF m = "transmit_hmac" THEN "tx" ELSE "listen"
<1>1. /\ pc' = [pc EXCEPT ![s] = p1] /\ radio' = [radio EXCEPT ![s] = r1]
      /\ p \in {"rx_mode", "rx_mode_off"}
  BY DEF RxMode, Goto
<1>2. UNCHANGED job /\ station' = [station EXCEPT ![s] = st]
  BY Types DEF RxMode
<1> HIDE DEF m, r, p, st
<1>3. m \in Hmac
  BY <1>0, <1>1, Who
<1>4. p1 \in Places(m) /\ p1 \in {"over", "tx", "listen"} /\ p1 \in PCs
  BY <1>3 DEF Places, Pinging, Hmac, PCs
<1> HIDE DEF p1
<1>5. r1 \in RadioType
  BY <1>0, Commanded
<1>6. /\ r1.tuned = r.tuned /\ r1.power = r.power /\ r1.crc = r.crc /\ r1.frame = r.frame
      /\ Busy(r) => r1.state = r.state
      /\ ~Busy(r) => r1.state \in {"RX_ON", "TRX_OFF"}
      /\ Busy(r) => r1.next # "none"
  BY <1>0, Commanded
<1> HIDE DEF r1
<1>7. SetUp(m, p1, r1)
  BY <1>0, <1>1, <1>4, <1>6 DEF Fine, SetUp, Busy
<1>8. OneFrame(s, m, p1, r1)
  BY <1>0, <1>3, <1>6 DEF Fine, OneFrame, Hmac, Busy
<1>9. Exchange(s, m, p1, st, r1)
  BY <1>3 DEF Exchange, Hmac, Pinging
<1>10. Fine(s, m, p1, st, r1)
  BY <1>4, <1>6, <1>7, <1>8, <1>9 DEF Fine, Busy
<1> QED
  BY <1>0, <1>1, <1>2, <1>4, <1>5, <1>10, OnlyOne DEF m

LEMMA ReadKeeps ==
    ASSUME SendInv, NEW s \in Stations, Read0(s)
    PROVE  SendInv'
<1> DEFINE m == Mode(s)
           r == radio[s]
           p == pc[s]
           st == station[s]
<1>0. m \in Modes /\ r \in RadioType /\ p \in Places(m) /\ st \in StationType /\ Fine(s, m, p, st, r)
  BY Types DEF Fine
<1>1. p = "read"
  BY DEF Read0
<1>2. m \notin {"transmit", "per", "transmit_hmac", "cont_tx"}
  BY <1>0, <1>1, Who
<1>3. PICK p1 \in {"next", "load", "over", "tx", "listen", "rx_mode_off", "rx"} :
          /\ pc' = [pc EXCEPT ![s] = p1]
          /\ p1 \in Places(m)
          /\ m \in Pinging => p1 = "next"
  <2>1. CASE Goto(s, AfterRead(s))
    <3>1. /\ AfterRead(s) \in {"next", "load", "over", "tx", "listen", "rx_mode_off", "rx"}
          /\ AfterRead(s) \in Places(m)
          /\ m \in Pinging => AfterRead(s) = "next"
      BY <1>0, <1>2 DEF AfterRead, NextPacket, Places, Modes, Pinging, Hmac, Receiving
    <3> QED
      BY <2>1, <3>1 DEF Goto
  <2>2. CASE m = "rtt_slave" /\ Goto(s, "rx")
    <3>1. "rx" \in Places("rtt_slave") /\ "rtt_slave" \notin Pinging
      BY DEF Places, Pinging
    <3> QED
      BY <2>2, <3>1 DEF Goto
  <2> QED
    BY <2>1, <2>2 DEF Read0
<1>4. PICK st1 \in StationType : /\ station' = [station EXCEPT ![s] = st1] /\ st1.run = st.run
                                 /\ st1.seq = st.seq
  <2>1. radio[s].frame.seq \in Nat
    BY <1>0 DEF RadioType, Frames
  <2>2. CASE station' = [station EXCEPT ![s].ack = radio[s].frame.seq]
    <3>1. [st EXCEPT !.ack = radio[s].frame.seq] \in StationType
      BY <1>0, <2>1 DEF StationType
    <3>2. [st EXCEPT !.ack = radio[s].frame.seq].run = st.run
      BY <1>0 DEF StationType
    <3>3. [st EXCEPT !.ack = radio[s].frame.seq].seq = st.seq
      BY <1>0 DEF StationType
    <3> QED
      BY <2>2, <3>1, <3>2, <3>3
  <2>3. CASE station' = station
    BY <1>0, <2>3, Types
  <2> QED
    BY <2>2, <2>3 DEF Read0
<1>5. UNCHANGED job /\ radio' = [radio EXCEPT ![s] = r]
  BY Types DEF Read0
<1> HIDE DEF m, r, p, st
<1>6. SetUp(m, p1, r)
  BY <1>0, <1>1, <1>3 DEF Fine, SetUp
<1>7. OneFrame(s, m, p1, r)
  BY <1>2 DEF OneFrame
<1>8. Exchange(s, m, p1, st1, r)
  BY <1>0, <1>1, <1>3, <1>4 DEF Fine, Exchange
<1>9. Fine(s, m, p1, st1, r)
  BY <1>0, <1>3, <1>6, <1>7, <1>8 DEF Fine
<1>10. p1 \in PCs
  BY <1>3 DEF PCs
<1> QED
  BY <1>0, <1>3, <1>4, <1>5, <1>9, <1>10, OnlyOne DEF m

LEMMA NextPingKeeps ==
    ASSUME SendInv, NEW s \in Stations, NextPing(s)
    PROVE  SendInv'
<1> DEFINE m == Mode(s)
           r == radio[s]
           p == pc[s]
           st == station[s]
<1>0. m \in Modes /\ r \in RadioType /\ p \in Places(m) /\ st \in StationType /\ Fine(s, m, p, st, r)
  BY Types DEF Fine
<1>1. p = "next" /\ UNCHANGED job /\ radio' = [radio EXCEPT ![s] = r]
  BY Types DEF NextPing
<1>2. m \in Pinging
  BY <1>0, <1>1, Who
<1>3. PICK p1 \in {"over", "pll", "rx"} :
          pc' = [pc EXCEPT ![s] = p1] /\ (st.run => p1 # "over")
  BY DEF NextPing, Goto, Run
<1>4. PICK st1 \in StationType : station' = [station EXCEPT ![s] = st1] /\ st1.run = st.run
  <2>1. CASE ~Run(s)
    BY <1>0, <2>1, Types DEF NextPing
  <2>2. CASE Run(s)
    <3>1. (station[s].seq + 1) % SEQ \in Nat
      BY <1>0, TxRxAssumption DEF StationType
    <3>2. [st EXCEPT !.seq = (@ + 1) % SEQ, !.first = FALSE] \in StationType
      BY <1>0, <3>1 DEF StationType
    <3>3. [st EXCEPT !.seq = (@ + 1) % SEQ, !.first = FALSE].run = st.run
      BY <1>0 DEF StationType
    <3>4. station' = [station EXCEPT ![s] = [st EXCEPT !.seq = (@ + 1) % SEQ, !.first = FALSE]]
      BY <2>2 DEF NextPing
    <3> QED
      BY <3>2, <3>3, <3>4
  <2> QED
    BY <2>1, <2>2
<1> HIDE DEF m, r, p, st
<1>5. SetUp(m, p1, r)
  BY <1>0, <1>1, <1>3 DEF Fine, SetUp
<1>6. OneFrame(s, m, p1, r)
  BY <1>2 DEF OneFrame, Pinging
<1>7. Exchange(s, m, p1, st1, r)
  BY <1>0, <1>1, <1>3, <1>4 DEF Fine, Exchange
<1>8. p1 \in Places(m) /\ p1 \in PCs
  BY <1>2, <1>3 DEF Places, PCs, Pinging
<1>9. Fine(s, m, p1, st1, r)
  BY <1>0, <1>5, <1>6, <1>7, <1>8 DEF Fine
<1> QED
  BY <1>0, <1>1, <1>3, <1>4, <1>8, <1>9, OnlyOne DEF m

LEMMA StopSlaveKeeps ==
    ASSUME SendInv, NEW s \in Stations, StopSlave(s)
    PROVE  SendInv'
<1> DEFINE m == Mode(s)
           r == radio[s]
           p == pc[s]
           st == station[s]
<1>0. m \in Modes /\ r \in RadioType /\ p \in Places(m) /\ st \in StationType /\ Fine(s, m, p, st, r)
  BY Types DEF Fine
<1>1. /\ m = "rtt_slave" /\ pc' = [pc EXCEPT ![s] = "over"] /\ UNCHANGED job
      /\ station' = [station EXCEPT ![s] = st] /\ radio' = [radio EXCEPT ![s] = r] /\ p = "rx"
  BY Types DEF StopSlave, Goto
<1> HIDE DEF m, r, p, st
<1>2. "over" \in Places(m) /\ "over" \in PCs
  BY DEF Places, PCs
<1>3. Fine(s, m, "over", st, r)
  BY <1>0, <1>1, <1>2 DEF Fine, SetUp, OneFrame, Exchange, Pinging, Receiving
<1> QED
  BY <1>0, <1>1, <1>2, <1>3, OnlyOne DEF m

LEMMA CwBeginKeeps ==
    ASSUME SendInv, NEW s \in Stations, CwBegin(s)
    PROVE  SendInv'
<1> DEFINE m == Mode(s)
           r == radio[s]
           p == pc[s]
           st == station[s]
<1>0. m \in Modes /\ r \in RadioType /\ p \in Places(m) /\ st \in StationType /\ Fine(s, m, p, st, r)
  BY Types DEF Fine
<1> DEFINE r1 == [r EXCEPT !.state = "CW"]
<1>1. /\ pc' = [pc EXCEPT ![s] = "cmd"] /\ UNCHANGED job
      /\ station' = [station EXCEPT ![s] = st] /\ radio' = [radio EXCEPT ![s] = r1] /\ p = "cw"
  BY Types DEF CwBegin, Goto
<1> HIDE DEF m, r, p, st
<1>2. m = "cont_tx"
  BY <1>0, <1>1, Who
<1>3. "cmd" \in Places(m) /\ "cmd" \in PCs
  BY <1>2 DEF Places, Pinging, PCs
<1>4. /\ r1 \in RadioType /\ r1.state = "CW"
      /\ r1.tuned = r.tuned /\ r1.power = r.power /\ r1.crc = r.crc
  BY <1>0 DEF RadioType
<1> HIDE DEF r1
<1>5. Fine(s, m, "cmd", st, r1)
  BY <1>0, <1>1, <1>2, <1>3, <1>4 DEF Fine, SetUp, OneFrame, Exchange, Pinging, Receiving, Busy
<1> QED
  BY <1>0, <1>1, <1>3, <1>4, <1>5, OnlyOne DEF m

LEMMA CwEndKeeps ==
    ASSUME SendInv, NEW s \in Stations, CwEnd(s)
    PROVE  SendInv'
<1> DEFINE m == Mode(s)
           r == radio[s]
           p == pc[s]
           st == station[s]
<1>0. m \in Modes /\ r \in RadioType /\ p \in Places(m) /\ st \in StationType /\ Fine(s, m, p, st, r)
  BY Types DEF Fine
<1> DEFINE r1 == [OffRadio EXCEPT !.frame = r.frame]
<1>1. /\ pc' = [pc EXCEPT ![s] = "over"] /\ UNCHANGED job
      /\ station' = [station EXCEPT ![s] = st] /\ radio' = [radio EXCEPT ![s] = r1] /\ p = "cmd"
  BY Types DEF CwEnd, Goto
<1>2. r1 \in RadioType /\ r1.state = "TRX_OFF"
  BY <1>0 DEF OffRadio, RadioType
<1> HIDE DEF m, r, p, st, r1
<1>3. m = "cont_tx"
  BY <1>0, <1>1, Who
<1>4. "over" \in Places(m) /\ "over" \in PCs
  BY DEF Places, PCs
<1>5. Fine(s, m, "over", st, r1)
  BY <1>2, <1>3, <1>4 DEF Fine, SetUp, OneFrame, Exchange, Pinging, Receiving, Busy
<1> QED
  BY <1>0, <1>1, <1>2, <1>4, <1>5, OnlyOne DEF m

LEMMA InterruptKeeps ==
    ASSUME SendInv, NEW s \in Stations, Interrupt(s)
    PROVE  SendInv'
<1> DEFINE m == Mode(s)
           r == radio[s]
           p == pc[s]
           st == station[s]
<1>0. m \in Modes /\ r \in RadioType /\ p \in Places(m) /\ st \in StationType /\ Fine(s, m, p, st, r)
  BY Types DEF Fine
<1> DEFINE st1 == [st EXCEPT !.run = FALSE]
<1>1. /\ pc' = [pc EXCEPT ![s] = p] /\ UNCHANGED job
      /\ station' = [station EXCEPT ![s] = st1] /\ radio' = [radio EXCEPT ![s] = r]
  BY Types DEF Interrupt
<1>2. st1 \in StationType /\ st1.run = FALSE
  BY <1>0 DEF StationType
<1> HIDE DEF m, r, p, st, st1
<1>3. Fine(s, m, p, st1, r)
  BY <1>0, <1>2 DEF Fine, Exchange
<1>4. p \in PCs
  BY <1>0, Who
<1> QED
  BY <1>0, <1>1, <1>2, <1>3, <1>4, OnlyOne DEF m

LEMMA ExitKeeps ==
    ASSUME SendInv, NEW s \in Stations, Exit(s)
    PROVE  SendInv'
<1> DEFINE m == Mode(s)
           r == radio[s]
           p == pc[s]
           st == station[s]
<1>0. m \in Modes /\ r \in RadioType /\ p \in Places(m) /\ st \in StationType /\ Fine(s, m, p, st, r)
  BY Types DEF Fine
<1> DEFINE st1 == NewStation(0)
<1>1. /\ pc' = [pc EXCEPT ![s] = "exit"] /\ UNCHANGED job
      /\ station' = [station EXCEPT ![s] = st1] /\ radio' = [radio EXCEPT ![s] = r]
  BY Types DEF Exit, Goto
<1>2. st1 \in StationType
  BY DEF StationType, NewStation
<1> HIDE DEF m, r, p, st, st1
<1>3. "exit" \in Places(m) /\ "exit" \in PCs
  BY DEF Places, PCs
<1>4. SetUp(m, "exit", r)
  BY <1>0 DEF Fine, SetUp
<1>5. OneFrame(s, m, "exit", r)
  BY <1>0 DEF Fine, OneFrame
<1>6. Fine(s, m, "exit", st1, r)
  BY <1>0, <1>3, <1>4, <1>5 DEF Fine, Exchange
<1> QED
  BY <1>0, <1>1, <1>2, <1>3, <1>6, OnlyOne DEF m

\* A step of one station that the other one may hear.
LEMMA Both ==
    ASSUME SendInv, NEW s \in Stations, UNCHANGED job,
           NEW p \in PCs, NEW st \in StationType, NEW r \in RadioType, NEW other \in RadioType,
           pc' = [pc EXCEPT ![s] = p], station' = [station EXCEPT ![s] = st],
           radio' = [radio EXCEPT ![s] = r, ![Peer(s)] = other],
           Fine(s, Mode(s), p, st, r),
           Fine(Peer(s), Mode(Peer(s)), pc[Peer(s)], station[Peer(s)], other)
    PROVE  SendInv'
<1>0. Peer(s) \in Stations /\ Peer(s) # s
  BY DEF Peer, Stations
<1>1. TxRxTypeOK'
  BY <1>0 DEF SendInv, TxRxTypeOK
<1>2. ASSUME NEW t \in Stations PROVE Fine(t, Mode(t), pc[t], station[t], radio[t])'
  <2>1. CASE t = s
    <3>1. Mode(s)' = Mode(s) /\ pc'[s] = p /\ station'[s] = st /\ radio'[s] = r
      BY <1>0 DEF SendInv, TxRxTypeOK, Mode
    <3> QED
      BY <2>1, <3>1 DEF Fine, Busy, SetUp, OneFrame, Exchange
  <2>2. CASE t = Peer(s)
    <3>1. /\ Mode(t)' = Mode(t) /\ pc'[t] = pc[t] /\ station'[t] = station[t]
          /\ radio'[t] = other
      BY <1>0, <2>2 DEF SendInv, TxRxTypeOK, Mode
    <3> QED
      BY <2>2, <3>1 DEF Fine, Busy, SetUp, OneFrame, Exchange
  <2> QED
    BY <2>1, <2>2 DEF Peer, Stations
<1> QED
  BY <1>1, <1>2 DEF SendInv

LEMMA Started ==
    ASSUME NEW r \in RadioType, r.state \in {"PLL_ON", "RX_ON"}
    PROVE  LET r1 == [r EXCEPT !.state = "BUSY_TX", !.next = r.state] IN
           /\ r1 \in RadioType /\ r1.state = "BUSY_TX" /\ r1.next = r.state
           /\ r1.tuned = r.tuned /\ r1.power = r.power /\ r1.crc = r.crc
           /\ r1.frame = r.frame /\ r1.irq = r.irq
  BY DEF RadioType

LEMMA StartedTx ==
    ASSUME SendInv, NEW s \in Stations, NEW r, StartTx0(s, r)
    PROVE  radio' = [radio EXCEPT ![s] = [r EXCEPT !.state = "BUSY_TX", !.next = r.state],
                                  ![Peer(s)] = Hearing(radio[s], radio[Peer(s)])]
  BY DEF StartTx0, Peer, Stations

LEMMA SendKeeps ==
    ASSUME SendInv, NEW s \in Stations, Send0(s)
    PROVE  SendInv'
<1> DEFINE m == Mode(s)
           r == radio[s]
           p == pc[s]
           st == station[s]
           p1 == IF Mode(s) = "rtt_master" THEN "rx" ELSE "sent"
           f == Content(s)
           r0 == [r EXCEPT !.frame = f]
           t == Peer(s)
           other == Hearing(r, radio[t])
<1>0. m \in Modes /\ r \in RadioType /\ p \in Places(m) /\ st \in StationType /\ Fine(s, m, p, st, r)
  BY Types DEF Fine
<1>1. t \in Stations /\ t # s
  BY DEF Peer, Stations
<1>2. pc' = [pc EXCEPT ![s] = p1] /\ UNCHANGED job /\ p = "tx"
  BY DEF Send0, Goto
<1>3. PICK st1 \in StationType : /\ station' = [station EXCEPT ![s] = st1]
                                 /\ st1.run = st.run /\ st1.seq = st.seq /\ st1.ack = st.ack
  <2> DEFINE st2 == [st EXCEPT !.left = IF @ > 0 THEN @ - 1 ELSE @]
  <2>1. st2 \in StationType
    BY <1>0 DEF StationType
  <2>2. st2.run = st.run /\ st2.seq = st.seq /\ st2.ack = st.ack
    BY <1>0 DEF StationType
  <2>3. station' = [station EXCEPT ![s] = st2]
    BY DEF Send0
  <2> QED
    BY <2>1, <2>2, <2>3
<1>4. other \in RadioType /\ Fine(t, Mode(t), pc[t], station[t], other)
  <2>1. radio[t] \in RadioType /\ Fine(t, Mode(t), pc[t], station[t], radio[t])
    BY <1>1, Types
  <2> QED
    BY <2>1, Hears
<1>5. m \notin Receiving \cup {"cont_tx"}
  BY <1>0, <1>2, Who
<1>6. p1 \in Places(m) /\ p1 \in {"rx", "sent"} /\ p1 \in PCs /\ (m # "rtt_master" => p1 = "sent")
  BY <1>0, <1>5 DEF Places, Pinging, Hmac, Receiving, Modes, PCs
<1>7. f \in Frames
  BY <1>0 DEF Content, Frame, Frames, RadioType, StationType, Stations
<1>8. m = "transmit_hmac" => f = SameFrame(s, m)
  BY DEF Content, SameFrame, Pinging
<1>9. CASE m \in Hmac
  <2> DEFINE r1 == [r0 EXCEPT !.state = "BUSY_TX", !.next = r0.state]
  <2>1. radio' = [radio EXCEPT ![s] = r1, ![t] = other] /\ r.state = "RX_ON"
    BY <1>9, StartedTx DEF Send0
  <2> HIDE DEF m, r, p, st, p1, f, other
  <2>2. /\ r0 \in RadioType /\ r0.state = "RX_ON" /\ r0.tuned = r.tuned /\ r0.power = r.power
        /\ r0.crc = r.crc /\ r0.frame = f
    BY <1>0, <1>7, <2>1 DEF RadioType
  <2> HIDE DEF r0
  <2>3. /\ r1 \in RadioType /\ r1.state = "BUSY_TX" /\ r1.next = "RX_ON"
        /\ r1.tuned = r.tuned /\ r1.power = r.power /\ r1.crc = r.crc /\ r1.frame = f
    BY <2>2, Started
  <2> HIDE DEF r1
  <2>4. SetUp(m, p1, r1)
    BY <1>0, <1>2, <1>5, <1>6, <2>1, <2>3 DEF Fine, SetUp
  <2>5. OneFrame(s, m, p1, r1)
    BY <1>8, <1>9, <2>3 DEF OneFrame, Hmac
  <2>6. Fine(s, m, p1, st1, r1)
    BY <1>6, <1>9, <2>3, <2>4, <2>5 DEF Fine, Exchange, Hmac, Pinging
  <2> HIDE DEF t
  <2> QED
    BY <1>2, <1>3, <1>4, <1>6, <2>1, <2>3, <2>6, Both DEF m, t
<1>10. CASE m \notin Hmac /\ r.state = "PLL_ON"
  <2> DEFINE r1 == [r EXCEPT !.state = "BUSY_TX", !.next = r.state]
  <2>1. radio' = [radio EXCEPT ![s] = r1, ![t] = other]
    BY <1>10, StartedTx DEF Send0
  <2> HIDE DEF m, r, p, st, p1, f, other
  <2>2. /\ r1 \in RadioType /\ r1.state = "BUSY_TX" /\ r1.next = "PLL_ON" /\ r1.irq = r.irq
        /\ r1.tuned = r.tuned /\ r1.power = r.power /\ r1.crc = r.crc /\ r1.frame = r.frame
    BY <1>0, <1>10, Started
  <2> HIDE DEF r1
  <2>3. SetUp(m, p1, r1)
    BY <1>0, <1>2, <1>5, <1>6, <1>10, <2>2 DEF Fine, SetUp
  <2>4. OneFrame(s, m, p1, r1)
    BY <1>0, <1>2, <1>6, <1>10, <2>2 DEF Fine, OneFrame, Hmac
  <2>5. Exchange(s, m, p1, st1, r1)
    BY <1>0, <1>2, <1>3, <1>6, <1>10, <2>2 DEF Fine, Exchange, Pinging
  <2>6. Fine(s, m, p1, st1, r1)
    BY <1>6, <2>2, <2>3, <2>4, <2>5 DEF Fine
  <2> HIDE DEF t
  <2> QED
    BY <1>2, <1>3, <1>4, <1>6, <2>1, <2>2, <2>6, Both DEF m, t
<1>11. CASE m \notin Hmac /\ r.state # "PLL_ON"
  <2>1. radio' = [radio EXCEPT ![s] = r]
    BY <1>11, Types DEF Send0
  <2> HIDE DEF m, r, p, st, p1, f
  <2>2. SetUp(m, p1, r)
    BY <1>0, <1>2, <1>5, <1>6 DEF Fine, SetUp
  <2>3. OneFrame(s, m, p1, r)
    BY <1>0, <1>2, <1>6 DEF Fine, OneFrame
  <2>4. Exchange(s, m, p1, st1, r)
    BY <1>0, <1>2, <1>3, <1>6, <1>11 DEF Fine, Exchange, Pinging
  <2>5. Fine(s, m, p1, st1, r)
    BY <1>0, <1>6, <2>2, <2>3, <2>4 DEF Fine
  <2> QED
    BY <1>0, <1>2, <1>3, <1>6, <2>1, <2>5, OnlyOne DEF m
<1> QED
  BY <1>9, <1>10, <1>11

LEMMA FrameEndsKeeps ==
    ASSUME SendInv, NEW s \in Stations, FrameEnds(s)
    PROVE  SendInv'
<1>1. PICK outcome \in {"good", "damaged", "lost"} : EndTx(s, outcome)
  BY DEF FrameEnds
<1> DEFINE m == Mode(s)
           r == radio[s]
           p == pc[s]
           st == station[s]
           t == Peer(s)
           r0 == [r EXCEPT !.irq = @ \cup {"TRX_END"}]
           r1 == Settled(r0)
           other == Received0(radio[t], r.frame, outcome)
<1>0. m \in Modes /\ r \in RadioType /\ p \in Places(m) /\ st \in StationType /\ Fine(s, m, p, st, r)
  BY Types DEF Fine
<1>2. t \in Stations /\ t # s
  BY DEF Peer, Stations
<1>3. /\ pc' = [pc EXCEPT ![s] = p] /\ UNCHANGED job /\ station' = [station EXCEPT ![s] = st]
      /\ radio' = [radio EXCEPT ![s] = r1, ![t] = other] /\ r.state = "BUSY_TX"
  BY <1>1, <1>2, Types DEF EndTx, Peer, Stations
<1>4. other \in RadioType /\ Fine(t, Mode(t), pc[t], station[t], other)
  <2>1. radio[t] \in RadioType /\ Fine(t, Mode(t), pc[t], station[t], radio[t])
    BY <1>2, Types
  <2>2. r.frame \in Frames
    BY <1>0 DEF RadioType
  <2> QED
    BY <2>1, <2>2, HasReceived
<1> HIDE DEF m, r, p, st, other
<1>5. r.next \in {"TRX_OFF", "PLL_ON", "RX_ON"}
  BY <1>0, <1>3 DEF Fine, Busy, RadioType
<1>6. /\ r1 \in RadioType /\ r1.state = r.next /\ r1.tuned = r.tuned /\ r1.power = r.power
      /\ r1.crc = r.crc /\ r1.irq = r.irq \cup {"TRX_END"} /\ r1.frame = r.frame /\ r1.next = "none"
  BY <1>0, <1>5 DEF RadioType, Settled, Irqs
<1> HIDE DEF r1
<1>7. SetUp(m, p, r1)
  BY <1>0, <1>3, <1>5, <1>6 DEF Fine, SetUp
<1>8. OneFrame(s, m, p, r1)
  BY <1>0, <1>3, <1>5, <1>6 DEF Fine, OneFrame
<1>9. Exchange(s, m, p, st, r1)
  BY <1>0, <1>3, <1>5, <1>6 DEF Fine, Exchange
<1>10. Fine(s, m, p, st, r1)
  BY <1>0, <1>5, <1>6, <1>7, <1>8, <1>9 DEF Fine, Busy
<1>11. p \in PCs
  BY <1>0, Who
<1> HIDE DEF t
<1> QED
  BY <1>0, <1>3, <1>4, <1>6, <1>10, <1>11, Both DEF m, t

LEMMA SendInvNext == SendInv /\ [TxRxNext]_txrxVars => SendInv'
<1> SUFFICES ASSUME SendInv, [TxRxNext]_txrxVars PROVE SendInv'
  OBVIOUS
<1>1. CASE UNCHANGED txrxVars
  BY <1>1 DEF txrxVars, SendInv, TxRxTypeOK, Fine, Busy, SetUp, OneFrame, Exchange, Mode
<1>2. ASSUME NEW s \in Stations, Step(s) PROVE SendInv'
  BY <1>2, ConfigureKeeps, PllOnKeeps, LockedKeeps, LoadKeeps, SendKeeps, SentKeeps,
     RxOnKeeps, RxModeKeeps, ListenedKeeps, ReadKeeps, NextPingKeeps, StopSlaveKeeps,
     CwBeginKeeps, CwEndKeeps DEF Step
<1>3. ASSUME NEW s \in Stations, Ignore(s) \/ FrameEnds(s) \/ Interrupt(s) \/ Exit(s)
      PROVE  SendInv'
  BY <1>3, IgnoreKeeps, FrameEndsKeeps, InterruptKeeps, ExitKeeps
<1> QED
  BY <1>1, <1>2, <1>3 DEF TxRxNext

LEMMA SendInvSafe == SendInv => SentAsAsked
<1> SUFFICES ASSUME SendInv, NEW s \in Stations, radio[s].state \in {"BUSY_TX", "CW"}
             PROVE  /\ radio[s].tuned /\ radio[s].power
                    /\ radio[s].crc = (Mode(s) \notin {"per", "cont_tx"})
                    /\ Mode(s) \in Pinging \cup {"transmit", "per", "transmit_hmac"}
                           /\ Run(s) /\ pc[s] # "exit" => radio[s].frame = Content(s)
  BY DEF SentAsAsked
<1>1. Fine(s, Mode(s), pc[s], station[s], radio[s])
  BY DEF SendInv
<1>2. /\ radio[s].tuned /\ radio[s].power
      /\ radio[s].crc = (Mode(s) \notin {"per", "cont_tx"})
  BY <1>1 DEF Fine, SetUp, Receiving
<1>3. ASSUME Mode(s) \in Pinging, Run(s), pc[s] # "exit" PROVE radio[s].frame = Content(s)
  BY <1>1, <1>3 DEF Fine, SetUp, Exchange, Content, Run, Pinging
<1>4. ASSUME Mode(s) \in {"transmit", "per"} PROVE radio[s].frame = Content(s)
  BY <1>1, <1>4 DEF Fine, OneFrame, Content, Pinging, SameFrame
<1>5. ASSUME Mode(s) = "transmit_hmac", radio[s].state = "BUSY_TX" PROVE radio[s].frame = Content(s)
  BY <1>1, <1>5 DEF Fine, OneFrame, Content, Pinging, SameFrame
<1> QED
  <2>1. radio[s].state = "CW" => Mode(s) = "cont_tx"
    BY <1>1 DEF Fine, SetUp
  <2> QED
    BY <1>2, <1>3, <1>4, <1>5, <2>1 DEF Pinging

\* Of every pair of programs, whatever interrupts and frames come when, a transceiver
\* that sends is on its channel, with its power and CRC as the mode asks, and sends
\* the frame its program has put together.
THEOREM SendsAsAsked == TxRxSpec => []SentAsAsked
<1>1. TxRxSpec => []SendInv
  BY SendInvInit, SendInvNext, PTL DEF TxRxSpec
<1> QED
  BY <1>1, SendInvSafe, PTL
=============================================================================
