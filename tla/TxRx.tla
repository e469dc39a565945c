--------------------------------- MODULE TxRx ---------------------------------
(***************************************************************************)
(* atrf-txrx on two stations that hear each other.  Each runs one of its   *)
(* modes; some belong together: ping-pong (-P), where both send in turn,   *)
(* and the measurement of the round-trip time (-R).                        *)
(* The program drives the transceiver with commands and waits for its      *)
(* interrupts.  A transceiver has one frame buffer, for the frame to send  *)
(* and the one received, and finishes what it is doing before it obeys.    *)
(*                                                                         *)
(* External: the transceivers, the air, and the firmware behind -H.        *)
(***************************************************************************)
EXTENDS Naturals, FiniteSets

CONSTANTS
    SEQ,        \* sequence numbers of struct ping, 2^32
    Times       \* bound: repetitions and packets asked for

ASSUME TxRxAssumption == SEQ \in Nat \ {0, 1} /\ Times \in Nat \ {0}

VARIABLES
    job,        \* the command line of each station
    pc,         \* where its main loop is
    station,    \* its variables: seq, ack, left, first, and run
    radio       \* its transceiver
txrxVars == <<job, pc, station, radio>>

Stations == {"A", "B"}
Peer(s) == IF s = "A" THEN "B" ELSE "A"

\* "wait" is whether the master of ping() waits for a limited time, "times" is
\* for how many frames the program has been asked; with 0, -E never ends.
Job(mode, wait, times) == [mode |-> mode, wait |-> wait, times |-> times]
Masters ==
    {Job("ping", w, 0) : w \in BOOLEAN} \cup {Job("per", FALSE, n) : n \in 0..Times}
        \cup {Job("transmit", FALSE, n) : n \in 1..Times}
        \cup {Job("rtt_master", FALSE, n) : n \in 1..Times}
        \cup {Job(m, FALSE, 1) : m \in {"transmit_hmac", "cont_tx"}}
Slave(mode) ==
    CASE mode = "ping" -> {"pong"}
      [] mode = "rtt_master" -> {"rtt_slave", "rtt_slave_hmac"}
      [] OTHER -> {"receive", "receive_pcap", "receive_hmac"}

\* The frame in the buffer: whose it is, and what is in it.
Frame(from, what, seq, ack) == [from |-> from, what |-> what, seq |-> seq, ack |-> ack]
Junk == Frame("none", "junk", 0, 0)
OffRadio == [state |-> "TRX_OFF", next |-> "none", tuned |-> FALSE, power |-> FALSE, crc |-> FALSE,
        frame |-> Junk, valid |-> FALSE, irq |-> {}]

NewStation(times) == [seq |-> 0, ack |-> 0, left |-> times, first |-> TRUE, run |-> TRUE]

TxRxInit ==
    /\ \E m \in Masters : \E sl \in Slave(m.mode) :
          job = [s \in Stations |-> IF s = "A" THEN m ELSE Job(sl, FALSE, 0)]
    /\ pc = [s \in Stations |-> "start"]
    /\ station = [s \in Stations |-> NewStation(job[s].times)]
    /\ radio = [s \in Stations |-> OffRadio]

Mode(s) == job[s].mode
Pinging == {"ping", "pong"}
Hmac == {"transmit_hmac", "receive_hmac", "rtt_slave_hmac"}
Receiving == {"receive", "receive_pcap", "receive_hmac"}
-----------------------------------------------------------------------------
(* The transceiver                                                         *)

Busy(r) == r.state \in {"BUSY_TX", "BUSY_RX"}

\* A command is obeyed at the end of the frame.  Leaving TRX_OFF locks the PLL.
Command(r, state) ==
    IF Busy(r) THEN [r EXCEPT !.next = state]
    ELSE [r EXCEPT !.state = state,
                   !.irq = IF r.state = "TRX_OFF" THEN @ \cup {"PLL_LOCK"} ELSE @]

\* What a transceiver does when the other one begins to send: it may hear it.
Hearing(other, r) ==
    IF r.state = "RX_ON" /\ other.tuned /\ r.tuned
    THEN [r EXCEPT !.state = "BUSY_RX", !.next = "RX_ON", !.irq = @ \cup {"RX_START"}]
    ELSE r

\* The transceiver of s, in state r, begins to send.
StartTx0(s, r) ==
    radio' = [radio EXCEPT ![s] = [r EXCEPT !.state = "BUSY_TX", !.next = r.state],
                           ![Peer(s)] = Hearing(radio[s], @)]

Settled(r) == [r EXCEPT !.state = r.next, !.next = "none"]

\* What becomes of a receiver when the frame has ended: it has got the frame, it
\* has got it damaged, or it has lost it.
Received0(r, frame, outcome) ==
    IF r.state # "BUSY_RX" THEN r ELSE
    CASE outcome = "good" ->
            Settled([r EXCEPT !.frame = frame, !.valid = TRUE, !.irq = @ \cup {"TRX_END"}])
      [] outcome = "damaged" ->
            Settled([r EXCEPT !.frame = Junk, !.valid = FALSE, !.irq = @ \cup {"TRX_END"}])
      [] outcome = "lost" -> Settled([r EXCEPT !.frame = Junk])

EndTx(s, outcome) ==
    /\ radio[s].state = "BUSY_TX"
    /\ radio' = [radio EXCEPT
          ![s] = Settled([radio[s] EXCEPT !.irq = @ \cup {"TRX_END"}]),
          ![Peer(s)] = Received0(@, radio[s].frame, outcome)]
    /\ UNCHANGED <<job, pc, station>>

FrameEnds(s) == \E outcome \in {"good", "damaged", "lost"} : EndTx(s, outcome)
-----------------------------------------------------------------------------
(* The program                                                             *)

Goto(s, where) == pc' = [pc EXCEPT ![s] = where]
Run(s) == station[s].run

\* set_channel(), and set_power_dBm(), which also turns the automatic CRC on or off
Tuned(r) == [r EXCEPT !.tuned = TRUE]
Powered(r, crc) == [r EXCEPT !.power = TRUE, !.crc = crc]

\* init_txrx(), set_channel(), set_rate(), and set_power_dBm() if main() calls it
Configured(s) ==
    LET r == Tuned([OffRadio EXCEPT !.frame = radio[s].frame]) IN
    IF Mode(s) \in Receiving THEN r ELSE Powered(r, Mode(s) \notin {"per", "cont_tx"})

FirstStep(s) ==
    CASE Mode(s) \in {"transmit", "per"} -> "pll"
      [] Mode(s) \in Pinging -> "next"
      [] Mode(s) \in {"receive", "receive_pcap", "rtt_slave"} -> "rx"
      [] Mode(s) = "rtt_master" -> "load"
      [] Mode(s) = "cont_tx" -> "cw"
      [] OTHER -> "rx_mode"

Configure(s) ==
    /\ pc[s] = "start"
    /\ radio' = [radio EXCEPT ![s] = Configured(s)]
    /\ Goto(s, FirstStep(s))
    /\ UNCHANGED <<job, station>>

\* wait_for_interrupt().  The places where it is called: what for, and for how long.
\* 10 ms are longer than any frame, which takes up to 4.3 ms, and also than it takes
\* to get the interrupt and read the frame at the other end.  The mutant has the
\* master of ping() wait without a limit, too.
Limit0_NoneMutant(s) ==
    IF pc[s] \in {"lock", "rxlock", "sent"} THEN "10_ms"
    ELSE IF Mode(s) = "rtt_master" THEN "long"
    ELSE "none"

Limit0(s) ==
    IF pc[s] \in {"lock", "rxlock", "sent"} /\ Mode(s) \notin Hmac THEN "10_ms"
    ELSE IF Mode(s) = "rtt_master" \/ (Mode(s) = "ping" /\ job[s].wait) THEN "long"
    ELSE "none"

WaitsFor(s) == IF pc[s] \in {"lock", "rxlock"} THEN {"PLL_LOCK"} ELSE {"TRX_END"}

Reacting(s) == pc[s] = "read" \/ (pc[s] = "listen" /\ "TRX_END" \in radio[s].irq)

\* It returns what IRQ_STATUS had, and so it does after a timeout, when it may be
\* another interrupt or none.  (rtt_master() does not look at "run", and the next
\* wait is a whole one again; here, any may be cut short then.)
Returns(s) ==
    \/ radio[s].irq \cap WaitsFor(s) # {}
    \/ Limit0(s) = "long"
    \/ Limit0(s) = "10_ms" /\ ~Busy(radio[s]) /\ ~Reacting(Peer(s))
    \/ ~Run(s) /\ Mode(s) \notin Hmac

ClearIrq(s) == radio' = [radio EXCEPT ![s].irq = {}]

\* Its inner loop has an interrupt that nobody waits for.
Ignore(s) ==
    /\ pc[s] \in {"lock", "rxlock", "sent", "listen"}
    /\ radio[s].irq # {} /\ radio[s].irq \cap WaitsFor(s) = {}
    /\ ClearIrq(s)
    /\ UNCHANGED <<job, pc, station>>

\* PLL_ON, which ping_tx(), transmit() and transmit_pattern() wait for.  The mutant
\* does not wait.
PllOn_NoWaitMutant(s) ==
    /\ pc[s] = "pll"
    /\ radio' = [radio EXCEPT ![s] = Command(@, "PLL_ON")]
    /\ Goto(s, "load")
    /\ UNCHANGED <<job, station>>

PllOn(s) ==
    /\ pc[s] = "pll"
    /\ radio' = [radio EXCEPT ![s] = Command(@, "PLL_ON")]
    /\ Goto(s, "lock")
    /\ UNCHANGED <<job, station>>

Locked(s) ==
    /\ pc[s] \in {"lock", "rxlock"}
    /\ Returns(s) /\ ClearIrq(s)
    /\ Goto(s, IF pc[s] = "lock" THEN "load" ELSE "listen")
    /\ UNCHANGED <<job, station>>

\* What a mode sends; rtt_slave() sends what it has received.
Content(s) ==
    CASE Mode(s) \in Pinging -> Frame(s, "ping", station[s].seq, station[s].ack)
      [] Mode(s) \in {"rtt_slave", "rtt_slave_hmac"} -> [radio[s].frame EXCEPT !.from = s]
      [] Mode(s) = "rtt_master" -> Frame(s, "zeros", 0, 0)
      [] Mode(s) = "per" -> Frame(s, "pattern", 0, 0)
      [] OTHER -> Frame(s, "message", 0, 0)

\* atrf_buf_write(); in the measurement of the round-trip time, just after PLL_ON.
Load(s) ==
    /\ pc[s] = "load"
    /\ LET r == IF Mode(s) \in {"rtt_master", "rtt_slave"} THEN Command(radio[s], "PLL_ON")
                ELSE radio[s]
       IN  radio' = [radio EXCEPT ![s] = [r EXCEPT !.frame = Content(s)]]
    /\ Goto(s, "tx")
    /\ UNCHANGED <<job, station>>

\* TX_START, which does nothing if the transceiver is not in PLL_ON; rtt_master()
\* goes on to RX_ON when the transition to BUSY_TX is over.  atrf_tx() has the
\* firmware send, which waits for the end of a reception.
Send0(s) ==
    /\ pc[s] = "tx"
    /\ IF Mode(s) \in Hmac
         THEN /\ radio[s].state = "RX_ON"
              /\ StartTx0(s, [radio[s] EXCEPT !.frame = Content(s)])
         ELSE IF radio[s].state = "PLL_ON" THEN StartTx0(s, radio[s])
         ELSE UNCHANGED radio
    /\ Goto(s, IF Mode(s) = "rtt_master" THEN "rx" ELSE "sent")
    /\ station' = [station EXCEPT ![s].left = IF @ > 0 THEN @ - 1 ELSE @]
    /\ UNCHANGED job

\* After the frame, or 10 ms
AfterTx(s) ==
    CASE Mode(s) \in Pinging -> IF Run(s) THEN "rx" ELSE "over"
      [] Mode(s) = "rtt_master" -> "listen"
      [] Mode(s) = "rtt_slave" -> "rx"
      [] Mode(s) = "rtt_slave_hmac" -> IF Run(s) THEN "listen" ELSE "rx_mode_off"
      [] Mode(s) = "transmit_hmac" -> "rx_mode_off"
      [] Mode(s) = "transmit" -> IF Run(s) /\ station[s].left > 0 THEN "tx" ELSE "over"
      [] Mode(s) = "per" -> IF Run(s) /\ (job[s].times = 0 \/ station[s].left > 0) THEN "load"
                            ELSE "over"

Sent(s) ==
    /\ pc[s] = "sent"
    /\ Returns(s) /\ ClearIrq(s)
    /\ Goto(s, AfterTx(s))
    /\ UNCHANGED <<job, station>>

\* RX_ON; receive() waits for the PLL.
RxOn(s) ==
    /\ pc[s] = "rx"
    /\ Mode(s) = "rtt_slave" => Run(s)
    /\ radio' = [radio EXCEPT ![s] = Command(@, "RX_ON")]
    /\ Goto(s, CASE Mode(s) \in {"receive", "receive_pcap"} -> "rxlock"
                 [] Mode(s) = "rtt_master" -> "sent"
                 [] OTHER -> "listen")
    /\ UNCHANGED <<job, station>>

\* atrf_rx_mode(), which leaves it to the firmware to send and receive
RxMode(s) ==
    /\ pc[s] \in {"rx_mode", "rx_mode_off"}
    /\ LET on == pc[s] = "rx_mode" IN
       /\ radio' = [radio EXCEPT ![s] = Command(@, IF on THEN "RX_ON" ELSE "TRX_OFF")]
       /\ Goto(s, IF ~on THEN "over" ELSE IF Mode(s) = "transmit_hmac" THEN "tx" ELSE "listen")
    /\ UNCHANGED <<job, station>>

\* The next packet of rtt_master(), which counts any interrupt for an answer
NextPacket(s) == IF station[s].left > 0 THEN "load" ELSE "over"

Listened(s) ==
    /\ pc[s] = "listen"
    /\ Returns(s) /\ ClearIrq(s)
    /\ Goto(s, IF ~Run(s) /\ Mode(s) \notin Hmac \cup {"rtt_master"} THEN "over"
               ELSE IF radio[s].irq # {} THEN "read"
               ELSE IF Mode(s) = "rtt_master" THEN NextPacket(s)
               ELSE "next")
    /\ UNCHANGED <<job, station>>

\* What receive_message() and its relatives are followed by
AfterRead(s) ==
    CASE Mode(s) \in Pinging -> "next"
      [] Mode(s) = "rtt_master" -> NextPacket(s)
      [] Mode(s) = "rtt_slave" -> "load"
      [] Mode(s) = "rtt_slave_hmac" -> "tx"
      [] Mode(s) = "receive_pcap" -> "listen"
      [] Mode(s) = "receive" -> "over"
      [] Mode(s) = "receive_hmac" -> "rx_mode_off"

\* atrf_buf_read(), and what is done with the frame
Read0(s) ==
    /\ pc[s] = "read"
    /\ station' = IF Mode(s) \in Pinging /\ radio[s].valid /\ radio[s].frame.what = "ping"
                  THEN [station EXCEPT ![s].ack = radio[s].frame.seq] ELSE station
    /\ \/ Goto(s, AfterRead(s))
       \/ radio[s].frame = Junk /\ Mode(s) = "rtt_slave" /\ Goto(s, "rx")
    /\ UNCHANGED <<job, radio>>

\* The loop of ping()
NextPing(s) ==
    /\ pc[s] = "next"
    /\ IF ~Run(s) THEN Goto(s, "over") /\ UNCHANGED station
       ELSE /\ station' = [station EXCEPT ![s].seq = (@ + 1) % SEQ, ![s].first = FALSE]
            /\ Goto(s, IF Mode(s) = "ping" \/ ~station[s].first THEN "pll" ELSE "rx")
    /\ UNCHANGED <<job, radio>>

\* rtt_slave() stops where it would receive.
StopSlave(s) ==
    /\ pc[s] = "rx" /\ Mode(s) = "rtt_slave" /\ ~Run(s)
    /\ Goto(s, "over")
    /\ UNCHANGED <<job, station, radio>>

\* test_mode(): cw_test_begin(), and cw_test_end() when the command has ended
CwBegin(s) ==
    /\ pc[s] = "cw"
    /\ radio' = [radio EXCEPT ![s].state = "CW"]
    /\ Goto(s, "cmd")
    /\ UNCHANGED <<job, station>>

CwEnd(s) ==
    /\ pc[s] = "cmd"
    /\ radio' = [radio EXCEPT ![s] = [OffRadio EXCEPT !.frame = radio[s].frame]]
    /\ Goto(s, "over")
    /\ UNCHANGED <<job, station>>

\* Ctrl-C: die()
Interrupt(s) ==
    /\ pc[s] \notin {"over", "exit"} /\ Run(s)
    /\ station' = [station EXCEPT ![s].run = FALSE]
    /\ UNCHANGED <<job, pc, radio>>

\* exit(1), after an error of the driver.  The transceiver stays as it is.
Exit(s) ==
    /\ pc[s] \notin {"over", "exit"}
    /\ Goto(s, "exit")
    /\ station' = [station EXCEPT ![s] = NewStation(0)]
    /\ UNCHANGED <<job, radio>>

Step(s) ==
    \/ Configure(s) \/ PllOn(s) \/ Locked(s) \/ Load(s) \/ Send0(s) \/ Sent(s)
    \/ RxOn(s) \/ RxMode(s) \/ Listened(s) \/ Read0(s) \/ NextPing(s) \/ StopSlave(s)
    \/ CwBegin(s) \/ CwEnd(s)

TxRxNext == \E s \in Stations : Step(s) \/ Ignore(s) \/ FrameEnds(s) \/ Interrupt(s) \/ Exit(s)

Listening(s) == pc[s] = "listen" /\ radio[s].state = "BUSY_RX"

\* Programs run, frames end, and of all the frames B listens to, some arrive.
TxRxFairness ==
    /\ \A s \in Stations : WF_txrxVars(Step(s)) /\ WF_txrxVars(FrameEnds(s))
    /\ SF_txrxVars(EndTx("A", "good") /\ Listening("B"))

TxRxSpec == TxRxInit /\ [][TxRxNext]_txrxVars /\ TxRxFairness
-----------------------------------------------------------------------------
(* Properties                                                              *)

\* A transceiver that sends does so as it has been told: on the channel, with the
\* power, with a CRC of its own where the mode counts on one, and the frame that
\* the program has put together, not one that has come in since.  Which frame is
\* left open where nothing waits for a reception to end before the buffer is
\* written: in the measurement of the round-trip time, and once after Ctrl-C, which
\* cuts that wait short.
SentAsAsked ==
    \A s \in Stations : radio[s].state \in {"BUSY_TX", "CW"} =>
        /\ radio[s].tuned /\ radio[s].power
        /\ radio[s].crc = (Mode(s) \notin {"per", "cont_tx"})
        /\ Mode(s) \in Pinging \cup {"transmit", "per", "transmit_hmac"} /\ Run(s) /\ pc[s] # "exit" =>
              radio[s].frame = Content(s)

\* If the master of ping-pong waits for a limited time only, the exchange never
\* ends, whatever frames get lost in either direction: the slave hears it again and
\* again, until one of them is stopped.
Heard(s) == pc[s] = "read" /\ radio[s].frame.from = Peer(s) /\ radio[s].valid
PingGoesOn ==
    Mode("A") = "ping" /\ job["A"].wait =>
        []<>(Heard("B") \/ \E s \in Stations : ~Run(s) \/ pc[s] = "exit")
=============================================================================
