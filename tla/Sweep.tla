-------------------------------- MODULE Sweep --------------------------------
(***************************************************************************)
(* atrf-path: one transceiver sends a constant wave, a little below or     *)
(* above the middle of each channel, and another one measures it.  A board *)
(* passes or fails by the levels.                                          *)
(* How a wave is set up differs (lib/cwtest.c): the AT86RF230, and any     *)
(* transceiver on atusb, is reset after each wave and set up from nothing  *)
(* for the next; an AT86RF231 on atben sleeps, and resumes with what it    *)
(* was prepared for.  The AT86RF230 sends a wave in its test mode only,    *)
(* which only the driver "usb" can enter.                                  *)
(*                                                                         *)
(* The sender is attached to this host: the network driver, whose board    *)
(* atrf_usb_handle() does not see, is not modelled.                        *)
(***************************************************************************)
EXTENDS Naturals, Integers, FiniteSets

CONSTANTS
    N_CHAN,
    SWEEPS      \* bound: how many sweeps are asked for

ASSUME SweepAssumption == N_CHAN \in Nat \ {0} /\ SWEEPS \in Nat

VARIABLES
    link,       \* the sender's chip and the driver it is used with
    cont_tx,    \* -T: the offset to use, or "both"
    graphical,
    sweeps,     \* how many are asked for; with 0, gui() goes on for ever
    tx, rx,     \* the transceivers
    tx_error,   \* the sender's dsc->error
    at_step,    \* where the program is
    half, chan, \* in do_sweep() and do_half_sweep()
    need_init,
    fails,      \* fail1 and fail2
    cycle,      \* sweeps done; with sweeps = 0, whether there was one
    result,     \* of the last do_sweep()
    decision,
    classes,    \* history: how the levels of this sweep compared with the limits
    verdicts    \* history: what that says of each sweep; in gui(), of the last one
options == <<link, cont_tx, graphical, sweeps>>
history == <<classes, verdicts>>
sweepVars == <<options, tx, rx, tx_error, at_step, half, chan, need_init, fails, cycle,
               result, decision, history>>

Offsets == {"M500K", "P500K"}
Chans == 0..N_CHAN - 1

\* A transceiver's channel, whether its power is what was asked for, the offset
\* it is prepared for, and the offset of its wave, "bad" if it is not a proper one.
Unset == [chan |-> N_CHAN, power |-> FALSE, prepared |-> "none", wave |-> "off"]

\* atrf_usb_handle()
OnUsb == link.driver # "ben"

\* atusb keeps what its last user has left, atben is reset when it is opened.
SweepInit ==
    /\ link \in [chip : {"230", "231"}, driver : {"usb", "usb-spi", "ben"}]
    /\ cont_tx \in Offsets \cup {"both"}
    /\ graphical \in BOOLEAN /\ sweeps \in 0..SWEEPS
    /\ tx \in {Unset} \cup (IF OnUsb THEN [chan : {0}, power : {FALSE}, prepared : Offsets,
                                           wave : {"off"} \cup Offsets]
                            ELSE {})
    /\ rx = Unset /\ tx_error = FALSE
    /\ at_step = "main" /\ half = "M500K" /\ chan = 0 /\ need_init = TRUE
    /\ fails = [h \in Offsets |-> 0] /\ cycle = 0 /\ result = 0 /\ decision = 0
    /\ classes = {} /\ verdicts = {}
-----------------------------------------------------------------------------
(* The sender, when its driver works                                       *)

TxDo(state) == tx' = IF tx_error THEN tx ELSE state

\* init_tx()
InitTx(t) == [t EXCEPT !.wave = "off", !.power = TRUE]

NeedsReset == OnUsb \/ link.chip = "230"

Preparing(t, offset) == IF link.chip = "231" THEN [t EXCEPT !.prepared = offset] ELSE t

\* enter_test_mode_230() is given the offset, start_test_mode_231() is not.
Starting(t, offset) ==
    [t EXCEPT !.wave = IF link.chip = "230" THEN offset
                       ELSE IF t.prepared = "none" THEN "bad" ELSE t.prepared]
-----------------------------------------------------------------------------
(* The program                                                             *)

\* main(): atrf_open() and the first init_rx() and init_tx()
SweepMain ==
    /\ at_step = "main"
    /\ TxDo(InitTx(tx))
    /\ at_step' = IF graphical THEN "key" ELSE IF sweeps = 0 THEN "over" ELSE "sweep"
    /\ UNCHANGED <<options, rx, tx_error, half, chan, need_init, fails, cycle, result,
                   decision, history>>

BeginSweep ==
    /\ at_step = "sweep"
    /\ fails' = [h \in Offsets |-> 0] /\ classes' = {}
    /\ half' = "M500K"
    /\ at_step' = "half"
    /\ UNCHANGED <<options, tx, rx, tx_error, chan, need_init, cycle, result, decision, verdicts>>

\* The end of do_half_sweep()
EndHalf ==
    /\ IF half = "M500K" THEN half' = "P500K" /\ at_step' = "half"
       ELSE at_step' = "compare" /\ UNCHANGED half

BeginHalf ==
    /\ at_step = "half"
    /\ IF cont_tx \in {half, "both"}
         THEN chan' = 0 /\ at_step' = "channel" /\ UNCHANGED half
         ELSE EndHalf /\ UNCHANGED chan
    /\ UNCHANGED <<options, tx, rx, tx_error, need_init, fails, cycle, result, decision, history>>

SetChannel ==
    /\ at_step = "channel"
    /\ rx' = [rx EXCEPT !.chan = chan]
    /\ TxDo([tx EXCEPT !.chan = chan])
    /\ at_step' = "init"
    /\ UNCHANGED <<options, tx_error, half, chan, need_init, fails, cycle, result, decision,
                   history>>

\* sample().  The mutant thinks that what has been prepared once is enough.
InitSender_OnceMutant ==
    /\ at_step = "init"
    /\ IF NeedsReset THEN TxDo(InitTx(tx)) ELSE UNCHANGED tx
    /\ at_step' = "wave"
    /\ UNCHANGED <<options, rx, tx_error, half, chan, need_init, fails, cycle, result, decision,
                   history>>

InitSender ==
    /\ at_step = "init"
    /\ IF NeedsReset THEN TxDo(InitTx(tx)) /\ need_init' = TRUE
       ELSE UNCHANGED <<tx, need_init>>
    /\ at_step' = "wave"
    /\ UNCHANGED <<options, rx, tx_error, half, chan, fails, cycle, result, decision, history>>

BeginsAnew == need_init \/ (chan = 0 /\ cont_tx = "both")

\* cw_test_begin() or cw_test_resume(), up to PLL_ON.  They exit without a test mode
\* for an AT86RF230, which is reset first, and if an AT86RF231 that is to be prepared
\* is not in TRX_OFF, as one that has failed never reads.
NoTestMode == link.chip = "230" /\ link.driver # "usb"
NotOff == link.chip = "231" /\ BeginsAnew /\ tx_error

PrepareWave ==
    /\ at_step = "wave"
    /\ \/ NoTestMode /\ TxDo(Unset) /\ at_step' = "exit"
       \/ NotOff /\ UNCHANGED tx /\ at_step' = "exit"
       \/ /\ ~NoTestMode /\ ~NotOff
          /\ TxDo(IF BeginsAnew THEN Preparing(tx, half) ELSE tx)
          /\ at_step' = "lock"
    /\ UNCHANGED <<options, rx, tx_error, half, chan, need_init, fails, cycle, result, decision,
                   history>>

\* wait_for_interrupt(), without a timeout, and TX_START.  If the sender has failed
\* there is no interrupt and no way out of the wait.
StartWave ==
    /\ at_step = "lock"
    /\ ~tx_error
    /\ tx' = Starting(tx, half)
    /\ need_init' = FALSE
    /\ at_step' = "read"
    /\ UNCHANGED <<options, rx, tx_error, half, chan, fails, cycle, result, decision, history>>

\* One failure is remembered, "above" before "below".  The mutant keeps the last.
Worse_LastMutant(fail, class) ==
    IF class = "above" THEN 1 ELSE IF class = "below" THEN -1 ELSE fail

Worse(fail, class) ==
    IF class = "above" THEN 1
    ELSE IF class = "below" /\ fail = 0 THEN -1
    ELSE fail

\* The readings, and how their average compares with the channel's limits.  If the
\* receiver has failed, it is what a level of 0 gives.
ReadRssi ==
    /\ at_step = "read"
    /\ \E class \in {"below", "within", "above"} :
          /\ fails' = [fails EXCEPT ![half] = Worse(@, class)]
          /\ classes' = classes \cup {class}
    /\ at_step' = "stop"
    /\ UNCHANGED <<options, tx, rx, tx_error, half, chan, need_init, cycle, result, decision,
                   verdicts>>

\* cw_test_end(), and the end of do_half_sweep()'s loop
StopWave ==
    /\ at_step = "stop"
    /\ TxDo(IF NeedsReset THEN Unset ELSE [tx EXCEPT !.wave = "off"])
    /\ IF chan < N_CHAN - 1
         THEN chan' = chan + 1 /\ at_step' = "channel" /\ UNCHANGED half
         ELSE EndHalf /\ UNCHANGED chan
    /\ UNCHANGED <<options, rx, tx_error, need_init, fails, cycle, result, decision, history>>

\* What do_sweep() returns, and what sweep.h says it does
Result ==
    IF \E h \in Offsets : fails[h] > 0 THEN 1
    ELSE IF \E h \in Offsets : fails[h] < 0 THEN -1 ELSE 0
Verdict ==
    IF "above" \in classes THEN "over" ELSE IF "below" \in classes THEN "under" ELSE "pass"

\* The rest of do_sweeps()'s loop: "pass" is 1 for a sweep that passes, -1 for
\* one that is under.
Decide(pass) == IF cycle = 0 \/ pass = decision THEN pass ELSE 0

EndSweep ==
    /\ at_step = "compare"
    /\ result' = Result
    /\ verdicts' = IF graphical THEN {Verdict} ELSE verdicts \cup {Verdict}
    /\ cycle' = IF sweeps = 0 THEN 1 ELSE cycle + 1
    /\ decision' = IF graphical THEN 0
                   ELSE Decide(IF Result < 0 THEN -1 ELSE IF Result > 0 THEN 0 ELSE 1)
    /\ at_step' = IF cycle' = sweeps THEN "over" ELSE IF graphical THEN "key" ELSE "sweep"
    /\ UNCHANGED <<options, tx, rx, tx_error, half, chan, need_init, fails, classes>>

\* gui(): the keys pressed since the last sweep, in the window or the terminal.
\* "d", and a key that is ignored, changes nothing here.
Key ==
    /\ at_step = "key"
    /\ \/ cycle > 0 /\ result < 0 /\ decision' = -1 /\ at_step' = "over"
       \/ cycle > 0 /\ result = 0 /\ decision' = 1 /\ at_step' = "over"
       \/ decision' = 0 /\ at_step' = "over"
       \/ at_step' = "sweep" /\ UNCHANGED decision
    /\ UNCHANGED <<options, tx, rx, tx_error, half, chan, need_init, fails, cycle, result, history>>

\* The sender is gone.  The driver of atben knows no errors.
TxFails ==
    /\ OnUsb
    /\ at_step \notin {"main", "over", "exit"}
    /\ tx_error' = TRUE
    /\ tx' \in {tx, Unset}
    /\ UNCHANGED <<options, rx, at_step, half, chan, need_init, fails, cycle, result, decision,
                   history>>

SweepNext ==
    \/ SweepMain \/ BeginSweep \/ BeginHalf
    \/ SetChannel \/ InitSender \/ PrepareWave \/ StartWave \/ ReadRssi \/ StopWave
    \/ EndSweep \/ Key \/ TxFails

SweepSpec == SweepInit /\ [][SweepNext]_sweepVars
-----------------------------------------------------------------------------
(* Properties                                                              *)

\* Every reading is of the wave it is stored for: both transceivers are on the
\* channel, and the sender sends at the offset and with the power asked for, for
\* either chip, with whatever driver of this host, and whatever its last user has
\* left, unless it has failed after TX_START, which the program does not see.
RightWave ==
    at_step = "read" /\ ~tx_error =>
        /\ tx.chan = chan /\ rx.chan = chan
        /\ tx.wave = half /\ tx.power

\* "#PASS" is printed if all sweeps pass, and "#FAIL" if all are below the minimum
\* somewhere and nowhere above the maximum; in gui(), if the last sweep is.
DecisionRight ==
    at_step = "over" =>
        /\ decision = 1 => verdicts = {"pass"}
        /\ decision = -1 => verdicts = {"under"}
        /\ ~graphical => /\ verdicts = {"pass"} => decision = 1
                         /\ verdicts = {"under"} => decision = -1
=============================================================================
