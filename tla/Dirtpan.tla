------------------------------ MODULE Dirtpan ------------------------------
(***************************************************************************)
(* tools/dirtpan/dirtpan.c: IPv4 packets between two TUN interfaces, cut   *)
(* into IEEE 802.15.4 frames.  Every data frame is acknowledged by a frame *)
(* with its sequence bit, sent again when T_ACK_MS pass without, and given *)
(* up, with its packet, after MAX_TRIES.  The receiver drops a packet that *)
(* is not complete after T_REASS_MS.  Each peer is a single thread: one    *)
(* event of its select() loop is one step.                                 *)
(*                                                                         *)
(* External: the TUN interfaces, which hand out packets as long as their   *)
(* IPv4 header says and take every packet whole (write_buf() would only    *)
(* print that they did not), and the radio link between the peers, which   *)
(* loses frames but, the socket being connected and WPAN_WANTACK off,      *)
(* neither repeats nor reorders them.                                      *)
(*                                                                         *)
(* Time is abstracted: a timer that runs may expire.  An expiry of t_ack   *)
(* while the frame or an ack is still under way is "late" delivery by the  *)
(* link; a behaviour has at most Late of them.                             *)
(***************************************************************************)
EXTENDS Integers, Sequences, SequencesExt, FiniteSets

CONSTANTS
    Peer1, Peer2,
    MAX_TRIES,  \* 5 in dirtpan.c
    Sizes,      \* lengths of the IPv4 packets the TUN interfaces hand out
    Offered,    \* how many packets each TUN interface hands out
    Late        \* how many ack timeouts a late frame causes

Peers == {Peer1, Peer2}
Other(p) == IF p = Peer1 THEN Peer2 ELSE Peer1

MAX_FRAG == 127 - 11 - 2 - 1
MAX_PACKET == 2000

ASSUME DirtpanAssumption ==
    /\ Peer1 # Peer2
    /\ MAX_TRIES \in Nat \ {0}
    /\ Sizes \subseteq 20..MAX_PACKET
    /\ Offered \in [Peers -> Nat]
    /\ Late \in Nat

VARIABLES
    peer,       \* statics of dirtpan.c, for each peer; see PeerType
    net,        \* frames under way to each peer
    sent,       \* history: packets each peer has read from its TUN interface
    acked,      \* history: those whose last frame was acknowledged
    late        \* ack timeouts that a late frame has caused

vars == <<peer, net, sent, acked, late>>
-----------------------------------------------------------------------------
\* A packet, a fragment of it (size bytes from offset pos), a frame.  In a
\* pt_first, "length" is the total length in the IPv4 header.
Packets == [id : Nat, size : 0..MAX_PACKET]
Fragments == [id : Nat, pos : 0..MAX_PACKET, size : 0..MAX_FRAG]
NoFragment == [id |-> 0, pos |-> 0, size |-> 0]
Frames == [type : {"pt_first", "pt_next", "pt_ack"}, seq : BOOLEAN,
           fragment : Fragments, length : 0..MAX_PACKET]
Ack(seq) == [type |-> "pt_ack", seq |-> seq, fragment |-> NoFragment, length |-> 0]

PeerType ==
    [txing : BOOLEAN, tx_packet : Packets, tx_pos : 0..MAX_PACKET,
     tx_seq : BOOLEAN, retries : 0..MAX_TRIES, t_ack : BOOLEAN,
     rxing : BOOLEAN, rx_packet : Seq(Fragments), rx_left : 0..MAX_PACKET,
     rx_seq : BOOLEAN, t_reass : BOOLEAN,
     failed : BOOLEAN,          \* an assert() has failed
     tun : Seq(Seq(Fragments)), \* what it has written to its TUN interface
     dropped : SUBSET Nat]      \* history: packets reass_timeout() dropped

-----------------------------------------------------------------------------
(* Functions on the state of one peer                                      *)

\* assert(): when the condition is false the program is aborted.
AssertThat(s, condition) ==
    IF condition THEN s ELSE [s EXCEPT !.failed = TRUE]

\* start_timer() and stop_timer(), with their asserts; "running" is a timer
\* that is not zero.
StartAck(s)   == [AssertThat(s, ~s.t_ack) EXCEPT !.t_ack = TRUE]
StopAck(s)    == [AssertThat(s, s.t_ack) EXCEPT !.t_ack = FALSE]
StartReass(s) == [AssertThat(s, ~s.t_reass) EXCEPT !.t_reass = TRUE]
StopReass(s)  == [AssertThat(s, s.t_reass) EXCEPT !.t_reass = FALSE]

TxLeft(s) == s.tx_packet.size - s.tx_pos
SendSize(s) == IF TxLeft(s) > MAX_FRAG THEN MAX_FRAG ELSE TxLeft(s)

\* send_more(): the frame, and the timer it starts.
NextFrame(s) ==
    [type     |-> IF s.tx_pos = 0 THEN "pt_first" ELSE "pt_next",
     seq      |-> s.tx_seq,
     fragment |-> [id |-> s.tx_packet.id, pos |-> s.tx_pos, size |-> SendSize(s)],
     length   |-> IF s.tx_pos = 0 THEN s.tx_packet.size ELSE 0]
SendMore(s) == StartAck(s)

\* tx_pck(), up to its statistics.
TakePacket(s, packet) ==
    SendMore([AssertThat(s, ~s.txing) EXCEPT
                  !.txing = TRUE, !.tx_packet = packet, !.tx_pos = 0,
                  !.tx_seq = ~@, !.retries = 0])

\* rx_pck(), pt_ack: the acknowledged fragment is done.
Advance(s) == [s EXCEPT !.tx_pos = @ + SendSize(s)]
\* Mutant: the fragments of a packet all have the same sequence bit.
AckReceivedSameSeq(s) ==
    LET t == Advance(StopAck(s))
    IN  IF TxLeft(t) = 0 THEN [t EXCEPT !.txing = FALSE]
        ELSE SendMore([t EXCEPT !.retries = 0])
AckReceived(s) ==
    LET t == Advance(StopAck(s))
    IN  IF TxLeft(t) = 0 THEN [t EXCEPT !.txing = FALSE]
        ELSE SendMore([t EXCEPT !.tx_seq = ~@, !.retries = 0])

\* Mutants: one try too many; the ack timer is started while it runs.
RetransmitOnceMore(s) ==
    LET t == [StopAck(AssertThat(s, s.txing)) EXCEPT !.retries = @ + 1]
    IN  IF t.retries > MAX_TRIES THEN [t EXCEPT !.txing = FALSE] ELSE SendMore(t)
RetransmitRunning(s) ==
    IF s.retries + 1 = MAX_TRIES
    THEN [StopAck(AssertThat(s, s.txing)) EXCEPT !.retries = @ + 1, !.txing = FALSE]
    ELSE SendMore([AssertThat(s, s.txing) EXCEPT !.retries = @ + 1])
\* ack_timeout().
Retransmit(s) ==
    LET t == [StopAck(AssertThat(s, s.txing)) EXCEPT !.retries = @ + 1]
    IN  IF t.retries = MAX_TRIES THEN [t EXCEPT !.txing = FALSE] ELSE SendMore(t)

\* A reassembly ends, reass_timeout() drops it, and a pt_first begins one, after
\* it has ended the one under way.
EndReassembly(s) == [StopReass(s) EXCEPT !.rxing = FALSE]
DropReassembly(s) ==
    LET t == EndReassembly(AssertThat(s, s.rxing))
    IN  [t EXCEPT !.dropped = @ \union {f.id : f \in Range(s.rx_packet)}]
BeginReassembly(s, frame) ==
    LET t == IF s.rxing THEN EndReassembly(s) ELSE s
    IN  StartReass([t EXCEPT !.rx_left = frame.length, !.rxing = TRUE,
                             !.rx_packet = <<>>])

\* Mutant: a complete packet leaves the receiver receiving.
AddFragmentStays(s, frame) ==
    LET t == [s EXCEPT !.rx_packet = Append(@, frame.fragment),
                       !.rx_left = @ - frame.fragment.size,
                       !.rx_seq = frame.seq]
    IN  IF s.rx_left < frame.fragment.size THEN EndReassembly(s)
        ELSE IF t.rx_left = 0
             THEN StopReass([t EXCEPT !.tun = Append(@, t.rx_packet)])
             ELSE t
\* rx_pck(), from "if (rx_left < size-1)" to its end.
AddFragment(s, frame) ==
    LET t == [s EXCEPT !.rx_packet = Append(@, frame.fragment),
                       !.rx_left = @ - frame.fragment.size,
                       !.rx_seq = frame.seq]
    IN  IF s.rx_left < frame.fragment.size THEN EndReassembly(s)
        ELSE IF t.rx_left = 0
             THEN EndReassembly([t EXCEPT !.tun = Append(@, t.rx_packet)])
             ELSE t

IsRetransmission(s, frame) == s.rxing /\ frame.seq = s.rx_seq
\* Mutant: pt_next is taken whatever its sequence bit.
NextReceivedAlways(s, frame) == IF s.rxing THEN AddFragment(s, frame) ELSE s
NextReceived(s, frame) ==
    IF s.rxing /\ ~IsRetransmission(s, frame) THEN AddFragment(s, frame) ELSE s
-----------------------------------------------------------------------------
PeerInit ==
    [txing |-> FALSE, tx_packet |-> [id |-> 0, size |-> 0], tx_pos |-> 0,
     tx_seq |-> FALSE, retries |-> 0, t_ack |-> FALSE,
     rxing |-> FALSE, rx_packet |-> <<>>, rx_left |-> 0, rx_seq |-> FALSE,
     t_reass |-> FALSE, failed |-> FALSE, tun |-> <<>>, dropped |-> {}]

Init ==
    /\ peer = [p \in Peers |-> PeerInit]
    /\ net = [p \in Peers |-> <<>>]
    /\ sent = [p \in Peers |-> <<>>]
    /\ acked = [p \in Peers |-> {}]
    /\ late = 0

Runs(p) == ~peer[p].failed
Sends(p, frame) == net' = [net EXCEPT ![Other(p)] = Append(@, frame)]

\* The first frame under way to p, and what p sends when it arrives.
Arrives(p, frame) == net[p] # <<>> /\ frame = Head(net[p])
Answers(p, frames) ==
    net' = [net EXCEPT ![p] = Tail(@), ![Other(p)] = @ \o frames]

\* tun is in the fd_set, and a packet waits there.
TxPck(p) ==
    /\ Runs(p)
    /\ ~peer[p].txing /\ ~peer[p].rxing
    /\ Len(sent[p]) < Offered[p]
    /\ \E size \in Sizes :
           LET packet == [id |-> Len(sent[p]) + 1, size |-> size]
               s == TakePacket(peer[p], packet)
           IN  /\ peer' = [peer EXCEPT ![p] = s]
               /\ sent' = [sent EXCEPT ![p] = Append(@, packet)]
               /\ Sends(p, NextFrame(s))
    /\ UNCHANGED <<acked, late>>

RxFirst(p, frame) ==
    /\ frame.type = "pt_first"
    /\ peer' = [peer EXCEPT ![p] = AddFragment(BeginReassembly(@, frame), frame)]
    /\ Answers(p, <<Ack(frame.seq)>>)
    /\ UNCHANGED acked

RxNext(p, frame) ==
    /\ frame.type = "pt_next"
    /\ peer' = [peer EXCEPT ![p] = NextReceived(@, frame)]
    /\ Answers(p, <<Ack(frame.seq)>>)
    /\ UNCHANGED acked

\* Mutant: the sequence bit of an ack is not looked at.
ExpectedAny(s, frame) == s.txing
Expected(s, frame) == s.txing /\ frame.seq = s.tx_seq

RxAck(p, frame) ==
    /\ frame.type = "pt_ack"
    /\ IF Expected(peer[p], frame)
       THEN LET s == AckReceived(peer[p])
            IN  /\ peer' = [peer EXCEPT ![p] = s]
                /\ Answers(p, IF s.txing THEN <<NextFrame(s)>> ELSE <<>>)
                /\ acked' = IF s.txing THEN acked
                            ELSE [acked EXCEPT ![p] = @ \union {s.tx_packet.id}]
       ELSE /\ Answers(p, <<>>)
            /\ UNCHANGED <<peer, acked>>

RxPck(p) ==
    /\ Runs(p)
    /\ \E frame \in Range(net[p]) :
           /\ Arrives(p, frame)
           /\ RxFirst(p, frame) \/ RxNext(p, frame) \/ RxAck(p, frame)
    /\ UNCHANGED <<sent, late>>

\* Something p waits for is still under way.
UnderWay(p) ==
    \/ \E f \in Range(net[Other(p)]) : f.type # "pt_ack"
    \/ \E f \in Range(net[p]) : f.type = "pt_ack"

AckTimeout(p) ==
    /\ Runs(p)
    /\ peer[p].t_ack
    /\ late' = IF UnderWay(p) THEN late + 1 ELSE late
    /\ late' <= Late
    /\ LET s == Retransmit(peer[p])
       IN  /\ peer' = [peer EXCEPT ![p] = s]
           /\ IF s.txing THEN Sends(p, NextFrame(s)) ELSE UNCHANGED net
    /\ UNCHANGED <<sent, acked>>

ReassTimeout(p) ==
    /\ Runs(p)
    /\ peer[p].t_reass
    /\ peer' = [peer EXCEPT ![p] = DropReassembly(@)]
    /\ UNCHANGED <<net, sent, acked, late>>

Lose(p) ==
    /\ net[p] # <<>>
    /\ net' = [net EXCEPT ![p] = Tail(@)]
    /\ UNCHANGED <<peer, sent, acked, late>>

Next ==
    \E p \in Peers :
        TxPck(p) \/ RxPck(p) \/ AckTimeout(p) \/ ReassTimeout(p) \/ Lose(p)

Spec == Init /\ [][Next]_vars

\* A peer's loop goes on, a timer that runs expires, a frame arrives or is lost.
Fairness ==
    \A p \in Peers :
        /\ WF_vars(TxPck(p)) /\ WF_vars(AckTimeout(p)) /\ WF_vars(ReassTimeout(p))
        /\ WF_vars(RxPck(p) \/ Lose(p))

FairSpec == Spec /\ Fairness
-----------------------------------------------------------------------------
(* Properties                                                              *)

\* Every variable has its type.
TypeOK ==
    /\ peer \in [Peers -> PeerType]
    /\ net \in [Peers -> Seq(Frames)]
    /\ sent \in [Peers -> Seq(Packets)]
    /\ acked \in [Peers -> SUBSET Nat]
    /\ late \in 0..Late

\* No assert() on the program's own state fails: a timer is only started when it
\* does not run and only stopped when it does, along every path through rx_pck()
\* and the timeouts (209, 221); ack_timeout() comes only while txing (461) and
\* reass_timeout() only while rxing (476), which are other variables than the
\* timers they come from; tx_pck() only while not txing (440).  The other asserts
\* are about the environment: what the IPv4 header says (444, 445), and select()
\* that times out only when given a time (511).
NoAssertFails == \A p \in Peers : ~peer[p].failed

\* The fragments that a packet is cut into.
Cut(packet) ==
    [i \in 1..((packet.size + MAX_FRAG - 1) \div MAX_FRAG) |->
        [id |-> packet.id, pos |-> (i - 1) * MAX_FRAG,
         size |-> IF i * MAX_FRAG <= packet.size THEN MAX_FRAG
                  ELSE packet.size % MAX_FRAG]]

\* Towards each peer the program is a packet link: what its TUN interface gets
\* is, whole and in order, what the other side's was handed.  A retransmitted
\* pt_first is not recognized as such, so a packet of one frame may come again.
Position(p, fragments) ==
    LET Is(i) == fragments = Cut(sent[Other(p)][i])
        all == 1..Len(sent[Other(p)])
    IN  IF \E i \in all : Is(i) THEN CHOOSE i \in all : Is(i) ELSE 0
Arrived(p) == [i \in 1..Len(peer[p].tun) |-> Position(p, peer[p].tun[i])]
AllPackets(p) == [id : 1..Offered[p], size : Sizes]
OneFrame(packet) == packet.size <= MAX_FRAG

LinkTo1 == INSTANCE PacketLink WITH
    Content <- AllPackets(Peer2), Repeatable <- OneFrame,
    sent <- sent[Peer2], arrived <- Arrived(Peer1)
LinkTo2 == INSTANCE PacketLink WITH
    Content <- AllPackets(Peer1), Repeatable <- OneFrame,
    sent <- sent[Peer1], arrived <- Arrived(Peer2)
LinkSpec == LinkTo1!Spec /\ LinkTo2!Spec

\* A packet acknowledged in full has been written to the other TUN interface,
\* unless its reassembly took too long: frames of a packet that was dropped are
\* acknowledged all the same.
AckedMeansWritten ==
    \A p \in Peers : \A id \in acked[p] :
        \/ id \in peer[Other(p)].dropped
        \/ Cut(sent[p][id]) \in Range(peer[Other(p)].tun)

\* What rx_pck() discards as a retransmission, by its sequence bit alone, is the
\* fragment it received last.
DiscardedIsRetransmission ==
    \A p \in Peers : \A frame \in Range(net[p]) :
        Arrives(p, frame) /\ frame.type = "pt_next"
            /\ IsRetransmission(peer[p], frame) =>
                frame.fragment = Last(peer[p].rx_packet)

\* A transmission ends, acknowledged or given up, and so does a reassembly: a
\* peer accepts packets from its TUN interface again, although it does not while
\* it sends or receives and the other side may be sending all the time.
AllTaken == <>(\A p \in Peers : Len(sent[p]) = Offered[p] /\ ~peer[p].txing
                                    /\ ~peer[p].rxing)
=============================================================================
