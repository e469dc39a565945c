--------------------------- MODULE DirtpanProofs ---------------------------
(***************************************************************************)
(* Proofs about Dirtpan, for every MAX_TRIES and load.                     *)
(*                                                                         *)
(* The invariant of one peer, PeerOK, ties each timer to the activity it   *)
(* guards: t_ack runs exactly while the peer sends, t_reass exactly while  *)
(* it receives.  From it follow both the types and the asserts, for frames *)
(* as late as they like.                                                   *)
(*                                                                         *)
(* The invariant of one direction of the link, Direction, says what the    *)
(* acks and the data frames under way can be, and what the receiver has of *)
(* the packet being sent.  It needs Late <= MAX_TRIES: beyond that an ack  *)
(* of an earlier fragment can have the sequence bit of the one being sent. *)
(***************************************************************************)
EXTENDS Dirtpan, TLAPS

PeerOK(s) ==
    /\ s \in PeerType
    /\ ~s.failed
    /\ s.t_ack <=> s.txing
    /\ s.t_reass <=> s.rxing
    /\ s.tx_pos <= s.tx_packet.size
    /\ s.txing => s.retries < MAX_TRIES /\ s.tx_pos < s.tx_packet.size

-----------------------------------------------------------------------------
(* One peer                                                                *)

LEMMA Constants == MAX_FRAG = 113 /\ MAX_PACKET = 2000 /\ MAX_TRIES \in Nat
BY DirtpanAssumption DEF MAX_FRAG, MAX_PACKET

\* Intervals as bounds: the provers lose them among the fields of a record.
LEMMA TriesBound == \A n \in 0..MAX_TRIES : n \in Nat /\ n <= MAX_TRIES
BY Constants

LEMMA TriesInterval == \A n \in Nat : n <= MAX_TRIES => n \in 0..MAX_TRIES
BY Constants

LEMMA PacketBound == \A n \in 0..MAX_PACKET : n \in Nat /\ n <= MAX_PACKET
BY Constants

LEMMA PacketInterval == \A n \in Nat : n <= MAX_PACKET => n \in 0..MAX_PACKET
BY Constants

LEMMA FragmentBound == \A n \in 0..MAX_FRAG : n \in Nat
BY Constants

LEMMA FragmentInterval == \A n \in Nat : n <= MAX_FRAG => n \in 0..MAX_FRAG
BY Constants

\* The fields of a peer that arithmetic is done on.
LEMMA PeerNumbers ==
    ASSUME NEW s \in PeerType
    PROVE  /\ s.tx_packet \in Packets /\ s.tx_packet.id \in Nat
           /\ s.tx_packet.size \in Nat /\ s.tx_packet.size <= MAX_PACKET
           /\ s.tx_pos \in Nat /\ s.tx_pos <= MAX_PACKET
           /\ s.rx_left \in Nat /\ s.rx_left <= MAX_PACKET
           /\ s.retries \in Nat /\ s.retries <= MAX_TRIES
           /\ s.rx_packet \in Seq(Fragments)
<1>1. /\ s.tx_packet \in Packets /\ s.tx_packet.id \in Nat
      /\ s.tx_packet.size \in 0..MAX_PACKET
      /\ s.tx_pos \in 0..MAX_PACKET
      /\ s.rx_left \in 0..MAX_PACKET
      /\ s.retries \in 0..MAX_TRIES
      /\ s.rx_packet \in Seq(Fragments)
  BY DEF PeerType, Packets
<1>2. s.retries \in Nat /\ s.retries <= MAX_TRIES
  BY <1>1, TriesBound, Zenon
<1>3. s.tx_packet.size \in Nat /\ s.tx_packet.size <= MAX_PACKET
  BY <1>1, PacketBound, Zenon
<1>4. s.tx_pos \in Nat /\ s.tx_pos <= MAX_PACKET
  BY <1>1, PacketBound, Zenon
<1>5. s.rx_left \in Nat /\ s.rx_left <= MAX_PACKET
  BY <1>1, PacketBound, Zenon
<1> QED BY <1>1, <1>2, <1>3, <1>4, <1>5, Zenon

\* A fragment ends within its packet, and is empty only if the packet is done.
LEMMA SendSizeBounds ==
    ASSUME NEW s, PeerOK(s)
    PROVE  /\ SendSize(s) \in Nat /\ SendSize(s) <= MAX_FRAG
           /\ s.tx_pos + SendSize(s) \in Nat /\ s.tx_pos + SendSize(s) <= MAX_PACKET
           /\ s.tx_pos + SendSize(s) <= s.tx_packet.size
<1>1. /\ s.tx_packet.size \in Nat /\ s.tx_packet.size <= MAX_PACKET
      /\ s.tx_pos \in Nat
      /\ s.tx_pos <= s.tx_packet.size
  BY PeerNumbers DEF PeerOK
<1> QED BY <1>1, Constants DEF SendSize, TxLeft

LEMMA NextFrameType ==
    ASSUME NEW s, PeerOK(s) PROVE NextFrame(s) \in Frames
<1>1. /\ s.tx_packet.id \in Nat
      /\ s.tx_packet.size \in 0..MAX_PACKET
      /\ s.tx_pos \in 0..MAX_PACKET
      /\ s.tx_seq \in BOOLEAN
  BY DEF PeerOK, PeerType, Packets
<1>a. SendSize(s) \in 0..MAX_FRAG
  BY SendSizeBounds, FragmentInterval, Zenon
<1>2. [id |-> s.tx_packet.id, pos |-> s.tx_pos, size |-> SendSize(s)] \in Fragments
  BY <1>1, <1>a DEF Fragments
<1>3. 0 \in 0..MAX_PACKET
  BY Constants
<1> QED BY <1>1, <1>2, <1>3 DEF NextFrame, Frames

LEMMA AckType == \A seq \in BOOLEAN : Ack(seq) \in Frames
<1>1. NoFragment \in Fragments /\ 0 \in 0..MAX_PACKET
  BY Constants DEF NoFragment, Fragments
<1> QED BY <1>1 DEF Ack, Frames

\* A peer ready to send, once its timer runs.
LEMMA StartedOK ==
    ASSUME NEW t \in PeerType, t.txing, ~t.failed, t.t_reass <=> t.rxing,
           t.tx_pos < t.tx_packet.size, t.tx_pos <= t.tx_packet.size,
           t.retries < MAX_TRIES
    PROVE  PeerOK([t EXCEPT !.t_ack = TRUE]) /\ [t EXCEPT !.t_ack = TRUE].txing
<1> DEFINE u == [t EXCEPT !.t_ack = TRUE]
<1>1. u \in PeerType
  BY DEF PeerType
<1>2. /\ u.txing = t.txing /\ u.failed = t.failed /\ u.t_reass = t.t_reass
      /\ u.rxing = t.rxing /\ u.retries = t.retries
      /\ u.tx_pos = t.tx_pos /\ u.tx_packet = t.tx_packet
      /\ u.t_ack = TRUE
  BY DEF PeerType
<1> HIDE DEF u
<1>3. PeerOK(u) /\ u.txing
  BY <1>1, <1>2 DEF PeerOK
<1> QED BY <1>3 DEF u

\* A peer that stops sending, its timer stopped.
LEMMA StoppedOK ==
    ASSUME NEW t \in PeerType, ~t.t_ack, ~t.failed, t.t_reass <=> t.rxing,
           t.tx_pos <= t.tx_packet.size
    PROVE  PeerOK([t EXCEPT !.txing = FALSE])
<1> DEFINE u == [t EXCEPT !.txing = FALSE]
<1>1. u \in PeerType
  BY DEF PeerType
<1>2. /\ u.t_ack = t.t_ack /\ u.failed = t.failed /\ u.t_reass = t.t_reass
      /\ u.rxing = t.rxing /\ u.tx_pos = t.tx_pos /\ u.tx_packet = t.tx_packet
      /\ u.txing = FALSE
  BY DEF PeerType
<1> HIDE DEF u
<1>3. PeerOK(u)
  BY <1>1, <1>2 DEF PeerOK
<1> QED BY <1>3 DEF u

\* A step of the receiver leaves what the sender needs as it is.
LEMMA ReceiverStepOK ==
    ASSUME NEW s, PeerOK(s), NEW t \in PeerType, ~t.failed, t.t_reass <=> t.rxing,
           t.txing = s.txing, t.t_ack = s.t_ack, t.retries = s.retries,
           t.tx_pos = s.tx_pos, t.tx_packet = s.tx_packet
    PROVE  PeerOK(t)
BY DEF PeerOK

LEMMA TakePacketOK ==
    ASSUME NEW s, PeerOK(s), ~s.txing, NEW packet \in Packets, packet.size > 0
    PROVE  PeerOK(TakePacket(s, packet)) /\ TakePacket(s, packet).txing
<1> DEFINE t == [s EXCEPT !.txing = TRUE, !.tx_packet = packet, !.tx_pos = 0,
                          !.tx_seq = ~@, !.retries = 0]
<1>1. 0 \in 0..MAX_PACKET /\ 0 \in 0..MAX_TRIES /\ 0 < MAX_TRIES
  BY Constants, DirtpanAssumption
<1>2. packet.size \in 0..MAX_PACKET
  BY DEF Packets
<1>3. t \in PeerType
  BY <1>1 DEF PeerOK, PeerType
<1>4. TakePacket(s, packet) = [t EXCEPT !.t_ack = TRUE]
  BY DEF AssertThat, TakePacket, SendMore, StartAck, PeerOK, PeerType
<1>5. t.tx_pos = 0 /\ t.tx_packet = packet /\ t.retries = 0 /\ t.txing
  BY DEF PeerOK, PeerType
<1>6. ~t.failed /\ (t.t_reass <=> t.rxing)
  BY DEF PeerOK, PeerType
<1> HIDE DEF t
<1>7. t.tx_pos < t.tx_packet.size /\ t.tx_pos <= t.tx_packet.size
          /\ t.retries < MAX_TRIES
  BY <1>1, <1>2, <1>5
<1> QED BY <1>3, <1>4, <1>5, <1>6, <1>7, StartedOK

LEMMA StopAckOK ==
    ASSUME NEW s, PeerOK(s), s.txing
    PROVE  StopAck(s) = [s EXCEPT !.t_ack = FALSE]
BY DEF AssertThat, StopAck, PeerOK

LEMMA AckReceivedOK ==
    ASSUME NEW s, PeerOK(s), s.txing PROVE PeerOK(AckReceived(s))
<1> DEFINE u == StopAck(s)
           t == Advance(u)
           m == [t EXCEPT !.tx_seq = ~@, !.retries = 0]
<1>1. u = [s EXCEPT !.t_ack = FALSE]
  BY StopAckOK
<1>2. SendSize(u) = SendSize(s)
  BY <1>1 DEF SendSize, TxLeft, PeerOK, PeerType
<1>3. t = [s EXCEPT !.t_ack = FALSE, !.tx_pos = s.tx_pos + SendSize(s)]
  BY <1>1, <1>2 DEF Advance, PeerOK, PeerType
<1>4. t \in PeerType
  <2>1. s.tx_pos + SendSize(s) \in 0..MAX_PACKET
    BY SendSizeBounds, PacketInterval, Zenon
  <2> QED BY <1>3, <2>1 DEF PeerOK, PeerType
<1>a. /\ t.tx_pos = s.tx_pos + SendSize(s) /\ t.tx_packet = s.tx_packet
      /\ t.txing /\ ~t.t_ack /\ ~t.failed
  BY <1>3 DEF PeerOK, PeerType
<1>b. t.t_reass <=> t.rxing
  BY <1>3 DEF PeerOK, PeerType
<1>5. t.tx_pos <= t.tx_packet.size /\ t.txing /\ ~t.t_ack /\ ~t.failed
  <2>1. s.tx_pos + SendSize(s) <= s.tx_packet.size
    BY SendSizeBounds
  <2> QED BY <2>1, <1>a
<1> HIDE DEF t, u
<1>6. CASE TxLeft(t) = 0
  <2>1. AckReceived(s) = [t EXCEPT !.txing = FALSE]
    BY <1>6 DEF AckReceived, t, u
  <2> QED BY <2>1, <1>4, <1>5, <1>b, StoppedOK
<1>7. CASE TxLeft(t) # 0
  <2>1. 0 \in 0..MAX_TRIES /\ 0 < MAX_TRIES
    BY Constants, DirtpanAssumption
  <2>2. m \in PeerType
    BY <1>4, <2>1 DEF PeerType
  <2>3. AckReceived(s) = [m EXCEPT !.t_ack = TRUE]
    BY <1>4, <1>5, <1>7 DEF AssertThat, AckReceived, SendMore, StartAck, PeerType, t, u
  <2>4. t.tx_pos < t.tx_packet.size
    <3>1. t.tx_pos \in Nat /\ t.tx_packet.size \in Nat
      BY <1>4, PeerNumbers
    <3> QED BY <3>1, <1>5, <1>7 DEF TxLeft
  <2>5. /\ m.txing /\ ~m.failed /\ m.tx_pos = t.tx_pos
        /\ m.tx_packet = t.tx_packet /\ m.retries = 0
    BY <1>4, <1>5 DEF PeerType
  <2>6. m.t_reass <=> m.rxing
    BY <1>4, <1>b DEF PeerType
  <2> HIDE DEF m
  <2>7. m.tx_pos < m.tx_packet.size /\ m.tx_pos <= m.tx_packet.size
            /\ m.retries < MAX_TRIES
    BY <2>1, <2>4, <2>5, <1>5
  <2> QED BY <2>2, <2>3, <2>5, <2>6, <2>7, StartedOK
<1> QED BY <1>6, <1>7

LEMMA RetransmitOK ==
    ASSUME NEW s, PeerOK(s), s.t_ack PROVE PeerOK(Retransmit(s))
<1> DEFINE t == [StopAck(s) EXCEPT !.retries = @ + 1]
<1>1. s.txing
  BY DEF PeerOK
<1>c. AssertThat(s, s.txing) = s
  BY <1>1 DEF AssertThat
<1>2. t = [s EXCEPT !.t_ack = FALSE, !.retries = s.retries + 1]
  BY <1>1, StopAckOK DEF PeerOK, PeerType
<1>3. s.retries + 1 \in 0..MAX_TRIES
  <2>1. s.retries \in Nat /\ s.retries < MAX_TRIES
    BY <1>1, PeerNumbers DEF PeerOK
  <2>2. s.retries + 1 \in Nat /\ s.retries + 1 <= MAX_TRIES
    BY <2>1, Constants
  <2> QED BY <2>2, TriesInterval, Zenon
<1>4. t \in PeerType
  BY <1>2, <1>3 DEF PeerOK, PeerType
<1>a. /\ t.txing /\ ~t.t_ack /\ ~t.failed /\ t.retries = s.retries + 1
      /\ t.tx_pos = s.tx_pos /\ t.tx_packet = s.tx_packet
  BY <1>1, <1>2 DEF PeerOK, PeerType
<1>b. t.t_reass <=> t.rxing
  BY <1>2 DEF PeerOK, PeerType
<1>5. /\ t.tx_pos < t.tx_packet.size /\ t.tx_pos <= t.tx_packet.size
      /\ t.txing /\ ~t.t_ack /\ ~t.failed /\ t.retries \in 0..MAX_TRIES
  BY <1>1, <1>3, <1>a DEF PeerOK
<1>6. Retransmit(s) = IF t.retries = MAX_TRIES THEN [t EXCEPT !.txing = FALSE]
                      ELSE SendMore(t)
  BY <1>c DEF Retransmit
<1> HIDE DEF t
<1>7. CASE t.retries = MAX_TRIES
  BY <1>4, <1>5, <1>b, <1>6, <1>7, StoppedOK
<1>8. CASE t.retries # MAX_TRIES
  <2>1. t.retries < MAX_TRIES
    <3>1. t.retries \in Nat /\ t.retries <= MAX_TRIES
      BY <1>5, TriesBound, Zenon
    <3> QED BY <3>1, <1>8, Constants
  <2>2. Retransmit(s) = [t EXCEPT !.t_ack = TRUE]
    BY <1>5, <1>6, <1>8 DEF AssertThat, SendMore, StartAck
  <2> QED BY <2>1, <2>2, <1>4, <1>5, <1>b, StartedOK
<1> QED BY <1>7, <1>8

LEMMA EndReassemblyOK ==
    ASSUME NEW s, PeerOK(s), s.rxing
    PROVE  PeerOK(EndReassembly(s)) /\ ~EndReassembly(s).rxing
<1> DEFINE e == EndReassembly(s)
<1>1. e = [s EXCEPT !.t_reass = FALSE, !.rxing = FALSE]
  BY DEF AssertThat, EndReassembly, StopReass, PeerOK, PeerType
<1>2. e \in PeerType
  BY <1>1 DEF PeerOK, PeerType
<1>3. /\ ~e.failed /\ ~e.t_reass /\ ~e.rxing
      /\ e.txing = s.txing /\ e.t_ack = s.t_ack /\ e.retries = s.retries
      /\ e.tx_pos = s.tx_pos /\ e.tx_packet = s.tx_packet
  BY <1>1 DEF PeerOK, PeerType
<1> HIDE DEF e
<1>4. PeerOK(e) /\ ~e.rxing
  BY <1>2, <1>3, ReceiverStepOK
<1> QED BY <1>4 DEF e

LEMMA DropReassemblyOK ==
    ASSUME NEW s, PeerOK(s), s.rxing PROVE PeerOK(DropReassembly(s))
<1> DEFINE t == EndReassembly(s)
           ids == {f.id : f \in Range(s.rx_packet)}
           u == [t EXCEPT !.dropped = @ \union ids]
<1>1. PeerOK(t)
  BY EndReassemblyOK
<1>2. ids \subseteq Nat
  <2>1. s.rx_packet \in Seq(Fragments)
    BY PeerNumbers DEF PeerOK
  <2>2. \A f \in Range(s.rx_packet) : f \in Fragments
    BY <2>1 DEF Range
  <2> QED BY <2>2 DEF Fragments
<1>3. DropReassembly(s) = u
  BY DEF DropReassembly, AssertThat
<1> HIDE DEF t, ids
<1>4. u \in PeerType
  BY <1>1, <1>2 DEF PeerOK, PeerType
<1>5. /\ u.failed = t.failed /\ u.t_reass = t.t_reass /\ u.rxing = t.rxing
      /\ u.txing = t.txing /\ u.t_ack = t.t_ack /\ u.retries = t.retries
      /\ u.tx_pos = t.tx_pos /\ u.tx_packet = t.tx_packet
  BY <1>1 DEF PeerOK, PeerType
<1> HIDE DEF u
<1> QED BY <1>1, <1>3, <1>4, <1>5, ReceiverStepOK DEF PeerOK

LEMMA BeginReassemblyOK ==
    ASSUME NEW s, PeerOK(s), NEW frame \in Frames
    PROVE  PeerOK(BeginReassembly(s, frame)) /\ BeginReassembly(s, frame).rxing
<1> DEFINE t == IF s.rxing THEN EndReassembly(s) ELSE s
           u == [t EXCEPT !.rx_left = frame.length, !.rxing = TRUE,
                          !.rx_packet = <<>>]
<1>1. PeerOK(t) /\ ~t.rxing
  BY EndReassemblyOK DEF PeerOK, PeerType
<1>2. frame.length \in 0..MAX_PACKET
  BY DEF Frames
<1>3. BeginReassembly(s, frame) = StartReass(u)
  BY DEF BeginReassembly
<1> HIDE DEF t
<1>a. <<>> \in Seq(Fragments)
  OBVIOUS
<1>4. u \in PeerType
  BY <1>1, <1>2, <1>a DEF PeerOK, PeerType
<1>5. StartReass(u) = [u EXCEPT !.t_reass = TRUE]
  BY <1>1 DEF AssertThat, StartReass, PeerOK, PeerType
<1> DEFINE v == [u EXCEPT !.t_reass = TRUE]
<1>6. v \in PeerType
  BY <1>4 DEF PeerType
<1>7. /\ ~v.failed /\ v.t_reass /\ v.rxing
      /\ v.txing = t.txing /\ v.t_ack = t.t_ack /\ v.retries = t.retries
      /\ v.tx_pos = t.tx_pos /\ v.tx_packet = t.tx_packet
  BY <1>1, <1>4 DEF PeerOK, PeerType
<1>8. v = BeginReassembly(s, frame)
  BY <1>3, <1>5
<1> HIDE DEF v
<1>9. PeerOK(v) /\ v.rxing
  BY <1>1, <1>6, <1>7, ReceiverStepOK
<1> QED BY <1>8, <1>9

LEMMA AddFragmentOK ==
    ASSUME NEW s, PeerOK(s), s.rxing, NEW frame \in Frames
    PROVE  PeerOK(AddFragment(s, frame))
<1> DEFINE t == [s EXCEPT !.rx_packet = Append(@, frame.fragment),
                          !.rx_left = @ - frame.fragment.size,
                          !.rx_seq = frame.seq]
           u == [t EXCEPT !.tun = Append(@, t.rx_packet)]
<1>1. CASE s.rx_left < frame.fragment.size
  BY <1>1, EndReassemblyOK DEF AddFragment
<1>2. CASE ~(s.rx_left < frame.fragment.size)
  <2>1. s.rx_left - frame.fragment.size \in 0..MAX_PACKET
    <3>1. frame.fragment \in Fragments
      BY DEF Frames
    <3>2. frame.fragment.size \in 0..MAX_FRAG
      BY <3>1 DEF Fragments
    <3>3. frame.fragment.size \in Nat
      BY <3>2, FragmentBound, Zenon
    <3>4. s.rx_left \in Nat /\ s.rx_left <= MAX_PACKET
      BY PeerNumbers DEF PeerOK
    <3>5. /\ s.rx_left - frame.fragment.size \in Nat
          /\ s.rx_left - frame.fragment.size <= MAX_PACKET
      BY <1>2, <3>3, <3>4, Constants
    <3> QED BY <3>5, PacketInterval, Zenon
  <2>2. Append(s.rx_packet, frame.fragment) \in Seq(Fragments)
    BY DEF Frames, PeerOK, PeerType
  <2>3. frame.seq \in BOOLEAN
    BY DEF Frames
  <2>4. PeerOK(t) /\ t.rxing
    <3>1. t \in PeerType
      BY <2>1, <2>2, <2>3 DEF PeerOK, PeerType
    <3>2. /\ ~t.failed /\ t.t_reass /\ t.rxing
          /\ t.txing = s.txing /\ t.t_ack = s.t_ack /\ t.retries = s.retries
          /\ t.tx_pos = s.tx_pos /\ t.tx_packet = s.tx_packet
      BY DEF PeerOK, PeerType
    <3> HIDE DEF t
    <3> QED BY <3>1, <3>2, ReceiverStepOK
  <2>5. Append(t.tun, t.rx_packet) \in Seq(Seq(Fragments))
    <3>1. t.tun \in Seq(Seq(Fragments)) /\ t.rx_packet \in Seq(Fragments)
      BY <2>4 DEF PeerOK, PeerType
    <3> QED BY <3>1
  <2>6. AddFragment(s, frame) = IF t.rx_left = 0 THEN EndReassembly(u) ELSE t
    BY <1>2 DEF AddFragment
  <2> HIDE DEF t
  <2>7. PeerOK(u) /\ u.rxing
    <3>1. u \in PeerType
      BY <2>4, <2>5 DEF PeerOK, PeerType
    <3>2. /\ ~u.failed /\ u.t_reass /\ u.rxing
          /\ u.txing = t.txing /\ u.t_ack = t.t_ack /\ u.retries = t.retries
          /\ u.tx_pos = t.tx_pos /\ u.tx_packet = t.tx_packet
      BY <2>4 DEF PeerOK, PeerType
    <3> HIDE DEF u
    <3> QED BY <2>4, <3>1, <3>2, ReceiverStepOK
  <2> HIDE DEF u
  <2> QED BY <2>4, <2>6, <2>7, EndReassemblyOK
<1> QED BY <1>1, <1>2

LEMMA NextReceivedOK ==
    ASSUME NEW s, PeerOK(s), NEW frame \in Frames
    PROVE  PeerOK(NextReceived(s, frame))
BY AddFragmentOK DEF NextReceived

-----------------------------------------------------------------------------
(* Both peers                                                              *)

Inv ==
    /\ TypeOK
    /\ \A p \in Peers : PeerOK(peer[p])

LEMMA OtherPeer == \A p \in Peers : Other(p) \in Peers /\ Other(p) # p
BY DirtpanAssumption DEF Peers, Other

\* A step of one peer that leaves it as it should be, and the other alone.
LEMMA OnePeer ==
    ASSUME Inv, NEW p \in Peers, NEW s, PeerOK(s), peer' = [peer EXCEPT ![p] = s]
    PROVE  peer' \in [Peers -> PeerType] /\ \A q \in Peers : PeerOK(peer'[q])
BY DEF Inv, TypeOK, PeerOK

LEMMA SendsType ==
    ASSUME TypeOK, NEW p \in Peers, NEW frame \in Frames, Sends(p, frame)
    PROVE  net' \in [Peers -> Seq(Frames)]
<1>1. Append(net[Other(p)], frame) \in Seq(Frames)
  BY OtherPeer DEF TypeOK
<1> QED BY <1>1, OtherPeer DEF TypeOK, Sends

LEMMA AnswersType ==
    ASSUME TypeOK, NEW p \in Peers, NEW frames \in Seq(Frames), Answers(p, frames),
           net[p] # <<>>
    PROVE  net' \in [Peers -> Seq(Frames)]
<1>1. Tail(net[p]) \in Seq(Frames)
  BY DEF TypeOK
<1>2. net[Other(p)] \o frames \in Seq(Frames)
  BY OtherPeer DEF TypeOK
<1> QED BY <1>1, <1>2, OtherPeer DEF TypeOK, Answers

LEMMA ArrivedFrame ==
    ASSUME TypeOK, NEW p \in Peers, NEW frame \in Range(net[p])
    PROVE  frame \in Frames
BY DEF TypeOK, Range

LEMMA InitInv == Init => Inv
<1> SUFFICES ASSUME Init PROVE Inv
  OBVIOUS
<1>1. PeerOK(PeerInit)
  <2>1. [id |-> 0, size |-> 0] \in Packets /\ 0 \in 0..MAX_PACKET /\ 0 \in 0..MAX_TRIES
    BY Constants DEF Packets
  <2>2. PeerInit \in PeerType
    BY <2>1 DEF PeerInit, PeerType
  <2> QED BY <2>2 DEF PeerInit, PeerOK
<1>2. late \in 0..Late
  BY DirtpanAssumption DEF Init
<1>3. PeerInit \in PeerType
  BY <1>1 DEF PeerOK
<1>4. /\ peer \in [Peers -> PeerType] /\ net \in [Peers -> Seq(Frames)]
      /\ sent \in [Peers -> Seq(Packets)] /\ acked \in [Peers -> SUBSET Nat]
  BY <1>3 DEF Init
<1> QED BY <1>1, <1>2, <1>4 DEF Inv, TypeOK, Init

LEMMA NextInv == Inv /\ [Next]_vars => Inv'
<1> SUFFICES ASSUME Inv, [Next]_vars PROVE Inv'
  OBVIOUS
<1>0. TypeOK
  BY DEF Inv
<1>1. ASSUME NEW p \in Peers, TxPck(p) PROVE Inv'
  <2>1. PICK size \in Sizes :
            LET packet == [id |-> Len(sent[p]) + 1, size |-> size]
                s == TakePacket(peer[p], packet)
            IN  /\ peer' = [peer EXCEPT ![p] = s]
                /\ sent' = [sent EXCEPT ![p] = Append(@, packet)]
                /\ Sends(p, NextFrame(s))
    BY <1>1 DEF TxPck
  <2> DEFINE packet == [id |-> Len(sent[p]) + 1, size |-> size]
             s == TakePacket(peer[p], packet)
  <2>2. size \in 0..MAX_PACKET /\ size > 0
    BY DirtpanAssumption, Constants
  <2>3. sent[p] \in Seq(Packets)
    BY <1>0 DEF TypeOK
  <2>4. packet \in Packets /\ packet.size > 0
    BY <2>2, <2>3 DEF Packets
  <2>5. Append(sent[p], packet) \in Seq(Packets)
    BY <2>3, <2>4
  <2>6. sent' \in [Peers -> Seq(Packets)]
    BY <2>1, <2>5, <1>0 DEF TypeOK
  <2>7. PeerOK(peer[p]) /\ ~peer[p].txing
    BY <1>1 DEF Inv, TxPck
  <2> HIDE DEF packet
  <2>8. PeerOK(s)
    BY <2>4, <2>7, TakePacketOK
  <2>9. peer' = [peer EXCEPT ![p] = s] /\ Sends(p, NextFrame(s))
    BY <2>1 DEF packet
  <2> HIDE DEF s
  <2>10. net' \in [Peers -> Seq(Frames)]
    BY <2>8, <2>9, <1>0, NextFrameType, SendsType
  <2>11. peer' \in [Peers -> PeerType] /\ \A q \in Peers : PeerOK(peer'[q])
    BY <2>8, <2>9, OnePeer
  <2> QED BY <2>6, <2>10, <2>11, <1>0, <1>1 DEF Inv, TypeOK, TxPck
<1>2. ASSUME NEW p \in Peers, RxPck(p) PROVE Inv'
  <2>1. PICK frame \in Range(net[p]) :
            /\ Arrives(p, frame)
            /\ RxFirst(p, frame) \/ RxNext(p, frame) \/ RxAck(p, frame)
    BY <1>2 DEF RxPck
  <2>2. frame \in Frames /\ net[p] # <<>> /\ PeerOK(peer[p])
    BY <2>1, <1>0, ArrivedFrame DEF Arrives, Inv
  <2>3. <<Ack(frame.seq)>> \in Seq(Frames)
    <3>1. Ack(frame.seq) \in Frames
      BY <2>2, AckType DEF Frames
    <3> QED BY <3>1
  <2>4. sent' \in [Peers -> Seq(Packets)] /\ late' \in 0..Late
    BY <1>0, <1>2 DEF RxPck, TypeOK
  <2>5. CASE RxFirst(p, frame)
    <3> DEFINE s == AddFragment(BeginReassembly(peer[p], frame), frame)
    <3>1. PeerOK(s)
      BY <2>2, BeginReassemblyOK, AddFragmentOK
    <3>2. peer' = [peer EXCEPT ![p] = s] /\ acked' = acked
      BY <2>5 DEF RxFirst
    <3>3. net' \in [Peers -> Seq(Frames)]
      BY <2>2, <2>3, <2>5, <1>0, AnswersType DEF RxFirst
    <3> HIDE DEF s
    <3>4. peer' \in [Peers -> PeerType] /\ \A q \in Peers : PeerOK(peer'[q])
      BY <3>1, <3>2, OnePeer
    <3> QED BY <3>2, <3>3, <3>4, <2>4, <1>0 DEF Inv, TypeOK
  <2>6. CASE RxNext(p, frame)
    <3> DEFINE s == NextReceived(peer[p], frame)
    <3>1. PeerOK(s)
      BY <2>2, NextReceivedOK
    <3>2. peer' = [peer EXCEPT ![p] = s] /\ acked' = acked
      BY <2>6 DEF RxNext
    <3>3. net' \in [Peers -> Seq(Frames)]
      BY <2>2, <2>3, <2>6, <1>0, AnswersType DEF RxNext
    <3> HIDE DEF s
    <3>4. peer' \in [Peers -> PeerType] /\ \A q \in Peers : PeerOK(peer'[q])
      BY <3>1, <3>2, OnePeer
    <3> QED BY <3>2, <3>3, <3>4, <2>4, <1>0 DEF Inv, TypeOK
  <2>7. CASE RxAck(p, frame) /\ Expected(peer[p], frame)
    <3> DEFINE s == AckReceived(peer[p])
    <3>1. PeerOK(s)
      BY <2>2, <2>7, AckReceivedOK DEF Expected
    <3>2. /\ peer' = [peer EXCEPT ![p] = s]
          /\ Answers(p, IF s.txing THEN <<NextFrame(s)>> ELSE <<>>)
          /\ acked' = IF s.txing THEN acked
                      ELSE [acked EXCEPT ![p] = @ \union {s.tx_packet.id}]
      BY <2>7 DEF RxAck
    <3> HIDE DEF s
    <3>3. (IF s.txing THEN <<NextFrame(s)>> ELSE <<>>) \in Seq(Frames)
      BY <3>1, NextFrameType
    <3>4. net' \in [Peers -> Seq(Frames)]
      BY <2>2, <3>2, <3>3, <1>0, AnswersType
    <3>5. s.tx_packet.id \in Nat
      BY <3>1, PeerNumbers DEF PeerOK
    <3>6. acked' \in [Peers -> SUBSET Nat]
      BY <3>2, <3>5, <1>0 DEF TypeOK
    <3>7. peer' \in [Peers -> PeerType] /\ \A q \in Peers : PeerOK(peer'[q])
      BY <3>1, <3>2, OnePeer
    <3> QED BY <3>4, <3>6, <3>7, <2>4 DEF Inv, TypeOK
  <2>8. CASE RxAck(p, frame) /\ ~Expected(peer[p], frame)
    <3>1. Answers(p, <<>>) /\ peer' = peer /\ acked' = acked
      BY <2>8 DEF RxAck
    <3>2. net' \in [Peers -> Seq(Frames)]
      <4>1. <<>> \in Seq(Frames)
        OBVIOUS
      <4> QED BY <4>1, <2>2, <3>1, <1>0, AnswersType
    <3> QED BY <3>1, <3>2, <2>4, <1>0 DEF Inv, TypeOK
  <2> QED BY <2>1, <2>5, <2>6, <2>7, <2>8
<1>3. ASSUME NEW p \in Peers, AckTimeout(p) PROVE Inv'
  <2> DEFINE s == Retransmit(peer[p])
  <2>1. PeerOK(s)
    BY <1>3, RetransmitOK DEF Inv, AckTimeout
  <2>2. /\ peer' = [peer EXCEPT ![p] = s]
        /\ IF s.txing THEN Sends(p, NextFrame(s)) ELSE UNCHANGED net
        /\ sent' = sent /\ acked' = acked
        /\ late' = (IF UnderWay(p) THEN late + 1 ELSE late) /\ late' <= Late
    BY <1>3 DEF AckTimeout
  <2> HIDE DEF s
  <2>3. net' \in [Peers -> Seq(Frames)]
    BY <2>1, <2>2, <1>0, NextFrameType, SendsType DEF TypeOK
  <2>4. late' \in 0..Late
    <3>1. late \in 0..Late
      BY <1>0 DEF TypeOK
    <3> QED BY <2>2, <3>1, DirtpanAssumption
  <2>5. peer' \in [Peers -> PeerType] /\ \A q \in Peers : PeerOK(peer'[q])
    BY <2>1, <2>2, OnePeer
  <2> QED BY <2>2, <2>3, <2>4, <2>5, <1>0 DEF Inv, TypeOK
<1>4. ASSUME NEW p \in Peers, ReassTimeout(p) PROVE Inv'
  <2> DEFINE s == DropReassembly(peer[p])
  <2>1. PeerOK(peer[p]) /\ peer[p].rxing
    BY <1>4 DEF Inv, ReassTimeout, PeerOK
  <2>4. peer' = [peer EXCEPT ![p] = s]
    BY <1>4 DEF ReassTimeout
  <2>5. PeerOK(s)
    BY <2>1, DropReassemblyOK
  <2> HIDE DEF s
  <2>6. peer' \in [Peers -> PeerType] /\ \A q \in Peers : PeerOK(peer'[q])
    BY <2>4, <2>5, OnePeer
  <2> QED BY <2>6, <1>0, <1>4 DEF Inv, TypeOK, ReassTimeout
<1>5. ASSUME NEW p \in Peers, Lose(p) PROVE Inv'
  <2>1. Tail(net[p]) \in Seq(Frames)
    BY <1>0, <1>5 DEF TypeOK, Lose
  <2> QED BY <2>1, <1>5 DEF Inv, TypeOK, Lose
<1>6. CASE UNCHANGED vars
  BY <1>6 DEF Inv, TypeOK, vars
<1> QED BY <1>1, <1>2, <1>3, <1>4, <1>5, <1>6 DEF Next

LEMMA Invariance == Spec => []Inv
BY InitInv, NextInv, PTL DEF Spec

\* Every variable of both peers keeps its type, whatever is lost or late: no
\* fragment reaches past its packet and retries stays within MAX_TRIES.
THEOREM TypeCorrect == Spec => []TypeOK
<1>1. Inv => TypeOK
  BY DEF Inv
<1> QED BY <1>1, Invariance, PTL

\* No assert() of start_timer(), stop_timer() or the timeouts ever fails.
THEOREM AssertsHold == Spec => []NoAssertFails
<1>1. Inv => NoAssertFails
  BY DEF Inv, NoAssertFails, PeerOK
<1> QED BY <1>1, Invariance, PTL

-----------------------------------------------------------------------------
(* The fragments of a packet                                               *)

\* A packet that the TUN interface of a peer hands out.
Whole(packet) == packet \in Packets /\ packet.size \in Sizes

FrameCount(packet) == (packet.size + MAX_FRAG - 1) \div MAX_FRAG

FrameOf(packet, i, seq) ==
    [type     |-> IF i = 1 THEN "pt_first" ELSE "pt_next",
     seq      |-> seq,
     fragment |-> Cut(packet)[i],
     length   |-> IF i = 1 THEN packet.size ELSE 0]

LEMMA Rounding ==
    ASSUME NEW n \in Nat, n > 0
    PROVE  /\ (n + 112) \div 113 \in Nat /\ (n + 112) \div 113 >= 1
           /\ ((n + 112) \div 113 - 1) * 113 < n
           /\ n <= ((n + 112) \div 113) * 113
OBVIOUS

LEMMA CountFacts ==
    ASSUME NEW packet, Whole(packet)
    PROVE  /\ packet.size \in Nat /\ packet.size <= MAX_PACKET /\ packet.size >= 20
           /\ packet.id \in Nat
           /\ FrameCount(packet) \in Nat /\ FrameCount(packet) >= 1
           /\ (FrameCount(packet) - 1) * MAX_FRAG < packet.size
           /\ packet.size <= FrameCount(packet) * MAX_FRAG
<1>1. packet.size \in Nat /\ packet.size <= MAX_PACKET /\ packet.size >= 20
  <2>1. packet.size \in 20..MAX_PACKET
    BY DirtpanAssumption DEF Whole
  <2>2. \A n \in 20..MAX_PACKET : n \in Nat /\ n >= 20 /\ n <= MAX_PACKET
    BY Constants
  <2> QED BY <2>1, <2>2, Zenon
<1>2. packet.id \in Nat
  BY DEF Whole, Packets
<1>3. FrameCount(packet) = (packet.size + 112) \div 113
  BY <1>1, Constants DEF FrameCount
<1> QED BY <1>1, <1>2, <1>3, Rounding, Constants

\* The size of the i-th fragment.
FragmentSize(packet, i) ==
    IF i < FrameCount(packet) THEN MAX_FRAG ELSE packet.size - (i - 1) * MAX_FRAG

LEMMA CutSize ==
    ASSUME NEW n \in Nat, NEW i \in Nat, i >= 1, (i - 1) * 113 < n, n < i * 113
    PROVE  n % 113 = n - (i - 1) * 113
OBVIOUS

LEMMA CutFacts ==
    ASSUME NEW packet, Whole(packet)
    PROVE  /\ Cut(packet) \in Seq(Fragments) /\ Len(Cut(packet)) = FrameCount(packet)
           /\ DOMAIN Cut(packet) = 1..FrameCount(packet)
           /\ \A i \in 1..FrameCount(packet) :
                 /\ Cut(packet)[i] = [id |-> packet.id, pos |-> (i - 1) * MAX_FRAG,
                                      size |-> FragmentSize(packet, i)]
                 /\ Cut(packet)[i].id = packet.id
                 /\ Cut(packet)[i].size = FragmentSize(packet, i)
                 /\ FragmentSize(packet, i) \in Nat /\ FragmentSize(packet, i) > 0
                 /\ FragmentSize(packet, i) <= MAX_FRAG
                 /\ (i - 1) * MAX_FRAG \in Nat /\ (i - 1) * MAX_FRAG <= MAX_PACKET
                 /\ (i - 1) * MAX_FRAG < packet.size
                 /\ (i - 1) * MAX_FRAG + FragmentSize(packet, i) =
                       IF i < FrameCount(packet) THEN i * MAX_FRAG ELSE packet.size
<1> DEFINE n == FrameCount(packet)
<1>0. /\ packet.size \in Nat /\ packet.size <= 2000 /\ packet.id \in Nat
      /\ n \in Nat /\ n >= 1 /\ (n - 1) * 113 < packet.size /\ packet.size <= n * 113
      /\ MAX_FRAG = 113 /\ MAX_PACKET = 2000
  BY CountFacts, Constants
<1>1. Cut(packet) = [i \in 1..n |-> [id |-> packet.id, pos |-> (i - 1) * MAX_FRAG,
                        size |-> IF i * MAX_FRAG <= packet.size THEN MAX_FRAG
                                 ELSE packet.size % MAX_FRAG]]
  BY DEF Cut, FrameCount
<1> HIDE DEF n
<1>2. ASSUME NEW i \in 1..n
      PROVE  (IF i * MAX_FRAG <= packet.size THEN MAX_FRAG ELSE packet.size % MAX_FRAG)
                = IF i < n THEN MAX_FRAG ELSE packet.size - (i - 1) * MAX_FRAG
  <2>0. i \in Nat /\ i >= 1 /\ i <= n
    BY <1>0
  <2>1. CASE i < n
    <3>1. i * 113 <= (n - 1) * 113
      BY <2>0, <2>1, <1>0
    <3>2. i * 113 <= packet.size
      BY <3>1, <2>0, <1>0
    <3> QED BY <3>2, <2>1, <1>0
  <2>2. CASE i = n
    <3>1. CASE i * 113 <= packet.size
      BY <3>1, <2>0, <2>2, <1>0
    <3>2. CASE ~(i * 113 <= packet.size)
      <4>1. packet.size % 113 = packet.size - (i - 1) * 113
        BY <3>2, <2>0, <2>2, <1>0, CutSize
      <4> QED BY <4>1, <3>2, <2>2, <2>0, <1>0
    <3> QED BY <3>1, <3>2
  <2> QED BY <2>0, <2>1, <2>2, <1>0
<1>3. ASSUME NEW i \in 1..n
      PROVE  /\ FragmentSize(packet, i) \in Nat /\ FragmentSize(packet, i) > 0
             /\ FragmentSize(packet, i) <= MAX_FRAG
             /\ (i - 1) * MAX_FRAG \in Nat /\ (i - 1) * MAX_FRAG <= MAX_PACKET
             /\ (i - 1) * MAX_FRAG < packet.size
             /\ (i - 1) * MAX_FRAG + FragmentSize(packet, i) =
                   IF i < n THEN i * MAX_FRAG ELSE packet.size
  <2>0. i \in Nat /\ i >= 1 /\ i <= n
    BY <1>0
  <2>1. FragmentSize(packet, i) =
            IF i < n THEN MAX_FRAG ELSE packet.size - (i - 1) * MAX_FRAG
    BY DEF FragmentSize, n
  <2>2. (i - 1) * 113 <= (n - 1) * 113
    BY <2>0, <1>0
  <2>3. i = n \/ i < n
    BY <2>0, <1>0
  <2> QED BY <2>0, <2>1, <2>2, <2>3, <1>0
<1>4. ASSUME NEW i \in 1..n
      PROVE  Cut(packet)[i] = [id |-> packet.id, pos |-> (i - 1) * MAX_FRAG,
                               size |-> FragmentSize(packet, i)]
  BY <1>1, <1>2 DEF FragmentSize, n
<1>5. \A i \in 1..n : Cut(packet)[i] \in Fragments
  <2> SUFFICES ASSUME NEW i \in 1..n PROVE Cut(packet)[i] \in Fragments
    OBVIOUS
  <2>1. FragmentSize(packet, i) \in 0..MAX_FRAG
    BY <1>3, FragmentInterval
  <2>2. (i - 1) * MAX_FRAG \in 0..MAX_PACKET
    BY <1>3, PacketInterval
  <2>3. packet.id \in Nat
    BY <1>0
  <2>4. Cut(packet)[i] = [id |-> packet.id, pos |-> (i - 1) * MAX_FRAG,
                          size |-> FragmentSize(packet, i)]
    BY <1>4
  <2> HIDE DEF n
  <2> QED BY <2>1, <2>2, <2>3, <2>4 DEF Fragments
<1>6. Cut(packet) \in [1..n -> Fragments]
  BY <1>1, <1>5
<1>7. Cut(packet) \in Seq(Fragments) /\ Len(Cut(packet)) = n /\ DOMAIN Cut(packet) = 1..n
  BY <1>0, <1>6
<1>8. \A i \in 1..n : Cut(packet)[i].id = packet.id
          /\ Cut(packet)[i].size = FragmentSize(packet, i)
  <2> SUFFICES ASSUME NEW i \in 1..n
               PROVE  /\ Cut(packet)[i].id = packet.id
                      /\ Cut(packet)[i].size = FragmentSize(packet, i)
    OBVIOUS
  <2>1. Cut(packet)[i] = [id |-> packet.id, pos |-> (i - 1) * MAX_FRAG,
                          size |-> FragmentSize(packet, i)]
    BY <1>4
  <2> QED BY ONLY <2>1
<1> QED BY <1>3, <1>4, <1>7, <1>8 DEF n

LEMMA FirstFragment ==
    ASSUME NEW packet, Whole(packet)
    PROVE  1 \in 1..FrameCount(packet) /\ Cut(packet)[1].id = packet.id
<1>1. 1 \in 1..FrameCount(packet)
  BY CountFacts
<1> QED BY <1>1, CutFacts

\* What packets are cut into tells them apart.
LEMMA CutInjective ==
    ASSUME NEW a, Whole(a), NEW b, Whole(b), Cut(a) = Cut(b) PROVE a.id = b.id
<1>1. 1 \in 1..FrameCount(a) /\ 1 \in 1..FrameCount(b)
  BY CountFacts
<1>2. Cut(a)[1].id = a.id
  BY <1>1, CutFacts
<1>3. Cut(b)[1].id = b.id
  BY <1>1, CutFacts
<1> QED BY <1>2, <1>3

\* send_more() sends the fragment at tx_pos.
LEMMA SentFrame ==
    ASSUME NEW s \in PeerType, Whole(s.tx_packet),
           NEW i \in 1..FrameCount(s.tx_packet), s.tx_pos = (i - 1) * MAX_FRAG
    PROVE  /\ NextFrame(s) = FrameOf(s.tx_packet, i, s.tx_seq)
           /\ SendSize(s) = FragmentSize(s.tx_packet, i)
<1> DEFINE packet == s.tx_packet  n == FrameCount(packet)
<1>1. /\ packet.size \in Nat /\ n \in Nat /\ n >= 1
      /\ (n - 1) * 113 < packet.size /\ packet.size <= n * 113 /\ MAX_FRAG = 113
  BY CountFacts, Constants
<1>2. s.tx_pos = 0 <=> i = 1
  BY Constants, <1>1
<1>3. SendSize(s) = FragmentSize(packet, i)
  <2>0. i \in Nat /\ i >= 1 /\ i <= n
    BY <1>1
  <2>1. SendSize(s) = IF packet.size - (i - 1) * 113 > 113 THEN 113
                      ELSE packet.size - (i - 1) * 113
    BY <1>1 DEF SendSize, TxLeft
  <2>2. FragmentSize(packet, i) = IF i < n THEN 113 ELSE packet.size - (i - 1) * 113
    BY <1>1 DEF FragmentSize
  <2> HIDE DEF n, packet
  <2>3. CASE i < n
    <3>1. i * 113 <= (n - 1) * 113
      BY <2>0, <2>3, <1>1
    <3> QED BY <2>0, <2>1, <2>2, <2>3, <3>1, <1>1
  <2>4. CASE i = n
    BY <2>0, <2>1, <2>2, <2>4, <1>1
  <2> QED BY <2>0, <2>3, <2>4, <1>1
<1>4. Cut(packet)[i] = [id |-> packet.id, pos |-> s.tx_pos, size |-> SendSize(s)]
  BY <1>3, CutFacts
<1> QED BY <1>2, <1>3, <1>4 DEF NextFrame, FrameOf
-----------------------------------------------------------------------------
(* A receiver                                                              *)

\* Nothing written is of packet n or a later one.
Below(r, n) == \A k \in 1..Len(r.tun) : r.tun[k][1].id < n

\* r has had the i-th fragment, in a frame with the sequence bit "seq": it waits for
\* the next, has dropped the packet, or has written it.
Got(r, packet, i, seq) ==
    \/ /\ r.rxing /\ i < FrameCount(packet)
       /\ r.rx_packet = SubSeq(Cut(packet), 1, i)
       /\ r.rx_left = packet.size - i * MAX_FRAG
       /\ r.rx_seq = seq
       /\ Below(r, packet.id)
    \/ ~r.rxing /\ packet.id \in r.dropped /\ Below(r, packet.id)
    \/ /\ ~r.rxing /\ i = FrameCount(packet)
       /\ Cut(packet) \in Range(r.tun) /\ Below(r, packet.id + 1)

\* r has had the fragments before it.
Lacks(r, packet, i, seq) ==
    IF i = 1 THEN Below(r, packet.id) ELSE Got(r, packet, i - 1, ~seq)

\* What the receiver is, and what the sender is, in the record of a peer.
SameReceiver(r, t) ==
    /\ t.rxing = r.rxing /\ t.rx_packet = r.rx_packet /\ t.rx_left = r.rx_left
    /\ t.rx_seq = r.rx_seq /\ t.tun = r.tun /\ t.dropped = r.dropped
SameSender(s, t) ==
    /\ t.txing = s.txing /\ t.tx_packet = s.tx_packet /\ t.tx_pos = s.tx_pos
    /\ t.tx_seq = s.tx_seq /\ t.retries = s.retries

LEMMA PrefixFacts ==
    ASSUME NEW S, NEW q \in Seq(S)
    PROVE  /\ q # <<>> => <<q[1]>> = SubSeq(q, 1, 1)
           /\ SubSeq(q, 1, Len(q)) = q
           /\ \A i \in 2..Len(q) : Append(SubSeq(q, 1, i - 1), q[i]) = SubSeq(q, 1, i)
           /\ \A i \in 1..Len(q) : SubSeq(q, 1, i) # <<>> /\ SubSeq(q, 1, i)[1] = q[1]
                  /\ SubSeq(q, 1, i)[i] = q[i] /\ Len(SubSeq(q, 1, i)) = i
<1>1. q # <<>> => <<q[1]>> = SubSeq(q, 1, 1)
  OBVIOUS
<1>2. SubSeq(q, 1, Len(q)) = q
  OBVIOUS
<1>3. ASSUME NEW i \in 2..Len(q)
      PROVE  Append(SubSeq(q, 1, i - 1), q[i]) = SubSeq(q, 1, i)
  OBVIOUS
<1>4. ASSUME NEW i \in 1..Len(q)
      PROVE  SubSeq(q, 1, i) # <<>> /\ SubSeq(q, 1, i)[1] = q[1]
                  /\ SubSeq(q, 1, i)[i] = q[i] /\ Len(SubSeq(q, 1, i)) = i
  OBVIOUS
<1> QED BY <1>1, <1>2, <1>3, <1>4

LEMMA EndReassemblyFields ==
    ASSUME NEW r, PeerOK(r), r.rxing
    PROVE  LET e == EndReassembly(r)
           IN  /\ ~e.rxing /\ e.tun = r.tun /\ e.dropped = r.dropped
               /\ e.rx_seq = r.rx_seq /\ e.rx_packet = r.rx_packet
               /\ SameSender(r, e)
<1>1. EndReassembly(r) = [r EXCEPT !.t_reass = FALSE, !.rxing = FALSE]
  BY DEF AssertThat, EndReassembly, StopReass, PeerOK, PeerType
<1> QED BY <1>1 DEF PeerOK, PeerType, SameSender

LEMMA DropReassemblyFields ==
    ASSUME NEW r, PeerOK(r), r.rxing
    PROVE  LET e == DropReassembly(r)
           IN  /\ ~e.rxing /\ e.tun = r.tun
               /\ e.dropped = r.dropped \union {f.id : f \in Range(r.rx_packet)}
               /\ SameSender(r, e)
<1> DEFINE t == EndReassembly(r)  ids == {f.id : f \in Range(r.rx_packet)}
<1>1. /\ ~t.rxing /\ t.tun = r.tun /\ t.dropped = r.dropped /\ SameSender(r, t)
  BY EndReassemblyFields
<1>2. PeerOK(t)
  BY EndReassemblyOK
<1>3. DropReassembly(r) = [t EXCEPT !.dropped = @ \union ids]
  BY DEF DropReassembly, AssertThat
<1> HIDE DEF t, ids
<1>4. LET e == [t EXCEPT !.dropped = @ \union ids]
      IN  ~e.rxing /\ e.tun = r.tun /\ e.dropped = r.dropped \union ids /\ SameSender(r, e)
  BY <1>1, <1>2 DEF PeerOK, PeerType, SameSender
<1> QED BY <1>3, <1>4 DEF ids

LEMMA BeginReassemblyFields ==
    ASSUME NEW r, PeerOK(r), NEW frame \in Frames
    PROVE  LET b == BeginReassembly(r, frame)
           IN  /\ b.rxing /\ b.rx_packet = <<>> /\ b.rx_left = frame.length
               /\ b.tun = r.tun /\ b.dropped = r.dropped
               /\ SameSender(r, b)
<1> DEFINE t == IF r.rxing THEN EndReassembly(r) ELSE r
           u == [t EXCEPT !.rx_left = frame.length, !.rxing = TRUE, !.rx_packet = <<>>]
<1>1. PeerOK(t) /\ ~t.rxing
  BY EndReassemblyOK DEF PeerOK, PeerType
<1>2. t.tun = r.tun /\ t.dropped = r.dropped /\ SameSender(r, t)
  BY EndReassemblyFields DEF SameSender
<1>3. BeginReassembly(r, frame) = StartReass(u)
  BY DEF BeginReassembly
<1> HIDE DEF t
<1>4. StartReass(u) = [u EXCEPT !.t_reass = TRUE]
  BY <1>1 DEF AssertThat, StartReass, PeerOK, PeerType
<1>5. LET b == [u EXCEPT !.t_reass = TRUE]
      IN  /\ b.rxing /\ b.rx_packet = <<>> /\ b.rx_left = frame.length
          /\ b.tun = t.tun /\ b.dropped = t.dropped
          /\ SameSender(t, b)
  BY <1>1 DEF PeerOK, PeerType, SameSender
<1> HIDE DEF u
<1>6. LET b == BeginReassembly(r, frame)
      IN  /\ b.rxing /\ b.rx_packet = <<>> /\ b.rx_left = frame.length
          /\ b.tun = t.tun /\ b.dropped = t.dropped
          /\ SameSender(t, b)
  BY <1>3, <1>4, <1>5
<1> QED BY <1>2, <1>6 DEF SameSender

LEMMA AddFragmentFields ==
    ASSUME NEW r, PeerOK(r), r.rxing, NEW frame \in Frames
    PROVE  LET a == AddFragment(r, frame)
               all == Append(r.rx_packet, frame.fragment)
           IN  /\ SameSender(r, a) /\ a.dropped = r.dropped
               /\ r.rx_left = frame.fragment.size =>
                     ~a.rxing /\ a.tun = Append(r.tun, all)
               /\ r.rx_left > frame.fragment.size =>
                     /\ a.rxing /\ a.rx_packet = all /\ a.rx_seq = frame.seq
                     /\ a.rx_left = r.rx_left - frame.fragment.size
                     /\ a.tun = r.tun
<1> DEFINE size == frame.fragment.size
           all == Append(r.rx_packet, frame.fragment)
           t == [r EXCEPT !.rx_packet = Append(@, frame.fragment),
                          !.rx_left = @ - frame.fragment.size,
                          !.rx_seq = frame.seq]
           u == [t EXCEPT !.tun = Append(@, t.rx_packet)]
<1>0. r.rx_left \in Nat /\ size \in Nat /\ frame.fragment \in Fragments
  <2>1. frame.fragment \in Fragments
    BY DEF Frames
  <2>2. size \in 0..MAX_FRAG
    BY <2>1 DEF Fragments
  <2> QED BY <2>1, <2>2, FragmentBound, PeerNumbers, Zenon DEF PeerOK
<1>1. CASE r.rx_left < size
  <2>1. AddFragment(r, frame) = EndReassembly(r)
    BY <1>1 DEF AddFragment
  <2>2. ~(r.rx_left = size) /\ ~(r.rx_left > size)
    BY <1>0, <1>1
  <2> QED BY <2>1, <2>2, EndReassemblyFields
<1>2. CASE ~(r.rx_left < size)
  <2>1. /\ t.rxing /\ t.rx_packet = all /\ t.rx_seq = frame.seq /\ t.rx_left = r.rx_left - size
        /\ t.tun = r.tun /\ t.dropped = r.dropped /\ SameSender(r, t)
        /\ ~t.failed /\ t.t_reass
    BY DEF PeerOK, PeerType, SameSender
  <2>2. AddFragment(r, frame) = IF t.rx_left = 0 THEN EndReassembly(u) ELSE t
    BY <1>2 DEF AddFragment
  <2>3. CASE r.rx_left = size
    <3>1. t.rx_left = 0
      BY <2>1, <2>3, <1>0
    <3>2. AddFragment(r, frame) = EndReassembly(u)
      BY <2>2, <3>1
    <3>3. r.tun \in Seq(Seq(Fragments)) /\ all \in Seq(Fragments)
      BY <1>0, PeerNumbers DEF PeerOK, PeerType
    <3>4. EndReassembly(u) = [u EXCEPT !.t_reass = FALSE, !.rxing = FALSE]
      BY DEF AssertThat, EndReassembly, StopReass, PeerOK, PeerType
    <3>5. /\ EndReassembly(u).rxing = FALSE /\ EndReassembly(u).tun = Append(r.tun, all)
          /\ EndReassembly(u).dropped = r.dropped /\ SameSender(r, EndReassembly(u))
      BY <3>4 DEF PeerOK, PeerType, SameSender
    <3> QED BY <2>3, <3>2, <3>5, <1>0
  <2>4. CASE r.rx_left > size
    <3>1. t.rx_left # 0
      BY <2>1, <2>4, <1>0
    <3> HIDE DEF t
    <3>2. AddFragment(r, frame) = t
      BY <2>2, <3>1
    <3> QED BY <2>1, <2>4, <3>2, <1>0
  <2> QED BY <2>3, <2>4, <1>0, <1>2
<1> QED BY <1>1, <1>2
\* What is written is a packet, and not one that was written before unless it is of
\* one frame.
Writes(r, t, packet) ==
    \/ t.tun = r.tun
    \/ /\ t.tun = Append(r.tun, Cut(packet))
       /\ Below(r, packet.id) \/ (Below(r, packet.id + 1) /\ FrameCount(packet) = 1)

ReceivedBy(r, frame) ==
    IF frame.type = "pt_first" THEN AddFragment(BeginReassembly(r, frame), frame)
    ELSE NextReceived(r, frame)

LEMMA FrameOfType ==
    ASSUME NEW packet, Whole(packet), NEW i \in 1..FrameCount(packet), NEW seq \in BOOLEAN
    PROVE  /\ FrameOf(packet, i, seq) \in Frames
           /\ FrameOf(packet, i, seq).fragment = Cut(packet)[i]
           /\ FrameOf(packet, i, seq).fragment.size = FragmentSize(packet, i)
           /\ FrameOf(packet, i, seq).seq = seq
           /\ FrameOf(packet, i, seq).type # "pt_ack"
           /\ FrameOf(packet, i, seq).type = "pt_first" <=> i = 1
           /\ i = 1 => FrameOf(packet, i, seq).length = packet.size
<1>1. Cut(packet)[i] \in Fragments
  BY CutFacts
<1>2. packet.size \in 0..MAX_PACKET /\ 0 \in 0..MAX_PACKET
  BY Constants DEF Whole, Packets
<1>3. Cut(packet)[i].size = FragmentSize(packet, i)
  BY CutFacts
<1> QED BY <1>1, <1>2, <1>3 DEF FrameOf, Frames

LEMMA BelowSame ==
    ASSUME NEW r, NEW t, t.tun = r.tun, NEW n PROVE Below(r, n) => Below(t, n)
BY DEF Below

LEMMA BelowMore ==
    ASSUME NEW r, r.tun \in Seq(Seq(Fragments)), NEW n \in Nat, NEW m \in Nat, n <= m,
           Below(r, n), \A k \in 1..Len(r.tun) : r.tun[k] # <<>>
    PROVE  Below(r, m)
<1> SUFFICES ASSUME NEW k \in 1..Len(r.tun) PROVE r.tun[k][1].id < m
  BY DEF Below
<1>1. r.tun[k] \in Seq(Fragments) /\ r.tun[k] # <<>>
  OBVIOUS
<1>2. r.tun[k][1] \in Fragments
  BY <1>1
<1>3. r.tun[k][1].id \in Nat
  BY <1>2 DEF Fragments
<1>4. r.tun[k][1].id < n
  BY DEF Below
<1> QED BY <1>3, <1>4

\* A packet is written.
LEMMA BelowWritten ==
    ASSUME NEW r, r.tun \in Seq(Seq(Fragments)), NEW packet, Whole(packet), NEW t,
           t.tun = Append(r.tun, Cut(packet)), Below(r, packet.id + 1)
    PROVE  Below(t, packet.id + 1) /\ Cut(packet) \in Range(t.tun)
<1>1. Cut(packet) \in Seq(Fragments) /\ Cut(packet)[1].id = packet.id /\ packet.id \in Nat
  BY CutFacts, CountFacts, FirstFragment
<1>2. Len(t.tun) = Len(r.tun) + 1 /\ Len(r.tun) \in Nat
  BY <1>1
<1>3. t.tun[Len(r.tun) + 1] = Cut(packet)
  BY <1>1
<1>4. ASSUME NEW k \in 1..Len(t.tun) PROVE t.tun[k][1].id < packet.id + 1
  <2>1. CASE k \in 1..Len(r.tun)
    <3>1. t.tun[k] = r.tun[k]
      BY <2>1, <1>1
    <3> QED BY <3>1, <2>1 DEF Below
  <2>2. CASE k = Len(r.tun) + 1
    BY <2>2, <1>1, <1>3
  <2> QED BY <2>1, <2>2, <1>2
<1>5. Cut(packet) \in Range(t.tun)
  <2>1. Len(r.tun) + 1 \in DOMAIN t.tun
    BY <1>1, <1>2
  <2> QED BY <2>1, <1>3 DEF Range
<1> QED BY <1>4, <1>5 DEF Below

\* All that has been written begins with a fragment.
NotEmpty(r) == \A k \in 1..Len(r.tun) : r.tun[k] # <<>>

\* A receiver that has had the fragments before this one, or this one as well, has
\* had it when its frame has come.
LEMMA FrameReceived ==
    ASSUME NEW r, PeerOK(r), NotEmpty(r),
           NEW packet, Whole(packet), NEW i \in 1..FrameCount(packet), NEW seq \in BOOLEAN,
           Got(r, packet, i, seq) \/ Lacks(r, packet, i, seq)
    PROVE  LET t == ReceivedBy(r, FrameOf(packet, i, seq))
           IN  /\ Got(t, packet, i, seq)
               /\ Writes(r, t, packet)
               /\ t.dropped = r.dropped
               /\ SameSender(r, t)
<1> DEFINE frame == FrameOf(packet, i, seq)
           t == ReceivedBy(r, frame)
           n == FrameCount(packet)
           cut == Cut(packet)
<1>1. /\ frame \in Frames /\ frame.fragment = cut[i] /\ frame.seq = seq
      /\ frame.fragment.size = FragmentSize(packet, i)
      /\ frame.type = "pt_first" <=> i = 1
      /\ i = 1 => frame.length = packet.size
  BY FrameOfType
<1>2. /\ n \in Nat /\ n >= 1 /\ packet.id \in Nat /\ packet.size \in Nat
      /\ (n - 1) * 113 < packet.size /\ packet.size <= n * 113 /\ MAX_FRAG = 113
      /\ i \in Nat /\ i >= 1 /\ i <= n
  BY CountFacts, Constants
<1>3. /\ cut \in Seq(Fragments) /\ Len(cut) = n
      /\ FragmentSize(packet, i) =
            IF i < n THEN 113 ELSE packet.size - (i - 1) * 113
  BY CutFacts, Constants DEF FragmentSize
<1>4. r.tun \in Seq(Seq(Fragments))
  BY DEF PeerOK, PeerType
<1>5. Below(r, packet.id) => Below(r, packet.id + 1)
  BY <1>2, <1>4, BelowMore DEF NotEmpty
<1>6. /\ cut # <<>>
      /\ <<cut[1]>> = SubSeq(cut, 1, 1)
      /\ SubSeq(cut, 1, n) = cut
      /\ i > 1 => Append(SubSeq(cut, 1, i - 1), cut[i]) = SubSeq(cut, 1, i)
  <2>1. cut # <<>>
    BY <1>2, <1>3
  <2>2. i > 1 => i \in 2..n
    BY <1>2
  <2> HIDE DEF cut, n
  <2>3. /\ <<cut[1]>> = SubSeq(cut, 1, 1)
        /\ SubSeq(cut, 1, Len(cut)) = cut
        /\ \A k \in 2..Len(cut) : Append(SubSeq(cut, 1, k - 1), cut[k]) = SubSeq(cut, 1, k)
    BY <2>1, <1>3, PrefixFacts
  <2> QED BY <2>1, <2>2, <2>3, <1>3
<1>7. CASE i = 1
  <2> DEFINE b == BeginReassembly(r, frame)
  <2>1. PeerOK(b) /\ b.rxing /\ b.rx_packet = <<>> /\ b.rx_left = packet.size
        /\ b.tun = r.tun /\ b.dropped = r.dropped /\ SameSender(r, b)
    BY <1>1, <1>7, BeginReassemblyOK, BeginReassemblyFields
  <2>2. t = AddFragment(b, frame)
    BY <1>1, <1>7 DEF ReceivedBy
  <2> HIDE DEF b, frame, n, cut
  <2>3. Append(b.rx_packet, frame.fragment) = SubSeq(cut, 1, 1)
    BY <2>1, <1>1, <1>6, <1>7
  <2>4. CASE n = 1
    <3>1. b.rx_left = frame.fragment.size
      BY <2>1, <2>4, <1>1, <1>2, <1>3, <1>7
    <3>2. ~t.rxing /\ t.tun = Append(r.tun, cut) /\ t.dropped = r.dropped /\ SameSender(b, t)
      BY <2>1, <2>2, <2>3, <2>4, <3>1, <1>1, <1>6, AddFragmentFields
    <3> HIDE DEF t
    <3>3. Below(r, packet.id + 1)
      BY <1>5, <1>7 DEF Got, Lacks
    <3>4. Below(t, packet.id + 1) /\ cut \in Range(t.tun)
      BY <3>2, <3>3, <1>4, BelowWritten DEF cut
    <3>5. Got(t, packet, i, seq)
      BY <3>2, <3>4, <2>4, <1>7 DEF Got, cut, n
    <3>6. Writes(r, t, packet)
      BY <3>2, <3>3, <2>4 DEF Writes, cut, n
    <3>7. SameSender(r, t)
      BY <3>2, <2>1 DEF SameSender
    <3> QED BY <3>2, <3>5, <3>6, <3>7 DEF t, frame
  <2>5. CASE n > 1
    <3>1. b.rx_left > frame.fragment.size /\ b.rx_left - frame.fragment.size = packet.size - i * 113
      <4>1. 113 <= (n - 1) * 113
        BY <2>5, <1>2
      <4> QED BY <4>1, <2>1, <2>5, <1>1, <1>2, <1>3, <1>7
    <3>2. /\ t.rxing /\ t.tun = r.tun /\ t.dropped = r.dropped /\ SameSender(b, t)
          /\ t.rx_packet = SubSeq(cut, 1, i) /\ t.rx_left = packet.size - i * MAX_FRAG
          /\ t.rx_seq = seq
      BY <2>1, <2>2, <2>3, <3>1, <1>1, <1>2, <1>7, AddFragmentFields
    <3> HIDE DEF t
    <3>3. Below(r, packet.id)
      BY <2>5, <1>2, <1>7 DEF Got, Lacks, n
    <3>4. Below(t, packet.id)
      BY <3>2, <3>3, BelowSame
    <3>5. Got(t, packet, i, seq)
      BY <3>2, <3>4, <2>5, <1>7 DEF Got, cut, n
    <3>6. Writes(r, t, packet) /\ SameSender(r, t)
      BY <3>2, <2>1 DEF Writes, SameSender
    <3> QED BY <3>2, <3>5, <3>6 DEF t, frame
  <2> QED BY <2>4, <2>5, <1>2
<1>8. CASE i > 1
  <2>1. t = NextReceived(r, frame)
    BY <1>1, <1>8, <1>2 DEF ReceivedBy
  <2>2. CASE Got(r, packet, i, seq)
    <3>1. t = r
      BY <2>1, <2>2, <1>1 DEF NextReceived, IsRetransmission, Got
    <3> QED BY <3>1, <2>2 DEF Writes, SameSender
  <2>3. CASE Got(r, packet, i - 1, ~seq) /\ ~r.rxing
    <3>1. t = r
      BY <2>1, <2>3 DEF NextReceived
    <3>2. i - 1 # n
      BY <1>2
    <3>3. Got(r, packet, i, seq)
      BY <2>3, <3>2 DEF Got, n
    <3> QED BY <3>1, <3>3 DEF Writes, SameSender
  <2>4. CASE Got(r, packet, i - 1, ~seq) /\ r.rxing
    <3>1. /\ r.rx_packet = SubSeq(cut, 1, i - 1) /\ r.rx_seq = ~seq
          /\ r.rx_left = packet.size - (i - 1) * MAX_FRAG /\ Below(r, packet.id)
      BY <2>4 DEF Got, cut
    <3>2. t = AddFragment(r, frame)
      BY <2>1, <2>4, <3>1, <1>1 DEF NextReceived, IsRetransmission
    <3> HIDE DEF frame, n, cut
    <3>3. Append(r.rx_packet, frame.fragment) = SubSeq(cut, 1, i)
      BY <3>1, <1>1, <1>6, <1>8
    <3>4. CASE i = n
      <4>1. r.rx_left = frame.fragment.size
        BY <3>1, <3>4, <1>1, <1>2, <1>3
      <4>2. ~t.rxing /\ t.tun = Append(r.tun, cut) /\ t.dropped = r.dropped /\ SameSender(r, t)
        BY <2>4, <3>2, <3>3, <3>4, <4>1, <1>1, <1>6, AddFragmentFields
      <4> HIDE DEF t
      <4>3. Below(t, packet.id + 1) /\ cut \in Range(t.tun)
        BY <4>2, <3>1, <1>4, <1>5, BelowWritten DEF cut
      <4>4. Got(t, packet, i, seq)
        BY <4>2, <4>3, <3>4 DEF Got, cut, n
      <4>5. Writes(r, t, packet)
        BY <4>2, <3>1 DEF Writes, cut
      <4> QED BY <4>2, <4>4, <4>5 DEF t, frame
    <3>5. CASE i < n
      <4>1. r.rx_left > frame.fragment.size /\ r.rx_left - frame.fragment.size = packet.size - i * 113
        <5>1. i * 113 <= (n - 1) * 113
          BY <3>5, <1>2
        <5> QED BY <5>1, <3>1, <3>5, <1>1, <1>2, <1>3
      <4>2. /\ t.rxing /\ t.tun = r.tun /\ t.dropped = r.dropped /\ SameSender(r, t)
            /\ t.rx_packet = SubSeq(cut, 1, i) /\ t.rx_left = packet.size - i * MAX_FRAG
            /\ t.rx_seq = seq
        BY <2>4, <3>2, <3>3, <4>1, <1>1, <1>2, AddFragmentFields
      <4> HIDE DEF t
      <4>3. Below(t, packet.id)
        BY <4>2, <3>1, BelowSame
      <4>4. Got(t, packet, i, seq)
        BY <4>2, <4>3, <3>5 DEF Got, cut, n
      <4>5. Writes(r, t, packet)
        BY <4>2 DEF Writes
      <4> QED BY <4>2, <4>4, <4>5 DEF t, frame
    <3> QED BY <3>4, <3>5, <1>2
  <2> QED BY <2>2, <2>3, <2>4, <1>2, <1>8 DEF Lacks
<1> QED BY <1>2, <1>7, <1>8

\* reass_timeout() leaves a receiver as far as it was, or drops the packet.
LEMMA DropKeeps ==
    ASSUME NEW r, PeerOK(r), r.rxing, NEW packet, Whole(packet),
           NEW i \in 1..FrameCount(packet), NEW seq
    PROVE  /\ Got(r, packet, i, seq) => Got(DropReassembly(r), packet, i, seq)
           /\ Lacks(r, packet, i, seq) => Lacks(DropReassembly(r), packet, i, seq)
<1> DEFINE t == DropReassembly(r)
<1>1. /\ ~t.rxing /\ t.tun = r.tun
      /\ t.dropped = r.dropped \union {f.id : f \in Range(r.rx_packet)}
  BY DropReassemblyFields
<1> HIDE DEF t
<1>2. ASSUME NEW j \in 1..FrameCount(packet), NEW b, Got(r, packet, j, b)
      PROVE  Got(t, packet, j, b)
  <2>1. r.rx_packet = SubSeq(Cut(packet), 1, j) /\ Below(r, packet.id)
    BY <1>2 DEF Got
  <2>2. /\ Cut(packet) \in Seq(Fragments) /\ Len(Cut(packet)) = FrameCount(packet)
        /\ Cut(packet)[1].id = packet.id
    BY CutFacts, FirstFragment
  <2>3. r.rx_packet # <<>> /\ r.rx_packet[1] = Cut(packet)[1] /\ Len(r.rx_packet) = j
    <3>1. \A k \in 1..Len(Cut(packet)) :
              /\ SubSeq(Cut(packet), 1, k) # <<>> /\ SubSeq(Cut(packet), 1, k)[1] = Cut(packet)[1]
              /\ Len(SubSeq(Cut(packet), 1, k)) = k
      BY <2>2, PrefixFacts
    <3> QED BY <2>1, <2>2, <3>1
  <2>4. 1 \in DOMAIN r.rx_packet
    <3>1. r.rx_packet \in Seq(Fragments)
      BY PeerNumbers DEF PeerOK
    <3> QED BY <3>1, <2>3
  <2>5. packet.id \in t.dropped
    BY <2>2, <2>3, <2>4, <1>1 DEF Range
  <2>6. Below(t, packet.id)
    BY <2>1, <1>1, BelowSame
  <2> QED BY <2>5, <2>6, <1>1 DEF Got
<1>3. Lacks(r, packet, i, seq) => Lacks(t, packet, i, seq)
  <2>1. CASE i = 1
    BY <2>1, <1>1, BelowSame DEF Lacks
  <2>2. CASE i # 1
    <3>1. i - 1 \in 1..FrameCount(packet)
      BY <2>2, CountFacts
    <3> QED BY <2>2, <3>1, <1>2 DEF Lacks
  <2> QED BY <2>1, <2>2
<1> QED BY <1>2, <1>3 DEF t
-----------------------------------------------------------------------------
(* What is under way: frames of data in y, their acknowledgements in x     *)

Of(z, types) == {j \in 1..Len(z) : z[j].type \in types}
Acks(z) == Of(z, {"pt_ack"})
Data(z) == Of(z, {"pt_first", "pt_next"})

\* Those with the sequence bit of the last transmission come last: acknowledgements
\* are older than data.
LatestLast(x, y, b) ==
    /\ \A j, k \in Acks(x) : j < k /\ x[j].seq = b => x[k].seq = b
    /\ \A j, k \in Data(y) : j < k /\ y[j].seq = b => y[k].seq = b
    /\ \A j \in Acks(x), k \in Data(y) : x[j].seq = b => y[k].seq = b

Some(x, y) == Acks(x) # {} \/ Data(y) # {}
Two(x, y) ==
    \/ \E j, k \in Acks(x) : j < k
    \/ \E j, k \in Data(y) : j < k
    \/ Acks(x) # {} /\ Data(y) # {}
Stale(x, y, b) ==
    (\E j \in Acks(x) : x[j].seq # b) \/ (\E j \in Data(y) : y[j].seq # b)

\* Each timeout while something was under way has been counted, so that a frame
\* or an acknowledgement of an earlier fragment cannot outlive all tries.
Wire(x, y, s, n) ==
    /\ LatestLast(x, y, s.tx_seq)
    /\ Two(x, y) => n >= 1
    /\ Some(x, y) /\ ~s.txing => n >= 1
    /\ Stale(x, y, s.tx_seq) => s.txing /\ n > s.retries

\* w has of the frames of z with such a type some, in their order.
Keeps(z, w, types) ==
    \E f \in [Of(w, types) -> Of(z, types)] :
        /\ \A j \in Of(w, types) : w[j] = z[f[j]]
        /\ \A j, k \in Of(w, types) : j < k => f[j] < f[k]

Fewer(x, y, x2, y2) ==
    Keeps(x, x2, {"pt_ack"}) /\ Keeps(y, y2, {"pt_first", "pt_next"})

LEMMA KeepsSame == ASSUME NEW z, NEW types PROVE Keeps(z, z, types)
<1> DEFINE f == [j \in Of(z, types) |-> j]
<1>1. f \in [Of(z, types) -> Of(z, types)]
  OBVIOUS
<1>2. \A j \in Of(z, types) : z[j] = z[f[j]]
  OBVIOUS
<1>3. \A j, k \in Of(z, types) : j < k => f[j] < f[k]
  OBVIOUS
<1> QED BY <1>1, <1>2, <1>3 DEF Keeps

LEMMA KeepsTail ==
    ASSUME NEW z \in Seq(Frames), z # <<>>, NEW types PROVE Keeps(z, Tail(z), types)
<1> DEFINE w == Tail(z)  f == [j \in Of(w, types) |-> j + 1]
<1>1. ASSUME NEW j \in Of(w, types)
      PROVE  j \in Nat /\ j + 1 \in Of(z, types) /\ w[j] = z[j + 1]
  <2>1. j \in 1..Len(w) /\ w[j].type \in types
    BY DEF Of
  <2>2. j \in Nat /\ j + 1 \in 1..Len(z) /\ w[j] = z[j + 1]
    BY <2>1
  <2> QED BY <2>1, <2>2 DEF Of
<1>2. f \in [Of(w, types) -> Of(z, types)]
  BY <1>1
<1>3. \A j \in Of(w, types) : w[j] = z[f[j]]
  BY <1>1
<1>4. \A j, k \in Of(w, types) : j < k => f[j] < f[k]
  BY <1>1
<1> HIDE DEF f
<1> QED BY <1>2, <1>3, <1>4 DEF Keeps

\* What one appends.
LEMMA AppendOf ==
    ASSUME NEW z \in Seq(Frames), NEW frame \in Frames, NEW types
    PROVE  LET w == Append(z, frame)
               new == Len(z) + 1
           IN  /\ new \in Nat /\ w[new] = frame
               /\ frame.type \in types => new \in Of(w, types)
               /\ \A j \in Of(z, types) :
                     j \in Of(w, types) /\ w[j] = z[j] /\ j < new /\ j \in Nat
               /\ \A j \in Of(w, types) :
                     \/ j = new /\ frame.type \in types
                     \/ j \in Of(z, types) /\ w[j] = z[j] /\ j < new /\ j \in Nat
<1> DEFINE w == Append(z, frame)  new == Len(z) + 1
<1>1. Len(z) \in Nat /\ Len(w) = new /\ w[new] = frame /\ new \in Nat
  OBVIOUS
<1>2. \A j \in 1..Len(z) : j \in 1..Len(w) /\ w[j] = z[j] /\ j < new /\ j \in Nat
  OBVIOUS
<1>3. \A j \in 1..Len(w) : j = new \/ j \in 1..Len(z)
  BY <1>1
<1>4. frame.type \in types => new \in Of(w, types)
  BY <1>1 DEF Of
<1> HIDE DEF w, new
<1>5. \A j \in Of(z, types) : j \in Of(w, types) /\ w[j] = z[j] /\ j < new /\ j \in Nat
  BY <1>2 DEF Of
<1>6. \A j \in Of(w, types) :
          \/ j = new /\ frame.type \in types
          \/ j \in Of(z, types) /\ w[j] = z[j] /\ j < new /\ j \in Nat
  BY <1>1, <1>2, <1>3 DEF Of
<1> QED BY <1>1, <1>4, <1>5, <1>6 DEF w, new

LEMMA KeepsAppend ==
    ASSUME NEW z \in Seq(Frames), NEW frame \in Frames, NEW types, frame.type \notin types
    PROVE  Keeps(z, Append(z, frame), types)
<1> DEFINE w == Append(z, frame)  f == [j \in Of(w, types) |-> j]
<1>1. \A j \in Of(w, types) : j \in Of(z, types) /\ w[j] = z[j]
  <2>1. \A j \in Of(w, types) :
            \/ j = Len(z) + 1 /\ frame.type \in types
            \/ j \in Of(z, types) /\ w[j] = z[j] /\ j < Len(z) + 1 /\ j \in Nat
    BY AppendOf
  <2> HIDE DEF w
  <2> QED BY <2>1
<1> HIDE DEF w
<1>2. f \in [Of(w, types) -> Of(z, types)]
  BY <1>1
<1>3. \A j \in Of(w, types) : w[j] = z[f[j]]
  BY <1>1
<1>4. \A j, k \in Of(w, types) : j < k => f[j] < f[k]
  OBVIOUS
<1> HIDE DEF f
<1> QED BY <1>2, <1>3, <1>4 DEF Keeps, w

\* The frames of data, and the acknowledgements, that are left were there.
LEMMA KeptThere ==
    ASSUME NEW z, NEW w, NEW types, Keeps(z, w, types), NEW j \in Of(w, types)
    PROVE  \E k \in Of(z, types) : w[j] = z[k]
BY DEF Keeps

LEMMA FewerOnWire ==
    ASSUME NEW x, NEW y, NEW x2, NEW y2, Fewer(x, y, x2, y2), NEW s, NEW n \in Nat,
           NEW m \in Nat, m >= n, s.retries \in Nat, Wire(x, y, s, n)
    PROVE  Wire(x2, y2, s, m)
<1>1. PICK f \in [Acks(x2) -> Acks(x)] :
          /\ \A j \in Acks(x2) : x2[j] = x[f[j]]
          /\ \A j, k \in Acks(x2) : j < k => f[j] < f[k]
  BY DEF Fewer, Keeps, Acks
<1>2. PICK g \in [Data(y2) -> Data(y)] :
          /\ \A j \in Data(y2) : y2[j] = y[g[j]]
          /\ \A j, k \in Data(y2) : j < k => g[j] < g[k]
  BY DEF Fewer, Keeps, Data
<1>3. LatestLast(x2, y2, s.tx_seq)
  <2>0. LatestLast(x, y, s.tx_seq)
    BY DEF Wire
  <2>1. ASSUME NEW j \in Acks(x2), NEW k \in Acks(x2), j < k, x2[j].seq = s.tx_seq
        PROVE  x2[k].seq = s.tx_seq
    BY <1>1, <2>0, <2>1 DEF LatestLast
  <2>2. ASSUME NEW j \in Data(y2), NEW k \in Data(y2), j < k, y2[j].seq = s.tx_seq
        PROVE  y2[k].seq = s.tx_seq
    BY <1>2, <2>0, <2>2 DEF LatestLast
  <2>3. ASSUME NEW j \in Acks(x2), NEW k \in Data(y2), x2[j].seq = s.tx_seq
        PROVE  y2[k].seq = s.tx_seq
    BY <1>1, <1>2, <2>0, <2>3 DEF LatestLast
  <2> QED BY <2>1, <2>2, <2>3 DEF LatestLast
<1>4. Some(x2, y2) => Some(x, y)
  BY <1>1, <1>2 DEF Some
<1>5. Two(x2, y2) => Two(x, y)
  <2>1. CASE \E j, k \in Acks(x2) : j < k
    BY <1>1, <2>1 DEF Two
  <2>2. CASE \E j, k \in Data(y2) : j < k
    BY <1>2, <2>2 DEF Two
  <2>3. CASE Acks(x2) # {} /\ Data(y2) # {}
    BY <1>1, <1>2, <2>3 DEF Two
  <2> QED BY <2>1, <2>2, <2>3 DEF Two
<1>6. Stale(x2, y2, s.tx_seq) => Stale(x, y, s.tx_seq)
  BY <1>1, <1>2 DEF Stale
<1> QED BY <1>3, <1>4, <1>5, <1>6 DEF Wire
-----------------------------------------------------------------------------
(* One direction: from the sender s to the receiver r                      *)

\* The i-th fragment of tx_packet is the one being sent, or the last one sent.
At(s, i) ==
    \/ s.tx_pos = (i - 1) * MAX_FRAG
    \/ ~s.txing /\ i = FrameCount(s.tx_packet) /\ s.tx_pos = s.tx_packet.size

AllLatest(s, y) == \A k \in Data(y) : y[k].seq = s.tx_seq

\* Other data under way is of the fragment sent before this one, of the same packet
\* or of an earlier one, perhaps given up; r has had it, or the ones before it.
Before(s, r, y, i, packets) ==
    \E prev \in Range(packets) : \E j \in 1..FrameCount(prev) :
        /\ \/ i > 1 /\ prev = s.tx_packet /\ j = i - 1
           \/ /\ i = 1 /\ prev.id < s.tx_packet.id
              /\ Got(r, prev, j, ~s.tx_seq) \/ Lacks(r, prev, j, ~s.tx_seq)
        /\ \A k \in Data(y) : y[k].seq # s.tx_seq => y[k] = FrameOf(prev, j, ~s.tx_seq)

\* r has had the fragment being sent; or it has not, but all before it, and then
\* no acknowledgement says so.
InStep(s, r, x, y, i, packets) ==
    /\ \A k \in Data(y) : y[k].seq = s.tx_seq => y[k] = FrameOf(s.tx_packet, i, s.tx_seq)
    /\ \/ Got(r, s.tx_packet, i, s.tx_seq) /\ AllLatest(s, y)
       \/ /\ Lacks(r, s.tx_packet, i, s.tx_seq)
          /\ \A k \in Acks(x) : x[k].seq # s.tx_seq
          /\ AllLatest(s, y) \/ Before(s, r, y, i, packets)

\* What is written are packets that were sent.
TunOK(r, packets) ==
    \A k \in 1..Len(r.tun) : \E n \in 1..Len(packets) : r.tun[k] = Cut(packets[n])

PacketsOK(packets) ==
    /\ packets \in Seq(Packets)
    /\ \A k \in 1..Len(packets) : packets[k].id = k /\ packets[k].size \in Sizes

Direction(s, r, x, y, packets, n) ==
    /\ PacketsOK(packets)
    /\ TunOK(r, packets)
    /\ Wire(x, y, s, n)
    /\ packets = <<>> => ~s.txing /\ ~Some(x, y)
    /\ packets # <<>> =>
          /\ s.tx_packet = packets[Len(packets)]
          /\ \E i \in 1..FrameCount(s.tx_packet) :
                At(s, i) /\ InStep(s, r, x, y, i, packets)

LEMMA PacketFacts ==
    ASSUME NEW packets, PacketsOK(packets)
    PROVE  /\ Len(packets) \in Nat
           /\ \A k \in 1..Len(packets) : Whole(packets[k]) /\ packets[k].id = k
           /\ \A packet \in Range(packets) :
                 /\ Whole(packet) /\ packet.id \in 1..Len(packets)
                 /\ packets[packet.id] = packet
           /\ packets # <<>> => /\ Len(packets) \in 1..Len(packets)
                                /\ packets[Len(packets)] \in Range(packets)
                                /\ packets[Len(packets)].id = Len(packets)
<1>1. Len(packets) \in Nat /\ DOMAIN packets = 1..Len(packets)
  BY DEF PacketsOK
<1>2. \A k \in 1..Len(packets) : Whole(packets[k]) /\ packets[k].id = k
  BY DEF PacketsOK, Whole
<1>3. \A packet \in Range(packets) : \E k \in 1..Len(packets) : packet = packets[k]
  BY <1>1 DEF Range
<1>4. packets # <<>> => Len(packets) \in 1..Len(packets)
  BY DEF PacketsOK
<1> QED BY <1>1, <1>2, <1>3, <1>4 DEF Range

LEMMA TunFacts ==
    ASSUME NEW r, NEW packets, PacketsOK(packets), TunOK(r, packets)
    PROVE  NotEmpty(r) /\ Below(r, Len(packets) + 1)
<1> SUFFICES ASSUME NEW k \in 1..Len(r.tun)
             PROVE  r.tun[k] # <<>> /\ r.tun[k][1].id < Len(packets) + 1
  BY DEF NotEmpty, Below
<1>1. PICK n \in 1..Len(packets) : r.tun[k] = Cut(packets[n])
  BY DEF TunOK
<1>2. Whole(packets[n]) /\ packets[n].id = n /\ Len(packets) \in Nat
  BY PacketFacts
<1>3. Cut(packets[n])[1].id = n
  BY <1>2, FirstFragment
<1>4. Cut(packets[n]) # <<>>
  BY <1>2, CutFacts, CountFacts
<1> QED BY <1>1, <1>2, <1>3, <1>4

LEMMA SameReceiverKnows ==
    ASSUME NEW r, NEW t, SameReceiver(r, t), NEW packet, NEW i, NEW seq
    PROVE  /\ Got(r, packet, i, seq) => Got(t, packet, i, seq)
           /\ Lacks(r, packet, i, seq) => Lacks(t, packet, i, seq)
BY DEF SameReceiver, Got, Lacks, Below

\* The direction stays in step when frames get lost, when frames of the other one
\* come and go, and when its peers do what belongs to the other one.
LEMMA OthersStep ==
    ASSUME NEW s, PeerOK(s), NEW r, NEW x, NEW y, NEW packets, NEW n \in Nat,
           Direction(s, r, x, y, packets, n),
           NEW s2, SameSender(s, s2), NEW r2, SameReceiver(r, r2),
           NEW x2, NEW y2, Fewer(x, y, x2, y2), NEW m \in Nat, m >= n
    PROVE  Direction(s2, r2, x2, y2, packets, m)
<1>1. PacketsOK(packets) /\ TunOK(r2, packets)
  BY DEF Direction, TunOK, SameReceiver
<1>2. Wire(x2, y2, s2, m)
  <2>1. s.retries \in Nat
    BY PeerNumbers DEF PeerOK
  <2>2. Wire(x2, y2, s, m)
    BY <2>1, FewerOnWire DEF Direction
  <2> QED BY <2>2 DEF Wire, SameSender
<1>3. /\ \A j \in Acks(x2) : \E k \in Acks(x) : x2[j] = x[k]
      /\ \A j \in Data(y2) : \E k \in Data(y) : y2[j] = y[k]
  BY KeptThere DEF Fewer, Acks, Data
<1>4. ASSUME packets = <<>> PROVE ~s2.txing /\ ~Some(x2, y2)
  BY <1>3, <1>4 DEF Direction, SameSender, Some
<1>5. ASSUME packets # <<>>
      PROVE  \E i \in 1..FrameCount(s2.tx_packet) :
                At(s2, i) /\ InStep(s2, r2, x2, y2, i, packets)
  <2>1. PICK i \in 1..FrameCount(s.tx_packet) : At(s, i) /\ InStep(s, r, x, y, i, packets)
    BY <1>5 DEF Direction
  <2>2. At(s2, i) /\ s2.tx_packet = s.tx_packet /\ s2.tx_seq = s.tx_seq
    BY <2>1 DEF At, SameSender
  <2>3. \A k \in Data(y2) : y2[k].seq = s.tx_seq => y2[k] = FrameOf(s.tx_packet, i, s.tx_seq)
    BY <1>3, <2>1 DEF InStep
  <2>4. AllLatest(s, y) => AllLatest(s2, y2)
    BY <1>3, <2>2 DEF AllLatest
  <2>5. CASE Got(r, s.tx_packet, i, s.tx_seq) /\ AllLatest(s, y)
    <3>1. Got(r2, s2.tx_packet, i, s2.tx_seq)
      BY <2>2, <2>5, SameReceiverKnows
    <3> QED BY <3>1, <2>1, <2>2, <2>3, <2>4, <2>5 DEF InStep
  <2>6. CASE /\ Lacks(r, s.tx_packet, i, s.tx_seq)
             /\ \A k \in Acks(x) : x[k].seq # s.tx_seq
             /\ AllLatest(s, y) \/ Before(s, r, y, i, packets)
    <3>1. Lacks(r2, s2.tx_packet, i, s2.tx_seq)
      BY <2>2, <2>6, SameReceiverKnows
    <3>2. \A k \in Acks(x2) : x2[k].seq # s2.tx_seq
      BY <1>3, <2>2, <2>6
    <3>3. ASSUME Before(s, r, y, i, packets) PROVE Before(s2, r2, y2, i, packets)
      <4>0. PICK prev \in Range(packets) : \E j \in 1..FrameCount(prev) :
                /\ \/ i > 1 /\ prev = s.tx_packet /\ j = i - 1
                   \/ /\ i = 1 /\ prev.id < s.tx_packet.id
                      /\ Got(r, prev, j, ~s.tx_seq) \/ Lacks(r, prev, j, ~s.tx_seq)
                /\ \A k \in Data(y) :
                      y[k].seq # s.tx_seq => y[k] = FrameOf(prev, j, ~s.tx_seq)
        BY <3>3 DEF Before
      <4>1. PICK j \in 1..FrameCount(prev) :
                /\ \/ i > 1 /\ prev = s.tx_packet /\ j = i - 1
                   \/ /\ i = 1 /\ prev.id < s.tx_packet.id
                      /\ Got(r, prev, j, ~s.tx_seq) \/ Lacks(r, prev, j, ~s.tx_seq)
                /\ \A k \in Data(y) :
                      y[k].seq # s.tx_seq => y[k] = FrameOf(prev, j, ~s.tx_seq)
        BY <4>0
      <4>2. Got(r, prev, j, ~s.tx_seq) \/ Lacks(r, prev, j, ~s.tx_seq) =>
               Got(r2, prev, j, ~s.tx_seq) \/ Lacks(r2, prev, j, ~s.tx_seq)
        BY SameReceiverKnows
      <4>3. \A k \in Data(y2) :
                y2[k].seq # s.tx_seq => y2[k] = FrameOf(prev, j, ~s.tx_seq)
        BY <1>3, <4>1
      <4> QED BY <4>1, <4>2, <4>3, <2>2 DEF Before
    <3> QED BY <3>1, <3>2, <3>3, <2>1, <2>2, <2>3, <2>4, <2>6 DEF InStep
  <2> QED BY <2>1, <2>5, <2>6 DEF InStep
<1>6. packets # <<>> => s2.tx_packet = packets[Len(packets)]
  BY DEF Direction, SameSender
<1> QED BY <1>1, <1>2, <1>4, <1>5, <1>6 DEF Direction
-----------------------------------------------------------------------------
(* A sender                                                                *)

LEMMA TakePacketFields ==
    ASSUME NEW s, PeerOK(s), ~s.txing, NEW packet
    PROVE  LET t == TakePacket(s, packet)
           IN  /\ t.txing /\ t.tx_packet = packet /\ t.tx_pos = 0 /\ t.tx_seq = ~s.tx_seq
               /\ t.retries = 0 /\ SameReceiver(s, t)
<1> DEFINE u == [s EXCEPT !.txing = TRUE, !.tx_packet = packet, !.tx_pos = 0,
                          !.tx_seq = ~@, !.retries = 0]
<1>1. TakePacket(s, packet) = [u EXCEPT !.t_ack = TRUE]
  BY DEF AssertThat, TakePacket, SendMore, StartAck, PeerOK, PeerType
<1>2. LET t == [u EXCEPT !.t_ack = TRUE]
      IN  /\ t.txing /\ t.tx_packet = packet /\ t.tx_pos = 0 /\ t.tx_seq = ~s.tx_seq
          /\ t.retries = 0 /\ SameReceiver(s, t)
  BY DEF PeerOK, PeerType, SameReceiver
<1> HIDE DEF u
<1> QED BY <1>1, <1>2

LEMMA RetransmitFields ==
    ASSUME NEW s, PeerOK(s), s.txing
    PROVE  LET t == Retransmit(s)
           IN  /\ t.tx_packet = s.tx_packet /\ t.tx_pos = s.tx_pos /\ t.tx_seq = s.tx_seq
               /\ t.txing <=> s.retries + 1 # MAX_TRIES
               /\ t.txing => t.retries = s.retries + 1
               /\ SameReceiver(s, t)
<1> DEFINE u == [s EXCEPT !.t_ack = FALSE, !.retries = s.retries + 1]
<1>1. [StopAck(AssertThat(s, s.txing)) EXCEPT !.retries = @ + 1] = u
  <2>1. AssertThat(s, s.txing) = s
    BY DEF AssertThat
  <2>2. [StopAck(s) EXCEPT !.retries = @ + 1] = u
    BY StopAckOK DEF PeerOK, PeerType
  <2> QED BY <2>1, <2>2
<1>2. /\ u.tx_packet = s.tx_packet /\ u.tx_pos = s.tx_pos /\ u.tx_seq = s.tx_seq
      /\ u.retries = s.retries + 1 /\ ~u.t_ack /\ u.txing /\ SameReceiver(s, u)
  BY DEF PeerOK, PeerType, SameReceiver
<1>3. CASE s.retries + 1 = MAX_TRIES
  <2>1. Retransmit(s) = [u EXCEPT !.txing = FALSE]
    BY <1>1, <1>2, <1>3 DEF Retransmit
  <2>2. LET t == [u EXCEPT !.txing = FALSE]
        IN  /\ t.tx_packet = s.tx_packet /\ t.tx_pos = s.tx_pos /\ t.tx_seq = s.tx_seq
            /\ ~t.txing /\ SameReceiver(s, t)
    BY DEF PeerOK, PeerType, SameReceiver
  <2> HIDE DEF u
  <2> QED BY <2>1, <2>2, <1>3
<1>4. CASE s.retries + 1 # MAX_TRIES
  <2>1. Retransmit(s) = [u EXCEPT !.t_ack = TRUE]
    BY <1>1, <1>2, <1>4 DEF AssertThat, Retransmit, SendMore, StartAck
  <2>2. LET t == [u EXCEPT !.t_ack = TRUE]
        IN  /\ t.tx_packet = s.tx_packet /\ t.tx_pos = s.tx_pos /\ t.tx_seq = s.tx_seq
            /\ t.txing /\ t.retries = s.retries + 1 /\ SameReceiver(s, t)
    BY DEF PeerOK, PeerType, SameReceiver
  <2> HIDE DEF u
  <2> QED BY <2>1, <2>2, <1>4
<1> QED BY <1>3, <1>4

LEMMA AckReceivedFields ==
    ASSUME NEW s, PeerOK(s), s.txing, Whole(s.tx_packet),
           NEW i \in 1..FrameCount(s.tx_packet), s.tx_pos = (i - 1) * MAX_FRAG
    PROVE  LET t == AckReceived(s)
           IN  /\ t.tx_packet = s.tx_packet /\ SameReceiver(s, t)
               /\ i < FrameCount(s.tx_packet) =>
                     /\ t.txing /\ t.tx_pos = i * MAX_FRAG /\ t.tx_seq = ~s.tx_seq
                     /\ t.retries = 0
               /\ i = FrameCount(s.tx_packet) =>
                     ~t.txing /\ t.tx_pos = s.tx_packet.size /\ t.tx_seq = s.tx_seq
<1> DEFINE pos == s.tx_pos + SendSize(s)
           u == [s EXCEPT !.t_ack = FALSE, !.tx_pos = pos]
           n == FrameCount(s.tx_packet)
<1>1. Advance(StopAck(s)) = u
  <2>1. SendSize([s EXCEPT !.t_ack = FALSE]) = SendSize(s)
    BY DEF SendSize, TxLeft, PeerOK, PeerType
  <2> QED BY <2>1, StopAckOK DEF Advance, PeerOK, PeerType
<1>2. /\ u.tx_packet = s.tx_packet /\ u.tx_pos = pos /\ u.tx_seq = s.tx_seq
      /\ ~u.t_ack /\ u.txing /\ SameReceiver(s, u)
  BY DEF PeerOK, PeerType, SameReceiver
<1>3. /\ i < n => pos = i * MAX_FRAG
      /\ i = n => pos = s.tx_packet.size
  <2>1. SendSize(s) = FragmentSize(s.tx_packet, i)
    BY SentFrame DEF PeerOK
  <2>2. (i - 1) * MAX_FRAG + FragmentSize(s.tx_packet, i) =
            IF i < n THEN i * MAX_FRAG ELSE s.tx_packet.size
    BY CutFacts
  <2>3. n \in Nat /\ i \in Nat
    BY CountFacts
  <2> QED BY <2>1, <2>2, <2>3
<1>4. TxLeft(u) = 0 <=> i = n
  <2>1. /\ n \in Nat /\ n >= 1 /\ s.tx_packet.size \in Nat /\ MAX_FRAG = 113
        /\ (n - 1) * 113 < s.tx_packet.size
    BY CountFacts, Constants
  <2>2. TxLeft(u) = s.tx_packet.size - pos
    BY <1>2 DEF TxLeft
  <2> HIDE DEF n, pos, u
  <2>3. CASE i = n
    BY <2>1, <2>2, <2>3, <1>3
  <2>4. CASE i < n
    <3>1. i \in Nat /\ i * 113 <= (n - 1) * 113
      BY <2>1, <2>4, CountFacts DEF n
    <3> QED BY <3>1, <2>1, <2>2, <2>4, <1>3
  <2> QED BY <2>1, <2>3, <2>4 DEF n
<1>5. CASE i = n
  <2>1. AckReceived(s) = [u EXCEPT !.txing = FALSE]
    BY <1>1, <1>4, <1>5 DEF AckReceived
  <2>2. LET t == [u EXCEPT !.txing = FALSE]
        IN  /\ t.tx_packet = s.tx_packet /\ t.tx_pos = pos /\ t.tx_seq = s.tx_seq
            /\ ~t.txing /\ SameReceiver(s, t)
    BY DEF PeerOK, PeerType, SameReceiver
  <2>3. ~(i < n)
    BY <1>5, CountFacts
  <2> HIDE DEF u, pos
  <2> QED BY <2>1, <2>2, <2>3, <1>3, <1>5
<1>6. CASE i # n
  <2> DEFINE v == [u EXCEPT !.tx_seq = ~@, !.retries = 0]
  <2>1. AckReceived(s) = SendMore(v)
    BY <1>1, <1>4, <1>6 DEF AckReceived
  <2>2. SendMore(v) = [v EXCEPT !.t_ack = TRUE]
    BY <1>2 DEF AssertThat, SendMore, StartAck, PeerOK, PeerType
  <2>3. LET t == [v EXCEPT !.t_ack = TRUE]
        IN  /\ t.tx_packet = s.tx_packet /\ t.tx_pos = pos /\ t.tx_seq = ~s.tx_seq
            /\ t.txing /\ t.retries = 0 /\ SameReceiver(s, t)
    BY DEF PeerOK, PeerType, SameReceiver
  <2> HIDE DEF u, v, pos
  <2>4. i < n
    BY <1>6, CountFacts
  <2> QED BY <2>1, <2>2, <2>3, <2>4, <1>3, <1>6
<1> QED BY <1>5, <1>6
-----------------------------------------------------------------------------
(* The steps of a direction                                                *)

LEMMA FrameBits ==
    ASSUME NEW z \in Seq(Frames), NEW types
    PROVE  \A j \in Of(z, types) : z[j] \in Frames /\ z[j].seq \in BOOLEAN
                /\ j \in 1..Len(z) /\ j \in Nat
<1> SUFFICES ASSUME NEW j \in Of(z, types)
             PROVE  z[j] \in Frames /\ z[j].seq \in BOOLEAN /\ j \in 1..Len(z) /\ j \in Nat
  OBVIOUS
<1>1. j \in 1..Len(z)
  BY DEF Of
<1>2. z[j] \in Frames
  BY <1>1
<1> QED BY <1>1, <1>2 DEF Frames

\* y with a frame of data more.
LEMMA DataAppended ==
    ASSUME NEW y \in Seq(Frames), NEW frame \in Frames, frame.type # "pt_ack"
    PROVE  LET w == Append(y, frame)
               new == Len(y) + 1
           IN  /\ new \in Data(w) /\ w[new] = frame /\ new \in Nat
               /\ \A j \in Data(y) : j \in Data(w) /\ w[j] = y[j] /\ j < new /\ j \in Nat
               /\ \A j \in Data(w) :
                     j = new \/ (j \in Data(y) /\ w[j] = y[j] /\ j < new /\ j \in Nat)
<1>1. frame.type \in {"pt_first", "pt_next"}
  BY DEF Frames
<1> QED BY <1>1, AppendOf DEF Data

\* x with an acknowledgement more.
LEMMA AckAppended ==
    ASSUME NEW x \in Seq(Frames), NEW seq \in BOOLEAN
    PROVE  LET w == Append(x, Ack(seq))
               new == Len(x) + 1
           IN  /\ new \in Acks(w) /\ w[new].seq = seq /\ new \in Nat
               /\ \A j \in Acks(w) :
                     j = new \/ (j \in Acks(x) /\ w[j] = x[j] /\ j < new /\ j \in Nat)
<1>1. Ack(seq) \in Frames /\ Ack(seq).type = "pt_ack" /\ Ack(seq).seq = seq
  BY AckType DEF Ack
<1> QED BY <1>1, AppendOf DEF Acks

LEMMA TailOf ==
    ASSUME NEW z \in Seq(Frames), z # <<>>, NEW types
    PROVE  /\ \A j \in Of(Tail(z), types) :
                 j + 1 \in Of(z, types) /\ Tail(z)[j] = z[j + 1] /\ 1 < j + 1 /\ j \in Nat
           /\ Head(z) = z[1]
           /\ Head(z).type \in types => 1 \in Of(z, types)
<1>1. ASSUME NEW j \in Of(Tail(z), types)
      PROVE  j + 1 \in Of(z, types) /\ Tail(z)[j] = z[j + 1] /\ 1 < j + 1 /\ j \in Nat
  <2>1. j \in 1..Len(Tail(z)) /\ Tail(z)[j].type \in types
    BY DEF Of
  <2>2. j \in Nat /\ 1 < j + 1 /\ j + 1 \in 1..Len(z) /\ Tail(z)[j] = z[j + 1]
    BY <2>1
  <2> QED BY <2>1, <2>2 DEF Of
<1>2. Head(z) = z[1] /\ 1 \in 1..Len(z)
  OBVIOUS
<1> QED BY <1>1, <1>2 DEF Of

LEMMA AppendedPackets ==
    ASSUME NEW packets, PacketsOK(packets), NEW size \in Sizes,
           NEW packet, packet = [id |-> Len(packets) + 1, size |-> size]
    PROVE  LET more == Append(packets, packet)
           IN  /\ PacketsOK(more) /\ more # <<>> /\ Len(more) = Len(packets) + 1
               /\ more[Len(more)] = packet /\ Whole(packet)
               /\ \A k \in 1..Len(packets) : k \in 1..Len(more) /\ more[k] = packets[k]
               /\ Range(packets) \subseteq Range(more)
<1> DEFINE more == Append(packets, packet)
<1>1. packets \in Seq(Packets) /\ Len(packets) \in Nat
  BY DEF PacketsOK
<1>2. packet \in Packets /\ packet.id = Len(packets) + 1 /\ packet.size \in Sizes
  <2>1. size \in 20..MAX_PACKET
    BY DirtpanAssumption
  <2>2. \A n \in 20..MAX_PACKET : n \in 0..MAX_PACKET
    BY Constants
  <2>3. size \in 0..MAX_PACKET
    BY <2>1, <2>2, Zenon
  <2> QED BY <2>3, <1>1 DEF Packets
<1>3. /\ more \in Seq(Packets) /\ Len(more) = Len(packets) + 1 /\ more # <<>>
      /\ more[Len(packets) + 1] = packet
      /\ \A k \in 1..Len(packets) : k \in 1..Len(more) /\ more[k] = packets[k]
      /\ \A k \in 1..Len(more) : k \in 1..Len(packets) \/ k = Len(packets) + 1
  BY <1>1, <1>2
<1> HIDE DEF more
<1>4. PacketsOK(more)
  BY <1>2, <1>3 DEF PacketsOK
<1>5. Range(packets) \subseteq Range(more)
  <2>1. DOMAIN packets = 1..Len(packets) /\ DOMAIN more = 1..Len(more)
    BY <1>1, <1>3
  <2> QED BY <2>1, <1>3 DEF Range
<1> QED BY <1>2, <1>3, <1>4, <1>5 DEF more, Whole

\* tx_pck(): what may be under way was sent before, and has been counted.
LEMMA TakesPacket ==
    ASSUME NEW s, PeerOK(s), ~s.txing, NEW r, NEW x \in Seq(Frames), NEW y \in Seq(Frames),
           NEW packets, NEW n \in Nat, Direction(s, r, x, y, packets, n),
           NEW size \in Sizes, NEW packet, packet = [id |-> Len(packets) + 1, size |-> size],
           NEW t, t = TakePacket(s, packet), PeerOK(t)
    PROVE  Direction(t, r, x, Append(y, NextFrame(t)), Append(packets, packet), n)
<1> DEFINE more == Append(packets, packet)
           frame == NextFrame(t)
           w == Append(y, frame)
           new == Len(y) + 1
<1>1. /\ t.txing /\ t.tx_packet = packet /\ t.tx_pos = 0 /\ t.tx_seq = ~s.tx_seq
      /\ t.retries = 0
  BY TakePacketFields
<1>2. /\ PacketsOK(more) /\ more # <<>> /\ Len(more) = Len(packets) + 1
      /\ more[Len(more)] = packet /\ Whole(packet)
      /\ \A k \in 1..Len(packets) : k \in 1..Len(more) /\ more[k] = packets[k]
      /\ Range(packets) \subseteq Range(more)
  BY AppendedPackets DEF Direction
<1>3. 1 \in 1..FrameCount(packet) /\ t.tx_pos = (1 - 1) * MAX_FRAG
  BY <1>1, <1>2, FirstFragment, Constants
<1>4. /\ frame = FrameOf(packet, 1, t.tx_seq) /\ frame \in Frames /\ frame.type # "pt_ack"
      /\ frame.seq = t.tx_seq
  <2>1. frame = FrameOf(packet, 1, t.tx_seq)
    BY <1>1, <1>2, <1>3, SentFrame DEF PeerOK
  <2>2. frame \in Frames /\ t.tx_seq \in BOOLEAN
    BY NextFrameType DEF PeerOK, PeerType
  <2> QED BY <2>1, <2>2, <1>2, <1>3, FrameOfType
<1>5. /\ new \in Data(w) /\ w[new] = frame /\ new \in Nat
      /\ \A j \in Data(y) : j \in Data(w) /\ w[j] = y[j] /\ j < new /\ j \in Nat
      /\ \A j \in Data(w) :
            j = new \/ (j \in Data(y) /\ w[j] = y[j] /\ j < new /\ j \in Nat)
  BY <1>4, DataAppended
<1>6. Some(x, y) => n >= 1
  BY DEF Direction, Wire
<1>7. /\ \A j \in Acks(x) : x[j].seq = s.tx_seq
      /\ \A j \in Data(y) : y[j].seq = s.tx_seq
  BY DEF Direction, Wire, Stale
<1>8. s.tx_seq \in BOOLEAN /\ t.tx_seq # s.tx_seq
  BY <1>1 DEF PeerOK, PeerType
<1> HIDE DEF more, frame, w, new
<1>9. Wire(x, w, t, n)
  <2>1. LatestLast(x, w, t.tx_seq)
    <3>1. \A j, k \in Acks(x) : j < k /\ x[j].seq = t.tx_seq => x[k].seq = t.tx_seq
      BY <1>7, <1>8
    <3>2. ASSUME NEW j \in Data(w), NEW k \in Data(w), j < k, w[j].seq = t.tx_seq
          PROVE  w[k].seq = t.tx_seq
      <4>1. j = new
        BY <3>2, <1>5, <1>7, <1>8
      <4> QED BY <4>1, <3>2, <1>5
    <3>3. \A j \in Acks(x), k \in Data(w) : x[j].seq = t.tx_seq => w[k].seq = t.tx_seq
      BY <1>7, <1>8
    <3> QED BY <3>1, <3>2, <3>3 DEF LatestLast
  <2>2. Two(x, w) => Some(x, y)
    <3>1. CASE \E j, k \in Acks(x) : j < k
      BY <3>1 DEF Some
    <3>2. CASE \E j, k \in Data(w) : j < k
      <4>1. PICK j \in Data(w), k \in Data(w) : j < k
        BY <3>2
      <4>2. j # new \/ k # new
        BY <4>1, <1>5
      <4> QED BY <4>2, <1>5 DEF Some
    <3>3. CASE Acks(x) # {} /\ Data(w) # {}
      BY <3>3 DEF Some
    <3> QED BY <3>1, <3>2, <3>3 DEF Two
  <2>3. Stale(x, w, t.tx_seq) => Some(x, y)
    <3>1. CASE \E j \in Acks(x) : x[j].seq # t.tx_seq
      BY <3>1 DEF Some
    <3>2. CASE \E j \in Data(w) : w[j].seq # t.tx_seq
      BY <3>2, <1>4, <1>5 DEF Some
    <3> QED BY <3>1, <3>2 DEF Stale
  <2> QED BY <2>1, <2>2, <2>3, <1>1, <1>6 DEF Wire
<1>10. TunOK(r, more)
  <2>1. TunOK(r, packets)
    BY DEF Direction
  <2> QED BY <2>1, <1>2 DEF TunOK
<1>11. At(t, 1)
  BY <1>3 DEF At
<1>12. InStep(t, r, x, w, 1, more)
  <2>1. \A k \in Data(w) : w[k].seq = t.tx_seq => w[k] = FrameOf(t.tx_packet, 1, t.tx_seq)
    BY <1>1, <1>4, <1>5, <1>7, <1>8
  <2>2. Lacks(r, packet, 1, t.tx_seq)
    <3>1. packet.id = Len(packets) + 1
      OBVIOUS
    <3>2. Below(r, Len(packets) + 1)
      BY TunFacts DEF Direction
    <3> QED BY <3>1, <3>2 DEF Lacks
  <2>3. \A k \in Acks(x) : x[k].seq # t.tx_seq
    BY <1>7, <1>8
  <2>4. CASE packets = <<>>
    <3>1. Data(y) = {}
      BY <2>4 DEF Direction, Some
    <3>2. AllLatest(t, w)
      BY <3>1, <1>4, <1>5 DEF AllLatest
    <3> QED BY <2>1, <2>2, <2>3, <3>2, <1>1 DEF InStep
  <2>5. CASE packets # <<>>
    <3>1. PICK i \in 1..FrameCount(s.tx_packet) : InStep(s, r, x, y, i, packets)
      BY <2>5 DEF Direction
    <3>2. /\ s.tx_packet \in Range(more) /\ s.tx_packet.id < t.tx_packet.id
      <4>1. s.tx_packet = packets[Len(packets)] /\ PacketsOK(packets)
        BY <2>5 DEF Direction
      <4>2. s.tx_packet \in Range(packets) /\ s.tx_packet.id = Len(packets)
            /\ Len(packets) \in Nat
        BY <4>1, <2>5, PacketFacts
      <4>3. packet.id = Len(packets) + 1
        OBVIOUS
      <4> QED BY <4>2, <4>3, <1>1, <1>2
    <3>3. s.tx_seq = ~t.tx_seq
      BY <1>1, <1>8
    <3>4. Got(r, s.tx_packet, i, ~t.tx_seq) \/ Lacks(r, s.tx_packet, i, ~t.tx_seq)
      BY <3>1, <3>3 DEF InStep
    <3>5. \A k \in Data(w) :
              w[k].seq # t.tx_seq => w[k] = FrameOf(s.tx_packet, i, ~t.tx_seq)
      BY <3>1, <3>3, <1>4, <1>5, <1>7 DEF InStep
    <3>6. Before(t, r, w, 1, more)
      BY <3>2, <3>4, <3>5 DEF Before
    <3> QED BY <2>1, <2>2, <2>3, <3>6, <1>1 DEF InStep
  <2> QED BY <2>4, <2>5
<1> QED BY <1>1, <1>2, <1>3, <1>9, <1>10, <1>11, <1>12 DEF Direction, more, w, frame

\* ack_timeout(): the next try, or the end of the packet.  A frame or an
\* acknowledgement of an earlier fragment cannot be under way any more at the end.
LEMMA TriesAgain ==
    ASSUME NEW s, PeerOK(s), s.txing, NEW r, NEW x \in Seq(Frames), NEW y \in Seq(Frames),
           NEW packets, NEW n \in Nat, Direction(s, r, x, y, packets, n),
           NEW m \in Nat, m = IF Some(x, y) THEN n + 1 ELSE n, m <= Late, Late <= MAX_TRIES,
           NEW t, t = Retransmit(s), PeerOK(t)
    PROVE  Direction(t, r, x, IF t.txing THEN Append(y, NextFrame(t)) ELSE y, packets, m)
<1> DEFINE frame == NextFrame(t)
           w == IF t.txing THEN Append(y, frame) ELSE y
           new == Len(y) + 1
<1>1. /\ t.tx_packet = s.tx_packet /\ t.tx_pos = s.tx_pos /\ t.tx_seq = s.tx_seq
      /\ t.txing <=> s.retries + 1 # MAX_TRIES
      /\ t.txing => t.retries = s.retries + 1
  BY RetransmitFields
<1>2. packets # <<>> /\ s.tx_packet = packets[Len(packets)] /\ PacketsOK(packets)
      /\ TunOK(r, packets)
  BY DEF Direction
<1>3. Whole(s.tx_packet)
  BY <1>2, PacketFacts
<1>4. PICK i \in 1..FrameCount(s.tx_packet) : At(s, i) /\ InStep(s, r, x, y, i, packets)
  BY <1>2 DEF Direction
<1>5. t.tx_pos = (i - 1) * MAX_FRAG
  BY <1>1, <1>4 DEF At
<1>6. /\ frame = FrameOf(s.tx_packet, i, s.tx_seq) /\ frame \in Frames /\ frame.type # "pt_ack"
      /\ frame.seq = s.tx_seq
  <2>1. frame = FrameOf(s.tx_packet, i, s.tx_seq)
    BY <1>1, <1>3, <1>5, SentFrame DEF PeerOK
  <2>2. frame \in Frames /\ s.tx_seq \in BOOLEAN
    BY NextFrameType DEF PeerOK, PeerType
  <2> QED BY <2>1, <2>2, <1>3, FrameOfType
<1>7. /\ \A j \in Data(y) : j \in Data(w) /\ w[j] = y[j] /\ j \in Nat
      /\ \A j \in Data(w) :
            \/ j = new /\ t.txing /\ w[new] = frame
            \/ j \in Data(y) /\ w[j] = y[j] /\ j < new /\ j \in Nat
      /\ new \in Nat
  <2>1. CASE t.txing
    <3>1. w = Append(y, frame)
      BY <2>1
    <3>2. /\ w[new] = frame /\ new \in Nat
          /\ \A j \in Data(y) : j \in Data(w) /\ w[j] = y[j] /\ j < new /\ j \in Nat
          /\ \A j \in Data(w) :
                j = new \/ (j \in Data(y) /\ w[j] = y[j] /\ j < new /\ j \in Nat)
      <4> DEFINE more == Append(y, frame)
      <4>1. /\ more[new] = frame /\ new \in Nat
            /\ \A j \in Data(y) : j \in Data(more) /\ more[j] = y[j] /\ j < new /\ j \in Nat
            /\ \A j \in Data(more) :
                  j = new \/ (j \in Data(y) /\ more[j] = y[j] /\ j < new /\ j \in Nat)
        BY <1>6, DataAppended
      <4>2. w = more
        BY <3>1
      <4> HIDE DEF more, w, frame, new
      <4> QED BY <4>1, <4>2
    <3> HIDE DEF w, frame, new
    <3> QED BY <2>1, <3>2
  <2>2. CASE ~t.txing
    <3>1. w = y
      BY <2>2
    <3>2. \A j \in Data(y) : j \in 1..Len(y) /\ j \in Nat
      BY FrameBits DEF Data
    <3>3. \A j \in Data(y) : j < new /\ new \in Nat
      BY <3>2
    <3>4. new \in Nat
      OBVIOUS
    <3> HIDE DEF w, frame, new
    <3> QED BY <3>1, <3>2, <3>3, <3>4
  <2> QED BY <2>1, <2>2
<1>8. /\ LatestLast(x, y, s.tx_seq)
      /\ Two(x, y) => n >= 1
      /\ Stale(x, y, s.tx_seq) => n > s.retries
  BY DEF Direction, Wire
<1>9. /\ s.retries \in Nat /\ MAX_TRIES \in Nat /\ Late \in Nat /\ s.retries < MAX_TRIES
  BY PeerNumbers, Constants, DirtpanAssumption DEF PeerOK
<1> HIDE DEF w, frame, new
<1>10. Wire(x, w, t, m)
  <2>1. LatestLast(x, w, t.tx_seq)
    <3>1. \A j, k \in Acks(x) : j < k /\ x[j].seq = t.tx_seq => x[k].seq = t.tx_seq
      BY <1>1, <1>8 DEF LatestLast
    <3>2. ASSUME NEW j \in Data(w), NEW k \in Data(w), j < k, w[j].seq = t.tx_seq
          PROVE  w[k].seq = t.tx_seq
      <4>1. CASE k = new /\ w[new] = frame
        BY <4>1, <1>1, <1>6
      <4>2. CASE k \in Data(y) /\ w[k] = y[k] /\ k < new /\ k \in Nat
        <5>1. j \in Data(y) /\ w[j] = y[j]
          BY <4>2, <3>2, <1>7
        <5> QED BY <4>2, <5>1, <3>2, <1>1, <1>8 DEF LatestLast
      <4> QED BY <4>1, <4>2, <1>7
    <3>3. ASSUME NEW j \in Acks(x), NEW k \in Data(w), x[j].seq = t.tx_seq
          PROVE  w[k].seq = t.tx_seq
      <4>1. CASE k = new /\ w[new] = frame
        BY <4>1, <1>1, <1>6
      <4>2. CASE k \in Data(y) /\ w[k] = y[k]
        BY <4>2, <3>3, <1>1, <1>8 DEF LatestLast
      <4> QED BY <4>1, <4>2, <1>7
    <3> QED BY <3>1, <3>2, <3>3 DEF LatestLast
  <2>2. Two(x, w) => Some(x, y)
    <3>1. CASE \E j, k \in Acks(x) : j < k
      BY <3>1 DEF Some
    <3>2. CASE \E j, k \in Data(w) : j < k
      <4>1. PICK j \in Data(w), k \in Data(w) : j < k
        BY <3>2
      <4>2. j # new \/ k # new
        BY <4>1, <1>7
      <4> QED BY <4>2, <1>7 DEF Some
    <3>3. CASE Acks(x) # {} /\ Data(w) # {}
      BY <3>3 DEF Some
    <3> QED BY <3>1, <3>2, <3>3 DEF Two
  <2>3. Some(x, w) /\ ~t.txing => Some(x, y)
    BY <1>7 DEF Some
  <2>4. Some(x, y) => m >= 1
    OBVIOUS
  <2>5. Stale(x, w, t.tx_seq) => Stale(x, y, s.tx_seq)
    <3>1. CASE \E j \in Acks(x) : x[j].seq # t.tx_seq
      BY <3>1, <1>1 DEF Stale
    <3>2. CASE \E j \in Data(w) : w[j].seq # t.tx_seq
      BY <3>2, <1>1, <1>6, <1>7 DEF Stale
    <3> QED BY <3>1, <3>2 DEF Stale
  <2>6. ASSUME Stale(x, y, s.tx_seq) PROVE t.txing /\ m > t.retries
    <3>1. Some(x, y)
      BY <2>6 DEF Stale, Some
    <3>2. m = n + 1 /\ n > s.retries
      BY <2>6, <3>1, <1>8
    <3>3. s.retries + 1 # MAX_TRIES
      BY <3>2, <1>9
    <3> QED BY <3>2, <3>3, <1>1, <1>9
  <2> QED BY <2>1, <2>2, <2>3, <2>4, <2>5, <2>6 DEF Wire
<1>11. At(t, i)
  BY <1>5 DEF At
<1>12. InStep(t, r, x, w, i, packets)
  <2>1. \A k \in Data(w) : w[k].seq = t.tx_seq => w[k] = FrameOf(t.tx_packet, i, t.tx_seq)
    BY <1>1, <1>4, <1>6, <1>7 DEF InStep
  <2>2. AllLatest(s, y) => AllLatest(t, w)
    BY <1>1, <1>6, <1>7 DEF AllLatest
  <2>3. Before(s, r, y, i, packets) => Before(t, r, w, i, packets)
    <3> SUFFICES ASSUME Before(s, r, y, i, packets) PROVE Before(t, r, w, i, packets)
      OBVIOUS
    <3>1. PICK prev \in Range(packets) : \E j \in 1..FrameCount(prev) :
              /\ \/ i > 1 /\ prev = s.tx_packet /\ j = i - 1
                 \/ /\ i = 1 /\ prev.id < s.tx_packet.id
                    /\ Got(r, prev, j, ~s.tx_seq) \/ Lacks(r, prev, j, ~s.tx_seq)
              /\ \A k \in Data(y) :
                    y[k].seq # s.tx_seq => y[k] = FrameOf(prev, j, ~s.tx_seq)
      BY DEF Before
    <3>2. PICK j \in 1..FrameCount(prev) :
              /\ \/ i > 1 /\ prev = s.tx_packet /\ j = i - 1
                 \/ /\ i = 1 /\ prev.id < s.tx_packet.id
                    /\ Got(r, prev, j, ~s.tx_seq) \/ Lacks(r, prev, j, ~s.tx_seq)
              /\ \A k \in Data(y) :
                    y[k].seq # s.tx_seq => y[k] = FrameOf(prev, j, ~s.tx_seq)
      BY <3>1
    <3>3. \A k \in Data(w) :
              w[k].seq # s.tx_seq => w[k] = FrameOf(prev, j, ~s.tx_seq)
      BY <3>2, <1>6, <1>7
    <3> QED BY <3>2, <3>3, <1>1 DEF Before
  <2> QED BY <2>1, <2>2, <2>3, <1>1, <1>4 DEF InStep
<1>13. Direction(t, r, x, w, packets, m)
  BY <1>1, <1>2, <1>10, <1>11, <1>12 DEF Direction
<1> QED BY <1>13 DEF w, frame
\* rx_pck(), pt_ack: the fragment has been received, and all that is under way is of it.
LEMMA IsAcknowledged ==
    ASSUME NEW s, PeerOK(s), s.txing, NEW r, NEW x \in Seq(Frames), NEW y \in Seq(Frames),
           NEW packets, NEW n \in Nat, Direction(s, r, x, y, packets, n),
           x # <<>>, Head(x).type = "pt_ack", Head(x).seq = s.tx_seq,
           NEW t, t = AckReceived(s), PeerOK(t)
    PROVE  /\ Direction(t, r, Tail(x), y \o (IF t.txing THEN <<NextFrame(t)>> ELSE <<>>),
                        packets, n)
           /\ packets # <<>> /\ t.tx_packet = packets[Len(packets)]
           /\ ~t.txing => Got(r, t.tx_packet, FrameCount(t.tx_packet), s.tx_seq)
<1> DEFINE frame == NextFrame(t)
           v == Tail(x)
           w == y \o (IF t.txing THEN <<frame>> ELSE <<>>)
           new == Len(y) + 1
           count == FrameCount(s.tx_packet)
<1>1. packets # <<>> /\ s.tx_packet = packets[Len(packets)] /\ PacketsOK(packets)
      /\ TunOK(r, packets)
  BY DEF Direction
<1>2. Whole(s.tx_packet) /\ s.tx_packet \in Range(packets)
  BY <1>1, PacketFacts
<1>3. PICK i \in 1..FrameCount(s.tx_packet) : At(s, i) /\ InStep(s, r, x, y, i, packets)
  BY <1>1 DEF Direction
<1>4. s.tx_pos = (i - 1) * MAX_FRAG
  BY <1>3 DEF At
<1>5. /\ t.tx_packet = s.tx_packet
      /\ i < count =>
            t.txing /\ t.tx_pos = i * MAX_FRAG /\ t.tx_seq = ~s.tx_seq /\ t.retries = 0
      /\ i = count => ~t.txing /\ t.tx_pos = s.tx_packet.size /\ t.tx_seq = s.tx_seq
  BY <1>2, <1>4, AckReceivedFields
<1>6. /\ 1 \in Acks(x) /\ x[1].seq = s.tx_seq
      /\ \A j \in Acks(v) : j + 1 \in Acks(x) /\ v[j] = x[j + 1] /\ 1 < j + 1 /\ j \in Nat
  BY TailOf DEF Acks
<1>7. /\ \A j \in Acks(v) : v[j].seq = s.tx_seq
      /\ \A j \in Data(y) : y[j].seq = s.tx_seq
      /\ Two(x, y) => n >= 1
  BY <1>6 DEF Direction, Wire, LatestLast
<1>8. Got(r, s.tx_packet, i, s.tx_seq)
  BY <1>3, <1>6 DEF InStep
<1>9. \A k \in Data(y) : y[k] = FrameOf(s.tx_packet, i, s.tx_seq)
  BY <1>3, <1>7 DEF InStep
<1>10. Some(v, y) => Two(x, y)
  BY <1>6 DEF Some, Two
<1>11. i \in Nat /\ count \in Nat /\ i <= count /\ i >= 1
  BY <1>2, CountFacts
<1>12. s.tx_seq \in BOOLEAN
  BY DEF PeerOK, PeerType
<1>13. CASE i = count
  <2>1. /\ ~t.txing /\ t.tx_pos = s.tx_packet.size /\ t.tx_seq = s.tx_seq
        /\ t.tx_packet = s.tx_packet
    BY <1>5, <1>13
  <2>2. w = y
    BY <2>1
  <2> HIDE DEF v, w
  <2>3. Wire(v, y, t, n)
    <3>1. LatestLast(v, y, t.tx_seq)
      BY <1>7, <2>1 DEF LatestLast
    <3>2. ~Stale(v, y, t.tx_seq)
      BY <1>7, <2>1 DEF Stale
    <3>3. Two(v, y) => Some(v, y)
      BY DEF Two, Some
    <3> QED BY <3>1, <3>2, <3>3, <1>7, <1>10 DEF Wire
  <2>4. At(t, i)
    BY <2>1, <1>13 DEF At
  <2>5. InStep(t, r, v, y, i, packets)
    BY <1>7, <1>8, <1>9, <2>1 DEF InStep, AllLatest
  <2>6. Direction(t, r, v, w, packets, n)
    BY <1>1, <2>1, <2>2, <2>3, <2>4, <2>5 DEF Direction
  <2> QED BY <2>1, <2>6, <1>1, <1>8, <1>13 DEF v, w, frame
<1>14. CASE i < count
  <2>1. /\ t.txing /\ t.tx_pos = i * MAX_FRAG /\ t.tx_seq = ~s.tx_seq /\ t.retries = 0
        /\ t.tx_packet = s.tx_packet
    BY <1>5, <1>14
  <2>2. i + 1 \in 1..FrameCount(t.tx_packet) /\ t.tx_pos = ((i + 1) - 1) * MAX_FRAG
        /\ i + 1 > 1 /\ (i + 1) - 1 = i
    BY <2>1, <1>11, <1>14
  <2>3. /\ frame = FrameOf(s.tx_packet, i + 1, t.tx_seq) /\ frame \in Frames
        /\ frame.type # "pt_ack" /\ frame.seq = t.tx_seq
    <3>1. frame = FrameOf(t.tx_packet, i + 1, t.tx_seq)
      <4>1. Whole(t.tx_packet) /\ t \in PeerType
        BY <2>1, <1>2 DEF PeerOK
      <4>2. i + 1 \in 1..FrameCount(t.tx_packet) /\ t.tx_pos = ((i + 1) - 1) * MAX_FRAG
        BY <2>2
      <4> QED BY <4>1, <4>2, SentFrame
    <3>2. frame \in Frames /\ t.tx_seq \in BOOLEAN
      BY NextFrameType DEF PeerOK, PeerType
    <3>3. frame = FrameOf(s.tx_packet, i + 1, t.tx_seq) /\ i + 1 \in 1..FrameCount(s.tx_packet)
      BY <3>1, <2>1, <2>2
    <3>4. FrameOf(s.tx_packet, i + 1, t.tx_seq).type # "pt_ack"
          /\ FrameOf(s.tx_packet, i + 1, t.tx_seq).seq = t.tx_seq
      BY <3>2, <3>3, <1>2, FrameOfType
    <3> QED BY <3>2, <3>3, <3>4
  <2>4. w = Append(y, frame)
    <3> HIDE DEF frame
    <3>1. y \o <<frame>> = Append(y, frame)
      OBVIOUS
    <3> QED BY <3>1, <2>1
  <2>5. /\ new \in Data(w) /\ w[new] = frame /\ new \in Nat
        /\ \A j \in Data(y) : j \in Data(w) /\ w[j] = y[j] /\ j < new /\ j \in Nat
        /\ \A j \in Data(w) :
              j = new \/ (j \in Data(y) /\ w[j] = y[j] /\ j < new /\ j \in Nat)
    <3> DEFINE more == Append(y, frame)
    <3>1. /\ new \in Data(more) /\ more[new] = frame /\ new \in Nat
          /\ \A j \in Data(y) : j \in Data(more) /\ more[j] = y[j] /\ j < new /\ j \in Nat
          /\ \A j \in Data(more) :
                j = new \/ (j \in Data(y) /\ more[j] = y[j] /\ j < new /\ j \in Nat)
      BY <2>3, DataAppended
    <3>2. w = more
      BY <2>4
    <3> HIDE DEF more, w, new, frame
    <3> QED BY <3>1, <3>2
  <2>6. t.tx_seq # s.tx_seq /\ s.tx_seq = ~t.tx_seq
    BY <2>1, <1>12
  <2> HIDE DEF v, w, new, frame
  <2>7. Wire(v, w, t, n)
    <3>1. LatestLast(v, w, t.tx_seq)
      <4>1. \A j \in Acks(v) : v[j].seq # t.tx_seq
        BY <1>7, <2>6
      <4>2. ASSUME NEW j \in Data(w), NEW k \in Data(w), j < k, w[j].seq = t.tx_seq
            PROVE  w[k].seq = t.tx_seq
        <5>1. j = new
          BY <4>2, <2>5, <1>7, <2>6
        <5> QED BY <5>1, <4>2, <2>5
      <4> QED BY <4>1, <4>2 DEF LatestLast
    <3>2. Two(v, w) => Some(v, y)
      <4>1. CASE \E j, k \in Acks(v) : j < k
        BY <4>1 DEF Some
      <4>2. CASE \E j, k \in Data(w) : j < k
        <5>1. PICK j \in Data(w), k \in Data(w) : j < k
          BY <4>2
        <5>2. j # new \/ k # new
          BY <5>1, <2>5
        <5> QED BY <5>2, <2>5 DEF Some
      <4>3. CASE Acks(v) # {} /\ Data(w) # {}
        BY <4>3 DEF Some
      <4> QED BY <4>1, <4>2, <4>3 DEF Two
    <3>3. Stale(v, w, t.tx_seq) => Some(v, y)
      <4>1. CASE \E j \in Acks(v) : v[j].seq # t.tx_seq
        BY <4>1 DEF Some
      <4>2. CASE \E j \in Data(w) : w[j].seq # t.tx_seq
        BY <4>2, <2>3, <2>5 DEF Some
      <4> QED BY <4>1, <4>2 DEF Stale
    <3> QED BY <3>1, <3>2, <3>3, <2>1, <1>7, <1>10 DEF Wire
  <2>8. At(t, i + 1)
    BY <2>2 DEF At
  <2>9. InStep(t, r, v, w, i + 1, packets)
    <3>1. \A k \in Data(w) :
              w[k].seq = t.tx_seq => w[k] = FrameOf(t.tx_packet, i + 1, t.tx_seq)
      BY <2>1, <2>3, <2>5, <2>6, <1>7
    <3>2. Lacks(r, t.tx_packet, i + 1, t.tx_seq)
      <4>1. i + 1 # 1
        BY <1>11
      <4>2. Got(r, t.tx_packet, (i + 1) - 1, ~t.tx_seq)
        BY <1>8, <2>1, <2>2, <2>6
      <4> QED BY <4>1, <4>2 DEF Lacks
    <3>3. \A k \in Acks(v) : v[k].seq # t.tx_seq
      BY <1>7, <2>6
    <3>4. \A k \in Data(w) :
              w[k].seq # t.tx_seq => w[k] = FrameOf(s.tx_packet, i, ~t.tx_seq)
      BY <2>3, <2>5, <2>6, <1>9
    <3>5. Before(t, r, w, i + 1, packets)
      BY <3>4, <1>2, <2>1, <2>2 DEF Before
    <3> QED BY <3>1, <3>2, <3>3, <3>5 DEF InStep
  <2>10. Direction(t, r, v, w, packets, n)
    BY <1>1, <2>1, <2>2, <2>7, <2>8, <2>9 DEF Direction
  <2> QED BY <2>1, <2>10, <1>1 DEF v, w, frame
<1> QED BY <1>11, <1>13, <1>14

\* A frame of data is the one that the sender sends, or the one before it.
LEMMA FrameIsKnown ==
    ASSUME NEW s, PeerOK(s), NEW r, NEW x \in Seq(Frames), NEW y \in Seq(Frames),
           NEW packets, NEW n \in Nat, Direction(s, r, x, y, packets, n),
           y # <<>>, Head(y).type # "pt_ack"
    PROVE  \E packet \in Range(packets) : \E j \in 1..FrameCount(packet) :
               /\ Head(y) = FrameOf(packet, j, Head(y).seq)
               /\ Got(r, packet, j, Head(y).seq) \/ Lacks(r, packet, j, Head(y).seq)
<1>1. 1 \in Data(y) /\ Head(y) = y[1] /\ Head(y) \in Frames /\ Head(y).seq \in BOOLEAN
  <2>1. Head(y) \in Frames
    OBVIOUS
  <2>2. Head(y).type \in {"pt_first", "pt_next"} /\ Head(y).seq \in BOOLEAN
    BY <2>1 DEF Frames
  <2> QED BY <2>1, <2>2, TailOf DEF Data
<1>2. packets # <<>> /\ s.tx_packet = packets[Len(packets)] /\ PacketsOK(packets)
  BY <1>1 DEF Direction, Some
<1>3. s.tx_packet \in Range(packets)
  BY <1>2, PacketFacts
<1>4. PICK i \in 1..FrameCount(s.tx_packet) : InStep(s, r, x, y, i, packets)
  BY <1>2 DEF Direction
<1>5. s.tx_seq \in BOOLEAN
  BY DEF PeerOK, PeerType
<1>6. CASE Head(y).seq = s.tx_seq
  <2>1. Head(y) = FrameOf(s.tx_packet, i, Head(y).seq)
    BY <1>1, <1>4, <1>6 DEF InStep
  <2>2. Got(r, s.tx_packet, i, Head(y).seq) \/ Lacks(r, s.tx_packet, i, Head(y).seq)
    BY <1>4, <1>6 DEF InStep
  <2> QED BY <2>1, <2>2, <1>3
<1>7. CASE Head(y).seq # s.tx_seq
  <2>1. ~AllLatest(s, y)
    BY <1>1, <1>7 DEF AllLatest
  <2>2. Lacks(r, s.tx_packet, i, s.tx_seq) /\ Before(s, r, y, i, packets)
    BY <2>1, <1>4 DEF InStep
  <2>3. PICK prev \in Range(packets) : \E j \in 1..FrameCount(prev) :
            /\ \/ i > 1 /\ prev = s.tx_packet /\ j = i - 1
               \/ /\ i = 1 /\ prev.id < s.tx_packet.id
                  /\ Got(r, prev, j, ~s.tx_seq) \/ Lacks(r, prev, j, ~s.tx_seq)
            /\ \A k \in Data(y) :
                  y[k].seq # s.tx_seq => y[k] = FrameOf(prev, j, ~s.tx_seq)
    BY <2>2 DEF Before
  <2>4. PICK j \in 1..FrameCount(prev) :
            /\ \/ i > 1 /\ prev = s.tx_packet /\ j = i - 1
               \/ /\ i = 1 /\ prev.id < s.tx_packet.id
                  /\ Got(r, prev, j, ~s.tx_seq) \/ Lacks(r, prev, j, ~s.tx_seq)
            /\ \A k \in Data(y) :
                  y[k].seq # s.tx_seq => y[k] = FrameOf(prev, j, ~s.tx_seq)
    BY <2>3
  <2>5. Head(y).seq = ~s.tx_seq
    BY <1>1, <1>5, <1>7
  <2>6. Head(y) = FrameOf(prev, j, Head(y).seq)
    BY <2>4, <2>5, <1>1, <1>7
  <2>7. CASE i > 1 /\ prev = s.tx_packet /\ j = i - 1
    <3>1. i # 1
      BY <2>7
    <3>2. Got(r, prev, j, ~s.tx_seq)
      BY <2>2, <2>7, <3>1 DEF Lacks
    <3> QED BY <2>5, <2>6, <3>2
  <2>8. CASE Got(r, prev, j, ~s.tx_seq) \/ Lacks(r, prev, j, ~s.tx_seq)
    BY <2>5, <2>6, <2>8
  <2> QED BY <2>4, <2>7, <2>8
<1> QED BY <1>6, <1>7
\* What its receiver writes is among the packets sent, and stays so.
LEMMA WritesSent ==
    ASSUME NEW r, NEW t, NEW packets, PacketsOK(packets), TunOK(r, packets),
           r.tun \in Seq(Seq(Fragments)), NEW packet \in Range(packets), Writes(r, t, packet)
    PROVE  TunOK(t, packets)
<1>1. Whole(packet) /\ packet.id \in 1..Len(packets) /\ packets[packet.id] = packet
  BY PacketFacts
<1>2. CASE t.tun = r.tun
  BY <1>2 DEF TunOK
<1>3. CASE t.tun = Append(r.tun, Cut(packet))
  <2> SUFFICES ASSUME NEW k \in 1..Len(t.tun)
               PROVE  \E n \in 1..Len(packets) : t.tun[k] = Cut(packets[n])
    BY DEF TunOK
  <2>1. Cut(packet) \in Seq(Fragments)
    BY <1>1, CutFacts
  <2>2. \/ k \in 1..Len(r.tun) /\ t.tun[k] = r.tun[k]
        \/ t.tun[k] = Cut(packet)
    BY <1>3, <2>1
  <2> QED BY <2>2, <1>1 DEF TunOK
<1> QED BY <1>2, <1>3 DEF Writes

\* The acknowledgement takes the place of the frame it is for.
LEMMA AnswerOnWire ==
    ASSUME NEW s, PeerOK(s), NEW x \in Seq(Frames), NEW y \in Seq(Frames), NEW n \in Nat,
           Wire(x, y, s, n), y # <<>>, Head(y).type # "pt_ack"
    PROVE  LET v == Append(x, Ack(Head(y).seq))
           IN  /\ Wire(v, Tail(y), s, n)
               /\ \A k \in Acks(v) : v[k].seq = Head(y).seq
                                        \/ \E j \in Acks(x) : v[k] = x[j]
               /\ \A k \in Data(Tail(y)) : \E j \in Data(y) : Tail(y)[k] = y[j]
               /\ Head(y).seq = s.tx_seq => AllLatest(s, y)
<1> DEFINE h == Head(y)  v == Append(x, Ack(h.seq))  w == Tail(y)  new == Len(x) + 1
           b == s.tx_seq
<1>1. 1 \in Data(y) /\ h = y[1] /\ h \in Frames /\ h.seq \in BOOLEAN
  <2>1. h \in Frames
    OBVIOUS
  <2>2. h.type \in {"pt_first", "pt_next"} /\ h.seq \in BOOLEAN
    BY <2>1 DEF Frames
  <2> QED BY <2>1, <2>2, TailOf DEF Data
<1>2. \A j \in Data(w) : j + 1 \in Data(y) /\ w[j] = y[j + 1] /\ 1 < j + 1 /\ j \in Nat
  BY TailOf DEF Data
<1>3. /\ new \in Acks(v) /\ v[new].seq = h.seq /\ new \in Nat
      /\ \A j \in Acks(v) :
            j = new \/ (j \in Acks(x) /\ v[j] = x[j] /\ j < new /\ j \in Nat)
  BY <1>1, AckAppended
<1>4. LatestLast(x, y, b)
  BY DEF Wire
<1> HIDE DEF h, v, w, new, b
<1>5. LatestLast(v, w, b)
  <2>1. ASSUME NEW j \in Acks(v), NEW k \in Acks(v), j < k, v[j].seq = b
        PROVE  v[k].seq = b
    <3>1. j \in Acks(x) /\ v[j] = x[j] /\ j < new
      <4>1. j = new \/ (j \in Acks(x) /\ v[j] = x[j] /\ j < new /\ j \in Nat)
        BY <1>3
      <4>2. k = new \/ (k < new /\ k \in Nat)
        BY <1>3
      <4> QED BY <4>1, <4>2, <2>1, <1>3
    <3>2. CASE k = new
      BY <3>1, <3>2, <2>1, <1>1, <1>3, <1>4 DEF LatestLast
    <3>3. CASE k \in Acks(x) /\ v[k] = x[k]
      BY <3>1, <3>3, <2>1, <1>4 DEF LatestLast
    <3> QED BY <3>2, <3>3, <1>3
  <2>2. ASSUME NEW j \in Data(w), NEW k \in Data(w), j < k, w[j].seq = b
        PROVE  w[k].seq = b
    <3>1. j + 1 \in Data(y) /\ k + 1 \in Data(y) /\ j + 1 < k + 1
      BY <2>2, <1>2
    <3> QED BY <3>1, <2>2, <1>2, <1>4 DEF LatestLast
  <2>3. ASSUME NEW j \in Acks(v), NEW k \in Data(w), v[j].seq = b
        PROVE  w[k].seq = b
    <3>1. CASE j = new
      <4>1. 1 < k + 1 /\ y[1].seq = b /\ k + 1 \in Data(y) /\ w[k] = y[k + 1]
        BY <3>1, <2>3, <1>1, <1>2, <1>3
      <4> QED BY <4>1, <1>1, <1>4 DEF LatestLast
    <3>2. CASE j \in Acks(x) /\ v[j] = x[j]
      BY <3>2, <2>3, <1>2, <1>4 DEF LatestLast
    <3> QED BY <3>1, <3>2, <1>3
  <2> QED BY <2>1, <2>2, <2>3 DEF LatestLast
<1>6. Some(x, y)
  BY <1>1 DEF Some
<1>7. Two(v, w) => Two(x, y)
  <2>1. CASE \E j, k \in Acks(v) : j < k
    <3>1. PICK j \in Acks(v), k \in Acks(v) : j < k
      BY <2>1
    <3>2. j \in Acks(x)
      <4>1. j = new \/ j \in Acks(x)
        BY <1>3
      <4>2. k = new \/ (k < new /\ k \in Nat)
        BY <1>3
      <4> QED BY <4>1, <4>2, <3>1, <1>3
    <3> QED BY <3>2, <1>1 DEF Two
  <2>2. CASE \E j, k \in Data(w) : j < k
    <3>1. PICK j \in Data(w), k \in Data(w) : j < k
      BY <2>2
    <3>2. 1 < j + 1 /\ j + 1 \in Data(y)
      BY <3>1, <1>2
    <3> QED BY <3>2, <1>1 DEF Two
  <2>3. CASE Acks(v) # {} /\ Data(w) # {}
    <3>1. PICK j \in Data(w) : TRUE
      BY <2>3
    <3>2. 1 < j + 1 /\ j + 1 \in Data(y)
      BY <3>1, <1>2
    <3> QED BY <3>2, <1>1 DEF Two
  <2> QED BY <2>1, <2>2, <2>3 DEF Two
<1>8. Stale(v, w, b) => Stale(x, y, b)
  <2>1. CASE \E j \in Acks(v) : v[j].seq # b
    BY <2>1, <1>1, <1>3 DEF Stale
  <2>2. CASE \E j \in Data(w) : w[j].seq # b
    BY <2>2, <1>2 DEF Stale
  <2> QED BY <2>1, <2>2 DEF Stale
<1>9. Wire(v, w, s, n)
  BY <1>5, <1>6, <1>7, <1>8 DEF Wire, b
<1>10. \A k \in Acks(v) : v[k].seq = h.seq \/ \E j \in Acks(x) : v[k] = x[j]
  BY <1>3
<1>11. \A k \in Data(w) : \E j \in Data(y) : w[k] = y[j]
  BY <1>2
<1>12. h.seq = b => \A k \in Data(y) : y[k].seq = b
  <2> SUFFICES ASSUME h.seq = b, NEW k \in Data(y) PROVE y[k].seq = b
    OBVIOUS
  <2>1. k = 1 \/ 1 < k
    BY FrameBits DEF Data
  <2> QED BY <2>1, <1>1, <1>4 DEF LatestLast
<1> QED BY <1>9, <1>10, <1>11, <1>12 DEF v, w, h, b, AllLatest

\* rx_pck() of a frame of data.
LEMMA IsReceived ==
    ASSUME NEW s, PeerOK(s), NEW r, PeerOK(r), NEW x \in Seq(Frames), NEW y \in Seq(Frames),
           NEW packets, NEW n \in Nat, Direction(s, r, x, y, packets, n),
           y # <<>>, Head(y).type # "pt_ack", NEW t, t = ReceivedBy(r, Head(y))
    PROVE  /\ Direction(s, t, Append(x, Ack(Head(y).seq)), Tail(y), packets, n)
           /\ \E packet \in Range(packets) : Writes(r, t, packet)
           /\ t.dropped = r.dropped /\ SameSender(r, t)
<1> DEFINE h == Head(y)  v == Append(x, Ack(h.seq))  w == Tail(y)
<1>1. /\ Wire(v, w, s, n)
      /\ \A k \in Acks(v) : v[k].seq = h.seq \/ \E j \in Acks(x) : v[k] = x[j]
      /\ \A k \in Data(w) : \E j \in Data(y) : w[k] = y[j]
      /\ h.seq = s.tx_seq => AllLatest(s, y)
  BY AnswerOnWire DEF Direction
<1>2. 1 \in Data(y) /\ h = y[1] /\ h \in Frames /\ h.seq \in BOOLEAN
  <2>1. h \in Frames
    OBVIOUS
  <2>2. h.type \in {"pt_first", "pt_next"} /\ h.seq \in BOOLEAN
    BY <2>1 DEF Frames
  <2> QED BY <2>1, <2>2, TailOf DEF Data
<1>3. /\ packets # <<>> /\ s.tx_packet = packets[Len(packets)] /\ PacketsOK(packets)
      /\ TunOK(r, packets)
  BY <1>2 DEF Direction, Some
<1>4. s.tx_packet \in Range(packets) /\ Whole(s.tx_packet)
  BY <1>3, PacketFacts
<1>5. PICK i \in 1..FrameCount(s.tx_packet) : At(s, i) /\ InStep(s, r, x, y, i, packets)
  BY <1>3 DEF Direction
<1>6. s.tx_seq \in BOOLEAN /\ r.tun \in Seq(Seq(Fragments)) /\ NotEmpty(r)
  BY <1>3, TunFacts DEF PeerOK, PeerType
<1> HIDE DEF h, v, w
<1>7. ASSUME NEW packet \in Range(packets), Writes(r, t, packet),
             InStep(s, t, v, w, i, packets)
      PROVE  Direction(s, t, v, w, packets, n)
  <2>1. TunOK(t, packets)
    BY <1>3, <1>6, <1>7, WritesSent
  <2> QED BY <2>1, <1>1, <1>3, <1>5, <1>7 DEF Direction
<1>8. \A k \in Data(w) : w[k].seq = s.tx_seq => w[k] = FrameOf(s.tx_packet, i, s.tx_seq)
  BY <1>1, <1>5 DEF InStep
<1>9. AllLatest(s, y) => AllLatest(s, w)
  BY <1>1 DEF AllLatest
<1>10. CASE h.seq = s.tx_seq
  <2>1. h = FrameOf(s.tx_packet, i, s.tx_seq)
    BY <1>2, <1>5, <1>10 DEF InStep
  <2>2. Got(r, s.tx_packet, i, s.tx_seq) \/ Lacks(r, s.tx_packet, i, s.tx_seq)
    BY <1>5 DEF InStep
  <2>3. /\ Got(t, s.tx_packet, i, s.tx_seq) /\ Writes(r, t, s.tx_packet)
        /\ t.dropped = r.dropped /\ SameSender(r, t)
    <3>1. t = ReceivedBy(r, FrameOf(s.tx_packet, i, s.tx_seq))
      BY <2>1 DEF h
    <3> QED BY <3>1, <2>2, <1>4, <1>6, FrameReceived
  <2>4. InStep(s, t, v, w, i, packets)
    BY <2>3, <1>1, <1>8, <1>9, <1>10 DEF InStep
  <2> QED BY <2>3, <2>4, <1>4, <1>7 DEF v, w, h
<1>11. CASE h.seq # s.tx_seq
  <2>1. ~AllLatest(s, y)
    BY <1>2, <1>11 DEF AllLatest
  <2>2. /\ Lacks(r, s.tx_packet, i, s.tx_seq) /\ Before(s, r, y, i, packets)
        /\ \A k \in Acks(x) : x[k].seq # s.tx_seq
    BY <2>1, <1>5 DEF InStep
  <2>3. PICK prev \in Range(packets) : \E j \in 1..FrameCount(prev) :
            /\ \/ i > 1 /\ prev = s.tx_packet /\ j = i - 1
               \/ /\ i = 1 /\ prev.id < s.tx_packet.id
                  /\ Got(r, prev, j, ~s.tx_seq) \/ Lacks(r, prev, j, ~s.tx_seq)
            /\ \A k \in Data(y) :
                  y[k].seq # s.tx_seq => y[k] = FrameOf(prev, j, ~s.tx_seq)
    BY <2>2 DEF Before
  <2>4. PICK j \in 1..FrameCount(prev) :
            /\ \/ i > 1 /\ prev = s.tx_packet /\ j = i - 1
               \/ /\ i = 1 /\ prev.id < s.tx_packet.id
                  /\ Got(r, prev, j, ~s.tx_seq) \/ Lacks(r, prev, j, ~s.tx_seq)
            /\ \A k \in Data(y) :
                  y[k].seq # s.tx_seq => y[k] = FrameOf(prev, j, ~s.tx_seq)
    BY <2>3
  <2>5. h = FrameOf(prev, j, ~s.tx_seq) /\ Whole(prev)
    BY <2>4, <1>2, <1>3, <1>11, PacketFacts
  <2>6. Got(r, prev, j, ~s.tx_seq) \/ Lacks(r, prev, j, ~s.tx_seq)
    <3>1. CASE i > 1 /\ prev = s.tx_packet /\ j = i - 1
      <4>1. i # 1
        BY <3>1
      <4> QED BY <4>1, <3>1, <2>2 DEF Lacks
    <3> QED BY <3>1, <2>4
  <2>7. /\ Got(t, prev, j, ~s.tx_seq) /\ Writes(r, t, prev)
        /\ t.dropped = r.dropped /\ SameSender(r, t)
    <3>1. PICK c \in BOOLEAN : c = ~s.tx_seq
      BY <1>6
    <3>2. t = ReceivedBy(r, FrameOf(prev, j, c))
      BY <2>5, <3>1 DEF h
    <3>3. Got(r, prev, j, c) \/ Lacks(r, prev, j, c)
      BY <2>6, <3>1
    <3>4. /\ Got(t, prev, j, c) /\ Writes(r, t, prev)
          /\ t.dropped = r.dropped /\ SameSender(r, t)
      BY <3>2, <3>3, <2>5, <1>6, FrameReceived
    <3> QED BY <3>1, <3>4
  <2>8. \A k \in Acks(v) : v[k].seq # s.tx_seq
    BY <1>1, <1>11, <2>2
  <2>9. \A k \in Data(w) : w[k].seq # s.tx_seq => w[k] = FrameOf(prev, j, ~s.tx_seq)
    BY <1>1, <2>4
  <2>10. Lacks(t, s.tx_packet, i, s.tx_seq)
    <3>1. CASE i > 1 /\ prev = s.tx_packet /\ j = i - 1
      <4>1. i # 1
        BY <3>1
      <4> QED BY <4>1, <3>1, <2>7 DEF Lacks
    <3>2. CASE i = 1 /\ prev.id < s.tx_packet.id
      <4>1. Below(r, s.tx_packet.id)
        BY <3>2, <2>2 DEF Lacks
      <4>2. CASE t.tun = r.tun
        BY <4>1, <4>2, <3>2, BelowSame DEF Lacks
      <4>3. CASE /\ t.tun = Append(r.tun, Cut(prev))
                 /\ Below(r, prev.id) \/ Below(r, prev.id + 1)
        <5>1. prev.id \in Nat /\ s.tx_packet.id \in Nat /\ prev.id + 1 <= s.tx_packet.id
          BY <3>2, <2>5, <1>4, CountFacts
        <5>2. Below(r, prev.id + 1)
          BY <4>3, <5>1, <1>6, BelowMore DEF NotEmpty
        <5>3. Below(t, prev.id + 1)
          BY <4>3, <5>2, <2>5, <1>6, BelowWritten
        <5>4. t.tun \in Seq(Seq(Fragments)) /\ \A k \in 1..Len(t.tun) : t.tun[k] # <<>>
          <6>1. TunOK(t, packets)
            BY <2>7, <1>3, <1>6, WritesSent
          <6>2. NotEmpty(t)
            BY <6>1, <1>3, TunFacts
          <6>3. t.tun \in Seq(Seq(Fragments))
            <7>1. Cut(prev) \in Seq(Fragments)
              BY <2>5, CutFacts
            <7>2. r.tun \in Seq(Seq(Fragments))
              BY <1>6
            <7>3. Append(r.tun, Cut(prev)) \in Seq(Seq(Fragments))
              BY ONLY <7>1, <7>2
            <7> QED BY <7>3, <4>3
          <6> QED BY <6>2, <6>3 DEF NotEmpty
        <5>5. Below(t, s.tx_packet.id)
          <6>1. prev.id + 1 \in Nat
            BY <5>1
          <6> QED BY <6>1, <5>1, <5>3, <5>4, BelowMore
        <5> QED BY <5>5, <3>2 DEF Lacks
      <4> QED BY <4>2, <4>3, <2>7 DEF Writes
    <3> QED BY <3>1, <3>2, <2>4
  <2>11. Before(s, t, w, i, packets)
    BY <2>4, <2>7, <2>9 DEF Before
  <2>12. InStep(s, t, v, w, i, packets)
    BY <2>8, <2>10, <2>11, <1>8 DEF InStep
  <2> QED BY <2>7, <2>12, <1>7 DEF v, w, h
<1> QED BY <1>10, <1>11

\* reass_timeout().
LEMMA IsDropped ==
    ASSUME NEW s, PeerOK(s), NEW r, PeerOK(r), r.rxing, NEW x, NEW y,
           NEW packets, NEW n \in Nat, Direction(s, r, x, y, packets, n)
    PROVE  Direction(s, DropReassembly(r), x, y, packets, n)
<1> DEFINE t == DropReassembly(r)
<1>1. t.tun = r.tun
  BY DropReassemblyFields
<1> HIDE DEF t
<1>2. TunOK(t, packets) /\ PacketsOK(packets)
  BY <1>1 DEF Direction, TunOK
<1>3. ASSUME packets # <<>>,
             NEW i \in 1..FrameCount(s.tx_packet), InStep(s, r, x, y, i, packets)
      PROVE  InStep(s, t, x, y, i, packets)
  <2>1. Whole(s.tx_packet)
    <3>1. s.tx_packet = packets[Len(packets)]
      BY <1>3 DEF Direction
    <3> QED BY <3>1, <1>2, <1>3, PacketFacts
  <2>2. /\ Got(r, s.tx_packet, i, s.tx_seq) => Got(t, s.tx_packet, i, s.tx_seq)
        /\ Lacks(r, s.tx_packet, i, s.tx_seq) => Lacks(t, s.tx_packet, i, s.tx_seq)
    BY <2>1, DropKeeps DEF t
  <2>3. ASSUME Before(s, r, y, i, packets) PROVE Before(s, t, y, i, packets)
    <3>1. PICK prev \in Range(packets) : \E j \in 1..FrameCount(prev) :
              /\ \/ i > 1 /\ prev = s.tx_packet /\ j = i - 1
                 \/ /\ i = 1 /\ prev.id < s.tx_packet.id
                    /\ Got(r, prev, j, ~s.tx_seq) \/ Lacks(r, prev, j, ~s.tx_seq)
              /\ \A k \in Data(y) :
                    y[k].seq # s.tx_seq => y[k] = FrameOf(prev, j, ~s.tx_seq)
      BY <2>3 DEF Before
    <3>2. PICK j \in 1..FrameCount(prev) :
              /\ \/ i > 1 /\ prev = s.tx_packet /\ j = i - 1
                 \/ /\ i = 1 /\ prev.id < s.tx_packet.id
                    /\ Got(r, prev, j, ~s.tx_seq) \/ Lacks(r, prev, j, ~s.tx_seq)
              /\ \A k \in Data(y) :
                    y[k].seq # s.tx_seq => y[k] = FrameOf(prev, j, ~s.tx_seq)
      BY <3>1
    <3>3. Whole(prev)
      BY <1>2, PacketFacts
    <3>4. /\ Got(r, prev, j, ~s.tx_seq) => Got(t, prev, j, ~s.tx_seq)
          /\ Lacks(r, prev, j, ~s.tx_seq) => Lacks(t, prev, j, ~s.tx_seq)
      BY <3>3, DropKeeps DEF t
    <3> QED BY <3>2, <3>4 DEF Before
  <2> QED BY <2>2, <2>3, <1>3 DEF InStep
<1> QED BY <1>2, <1>3 DEF Direction, t
-----------------------------------------------------------------------------
(* Both directions                                                         *)

LinkInv ==
    \A p \in Peers :
        Direction(peer[p], peer[Other(p)], net[p], net[Other(p)], sent[p], late)

LEMMA TwoPeers ==
    ASSUME NEW p \in Peers
    PROVE  /\ Other(p) \in Peers /\ Other(p) # p /\ Other(Other(p)) = p
           /\ \A q \in Peers : q = p \/ q = Other(p)
BY DirtpanAssumption DEF Peers, Other

LEMMA LinkInvOf ==
    ASSUME NEW p \in Peers,
           Direction(peer[p], peer[Other(p)], net[p], net[Other(p)], sent[p], late),
           Direction(peer[Other(p)], peer[p], net[Other(p)], net[p], sent[Other(p)], late)
    PROVE  LinkInv
BY TwoPeers DEF LinkInv

LEMMA LinkInvNext ==
    ASSUME NEW p \in Peers,
           Direction(peer'[p], peer'[Other(p)], net'[p], net'[Other(p)], sent'[p], late'),
           Direction(peer'[Other(p)], peer'[p], net'[Other(p)], net'[p], sent'[Other(p)], late')
    PROVE  LinkInv'
<1> SUFFICES ASSUME NEW q \in Peers
             PROVE  Direction(peer[q], peer[Other(q)], net[q], net[Other(q)], sent[q], late)'
  BY DEF LinkInv
<1>1. CASE q = p
  BY <1>1
<1>2. CASE q = Other(p)
  <2>1. Other(q) = p
    BY <1>2, TwoPeers
  <2> QED BY <1>2, <2>1
<1> QED BY <1>1, <1>2, TwoPeers

LEMMA InvFacts ==
    ASSUME Inv, NEW p \in Peers
    PROVE  /\ PeerOK(peer[p]) /\ net[p] \in Seq(Frames) /\ sent[p] \in Seq(Packets)
           /\ peer[p].tun \in Seq(Seq(Fragments))
           /\ late \in Nat
<1>1. late \in Nat
  BY DirtpanAssumption DEF Inv, TypeOK
<1> QED BY <1>1 DEF Inv, TypeOK, PeerType

LEMMA SameSelf == ASSUME NEW s PROVE SameSender(s, s) /\ SameReceiver(s, s)
BY DEF SameSender, SameReceiver

LEMMA LinkInit == Init => LinkInv
<1> SUFFICES ASSUME Init, NEW p \in Peers
             PROVE  Direction(peer[p], peer[Other(p)], net[p], net[Other(p)], sent[p], late)
  BY DEF LinkInv
<1>1. /\ peer[p] = PeerInit /\ peer[Other(p)] = PeerInit
      /\ net[p] = <<>> /\ net[Other(p)] = <<>> /\ sent[p] = <<>>
  BY TwoPeers DEF Init
<1>2. Len(<<>>) = 0 /\ 1..0 = {}
  OBVIOUS
<1>3. Acks(<<>>) = {} /\ Data(<<>>) = {}
  BY <1>2 DEF Acks, Data, Of
<1>4. PacketsOK(<<>>) /\ TunOK(PeerInit, <<>>)
  BY <1>2 DEF PacketsOK, TunOK, PeerInit
<1>5. Wire(<<>>, <<>>, PeerInit, late)
  BY <1>3 DEF Wire, LatestLast, Two, Some, Stale
<1>6. ~PeerInit.txing
  BY DEF PeerInit
<1> QED BY <1>1, <1>3, <1>4, <1>5, <1>6 DEF Direction, Some

LEMMA NetFewer ==
    ASSUME NEW x \in Seq(Frames), NEW y \in Seq(Frames)
    PROVE  /\ \A frame \in Frames : frame.type # "pt_ack" => Fewer(x, y, Append(x, frame), y)
           /\ \A frame \in Frames : frame.type = "pt_ack" => Fewer(x, y, x, Append(y, frame))
           /\ x # <<>> => Fewer(x, y, Tail(x), y)
           /\ y # <<>> => Fewer(x, y, x, Tail(y))
           /\ Fewer(x, y, x, y)
           /\ \A frame \in Frames :
                 /\ x # <<>> /\ frame.type = "pt_ack" => Fewer(x, y, Tail(x), Append(y, frame))
                 /\ y # <<>> /\ frame.type # "pt_ack" => Fewer(x, y, Append(x, frame), Tail(y))
<1> DEFINE A == {"pt_ack"}  D == {"pt_first", "pt_next"}
<1>1. Keeps(x, x, A) /\ Keeps(y, y, D)
  BY KeepsSame
<1>2. x # <<>> => Keeps(x, Tail(x), A)
  BY KeepsTail
<1>3. y # <<>> => Keeps(y, Tail(y), D)
  BY KeepsTail
<1>4. \A frame \in Frames : frame.type \notin A => Keeps(x, Append(x, frame), A)
  BY KeepsAppend
<1>5. \A frame \in Frames : frame.type \notin D => Keeps(y, Append(y, frame), D)
  BY KeepsAppend
<1>6. \A type : (type # "pt_ack" => type \notin A) /\ (type = "pt_ack" => type \notin D)
  OBVIOUS
<1>7. \A x2, y2 : Fewer(x, y, x2, y2) <=> Keeps(x, x2, A) /\ Keeps(y, y2, D)
  BY DEF Fewer
<1> HIDE DEF A, D
<1> QED BY <1>1, <1>2, <1>3, <1>4, <1>5, <1>6, <1>7

LEMMA UnderWaySome ==
    ASSUME Inv, NEW p \in Peers
    PROVE  UnderWay(p) <=> Some(net[p], net[Other(p)])
<1> DEFINE x == net[p]
           y == net[Other(p)]
<1>1. x \in Seq(Frames) /\ y \in Seq(Frames)
  BY InvFacts, TwoPeers
<1> HIDE DEF x, y
<1>2. /\ \A f \in Range(y) : f.type # "pt_ack" => f.type \in {"pt_first", "pt_next"}
      /\ \A f : f.type \in {"pt_first", "pt_next"} => f.type # "pt_ack"
  <2>1. \A f \in Range(y) : f \in Frames
    BY <1>1 DEF Range
  <2> QED BY <2>1 DEF Frames
<1>3. /\ Range(x) = {x[j] : j \in 1..Len(x)}
      /\ Range(y) = {y[j] : j \in 1..Len(y)}
  BY <1>1 DEF Range
<1>4. (\E f \in Range(y) : f.type # "pt_ack") <=> Data(y) # {}
  <2>1. ASSUME NEW f \in Range(y), f.type # "pt_ack" PROVE Data(y) # {}
    <3>1. PICK j \in 1..Len(y) : y[j] = f
      BY <1>3
    <3> QED BY <2>1, <3>1, <1>2 DEF Data, Of
  <2>2. ASSUME NEW j \in Data(y) PROVE \E f \in Range(y) : f.type # "pt_ack"
    BY <1>2, <1>3 DEF Data, Of
  <2> QED BY <2>1, <2>2
<1>5. (\E f \in Range(x) : f.type = "pt_ack") <=> Acks(x) # {}
  <2>1. ASSUME NEW f \in Range(x), f.type = "pt_ack" PROVE Acks(x) # {}
    BY <2>1, <1>3 DEF Acks, Of
  <2>2. ASSUME NEW j \in Acks(x) PROVE \E f \in Range(x) : f.type = "pt_ack"
    BY <1>3 DEF Acks, Of
  <2> QED BY <2>1, <2>2
<1>6. UnderWay(p) <=> (\E f \in Range(y) : f.type # "pt_ack")
                        \/ (\E f \in Range(x) : f.type = "pt_ack")
  BY DEF UnderWay, x, y
<1> QED BY <1>4, <1>5, <1>6 DEF Some, x, y

LEMMA NextLink ==
    ASSUME Late <= MAX_TRIES, Inv, LinkInv, [Next]_vars, Inv' PROVE LinkInv'
<1> DEFINE D(p) == Direction(peer[p], peer[Other(p)], net[p], net[Other(p)], sent[p], late)
<1>0. ASSUME NEW p \in Peers
      PROVE  /\ D(p)
             /\ Direction(peer[Other(p)], peer[p], net[Other(p)], net[p], sent[Other(p)], late)
  BY TwoPeers DEF LinkInv
<1> HIDE DEF D
<1>1. ASSUME NEW p \in Peers, TxPck(p) PROVE LinkInv'
  <2> DEFINE q == Other(p)
  <2>0. q \in Peers /\ q # p
    BY TwoPeers
  <2>1. PICK size \in Sizes :
            LET packet == [id |-> Len(sent[p]) + 1, size |-> size]
                s == TakePacket(peer[p], packet)
            IN  /\ peer' = [peer EXCEPT ![p] = s]
                /\ sent' = [sent EXCEPT ![p] = Append(@, packet)]
                /\ Sends(p, NextFrame(s))
    BY <1>1 DEF TxPck
  <2> DEFINE packet == [id |-> Len(sent[p]) + 1, size |-> size]
             t == TakePacket(peer[p], packet)
  <2>2. ~peer[p].txing /\ late' = late
    BY <1>1 DEF TxPck
  <2>3. /\ peer'[p] = t /\ peer'[q] = peer[q]
        /\ sent'[p] = Append(sent[p], packet) /\ sent'[q] = sent[q]
        /\ net'[p] = net[p] /\ net'[q] = Append(net[q], NextFrame(t))
    BY <2>0, <2>1 DEF Sends, Inv, TypeOK
  <2>4. PeerOK(t)
    <3>1. PeerOK(peer'[p])
      BY DEF Inv
    <3> QED BY <2>3, <3>1
  <2>5. /\ PeerOK(peer[p]) /\ PeerOK(peer[q]) /\ net[p] \in Seq(Frames)
        /\ net[q] \in Seq(Frames) /\ late \in Nat
    BY <2>0, InvFacts
  <2>6. t.txing /\ SameReceiver(peer[p], t)
    BY <2>2, <2>5, TakePacketFields
  <2>7. NextFrame(t) \in Frames /\ NextFrame(t).type # "pt_ack"
    BY <2>4, NextFrameType DEF NextFrame
  <2>8. Direction(t, peer[q], net[p], Append(net[q], NextFrame(t)), Append(sent[p], packet), late)
    <3>1. Direction(peer[p], peer[q], net[p], net[q], sent[p], late)
      BY <1>0 DEF D
    <3> HIDE DEF q
    <3> QED BY <3>1, <2>2, <2>4, <2>5, TakesPacket
  <2> HIDE DEF t, packet
  <2>9. Direction(peer[q], t, Append(net[q], NextFrame(t)), net[p], sent[q], late)
    <3>1. Direction(peer[q], peer[p], net[q], net[p], sent[q], late)
      BY <1>0
    <3>2. Fewer(net[q], net[p], Append(net[q], NextFrame(t)), net[p])
      BY <2>5, <2>7, NetFewer
    <3> HIDE DEF q
    <3> QED BY <3>1, <3>2, <2>5, <2>6, SameSelf, OthersStep
  <2>10. /\ Direction(peer'[p], peer'[q], net'[p], net'[q], sent'[p], late')
         /\ Direction(peer'[q], peer'[p], net'[q], net'[p], sent'[q], late')
    BY <2>2, <2>3, <2>8, <2>9
  <2> QED BY <2>10, LinkInvNext DEF q
<1>2. ASSUME NEW p \in Peers, AckTimeout(p) PROVE LinkInv'
  <2> DEFINE q == Other(p)
             t == Retransmit(peer[p])
             more == IF t.txing THEN Append(net[q], NextFrame(t)) ELSE net[q]
  <2>0. q \in Peers /\ q # p
    BY TwoPeers
  <2>1. /\ PeerOK(peer[p]) /\ PeerOK(peer[q]) /\ net[p] \in Seq(Frames)
        /\ net[q] \in Seq(Frames) /\ late \in Nat
    BY <2>0, InvFacts
  <2>2. /\ peer[p].t_ack /\ late' <= Late /\ sent' = sent
        /\ late' = IF UnderWay(p) THEN late + 1 ELSE late
        /\ peer' = [peer EXCEPT ![p] = t]
        /\ IF t.txing THEN Sends(p, NextFrame(t)) ELSE UNCHANGED net
    BY <1>2 DEF AckTimeout
  <2>3. /\ peer'[p] = t /\ peer'[q] = peer[q]
        /\ net'[p] = net[p] /\ net'[q] = more
    BY <2>0, <2>2 DEF Sends, Inv, TypeOK
  <2>4. PeerOK(t)
    <3>1. PeerOK(peer'[p])
      BY DEF Inv
    <3> QED BY <2>3, <3>1
  <2>5. peer[p].txing
    BY <2>1, <2>2 DEF PeerOK
  <2>6. SameReceiver(peer[p], t)
    BY <2>1, <2>5, RetransmitFields
  <2>7. NextFrame(t) \in Frames /\ NextFrame(t).type # "pt_ack"
    BY <2>4, NextFrameType DEF NextFrame
  <2>8. /\ late' \in Nat /\ late' >= late
        /\ late' = IF Some(net[p], net[q]) THEN late + 1 ELSE late
    BY <2>1, <2>2, UnderWaySome
  <2>9. Direction(t, peer[q], net[p], more, sent[p], late')
    <3>1. Direction(peer[p], peer[q], net[p], net[q], sent[p], late)
      BY <1>0 DEF D
    <3> HIDE DEF q
    <3> QED BY <3>1, <2>1, <2>2, <2>4, <2>5, <2>8, TriesAgain
  <2> HIDE DEF t
  <2>10. Direction(peer[q], t, more, net[p], sent[q], late')
    <3>1. Direction(peer[q], peer[p], net[q], net[p], sent[q], late)
      BY <1>0
    <3>2. Fewer(net[q], net[p], more, net[p])
      BY <2>1, <2>7, NetFewer
    <3> HIDE DEF q, more
    <3> QED BY <3>1, <3>2, <2>1, <2>6, <2>8, SameSelf, OthersStep
  <2>11. /\ Direction(peer'[p], peer'[q], net'[p], net'[q], sent'[p], late')
         /\ Direction(peer'[q], peer'[p], net'[q], net'[p], sent'[q], late')
    BY <2>2, <2>3, <2>9, <2>10
  <2> QED BY <2>11, LinkInvNext DEF q
<1>3. ASSUME NEW p \in Peers, ReassTimeout(p) PROVE LinkInv'
  <2> DEFINE q == Other(p)
             t == DropReassembly(peer[p])
  <2>0. q \in Peers /\ q # p
    BY TwoPeers
  <2>1. /\ PeerOK(peer[p]) /\ PeerOK(peer[q]) /\ net[p] \in Seq(Frames)
        /\ net[q] \in Seq(Frames) /\ late \in Nat
    BY <2>0, InvFacts
  <2>2. peer[p].t_reass /\ peer' = [peer EXCEPT ![p] = t] /\ UNCHANGED <<net, sent, late>>
    BY <1>3 DEF ReassTimeout
  <2>3. peer'[p] = t /\ peer'[q] = peer[q]
    BY <2>0, <2>2 DEF Inv, TypeOK
  <2>4. peer[p].rxing
    BY <2>1, <2>2 DEF PeerOK
  <2>5. SameSender(peer[p], t)
    BY <2>1, <2>4, DropReassemblyFields
  <2>6. Direction(peer[q], t, net[q], net[p], sent[q], late)
    <3>1. Direction(peer[q], peer[p], net[q], net[p], sent[q], late)
      BY <1>0
    <3> HIDE DEF q
    <3> QED BY <3>1, <2>1, <2>4, IsDropped
  <2> HIDE DEF t
  <2>7. Direction(t, peer[q], net[p], net[q], sent[p], late)
    <3>1. Direction(peer[p], peer[q], net[p], net[q], sent[p], late)
      BY <1>0 DEF D
    <3>2. Fewer(net[p], net[q], net[p], net[q])
      BY <2>1, NetFewer
    <3>3. late >= late
      BY <2>1
    <3> HIDE DEF q
    <3> QED BY <3>1, <3>2, <3>3, <2>1, <2>5, SameSelf, OthersStep
  <2>8. /\ Direction(peer'[p], peer'[q], net'[p], net'[q], sent'[p], late')
        /\ Direction(peer'[q], peer'[p], net'[q], net'[p], sent'[q], late')
    BY <2>2, <2>3, <2>6, <2>7
  <2> QED BY <2>8, LinkInvNext DEF q
<1>4. ASSUME NEW p \in Peers, Lose(p) PROVE LinkInv'
  <2> DEFINE q == Other(p)
  <2>0. q \in Peers /\ q # p
    BY TwoPeers
  <2>1. /\ PeerOK(peer[p]) /\ PeerOK(peer[q]) /\ net[p] \in Seq(Frames)
        /\ net[q] \in Seq(Frames) /\ late \in Nat
    BY <2>0, InvFacts
  <2>2. net[p] # <<>> /\ UNCHANGED <<peer, sent, late>>
    BY <1>4 DEF Lose
  <2>3. net'[p] = Tail(net[p]) /\ net'[q] = net[q]
    BY <2>0, <1>4 DEF Lose, Inv, TypeOK
  <2>4. /\ Direction(peer[p], peer[q], net[p], net[q], sent[p], late)
        /\ Direction(peer[q], peer[p], net[q], net[p], sent[q], late)
    BY <1>0 DEF D
  <2>5. /\ Fewer(net[p], net[q], Tail(net[p]), net[q])
        /\ Fewer(net[q], net[p], net[q], Tail(net[p]))
    BY <2>1, <2>2, NetFewer
  <2>6. late >= late
    BY <2>1
  <2>7. Direction(peer[p], peer[q], Tail(net[p]), net[q], sent[p], late)
    <3> HIDE DEF q
    <3> QED BY <2>1, <2>4, <2>5, <2>6, SameSelf, OthersStep
  <2>8. Direction(peer[q], peer[p], net[q], Tail(net[p]), sent[q], late)
    <3> HIDE DEF q
    <3> QED BY <2>1, <2>4, <2>5, <2>6, SameSelf, OthersStep
  <2>9. /\ Direction(peer'[p], peer'[q], net'[p], net'[q], sent'[p], late')
        /\ Direction(peer'[q], peer'[p], net'[q], net'[p], sent'[q], late')
    BY <2>2, <2>3, <2>7, <2>8
  <2> QED BY <2>9, LinkInvNext DEF q
<1>5. ASSUME NEW p \in Peers, RxPck(p) PROVE LinkInv'
  <2> DEFINE q == Other(p)
             x == net[p]
             y == net[q]
             f == Head(x)
  <2>0. q \in Peers /\ q # p
    BY TwoPeers
  <2>1. /\ PeerOK(peer[p]) /\ PeerOK(peer[q]) /\ x \in Seq(Frames)
        /\ y \in Seq(Frames) /\ late \in Nat /\ late >= late
    BY <2>0, InvFacts
  <2>2. /\ x # <<>> /\ UNCHANGED <<sent, late>>
        /\ RxFirst(p, f) \/ RxNext(p, f) \/ RxAck(p, f)
    BY <1>5 DEF RxPck, Arrives
  <2>3. f \in Frames /\ f.seq \in BOOLEAN
    <3>1. f \in Frames
      BY <2>1, <2>2
    <3> QED BY <3>1 DEF Frames
  <2>4. /\ Direction(peer[p], peer[q], x, y, sent[p], late)
        /\ Direction(peer[q], peer[p], y, x, sent[q], late)
    BY <1>0 DEF D
  <2>5. \A frames : Answers(p, frames) => net'[p] = Tail(x) /\ net'[q] = y \o frames
    BY <2>0 DEF Answers, Inv, TypeOK
  <2>6. CASE RxFirst(p, f) \/ RxNext(p, f)
    <3> DEFINE t == ReceivedBy(peer[p], f)
               a == Ack(f.seq)
    <3>1. /\ peer' = [peer EXCEPT ![p] = t] /\ f.type # "pt_ack"
          /\ Answers(p, <<a>>)
      BY <2>6 DEF RxFirst, RxNext, ReceivedBy
    <3>2. peer'[p] = t /\ peer'[q] = peer[q] /\ net'[p] = Tail(x) /\ net'[q] = Append(y, a)
      <4>1. y \o <<a>> = Append(y, a)
        BY <2>1
      <4> QED BY <2>0, <2>5, <3>1, <4>1 DEF Inv, TypeOK
    <3>3. a \in Frames /\ a.type = "pt_ack"
      BY <2>3, AckType DEF Ack
    <3> HIDE DEF q, x, y
    <3>4. /\ Direction(peer[q], t, Append(y, a), Tail(x), sent[q], late)
          /\ SameSender(peer[p], t)
      BY <2>1, <2>2, <2>4, <3>1, IsReceived
    <3> HIDE DEF t, a
    <3>5. Fewer(x, y, Tail(x), Append(y, a))
      BY <2>1, <2>2, <3>3, NetFewer
    <3>6. Direction(t, peer[q], Tail(x), Append(y, a), sent[p], late)
      BY <2>1, <2>4, <3>4, <3>5, SameSelf, OthersStep
    <3>7. /\ Direction(peer'[p], peer'[q], net'[p], net'[q], sent'[p], late')
          /\ Direction(peer'[q], peer'[p], net'[q], net'[p], sent'[q], late')
      BY <2>2, <3>2, <3>4, <3>6
    <3> QED BY <3>7, LinkInvNext DEF q
  <2>7. CASE RxAck(p, f) /\ Expected(peer[p], f)
    <3> DEFINE t == AckReceived(peer[p])
               frames == IF t.txing THEN <<NextFrame(t)>> ELSE <<>>
    <3>1. /\ peer' = [peer EXCEPT ![p] = t] /\ f.type = "pt_ack"
          /\ Answers(p, frames) /\ peer[p].txing /\ f.seq = peer[p].tx_seq
      BY <2>7 DEF RxAck, Expected
    <3>2. peer'[p] = t /\ peer'[q] = peer[q] /\ net'[p] = Tail(x) /\ net'[q] = y \o frames
      BY <2>0, <2>5, <3>1 DEF Inv, TypeOK
    <3>3. PeerOK(t)
      <4>1. PeerOK(peer'[p])
        BY DEF Inv
      <4> QED BY <3>2, <4>1
    <3>4. NextFrame(t) \in Frames /\ NextFrame(t).type # "pt_ack"
      BY <3>3, NextFrameType DEF NextFrame
    <3> HIDE DEF q, x, y
    <3>5. Direction(t, peer[q], Tail(x), y \o frames, sent[p], late)
      BY <2>1, <2>2, <2>4, <3>1, <3>3, IsAcknowledged
    <3>6. SameReceiver(peer[p], t)
      <4>1. /\ sent[p] # <<>> /\ peer[p].tx_packet = sent[p][Len(sent[p])]
            /\ PacketsOK(sent[p])
        <5>1. peer[p].txing
          BY <3>1
        <5> QED BY <5>1, <2>4 DEF Direction
      <4>2. PICK i \in 1..FrameCount(peer[p].tx_packet) : At(peer[p], i)
        BY <2>4, <4>1 DEF Direction
      <4>3. Whole(peer[p].tx_packet)
        BY <4>1, PacketFacts
      <4> QED BY <4>2, <4>3, <2>1, <3>1, AckReceivedFields DEF At
    <3> HIDE DEF t
    <3>7. y \o frames = IF t.txing THEN Append(y, NextFrame(t)) ELSE y
      BY <2>1
    <3>8. Fewer(y, x, y \o frames, Tail(x))
      <4>1. Fewer(y, x, Append(y, NextFrame(t)), Tail(x)) /\ Fewer(y, x, y, Tail(x))
        BY <2>1, <2>2, <3>4, NetFewer
      <4> HIDE DEF frames
      <4> QED BY <3>7, <4>1
    <3> HIDE DEF frames
    <3>9. Direction(peer[q], t, y \o frames, Tail(x), sent[q], late)
      BY <2>1, <2>4, <3>6, <3>8, SameSelf, OthersStep
    <3>10. /\ Direction(peer'[p], peer'[q], net'[p], net'[q], sent'[p], late')
           /\ Direction(peer'[q], peer'[p], net'[q], net'[p], sent'[q], late')
      BY <2>2, <3>2, <3>5, <3>9
    <3> QED BY <3>10, LinkInvNext DEF q
  <2>8. CASE RxAck(p, f) /\ ~Expected(peer[p], f)
    <3>1. peer' = peer /\ Answers(p, <<>>)
      BY <2>8 DEF RxAck
    <3>2. net'[p] = Tail(x) /\ net'[q] = y
      <4>1. y \o <<>> = y
        BY <2>1
      <4> QED BY <2>5, <3>1, <4>1
    <3> HIDE DEF q, x, y
    <3>3. Fewer(x, y, Tail(x), y) /\ Fewer(y, x, y, Tail(x))
      BY <2>1, <2>2, NetFewer
    <3>4. Direction(peer[p], peer[q], Tail(x), y, sent[p], late)
      BY <2>1, <2>4, <3>3, SameSelf, OthersStep
    <3>5. Direction(peer[q], peer[p], y, Tail(x), sent[q], late)
      BY <2>1, <2>4, <3>3, SameSelf, OthersStep
    <3>6. /\ Direction(peer'[p], peer'[q], net'[p], net'[q], sent'[p], late')
          /\ Direction(peer'[q], peer'[p], net'[q], net'[p], sent'[q], late')
      BY <2>2, <3>1, <3>2, <3>4, <3>5
    <3> QED BY <3>6, LinkInvNext DEF q
  <2> QED BY <2>2, <2>6, <2>7, <2>8
<1>6. CASE UNCHANGED vars
  BY <1>6 DEF LinkInv, vars
<1> QED BY <1>1, <1>2, <1>3, <1>4, <1>5, <1>6 DEF Next

LEMMA LinkInvariance ==
    ASSUME Late <= MAX_TRIES PROVE Spec => [](Inv /\ LinkInv)
<1>1. Init => Inv /\ LinkInv
  BY InitInv, LinkInit
<1>2. Inv /\ LinkInv /\ [Next]_vars => Inv' /\ LinkInv'
  BY NextInv, NextLink
<1> QED BY <1>1, <1>2, PTL DEF Spec

\* What rx_pck() throws away as a retransmission, by its sequence bit alone, is the
\* fragment it received last, as long as acks are not late more than MAX_TRIES times.
THEOREM DiscardsAreRetransmissions ==
    ASSUME Late <= MAX_TRIES PROVE Spec => []DiscardedIsRetransmission
<1>1. Inv /\ LinkInv => DiscardedIsRetransmission
  <2> SUFFICES ASSUME Inv, LinkInv, NEW p \in Peers, NEW frame \in Range(net[p]),
                      Arrives(p, frame), frame.type = "pt_next",
                      IsRetransmission(peer[p], frame)
               PROVE  frame.fragment = Last(peer[p].rx_packet)
    BY DEF DiscardedIsRetransmission
  <2> DEFINE q == Other(p)
             y == net[p]
             r == peer[p]
             s == peer[q]
  <2>0. q \in Peers
    BY TwoPeers
  <2>1. PeerOK(s) /\ PeerOK(r) /\ net[q] \in Seq(Frames) /\ y \in Seq(Frames) /\ late \in Nat
    BY <2>0, InvFacts
  <2>2. Direction(s, r, net[q], y, sent[q], late)
    BY TwoPeers DEF LinkInv
  <2>3. y # <<>> /\ frame = Head(y) /\ r.rxing /\ frame.seq = r.rx_seq
    BY DEF Arrives, IsRetransmission
  <2>4. PICK packet \in Range(sent[q]) : \E j \in 1..FrameCount(packet) :
               /\ frame = FrameOf(packet, j, frame.seq)
               /\ Got(r, packet, j, frame.seq) \/ Lacks(r, packet, j, frame.seq)
    <3>1. frame.type # "pt_ack"
      OBVIOUS
    <3> HIDE DEF q, y, r, s
    <3> QED BY <2>1, <2>2, <2>3, <3>1, FrameIsKnown
  <2>5. PICK j \in 1..FrameCount(packet) :
               /\ frame = FrameOf(packet, j, frame.seq)
               /\ Got(r, packet, j, frame.seq) \/ Lacks(r, packet, j, frame.seq)
    BY <2>4
  <2>6. Whole(packet)
    BY <2>2, PacketFacts DEF Direction
  <2>7. frame.seq \in BOOLEAN
    <3>1. frame \in Frames
      BY <2>1, <2>3
    <3> QED BY <3>1 DEF Frames
  <2>8. j # 1 /\ frame.fragment = Cut(packet)[j]
    BY <2>5, <2>6, <2>7, FrameOfType
  <2> HIDE DEF q, y, r, s
  <2>9. Got(r, packet, j, frame.seq)
    BY <2>3, <2>5, <2>7, <2>8 DEF Got, Lacks
  <2>10. r.rx_packet = SubSeq(Cut(packet), 1, j)
    BY <2>3, <2>9 DEF Got
  <2>11. Cut(packet) \in Seq(Fragments) /\ Len(Cut(packet)) = FrameCount(packet)
    BY <2>6, CutFacts
  <2>12. Len(r.rx_packet) = j /\ r.rx_packet[j] = Cut(packet)[j]
    BY <2>10, <2>11, PrefixFacts
  <2>13. Last(r.rx_packet) = Cut(packet)[j]
    BY <2>12 DEF Last
  <2> QED BY <2>8, <2>13 DEF r
<1> QED BY <1>1, LinkInvariance, PTL

\* What a step changes of the histories: it takes a packet, writes one, or
\* finishes one.
LEMMA Effects ==
    ASSUME Inv, LinkInv, [Next]_vars
    PROVE  \E p \in Peers :
               /\ peer'[Other(p)] = peer[Other(p)]
               /\ peer[p].dropped \subseteq peer'[p].dropped
               /\ \/ /\ peer'[p].tun = peer[p].tun /\ acked' = acked
                     /\ \/ sent' = sent
                        \/ /\ Len(sent[p]) < Offered[p]
                           /\ \E size \in Sizes :
                                 sent' = [sent EXCEPT ![p] =
                                     Append(@, [id |-> Len(sent[p]) + 1, size |-> size])]
                  \/ /\ sent' = sent /\ acked' = acked
                     /\ \E packet \in Range(sent[Other(p)]) : Writes(peer[p], peer'[p], packet)
                  \/ /\ peer'[p].tun = peer[p].tun /\ sent' = sent /\ sent[p] # <<>>
                     /\ acked' = [acked EXCEPT ![p] = @ \union {Len(sent[p])}]
                     /\ \E last : /\ last = sent[p][Len(sent[p])]
                                 /\ \E seq : Got(peer[Other(p)], last, FrameCount(last), seq)
<1>1. ASSUME NEW p \in Peers, NEW t, peer' = [peer EXCEPT ![p] = t]
      PROVE  peer'[p] = t /\ peer'[Other(p)] = peer[Other(p)]
  BY <1>1, TwoPeers DEF Inv, TypeOK
<1>2. ASSUME NEW p \in Peers, TxPck(p)
      PROVE  /\ peer'[Other(p)] = peer[Other(p)] /\ SameReceiver(peer[p], peer'[p])
             /\ acked' = acked /\ Len(sent[p]) < Offered[p]
             /\ \E size \in Sizes :
                   sent' = [sent EXCEPT ![p] =
                                Append(@, [id |-> Len(sent[p]) + 1, size |-> size])]
  <2>1. PICK size \in Sizes :
            LET packet == [id |-> Len(sent[p]) + 1, size |-> size]
                s == TakePacket(peer[p], packet)
            IN  /\ peer' = [peer EXCEPT ![p] = s]
                /\ sent' = [sent EXCEPT ![p] = Append(@, packet)]
                /\ Sends(p, NextFrame(s))
    BY <1>2 DEF TxPck
  <2> DEFINE packet == [id |-> Len(sent[p]) + 1, size |-> size]
             t == TakePacket(peer[p], packet)
  <2>2. ~peer[p].txing /\ acked' = acked /\ Len(sent[p]) < Offered[p]
    BY <1>2 DEF TxPck
  <2>3. PeerOK(peer[p])
    BY InvFacts
  <2>4. SameReceiver(peer[p], t)
    BY <2>2, <2>3, TakePacketFields
  <2>5. peer'[p] = t /\ peer'[Other(p)] = peer[Other(p)]
    <3> HIDE DEF t
    <3>1. peer' = [peer EXCEPT ![p] = t]
      BY <2>1 DEF t
    <3> QED BY <3>1, <1>1
  <2>6. sent' = [sent EXCEPT ![p] = Append(@, packet)]
    BY <2>1
  <2> HIDE DEF t
  <2> QED BY <2>2, <2>4, <2>5, <2>6
<1>3. ASSUME NEW p \in Peers, AckTimeout(p)
      PROVE  /\ peer'[Other(p)] = peer[Other(p)] /\ SameReceiver(peer[p], peer'[p])
             /\ acked' = acked /\ sent' = sent
  <2> DEFINE t == Retransmit(peer[p])
  <2>1. peer[p].t_ack /\ peer' = [peer EXCEPT ![p] = t] /\ sent' = sent /\ acked' = acked
    BY <1>3 DEF AckTimeout
  <2>2. PeerOK(peer[p])
    BY InvFacts
  <2>3. SameReceiver(peer[p], t)
    BY <2>1, <2>2, RetransmitFields DEF PeerOK
  <2> HIDE DEF t
  <2> QED BY <2>1, <2>3, <1>1
<1>4. ASSUME NEW p \in Peers, ReassTimeout(p)
      PROVE  /\ peer'[Other(p)] = peer[Other(p)] /\ peer'[p].tun = peer[p].tun
             /\ peer[p].dropped \subseteq peer'[p].dropped
             /\ acked' = acked /\ sent' = sent
  <2> DEFINE t == DropReassembly(peer[p])
  <2>1. peer[p].t_reass /\ peer' = [peer EXCEPT ![p] = t] /\ sent' = sent /\ acked' = acked
    BY <1>4 DEF ReassTimeout
  <2>2. PeerOK(peer[p])
    BY InvFacts
  <2>3. t.tun = peer[p].tun /\ peer[p].dropped \subseteq t.dropped
    BY <2>1, <2>2, DropReassemblyFields DEF PeerOK
  <2> HIDE DEF t
  <2> QED BY <2>1, <2>3, <1>1
<1>5. ASSUME NEW p \in Peers, RxPck(p)
      PROVE  /\ peer'[Other(p)] = peer[Other(p)] /\ peer'[p].dropped = peer[p].dropped
             /\ sent' = sent
             /\ \/ peer'[p].tun = peer[p].tun /\ acked' = acked
                \/ /\ acked' = acked
                   /\ \E packet \in Range(sent[Other(p)]) : Writes(peer[p], peer'[p], packet)
                \/ /\ peer'[p].tun = peer[p].tun /\ sent[p] # <<>>
                   /\ acked' = [acked EXCEPT ![p] = @ \union {Len(sent[p])}]
                   /\ \E last : /\ last = sent[p][Len(sent[p])]
                               /\ \E seq : Got(peer[Other(p)], last, FrameCount(last), seq)
  <2> DEFINE q == Other(p)
             x == net[p]
             y == net[q]
             f == Head(x)
  <2>1. /\ PeerOK(peer[p]) /\ PeerOK(peer[q]) /\ x \in Seq(Frames)
        /\ y \in Seq(Frames) /\ late \in Nat
    BY TwoPeers, InvFacts
  <2>2. x # <<>> /\ sent' = sent /\ (RxFirst(p, f) \/ RxNext(p, f) \/ RxAck(p, f))
    BY <1>5 DEF RxPck, Arrives
  <2>3. /\ Direction(peer[p], peer[q], x, y, sent[p], late)
        /\ Direction(peer[q], peer[p], y, x, sent[q], late)
    BY TwoPeers DEF LinkInv
  <2>4. CASE RxFirst(p, f) \/ RxNext(p, f)
    <3> DEFINE t == ReceivedBy(peer[p], f)
    <3>1. peer' = [peer EXCEPT ![p] = t] /\ f.type # "pt_ack" /\ acked' = acked
      BY <2>4 DEF RxFirst, RxNext, ReceivedBy
    <3>2. peer'[p] = t /\ peer'[q] = peer[q]
      <4> HIDE DEF t
      <4> QED BY <3>1, <1>1
    <3>3. /\ \E packet \in Range(sent[q]) : Writes(peer[p], t, packet)
          /\ t.dropped = peer[p].dropped
      <4> HIDE DEF q, x, y
      <4> QED BY <2>1, <2>2, <2>3, <3>1, IsReceived
    <3> HIDE DEF t
    <3> QED BY <2>2, <3>1, <3>2, <3>3
  <2>5. CASE RxAck(p, f) /\ Expected(peer[p], f)
    <3> DEFINE t == AckReceived(peer[p])
    <3>1. /\ peer' = [peer EXCEPT ![p] = t] /\ f.type = "pt_ack"
          /\ peer[p].txing /\ f.seq = peer[p].tx_seq
          /\ acked' = IF t.txing THEN acked
                      ELSE [acked EXCEPT ![p] = @ \union {t.tx_packet.id}]
      BY <2>5 DEF RxAck, Expected
    <3>2. peer'[p] = t /\ peer'[q] = peer[q]
      <4> HIDE DEF t
      <4> QED BY <3>1, <1>1
    <3>3. PeerOK(t)
      <4>1. PeerOK(peer[p]) /\ peer[p].t_ack
        BY <2>1, <3>1 DEF PeerOK
      <4> QED BY <4>1, <3>1, AckReceivedOK
    <3>4. /\ sent[p] # <<>> /\ peer[p].tx_packet = sent[p][Len(sent[p])]
          /\ PacketsOK(sent[p])
      <4>1. peer[p].txing
        BY <3>1
      <4> QED BY <4>1, <2>3 DEF Direction
    <3>5. /\ SameReceiver(peer[p], t) /\ t.tx_packet = sent[p][Len(sent[p])]
          /\ t.tx_packet.id = Len(sent[p])
      <4>1. PICK i \in 1..FrameCount(peer[p].tx_packet) : At(peer[p], i)
        BY <2>3, <3>4 DEF Direction
      <4>2. Whole(peer[p].tx_packet) /\ peer[p].tx_packet.id = Len(sent[p])
        BY <3>4, PacketFacts
      <4>3. SameReceiver(peer[p], t) /\ t.tx_packet = peer[p].tx_packet
        BY <4>1, <4>2, <2>1, <3>1, AckReceivedFields DEF At
      <4> HIDE DEF t
      <4> QED BY <3>4, <4>2, <4>3
    <3>6. ~t.txing => Got(peer[q], t.tx_packet, FrameCount(t.tx_packet), peer[p].tx_seq)
      <4>1. t = AckReceived(peer[p])
        OBVIOUS
      <4> HIDE DEF q, x, y, t
      <4> QED BY <4>1, <2>1, <2>2, <2>3, <3>1, <3>3, IsAcknowledged
    <3> HIDE DEF t
    <3>7. peer'[p].tun = peer[p].tun /\ peer'[p].dropped = peer[p].dropped
      BY <3>2, <3>5 DEF SameReceiver
    <3>8. CASE t.txing
      BY <2>2, <3>1, <3>2, <3>7, <3>8
    <3>9. CASE ~t.txing
      BY <2>2, <3>1, <3>2, <3>4, <3>5, <3>7, <3>9, <3>6
    <3> QED BY <3>8, <3>9
  <2>6. CASE RxAck(p, f) /\ ~Expected(peer[p], f)
    BY <2>2, <2>6 DEF RxAck
  <2> QED BY <2>2, <2>4, <2>5, <2>6
<1>6. ASSUME \/ UNCHANGED vars
             \/ \E p \in Peers : Lose(p)
      PROVE  peer' = peer /\ sent' = sent /\ acked' = acked
  BY <1>6 DEF Lose, vars
<1>7. Peer1 \in Peers
  BY DEF Peers
<1> HIDE DEF Peers
<1>8. CASE UNCHANGED vars \/ \E p \in Peers : Lose(p)
  BY <1>6, <1>7, <1>8
<1>9. CASE \E p \in Peers : TxPck(p)
  BY <1>2, <1>9 DEF SameReceiver
<1>10. CASE \E p \in Peers : AckTimeout(p)
  BY <1>3, <1>10 DEF SameReceiver
<1>11. CASE \E p \in Peers : ReassTimeout(p)
  BY <1>4, <1>11
<1>12. CASE \E p \in Peers : RxPck(p)
  BY <1>5, <1>12
<1> QED BY <1>8, <1>9, <1>10, <1>11, <1>12 DEF Next

\* What has been written, dropped or sent stays so.
LEMMA HistoriesGrow ==
    ASSUME Inv, LinkInv, [Next]_vars, NEW p \in Peers
    PROVE  /\ peer[p].dropped \subseteq peer'[p].dropped
           /\ Range(peer[p].tun) \subseteq Range(peer'[p].tun)
           /\ \A id \in 1..Len(sent[p]) : id \in 1..Len(sent'[p]) /\ sent'[p][id] = sent[p][id]
<1>1. PICK k \in Peers :
               /\ peer'[Other(k)] = peer[Other(k)]
               /\ peer[k].dropped \subseteq peer'[k].dropped
               /\ \/ peer'[k].tun = peer[k].tun
                  \/ \E packet : Writes(peer[k], peer'[k], packet)
               /\ \/ sent' = sent
                  \/ \E packet : sent' = [sent EXCEPT ![k] = Append(@, packet)]
  BY Effects
<1>2. p = k \/ p = Other(k)
  BY TwoPeers
<1>3. /\ peer[p].tun \in Seq(Seq(Fragments)) /\ sent[p] \in Seq(Packets)
      /\ sent \in [Peers -> Seq(Packets)]
  BY InvFacts DEF Inv, TypeOK
<1>4. peer[p].dropped \subseteq peer'[p].dropped
  BY <1>1, <1>2
<1>5. Range(peer[p].tun) \subseteq Range(peer'[p].tun)
  <2>1. peer'[p].tun = peer[p].tun \/ \E c : peer'[p].tun = Append(peer[p].tun, c)
    BY <1>1, <1>2 DEF Writes
  <2>2. ASSUME NEW c PROVE Range(peer[p].tun) \subseteq Range(Append(peer[p].tun, c))
    <3> DEFINE z == peer[p].tun
               w == Append(z, c)
    <3>1. /\ Len(z) \in Nat /\ Range(z) = {z[i] : i \in 1..Len(z)}
          /\ DOMAIN w = 1..Len(z) + 1 /\ \A i \in 1..Len(z) : w[i] = z[i]
      BY <1>3 DEF Range
    <3> HIDE DEF z, w
    <3>2. Range(z) \subseteq Range(w)
      BY <3>1 DEF Range
    <3> QED BY <3>2 DEF z, w
  <2> QED BY <2>1, <2>2
<1>6. ASSUME NEW id \in 1..Len(sent[p])
      PROVE  id \in 1..Len(sent'[p]) /\ sent'[p][id] = sent[p][id]
  <2>1. sent'[p] = sent[p] \/ \E packet : sent'[p] = Append(sent[p], packet)
    BY <1>1, <1>3
  <2>2. ASSUME NEW packet, sent'[p] = Append(sent[p], packet)
        PROVE  id \in 1..Len(sent'[p]) /\ sent'[p][id] = sent[p][id]
    BY <1>3, <2>2
  <2> QED BY <2>1, <2>2
<1> QED BY <1>4, <1>5, <1>6

AckedWritten ==
    \A p \in Peers : \A id \in acked[p] :
        /\ id \in 1..Len(sent[p])
        /\ \/ id \in peer[Other(p)].dropped
           \/ Cut(sent[p][id]) \in Range(peer[Other(p)].tun)

LEMMA NextAcked ==
    ASSUME Inv, LinkInv, [Next]_vars, AckedWritten PROVE AckedWritten'
<1> SUFFICES ASSUME NEW p \in Peers, NEW id \in acked'[p]
             PROVE  /\ id \in 1..Len(sent'[p])
                    /\ \/ id \in peer'[Other(p)].dropped
                       \/ Cut(sent'[p][id]) \in Range(peer'[Other(p)].tun)
  BY DEF AckedWritten
<1>1. ASSUME id \in 1..Len(sent[p]),
             \/ id \in peer[Other(p)].dropped
             \/ Cut(sent[p][id]) \in Range(peer[Other(p)].tun)
      PROVE  /\ id \in 1..Len(sent'[p])
             /\ \/ id \in peer'[Other(p)].dropped
                \/ Cut(sent'[p][id]) \in Range(peer'[Other(p)].tun)
  <2>1. id \in 1..Len(sent'[p]) /\ sent'[p][id] = sent[p][id]
    BY <1>1, HistoriesGrow
  <2>2. Other(p) \in Peers
    BY TwoPeers
  <2>3. /\ peer[Other(p)].dropped \subseteq peer'[Other(p)].dropped
        /\ Range(peer[Other(p)].tun) \subseteq Range(peer'[Other(p)].tun)
    BY <2>2, HistoriesGrow
  <2> QED BY <1>1, <2>1, <2>3
<1>2. CASE id \in acked[p]
  BY <1>1, <1>2 DEF AckedWritten
<1>3. CASE id \notin acked[p]
  <2>1. PICK k \in Peers :
               /\ sent[k] # <<>> /\ acked' = [acked EXCEPT ![k] = @ \union {Len(sent[k])}]
               /\ \E last : /\ last = sent[k][Len(sent[k])]
                           /\ \E seq : Got(peer[Other(k)], last, FrameCount(last), seq)
    BY <1>3, Effects
  <2>2. k = p /\ id = Len(sent[p])
    BY <1>3, <2>1 DEF Inv, TypeOK
  <2>3. PICK last, seq : /\ last = sent[p][id]
                         /\ Got(peer[Other(p)], last, FrameCount(last), seq)
    BY <2>1, <2>2
  <2>4. PacketsOK(sent[p])
    BY DEF LinkInv, Direction
  <2>5. id \in 1..Len(sent[p]) /\ last.id = id /\ Whole(last)
    BY <2>1, <2>2, <2>3, <2>4, PacketFacts
  <2>6. ~(FrameCount(last) < FrameCount(last))
    BY <2>5, CountFacts
  <2>7. last.id \in peer[Other(p)].dropped \/ Cut(last) \in Range(peer[Other(p)].tun)
    BY <2>3, <2>6 DEF Got
  <2> QED BY <1>1, <2>3, <2>5, <2>7
<1> QED BY <1>2, <1>3

\* A packet whose last frame rx_pck() took as acknowledged has been written to the
\* other TUN interface, unless reass_timeout() dropped it there.
THEOREM AcknowledgedIsWritten ==
    ASSUME Late <= MAX_TRIES PROVE Spec => []AckedMeansWritten
<1>1. Init => AckedWritten
  BY DEF Init, AckedWritten
<1>2. Inv /\ LinkInv /\ [Next]_vars /\ AckedWritten => AckedWritten'
  BY NextAcked
<1>3. AckedWritten => AckedMeansWritten
  BY DEF AckedWritten, AckedMeansWritten
<1> QED BY <1>1, <1>2, <1>3, LinkInvariance, PTL DEF Spec

-----------------------------------------------------------------------------
(* The packet link                                                         *)

\* Position() and Arrived() of any histories.
PositionIn(packets, fragments) ==
    LET Is(i) == fragments = Cut(packets[i])
        all == 1..Len(packets)
    IN  IF \E i \in all : Is(i) THEN CHOOSE i \in all : Is(i) ELSE 0
ArrivedIn(packets, tun) == [i \in 1..Len(tun) |-> PositionIn(packets, tun[i])]
LastIn(arrived) == IF arrived = <<>> THEN 0 ELSE arrived[Len(arrived)]

\* A packet is found where it was sent.
LEMMA PositionIs ==
    ASSUME NEW packets, PacketsOK(packets), NEW k \in 1..Len(packets)
    PROVE  PositionIn(packets, Cut(packets[k])) = k
<1> DEFINE Is(i) == Cut(packets[k]) = Cut(packets[i])
           found == CHOOSE i \in 1..Len(packets) : Is(i)
<1>1. ASSUME NEW i \in 1..Len(packets), Is(i) PROVE i = k
  <2>1. /\ Whole(packets[i]) /\ packets[i].id = i
        /\ Whole(packets[k]) /\ packets[k].id = k
    BY PacketFacts
  <2> QED BY <1>1, <2>1, CutInjective
<1>2. Is(k)
  OBVIOUS
<1>3. found \in 1..Len(packets) /\ Is(found)
  <2> HIDE DEF Is
  <2> QED BY <1>2
<1>4. found = k
  <2> HIDE DEF Is, found
  <2> QED BY <1>1, <1>3
<1>5. PositionIn(packets, Cut(packets[k])) = found
  BY <1>2 DEF PositionIn
<1> QED BY <1>4, <1>5

\* Later packets do not change where the ones that arrived are found.
LEMMA ArrivedMore ==
    ASSUME NEW r, NEW packets, PacketsOK(packets), TunOK(r, packets),
           NEW more, PacketsOK(more), Len(packets) <= Len(more),
           \A k \in 1..Len(packets) : more[k] = packets[k]
    PROVE  ArrivedIn(more, r.tun) = ArrivedIn(packets, r.tun)
<1>1. Len(packets) \in Nat /\ Len(more) \in Nat
  BY PacketFacts
<1>2. ASSUME NEW i \in 1..Len(r.tun)
      PROVE  PositionIn(more, r.tun[i]) = PositionIn(packets, r.tun[i])
  <2>1. PICK n \in 1..Len(packets) : r.tun[i] = Cut(packets[n])
    BY DEF TunOK
  <2>2. PositionIn(packets, r.tun[i]) = n
    BY <2>1, PositionIs
  <2>3. n \in 1..Len(more) /\ more[n] = packets[n]
    BY <1>1
  <2>4. PositionIn(more, Cut(more[n])) = n
    BY <2>3, PositionIs
  <2> QED BY <2>1, <2>2, <2>3, <2>4
<1> QED BY <1>2 DEF ArrivedIn

\* What is written arrives after everything that has, or again.
LEMMA ArrivesNext ==
    ASSUME NEW r, r.tun \in Seq(Seq(Fragments)), NEW t, NEW packets, PacketsOK(packets),
           TunOK(r, packets), NEW packet \in Range(packets), Writes(r, t, packet),
           t.tun # r.tun
    PROVE  LET arrived == ArrivedIn(packets, r.tun)
               id == packet.id
           IN  /\ id \in 1..Len(packets)
               /\ id > LastIn(arrived) \/ (id = LastIn(arrived) /\ OneFrame(packets[id]))
               /\ ArrivedIn(packets, t.tun) = Append(arrived, id)
<1> DEFINE arrived == ArrivedIn(packets, r.tun)
           id == packet.id
           n == Len(r.tun)
           tun == r.tun
<1>1. /\ id \in 1..Len(packets) /\ packets[id] = packet /\ Whole(packet)
      /\ Len(packets) \in Nat /\ id \in Nat /\ id >= 1
  BY PacketFacts
<1>2. /\ t.tun = Append(tun, Cut(packet))
      /\ Below(r, id) \/ (Below(r, id + 1) /\ FrameCount(packet) = 1)
  BY DEF Writes
<1>3. tun \in Seq(Seq(Fragments)) /\ n \in Nat /\ n = Len(tun)
  OBVIOUS
<1>4. /\ arrived = [i \in 1..n |-> PositionIn(packets, tun[i])]
      /\ DOMAIN arrived = 1..n /\ \A i \in 1..n : arrived[i] = PositionIn(packets, tun[i])
  BY DEF ArrivedIn
<1>5. ASSUME NEW i \in 1..n
      PROVE  arrived[i] \in Nat /\ arrived[i] = tun[i][1].id
  <2>1. PICK k \in 1..Len(packets) : tun[i] = Cut(packets[k])
    BY DEF TunOK
  <2>2. Whole(packets[k]) /\ packets[k].id = k
    BY PacketFacts
  <2>3. tun[i][1].id = k
    BY <2>1, <2>2, FirstFragment
  <2>4. arrived[i] = k
    BY <1>4, <2>1, PositionIs
  <2> QED BY <1>1, <2>3, <2>4
<1> HIDE DEF arrived
<1>6. arrived \in Seq(Nat) /\ Len(arrived) = n
  <2>1. arrived \in [1..n -> Nat]
    <3>1. \A i \in 1..n : arrived[i] \in Nat
      BY <1>5
    <3>2. arrived = [i \in 1..n |-> arrived[i]]
      BY <1>4
    <3> HIDE DEF n
    <3> QED BY <3>1, <3>2
  <2>2. \A N \in Nat : \A f \in [1..N -> Nat] : f \in Seq(Nat) /\ Len(f) = N
    OBVIOUS
  <2>3. n \in Nat
    BY <1>3
  <2> HIDE DEF n
  <2> QED BY <2>1, <2>2, <2>3
<1>7. LastIn(arrived) = IF n = 0 THEN 0 ELSE tun[n][1].id
  <2>1. CASE n = 0
    BY <1>6, <2>1 DEF LastIn
  <2>2. CASE n # 0
    <3>1. n \in 1..n /\ arrived # <<>>
      BY <1>3, <1>6, <2>2
    <3> QED BY <1>5, <1>6, <2>2, <3>1 DEF LastIn
  <2> QED BY <2>1, <2>2
<1>8. n # 0 => tun[n][1].id \in Nat
  <2>1. n # 0 => n \in 1..n
    BY <1>3
  <2> QED BY <1>5, <2>1
<1>9. id > LastIn(arrived) \/ (id = LastIn(arrived) /\ OneFrame(packets[id]))
  <2>1. CASE n = 0
    BY <1>1, <1>7, <2>1
  <2>2. CASE n # 0
    <3>1. \A m \in Nat : Below(r, m) => tun[n][1].id < m
      BY <1>3, <2>2 DEF Below
    <3>2. CASE Below(r, id)
      BY <1>1, <1>7, <1>8, <2>2, <3>1, <3>2
    <3>3. CASE Below(r, id + 1) /\ FrameCount(packet) = 1
      <4>1. tun[n][1].id < id + 1
        BY <1>1, <3>1, <3>3
      <4>2. packet.size <= MAX_FRAG
        BY <1>1, <3>3, CountFacts, Constants
      <4> QED BY <1>1, <1>7, <1>8, <2>2, <4>1, <4>2 DEF OneFrame
    <3> QED BY <1>2, <3>2, <3>3
  <2> QED BY <2>1, <2>2
<1>10. ArrivedIn(packets, t.tun) = Append(arrived, id)
  <2> DEFINE w == t.tun
             v == ArrivedIn(packets, w)
  <2>1. /\ Len(w) = n + 1 /\ w[n + 1] = Cut(packet) /\ \A i \in 1..n : w[i] = tun[i]
    <3>1. Cut(packet) \in Seq(Fragments)
      BY <1>1, CutFacts
    <3> QED BY <1>2, <1>3, <3>1
  <2>2. PositionIn(packets, Cut(packet)) = id
    BY <1>1, PositionIs
  <2>3. /\ DOMAIN v = 1..n + 1
        /\ \A i \in 1..n + 1 : v[i] = PositionIn(packets, w[i])
        /\ v = [i \in 1..n + 1 |-> PositionIn(packets, w[i])]
    BY <2>1 DEF ArrivedIn
  <2> HIDE DEF v, w
  <2>4. \A i \in 1..n + 1 : v[i] = Append(arrived, id)[i]
    <3> TAKE i \in 1..n + 1
    <3>1. CASE i = n + 1
      BY <1>6, <2>1, <2>2, <2>3, <3>1
    <3>2. CASE i \in 1..n
      BY <1>3, <1>4, <1>6, <2>1, <2>3, <3>2
    <3>3. i = n + 1 \/ i \in 1..n
      <4>1. \A N \in Nat : \A k \in 1..N + 1 : k = N + 1 \/ k \in 1..N
        OBVIOUS
      <4> QED BY <1>3, <4>1
    <3> QED BY <3>1, <3>2, <3>3
  <2>5. Append(arrived, id) \in Seq(Nat) /\ Len(Append(arrived, id)) = n + 1
    BY <1>1, <1>6
  <2>6. v = [i \in 1..n + 1 |-> v[i]]
    BY <2>3
  <2>7. Append(arrived, id) = [i \in 1..n + 1 |-> Append(arrived, id)[i]]
    BY <2>5
  <2>8. v = Append(arrived, id)
    BY <2>4, <2>6, <2>7
  <2> QED BY <2>8 DEF v, w
<1> QED BY <1>1, <1>9, <1>10 DEF arrived

\* A step of a packet link.
LinkStep(packets, arrived, packets2, arrived2, content) ==
    \/ packets2 = packets /\ arrived2 = arrived
    \/ arrived2 = arrived /\ \E c \in content : packets2 = Append(packets, c)
    \/ /\ packets2 = packets
       /\ \E id \in 1..Len(packets) :
              /\ id > LastIn(arrived) \/ (id = LastIn(arrived) /\ OneFrame(packets[id]))
              /\ arrived2 = Append(arrived, id)

LEMMA ArrivedIs ==
    ASSUME NEW p \in Peers
    PROVE  /\ Arrived(p) = ArrivedIn(sent[Other(p)], peer[p].tun)
           /\ Arrived(p)' = ArrivedIn(sent'[Other(p)], peer'[p].tun)
BY DEF Arrived, Position, ArrivedIn, PositionIn

LEMMA LinkSteps ==
    ASSUME Inv, LinkInv, [Next]_vars, NEW p \in Peers
    PROVE  LinkStep(sent[Other(p)], Arrived(p), sent'[Other(p)], Arrived(p)',
                    AllPackets(Other(p)))
<1> DEFINE q == Other(p)
           r == peer[p]
           t == peer'[p]
           packets == sent[q]
           packets2 == sent'[q]
           arrived == ArrivedIn(packets, r.tun)
           arrived2 == ArrivedIn(packets2, t.tun)
<1>0. q \in Peers /\ q # p /\ Other(q) = p /\ \A k \in Peers : k = p \/ k = q
  BY TwoPeers
<1>1. Direction(peer[q], r, net[q], net[p], packets, late)
  BY <1>0 DEF LinkInv
<1>2. PacketsOK(packets) /\ TunOK(r, packets)
  BY <1>1 DEF Direction
<1>3. r.tun \in Seq(Seq(Fragments)) /\ sent \in [Peers -> Seq(Packets)]
  BY InvFacts DEF Inv, TypeOK
<1>4. \/ t.tun = r.tun /\ packets2 = packets
      \/ /\ t.tun = r.tun /\ Len(packets) < Offered[q]
         /\ \E size \in Sizes :
                packets2 = Append(packets, [id |-> Len(packets) + 1, size |-> size])
      \/ packets2 = packets /\ \E packet \in Range(packets) : Writes(r, t, packet)
  <2>1. PICK k \in Peers :
               /\ peer'[Other(k)] = peer[Other(k)]
               /\ \/ /\ peer'[k].tun = peer[k].tun
                     /\ \/ sent' = sent
                        \/ /\ Len(sent[k]) < Offered[k]
                           /\ \E size \in Sizes :
                                 sent' = [sent EXCEPT ![k] =
                                     Append(@, [id |-> Len(sent[k]) + 1, size |-> size])]
                  \/ /\ sent' = sent
                     /\ \E packet \in Range(sent[Other(k)]) : Writes(peer[k], peer'[k], packet)
    BY Effects
  <2>2. CASE k = p
    BY <1>0, <1>3, <2>1, <2>2
  <2>3. CASE k = q
    BY <1>0, <1>3, <2>1, <2>3
  <2> QED BY <1>0, <2>2, <2>3
<1>5. LinkStep(packets, arrived, packets2, arrived2, AllPackets(q))
  <2> HIDE DEF r, t, packets, packets2
  <2>1. CASE t.tun = r.tun /\ packets2 = packets
    BY <2>1 DEF LinkStep
  <2>2. ASSUME NEW size \in Sizes, t.tun = r.tun, Len(packets) < Offered[q],
               packets2 = Append(packets, [id |-> Len(packets) + 1, size |-> size])
        PROVE  LinkStep(packets, arrived, packets2, arrived2, AllPackets(q))
    <3> DEFINE packet == [id |-> Len(packets) + 1, size |-> size]
    <3>1. /\ PacketsOK(packets2) /\ Len(packets2) = Len(packets) + 1
          /\ \A k \in 1..Len(packets) : packets2[k] = packets[k]
      BY <1>2, <2>2, AppendedPackets
    <3>2. Len(packets) \in Nat
      BY <1>2, PacketFacts
    <3>3. arrived2 = arrived
      <4>1. Len(packets) <= Len(packets2)
        BY <3>1, <3>2
      <4>2. ArrivedIn(packets2, r.tun) = ArrivedIn(packets, r.tun)
        BY <1>2, <3>1, <4>1, ArrivedMore DEF packets, r
      <4> QED BY <2>2, <4>2
    <3>4. packet \in AllPackets(q)
      <4>1. Offered[q] \in Nat
        BY <1>0, DirtpanAssumption
      <4>2. Len(packets) + 1 \in 1..Offered[q]
        BY <2>2, <3>2, <4>1
      <4> QED BY <4>2 DEF AllPackets
    <3> HIDE DEF packet, arrived, arrived2
    <3>5. packets2 = Append(packets, packet)
      BY <2>2 DEF packet
    <3> QED BY <3>3, <3>4, <3>5 DEF LinkStep
  <2>3. ASSUME packets2 = packets, NEW packet \in Range(packets), Writes(r, t, packet),
               t.tun # r.tun
        PROVE  LinkStep(packets, arrived, packets2, arrived2, AllPackets(q))
    <3>1. /\ packet.id \in 1..Len(packets)
          /\ \/ packet.id > LastIn(arrived)
             \/ packet.id = LastIn(arrived) /\ OneFrame(packets[packet.id])
          /\ ArrivedIn(packets, t.tun) = Append(arrived, packet.id)
      <4>1. r.tun \in Seq(Seq(Fragments))
        BY <1>3 DEF r
      <4> QED BY <4>1, <1>2, <2>3, ArrivesNext
    <3>2. arrived2 = Append(arrived, packet.id)
      BY <2>3, <3>1
    <3> HIDE DEF arrived, arrived2
    <3> QED BY <2>3, <3>1, <3>2 DEF LinkStep
  <2> HIDE DEF arrived, arrived2
  <2>4. \/ t.tun = r.tun /\ packets2 = packets
        \/ /\ t.tun = r.tun /\ Len(packets) < Offered[q]
           /\ \E size \in Sizes :
                  packets2 = Append(packets, [id |-> Len(packets) + 1, size |-> size])
        \/ packets2 = packets /\ \E packet \in Range(packets) : Writes(r, t, packet)
    BY <1>4 DEF r, t, packets, packets2
  <2> QED BY <2>1, <2>2, <2>3, <2>4
<1> QED BY <1>5, ArrivedIs

\* In both directions dirtpan is a packet link: what is written to a TUN interface
\* is whole and in the order tx_pck() read it from the other, and twice only if it
\* fits into one frame.
THEOREM ImplementsLink == ASSUME Late <= MAX_TRIES PROVE Spec => LinkSpec
<1>0. /\ Peer1 \in Peers /\ Peer2 \in Peers
      /\ Other(Peer1) = Peer2 /\ Other(Peer2) = Peer1
  BY DirtpanAssumption DEF Peers, Other
<1>1. Init => LinkTo1!Init /\ LinkTo2!Init
  <2> SUFFICES ASSUME Init PROVE LinkTo1!Init /\ LinkTo2!Init
    OBVIOUS
  <2>1. /\ sent[Peer1] = <<>> /\ sent[Peer2] = <<>>
        /\ peer[Peer1].tun = <<>> /\ peer[Peer2].tun = <<>>
    BY <1>0 DEF Init, PeerInit
  <2>2. ArrivedIn(<<>>, <<>>) = <<>>
    BY DEF ArrivedIn
  <2>3. Arrived(Peer1) = <<>> /\ Arrived(Peer2) = <<>>
    BY <1>0, <2>1, <2>2, ArrivedIs
  <2> QED BY <2>1, <2>3 DEF LinkTo1!Init, LinkTo2!Init
<1>2. Inv /\ LinkInv /\ [Next]_vars => [LinkTo1!Next]_(LinkTo1!vars)
  <2> SUFFICES ASSUME Inv, LinkInv, [Next]_vars PROVE [LinkTo1!Next]_(LinkTo1!vars)
    OBVIOUS
  <2>1. LinkStep(sent[Peer2], Arrived(Peer1), sent'[Peer2], Arrived(Peer1)', AllPackets(Peer2))
    BY <1>0, LinkSteps
  <2> QED BY <2>1 DEF LinkStep, LastIn, LinkTo1!Next, LinkTo1!Send, LinkTo1!Arrive,
                      LinkTo1!Last, LinkTo1!vars
<1>3. Inv /\ LinkInv /\ [Next]_vars => [LinkTo2!Next]_(LinkTo2!vars)
  <2> SUFFICES ASSUME Inv, LinkInv, [Next]_vars PROVE [LinkTo2!Next]_(LinkTo2!vars)
    OBVIOUS
  <2>1. LinkStep(sent[Peer1], Arrived(Peer2), sent'[Peer1], Arrived(Peer2)', AllPackets(Peer1))
    BY <1>0, LinkSteps
  <2> QED BY <2>1 DEF LinkStep, LastIn, LinkTo2!Next, LinkTo2!Send, LinkTo2!Arrive,
                      LinkTo2!Last, LinkTo2!vars
<1> QED BY <1>1, <1>2, <1>3, LinkInvariance, PTL DEF Spec, LinkSpec, LinkTo1!Spec, LinkTo2!Spec
=============================================================================
