--------------------------- MODULE NetProxyProofs ---------------------------
(***************************************************************************)
(* Proofs about NetProxy, for any number of clients, calls, failures and   *)
(* interrupts.                                                             *)
(*                                                                         *)
(* TypeCorrect comes first.  Then Sync, an invariant that says for each    *)
(* client that is not in error what its connection can hold, given where   *)
(* it and the proxy are: the lemmas about it follow a request and its      *)
(* reply through these stages, each as a fact about one client, two        *)
(* sequences and the place of the proxy.  OwnReply and EarlierDone follow  *)
(* from it.  Mortal adds what a client that ends can leave behind, and     *)
(* KilledHalfWay is a part of it.                                          *)
(***************************************************************************)
EXTENDS NetProxy, TLAPS

-----------------------------------------------------------------------------
(* Types                                                                   *)

LEMMA RequestTypes ==
    /\ Idle \in Requests
    /\ Direct \subseteq Requests
    /\ \A t \in {"timed", "forever", "quick"} : Request("WAIT", t) \in Requests
BY DEF Idle, Direct, Requests, Request, Ungated, Checked

LEMMA MessageTypes ==
    ASSUME NEW req \in Requests, NEW id \in Nat, NEW part \in {"line", "data"}
    PROVE  Message(part, req, id) \in Messages
BY DEF Message, Messages

LEMMA AnswerTypes ==
    ASSUME NEW part \in {"line", "head", "data"}, NEW plus \in BOOLEAN,
           NEW int \in BOOLEAN, NEW id \in Nat
    PROVE  Answer(part, plus, int, id) \in Answers
BY DEF Answer, Answers

LEMMA ReplyTypes ==
    ASSUME NEW id \in Nat
    PROVE  Plus(id) \in Answers /\ Minus(id) \in Answers
BY AnswerTypes DEF Plus, Minus

LEMMA ClientWritesType ==
    ASSUME TypeOK, NEW c \in Clients, NEW now \in ClientType,
           NEW m \in Messages, ClientWrites(c, now, m)
    PROVE  client' \in [Clients -> ClientType] /\ up' \in [Clients -> Seq(Messages)]
<1>1. [now EXCEPT !.pc = "gone"] \in ClientType
  BY DEF ClientType
<1>2. [now EXCEPT !.reset = TRUE] \in ClientType
  BY DEF ClientType
<1>3. client' \in [Clients -> ClientType]
  BY <1>1, <1>2 DEF ClientWrites, TypeOK
<1>4. up' \in [Clients -> Seq(Messages)]
  BY DEF ClientWrites, TypeOK
<1> QED BY <1>3, <1>4

LEMMA ProxyWritesType ==
    ASSUME TypeOK, NEW now \in ProxyType, NEW m \in Answers, ProxyWrites(now, m)
    PROVE  proxy' \in ProxyType /\ down' \in [Clients -> Seq(Answers)]
<1>1. [now EXCEPT !.pc = "dead"] \in ProxyType
  BY DEF ProxyType
<1>2. [now EXCEPT !.reset = TRUE] \in ProxyType
  BY DEF ProxyType
<1>3. proxy' \in ProxyType
  BY <1>1, <1>2 DEF ProxyWrites
<1>4. now.with \in Clients
  BY DEF ProxyType
<1>5. Append(down[now.with], m) \in Seq(Answers)
  BY <1>4 DEF TypeOK
<1>6. down' \in [Clients -> Seq(Answers)]
  <2>1. CASE Gone(now.with)
    BY <2>1 DEF ProxyWrites, TypeOK
  <2>2. CASE ~Gone(now.with)
    BY <2>2, <1>5 DEF ProxyWrites, TypeOK
  <2> QED BY <2>1, <2>2
<1> QED BY <1>3, <1>6

LEMMA HeadTypes ==
    ASSUME TypeOK, up[proxy.with] # <<>>
    PROVE  /\ Next0 \in Messages /\ Next0.req \in Requests /\ Next0.id \in Nat
           /\ proxy.with \in Clients
<1>1. proxy.with \in Clients
  BY DEF TypeOK, ProxyType
<1>2. up[proxy.with] \in Seq(Messages)
  BY <1>1 DEF TypeOK
<1>3. Next0 \in Messages
  BY <1>2 DEF Next0
<1> QED BY <1>1, <1>3 DEF Messages

LEMMA TakesType ==
    ASSUME TypeOK, NEW part, Takes(part)
    PROVE  /\ up' \in [Clients -> Seq(Messages)]
           /\ up[proxy.with] # <<>>
           /\ \A pc \in {"command", "write", "read", "wait"}, e \in BOOLEAN :
                 After(pc, e) \in ProxyType
<1>1. up[proxy.with] # <<>> /\ up' = [up EXCEPT ![proxy.with] = Tail(@)]
  BY DEF Takes
<1>2. up[proxy.with] \in Seq(Messages) /\ proxy.with \in Clients
  BY <1>1, HeadTypes DEF TypeOK
<1>3. Tail(up[proxy.with]) \in Seq(Messages)
  BY <1>1, <1>2
<1>4. up' \in [Clients -> Seq(Messages)]
  BY <1>1, <1>3 DEF TypeOK
<1>5. ASSUME NEW pc \in {"command", "write", "read", "wait"}, NEW e \in BOOLEAN
      PROVE  After(pc, e) \in ProxyType
  BY <1>1, HeadTypes DEF TypeOK, After, ProxyType
<1> QED BY <1>1, <1>4, <1>5

LEMMA EndSessionType == ASSUME TypeOK PROVE EndSession \in ProxyType
BY DEF TypeOK, ProxyType, EndSession

LEMMA AttemptType ==
    ASSUME TypeOK, NEW done \in BOOLEAN, Attempt(done)
    PROVE  failed' \in 0..Fails
BY NetProxyAssumption DEF TypeOK, Attempt

LEMMA InitType == Init => TypeOK
<1> SUFFICES ASSUME Init PROVE TypeOK
  OBVIOUS
<1>1. client \in [Clients -> ClientType]
  BY RequestTypes DEF Init, ClientType
<1>2. proxy \in ProxyType
  BY RequestTypes DEF Init, ProxyType
<1>3. failed \in 0..Fails /\ raised \in 0..Irqs
  BY NetProxyAssumption DEF Init
<1>4. up \in [Clients -> Seq(Messages)] /\ down \in [Clients -> Seq(Answers)]
  BY DEF Init
<1>5. undone \in [Clients -> SUBSET Nat]
  BY DEF Init
<1> QED BY <1>1, <1>2, <1>3, <1>4, <1>5 DEF Init, TypeOK

LEMMA LeavesType ==
    ASSUME TypeOK, NEW c \in Clients, Leaves(c)
    PROVE  TypeOK'
<1>1. client' \in [Clients -> ClientType]
  BY DEF Leaves, TypeOK, ClientType
<1>2. proxy' \in ProxyType
  BY DEF Leaves, TypeOK, ProxyType
<1>3. down' \in [Clients -> Seq(Answers)]
  BY DEF Leaves, TypeOK
<1> QED BY <1>1, <1>2, <1>3 DEF Leaves, TypeOK

LEMMA ProgramType ==
    ASSUME TypeOK, NEW c \in Clients, Program(c)
    PROVE  TypeOK'
<1>1. CASE Connect(c)
  <2>1. client' \in [Clients -> ClientType]
    BY <1>1 DEF Connect, TypeOK, ClientType
  <2> QED BY <1>1, <2>1 DEF Connect, TypeOK
<1>2. CASE EnterWait(c)
  <2>1. client' \in [Clients -> ClientType]
    <3>1. PICK t \in {"timed", "forever", "quick"} :
              client' = [client EXCEPT ![c].wait = t, ![c].id = @ + 1]
      BY <1>2 DEF EnterWait
    <3>2. client \in [Clients -> ClientType] /\ client[c] \in ClientType
      BY DEF TypeOK
    <3>3. client' = [client EXCEPT
              ![c] = [client[c] EXCEPT !.wait = t, !.id = client[c].id + 1]]
      BY <3>1, <3>2
    <3>4. client[c].id + 1 \in Nat
      BY <3>2 DEF ClientType
    <3>5. [client[c] EXCEPT !.wait = t, !.id = client[c].id + 1] \in ClientType
      BY <3>2, <3>4, Zenon DEF ClientType
    <3> QED BY <3>2, <3>3, <3>5
  <2> QED BY <1>2, <2>1 DEF EnterWait, TypeOK
<1>3. CASE Leave(c)
  BY <1>3, LeavesType DEF Leave
<1>4. ASSUME NEW req \in Direct, Call(c, req) PROVE TypeOK'
  <2> DEFINE id == client[c].id + 1
             now == [Sent(c, req) EXCEPT !.id = id]
  <2>a. req \in Requests /\ client[c] \in ClientType
    BY RequestTypes DEF TypeOK
  <2>b. id \in Nat
    BY <2>a DEF ClientType
  <2>1. now \in ClientType /\ Message("line", req, id) \in Messages
    BY <2>a, <2>b, MessageTypes DEF ClientType, Sent
  <2>2. ClientWrites(c, now, Message("line", req, id))
    BY <1>4 DEF Call
  <2>3. client' \in [Clients -> ClientType] /\ up' \in [Clients -> Seq(Messages)]
    BY <2>1, <2>2, ClientWritesType
  <2> QED BY <1>4, <2>3 DEF Call, TypeOK
<1> QED BY <1>1, <1>2, <1>3, <1>4 DEF Program

LEMMA ReturnsType ==
    ASSUME TypeOK, NEW c \in Clients, NEW fine \in BOOLEAN, NEW int \in BOOLEAN,
           Returns(c, fine, int)
    PROVE  client' \in [Clients -> ClientType]
<1>1. PICK wanted \in BOOLEAN :
          client' = [client EXCEPT
              ![c].pc = "ready",
              ![c].error = @ \/ FlagsError(c, fine),
              ![c].wait = WaitGoesOn(@, fine /\ int, wanted)]
  BY DEF Returns
<1>2. client[c].error \/ FlagsError(c, fine) \in BOOLEAN
  BY DEF FlagsError
<1>3. WaitGoesOn(client[c].wait, fine /\ int, wanted)
          \in {"none", "timed", "expired", "last", "forever", "quick"}
  BY DEF WaitGoesOn, TypeOK, ClientType
<1>4. client[c] \in ClientType
  BY DEF TypeOK
<1> DEFINE now == [client[c] EXCEPT
              !.pc = "ready",
              !.error = client[c].error \/ FlagsError(c, fine),
              !.wait = WaitGoesOn(client[c].wait, fine /\ int, wanted)]
<1>5. now \in ClientType
  BY <1>2, <1>3, <1>4 DEF ClientType
<1>6. client' = [client EXCEPT ![c] = now]
  BY <1>1, <1>4 DEF TypeOK
<1> QED BY <1>5, <1>6 DEF TypeOK

LEMMA DownType ==
    ASSUME TypeOK, NEW c \in Clients, down[c] # <<>>
    PROVE  /\ [down EXCEPT ![c] = Tail(@)] \in [Clients -> Seq(Answers)]
           /\ Head(down[c]) \in Answers
           /\ Head(down[c]).plus \in BOOLEAN /\ Head(down[c]).irq \in BOOLEAN
<1>1. down[c] \in Seq(Answers)
  BY DEF TypeOK
<1>2. Tail(down[c]) \in Seq(Answers) /\ Head(down[c]) \in Answers
  BY <1>1
<1> QED BY <1>2 DEF TypeOK, Answers

LEMMA RunsType ==
    ASSUME TypeOK, NEW c \in Clients, Runs(c)
    PROVE  TypeOK'
<1>1. CASE CallWriteData(c)
  <2> DEFINE now == [client[c] EXCEPT !.pc = "reply"]
             m == Message("data", client[c].req, client[c].id)
  <2>1. now \in ClientType /\ m \in Messages
    BY MessageTypes DEF TypeOK, ClientType
  <2>2. client' \in [Clients -> ClientType] /\ up' \in [Clients -> Seq(Messages)]
    BY <1>1, <2>1, ClientWritesType DEF CallWriteData
  <2> QED BY <1>1, <2>2 DEF CallWriteData, TypeOK
<1>2. CASE AskIrq(c)
  <2> DEFINE w == client[c].wait
             req == Request("WAIT", Timeout(w))
             now == [Sent(c, req) EXCEPT !.wait = IF w = "expired" THEN "last" ELSE w]
  <2>1. w \in {"timed", "expired", "forever", "quick"}
    BY <1>2 DEF AskIrq
  <2>2. req \in Requests
    BY <2>1, RequestTypes DEF Timeout
  <2>3. now \in ClientType /\ Message("line", req, client[c].id) \in Messages
    BY <2>1, <2>2, MessageTypes DEF TypeOK, ClientType, Sent
  <2>4. ClientWrites(c, now, Message("line", req, client[c].id))
    BY <1>2 DEF AskIrq
  <2>5. client' \in [Clients -> ClientType] /\ up' \in [Clients -> Seq(Messages)]
    BY <2>3, <2>4, ClientWritesType
  <2> QED BY <1>2, <2>5 DEF AskIrq, TypeOK
<1>3. CASE WaitFails(c)
  BY <1>3, LeavesType DEF WaitFails
<1>4. CASE Greeted(c)
  <2>1. client' \in [Clients -> ClientType]
    <3> DEFINE pc == IF Head(down[c]).plus THEN "ready" ELSE "gone"
    <3>1. pc \in {"ready", "gone"} /\ client[c] \in ClientType
      BY DEF TypeOK
    <3>2. [client[c] EXCEPT !.pc = pc] \in ClientType
      BY <3>1 DEF ClientType
    <3>3. client' = [client EXCEPT ![c] = [client[c] EXCEPT !.pc = pc]]
      BY <1>4 DEF Greeted
    <3> QED BY <3>2, <3>3 DEF TypeOK
  <2>2. down' \in [Clients -> Seq(Answers)]
    BY <1>4, DownType DEF Greeted
  <2> QED BY <1>4, <2>1, <2>2 DEF Greeted, TypeOK
<1>5. CASE TakeReply(c)
  <2>1. down[c] # <<>> /\ down' = [down EXCEPT ![c] = Tail(@)]
    BY <1>5 DEF TakeReply
  <2>2. down' \in [Clients -> Seq(Answers)] /\ Head(down[c]).irq \in BOOLEAN
    BY <2>1, DownType
  <2>3. \/ client' = [client EXCEPT ![c].pc = "body"]
        \/ Returns(c, FALSE, FALSE)
        \/ \E plus \in BOOLEAN : Returns(c, plus, Head(down[c]).irq)
    BY <1>5 DEF TakeReply
  <2>4. client' \in [Clients -> ClientType]
    <3>1. CASE client' = [client EXCEPT ![c].pc = "body"]
      BY <3>1 DEF TypeOK, ClientType
    <3>2. CASE Returns(c, FALSE, FALSE)
      BY <3>2, ReturnsType
    <3>3. CASE \E plus \in BOOLEAN : Returns(c, plus, Head(down[c]).irq)
      BY <3>3, <2>2, ReturnsType
    <3> QED BY <2>3, <3>1, <3>2, <3>3
  <2> QED BY <1>5, <2>2, <2>4 DEF TakeReply, TypeOK
<1>6. CASE TakeBody(c)
  <2>1. down' \in [Clients -> Seq(Answers)]
    BY <1>6, DownType DEF TakeBody
  <2>2. Returns(c, Head(down[c]).part = "data", FALSE)
    BY <1>6 DEF TakeBody
  <2>3. (Head(down[c]).part = "data") \in BOOLEAN
    OBVIOUS
  <2>4. client' \in [Clients -> ClientType]
    BY <2>2, <2>3, ReturnsType
  <2> QED BY <1>6, <2>1, <2>4 DEF TakeBody, TypeOK
<1>7. CASE HangUp(c)
  <2>1. client' \in [Clients -> ClientType]
    <3>1. CASE client' = [client EXCEPT ![c].pc = "gone"]
      BY <3>1 DEF TypeOK, ClientType
    <3>2. CASE Returns(c, FALSE, FALSE)
      BY <3>2, ReturnsType
    <3> QED BY <1>7, <3>1, <3>2 DEF HangUp
  <2> QED BY <1>7, <2>1 DEF HangUp, TypeOK
<1> QED BY <1>1, <1>2, <1>3, <1>4, <1>5, <1>6, <1>7 DEF Runs

LEMMA ServeType ==
    ASSUME TypeOK, Serve
    PROVE  TypeOK'
<1> DEFINE pcs == {"command", "write", "read", "wait"}
<1>a. proxy.with \in Clients /\ proxy.id \in Nat /\ proxy.error \in BOOLEAN
  BY DEF TypeOK, ProxyType
<1>b. ASSUME NEW part, Takes(part)
      PROVE  /\ up' \in [Clients -> Seq(Messages)]
             /\ \A pc \in pcs, e \in BOOLEAN : After(pc, e) \in ProxyType
             /\ Next0.id \in Nat
  BY <1>b, TakesType, HeadTypes
<1>1. CASE CmdSpec
  <2>1. Takes("line") /\ ProxyWrites(After("command", proxy.error), Plus(Next0.id))
    BY <1>1 DEF CmdSpec, Command
  <2>2. proxy' \in ProxyType /\ down' \in [Clients -> Seq(Answers)]
    BY <1>a, <1>b, <2>1, ReplyTypes, ProxyWritesType
  <2> QED BY <1>1, <1>b, <2>1, <2>2 DEF CmdSpec, TypeOK
<1>2. CASE CmdUnchecked
  <2>1. PICK done \in BOOLEAN :
            \/ /\ Attempt(done)
               /\ ProxyWrites(After("command", ~done), Plus(Next0.id))
               /\ undone' = [undone EXCEPT ![proxy.with] =
                                 IF done THEN @ ELSE @ \union {Next0.id}]
            \/ /\ done
               /\ ProxyWrites(After("command", ~done), Plus(Next0.id))
               /\ UNCHANGED <<undone, failed>>
    BY <1>2 DEF CmdUnchecked
  <2>2. Takes("line")
    BY <1>2 DEF CmdUnchecked, Command
  <2>3. proxy' \in ProxyType /\ down' \in [Clients -> Seq(Answers)]
    BY <1>b, <2>1, <2>2, ReplyTypes, ProxyWritesType
  <2>4. undone' \in [Clients -> SUBSET Nat]
    <3>1. Next0.id \in Nat
      BY <1>b, <2>2
    <3>2. undone \in [Clients -> SUBSET Nat]
      BY DEF TypeOK
    <3>3. [undone EXCEPT ![proxy.with] = @ \union {Next0.id}] \in [Clients -> SUBSET Nat]
      BY <1>a, <3>1, <3>2
    <3>4. \/ undone' = undone
          \/ undone' = [undone EXCEPT ![proxy.with] = @ \union {Next0.id}]
      BY <2>1, <3>2
    <3> QED BY <3>2, <3>3, <3>4
  <2>5. failed' \in 0..Fails
    BY <2>1, AttemptType DEF TypeOK
  <2> QED BY <1>2, <1>b, <2>2, <2>3, <2>4, <2>5 DEF CmdUnchecked, TypeOK
<1>3. CASE CmdChecked
  <2>1. PICK done \in BOOLEAN :
            /\ Attempt(done)
            /\ ProxyWrites(After("command", ~done),
                           Answer("line", done, FALSE, Next0.id))
    BY <1>3 DEF CmdChecked
  <2>2. Takes("line")
    BY <1>3 DEF CmdChecked, Command
  <2>3. proxy' \in ProxyType /\ down' \in [Clients -> Seq(Answers)]
    BY <1>b, <2>1, <2>2, AnswerTypes, ProxyWritesType
  <2>4. failed' \in 0..Fails
    BY <2>1, AttemptType
  <2> QED BY <1>3, <1>b, <2>2, <2>3, <2>4 DEF CmdChecked, TypeOK
<1>4. CASE CmdWrite
  <2>1. Takes("line")
    BY <1>4 DEF CmdWrite, Command
  <2>2. \/ ProxyWrites(After("command", proxy.error), Minus(Next0.id))
        \/ proxy' = After("write", proxy.error) /\ UNCHANGED down
    BY <1>4 DEF CmdWrite
  <2>3. proxy' \in ProxyType /\ down' \in [Clients -> Seq(Answers)]
    <3>1. CASE ProxyWrites(After("command", proxy.error), Minus(Next0.id))
      BY <3>1, <1>a, <1>b, <2>1, ReplyTypes, ProxyWritesType
    <3>2. CASE proxy' = After("write", proxy.error) /\ UNCHANGED down
      BY <3>2, <1>a, <1>b, <2>1 DEF TypeOK
    <3> QED BY <2>2, <3>1, <3>2
  <2> QED BY <1>4, <1>b, <2>1, <2>3 DEF CmdWrite, TypeOK
<1>5. CASE CmdRead
  <2>1. \/ ProxyWrites(After("read", FALSE), Answer("head", TRUE, FALSE, Next0.id))
        \/ ProxyWrites(After("command", TRUE), Minus(Next0.id))
        \/ ProxyWrites(After("command", FALSE), Minus(Next0.id))
    BY <1>5 DEF CmdRead
  <2>2. Takes("line")
    BY <1>5 DEF CmdRead, Command
  <2>3. proxy' \in ProxyType /\ down' \in [Clients -> Seq(Answers)]
    <3>1. CASE ProxyWrites(After("read", FALSE), Answer("head", TRUE, FALSE, Next0.id))
      BY <3>1, <1>b, <2>2, AnswerTypes, ProxyWritesType
    <3>2. CASE ProxyWrites(After("command", TRUE), Minus(Next0.id))
      BY <3>2, <1>b, <2>2, ReplyTypes, ProxyWritesType
    <3>3. CASE ProxyWrites(After("command", FALSE), Minus(Next0.id))
      BY <3>3, <1>b, <2>2, ReplyTypes, ProxyWritesType
    <3> QED BY <2>1, <3>1, <3>2, <3>3
  <2>4. failed' \in 0..Fails
    <3>1. (\E done \in BOOLEAN : Attempt(done)) \/ UNCHANGED failed
      BY <1>5 DEF CmdRead
    <3> QED BY <3>1, AttemptType DEF TypeOK
  <2> QED BY <1>5, <1>b, <2>2, <2>3, <2>4 DEF CmdRead, TypeOK
<1>6. CASE CmdWait
  <2>1. Takes("line")
    BY <1>6 DEF CmdWait, Command
  <2>2. \/ proxy' = After("command", proxy.error)
        \/ proxy' = EndSession
        \/ proxy' = After("wait", proxy.error)
    BY <1>6 DEF CmdWait
  <2>3. proxy' \in ProxyType
    BY <1>a, <1>b, <2>1, <2>2, EndSessionType
  <2> QED BY <1>6, <1>b, <2>1, <2>3 DEF CmdWait, TypeOK
<1>7. CASE WriteData
  <2>1. PICK done \in BOOLEAN :
            /\ Attempt(done)
            /\ ProxyWrites(After("command", ~done),
                           Answer("line", done, FALSE, Next0.id))
    BY <1>7 DEF WriteData
  <2>2. Takes("data")
    BY <1>7 DEF WriteData
  <2>3. proxy' \in ProxyType /\ down' \in [Clients -> Seq(Answers)]
    BY <1>b, <2>1, <2>2, AnswerTypes, ProxyWritesType
  <2>4. failed' \in 0..Fails
    BY <2>1, AttemptType
  <2> QED BY <1>7, <1>b, <2>2, <2>3, <2>4 DEF WriteData, TypeOK
<1>8. CASE ReadBody
  <2>1. ProxyWrites([proxy EXCEPT !.pc = "command"],
                    Answer("data", FALSE, FALSE, proxy.id))
    BY <1>8 DEF ReadBody
  <2>2. [proxy EXCEPT !.pc = "command"] \in ProxyType
    BY DEF TypeOK, ProxyType
  <2>3. proxy' \in ProxyType /\ down' \in [Clients -> Seq(Answers)]
    BY <1>a, <2>1, <2>2, AnswerTypes, ProxyWritesType
  <2> QED BY <1>8, <2>3 DEF ReadBody, TypeOK
<1>9. CASE ParseData
  <2>1. Takes("data")
    BY <1>9 DEF ParseData
  <2>2. \/ ProxyWrites(After("command", proxy.error), Minus(Next0.id))
        \/ proxy' = EndSession /\ UNCHANGED down
    BY <1>9 DEF ParseData
  <2>3. proxy' \in ProxyType /\ down' \in [Clients -> Seq(Answers)]
    <3>1. CASE ProxyWrites(After("command", proxy.error), Minus(Next0.id))
      BY <3>1, <1>a, <1>b, <2>1, ReplyTypes, ProxyWritesType
    <3>2. CASE proxy' = EndSession /\ UNCHANGED down
      BY <3>2, EndSessionType DEF TypeOK
    <3> QED BY <2>2, <3>1, <3>2
  <2> QED BY <1>9, <1>b, <2>1, <2>3 DEF ParseData, TypeOK
<1>10. CASE WaitReturns
  <2> DEFINE now(e) == [proxy EXCEPT !.pc = "command", !.error = e]
             same == [proxy EXCEPT !.pc = "command"]
  <2>1. same \in ProxyType /\ \A e \in BOOLEAN : now(e) \in ProxyType
    BY DEF TypeOK, ProxyType
  <2>2. CASE ProxyWrites(same, Minus(proxy.id)) /\ UNCHANGED <<irq, failed>>
    <3>1. proxy' \in ProxyType /\ down' \in [Clients -> Seq(Answers)]
      BY <1>a, <2>1, <2>2, ReplyTypes, ProxyWritesType
    <3> QED BY <1>10, <2>2, <3>1 DEF WaitReturns, TypeOK
  <2>3. CASE ProxyWrites(same, Plus(proxy.id)) /\ UNCHANGED <<irq, failed>>
    <3>1. proxy' \in ProxyType /\ down' \in [Clients -> Seq(Answers)]
      BY <1>a, <2>1, <2>3, ReplyTypes, ProxyWritesType
    <3> QED BY <1>10, <2>3, <3>1 DEF WaitReturns, TypeOK
  <2>4. ASSUME NEW done \in BOOLEAN,
               Attempt(done), irq' = ~done,
               ProxyWrites(now(~done), Answer("line", done, done, proxy.id))
        PROVE  TypeOK'
    <3>1. proxy' \in ProxyType /\ down' \in [Clients -> Seq(Answers)]
      BY <1>a, <2>1, <2>4, AnswerTypes, ProxyWritesType
    <3>2. failed' \in 0..Fails
      BY <2>4, AttemptType
    <3> QED BY <1>10, <2>4, <3>1, <3>2 DEF WaitReturns, TypeOK
  <2> QED BY <1>10, <2>2, <2>3, <2>4 DEF WaitReturns
<1>11. CASE Eof
  BY <1>11, EndSessionType DEF Eof, OnEof, TypeOK
<1>12. ASSUME NEW c \in Clients, Accept(c) PROVE TypeOK'
  <2> DEFINE now(opens, fine) ==
                 [pc |-> IF opens THEN "command" ELSE "accept", with |-> c,
                  error |-> opens /\ ~fine, req |-> Idle, id |-> 0,
                  reset |-> FALSE]
  <2>1. PICK opens \in BOOLEAN, fine \in BOOLEAN :
            /\ \/ opens /\ fine /\ UNCHANGED failed
               \/ ~(opens /\ fine) /\ failed < Fails /\ failed' = failed + 1
            /\ ProxyWrites(now(opens, fine), Answer("line", opens, FALSE, 0))
    BY <1>12 DEF Accept
  <2>2. now(opens, fine) \in ProxyType
    BY RequestTypes DEF ProxyType
  <2>3. proxy' \in ProxyType /\ down' \in [Clients -> Seq(Answers)]
    BY <2>1, <2>2, AnswerTypes, ProxyWritesType
  <2>4. failed' \in 0..Fails
    BY <2>1, NetProxyAssumption DEF TypeOK
  <2> QED BY <1>12, <2>3, <2>4 DEF Accept, TypeOK
<1> QED
  BY <1>1, <1>2, <1>3, <1>4, <1>5, <1>6, <1>7, <1>8, <1>9, <1>10, <1>11, <1>12
  DEF Serve

LEMMA NextType ==
    ASSUME TypeOK, [Next]_vars
    PROVE  TypeOK'
<1>1. CASE Serve
  BY <1>1, ServeType
<1>2. CASE Interrupt
  BY <1>2, NetProxyAssumption DEF Interrupt, TypeOK
<1>3. ASSUME NEW c \in Clients, Runs(c) PROVE TypeOK'
  BY <1>3, RunsType
<1>4. ASSUME NEW c \in Clients, Expires(c) PROVE TypeOK'
  <2>1. client' \in [Clients -> ClientType]
    BY <1>4 DEF Expires, TypeOK, ClientType
  <2> QED BY <1>4, <2>1 DEF Expires, TypeOK
<1>5. ASSUME NEW c \in Clients, Program(c) PROVE TypeOK'
  BY <1>5, ProgramType
<1>6. CASE UNCHANGED vars
  BY <1>6 DEF vars, TypeOK
<1> QED BY <1>1, <1>2, <1>3, <1>4, <1>5, <1>6 DEF Next

\* Messages and answers are what the readers take them for, whatever clients
\* and proxy do: every variable has its type, always.
THEOREM TypeCorrect == Spec => []TypeOK
<1>1. Init => TypeOK
  BY InitType
<1>2. TypeOK /\ [Next]_vars => TypeOK'
  BY NextType
<1> QED BY <1>1, <1>2, PTL DEF Spec

-----------------------------------------------------------------------------
(* Sequences                                                               *)

LEMMA SeqFacts ==
    ASSUME NEW S, NEW s \in Seq(S)
    PROVE  Len(s) \in Nat /\ (s = <<>> <=> Len(s) = 0)
OBVIOUS

LEMMA TailFacts ==
    ASSUME NEW S, NEW s \in Seq(S), s # <<>>
    PROVE  /\ Tail(s) \in Seq(S) /\ Head(s) = s[1] /\ Head(s) \in S
           /\ Len(Tail(s)) = Len(s) - 1
           /\ Len(s) = 1 => Tail(s) = <<>>
           /\ Len(s) > 1 => Tail(s)[1] = s[2] /\ Tail(s) # <<>>
<1>1. Len(s) \in Nat /\ Len(s) # 0
  BY SeqFacts
<1>2. Tail(s) \in Seq(S) /\ Len(Tail(s)) = Len(s) - 1
  BY <1>1
<1>a. Tail(s) = <<>> <=> Len(Tail(s)) = 0
  BY <1>2, SeqFacts
<1>3. Len(s) = 1 => Tail(s) = <<>>
  BY <1>2, <1>a
<1>4. Len(s) > 1 => Tail(s)[1] = s[2] /\ Tail(s) # <<>>
  BY <1>1, <1>2, <1>a
<1> QED BY <1>1, <1>2, <1>3, <1>4

LEMMA AppendFacts ==
    ASSUME NEW S, NEW s \in Seq(S), NEW m \in S
    PROVE  /\ Append(s, m) \in Seq(S) /\ Append(s, m) # <<>>
           /\ Len(Append(s, m)) = Len(s) + 1
           /\ s = <<>> => Append(s, m)[1] = m
           /\ s # <<>> => Append(s, m)[1] = s[1]
           /\ Len(s) = 1 => Append(s, m)[2] = m
<1>1. Len(s) \in Nat /\ (s = <<>> <=> Len(s) = 0)
  BY SeqFacts
<1>2. Append(s, m) \in Seq(S) /\ Len(Append(s, m)) = Len(s) + 1
  OBVIOUS
<1>3. Append(s, m) # <<>>
  BY <1>1, <1>2, SeqFacts
<1>4. s = <<>> => Append(s, m)[1] = m
  BY <1>1
<1>5. s # <<>> => Append(s, m)[1] = s[1]
  BY <1>1
<1>b. Append(s, m)[Len(s) + 1] = m
  OBVIOUS
<1>6. Len(s) = 1 => Append(s, m)[2] = m
  BY <1>b
<1> QED BY <1>2, <1>3, <1>4, <1>5, <1>6

LEMMA TailIsOther ==
    ASSUME NEW S, NEW s \in Seq(S), s # <<>>
    PROVE  Tail(s) # s
<1>1. Len(s) \in Nat /\ Len(Tail(s)) = Len(s) - 1
  BY SeqFacts, TailFacts
<1>2. \A n \in Nat : n # n - 1
  OBVIOUS
<1> QED BY <1>1, <1>2

-----------------------------------------------------------------------------
(* The stages of a call                                                    *)

\* Where the proxy is in the session of c; "none" if it serves another, or ended.
Place(pc) == IF pc \in {"accept", "dead"} THEN "none" ELSE pc
At(c) == IF proxy.with = c THEN Place(proxy.pc) ELSE "none"

\* A client k that is not in error, what is under way to (u) and from (d) the
\* proxy, and where the proxy is (at), with the request i.
IsLine(m, k) == m.part = "line" /\ m.req = k.req /\ m.id = k.id
Free(at) == at \in {"none", "command"}

Resting(u, d, at) == u = <<>> /\ d = <<>> /\ Free(at)

Greeting(u, d, at) == u = <<>> /\ Len(d) <= 1 /\ Free(at)

\* The request is on its way, with its data if that was written.
Asked(k, u, d, at) ==
    /\ k.pc \in {"writing", "reply"}
    /\ d = <<>>
    /\ at = "command"
    /\ u # <<>> /\ IsLine(u[1], k)
    /\ IF k.req.cmd = "WRITE" /\ k.pc = "reply"
       THEN Len(u) = 2 /\ u[2].part = "data" /\ u[2].id = k.id
       ELSE Len(u) = 1

\* The proxy took the size of a WRITE.
AwaitsData(k, u, d, at, i) ==
    /\ k.pc \in {"writing", "reply"} /\ k.req.cmd = "WRITE"
    /\ d = <<>>
    /\ at = "write" /\ i = k.id
    /\ IF k.pc = "reply"
       THEN Len(u) = 1 /\ u[1].part = "data" /\ u[1].id = k.id
       ELSE u = <<>>

\* The proxy refused the size of a WRITE; the data is not taken for what it is.
Refused(k, u, d, at) ==
    /\ k.pc \in {"writing", "reply"} /\ k.req.cmd = "WRITE"
    /\ d # <<>> /\ d[1] = Minus(k.id)
    /\ Free(at)
    /\ u # <<>> => k.pc = "reply" /\ Len(u) = 1 /\ u[1].part = "data"

Waiting(k, u, d, at, i) ==
    /\ k.pc = "reply" /\ k.req.cmd = "WAIT"
    /\ u = <<>> /\ d = <<>>
    /\ at = "wait" /\ i = k.id

\* Nothing will come: the session ended, or the proxy did not take the -1 of WAIT.
Unanswered(k, u, d, at) ==
    /\ k.pc \in {"writing", "reply"}
    /\ u = <<>> /\ d = <<>>
    /\ Free(at)
    /\ at = "command" => k.req.cmd = "WAIT"

Answered(k, u, d, at) ==
    /\ k.pc = "reply"
    /\ u = <<>>
    /\ Len(d) = 1 /\ d[1].part = "line" /\ d[1].id = k.id
    /\ Free(at)

\* The length of a frame was sent, and perhaps taken by the client.
Body(k, d, at, i, n) ==
    \/ Len(d) = n /\ at = "read" /\ i = k.id
    \/ Len(d) = n + 1 /\ d[n + 1].part = "data" /\ d[n + 1].id = k.id /\ Free(at)

Reading(k, u, d, at, i) ==
    /\ k.req.cmd = "READ"
    /\ u = <<>>
    /\ \/ /\ k.pc = "reply"
          /\ d # <<>> /\ d[1].part = "head" /\ d[1].id = k.id
          /\ Body(k, d, at, i, 1)
       \/ k.pc = "body" /\ Body(k, d, at, i, 0)

Outstanding(k, u, d, at, i) ==
    \/ Asked(k, u, d, at) \/ AwaitsData(k, u, d, at, i) \/ Refused(k, u, d, at)
    \/ Waiting(k, u, d, at, i) \/ Unanswered(k, u, d, at)
    \/ Answered(k, u, d, at) \/ Reading(k, u, d, at, i)

InStep(k, u, d, at, i) ==
    k.pc # "gone" /\ ~k.error =>
        /\ k.pc \in {"off", "ready"} => Resting(u, d, at)
        /\ k.pc = "connecting" => Greeting(u, d, at)
        /\ k.pc \in {"writing", "reply", "body"} => Outstanding(k, u, d, at, i)

\* A client that does more than SPEC and CLKM is not in error.
Gated(k) ==
    /\ k.pc \in {"writing", "reply", "body"} /\ k.req.cmd \notin Ungated => ~k.error
    /\ k.pc = "writing" => k.req.cmd = "WRITE"
    /\ k.pc = "body" => k.req.cmd = "READ"

\* A request answered "+" but not carried out: later ones fail, ...
Refuses(k, d) ==
    k.pc \in {"writing", "reply", "body"} /\ ~k.error /\ k.req.cmd \in Checked =>
        /\ k.pc # "body"
        /\ d # <<>> => d[1].part = "line" /\ ~d[1].plus

\* ... since the driver of the session stays in error (e); n are such requests.
Doubtful(k, d, at, e, n) ==
    n # {} => Refuses(k, d) /\ (at # "none" => e)

\* Before it is accepted.
Before(k, d, at, n, queued) ==
    /\ k.pc = "off" => ~queued /\ at = "none" /\ n = {} /\ ~k.error
    /\ queued => /\ k.pc \in {"connecting", "gone"}
                 /\ n = {} /\ d = <<>> /\ at = "none"

Good(k, u, d, at, i, e, n) ==
    InStep(k, u, d, at, i) /\ Gated(k) /\ Doubtful(k, d, at, e, n)

Sync ==
    \A c \in Clients :
        /\ Good(client[c], up[c], down[c], At(c), proxy.id, proxy.error, undone[c])
        /\ Before(client[c], down[c], At(c), undone[c], c \in backlog)

-----------------------------------------------------------------------------
(* A client and its connection, when the proxy does something              *)

\* What a request that the proxy takes says about the client.
LEMMA TakesLine ==
    ASSUME NEW k, NEW u \in Seq(Messages), NEW d, NEW i,
           InStep(k, u, d, "command", i), k.pc # "gone", ~k.error, k \in ClientType,
           u # <<>>, Head(u).part = "line"
    PROVE  /\ Asked(k, u, d, "command")
           /\ d = <<>> /\ k.pc \in {"writing", "reply"}
           /\ Head(u).req = k.req /\ Head(u).id = k.id
           /\ k.req.cmd # "WRITE" \/ k.pc = "writing" => Tail(u) = <<>>
           /\ k.req.cmd = "WRITE" /\ k.pc = "reply" =>
                 Len(Tail(u)) = 1 /\ Tail(u) # <<>>
                    /\ Tail(u)[1].part = "data" /\ Tail(u)[1].id = k.id
<1>1. Head(u) = u[1] /\ u[1].part # "data"
  BY TailFacts
<1>2. k.pc \in {"writing", "reply", "body"} /\ Outstanding(k, u, d, "command", i)
  BY DEF InStep, Resting, Greeting, ClientType
<1>3. Asked(k, u, d, "command")
  BY <1>1, <1>2 DEF Outstanding, AwaitsData, Refused, Waiting, Unanswered,
                    Answered, Reading
<1> QED BY <1>1, <1>3, TailFacts DEF Asked, IsLine

\* A request is answered at once.
LEMMA AnswerKeeps ==
    ASSUME NEW k \in ClientType, NEW u \in Seq(Messages), NEW d \in Seq(Answers),
           NEW i, NEW j, NEW e, NEW f, NEW n, NEW o, NEW m \in Answers,
           Good(k, u, d, "command", i, e, n), k.pc # "gone",
           u # <<>>, Head(u).part = "line", Head(u).req.cmd # "WRITE",
           m.part = "line", m.id = Head(u).id,
           o # {} => f, o # {} /\ Head(u).req.cmd \in Checked => ~m.plus
    PROVE  Good(k, Tail(u), Append(d, m), "command", j, f, o)
<1>1. CASE k.error
  BY <1>1 DEF Good, InStep, Doubtful, Refuses
<1>2. CASE ~k.error
  <2>1. /\ d = <<>> /\ k.pc = "reply"
        /\ Head(u).req = k.req /\ m.id = k.id /\ Tail(u) = <<>>
    <3>1. k.pc = "writing" => k.req.cmd = "WRITE"
      BY DEF Good, Gated
    <3> QED BY <1>2, <3>1, TakesLine DEF Good
  <2>2. Len(Append(d, m)) = 1 /\ Append(d, m)[1] = m
    BY <2>1, SeqFacts, AppendFacts
  <2>3. Answered(k, Tail(u), Append(d, m), "command")
    BY <2>1, <2>2 DEF Answered, Free
  <2>4. Doubtful(k, Append(d, m), "command", f, o)
    BY <2>1, <2>2 DEF Doubtful, Refuses
  <2> QED BY <2>1, <2>3, <2>4 DEF Good, InStep, Outstanding
<1> QED BY <1>1, <1>2

\* The size of a WRITE is taken, and the data awaited ...
LEMMA AwaitKeeps ==
    ASSUME NEW k \in ClientType, NEW u \in Seq(Messages), NEW d,
           NEW i, NEW e, NEW n,
           Good(k, u, d, "command", i, e, n), k.pc # "gone",
           u # <<>>, Head(u).part = "line", Head(u).req.cmd = "WRITE"
    PROVE  Good(k, Tail(u), d, "write", Head(u).id, e, n)
<1>1. CASE k.error
  BY <1>1 DEF Good, InStep, Doubtful, Refuses
<1>2. CASE ~k.error
  <2>1. InStep(k, u, d, "command", i)
    BY DEF Good
  <2>2. /\ d = <<>> /\ k.pc \in {"writing", "reply"}
        /\ Head(u).req = k.req /\ Head(u).id = k.id
        /\ k.pc = "writing" => Tail(u) = <<>>
        /\ k.req.cmd = "WRITE" /\ k.pc = "reply" =>
                 Len(Tail(u)) = 1 /\ Tail(u)[1].part = "data" /\ Tail(u)[1].id = k.id
    BY <1>2, <2>1, TakesLine
  <2>3. AwaitsData(k, Tail(u), d, "write", Head(u).id)
    BY <2>2 DEF AwaitsData
  <2>4. Doubtful(k, d, "write", e, n)
    BY DEF Good, Doubtful
  <2> QED BY <2>2, <2>3, <2>4 DEF Good, InStep, Outstanding
<1> QED BY <1>1, <1>2

\* ... or refused, and the data left to be read as a request.
LEMMA RefusalKeeps ==
    ASSUME NEW k \in ClientType, NEW u \in Seq(Messages), NEW d \in Seq(Answers),
           NEW i, NEW j, NEW e, NEW n, NEW m \in Answers,
           Good(k, u, d, "command", i, e, n), k.pc # "gone",
           u # <<>>, Head(u).part = "line", Head(u).req.cmd = "WRITE",
           m = Minus(Head(u).id)
    PROVE  Good(k, Tail(u), Append(d, m), "command", j, e, n)
<1>1. CASE k.error
  BY <1>1 DEF Good, InStep, Doubtful, Refuses
<1>2. CASE ~k.error
  <2> DEFINE dd == Append(d, m)
  <2>1. InStep(k, u, d, "command", i)
    BY DEF Good
  <2>2. /\ d = <<>> /\ k.pc \in {"writing", "reply"}
        /\ Head(u).req = k.req /\ Head(u).id = k.id
        /\ k.pc = "writing" => Tail(u) = <<>>
        /\ k.req.cmd = "WRITE" /\ k.pc = "reply" =>
                 Len(Tail(u)) = 1 /\ Tail(u)[1].part = "data"
    BY <1>2, <2>1, TakesLine
  <2>3. dd # <<>> /\ dd[1] = Minus(k.id)
    BY <2>2, AppendFacts
  <2>4. Refused(k, Tail(u), dd, "command")
    BY <2>2, <2>3 DEF Refused, Free
  <2>5. Minus(k.id).part = "line" /\ ~Minus(k.id).plus
    BY DEF Minus, Answer
  <2>6. Doubtful(k, dd, "command", e, n)
    BY <2>2, <2>3, <2>5 DEF Good, Doubtful, Refuses
  <2> QED BY <2>2, <2>4, <2>6 DEF Good, InStep, Outstanding
<1> QED BY <1>1, <1>2

\* The data of a WRITE is taken for what it is ...
LEMMA DataKeeps ==
    ASSUME NEW k \in ClientType, NEW u \in Seq(Messages), NEW d \in Seq(Answers),
           NEW i, NEW j, NEW e, NEW f, NEW n, NEW m \in Answers,
           Good(k, u, d, "write", i, e, n), k.pc # "gone",
           u # <<>>, m.part = "line", m.id = Head(u).id,
           n # {} => f /\ ~m.plus
    PROVE  Good(k, Tail(u), Append(d, m), "command", j, f, n)
<1>1. CASE k.error
  BY <1>1 DEF Good, InStep, Doubtful, Refuses
<1>2. CASE ~k.error
  <2>1. k.pc \in {"writing", "reply", "body"} /\ Outstanding(k, u, d, "write", i)
    BY <1>2 DEF Good, InStep, Resting, Greeting, Free, ClientType
  <2>2. AwaitsData(k, u, d, "write", i)
    BY <2>1 DEF Outstanding, Asked, Refused, Waiting, Unanswered, Answered,
                Reading, Body, Free
  <2>3. /\ k.pc = "reply" /\ d = <<>>
        /\ Len(u) = 1 /\ u[1].id = k.id
    BY <2>2 DEF AwaitsData
  <2>4. Tail(u) = <<>> /\ m.id = k.id
    BY <2>3, TailFacts
  <2>5. Len(Append(d, m)) = 1 /\ Append(d, m)[1] = m
    BY <2>3, SeqFacts, AppendFacts
  <2>6. Answered(k, Tail(u), Append(d, m), "command")
    BY <2>3, <2>4, <2>5 DEF Answered, Free
  <2>7. Doubtful(k, Append(d, m), "command", f, n)
    BY <2>3, <2>5 DEF Doubtful, Refuses
  <2> QED BY <2>3, <2>6, <2>7 DEF Good, InStep, Outstanding
<1> QED BY <1>1, <1>2

\* ... or as a request, because its size was refused; the answer to that comes
\* second, and the session may end without one.
LEMMA LeftoverKeeps ==
    ASSUME NEW k \in ClientType, NEW u \in Seq(Messages), NEW d \in Seq(Answers),
           NEW i, NEW j, NEW e, NEW n, NEW m \in Answers,
           Good(k, u, d, "command", i, e, n), k.pc # "gone",
           u # <<>>, Head(u).part = "data",
           m.part = "line" /\ ~m.plus
    PROVE  /\ Good(k, Tail(u), Append(d, m), "command", j, e, n)
           /\ Good(k, Tail(u), d, "none", j, e, n)
<1>1. CASE k.error
  BY <1>1 DEF Good, InStep, Doubtful, Refuses
<1>2. CASE ~k.error
  <2>a. u[1].part # "line" /\ Head(u) = u[1]
    BY TailFacts
  <2>b. k.pc \in {"writing", "reply", "body"} /\ Outstanding(k, u, d, "command", i)
    BY <1>2 DEF Good, InStep, Resting, Greeting, ClientType
  <2>1. CASE Asked(k, u, d, "command")
    BY <2>1, <2>a, <2>b DEF Asked, IsLine, Good, InStep
  <2>2. CASE Refused(k, u, d, "command")
    <3>1. Tail(u) = <<>> /\ Append(d, m) # <<>> /\ Append(d, m)[1] = d[1]
      BY <2>2, TailFacts, AppendFacts DEF Refused
    <3>2. /\ Refused(k, Tail(u), Append(d, m), "command")
          /\ Refused(k, Tail(u), d, "none")
      BY <2>2, <3>1 DEF Refused, Free
    <3>3. /\ Doubtful(k, Append(d, m), "command", e, n)
          /\ Doubtful(k, d, "none", e, n)
      BY <2>2, <3>1 DEF Good, Doubtful, Refuses, Refused
    <3> QED BY <2>b, <3>2, <3>3 DEF Good, InStep, Outstanding
  <2> QED
    BY <2>b, <2>1, <2>2 DEF Outstanding, AwaitsData, Waiting, Unanswered,
                            Answered, Reading
<1> QED BY <1>1, <1>2

\* A frame is read: first its length is sent, ...
LEMMA HeadKeeps ==
    ASSUME NEW k \in ClientType, NEW u \in Seq(Messages), NEW d \in Seq(Answers),
           NEW i, NEW j, NEW e, NEW m \in Answers,
           Good(k, u, d, "command", i, e, {}), k.pc # "gone",
           u # <<>>, Head(u).part = "line", Head(u).req.cmd = "READ",
           m.part = "head", m.id = Head(u).id, j = Head(u).id
    PROVE  Good(k, Tail(u), Append(d, m), "read", j, FALSE, {})
<1>1. CASE k.error
  BY <1>1 DEF Good, InStep, Doubtful
<1>2. CASE ~k.error
  <2>0. k.pc = "writing" => k.req.cmd = "WRITE"
    BY DEF Good, Gated
  <2>1. /\ d = <<>> /\ k.pc = "reply"
        /\ Head(u).req = k.req /\ Head(u).id = k.id /\ Tail(u) = <<>>
    BY <1>2, <2>0, TakesLine DEF Good
  <2>2. Len(Append(d, m)) = 1 /\ Append(d, m)[1] = m /\ Append(d, m) # <<>>
    BY <2>1, SeqFacts, AppendFacts
  <2>3. Reading(k, Tail(u), Append(d, m), "read", j)
    BY <2>1, <2>2 DEF Reading, Body
  <2> QED BY <2>1, <2>3 DEF Good, InStep, Outstanding, Doubtful
<1> QED BY <1>1, <1>2

\* ... then the frame.
LEMMA BodyKeeps ==
    ASSUME NEW k \in ClientType, NEW u \in Seq(Messages), NEW d \in Seq(Answers),
           NEW i, NEW e, NEW n, NEW m \in Answers,
           Good(k, u, d, "read", i, e, n), k.pc # "gone",
           m.part = "data", m.id = i
    PROVE  Good(k, u, Append(d, m), "command", i, e, n)
<1>1. CASE k.error
  BY <1>1 DEF Good, InStep, Doubtful, Refuses
<1>2. CASE ~k.error
  <2>1. k.pc \in {"writing", "reply", "body"} /\ Outstanding(k, u, d, "read", i)
    BY <1>2 DEF Good, InStep, Resting, Greeting, Free, ClientType
  <2>2. Reading(k, u, d, "read", i)
    BY <2>1 DEF Outstanding, Asked, AwaitsData, Refused, Waiting, Unanswered,
                Answered, Free
  <2>3. Append(d, m) # <<>> /\ Len(Append(d, m)) = Len(d) + 1 /\ Len(d) \in Nat
    BY SeqFacts, AppendFacts
  <2>4. CASE k.pc = "reply"
    <3>1. d # <<>> /\ d[1].part = "head" /\ d[1].id = k.id /\ Len(d) = 1 /\ i = k.id
      BY <2>2, <2>4 DEF Reading, Body, Free
    <3>2. Append(d, m)[1] = d[1] /\ Append(d, m)[2] = m
      BY <3>1, AppendFacts
    <3>3. Reading(k, u, Append(d, m), "command", i)
      BY <2>2, <2>3, <2>4, <3>1, <3>2 DEF Reading, Body, Free
    <3>4. Doubtful(k, Append(d, m), "command", e, n)
      BY <3>1, <3>2 DEF Good, Doubtful, Refuses
    <3> QED BY <2>1, <3>3, <3>4 DEF Good, InStep, Outstanding
  <2>5. CASE k.pc = "body"
    <3>1. d = <<>> /\ i = k.id /\ k.req.cmd = "READ" /\ u = <<>>
      BY <2>2, <2>5, SeqFacts DEF Reading, Body, Free
    <3>2. Append(d, m)[1] = m /\ Len(Append(d, m)) = 1
      BY <3>1, <2>3, SeqFacts, AppendFacts
    <3>3. Reading(k, u, Append(d, m), "command", i)
      BY <2>5, <3>1, <3>2 DEF Reading, Body, Free
    <3>4. Doubtful(k, Append(d, m), "command", e, n)
      BY <1>2, <2>5, <3>1 DEF Good, Doubtful, Refuses, Checked
    <3> QED BY <2>1, <3>3, <3>4 DEF Good, InStep, Outstanding
  <2> QED BY <2>2, <2>4, <2>5 DEF Reading
<1> QED BY <1>1, <1>2

\* A WAIT is under way, ...
LEMMA WaitKeeps ==
    ASSUME NEW k \in ClientType, NEW u \in Seq(Messages), NEW d \in Seq(Answers),
           NEW i, NEW j, NEW e, NEW n,
           Good(k, u, d, "command", i, e, n), k.pc # "gone",
           u # <<>>, Head(u).part = "line", Head(u).req.cmd = "WAIT"
    PROVE  /\ Good(k, Tail(u), d, "wait", Head(u).id, e, n)
           /\ Good(k, Tail(u), d, "command", j, e, n)
           /\ Good(k, Tail(u), d, "none", j, e, n)
<1>1. CASE k.error
  BY <1>1 DEF Good, InStep, Doubtful, Refuses
<1>2. CASE ~k.error
  <2>0. k.pc = "writing" => k.req.cmd = "WRITE"
    BY DEF Good, Gated
  <2>1. /\ d = <<>> /\ k.pc = "reply" /\ k.req.cmd = "WAIT"
        /\ Head(u).id = k.id /\ Tail(u) = <<>>
    BY <1>2, <2>0, TakesLine DEF Good
  <2>2. /\ Waiting(k, Tail(u), d, "wait", Head(u).id)
        /\ Unanswered(k, Tail(u), d, "command")
        /\ Unanswered(k, Tail(u), d, "none")
    BY <2>1 DEF Waiting, Unanswered, Free
  <2>3. /\ Doubtful(k, d, "wait", e, n)
        /\ Doubtful(k, d, "command", e, n)
        /\ Doubtful(k, d, "none", e, n)
    BY <2>1 DEF Good, Doubtful, Refuses, Checked
  <2> QED BY <2>1, <2>2, <2>3 DEF Good, InStep, Outstanding
<1> QED BY <1>1, <1>2

\* ... and over.
LEMMA WaitOverKeeps ==
    ASSUME NEW k \in ClientType, NEW u \in Seq(Messages), NEW d \in Seq(Answers),
           NEW i, NEW e, NEW f, NEW n, NEW m \in Answers,
           Good(k, u, d, "wait", i, e, n), k.pc # "gone",
           m.part = "line", m.id = i, n # {} => f
    PROVE  Good(k, u, Append(d, m), "command", i, f, n)
<1>1. CASE k.error
  BY <1>1 DEF Good, InStep, Doubtful, Refuses
<1>2. CASE ~k.error
  <2>1. k.pc \in {"writing", "reply", "body"} /\ Outstanding(k, u, d, "wait", i)
    BY <1>2 DEF Good, InStep, Resting, Greeting, Free, ClientType
  <2>2. Waiting(k, u, d, "wait", i)
    BY <2>1 DEF Outstanding, Asked, AwaitsData, Refused, Unanswered,
                Answered, Reading, Body, Free
  <2>3. /\ d = <<>> /\ u = <<>> /\ k.pc = "reply" /\ k.req.cmd = "WAIT"
        /\ i = k.id
    BY <2>2 DEF Waiting
  <2>4. Len(Append(d, m)) = 1 /\ Append(d, m)[1] = m
    BY <2>3, SeqFacts, AppendFacts
  <2>5. Answered(k, u, Append(d, m), "command")
    BY <2>3, <2>4 DEF Answered, Free
  <2>6. Doubtful(k, Append(d, m), "command", f, n)
    BY <2>3 DEF Good, Doubtful, Refuses, Checked
  <2> QED BY <2>3, <2>5, <2>6 DEF Good, InStep, Outstanding
<1> QED BY <1>1, <1>2

\* Of a client that is gone nothing matters but that its session stays in error.
LEMMA GoneKeeps ==
    ASSUME NEW k, NEW u, NEW d, NEW at, NEW i, NEW e, NEW n,
           k.pc = "gone", n # {} /\ at # "none" => e
    PROVE  Good(k, u, d, at, i, e, n)
BY DEF Good, InStep, Gated, Doubtful, Refuses

LEMMA GoodDoubt ==
    ASSUME NEW k, NEW u, NEW d, NEW at, NEW i, NEW e, NEW n,
           Good(k, u, d, at, i, e, n)
    PROVE  n # {} /\ at # "none" => e
BY DEF Good, Doubtful

\* The session of another client says nothing about this one.
LEMMA ElsewhereKeeps ==
    ASSUME NEW k, NEW u, NEW d, NEW i, NEW j, NEW e, NEW f, NEW n,
           Good(k, u, d, "none", i, e, n)
    PROVE  Good(k, u, d, "none", j, f, n)
BY DEF Good, InStep, Outstanding, Asked, AwaitsData, Refused, Waiting,
       Unanswered, Answered, Reading, Body, Free, Doubtful

-----------------------------------------------------------------------------
(* Steps of the proxy                                                      *)

\* Only the client that is served is concerned.
LEMMA ServedStep ==
    ASSUME TypeOK, Sync, Serving, UNCHANGED <<client, backlog>>,
           proxy'.with = proxy.with,
           \A c \in Clients \ {proxy.with} :
               up'[c] = up[c] /\ down'[c] = down[c] /\ undone'[c] = undone[c],
           Good(client[proxy.with], up'[proxy.with], down'[proxy.with],
                Place(proxy'.pc), proxy'.id, proxy'.error, undone'[proxy.with])
    PROVE  Sync'
<1> DEFINE w == proxy.with
<1>1. w \in Clients
  BY DEF TypeOK, ProxyType
<1>2. At(w) # "none" /\ At(w)' = Place(proxy'.pc)
  BY DEF Serving, At, Place, TypeOK, ProxyType
<1>3. \A c \in Clients \ {w} : At(c) = "none" /\ At(c)' = "none"
  BY DEF At
<1>4. ASSUME NEW c \in Clients
      PROVE  /\ Good(client[c], up[c], down[c], At(c), proxy.id, proxy.error, undone[c])'
             /\ Before(client[c], down[c], At(c), undone[c], c \in backlog)'
  <2>1. CASE c = w
    <3>1. Before(client[w], down[w], At(w), undone[w], w \in backlog)
      BY <1>1 DEF Sync
    <3>2. Before(client[w], down[w], At(w), undone[w], w \in backlog)'
      BY <3>1, <1>2 DEF Before
    <3> QED BY <2>1, <1>2, <3>2
  <2>2. CASE c # w
    <3>1. /\ Good(client[c], up[c], down[c], "none", proxy.id, proxy.error, undone[c])
          /\ Before(client[c], down[c], "none", undone[c], c \in backlog)
      BY <1>3, <2>2 DEF Sync
    <3>2. Good(client[c], up[c], down[c], "none", proxy'.id, proxy'.error, undone[c])
      BY <3>1, ElsewhereKeeps
    <3> QED BY <1>3, <2>2, <3>1, <3>2
  <2> QED BY <2>1, <2>2
<1> QED BY <1>4 DEF Sync

LEMMA Written ==
    ASSUME TypeOK, NEW now \in ProxyType, NEW m \in Answers, NEW n,
           now.with = proxy.with, now.pc \notin {"accept", "dead"},
           ProxyWrites(now, m),
           Gone(proxy.with) => (n # {} => now.error),
           ~Gone(proxy.with) =>
               Good(client[proxy.with], up'[proxy.with],
                    Append(down[proxy.with], m), now.pc, now.id, now.error, n)
    PROVE  /\ proxy'.with = proxy.with
           /\ \A c \in Clients \ {proxy.with} : down'[c] = down[c]
           /\ Good(client[proxy.with], up'[proxy.with], down'[proxy.with],
                   Place(proxy'.pc), proxy'.id, proxy'.error, n)
<1> DEFINE w == proxy.with
<1>1. w \in Clients
  BY DEF TypeOK, ProxyType
<1>2. CASE Gone(w)
  <2>1. /\ proxy' = IF now.reset THEN [now EXCEPT !.pc = "dead"]
                    ELSE [now EXCEPT !.reset = TRUE]
        /\ UNCHANGED down
    BY <1>2 DEF ProxyWrites
  <2>2. proxy'.with = w /\ proxy'.error = now.error
    BY <2>1 DEF ProxyType
  <2>3. client[w].pc = "gone"
    BY <1>2 DEF Gone
  <2> QED BY <1>2, <2>1, <2>2, <2>3, GoneKeeps
<1>3. CASE ~Gone(w)
  <2>1. proxy' = now /\ down' = [down EXCEPT ![w] = Append(@, m)]
    BY <1>3 DEF ProxyWrites
  <2>2. down'[w] = Append(down[w], m) /\ \A c \in Clients \ {w} : down'[c] = down[c]
    BY <1>1, <2>1 DEF TypeOK
  <2>3. Place(now.pc) = now.pc
    BY DEF Place
  <2> QED BY <1>3, <2>1, <2>2, <2>3
<1> QED BY <1>2, <1>3

LEMMA Taken ==
    ASSUME TypeOK, NEW part, Takes(part)
    PROVE  /\ up[proxy.with] # <<>>
           /\ Head(up[proxy.with]) = Next0 /\ Next0.part = part
           /\ up'[proxy.with] = Tail(up[proxy.with])
           /\ \A c \in Clients \ {proxy.with} : up'[c] = up[c]
           /\ Next0.id \in Nat /\ Next0 \in Messages
<1>1. up[proxy.with] # <<>> /\ proxy.with \in Clients
  BY HeadTypes DEF Takes
<1>2. up' = [up EXCEPT ![proxy.with] = Tail(@)]
  BY DEF Takes
<1>3. Next0.id \in Nat /\ Next0 \in Messages
  BY <1>1, HeadTypes
<1> QED BY <1>1, <1>2, <1>3 DEF Takes, Next0, TypeOK

\* The session of the client that is served, before the step.
LEMMA Session ==
    ASSUME TypeOK, Sync, Serving
    PROVE  /\ proxy.with \in Clients
           /\ client[proxy.with] \in ClientType
           /\ up[proxy.with] \in Seq(Messages) /\ down[proxy.with] \in Seq(Answers)
           /\ Good(client[proxy.with], up[proxy.with], down[proxy.with],
                   proxy.pc, proxy.id, proxy.error, undone[proxy.with])
           /\ undone[proxy.with] # {} => proxy.error
<1> DEFINE w == proxy.with
<1>1. w \in Clients
  BY DEF TypeOK, ProxyType
<1>2. At(w) = proxy.pc
  BY DEF At, Place, Serving
<1>3. Good(client[w], up[w], down[w], proxy.pc, proxy.id, proxy.error, undone[w])
  BY <1>1, <1>2 DEF Sync
<1>4. proxy.pc # "none"
  BY DEF TypeOK, ProxyType
<1> QED BY <1>1, <1>3, <1>4, GoodDoubt DEF TypeOK

\* A request is taken, and answered at once.
LEMMA AnswerStep ==
    ASSUME TypeOK, Sync, Serving, proxy.pc = "command",
           UNCHANGED <<client, backlog>>, Takes("line"),
           Next0.req.cmd # "WRITE",
           NEW e \in BOOLEAN, NEW m \in Answers,
           m.part = "line", m.id = Next0.id,
           ProxyWrites(After("command", e), m),
           \A c \in Clients \ {proxy.with} : undone'[c] = undone[c],
           undone'[proxy.with] # {} => e,
           undone'[proxy.with] # {} /\ Next0.req.cmd \in Checked => ~m.plus
    PROVE  Sync'
<1> DEFINE w == proxy.with
           now == After("command", e)
<1>1. now \in ProxyType
  BY TakesType
<1>2. now.with = w /\ now.pc = "command" /\ now.error = e
  BY DEF After, TypeOK, ProxyType
<1>3. ~Gone(w) => Good(client[w], up'[w], Append(down[w], m), "command", now.id,
                       e, undone'[w])
  BY Session, Taken, AnswerKeeps DEF Gone
<1>4. /\ proxy'.with = w
      /\ \A c \in Clients \ {w} : down'[c] = down[c]
      /\ Good(client[w], up'[w], down'[w], Place(proxy'.pc), proxy'.id,
              proxy'.error, undone'[w])
  BY <1>1, <1>2, <1>3, Written
<1> QED BY <1>4, Taken, ServedStep

LEMMA AttemptError ==
    ASSUME TypeOK, NEW done \in BOOLEAN, Attempt(done)
    PROVE  (~done) \in BOOLEAN /\ (done => ~proxy.error) /\ (proxy.error => ~done)
BY DEF Attempt

LEMMA ReplyFields ==
    ASSUME NEW id
    PROVE  /\ Plus(id).part = "line" /\ Plus(id).id = id /\ Plus(id).plus = TRUE
           /\ Minus(id).part = "line" /\ Minus(id).id = id /\ Minus(id).plus = FALSE
BY DEF Plus, Minus, Answer

LEMMA SpecKeeps == ASSUME TypeOK, Sync, CmdSpec PROVE Sync'
<1>1. /\ Serving /\ proxy.pc = "command" /\ Takes("line")
      /\ Next0.req.cmd = "SPEC"
      /\ ProxyWrites(After("command", proxy.error), Plus(Next0.id))
      /\ UNCHANGED <<client, backlog, undone>>
  BY DEF CmdSpec, Command, Serving
<1>2. proxy.error \in BOOLEAN /\ Plus(Next0.id) \in Answers
  BY <1>1, Taken, ReplyTypes DEF TypeOK, ProxyType
<1>3. "SPEC" \notin Checked
  BY DEF Checked
<1>4. undone[proxy.with] # {} => proxy.error
  BY <1>1, Session
<1> QED BY <1>1, <1>2, <1>3, <1>4, ReplyFields, AnswerStep

LEMMA UncheckedKeeps == ASSUME TypeOK, Sync, CmdUnchecked PROVE Sync'
<1>1. /\ Serving /\ proxy.pc = "command" /\ Takes("line")
      /\ Next0.req.cmd \in {"RESET", "CLKM"}
      /\ UNCHANGED <<client, backlog>>
  BY DEF CmdUnchecked, Command, Serving
<1>2. PICK done \in BOOLEAN :
          /\ ProxyWrites(After("command", ~done), Plus(Next0.id))
          /\ done => ~proxy.error /\ undone' = undone
          /\ undone' = [undone EXCEPT ![proxy.with] =
                            IF done THEN @ ELSE @ \union {Next0.id}]
  <2>1. CASE ~proxy.error /\ ProxyWrites(After("command", FALSE), Plus(Next0.id))
                /\ UNCHANGED undone
    BY <2>1 DEF TypeOK
  <2>2. ASSUME NEW done \in BOOLEAN, Attempt(done),
               ProxyWrites(After("command", ~done), Plus(Next0.id)),
               undone' = [undone EXCEPT ![proxy.with] =
                             IF done THEN @ ELSE @ \union {Next0.id}]
        PROVE  done => ~proxy.error /\ undone' = undone
    BY <2>2, AttemptError DEF TypeOK
  <2> QED BY <2>1, <2>2 DEF CmdUnchecked
<1>3. Plus(Next0.id) \in Answers
  BY <1>1, Taken, ReplyTypes
<1>4. Next0.req.cmd \notin Checked /\ Next0.req.cmd # "WRITE"
  BY <1>1 DEF Checked
<1>5. undone[proxy.with] # {} => proxy.error
  BY <1>1, Session
<1>6. undone'[proxy.with] # {} => ~done
  BY <1>2, <1>5
<1>7. \A c \in Clients \ {proxy.with} : undone'[c] = undone[c]
  BY <1>2 DEF TypeOK
<1>8. (~done) \in BOOLEAN
  OBVIOUS
<1> QED BY <1>1, <1>2, <1>3, <1>4, <1>6, <1>7, <1>8, ReplyFields, AnswerStep

LEMMA CheckedKeeps == ASSUME TypeOK, Sync, CmdChecked PROVE Sync'
<1>1. /\ Serving /\ proxy.pc = "command" /\ Takes("line")
      /\ Next0.req.cmd \in {"SET", "GET"}
      /\ UNCHANGED <<client, backlog, undone>>
  BY DEF CmdChecked, Command, Serving
<1>2. PICK done \in BOOLEAN :
          /\ Attempt(done)
          /\ ProxyWrites(After("command", ~done),
                         Answer("line", done, FALSE, Next0.id))
  BY DEF CmdChecked
<1>3. Answer("line", done, FALSE, Next0.id) \in Answers
  BY <1>1, Taken, AnswerTypes
<1>4. undone[proxy.with] # {} => ~done
  BY <1>1, <1>2, AttemptError, Session
<1>5. (~done) \in BOOLEAN
  OBVIOUS
<1> DEFINE m == Answer("line", done, FALSE, Next0.id)
<1>6. m.part = "line" /\ m.id = Next0.id /\ (m.plus <=> done)
  BY DEF Answer
<1>7. m \in Answers /\ ProxyWrites(After("command", ~done), m)
  BY <1>2, <1>3
<1> HIDE DEF m
<1> QED BY <1>1, <1>4, <1>5, <1>6, <1>7, AnswerStep

LEMMA ReadKeeps == ASSUME TypeOK, Sync, CmdRead PROVE Sync'
<1>1. /\ Serving /\ proxy.pc = "command" /\ Takes("line")
      /\ Next0.req.cmd = "READ"
      /\ UNCHANGED <<client, backlog, undone>>
  BY DEF CmdRead, Command, Serving
<1>2. \/ ~proxy.error
            /\ ProxyWrites(After("read", FALSE), Answer("head", TRUE, FALSE, Next0.id))
      \/ ProxyWrites(After("command", TRUE), Minus(Next0.id))
      \/ ~proxy.error /\ ProxyWrites(After("command", FALSE), Minus(Next0.id))
  BY AttemptError DEF CmdRead
<1>3. undone[proxy.with] # {} => proxy.error
  BY <1>1, Session
<1>a. Minus(Next0.id) \in Answers
  BY <1>1, Taken, ReplyTypes
<1>4. CASE ProxyWrites(After("command", TRUE), Minus(Next0.id))
  BY <1>1, <1>4, <1>a, ReplyFields, AnswerStep
<1>6. CASE ~proxy.error /\ ProxyWrites(After("command", FALSE), Minus(Next0.id))
  BY <1>1, <1>3, <1>6, <1>a, ReplyFields, AnswerStep
<1>5. CASE ~proxy.error
               /\ ProxyWrites(After("read", FALSE), Answer("head", TRUE, FALSE, Next0.id))
  <2> DEFINE w == proxy.with
             now == After("read", FALSE)
             m == Answer("head", TRUE, FALSE, Next0.id)
  <2>1. now \in ProxyType /\ m \in Answers
    BY <1>1, Taken, TakesType, AnswerTypes
  <2>2. now.with = w /\ now.pc = "read" /\ now.error = FALSE /\ now.id = Next0.id
    BY DEF After, TypeOK, ProxyType
  <2>3. ~Gone(w) => Good(client[w], up'[w], Append(down[w], m), "read", now.id,
                         FALSE, undone[w])
    <3>1. undone[w] = {} /\ m.part = "head" /\ m.id = Next0.id
      BY <1>3, <1>5 DEF Answer
    <3>2. /\ client[w] \in ClientType
          /\ up[w] \in Seq(Messages) /\ down[w] \in Seq(Answers)
          /\ Good(client[w], up[w], down[w], "command", proxy.id, proxy.error, {})
      BY <1>1, <3>1, Session
    <3>3. /\ up[w] # <<>> /\ Head(up[w]).part = "line"
          /\ Head(up[w]).req.cmd = "READ" /\ Head(up[w]).id = now.id
          /\ up'[w] = Tail(up[w])
      BY <1>1, <2>2, Taken
    <3> HIDE DEF m, now, w
    <3>4. m.id = Head(up[w]).id
      BY <2>2, <3>1, <3>3
    <3>5. client[w].pc # "gone" =>
              Good(client[w], Tail(up[w]), Append(down[w], m), "read", now.id,
                   FALSE, {})
      BY <2>1, <3>1, <3>2, <3>3, <3>4, HeadKeeps
    <3> QED BY <3>1, <3>3, <3>5 DEF Gone
  <2>4. /\ proxy'.with = w
        /\ \A c \in Clients \ {w} : down'[c] = down[c]
        /\ Good(client[w], up'[w], down'[w], Place(proxy'.pc), proxy'.id,
                proxy'.error, undone[w])
    BY <1>3, <1>5, <2>1, <2>2, <2>3, Written
  <2> QED BY <1>1, <2>4, Taken, ServedStep
<1> QED BY <1>2, <1>4, <1>5, <1>6

LEMMA BodyStep == ASSUME TypeOK, Sync, ReadBody PROVE Sync'
<1> DEFINE w == proxy.with
           now == [proxy EXCEPT !.pc = "command"]
           m == Answer("data", FALSE, FALSE, proxy.id)
<1>1. /\ Serving /\ proxy.pc = "read"
      /\ ProxyWrites(now, m)
      /\ UNCHANGED <<client, backlog, up, undone>>
  BY DEF ReadBody, Serving
<1>2. now \in ProxyType /\ m \in Answers
  BY AnswerTypes DEF TypeOK, ProxyType
<1>3. /\ now.with = w /\ now.pc = "command" /\ now.error = proxy.error
      /\ now.id = proxy.id
  BY DEF TypeOK, ProxyType
<1>4. ~Gone(w) => Good(client[w], up'[w], Append(down[w], m), "command", now.id,
                       now.error, undone[w])
  <2>1. /\ client[w] \in ClientType
        /\ up[w] \in Seq(Messages) /\ down[w] \in Seq(Answers)
        /\ Good(client[w], up[w], down[w], "read", proxy.id, proxy.error, undone[w])
    BY <1>1, Session
  <2>2. m.part = "data" /\ m.id = proxy.id /\ up'[w] = up[w]
    BY <1>1 DEF Answer
  <2> HIDE DEF m, now, w
  <2> QED BY <1>2, <1>3, <2>1, <2>2, BodyKeeps DEF Gone
<1>5. undone[w] # {} => now.error
  BY <1>1, <1>3, Session
<1>6. /\ proxy'.with = w
      /\ \A c \in Clients \ {w} : down'[c] = down[c]
      /\ Good(client[w], up'[w], down'[w], Place(proxy'.pc), proxy'.id,
              proxy'.error, undone[w])
  BY <1>1, <1>2, <1>3, <1>4, <1>5, Written
<1> QED BY <1>1, <1>6, ServedStep

LEMMA WriteKeeps == ASSUME TypeOK, Sync, CmdWrite PROVE Sync'
<1> DEFINE w == proxy.with
<1>1. /\ Serving /\ proxy.pc = "command" /\ Takes("line")
      /\ Next0.req.cmd = "WRITE"
      /\ UNCHANGED <<client, backlog, undone>>
  BY DEF CmdWrite, Command, Serving
<1>2. undone[w] # {} => proxy.error
  BY <1>1, Session
<1>3. CASE ProxyWrites(After("command", proxy.error), Minus(Next0.id))
  <2> DEFINE now == After("command", proxy.error)
  <2>1. now \in ProxyType /\ Minus(Next0.id) \in Answers
    BY <1>1, Taken, TakesType, ReplyTypes DEF TypeOK, ProxyType
  <2>2. now.with = w /\ now.pc = "command" /\ now.error = proxy.error
    BY DEF After, TypeOK, ProxyType
  <2>3. ~Gone(w) => Good(client[w], up'[w], Append(down[w], Minus(Next0.id)),
                         "command", now.id, proxy.error, undone[w])
    <3>1. /\ client[w] \in ClientType
          /\ up[w] \in Seq(Messages) /\ down[w] \in Seq(Answers)
          /\ Good(client[w], up[w], down[w], "command", proxy.id, proxy.error, undone[w])
      BY <1>1, Session
    <3>2. /\ up[w] # <<>> /\ Head(up[w]).part = "line"
          /\ Head(up[w]).req.cmd = "WRITE" /\ Head(up[w]) = Next0
          /\ up'[w] = Tail(up[w])
      BY <1>1, Taken
    <3> HIDE DEF now, w
    <3>3. client[w].pc # "gone" =>
              Good(client[w], Tail(up[w]), Append(down[w], Minus(Next0.id)),
                   "command", now.id, proxy.error, undone[w])
      BY <2>1, <3>1, <3>2, RefusalKeeps
    <3> QED BY <3>2, <3>3 DEF Gone
  <2>4. /\ proxy'.with = w
        /\ \A c \in Clients \ {w} : down'[c] = down[c]
        /\ Good(client[w], up'[w], down'[w], Place(proxy'.pc), proxy'.id,
                proxy'.error, undone[w])
    BY <1>2, <1>3, <2>1, <2>2, <2>3, Written
  <2> QED BY <1>1, <2>4, Taken, ServedStep
<1>4. CASE proxy' = After("write", proxy.error) /\ UNCHANGED down
  <2>1. /\ proxy'.with = w /\ proxy'.pc = "write" /\ proxy'.error = proxy.error
        /\ proxy'.id = Next0.id
    BY <1>4 DEF After, TypeOK, ProxyType
  <2>2. Good(client[w], up'[w], down[w], "write", proxy'.id, proxy'.error, undone[w])
    <3>1. CASE Gone(w)
      BY <3>1, <1>2, <2>1, GoneKeeps DEF Gone
    <3>2. CASE ~Gone(w)
      BY <3>2, <1>1, <2>1, Session, Taken, AwaitKeeps DEF Gone
    <3> QED BY <3>1, <3>2
  <2>3. Place(proxy'.pc) = "write"
    BY <2>1 DEF Place
  <2> QED BY <1>1, <1>4, <2>1, <2>2, <2>3, Taken, ServedStep
<1> QED BY <1>3, <1>4 DEF CmdWrite

LEMMA DataStep == ASSUME TypeOK, Sync, WriteData PROVE Sync'
<1> DEFINE w == proxy.with
<1>1. /\ Serving /\ proxy.pc = "write" /\ Takes("data")
      /\ UNCHANGED <<client, backlog, undone>>
  BY DEF WriteData, Serving
<1>2. PICK done \in BOOLEAN :
          /\ Attempt(done)
          /\ ProxyWrites(After("command", ~done),
                         Answer("line", done, FALSE, Next0.id))
  BY DEF WriteData
<1> DEFINE now == After("command", ~done)
           m == Answer("line", done, FALSE, Next0.id)
<1>3. now \in ProxyType /\ m \in Answers
  BY <1>1, Taken, TakesType, AnswerTypes
<1>4. now.with = w /\ now.pc = "command" /\ now.error = ~done
  BY DEF After, TypeOK, ProxyType
<1>5. undone[w] # {} => ~done
  BY <1>1, <1>2, AttemptError, Session
<1>6. ~Gone(w) => Good(client[w], up'[w], Append(down[w], m), "command", now.id,
                       now.error, undone[w])
  <2>1. m.part = "line" /\ m.id = Next0.id /\ (m.plus <=> done)
    BY DEF Answer
  <2>2. /\ client[w] \in ClientType
        /\ up[w] \in Seq(Messages) /\ down[w] \in Seq(Answers)
        /\ Good(client[w], up[w], down[w], "write", proxy.id, proxy.error, undone[w])
    BY <1>1, Session
  <2>3. up[w] # <<>> /\ Head(up[w]) = Next0 /\ up'[w] = Tail(up[w])
    BY <1>1, Taken
  <2>4. undone[w] # {} => now.error /\ ~m.plus
    BY <1>4, <1>5, <2>1
  <2> HIDE DEF m, now, w
  <2> QED BY <1>3, <2>1, <2>2, <2>3, <2>4, DataKeeps DEF Gone
<1>7. /\ proxy'.with = w
      /\ \A c \in Clients \ {w} : down'[c] = down[c]
      /\ Good(client[w], up'[w], down'[w], Place(proxy'.pc), proxy'.id,
              proxy'.error, undone[w])
  BY <1>2, <1>3, <1>4, <1>5, <1>6, Written
<1> QED BY <1>1, <1>7, Taken, ServedStep

\* The session ends, without another word.
LEMMA EndStep ==
    ASSUME TypeOK, Sync, Serving, UNCHANGED <<client, backlog, down, undone>>,
           proxy' = EndSession,
           \A c \in Clients \ {proxy.with} : up'[c] = up[c],
           ~Gone(proxy.with) =>
               Good(client[proxy.with], up'[proxy.with], down[proxy.with], "none",
                    proxy.id, proxy.error, undone[proxy.with])
    PROVE  Sync'
<1> DEFINE w == proxy.with
<1>1. proxy'.with = w /\ Place(proxy'.pc) = "none"
  BY DEF EndSession, Place, TypeOK, ProxyType
<1>2. Good(client[w], up'[w], down[w], "none", proxy'.id, proxy'.error, undone[w])
  <2>1. CASE Gone(w)
    BY <2>1, <1>1, GoneKeeps DEF Gone
  <2>2. CASE ~Gone(w)
    BY <2>2, ElsewhereKeeps
  <2> QED BY <2>1, <2>2
<1> QED BY <1>1, <1>2, ServedStep

LEMMA ParseKeeps == ASSUME TypeOK, Sync, ParseData PROVE Sync'
<1> DEFINE w == proxy.with
           now == After("command", proxy.error)
           m == Minus(Next0.id)
<1>1. /\ Serving /\ proxy.pc = "command" /\ Takes("data")
      /\ UNCHANGED <<client, backlog, undone>>
  BY DEF ParseData, Serving
<1>2. undone[w] # {} => proxy.error
  BY <1>1, Session
<1>3. now \in ProxyType /\ m \in Answers /\ m.part = "line" /\ ~m.plus
  BY <1>1, Taken, TakesType, ReplyTypes, ReplyFields DEF TypeOK, ProxyType
<1>4. now.with = w /\ now.pc = "command" /\ now.error = proxy.error
  BY DEF After, TypeOK, ProxyType
<1>5. ~Gone(w) =>
          /\ Good(client[w], up'[w], Append(down[w], m), "command", now.id,
                  proxy.error, undone[w])
          /\ Good(client[w], up'[w], down[w], "none", proxy.id, proxy.error, undone[w])
  <2>1. /\ client[w] \in ClientType
        /\ up[w] \in Seq(Messages) /\ down[w] \in Seq(Answers)
        /\ Good(client[w], up[w], down[w], "command", proxy.id, proxy.error, undone[w])
    BY <1>1, Session
  <2>2. /\ up[w] # <<>> /\ Head(up[w]).part = "data"
        /\ up'[w] = Tail(up[w])
    BY <1>1, Taken
  <2> HIDE DEF m, now, w
  <2>3. client[w].pc # "gone" =>
            Good(client[w], Tail(up[w]), Append(down[w], m), "command", now.id,
                 proxy.error, undone[w])
    BY <1>3, <2>1, <2>2, LeftoverKeeps
  <2>4. client[w].pc # "gone" =>
            Good(client[w], Tail(up[w]), down[w], "none", proxy.id,
                 proxy.error, undone[w])
    BY <1>3, <2>1, <2>2, LeftoverKeeps
  <2> QED BY <1>4, <2>2, <2>3, <2>4 DEF Gone
<1>6. CASE ProxyWrites(now, m)
  <2>1. /\ proxy'.with = w
        /\ \A c \in Clients \ {w} : down'[c] = down[c]
        /\ Good(client[w], up'[w], down'[w], Place(proxy'.pc), proxy'.id,
                proxy'.error, undone[w])
    BY <1>2, <1>3, <1>4, <1>5, <1>6, Written
  <2> QED BY <1>1, <2>1, Taken, ServedStep
<1>7. CASE proxy' = EndSession /\ UNCHANGED down
  BY <1>1, <1>5, <1>7, Taken, EndStep
<1> QED BY <1>6, <1>7 DEF ParseData

LEMMA WaitStep == ASSUME TypeOK, Sync, CmdWait PROVE Sync'
<1> DEFINE w == proxy.with
<1>1. /\ Serving /\ proxy.pc = "command" /\ Takes("line")
      /\ Next0.req.cmd = "WAIT"
      /\ UNCHANGED <<client, backlog, down, undone>>
  BY DEF CmdWait, Command, Serving
<1>2. undone[w] # {} => proxy.error
  BY <1>1, Session
<1>a. ~Gone(w) =>
          /\ Good(client[w], up'[w], down[w], "wait", Next0.id, proxy.error, undone[w])
          /\ Good(client[w], up'[w], down[w], "command", Next0.id, proxy.error, undone[w])
          /\ Good(client[w], up'[w], down[w], "none", proxy.id, proxy.error, undone[w])
  <2>1. /\ client[w] \in ClientType
        /\ up[w] \in Seq(Messages) /\ down[w] \in Seq(Answers)
        /\ Good(client[w], up[w], down[w], "command", proxy.id, proxy.error, undone[w])
    BY <1>1, Session
  <2>2. /\ up[w] # <<>> /\ Head(up[w]).part = "line" /\ Head(up[w]) = Next0
        /\ Head(up[w]).req.cmd = "WAIT" /\ up'[w] = Tail(up[w])
    BY <1>1, Taken
  <2> HIDE DEF w
  <2> QED BY <2>1, <2>2, WaitKeeps DEF Gone
<1>3. CASE proxy' = EndSession
  BY <1>1, <1>3, <1>a, Taken, EndStep
<1>4. ASSUME NEW pc \in {"command", "wait"}, proxy' = After(pc, proxy.error)
      PROVE  Sync'
  <2>1. /\ proxy'.with = w /\ proxy'.pc = pc /\ proxy'.error = proxy.error
        /\ proxy'.id = Next0.id
    BY <1>4 DEF After, TypeOK, ProxyType
  <2>2. Good(client[w], up'[w], down[w], pc, proxy'.id, proxy'.error, undone[w])
    <3>1. CASE Gone(w)
      BY <3>1, <1>2, <2>1, GoneKeeps DEF Gone
    <3>2. CASE ~Gone(w)
      BY <3>2, <1>a, <2>1
    <3> QED BY <3>1, <3>2
  <2>3. Place(proxy'.pc) = pc
    BY <2>1 DEF Place
  <2> QED BY <1>1, <2>1, <2>2, <2>3, Taken, ServedStep
<1> QED BY <1>3, <1>4 DEF CmdWait

LEMMA WaitOver ==
    ASSUME TypeOK, Sync, Serving, proxy.pc = "wait",
           UNCHANGED <<client, backlog, up, undone>>,
           NEW e \in BOOLEAN, NEW m \in Answers,
           m.part = "line", m.id = proxy.id, proxy.error => e,
           ProxyWrites([proxy EXCEPT !.pc = "command", !.error = e], m)
    PROVE  Sync'
<1> DEFINE w == proxy.with
           now == [proxy EXCEPT !.pc = "command", !.error = e]
<1>1. now \in ProxyType
  BY DEF TypeOK, ProxyType
<1>2. now.with = w /\ now.pc = "command" /\ now.error = e /\ now.id = proxy.id
  BY DEF TypeOK, ProxyType
<1>3. ~Gone(w) => Good(client[w], up'[w], Append(down[w], m), "command", now.id,
                       now.error, undone[w])
  <2>1. /\ client[w] \in ClientType
        /\ up[w] \in Seq(Messages) /\ down[w] \in Seq(Answers)
        /\ Good(client[w], up[w], down[w], "wait", proxy.id, proxy.error, undone[w])
        /\ up'[w] = up[w]
    BY Session
  <2>2. now.id = proxy.id /\ (undone[w] # {} => now.error)
    BY <1>2, Session
  <2> HIDE DEF now, w
  <2>3. client[w].pc # "gone" =>
            Good(client[w], up[w], Append(down[w], m), "command", proxy.id,
                 now.error, undone[w])
    BY <2>1, <2>2, WaitOverKeeps
  <2> QED BY <2>1, <2>2, <2>3 DEF Gone
<1>4. undone[w] # {} => now.error
  BY <1>2, Session
<1>5. /\ proxy'.with = w
      /\ \A c \in Clients \ {w} : down'[c] = down[c]
      /\ Good(client[w], up'[w], down'[w], Place(proxy'.pc), proxy'.id,
              proxy'.error, undone[w])
  BY <1>1, <1>2, <1>3, <1>4, Written
<1> QED BY <1>5, ServedStep

LEMMA WaitReturnsKeeps == ASSUME TypeOK, Sync, WaitReturns PROVE Sync'
<1>1. /\ Serving /\ proxy.pc = "wait"
      /\ UNCHANGED <<client, backlog, up, undone>>
  BY DEF WaitReturns, Serving
<1>2. proxy \in ProxyType /\ proxy.id \in Nat /\ proxy.error \in BOOLEAN
  BY DEF TypeOK, ProxyType
<1>3. [proxy EXCEPT !.pc = "command"]
          = [proxy EXCEPT !.pc = "command", !.error = proxy.error]
  BY <1>2 DEF ProxyType
<1>4. ASSUME NEW m \in {Plus(proxy.id), Minus(proxy.id)},
             ProxyWrites([proxy EXCEPT !.pc = "command"], m)
      PROVE  Sync'
  <2>1. m \in Answers /\ m.part = "line" /\ m.id = proxy.id
    <3>1. /\ Plus(proxy.id) \in Answers /\ Minus(proxy.id) \in Answers
      BY <1>2, ReplyTypes
    <3>2. /\ Plus(proxy.id).part = "line" /\ Plus(proxy.id).id = proxy.id
          /\ Minus(proxy.id).part = "line" /\ Minus(proxy.id).id = proxy.id
      BY ReplyFields
    <3> QED BY <1>4, <3>1, <3>2
  <2> QED BY <1>1, <1>2, <1>3, <1>4, <2>1, WaitOver
<1>5. ASSUME NEW done \in BOOLEAN, ~proxy.error,
             ProxyWrites([proxy EXCEPT !.pc = "command", !.error = ~done],
                         Answer("line", done, done, proxy.id))
      PROVE  Sync'
  <2>1. Answer("line", done, done, proxy.id) \in Answers /\ (~done) \in BOOLEAN
    BY <1>2, AnswerTypes
  <2>2. /\ Answer("line", done, done, proxy.id).part = "line"
        /\ Answer("line", done, done, proxy.id).id = proxy.id
    BY DEF Answer
  <2> QED BY <1>1, <1>5, <2>1, <2>2, WaitOver
<1> QED BY <1>4, <1>5 DEF WaitReturns

LEMMA EofKeeps == ASSUME TypeOK, Sync, Eof PROVE Sync'
<1>1. /\ Serving /\ Gone(proxy.with) /\ proxy' = EndSession
      /\ UNCHANGED <<client, backlog, up, down, undone>>
  BY DEF Eof, OnEof, Serving
<1> QED BY <1>1, EndStep

\* The next client is greeted, or sent away.
LEMMA AcceptKeeps ==
    ASSUME TypeOK, Sync, NEW c \in Clients, Accept(c)
    PROVE  Sync'
<1> DEFINE now(opens, fine) ==
               [pc |-> IF opens THEN "command" ELSE "accept", with |-> c,
                error |-> opens /\ ~fine, req |-> Idle, id |-> 0, reset |-> FALSE]
<1>1. /\ proxy.pc = "accept" /\ c \in backlog /\ backlog' = backlog \ {c}
      /\ UNCHANGED <<client, up, undone>>
  BY DEF Accept
<1>2. PICK opens \in BOOLEAN, fine \in BOOLEAN :
          ProxyWrites(now(opens, fine), Answer("line", opens, FALSE, 0))
  BY DEF Accept
<1> DEFINE m == Answer("line", opens, FALSE, 0)
           p == now(opens, fine)
<1>3. \A b \in Clients : At(b) = "none"
  BY <1>1 DEF At, Place
<1>4. /\ client[c] \in ClientType /\ client[c].pc \in {"connecting", "gone"}
      /\ undone[c] = {} /\ down[c] = <<>>
      /\ InStep(client[c], up[c], down[c], "none", proxy.id) /\ Gated(client[c])
  BY <1>1, <1>3 DEF Sync, Before, Good, TypeOK
<1>5. p.with = c /\ p.reset = FALSE /\ p.pc \in {"command", "accept"}
  OBVIOUS
<1>6. m \in Answers
  BY AnswerTypes
<1>7. /\ proxy'.with = c /\ Free(Place(proxy'.pc))
      /\ \A b \in Clients \ {c} : down'[b] = down[b]
      /\ ~Gone(c) => down'[c] = Append(down[c], m)
  <2>1. CASE Gone(c)
    <3>1. proxy' = [p EXCEPT !.reset = TRUE] /\ down' = down
      BY <1>2, <1>5, <2>1 DEF ProxyWrites
    <3> QED BY <1>5, <2>1, <3>1 DEF Place, Free
  <2>2. CASE ~Gone(c)
    <3>1. proxy' = p /\ down' = [down EXCEPT ![c] = Append(@, m)]
      BY <1>2, <1>5, <2>2 DEF ProxyWrites
    <3> HIDE DEF p, m
    <3> QED BY <1>5, <3>1 DEF Place, Free, TypeOK
  <2> QED BY <2>1, <2>2
<1> HIDE DEF p, m
<1>8. Good(client[c], up[c], down'[c], Place(proxy'.pc), proxy'.id, proxy'.error, {})
  <2>1. CASE Gone(c)
    BY <2>1, GoneKeeps DEF Gone
  <2>2. CASE ~Gone(c)
    <3>1. client[c].pc = "connecting"
      BY <1>4, <2>2 DEF Gone
    <3>2. Len(down'[c]) <= 1
      <4>1. down[c] \in Seq(Answers) /\ Len(down[c]) = 0
        BY <1>4, SeqFacts DEF TypeOK
      <4> QED BY <1>6, <1>7, <2>2, <4>1, AppendFacts
    <3>3. InStep(client[c], up[c], down'[c], Place(proxy'.pc), proxy'.id)
      BY <1>4, <1>7, <3>1, <3>2 DEF InStep, Greeting
    <3> QED BY <1>4, <3>3 DEF Good, Doubtful
  <2> QED BY <2>1, <2>2
<1>9. ASSUME NEW b \in Clients
      PROVE  /\ Good(client[b], up[b], down[b], At(b), proxy.id, proxy.error, undone[b])'
             /\ Before(client[b], down[b], At(b), undone[b], b \in backlog)'
  <2>1. CASE b = c
    <3>1. At(c)' = Place(proxy'.pc)
      BY <1>7 DEF At
    <3>2. Before(client[c], down[c], At(c), undone[c], c \in backlog)'
      BY <1>1, <1>4 DEF Before
    <3> QED BY <1>1, <1>4, <1>8, <2>1, <3>1, <3>2
  <2>2. CASE b # c
    <3>1. At(b)' = "none"
      BY <1>7, <2>2 DEF At
    <3>2. /\ Good(client[b], up[b], down[b], "none", proxy.id, proxy.error, undone[b])
          /\ Before(client[b], down[b], "none", undone[b], b \in backlog)
      BY <1>3 DEF Sync
    <3>3. Good(client[b], up[b], down[b], "none", proxy'.id, proxy'.error, undone[b])
      BY <3>2, ElsewhereKeeps
    <3>4. b \in backlog' <=> b \in backlog
      BY <1>1, <2>2
    <3>5. Before(client[b], down[b], "none", undone[b], b \in backlog')
      BY <3>2, <3>4 DEF Before
    <3> QED BY <1>1, <1>7, <2>2, <3>1, <3>3, <3>5
  <2> QED BY <2>1, <2>2
<1> QED BY <1>9 DEF Sync

LEMMA ServeKeeps == ASSUME TypeOK, Sync, Serve PROVE Sync'
BY SpecKeeps, UncheckedKeeps, CheckedKeeps, WriteKeeps, ReadKeeps, WaitStep,
   DataStep, BodyStep, ParseKeeps, WaitReturnsKeeps, EofKeeps, AcceptKeeps
   DEF Serve

-----------------------------------------------------------------------------
(* Steps of a client                                                       *)

\* Only the client itself is concerned.
LEMMA ClientStep ==
    ASSUME TypeOK, Sync, NEW c \in Clients,
           \A b \in Clients \ {c} :
               /\ client'[b] = client[b] /\ up'[b] = up[b] /\ down'[b] = down[b]
               /\ b \in backlog' <=> b \in backlog,
           proxy'.pc = proxy.pc, proxy'.with = proxy.with, proxy'.id = proxy.id,
           proxy'.error = proxy.error, undone' = undone,
           Good(client'[c], up'[c], down'[c], At(c), proxy.id, proxy.error, undone[c]),
           Before(client'[c], down'[c], At(c), undone[c], c \in backlog')
    PROVE  Sync'
<1>1. \A b \in Clients : At(b)' = At(b)
  BY DEF At
<1>2. ASSUME NEW b \in Clients
      PROVE  /\ Good(client[b], up[b], down[b], At(b), proxy.id, proxy.error, undone[b])'
             /\ Before(client[b], down[b], At(b), undone[b], b \in backlog)'
  <2>1. CASE b = c
    BY <1>1, <2>1
  <2>2. CASE b # c
    <3>1. /\ Good(client[b], up[b], down[b], At(b), proxy.id, proxy.error, undone[b])
          /\ Before(client[b], down[b], At(b), undone[b], b \in backlog)
      BY DEF Sync
    <3>2. Before(client[b], down[b], At(b), undone[b], b \in backlog')
      BY <2>2, <3>1 DEF Before
    <3> QED BY <1>1, <2>2, <3>1, <3>2
  <2> QED BY <2>1, <2>2
<1> QED BY <1>2 DEF Sync

\* What is known of a client before its step.
LEMMA ClientFacts ==
    ASSUME TypeOK, Sync, NEW c \in Clients
    PROVE  /\ client[c] \in ClientType /\ client[c].id \in Nat
           /\ client[c].req \in Requests /\ client[c].error \in BOOLEAN
           /\ up[c] \in Seq(Messages) /\ down[c] \in Seq(Answers)
           /\ InStep(client[c], up[c], down[c], At(c), proxy.id)
           /\ Gated(client[c])
           /\ Doubtful(client[c], down[c], At(c), proxy.error, undone[c])
           /\ undone[c] # {} /\ At(c) # "none" => proxy.error
           /\ client[c].pc \notin {"connecting", "gone"} => c \notin backlog
           /\ c \in backlog => down[c] = <<>> /\ undone[c] = {} /\ At(c) = "none"
BY DEF TypeOK, ClientType, Sync, Good, Before, Doubtful

LEMMA ClosedAt ==
    ASSUME TypeOK, NEW c \in Clients, c \notin backlog
    PROVE  Closed(c) <=> At(c) = "none"
BY DEF Closed, Serving, At, Place, TypeOK, ProxyType

LEMMA LeavesKeeps ==
    ASSUME TypeOK, Sync, NEW c \in Clients, Leaves(c)
    PROVE  Sync'
<1>1. /\ client' = [client EXCEPT ![c].pc = "gone"]
      /\ proxy' \in {proxy, [proxy EXCEPT !.reset = TRUE]}
      /\ down' = [down EXCEPT ![c] = <<>>]
      /\ UNCHANGED <<backlog, up, undone>>
  BY DEF Leaves
<1>2. /\ proxy'.pc = proxy.pc /\ proxy'.with = proxy.with /\ proxy'.id = proxy.id
      /\ proxy'.error = proxy.error
  BY <1>1 DEF TypeOK, ProxyType
<1>3. client'[c].pc = "gone" /\ down'[c] = <<>>
  BY <1>1 DEF TypeOK, ClientType
<1>4. \A b \in Clients \ {c} : client'[b] = client[b] /\ down'[b] = down[b]
  BY <1>1 DEF TypeOK
<1>5. Good(client'[c], up'[c], down'[c], At(c), proxy.id, proxy.error, undone[c])
  BY <1>3, ClientFacts, GoneKeeps
<1>6. Before(client'[c], down'[c], At(c), undone[c], c \in backlog')
  BY <1>1, <1>3, ClientFacts DEF Before
<1> QED BY <1>1, <1>2, <1>4, <1>5, <1>6, ClientStep

LEMMA ConnectKeeps == ASSUME TypeOK, Sync, NEW c \in Clients, Connect(c) PROVE Sync'
<1>1. /\ client[c].pc = "off" /\ client' = [client EXCEPT ![c].pc = "connecting"]
      /\ backlog' = backlog \union {c}
      /\ UNCHANGED <<up, down, proxy, undone>>
  BY DEF Connect
<1>2. /\ client'[c].pc = "connecting" /\ client'[c].error = client[c].error
      /\ \A b \in Clients \ {c} : client'[b] = client[b]
  BY <1>1 DEF TypeOK, ClientType
<1>3. At(c) = "none" /\ undone[c] = {} /\ ~client[c].error
  BY <1>1 DEF Sync, Before
<1>4. up[c] = <<>> /\ down[c] = <<>>
  BY <1>1, <1>3, ClientFacts DEF InStep, Resting
<1>5. Len(down[c]) = 0
  BY <1>4, ClientFacts, SeqFacts
<1>6. Good(client'[c], up'[c], down'[c], At(c), proxy.id, proxy.error, undone[c])
  BY <1>1, <1>2, <1>3, <1>4, <1>5
  DEF Good, InStep, Greeting, Free, Gated, Doubtful
<1>7. Before(client'[c], down'[c], At(c), undone[c], c \in backlog')
  BY <1>1, <1>2, <1>3, <1>4 DEF Before
<1> QED BY <1>1, <1>2, <1>6, <1>7, ClientStep

LEMMA GreetedKeeps == ASSUME TypeOK, Sync, NEW c \in Clients, Greeted(c) PROVE Sync'
<1>1. /\ client[c].pc = "connecting" /\ down[c] # <<>>
      /\ client' = [client EXCEPT ![c].pc =
                       IF Head(down[c]).plus THEN "ready" ELSE "gone"]
      /\ down' = [down EXCEPT ![c] = Tail(@)]
      /\ UNCHANGED <<backlog, up, proxy, undone>>
  BY DEF Greeted
<1>2. /\ client'[c].pc \in {"ready", "gone"} /\ client'[c].error = client[c].error
      /\ down'[c] = Tail(down[c])
      /\ \A b \in Clients \ {c} : client'[b] = client[b] /\ down'[b] = down[b]
  BY <1>1 DEF TypeOK, ClientType
<1>3. c \notin backlog
  BY <1>1, ClientFacts
<1>4. ~client[c].error => Resting(up[c], down'[c], At(c))
  <2>1. ~client[c].error => Greeting(up[c], down[c], At(c))
    BY <1>1, ClientFacts DEF InStep
  <2>2. Len(down[c]) <= 1 => Len(down[c]) = 1
    <3>1. Len(down[c]) \in Nat /\ Len(down[c]) # 0
      BY <1>1, ClientFacts, SeqFacts
    <3>2. \A n \in Nat : n # 0 /\ n <= 1 => n = 1
      OBVIOUS
    <3> QED BY <3>1, <3>2
  <2>3. Len(down[c]) = 1 => Tail(down[c]) = <<>>
    BY <1>1, ClientFacts, TailFacts
  <2> QED BY <1>2, <2>1, <2>2, <2>3 DEF Greeting, Resting
<1>5. Good(client'[c], up'[c], down'[c], At(c), proxy.id, proxy.error, undone[c])
  BY <1>1, <1>2, <1>4, ClientFacts DEF Good, InStep, Gated, Doubtful, Refuses
<1>6. Before(client'[c], down'[c], At(c), undone[c], c \in backlog')
  BY <1>1, <1>2, <1>3 DEF Before
<1> QED BY <1>1, <1>2, <1>5, <1>6, ClientStep

\* A request is sent: to the proxy, which is at rest, or to nobody.
LEMMA AskKeeps ==
    ASSUME TypeOK, Sync, NEW c \in Clients, NEW req \in Requests, NEW id \in Nat,
           NEW now \in ClientType,
           client[c].pc = "ready", Allows(c, req.cmd),
           now.req = req, now.id = id, now.error = client[c].error,
           now.pc = IF req.cmd = "WRITE" THEN "writing" ELSE "reply",
           ClientWrites(c, now, Message("line", req, id)),
           UNCHANGED <<backlog, down, proxy, undone>>
    PROVE  Sync'
<1> DEFINE m == Message("line", req, id)
           k == client'[c]
<1>1. c \notin backlog
  BY ClientFacts
<1>2. m \in Messages /\ m.part = "line" /\ m.req = req /\ m.id = id
  BY MessageTypes DEF Message
<1>3. \A b \in Clients \ {c} : client'[b] = client[b] /\ up'[b] = up[b]
  BY DEF ClientWrites, TypeOK
<1>4. /\ k = now \/ k = [now EXCEPT !.pc = "gone"] \/ k = [now EXCEPT !.reset = TRUE]
      /\ At(c) # "none" => k = now
      /\ up'[c] = IF At(c) = "none" THEN up[c] ELSE Append(up[c], m)
  BY <1>1, ClosedAt DEF ClientWrites, TypeOK
<1>5. /\ k.pc \in {"gone", now.pc} /\ k.error = client[c].error
      /\ k.req = req /\ k.id = id
  BY <1>4 DEF ClientType
<1> HIDE DEF m, k
<1>6. client[c].error => req.cmd \in Ungated
  BY DEF Allows
<1>7. Gated(k)
  BY <1>5, <1>6 DEF Gated, Ungated
<1>8. ~client[c].error => Resting(up[c], down[c], At(c))
  BY ClientFacts DEF InStep, ClientType
<1>9. ~client[c].error /\ k.pc # "gone" =>
          Outstanding(k, up'[c], down[c], At(c), proxy.id)
  <2> SUFFICES ASSUME ~client[c].error, k.pc # "gone"
               PROVE  Outstanding(k, up'[c], down[c], At(c), proxy.id)
    OBVIOUS
  <2>1. CASE At(c) = "none"
    <3>1. Unanswered(k, up'[c], down[c], At(c))
      BY <1>4, <1>5, <1>8, <2>1 DEF Unanswered, Resting, Free
    <3> QED BY <3>1 DEF Outstanding
  <2>2. CASE At(c) # "none"
    <3>1. /\ At(c) = "command" /\ up[c] = <<>> /\ down[c] = <<>>
          /\ up'[c] = Append(up[c], m)
      BY <1>4, <1>8, <2>2 DEF Resting, Free
    <3>2. up'[c] # <<>> /\ Len(up'[c]) = 1 /\ up'[c][1] = m
      BY <1>2, <3>1, ClientFacts, SeqFacts, AppendFacts
    <3>3. Asked(k, up'[c], down[c], At(c))
      BY <1>2, <1>5, <3>1, <3>2 DEF Asked, IsLine
    <3> QED BY <3>3 DEF Outstanding
  <2> QED BY <2>1, <2>2
<1>10. k.pc \in {"gone", "writing", "reply"}
  BY <1>5
<1>11. Doubtful(k, down[c], At(c), proxy.error, undone[c])
  BY <1>5, <1>8, <1>10, ClientFacts DEF Doubtful, Refuses, Resting
<1>12. Good(k, up'[c], down[c], At(c), proxy.id, proxy.error, undone[c])
  BY <1>5, <1>7, <1>9, <1>10, <1>11 DEF Good, InStep
<1>13. Before(k, down[c], At(c), undone[c], c \in backlog)
  BY <1>1, <1>10 DEF Before
<1> QED BY <1>3, <1>12, <1>13, ClientStep DEF k

LEMMA CallKeeps ==
    ASSUME TypeOK, Sync, NEW c \in Clients, NEW req \in Direct, Call(c, req)
    PROVE  Sync'
<1> DEFINE id == client[c].id + 1
           now == [Sent(c, req) EXCEPT !.id = id]
<1>1. req \in Requests /\ id \in Nat
  BY RequestTypes, ClientFacts
<1>2. now \in ClientType
  BY <1>1, ClientFacts DEF Sent, ClientType
<1>3. /\ now.req = req /\ now.id = id /\ now.error = client[c].error
      /\ now.pc = IF req.cmd = "WRITE" THEN "writing" ELSE "reply"
  BY ClientFacts DEF Sent, ClientType
<1>4. /\ client[c].pc = "ready" /\ Allows(c, req.cmd)
      /\ ClientWrites(c, now, Message("line", req, id))
      /\ UNCHANGED <<backlog, down, proxy, undone>>
  BY DEF Call, Ready
<1> HIDE DEF now, id
<1> QED BY <1>1, <1>2, <1>3, <1>4, AskKeeps

LEMMA AskIrqKeeps == ASSUME TypeOK, Sync, NEW c \in Clients, AskIrq(c) PROVE Sync'
<1> DEFINE w == client[c].wait
           req == Request("WAIT", Timeout(w))
           now == [Sent(c, req) EXCEPT !.wait = IF w = "expired" THEN "last" ELSE w]
           id == client[c].id
<1>1. w \in {"timed", "expired", "forever", "quick"}
  BY DEF AskIrq
<1>2. req \in Requests /\ req.cmd = "WAIT" /\ id \in Nat
  BY <1>1, RequestTypes, ClientFacts DEF Timeout, Request
<1>3. now \in ClientType
  BY <1>1, <1>2, ClientFacts DEF Sent, ClientType
<1>4. /\ now.req = req /\ now.id = id /\ now.error = client[c].error
      /\ now.pc = "reply"
  BY <1>2, ClientFacts DEF Sent, ClientType
<1>5. /\ client[c].pc = "ready" /\ Allows(c, "WAIT")
      /\ ClientWrites(c, now, Message("line", req, id))
      /\ UNCHANGED <<backlog, down, proxy, undone>>
  BY DEF AskIrq, Ready
<1> HIDE DEF now, id, req
<1> QED BY <1>2, <1>3, <1>4, <1>5, AskKeeps

LEMMA WriteDataKeeps ==
    ASSUME TypeOK, Sync, NEW c \in Clients, CallWriteData(c)
    PROVE  Sync'
<1> DEFINE m == Message("data", client[c].req, client[c].id)
           now == [client[c] EXCEPT !.pc = "reply"]
           k == client'[c]
<1>0. /\ client[c].pc = "writing" /\ ClientWrites(c, now, m)
      /\ UNCHANGED <<backlog, down, proxy, undone>>
  BY DEF CallWriteData
<1>1. c \notin backlog
  BY <1>0, ClientFacts
<1>2. m \in Messages /\ m.part = "data" /\ m.id = client[c].id
  BY MessageTypes, ClientFacts DEF Message
<1>3. \A b \in Clients \ {c} : client'[b] = client[b] /\ up'[b] = up[b]
  BY <1>0 DEF ClientWrites, TypeOK
<1>4. /\ k = now \/ k = [now EXCEPT !.pc = "gone"] \/ k = [now EXCEPT !.reset = TRUE]
      /\ up'[c] = IF At(c) = "none" THEN up[c] ELSE Append(up[c], m)
  BY <1>0, <1>1, ClosedAt DEF ClientWrites, TypeOK
<1>5. /\ k.pc \in {"gone", "reply"} /\ k.error = client[c].error
      /\ k.req = client[c].req /\ k.id = client[c].id
  BY <1>4, ClientFacts DEF ClientType
<1> HIDE DEF m, k, now
<1>6. client[c].req.cmd = "WRITE" /\ ~client[c].error
  BY <1>0, ClientFacts DEF Gated, Ungated
<1>7. Outstanding(client[c], up[c], down[c], At(c), proxy.id)
  BY <1>0, <1>6, ClientFacts DEF InStep
<1>8. k.pc # "gone" => Outstanding(k, up'[c], down[c], At(c), proxy.id)
  <2> SUFFICES ASSUME k.pc # "gone"
               PROVE  Outstanding(k, up'[c], down[c], At(c), proxy.id)
    OBVIOUS
  <2>0. k.pc = "reply"
    BY <1>5
  <2>a. up[c] \in Seq(Messages)
    BY ClientFacts
  <2>1. CASE Asked(client[c], up[c], down[c], At(c))
    <3>1. At(c) = "command" /\ up[c] # <<>> /\ Len(up[c]) = 1 /\ IsLine(up[c][1], client[c])
      BY <1>0, <2>1 DEF Asked
    <3>2. /\ up'[c] # <<>> /\ Len(up'[c]) = 2 /\ up'[c][1] = up[c][1] /\ up'[c][2] = m
      BY <1>2, <1>4, <2>a, <3>1, AppendFacts
    <3>3. Asked(k, up'[c], down[c], At(c))
      BY <1>2, <1>5, <1>6, <2>0, <2>1, <3>1, <3>2 DEF Asked, IsLine
    <3> QED BY <3>3 DEF Outstanding
  <2>2. CASE AwaitsData(client[c], up[c], down[c], At(c), proxy.id)
    <3>1. At(c) = "write" /\ up[c] = <<>>
      BY <1>0, <2>2 DEF AwaitsData
    <3>2. Len(up'[c]) = 1 /\ up'[c][1] = m
      BY <1>2, <1>4, <2>a, <3>1, SeqFacts, AppendFacts
    <3>3. AwaitsData(k, up'[c], down[c], At(c), proxy.id)
      BY <1>2, <1>5, <2>0, <2>2, <3>1, <3>2 DEF AwaitsData
    <3> QED BY <3>3 DEF Outstanding
  <2>3. CASE Refused(client[c], up[c], down[c], At(c))
    <3>1. up[c] = <<>>
      BY <1>0, <2>3 DEF Refused
    <3>2. up'[c] # <<>> => Len(up'[c]) = 1 /\ up'[c][1] = m
      BY <1>2, <1>4, <2>a, <3>1, SeqFacts, AppendFacts
    <3>3. Refused(k, up'[c], down[c], At(c))
      BY <1>2, <1>5, <2>0, <2>3, <3>2 DEF Refused
    <3> QED BY <3>3 DEF Outstanding
  <2>4. CASE Unanswered(client[c], up[c], down[c], At(c))
    <3>1. At(c) = "none"
      BY <1>6, <2>4 DEF Unanswered, Free
    <3>2. Unanswered(k, up'[c], down[c], At(c))
      BY <1>4, <2>0, <2>4, <3>1 DEF Unanswered
    <3> QED BY <3>2 DEF Outstanding
  <2> QED
    BY <1>0, <1>7, <2>1, <2>2, <2>3, <2>4 DEF Outstanding, Waiting, Answered, Reading
<1>9. Gated(k)
  BY <1>5, <1>6 DEF Gated
<1>10. Doubtful(k, down[c], At(c), proxy.error, undone[c])
  BY <1>0, <1>5, ClientFacts DEF Doubtful, Refuses
<1>11. Good(k, up'[c], down[c], At(c), proxy.id, proxy.error, undone[c])
  BY <1>5, <1>8, <1>9, <1>10 DEF Good, InStep
<1>12. Before(k, down[c], At(c), undone[c], c \in backlog)
  BY <1>1, <1>5 DEF Before
<1> QED BY <1>0, <1>3, <1>11, <1>12, ClientStep DEF k

\* The calls of programs and of the driver that change no message.
LEMMA QuietKeeps ==
    ASSUME TypeOK, Sync, NEW c \in Clients,
           UNCHANGED <<backlog, up, down, proxy, undone>>,
           \A b \in Clients \ {c} : client'[b] = client[b],
           client'[c].error = client[c].error,
           \/ client'[c].pc = client[c].pc /\ client[c].pc = "ready"
           \/ /\ client'[c].pc = client[c].pc
              /\ client'[c].req = client[c].req /\ client'[c].id = client[c].id
    PROVE  Sync'
<1> DEFINE k == client'[c]
<1>1. /\ InStep(client[c], up[c], down[c], At(c), proxy.id) /\ Gated(client[c])
      /\ Doubtful(client[c], down[c], At(c), proxy.error, undone[c])
  BY ClientFacts
<1>2. Before(client[c], down[c], At(c), undone[c], c \in backlog)
  BY DEF Sync
<1> HIDE DEF k
<1>3. CASE k.pc = "ready"
  <2>1. client[c].pc = "ready"
    BY <1>3 DEF k
  <2>2. InStep(k, up[c], down[c], At(c), proxy.id)
    BY <1>1, <1>3, <2>1 DEF InStep, k
  <2>3. Gated(k) /\ Doubtful(k, down[c], At(c), proxy.error, undone[c])
    BY <1>1, <1>3 DEF Gated, Doubtful, Refuses
  <2>4. Before(k, down[c], At(c), undone[c], c \in backlog)
    BY <1>2, <1>3, <2>1 DEF Before
  <2> QED BY <2>2, <2>3, <2>4, ClientStep DEF Good, k
<1>4. CASE k.pc # "ready"
  <2>1. /\ k.pc = client[c].pc /\ k.error = client[c].error
        /\ k.req = client[c].req /\ k.id = client[c].id
    BY <1>4 DEF k
  <2>2. Outstanding(client[c], up[c], down[c], At(c), proxy.id)
           => Outstanding(k, up[c], down[c], At(c), proxy.id)
    BY <2>1 DEF Outstanding, Asked, AwaitsData, Refused, Waiting, Unanswered,
                Answered, Reading, Body, IsLine
  <2>3. InStep(k, up[c], down[c], At(c), proxy.id)
    BY <1>1, <2>1, <2>2 DEF InStep
  <2>4. Gated(k) /\ Doubtful(k, down[c], At(c), proxy.error, undone[c])
    BY <1>1, <2>1 DEF Gated, Doubtful, Refuses
  <2>5. Before(k, down[c], At(c), undone[c], c \in backlog)
    BY <1>2, <2>1 DEF Before
  <2> QED BY <2>3, <2>4, <2>5, ClientStep DEF Good, k
<1> QED BY <1>3, <1>4

LEMMA EnterWaitKeeps == ASSUME TypeOK, Sync, NEW c \in Clients, EnterWait(c) PROVE Sync'
<1>1. /\ client[c].pc = "ready"
      /\ UNCHANGED <<backlog, up, down, proxy, undone>>
  BY DEF EnterWait, Ready
<1>2. PICK t \in {"timed", "forever", "quick"} :
          client' = [client EXCEPT ![c].wait = t, ![c].id = @ + 1]
  BY DEF EnterWait
<1>3. /\ client'[c].pc = client[c].pc /\ client'[c].error = client[c].error
      /\ \A b \in Clients \ {c} : client'[b] = client[b]
  BY <1>2 DEF TypeOK, ClientType
<1> QED BY <1>1, <1>3, QuietKeeps

LEMMA ExpiresKeeps == ASSUME TypeOK, Sync, NEW c \in Clients, Expires(c) PROVE Sync'
<1>1. /\ client' = [client EXCEPT ![c].wait = "expired"]
      /\ UNCHANGED <<backlog, up, down, proxy, undone>>
  BY DEF Expires
<1>2. /\ client'[c].pc = client[c].pc /\ client'[c].error = client[c].error
      /\ client'[c].req = client[c].req /\ client'[c].id = client[c].id
      /\ \A b \in Clients \ {c} : client'[b] = client[b]
  BY <1>1 DEF TypeOK, ClientType
<1> QED BY <1>1, <1>2, QuietKeeps

\* Whether the call of c that ends, fine or not, leaves c in error.
LEMMA ReturnFacts ==
    ASSUME TypeOK, NEW c \in Clients, NEW fine \in BOOLEAN, NEW int,
           Returns(c, fine, int)
    PROVE  /\ client'[c].pc = "ready"
           /\ client[c].error => client'[c].error
           /\ ~fine /\ client[c].req.cmd \notin {"CLKM", "WAIT"} => client'[c].error
           /\ \A b \in Clients \ {c} : client'[b] = client[b]
<1>1. PICK wanted \in BOOLEAN :
          client' = [client EXCEPT
              ![c].pc = "ready",
              ![c].error = @ \/ FlagsError(c, fine),
              ![c].wait = WaitGoesOn(@, fine /\ int, wanted)]
  BY DEF Returns
<1>2. client[c] \in ClientType
  BY DEF TypeOK
<1>3. /\ client'[c].pc = "ready"
      /\ client'[c].error = (client[c].error \/ FlagsError(c, fine))
      /\ \A b \in Clients \ {c} : client'[b] = client[b]
  BY <1>1, <1>2 DEF TypeOK, ClientType
<1> QED BY <1>3 DEF FlagsError

LEMMA ReturnKeeps ==
    ASSUME TypeOK, Sync, NEW c \in Clients,
           UNCHANGED <<backlog, up, proxy, undone>>,
           \A b \in Clients \ {c} : client'[b] = client[b] /\ down'[b] = down[b],
           client'[c].pc = "ready", c \notin backlog,
           ~client'[c].error => Resting(up[c], down'[c], At(c))
    PROVE  Sync'
<1>1. InStep(client'[c], up[c], down'[c], At(c), proxy.id)
  BY DEF InStep
<1>2. Gated(client'[c])
  BY DEF Gated
<1>3. Doubtful(client'[c], down'[c], At(c), proxy.error, undone[c])
  BY ClientFacts DEF Doubtful, Refuses
<1>4. Before(client'[c], down'[c], At(c), undone[c], c \in backlog)
  BY DEF Before
<1> QED BY <1>1, <1>2, <1>3, <1>4, ClientStep DEF Good

\* A client that expects a reply and finds something: what it can be.
LEMMA ReplyStage ==
    ASSUME TypeOK, Sync, NEW c \in Clients, client[c].pc = "reply", down[c] # <<>>,
           ~client[c].error
    PROVE  /\ Head(down[c]).id = client[c].id
           /\ \/ /\ client[c].req.cmd = "WRITE"
                 /\ Head(down[c]) = Minus(client[c].id)
              \/ /\ up[c] = <<>> /\ Tail(down[c]) = <<>> /\ Free(At(c))
                 /\ Head(down[c]).part = "line"
              \/ /\ client[c].req.cmd = "READ" /\ up[c] = <<>>
                 /\ Head(down[c]).part = "head"
                 /\ Body(client[c], down[c], At(c), proxy.id, 1)
<1>1. down[c] \in Seq(Answers) /\ Head(down[c]) = down[c][1]
  BY ClientFacts, TailFacts
<1>2. Outstanding(client[c], up[c], down[c], At(c), proxy.id)
  BY ClientFacts DEF InStep
<1>3. CASE Refused(client[c], up[c], down[c], At(c))
  BY <1>1, <1>3 DEF Refused, Minus, Answer
<1>4. CASE Answered(client[c], up[c], down[c], At(c))
  BY <1>1, <1>4, TailFacts DEF Answered
<1>5. CASE Reading(client[c], up[c], down[c], At(c), proxy.id)
  BY <1>1, <1>5 DEF Reading
<1> QED
  BY <1>2, <1>3, <1>4, <1>5 DEF Outstanding, Asked, AwaitsData, Waiting, Unanswered

LEMMA TakeReplyKeeps == ASSUME TypeOK, Sync, NEW c \in Clients, TakeReply(c) PROVE Sync'
<1> DEFINE m == Head(down[c])
<1>1. /\ client[c].pc = "reply" /\ down[c] # <<>>
      /\ down' = [down EXCEPT ![c] = Tail(@)]
      /\ UNCHANGED <<backlog, up, proxy, undone>>
  BY DEF TakeReply
<1>2. /\ down'[c] = Tail(down[c]) /\ \A b \in Clients \ {c} : down'[b] = down[b]
      /\ down[c] \in Seq(Answers)
  BY <1>1 DEF TypeOK
<1>3. c \notin backlog
  BY <1>1, ClientFacts
<1>4. CASE /\ client[c].req.cmd = "READ" /\ m.part = "head"
           /\ client' = [client EXCEPT ![c].pc = "body"]
  <2> DEFINE k == client'[c]
  <2>1. /\ k.pc = "body" /\ k.req = client[c].req /\ k.id = client[c].id
        /\ k.error = client[c].error
        /\ \A b \in Clients \ {c} : client'[b] = client[b]
    BY <1>4 DEF TypeOK, ClientType
  <2> HIDE DEF k
  <2>2. ~client[c].error
    BY <1>1, <1>4, ClientFacts DEF Gated, Ungated
  <2>3. up[c] = <<>> /\ Body(client[c], down[c], At(c), proxy.id, 1)
    <3>1. m.part # "line" /\ m # Minus(client[c].id)
      BY <1>4 DEF Minus, Answer
    <3> QED BY <1>1, <2>2, <3>1, ReplyStage
  <2>4. Body(k, down'[c], At(c), proxy.id, 0)
    <3>1. /\ Len(down'[c]) = Len(down[c]) - 1
          /\ Len(down[c]) > 1 => down'[c][1] = down[c][2]
      BY <1>1, <1>2, TailFacts
    <3> QED BY <2>1, <2>3, <3>1 DEF Body
  <2>5. Reading(k, up[c], down'[c], At(c), proxy.id)
    BY <1>4, <2>1, <2>3, <2>4 DEF Reading
  <2>6. Gated(k)
    BY <1>4, <2>1, <2>2 DEF Gated
  <2>7. undone[c] = {}
    <3>1. ~Refuses(client[c], down[c])
      <4>1. m = down[c][1]
        BY <1>1, <1>2, TailFacts
      <4> QED BY <1>1, <1>4, <2>2, <4>1 DEF Refuses, Checked
    <3> QED BY <3>1, ClientFacts DEF Doubtful
  <2>8. Good(k, up[c], down'[c], At(c), proxy.id, proxy.error, undone[c])
    BY <2>1, <2>5, <2>6, <2>7 DEF Good, InStep, Outstanding, Doubtful
  <2>9. Before(k, down'[c], At(c), undone[c], c \in backlog)
    BY <1>3, <2>1 DEF Before
  <2> QED BY <1>1, <1>2, <2>1, <2>8, <2>9, ClientStep DEF k
<1>5. ASSUME NEW fine \in BOOLEAN, NEW int, Returns(c, fine, int),
             client[c].req.cmd = "READ" => ~fine,
             m.part = "line" /\ ~m.plus => ~fine
      PROVE  Sync'
  <2>1. /\ client'[c].pc = "ready"
        /\ client[c].error => client'[c].error
        /\ ~fine /\ client[c].req.cmd \notin {"CLKM", "WAIT"} => client'[c].error
        /\ \A b \in Clients \ {c} : client'[b] = client[b]
    BY <1>5, ReturnFacts
  <2>2. ASSUME ~client'[c].error PROVE Resting(up[c], down'[c], At(c))
    <3>1. ~client[c].error /\ client[c].req.cmd # "READ"
      BY <1>5, <2>1, <2>2
    <3>2. ~(client[c].req.cmd = "WRITE" /\ m = Minus(client[c].id))
      <4>1. Minus(client[c].id).part = "line" /\ ~Minus(client[c].id).plus
        BY DEF Minus, Answer
      <4> QED BY <1>5, <2>1, <2>2, <4>1
    <3> QED BY <1>1, <1>2, <3>1, <3>2, ReplyStage DEF Resting
  <2> QED BY <1>1, <1>2, <1>3, <2>1, <2>2, ReturnKeeps
<1>6. CASE /\ client[c].req.cmd = "READ"
           /\ Returns(c, FALSE, FALSE)
  BY <1>5, <1>6
<1>7. ASSUME client[c].req.cmd # "READ",
             NEW plus \in BOOLEAN, m.part = "data" \/ plus = m.plus,
             Returns(c, plus, m.irq)
      PROVE  Sync'
  BY <1>5, <1>7
<1> QED BY <1>4, <1>6, <1>7 DEF TakeReply

LEMMA TakeBodyKeeps == ASSUME TypeOK, Sync, NEW c \in Clients, TakeBody(c) PROVE Sync'
<1> DEFINE fine == Head(down[c]).part = "data"
<1>1. /\ client[c].pc = "body" /\ down[c] # <<>>
      /\ down' = [down EXCEPT ![c] = Tail(@)]
      /\ UNCHANGED <<backlog, up, proxy, undone>>
      /\ Returns(c, fine, FALSE)
  BY DEF TakeBody
<1>2. /\ down'[c] = Tail(down[c]) /\ \A b \in Clients \ {c} : down'[b] = down[b]
      /\ down[c] \in Seq(Answers)
  BY <1>1 DEF TypeOK
<1>3. c \notin backlog
  BY <1>1, ClientFacts
<1>4. /\ client'[c].pc = "ready"
      /\ client[c].error => client'[c].error
      /\ \A b \in Clients \ {c} : client'[b] = client[b]
  <2>1. fine \in BOOLEAN
    OBVIOUS
  <2> QED BY <1>1, <2>1, ReturnFacts
<1>5. ASSUME ~client'[c].error PROVE Resting(up[c], down'[c], At(c))
  <2>1. Outstanding(client[c], up[c], down[c], At(c), proxy.id)
    BY <1>1, <1>4, <1>5, ClientFacts DEF InStep
  <2>2. up[c] = <<>> /\ Body(client[c], down[c], At(c), proxy.id, 0)
    BY <1>1, <2>1 DEF Outstanding, Asked, AwaitsData, Refused, Waiting,
                      Unanswered, Answered, Reading
  <2>3. Len(down[c]) # 0
    BY <1>1, <1>2, SeqFacts
  <2>4. Len(down[c]) = 1 /\ Free(At(c))
    BY <2>2, <2>3 DEF Body
  <2> QED BY <1>1, <1>2, <2>2, <2>4, TailFacts DEF Resting
<1> QED BY <1>1, <1>2, <1>3, <1>4, <1>5, ReturnKeeps

LEMMA HangUpKeeps == ASSUME TypeOK, Sync, NEW c \in Clients, HangUp(c) PROVE Sync'
<1>1. /\ down[c] = <<>> /\ Closed(c)
      /\ UNCHANGED <<backlog, up, down, proxy, undone>>
  BY DEF HangUp, EndOfFile
<1>2. CASE client[c].pc = "connecting" /\ client' = [client EXCEPT ![c].pc = "gone"]
  <2>1. client'[c].pc = "gone" /\ \A b \in Clients \ {c} : client'[b] = client[b]
    BY <1>2 DEF TypeOK, ClientType
  <2>2. Good(client'[c], up[c], down[c], At(c), proxy.id, proxy.error, undone[c])
    BY <2>1, ClientFacts, GoneKeeps
  <2>3. Before(client'[c], down[c], At(c), undone[c], c \in backlog)
    BY <2>1, ClientFacts DEF Before
  <2> QED BY <1>1, <2>1, <2>2, <2>3, ClientStep
<1>3. CASE client[c].pc \in {"reply", "body"} /\ Returns(c, FALSE, FALSE)
  <2>1. c \notin backlog
    BY <1>3, ClientFacts
  <2>2. At(c) = "none"
    BY <1>1, <2>1, ClosedAt
  <2>3. /\ client'[c].pc = "ready"
        /\ client[c].error => client'[c].error
        /\ client[c].req.cmd \notin {"CLKM", "WAIT"} => client'[c].error
        /\ \A b \in Clients \ {c} : client'[b] = client[b]
    BY <1>3, ReturnFacts
  <2>4. ASSUME ~client'[c].error PROVE Resting(up[c], down[c], At(c))
    <3>1. Outstanding(client[c], up[c], down[c], At(c), proxy.id)
      BY <1>3, <2>3, <2>4, ClientFacts DEF InStep
    <3>2. client[c].req.cmd \in {"CLKM", "WAIT"} /\ Len(down[c]) = 0
      BY <1>1, <2>3, <2>4, ClientFacts, SeqFacts
    <3>3. Unanswered(client[c], up[c], down[c], At(c))
      BY <1>1, <2>2, <3>1, <3>2 DEF Outstanding, Asked, AwaitsData, Refused,
                                    Waiting, Answered, Reading
    <3> QED BY <3>3 DEF Unanswered, Resting
  <2> QED BY <1>1, <2>1, <2>3, <2>4, ReturnKeeps
<1> QED BY <1>2, <1>3 DEF HangUp

LEMMA NextKeeps ==
    ASSUME TypeOK, Sync, [Next]_vars
    PROVE  Sync'
<1>1. CASE Serve
  BY <1>1, ServeKeeps
<1>2. ASSUME NEW c \in Clients, Runs(c) PROVE Sync'
  <2>1. CASE WaitFails(c)
    BY <2>1, LeavesKeeps DEF WaitFails
  <2> QED
    BY <1>2, <2>1, WriteDataKeeps, AskIrqKeeps, GreetedKeeps, TakeReplyKeeps,
       TakeBodyKeeps, HangUpKeeps DEF Runs
<1>3. ASSUME NEW c \in Clients, Program(c) PROVE Sync'
  <2>1. CASE Leave(c)
    BY <2>1, LeavesKeeps DEF Leave
  <2> QED BY <1>3, <2>1, ConnectKeeps, EnterWaitKeeps, CallKeeps DEF Program
<1>4. CASE Interrupt \/ UNCHANGED vars
  <2>1. UNCHANGED <<client, backlog, up, down, proxy, undone>>
    BY <1>4 DEF Interrupt, vars
  <2> QED BY <2>1 DEF Sync, At
<1> QED BY <1>1, <1>2, <1>3, <1>4, ExpiresKeeps DEF Next

LEMMA InitSync == Init => Sync
<1> SUFFICES ASSUME Init, NEW c \in Clients
             PROVE  /\ Good(client[c], up[c], down[c], At(c), proxy.id, proxy.error,
                            undone[c])
                    /\ Before(client[c], down[c], At(c), undone[c], c \in backlog)
  BY DEF Sync
<1>1. /\ client[c].pc = "off" /\ ~client[c].error
      /\ up[c] = <<>> /\ down[c] = <<>> /\ undone[c] = {} /\ c \notin backlog
  BY DEF Init
<1>2. At(c) = "none"
  BY DEF Init, At, Place
<1> QED BY <1>1, <1>2 DEF Good, InStep, Resting, Free, Gated, Doubtful, Before

LEMMA SyncCorrect == Spec => [](TypeOK /\ Sync)
<1>1. Init => TypeOK /\ Sync
  BY InitType, InitSync
<1>2. TypeOK /\ Sync /\ [Next]_vars => (TypeOK /\ Sync)'
  BY NextType, NextKeeps
<1> QED BY <1>1, <1>2, PTL DEF Spec

-----------------------------------------------------------------------------
(* The properties                                                          *)

\* Stages in which an answer can be taken, with its number.
LEMMA OwnStep ==
    ASSUME TypeOK, Sync, NEW c \in Clients, TakesAnswer(c),
           client[c].req.cmd \notin Ungated
    PROVE  Head(down[c]).id = client[c].id
<1>1. client[c].pc \in {"reply", "body"} /\ down[c] # <<>>
  BY DEF TakesAnswer
<1>2. ~client[c].error
  BY <1>1, ClientFacts DEF Gated
<1>3. CASE client[c].pc = "reply"
  BY <1>1, <1>2, <1>3, ReplyStage
<1>4. CASE client[c].pc = "body"
  <2>1. down[c] \in Seq(Answers) /\ Len(down[c]) # 0 /\ Head(down[c]) = down[c][1]
    BY <1>1, ClientFacts, SeqFacts, TailFacts
  <2>2. Outstanding(client[c], up[c], down[c], At(c), proxy.id)
    BY <1>2, <1>4, ClientFacts DEF InStep
  <2>3. Body(client[c], down[c], At(c), proxy.id, 0)
    BY <1>4, <2>2 DEF Outstanding, Asked, AwaitsData, Refused, Waiting,
                      Unanswered, Answered, Reading
  <2> QED BY <2>1, <2>3 DEF Body
<1> QED BY <1>1, <1>3, <1>4

\* No call takes the answer to another: what atnet.c and the proxy leave unread
\* is left by a call that set the error flag, and the flag stops the next one.
THEOREM EachItsOwnReply == Spec => OwnReply
<1> DEFINE Own == \A c \in Clients :
                      TakesAnswer(c) /\ client[c].req.cmd \notin Ungated =>
                          Head(down[c]).id = client[c].id
<1>1. TypeOK /\ Sync /\ [Next]_vars => [Own]_vars
  BY OwnStep
<1> QED BY <1>1, SyncCorrect, PTL DEF Spec, OwnReply

\* The steps of others, and those in which the client is not in a call.
LEMMA OnlyReading ==
    ASSUME TypeOK, [Next]_vars, NEW c \in Clients,
           TakesAnswer(c), client'[c].pc = "ready"
    PROVE  TakeReply(c) \/ TakeBody(c)
<1>0. client[c].pc \in {"reply", "body"} /\ down[c] # <<>>
  BY DEF TakesAnswer
<1>a. Tail(down[c]) # down[c]
  BY <1>0, TailIsOther DEF TypeOK
<1>1. client'[c] # client[c]
  BY <1>0
<1>2. CASE Serve \/ Interrupt \/ UNCHANGED vars
  <2>1. client' = client
    BY <1>2 DEF Serve, CmdSpec, CmdUnchecked, CmdChecked, CmdWrite, CmdRead,
                CmdWait, WriteData, ReadBody, ParseData, WaitReturns, Eof, Accept,
                Interrupt, vars
  <2> QED BY <1>1, <2>1
<1>3. ASSUME NEW b \in Clients, Leaves(b) PROVE FALSE
  <2>1. client' = [client EXCEPT ![b].pc = "gone"]
    BY <1>3 DEF Leaves
  <2> QED BY <1>1, <2>1 DEF TypeOK, ClientType
<1>4. ASSUME NEW b \in Clients, Expires(b) PROVE FALSE
  <2>1. client' = [client EXCEPT ![b].wait = "expired"]
    BY <1>4 DEF Expires
  <2> QED BY <1>0, <2>1 DEF TypeOK, ClientType
<1>5. ASSUME NEW b \in Clients, NEW now, NEW m, ClientWrites(b, now, m),
             client[b].pc \in {"ready", "writing"}
      PROVE  FALSE
  <2>1. b # c
    BY <1>0, <1>5
  <2>2. client'[c] = client[c]
    BY <1>5, <2>1 DEF ClientWrites, TypeOK
  <2> QED BY <1>1, <2>2
<1>6. ASSUME NEW b \in Clients, Runs(b) PROVE TakeReply(c) \/ TakeBody(c)
  <2>1. CASE b = c
    BY <1>0, <1>3, <1>5, <1>6, <2>1
    DEF Runs, CallWriteData, AskIrq, Ready, WaitFails, Greeted, HangUp, EndOfFile
  <2>2. CASE b # c
    <3>1. CASE Greeted(b)
      BY <1>1, <2>2, <3>1 DEF Greeted, TypeOK
    <3>2. CASE TakeReply(b) \/ TakeBody(b)
      <4>1. down' = [down EXCEPT ![b] = Tail(@)]
        BY <3>2 DEF TakeReply, TakeBody
      <4>2. down'[c] = down[c] /\ down'[c] = Tail(down[c])
        BY <2>2, <4>1 DEF TypeOK, TakesAnswer
      <4> QED BY <1>a, <4>2
    <3>3. CASE HangUp(b)
      <4>1. down' = down
        BY <3>3 DEF HangUp
      <4> QED BY <1>a, <4>1 DEF TakesAnswer
    <3> QED
      BY <1>3, <1>5, <1>6, <3>1, <3>2, <3>3
      DEF Runs, CallWriteData, AskIrq, Ready, WaitFails
  <2> QED BY <2>1, <2>2
<1>7. ASSUME NEW b \in Clients, Program(b) PROVE FALSE
  <2>1. CASE Connect(b) \/ EnterWait(b)
    <3>1. down' = down
      BY <2>1 DEF Connect, EnterWait
    <3> QED BY <1>a, <3>1 DEF TakesAnswer
  <2>2. CASE Leave(b)
    BY <1>3, <2>2 DEF Leave
  <2>3. ASSUME NEW req \in Direct, Call(b, req) PROVE FALSE
    BY <1>5, <2>3 DEF Call, Ready
  <2> QED BY <1>7, <2>1, <2>2, <2>3 DEF Program
<1> QED BY <1>2, <1>4, <1>6, <1>7 DEF Next

LEMMA DoneStep ==
    ASSUME TypeOK, Sync, [Next]_vars, NEW c \in Clients,
           TakesAnswer(c), client'[c].pc = "ready",
           client[c].req.cmd \in Checked, ~client'[c].error
    PROVE  undone[c] = {}
<1> SUFFICES ASSUME undone[c] # {} PROVE FALSE
  OBVIOUS
<1>1. TakeReply(c) \/ TakeBody(c)
  BY OnlyReading
<1>2. client[c].pc \in {"reply", "body"} /\ down[c] # <<>>
  BY DEF TakesAnswer
<1>3. ~client[c].error
  BY <1>2, ClientFacts DEF Gated, Checked, Ungated
<1>4. client[c].pc = "reply" /\ Head(down[c]).part = "line" /\ ~Head(down[c]).plus
  <2>1. Refuses(client[c], down[c])
    BY ClientFacts DEF Doubtful
  <2>2. Head(down[c]) = down[c][1]
    BY <1>2, ClientFacts, TailFacts
  <2> QED BY <1>2, <1>3, <2>1, <2>2 DEF Refuses
<1>5. ASSUME NEW int, Returns(c, FALSE, int) PROVE FALSE
  <2>1. client[c].req.cmd \notin {"CLKM", "WAIT"}
    BY DEF Checked
  <2> QED BY <1>5, <2>1, ReturnFacts
<1>6. TakeReply(c)
  BY <1>1, <1>4 DEF TakeBody
<1>7. ~(client' = [client EXCEPT ![c].pc = "body"])
  BY DEF TypeOK, ClientType
<1>8. PICK plus \in BOOLEAN, int \in {FALSE, Head(down[c]).irq} :
          /\ Returns(c, plus, int)
          /\ Head(down[c]).part = "data" \/ plus = Head(down[c]).plus \/ plus = FALSE
  BY <1>6, <1>7 DEF TakeReply
<1>9. plus = FALSE
  BY <1>4, <1>8
<1> QED BY <1>5, <1>8, <1>9

\* No register or buffer access succeeds in a session in which the device failed
\* at a RESET or CLKM that was answered "+".
THEOREM NothingAfterUndone == Spec => EarlierDone
<1> DEFINE Done == \A c \in Clients :
                       TakesAnswer(c) /\ client'[c].pc = "ready"
                           /\ client[c].req.cmd \in Checked /\ ~client'[c].error =>
                       undone[c] = {}
<1>1. TypeOK /\ Sync /\ [Next]_vars => [Done]_vars
  BY DoneStep
<1> QED BY <1>1, SyncCorrect, PTL DEF Spec, EarlierDone

-----------------------------------------------------------------------------
(* How a client can kill the proxy                                         *)

Large == Request("WRITE", "large")

\* What a client in error can still have under way: the data of a WRITE that was
\* refused, and calls that do not look at the flag.
Leftover(m) == m.part = "data" /\ m.req = Large
Spare(m) == Leftover(m) \/ (m.part = "line" /\ m.req.cmd \in Ungated)
Spares(u) == \A j \in 1..Len(u) : Spare(u[j])

\* Of one that is not in error: data belongs to its request, and data that the
\* proxy will parse to a WRITE it refuses.
Unread(k, u, at) ==
    /\ \A j \in 1..Len(u) : u[j].part = "data" => u[j].req = k.req
    /\ at = "command" /\ k.pc \in {"writing", "reply"}
           /\ k.req = Request("WRITE", "fits") =>
          /\ u # <<>> => u[1].part = "line"
          /\ k.pc = "writing" => u # <<>>

\* A WRITE, with its data if that was written, or another request.
OneRequest(u) ==
    /\ u # <<>> /\ u[1].part = "line"
    /\ \/ Len(u) = 1
       \/ u[1].req.cmd = "WRITE" /\ Len(u) = 2 /\ u[2].part = "data"
             /\ u[2].req = u[1].req

\* What such a client can leave behind: the proxy has one more write to do, if
\* none has come back with an RST (r); or it has a refusal or a frame to send.
Last(u, at, r) ==
    \/ u = <<>> /\ (r => at \in {"command", "read"})
    \/ at = "command" /\ Len(u) = 1 /\ Leftover(u[1])
    \/ at = "command" /\ ~r /\ OneRequest(u)
    \/ at = "write" /\ ~r /\ Len(u) = 1 /\ u[1].part = "data"

\* A session, with the last request the proxy took (q).
Doomed(k, u, at, r, q) ==
    /\ at = "read" => q.cmd = "READ"
    /\ k.pc # "gone" => ~r
    /\ k.error => at \in {"command", "read"} /\ Spares(u)
    /\ k.pc # "gone" /\ ~k.error => Unread(k, u, at)
    /\ k.pc = "gone" /\ ~k.error => Last(u, at, r)

\* What a write may kill the proxy for.
Excuse(k, q) == q.cmd = "READ" \/ q = Large \/ (q.cmd \in Ungated /\ k.error)

\* Before its session a client has sent nothing.
Fresh ==
    \A c \in Clients :
        c \in backlog \/ client[c].pc \in {"off", "connecting"} =>
            ~client[c].error /\ up[c] = <<>>

Session0(c) == Doomed(client[c], up[c], proxy.pc, proxy.reset, proxy.req)

Mortal == Fresh /\ (Serving => Session0(proxy.with)) /\ KilledHalfWay

LEMMA MortalInit == Init => Mortal
BY DEF Init, Mortal, Fresh, Serving, KilledHalfWay

LEMMA SparesTail ==
    ASSUME NEW u \in Seq(Messages), u # <<>>, Spares(u)
    PROVE  Spares(Tail(u)) /\ Spare(Head(u))
<1>1. Len(u) \in Nat \ {0} /\ Len(Tail(u)) = Len(u) - 1 /\ Head(u) = u[1]
  BY TailFacts, SeqFacts
<1>2. ASSUME NEW j \in 1..Len(Tail(u)) PROVE Spare(Tail(u)[j])
  <2>1. Tail(u)[j] = u[j + 1] /\ j + 1 \in 1..Len(u)
    BY <1>1, <1>2
  <2> QED BY <2>1 DEF Spares
<1> QED BY <1>1, <1>2 DEF Spares

LEMMA SparesAppend ==
    ASSUME NEW u \in Seq(Messages), Spares(u), NEW m \in Messages, Spare(m)
    PROVE  Spares(Append(u, m))
<1>1. Len(u) \in Nat /\ Len(Append(u, m)) = Len(u) + 1
  BY AppendFacts
<1> SUFFICES ASSUME NEW j \in 1..(Len(u) + 1) PROVE Spare(Append(u, m)[j])
  BY <1>1 DEF Spares
<1>2. CASE j = Len(u) + 1
  BY <1>2
<1>3. CASE j # Len(u) + 1
  <2>1. j \in 1..Len(u) /\ Append(u, m)[j] = u[j]
    BY <1>1, <1>3
  <2> QED BY <2>1 DEF Spares
<1> QED BY <1>2, <1>3

\* A connection with nothing under way.
LEMMA EmptyDoomed ==
    ASSUME NEW k, NEW u, u = <<>>, NEW at, NEW r, NEW q,
           at = "read" => q.cmd = "READ",
           k.pc # "gone" => ~r,
           r => at \in {"command", "read"},
           k.error => at \in {"command", "read"},
           k.pc = "writing" /\ ~k.error => k.req = Large \/ at # "command"
    PROVE  Doomed(k, u, at, r, q)
<1>1. Len(u) = 0
  OBVIOUS
<1>2. Large # Request("WRITE", "fits")
  BY DEF Large, Request
<1>3. Spares(u) /\ Last(u, at, r)
  BY <1>1 DEF Spares, Last
<1>4. k.pc # "gone" /\ ~k.error => Unread(k, u, at)
  BY <1>1, <1>2 DEF Unread
<1> QED BY <1>3, <1>4 DEF Doomed

\* What the proxy finds when it takes a request.
LEMMA LineTaken ==
    ASSUME NEW k \in ClientType, NEW u \in Seq(Messages), NEW d, NEW i, NEW r, NEW q,
           Doomed(k, u, "command", r, q),
           k.pc # "gone" => InStep(k, u, d, "command", i) /\ Gated(k),
           u # <<>>, Head(u).part = "line"
    PROVE  /\ k.error => Head(u).req.cmd \in Ungated /\ Spares(Tail(u))
           /\ ~k.error => ~r
           /\ ~k.error /\ Head(u).req.cmd # "WRITE" => Tail(u) = <<>> /\ k.pc # "writing"
           /\ ~k.error /\ Head(u).req.cmd = "WRITE" =>
                 Tail(u) = <<>>
                    \/ (Len(Tail(u)) = 1 /\ Tail(u)[1].part = "data"
                        /\ Tail(u)[1].req = Head(u).req)
           /\ ~k.error /\ k.pc # "gone" => k.req = Head(u).req
<1>1. Head(u) = u[1] /\ u[1].part # "data"
  BY TailFacts
<1>2. CASE k.error
  <2>1. Spares(u)
    BY <1>2 DEF Doomed
  <2> QED BY <1>1, <1>2, <2>1, SparesTail DEF Spare, Leftover
<1>3. CASE ~k.error /\ k.pc = "gone"
  <2>1. OneRequest(u) /\ ~r
    BY <1>1, <1>3 DEF Doomed, Last, Leftover
  <2>2. Len(u) = 1 => Tail(u) = <<>>
    BY TailFacts
  <2>3. Len(u) = 2 => Len(Tail(u)) = 1 /\ Tail(u)[1] = u[2]
    BY TailFacts
  <2> QED BY <1>1, <1>3, <2>1, <2>2, <2>3 DEF OneRequest
<1>4. CASE ~k.error /\ k.pc # "gone"
  <2>1. /\ Head(u).req = k.req /\ k.pc \in {"writing", "reply"}
        /\ k.req.cmd # "WRITE" \/ k.pc = "writing" => Tail(u) = <<>>
        /\ k.req.cmd = "WRITE" /\ k.pc = "reply" =>
              Len(Tail(u)) = 1 /\ Tail(u) # <<>> /\ Tail(u)[1].part = "data"
    BY <1>4, TakesLine
  <2>2. k.pc = "writing" => k.req.cmd = "WRITE"
    BY <1>4 DEF Gated
  <2>3. ~r /\ Unread(k, u, "command")
    BY <1>4 DEF Doomed
  <2>4. Len(Tail(u)) = 1 => Tail(u)[1] = u[2] /\ Len(u) = 2
    <3>1. Len(u) \in Nat /\ Len(Tail(u)) = Len(u) - 1
      BY SeqFacts, TailFacts
    <3>2. \A n \in Nat : n - 1 = 1 => n = 2 /\ n > 1
      OBVIOUS
    <3> QED BY <3>1, <3>2, TailFacts
  <2>5. Len(Tail(u)) = 1 /\ Tail(u)[1].part = "data" => Tail(u)[1].req = k.req
    BY <2>3, <2>4 DEF Unread
  <2> QED BY <1>4, <2>1, <2>2, <2>3, <2>5
<1> QED BY <1>2, <1>3, <1>4

\* The data it finds.
LEMMA DataTaken ==
    ASSUME NEW k \in ClientType, NEW u \in Seq(Messages), NEW d, NEW i, NEW r, NEW q,
           NEW at \in {"command", "write"}, Doomed(k, u, at, r, q),
           k.pc # "gone" => InStep(k, u, d, at, i) /\ Gated(k),
           u # <<>>, Head(u).part = "data"
    PROVE  /\ at = "command" => Head(u).req = Large
           /\ at = "write" => ~r /\ ~k.error
           /\ k.error => Spares(Tail(u))
           /\ ~k.error => Tail(u) = <<>> /\ k.pc # "writing"
<1>1. Head(u) = u[1] /\ u[1].part # "line" /\ 1 \in 1..Len(u)
  <2>1. Len(u) \in Nat /\ Len(u) # 0
    BY SeqFacts
  <2> QED BY <2>1, TailFacts
<1>2. CASE k.error
  <2>1. Spares(u) /\ at = "command"
    BY <1>2 DEF Doomed
  <2> QED BY <1>1, <1>2, <2>1, SparesTail DEF Spare, Leftover
<1>3. CASE ~k.error /\ k.pc = "gone"
  BY <1>1, <1>3, TailFacts DEF Doomed, Last, OneRequest, Leftover
<1>4. CASE ~k.error /\ k.pc # "gone"
  <2>1. k.pc \in {"writing", "reply", "body"} /\ Outstanding(k, u, d, at, i)
    BY <1>4 DEF InStep, Resting, Greeting, ClientType
  <2>2. ~r /\ Unread(k, u, at)
    BY <1>4 DEF Doomed
  <2>3. CASE AwaitsData(k, u, d, at, i)
    BY <1>1, <1>4, <2>2, <2>3, TailFacts DEF AwaitsData
  <2>4. CASE Refused(k, u, d, at)
    <3>1. k.pc = "reply" /\ Len(u) = 1 /\ at = "command" /\ k.req.cmd = "WRITE"
      BY <2>4 DEF Refused, Free
    <3>2. k.req # Request("WRITE", "fits") /\ u[1].req = k.req
      BY <1>1, <2>2, <3>1 DEF Unread
    <3>3. k.req = Large
      BY <3>1, <3>2 DEF ClientType, Requests, Request, Large, Ungated, Checked
    <3> QED BY <1>1, <1>4, <3>1, <3>2, <3>3, TailFacts
  <2> QED BY <1>1, <2>1, <2>3, <2>4 DEF Outstanding, Asked, IsLine, Waiting,
             Unanswered, Answered, Reading
<1> QED BY <1>2, <1>3, <1>4

LEMMA UntouchedFresh ==
    ASSUME TypeOK, Fresh, UNCHANGED <<client, backlog>>,
           \A c \in Clients : up'[c] = up[c] \/ up[c] # <<>>
    PROVE  Fresh'
BY DEF Fresh

\* A write of the proxy, which is "now" after it.
LEMMA Struck ==
    ASSUME TypeOK, Mortal, Serving, UNCHANGED client, Fresh',
           NEW now \in ProxyType, now.with = proxy.with,
           now.pc \in {"command", "read"}, now.reset = proxy.reset,
           NEW m, ProxyWrites(now, m),
           Gone(proxy.with) /\ proxy.reset => Excuse(client[proxy.with], now.req),
           \A s \in BOOLEAN : (s => Gone(proxy.with) /\ ~proxy.reset) =>
               Doomed(client[proxy.with], up'[proxy.with], now.pc, s, now.req)
    PROVE  Mortal'
<1> DEFINE w == proxy.with
<1>1. CASE Gone(w) /\ proxy.reset
  <2>1. proxy' = [now EXCEPT !.pc = "dead"]
    BY <1>1 DEF ProxyWrites
  <2>2. proxy'.pc = "dead" /\ proxy'.with = w /\ proxy'.req = now.req
    BY <2>1 DEF ProxyType
  <2>3. KilledHalfWay'
    BY <1>1, <2>2 DEF KilledHalfWay, Excuse, Large, Gone
  <2> QED BY <2>2, <2>3 DEF Mortal, Serving
<1>2. CASE Gone(w) /\ ~proxy.reset
  <2>1. proxy' = [now EXCEPT !.reset = TRUE]
    BY <1>2 DEF ProxyWrites
  <2>2. /\ proxy'.pc = now.pc /\ proxy'.with = w /\ proxy'.req = now.req
        /\ proxy'.reset = TRUE
    BY <2>1 DEF ProxyType
  <2>3. Doomed(client[w], up'[w], now.pc, TRUE, now.req)
    BY <1>2
  <2> QED BY <2>2, <2>3 DEF Mortal, KilledHalfWay, Session0
<1>3. CASE ~Gone(w)
  <2>1. proxy' = now
    BY <1>3 DEF ProxyWrites
  <2>2. proxy'.reset = FALSE
    BY <1>3, <2>1 DEF Mortal, Session0, Doomed, Gone, ProxyType
  <2>3. Doomed(client[w], up'[w], now.pc, FALSE, now.req)
    BY <1>3
  <2> QED BY <2>1, <2>2, <2>3 DEF Mortal, KilledHalfWay, Session0
<1> QED BY <1>1, <1>2, <1>3

\* A step of the proxy that writes nothing.
LEMMA Spared ==
    ASSUME Mortal, UNCHANGED client, Fresh',
           proxy'.with = proxy.with,
           \/ proxy'.pc = "accept"
           \/ /\ proxy'.pc \in {"command", "write", "wait"}
              /\ Doomed(client[proxy.with], up'[proxy.with], proxy'.pc,
                        proxy'.reset, proxy'.req)
    PROVE  Mortal'
BY DEF Mortal, KilledHalfWay, Serving, Session0

\* What Mortal and Sync say of the session.
LEMMA SessionFacts ==
    ASSUME TypeOK, Sync, Mortal, Serving
    PROVE  /\ proxy.with \in Clients
           /\ client[proxy.with] \in ClientType
           /\ up[proxy.with] \in Seq(Messages)
           /\ InStep(client[proxy.with], up[proxy.with], down[proxy.with],
                     proxy.pc, proxy.id)
           /\ Gated(client[proxy.with])
           /\ Doomed(client[proxy.with], up[proxy.with], proxy.pc, proxy.reset,
                     proxy.req)
           /\ Gone(proxy.with) <=> client[proxy.with].pc = "gone"
           /\ proxy.reset \in BOOLEAN
BY Session DEF Good, Mortal, Session0, Gone, TypeOK, ProxyType

LEMMA AfterFields ==
    ASSUME TypeOK, NEW part, Takes(part), NEW pc \in {"command", "write", "read", "wait"},
           NEW e \in BOOLEAN
    PROVE  /\ After(pc, e) \in ProxyType
           /\ After(pc, e).with = proxy.with /\ After(pc, e).pc = pc
           /\ After(pc, e).reset = proxy.reset /\ After(pc, e).req = Next0.req
<1>1. After(pc, e) \in ProxyType
  BY TakesType
<1>2. proxy \in ProxyType
  BY DEF TypeOK
<1>3. /\ After(pc, e).with = proxy.with /\ After(pc, e).pc = pc
      /\ After(pc, e).reset = proxy.reset /\ After(pc, e).req = Next0.req
  BY <1>2 DEF After, ProxyType
<1> QED BY <1>1, <1>3

\* A request was taken.
LEMMA TakenFresh ==
    ASSUME TypeOK, Fresh, UNCHANGED <<client, backlog>>, NEW part, Takes(part)
    PROVE  Fresh'
<1>1. \A c \in Clients : up'[c] = up[c] \/ up[c] # <<>>
  BY Taken
<1> QED BY <1>1, UntouchedFresh

\* The connection of a client after a request that is no WRITE.
LEMMA LineDoomed ==
    ASSUME NEW k \in ClientType, NEW u \in Seq(Messages), NEW d, NEW i, NEW r, NEW q,
           Doomed(k, u, "command", r, q),
           k.pc # "gone" => InStep(k, u, d, "command", i) /\ Gated(k),
           u # <<>>, Head(u).part = "line", Head(u).req.cmd # "WRITE",
           NEW at \in {"command", "read"}, NEW p, at = "read" => p.cmd = "READ",
           NEW s, k.pc # "gone" => ~s
    PROVE  Doomed(k, Tail(u), at, s, p)
<1>1. CASE k.error
  BY <1>1, LineTaken DEF Doomed
<1>2. CASE ~k.error
  <2>1. Tail(u) = <<>> /\ k.pc # "writing"
    BY <1>2, LineTaken
  <2> QED BY <1>2, <2>1, EmptyDoomed
<1> QED BY <1>1, <1>2

LEMMA AnswerMortal ==
    ASSUME TypeOK, Sync, Mortal, proxy.pc = "command",
           UNCHANGED <<client, backlog>>, Takes("line"), Next0.req.cmd # "WRITE",
           NEW pc \in {"command", "read"}, pc = "read" => Next0.req.cmd = "READ",
           NEW e \in BOOLEAN, NEW m, ProxyWrites(After(pc, e), m)
    PROVE  Mortal'
<1> DEFINE w == proxy.with
           k == client[w]
           u == up[w]
           now == After(pc, e)
<1>0. Serving
  BY DEF Serving
<1>1. /\ k \in ClientType /\ u \in Seq(Messages)
      /\ Doomed(k, u, "command", proxy.reset, proxy.req)
      /\ k.pc # "gone" => InStep(k, u, down[w], "command", proxy.id) /\ Gated(k)
      /\ Gone(w) <=> k.pc = "gone"
  BY <1>0, SessionFacts
<1>2. /\ u # <<>> /\ Head(u) = Next0 /\ Head(u).part = "line"
      /\ up'[w] = Tail(u)
  BY Taken
<1>3. /\ now \in ProxyType /\ now.with = w /\ now.pc = pc
      /\ now.reset = proxy.reset /\ now.req = Next0.req
  BY AfterFields
<1> HIDE DEF now, w, u, k
<1>4. Gone(w) /\ proxy.reset => Excuse(k, now.req)
  BY <1>1, <1>2, <1>3, LineTaken DEF Excuse
<1>5. ASSUME NEW s \in BOOLEAN, s => Gone(w)
      PROVE  Doomed(k, Tail(u), pc, s, Next0.req)
  BY <1>1, <1>2, <1>5, LineDoomed
<1>6. Fresh'
  BY TakenFresh DEF Mortal
<1> QED BY <1>0, <1>2, <1>3, <1>4, <1>5, <1>6, Struck DEF w, u, k, now

LEMMA LineMortal ==
    ASSUME TypeOK, Sync, Mortal, CmdSpec \/ CmdUnchecked \/ CmdChecked \/ CmdRead
    PROVE  Mortal'
<1>1. /\ proxy.pc = "command" /\ Takes("line") /\ UNCHANGED <<client, backlog>>
      /\ Next0.req.cmd # "WRITE"
  BY DEF CmdSpec, CmdUnchecked, CmdChecked, CmdRead, Command
<1>2. proxy.error \in BOOLEAN
  BY DEF TypeOK, ProxyType
<1>3. CASE CmdSpec
  <2>1. ProxyWrites(After("command", proxy.error), Plus(Next0.id))
    BY <1>3 DEF CmdSpec
  <2> QED BY <1>1, <1>2, <2>1, AnswerMortal
<1>4. CASE CmdUnchecked
  <2>1. PICK done \in BOOLEAN : ProxyWrites(After("command", ~done), Plus(Next0.id))
    BY <1>4 DEF CmdUnchecked
  <2>2. (~done) \in BOOLEAN
    OBVIOUS
  <2> QED BY <1>1, <2>1, <2>2, AnswerMortal
<1>5. CASE CmdChecked
  <2>1. PICK done \in BOOLEAN :
            ProxyWrites(After("command", ~done),
                        Answer("line", done, FALSE, Next0.id))
    BY <1>5 DEF CmdChecked
  <2>2. (~done) \in BOOLEAN
    OBVIOUS
  <2> QED BY <1>1, <2>1, <2>2, AnswerMortal
<1>6. CASE CmdRead
  <2>1. \/ ProxyWrites(After("read", FALSE), Answer("head", TRUE, FALSE, Next0.id))
        \/ ProxyWrites(After("command", TRUE), Minus(Next0.id))
        \/ ProxyWrites(After("command", FALSE), Minus(Next0.id))
    BY <1>6 DEF CmdRead
  <2>2. Next0.req.cmd = "READ"
    BY <1>6 DEF CmdRead, Command
  <2> QED BY <1>1, <2>1, <2>2, AnswerMortal
<1> QED BY <1>3, <1>4, <1>5, <1>6

LEMMA WriteMortal == ASSUME TypeOK, Sync, Mortal, CmdWrite PROVE Mortal'
<1> DEFINE w == proxy.with
           k == client[w]
           u == up[w]
<1>1. /\ Serving /\ proxy.pc = "command" /\ Takes("line")
      /\ Next0.req.cmd = "WRITE"
      /\ UNCHANGED <<client, backlog>>
  BY DEF CmdWrite, Command, Serving
<1>2. /\ k \in ClientType /\ u \in Seq(Messages)
      /\ Doomed(k, u, "command", proxy.reset, proxy.req)
      /\ k.pc # "gone" => InStep(k, u, down[w], "command", proxy.id) /\ Gated(k)
      /\ Gone(w) <=> k.pc = "gone"
      /\ w \in Clients
  BY <1>1, SessionFacts
<1>3. /\ u # <<>> /\ Head(u) = Next0 /\ Head(u).part = "line"
      /\ up'[w] = Tail(u) /\ Tail(u) \in Seq(Messages)
  BY <1>1, <1>2, Taken, TailFacts
<1>4. proxy.error \in BOOLEAN /\ proxy \in ProxyType
  BY DEF TypeOK, ProxyType
<1>5. Fresh'
  BY <1>1, TakenFresh DEF Mortal
<1> HIDE DEF w, u, k
<1>6. /\ ~k.error /\ ~proxy.reset
      /\ \/ Tail(u) = <<>>
         \/ /\ Len(Tail(u)) = 1 /\ Tail(u)[1].part = "data"
            /\ Tail(u)[1].req = Next0.req
      /\ k.pc # "gone" => k.req = Next0.req
  BY <1>1, <1>2, <1>3, LineTaken DEF Ungated
<1>7. /\ \A j \in 1..Len(Tail(u)) : Tail(u)[j].req = Next0.req
      /\ Tail(u) = <<>> \/ Tail(u)[1].req = Next0.req
  <2>1. Tail(u) = <<>> => Len(Tail(u)) = 0
    OBVIOUS
  <2> QED BY <1>6, <2>1
<1>8. CASE /\ Next0.req.arg = "large"
           /\ ProxyWrites(After("command", proxy.error), Minus(Next0.id))
  <2>1. Next0.req = Large
    <3>1. Next0.req \in Requests
      BY <1>1, Taken DEF Messages
    <3> QED BY <1>1, <1>8, <3>1 DEF Requests, Request, Large, Ungated, Checked
  <2>2. Large # Request("WRITE", "fits")
    BY DEF Large, Request
  <2>3. k.pc # "gone" => Unread(k, Tail(u), "command")
    BY <1>6, <1>7, <2>1, <2>2 DEF Unread
  <2>4. ASSUME NEW s \in BOOLEAN, s => Gone(w)
        PROVE  Doomed(k, Tail(u), "command", s, Next0.req)
    <3>1. k.pc = "gone" => Last(Tail(u), "command", s)
      BY <1>6, <2>1 DEF Last, Leftover
    <3> QED BY <1>2, <1>6, <2>3, <2>4, <3>1 DEF Doomed
  <2> DEFINE now == After("command", proxy.error)
  <2>5. /\ now \in ProxyType /\ now.with = w /\ now.pc = "command"
        /\ now.reset = proxy.reset /\ now.req = Next0.req
    BY <1>1, <1>4, AfterFields DEF w
  <2> HIDE DEF now
  <2> QED BY <1>1, <1>3, <1>5, <1>6, <1>8, <2>4, <2>5, Struck DEF w, u, k, now
<1>9. CASE proxy' = After("write", proxy.error)
  <2>1. /\ proxy'.with = w /\ proxy'.pc = "write"
        /\ proxy'.reset = proxy.reset /\ proxy'.req = Next0.req
    BY <1>1, <1>4, <1>9, AfterFields DEF w
  <2>2. k.pc # "gone" => Unread(k, Tail(u), "write")
    BY <1>6, <1>7 DEF Unread
  <2>3. Last(Tail(u), "write", proxy.reset)
    BY <1>6 DEF Last
  <2>4. Doomed(k, Tail(u), "write", proxy.reset, Next0.req)
    BY <1>6, <2>2, <2>3 DEF Doomed
  <2> QED BY <1>1, <1>3, <1>5, <2>1, <2>4, Spared DEF w, u, k
<1> QED BY <1>8, <1>9 DEF CmdWrite

\* The end of a session.
LEMMA EndMortal ==
    ASSUME TypeOK, Mortal, UNCHANGED client, Fresh', proxy' = EndSession
    PROVE  Mortal'
<1>1. proxy'.with = proxy.with /\ proxy'.pc = "accept"
  BY DEF EndSession, TypeOK, ProxyType
<1> QED BY <1>1, Spared

LEMMA DataMortal ==
    ASSUME TypeOK, Sync, Mortal, WriteData \/ ParseData
    PROVE  Mortal'
<1> DEFINE w == proxy.with
           k == client[w]
           u == up[w]
           at == proxy.pc
<1>1. /\ Serving /\ at \in {"command", "write"} /\ Takes("data")
      /\ UNCHANGED <<client, backlog>>
  BY DEF WriteData, ParseData, Serving
<1>2. /\ k \in ClientType /\ u \in Seq(Messages)
      /\ Doomed(k, u, at, proxy.reset, proxy.req)
      /\ k.pc # "gone" => InStep(k, u, down[w], at, proxy.id) /\ Gated(k)
      /\ Gone(w) <=> k.pc = "gone"
  BY <1>1, SessionFacts
<1>3. /\ u # <<>> /\ Head(u) = Next0 /\ Head(u).part = "data"
      /\ up'[w] = Tail(u)
  BY <1>1, Taken
<1>4. proxy.error \in BOOLEAN
  BY DEF TypeOK, ProxyType
<1>5. Fresh'
  BY <1>1, TakenFresh DEF Mortal
<1> HIDE DEF w, u, k, at
<1>6. /\ at = "command" => Next0.req = Large
      /\ at = "write" => ~proxy.reset /\ ~k.error
      /\ k.error => Spares(Tail(u))
      /\ ~k.error => Tail(u) = <<>> /\ k.pc # "writing"
  BY <1>1, <1>2, <1>3, DataTaken
<1>7. ASSUME NEW s \in BOOLEAN, s => Gone(w)
      PROVE  Doomed(k, Tail(u), "command", s, Next0.req)
  <2>1. CASE k.error
    BY <1>2, <1>6, <1>7, <2>1 DEF Doomed
  <2>2. CASE ~k.error
    BY <1>2, <1>6, <1>7, <2>2, EmptyDoomed
  <2> QED BY <2>1, <2>2
<1>8. ASSUME NEW e \in BOOLEAN, NEW m, ProxyWrites(After("command", e), m)
      PROVE  Mortal'
  <2> DEFINE now == After("command", e)
  <2>1. /\ now \in ProxyType /\ now.with = w /\ now.pc = "command"
        /\ now.reset = proxy.reset /\ now.req = Next0.req
    BY <1>1, AfterFields DEF w
  <2>2. proxy.reset => Excuse(k, now.req)
    BY <1>1, <1>6, <2>1 DEF Excuse
  <2>3. ProxyWrites(now, m)
    BY <1>8
  <2> HIDE DEF now
  <2> QED BY <1>1, <1>3, <1>5, <1>7, <2>1, <2>2, <2>3, Struck DEF w, u, k
<1>9. CASE WriteData
  <2>1. PICK done \in BOOLEAN :
            ProxyWrites(After("command", ~done),
                        Answer("line", done, FALSE, Next0.id))
    BY <1>9 DEF WriteData
  <2>2. (~done) \in BOOLEAN
    OBVIOUS
  <2> QED BY <1>8, <2>1, <2>2
<1>10. CASE ParseData
  <2>1. \/ ProxyWrites(After("command", proxy.error), Minus(Next0.id))
        \/ proxy' = EndSession
    BY <1>10 DEF ParseData
  <2> QED BY <1>1, <1>4, <1>5, <1>8, <2>1, EndMortal
<1> QED BY <1>9, <1>10

LEMMA WaitMortal == ASSUME TypeOK, Sync, Mortal, CmdWait PROVE Mortal'
<1> DEFINE w == proxy.with
           k == client[w]
           u == up[w]
<1>1. /\ Serving /\ proxy.pc = "command" /\ Takes("line")
      /\ Next0.req.cmd = "WAIT"
      /\ UNCHANGED <<client, backlog>>
  BY DEF CmdWait, Command, Serving
<1>2. /\ k \in ClientType /\ u \in Seq(Messages)
      /\ Doomed(k, u, "command", proxy.reset, proxy.req)
      /\ k.pc # "gone" => InStep(k, u, down[w], "command", proxy.id) /\ Gated(k)
  BY <1>1, SessionFacts
<1>3. /\ u # <<>> /\ Head(u) = Next0 /\ Head(u).part = "line"
      /\ up'[w] = Tail(u)
  BY <1>1, Taken
<1>4. Fresh'
  BY <1>1, TakenFresh DEF Mortal
<1> HIDE DEF w, u, k
<1>5. ~k.error /\ ~proxy.reset /\ Tail(u) = <<>> /\ k.pc # "writing"
  BY <1>1, <1>2, <1>3, LineTaken DEF Ungated
<1>6. ASSUME NEW pc \in {"command", "wait"}, proxy' = After(pc, proxy.error)
      PROVE  Mortal'
  <2>1. /\ proxy'.with = w /\ proxy'.pc = pc /\ proxy'.reset = proxy.reset
    BY <1>6 DEF w, After, TypeOK, ProxyType
  <2>2. Doomed(k, Tail(u), pc, proxy.reset, proxy'.req)
    BY <1>5, EmptyDoomed
  <2> QED BY <1>1, <1>3, <1>4, <2>1, <2>2, Spared DEF w, u, k
<1> QED BY <1>1, <1>4, <1>6, EndMortal DEF CmdWait

LEMMA BodyMortal == ASSUME TypeOK, Sync, Mortal, ReadBody PROVE Mortal'
<1> DEFINE w == proxy.with
           k == client[w]
           u == up[w]
           now == [proxy EXCEPT !.pc = "command"]
           m == Answer("data", FALSE, FALSE, proxy.id)
<1>1. /\ Serving /\ proxy.pc = "read" /\ ProxyWrites(now, m)
      /\ UNCHANGED <<client, backlog, up>>
  BY DEF ReadBody, Serving
<1>2. /\ k \in ClientType /\ u \in Seq(Messages)
      /\ Doomed(k, u, "read", proxy.reset, proxy.req)
      /\ k.pc # "gone" => InStep(k, u, down[w], "read", proxy.id)
      /\ Gone(w) <=> k.pc = "gone"
  BY <1>1, SessionFacts
<1>3. /\ now \in ProxyType /\ now.with = w /\ now.pc = "command"
      /\ now.reset = proxy.reset /\ now.req = proxy.req
  BY DEF TypeOK, ProxyType
<1>4. Fresh'
  BY <1>1, UntouchedFresh DEF Mortal
<1> HIDE DEF w, u, k, now, m
<1>5. proxy.req.cmd = "READ" /\ (k.error => Spares(u))
  BY <1>2 DEF Doomed
<1>6. ~k.error => u = <<>> /\ k.pc # "writing"
  <2>1. CASE ~k.error /\ k.pc = "gone"
    BY <1>2, <2>1 DEF Doomed, Last
  <2>2. CASE ~k.error /\ k.pc # "gone"
    <3>1. k.pc \in {"writing", "reply", "body"} /\ Outstanding(k, u, down[w], "read", proxy.id)
      BY <1>2, <2>2 DEF InStep, Resting, Greeting, Free, ClientType
    <3>2. Reading(k, u, down[w], "read", proxy.id)
      BY <3>1 DEF Outstanding, Asked, AwaitsData, Refused, Waiting, Unanswered,
                  Answered, Free
    <3> QED BY <3>2 DEF Reading
  <2> QED BY <2>1, <2>2
<1>7. ASSUME NEW s \in BOOLEAN, s => Gone(w)
      PROVE  Doomed(k, u, "command", s, now.req)
  <2>1. CASE k.error
    BY <1>2, <1>5, <1>7, <2>1 DEF Doomed
  <2>2. CASE ~k.error
    BY <1>2, <1>6, <1>7, <2>2, EmptyDoomed
  <2> QED BY <2>1, <2>2
<1>8. Excuse(k, now.req)
  BY <1>3, <1>5 DEF Excuse
<1> QED BY <1>1, <1>3, <1>4, <1>7, <1>8, Struck DEF w, u, k

LEMMA WaitReturnsMortal == ASSUME TypeOK, Sync, Mortal, WaitReturns PROVE Mortal'
<1> DEFINE w == proxy.with
           k == client[w]
           u == up[w]
<1>1. /\ Serving /\ proxy.pc = "wait" /\ UNCHANGED <<client, backlog, up>>
  BY DEF WaitReturns, Serving
<1>2. /\ k \in ClientType /\ u \in Seq(Messages)
      /\ Doomed(k, u, "wait", proxy.reset, proxy.req)
      /\ k.pc # "gone" => InStep(k, u, down[w], "wait", proxy.id)
      /\ Gone(w) <=> k.pc = "gone"
  BY <1>1, SessionFacts
<1>3. Fresh'
  BY <1>1, UntouchedFresh DEF Mortal
<1> HIDE DEF w, u, k
<1>4. ~k.error /\ ~proxy.reset
  BY <1>2 DEF Doomed, Last
<1>5. u = <<>> /\ k.pc # "writing"
  <2>1. CASE k.pc = "gone"
    BY <1>2, <1>4, <2>1 DEF Doomed, Last
  <2>2. CASE k.pc # "gone"
    <3>1. k.pc \in {"writing", "reply", "body"} /\ Outstanding(k, u, down[w], "wait", proxy.id)
      BY <1>2, <1>4, <2>2 DEF InStep, Resting, Greeting, Free, ClientType
    <3>2. Waiting(k, u, down[w], "wait", proxy.id)
      BY <3>1 DEF Outstanding, Asked, AwaitsData, Refused, Unanswered, Answered,
                  Reading, Body, Free
    <3> QED BY <3>2 DEF Waiting
  <2> QED BY <2>1, <2>2
<1>6. ASSUME NEW e \in BOOLEAN, NEW m,
             ProxyWrites([proxy EXCEPT !.pc = "command", !.error = e], m)
      PROVE  Mortal'
  <2> DEFINE now == [proxy EXCEPT !.pc = "command", !.error = e]
  <2>1. /\ now \in ProxyType /\ now.with = w /\ now.pc = "command"
        /\ now.reset = proxy.reset
    BY DEF w, TypeOK, ProxyType
  <2>2. ProxyWrites(now, m)
    BY <1>6
  <2> HIDE DEF now
  <2>3. ASSUME NEW s \in BOOLEAN, s => Gone(w)
        PROVE  Doomed(k, u, "command", s, now.req)
    BY <1>2, <1>4, <1>5, <2>3, EmptyDoomed
  <2> QED BY <1>1, <1>3, <1>4, <2>1, <2>2, <2>3, Struck DEF w, u, k
<1>7. /\ proxy.error \in BOOLEAN
      /\ [proxy EXCEPT !.pc = "command"]
            = [proxy EXCEPT !.pc = "command", !.error = proxy.error]
  BY DEF TypeOK, ProxyType
<1>8. ASSUME NEW m, ProxyWrites([proxy EXCEPT !.pc = "command"], m)
      PROVE  Mortal'
  BY <1>6, <1>7, <1>8
<1>9. ASSUME NEW done \in BOOLEAN, NEW m,
             ProxyWrites([proxy EXCEPT !.pc = "command", !.error = ~done], m)
      PROVE  Mortal'
  <2>1. (~done) \in BOOLEAN
    OBVIOUS
  <2> QED BY <1>6, <1>9, <2>1
<1> QED BY <1>8, <1>9 DEF WaitReturns

LEMMA EofMortal == ASSUME TypeOK, Mortal, Eof PROVE Mortal'
<1>1. proxy' = EndSession /\ UNCHANGED <<client, backlog, up>>
  BY DEF Eof, OnEof
<1>2. Fresh'
  BY <1>1, UntouchedFresh DEF Mortal
<1> QED BY <1>1, <1>2, EndMortal

LEMMA AcceptMortal ==
    ASSUME TypeOK, Sync, Mortal, NEW c \in Clients, Accept(c)
    PROVE  Mortal'
<1> DEFINE k == client[c]
<1>1. /\ proxy.pc = "accept" /\ c \in backlog /\ backlog' = backlog \ {c}
      /\ UNCHANGED <<client, up>>
  BY DEF Accept
<1> DEFINE start(opens, fine) ==
               [pc |-> IF opens THEN "command" ELSE "accept", with |-> c,
                error |-> opens /\ ~fine, req |-> Idle, id |-> 0, reset |-> FALSE]
<1>a. PICK opens \in BOOLEAN, fine \in BOOLEAN :
          ProxyWrites(start(opens, fine), Answer("line", opens, FALSE, 0))
  BY DEF Accept
<1> DEFINE now == start(opens, fine)
<1>2. /\ now.with = c /\ ~now.reset /\ now.pc \in {"accept", "command"}
      /\ [now EXCEPT !.reset = TRUE].pc = now.pc
      /\ [now EXCEPT !.reset = TRUE].with = c
  OBVIOUS
<1> HIDE DEF now
<1>3. /\ proxy'.with = c /\ proxy'.pc \in {"accept", "command"}
      /\ proxy'.reset => Gone(c)
  <2>1. CASE Gone(c)
    <3>1. proxy' = [now EXCEPT !.reset = TRUE]
      BY <1>a, <1>2, <2>1 DEF ProxyWrites, now
    <3> QED BY <1>2, <2>1, <3>1
  <2>2. CASE ~Gone(c)
    <3>1. proxy' = now
      BY <1>a, <1>2, <2>2 DEF ProxyWrites, now
    <3> QED BY <1>2, <3>1
  <2> QED BY <2>1, <2>2
<1>4. up[c] = <<>> /\ ~k.error /\ k.pc \in {"connecting", "gone"}
  BY <1>1, ClientFacts DEF Mortal, Fresh, Sync, Before
<1>5. Fresh'
  BY <1>1 DEF Mortal, Fresh
<1> HIDE DEF k
<1>6. Doomed(k, up[c], "command", proxy'.reset, proxy'.req)
  BY <1>3, <1>4, EmptyDoomed DEF Gone, k
<1> QED BY <1>1, <1>3, <1>5, <1>6 DEF Mortal, KilledHalfWay, Serving, Session0, k

LEMMA ServeMortal == ASSUME TypeOK, Sync, Mortal, Serve PROVE Mortal'
BY LineMortal, WriteMortal, DataMortal, WaitMortal, BodyMortal, WaitReturnsMortal,
   EofMortal, AcceptMortal DEF Serve

\* Only the client itself is concerned.
LEMMA ClientMortal ==
    ASSUME TypeOK, Sync, Mortal, NEW c \in Clients, client[c].pc # "gone",
           \A b \in Clients \ {c} :
               /\ client'[b] = client[b] /\ up'[b] = up[b]
               /\ b \in backlog' <=> b \in backlog,
           proxy'.pc = proxy.pc, proxy'.with = proxy.with, proxy'.req = proxy.req,
           proxy.with # c => proxy'.reset = proxy.reset,
           c \in backlog' \/ client'[c].pc \in {"off", "connecting"} =>
               ~client'[c].error /\ up'[c] = <<>>,
           Serving /\ proxy.with = c =>
               Doomed(client'[c], up'[c], proxy.pc, proxy'.reset, proxy.req)
    PROVE  Mortal'
<1>1. proxy.with \in Clients
  BY DEF TypeOK, ProxyType
<1>2. Fresh'
  BY DEF Mortal, Fresh
<1>3. KilledHalfWay'
  BY <1>1 DEF Mortal, KilledHalfWay, Gone
<1>4. ASSUME Serving PROVE Session0(proxy.with)'
  BY <1>1, <1>4 DEF Mortal, Session0
<1> QED BY <1>2, <1>3, <1>4 DEF Mortal, Serving

LEMMA ServedFacts ==
    ASSUME TypeOK, Sync, Mortal, NEW c \in Clients, client[c].pc # "gone",
           Serving, proxy.with = c
    PROVE  /\ InStep(client[c], up[c], down[c], proxy.pc, proxy.id)
           /\ Gated(client[c])
           /\ Doomed(client[c], up[c], proxy.pc, FALSE, proxy.req)
           /\ proxy.reset = FALSE
           /\ proxy.pc # "none"
           /\ c \notin backlog /\ client[c].pc # "off" /\ ~Closed(c)
<1>1. At(c) = proxy.pc /\ proxy.pc # "none"
  BY DEF At, Place, Serving, TypeOK, ProxyType
<1>2. c \notin backlog /\ client[c].pc # "off"
  BY <1>1 DEF Sync, Before
<1>3. proxy.reset = FALSE
  BY SessionFacts DEF Doomed
<1> QED BY <1>1, <1>2, <1>3, SessionFacts DEF Closed

\* What is left of a WRITE that was refused.
LEMMA RefusedLeft ==
    ASSUME NEW k \in ClientType, NEW u \in Seq(Messages), NEW d,
           Refused(k, u, d, "command"), Unread(k, u, "command"), u # <<>>
    PROVE  Len(u) = 1 /\ Leftover(u[1])
<1>1. Len(u) = 1 /\ u[1].part = "data" /\ k.pc = "reply" /\ k.req.cmd = "WRITE"
  BY DEF Refused
<1>2. k.req # Request("WRITE", "fits") /\ u[1].req = k.req
  BY <1>1 DEF Unread
<1>3. k.req = Large
  BY <1>1, <1>2 DEF ClientType, Requests, Request, Large, Ungated, Checked
<1> QED BY <1>1, <1>2, <1>3 DEF Leftover

LEMMA LeftoverSpares ==
    ASSUME NEW u \in Seq(Messages), Len(u) = 1 /\ Leftover(u[1])
    PROVE  Spares(u)
BY DEF Spares, Spare

\* A client that is not in error ends.
LEMMA LeftBehind ==
    ASSUME NEW k \in ClientType, NEW u \in Seq(Messages), NEW d, NEW at, NEW i,
           InStep(k, u, d, at, i), Unread(k, u, at), at # "none",
           k.pc # "gone", ~k.error
    PROVE  Last(u, at, d # <<>>)
<1>1. CASE k.pc \in {"off", "ready", "connecting"}
  BY <1>1 DEF InStep, Resting, Greeting, Free, Last
<1>2. CASE k.pc \in {"writing", "reply", "body"}
  <2>1. Outstanding(k, u, d, at, i)
    BY <1>2 DEF InStep
  <2>2. CASE Asked(k, u, d, at)
    <3>1. /\ d = <<>> /\ at = "command" /\ u # <<>> /\ u[1].part = "line"
          /\ u[1].req = k.req
      BY <2>2 DEF Asked, IsLine
    <3>2. Len(u) = 1 \/ (k.req.cmd = "WRITE" /\ Len(u) = 2 /\ u[2].part = "data")
      BY <2>2 DEF Asked
    <3>3. Len(u) = 2 /\ u[2].part = "data" => u[2].req = k.req
      BY DEF Unread
    <3> QED BY <3>1, <3>2, <3>3 DEF Last, OneRequest
  <2>3. CASE AwaitsData(k, u, d, at, i)
    BY <2>3 DEF AwaitsData, Last
  <2>4. CASE Refused(k, u, d, at)
    <3>1. at = "command"
      BY <2>4 DEF Refused, Free
    <3> QED BY <2>4, <3>1, RefusedLeft DEF Last
  <2>5. CASE Waiting(k, u, d, at, i)
    BY <2>5 DEF Waiting, Last
  <2>6. CASE Unanswered(k, u, d, at)
    BY <2>6 DEF Unanswered, Last
  <2>7. CASE Answered(k, u, d, at)
    BY <2>7 DEF Answered, Free, Last
  <2>8. CASE Reading(k, u, d, at, i)
    BY <2>8 DEF Reading, Body, Free, Last
  <2> QED BY <2>1, <2>2, <2>3, <2>4, <2>5, <2>6, <2>7, <2>8 DEF Outstanding
<1> QED BY <1>1, <1>2 DEF ClientType

LEMMA LeavesMortal ==
    ASSUME TypeOK, Sync, Mortal, NEW c \in Clients, client[c].pc # "gone", Leaves(c)
    PROVE  Mortal'
<1> DEFINE k == client'[c]
<1>1. /\ client' = [client EXCEPT ![c].pc = "gone"]
      /\ proxy' = IF Serving /\ proxy.with = c /\ down[c] # <<>>
                  THEN [proxy EXCEPT !.reset = TRUE] ELSE proxy
      /\ UNCHANGED <<backlog, up>>
  BY DEF Leaves
<1>2. /\ k.pc = "gone" /\ k.error = client[c].error
      /\ \A b \in Clients \ {c} : client'[b] = client[b]
  BY <1>1 DEF TypeOK, ClientType
<1>3. /\ proxy'.pc = proxy.pc /\ proxy'.with = proxy.with /\ proxy'.req = proxy.req
      /\ proxy.with # c => proxy'.reset = proxy.reset
      /\ Serving /\ proxy.with = c =>
            proxy'.reset = IF down[c] # <<>> THEN TRUE ELSE proxy.reset
  BY <1>1 DEF TypeOK, ProxyType
<1> HIDE DEF k
<1>4. ASSUME Serving, proxy.with = c
      PROVE  Doomed(k, up[c], proxy.pc, proxy'.reset, proxy.req)
  <2>1. /\ InStep(client[c], up[c], down[c], proxy.pc, proxy.id)
        /\ Doomed(client[c], up[c], proxy.pc, FALSE, proxy.req)
        /\ proxy.reset = FALSE /\ proxy.pc # "none"
        /\ client[c] \in ClientType /\ up[c] \in Seq(Messages)
    BY <1>4, ServedFacts DEF TypeOK
  <2>2. proxy'.reset = (down[c] # <<>>)
    BY <1>3, <1>4, <2>1
  <2>3. ~client[c].error => Last(up[c], proxy.pc, down[c] # <<>>)
    BY <2>1, LeftBehind DEF Doomed
  <2>4. ~client[c].error => Last(up[c], proxy.pc, proxy'.reset)
    BY <2>2, <2>3
  <2> QED BY <1>2, <2>1, <2>4 DEF Doomed
<1>5. c \in backlog' => ~k.error /\ up[c] = <<>>
  BY <1>1, <1>2 DEF Mortal, Fresh
<1> QED BY <1>1, <1>2, <1>3, <1>4, <1>5, ClientMortal DEF k

\* A step after which the client is where it was, its waiting loop apart.
LEMMA QuietMortal ==
    ASSUME TypeOK, Sync, Mortal, NEW c \in Clients, EnterWait(c) \/ Expires(c)
    PROVE  Mortal'
<1> DEFINE k == client'[c]
<1>1. UNCHANGED <<backlog, up, proxy>> /\ client[c].pc # "gone"
  BY DEF EnterWait, Expires, Ready
<1>2. /\ k.pc = client[c].pc /\ k.error = client[c].error /\ k.req = client[c].req
      /\ \A b \in Clients \ {c} : client'[b] = client[b]
  <2>1. CASE EnterWait(c)
    <3>1. PICK t \in {"timed", "forever", "quick"} :
              client' = [client EXCEPT ![c].wait = t, ![c].id = @ + 1]
      BY <2>1 DEF EnterWait
    <3> QED BY <3>1 DEF TypeOK, ClientType
  <2>2. CASE Expires(c)
    BY <2>2 DEF Expires, TypeOK, ClientType
  <2> QED BY <2>1, <2>2
<1> HIDE DEF k
<1>3. Serving /\ proxy.with = c =>
          Doomed(k, up[c], proxy.pc, proxy.reset, proxy.req)
  BY <1>1, <1>2 DEF Mortal, Session0, Doomed, Unread
<1>4. c \in backlog \/ k.pc \in {"off", "connecting"} => ~k.error /\ up[c] = <<>>
  BY <1>2 DEF Mortal, Fresh
<1> QED BY <1>1, <1>2, <1>3, <1>4, ClientMortal DEF k

LEMMA ConnectMortal ==
    ASSUME TypeOK, Sync, Mortal, NEW c \in Clients, Connect(c)
    PROVE  Mortal'
<1> DEFINE k == client'[c]
<1>1. /\ client[c].pc = "off" /\ client' = [client EXCEPT ![c].pc = "connecting"]
      /\ backlog' = backlog \union {c} /\ UNCHANGED <<up, proxy>>
  BY DEF Connect
<1>2. /\ k.error = client[c].error
      /\ \A b \in Clients \ {c} : client'[b] = client[b]
  BY <1>1 DEF TypeOK, ClientType
<1> HIDE DEF k
<1>3. ~(Serving /\ proxy.with = c)
  BY <1>1, ServedFacts
<1>4. ~k.error /\ up[c] = <<>>
  BY <1>1, <1>2 DEF Mortal, Fresh
<1> QED BY <1>1, <1>2, <1>3, <1>4, ClientMortal DEF k

LEMMA GreetedMortal ==
    ASSUME TypeOK, Sync, Mortal, NEW c \in Clients, Greeted(c)
    PROVE  Mortal'
<1> DEFINE k == client'[c]
<1>1. /\ client[c].pc = "connecting" /\ down[c] # <<>>
      /\ client' = [client EXCEPT ![c].pc =
                       IF Head(down[c]).plus THEN "ready" ELSE "gone"]
      /\ UNCHANGED <<backlog, up, proxy>>
  BY DEF Greeted
<1>2. /\ k.pc \in {"ready", "gone"} /\ k.error = client[c].error
      /\ \A b \in Clients \ {c} : client'[b] = client[b]
  BY <1>1 DEF TypeOK, ClientType
<1> HIDE DEF k
<1>3. ~k.error /\ up[c] = <<>>
  BY <1>1, <1>2 DEF Mortal, Fresh
<1>4. ASSUME Serving, proxy.with = c
      PROVE  Doomed(k, up[c], proxy.pc, proxy.reset, proxy.req)
  <2>1. /\ Doomed(client[c], up[c], proxy.pc, FALSE, proxy.req)
        /\ proxy.reset = FALSE
    BY <1>1, <1>4, ServedFacts
  <2>2. proxy.pc = "read" => proxy.req.cmd = "READ"
    BY <2>1 DEF Doomed
  <2> QED BY <1>2, <1>3, <2>1, <2>2, EmptyDoomed
<1> QED BY <1>1, <1>2, <1>3, <1>4, ClientMortal DEF k

\* A write of a client, which is "now" after it.
LEMMA WritesMortal ==
    ASSUME TypeOK, Sync, Mortal, NEW c \in Clients, NEW now \in ClientType,
           NEW m \in Messages, ClientWrites(c, now, m),
           client[c].pc \in {"ready", "writing"}, now.error = client[c].error,
           now.pc \in {"writing", "reply"},
           UNCHANGED <<backlog, proxy>>,
           Serving /\ proxy.with = c =>
               Doomed(now, Append(up[c], m), proxy.pc, FALSE, proxy.req)
    PROVE  Mortal'
<1>1. c \notin backlog
  BY ClientFacts
<1>2. /\ client'[c].pc \in {"gone", "writing", "reply"}
      /\ ~Closed(c) => client'[c] = now /\ up'[c] = Append(up[c], m)
      /\ \A b \in Clients \ {c} : client'[b] = client[b] /\ up'[b] = up[b]
  BY DEF ClientWrites, TypeOK, ClientType
<1>3. Serving /\ proxy.with = c => ~Closed(c) /\ proxy.reset = FALSE
  BY ServedFacts
<1> QED BY <1>1, <1>2, <1>3, ClientMortal

LEMMA AskMortal ==
    ASSUME TypeOK, Sync, Mortal, NEW c \in Clients, NEW req \in Requests,
           NEW id \in Nat, NEW now \in ClientType,
           client[c].pc = "ready", Allows(c, req.cmd),
           now.req = req, now.error = client[c].error,
           now.pc = IF req.cmd = "WRITE" THEN "writing" ELSE "reply",
           ClientWrites(c, now, Message("line", req, id)),
           UNCHANGED <<backlog, down, proxy, undone>>
    PROVE  Mortal'
<1> DEFINE m == Message("line", req, id)
           u == up[c]
<1>1. m \in Messages /\ m.part = "line" /\ m.req = req
  BY MessageTypes DEF Message
<1>2. ASSUME Serving, proxy.with = c
      PROVE  Doomed(now, Append(u, m), proxy.pc, FALSE, proxy.req)
  <2>1. /\ InStep(client[c], u, down[c], proxy.pc, proxy.id)
        /\ Doomed(client[c], u, proxy.pc, FALSE, proxy.req)
        /\ proxy.pc # "none" /\ u \in Seq(Messages)
    BY <1>2, ServedFacts DEF TypeOK
  <2> HIDE DEF m, u
  <2>2. CASE client[c].error
    <3>1. Spares(Append(u, m))
      BY <1>1, <2>1, <2>2, SparesAppend DEF Doomed, Spare, Allows
    <3> QED BY <2>1, <2>2, <3>1 DEF Doomed
  <2>3. CASE ~client[c].error
    <3>1. u = <<>> /\ proxy.pc = "command"
      BY <2>1, <2>3 DEF InStep, Resting, Free
    <3>2. Len(Append(u, m)) = 1 /\ Append(u, m)[1] = m /\ Append(u, m) # <<>>
      BY <1>1, <2>1, <3>1, SeqFacts, AppendFacts
    <3>3. Unread(now, Append(u, m), proxy.pc)
      BY <1>1, <3>2 DEF Unread
    <3> QED BY <2>1, <2>3, <3>3 DEF Doomed
  <2> QED BY <2>2, <2>3
<1> QED BY <1>1, <1>2, WritesMortal

LEMMA CallMortal ==
    ASSUME TypeOK, Sync, Mortal, NEW c \in Clients, NEW req \in Direct, Call(c, req)
    PROVE  Mortal'
<1> DEFINE id == client[c].id + 1
           now == [Sent(c, req) EXCEPT !.id = id]
<1>1. req \in Requests /\ id \in Nat
  BY RequestTypes, ClientFacts
<1>2. now \in ClientType
  BY <1>1, ClientFacts DEF ClientType, Sent
<1>3. /\ now.req = req /\ now.error = client[c].error
      /\ now.pc = IF req.cmd = "WRITE" THEN "writing" ELSE "reply"
  BY ClientFacts DEF ClientType, Sent
<1>4. /\ client[c].pc = "ready" /\ Allows(c, req.cmd)
      /\ ClientWrites(c, now, Message("line", req, id))
      /\ UNCHANGED <<backlog, down, proxy, undone>>
  BY DEF Call, Ready
<1> HIDE DEF now, id
<1> QED BY <1>1, <1>2, <1>3, <1>4, AskMortal

LEMMA AskIrqMortal ==
    ASSUME TypeOK, Sync, Mortal, NEW c \in Clients, AskIrq(c)
    PROVE  Mortal'
<1> DEFINE w == client[c].wait
           req == Request("WAIT", Timeout(w))
           now == [Sent(c, req) EXCEPT !.wait = IF w = "expired" THEN "last" ELSE w]
           id == client[c].id
<1>1. w \in {"timed", "expired", "forever", "quick"}
  BY DEF AskIrq
<1>2. req \in Requests /\ req.cmd = "WAIT" /\ id \in Nat
  BY <1>1, RequestTypes, ClientFacts DEF Timeout, Request
<1>3. now \in ClientType
  BY <1>1, <1>2, ClientFacts DEF ClientType, Sent
<1>4. now.req = req /\ now.error = client[c].error /\ now.pc = "reply"
  BY <1>2, ClientFacts DEF ClientType, Sent
<1>5. /\ client[c].pc = "ready" /\ Allows(c, "WAIT")
      /\ ClientWrites(c, now, Message("line", req, id))
      /\ UNCHANGED <<backlog, down, proxy, undone>>
  BY DEF AskIrq, Ready
<1> HIDE DEF now, id, req, w
<1> QED BY <1>2, <1>3, <1>4, <1>5, AskMortal

LEMMA WriteDataMortal ==
    ASSUME TypeOK, Sync, Mortal, NEW c \in Clients, CallWriteData(c)
    PROVE  Mortal'
<1> DEFINE now == [client[c] EXCEPT !.pc = "reply"]
           m == Message("data", client[c].req, client[c].id)
           u == up[c]
<1>1. /\ client[c].pc = "writing" /\ ClientWrites(c, now, m)
      /\ UNCHANGED <<backlog, proxy>>
  BY DEF CallWriteData
<1>2. /\ now \in ClientType /\ now.pc = "reply" /\ now.error = client[c].error
      /\ now.req = client[c].req
  BY ClientFacts DEF ClientType
<1>3. m \in Messages /\ m.part = "data" /\ m.req = client[c].req
  BY MessageTypes, ClientFacts DEF Message
<1>4. ~client[c].error
  BY <1>1, ClientFacts DEF Gated, Ungated
<1>5. ASSUME Serving, proxy.with = c
      PROVE  Doomed(now, Append(u, m), proxy.pc, FALSE, proxy.req)
  <2>1. /\ Doomed(client[c], u, proxy.pc, FALSE, proxy.req)
        /\ u \in Seq(Messages)
    BY <1>1, <1>5, ServedFacts DEF TypeOK
  <2> HIDE DEF now, m, u
  <2>2. Unread(client[c], u, proxy.pc)
    BY <1>1, <1>4, <2>1 DEF Doomed
  <2>3. /\ Len(u) \in Nat /\ Len(Append(u, m)) = Len(u) + 1
        /\ Append(u, m) # <<>>
        /\ u # <<>> => Append(u, m)[1] = u[1]
    BY <1>3, <2>1, AppendFacts, SeqFacts
  <2>4. ASSUME NEW j \in 1..Len(Append(u, m)), Append(u, m)[j].part = "data"
        PROVE  Append(u, m)[j].req = now.req
    <3>1. CASE j = Len(u) + 1
      BY <1>2, <1>3, <2>1, <3>1
    <3>2. CASE j # Len(u) + 1
      <4>1. j \in 1..Len(u) /\ Append(u, m)[j] = u[j]
        BY <1>3, <2>1, <2>3, <3>2
      <4> QED BY <1>2, <2>2, <2>4, <4>1 DEF Unread
    <3> QED BY <3>1, <3>2
  <2>5. Unread(now, Append(u, m), proxy.pc)
    BY <1>1, <1>2, <2>2, <2>3, <2>4 DEF Unread
  <2> QED BY <1>2, <1>4, <2>1, <2>5 DEF Doomed
<1> HIDE DEF now, m
<1> QED BY <1>1, <1>2, <1>3, <1>5, WritesMortal

\* A call returns, perhaps with an error.
LEMMA ReturnMortal ==
    ASSUME TypeOK, Sync, Mortal, NEW c \in Clients, client[c].pc \in {"reply", "body"},
           UNCHANGED <<backlog, up, proxy>>,
           \A b \in Clients \ {c} : client'[b] = client[b],
           client'[c].pc \in {"ready", "body"}, client'[c].req = client[c].req,
           client[c].error => client'[c].error,
           Closed(c) \/ down[c] # <<>>
    PROVE  Mortal'
<1> DEFINE k == client[c]
           u == up[c]
           d == down[c]
           at == proxy.pc
<1>1. c \notin backlog
  BY ClientFacts
<1>2. ASSUME Serving, proxy.with = c
      PROVE  Doomed(client'[c], u, at, FALSE, proxy.req)
  <2>1. /\ InStep(k, u, d, at, proxy.id) /\ Doomed(k, u, at, FALSE, proxy.req)
        /\ at # "none" /\ d # <<>> /\ k \in ClientType /\ u \in Seq(Messages)
    BY <1>2, ServedFacts DEF TypeOK
  <2> HIDE DEF k, u, d, at
  <2>2. CASE k.error
    BY <2>1, <2>2 DEF Doomed, k
  <2>3. CASE ~k.error
    <3>1. Outstanding(k, u, d, at, proxy.id) /\ Unread(k, u, at)
      BY <2>1, <2>3 DEF Doomed, InStep, k
    <3>2. at \in {"command", "read"} /\ (u # <<>> => Refused(k, u, d, "command"))
      BY <2>1, <3>1 DEF Outstanding, Asked, AwaitsData, Refused, Waiting, Unanswered,
                        Answered, Reading, Body, Free
    <3>3. Spares(u)
      <4>1. CASE u = <<>>
        <5>1. Len(u) = 0
          BY <4>1
        <5> QED BY <5>1 DEF Spares
      <4>2. CASE u # <<>>
        <5>1. at = "command"
          BY <3>1, <3>2, <4>2 DEF Outstanding, Asked, AwaitsData, Refused, Waiting,
                                  Unanswered, Answered, Reading, Free
        <5> QED BY <2>1, <3>1, <3>2, <4>2, <5>1, RefusedLeft, LeftoverSpares
      <4> QED BY <4>1, <4>2
    <3>4. Unread(client'[c], u, at)
      BY <3>1 DEF Unread, k
    <3> QED BY <2>1, <3>2, <3>3, <3>4 DEF Doomed
  <2> QED BY <2>2, <2>3
<1>3. Serving /\ proxy.with = c => proxy.reset = FALSE
  BY ServedFacts
<1> QED BY <1>1, <1>2, <1>3, ClientMortal

LEMMA TakesMortal ==
    ASSUME TypeOK, Sync, Mortal, NEW c \in Clients, TakeReply(c) \/ TakeBody(c)
    PROVE  Mortal'
<1>1. /\ client[c].pc \in {"reply", "body"} /\ down[c] # <<>>
      /\ UNCHANGED <<backlog, up, proxy>>
  BY DEF TakeReply, TakeBody
<1>2. ASSUME NEW fine, NEW int, Returns(c, fine, int)
      PROVE  Mortal'
  <2>1. PICK wanted \in BOOLEAN :
            client' = [client EXCEPT
                ![c].pc = "ready",
                ![c].error = @ \/ FlagsError(c, fine),
                ![c].wait = WaitGoesOn(@, fine /\ int, wanted)]
    BY <1>2 DEF Returns
  <2>2. /\ client'[c].pc = "ready" /\ client'[c].req = client[c].req
        /\ client[c].error => client'[c].error
        /\ \A b \in Clients \ {c} : client'[b] = client[b]
    BY <2>1 DEF TypeOK, ClientType
  <2> QED BY <1>1, <2>2, ReturnMortal
<1>3. CASE client' = [client EXCEPT ![c].pc = "body"]
  <2>1. /\ client'[c].pc = "body" /\ client'[c].req = client[c].req
        /\ client'[c].error = client[c].error
        /\ \A b \in Clients \ {c} : client'[b] = client[b]
    BY <1>3 DEF TypeOK, ClientType
  <2> QED BY <1>1, <2>1, ReturnMortal
<1> QED BY <1>2, <1>3 DEF TakeReply, TakeBody

LEMMA HangUpMortal ==
    ASSUME TypeOK, Sync, Mortal, NEW c \in Clients, HangUp(c)
    PROVE  Mortal'
<1>1. Closed(c) /\ UNCHANGED <<backlog, up, down, proxy>>
  BY DEF HangUp, EndOfFile
<1>2. CASE client[c].pc = "connecting" /\ client' = [client EXCEPT ![c].pc = "gone"]
  <2>1. /\ client'[c].pc = "gone" /\ client'[c].error = client[c].error
        /\ \A b \in Clients \ {c} : client'[b] = client[b]
    BY <1>2 DEF TypeOK, ClientType
  <2>2. ~(Serving /\ proxy.with = c)
    BY <1>1 DEF Closed
  <2>3. ~client[c].error /\ up[c] = <<>>
    BY <1>2 DEF Mortal, Fresh
  <2> QED BY <1>1, <1>2, <2>1, <2>2, <2>3, ClientMortal
<1>3. CASE client[c].pc \in {"reply", "body"} /\ Returns(c, FALSE, FALSE)
  <2>1. PICK wanted \in BOOLEAN :
            client' = [client EXCEPT
                ![c].pc = "ready",
                ![c].error = @ \/ FlagsError(c, FALSE),
                ![c].wait = WaitGoesOn(@, FALSE /\ FALSE, wanted)]
    BY <1>3 DEF Returns
  <2> DEFINE error == FlagsError(c, FALSE)
             wait == WaitGoesOn(client[c].wait, FALSE /\ FALSE, wanted)
  <2>3. client \in [Clients -> ClientType]
    BY DEF TypeOK
  <2>4. client' = [client EXCEPT ![c].pc = "ready", ![c].error = @ \/ error,
                                 ![c].wait = wait]
    BY <2>1
  <2> HIDE DEF error, wait
  <2>2. /\ client'[c].pc = "ready" /\ client'[c].req = client[c].req
        /\ client[c].error => client'[c].error
        /\ \A b \in Clients \ {c} : client'[b] = client[b]
    BY <2>3, <2>4 DEF ClientType
  <2> QED BY <1>1, <1>3, <2>2, ReturnMortal
<1> QED BY <1>2, <1>3 DEF HangUp

LEMMA MortalNext ==
    ASSUME TypeOK, Sync, Mortal, [Next]_vars
    PROVE  Mortal'
<1>1. CASE Serve
  BY <1>1, ServeMortal
<1>2. ASSUME NEW c \in Clients, Runs(c) PROVE Mortal'
  <2>1. CASE WaitFails(c)
    BY <2>1, LeavesMortal DEF WaitFails, Ready
  <2> QED BY <1>2, <2>1, WriteDataMortal, AskIrqMortal, GreetedMortal, TakesMortal,
             HangUpMortal DEF Runs
<1>3. ASSUME NEW c \in Clients, Program(c) PROVE Mortal'
  <2>1. CASE Leave(c)
    BY <2>1, LeavesMortal DEF Leave
  <2> QED BY <1>3, <2>1, ConnectMortal, QuietMortal, CallMortal DEF Program
<1>4. ASSUME NEW c \in Clients, Expires(c) PROVE Mortal'
  BY <1>4, QuietMortal
<1>5. CASE Interrupt \/ UNCHANGED vars
  BY <1>5 DEF Interrupt, vars, Mortal, Fresh, KilledHalfWay, Serving, Session0, Gone
<1> QED BY <1>1, <1>2, <1>3, <1>4, <1>5 DEF Next

\* A client that ends kills the proxy only if the proxy has more than one write
\* still to do for it: session() of atrf-proxy.c in the middle of a frame, with the
\* unread data of a WRITE it refused, or with a call made in spite of an error.
\* Everywhere else the one write left is the first after the client's end, which
\* the network still takes.
THEOREM OnlyHalfWay == Spec => []KilledHalfWay
<1>1. Init => Mortal
  BY MortalInit
<1>2. TypeOK /\ Sync /\ Mortal /\ [Next]_vars => Mortal'
  BY MortalNext
<1>3. Mortal => KilledHalfWay
  BY DEF Mortal
<1> QED BY <1>1, <1>2, <1>3, SyncCorrect, PTL DEF Spec
=============================================================================
