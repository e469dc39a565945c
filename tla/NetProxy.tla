------------------------------ MODULE NetProxy ------------------------------
(***************************************************************************)
(* The network driver of the tools (tools/lib/atnet.c), atrf-proxy         *)
(* (tools/atrf-proxy/atrf-proxy.c), the TCP connections between them       *)
(* (tools/lib/netio.c), and wait_for_interrupt() (tools/lib/misctxrx.c),   *)
(* the loop in which programs spend their time.  The proxy runs one        *)
(* session at a time on a driver of its own, like that of atusb.c, whose   *)
(* error flag stays set once it is.                                        *)
(*                                                                         *)
(* One request stands for those that are treated alike: RESET for          *)
(* RESET_RF, TEST and SLP_TR, of which only RESET_RF is never refused; SET *)
(* for SETRAM, GET for GETRAM.  "large" is a WRITE the proxy refuses, or a *)
(* frame that overflows the buffer the client reads it into.  A line is    *)
(* written, and arrives, as a whole.                                       *)
(***************************************************************************)
EXTENDS Naturals, Sequences, FiniteSets

CONSTANTS
    Clients,   \* programs that use the proxy, each for one session
    Calls,     \* how many driver calls and waits each client makes
    Fails,     \* how often the device fails
    Irqs       \* how often it interrupts

ASSUME NetProxyAssumption ==
    /\ Calls \in [Clients -> Nat]
    /\ Fails \in Nat
    /\ Irqs \in Nat

VARIABLES
    client,    \* the clients; see ClientType
    backlog,   \* clients connected but not yet accepted
    up, down,  \* what each connection carries, to the proxy and from it
    proxy,     \* the proxy and the driver of its session; see ProxyType
    irq,       \* TRUE: an interrupt waits in IRQ_STATUS
    undone,    \* history: ids of requests answered "+" that the device failed
    failed,    \* bounds: device failures so far ...
    raised     \* ... and interrupts

vars == <<client, backlog, up, down, proxy, irq, undone, failed, raised>>
-----------------------------------------------------------------------------
Request(cmd, arg) == [cmd |-> cmd, arg |-> arg]

\* Calls that do not look at dsc->error before they send.
Ungated == {"SPEC", "CLKM"}
\* Requests that the proxy answers by its driver's error flag.
Checked == {"SET", "GET", "WRITE", "READ"}

\* What the functions of atnet.c send.  Programs wait with a timeout, for ever,
\* or for ever without poll delays ("quick", a timeout of -1).
Requests ==
    {Request(cmd, "fits") : cmd \in Ungated \union Checked \union {"RESET"}}
        \union {Request(cmd, "large") : cmd \in {"WRITE", "READ"}}
        \union {Request("WAIT", t) : t \in {"timed", "forever", "quick"}}

\* What programs call directly; a wait goes through wait_for_interrupt(), but
\* for the short one of flush_interrupts().
Direct == Requests \ {Request("WAIT", t) : t \in {"forever", "quick"}}

Message(part, req, id) == [part |-> part, req |-> req, id |-> id]
Answer(part, plus, int, id) ==
    [part |-> part, plus |-> plus, irq |-> int, id |-> id]

ClientType ==
    [pc : {"off", "connecting", "ready", "writing", "reply", "body", "gone"},
     error : BOOLEAN,
     req : Requests, id : Nat,
     wait : {"none", "timed", "expired", "last", "forever", "quick"},
     reset : BOOLEAN]   \* the peer's RST came back: writing raises SIGPIPE

ProxyType ==
    [pc : {"accept", "command", "write", "read", "wait", "dead"},
     with : Clients,
     error : BOOLEAN,
     req : Requests, id : Nat,
     reset : BOOLEAN]

Messages == [part : {"line", "data"}, req : Requests, id : Nat]
Answers == [part : {"line", "head", "data"}, plus : BOOLEAN, irq : BOOLEAN,
            id : Nat]

Idle == Request("SPEC", "fits")

Init ==
    /\ client = [c \in Clients |->
                    [pc |-> "off", error |-> FALSE, req |-> Idle, id |-> 0,
                     wait |-> "none", reset |-> FALSE]]
    /\ backlog = {}
    /\ up = [c \in Clients |-> <<>>] /\ down = [c \in Clients |-> <<>>]
    /\ \E c \in Clients :
          proxy = [pc |-> "accept", with |-> c, error |-> FALSE,
                   req |-> Idle, id |-> 0, reset |-> FALSE]
    /\ irq = FALSE
    /\ undone = [c \in Clients |-> {}]
    /\ failed = 0 /\ raised = 0

-----------------------------------------------------------------------------
(* The connections                                                         *)

Gone(c) == client[c].pc = "gone"
Serving == proxy.pc \notin {"accept", "dead"}

\* The proxy has closed its end.
Closed(c) ==
    /\ ~(Serving /\ proxy.with = c)
    /\ ~(c \in backlog /\ proxy.pc # "dead")

\* netio_write() of the client, which is "now" after it.  What is written to a
\* closed connection is lost, and the next write ends the process.
ClientWrites(c, now, m) ==
    LET after == IF ~Closed(c) THEN now
                 ELSE IF client[c].reset THEN [now EXCEPT !.pc = "gone"]
                 ELSE [now EXCEPT !.reset = TRUE]
    IN  /\ client' = [client EXCEPT ![c] = after]
        /\ up' = IF Closed(c) THEN up ELSE [up EXCEPT ![c] = Append(@, m)]

\* netio_write() of the proxy, which is "now" after it.
ProxyWrites(now, m) ==
    IF Gone(now.with)
    THEN /\ proxy' = IF now.reset THEN [now EXCEPT !.pc = "dead"]
                     ELSE [now EXCEPT !.reset = TRUE]
         /\ UNCHANGED down
    ELSE /\ proxy' = now
         /\ down' = [down EXCEPT ![now.with] = Append(@, m)]

-----------------------------------------------------------------------------
(* Clients                                                                 *)

\* atnet_open() up to the greeting.
Connect(c) ==
    /\ client[c].pc = "off"
    /\ proxy.pc # "dead"
    /\ client' = [client EXCEPT ![c].pc = "connecting"]
    /\ backlog' = backlog \union {c}
    /\ UNCHANGED <<up, down, proxy, irq, undone, failed, raised>>

Greeted(c) ==
    /\ client[c].pc = "connecting"
    /\ down[c] # <<>>
    /\ client' = [client EXCEPT ![c].pc =
                     IF Head(down[c]).plus THEN "ready" ELSE "gone"]
    /\ down' = [down EXCEPT ![c] = Tail(@)]
    /\ UNCHANGED <<backlog, up, proxy, irq, undone, failed, raised>>

\* The process ends: it is done, or killed, or it calls exit().  Answers it has
\* not read make its end send RST.
Leaves(c) ==
    /\ client' = [client EXCEPT ![c].pc = "gone"]
    /\ proxy' = IF Serving /\ proxy.with = c /\ down[c] # <<>>
                THEN [proxy EXCEPT !.reset = TRUE] ELSE proxy
    /\ down' = [down EXCEPT ![c] = <<>>]
    /\ UNCHANGED <<backlog, up, irq, undone, failed, raised>>

Leave(c) ==
    /\ client[c].pc \notin {"off", "gone"}
    /\ Leaves(c)

Allows(c, cmd) == cmd \in Ungated \/ ~client[c].error

Ready(c) == client[c].pc = "ready"
Sent(c, req) ==
    [client[c] EXCEPT !.req = req,
                      !.pc = IF req.cmd = "WRITE" THEN "writing" ELSE "reply"]

\* The functions of the driver; of atnet_buf_write() the first write.
Call(c, req) ==
    /\ Ready(c) /\ client[c].wait = "none"
    /\ client[c].id < Calls[c]
    /\ Allows(c, req.cmd)
    /\ LET id == client[c].id + 1
       IN  ClientWrites(c, [Sent(c, req) EXCEPT !.id = id],
                        Message("line", req, id))
    /\ UNCHANGED <<backlog, down, proxy, irq, undone, failed, raised>>

CallWriteData(c) ==
    /\ client[c].pc = "writing"
    /\ ClientWrites(c, [client[c] EXCEPT !.pc = "reply"],
                    Message("data", client[c].req, client[c].id))
    /\ UNCHANGED <<backlog, down, proxy, irq, undone, failed, raised>>

\* wait_for_interrupt()
EnterWait(c) ==
    /\ Ready(c) /\ client[c].wait = "none"
    /\ client[c].id < Calls[c]
    /\ \E t \in {"timed", "forever", "quick"} :
          client' = [client EXCEPT ![c].wait = t, ![c].id = @ + 1]
    /\ UNCHANGED <<backlog, up, down, proxy, irq, undone, failed, raised>>

Expires(c) ==
    /\ client[c].wait = "timed"
    /\ client[c].pc # "gone"
    /\ client' = [client EXCEPT ![c].wait = "expired"]
    /\ UNCHANGED <<backlog, up, down, proxy, irq, undone, failed, raised>>

\* A turn of its inner loop; after the timeout there is one more, of 1 ms.
Timeout(w) == IF w = "expired" THEN "timed" ELSE w

AskIrq(c) ==
    LET w == client[c].wait
        req == Request("WAIT", Timeout(w))
    IN  /\ Ready(c) /\ w \in {"timed", "expired", "forever", "quick"}
        /\ Allows(c, "WAIT")
        /\ ClientWrites(c, [Sent(c, req) EXCEPT
                               !.wait = IF w = "expired" THEN "last" ELSE w],
                        Message("line", req, client[c].id))
        /\ UNCHANGED <<backlog, down, proxy, irq, undone, failed, raised>>

\* With the error flag set, atnet_interrupt_wait() returns 0 at once: the loop
\* turns until the time is over, and then finds the error and exits.
WaitFails(c) ==
    /\ Ready(c) /\ client[c].wait = "expired"
    /\ ~Allows(c, "WAIT")
    /\ Leaves(c)

\* The call of c returns.  An interrupt ends the wait if it is one waited for.
WaitGoesOn(w, int, wanted) ==
    IF w = "last" \/ (int /\ wanted) THEN "none" ELSE w

\* Mutant: a frame that does not fit is not an error.
FlagsErrorButRead(c, fine) ==
    ~fine /\ client[c].req.cmd \notin {"CLKM", "WAIT", "READ"}
FlagsError(c, fine) == ~fine /\ client[c].req.cmd \notin {"CLKM", "WAIT"}

Returns(c, fine, int) ==
    \E wanted \in BOOLEAN :
        client' = [client EXCEPT
            ![c].pc = "ready",
            ![c].error = @ \/ FlagsError(c, fine),
            ![c].wait = WaitGoesOn(@, fine /\ int, wanted)]

\* dialog_recv(), or the first half of atnet_buf_read(), which leaves the data of
\* a frame that is too large where it is.  Left-over data taken for a reply may
\* begin with any byte.
TakeReply(c) ==
    LET m == Head(down[c])
        isRead == client[c].req.cmd = "READ"
    IN  /\ client[c].pc = "reply"
        /\ down[c] # <<>>
        /\ down' = [down EXCEPT ![c] = Tail(@)]
        /\ \/ /\ isRead /\ m.part = "head" /\ client[c].req.arg = "fits"
              /\ client' = [client EXCEPT ![c].pc = "body"]
           \/ /\ isRead /\ (m.part # "head" \/ client[c].req.arg = "large")
              /\ Returns(c, FALSE, FALSE)
           \/ /\ ~isRead
              /\ \E plus \in BOOLEAN :
                    /\ m.part = "data" \/ plus = m.plus
                    /\ Returns(c, plus, m.irq)
        /\ UNCHANGED <<backlog, up, proxy, irq, undone, failed, raised>>

TakeBody(c) ==
    /\ client[c].pc = "body"
    /\ down[c] # <<>>
    /\ down' = [down EXCEPT ![c] = Tail(@)]
    /\ Returns(c, Head(down[c]).part = "data", FALSE)
    /\ UNCHANGED <<backlog, up, proxy, irq, undone, failed, raised>>

\* Mutant: netio_getc() reads again after the end of file.
EndOfFileMissed(c) == FALSE
EndOfFile(c) == down[c] = <<>> /\ Closed(c)

\* End of file, or ECONNRESET, instead of an answer.
HangUp(c) ==
    /\ EndOfFile(c)
    /\ \/ /\ client[c].pc = "connecting"
          /\ client' = [client EXCEPT ![c].pc = "gone"]
       \/ /\ client[c].pc \in {"reply", "body"}
          /\ Returns(c, FALSE, FALSE)
    /\ UNCHANGED <<backlog, up, down, proxy, irq, undone, failed, raised>>

-----------------------------------------------------------------------------
(* The proxy                                                               *)

\* Mutant: the driver under the proxy forgets an error.
AttemptAnew(done) ==
    \/ done /\ UNCHANGED failed
    \/ ~done /\ failed < Fails /\ failed' = failed + 1
\* A call of the driver under the proxy: "done", or it fails and sets the error
\* flag, after which nothing is done any more.  (What a driver refuses without its
\* flag is in CmdUnchecked and CmdRead.)
Attempt(done) ==
    \/ done /\ ~proxy.error /\ UNCHANGED failed
    \/ ~done /\ proxy.error /\ UNCHANGED failed
    \/ ~done /\ ~proxy.error /\ failed < Fails /\ failed' = failed + 1

\* session() up to the greeting: the driver may not open, or be in error already.
Accept(c) ==
    /\ proxy.pc = "accept"
    /\ c \in backlog
    /\ backlog' = backlog \ {c}
    /\ \E opens, fine \in BOOLEAN :
          LET now == [pc |-> IF opens THEN "command" ELSE "accept", with |-> c,
                      error |-> opens /\ ~fine, req |-> Idle, id |-> 0,
                      reset |-> FALSE]
          IN  /\ \/ opens /\ fine /\ UNCHANGED failed
                 \/ ~(opens /\ fine) /\ failed < Fails /\ failed' = failed + 1
              /\ ProxyWrites(now, Answer("line", opens, FALSE, 0))
    /\ UNCHANGED <<client, up, irq, undone, raised>>

Next0 == Head(up[proxy.with])
Takes(part) ==
    /\ up[proxy.with] # <<>>
    /\ Next0.part = part
    /\ up' = [up EXCEPT ![proxy.with] = Tail(@)]

Command(cmds) ==
    /\ proxy.pc = "command"
    /\ Takes("line")
    /\ Next0.req.cmd \in cmds

\* The proxy after it took a request, going on as pc with its driver's flag.
After(pc, error) ==
    [proxy EXCEPT !.pc = pc, !.error = error,
                  !.req = Next0.req, !.id = Next0.id]
Plus(id)  == Answer("line", TRUE, FALSE, id)
Minus(id) == Answer("line", FALSE, FALSE, id)
EndSession == [proxy EXCEPT !.pc = "accept", !.reset = FALSE, !.error = FALSE]

CmdSpec ==
    /\ Command({"SPEC"})
    /\ ProxyWrites(After("command", proxy.error), Plus(Next0.id))
    /\ UNCHANGED <<client, backlog, irq, undone, failed, raised>>

\* Answered "+" whatever the driver does.  A driver can leave a request alone
\* without its error flag: a clock its board does not have, an SLP_TR that is not
\* a pulse, a RESET or TEST it has no function for.  atrf_set_clkm() then returns
\* 0, but the proxy takes only a negative result for an error.
CmdUnchecked ==
    /\ Command({"RESET", "CLKM"})
    /\ \/ /\ \E done \in BOOLEAN :
                /\ Attempt(done)
                /\ ProxyWrites(After("command", ~done), Plus(Next0.id))
                /\ undone' = [undone EXCEPT ![proxy.with] =
                                  IF done THEN @ ELSE @ \union {Next0.id}]
       \/ /\ ~proxy.error
          /\ ProxyWrites(After("command", FALSE), Plus(Next0.id))
          /\ UNCHANGED <<undone, failed>>
    /\ UNCHANGED <<client, backlog, irq, raised>>

CmdChecked ==
    /\ Command({"SET", "GET"})
    /\ \E done \in BOOLEAN :
          /\ Attempt(done)
          /\ ProxyWrites(After("command", ~done),
                         Answer("line", done, FALSE, Next0.id))
    /\ UNCHANGED <<client, backlog, irq, undone, raised>>

\* The size of a WRITE; its data is read only if it fits.
CmdWrite ==
    /\ Command({"WRITE"})
    /\ \/ /\ Next0.req.arg = "large"
          /\ ProxyWrites(After("command", proxy.error), Minus(Next0.id))
       \/ /\ Next0.req.arg = "fits"
          /\ proxy' = After("write", proxy.error)
          /\ UNCHANGED down
    /\ UNCHANGED <<client, backlog, irq, undone, failed, raised>>

WriteData ==
    /\ proxy.pc = "write"
    /\ Takes("data")
    /\ \E done \in BOOLEAN :
          /\ Attempt(done)
          /\ ProxyWrites(After("command", ~done),
                         Answer("line", done, FALSE, Next0.id))
    /\ UNCHANGED <<client, backlog, irq, undone, raised>>

\* Data that was not read is parsed as a command: not one the proxy knows, or
\* not even text.
ParseData ==
    /\ proxy.pc = "command"
    /\ Takes("data")
    /\ \/ ProxyWrites(After("command", proxy.error), Minus(Next0.id))
       \/ proxy' = EndSession /\ UNCHANGED down
    /\ UNCHANGED <<client, backlog, irq, undone, failed, raised>>

\* Of a frame longer than what it can read at a time, atusb_spi_buf_read() says
\* -1 without its error flag.
CmdRead ==
    /\ Command({"READ"})
    /\ \/ \E done \in BOOLEAN :
             /\ Attempt(done)
             /\ IF done
                THEN ProxyWrites(After("read", FALSE),
                                 Answer("head", TRUE, FALSE, Next0.id))
                ELSE ProxyWrites(After("command", TRUE), Minus(Next0.id))
       \/ /\ ~proxy.error
          /\ ProxyWrites(After("command", FALSE), Minus(Next0.id))
          /\ UNCHANGED failed
    /\ UNCHANGED <<client, backlog, irq, undone, raised>>

ReadBody ==
    /\ proxy.pc = "read"
    /\ ProxyWrites([proxy EXCEPT !.pc = "command"],
                   Answer("data", FALSE, FALSE, proxy.id))
    /\ UNCHANGED <<client, backlog, up, irq, undone, failed, raised>>

\* get_num() returns -1 for "WAIT -1" without setting *ret, and what is there
\* decides: no answer, or the end of the session.
CmdWait ==
    /\ Command({"WAIT"})
    /\ IF Next0.req.arg = "quick"
       THEN \/ proxy' = After("command", proxy.error)
            \/ proxy' = EndSession
       ELSE proxy' = After("wait", proxy.error)
    /\ UNCHANGED <<client, backlog, down, irq, undone, failed, raised>>

WaitReturns ==
    /\ proxy.pc = "wait"
    /\ \/ /\ proxy.error
          /\ ProxyWrites([proxy EXCEPT !.pc = "command"], Minus(proxy.id))
          /\ UNCHANGED <<irq, failed>>
       \/ /\ irq
          /\ \E done \in BOOLEAN :
                /\ Attempt(done)
                /\ ~proxy.error
                /\ irq' = ~done
                /\ ProxyWrites([proxy EXCEPT !.pc = "command", !.error = ~done],
                               Answer("line", done, done, proxy.id))
       \/ /\ proxy.req.arg = "timed"
          /\ ~proxy.error
          /\ ProxyWrites([proxy EXCEPT !.pc = "command"], Plus(proxy.id))
          /\ UNCHANGED <<irq, failed>>
    /\ UNCHANGED <<client, backlog, up, undone, raised>>

\* Mutants: "!got && last" without last; the loop does not see the end of file.
OnEofReplies(c) == ProxyWrites(proxy, Minus(0))
OnEofReads(c) == UNCHANGED <<proxy, down>>
\* session() ends.
OnEof(c) == proxy' = EndSession /\ UNCHANGED down

Eof ==
    LET c == proxy.with
    IN  /\ proxy.pc \in {"command", "write"}
        /\ Gone(c)
        /\ up[c] = <<>>
        /\ OnEof(c)
        /\ UNCHANGED <<client, backlog, up, irq, undone, failed, raised>>

-----------------------------------------------------------------------------
Interrupt ==
    /\ raised < Irqs
    /\ raised' = raised + 1
    /\ irq' = TRUE
    /\ UNCHANGED <<client, backlog, up, down, proxy, undone, failed>>

\* What a client does without deciding to: the driver and the waiting loop.
Runs(c) ==
    \/ CallWriteData(c) \/ AskIrq(c) \/ WaitFails(c)
    \/ Greeted(c) \/ TakeReply(c) \/ TakeBody(c) \/ HangUp(c)
Program(c) ==
    \/ Connect(c) \/ EnterWait(c) \/ Leave(c)
    \/ \E req \in Direct : Call(c, req)

Serve ==
    \/ CmdSpec \/ CmdUnchecked \/ CmdChecked \/ CmdWrite \/ CmdRead \/ CmdWait
    \/ WriteData \/ ReadBody \/ ParseData \/ WaitReturns \/ Eof
    \/ \E c \in Clients : Accept(c)

Next ==
    \/ Serve \/ Interrupt
    \/ \E c \in Clients : Runs(c) \/ Expires(c) \/ Program(c)

Spec == Init /\ [][Next]_vars

\* The proxy and the clients run, the network delivers, and time passes; no
\* program has to start, to call or to end, and no interrupt has to come.
Fairness ==
    /\ WF_vars(Serve)
    /\ \A c \in Clients : WF_vars(Runs(c)) /\ WF_vars(Expires(c))

FairSpec == Spec /\ Fairness
-----------------------------------------------------------------------------
(* Properties                                                              *)

\* Every variable has its type.
TypeOK ==
    /\ client \in [Clients -> ClientType]
    /\ backlog \subseteq Clients
    /\ up \in [Clients -> Seq(Messages)]
    /\ down \in [Clients -> Seq(Answers)]
    /\ proxy \in ProxyType
    /\ irq \in BOOLEAN
    /\ undone \in [Clients -> SUBSET Nat]
    /\ failed \in 0..Fails /\ raised \in 0..Irqs

TakesAnswer(c) ==
    /\ client[c].pc \in {"reply", "body"}
    /\ client'[c].pc # "gone"
    /\ down[c] # <<>>
    /\ down'[c] = Tail(down[c])

\* What a call takes for its answer is the answer to its own request: wherever
\* atnet.c leaves an answer, or the proxy a part of a request, unread, the error
\* flag keeps the calls from going on.  (SPEC and CLKM do not look at it, and
\* can get another's answer.)
OwnReply ==
    [][ \A c \in Clients :
            TakesAnswer(c) /\ client[c].req.cmd \notin Ungated =>
                Head(down[c]).id = client[c].id ]_vars

\* RESET and CLKM are answered "+" even if the device failed; but no register or
\* buffer access after one that failed succeeds, so a program that checks the
\* latter never believes that the device did the former.  (Of one that the driver
\* does not support, nothing tells.)
EarlierDone ==
    [][ \A c \in Clients :
            TakesAnswer(c) /\ client'[c].pc = "ready"
                /\ client[c].req.cmd \in Checked /\ ~client'[c].error =>
            undone[c] = {} ]_vars

\* A client that ends kills the proxy only if more than one write is still to
\* come: the frame after its length, a second refusal for what is left of a
\* refused WRITE, or the answer to a call made in spite of an error.
KilledHalfWay ==
    proxy.pc = "dead" =>
        /\ Gone(proxy.with)
        /\ \/ proxy.req.cmd = "READ"
           \/ proxy.req = Request("WRITE", "large")
           \/ proxy.req.cmd \in Ungated /\ client[proxy.with].error

\* Each call returns, also when the proxy ends or the device fails; a wait that
\* has no timeout returns once an interrupt comes.  (A "quick" wait may not: the
\* proxy takes its -1 for a number it could not read.)
InCall(c, reqs) == client[c].pc \in {"reply", "body"} /\ client[c].req \in reqs
CallReturns ==
    \A c \in Clients :
        /\ InCall(c, Direct) ~> ~InCall(c, Direct)
        /\ InCall(c, {Request("WAIT", "forever")}) /\ irq
              ~> ~InCall(c, {Request("WAIT", "forever")})

\* A client that connected is answered, unless another one keeps the session, if
\* only by the endless WAIT it left behind.
Held ==
    /\ Serving
    /\ ~Gone(proxy.with)
          \/ (proxy.pc = "wait" /\ proxy.req.arg = "forever")
NextClientServed ==
    \A c \in Clients : []<>(client[c].pc # "connecting" \/ Held)

\* wait_for_interrupt() leaves errors to atrf_error(), as the comment in
\* atusb_interrupt_wait() says: a program whose driver is in error ends.
ErrorEndsWait ==
    \A c \in Clients :
        client[c].error /\ client[c].wait # "none" ~> Gone(c)
=============================================================================
