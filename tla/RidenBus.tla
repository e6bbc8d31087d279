----------------------------- MODULE RidenBus -----------------------------
(***************************************************************************)
(* The dongle's Modbus RTU link to the power supply, shared by the         *)
(* application (SCPI, web pages, clock setting: riden_modbus.cpp) and by   *)
(* the Modbus TCP bridge (riden_modbus_bridge.cpp).                        *)
(*                                                                         *)
(* The firmware has one thread.  It blocks in wait_for_inactive() and in   *)
(* the bridge's wait loop, and there it runs the RTU library's task(),     *)
(* which may call the bridge back.  The library has one transaction slot   *)
(* (server), which it frees after its own timeout, a pointer to the        *)
(* caller's buffer (dataPtr) and one raw callback (onRaw).                 *)
(*                                                                         *)
(* Operators marked "Fault:" are wrong versions of the operator that       *)
(* follows them; no other definition uses them.  They stand for mistakes   *)
(* in the code that a property of this module must catch.                  *)
(***************************************************************************)
EXTENDS Naturals

CONSTANTS Masters,        \* IP addresses of the Modbus TCP clients
          NoIp,           \* "no IP address": the bridge's ip after "ip = 0"
          UnitAddress,    \* the Modbus unit id, read as an IP address
          AppTimeout,     \* RidenModbus::timeout (500 ms)
          LibTimeout,     \* the library's MODBUSRTU_TIMEOUT (1000 ms)
          ClockSize,      \* values of millis() (2^32)
          MaxStall,       \* most time between two calls of task()
          MaxRequests,    \* bound: requests made in a behaviour
          Prompt,         \* TRUE: each request is answered within MaxDelay
          MaxDelay,       \* that delay
          Refusals,       \* TRUE: the supply may answer with an exception
          SendMayFail     \* TRUE: the library may be out of memory

ASSUME AddressAssumption == NoIp \notin Masters /\ UnitAddress \notin Masters
ASSUME TimeAssumption ==
    /\ AppTimeout \in Nat /\ LibTimeout \in Nat /\ ClockSize \in Nat
    /\ MaxStall \in Nat \ {0} /\ MaxDelay \in Nat
    /\ AppTimeout < LibTimeout
    /\ LibTimeout + 2 * MaxStall < ClockSize
ASSUME PromptAssumption == Prompt \in BOOLEAN /\ (Prompt => MaxDelay <= LibTimeout)
ASSUME BoundAssumption ==
    /\ MaxRequests \in Nat
    /\ Refusals \in BOOLEAN /\ SendMayFail \in BOOLEAN

\* What the application asks for, and what the bridge forwards.  id tells the
\* requests apart; ip is the client of a raw request.
AppKinds == {"read", "write"}
Requests == [id : 1..MaxRequests, kind : AppKinds \cup {"raw"}, ip : Masters \cup {NoIp}]
NoRequest == [id |-> 0, kind |-> "none", ip |-> NoIp]

\* An answer of the power supply: data or acknowledgement, or an exception.
Frames == [req : Requests, refused : BOOLEAN]
NoFrame == [req |-> NoRequest, refused |-> FALSE]

VARIABLES
    now,        \* millis()
    pc,         \* where the thread is: "idle" in loop(), or in a wait loop
    cur,        \* the request of the blocked caller
    startedAt,  \* started_at of wait_for_inactive()
    server,     \* the library's slot: the transaction in progress
    sentAt,     \* when that transaction was sent
    dataPtr,    \* the caller whose buffer the library will fill
    onRaw,      \* the bridge's raw callback is installed
    running,    \* the bridge's transaction_id, slave_id and ip
    wire,       \* requests sent and not yet answered by the supply
    rx,         \* an answer in the UART's receive buffer
    executed,   \* history: requests the supply has carried out
    delivered,  \* history: answer "of" a request given "to" a request's owner
    errors,     \* history: Modbus errors sent to TCP clients
    last,       \* the last call that returned, and what it returned
    disturbed,  \* history: the library gave up on a transaction, and what that
                \* left behind (a late answer, the raw callback) may still act
    nextId      \* the next request's id

bridge == <<onRaw, running>>
slot == <<server, sentAt, dataPtr>>
psu == <<wire, rx, executed>>
caller == <<pc, cur, startedAt, last>>
vars == <<now, caller, slot, bridge, psu, delivered, errors, disturbed, nextId>>

-----------------------------------------------------------------------------
(* millis() arithmetic: unsigned, modulo ClockSize.                        *)

Later(t, d) == IF t + d < ClockSize THEN t + d ELSE t + d - ClockSize
Elapsed(t0, t) == IF t0 <= t THEN t - t0 ELSE t + ClockSize - t0

\* Fault: the wait loop does not look at the time.
NeverTimedOut(t) == FALSE
\* "millis() > wait_until", where wait_until itself may have wrapped.
TimedOut(t) == t > Later(startedAt, AppTimeout)

\* Fault: the library works out a deadline, as RidenModbus does.
ExpiredAtDeadline(t) == t > Later(sentAt, LibTimeout)
\* The library compares differences, so that wrapping does no harm.
Expired(t) == Elapsed(sentAt, t) > LibTimeout

-----------------------------------------------------------------------------
(* The library's task() with the bridge's raw callback inside.             *)

\* The slot's other fields mean nothing while it is free: they get fixed values.
FreeSlot == server' = NoRequest /\ sentAt' = 0 /\ dataPtr' = NoRequest

\* Fault: the callback stays installed.
KeepIntercepting == UNCHANGED bridge
\* modbus_rtu_raw_callback() removes itself and clears the bridge's state.
StopIntercepting == onRaw' = FALSE /\ running' = NoRequest

\* modbus_rtu_raw_callback(): whatever frame arrives goes to the TCP client
\* whose request was forwarded last, and the library does not look at it.
Intercept(f) ==
    /\ onRaw
    /\ delivered' = delivered \cup {[to |-> running, of |-> f.req]}
    /\ StopIntercepting
    /\ FreeSlot

\* The library reads a frame for its own transaction: data goes to the
\* caller's buffer, an exception just ends the transaction.  A frame that
\* answers another request may look right or may be refused.
Store(f) ==
    /\ ~onRaw /\ server # NoRequest
    /\ \/ /\ dataPtr # NoRequest /\ ~f.refused
          /\ delivered' = delivered \cup {[to |-> dataPtr, of |-> f.req]}
       \/ /\ dataPtr = NoRequest \/ f.refused \/ f.req # server
          /\ UNCHANGED delivered
    /\ FreeSlot
    /\ UNCHANGED bridge

\* A frame that nobody waits for.
Drop == server = NoRequest /\ UNCHANGED <<slot, bridge, delivered>>

\* Without a frame the library only looks for an overdue transaction.  It
\* knows nothing of the bridge: the raw callback stays installed.
CleanUp(t) ==
    LET overdue == server # NoRequest /\ Expired(t)
    IN  /\ IF overdue THEN FreeSlot ELSE UNCHANGED slot
        /\ disturbed' = (disturbed \/ overdue)
        /\ UNCHANGED <<bridge, delivered>>

Task(t) ==
    \/ /\ rx # NoFrame
       /\ Intercept(rx) \/ Store(rx) \/ Drop
       /\ rx' = NoFrame
       /\ UNCHANGED disturbed
    \/ /\ rx = NoFrame
       /\ CleanUp(t)
       /\ UNCHANGED rx

\* Time passes between two calls of task().  A prompt supply never lets it
\* pass MaxDelay with a request unanswered.
Pass(d) ==
    /\ Prompt /\ wire # {} => Elapsed(sentAt, now) + d <= MaxDelay
    /\ now' = Later(now, d)

-----------------------------------------------------------------------------
(* RidenModbus: the blocking calls of the application.                     *)

\* A caller returns; its local variables die with it.
Return(ok) ==
    /\ pc' = "idle"
    /\ cur' = NoRequest /\ startedAt' = 0
    /\ last' = [req |-> cur, ok |-> ok]

\* read_holding_registers() or write_holding_register(s)() is called from
\* loop(), and starts waiting for the link.
AppCall(kind) ==
    /\ pc = "idle" /\ nextId <= MaxRequests
    /\ pc' = "wait1"
    /\ cur' = [id |-> nextId, kind |-> kind, ip |-> NoIp]
    /\ startedAt' = now
    /\ nextId' = nextId + 1
    /\ UNCHANGED <<now, last, slot, bridge, psu, delivered, errors, disturbed>>

\* The library takes a request: the slot is occupied and the frame sent.  If
\* nothing of an earlier transaction is about, the past no longer matters.
Send(r, buffer, clean) ==
    /\ server = NoRequest
    /\ server' = r /\ sentAt' = now /\ dataPtr' = buffer
    /\ wire' = wire \cup {r}
    /\ disturbed' = (disturbed /\ ~(clean /\ wire = {} /\ rx = NoFrame))
    /\ UNCHANGED <<rx, executed>>

\* Fault: the call returns as soon as the request is sent.
SendOnly ==
    /\ pc = "wait1"
    /\ Send(cur, IF cur.kind = "read" THEN cur ELSE NoRequest, ~onRaw)
    /\ Return(TRUE)
    /\ UNCHANGED <<now, bridge, delivered, errors, nextId>>

\* The link is free: readHreg() or writeHreg(), then the second wait.
SendRequest ==
    /\ pc = "wait1"
    /\ Send(cur, IF cur.kind = "read" THEN cur ELSE NoRequest, ~onRaw)
    /\ pc' = "wait2" /\ startedAt' = now
    /\ UNCHANGED <<now, cur, last, bridge, delivered, errors, nextId>>

\* The library could not build the frame: "if (!res) return false".
SendRefused ==
    /\ SendMayFail /\ pc = "wait1" /\ server = NoRequest
    /\ Return(FALSE)
    /\ UNCHANGED <<now, slot, bridge, psu, delivered, errors, disturbed, nextId>>

\* One turn of the loop in wait_for_inactive(): delay(1), task(), and the
\* check of the time, which gives up even if the answer has just come in.
AppWait(d) ==
    /\ pc \in {"wait1", "wait2"} /\ server # NoRequest
    /\ Pass(d)
    /\ Task(now')
    /\ IF TimedOut(now') THEN Return(FALSE) ELSE UNCHANGED caller
    /\ UNCHANGED <<wire, executed, errors, nextId>>

\* The second wait ends because the slot is free, whatever freed it.
AppReturn ==
    /\ pc = "wait2" /\ server = NoRequest
    /\ Return(TRUE)
    /\ UNCHANGED <<now, slot, bridge, psu, delivered, errors, disturbed, nextId>>

\* riden_modbus.loop()
RtuLoop(d) ==
    /\ pc = "idle"
    /\ Pass(d)
    /\ Task(now')
    /\ UNCHANGED <<caller, wire, executed, errors, nextId>>

-----------------------------------------------------------------------------
(* RidenModbusBridge: modbus_tcp_raw_callback(), called from loop().       *)

\* Fault: the raw callback is installed before the link is waited for.
TcpRequestEager(m) ==
    /\ pc = "idle" /\ nextId <= MaxRequests
    /\ pc' = "bridgeWait"
    /\ cur' = [id |-> nextId, kind |-> "raw", ip |-> m]
    /\ onRaw' = TRUE /\ running' = cur'
    /\ nextId' = nextId + 1
    /\ UNCHANGED <<now, startedAt, last, slot, psu, delivered, errors, disturbed>>

TcpRequest(m) ==
    /\ pc = "idle" /\ nextId <= MaxRequests
    /\ pc' = "bridgeWait"
    /\ cur' = [id |-> nextId, kind |-> "raw", ip |-> m]
    /\ nextId' = nextId + 1
    /\ UNCHANGED <<now, startedAt, last, slot, bridge, psu, delivered, errors, disturbed>>

\* Fault: the loop only sleeps.
BridgeSleep(d) ==
    /\ pc = "bridgeWait" /\ server # NoRequest
    /\ Pass(d)
    /\ UNCHANGED <<caller, slot, bridge, psu, delivered, errors, disturbed, nextId>>

\* The bridge's own wait loop has no timeout: it trusts the library's.
BridgeWait(d) ==
    /\ pc = "bridgeWait" /\ server # NoRequest
    /\ Pass(d)
    /\ Task(now')
    /\ UNCHANGED <<caller, wire, executed, errors, nextId>>

\* Fault: the request is still there after the return.
BridgeLeave == pc' = "idle" /\ UNCHANGED <<cur, startedAt, last>>
BridgeReturn == pc' = "idle" /\ cur' = NoRequest /\ UNCHANGED <<startedAt, last>>

\* Fault: nobody listens for the answer.
ForwardUnheard ==
    /\ pc = "bridgeWait"
    /\ Send(cur, NoRequest, TRUE)
    /\ running' = cur /\ UNCHANGED onRaw
    /\ BridgeReturn
    /\ UNCHANGED <<now, delivered, errors, nextId>>
\* rawRequest(), and the raw callback that will take the answer.
BridgeForward ==
    /\ pc = "bridgeWait"
    /\ Send(cur, NoRequest, TRUE)
    /\ running' = cur /\ onRaw' = TRUE
    /\ BridgeReturn
    /\ UNCHANGED <<now, delivered, errors, nextId>>

\* rawRequest() failed: errorResponce() is given the unit id as the address.
BridgeFails ==
    /\ SendMayFail /\ pc = "bridgeWait" /\ server = NoRequest
    /\ errors' = errors \cup {[to |-> UnitAddress, of |-> cur]}
    /\ BridgeReturn
    /\ UNCHANGED <<now, slot, bridge, psu, delivered, disturbed, nextId>>

-----------------------------------------------------------------------------
(* The power supply at the other end of the UART.                          *)

Oldest(r) == \A q \in wire : r.id <= q.id

\* It handles requests in the order they were sent.
PsuAnswer(r, refused) ==
    /\ Oldest(r) /\ rx = NoFrame
    /\ refused => Refusals
    /\ rx' = [req |-> r, refused |-> refused]
    /\ wire' = wire \ {r}
    /\ executed' = IF refused THEN executed ELSE executed \cup {r}
    /\ UNCHANGED <<now, caller, slot, bridge, delivered, errors, disturbed, nextId>>

\* The request is lost or garbled on its way, or its answer is.
PsuLose(r) ==
    /\ ~Prompt
    /\ wire' = wire \ {r}
    /\ executed' \in {executed, executed \cup {r}}
    /\ UNCHANGED <<now, caller, slot, bridge, rx, delivered, errors, disturbed, nextId>>

-----------------------------------------------------------------------------
Init ==
    /\ now \in 0..(ClockSize - 1)
    /\ pc = "idle" /\ cur = NoRequest /\ startedAt = 0
    /\ server = NoRequest /\ sentAt = 0 /\ dataPtr = NoRequest
    /\ onRaw = FALSE /\ running = NoRequest
    /\ wire = {} /\ rx = NoFrame /\ executed = {}
    /\ delivered = {} /\ errors = {}
    /\ last = [req |-> NoRequest, ok |-> FALSE]
    /\ disturbed = FALSE /\ nextId = 1

\* Steps the firmware takes by itself.
Firmware ==
    \/ SendRequest \/ SendRefused \/ AppReturn
    \/ BridgeForward \/ BridgeFails
    \/ \E d \in 1..MaxStall : AppWait(d) \/ BridgeWait(d) \/ RtuLoop(d)

Users == (\E k \in AppKinds : AppCall(k)) \/ (\E m \in Masters : TcpRequest(m))

Answer == \E r \in wire, refused \in BOOLEAN : PsuAnswer(r, refused)
Lose == \E r \in wire : PsuLose(r)

Next == Firmware \/ Users \/ Answer \/ Lose

Spec == Init /\ [][Next]_vars

\* loop() and the wait loops keep running.
RunningSpec == Spec /\ WF_vars(Firmware)
\* Beyond that, the power supply answers what it is asked.
AnsweringSpec == RunningSpec /\ WF_vars(Answer)
-----------------------------------------------------------------------------
(* Properties.                                                             *)

\* Every variable has its type, the thread is blocked in a wait loop exactly
\* while it has a request to make, and the raw callback is installed exactly
\* while the bridge remembers whom to answer.
CallerTypeOK ==
    /\ pc \in {"idle", "wait1", "wait2", "bridgeWait"}
    /\ cur \in Requests \cup {NoRequest} /\ (cur = NoRequest <=> pc = "idle")
    /\ (pc = "bridgeWait" => cur.kind = "raw")
    /\ startedAt \in 0..(ClockSize - 1)
    /\ last \in [req : Requests \cup {NoRequest}, ok : BOOLEAN]
    /\ errors \subseteq [to : {UnitAddress}, of : Requests]
    /\ nextId \in 1..(MaxRequests + 1)
LinkTypeOK ==
    /\ now \in 0..(ClockSize - 1) /\ sentAt \in 0..(ClockSize - 1)
    /\ server \in Requests \cup {NoRequest}
    /\ dataPtr \in Requests \cup {NoRequest}
    /\ onRaw \in BOOLEAN /\ running \in Requests \cup {NoRequest}
    /\ (onRaw <=> running # NoRequest)
    /\ wire \subseteq Requests /\ rx \in Frames \cup {NoFrame}
    /\ executed \subseteq Requests
    /\ delivered \subseteq [to : Requests, of : Requests]
    /\ disturbed \in BOOLEAN
TypeOK == CallerTypeOK /\ LinkTypeOK

\* Each answer is handed over once, and each reader's buffer and each TCP
\* client's request is given at most one answer: the slot, the buffer pointer
\* and the raw callback are given up together with the frame, even when
\* frames come late (task(), modbus_rtu_raw_callback()).
OneAnswerOneReceiver ==
    \A d, e \in delivered : d.to = e.to \/ d.of = e.of => d = e

\* While no given-up transaction can still act, each answer goes to its own
\* request: an application read never fills its buffer with what a TCP client
\* asked for and a TCP client never gets an answer meant for the application,
\* whatever the interleaving of wait loops, raw callback and answers.  It
\* holds again after a failure, as soon as the link is clean.
RightReceiver ==
    [][~disturbed => \A d \in delivered' \ delivered : d.to = d.of]_vars

\* The call has had its effect.
Done(r) == /\ r \in executed
           /\ r.kind = "read" => [to |-> r, of |-> r] \in delivered

\* With a supply that refuses nothing, a call that returns TRUE has been
\* carried out, and a read has its own data: wait_for_inactive() only looks at
\* whether the slot is free, and never asks what freed it.
TrueMeansDone ==
    [][~disturbed /\ ~Refusals /\ last' # last /\ last'.ok => Done(last'.req)]_vars

\* wait_for_inactive() keeps to its timeout, and where wait_until or millis()
\* wraps, so that its own check fails, the library's timeout still ends the wait.
\* The bridge, which has no timeout of its own, never waits for a transaction
\* that is older than the library's.
WaitIsBounded ==
    /\ pc \in {"wait1", "wait2"} =>
         Elapsed(startedAt, now) <= IF startedAt + AppTimeout + MaxStall < ClockSize
                                    THEN AppTimeout
                                    ELSE LibTimeout + MaxStall
    /\ pc = "bridgeWait" /\ server # NoRequest => Elapsed(sentAt, now) <= LibTimeout

\* Whenever time passes, whoever goes on waiting has waited longer than before
\* and so has the transaction in the slot: millis() never comes round under a
\* wait, which together with WaitIsBounded limits the turns of every wait loop.
TimeCounts ==
    [][now' # now =>
          /\ pc' \in {"wait1", "wait2"} =>
                Elapsed(startedAt', now') > Elapsed(startedAt, now)
          /\ server' # NoRequest =>
                server' = server /\ Elapsed(sentAt', now') > Elapsed(sentAt, now)]_vars

\* The library never gives up on a prompt supply, whatever the wait loops,
\* the main loop and the clock do.
NeverDisturbed == Prompt => ~disturbed

\* The link as its users see it.
Contract == INSTANCE BusContract WITH holder <- server, done <- delivered,
                                      sound <- ~disturbed, Reliable <- Prompt

\* The link keeps its contract: one holder at a time, and each answer to the
\* holder; only if the supply is not prompt and a request was given up may
\* answers go astray, once each, until the next clean start.
KeepsContract == Contract!Spec

\* Every blocking call ends, even if the supply never answers and the clock
\* wraps: the wait loops of RidenModbus and of the bridge.
CallsReturn == pc # "idle" ~> pc = "idle"

\* If the supply answers, each forwarded request is answered to its client.
ResponseForwarded ==
    \A i \in 1..MaxRequests :
        running.id = i ~> \E d \in delivered : d.to.id = i

-----------------------------------------------------------------------------
(* What comments of the code say, and the code does not do.                *)

\* "Set up ourself for forwarding the response": a TCP client is answered with
\* the response to its own request.  The raw callback forwards the first frame that
\* comes, which may be the late answer of a call the application has given up.
ClientsGetOwnResponse ==
    \A d \in delivered : d.to.kind = "raw" => d.of = d.to

\* "Wait until no transaction is active or timeout has passed": wait_for_inactive()
\* does not give up, with a transaction active, before its timeout has passed.
\* Where wait_until wraps it does so in its first turn.
GivesUp == pc \in {"wait1", "wait2"} /\ server # NoRequest /\ pc' = "idle"
GivesUpAtTimeout == [][GivesUp => Elapsed(startedAt, now') > AppTimeout]_vars

\* "true On success, false On failure": a call that returns TRUE to its caller
\* was not refused by the supply.
TrueMeansAccepted == last.ok => last.req \in executed
=============================================================================
