-------------------------- MODULE RidenBusProofs --------------------------
(***************************************************************************)
(* Proofs about RidenBus, for every set of clients, every timeout, clock   *)
(* size and number of requests.                                            *)
(***************************************************************************)
EXTENDS RidenBus, TLAPS

USE DEF vars, caller, slot, bridge, psu

-----------------------------------------------------------------------------
(* The inductive invariant, in parts.                                      *)

Waiting == pc \in {"wait1", "wait2"}

\* The library never lets a transaction grow older than its timeout, and whoever
\* waits for the slot has not waited longer than its transaction has lasted.
Young ==
    server # NoRequest =>
        /\ Elapsed(sentAt, now) <= LibTimeout
        /\ Waiting => Elapsed(startedAt, now) <= Elapsed(sentAt, now)

\* The part of WaitIsBounded about the application.
AppWaitIsBounded ==
    Waiting => Elapsed(startedAt, now) <= IF startedAt + AppTimeout + MaxStall < ClockSize
                                          THEN AppTimeout
                                          ELSE LibTimeout + MaxStall

\* While nothing left over from a given-up transaction is about, everything on
\* the link belongs to the transaction in the slot.
Aligned ==
    ~disturbed =>
        /\ wire \subseteq {server}
        /\ rx # NoFrame => rx.req = server /\ wire = {}
        /\ onRaw => running = server /\ dataPtr = NoRequest
        /\ server.kind = "read" => dataPtr = server
        /\ dataPtr # NoRequest => dataPtr = server

\* What comes from a supply that refuses nothing has been carried out.
Accepted == ~Refusals /\ rx # NoFrame => ~rx.refused /\ rx.req \in executed

\* The second wait ends with the call's own transaction.
SecondWait ==
    ~disturbed /\ ~Refusals /\ pc = "wait2" =>
        server = cur \/ (server = NoRequest /\ Done(cur))

\* A prompt supply: nothing was given up, the slot's request is on its way, and
\* it is not overdue.
OnTime ==
    Prompt =>
        /\ ~disturbed
        /\ server # NoRequest => wire = {server} \/ rx # NoFrame
        /\ wire # {} => Elapsed(sentAt, now) <= MaxDelay

IInv == TypeOK /\ Young /\ AppWaitIsBounded /\ Aligned /\ Accepted /\ SecondWait /\ OnTime

-----------------------------------------------------------------------------
(* millis() arithmetic.                                                    *)

\* millis() stays in its range.
LEMMA LaterIsTime ==
    ASSUME NEW t \in 0..(ClockSize - 1), NEW d \in 0..MaxStall
    PROVE  Later(t, d) \in 0..(ClockSize - 1)
BY TimeAssumption DEF Later

\* Differences of points in time survive the wrapping of millis().
LEMMA ElapsedLater ==
    ASSUME NEW t0 \in 0..(ClockSize - 1), NEW t \in 0..(ClockSize - 1),
           NEW d \in 1..MaxStall, Elapsed(t0, t) + d < ClockSize
    PROVE  Elapsed(t0, Later(t, d)) = Elapsed(t0, t) + d
BY TimeAssumption DEF Later, Elapsed

LEMMA ElapsedType ==
    ASSUME NEW t0 \in 0..(ClockSize - 1), NEW t \in 0..(ClockSize - 1)
    PROVE  Elapsed(t0, t) \in 0..(ClockSize - 1)
BY TimeAssumption DEF Elapsed

LEMMA ElapsedNow ==
    ASSUME NEW t \in 0..(ClockSize - 1)
    PROVE  Elapsed(t, t) = 0
BY DEF Elapsed

-----------------------------------------------------------------------------
(* Requests.                                                               *)

LEMMA NoRequestIsNone == NoRequest \notin Requests
BY DEF Requests, NoRequest

LEMMA NoFrameIsNone == NoFrame \notin Frames
BY NoRequestIsNone DEF Frames, NoFrame

LEMMA NewRequest ==
    ASSUME NEW kind \in AppKinds \cup {"raw"}, NEW ip \in Masters \cup {NoIp},
           NEW i \in 1..(MaxRequests + 1), i <= MaxRequests
    PROVE  [id |-> i, kind |-> kind, ip |-> ip] \in Requests
BY BoundAssumption DEF Requests

-----------------------------------------------------------------------------
(* What one call of task() does, whichever loop makes it.                  *)

LEMMA TickType ==
    ASSUME LinkTypeOK, NEW d \in 1..MaxStall, Pass(d), Task(now'),
           UNCHANGED <<wire, executed>>
    PROVE  LinkTypeOK'
<1>1. now' \in 0..(ClockSize - 1)
  BY LaterIsTime, TimeAssumption DEF LinkTypeOK, Pass
<1>2. 0 \in 0..(ClockSize - 1)
  BY TimeAssumption
<1>3. CASE rx = NoFrame /\ CleanUp(now') /\ UNCHANGED rx
  BY <1>1, <1>2, <1>3 DEF LinkTypeOK, CleanUp, FreeSlot
<1>4. CASE rx # NoFrame /\ rx' = NoFrame /\ UNCHANGED disturbed
           /\ (Intercept(rx) \/ Store(rx) \/ Drop)
  <2>1. rx.req \in Requests
    BY <1>4 DEF LinkTypeOK, Frames
  <2>2. CASE Intercept(rx)
    <3>1. running \in Requests
      BY <2>2 DEF LinkTypeOK, Intercept
    <3>2. delivered' \subseteq [to : Requests, of : Requests]
      BY <2>1, <2>2, <3>1 DEF LinkTypeOK, Intercept
    <3>3. onRaw' = FALSE /\ running' = NoRequest /\ FreeSlot
      BY <2>2 DEF Intercept, StopIntercepting
    <3>4. QED
      BY <1>1, <1>2, <1>4, <3>2, <3>3 DEF LinkTypeOK, FreeSlot
  <2>3. CASE Store(rx)
    BY <1>1, <1>2, <1>4, <2>1, <2>3 DEF LinkTypeOK, Store, FreeSlot
  <2>4. CASE Drop
    BY <1>1, <1>4, <2>4 DEF LinkTypeOK, Drop
  <2>5. QED
    BY <1>4, <2>2, <2>3, <2>4
<1>5. QED
  BY <1>3, <1>4 DEF Task

\* A transaction that survives a call of task() is the same as before.
LEMMA TickSlot ==
    ASSUME LinkTypeOK, Task(now'), server' # NoRequest
    PROVE  /\ UNCHANGED <<server, sentAt, dataPtr, onRaw, running, delivered, disturbed>>
           /\ rx = NoFrame /\ rx' = NoFrame
           /\ ~Expired(now')
<1>1. CASE rx # NoFrame /\ (Intercept(rx) \/ Store(rx) \/ Drop)
  BY <1>1 DEF Intercept, Store, Drop, FreeSlot
<1>2. CASE rx = NoFrame /\ CleanUp(now') /\ UNCHANGED rx
  <2>1. ~(server # NoRequest /\ Expired(now'))
    BY <1>2 DEF CleanUp, FreeSlot
  <2>2. UNCHANGED slot /\ disturbed' = (disturbed \/ FALSE) /\ UNCHANGED <<bridge, delivered>>
    BY <1>2, <2>1 DEF CleanUp
  <2>3. server # NoRequest /\ disturbed' = disturbed
    BY <2>2 DEF LinkTypeOK
  <2>4. QED
    BY <1>2, <2>1, <2>2, <2>3
<1>3. QED
  BY <1>1, <1>2 DEF Task

LEMMA TickYoung ==
    ASSUME IInv, NEW d \in 1..MaxStall, Pass(d), Task(now'),
           UNCHANGED startedAt, Waiting' => Waiting
    PROVE  Young'
<1> SUFFICES ASSUME server' # NoRequest
             PROVE  /\ Elapsed(sentAt', now') <= LibTimeout
                    /\ Waiting' => Elapsed(startedAt', now') <= Elapsed(sentAt', now')
  BY DEF Young
<1>1. server' = server /\ sentAt' = sentAt /\ ~Expired(now')
  BY TickSlot DEF IInv, TypeOK
<1>2. now' = Later(now, d) /\ now \in 0..(ClockSize - 1)
      /\ sentAt \in 0..(ClockSize - 1) /\ startedAt \in 0..(ClockSize - 1)
  BY DEF IInv, TypeOK, LinkTypeOK, CallerTypeOK, Pass
<1>3. now' \in 0..(ClockSize - 1)
  BY <1>2, LaterIsTime
<1>4. Elapsed(sentAt, now') <= LibTimeout
  BY <1>1, <1>2, <1>3, ElapsedType, TimeAssumption DEF Expired
<1>5. ASSUME Waiting' PROVE Elapsed(startedAt, now') <= Elapsed(sentAt, now')
  <2>1. Elapsed(startedAt, now) <= Elapsed(sentAt, now) /\ Elapsed(sentAt, now) <= LibTimeout
    BY <1>1, <1>5 DEF IInv, Young
  <2>2. /\ Elapsed(sentAt, now) \in Nat /\ Elapsed(startedAt, now) \in Nat
        /\ d \in Nat /\ d <= MaxStall
    <3>1. /\ Elapsed(sentAt, now) \in 0..(ClockSize - 1)
          /\ Elapsed(startedAt, now) \in 0..(ClockSize - 1)
      BY <1>2, ElapsedType
    <3>2. QED
      BY <3>1, TimeAssumption
  <2>3. /\ Elapsed(sentAt, now) + d < ClockSize
        /\ Elapsed(startedAt, now) + d < ClockSize
    BY <2>1, <2>2, TimeAssumption
  <2>4. /\ Elapsed(sentAt, now') = Elapsed(sentAt, now) + d
        /\ Elapsed(startedAt, now') = Elapsed(startedAt, now) + d
    BY <1>2, <2>3, ElapsedLater
  <2>5. QED
    BY <2>1, <2>2, <2>4
<1>6. QED
  BY <1>1, <1>4, <1>5

\* With nothing left over, a frame on the link is the slot's own answer.
LEMMA TickAligned ==
    ASSUME IInv, Task(now'), UNCHANGED wire
    PROVE  Aligned'
<1> SUFFICES ASSUME ~disturbed' PROVE Aligned'
  BY DEF Aligned
<1> USE DEF IInv, TypeOK, LinkTypeOK
<1>1. ~disturbed
  BY DEF Task, CleanUp
<1>2. CASE rx = NoFrame /\ CleanUp(now') /\ UNCHANGED rx
  BY <1>1, <1>2 DEF CleanUp, Aligned
<1>3. CASE rx # NoFrame /\ rx' = NoFrame /\ (Intercept(rx) \/ Store(rx) \/ Drop)
  <2>1. rx.req = server /\ wire = {} /\ rx.req \in Requests
    BY <1>1, <1>3 DEF Aligned, Frames
  <2>2. ~Drop
    BY <2>1, NoRequestIsNone DEF Drop
  <2>3. server' = NoRequest /\ dataPtr' = NoRequest /\ onRaw' = FALSE
    BY <1>3, <2>2 DEF Intercept, Store, StopIntercepting, FreeSlot
  <2>4. QED
    BY <1>3, <2>1, <2>3 DEF Aligned
<1>4. QED
  BY <1>2, <1>3 DEF Task

\* The answer to the caller's own transaction completes its call.
LEMMA TickCompletes ==
    ASSUME IInv, Task(now'), UNCHANGED <<wire, executed>>,
           ~disturbed', ~Refusals, server = cur, server # NoRequest, UNCHANGED cur
    PROVE  server' = cur \/ (server' = NoRequest /\ Done(cur)')
<1> USE DEF IInv
<1>1. ~disturbed
  BY DEF Task, CleanUp, TypeOK, LinkTypeOK
<1>2. CASE rx = NoFrame /\ CleanUp(now')
  <2>1. disturbed' # TRUE
    OBVIOUS
  <2>2. UNCHANGED slot
    BY <1>2, <2>1 DEF CleanUp
  <2>3. QED
    BY <2>2
<1>3. CASE rx # NoFrame /\ rx' = NoFrame /\ (Intercept(rx) \/ Store(rx) \/ Drop)
  <2>1. rx.req = cur /\ ~rx.refused /\ cur \in executed
    BY <1>1, <1>3 DEF Aligned, Accepted
  <2>2. ~Drop
    BY DEF Drop
  <2>3. server' = NoRequest
    BY <1>3, <2>2 DEF Intercept, Store, FreeSlot
  <2>4. cur.kind = "read" => dataPtr = cur
    BY <1>1 DEF Aligned
  <2>5. CASE Intercept(rx)
    <3>1. cur.kind # "read"
      BY <1>1, <2>4, <2>5 DEF Intercept, Aligned
    <3>2. QED
      BY <2>1, <2>3, <3>1 DEF Done
  <2>6. CASE Store(rx)
    <3>1. cur.kind = "read" => [to |-> cur, of |-> cur] \in delivered'
      BY <2>1, <2>4, <2>6 DEF Store
    <3>2. QED
      BY <2>1, <2>3, <3>1 DEF Done
  <2>7. QED
    BY <1>3, <2>2, <2>5, <2>6
<1>4. QED
  BY <1>2, <1>3 DEF Task

\* A prompt supply's answer is there before the library gives up.
LEMMA TickOnTime ==
    ASSUME IInv, NEW d \in 1..MaxStall, Pass(d), Task(now'), UNCHANGED wire
    PROVE  OnTime'
<1> SUFFICES ASSUME Prompt PROVE OnTime'
  BY DEF OnTime
<1> USE DEF IInv
<1>1. /\ ~disturbed
      /\ server # NoRequest => wire = {server} \/ rx # NoFrame
      /\ wire # {} => Elapsed(sentAt, now) <= MaxDelay
      /\ wire # {} => Elapsed(sentAt, now) + d <= MaxDelay
  BY DEF OnTime, Pass
<1>2. now' = Later(now, d) /\ now \in 0..(ClockSize - 1) /\ sentAt \in 0..(ClockSize - 1)
  BY DEF TypeOK, LinkTypeOK, Pass
<1>3. wire # {} => Elapsed(sentAt, now') <= MaxDelay
  <2> SUFFICES ASSUME wire # {} PROVE Elapsed(sentAt, now') <= MaxDelay
    OBVIOUS
  <2>1. Elapsed(sentAt, now) + d < ClockSize
    <3>1. MaxDelay <= LibTimeout
      BY PromptAssumption
    <3>2. Elapsed(sentAt, now) \in 0..(ClockSize - 1)
      BY <1>2, ElapsedType
    <3>3. Elapsed(sentAt, now) + d <= MaxDelay
      BY <1>1
    <3>4. QED
      BY <3>1, <3>2, <3>3, TimeAssumption
  <2>2. QED
    BY <1>1, <1>2, <2>1, ElapsedLater
<1>4. CASE rx = NoFrame /\ CleanUp(now') /\ UNCHANGED rx
  <2>1. CASE server = NoRequest
    <3>1. ~(server # NoRequest /\ Expired(now'))
      BY <2>1
    <3>2. UNCHANGED slot /\ ~disturbed'
      BY <1>1, <1>4, <3>1 DEF CleanUp
    <3>3. QED
      BY <1>3, <2>1, <3>2 DEF OnTime
  <2>2. CASE server # NoRequest
    <3>1. wire = {server}
      BY <1>1, <1>4, <2>2
    <3>2. now' \in 0..(ClockSize - 1)
      BY <1>2, LaterIsTime
    <3>3. ~Expired(now')
      BY <1>2, <1>3, <3>1, <3>2, ElapsedType, TimeAssumption, PromptAssumption DEF Expired
    <3>4. UNCHANGED slot /\ ~disturbed'
      BY <1>1, <1>4, <3>3 DEF CleanUp
    <3>5. QED
      BY <1>3, <3>1, <3>4 DEF OnTime
  <2>3. QED
    BY <2>1, <2>2
<1>5. CASE rx # NoFrame /\ (Intercept(rx) \/ Store(rx) \/ Drop) /\ UNCHANGED disturbed
  <2>1. wire = {}
    BY <1>1, <1>5 DEF Aligned
  <2>2. server' = NoRequest
    BY <1>5 DEF Intercept, Store, Drop, FreeSlot
  <2>3. QED
    BY <1>1, <1>5, <2>1, <2>2 DEF OnTime
<1>6. QED
  BY <1>4, <1>5 DEF Task

-----------------------------------------------------------------------------
(* Types.                                                                  *)

LEMMA InitType == Init => TypeOK
<1> SUFFICES ASSUME Init PROVE TypeOK
  OBVIOUS
<1>1. 0 \in 0..(ClockSize - 1) /\ 1 \in 1..(MaxRequests + 1)
  BY TimeAssumption, BoundAssumption
<1>2. CallerTypeOK
  BY <1>1 DEF Init, CallerTypeOK
<1>3. LinkTypeOK
  BY <1>1 DEF Init, LinkTypeOK
<1>4. QED
  BY <1>2, <1>3 DEF TypeOK

\* Whoever returns leaves a well-formed result behind.
LEMMA ReturnType ==
    ASSUME CallerTypeOK, NEW ok \in BOOLEAN, Return(ok), UNCHANGED <<errors, nextId>>
    PROVE  CallerTypeOK'
BY TimeAssumption DEF CallerTypeOK, Return

LEMMA SendType ==
    ASSUME LinkTypeOK, NEW r \in Requests, NEW buffer \in Requests \cup {NoRequest},
           NEW clean, Send(r, buffer, clean), UNCHANGED <<now, delivered>>,
           onRaw' \in BOOLEAN, running' \in Requests \cup {NoRequest},
           onRaw' <=> running' # NoRequest
    PROVE  LinkTypeOK'
BY DEF LinkTypeOK, Send

LEMMA NextType == TypeOK /\ [Next]_vars => TypeOK'
<1> SUFFICES ASSUME TypeOK, [Next]_vars PROVE TypeOK'
  OBVIOUS
<1> USE DEF TypeOK
<1>0. ASSUME pc # "idle" PROVE cur \in Requests
  BY <1>0 DEF CallerTypeOK
<1>1. ASSUME NEW kind \in AppKinds, AppCall(kind) PROVE TypeOK'
  <2>1. cur' \in Requests /\ cur' # NoRequest
    BY <1>1, NewRequest, NoRequestIsNone DEF AppCall, CallerTypeOK
  <2>2. nextId' \in 1..(MaxRequests + 1)
    BY <1>1, BoundAssumption DEF AppCall, CallerTypeOK
  <2>3. QED
    BY <1>1, <2>1, <2>2 DEF AppCall, CallerTypeOK, LinkTypeOK
<1>2. ASSUME NEW m \in Masters, TcpRequest(m) PROVE TypeOK'
  <2>1. cur' \in Requests /\ cur' # NoRequest
    BY <1>2, NewRequest, NoRequestIsNone DEF TcpRequest, CallerTypeOK
  <2>2. nextId' \in 1..(MaxRequests + 1)
    BY <1>2, BoundAssumption DEF TcpRequest, CallerTypeOK
  <2>3. QED
    BY <1>2, <2>1, <2>2 DEF TcpRequest, CallerTypeOK, LinkTypeOK
<1>3. CASE SendRequest
  <2>1. cur \in Requests /\ cur # NoRequest
    BY <1>0, <1>3, NoRequestIsNone DEF SendRequest
  <2>2. LinkTypeOK'
    BY <1>3, <2>1, SendType DEF SendRequest, LinkTypeOK
  <2>3. CallerTypeOK'
    BY <1>3, <2>1 DEF SendRequest, CallerTypeOK, LinkTypeOK
  <2>4. QED
    BY <2>2, <2>3
<1>4. CASE SendRefused
  BY <1>4, ReturnType DEF SendRefused, LinkTypeOK
<1>5. CASE AppReturn
  BY <1>5, ReturnType DEF AppReturn, LinkTypeOK
<1>6. ASSUME NEW d \in 1..MaxStall, AppWait(d) PROVE TypeOK'
  <2>1. LinkTypeOK'
    BY <1>6, TickType DEF AppWait
  <2>2. CallerTypeOK'
    BY <1>6, ReturnType DEF AppWait, CallerTypeOK
  <2>3. QED
    BY <2>1, <2>2
<1>7. ASSUME NEW d \in 1..MaxStall, BridgeWait(d) \/ RtuLoop(d) PROVE TypeOK'
  <2>1. LinkTypeOK'
    BY <1>7, TickType DEF BridgeWait, RtuLoop
  <2>2. CallerTypeOK'
    BY <1>7 DEF BridgeWait, RtuLoop, CallerTypeOK
  <2>3. QED
    BY <2>1, <2>2
<1>8. CASE BridgeForward
  <2>1. cur \in Requests /\ cur # NoRequest
    BY <1>0, <1>8, NoRequestIsNone DEF BridgeForward
  <2>2. LinkTypeOK'
    BY <1>8, <2>1, SendType DEF BridgeForward
  <2>3. CallerTypeOK'
    BY <1>8 DEF BridgeForward, BridgeReturn, CallerTypeOK
  <2>4. QED
    BY <2>2, <2>3
<1>9. CASE BridgeFails
  <2>1. cur \in Requests
    BY <1>0, <1>9 DEF BridgeFails
  <2>2. QED
    BY <1>9, <2>1 DEF BridgeFails, BridgeReturn, CallerTypeOK, LinkTypeOK
<1>10. ASSUME NEW r \in wire, NEW refused \in BOOLEAN, PsuAnswer(r, refused)
       PROVE TypeOK'
  <2>1. r \in Requests
    BY DEF LinkTypeOK
  <2>2. rx' \in Frames
    BY <1>10, <2>1 DEF PsuAnswer, Frames
  <2>3. QED
    BY <1>10, <2>1, <2>2 DEF PsuAnswer, CallerTypeOK, LinkTypeOK
<1>11. ASSUME NEW r \in wire, PsuLose(r) PROVE TypeOK'
  BY <1>11 DEF PsuLose, CallerTypeOK, LinkTypeOK
<1>12. CASE UNCHANGED vars
  BY <1>12 DEF CallerTypeOK, LinkTypeOK
<1>13. QED
  BY <1>1, <1>2, <1>3, <1>4, <1>5, <1>6, <1>7, <1>8, <1>9, <1>10, <1>11, <1>12
     DEF Next, Firmware, Users, Answer, Lose

\* Every variable of the link keeps its type: TypeOK is inductive.
THEOREM TypeCorrect == Spec => []TypeOK
<1>1. Init => TypeOK
  BY InitType
<1>2. TypeOK /\ [Next]_vars => TypeOK'
  BY NextType
<1>3. QED
  BY <1>1, <1>2, PTL DEF Spec

-----------------------------------------------------------------------------
(* The inductive invariant.                                                *)

LEMMA InitInv == Init => IInv
<1> SUFFICES ASSUME Init PROVE IInv
  OBVIOUS
<1>1. TypeOK
  BY InitType
<1>2. Young /\ AppWaitIsBounded /\ Aligned /\ Accepted /\ SecondWait /\ OnTime
  BY NoRequestIsNone DEF Init, Young, Waiting, AppWaitIsBounded, Aligned, Accepted, SecondWait, OnTime
<1>3. QED
  BY <1>1, <1>2 DEF IInv

\* Sending: the link is clean if nothing is left over, whether nothing ever was
\* or the library has just found it so.
LEMMA SendClean ==
    ASSUME IInv, NEW r \in Requests, NEW buffer, NEW clean \in BOOLEAN,
           Send(r, buffer, clean), ~disturbed'
    PROVE  wire = {} /\ rx = NoFrame /\ (~onRaw \/ clean)
<1>1. CASE ~disturbed
  <2>1. wire = {} /\ rx = NoFrame
    BY <1>1, NoRequestIsNone DEF IInv, Aligned, TypeOK, LinkTypeOK, Send, Frames
  <2>2. ~onRaw
    BY <1>1 DEF IInv, Aligned, TypeOK, LinkTypeOK, Send
  <2>3. QED
    BY <2>1, <2>2
<1>2. CASE disturbed
  BY <1>2 DEF Send, IInv, TypeOK, LinkTypeOK
<1>3. QED
  BY <1>1, <1>2 DEF IInv, TypeOK, LinkTypeOK

LEMMA SendInv ==
    ASSUME IInv, TypeOK', NEW r \in Requests, NEW buffer, NEW clean \in BOOLEAN,
           Send(r, buffer, clean), now' = now,
           buffer = NoRequest \/ buffer = r, r.kind = "read" => buffer = r,
           \/ clean = ~onRaw /\ UNCHANGED bridge
           \/ running' = r /\ buffer = NoRequest,
           Waiting' => startedAt' = now
    PROVE  Young' /\ AppWaitIsBounded' /\ Aligned' /\ Accepted' /\ OnTime'
<1>1. now \in 0..(ClockSize - 1)
  BY DEF IInv, TypeOK, LinkTypeOK
<1>2. Elapsed(now, now) = 0
  BY <1>1, ElapsedNow
<1>3. Young'
  BY <1>2, TimeAssumption DEF Young, Send
<1>4. AppWaitIsBounded'
  BY <1>2, TimeAssumption DEF AppWaitIsBounded, Waiting
<1>5. Aligned'
  <2> SUFFICES ASSUME ~disturbed' PROVE Aligned'
    BY DEF Aligned
  <2>1. wire = {} /\ rx = NoFrame /\ (~onRaw \/ clean)
    BY SendClean
  <2>2. onRaw' => running' = r /\ buffer = NoRequest
    BY <2>1
  <2>3. QED
    BY <2>1, <2>2 DEF Send, Aligned
<1>6. Accepted'
  BY DEF Send, Accepted, IInv
<1>7. OnTime'
  <2> SUFFICES ASSUME Prompt PROVE OnTime'
    BY DEF OnTime
  <2>1. ~disturbed'
    BY DEF IInv, OnTime, Send
  <2>2. wire = {}
    BY <2>1, SendClean
  <2>3. QED
    BY <1>2, <2>1, <2>2, TimeAssumption DEF Send, OnTime
<1>8. QED
  BY <1>3, <1>4, <1>5, <1>6, <1>7

\* The code's check of millis() holds the caller to its timeout as long as
\* neither wait_until nor millis() wraps, and the library's timeout otherwise.
LEMMA WaitStep ==
    ASSUME IInv, NEW d \in 1..MaxStall, AppWait(d)
    PROVE  AppWaitIsBounded'
<1> SUFFICES ASSUME ~TimedOut(now'), startedAt' = startedAt, pc \in {"wait1", "wait2"}
             PROVE  AppWaitIsBounded'
  BY DEF AppWait, Return, Waiting, AppWaitIsBounded
<1>1. now' = Later(now, d) /\ now \in 0..(ClockSize - 1)
      /\ startedAt \in 0..(ClockSize - 1) /\ sentAt \in 0..(ClockSize - 1)
  BY DEF IInv, TypeOK, LinkTypeOK, CallerTypeOK, AppWait, Pass
<1>2. d \in Nat /\ d <= MaxStall
  BY TimeAssumption
<1>3. Elapsed(startedAt, now) <= LibTimeout
  <2>1. /\ Elapsed(startedAt, now) <= Elapsed(sentAt, now)
        /\ Elapsed(sentAt, now) <= LibTimeout
    BY DEF IInv, Young, Waiting, AppWait
  <2>2. /\ Elapsed(startedAt, now) \in 0..(ClockSize - 1)
        /\ Elapsed(sentAt, now) \in 0..(ClockSize - 1)
    BY <1>1, ElapsedType
  <2>3. QED
    BY <2>1, <2>2, TimeAssumption
<1>4. Elapsed(startedAt, now) \in 0..(ClockSize - 1)
  BY <1>1, ElapsedType
<1>5. Elapsed(startedAt, now) + d < ClockSize
  BY <1>2, <1>3, <1>4, TimeAssumption
<1>6. Elapsed(startedAt, now') = Elapsed(startedAt, now) + d
  BY <1>1, <1>5, ElapsedLater
<1>7. Elapsed(startedAt, now') <= LibTimeout + MaxStall
  BY <1>2, <1>3, <1>4, <1>6, TimeAssumption
<1>8. ASSUME startedAt + AppTimeout + MaxStall < ClockSize
      PROVE  Elapsed(startedAt, now') <= AppTimeout
  <2>1. Elapsed(startedAt, now) <= AppTimeout
    BY <1>8 DEF IInv, Waiting, AppWaitIsBounded
  <2>2. startedAt <= now /\ now + d < ClockSize
    BY <1>1, <1>2, <1>8, <2>1, TimeAssumption DEF Elapsed
  <2>3. now' = now + d
    BY <1>1, <2>2 DEF Later
  <2>4. now' <= startedAt + AppTimeout
    BY <1>1, <1>2, <1>8, <2>3, TimeAssumption DEF TimedOut, Later
  <2>5. QED
    BY <1>1, <1>2, <2>2, <2>3, <2>4, TimeAssumption DEF Elapsed
<1>9. QED
  BY <1>7, <1>8 DEF Waiting, AppWaitIsBounded

\* The parts that only look at the link: one call of task() keeps them.
LEMMA TickLink ==
    ASSUME IInv, NEW d \in 1..MaxStall, Pass(d), Task(now'), UNCHANGED <<wire, executed>>
    PROVE  LinkTypeOK' /\ Aligned' /\ Accepted' /\ OnTime'
<1>1. LinkTypeOK'
  BY TickType DEF IInv, TypeOK
<1>2. Accepted'
  BY DEF Task, Accepted, IInv
<1>3. QED
  BY <1>1, <1>2, TickAligned, TickOnTime

LEMMA NextInv == IInv /\ [Next]_vars => IInv'
<1> SUFFICES ASSUME IInv, [Next]_vars PROVE IInv'
  OBVIOUS
<1>0. TypeOK /\ TypeOK'
  BY NextType DEF IInv
<1> USE DEF IInv
<1>1. ASSUME NEW kind \in AppKinds, AppCall(kind) PROVE IInv'
  <2>1. Elapsed(now, now) = 0 /\ now \in 0..(ClockSize - 1)
    BY <1>0, ElapsedNow DEF LinkTypeOK, TypeOK
  <2>2. Young'
    <3> SUFFICES ASSUME server # NoRequest
                 PROVE  0 <= Elapsed(sentAt, now) /\ Elapsed(sentAt, now) <= LibTimeout
      BY <1>1, <2>1 DEF AppCall, Young
    <3>1. Elapsed(sentAt, now) \in 0..(ClockSize - 1)
      BY <1>0, ElapsedType DEF LinkTypeOK, TypeOK
    <3>2. QED
      BY <3>1 DEF Young
  <2>3. AppWaitIsBounded'
    BY <1>1, <2>1, TimeAssumption DEF AppCall, Waiting, AppWaitIsBounded
  <2>4. QED
    BY <1>0, <1>1, <2>2, <2>3 DEF AppCall, Aligned, Accepted, SecondWait, OnTime
<1>2. ASSUME NEW m \in Masters, TcpRequest(m) PROVE IInv'
  BY <1>0, <1>2 DEF TcpRequest, Young, Waiting, AppWaitIsBounded, Aligned, Accepted, SecondWait, OnTime
<1>3. CASE SendRequest
  <2>1. cur \in Requests
    BY <1>0, <1>3 DEF SendRequest, TypeOK, CallerTypeOK
  <2>2. Young' /\ AppWaitIsBounded' /\ Aligned' /\ Accepted' /\ OnTime'
    BY <1>0, <1>3, <2>1, SendInv DEF SendRequest, TypeOK, LinkTypeOK
  <2>3. SecondWait'
    BY <1>3 DEF SendRequest, Send, SecondWait
  <2>4. QED
    BY <1>0, <2>2, <2>3
<1>4. CASE SendRefused \/ AppReturn
  BY <1>0, <1>4 DEF SendRefused, AppReturn, Return, Young, Waiting, AppWaitIsBounded,
                    Aligned, Accepted, SecondWait, OnTime
<1>5. ASSUME NEW d \in 1..MaxStall, AppWait(d) PROVE IInv'
  <2>1. LinkTypeOK' /\ Aligned' /\ Accepted' /\ OnTime'
    BY <1>5, TickLink DEF AppWait
  <2>2. AppWaitIsBounded'
    BY <1>5, WaitStep
  <2>3. CASE TimedOut(now') /\ Return(FALSE)
    <3>1. pc' = "idle"
      BY <2>3 DEF Return
    <3>2. Young'
      <4> SUFFICES ASSUME server' # NoRequest PROVE Elapsed(sentAt', now') <= LibTimeout
        BY <3>1 DEF Young, Waiting
      <4>1. sentAt' = sentAt /\ ~Expired(now')
        BY <1>0, <1>5, TickSlot DEF AppWait, TypeOK
      <4>2. Elapsed(sentAt, now') \in 0..(ClockSize - 1)
        BY <1>0, <4>1, ElapsedType DEF TypeOK, LinkTypeOK
      <4>3. QED
        BY <4>1, <4>2, TimeAssumption DEF Expired
    <3>3. QED
      BY <1>0, <2>1, <2>2, <3>1, <3>2 DEF SecondWait
  <2>4. CASE UNCHANGED caller
    <3>1. Young'
      BY <1>5, <2>4, TickYoung DEF AppWait, Waiting
    <3>2. SecondWait'
      <4> SUFFICES ASSUME ~disturbed', ~Refusals, pc = "wait2"
                   PROVE  server' = cur \/ (server' = NoRequest /\ Done(cur)')
        BY <2>4 DEF SecondWait, Done
      <4>1. ~disturbed
        BY <1>0, <1>5 DEF AppWait, Task, CleanUp, TypeOK, LinkTypeOK
      <4>2. server = cur
        BY <1>5, <4>1 DEF AppWait, SecondWait
      <4>3. QED
        BY <1>5, <2>4, <4>2, TickCompletes DEF AppWait
    <3>3. QED
      BY <1>0, <2>1, <2>2, <3>1, <3>2
  <2>5. QED
    BY <1>5, <2>3, <2>4 DEF AppWait
<1>6. ASSUME NEW d \in 1..MaxStall, BridgeWait(d) \/ RtuLoop(d) PROVE IInv'
  <2>1. Pass(d) /\ Task(now') /\ UNCHANGED <<wire, executed, pc, cur, startedAt>>
        /\ pc \in {"idle", "bridgeWait"}
    BY <1>6 DEF BridgeWait, RtuLoop
  <2>2. LinkTypeOK' /\ Aligned' /\ Accepted' /\ OnTime'
    BY <2>1, TickLink
  <2>3. Young'
    BY <2>1, TickYoung DEF Waiting
  <2>4. AppWaitIsBounded' /\ SecondWait'
    BY <2>1 DEF Waiting, AppWaitIsBounded, SecondWait
  <2>5. QED
    BY <1>0, <2>2, <2>3, <2>4
<1>7. CASE BridgeForward
  <2>1. cur \in Requests
    BY <1>0, <1>7 DEF BridgeForward, TypeOK, CallerTypeOK
  <2>2. pc' = "idle" /\ running' = cur /\ now' = now /\ Send(cur, NoRequest, TRUE)
    BY <1>7 DEF BridgeForward, BridgeReturn
  <2>3. cur.kind # "read"
    BY <1>0, <1>7 DEF BridgeForward, TypeOK, CallerTypeOK
  <2>4. Young' /\ AppWaitIsBounded' /\ Aligned' /\ Accepted' /\ OnTime'
    BY <1>0, <2>1, <2>2, <2>3, SendInv DEF Waiting
  <2>5. QED
    BY <1>0, <2>2, <2>4 DEF SecondWait
<1>8. CASE BridgeFails
  BY <1>0, <1>8 DEF BridgeFails, BridgeReturn, Young, Waiting, AppWaitIsBounded,
                    Aligned, Accepted, SecondWait, OnTime
<1>9. ASSUME NEW r \in wire, NEW refused \in BOOLEAN, PsuAnswer(r, refused) PROVE IInv'
  <2>1. rx' # NoFrame /\ rx'.req = r /\ rx'.refused = refused /\ r \in Requests
    BY <1>0, <1>9, NoRequestIsNone DEF PsuAnswer, TypeOK, LinkTypeOK, NoFrame
  <2>2. Young' /\ AppWaitIsBounded'
    BY <1>9 DEF PsuAnswer, Young, Waiting, AppWaitIsBounded
  <2>3. Aligned'
    BY <1>9, <2>1 DEF PsuAnswer, Aligned
  <2>4. Accepted'
    BY <1>9, <2>1 DEF PsuAnswer, Accepted
  <2>5. SecondWait'
    BY <1>9 DEF PsuAnswer, SecondWait, Done
  <2>6. OnTime'
    BY <1>9, <2>1 DEF PsuAnswer, OnTime
  <2>7. QED
    BY <1>0, <2>2, <2>3, <2>4, <2>5, <2>6
<1>10. ASSUME NEW r \in wire, PsuLose(r) PROVE IInv'
  <2>1. Young' /\ AppWaitIsBounded' /\ OnTime'
    BY <1>10 DEF PsuLose, Young, Waiting, AppWaitIsBounded, OnTime
  <2>2. Aligned' /\ Accepted' /\ SecondWait'
    BY <1>10 DEF PsuLose, Aligned, Accepted, SecondWait, Done
  <2>3. QED
    BY <1>0, <2>1, <2>2
<1>11. CASE UNCHANGED vars
  BY <1>0, <1>11 DEF Young, Waiting, AppWaitIsBounded, Aligned, Accepted, SecondWait, Done, OnTime
<1>12. QED
  BY <1>1, <1>2, <1>3, <1>4, <1>5, <1>6, <1>7, <1>8, <1>9, <1>10, <1>11
     DEF Next, Firmware, Users, Answer, Lose

LEMMA Invariance == Spec => []IInv
<1>1. Init => IInv
  BY InitInv
<1>2. IInv /\ [Next]_vars => IInv'
  BY NextInv
<1>3. QED
  BY <1>1, <1>2, PTL DEF Spec

-----------------------------------------------------------------------------
(* The results.                                                            *)

\* A wait keeps to the application's timeout, and to the library's where
\* millis() wraps, for every timeout, clock size and stall, and the bridge's
\* wait to the library's.
THEOREM WaitBounded == Spec => []WaitIsBounded
<1>1. IInv => WaitIsBounded
  BY DEF IInv, Waiting, AppWaitIsBounded, Young, WaitIsBounded
<1>2. QED
  BY <1>1, Invariance, PTL

\* "Wait until no transaction is active or timeout has passed": a wait whose
\* wait_until does not wrap gives up only when its timeout has passed, wherever
\* millis() itself wraps.
THEOREM GivesUpInTime ==
    Spec => [][GivesUp /\ startedAt + AppTimeout < ClockSize
                  => Elapsed(startedAt, now') > AppTimeout]_vars
<1>1. IInv /\ [Next]_vars =>
        [GivesUp /\ startedAt + AppTimeout < ClockSize
            => Elapsed(startedAt, now') > AppTimeout]_vars
  <2> SUFFICES ASSUME IInv, [Next]_vars, GivesUp, startedAt + AppTimeout < ClockSize
               PROVE  Elapsed(startedAt, now') > AppTimeout
    OBVIOUS
  <2>1. PICK d \in 1..MaxStall : AppWait(d)
    BY DEF GivesUp, Next, Firmware, Users, Answer, Lose, AppCall, TcpRequest, SendRequest, Send,
           SendRefused, AppReturn, BridgeWait, RtuLoop, BridgeForward, BridgeFails,
           PsuAnswer, PsuLose, vars, caller
  <2>2. now' > Later(startedAt, AppTimeout)
    BY <2>1 DEF GivesUp, AppWait, TimedOut, caller
  <2>3. /\ now' = Later(now, d) /\ d \in Nat /\ now \in 0..(ClockSize - 1)
        /\ startedAt \in 0..(ClockSize - 1)
    BY <2>1, TimeAssumption DEF AppWait, Pass, IInv, TypeOK, LinkTypeOK, CallerTypeOK
  <2>4. QED
    BY <2>2, <2>3, TimeAssumption DEF Later, Elapsed
<1>2. QED
  BY <1>1, Invariance, PTL DEF Spec

\* millis() never comes round under a wait: whatever goes on waiting has waited
\* longer with every turn of its loop, for every clock size and timeout.
THEOREM WaitsCount == Spec => TimeCounts
<1> DEFINE Counts ==
      now' # now =>
          /\ pc' \in {"wait1", "wait2"} =>
                Elapsed(startedAt', now') > Elapsed(startedAt, now)
          /\ server' # NoRequest =>
                server' = server /\ Elapsed(sentAt', now') > Elapsed(sentAt, now)
<1>1. IInv /\ [Next]_vars => [Counts]_vars
  <2> SUFFICES ASSUME IInv, [Next]_vars, now' # now PROVE Counts
    OBVIOUS
  <2>1. PICK d \in 1..MaxStall : AppWait(d) \/ BridgeWait(d) \/ RtuLoop(d)
    BY DEF Next, Firmware, Users, Answer, Lose, AppCall, TcpRequest, SendRequest, SendRefused,
           AppReturn, BridgeForward, BridgeFails, PsuAnswer, PsuLose
  <2>2. Pass(d) /\ Task(now')
    BY <2>1 DEF AppWait, BridgeWait, RtuLoop
  <2>3. /\ now' = Later(now, d) /\ d \in Nat \ {0} /\ d <= MaxStall
        /\ now \in 0..(ClockSize - 1) /\ sentAt \in 0..(ClockSize - 1)
        /\ startedAt \in 0..(ClockSize - 1)
    BY <2>2, TimeAssumption DEF Pass, IInv, TypeOK, LinkTypeOK, CallerTypeOK
  <2>4. ASSUME NEW t \in 0..(ClockSize - 1), Elapsed(t, now) <= LibTimeout
        PROVE  Elapsed(t, now') > Elapsed(t, now)
    <3>1. Elapsed(t, now) \in 0..(ClockSize - 1)
      BY <2>3, ElapsedType
    <3>2. Elapsed(t, now) + d < ClockSize
      BY <2>3, <2>4, <3>1, TimeAssumption
    <3>3. Elapsed(t, now') = Elapsed(t, now) + d
      BY <2>3, <3>2, ElapsedLater
    <3>4. QED
      BY <2>3, <3>1, <3>3
  <2>5. ASSUME server' # NoRequest
        PROVE  server' = server /\ Elapsed(sentAt', now') > Elapsed(sentAt, now)
    <3>1. UNCHANGED <<server, sentAt>>
      BY <2>2, <2>5, TickSlot DEF IInv, TypeOK
    <3>2. Elapsed(sentAt, now) <= LibTimeout
      BY <2>5, <3>1 DEF IInv, Young
    <3>3. QED
      BY <2>3, <2>4, <3>1, <3>2
  <2>6. ASSUME pc' \in {"wait1", "wait2"}
        PROVE  Elapsed(startedAt', now') > Elapsed(startedAt, now)
    <3>1. AppWait(d) /\ UNCHANGED caller
      BY <2>1, <2>6 DEF AppWait, Return, BridgeWait, RtuLoop
    <3>2. /\ Elapsed(startedAt, now) <= Elapsed(sentAt, now)
          /\ Elapsed(sentAt, now) <= LibTimeout
      BY <2>6, <3>1 DEF AppWait, IInv, Young, Waiting
    <3>3. Elapsed(startedAt, now) \in Nat /\ Elapsed(sentAt, now) \in Nat
      <4>1. /\ Elapsed(startedAt, now) \in 0..(ClockSize - 1)
            /\ Elapsed(sentAt, now) \in 0..(ClockSize - 1)
        BY <2>3, ElapsedType
      <4>2. QED
        BY <4>1
    <3>4. Elapsed(startedAt, now) <= LibTimeout
      BY <3>2, <3>3, TimeAssumption
    <3>5. QED
      BY <2>3, <2>4, <3>1, <3>4
  <2>7. QED
    BY <2>5, <2>6
<1>2. QED
  BY <1>1, Invariance, PTL DEF Spec, TimeCounts

\* The library never gives up on a supply that answers within MaxDelay.
THEOREM PromptNeverDisturbed == Spec => []NeverDisturbed
<1>1. IInv => NeverDisturbed
  BY DEF IInv, OnTime, NeverDisturbed
<1>2. QED
  BY <1>1, Invariance, PTL

\* What a step hands over: nothing, or one answer, to the slot's request when
\* nothing is left over from the past.
LEMMA Handover ==
    ASSUME IInv, [Next]_vars, ~disturbed, NEW x \in delivered' \ delivered
    PROVE  x = [to |-> server, of |-> server] /\ delivered' = delivered \cup {x}
           /\ server # NoRequest /\ server' = NoRequest
<1> USE DEF IInv
<1>1. Task(now')
  BY DEF Next, Firmware, Users, Answer, Lose, AppCall, TcpRequest, SendRequest, SendRefused,
         AppReturn, AppWait, BridgeWait, RtuLoop, BridgeForward, BridgeFails, PsuAnswer, PsuLose
<1>2. rx # NoFrame /\ (Intercept(rx) \/ Store(rx))
  BY <1>1 DEF Task, CleanUp, Drop
<1>3. rx.req = server /\ server # NoRequest
  BY <1>2, NoRequestIsNone DEF Aligned, TypeOK, LinkTypeOK, Frames
<1>4. CASE Intercept(rx)
  BY <1>3, <1>4 DEF Intercept, Aligned, FreeSlot
<1>5. CASE Store(rx)
  BY <1>3, <1>5 DEF Store, Aligned, FreeSlot
<1>6. QED
  BY <1>2, <1>4, <1>5

\* Each answer reaches the request it answers, for every interleaving of the
\* application, the bridge and the supply.
THEOREM AnswersReachTheirRequests == Spec => RightReceiver
<1>1. IInv /\ [Next]_vars => [~disturbed => \A d \in delivered' \ delivered : d.to = d.of]_vars
  <2> SUFFICES ASSUME IInv, [Next]_vars, ~disturbed, NEW d \in delivered' \ delivered
               PROVE  d.to = d.of
    OBVIOUS
  <2>1. d = [to |-> server, of |-> server]
    BY Handover
  <2>2. QED
    BY <2>1
<1>2. QED
  BY <1>1, Invariance, PTL DEF Spec, RightReceiver

\* A call that returns TRUE has had its effect, and a read its data.
THEOREM SuccessfulCallsAreDone == Spec => TrueMeansDone
<1>1. IInv /\ [Next]_vars
        => [~disturbed /\ ~Refusals /\ last' # last /\ last'.ok => Done(last'.req)]_vars
  <2> SUFFICES ASSUME IInv, [Next]_vars, ~disturbed, ~Refusals, last' # last, last'.ok
               PROVE  Done(last'.req)
    OBVIOUS
  <2>1. ~Return(FALSE)
    BY DEF Return
  <2>2. AppReturn
    BY <2>1 DEF Next, Firmware, Users, Answer, Lose, AppCall, TcpRequest, SendRequest, SendRefused,
           AppWait, BridgeWait, RtuLoop, BridgeForward, BridgeReturn, BridgeFails,
           PsuAnswer, PsuLose
  <2>3. last'.req = cur /\ pc = "wait2" /\ server = NoRequest /\ cur # NoRequest
    BY <2>2 DEF AppReturn, Return, IInv, TypeOK, CallerTypeOK
  <2>4. QED
    BY <2>3 DEF IInv, SecondWait
<1>2. QED
  BY <1>1, Invariance, PTL DEF Spec, TrueMeansDone

-----------------------------------------------------------------------------
(* One receiver per answer, one answer per receiver.                       *)

Answered == {d.of : d \in delivered}
Served == {d.to : d \in delivered}

\* What is about was asked for before: the next request is a new one.
Aged == \A r \in wire \cup Answered \cup Served \cup {cur, rx.req, dataPtr, running} :
            r.id < nextId

\* Nothing is known of a request that still waits for the link.
Unsent ==
    pc \in {"wait1", "bridgeWait"} =>
        cur \notin wire \cup Answered \cup Served \cup {rx.req, dataPtr, running}

\* Requests on the wire and the answer received were not answered before.
Pending ==
    /\ wire \cap Answered = {}
    /\ rx # NoFrame => rx.req \notin wire \cup Answered

\* The library's buffer and the bridge's client wait for their first answer.
Receivers ==
    /\ dataPtr # NoRequest => dataPtr \notin Served \cup {running}
    /\ running # NoRequest => running \notin Served

FInv == TypeOK /\ Aged /\ Unsent /\ Pending /\ Receivers /\ OneAnswerOneReceiver

\* A frame that is handed over goes to somebody new and is used up.
LEMMA Delivered ==
    ASSUME FInv, rx # NoFrame, NEW t, t \in {dataPtr, running}, t # NoRequest, t \notin Served,
           delivered' = delivered \cup {[to |-> t, of |-> rx.req]}
    PROVE  /\ OneAnswerOneReceiver'
           /\ Answered' = Answered \cup {rx.req} /\ Served' = Served \cup {t}
<1>1. Answered' = Answered \cup {rx.req} /\ Served' = Served \cup {t}
  <2> DEFINE x == [to |-> t, of |-> rx.req]
  <2>1. x.to = t /\ x.of = rx.req
    OBVIOUS
  <2> HIDE DEF x
  <2>2. delivered' = delivered \cup {x}
    BY DEF x
  <2>3. Answered' = Answered \cup {rx.req}
    BY <2>1, <2>2 DEF Answered
  <2>4. Served' = Served \cup {t}
    BY <2>1, <2>2 DEF Served
  <2>5. QED
    BY <2>3, <2>4
<1>2. rx.req \notin Answered
  BY DEF FInv, Pending
<1>3. \A d \in delivered : d.of \in Answered /\ d.to \in Served
  BY DEF Answered, Served
<1>4. \A d \in delivered : d.of # rx.req /\ d.to # t
  BY <1>2, <1>3
<1>5. OneAnswerOneReceiver'
  BY <1>4 DEF FInv, OneAnswerOneReceiver
<1>6. QED
  BY <1>1, <1>5

LEMMA TickFresh ==
    ASSUME FInv, NEW t, Task(t), UNCHANGED <<wire, nextId>>,
           UNCHANGED <<pc, cur>> \/ (pc' = "idle" /\ cur' = NoRequest)
    PROVE  Aged' /\ Unsent' /\ Pending' /\ Receivers' /\ OneAnswerOneReceiver'
<1> USE DEF FInv
<1>1. NoRequest.id = 0 /\ NoFrame.req = NoRequest /\ 0 < nextId
  BY BoundAssumption DEF NoRequest, NoFrame, TypeOK, CallerTypeOK
<1>2. cur' \in {cur, NoRequest} /\ (pc' \in {"wait1", "bridgeWait"} => pc' = pc /\ cur' = cur)
  OBVIOUS
<1>3. CASE delivered' = delivered
  <2>1. Answered' = Answered /\ Served' = Served /\ OneAnswerOneReceiver'
    BY <1>3 DEF Answered, Served, OneAnswerOneReceiver
  <2>2. rx' \in {rx, NoFrame} /\ dataPtr' \in {dataPtr, NoRequest}
        /\ running' \in {running, NoRequest}
    BY <1>3 DEF Task, Intercept, StopIntercepting, Store, Drop, CleanUp, FreeSlot
  <2>3. Aged'
    BY <1>1, <1>2, <2>1, <2>2 DEF Aged
  <2>4. Unsent'
    BY <1>1, <1>2, <2>1, <2>2 DEF Unsent, TypeOK, CallerTypeOK
  <2>5. Pending' /\ Receivers'
    BY <2>1, <2>2 DEF Pending, Receivers
  <2>6. QED
    BY <2>1, <2>3, <2>4, <2>5
<1>4. ASSUME NEW to \in {dataPtr, running}, to # NoRequest, to \notin Served, rx # NoFrame,
             delivered' = delivered \cup {[to |-> to, of |-> rx.req]},
             rx' = NoFrame, dataPtr' = NoRequest, running' = NoRequest \/ running' = running,
             running' # NoRequest => running' # to
      PROVE  Aged' /\ Unsent' /\ Pending' /\ Receivers' /\ OneAnswerOneReceiver'
  <2>1. /\ OneAnswerOneReceiver'
        /\ Answered' = Answered \cup {rx.req} /\ Served' = Served \cup {to}
    BY <1>4, Delivered
  <2>2. Aged'
    BY <1>1, <1>2, <1>4, <2>1 DEF Aged
  <2>3. Unsent'
    BY <1>1, <1>2, <1>4, <2>1 DEF Unsent, TypeOK, CallerTypeOK
  <2>4. Pending'
    BY <1>4, <2>1 DEF Pending
  <2>5. Receivers'
    BY <1>4, <2>1 DEF Receivers
  <2>6. QED
    BY <2>1, <2>2, <2>3, <2>4, <2>5
<1>5. CASE rx # NoFrame /\ rx' = NoFrame /\ Intercept(rx)
  <2>1. running # NoRequest /\ running \notin Served
    BY <1>5 DEF Intercept, TypeOK, LinkTypeOK, Receivers
  <2>2. QED
    BY <1>4, <1>5, <2>1 DEF Intercept, StopIntercepting, FreeSlot
<1>6. CASE rx # NoFrame /\ rx' = NoFrame /\ Store(rx) /\ delivered' # delivered
  <2>1. dataPtr # NoRequest /\ dataPtr \notin Served /\ running = NoRequest
    BY <1>6 DEF Store, TypeOK, LinkTypeOK, Receivers
  <2>2. QED
    BY <1>4, <1>6, <2>1 DEF Store, FreeSlot
<1>7. QED
  BY <1>3, <1>5, <1>6 DEF Task, Drop, CleanUp

LEMMA FreshNext == FInv /\ [Next]_vars => FInv'
<1> SUFFICES ASSUME FInv, [Next]_vars PROVE FInv'
  OBVIOUS
<1>0. TypeOK'
  BY NextType DEF FInv
<1> USE DEF FInv
<1>01. /\ NoRequest.id = 0 /\ NoFrame.req = NoRequest /\ 0 < nextId /\ nextId \in Nat
      /\ NoRequest \notin Requests
  BY BoundAssumption, NoRequestIsNone DEF NoRequest, NoFrame, TypeOK, CallerTypeOK
<1>02. ASSUME UNCHANGED delivered
      PROVE  Answered' = Answered /\ Served' = Served /\ OneAnswerOneReceiver'
  BY <1>02 DEF Answered, Served, OneAnswerOneReceiver
<1>1. CASE (\E kind \in AppKinds : AppCall(kind)) \/ (\E m \in Masters : TcpRequest(m))
  <2>1. /\ cur'.id = nextId /\ nextId' = nextId + 1
        /\ UNCHANGED <<wire, rx, dataPtr, running, delivered>>
    BY <1>1 DEF AppCall, TcpRequest
  <2>2. Aged'
    <3>1. \A r \in wire \cup Answered \cup Served \cup {rx.req, dataPtr, running} : r.id < nextId
      BY DEF Aged
    <3>2. \A r : r.id < nextId => r.id < nextId + 1 \/ r.id \notin Nat
      BY <1>01
    <3>3. \A r \in wire \cup Answered \cup Served \cup {rx.req, dataPtr, running} : r.id \in Nat
      <4>1. wire \cup Answered \cup Served \cup {dataPtr, running} \subseteq Requests \cup {NoRequest}
        BY DEF TypeOK, LinkTypeOK, Answered, Served
      <4>2. rx.req \in Requests \cup {NoRequest}
        BY <1>01 DEF TypeOK, LinkTypeOK, Frames
      <4>3. \A r \in Requests \cup {NoRequest} : r.id \in Nat
        BY <1>01 DEF Requests
      <4>4. QED
        BY <4>1, <4>2, <4>3
    <3>4. QED
      BY <1>01, <1>02, <2>1, <3>1, <3>2, <3>3 DEF Aged
  <2>3. Unsent'
    <3>1. \A r \in wire \cup Answered \cup Served \cup {rx.req, dataPtr, running} : r.id < nextId
      BY DEF Aged
    <3>2. cur' \notin wire \cup Answered \cup Served \cup {rx.req, dataPtr, running}
      BY <1>01, <2>1, <3>1
    <3>3. QED
      BY <1>02, <2>1, <3>2 DEF Unsent
  <2>4. Pending' /\ Receivers'
    BY <1>02, <2>1 DEF Pending, Receivers
  <2>5. QED
    BY <1>0, <1>02, <2>1, <2>2, <2>3, <2>4
<1>2. CASE SendRequest \/ BridgeForward
  <2>1. /\ cur # NoRequest /\ pc \in {"wait1", "bridgeWait"}
        /\ pc' \in {"wait2", "idle"} /\ cur' \in {cur, NoRequest}
        /\ wire' = wire \cup {cur} /\ UNCHANGED <<rx, delivered, nextId>>
        /\ \/ dataPtr' \in {cur, NoRequest} /\ running' = running
           \/ dataPtr' = NoRequest /\ running' = cur
    BY <1>2 DEF SendRequest, BridgeForward, BridgeReturn, Send, TypeOK, CallerTypeOK
  <2>2. cur \notin wire \cup Answered \cup Served \cup {rx.req, dataPtr, running}
    BY <2>1 DEF Unsent
  <2>3. Aged'
    BY <1>01, <1>02, <2>1 DEF Aged
  <2>4. Unsent'
    BY <2>1 DEF Unsent
  <2>5. Pending'
    BY <1>02, <2>1, <2>2 DEF Pending
  <2>6. Receivers'
    BY <1>02, <2>1, <2>2 DEF Receivers
  <2>7. QED
    BY <1>0, <1>02, <2>1, <2>3, <2>4, <2>5, <2>6
<1>3. CASE SendRefused \/ AppReturn \/ BridgeFails
  <2>1. /\ pc' = "idle" /\ cur' = NoRequest
        /\ UNCHANGED <<wire, rx, dataPtr, running, delivered, nextId>>
    BY <1>3 DEF SendRefused, AppReturn, BridgeFails, BridgeReturn, Return
  <2>2. Aged' /\ Unsent' /\ Pending' /\ Receivers'
    BY <1>01, <1>02, <2>1 DEF Aged, Unsent, Pending, Receivers
  <2>3. QED
    BY <1>0, <1>02, <2>1, <2>2
<1>4. CASE \E d \in 1..MaxStall : AppWait(d) \/ BridgeWait(d) \/ RtuLoop(d)
  <2>1. /\ Task(now') /\ UNCHANGED <<wire, nextId>>
        /\ UNCHANGED <<pc, cur>> \/ (pc' = "idle" /\ cur' = NoRequest)
    BY <1>4 DEF AppWait, BridgeWait, RtuLoop, Return
  <2>2. QED
    BY <1>0, <2>1, TickFresh
<1>5. ASSUME NEW r \in wire, NEW refused \in BOOLEAN, PsuAnswer(r, refused)
      PROVE  FInv'
  <2>1. /\ rx = NoFrame /\ rx'.req = r /\ wire' = wire \ {r}
        /\ UNCHANGED <<pc, cur, dataPtr, running, delivered, nextId>>
    BY <1>5 DEF PsuAnswer
  <2>2. Aged' /\ Unsent' /\ Pending' /\ Receivers'
    BY <1>01, <1>02, <2>1 DEF Aged, Unsent, Pending, Receivers
  <2>3. QED
    BY <1>0, <1>02, <2>1, <2>2
<1>6. ASSUME NEW r \in wire, PsuLose(r)
      PROVE  FInv'
  <2>1. wire' = wire \ {r} /\ UNCHANGED <<pc, cur, rx, dataPtr, running, delivered, nextId>>
    BY <1>6 DEF PsuLose
  <2>2. Aged' /\ Unsent' /\ Pending' /\ Receivers'
    BY <1>01, <1>02, <2>1 DEF Aged, Unsent, Pending, Receivers
  <2>3. QED
    BY <1>0, <1>02, <2>1, <2>2
<1>7. CASE UNCHANGED vars
  BY <1>0, <1>7, <1>02 DEF Aged, Unsent, Pending, Receivers
<1>8. QED
  BY <1>1, <1>2, <1>3, <1>4, <1>5, <1>6, <1>7 DEF Next, Firmware, Users, Answer, Lose

LEMMA FreshInvariance == Spec => []FInv
<1>1. Init => FInv
  <2> SUFFICES ASSUME Init PROVE FInv
    OBVIOUS
  <2>1. TypeOK
    BY InitType
  <2>2. Answered = {} /\ Served = {}
    BY DEF Init, Answered, Served
  <2>3. Aged
    BY <2>2 DEF Init, Aged, NoRequest, NoFrame
  <2>4. QED
    BY <2>1, <2>2, <2>3 DEF Init, FInv, Unsent, Pending, Receivers, OneAnswerOneReceiver
<1>2. QED
  BY <1>1, FreshNext, PTL DEF Spec

\* Whatever comes late, is lost or is given up: no answer is handed over twice,
\* and no reader's buffer and no TCP client is given two.
THEOREM AnswersGoOnce == Spec => []OneAnswerOneReceiver
<1>1. FInv => OneAnswerOneReceiver
  BY DEF FInv
<1>2. QED
  BY <1>1, FreshInvariance, PTL

-----------------------------------------------------------------------------
(* The link implements its contract.                                       *)

USE DEF Contract!vars, Contract!Unserved, Contract!Unanswered

\* An answer that goes astray ends the transaction in the slot, goes to a
\* request that was given nothing before, and was not given away before.
LEMMA Astray ==
    ASSUME FInv, [Next]_vars, NEW x \in delivered' \ delivered
    PROVE  /\ server' = NoRequest /\ disturbed' = disturbed
           /\ \E to, of \in Requests :
                 /\ Contract!Unserved(to) /\ Contract!Unanswered(of)
                 /\ delivered' = delivered \cup {[to |-> to, of |-> of]}
<1> USE DEF FInv
<1>1. Task(now')
  BY DEF Next, Firmware, Users, Answer, Lose, AppCall, TcpRequest, SendRequest, SendRefused,
         AppReturn, AppWait, BridgeWait, RtuLoop, BridgeForward, BridgeFails, PsuAnswer, PsuLose
<1>2. rx # NoFrame /\ (Intercept(rx) \/ Store(rx)) /\ disturbed' = disturbed
  BY <1>1 DEF Task, CleanUp, Drop
<1>3. rx.req \in Requests /\ Contract!Unanswered(rx.req)
  <2>1. rx.req \in Requests /\ rx.req \notin Answered
    BY <1>2 DEF Pending, TypeOK, LinkTypeOK, Frames
  <2>2. QED
    BY <2>1 DEF Answered
<1>4. \A to \in Requests \ Served : Contract!Unserved(to)
  BY DEF Served
<1>5. CASE Intercept(rx)
  <2>1. running \in Requests \ Served
    BY <1>5 DEF Intercept, TypeOK, LinkTypeOK, Receivers
  <2>2. QED
    BY <1>2, <1>3, <1>4, <1>5, <2>1 DEF Intercept, FreeSlot
<1>6. CASE Store(rx)
  <2>1. dataPtr \in Requests \ Served
    BY <1>6 DEF Store, TypeOK, LinkTypeOK, Receivers
  <2>2. QED
    BY <1>2, <1>3, <1>4, <1>6, <2>1 DEF Store, FreeSlot
<1>7. QED
  BY <1>2, <1>5, <1>6

\* What else happens to the slot: a new request takes it, or it is freed, and
\* if it is freed because the library gives up then the supply was not prompt.
LEMMA SlotStep ==
    ASSUME IInv, FInv, [Next]_vars, UNCHANGED delivered, ~(UNCHANGED <<server, disturbed>>)
    PROVE  Contract!Take \/ Contract!Release \/ Contract!GiveUp
<1> USE DEF IInv
<1>1. ASSUME NEW buffer, NEW clean, Send(cur, buffer, clean), pc \in {"wait1", "bridgeWait"}
      PROVE  Contract!Take
  <2>1. cur \in Requests /\ cur \notin Served \cup Answered
    BY <1>1 DEF TypeOK, CallerTypeOK, FInv, Unsent
  <2>2. Contract!Unserved(cur) /\ Contract!Unanswered(cur)
    BY <2>1 DEF Served, Answered
  <2>3. disturbed \in BOOLEAN /\ (~disturbed)' \in BOOLEAN
    BY DEF TypeOK, LinkTypeOK
  <2>4. QED
    BY <1>1, <2>1, <2>2, <2>3 DEF Send, Contract!Take
<1>2. CASE SendRequest \/ BridgeForward
  BY <1>1, <1>2 DEF SendRequest, BridgeForward
<1>3. ASSUME Task(now') PROVE Contract!Release \/ Contract!GiveUp
  <2>1. CASE rx # NoFrame
    BY <1>3, <2>1 DEF Task, Intercept, Store, Drop, FreeSlot, Contract!Release
  <2>2. CASE rx = NoFrame
    <3>1. server # NoRequest /\ server' = NoRequest /\ disturbed' = TRUE
      BY <1>3, <2>2 DEF Task, CleanUp, FreeSlot, TypeOK, LinkTypeOK
    <3>2. ~Prompt
      BY <3>1, NextInv DEF OnTime
    <3>3. QED
      BY <3>1, <3>2 DEF Contract!GiveUp
  <2>3. QED
    BY <2>1, <2>2
<1>4. QED
  BY <1>2, <1>3 DEF Next, Firmware, Users, Answer, Lose, AppCall, TcpRequest, SendRefused,
        AppReturn, AppWait, BridgeWait, RtuLoop, BridgeFails, PsuAnswer, PsuLose

\* With every supply, one that loses requests and answers late included, every
\* step of the link is a step of its contract.
THEOREM ContractKept == Spec => KeepsContract
<1>1. Init => Contract!Init
  BY DEF Init, Contract!Init
<1>2. IInv /\ FInv /\ [Next]_vars => [Contract!Next]_(Contract!vars)
  <2> SUFFICES ASSUME IInv, FInv, [Next]_vars, ~(UNCHANGED Contract!vars) PROVE Contract!Next
    OBVIOUS
  <2> USE DEF Contract!Next
  <2>1. CASE \E x \in delivered' : x \notin delivered
    <3>1. server' = NoRequest /\ disturbed' = disturbed
      BY <2>1, Astray
    <3>2. CASE disturbed
      BY <2>1, <3>1, <3>2, Astray DEF Contract!Misdeliver
    <3>3. CASE ~disturbed
      BY <2>1, <3>1, <3>3, Handover DEF Contract!Deliver
    <3>4. QED
      BY <3>2, <3>3
  <2>2. delivered \subseteq delivered'
    BY DEF Next, Firmware, Users, Answer, Lose, AppCall, TcpRequest, SendRequest,
            SendRefused, AppReturn, AppWait, BridgeWait, RtuLoop, BridgeForward, BridgeFails,
            PsuAnswer, PsuLose, Task, CleanUp, Intercept, Store, Drop
  <2>3. CASE UNCHANGED delivered
    <3>1. ~(UNCHANGED <<server, disturbed>>)
      BY <2>3
    <3>2. QED
      BY <2>3, <3>1, SlotStep
  <2>4. QED
    BY <2>1, <2>2, <2>3
<1>3. QED
  BY <1>1, <1>2, Invariance, FreshInvariance, PTL DEF Spec, KeepsContract, Contract!Spec

-----------------------------------------------------------------------------
(* What comments of the code say, and where it is true.                    *)

\* The contract of a reliable supply gives nobody another one's answer.
LEMMA ContractAnswers == Contract!Spec => []Contract!OwnAnswersOnly
<1> DEFINE CInv == Prompt => ~disturbed /\ \A d \in delivered : d.to = d.of
<1>1. Contract!Init => CInv
  BY DEF Contract!Init
<1>2. CInv /\ [Contract!Next]_(Contract!vars) => CInv'
  <2> SUFFICES ASSUME CInv, [Contract!Next]_(Contract!vars), Prompt
               PROVE  ~disturbed' /\ \A d \in delivered' : d.to = d.of
    OBVIOUS
  <2>1. ~Contract!GiveUp /\ ~Contract!Misdeliver
    BY DEF Contract!GiveUp, Contract!Misdeliver
  <2>2. CASE Contract!Deliver
    BY <2>2 DEF Contract!Deliver
  <2>3. CASE Contract!Take \/ Contract!Release \/ UNCHANGED Contract!vars
    BY <2>3 DEF Contract!Take, Contract!Release
  <2>4. QED
    BY <2>1, <2>2, <2>3 DEF Contract!Next
<1>3. CInv => Contract!OwnAnswersOnly
  BY DEF Contract!OwnAnswersOnly
<1>4. QED
  BY <1>1, <1>2, <1>3, PTL DEF Contract!Spec

\* "Set up ourself for forwarding the response": that TCP clients are answered
\* with the responses to their own requests is true of a supply that answers
\* within the library's timeout, even if callers of the application gave up.
THEOREM ResponsesAreForwarded == Prompt => (Spec => []ClientsGetOwnResponse)
<1> SUFFICES ASSUME Prompt PROVE Spec => []ClientsGetOwnResponse
  OBVIOUS
<1>1. Contract!OwnAnswersOnly => ClientsGetOwnResponse
  BY DEF Contract!OwnAnswersOnly, ClientsGetOwnResponse
<1>2. QED
  BY <1>1, ContractKept, ContractAnswers, PTL DEF KeepsContract

\* "true On success": a call that returns TRUE was carried out by the supply, if
\* that answers in time and refuses nothing.
THEOREM SuccessIsAccepted == Prompt /\ ~Refusals => (Spec => []TrueMeansAccepted)
<1> SUFFICES ASSUME Prompt, ~Refusals PROVE Spec => []TrueMeansAccepted
  OBVIOUS
<1>1. Init => TrueMeansAccepted
  BY DEF Init, TrueMeansAccepted
<1>2. IInv /\ TrueMeansAccepted /\ [Next]_vars
        /\ [~disturbed /\ ~Refusals /\ last' # last /\ last'.ok => Done(last'.req)]_vars
      => TrueMeansAccepted'
  <2> SUFFICES ASSUME IInv, TrueMeansAccepted, [Next]_vars, last'.ok,
                      [~disturbed /\ ~Refusals /\ last' # last /\ last'.ok => Done(last'.req)]_vars
               PROVE  last'.req \in executed'
    BY DEF TrueMeansAccepted
  <2>1. executed \subseteq executed'
    BY DEF Next, Firmware, Users, Answer, Lose, AppCall, TcpRequest, SendRequest, Send,
           SendRefused, AppReturn, AppWait, BridgeWait, RtuLoop, BridgeForward, BridgeFails,
           PsuAnswer, PsuLose
  <2>2. CASE last' = last
    BY <2>1, <2>2 DEF TrueMeansAccepted
  <2>3. CASE last' # last
    <3>1. ~disturbed
      BY DEF IInv, OnTime
    <3>2. Done(last'.req)
      BY <2>3, <3>1
    <3>3. QED
      BY <2>1, <3>2 DEF Done
  <2>4. QED
    BY <2>2, <2>3
<1>3. QED
  BY <1>1, <1>2, Invariance, SuccessfulCallsAreDone, PTL DEF Spec, TrueMeansDone
=============================================================================
