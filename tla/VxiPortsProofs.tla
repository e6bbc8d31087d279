--------------------------- MODULE VxiPortsProofs ---------------------------
(***************************************************************************)
(* Proofs about VxiPorts, for every set of clients, every set of ranges    *)
(* and any number of requests.                                             *)
(***************************************************************************)
EXTENDS VxiPorts, TLAPS

-----------------------------------------------------------------------------
(* The inductive invariant, in parts.                                      *)

\* Nobody waits twice in the listener's queue.
NobodyTwice == \A i, j \in 1..Len(backlog) : backlog[i] = backlog[j] => i = j

\* Before begin() nobody is connected, and the counter is at its start.  After a
\* restart clients may know a port, but none that is listened on.
NothingYet ==
    phase = "setup" =>
        /\ listening = NoPort /\ backlog = <<>> /\ client = None /\ fresh = {}
        /\ vxi_port.data = vxi_port.start

\* Where there is one port, whoever knows a port knows that one.
ToldForEver == is_noncyclic => \A c \in Clients : told[c] \in {NoPort, vxi_port.data}

IInv == TypeOK /\ NobodyTwice /\ NothingYet /\ FreshPortIsOpen /\ ToldForEver

-----------------------------------------------------------------------------
(* Queues.                                                                 *)

LEMMA Appended ==
    ASSUME NEW S, NEW s \in Seq(S), NEW e \in S
    PROVE  /\ Append(s, e) \in Seq(S)
           /\ Elements(Append(s, e)) = Elements(s) \cup {e}
<1>1. /\ Append(s, e) \in Seq(S) /\ Len(Append(s, e)) = Len(s) + 1
      /\ Append(s, e)[Len(s) + 1] = e
      /\ \A i \in 1..Len(s) : Append(s, e)[i] = s[i]
  OBVIOUS
<1>2. DOMAIN s = 1..Len(s) /\ DOMAIN Append(s, e) = 1..(Len(s) + 1) /\ Len(s) \in Nat
  BY <1>1
<1>3. QED
  BY <1>1, <1>2 DEF Elements

LEMMA Shortened ==
    ASSUME NEW S, NEW s \in Seq(S), s # <<>>
    PROVE  /\ Tail(s) \in Seq(S) /\ Head(s) \in S
           /\ Elements(s) = {Head(s)} \cup Elements(Tail(s))
<1>1. /\ Tail(s) \in Seq(S) /\ Len(Tail(s)) = Len(s) - 1
      /\ Len(s) \in Nat \ {0} /\ Head(s) = s[1] /\ Head(s) \in S
      /\ \A i \in 1..(Len(s) - 1) : Tail(s)[i] = s[i + 1]
  OBVIOUS
<1>2. DOMAIN s = 1..Len(s) /\ DOMAIN Tail(s) = 1..(Len(s) - 1)
  BY <1>1
<1>3. Elements(s) \subseteq {Head(s)} \cup Elements(Tail(s))
  <2>1. SUFFICES ASSUME NEW i \in 1..Len(s), i # 1
                 PROVE  s[i] \in Elements(Tail(s))
    BY <1>1, <1>2 DEF Elements
  <2>2. i - 1 \in 1..(Len(s) - 1) /\ s[i] = Tail(s)[i - 1]
    BY <1>1, <2>1
  <2>3. QED
    BY <1>2, <2>2 DEF Elements
<1>4. {Head(s)} \cup Elements(Tail(s)) \subseteq Elements(s)
  BY <1>1, <1>2 DEF Elements
<1>5. QED
  BY <1>1, <1>3, <1>4

-----------------------------------------------------------------------------
(* The cyclic counter.                                                     *)

Counter(p) ==
    /\ p \in [start : Nat \ {0}, end : Nat \ {0}, data : Nat]
    /\ p.data \in p.start..p.end

\* The constructor sorts the ends of the range.
LEMMA CyclicCounts ==
    ASSUME NEW r \in Ranges
    PROVE  Counter(Cyclic(r[1], r[2]))
<1>1. r[1] \in Nat \ {0} /\ r[2] \in Nat \ {0}
  BY RangeAssumption
<1>2. QED
  BY <1>1 DEF Counter, Cyclic

\* The counter stays in its range, whose ends do not move.
LEMMA NextCounts ==
    ASSUME NEW p, Counter(p)
    PROVE  Counter(GotoNext(p)) /\ GotoNext(p).start = p.start /\ GotoNext(p).end = p.end
BY DEF Counter, GotoNext

\* A restart takes it back to its start.
LEMMA RestartCounts ==
    ASSUME NEW p, Counter(p)
    PROVE  Counter([p EXCEPT !.data = p.start])
BY DEF Counter

-----------------------------------------------------------------------------
(* What the actions do to the parts.                                       *)

\* The buffers only ever hold requests that came whole, and what came before.
LEMMA StoredType ==
    ASSUME NEW buffer \in Buffers, NEW r \in Requests(OnTCP)
    PROVE  Stored(buffer, r) \in Buffers
<1>1. r.xid \in 0..MaxRequests /\ (r.what \in Whole \/ r.what \notin Whole)
  BY BoundAssumption DEF Requests
<1>2. CASE r.what \in Whole
  BY <1>1, <1>2 DEF Stored, Buffers
<1>3. CASE r.what \notin Whole /\ r.what = "cut"
  BY <1>1, <1>3 DEF Stored, Buffers
<1>4. CASE r.what \notin Whole /\ r.what # "cut"
  BY <1>4 DEF Stored
<1>5. QED
  BY <1>2, <1>3, <1>4

LEMMA UdpIsTcp == Requests(OnUDP) \subseteq Requests(OnTCP)
BY DEF Requests, OnTCP

\* Whatever is in a buffer, its answer has a port of the server's or none.
LEMMA ResponseType ==
    ASSUME TypeOK, NEW buffer \in Buffers
    PROVE  ProcessRequest(buffer).port \in Nat
BY DEF TypeOK, ProcessRequest, Allocate, NoPort

LEMMA ReplyType ==
    ASSUME TypeOK, NEW r \in Requests(OnTCP), NEW response, response.port \in Nat,
           Reply(r, response)
    PROVE  told' \in [Clients -> Nat] /\ fresh' \subseteq Clients
<1>1. r.by \in Clients
  BY DEF Requests
<1>2. QED
  BY <1>1 DEF TypeOK, Reply

\* Hanging up closes the client's end only.
LEMMA HangupType ==
    ASSUME TypeOK, NEW cs, Hangup(cs)
    PROVE  peer' \in [Clients -> {"up", "down"}] /\ goodbye' \subseteq Clients
BY DEF TypeOK, Hangup

LEMMA BeginNextType ==
    ASSUME TypeOK, BeginNext, phase' \in {"setup", "bind", "vxi", "http", "hung"}
    PROVE  TypeOK'
<1>1. \E cs : Hangup(cs)
  BY DEF BeginNext
<1>2. peer' \in [Clients -> {"up", "down"}] /\ goodbye' \subseteq Clients
  BY <1>1, HangupType
<1>3. CASE is_noncyclic
  BY <1>2, <1>3 DEF TypeOK, BeginNext, binding, asking
<1>4. CASE ~is_noncyclic
  <2>1. Counter(vxi_port')
    <3>1. Counter(vxi_port)
      BY DEF TypeOK, Counter
    <3>2. vxi_port' = GotoNext(vxi_port)
      BY <1>4 DEF BeginNext
    <3>3. QED
      BY <3>1, <3>2, NextCounts
  <2>2. backlog' \in Seq(Clients)
    <3>1. backlog' = backlog \/ backlog' = <<>>
      BY <1>4 DEF BeginNext
    <3>2. backlog \in Seq(Clients) /\ <<>> \in Seq(Clients)
      BY DEF TypeOK
    <3>3. QED
      BY <3>1, <3>2
  <2>3. client' = None /\ listening' \in Nat /\ fresh' = {}
    BY <1>4, <2>1 DEF BeginNext, Counter
  <2>4. QED
    BY <1>2, <2>1, <2>2, <2>3 DEF TypeOK, BeginNext, Counter, binding, asking
<1>5. QED
  BY <1>3, <1>4

LEMMA WatchdogType ==
    ASSUME TypeOK, Watchdog
    PROVE  TypeOK'
<1>1. peer' \in [Clients -> {"up", "down"}] /\ goodbye' \subseteq Clients
  BY HangupType DEF Watchdog
<1>2. Counter(vxi_port')
  <2>1. Counter(vxi_port)
    BY DEF TypeOK, Counter
  <2>2. QED
    BY <2>1, RestartCounts DEF Watchdog
<1>3. /\ backlog' \in Seq(Clients) /\ Elements(backlog') = {}
      /\ udp' \in Seq(Requests(OnUDP)) /\ tcp' \in Seq(Requests(OnTCP))
  <2>1. backlog' = <<>> /\ udp' = <<>> /\ tcp' = <<>>
    BY DEF Watchdog
  <2>2. \A S : <<>> \in Seq(S)
    OBVIOUS
  <2>3. Elements(<<>>) = {}
    BY DEF Elements
  <2>4. QED
    BY <2>1, <2>2, <2>3
<1>4. udp_request' \in Buffers /\ tcp_request' \in Buffers
  BY BoundAssumption DEF Watchdog, Blank, Buffers, Whole
<1>5. /\ phase' = "setup" /\ listening' = 0 /\ client' = None /\ deaf' = FALSE /\ fresh' = {}
      /\ xid' = xid /\ told' = told
  BY DEF Watchdog, Goto, asking, NoPort
<1>6. QED
  BY <1>1, <1>2, <1>3, <1>4, <1>5 DEF TypeOK, Counter

-----------------------------------------------------------------------------
(* Types are kept.                                                         *)

LEMMA TypeStep ==
    ASSUME TypeOK, NobodyTwice, [Next]_vars
    PROVE  TypeOK'
<1> USE DEF server, binding, network, asking, history
<1>1. CASE Begin
  BY <1>1 DEF Begin, Goto, TypeOK
<1>2. CASE BindUDP
  <2>1. Tail(udp) \in Seq(Requests(OnUDP)) /\ Head(udp) \in Requests(OnUDP)
    BY <1>2, Shortened DEF TypeOK, BindUDP
  <2>2. udp_request' \in Buffers
    BY <1>2, <2>1, StoredType, UdpIsTcp DEF TypeOK, BindUDP
  <2>3. told' \in [Clients -> Nat] /\ fresh' \subseteq Clients
    BY <1>2, <2>1, <2>2, ReplyType, ResponseType, UdpIsTcp DEF BindUDP
  <2>4. QED
    BY <1>2, <2>1, <2>2, <2>3 DEF TypeOK, BindUDP, Goto
<1>3. CASE BindTCP
  <2>1. Tail(tcp) \in Seq(Requests(OnTCP)) /\ Head(tcp) \in Requests(OnTCP)
    BY <1>3, Shortened DEF TypeOK, BindTCP
  <2>2. tcp_request' \in Buffers
    BY <1>3, <2>1, StoredType DEF TypeOK, BindTCP
  <2>3. told' \in [Clients -> Nat] /\ fresh' \subseteq Clients
    BY <1>3, <2>1, <2>2, ReplyType, ResponseType DEF BindTCP, Hang, TypeOK
  <2>4. phase' \in {"vxi", "hung"}
    BY <1>3 DEF BindTCP, Hang, Goto
  <2>5. QED
    BY <1>3, <2>1, <2>2, <2>3, <2>4 DEF TypeOK, BindTCP
<1>4. CASE BindIdle
  BY <1>4 DEF BindIdle, Goto, TypeOK
<1>5. CASE VxiAccept
  <2>1. /\ Tail(backlog) \in Seq(Clients) /\ Head(backlog) \in Clients
        /\ Elements(backlog) = {Head(backlog)} \cup Elements(Tail(backlog))
    BY <1>5, Shortened DEF TypeOK, VxiAccept
  <2>2. Head(backlog) \notin Elements(Tail(backlog))
    <3>1. SUFFICES ASSUME NEW i \in DOMAIN Tail(backlog)
                   PROVE  Tail(backlog)[i] # Head(backlog)
      BY DEF Elements
    <3>2. /\ i \in 1..(Len(backlog) - 1) /\ Len(backlog) \in Nat \ {0}
          /\ Tail(backlog)[i] = backlog[i + 1] /\ Head(backlog) = backlog[1]
      BY <1>5 DEF TypeOK, VxiAccept
    <3>3. 1 \in 1..Len(backlog) /\ i + 1 \in 1..Len(backlog) /\ i + 1 # 1
      BY <3>2
    <3>4. QED
      BY <3>2, <3>3 DEF NobodyTwice
  <2>3. QED
    BY <1>5, <2>1, <2>2 DEF TypeOK, VxiAccept, Goto
<1>6. CASE VxiIdle
  BY <1>6 DEF VxiIdle, Goto, TypeOK
<1>7. CASE VxiClose
  BY <1>7, BeginNextType DEF VxiClose, Goto
<1>8. CASE HttpIdle
  BY <1>8 DEF HttpIdle, Goto, TypeOK
<1>9. CASE Kick
  BY <1>9, HangupType DEF Kick, Goto, TypeOK
<1>10. CASE Collapse
  BY <1>10 DEF Collapse, TypeOK
<1>11. ASSUME NEW c \in Clients, AskUDP(c)
       PROVE  TypeOK'
  <2>1. xid' = xid + 1 /\ xid' \in 1..MaxRequests
    BY <1>11, BoundAssumption DEF AskUDP, Ask, TypeOK
  <2>2. udp' \in Seq(Requests(OnUDP))
    <3>1. PICK what \in KindsOnUDP : udp' = Append(udp, [by |-> c, xid |-> xid', what |-> what])
      BY <1>11 DEF AskUDP, Ask
    <3>2. [by |-> c, xid |-> xid', what |-> what] \in Requests(OnUDP)
      BY <2>1, KindAssumption DEF Requests
    <3>3. QED
      BY <3>1, <3>2, Appended DEF TypeOK
  <2>3. QED
    BY <1>11, <2>1, <2>2 DEF AskUDP, TypeOK
<1>12. ASSUME NEW c \in Clients, AskTCP(c)
       PROVE  TypeOK'
  <2>1. xid' = xid + 1 /\ xid' \in 1..MaxRequests
    BY <1>12, BoundAssumption DEF AskTCP, Ask, TypeOK
  <2>2. tcp' \in Seq(Requests(OnTCP))
    <3>1. PICK what \in KindsOnTCP : tcp' = Append(tcp, [by |-> c, xid |-> xid', what |-> what])
      BY <1>12 DEF AskTCP, Ask
    <3>2. [by |-> c, xid |-> xid', what |-> what] \in Requests(OnTCP)
      BY <2>1, KindAssumption DEF Requests
    <3>3. QED
      BY <3>1, <3>2, Appended DEF TypeOK
  <2>3. QED
    BY <1>12, <2>1, <2>2 DEF AskTCP, TypeOK
<1>13. ASSUME NEW c \in Clients, Connect(c)
       PROVE  TypeOK'
  <2>1. CASE told[c] = listening
    <3>1. backlog' = Append(backlog, c) /\ client' = client /\ client # c
      BY <1>13, <2>1 DEF Connect
    <3>2. backlog' \in Seq(Clients) /\ Elements(backlog') = Elements(backlog) \cup {c}
      BY <3>1, Appended DEF TypeOK
    <3>3. client' \in (Clients \ Elements(backlog')) \cup {None}
      BY <3>1, <3>2 DEF TypeOK
    <3>4. peer' \in [Clients -> {"up", "down"}]
      BY <1>13, <2>1 DEF Connect, TypeOK
    <3>5. QED
      BY <1>13, <2>1, <3>2, <3>3, <3>4 DEF Connect, TypeOK
  <2>2. CASE told[c] # listening
    BY <1>13, <2>2 DEF Connect, TypeOK, NoPort
  <2>3. QED
    BY <2>1, <2>2
<1>14. ASSUME NEW c \in Clients, SayGoodbye(c)
       PROVE  TypeOK'
  BY <1>14 DEF SayGoodbye, TypeOK
<1>15. ASSUME NEW c \in Clients, Vanish(c)
       PROVE  TypeOK'
  BY <1>15 DEF Vanish, TypeOK
<1>16. CASE UNCHANGED vars
  BY <1>16 DEF vars, TypeOK
<1>17. CASE UploadFails
  <2>1. udp' \in Seq(Requests(OnUDP))
    <3>1. udp' = <<>>
      BY <1>17 DEF UploadFails
    <3>2. QED
      BY <3>1
  <2>2. /\ phase' = "bind" /\ deaf' = TRUE
        /\ UNCHANGED <<server, tcp, udp_request, tcp_request, network, asking, history>>
    BY <1>17 DEF UploadFails, Goto
  <2>3. QED
    BY <2>1, <2>2 DEF TypeOK
<1>18. CASE VxiHang
  BY <1>18 DEF VxiHang, Goto, TypeOK
<1>19. CASE Watchdog
  BY <1>19, WatchdogType
<1>20. QED
  BY <1>18, <1>19, <1>1, <1>2, <1>3, <1>4, <1>5, <1>6, <1>7, <1>8, <1>9, <1>10, <1>11, <1>12,
     <1>13, <1>14, <1>15, <1>16, <1>17 DEF Next, Firmware, Peers
-----------------------------------------------------------------------------
(* The other parts are kept.                                               *)

\* Nobody connects while waiting to be accepted.
LEMMA NobodyTwiceStep ==
    ASSUME TypeOK, NobodyTwice, [Next]_vars
    PROVE  NobodyTwice'
<1> USE DEF server, binding, network, asking, history
<1>1. CASE UNCHANGED backlog
  BY <1>1 DEF NobodyTwice
<1>2. CASE VxiAccept
  <2>1. /\ Len(backlog) \in Nat \ {0} /\ Len(backlog') = Len(backlog) - 1
        /\ \A i \in 1..(Len(backlog) - 1) : backlog'[i] = backlog[i + 1]
    BY <1>2 DEF VxiAccept, TypeOK
  <2>2. ASSUME NEW i \in 1..Len(backlog'), NEW j \in 1..Len(backlog'),
               backlog'[i] = backlog'[j]
        PROVE  i = j
    <3>1. /\ i + 1 \in 1..Len(backlog) /\ j + 1 \in 1..Len(backlog)
          /\ backlog[i + 1] = backlog[j + 1]
      BY <2>1, <2>2
    <3>2. i + 1 = j + 1
      BY <3>1 DEF NobodyTwice
    <3>3. QED
      BY <2>1, <3>2
  <2>3. QED
    BY <2>2 DEF NobodyTwice
<1>3. ASSUME NEW c \in Clients, Connect(c)
      PROVE  NobodyTwice'
  <2>1. CASE UNCHANGED backlog
    BY <2>1 DEF NobodyTwice
  <2>2. CASE backlog' = Append(backlog, c)
    <3>1. c \notin Elements(backlog) /\ DOMAIN backlog = 1..Len(backlog) /\ Len(backlog) \in Nat
      BY <1>3 DEF Connect, TypeOK
    <3>2. \A i \in 1..Len(backlog) : backlog[i] # c
      BY <3>1 DEF Elements
    <3>3. /\ Len(backlog') = Len(backlog) + 1 /\ backlog'[Len(backlog) + 1] = c
          /\ \A i \in 1..Len(backlog) : backlog'[i] = backlog[i]
      BY <2>2 DEF TypeOK
    <3>4. QED
      BY <3>1, <3>2, <3>3 DEF NobodyTwice
  <2>3. QED
    BY <1>3, <2>1, <2>2 DEF Connect
<1>4. CASE BeginNext
  <2>1. backlog' = backlog \/ backlog' = <<>>
    BY <1>4 DEF BeginNext
  <2>2. QED
    BY <2>1 DEF NobodyTwice
<1>5. CASE Watchdog
  BY <1>5 DEF Watchdog, NobodyTwice
<1>6. QED
  BY <1>1, <1>2, <1>3, <1>4, <1>5 DEF Next, Firmware, Peers, vars, Begin, BindUDP, BindTCP, BindIdle,
     VxiIdle, VxiClose, VxiHang, HttpIdle, Kick, UploadFails, Collapse, AskUDP, AskTCP, SayGoodbye,
     Vanish

\* A successful answer has the port of the server, and there is no client.
LEMMA SuccessIsPort ==
    ASSUME NEW buffer \in Buffers, ProcessRequest(buffer).status = "success"
    PROVE  /\ ProcessRequest(buffer).port = vxi_port.data
           /\ available /\ buffer.what = "getport"
<1>1. buffer.what = "getport"
  BY DEF ProcessRequest, Buffers, Whole
<1>2. available
  BY <1>1 DEF ProcessRequest, Allocate
<1>3. QED
  BY <1>1, <1>2 DEF ProcessRequest, Allocate

\* What an answer does to what the clients know.
LEMMA ReplyTells ==
    ASSUME TypeOK, NEW r \in Requests(OnTCP), NEW buffer \in Buffers,
           Reply(r, ProcessRequest(buffer))
    PROVE  \A c \in Clients :
              /\ told'[c] \in {told[c], vxi_port.data}
              /\ c \in fresh' => told'[c] = vxi_port.data \/ (c \in fresh /\ told'[c] = told[c])
<1>1. CASE UNCHANGED <<told, fresh>>
  BY <1>1
<1>2. CASE /\ ProcessRequest(buffer).status = "success"
           /\ told' = [told EXCEPT ![r.by] = ProcessRequest(buffer).port]
           /\ fresh' = fresh \cup {r.by}
  BY <1>2, SuccessIsPort DEF TypeOK
<1>3. QED
  BY <1>1, <1>2 DEF Reply

LEMMA BindTells ==
    ASSUME TypeOK, BindUDP \/ BindTCP
    PROVE  /\ phase = "bind" /\ phase' \in {"vxi", "hung"} /\ UNCHANGED server
           /\ \A c \in Clients :
              /\ told'[c] \in {told[c], vxi_port.data}
              /\ c \in fresh' => told'[c] = vxi_port.data \/ (c \in fresh /\ told'[c] = told[c])
<1>1. CASE BindUDP
  <2>1. Head(udp) \in Requests(OnTCP)
    BY <1>1, Shortened, UdpIsTcp DEF TypeOK, BindUDP
  <2>2. udp_request' \in Buffers
    BY <1>1, <2>1, StoredType DEF TypeOK, BindUDP
  <2>3. QED
    BY <1>1, <2>1, <2>2, ReplyTells DEF BindUDP, Goto
<1>2. CASE BindTCP
  <2>1. Head(tcp) \in Requests(OnTCP)
    BY <1>2, Shortened DEF TypeOK, BindTCP
  <2>2. tcp_request' \in Buffers
    BY <1>2, <2>1, StoredType DEF TypeOK, BindTCP
  <2>3. QED
    BY <1>2, <2>1, <2>2, ReplyTells DEF BindTCP, Hang, Goto, history
<1>3. QED
  BY <1>1, <1>2

\* Before begin() there is nobody to tell.
LEMMA NothingYetStep ==
    ASSUME TypeOK, NothingYet, [Next]_vars
    PROVE  NothingYet'
<1> USE DEF server, binding, network, asking, history, NothingYet
<1>1. CASE UNCHANGED vars
  BY <1>1 DEF vars
<1>2. CASE Firmware
  BY <1>2 DEF Firmware, Begin, BindUDP, BindTCP, Hang, BindIdle, VxiAccept, VxiIdle, VxiClose,
     VxiHang, HttpIdle, Kick, UploadFails, Goto
<1>3. CASE Collapse
  BY <1>3 DEF Collapse
<1>4. ASSUME NEW c \in Clients,
             AskUDP(c) \/ AskTCP(c) \/ Connect(c) \/ SayGoodbye(c) \/ Vanish(c)
      PROVE  NothingYet'
  BY <1>4 DEF AskUDP, AskTCP, Ask, Connect, SayGoodbye, Vanish, NoPort
<1>5. CASE Watchdog
  BY <1>5 DEF Watchdog, TypeOK
<1>6. QED
  BY <1>1, <1>2, <1>3, <1>4, <1>5 DEF Next, Peers
\* After begin() the listener is where the counter is, and moves with it.
LEMMA PortStep ==
    ASSUME IInv, [Next]_vars
    PROVE  FreshPortIsOpen' /\ ToldForEver'
<1> USE DEF server, binding, network, asking, history
<1>1. CASE UNCHANGED <<phase, vxi_port, listening, told, fresh>>
  BY <1>1 DEF IInv, FreshPortIsOpen, ToldForEver, is_noncyclic
<1>2. CASE Begin
  BY <1>2 DEF Begin, Goto, IInv, FreshPortIsOpen, ToldForEver, is_noncyclic, NothingYet
<1>3. CASE BindUDP \/ BindTCP
  <2>1. /\ phase = "bind" /\ phase' \in {"vxi", "hung"} /\ UNCHANGED <<vxi_port, listening>>
        /\ \A c \in Clients :
              /\ told'[c] \in {told[c], vxi_port.data}
              /\ c \in fresh' => told'[c] = vxi_port.data \/ (c \in fresh /\ told'[c] = told[c])
    BY <1>3, BindTells DEF IInv
  <2>2. listening = vxi_port.data /\ \A c \in fresh : told[c] = listening
    BY <2>1 DEF IInv, FreshPortIsOpen
  <2>3. fresh' \subseteq Clients
    BY <1>3, TypeStep DEF IInv, TypeOK, Next, Firmware
  <2>4. FreshPortIsOpen'
    BY <2>1, <2>2, <2>3 DEF FreshPortIsOpen
  <2>5. ToldForEver'
    BY <2>1 DEF IInv, ToldForEver, is_noncyclic
  <2>6. QED
    BY <2>4, <2>5
<1>4. CASE BindIdle \/ VxiAccept \/ VxiIdle \/ VxiHang \/ HttpIdle \/ Kick \/ UploadFails
  BY <1>4 DEF BindIdle, VxiAccept, VxiIdle, VxiHang, HttpIdle, Kick, UploadFails, Goto, IInv, FreshPortIsOpen,
     ToldForEver, is_noncyclic
<1>5. CASE VxiClose
  <2>1. phase = "vxi" /\ phase' = "http" /\ BeginNext
    BY <1>5 DEF VxiClose, Goto
  <2>2. CASE is_noncyclic
    BY <2>1, <2>2 DEF BeginNext, IInv, FreshPortIsOpen, ToldForEver, is_noncyclic
  <2>3. CASE ~is_noncyclic
    <3>1. vxi_port' = GotoNext(vxi_port) /\ listening' = vxi_port'.data /\ fresh' = {}
      BY <2>1, <2>3 DEF BeginNext
    <3>2. ~is_noncyclic'
      BY <2>3, <3>1, NextCounts DEF is_noncyclic, IInv, TypeOK, Counter
    <3>3. QED
      BY <3>1, <3>2 DEF FreshPortIsOpen, ToldForEver
  <2>4. QED
    BY <2>2, <2>3
<1>6. ASSUME NEW c \in Clients, Connect(c)
      PROVE  FreshPortIsOpen' /\ ToldForEver'
  <2>1. UNCHANGED <<phase, vxi_port, listening>>
    BY <1>6 DEF Connect
  <2>2. CASE UNCHANGED <<told, fresh>>
    BY <2>1, <2>2 DEF IInv, FreshPortIsOpen, ToldForEver, is_noncyclic
  <2>3. CASE told' = [told EXCEPT ![c] = NoPort] /\ fresh' = fresh \ {c}
    BY <2>1, <2>3 DEF IInv, TypeOK, FreshPortIsOpen, ToldForEver, is_noncyclic
  <2>4. QED
    BY <1>6, <2>2, <2>3 DEF Connect
<1>7. ASSUME NEW c \in Clients, AskUDP(c) \/ AskTCP(c) \/ SayGoodbye(c) \/ Vanish(c)
      PROVE  UNCHANGED <<phase, vxi_port, listening, told, fresh>>
  BY <1>7 DEF AskUDP, AskTCP, SayGoodbye, Vanish
<1>8. CASE Collapse \/ UNCHANGED vars
  BY <1>1, <1>8 DEF Collapse, vars
<1>9. CASE Watchdog
  <2>1. phase' = "setup" /\ fresh' = {} /\ told' = told
    BY <1>9 DEF Watchdog, Goto
  <2>2. /\ vxi_port'.start = vxi_port.start /\ vxi_port'.end = vxi_port.end
        /\ vxi_port'.data = vxi_port.start
    BY <1>9 DEF Watchdog, IInv, TypeOK
  <2>3. is_noncyclic => vxi_port.data = vxi_port.start
    BY DEF IInv, TypeOK, is_noncyclic
  <2>4. QED
    BY <2>1, <2>2, <2>3 DEF FreshPortIsOpen, IInv, ToldForEver, is_noncyclic
<1>10. QED
  BY <1>1, <1>2, <1>3, <1>4, <1>5, <1>6, <1>7, <1>8, <1>9 DEF Next, Firmware, Peers

LEMMA InitInv == Init => IInv
<1> SUFFICES ASSUME Init
             PROVE  IInv
  OBVIOUS
<1>1. PICK r \in Ranges : vxi_port = Cyclic(r[1], r[2])
  BY DEF Init
<1>2. Counter(vxi_port)
  BY <1>1, CyclicCounts
<1>3. Blank \in Buffers
  BY BoundAssumption DEF Blank, Buffers, Whole
<1>4. Elements(backlog) = {} /\ backlog \in Seq(Clients)
  BY DEF Init, Elements
<1>5. udp \in Seq(Requests(OnUDP)) /\ tcp \in Seq(Requests(OnTCP))
  BY DEF Init
<1>6. TypeOK
  <2>1. /\ phase = "setup" /\ listening \in Nat /\ client = None
        /\ deaf \in BOOLEAN /\ xid \in 0..MaxRequests
        /\ udp_request \in Buffers /\ tcp_request \in Buffers
    <3>1. 0 \in Nat /\ FALSE \in BOOLEAN /\ 0 \in 0..MaxRequests
      BY BoundAssumption
    <3>2. /\ phase = "setup" /\ listening = 0 /\ client = None /\ deaf = FALSE /\ xid = 0
          /\ udp_request = Blank /\ tcp_request = Blank
      BY DEF Init, NoPort
    <3>3. QED
      BY <1>3, <3>1, <3>2
  <2>2. /\ peer \in [Clients -> {"up", "down"}] /\ goodbye \subseteq Clients
        /\ told \in [Clients -> Nat] /\ fresh \subseteq Clients
    BY DEF Init, NoPort
  <2>3. QED
    BY <1>2, <1>4, <1>5, <2>1, <2>2 DEF TypeOK, Counter
<1>7. NobodyTwice /\ NothingYet /\ FreshPortIsOpen /\ ToldForEver
  BY <1>1 DEF Init, NobodyTwice, NothingYet, FreshPortIsOpen, ToldForEver, Cyclic
<1>8. QED
  BY <1>6, <1>7 DEF IInv

LEMMA NextInv == IInv /\ [Next]_vars => IInv'
BY TypeStep, NobodyTwiceStep, NothingYetStep, PortStep DEF IInv

LEMMA Invariant == Spec => []IInv
BY InitInv, NextInv, PTL DEF Spec

-----------------------------------------------------------------------------
(* The theorems.                                                           *)

\* Types; in particular cyclic_uint32_t stays in the range it was constructed
\* with, whatever the order of the ends.
THEOREM PortsTypeCorrect == Spec => []TypeOK
<1>1. IInv => TypeOK
  BY DEF IInv
<1>2. QED
  BY <1>1, Invariant, PTL

\* A port that the bind server has handed out is listened on until the VXI server
\* moves to the next one.
THEOREM FreshPortsOpen == Spec => []FreshPortIsOpen
<1>1. IInv => FreshPortIsOpen
  BY DEF IInv
<1>2. QED
  BY <1>1, Invariant, PTL

\* With one port, the listener stays, every port that was handed out stays true,
\* and connections leave the queue by being accepted or by dying, unless there is a
\* restart.
THEOREM OnePortStays == Spec => OnePortIsForEver
<1> DEFINE Step == is_noncyclic /\ phase # "setup" =>
        /\ \A c \in Clients : told'[c] \in {NoPort, listening}
        /\ phase' # "setup" =>
              /\ listening' = listening
              /\ \A c \in Elements(backlog) \ Elements(backlog') : client' = c \/ ~Connected(c)
<1>1. IInv /\ IInv' /\ [Next]_vars => [Step]_vars
  <2> SUFFICES ASSUME IInv, IInv', [Next]_vars, is_noncyclic, phase # "setup"
               PROVE  Step
    OBVIOUS
  <2> USE DEF server, binding, network, asking, history
  <2>1. listening = vxi_port.data
    BY DEF IInv, FreshPortIsOpen
  <2>2. CASE Watchdog
    <3>1. phase' = "setup" /\ told' = told
      BY <2>2 DEF Watchdog, Goto
    <3>2. QED
      BY <2>1, <3>1 DEF IInv, ToldForEver
  <2>3. CASE ~Watchdog
    <3>1. UNCHANGED <<vxi_port, listening>>
      <4>1. CASE Firmware
        BY <4>1 DEF Firmware, Begin, Goto, BindUDP, BindTCP, BindIdle, VxiAccept, VxiIdle,
           VxiClose, VxiHang, BeginNext, HttpIdle, Kick, UploadFails
      <4>2. CASE Collapse \/ UNCHANGED vars
        BY <4>2 DEF Collapse, vars
      <4>3. ASSUME NEW c \in Clients,
                   AskUDP(c) \/ AskTCP(c) \/ Connect(c) \/ SayGoodbye(c) \/ Vanish(c)
            PROVE  UNCHANGED <<vxi_port, listening>>
        BY <4>3 DEF AskUDP, AskTCP, Connect, SayGoodbye, Vanish
      <4>4. QED
        BY <2>3, <4>1, <4>2, <4>3 DEF Next, Peers
    <3>2. \A c \in Clients : told'[c] \in {NoPort, listening}
      BY <2>1, <3>1 DEF IInv, ToldForEver, is_noncyclic
    <3>3. ASSUME NEW c \in Elements(backlog), c \notin Elements(backlog')
          PROVE  client' = c \/ ~Connected(c)
      <4>1. CASE UNCHANGED backlog
        BY <3>3, <4>1
      <4>2. CASE VxiAccept
        <5>1. Elements(backlog) = {Head(backlog)} \cup Elements(Tail(backlog))
          BY <4>2, Shortened DEF VxiAccept, IInv, TypeOK
        <5>2. c = Head(backlog)
          BY <3>3, <4>2, <5>1 DEF VxiAccept
        <5>3. QED
          BY <4>2, <5>2 DEF VxiAccept
      <4>3. ASSUME NEW d \in Clients, Connect(d)
            PROVE  UNCHANGED backlog \/ Elements(backlog) \subseteq Elements(backlog')
        <5>1. UNCHANGED backlog \/ backlog' = Append(backlog, d)
          BY <4>3 DEF Connect
        <5>2. Elements(Append(backlog, d)) = Elements(backlog) \cup {d}
          BY Appended DEF IInv, TypeOK
        <5>3. QED
          BY <5>1, <5>2
      <4>4. CASE BeginNext
        BY <3>3, <4>4 DEF BeginNext
      <4>5. QED
        BY <2>3, <3>3, <4>1, <4>2, <4>3, <4>4 DEF Next, Firmware, Peers, vars, Begin, BindUDP,
           BindTCP, BindIdle, VxiIdle, VxiClose, VxiHang, HttpIdle, Kick, UploadFails, Collapse,
           AskUDP, AskTCP, SayGoodbye, Vanish
    <3>4. QED
      BY <3>1, <3>2, <3>3
  <2>4. QED
    BY <2>2, <2>3
<1>2. QED
  BY <1>1, Invariant, PTL DEF Spec, OnePortIsForEver

-----------------------------------------------------------------------------
(* The order of the requests.                                              *)

\* Requests wait in the order of their transaction ids, of which n have been used,
\* and what is in the buffer is older than all of them.
InOrder(q, b, n) ==
    /\ b.xid <= n
    /\ \A i \in 1..Len(q) : b.xid < q[i].xid /\ q[i].xid <= n
    /\ \A i, j \in 1..Len(q) : i < j => q[i].xid < q[j].xid

Oldest == InOrder(udp, udp_request, xid) /\ InOrder(tcp, tcp_request, xid)

OInv == IInv /\ Oldest

\* A new request has the next id.
LEMMA QueueGrows ==
    ASSUME NEW kinds, NEW q \in Seq(Requests(kinds)),
           NEW b \in Buffers, NEW n \in Nat, InOrder(q, b, n),
           NEW r \in Requests(kinds), r.xid = n + 1
    PROVE  InOrder(Append(q, r), b, n + 1)
<1>1. /\ Len(q) \in Nat /\ Len(Append(q, r)) = Len(q) + 1 /\ Append(q, r)[Len(q) + 1] = r
      /\ \A i \in 1..Len(q) : Append(q, r)[i] = q[i] /\ q[i] \in Requests(kinds)
  OBVIOUS
<1>2. b.xid \in Nat /\ \A e \in Requests(kinds) : e.xid \in Nat
  BY BoundAssumption DEF Requests, Buffers
<1> DEFINE s == Append(q, r)
<1> HIDE DEF s
<1>3. /\ Len(s) = Len(q) + 1
      /\ \A i \in 1..Len(q) : s[i].xid = q[i].xid /\ s[i].xid \in Nat
      /\ s[Len(q) + 1].xid = n + 1
  BY <1>1, <1>2 DEF s
<1>4. \A i \in 1..Len(s) : i \in 1..Len(q) \/ i = Len(q) + 1
  BY <1>1, <1>3
<1>5. b.xid <= n + 1 /\ \A i \in 1..Len(s) : b.xid < s[i].xid /\ s[i].xid <= n + 1
  BY <1>1, <1>2, <1>3, <1>4, SMTT(30) DEF InOrder
<1>6. \A i, j \in 1..Len(s) : i < j => s[i].xid < s[j].xid
  <2>1. \A i, j \in 1..Len(q) : i < j => s[i].xid < s[j].xid
    BY <1>3 DEF InOrder
  <2>2. \A i \in 1..Len(q) : s[i].xid < s[Len(q) + 1].xid
    BY <1>1, <1>3 DEF InOrder
  <2>3. QED
    BY <1>1, <1>4, <2>1, <2>2
<1>7. QED
  BY <1>5, <1>6 DEF InOrder, s

LEMMA QueueStays ==
    ASSUME NEW kinds, NEW q \in Seq(Requests(kinds)),
           NEW b \in Buffers, NEW n \in Nat, InOrder(q, b, n)
    PROVE  InOrder(q, b, n + 1)
<1>1. Len(q) \in Nat /\ \A i \in 1..Len(q) : q[i] \in Requests(kinds)
  OBVIOUS
<1>2. b.xid \in Nat /\ \A e \in Requests(kinds) : e.xid \in Nat
  BY BoundAssumption DEF Requests, Buffers
<1>3. QED
  BY <1>1, <1>2 DEF InOrder

\* The oldest request is read: the buffer then holds its id, or an older one.
LEMMA QueueRead ==
    ASSUME NEW kinds, NEW q \in Seq(Requests(kinds)), q # <<>>,
           NEW b \in Buffers, NEW n \in Nat, InOrder(q, b, n)
    PROVE  /\ InOrder(Tail(q), Stored(b, Head(q)), n)
           /\ Head(q).what \in OnUDP => Stored(b, Head(q)).xid = Head(q).xid
           /\ Head(q).what \notin OnUDP => Stored(b, Head(q)).xid < Head(q).xid
<1>1. /\ Len(q) \in Nat \ {0} /\ Head(q) = q[1] /\ Len(Tail(q)) = Len(q) - 1
      /\ \A i \in 1..(Len(q) - 1) : Tail(q)[i] = q[i + 1]
      /\ \A i \in 1..Len(q) : q[i].xid \in Nat
      /\ b.xid \in Nat
  <2>1. b.xid \in Nat /\ \A e \in Requests(kinds) : e.xid \in Nat
    BY BoundAssumption DEF Requests, Buffers
  <2>2. \A i \in 1..Len(q) : q[i] \in Requests(kinds)
    OBVIOUS
  <2>3. QED
    BY <2>1, <2>2
<1>2. Head(q).what \in OnUDP => Stored(b, Head(q)).xid = Head(q).xid
  <2>1. CASE Head(q).what \in Whole
    BY <2>1 DEF Stored
  <2>2. CASE Head(q).what \notin Whole /\ Head(q).what = "cut"
    BY <2>2 DEF Stored, Buffers
  <2>3. QED
    BY <2>1, <2>2 DEF OnUDP
<1>3. Head(q).what \notin OnUDP => Stored(b, Head(q)) = b
  <2>1. SUFFICES ASSUME Head(q).what \notin Whole, Head(q).what # "cut"
                 PROVE  Stored(b, Head(q)) = b
    BY DEF OnUDP
  <2>2. QED
    BY <2>1 DEF Stored
<1>4. Stored(b, Head(q)).xid \in {b.xid, q[1].xid} /\ b.xid < q[1].xid /\ 1 \in 1..Len(q)
  BY <1>1, <1>2, <1>3 DEF InOrder
<1>5. \A i \in 2..Len(q) : Stored(b, Head(q)).xid < q[i].xid
  BY <1>1, <1>4 DEF InOrder
<1>6. InOrder(Tail(q), Stored(b, Head(q)), n)
  BY <1>1, <1>4, <1>5 DEF InOrder
<1>7. QED
  BY <1>1, <1>2, <1>3, <1>4, <1>6

LEMMA InitOldest == Init => Oldest
<1>1. InOrder(<<>>, Blank, 0)
  BY DEF InOrder, Blank
<1>2. QED
  BY <1>1 DEF Init, Oldest

LEMMA OldestStep ==
    ASSUME TypeOK, Oldest, [Next]_vars
    PROVE  Oldest'
<1> USE DEF server, binding, network, asking, history
<1>1. xid \in Nat
  BY BoundAssumption DEF TypeOK
<1>2. CASE UNCHANGED <<udp, tcp, udp_request, tcp_request, xid>>
  BY <1>2 DEF Oldest
<1>3. CASE BindUDP
  BY <1>1, <1>3, QueueRead DEF BindUDP, Oldest, TypeOK
<1>4. CASE BindTCP
  BY <1>1, <1>4, QueueRead DEF BindTCP, Oldest, TypeOK
<1>5. CASE UploadFails
  BY <1>1, <1>5 DEF UploadFails, Oldest, InOrder
<1>6. CASE Watchdog
  BY <1>1, <1>6 DEF Watchdog, Oldest, InOrder, Blank
<1>7. ASSUME NEW c \in Clients, AskUDP(c)
      PROVE  Oldest'
  <2>1. PICK r \in Requests(OnUDP) : r.xid = xid + 1 /\ udp' = Append(udp, r)
    <3>1. PICK what \in KindsOnUDP : udp' = Append(udp, [by |-> c, xid |-> xid', what |-> what])
      BY <1>7 DEF AskUDP, Ask
    <3>2. xid' = xid + 1 /\ xid' \in 1..MaxRequests
      BY <1>7, BoundAssumption DEF AskUDP, Ask, TypeOK
    <3>3. [by |-> c, xid |-> xid', what |-> what] \in Requests(OnUDP)
      BY <3>2, KindAssumption DEF Requests
    <3>4. QED
      BY <3>1, <3>2, <3>3
  <2>2. InOrder(udp', udp_request, xid + 1) /\ InOrder(tcp, tcp_request, xid + 1)
    BY <1>1, <2>1, QueueGrows, QueueStays DEF Oldest, TypeOK
  <2>3. xid' = xid + 1 /\ UNCHANGED <<tcp, udp_request, tcp_request>>
    BY <1>7 DEF AskUDP, Ask
  <2>4. QED
    BY <2>2, <2>3 DEF Oldest
<1>8. ASSUME NEW c \in Clients, AskTCP(c)
      PROVE  Oldest'
  <2>1. PICK r \in Requests(OnTCP) : r.xid = xid + 1 /\ tcp' = Append(tcp, r)
    <3>1. PICK what \in KindsOnTCP : tcp' = Append(tcp, [by |-> c, xid |-> xid', what |-> what])
      BY <1>8 DEF AskTCP, Ask
    <3>2. xid' = xid + 1 /\ xid' \in 1..MaxRequests
      BY <1>8, BoundAssumption DEF AskTCP, Ask, TypeOK
    <3>3. [by |-> c, xid |-> xid', what |-> what] \in Requests(OnTCP)
      BY <3>2, KindAssumption DEF Requests
    <3>4. QED
      BY <3>1, <3>2, <3>3
  <2>2. InOrder(udp, udp_request, xid + 1) /\ InOrder(tcp', tcp_request, xid + 1)
    BY <1>1, <2>1, QueueGrows, QueueStays DEF Oldest, TypeOK
  <2>3. xid' = xid + 1 /\ UNCHANGED <<udp, udp_request, tcp_request>>
    BY <1>8 DEF AskTCP, Ask
  <2>4. QED
    BY <2>2, <2>3 DEF Oldest
<1>9. QED
  BY <1>2, <1>3, <1>4, <1>5, <1>6, <1>7, <1>8 DEF Next, Firmware, Peers, vars, Begin, BindIdle,
     VxiAccept, VxiIdle, VxiClose, VxiHang, BeginNext, HttpIdle, Kick, Collapse, Connect,
     SayGoodbye, Vanish

\* Every answer is right: its own transaction id and the port that is listened on
\* exactly if it asked for one, and an older id if its request was not read.
THEOREM AnswersRight == Spec => AnswersAreRight
<1> DEFINE Right(b) ==
        /\ ProcessRequest(b).status # "garbage"
        /\ ProcessRequest(b).status = "success" <=> ProcessRequest(b).port # NoPort
        /\ ProcessRequest(b).port # NoPort => ProcessRequest(b).port = listening /\ client = None
        /\ b.what = "getport" <=> ProcessRequest(b).status = "success"
<1> DEFINE Step == last' \notin {last, None} =>
        /\ last'.status # "garbage"
        /\ last'.status = "success" <=> last'.port # NoPort
        /\ last'.port # NoPort => last'.port = listening /\ client = None
        /\ last'.what \in Whole => (last'.what = "getport" <=> last'.status = "success")
        /\ IF last'.what = "brief" THEN last'.xid < last'.asked ELSE last'.xid = last'.asked
<1>1. ASSUME IInv, available, phase = "bind", NEW b \in Buffers
      PROVE  Right(b)
  <2>1. vxi_port.data \in Nat \ {0} /\ listening = vxi_port.data
    BY <1>1 DEF IInv, TypeOK, FreshPortIsOpen
  <2>2. b.what \in {"getport", "program", "procedure"} /\ client = None
    BY <1>1 DEF Buffers, Whole, available
  <2>3. vxi_port.data # 0
    BY <2>1
  <2>4. CASE b.what = "getport"
    <3>1. ProcessRequest(b).port = vxi_port.data /\ ProcessRequest(b).status = "success"
      BY <1>1, <2>3, <2>4 DEF ProcessRequest, Allocate, NoPort
    <3>2. QED
      BY <2>1, <2>2, <2>3, <2>4, <3>1 DEF NoPort
  <2>5. CASE b.what # "getport"
    <3>1. ProcessRequest(b).port = NoPort /\ ProcessRequest(b).status = b.what
      BY <2>5 DEF ProcessRequest
    <3>2. b.what # "success" /\ b.what # "garbage"
      BY <2>2
    <3>3. QED
      BY <2>5, <3>1, <3>2
  <2>6. QED
    BY <2>4, <2>5
<1>2. ASSUME NEW r \in Requests(OnTCP), NEW b \in Buffers, r.what \in Whole
      PROVE  Stored(b, r).what = r.what
  BY <1>2 DEF Stored, Whole
<1>3. ASSUME IInv, available, phase = "bind",
             NEW kinds, kinds \subseteq OnTCP, NEW q \in Seq(Requests(kinds)), q # <<>>,
             NEW b \in Buffers, InOrder(q, b, xid),
             Head(q).what # "silent", Reply(Head(q), ProcessRequest(Stored(b, Head(q))))
      PROVE  Step
  <2> DEFINE r == Head(q)
             s == Stored(b, r)
  <2>1. r \in Requests(OnTCP) /\ s \in Buffers
    <3>1. r \in Requests(kinds)
      BY <1>3, Shortened
    <3>2. r \in Requests(OnTCP)
      BY <1>3, <3>1 DEF Requests
    <3>3. QED
      BY <1>3, <3>2, StoredType
  <2>2. /\ last'.what = r.what /\ last'.asked = r.xid /\ last'.xid = s.xid
        /\ last'.status = ProcessRequest(s).status /\ last'.port = ProcessRequest(s).port
    BY <1>3 DEF Reply, ProcessRequest
  <2>3. Right(s)
    BY <1>1, <1>3, <2>1
  <2>4. r.what \in Whole => s.what = r.what
    BY <1>2, <1>3, <2>1
  <2>5. IF r.what = "brief" THEN s.xid < r.xid ELSE s.xid = r.xid
    <3>1. xid \in Nat /\ r.what \in OnTCP
      BY <1>3, <2>1, BoundAssumption DEF IInv, TypeOK, Requests
    <3>2. (r.what \in OnUDP => s.xid = r.xid) /\ (r.what \notin OnUDP => s.xid < r.xid)
      BY <1>3, <3>1, QueueRead
    <3>3. QED
      BY <1>3, <3>1, <3>2 DEF OnTCP, OnUDP, Whole
  <2>6. QED
    BY <2>2, <2>3, <2>4, <2>5
<1>4. OInv /\ [Next]_vars => [Step]_vars
  <2> SUFFICES ASSUME OInv, [Next]_vars, last' \notin {last, None}
               PROVE  Step
    OBVIOUS
  <2>1. BindUDP \/ BindTCP
    <3>1. CASE Firmware
      BY <3>1 DEF Firmware, Begin, BindIdle, VxiAccept, VxiIdle, VxiClose, VxiHang, BeginNext,
         HttpIdle, Kick, UploadFails, history
    <3>2. CASE Collapse \/ UNCHANGED vars
      BY <3>2 DEF Collapse, vars, history
    <3>3. ASSUME NEW c \in Clients,
                 AskUDP(c) \/ AskTCP(c) \/ Connect(c) \/ SayGoodbye(c) \/ Vanish(c)
          PROVE  UNCHANGED last
      BY <3>3 DEF AskUDP, AskTCP, Connect, SayGoodbye, Vanish, history
    <3>4. CASE Watchdog
      BY <3>4 DEF Watchdog
    <3>5. QED
      BY <3>1, <3>2, <3>3, <3>4 DEF Next, Peers
  <2>2. CASE BindUDP
    <3>1. /\ udp \in Seq(Requests(OnUDP)) /\ udp # <<>> /\ OnUDP \subseteq OnTCP
          /\ udp_request \in Buffers /\ InOrder(udp, udp_request, xid)
      BY <2>2 DEF OInv, IInv, TypeOK, BindUDP, OnTCP, Oldest
    <3>2. /\ available /\ phase = "bind"
          /\ Reply(Head(udp), ProcessRequest(Stored(udp_request, Head(udp))))
      BY <2>2 DEF BindUDP, Goto
    <3>3. Head(udp).what # "silent"
      <4>1. Head(udp) \in Requests(OnUDP)
        BY <3>1, Shortened
      <4>2. QED
        BY <4>1 DEF Requests, OnUDP, Whole
    <3>4. QED
      BY <1>3, <3>1, <3>2, <3>3 DEF OInv
  <2>3. CASE BindTCP
    <3>1. /\ tcp \in Seq(Requests(OnTCP)) /\ tcp # <<>>
          /\ tcp_request \in Buffers /\ InOrder(tcp, tcp_request, xid)
      BY <2>3 DEF OInv, IInv, TypeOK, BindTCP, Oldest
    <3>2. /\ available /\ phase = "bind" /\ Head(tcp).what # "silent"
          /\ Reply(Head(tcp), ProcessRequest(Stored(tcp_request, Head(tcp))))
      BY <2>3 DEF BindTCP, Hang, Goto, history
    <3>3. QED
      BY <1>3, <3>1, <3>2 DEF OInv
  <2>4. QED
    BY <2>1, <2>2, <2>3
<1>5. IInv /\ Oldest /\ [Next]_vars => Oldest'
  BY OldestStep DEF IInv
<1>6. QED
  BY <1>4, <1>5, InitOldest, Invariant, PTL DEF Spec, OInv, AnswersAreRight
-----------------------------------------------------------------------------
(* Every port has its turn.                                                *)

\* The port the counter was at k moves ago.
Behind(p, k) == IF p.start + k <= p.data THEN p.data - k ELSE p.data - k + Size(p)

\* The ports listened on last are the ones behind the counter, and not all.
Rotation ==
    /\ recent \in Seq(Nat)
    /\ phase = "setup" => recent = <<>>
    /\ phase # "setup" /\ ~is_noncyclic =>
          /\ Len(recent) \in 1..(Size(vxi_port) - 1)
          /\ \A i \in 1..Len(recent) : recent[i] = Behind(vxi_port, Len(recent) - i)

RInv == IInv /\ Rotation

\* One move on, each port is one further behind.
LEMMA OneFurther ==
    ASSUME NEW p, Counter(p), p.start < p.end, NEW k \in 0..(Size(p) - 2)
    PROVE  /\ Behind(GotoNext(p), k + 1) = Behind(p, k)
           /\ Behind(p, k) # GotoNext(p).data
           /\ Behind(p, k) \in Nat
<1>1. /\ p.start \in Nat /\ p.end \in Nat /\ p.data \in p.start..p.end
      /\ k \in Nat /\ k + 1 <= p.end - p.start /\ Size(p) = p.end - p.start + 1
  BY DEF Counter, Size
<1>2. /\ GotoNext(p).start = p.start /\ GotoNext(p).end = p.end
      /\ GotoNext(p).data = IF p.data < p.end THEN p.data + 1 ELSE p.start
      /\ Size(GotoNext(p)) = Size(p)
  BY DEF Counter, GotoNext, Size
<1>3. QED
  BY <1>1, <1>2 DEF Behind

\* The listener moves to a port that is not among the last ones.
LEMMA Turn ==
    ASSUME IInv, Rotation, phase # "setup", ~is_noncyclic,
           vxi_port' = GotoNext(vxi_port), recent' = Moved(vxi_port'.data)
    PROVE  /\ vxi_port'.data \notin Elements(recent)
           /\ recent' \in Seq(Nat) /\ Len(recent') \in 1..(Size(vxi_port') - 1)
           /\ \A i \in 1..Len(recent') : recent'[i] = Behind(vxi_port', Len(recent') - i)
<1> DEFINE n == Len(recent)
           new == vxi_port'.data
           all == Append(recent, new)
<1>1. Counter(vxi_port) /\ vxi_port.start < vxi_port.end
  BY DEF IInv, TypeOK, Counter, is_noncyclic
<1>2. /\ Counter(vxi_port') /\ Size(vxi_port') = Size(vxi_port) /\ new \in Nat
      /\ Size(vxi_port) \in Nat
  BY <1>1, NextCounts DEF Size, Counter
<1>3. /\ recent \in Seq(Nat) /\ n \in 1..(Size(vxi_port) - 1) /\ DOMAIN recent = 1..n
      /\ \A i \in 1..n : recent[i] = Behind(vxi_port, n - i)
  BY DEF Rotation
<1>4. \A i \in 1..n : /\ recent[i] = Behind(vxi_port', n - i + 1)
                      /\ recent[i] # new
  <2> TAKE i \in 1..n
  <2>1. n - i \in 0..(Size(vxi_port) - 2)
    BY <1>2, <1>3
  <2>2. QED
    BY <1>1, <1>3, <2>1, OneFurther
<1>5. new \notin Elements(recent)
  BY <1>3, <1>4 DEF Elements
<1>6. new = Behind(vxi_port', 0)
  BY <1>2 DEF Behind, Counter
<1>7. /\ all \in Seq(Nat) /\ Len(all) = n + 1 /\ all[n + 1] = new
      /\ \A i \in 1..n : all[i] = recent[i]
  BY <1>2, <1>3
<1>8. \A i \in 1..(n + 1) : all[i] = Behind(vxi_port', n + 1 - i)
  <2> TAKE i \in 1..(n + 1)
  <2>1. CASE i = n + 1
    BY <1>3, <1>6, <1>7, <2>1
  <2>2. CASE i \in 1..n
    <3>1. n + 1 - i = n - i + 1
      BY <1>3, <2>2
    <3>2. QED
      BY <1>4, <1>7, <2>2, <3>1
  <2>3. QED
    BY <1>3, <2>1, <2>2
<1>9. recent' = IF Len(all) < Size(vxi_port) THEN all ELSE Tail(all)
  BY DEF Moved
<1>01. n \in Nat \ {0} /\ n <= Size(vxi_port) - 1
  BY <1>2, <1>3
<1> HIDE DEF n, all, new
<1>10. CASE Len(all) < Size(vxi_port)
  <2>1. recent' = all /\ Len(recent') = n + 1
    BY <1>7, <1>9, <1>10
  <2>2. n + 1 \in 1..(Size(vxi_port) - 1)
    BY <1>2, <1>01, <1>7, <1>10
  <2>3. recent' \in Seq(Nat) /\ Len(recent') \in 1..(Size(vxi_port') - 1)
    BY <1>2, <1>7, <2>1, <2>2
  <2>4. \A i \in 1..Len(recent') : recent'[i] = Behind(vxi_port', Len(recent') - i)
    BY <1>01, <1>8, <2>1
  <2>5. QED
    BY <1>5, <2>3, <2>4 DEF new
<1>11. CASE ~(Len(all) < Size(vxi_port))
  <2>1. /\ Tail(all) \in Seq(Nat) /\ Len(Tail(all)) = n
        /\ \A i \in 1..n : Tail(all)[i] = all[i + 1]
    BY <1>01, <1>7
  <2>2. \A i \in 1..n : Tail(all)[i] = Behind(vxi_port', n - i)
    <3> TAKE i \in 1..n
    <3>1. i + 1 \in 1..(n + 1) /\ n + 1 - (i + 1) = n - i
      BY <1>01
    <3>2. QED
      BY <1>8, <2>1, <3>1
  <2>3. recent' = Tail(all)
    BY <1>9, <1>11
  <2>4. recent' \in Seq(Nat) /\ Len(recent') = n
    BY <2>1, <2>3
  <2>5. Len(recent') \in 1..(Size(vxi_port') - 1)
    BY <1>2, <1>01, <2>4
  <2>6. \A i \in 1..Len(recent') : recent'[i] = Behind(vxi_port', Len(recent') - i)
    BY <2>2, <2>3, <2>4
  <2>7. QED
    BY <1>5, <2>4, <2>5, <2>6 DEF new
<1>12. QED
  BY <1>10, <1>11

LEMMA RotationStep ==
    ASSUME RInv, [Next]_vars
    PROVE  /\ Rotation'
           /\ listening # listening' /\ listening # NoPort /\ listening' # NoPort =>
                 listening' \notin Elements(recent)
<1> USE DEF RInv, server, binding, network, asking, history
<1>1. CASE Begin
  <2>1. /\ phase = "setup" /\ phase' = "bind" /\ UNCHANGED vxi_port /\ recent = <<>>
        /\ recent' = IF is_noncyclic THEN <<>> ELSE <<vxi_port.data>>
    BY <1>1 DEF Begin, Goto, Rotation
  <2>2. Counter(vxi_port)
    BY DEF IInv, TypeOK, Counter
  <2>3. Elements(recent) = {}
    BY <2>1 DEF Elements
  <2>4. CASE is_noncyclic
    BY <2>1, <2>3, <2>4 DEF Rotation, is_noncyclic
  <2>5. CASE ~is_noncyclic
    <3>1. /\ recent' \in Seq(Nat) /\ Len(recent') = 1 /\ recent'[1] = vxi_port.data
          /\ Size(vxi_port) - 1 \in Nat /\ 1 \in 1..(Size(vxi_port) - 1)
      BY <2>1, <2>2, <2>5 DEF Counter, Size, is_noncyclic
    <3>2. vxi_port.data = Behind(vxi_port, 0)
      BY <2>2 DEF Counter, Behind
    <3>3. \A i \in 1..Len(recent') : recent'[i] = Behind(vxi_port', Len(recent') - i)
      BY <2>1, <3>1, <3>2
    <3>4. QED
      BY <2>1, <2>3, <3>1, <3>3 DEF Rotation
  <2>6. QED
    BY <2>4, <2>5
<1>2. CASE VxiClose /\ ~is_noncyclic
  <2>1. /\ phase # "setup" /\ phase' # "setup" /\ vxi_port' = GotoNext(vxi_port)
        /\ listening' = vxi_port'.data /\ recent' = Moved(vxi_port'.data)
    BY <1>2 DEF VxiClose, BeginNext, Goto
  <2>2. /\ vxi_port'.data \notin Elements(recent)
        /\ recent' \in Seq(Nat) /\ Len(recent') \in 1..(Size(vxi_port') - 1)
        /\ \A i \in 1..Len(recent') : recent'[i] = Behind(vxi_port', Len(recent') - i)
    BY <1>2, <2>1, Turn
  <2>3. QED
    BY <1>2, <2>1, <2>2 DEF Rotation
<1>3. CASE UNCHANGED <<vxi_port, listening, recent>> /\ (phase' = "setup" <=> phase = "setup")
  BY <1>3 DEF Rotation, is_noncyclic
<1>4. CASE Watchdog
  BY <1>4 DEF Watchdog, Goto, Rotation
<1>5. ASSUME ~Begin, ~(VxiClose /\ ~is_noncyclic), ~Watchdog
      PROVE  UNCHANGED <<vxi_port, listening, recent>> /\ (phase' = "setup" <=> phase = "setup")
  <2>1. CASE Firmware
    <3>1. CASE BindUDP \/ BindTCP
      BY <3>1 DEF BindUDP, BindTCP, Hang, Goto, Reply
    <3>2. CASE BindIdle \/ VxiAccept \/ VxiIdle \/ VxiHang \/ HttpIdle \/ Kick \/ UploadFails
      BY <3>2 DEF BindIdle, VxiAccept, VxiIdle, VxiHang, HttpIdle, Kick, UploadFails, Goto
    <3>3. CASE VxiClose
      BY <1>5, <3>3 DEF VxiClose, BeginNext, Goto
    <3>4. QED
      BY <1>5, <2>1, <3>1, <3>2, <3>3 DEF Firmware
  <2>2. CASE Collapse \/ UNCHANGED vars
    BY <2>2 DEF Collapse, vars
  <2>3. ASSUME NEW c \in Clients,
               AskUDP(c) \/ AskTCP(c) \/ Connect(c) \/ SayGoodbye(c) \/ Vanish(c)
        PROVE  UNCHANGED <<phase, vxi_port, listening, recent>>
    BY <2>3 DEF AskUDP, AskTCP, Connect, SayGoodbye, Vanish
  <2>4. QED
    BY <1>5, <2>1, <2>2, <2>3 DEF Next, Peers
<1>6. QED
  BY <1>1, <1>2, <1>3, <1>4, <1>5

\* The listener goes round: it does not come back to a port before it has been on
\* all the others, however large the range is.
THEOREM PortsTakeTurns == Spec => EveryPortHasItsTurn
<1> DEFINE Step == listening # listening' /\ listening # NoPort /\ listening' # NoPort =>
                       listening' \notin Elements(recent)
<1>1. Init => Rotation
  BY DEF Init, Rotation
<1>2. RInv /\ [Next]_vars => Rotation' /\ [Step]_vars
  BY RotationStep
<1>3. QED
  BY <1>1, <1>2, Invariant, PTL DEF Spec, RInv, EveryPortHasItsTurn
=============================================================================
