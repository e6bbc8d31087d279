------------------------------ MODULE VxiPorts ------------------------------
(***************************************************************************)
(* How a VXI-11 client finds the server: it asks the RPC bind server       *)
(* (rpc_bind_server.cpp) for a port, over UDP or TCP, and connects to that *)
(* port of the VXI server (vxi_server.cpp), which takes one client at a    *)
(* time and may move to the next port of its range (cyclic_uint32_t) when  *)
(* that client is gone.                                                    *)
(*                                                                         *)
(* What the client does with the parser is in ScpiControl.  loop() of      *)
(* main.cpp runs the bind server, the VXI server and the web server in     *)
(* turn; clients act at any time in between.  An answer over TCP may stop  *)
(* it for good, until the watchdog of the chip restarts the dongle.        *)
(*                                                                         *)
(* Operators marked "Fault:" are wrong versions of the operator that       *)
(* follows them; no other definition uses them.                            *)
(***************************************************************************)
EXTENDS Naturals, Sequences

CONSTANTS Clients,
          None,         \* no client, and no answer
          Ranges,       \* pairs of ports VXI_Server may be constructed with
          KindsOnUDP,   \* bounds: what clients send as a bind request
          KindsOnTCP,
          MaxRequests,  \* bound: bind requests in all
          MaxWaiting    \* bound: bind requests that wait, of either kind

ASSUME ClientAssumption == None \notin Clients
ASSUME RangeAssumption == Ranges \subseteq (Nat \ {0}) \X (Nat \ {0})
ASSUME BoundAssumption == MaxRequests \in Nat /\ MaxWaiting \in Nat

NoPort == 0

\* Bind requests: in order; for another program or procedure; with nothing but
\* a transaction id, or nothing at all, before the connection is read (or the
\* datagram ends); and a connection nothing comes from in time.
Whole == {"getport", "program", "procedure"}
OnUDP == Whole \cup {"cut"}
OnTCP == OnUDP \cup {"brief", "silent"}
ASSUME KindAssumption == KindsOnUDP \subseteq OnUDP /\ KindsOnTCP \subseteq OnTCP

VARIABLES
    phase,          \* what setup() or loop() does next; "hung" until the watchdog bites
    vxi_port,       \* VXI_Server::vxi_port: the cyclic counter
    listening,      \* the port tcp_server listens on
    backlog,        \* connections tcp_server has not accepted yet
    client,         \* VXI_Server::client
    udp, tcp,       \* bind requests nobody has read, in order of arrival
    udp_request,    \* the buffers the requests are read into
    tcp_request,
    deaf,           \* the web server has closed every UDP socket
    peer,           \* whether each client's VXI connection stands
    goodbye,        \* clients whose DESTROY_LINK has not been read
    xid,            \* transaction ids used so far
    told,           \* the port each client knows
    fresh,          \* history: clients told since the listener last moved
    last,           \* history: the answer given in this turn of loop()
    recent          \* history: the ports listened on last, one less than there are

server == <<vxi_port, listening, backlog, client>>
binding == <<udp, tcp, udp_request, tcp_request, deaf>>
network == <<peer, goodbye>>
asking == <<xid, told>>
history == <<fresh, last, recent>>
vars == <<phase, server, binding, network, asking, history>>

Elements(s) == {s[i] : i \in DOMAIN s}
Goto(p, q) == phase = p /\ phase' = q

\* client.connected(): open, or closed with data still to be read.
Connected(c) == peer[c] = "up" \/ c \in goodbye

\* client.stop(): what was not read is lost.
Hangup(cs) == /\ peer' = [c \in Clients |-> IF c \in cs THEN "down" ELSE peer[c]]
              /\ goodbye' = goodbye \ cs

-----------------------------------------------------------------------------
(* cyclic_uint32_t.                                                        *)

\* The constructor, which is given no value; the ends come in any order.
Cyclic(a, b) ==
    LET low == IF a < b THEN a ELSE b
        high == IF a < b THEN b ELSE a
    IN  [start |-> low, end |-> high, data |-> low]

is_noncyclic == vxi_port.start = vxi_port.end

\* Fault: one step past the end.
GotoBeyond(p) == [p EXCEPT !.data = IF @ <= p.end THEN @ + 1 ELSE p.start]
\* Fault: back and forth instead of round.
GotoBack(p) == [p EXCEPT !.data = IF @ < p.end THEN @ + 1 ELSE @ - 1]
GotoNext(p) == [p EXCEPT !.data = IF @ < p.end THEN @ + 1 ELSE p.start]

Size(p) == p.end - p.start + 1

\* The ports used last, after the move to p.
Moved(p) ==
    LET all == Append(recent, p)
    IN  IF Len(all) < Size(vxi_port) THEN all ELSE Tail(all)

-----------------------------------------------------------------------------
(* The clients.                                                            *)

Ask(c, queue, kinds) ==
    /\ xid < MaxRequests /\ Len(queue) < MaxWaiting
    /\ xid' = xid + 1
    /\ \E what \in kinds : queue' = Append(queue, [by |-> c, xid |-> xid', what |-> what])

\* Datagrams for a closed socket go nowhere.
AskUDP(c) ==
    /\ phase # "setup" /\ ~deaf
    /\ Ask(c, udp, KindsOnUDP)
    /\ UNCHANGED <<phase, server, tcp, udp_request, tcp_request, deaf, network, told, history>>

AskTCP(c) ==
    /\ phase # "setup"
    /\ Ask(c, tcp, KindsOnTCP)
    /\ UNCHANGED <<phase, server, udp, udp_request, tcp_request, deaf, network, told, history>>

\* The client connects to the port it was told, and asks again if it is refused.
Connect(c) ==
    /\ told[c] # NoPort /\ peer[c] # "up" /\ c \notin goodbye
    /\ c \notin Elements(backlog) /\ client # c
    /\ IF told[c] = listening
       THEN /\ backlog' = Append(backlog, c)
            /\ peer' = [peer EXCEPT ![c] = "up"]
            /\ UNCHANGED <<told, fresh>>
       ELSE /\ told' = [told EXCEPT ![c] = NoPort]
            /\ fresh' = fresh \ {c}
            /\ UNCHANGED <<backlog, peer>>
    /\ UNCHANGED <<phase, vxi_port, listening, client, binding, goodbye, xid, last, recent>>

SayGoodbye(c) ==
    /\ peer[c] = "up" /\ c \notin goodbye
    /\ goodbye' = goodbye \cup {c}
    /\ UNCHANGED <<phase, server, binding, peer, asking, history>>

\* The client leaves or is lost; what it has sent may be lost too.
Vanish(c) ==
    /\ peer[c] = "up"
    /\ peer' = [peer EXCEPT ![c] = "down"]
    /\ goodbye' \in {goodbye, goodbye \ {c}}
    /\ UNCHANGED <<phase, server, binding, asking, history>>

\* The network stack: the handle of a dead connection may compare as false
\* before the server has looked at connected().
Collapse ==
    /\ client # None /\ ~Connected(client)
    /\ client' = None
    /\ UNCHANGED <<phase, vxi_port, listening, backlog, binding, network, asking, history>>

-----------------------------------------------------------------------------
(* RPC_Bind_Server::loop().                                                *)

available == client = None

\* VXI_Server::allocate()
Allocate == IF available THEN vxi_port.data ELSE NoPort

\* What is in a buffer after a request has been read into it: the buffer is not
\* cleared, and what does not arrive stays as it was.
Stored(buffer, request) ==
    CASE request.what \in Whole -> [xid |-> request.xid, what |-> request.what]
      [] request.what = "cut"   -> [buffer EXCEPT !.xid = request.xid]
      [] OTHER                  -> buffer

\* Fault: the answer is made from the other server's buffer.
ProcessOther(buffer) ==
    LET valid == udp_request.what = "getport"
        port == IF valid THEN Allocate ELSE NoPort
    IN  [xid |-> buffer.xid, port |-> port,
         status |-> CASE ~valid -> udp_request.what
                      [] valid /\ port = NoPort -> "garbage"
                      [] OTHER -> "success"]
\* process_request(), with the transaction id that fill_response_header() copies
ProcessRequest(buffer) ==
    LET valid == buffer.what = "getport"
        port == IF valid THEN Allocate ELSE NoPort
    IN  [xid |-> buffer.xid, port |-> port,
         status |-> CASE ~valid -> buffer.what
                      [] valid /\ port = NoPort -> "garbage"
                      [] OTHER -> "success"]

\* The client hears the answer, or it is lost; a client that hears of a port
\* other than in answer to its own request does not take it.
Reply(request, response) ==
    /\ last' = [by |-> request.by, asked |-> request.xid, what |-> request.what,
                xid |-> response.xid, status |-> response.status, port |-> response.port]
    /\ \/ /\ response.xid = request.xid /\ response.status = "success"
          /\ told' = [told EXCEPT ![request.by] = response.port]
          /\ fresh' = fresh \cup {request.by}
       \/ UNCHANGED <<told, fresh>>
    /\ UNCHANGED recent

BindUDP ==
    /\ available /\ udp # <<>>
    /\ Goto("bind", "vxi")
    /\ udp' = Tail(udp)
    /\ udp_request' = Stored(udp_request, Head(udp))
    /\ Reply(Head(udp), ProcessRequest(udp_request'))
    /\ UNCHANGED <<server, tcp, tcp_request, deaf, network, xid>>

\* "wait for tcp to be available": the connection of a client that has gone never
\* is, and the loop that waits for it feeds no watchdog.
Hang == Goto("bind", "hung") /\ UNCHANGED <<told, history>>

\* Fault: a connection that nothing has come from is kept until something does.
BindTCPPatient ==
    /\ available /\ udp = <<>> /\ tcp # <<>>
    /\ tcp' = IF Head(tcp).what = "silent" THEN tcp ELSE Tail(tcp)
    /\ tcp_request' = Stored(tcp_request, Head(tcp))
    /\ \/ Goto("bind", "vxi") /\ Head(tcp).what = "silent" /\ UNCHANGED <<told, history>>
       \/ Goto("bind", "vxi") /\ Head(tcp).what # "silent"
          /\ Reply(Head(tcp), ProcessRequest(tcp_request'))
       \/ Hang /\ Head(tcp).what # "silent"
    /\ UNCHANGED <<server, udp, udp_request, deaf, network, xid>>
\* A connection is closed once it has been read, whether or not it is answered.
\* Its client may have reset it at any time before the answer.
BindTCP ==
    /\ available /\ udp = <<>> /\ tcp # <<>>
    /\ tcp' = Tail(tcp)
    /\ tcp_request' = Stored(tcp_request, Head(tcp))
    /\ \/ Goto("bind", "vxi") /\ Head(tcp).what = "silent" /\ UNCHANGED <<told, history>>
       \/ Goto("bind", "vxi") /\ Head(tcp).what # "silent"
          /\ Reply(Head(tcp), ProcessRequest(tcp_request'))
       \/ Hang /\ Head(tcp).what # "silent"
    /\ UNCHANGED <<server, udp, udp_request, deaf, network, xid>>

\* Requests are not read while a client is served.
BindIdle ==
    /\ ~available \/ (udp = <<>> /\ tcp = <<>>)
    /\ Goto("bind", "vxi")
    /\ UNCHANGED <<server, binding, network, asking, history>>

-----------------------------------------------------------------------------
(* VXI_Server.                                                             *)

\* setup(): VXI_Server::begin() and RPC_Bind_Server::begin()
Begin ==
    /\ Goto("setup", "bind")
    /\ listening' = vxi_port.data
    /\ recent' = IF is_noncyclic THEN <<>> ELSE <<vxi_port.data>>
    /\ UNCHANGED <<vxi_port, backlog, client, binding, network, asking, fresh, last>>

\* Fault: the listener is moved before the counter.
BeginThenStep ==
    /\ client' = None
    /\ vxi_port' = GotoNext(vxi_port)
    /\ listening' = vxi_port.data
    /\ backlog' = <<>> /\ Hangup({client} \cup Elements(backlog))
    /\ fresh' = {} /\ recent' = Moved(listening')
    /\ last' = None
    /\ UNCHANGED <<binding, asking>>
\* Fault: a range of one port is rotated like any other.
BeginAnyNext ==
    /\ client' = None
    /\ vxi_port' = GotoNext(vxi_port)
    /\ listening' = vxi_port'.data
    /\ backlog' = <<>> /\ Hangup({client} \cup Elements(backlog))
    /\ fresh' = {} /\ recent' = Moved(listening')
    /\ last' = None
    /\ UNCHANGED <<binding, asking>>
\* begin_next(): stop the client; if there is more than one port, stop listening,
\* step the counter and listen on the next port.  Connections that were not
\* accepted may be dropped with the old listener.
BeginNext ==
    /\ client' = None
    /\ \/ /\ is_noncyclic
          /\ Hangup({client})
          /\ UNCHANGED <<vxi_port, listening, backlog, fresh, recent>>
       \/ /\ ~is_noncyclic
          /\ vxi_port' = GotoNext(vxi_port)
          /\ listening' = vxi_port'.data
          /\ \/ UNCHANGED backlog /\ Hangup({client})
             \/ backlog' = <<>> /\ Hangup({client} \cup Elements(backlog))
          /\ fresh' = {} /\ recent' = Moved(listening')
    /\ last' = None
    /\ UNCHANGED <<binding, asking>>

\* Fault: the connection stays in the listener's queue.
VxiPeek ==
    /\ available /\ backlog # <<>>
    /\ Goto("vxi", "http")
    /\ client' = IF Connected(Head(backlog)) THEN Head(backlog) ELSE None
    /\ UNCHANGED <<vxi_port, listening, backlog, binding, network, asking, fresh, recent>>
    /\ last' = None
VxiAccept ==
    /\ available /\ backlog # <<>>
    /\ Goto("vxi", "http")
    /\ backlog' = Tail(backlog)
    /\ client' = IF Connected(Head(backlog)) THEN Head(backlog) ELSE None
    /\ UNCHANGED <<vxi_port, listening, binding, network, asking, fresh, recent>>
    /\ last' = None

\* Nobody is there; or a client with nothing to say, or a packet that leaves
\* the connection as it is.
VxiIdle ==
    /\ \/ (available /\ backlog = <<>>)
       \/ (client # None /\ peer[client] = "up" /\ client \notin goodbye)
    /\ Goto("vxi", "http")
    /\ UNCHANGED <<server, binding, network, asking, fresh, recent>>
    /\ last' = None

\* The client has gone, or has destroyed its link.
VxiClose ==
    /\ client # None /\ (~Connected(client) \/ client \in goodbye)
    /\ Goto("vxi", "http")
    /\ BeginNext

\* The client is lost before a packet of its has been answered: see Hang.
VxiHang ==
    /\ client # None /\ Connected(client)
    /\ Goto("vxi", "hung")
    /\ UNCHANGED <<server, binding, network, asking, fresh, recent>>
    /\ last' = None

-----------------------------------------------------------------------------
(* The web server: the "disconnect client" button, which leaves the port    *)
(* alone, and a firmware upload.                                           *)

HttpIdle ==
    /\ Goto("http", "bind")
    /\ UNCHANGED <<server, binding, network, asking, history>>

Kick ==
    /\ client # None /\ Connected(client)
    /\ Goto("http", "bind")
    /\ client' = None /\ Hangup({client})
    /\ UNCHANGED <<vxi_port, listening, backlog, binding, asking, history>>

\* handle_firmware_update_post() closes every WiFiUDP socket, the bind server's
\* too, before the upload is looked at; if it fails or is aborted the firmware
\* goes on and nothing is started again.  (If it succeeds the dongle restarts.)
UploadFails ==
    /\ Goto("http", "bind")
    /\ deaf' = TRUE /\ udp' = <<>>
    /\ UNCHANGED <<server, tcp, udp_request, tcp_request, network, asking, history>>

-----------------------------------------------------------------------------
Blank == [xid |-> 0, what |-> "program"]

\* The watchdog restarts the dongle.  What clients were told is all that is left.
Watchdog ==
    /\ Goto("hung", "setup")
    /\ vxi_port' = [vxi_port EXCEPT !.data = vxi_port.start]
    /\ listening' = NoPort /\ backlog' = <<>> /\ client' = None
    /\ udp' = <<>> /\ tcp' = <<>>
    /\ udp_request' = Blank /\ tcp_request' = Blank /\ deaf' = FALSE
    /\ Hangup(Clients)
    /\ fresh' = {} /\ last' = None /\ recent' = <<>>
    /\ UNCHANGED asking

-----------------------------------------------------------------------------
Init ==
    /\ phase = "setup"
    /\ \E r \in Ranges : vxi_port = Cyclic(r[1], r[2])
    /\ listening = NoPort /\ backlog = <<>> /\ client = None
    /\ udp = <<>> /\ tcp = <<>>
    /\ udp_request = Blank /\ tcp_request = Blank /\ deaf = FALSE
    /\ peer = [c \in Clients |-> "down"] /\ goodbye = {}
    /\ xid = 0 /\ told = [c \in Clients |-> NoPort]
    /\ fresh = {} /\ last = None /\ recent = <<>>

Firmware == Begin \/ BindUDP \/ BindTCP \/ BindIdle
            \/ VxiAccept \/ VxiIdle \/ VxiClose \/ VxiHang
            \/ HttpIdle \/ Kick \/ UploadFails

Peers == Collapse \/ \E c \in Clients :
    AskUDP(c) \/ AskTCP(c) \/ Connect(c) \/ SayGoodbye(c) \/ Vanish(c)

\* While the firmware hangs the network stack does not run either, and nothing
\* that comes then outlives the restart.
Next == Firmware \/ Watchdog \/ (phase # "hung" /\ Peers)

Spec == Init /\ [][Next]_vars
\* loop() goes on unless it hangs, and then the watchdog bites.
LoopingSpec == Spec /\ WF_vars(Firmware) /\ WF_vars(Watchdog)

-----------------------------------------------------------------------------
(* Properties.                                                             *)

Requests(kinds) == [by : Clients, xid : 1..MaxRequests, what : kinds]
Buffers == [xid : 0..MaxRequests, what : Whole]

\* Types; the port stays in its range whatever the order its ends came in, and
\* nobody is served and waiting at the same time.
TypeOK ==
    /\ phase \in {"setup", "bind", "vxi", "http", "hung"}
    /\ vxi_port \in [start : Nat \ {0}, end : Nat \ {0}, data : Nat]
    /\ vxi_port.data \in vxi_port.start..vxi_port.end
    /\ listening \in Nat
    /\ backlog \in Seq(Clients)
    /\ client \in (Clients \ Elements(backlog)) \cup {None}
    /\ udp \in Seq(Requests(OnUDP)) /\ tcp \in Seq(Requests(OnTCP))
    /\ udp_request \in Buffers /\ tcp_request \in Buffers
    /\ deaf \in BOOLEAN
    /\ peer \in [Clients -> {"up", "down"}]
    /\ goodbye \subseteq Clients
    /\ xid \in 0..MaxRequests
    /\ told \in [Clients -> Nat]
    /\ fresh \subseteq Clients

\* The port the bind server hands out is the one the VXI server listens on, and
\* stays so until the listener moves: a client that was told a port and comes
\* before the next rotation is let in.
FreshPortIsOpen ==
    /\ phase # "setup" => listening = vxi_port.data
    /\ \A c \in fresh : told[c] = listening

\* "Keeping START and END the same": where there is one port only the listener
\* never leaves it, what a client was told once stays true, over restarts too, and
\* nobody who waits to be accepted is dropped but by a restart.
OnePortIsForEver ==
    [][ is_noncyclic /\ phase # "setup" =>
        /\ \A c \in Clients : told'[c] \in {NoPort, listening}
        /\ phase' # "setup" =>
              /\ listening' = listening
              /\ \A c \in Elements(backlog) \ Elements(backlog') :
                    client' = c \/ ~Connected(c) ]_vars

\* An answer has a port exactly if it is a success: the one listened on, while no
\* client is served.  "The logic should not allow the port returned to be zero."
\* A whole request is answered with its own transaction id and status.  What is
\* answered to a request that was cut or not read at all is that of an earlier one;
\* and one that was not read carries an id older than its own, even after a
\* restart, so that its client does not take the port for an answer.
AnswersAreRight ==
    [][ last' \notin {last, None} =>
        /\ last'.status # "garbage"
        /\ last'.status = "success" <=> last'.port # NoPort
        /\ last'.port # NoPort => last'.port = listening /\ client = None
        /\ last'.what \in Whole => (last'.what = "getport" <=> last'.status = "success")
        /\ IF last'.what = "brief" THEN last'.xid < last'.asked ELSE last'.xid = last'.asked ]_vars

\* "As some clients require ports to change at each connection": when the
\* listener moves, it moves to a port that has not been used for as many
\* rotations as there are other ports.  (A restart begins again.)
EveryPortHasItsTurn ==
    [][ listening # listening' /\ listening # NoPort /\ listening' # NoPort =>
            listening' \notin Elements(recent) ]_vars

\* A connection that waits to be accepted is accepted, dropped with the
\* listener, or lost, as long as clients go in the end; a bind client that goes too
\* early does not keep the others waiting for ever.
WaitingIsServed ==
    \A c \in Clients :
        []<>available => (c \in Elements(backlog) ~> c \notin Elements(backlog))

\* A bind request over TCP is read although those over UDP come first, if the
\* server is found free with no datagram waiting again and again, or is lost in a
\* restart; it is all that is left after a failed upload.
TcpIsRead ==
    \A n \in 1..MaxRequests :
        []<>(phase = "bind" /\ available /\ udp = <<>>) =>
            ((\E r \in Elements(tcp) : r.xid = n) ~> ~\E r \in Elements(tcp) : r.xid = n)
=============================================================================
