---------------------------- MODULE ScpiControl ----------------------------
(***************************************************************************)
(* Who controls the SCPI parser: the raw socket server built into          *)
(* RidenScpi (riden_scpi.cpp), or a VXI-11 client, whose server            *)
(* (vxi_server.cpp) claims the parser through scpi_bridge.h.  The parser   *)
(* has one input buffer, one output buffer and two flags for all of them.  *)
(*                                                                         *)
(* loop() of main.cpp runs riden_scpi.loop(), vxi_server.loop() and        *)
(* http_server.loop() in turn.  The peers act at any time in between, and  *)
(* so riden_scpi.loop() is three steps: accept, read, reap.                *)
(*                                                                         *)
(* Operators marked "Fault:" are wrong versions of the operator that       *)
(* follows them; no other definition uses them.  They stand for mistakes   *)
(* in the code that a property of this module must catch.                  *)
(***************************************************************************)
EXTENDS Naturals, Sequences

CONSTANTS RawClients,     \* connections to the raw socket server
          VxiClients,     \* connections to the VXI-11 server
          None,           \* no connection
          InCapacity,     \* SCPI_INPUT_BUFFER_LENGTH, in pieces of a line
          OutCapacity,    \* WRITE_BUFFER_LENGTH, in answers
          LinkFirst,      \* TRUE: VXI clients create a link before they use it
          MaxItems,       \* bound: what a client sends in its life
          MaxInFlight     \* bound: what it has sent and is not yet read

Clients == RawClients \cup VxiClients

ASSUME ClientAssumption == RawClients \cap VxiClients = {} /\ None \notin Clients
ASSUME CapacityAssumption ==
    /\ InCapacity \in Nat /\ OutCapacity \in Nat
    /\ MaxItems \in Nat /\ MaxInFlight \in Nat
    /\ LinkFirst \in BOOLEAN

\* A raw client sends lines, possibly in parts; a line with a question has an
\* answer.  A VXI client sends packets.
RawItems == {"part", "query", "set"}
VxiItems == {"create", "query", "set", "blank", "read", "destroy"}

VARIABLES
    phase,              \* what loop() does next
    peer,               \* each client's end of its connection
    inbox,              \* what each client has sent and nobody has read
    sent,               \* how much each open client has sent so far
    rawQueue, vxiQueue, \* connections nobody has accepted yet
    rawClient,          \* RidenScpi::client
    vxiClient,          \* VXI_Server::client
    external_control, external_output_ready,
    inputBuf,           \* scpi_context.buffer: who sent each part
    writeBuf,           \* write_buffer: whose question each answer answers
    pending,            \* history: parts read of each client's unfinished line
    replies,            \* history: answer "of" a client's question sent "to" a client
    lines               \* history: lines parsed: whose parts, and whether complete

peers == <<peer, inbox, sent>>
servers == <<rawClient, vxiClient>>
parser == <<external_output_ready, inputBuf, writeBuf>>
history == <<pending, replies, lines>>
vars == <<phase, peers, rawQueue, vxiQueue, servers, external_control, parser, history>>

Elements(s) == {s[i] : i \in DOMAIN s}

\* client.connected(): open, or closed with data still to be read.
Connected(c) == peer[c] = "up" \/ inbox[c] # <<>>

\* client.stop(): what was not read is lost.
Stop(c) == /\ peer' = [peer EXCEPT ![c] = "down"]
           /\ inbox' = [inbox EXCEPT ![c] = <<>>]
           /\ sent' = [sent EXCEPT ![c] = 0]

Goto(p, q) == phase = p /\ phase' = q

\* claim_external_control() and release_external_control()
ClaimControl == external_control' = TRUE
\* Fault: control is kept.
KeepControl == UNCHANGED external_control
ReleaseControl == external_control' = FALSE

-----------------------------------------------------------------------------
(* The peers.                                                              *)

Connect(c) ==
    /\ peer[c] = "away"
    /\ peer' = [peer EXCEPT ![c] = "up"]
    /\ IF c \in RawClients
       THEN rawQueue' = rawQueue \cup {c} /\ UNCHANGED vxiQueue
       ELSE vxiQueue' = vxiQueue \cup {c} /\ UNCHANGED rawQueue
    /\ UNCHANGED <<phase, inbox, sent, servers, external_control, parser, history>>

Transmit(c, item) ==
    /\ peer[c] = "up" /\ sent[c] < MaxItems /\ Len(inbox[c]) < MaxInFlight
    /\ item \in IF c \in RawClients THEN RawItems ELSE VxiItems
    /\ c \in VxiClients /\ LinkFirst => (sent[c] = 0 <=> item = "create")
    /\ inbox' = [inbox EXCEPT ![c] = Append(@, item)]
    /\ sent' = [sent EXCEPT ![c] = @ + 1]
    /\ UNCHANGED <<phase, peer, rawQueue, vxiQueue, servers, external_control, parser, history>>

\* The client closes the connection or is lost; what it has sent may be lost too.
Vanish(c) ==
    /\ peer[c] = "up"
    /\ peer' = [peer EXCEPT ![c] = "down"]
    /\ inbox' \in {inbox, [inbox EXCEPT ![c] = <<>>]}
    /\ sent' = [sent EXCEPT ![c] = 0]
    /\ UNCHANGED <<phase, rawQueue, vxiQueue, servers, external_control, parser, history>>

\* The network stack: the handle of a dead connection may compare as false
\* before the server has looked at connected().
Collapse(c) ==
    /\ ~Connected(c)
    /\ \/ rawClient = c /\ rawClient' = None /\ UNCHANGED vxiClient
       \/ vxiClient = c /\ vxiClient' = None /\ UNCHANGED rawClient
    /\ UNCHANGED <<phase, peers, rawQueue, vxiQueue, external_control, parser, history>>

-----------------------------------------------------------------------------
(* RidenScpi::loop(): the raw socket server.                               *)

\* Fault: the client is left alone while somebody else has control.
RawYieldQuietly ==
    /\ external_control
    /\ Goto("accept", "vxi")
    /\ UNCHANGED <<peers, rawQueue, vxiQueue, servers, external_control, parser, history>>
\* Under external control the raw client is stopped and nothing else is done.
RawYield ==
    /\ external_control
    /\ Goto("accept", "vxi")
    /\ rawClient' = None
    /\ IF rawClient # None THEN Stop(rawClient) ELSE UNCHANGED peers
    /\ UNCHANGED <<rawQueue, vxiQueue, vxiClient, external_control, parser, history>>

\* Fault: the answers of others are left in the output buffer.
ResetInputOnly == inputBuf' = <<>> /\ UNCHANGED <<external_output_ready, writeBuf>>
\* reset_buffers()
ResetBuffers == inputBuf' = <<>> /\ writeBuf' = <<>> /\ UNCHANGED external_output_ready

\* Fault: a new client is served whoever has control.
RawAcceptAnyway ==
    /\ Goto("accept", "read")
    /\ IF rawQueue = {} \/ rawClient # None
       THEN UNCHANGED <<rawQueue, rawClient, parser>>
       ELSE rawClient' \in rawQueue /\ rawQueue' = rawQueue \ {rawClient'} /\ ResetBuffers
    /\ UNCHANGED <<peers, vxiQueue, vxiClient, external_control, history>>
\* A new client is served if there is none, and stopped otherwise.
RawAccept ==
    /\ ~external_control
    /\ Goto("accept", "read")
    /\ \/ /\ rawQueue = {}
          /\ UNCHANGED <<peers, rawQueue, rawClient, parser>>
       \/ \E c \in rawQueue :
             /\ rawQueue' = rawQueue \ {c}
             /\ \/ /\ Connected(c) /\ rawClient = None
                   /\ rawClient' = c /\ ResetBuffers
                   /\ UNCHANGED peers
                \/ /\ Connected(c) /\ rawClient # None
                   /\ Stop(c)
                   /\ UNCHANGED <<rawClient, parser>>
                \/ ~Connected(c) /\ UNCHANGED <<peers, rawClient, parser>>
    /\ UNCHANGED <<vxiQueue, vxiClient, external_control, history>>

\* SCPI_Input() parses what is in the buffer as one line, completed by c.
Parse(c, before) ==
    /\ inputBuf' = <<>>
    /\ lines' = lines \cup {[by |-> Elements(before) \cup {c},
                             whole |-> Len(before) = pending[c]]}
    /\ pending' = [pending EXCEPT ![c] = 0]

\* SCPI_Write(): the answer to c's question goes behind what is there already.
Written(c) == Append(writeBuf, c)

\* SCPI_Flush() for the raw server: the whole output buffer goes to the client,
\* unless its handle has collapsed meanwhile.
FlushRaw(c) ==
    /\ external_output_ready' = FALSE
    /\ \/ /\ replies' = replies \cup {[to |-> c, of |-> o] : o \in Elements(Written(c))}
          /\ writeBuf' = <<>>
       \/ /\ peer[c] = "down"
          /\ writeBuf' = Written(c) /\ UNCHANGED replies

\* One piece of a line per step: readBytes() may time out between any two.
RawRead ==
    /\ Goto("read", "reap")
    /\ IF rawClient = None \/ inbox[rawClient] = <<>>
       THEN UNCHANGED <<peers, rawClient, parser, history>>
       ELSE LET c == rawClient
                item == Head(inbox[c])
                Take == /\ inbox' = [inbox EXCEPT ![c] = Tail(@)]
                        /\ UNCHANGED <<peer, sent, rawClient>>
            IN  \/ /\ Len(inputBuf) >= InCapacity       \* too long: the client is stopped
                   /\ inputBuf' = <<>> /\ rawClient' = None
                   /\ Stop(c)
                   /\ UNCHANGED <<external_output_ready, writeBuf, history>>
                \/ /\ Len(inputBuf) < InCapacity /\ item = "part"
                   /\ inputBuf' = Append(inputBuf, c)
                   /\ pending' = [pending EXCEPT ![c] = @ + 1]
                   /\ Take
                   /\ UNCHANGED <<external_output_ready, writeBuf, replies, lines>>
                \/ /\ Len(inputBuf) < InCapacity /\ item = "set"
                   /\ Parse(c, inputBuf)
                   /\ Take
                   /\ UNCHANGED <<external_output_ready, writeBuf, replies>>
                \/ /\ Len(inputBuf) < InCapacity /\ item = "query"
                   /\ Parse(c, inputBuf) /\ FlushRaw(c)
                   /\ Take
    /\ UNCHANGED <<rawQueue, vxiQueue, vxiClient, external_control>>

\* "Stop client which disconnects."
RawReap ==
    /\ Goto("reap", "vxi")
    /\ rawClient' = IF rawClient # None /\ Connected(rawClient) THEN rawClient ELSE None
    /\ UNCHANGED <<peers, rawQueue, vxiQueue, vxiClient, external_control, parser, history>>

-----------------------------------------------------------------------------
(* VXI_Server::loop(), handle_packet() and the calls through scpi_bridge.h. *)

\* Fault: the connection stays in the listener's queue.
VxiPeek ==
    /\ vxiClient = None
    /\ Goto("vxi", "http")
    /\ \/ vxiQueue = {} /\ UNCHANGED vxiClient
       \/ vxiClient' \in vxiQueue
    /\ UNCHANGED <<peers, rawQueue, vxiQueue, rawClient, external_control, parser, history>>
VxiAccept ==
    /\ vxiClient = None
    /\ Goto("vxi", "http")
    /\ \/ vxiQueue = {} /\ UNCHANGED <<vxiQueue, vxiClient>>
       \/ \E c \in vxiQueue :
             /\ vxiQueue' = vxiQueue \ {c}
             /\ vxiClient' = IF Connected(c) THEN c ELSE None
    /\ UNCHANGED <<peers, rawQueue, rawClient, external_control, parser, history>>

\* The client is gone: begin_next() stops it, and nothing releases control.
VxiClose ==
    /\ vxiClient # None /\ ~Connected(vxiClient)
    /\ Goto("vxi", "http")
    /\ vxiClient' = None
    /\ UNCHANGED <<peers, rawQueue, vxiQueue, rawClient, external_control, parser, history>>

\* get_vxi_packet() has waited for a packet in vain.
VxiIdle ==
    /\ vxiClient # None /\ peer[vxiClient] = "up" /\ inbox[vxiClient] = <<>>
    /\ Goto("vxi", "http")
    /\ UNCHANGED <<peers, rawQueue, vxiQueue, servers, external_control, parser, history>>

Packet(kind) ==
    /\ vxiClient # None /\ inbox[vxiClient] # <<>> /\ Head(inbox[vxiClient]) = kind
    /\ Goto("vxi", "http")
    /\ UNCHANGED <<rawQueue, vxiQueue, rawClient>>

TakePacket == /\ inbox' = [inbox EXCEPT ![vxiClient] = Tail(@)]
              /\ UNCHANGED <<peer, sent, vxiClient>>

CreateLink ==
    /\ Packet("create") /\ TakePacket
    /\ ClaimControl
    /\ UNCHANGED <<parser, history>>

\* write(): the packet overwrites the input buffer and takes control.  The
\* answer waits in the output buffer, behind whatever is there already.
DevWrite(kind) ==
    /\ kind \in {"query", "set"}
    /\ Packet(kind) /\ TakePacket
    /\ ClaimControl
    /\ Parse(vxiClient, <<>>)
    /\ IF kind = "query"
       THEN writeBuf' = Written(vxiClient) /\ external_output_ready' = TRUE
       ELSE UNCHANGED <<writeBuf, external_output_ready>>
    /\ UNCHANGED replies

\* write() of nothing but white space, or of more than the input buffer holds, returns
\* before it takes control.
DevWriteBlank ==
    /\ Packet("blank") /\ TakePacket
    /\ UNCHANGED <<external_control, parser, history>>

\* RidenScpi::read(): the whole output buffer, if a complete answer is in it.
Fetch ==
    IF external_control /\ external_output_ready /\ Len(writeBuf) <= OutCapacity
    THEN /\ replies' = replies \cup {[to |-> vxiClient, of |-> o] : o \in Elements(writeBuf)}
         /\ writeBuf' = <<>>
    ELSE UNCHANGED <<replies, writeBuf>>

\* VXI_Server::read(): the client is told of no error and given what there is.
DevRead ==
    /\ Packet("read") /\ TakePacket
    /\ Fetch
    /\ UNCHANGED <<external_control, external_output_ready, inputBuf, pending, lines>>

\* The link is gone, control is released and the connection closed.
DestroyLink ==
    /\ Packet("destroy")
    /\ ReleaseControl
    /\ vxiClient' = None /\ Stop(vxiClient)
    /\ UNCHANGED <<parser, history>>

-----------------------------------------------------------------------------
(* The web page's "disconnect client" buttons.                             *)

HttpIdle ==
    /\ Goto("http", "accept")
    /\ UNCHANGED <<peers, rawQueue, vxiQueue, servers, external_control, parser, history>>

KickRaw ==
    /\ rawClient # None /\ Connected(rawClient)
    /\ Goto("http", "accept")
    /\ rawClient' = None /\ Stop(rawClient)
    /\ UNCHANGED <<rawQueue, vxiQueue, vxiClient, external_control, parser, history>>

KickVxi ==
    /\ vxiClient # None /\ Connected(vxiClient)
    /\ Goto("http", "accept")
    /\ vxiClient' = None /\ Stop(vxiClient)
    /\ ReleaseControl
    /\ UNCHANGED <<rawQueue, vxiQueue, rawClient, parser, history>>

-----------------------------------------------------------------------------
Init ==
    /\ phase = "accept"
    /\ peer = [c \in Clients |-> "away"]
    /\ inbox = [c \in Clients |-> <<>>] /\ sent = [c \in Clients |-> 0]
    /\ rawQueue = {} /\ vxiQueue = {}
    /\ rawClient = None /\ vxiClient = None
    /\ external_control = FALSE /\ external_output_ready = FALSE
    /\ inputBuf = <<>> /\ writeBuf = <<>>
    /\ pending = [c \in Clients |-> 0]
    /\ replies = {} /\ lines = {}

Loop ==
    \/ RawYield \/ RawAccept \/ RawRead \/ RawReap
    \/ VxiAccept \/ VxiClose \/ VxiIdle
    \/ CreateLink \/ DevWriteBlank \/ DevRead \/ DestroyLink
    \/ \E kind \in VxiItems : DevWrite(kind)
    \/ HttpIdle \/ KickRaw \/ KickVxi

Peers == \E c \in Clients :
    \/ Connect(c) \/ Vanish(c) \/ Collapse(c)
    \/ \E item \in RawItems \cup VxiItems : Transmit(c, item)

Next == Loop \/ Peers

Spec == Init /\ [][Next]_vars
\* loop() runs for ever.
LoopingSpec == Spec /\ WF_vars(Loop)

-----------------------------------------------------------------------------
(* Properties.                                                             *)

\* Types; and a connection that is being served is neither waiting to be
\* accepted nor yet to come.
TypeOK ==
    /\ phase \in {"accept", "read", "reap", "vxi", "http"}
    /\ peer \in [Clients -> {"away", "up", "down"}]
    /\ inbox \in [Clients -> Seq(RawItems \cup VxiItems)]
    /\ sent \in [Clients -> 0..MaxItems]
    /\ rawQueue \subseteq RawClients /\ vxiQueue \subseteq VxiClients
    /\ rawClient \in (RawClients \ rawQueue) \cup {None}
    /\ vxiClient \in (VxiClients \ vxiQueue) \cup {None}
    /\ external_control \in BOOLEAN /\ external_output_ready \in BOOLEAN
    /\ inputBuf \in Seq(RawClients) /\ writeBuf \in Seq(Clients)
    /\ pending \in [Clients -> Nat]
    /\ replies \subseteq [to : Clients, of : Clients]
    /\ lines \subseteq [by : SUBSET Clients, whole : BOOLEAN]

\* A raw client only gets answers to its own questions: what others have left
\* in the output buffer is gone when a client is accepted, and a VXI client
\* cannot put anything there before the raw client has been stopped.
RawGetsOwnAnswers == \A r \in replies : r.to \in RawClients => r.of = r.to

\* The parser never sees a line put together from the parts of two clients, nor
\* the rest of a line whose beginning was overwritten.
LinesAreWhole == \A l \in lines : l.whole /\ \A c, d \in l.by : c = d

\* The two servers share the parser the way ParserContract promises: a raw client finds
\* it empty and to itself, and no VXI client writes before the raw client has left.
Contract == INSTANCE ParserContract WITH
    RawUsers <- RawClients, VxiUsers <- VxiClients, Nobody <- None,
    claimed <- external_control, user <- rawClient, left <- Elements(writeBuf),
    given <- replies, parsed <- lines
SharesAsPromised == Contract!Spec

\* "While you use the VXI server, the raw socket server is disabled": the raw
\* client is stopped before long, or control has been given back.
RawIsDisabled == external_control ~> (rawClient = None \/ ~external_control)

\* A link that is destroyed in order gives control back, unless the client is
\* lost before the packet is read.
DestroyReleases ==
    \A c \in VxiClients :
        vxiClient = c /\ "destroy" \in Elements(inbox[c])
            ~> ~external_control \/ (vxiClient = c /\ peer[c] = "down")

-----------------------------------------------------------------------------
(* What comments of the code say, and the code does not do.                *)

\* "release_control() should be called when the SCPI parser is no longer needed":
\* once no VXI client is left, control is given back, or the next one takes it.
ControlComesBack ==
    external_control /\ vxiClient = None ~> ~external_control \/ vxiClient # None
=============================================================================
