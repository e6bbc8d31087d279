-------------------------- MODULE ScpiControlProofs --------------------------
(***************************************************************************)
(* Proofs about ScpiControl: whose answers a raw client gets, and whose    *)
(* parts a line is made of, for all clients, capacities and bounds.        *)
(***************************************************************************)
EXTENDS ScpiControl, SequenceTheorems, TLAPS

-----------------------------------------------------------------------------
(* Sequences.                                                              *)

LEMMA Appended ==
    ASSUME NEW S, NEW s \in Seq(S), NEW e \in S
    PROVE  /\ Append(s, e) \in Seq(S) /\ Append(s, e) # <<>>
           /\ Len(Append(s, e)) = Len(s) + 1
           /\ \A i \in 1..Len(s) : Append(s, e)[i] = s[i]
           /\ Append(s, e)[Len(s) + 1] = e
           /\ Elements(Append(s, e)) = Elements(s) \cup {e}
<1>1. /\ Append(s, e) \in Seq(S) /\ Len(Append(s, e)) = Len(s) + 1
      /\ \A i \in 1..Len(s) : Append(s, e)[i] = s[i]
      /\ Append(s, e)[Len(s) + 1] = e
  BY AppendProperties
<1>2. Len(s) \in Nat /\ DOMAIN s = 1..Len(s) /\ DOMAIN Append(s, e) = 1..(Len(s) + 1)
  BY <1>1
<1>3. \A i \in 1..(Len(s) + 1) : i \in 1..Len(s) \/ i = Len(s) + 1
  BY <1>2
<1>4. Elements(Append(s, e)) \subseteq Elements(s) \cup {e}
  BY <1>1, <1>2, <1>3 DEF Elements
<1>5. Elements(s) \subseteq Elements(Append(s, e)) /\ e \in Elements(Append(s, e))
  BY <1>1, <1>2 DEF Elements
<1>6. QED
  BY <1>1, <1>2, <1>4, <1>5

LEMMA Shortened ==
    ASSUME NEW S, NEW s \in Seq(S), s # <<>>
    PROVE  /\ Head(s) \in S /\ Head(s) = s[1] /\ 1 \in 1..Len(s)
           /\ Tail(s) \in Seq(S) /\ Len(Tail(s)) = Len(s) - 1
           /\ \A i \in 1..Len(Tail(s)) : i + 1 \in 1..Len(s) /\ Tail(s)[i] = s[i + 1]
<1>1. Len(s) \in Nat /\ Len(s) > 0
  BY EmptySeq
<1>2. /\ Tail(s) \in Seq(S) /\ Len(Tail(s)) = Len(s) - 1
      /\ \A i \in 1..Len(Tail(s)) : Tail(s)[i] = s[i + 1]
  BY HeadTailProperties
<1>3. Head(s) = s[1] /\ s[1] \in S
  BY <1>1
<1>4. QED
  BY <1>1, <1>2, <1>3

LEMMA Nothing == \A S : <<>> \in Seq(S) /\ Len(<<>>) = 0 /\ Elements(<<>>) = {}
BY DEF Elements

\* What is in a sequence is in the set it is a sequence of.
LEMMA ElementsIn == \A S : \A s \in Seq(S) : Elements(s) \subseteq S
BY DEF Elements

-----------------------------------------------------------------------------
(* The inductive invariant.                                                *)

\* A client that is waiting or served has connected.
HasCome == \A c \in Clients :
    c \in rawQueue \cup vxiQueue \cup {rawClient, vxiClient} => peer[c] # "away"

\* Past RawYield there is either no raw client or no external control.
Yielded ==
    /\ phase \in {"read", "reap"} => ~external_control
    /\ phase = "vxi" /\ external_control => rawClient = None

\* Nothing of what the client has sent was read: CREATE_LINK comes first.
Unlinked(v) ==
    /\ inbox[v] # <<>> => inbox[v][1] = "create"
    /\ \A i \in 2..Len(inbox[v]) : inbox[v][i] # "create"
    /\ peer[v] # "down" => (sent[v] = 0 <=> inbox[v] = <<>>)

\* CREATE_LINK was read, and control taken.
Linked(v) ==
    /\ external_control
    /\ \A i \in 1..Len(inbox[v]) : inbox[v][i] # "create"
    /\ peer[v] # "down" => sent[v] # 0

LinksFirst ==
    \A v \in VxiClients : Unlinked(v) \/ (v = vxiClient /\ Linked(v))

\* While a raw client is served, both buffers are its own.
OwnBuffers ==
    rawClient # None =>
        /\ Elements(writeBuf) \subseteq {rawClient}
        /\ Elements(inputBuf) \subseteq {rawClient}
        /\ Len(inputBuf) = pending[rawClient]

\* Only a raw client that is, or was, served has parts of a line pending.
NonePending ==
    \A c \in Clients : c \in VxiClients \cup rawQueue \/ peer[c] = "away" => pending[c] = 0

TypeInv == TypeOK /\ HasCome
Sound == Yielded /\ LinksFirst /\ OwnBuffers /\ NonePending
IInv == TypeInv /\ Sound /\ RawGetsOwnAnswers /\ LinesAreWhole

-----------------------------------------------------------------------------
(* Types.                                                                  *)

PeerType ==
    /\ peer \in [Clients -> {"away", "up", "down"}]
    /\ inbox \in [Clients -> Seq(RawItems \cup VxiItems)]
    /\ sent \in [Clients -> 0..MaxItems]
    /\ rawQueue \subseteq RawClients /\ vxiQueue \subseteq VxiClients
    /\ rawClient \in (RawClients \ rawQueue) \cup {None}
    /\ vxiClient \in (VxiClients \ vxiQueue) \cup {None}

ParserType ==
    /\ external_control \in BOOLEAN /\ external_output_ready \in BOOLEAN
    /\ inputBuf \in Seq(RawClients) /\ writeBuf \in Seq(Clients)
    /\ pending \in [Clients -> Nat]
    /\ replies \subseteq [to : Clients, of : Clients]
    /\ lines \subseteq [by : SUBSET Clients, whole : BOOLEAN]

Phases == {"accept", "read", "reap", "vxi", "http"}

LEMMA TypeParts == /\ TypeOK <=> phase \in Phases /\ PeerType /\ ParserType
                   /\ TypeOK' <=> phase' \in Phases /\ PeerType' /\ ParserType'
BY DEF TypeOK, PeerType, ParserType, Phases

LEMMA Sides ==
    /\ None \notin RawClients /\ None \notin VxiClients /\ None \notin Clients
    /\ RawClients \subseteq Clients /\ VxiClients \subseteq Clients
    /\ \A c \in Clients : c \in RawClients \/ c \in VxiClients
    /\ \A c \in RawClients : c \notin VxiClients
BY ClientAssumption DEF Clients

\* A client that is stopped has connected, or has not, as before.
LEMMA StopType ==
    ASSUME TypeInv, NEW c \in Clients, peer[c] # "away", Stop(c)
    PROVE  /\ peer' \in [Clients -> {"away", "up", "down"}]
           /\ inbox' \in [Clients -> Seq(RawItems \cup VxiItems)]
           /\ sent' \in [Clients -> 0..MaxItems]
           /\ \A d \in Clients : peer[d] # "away" => peer'[d] # "away"
<1>1. <<>> \in Seq(RawItems \cup VxiItems) /\ 0 \in 0..MaxItems
  BY CapacityAssumption
<1>2. QED
  BY <1>1 DEF TypeInv, TypeOK, Stop

\* Reading one item of a client's.
LEMMA TailType ==
    ASSUME TypeInv, NEW c \in Clients, inbox[c] # <<>>,
           inbox' = [inbox EXCEPT ![c] = Tail(@)]
    PROVE  inbox' \in [Clients -> Seq(RawItems \cup VxiItems)]
<1>1. inbox[c] \in Seq(RawItems \cup VxiItems)
  BY DEF TypeInv, TypeOK
<1>2. Tail(inbox[c]) \in Seq(RawItems \cup VxiItems)
  BY <1>1, Shortened
<1>3. QED
  BY <1>2 DEF TypeInv, TypeOK

LEMMA ParseType ==
    ASSUME TypeInv, NEW c \in Clients, NEW before \in Seq(RawClients), Parse(c, before)
    PROVE  /\ inputBuf' \in Seq(RawClients)
           /\ pending' \in [Clients -> Nat]
           /\ lines' \subseteq [by : SUBSET Clients, whole : BOOLEAN]
<1>1. Elements(before) \cup {c} \in SUBSET Clients
  BY ElementsIn, Sides
<1>2. (Len(before) = pending[c]) \in BOOLEAN
  OBVIOUS
<1>3. [by |-> Elements(before) \cup {c}, whole |-> Len(before) = pending[c]]
        \in [by : SUBSET Clients, whole : BOOLEAN]
  BY <1>1, <1>2
<1>4. lines' \subseteq [by : SUBSET Clients, whole : BOOLEAN]
  BY <1>3 DEF TypeInv, TypeOK, Parse
<1>5. inputBuf' \in Seq(RawClients)
  BY Nothing DEF Parse
<1>6. pending' \in [Clients -> Nat]
  BY DEF TypeInv, TypeOK, Parse
<1>7. QED
  BY <1>4, <1>5, <1>6

LEMMA WrittenType ==
    ASSUME TypeInv, NEW c \in Clients
    PROVE  /\ Written(c) \in Seq(Clients)
           /\ Elements(Written(c)) \subseteq Clients
           /\ Elements(Written(c)) = Elements(writeBuf) \cup {c}
<1>1. writeBuf \in Seq(Clients)
  BY DEF TypeInv, TypeOK
<1>2. QED
  BY <1>1, Appended, ElementsIn DEF Written

LEMMA FlushType ==
    ASSUME TypeInv, NEW c \in Clients, FlushRaw(c)
    PROVE  /\ external_output_ready' \in BOOLEAN /\ writeBuf' \in Seq(Clients)
           /\ replies' \subseteq [to : Clients, of : Clients]
<1>1. writeBuf' \in Seq(Clients)
  BY WrittenType, Nothing DEF FlushRaw
<1>2. \A o \in Elements(Written(c)) : [to |-> c, of |-> o] \in [to : Clients, of : Clients]
  BY WrittenType
<1>3. QED
  BY <1>1, <1>2 DEF FlushRaw, TypeInv, TypeOK

\* None of the steps that leave the peers alone makes anybody come or go.
LEMMA HasComeStays ==
    ASSUME HasCome, \A d \in Clients : peer[d] # "away" => peer'[d] # "away",
           rawQueue' \subseteq rawQueue, vxiQueue' \subseteq vxiQueue,
           rawClient' \in rawQueue \cup {rawClient, None},
           vxiClient' \in vxiQueue \cup {vxiClient, None}
    PROVE  HasCome'
<1>1. SUFFICES ASSUME NEW c \in Clients,
                      c \in rawQueue' \cup vxiQueue' \cup {rawClient', vxiClient'}
               PROVE  peer'[c] # "away"
  BY DEF HasCome
<1>2. c # None
  BY Sides
<1>3. c \in rawQueue \cup vxiQueue \cup {rawClient, vxiClient}
  BY <1>1, <1>2
<1>4. QED
  BY <1>3 DEF HasCome

LEMMA PeersType ==
    ASSUME TypeInv, Peers
    PROVE  TypeInv'
<1> USE DEF peers, servers, parser, history
<1>1. ParserType' /\ phase' \in Phases
  BY TypeParts DEF TypeInv, ParserType, Peers, Connect, Vanish, Collapse, Transmit
<1>2. PICK c \in Clients :
          \/ Connect(c) \/ Vanish(c) \/ Collapse(c)
          \/ \E item \in RawItems \cup VxiItems : Transmit(c, item)
  BY DEF Peers
<1>3. CASE Connect(c)
  <2>1. c \notin rawQueue \cup vxiQueue \cup {rawClient, vxiClient}
    BY <1>3 DEF TypeInv, HasCome, Connect
  <2>2. PeerType'
    BY <1>3, <2>1, TypeParts, Sides DEF TypeInv, PeerType, Connect
  <2>3. \A d \in Clients : d # c => peer'[d] = peer[d]
    BY <1>3, TypeParts DEF TypeInv, PeerType, Connect
  <2>4. peer'[c] = "up"
    BY <1>3, TypeParts DEF TypeInv, PeerType, Connect
  <2>5. HasCome'
    BY <1>3, <2>3, <2>4 DEF TypeInv, HasCome, Connect
  <2>6. QED
    BY <1>1, <2>2, <2>5, TypeParts DEF TypeInv
<1>4. CASE Vanish(c)
  <2>1. <<>> \in Seq(RawItems \cup VxiItems) /\ 0 \in 0..MaxItems
    BY CapacityAssumption
  <2>2. inbox' \in [Clients -> Seq(RawItems \cup VxiItems)] /\ sent' \in [Clients -> 0..MaxItems]
    BY <1>4, <2>1, TypeParts DEF TypeInv, PeerType, Vanish
  <2>3. PeerType'
    BY <1>4, <2>2, TypeParts DEF TypeInv, PeerType, Vanish
  <2>4. HasCome'
    BY <1>4, TypeParts DEF TypeInv, PeerType, HasCome, Vanish
  <2>5. QED
    BY <1>1, <2>3, <2>4, TypeParts DEF TypeInv
<1>5. CASE Collapse(c)
  <2>1. PeerType'
    BY <1>5, TypeParts DEF TypeInv, PeerType, Collapse
  <2>2. HasCome'
    BY <1>5, HasComeStays DEF TypeInv, Collapse
  <2>3. QED
    BY <1>1, <2>1, <2>2, TypeParts DEF TypeInv
<1>6. CASE \E item \in RawItems \cup VxiItems : Transmit(c, item)
  <2>1. PICK item \in RawItems \cup VxiItems : Transmit(c, item)
    BY <1>6
  <2>2. inbox[c] \in Seq(RawItems \cup VxiItems)
    BY TypeParts DEF TypeInv, PeerType
  <2>3. Append(inbox[c], item) \in Seq(RawItems \cup VxiItems)
    BY <2>2, Appended
  <2>4. sent[c] + 1 \in 0..MaxItems
    BY <2>1, TypeParts, CapacityAssumption DEF TypeInv, PeerType, Transmit
  <2>5. PeerType'
    BY <2>1, <2>3, <2>4, TypeParts DEF TypeInv, PeerType, Transmit
  <2>6. HasCome'
    BY <2>1 DEF TypeInv, HasCome, Transmit
  <2>7. QED
    BY <1>1, <2>5, <2>6, TypeParts DEF TypeInv
<1>10. QED
  BY <1>2, <1>3, <1>4, <1>5, <1>6

LEMMA RawType ==
    ASSUME TypeInv, RawYield \/ RawAccept \/ RawRead \/ RawReap
    PROVE  TypeInv'
<1> USE DEF peers, servers, parser, history
<1>1. rawClient # None => rawClient \in Clients /\ peer[rawClient] # "away"
  BY TypeParts, Sides DEF TypeInv, PeerType, HasCome
<1>2. CASE RawYield
  <2>1. PeerType' /\ HasCome'
    <3>1. CASE rawClient = None
      BY <1>2, <3>1, HasComeStays, TypeParts DEF TypeInv, PeerType, RawYield
    <3>2. CASE rawClient # None
      <4>1. Stop(rawClient)
        BY <1>2, <3>2 DEF RawYield
      <4>2. QED
        BY <1>1, <1>2, <3>2, <4>1, StopType, HasComeStays, TypeParts DEF TypeInv, PeerType, RawYield
    <3>3. QED
      BY <3>1, <3>2
  <2>2. QED
    BY <1>2, <2>1, TypeParts DEF TypeInv, ParserType, Phases, Goto, RawYield
<1>3. CASE RawAccept
  <2>1. ParserType' /\ phase' \in Phases
    BY <1>3, Nothing, TypeParts DEF TypeInv, ParserType, Phases, Goto, RawAccept, ResetBuffers
  <2>2. PeerType' /\ HasCome'
    <3>1. CASE rawQueue = {} /\ UNCHANGED <<peers, rawQueue, rawClient>>
      BY <1>3, <3>1, HasComeStays, TypeParts DEF TypeInv, PeerType, RawAccept
    <3>2. CASE \E c \in rawQueue :
                  /\ rawQueue' = rawQueue \ {c}
                  /\ \/ rawClient' \in {c, rawClient} /\ UNCHANGED peers
                     \/ rawClient' = rawClient /\ Stop(c)
      <4>1. PICK c \in rawQueue :
                  /\ rawQueue' = rawQueue \ {c}
                  /\ \/ rawClient' \in {c, rawClient} /\ UNCHANGED peers
                     \/ rawClient' = rawClient /\ Stop(c)
        BY <3>2
      <4>2. c \in RawClients /\ c \in Clients /\ peer[c] # "away"
        BY TypeParts, Sides DEF TypeInv, PeerType, HasCome
      <4>3. CASE rawClient' \in {c, rawClient} /\ UNCHANGED peers
        BY <1>3, <4>1, <4>2, <4>3, HasComeStays, TypeParts DEF TypeInv, PeerType, RawAccept
      <4>4. CASE rawClient' = rawClient /\ Stop(c)
        BY <1>3, <4>1, <4>2, <4>4, StopType, HasComeStays, TypeParts DEF TypeInv, PeerType, RawAccept
      <4>5. QED
        BY <4>1, <4>3, <4>4
    <3>3. QED
      BY <1>3, <3>1, <3>2 DEF RawAccept
  <2>3. QED
    BY <2>1, <2>2, TypeParts DEF TypeInv
<1>4. CASE RawRead
  <2>1. CASE UNCHANGED <<peers, rawClient, parser, history>>
    BY <1>4, <2>1, HasComeStays, TypeParts DEF TypeInv, PeerType, ParserType, Phases, Goto, RawRead
  <2>2. CASE rawClient # None /\ inbox[rawClient] # <<>> /\ ~UNCHANGED <<peers, rawClient, parser, history>>
    <3>1. CASE Len(inputBuf) >= InCapacity
      <4>1. /\ inputBuf' = <<>> /\ rawClient' = None /\ Stop(rawClient)
            /\ UNCHANGED <<external_output_ready, writeBuf, history>>
        BY <1>4, <2>2, <3>1, CapacityAssumption, TypeParts DEF TypeInv, ParserType, RawRead
      <4>2. PeerType' /\ HasCome'
        BY <1>1, <1>4, <2>2, <4>1, StopType, HasComeStays, TypeParts DEF TypeInv, PeerType, RawRead
      <4>3. ParserType' /\ phase' \in Phases
        BY <1>4, <4>1, Nothing, TypeParts DEF TypeInv, ParserType, Phases, Goto, RawRead
      <4>4. QED
        BY <4>2, <4>3, TypeParts DEF TypeInv
    <3>2. CASE ~(Len(inputBuf) >= InCapacity)
      <4>1. /\ inbox' = [inbox EXCEPT ![rawClient] = Tail(@)]
            /\ UNCHANGED <<peer, sent, rawClient>>
        BY <1>4, <2>2, <3>2 DEF RawRead
      <4>2. PeerType' /\ HasCome'
        BY <1>1, <1>4, <2>2, <4>1, TailType, HasComeStays, TypeParts DEF TypeInv, PeerType, RawRead
      <4>3. inputBuf \in Seq(RawClients) /\ rawClient \in RawClients
        BY <2>2, TypeParts DEF TypeInv, ParserType, PeerType
      <4>4. ParserType'
        <5>1. CASE /\ inputBuf' = Append(inputBuf, rawClient)
                   /\ pending' = [pending EXCEPT ![rawClient] = @ + 1]
                   /\ UNCHANGED <<external_output_ready, writeBuf, replies, lines>>
          <6>1. inputBuf' \in Seq(RawClients)
            BY <4>3, <5>1, Appended
          <6>2. ParserType /\ external_control' = external_control
            BY <1>4, TypeParts DEF TypeInv, RawRead
          <6>3. pending' \in [Clients -> Nat]
            <7>1. pending \in [Clients -> Nat]
              BY <6>2 DEF ParserType
            <7>2. pending' = [pending EXCEPT ![rawClient] = @ + 1]
              BY <5>1
            <7>3. pending[rawClient] + 1 \in Nat
              BY <1>1, <2>2, <7>1
            <7>4. QED
              BY <7>1, <7>2, <7>3
          <6>4. /\ external_output_ready' = external_output_ready /\ writeBuf' = writeBuf
                /\ replies' = replies /\ lines' = lines
            BY <5>1
          <6>5. QED
            BY <6>1, <6>2, <6>3, <6>4 DEF ParserType
        <5>2. CASE Parse(rawClient, inputBuf)
          <6>1. \/ UNCHANGED <<external_output_ready, writeBuf, replies>>
                \/ FlushRaw(rawClient)
            BY <1>4, <2>2, <3>2 DEF RawRead, Parse
          <6>2. QED
            BY <1>1, <1>4, <2>2, <4>3, <5>2, <6>1, ParseType, FlushType, TypeParts
               DEF TypeInv, ParserType, RawRead
        <5>3. QED
          BY <1>4, <2>2, <3>2, <5>1, <5>2 DEF RawRead
      <4>5. QED
        BY <1>4, <4>2, <4>4, TypeParts DEF TypeInv, Phases, Goto, RawRead
    <3>3. QED
      BY <3>1, <3>2
  <2>3. QED
    BY <1>4, <2>1, <2>2 DEF RawRead
<1>5. CASE RawReap
  <2>1. PeerType' /\ HasCome'
    BY <1>5, HasComeStays, TypeParts DEF TypeInv, PeerType, RawReap
  <2>2. QED
    BY <1>5, <2>1, TypeParts DEF TypeInv, ParserType, Phases, Goto, RawReap
<1>6. QED
  BY <1>2, <1>3, <1>4, <1>5

LEMMA VxiType ==
    ASSUME TypeInv,
           \/ VxiAccept \/ VxiClose \/ VxiIdle
           \/ CreateLink \/ DevWriteBlank \/ DevRead \/ DestroyLink
           \/ \E kind \in VxiItems : DevWrite(kind)
    PROVE  TypeInv'
<1> USE DEF peers, servers, parser, history
<1>1. vxiClient # None => vxiClient \in Clients /\ peer[vxiClient] # "away"
  BY TypeParts, Sides DEF TypeInv, PeerType, HasCome
<1>2. CASE VxiAccept \/ VxiClose \/ VxiIdle
  <2>1. PeerType' /\ HasCome'
    BY <1>2, HasComeStays, TypeParts DEF TypeInv, PeerType, VxiAccept, VxiClose, VxiIdle
  <2>2. QED
    BY <1>2, <2>1, TypeParts
       DEF TypeInv, ParserType, Phases, Goto, VxiAccept, VxiClose, VxiIdle
<1>3. CASE DestroyLink
  <2>1. PeerType' /\ HasCome'
    BY <1>1, <1>3, StopType, HasComeStays, TypeParts DEF TypeInv, PeerType, DestroyLink, Packet
  <2>2. QED
    BY <1>3, <2>1, TypeParts
       DEF TypeInv, ParserType, Phases, Goto, DestroyLink, Packet, ReleaseControl
<1>4. CASE CreateLink \/ DevWriteBlank \/ DevRead \/ \E kind \in VxiItems : DevWrite(kind)
  <2>1. vxiClient # None /\ inbox[vxiClient] # <<>> /\ TakePacket
    BY <1>4 DEF CreateLink, DevWriteBlank, DevRead, DevWrite, Packet
  <2>2. UNCHANGED <<rawQueue, vxiQueue, rawClient>> /\ phase' \in Phases
    BY <1>4 DEF CreateLink, DevWriteBlank, DevRead, DevWrite, Packet, Goto, Phases
  <2>3. PeerType' /\ HasCome'
    BY <1>1, <2>1, <2>2, TailType, HasComeStays, TypeParts DEF TypeInv, PeerType, TakePacket
  <2>4. ParserType'
    <3>1. CASE CreateLink
      BY <3>1, TypeParts DEF TypeInv, ParserType, CreateLink, ClaimControl
    <3>2. CASE DevRead
      <4>1. writeBuf \in Seq(Clients) /\ vxiClient \in Clients
        BY <1>1, <2>1, TypeParts DEF TypeInv, ParserType
      <4>2. \A o \in Elements(writeBuf) : [to |-> vxiClient, of |-> o] \in [to : Clients, of : Clients]
        BY <4>1, ElementsIn
      <4>3. replies' \subseteq [to : Clients, of : Clients] /\ writeBuf' \in Seq(Clients)
        <5>1. \/ /\ replies' = replies \cup {[to |-> vxiClient, of |-> o] : o \in Elements(writeBuf)}
                 /\ writeBuf' = <<>>
              \/ replies' = replies /\ writeBuf' = writeBuf
          BY <3>2 DEF DevRead, Fetch
        <5>2. replies \subseteq [to : Clients, of : Clients] /\ <<>> \in Seq(Clients)
          BY Nothing, TypeParts DEF TypeInv, ParserType
        <5>3. QED
          BY <4>1, <4>2, <5>1, <5>2
      <4>4. QED
        BY <3>2, <4>3, TypeParts DEF TypeInv, ParserType, DevRead
    <3>3. CASE \E kind \in VxiItems : DevWrite(kind)
      <4>1. /\ Parse(vxiClient, <<>>) /\ external_control' = TRUE /\ UNCHANGED replies
            /\ \/ writeBuf' = Written(vxiClient) /\ external_output_ready' = TRUE
               \/ UNCHANGED <<writeBuf, external_output_ready>>
        BY <3>3 DEF DevWrite, ClaimControl
      <4>2. QED
        <5>1. <<>> \in Seq(RawClients)
          BY Nothing
        <5>2. /\ inputBuf' \in Seq(RawClients) /\ pending' \in [Clients -> Nat]
              /\ lines' \subseteq [by : SUBSET Clients, whole : BOOLEAN]
          BY <1>1, <2>1, <4>1, <5>1, ParseType
        <5>3. writeBuf' \in Seq(Clients) /\ external_output_ready' \in BOOLEAN
          <6>1. Written(vxiClient) \in Seq(Clients)
            BY <1>1, <2>1, WrittenType
          <6>2. writeBuf \in Seq(Clients) /\ external_output_ready \in BOOLEAN
            BY TypeParts DEF TypeInv, ParserType
          <6>3. writeBuf' \in {writeBuf, Written(vxiClient)}
            BY <4>1
          <6>4. external_output_ready' = external_output_ready \/ external_output_ready' = TRUE
            BY <4>1
          <6>5. QED
            BY <6>1, <6>2, <6>3, <6>4
        <5>4. replies' \subseteq [to : Clients, of : Clients]
          BY <4>1, TypeParts DEF TypeInv, ParserType
        <5>5. QED
          BY <4>1, <5>2, <5>3, <5>4 DEF ParserType
    <3>4. CASE DevWriteBlank
      BY <3>4, TypeParts DEF TypeInv, ParserType, DevWriteBlank
    <3>5. QED
      BY <1>4, <3>1, <3>2, <3>3, <3>4
  <2>5. QED
    BY <2>2, <2>3, <2>4, TypeParts DEF TypeInv
<1>5. QED
  BY <1>2, <1>3, <1>4

LEMMA WebType ==
    ASSUME TypeInv, HttpIdle \/ KickRaw \/ KickVxi
    PROVE  TypeInv'
<1> USE DEF peers, servers, parser, history
<1>1. \A c \in {rawClient, vxiClient} : c # None => c \in Clients /\ peer[c] # "away"
  BY TypeParts, Sides DEF TypeInv, PeerType, HasCome
<1>2. PeerType' /\ HasCome'
  <2>1. CASE HttpIdle
    BY <2>1, HasComeStays, TypeParts DEF TypeInv, PeerType, HttpIdle
  <2>2. CASE KickRaw
    BY <1>1, <2>2, StopType, HasComeStays, TypeParts DEF TypeInv, PeerType, KickRaw
  <2>3. CASE KickVxi
    BY <1>1, <2>3, StopType, HasComeStays, TypeParts DEF TypeInv, PeerType, KickVxi
  <2>4. QED
    BY <2>1, <2>2, <2>3
<1>3. ParserType' /\ phase' \in Phases
  BY TypeParts
     DEF TypeInv, ParserType, Phases, Goto, HttpIdle, KickRaw, KickVxi, ReleaseControl
<1>4. QED
  BY <1>2, <1>3, TypeParts DEF TypeInv

LEMMA NextType ==
    ASSUME TypeInv, [Next]_vars
    PROVE  TypeInv'
<1>1. CASE Peers
  BY <1>1, PeersType
<1>2. CASE Loop
  BY <1>2, RawType, VxiType, WebType DEF Loop
<1>3. CASE UNCHANGED vars
  BY <1>3 DEF vars, peers, servers, parser, history, TypeInv, TypeOK, HasCome
<1>4. QED
  BY <1>1, <1>2, <1>3 DEF Next

LEMMA InitType ==
    ASSUME Init
    PROVE  TypeInv
<1>1. <<>> \in Seq(RawItems \cup VxiItems) /\ 0 \in 0..MaxItems
      /\ <<>> \in Seq(RawClients) /\ <<>> \in Seq(Clients)
  BY CapacityAssumption
<1>2. [c \in Clients |-> 0] \in [Clients -> Nat]
  OBVIOUS
<1>3. PeerType /\ phase \in Phases
  BY <1>1 DEF Init, PeerType, Phases
<1>4. ParserType
  BY <1>1, <1>2 DEF Init, ParserType
<1>5. HasCome
  BY Sides DEF Init, HasCome
<1>6. QED
  BY <1>3, <1>4, <1>5, TypeParts DEF TypeInv

-----------------------------------------------------------------------------
(* Who is served and who has control.                                      *)

LEMMA YieldedStays ==
    ASSUME TypeInv, Yielded, [Next]_vars
    PROVE  Yielded'
<1> USE DEF peers, servers, parser, history, Yielded, Goto
<1>1. CASE Peers
  <2>1. UNCHANGED <<phase, external_control>> /\ rawClient' \in {rawClient, None}
    BY <1>1 DEF Peers, Connect, Vanish, Collapse, Transmit
  <2>2. QED
    BY <2>1
<1>2. CASE RawYield \/ RawAccept \/ RawRead \/ RawReap
  BY <1>2 DEF RawYield, RawAccept, RawRead, RawReap
<1>3. CASE \/ VxiAccept \/ VxiClose \/ VxiIdle
           \/ CreateLink \/ DevWriteBlank \/ DevRead \/ DestroyLink
           \/ \E kind \in VxiItems : DevWrite(kind)
  BY <1>3 DEF VxiAccept, VxiClose, VxiIdle, CreateLink, DevWriteBlank, DevRead, DestroyLink, DevWrite, Packet
<1>4. CASE HttpIdle \/ KickRaw \/ KickVxi
  BY <1>4 DEF HttpIdle, KickRaw, KickVxi
<1>5. CASE UNCHANGED vars
  BY <1>5 DEF vars
<1>6. QED
  BY <1>1, <1>2, <1>3, <1>4, <1>5 DEF Next, Loop

\* A client nothing happens to stays where it is.
LEMMA LinkKept ==
    ASSUME NEW v \in VxiClients,
           peer'[v] = peer[v], inbox'[v] = inbox[v], sent'[v] = sent[v]
    PROVE  /\ Unlinked(v) => Unlinked(v)'
           /\ Linked(v) /\ external_control' => Linked(v)'
BY DEF Unlinked, Linked

\* A client that is stopped, or gone with all it has sent, starts afresh.
LEMMA LinkCleared ==
    ASSUME NEW v \in VxiClients, peer'[v] = "down", inbox'[v] = <<>>
    PROVE  Unlinked(v)'
BY Nothing DEF Unlinked

\* A packet of a client that is not linked is CREATE_LINK, and of one that is, not.
LEMMA HeadTells ==
    ASSUME TypeInv, LinksFirst, vxiClient # None, inbox[vxiClient] # <<>>
    PROVE  /\ vxiClient \in VxiClients /\ vxiClient \in Clients
           /\ inbox[vxiClient] \in Seq(RawItems \cup VxiItems)
           /\ Head(inbox[vxiClient]) = "create" => Unlinked(vxiClient)
           /\ Head(inbox[vxiClient]) # "create" => Linked(vxiClient)
<1>1. /\ vxiClient \in VxiClients /\ vxiClient \in Clients
      /\ inbox[vxiClient] \in Seq(RawItems \cup VxiItems)
  BY TypeParts, Sides DEF TypeInv, PeerType
<1>2. Head(inbox[vxiClient]) = inbox[vxiClient][1] /\ 1 \in 1..Len(inbox[vxiClient])
  BY <1>1, Shortened
<1>3. QED
  BY <1>1, <1>2 DEF LinksFirst, Unlinked, Linked

\* A packet was read: what is left are packets of a client that is linked.
LEMMA TakeLinks ==
    ASSUME TypeInv, LinksFirst, vxiClient # None, inbox[vxiClient] # <<>>,
           TakePacket, external_control'
    PROVE  LinksFirst'
<1> DEFINE c == vxiClient
<1>1. c \in VxiClients /\ c \in Clients /\ inbox[c] \in Seq(RawItems \cup VxiItems)
  BY HeadTells
<1>2. /\ inbox' = [inbox EXCEPT ![c] = Tail(@)] /\ inbox \in [Clients -> Seq(RawItems \cup VxiItems)]
      /\ peer' = peer /\ sent' = sent /\ vxiClient' = vxiClient
  BY TypeParts DEF TypeInv, PeerType, TakePacket
<1>3. Linked(c)'
  <2>1. inbox'[c] = Tail(inbox[c])
    BY <1>1, <1>2
  <2>2. /\ Len(Tail(inbox[c])) = Len(inbox[c]) - 1 /\ Len(inbox[c]) \in Nat
        /\ \A i \in 1..Len(Tail(inbox[c])) :
              i + 1 \in 1..Len(inbox[c]) /\ Tail(inbox[c])[i] = inbox[c][i + 1]
    BY <1>1, Shortened
  <2>3. \A i \in 1..Len(inbox'[c]) : i + 1 \in 2..Len(inbox[c]) /\ inbox'[c][i] = inbox[c][i + 1]
    BY <2>1, <2>2
  <2>4. Unlinked(c) \/ Linked(c)
    BY <1>1 DEF LinksFirst
  <2>5. \A i \in 2..Len(inbox[c]) : inbox[c][i] # "create"
    BY <2>2, <2>4 DEF Unlinked, Linked
  <2>6. peer[c] # "down" => sent[c] # 0
    BY <2>4 DEF Unlinked, Linked
  <2>7. QED
    BY <1>2, <2>3, <2>5, <2>6, SMTT(30) DEF Linked
<1>4. \A v \in VxiClients : v # c => Unlinked(v)'
  <2>1. SUFFICES ASSUME NEW v \in VxiClients, v # c
                 PROVE  Unlinked(v)'
    OBVIOUS
  <2>2. peer'[v] = peer[v] /\ inbox'[v] = inbox[v] /\ sent'[v] = sent[v]
    BY <1>2, <2>1, Sides
  <2>3. QED
    BY <2>1, <2>2, LinkKept DEF LinksFirst
<1>5. QED
  BY <1>2, <1>3, <1>4 DEF LinksFirst

\* Somebody was stopped, or nobody: VXI clients are where they were, but the one
\* that is let go.
LEMMA OthersKeepLinks ==
    ASSUME TypeInv, LinksFirst,
           \A v \in VxiClients : v # vxiClient =>
               peer'[v] = peer[v] /\ inbox'[v] = inbox[v] /\ sent'[v] = sent[v],
           \/ /\ vxiClient' = vxiClient /\ external_control' = external_control
              /\ vxiClient # None => /\ peer'[vxiClient] = peer[vxiClient]
                                     /\ inbox'[vxiClient] = inbox[vxiClient]
                                     /\ sent'[vxiClient] = sent[vxiClient]
           \/ vxiClient # None => peer'[vxiClient] = "down" /\ inbox'[vxiClient] = <<>>
    PROVE  LinksFirst'
<1>1. SUFFICES ASSUME NEW v \in VxiClients
               PROVE  Unlinked(v)' \/ (v = vxiClient' /\ Linked(v)')
  BY DEF LinksFirst
<1>2. v # None
  BY Sides
<1>3. CASE v # vxiClient
  <2>1. Unlinked(v)
    BY <1>3 DEF LinksFirst
  <2>2. QED
    BY <1>3, <2>1, LinkKept
<1>4. CASE v = vxiClient /\ peer'[v] = "down" /\ inbox'[v] = <<>>
  BY <1>4, LinkCleared
<1>5. CASE /\ v = vxiClient /\ vxiClient' = vxiClient /\ external_control' = external_control
           /\ peer'[v] = peer[v] /\ inbox'[v] = inbox[v] /\ sent'[v] = sent[v]
  <2>1. Unlinked(v) \/ Linked(v)
    BY DEF LinksFirst
  <2>2. Linked(v) => external_control'
    BY <1>5 DEF Linked
  <2>3. QED
    BY <1>5, <2>1, <2>2, LinkKept
<1>6. QED
  BY <1>2, <1>3, <1>4, <1>5

LEMMA StopElsewhere ==
    ASSUME TypeInv, NEW c \in Clients, Stop(c)
    PROVE  /\ peer'[c] = "down" /\ inbox'[c] = <<>>
           /\ \A d \in Clients : d # c =>
                 peer'[d] = peer[d] /\ inbox'[d] = inbox[d] /\ sent'[d] = sent[d]
BY TypeParts DEF TypeInv, PeerType, Stop

LEMMA PeersLinks ==
    ASSUME LinkFirst, TypeInv, LinksFirst, Peers
    PROVE  LinksFirst'
<1> USE DEF peers, servers
<1>1. PICK c \in Clients :
          \/ Connect(c) \/ Vanish(c) \/ Collapse(c)
          \/ \E item \in RawItems \cup VxiItems : Transmit(c, item)
  BY DEF Peers
<1>2. PeerType
  BY TypeParts DEF TypeInv
<1>3. external_control' = external_control
  BY DEF Peers, Connect, Vanish, Collapse, Transmit
<1>4. \A v \in VxiClients : v \in Clients /\ v # None
  BY Sides
<1>5. CASE Collapse(c)
  <2>1. vxiClient' = vxiClient \/ (c = vxiClient /\ vxiClient' = None)
    BY <1>5 DEF Collapse
  <2>2. c = vxiClient => peer[c] = "down" /\ inbox[c] = <<>>
    BY <1>2, <1>5 DEF PeerType, Collapse, Connected, TypeInv, HasCome
  <2>3. peer' = peer /\ inbox' = inbox /\ sent' = sent
    BY <1>5 DEF Collapse
  <2>4. QED
    BY <1>3, <2>1, <2>2, <2>3, OthersKeepLinks
<1>6. CASE ~Collapse(c)
  <2>1. vxiClient' = vxiClient
    BY <1>1, <1>6 DEF Connect, Vanish, Transmit
  <2>2. \A v \in VxiClients : v # c =>
            peer'[v] = peer[v] /\ inbox'[v] = inbox[v] /\ sent'[v] = sent[v]
    BY <1>1, <1>2, <1>4, <1>6 DEF PeerType, Connect, Vanish, Transmit
  <2>3. c \in VxiClients =>
            /\ Unlinked(c) => Unlinked(c)'
            /\ Linked(c) => Linked(c)'
    <3>1. CASE Connect(c)
      <4>1. peer[c] = "away" /\ peer'[c] = "up" /\ inbox' = inbox /\ sent' = sent
        BY <1>2, <3>1 DEF PeerType, Connect
      <4>2. QED
        BY <1>3, <4>1 DEF Unlinked, Linked
    <3>2. CASE Vanish(c)
      <4>1. peer'[c] = "down" /\ (inbox'[c] = inbox[c] \/ inbox'[c] = <<>>)
        BY <1>2, <3>2 DEF PeerType, Vanish
      <4>2. QED
        BY <1>3, <4>1, Nothing DEF Unlinked, Linked
    <3>3. CASE c \in VxiClients /\ \E item \in RawItems \cup VxiItems : Transmit(c, item)
      <4>1. PICK item \in RawItems \cup VxiItems : Transmit(c, item)
        BY <3>3
      <4>2. /\ peer[c] = "up" /\ peer'[c] = "up" /\ sent'[c] = sent[c] + 1 /\ sent[c] \in Nat
            /\ inbox'[c] = Append(inbox[c], item) /\ inbox[c] \in Seq(RawItems \cup VxiItems)
            /\ sent[c] = 0 <=> item = "create"
        BY <1>2, <3>3, <4>1 DEF PeerType, Transmit
      <4>3. /\ Len(inbox'[c]) = Len(inbox[c]) + 1 /\ Len(inbox[c]) \in Nat
            /\ inbox'[c] # <<>> /\ inbox'[c][Len(inbox[c]) + 1] = item
            /\ \A i \in 1..Len(inbox[c]) : inbox'[c][i] = inbox[c][i]
        BY <4>2, Appended
      <4>4. sent'[c] # 0
        BY <4>2
      <4>5. ASSUME Linked(c)
            PROVE  Linked(c)'
        <5>1. item # "create"
          BY <4>2, <4>5 DEF Linked
        <5>2. \A i \in 1..Len(inbox'[c]) : i \in 1..Len(inbox[c]) \/ i = Len(inbox[c]) + 1
          BY <4>3
        <5>3. QED
          BY <1>3, <4>3, <4>4, <4>5, <5>1, <5>2 DEF Linked
      <4>6. ASSUME Unlinked(c), inbox[c] = <<>>
            PROVE  Unlinked(c)'
        <5>1. Len(inbox[c]) = 0 /\ item = "create"
          BY <4>2, <4>6, Nothing DEF Unlinked
        <5>2. inbox'[c][1] = "create" /\ 2..Len(inbox'[c]) = {}
          BY <4>3, <5>1
        <5>3. QED
          BY <4>3, <4>4, <5>2 DEF Unlinked
      <4>7. ASSUME Unlinked(c), inbox[c] # <<>>
            PROVE  Unlinked(c)'
        <5>1. item # "create" /\ 1 \in 1..Len(inbox[c])
          BY <4>2, <4>7, Shortened DEF Unlinked
        <5>2. \A i \in 2..Len(inbox'[c]) : i \in 2..Len(inbox[c]) \/ i = Len(inbox[c]) + 1
          BY <4>3
        <5>3. \A i \in 2..Len(inbox[c]) : i \in 1..Len(inbox[c])
          BY <4>3
        <5>4. \A i \in 2..Len(inbox'[c]) : inbox'[c][i] # "create"
          BY <4>3, <4>7, <5>1, <5>2, <5>3 DEF Unlinked
        <5>5. inbox'[c][1] = "create"
          BY <4>3, <4>7, <5>1 DEF Unlinked
        <5>6. QED
          BY <4>3, <4>4, <5>4, <5>5 DEF Unlinked
      <4>8. QED
        BY <4>5, <4>6, <4>7
    <3>4. QED
      BY <1>1, <1>6, <3>1, <3>2, <3>3
  <2>4. QED
    BY <1>3, <2>1, <2>2, <2>3, LinkKept DEF LinksFirst, Linked
<1>7. QED
  BY <1>5, <1>6

LEMMA LinksStay ==
    ASSUME LinkFirst, TypeInv, LinksFirst, [Next]_vars
    PROVE  LinksFirst'
<1> USE DEF peers, servers
<1>1. PeerType /\ None \notin Clients /\ None \notin VxiClients
  BY TypeParts, Sides DEF TypeInv
<1>2. \A v \in VxiClients : v \in Clients /\ v # rawClient
  BY <1>1, Sides DEF PeerType
<1>3. rawClient # None => rawClient \in Clients
  BY Sides, <1>1 DEF PeerType
<1>4. vxiClient # None => vxiClient \in Clients /\ vxiClient \in VxiClients
  BY Sides, <1>1 DEF PeerType
<1>5. CASE Peers
  BY <1>5, PeersLinks
<1>6. CASE RawYield \/ RawAccept \/ RawRead \/ RawReap \/ KickRaw
  <2>1. vxiClient' = vxiClient /\ external_control' = external_control
    BY <1>6 DEF RawYield, RawAccept, RawRead, RawReap, KickRaw
  <2>2. \/ UNCHANGED peers
        \/ \E c \in RawClients : Stop(c)
        \/ \E c \in RawClients :
              inbox' = [inbox EXCEPT ![c] = Tail(@)] /\ UNCHANGED <<peer, sent>>
    <3>1. rawClient # None => rawClient \in RawClients
      BY <1>1 DEF PeerType
    <3>2. rawQueue \subseteq RawClients
      BY <1>1 DEF PeerType
    <3>3. CASE RawRead
      BY <3>1, <3>3 DEF RawRead
    <3>4. CASE RawYield \/ RawReap \/ KickRaw
      BY <3>1, <3>4 DEF RawYield, RawReap, KickRaw
    <3>5. CASE RawAccept
      BY <3>2, <3>5 DEF RawAccept
    <3>6. QED
      BY <1>6, <3>3, <3>4, <3>5
  <2>3. \A v \in VxiClients : peer'[v] = peer[v] /\ inbox'[v] = inbox[v] /\ sent'[v] = sent[v]
    <3>1. \A v \in VxiClients : \A c \in RawClients : v \in Clients /\ c \in Clients /\ v # c
      BY Sides
    <3>2. QED
      BY <1>1, <2>2, <3>1, StopElsewhere DEF PeerType
  <2>4. QED
    BY <1>4, <2>1, <2>3, OthersKeepLinks
<1>7. CASE VxiAccept
  <2>1. UNCHANGED <<peer, inbox, sent, external_control>> /\ vxiClient = None
    BY <1>7 DEF VxiAccept
  <2>2. QED
    BY <2>1, OthersKeepLinks
<1>8. CASE VxiClose
  <2>1. UNCHANGED <<peer, inbox, sent>> /\ peer[vxiClient] = "down" /\ inbox[vxiClient] = <<>>
    BY <1>1, <1>4, <1>8 DEF VxiClose, Connected, PeerType, TypeInv, HasCome
  <2>2. QED
    BY <2>1, OthersKeepLinks
<1>9. CASE VxiIdle \/ HttpIdle
  <2>1. UNCHANGED <<peer, inbox, sent, external_control, vxiClient>>
    BY <1>9 DEF VxiIdle, HttpIdle
  <2>2. QED
    BY <2>1, OthersKeepLinks
<1>10. CASE DestroyLink \/ KickVxi
  <2>1. vxiClient # None /\ Stop(vxiClient)
    BY <1>10 DEF DestroyLink, KickVxi, Packet
  <2>2. QED
    BY <1>2, <1>4, <2>1, StopElsewhere, OthersKeepLinks
<1>11. CASE CreateLink \/ DevWriteBlank \/ DevRead \/ \E kind \in VxiItems : DevWrite(kind)
  <2>1. vxiClient # None /\ inbox[vxiClient] # <<>> /\ TakePacket
    BY <1>11 DEF CreateLink, DevWriteBlank, DevRead, DevWrite, Packet
  <2>2. external_control'
    <3>1. CASE CreateLink \/ \E kind \in VxiItems : DevWrite(kind)
      BY <3>1 DEF CreateLink, DevWrite, ClaimControl
    <3>2. CASE DevWriteBlank \/ DevRead
      <4>1. Head(inbox[vxiClient]) # "create" /\ external_control' = external_control
        BY <3>2 DEF DevWriteBlank, DevRead, Packet
      <4>2. QED
        BY <2>1, <4>1, HeadTells DEF Linked
    <3>3. QED
      BY <1>11, <3>1, <3>2
  <2>3. QED
    BY <2>1, <2>2, TakeLinks
<1>12. CASE UNCHANGED vars
  <2>1. UNCHANGED <<peer, inbox, sent, external_control, vxiClient>>
    BY <1>12 DEF vars
  <2>2. QED
    BY <2>1, OthersKeepLinks
<1>13. QED
  BY <1>5, <1>6, <1>7, <1>8, <1>9, <1>10, <1>11, <1>12 DEF Next, Loop

-----------------------------------------------------------------------------
(* Whose parts and answers are in the buffers.                             *)

\* A client that writes has control, and no raw client is left.
LEMMA WriterIsAlone ==
    ASSUME TypeInv, Yielded, LinksFirst, NEW kind \in VxiItems, DevWrite(kind)
    PROVE  /\ rawClient = None /\ external_control
           /\ vxiClient \in VxiClients /\ vxiClient \in Clients
<1>1. /\ vxiClient # None /\ inbox[vxiClient] # <<>> /\ phase = "vxi"
      /\ Head(inbox[vxiClient]) # "create"
  BY DEF DevWrite, Packet, Goto
<1>2. QED
  BY <1>1, HeadTells DEF Linked, Yielded

LEMMA NonePendingStays ==
    ASSUME TypeInv, Yielded, LinksFirst, NonePending, [Next]_vars
    PROVE  NonePending'
<1> USE DEF peers, servers, history
<1>1. PeerType /\ ParserType
  BY TypeParts DEF TypeInv
<1>2. CASE RawRead /\ rawClient # None
  <2>1. rawClient \in RawClients /\ rawClient \notin rawQueue /\ peer[rawClient] # "away"
    BY <1>1, <1>2, Sides DEF PeerType, TypeInv, HasCome
  <2>2. \A c \in Clients : c # rawClient => pending'[c] = pending[c]
    BY <1>1, <1>2, <2>1 DEF ParserType, RawRead, Parse
  <2>3. rawQueue' = rawQueue /\ (peer' = peer \/ Stop(rawClient))
    BY <1>2 DEF RawRead
  <2>4. \A c \in Clients : peer'[c] = "away" => peer[c] = "away"
    BY <1>1, <2>3, StopElsewhere, Sides, <2>1
  <2>5. QED
    BY <2>1, <2>2, <2>3, <2>4, Sides DEF NonePending
<1>3. CASE \E kind \in VxiItems : DevWrite(kind)
  <2>1. vxiClient \in Clients /\ Parse(vxiClient, <<>>) /\ UNCHANGED <<peer, rawQueue>>
    BY <1>3, WriterIsAlone DEF DevWrite, TakePacket, Packet
  <2>2. \A c \in Clients : pending[c] = 0 => pending'[c] = 0
    BY <1>1, <2>1 DEF ParserType, Parse
  <2>3. QED
    BY <2>1, <2>2 DEF NonePending
<1>4. CASE ~(RawRead /\ rawClient # None) /\ ~\E kind \in VxiItems : DevWrite(kind)
  <2>1. pending' = pending
    BY <1>4 DEF Next, Loop, Peers, vars, RawYield, RawAccept, RawRead, RawReap, VxiAccept,
          VxiClose, VxiIdle, CreateLink, DevWriteBlank, DevRead, DestroyLink, HttpIdle, KickRaw, KickVxi,
          Connect, Vanish, Collapse, Transmit
  <2>2. \A c \in Clients : peer'[c] = "away" => peer[c] = "away"
    <3>1. CASE UNCHANGED peer
      BY <3>1
    <3>2. CASE \E c \in Clients : Stop(c)
      BY <1>1, <3>2, StopElsewhere
    <3>3. CASE \E c \in Clients : Connect(c) \/ Vanish(c)
      BY <1>1, <3>3 DEF PeerType, Connect, Vanish
    <3>4. rawClient # None => rawClient \in Clients
      BY <1>1, Sides DEF PeerType
    <3>5. vxiClient # None => vxiClient \in Clients
      BY <1>1, Sides DEF PeerType
    <3>6. rawQueue \subseteq Clients
      BY <1>1, Sides DEF PeerType
    <3>7. CASE Loop
      BY <1>4, <3>7, <3>1, <3>2, <3>4, <3>5, <3>6 DEF Loop, RawYield, RawAccept, RawRead, RawReap,
         VxiAccept, VxiClose, VxiIdle, CreateLink, DevWriteBlank, DevRead, DestroyLink, TakePacket, Packet,
         HttpIdle, KickRaw, KickVxi
    <3>8. CASE Peers
      BY <3>8, <3>1, <3>3 DEF Peers, Collapse, Transmit
    <3>9. QED
      BY <3>1, <3>7, <3>8 DEF Next, vars
  <2>3. \A c \in Clients : c \in rawQueue' => c \in rawQueue \/ peer[c] = "away"
    <3>1. CASE Loop
      BY <3>1 DEF Loop, RawYield, RawAccept, RawRead, RawReap, VxiAccept, VxiClose, VxiIdle,
         CreateLink, DevWriteBlank, DevRead, DestroyLink, DevWrite, Packet, HttpIdle, KickRaw, KickVxi
    <3>2. CASE Peers
      BY <3>2 DEF Peers, Connect, Vanish, Collapse, Transmit
    <3>3. QED
      BY <3>1, <3>2 DEF Next, vars
  <2>4. QED
    BY <2>1, <2>2, <2>3 DEF NonePending
<1>5. QED
  BY <1>2, <1>3, <1>4

\* What one step of reading comes to.
LEMMA ReadCases ==
    ASSUME TypeInv, RawRead
    PROVE  \/ UNCHANGED <<rawClient, inputBuf, writeBuf, history>>
           \/ rawClient' = None /\ UNCHANGED <<writeBuf, history>>
           \/ /\ rawClient # None /\ rawClient' = rawClient
              /\ inputBuf' = Append(inputBuf, rawClient)
              /\ pending' = [pending EXCEPT ![rawClient] = @ + 1]
              /\ UNCHANGED <<writeBuf, replies, lines>>
           \/ /\ rawClient # None /\ rawClient' = rawClient
              /\ Parse(rawClient, inputBuf)
              /\ UNCHANGED <<writeBuf, replies>> \/ FlushRaw(rawClient)
BY DEF RawRead, parser, history

LEMMA OwnBuffersStay ==
    ASSUME TypeInv, Yielded, LinksFirst, OwnBuffers, NonePending, [Next]_vars
    PROVE  OwnBuffers'
<1> USE DEF peers, servers, parser, history
<1>1. PeerType /\ ParserType
  BY TypeParts DEF TypeInv
<1>2. CASE rawClient' = None
  BY <1>2 DEF OwnBuffers
<1>3. CASE UNCHANGED <<rawClient, inputBuf, pending>> /\ writeBuf' \in {writeBuf, <<>>}
  BY <1>3, Nothing DEF OwnBuffers
<1>4. CASE RawAccept /\ rawClient' \notin {None, rawClient}
  <2>1. /\ rawClient' \in rawQueue /\ pending' = pending
        /\ inputBuf' = <<>> /\ writeBuf' = <<>>
    BY <1>4 DEF RawAccept, ResetBuffers
  <2>2. pending[rawClient'] = 0
    BY <1>1, <2>1, Sides DEF PeerType, NonePending
  <2>3. QED
    BY <2>1, <2>2, Nothing DEF OwnBuffers
<1>5. CASE RawRead /\ rawClient # None
  <2> DEFINE c == rawClient
  <2>1. /\ c \in RawClients /\ c \in Clients /\ inputBuf \in Seq(RawClients) /\ writeBuf \in Seq(Clients)
        /\ Elements(writeBuf) \subseteq {c} /\ Elements(inputBuf) \subseteq {c}
        /\ Len(inputBuf) = pending[c] /\ pending \in [Clients -> Nat]
    BY <1>1, <1>5, Sides DEF PeerType, ParserType, OwnBuffers
  <2>2. CASE /\ rawClient' = rawClient
             /\ inputBuf' = Append(inputBuf, c)
             /\ pending' = [pending EXCEPT ![c] = @ + 1]
             /\ UNCHANGED <<writeBuf, replies, lines>>
    <3>1. Elements(inputBuf') \subseteq {c} /\ Len(inputBuf') = Len(inputBuf) + 1
      BY <2>1, <2>2, Appended
    <3>2. pending'[c] = pending[c] + 1
      BY <2>1, <2>2
    <3>3. QED
      BY <2>1, <2>2, <3>1, <3>2 DEF OwnBuffers
  <2>3. CASE /\ rawClient' = rawClient /\ Parse(c, inputBuf)
             /\ UNCHANGED <<writeBuf, replies>> \/ FlushRaw(c)
    <3>1. inputBuf' = <<>> /\ pending'[c] = 0
      BY <2>1, <2>3 DEF Parse
    <3>2. Elements(writeBuf') \subseteq {c}
      BY <2>1, <2>3, WrittenType, Nothing DEF FlushRaw
    <3>3. QED
      BY <2>3, <3>1, <3>2, Nothing DEF OwnBuffers
  <2>4. QED
    BY <1>2, <1>3, <1>5, <2>2, <2>3, ReadCases
<1>6. CASE RawYield \/ RawReap \/ (RawRead /\ rawClient = None)
  BY <1>2, <1>3, <1>6 DEF RawYield, RawReap, RawRead
<1>7. CASE RawAccept /\ rawClient' \in {None, rawClient}
  <2>1. pending' = pending /\ (rawClient' # None => UNCHANGED parser)
    BY <1>7, <1>1, Sides DEF RawAccept, PeerType
  <2>2. QED
    BY <1>2, <1>3, <1>7, <2>1
<1>8. CASE VxiAccept \/ VxiClose \/ VxiIdle \/ CreateLink \/ DevWriteBlank \/ DestroyLink
  BY <1>3, <1>8 DEF VxiAccept, VxiClose, VxiIdle, CreateLink, DevWriteBlank, DestroyLink, Packet
<1>9. CASE DevRead
  BY <1>3, <1>9 DEF DevRead, Packet, Fetch
<1>10. CASE \E kind \in VxiItems : DevWrite(kind)
  <2>1. rawClient' = rawClient
    BY <1>10 DEF DevWrite, Packet
  <2>2. QED
    BY <1>2, <1>10, <2>1, WriterIsAlone
<1>11. CASE HttpIdle \/ KickRaw \/ KickVxi
  BY <1>2, <1>3, <1>11 DEF HttpIdle, KickRaw, KickVxi
<1>12. CASE Peers
  BY <1>2, <1>3, <1>12 DEF Peers, Connect, Vanish, Collapse, Transmit
<1>13. CASE UNCHANGED vars
  BY <1>3, <1>13 DEF vars
<1>14. QED
  BY <1>4, <1>5, <1>6, <1>7, <1>8, <1>9, <1>10, <1>11, <1>12, <1>13 DEF Next, Loop

\* Nothing else answers or parses.
LEMMA LogsKept ==
    ASSUME [Next]_vars, ~RawRead
    PROVE  /\ ~DevRead => replies' = replies
           /\ ~(\E kind \in VxiItems : DevWrite(kind)) => lines' = lines
BY DEF Next, Loop, Peers, vars, history, RawYield, RawAccept, RawReap, VxiAccept, VxiClose, VxiIdle,
       CreateLink, DevWriteBlank, DevRead, DevWrite, DestroyLink, HttpIdle, KickRaw, KickVxi,
       Connect, Vanish, Collapse, Transmit

LEMMA AnswersStay ==
    ASSUME TypeInv, OwnBuffers, RawGetsOwnAnswers, [Next]_vars
    PROVE  RawGetsOwnAnswers'
<1>1. PeerType
  BY TypeParts DEF TypeInv
<1>2. CASE replies' = replies
  BY <1>2 DEF RawGetsOwnAnswers
<1>3. CASE RawRead
  <2>1. CASE rawClient # None /\ FlushRaw(rawClient)
    <3>1. rawClient \in Clients
      BY <1>1, <2>1, Sides DEF PeerType
    <3>2. Elements(Written(rawClient)) \subseteq {rawClient}
      BY <2>1, <3>1, WrittenType DEF OwnBuffers
    <3>3. QED
      BY <2>1, <3>2 DEF FlushRaw, RawGetsOwnAnswers
  <2>2. QED
    BY <1>2, <1>3, <2>1, ReadCases DEF history
<1>4. CASE DevRead
  <2>1. vxiClient \notin RawClients
    BY <1>1, <1>4, Sides DEF PeerType, DevRead, Packet
  <2>2. QED
    BY <1>2, <1>4, <2>1 DEF DevRead, Fetch, RawGetsOwnAnswers
<1>5. QED
  BY <1>2, <1>3, <1>4, LogsKept

LEMMA LinesStay ==
    ASSUME TypeInv, Yielded, LinksFirst, OwnBuffers, NonePending, LinesAreWhole, [Next]_vars
    PROVE  LinesAreWhole'
<1>1. CASE lines' = lines
  BY <1>1 DEF LinesAreWhole
<1>2. ASSUME NEW c, NEW before, Parse(c, before),
             Elements(before) \subseteq {c}, Len(before) = pending[c]
      PROVE  LinesAreWhole'
  <2>1. lines' = lines \cup {[by |-> {c}, whole |-> TRUE]}
    <3>1. Elements(before) \cup {c} = {c}
      BY <1>2
    <3>2. QED
      BY <1>2, <3>1 DEF Parse
  <2>2. QED
    BY <2>1 DEF LinesAreWhole
<1>3. CASE RawRead
  BY <1>1, <1>2, <1>3, ReadCases DEF history, OwnBuffers
<1>4. CASE \E kind \in VxiItems : DevWrite(kind)
  <2>1. Parse(vxiClient, <<>>)
    BY <1>4 DEF DevWrite
  <2>2. pending[vxiClient] = 0
    BY <1>4, WriterIsAlone DEF NonePending
  <2>3. QED
    BY <1>2, <2>1, <2>2, Nothing
<1>5. QED
  BY <1>1, <1>3, <1>4, LogsKept

-----------------------------------------------------------------------------
(* The invariant and the theorems.                                         *)

LEMMA InitInv ==
    ASSUME Init
    PROVE  IInv
<1>1. TypeInv
  BY InitType
<1>2. Yielded /\ OwnBuffers /\ NonePending /\ RawGetsOwnAnswers /\ LinesAreWhole
  BY DEF Init, Yielded, OwnBuffers, NonePending, RawGetsOwnAnswers, LinesAreWhole
<1>3. LinksFirst
  <2>1. SUFFICES ASSUME NEW v \in VxiClients
                 PROVE  Unlinked(v)
    BY DEF LinksFirst
  <2>2. inbox[v] = <<>> /\ sent[v] = 0 /\ 2..0 = {}
    BY Sides DEF Init
  <2>3. QED
    BY <2>2, Nothing DEF Unlinked
<1>4. QED
  BY <1>1, <1>2, <1>3 DEF IInv, Sound

LEMMA NextInv ==
    ASSUME LinkFirst, IInv, [Next]_vars
    PROVE  IInv'
BY NextType, YieldedStays, LinksStay, OwnBuffersStay, NonePendingStays, AnswersStay, LinesStay
   DEF IInv, Sound

\* Types are kept whether or not clients keep to the protocol; nobody who is served is
\* still waiting (RidenScpi::loop(), VXI_Server::loop()).
THEOREM ScpiTypeCorrect == Spec => []TypeOK
<1>1. Init => TypeInv
  BY InitType
<1>2. TypeInv /\ [Next]_vars => TypeInv'
  BY NextType
<1>3. TypeInv => TypeOK
  BY DEF TypeInv
<1>4. QED
  BY <1>1, <1>2, <1>3, PTL DEF Spec

\* The safety part of RawIsDisabled: whatever VXI clients do, once RidenScpi::loop() has
\* had its turn under external control there is no raw client until control is released.
THEOREM RawYields == Spec => []Yielded
<1>1. Init => TypeInv /\ Yielded
  BY InitInv DEF IInv, Sound
<1>2. TypeInv /\ Yielded /\ [Next]_vars => TypeInv' /\ Yielded'
  BY NextType, YieldedStays
<1>3. QED
  BY <1>1, <1>2, PTL DEF Spec

LEMMA Invariant ==
    ASSUME LinkFirst
    PROVE  Spec => []IInv
<1>1. Init => IInv
  BY InitInv
<1>2. IInv /\ [Next]_vars => IInv'
  BY NextInv
<1>3. QED
  BY <1>1, <1>2, PTL DEF Spec

\* If VXI clients create a link before they use it, a raw client only gets answers to
\* its own questions (reset_buffers(), SCPI_Flush(), external control).
THEOREM RawAnswersAreOwn ==
    ASSUME LinkFirst
    PROVE  Spec => []RawGetsOwnAnswers
<1>1. IInv => RawGetsOwnAnswers
  BY DEF IInv
<1>2. QED
  BY <1>1, Invariant, PTL

\* If VXI clients create a link before they use it, the parser only sees whole lines of
\* one client, although write() overwrites the raw client's (RidenScpi::write(), loop()).
THEOREM LinesStayWhole ==
    ASSUME LinkFirst
    PROVE  Spec => []LinesAreWhole
<1>1. IInv => LinesAreWhole
  BY DEF IInv
<1>2. QED
  BY <1>1, Invariant, PTL

-----------------------------------------------------------------------------
(* ScpiControl implements ParserContract: every step is one of the         *)
(* contract's, or leaves what it speaks of alone.                          *)

ContractStep == Contract!Next \/ UNCHANGED Contract!vars

\* What the steps that put nothing into the parser come to.
LEMMA Comings ==
    /\ UNCHANGED <<external_control, rawClient, writeBuf, replies, lines>> => ContractStep
    /\ rawClient' = None /\ UNCHANGED <<external_control, writeBuf, replies, lines>> => ContractStep
    /\ external_control' \in BOOLEAN /\ UNCHANGED <<rawClient, writeBuf, replies, lines>>
           => ContractStep
BY DEF ContractStep, Contract!Next, Contract!vars, Contract!Claim, Contract!Release, Contract!Leave

\* A line of c's alone, with nothing of it lost.
LEMMA OwnLine ==
    ASSUME NEW c, NEW before, Parse(c, before),
           Elements(before) \subseteq {c}, Len(before) = pending[c]
    PROVE  Contract!Line(c)
<1>1. Elements(before) \cup {c} = {c}
  OBVIOUS
<1>2. QED
  BY <1>1 DEF Parse, Contract!Line

LEMMA AcceptKeeps ==
    ASSUME TypeInv, RawAccept
    PROVE  ContractStep
<1> USE DEF parser, history
<1>1. CASE UNCHANGED <<rawClient, parser>>
  BY <1>1, Comings DEF RawAccept
<1>2. CASE \E c \in rawQueue : rawClient = None /\ rawClient' = c /\ ResetBuffers
  <2>1. rawClient' \in RawClients
    BY <1>2 DEF TypeInv, TypeOK
  <2>2. Contract!Enter
    BY <1>2, <2>1, Nothing DEF RawAccept, ResetBuffers, Contract!Enter
  <2>3. QED
    BY <2>2 DEF ContractStep, Contract!Next
<1>3. QED
  BY <1>1, <1>2 DEF RawAccept

LEMMA ReadKeeps ==
    ASSUME TypeInv, Yielded, OwnBuffers, RawRead
    PROVE  ContractStep
<1> USE DEF history
<1> DEFINE c == rawClient
<1>1. ~external_control /\ external_control' = external_control
  BY DEF Yielded, RawRead, Goto
<1>2. CASE UNCHANGED <<rawClient, writeBuf, replies, lines>>
  BY <1>1, <1>2, Comings
<1>3. CASE rawClient' = None /\ UNCHANGED <<writeBuf, replies, lines>>
  BY <1>1, <1>3, Comings
<1>4. CASE /\ rawClient # None /\ rawClient' = rawClient
           /\ Parse(c, inputBuf)
           /\ UNCHANGED <<writeBuf, replies>> \/ FlushRaw(c)
  <2>1. /\ c \in Clients
        /\ Elements(writeBuf) \subseteq {c} /\ Elements(inputBuf) \subseteq {c}
        /\ Len(inputBuf) = pending[c]
    BY <1>4, Sides DEF TypeInv, TypeOK, OwnBuffers
  <2>2. Contract!Line(c)
    BY <1>4, <2>1, OwnLine
  <2>3. Elements(Written(c)) = {c}
    BY <2>1, WrittenType
  <2>4. {[to |-> c, of |-> o] : o \in {c}} = {[to |-> c, of |-> c]}
    OBVIOUS
  <2>5. \/ UNCHANGED <<writeBuf, replies>>
        \/ /\ Elements(writeBuf') = {}
           /\ replies' = replies \cup {[to |-> c, of |-> c]}
        \/ Elements(writeBuf') = {c} /\ UNCHANGED replies
    BY <1>4, <2>3, <2>4, Nothing DEF FlushRaw
  <2>6. Contract!RawLine
    BY <1>1, <1>4, <2>2, <2>5 DEF Contract!RawLine
  <2>7. QED
    BY <2>6 DEF ContractStep, Contract!Next
<1>5. QED
  BY <1>2, <1>3, <1>4, ReadCases

LEMMA WriteKeeps ==
    ASSUME TypeInv, Yielded, LinksFirst, NonePending, NEW kind \in VxiItems, DevWrite(kind)
    PROVE  ContractStep
<1>1. rawClient = None /\ vxiClient \in VxiClients /\ vxiClient \in Clients /\ external_control
  BY WriterIsAlone
<1>2. Parse(vxiClient, <<>>) /\ pending[vxiClient] = 0
  BY <1>1 DEF DevWrite, NonePending
<1>3. Contract!Line(vxiClient)
  BY <1>2, OwnLine, Nothing
<1>4. Elements(writeBuf') \in {Elements(writeBuf), Elements(writeBuf) \cup {vxiClient}}
  BY <1>1, WrittenType DEF DevWrite
<1>5. Contract!VxiLine
  BY <1>1, <1>3, <1>4 DEF Contract!VxiLine, DevWrite, ClaimControl, Packet
<1>6. QED
  BY <1>5 DEF ContractStep, Contract!Next

LEMMA FetchKeeps ==
    ASSUME TypeInv, DevRead
    PROVE  ContractStep
<1>1. vxiClient \in VxiClients
  BY DEF TypeInv, TypeOK, DevRead, Packet
<1>2. CASE UNCHANGED <<replies, writeBuf>>
  BY <1>2, Comings DEF DevRead, Packet
<1>3. CASE ~UNCHANGED <<replies, writeBuf>>
  <2>1. Contract!VxiRead
    BY <1>1, <1>3, Nothing DEF DevRead, Packet, Fetch, Contract!VxiRead
  <2>2. QED
    BY <2>1 DEF ContractStep, Contract!Next
<1>4. QED
  BY <1>2, <1>3

LEMMA StepKeeps ==
    ASSUME IInv, [Next]_vars
    PROVE  ContractStep
<1> USE DEF servers, parser, history
<1>1. TypeInv /\ Yielded /\ LinksFirst /\ OwnBuffers /\ NonePending
  BY DEF IInv, Sound
<1>2. CASE RawYield \/ RawReap
  BY <1>2, Comings DEF RawYield, RawReap
<1>3. CASE VxiAccept \/ VxiClose \/ VxiIdle \/ CreateLink \/ DevWriteBlank \/ DestroyLink
  BY <1>3, Comings DEF VxiAccept, VxiClose, VxiIdle, CreateLink, DevWriteBlank, DestroyLink, Packet,
                       ClaimControl, ReleaseControl
<1>4. CASE HttpIdle \/ KickRaw \/ KickVxi
  BY <1>4, Comings DEF HttpIdle, KickRaw, KickVxi, ReleaseControl
<1>5. CASE Peers
  BY <1>5, Comings DEF Peers, Connect, Vanish, Collapse, Transmit
<1>6. CASE UNCHANGED vars
  BY <1>6, Comings DEF vars
<1>7. QED
  BY <1>1, <1>2, <1>3, <1>4, <1>5, <1>6, AcceptKeeps, ReadKeeps, WriteKeeps, FetchKeeps
     DEF Next, Loop

\* If VXI clients create a link before they use it, the two servers share the parser as
\* ParserContract promises (claim_external_control(), reset_buffers(), loop()).
THEOREM ParserIsShared ==
    ASSUME LinkFirst
    PROVE  Spec => SharesAsPromised
<1>1. Init => Contract!Init
  BY Nothing DEF Init, Contract!Init
<1>2. IInv /\ [Next]_vars => [Contract!Next]_(Contract!vars)
  BY StepKeeps DEF ContractStep
<1>3. QED
  BY <1>1, <1>2, Invariant, PTL DEF Spec, SharesAsPromised, Contract!Spec
=============================================================================
