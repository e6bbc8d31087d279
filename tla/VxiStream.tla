----------------------------- MODULE VxiStream -----------------------------
(***************************************************************************)
(* How the VXI-11 server cuts the bytes of a connection into calls:        *)
(* VXI_Server::loop() and handle_packet() of vxi_server.cpp with           *)
(* get_vxi_packet() and send_vxi_packet() of rpc_packets.cpp.              *)
(*                                                                         *)
(* A call is sent as a prefix that holds its length, and a body of that    *)
(* length; the body is read into a buffer of fixed size which is not       *)
(* cleared, with a time limit.  The unit here is the word of 4 bytes, of   *)
(* which all parts of a call are made; the network is taken to deliver     *)
(* whole words.  The ten words of the RPC header are two here: the         *)
(* transaction id, and what is asked for with its parameters.  Once a call *)
(* has been cut, packets are not read where they begin, and a word of what *)
(* follows may stand for anything (Noise).                                 *)
(*                                                                         *)
(* What calls do to the parser is in ScpiControl, how clients find the     *)
(* server in VxiPorts.                                                     *)
(*                                                                         *)
(* Operators marked "Fault:" are wrong versions of the operator that       *)
(* follows them; no other definition uses them.                            *)
(***************************************************************************)
EXTENDS Naturals, Sequences

CONSTANTS BufferWords,  \* VXI_READ_SIZE without the prefix: 63 words in the code
          MaxData,      \* bound: data a client sends with a call
          Menu,         \* bound: procedures and lengths of data clients use
          MaxCalls,     \* bound: calls in all
          Window        \* bound: calls a client makes without waiting

ASSUME SizeAssumption == BufferWords \in Nat /\ BufferWords >= 2
ASSUME BoundAssumption == MaxData \in Nat /\ MaxCalls \in Nat /\ Window \in Nat

Procedures == {"create", "write", "read", "destroy", "other"}
ASSUME MenuAssumption == Menu \subseteq Procedures \X (0..MaxData)

Calls == [id : 1..MaxCalls, procedure : Procedures, data : 0..MaxData]
\* What is executed or answered when the buffer holds no call, or parts of two.
Garbled == [id |-> 0, procedure |-> "other", data |-> 0]

Words == [is : {"prefix", "xid", "call", "data"}, of : Calls]
Blank == [is |-> "blank", of |-> Garbled]
Noise == [is |-> "noise", of |-> Garbled]

VARIABLES
    phase,      \* what the server does next; "hung" until the watchdog bites
    conn,       \* the connection: "none", "up", "stalled" if the client does not
                \* read any more, or "gone" with the client
    tape,       \* the words the client has sent which have not been read
    arrived,    \* how many of them have reached the dongle
    need,       \* len: words of the body to be read
    buffer,     \* vxi_read_buffer without the prefix
    calls,      \* calls made so far, on any connection
    asked,      \* history: calls made on this connection
    handled,    \* history: calls executed on it
    answered,   \* history: answers sent on it, heard or not
    spoiled     \* history: a call was cut, because it was too long or too slow;
                \* from then on the three others are not kept

network == <<conn, tape, arrived>>
history == <<asked, handled, answered, spoiled>>
vars == <<phase, network, need, buffer, calls, history>>

Note(log, call) == IF spoiled THEN log ELSE Append(log, call)

-----------------------------------------------------------------------------
(* The client and the network.                                             *)

Part(i) == CASE i = 1 -> "prefix" [] i = 2 -> "xid" [] i = 3 -> "call" [] OTHER -> "data"
BodyLength(c) == 2 + c.data
Packet(c) == [i \in 1..(1 + BodyLength(c)) |-> [is |-> Part(i), of |-> c]]

\* Words as the server sees them: as they are, or as noise.
Seen(words, noisy) == IF noisy THEN [i \in 1..Len(words) |-> Noise] ELSE words

Connect ==
    /\ phase = "loop" /\ conn = "none"
    /\ conn' = "up"
    /\ UNCHANGED <<phase, tape, arrived, need, buffer, calls, history>>

Ask(c) ==
    /\ conn = "up" /\ calls < MaxCalls
    /\ Len(asked) < Len(answered) + Window
    /\ c.id = calls + 1 /\ <<c.procedure, c.data>> \in Menu
    /\ calls' = calls + 1
    /\ tape' = tape \o Seen(Packet(c), spoiled)
    /\ asked' = Note(asked, c)
    /\ UNCHANGED <<phase, conn, arrived, need, buffer, handled, answered, spoiled>>

Arrive ==
    /\ conn \in {"up", "stalled"} /\ arrived < Len(tape)
    /\ arrived' \in (arrived + 1)..Len(tape)
    /\ UNCHANGED <<phase, conn, tape, need, buffer, calls, history>>

\* The client makes no more calls, and does not read the answers; or it is lost, and
\* nothing tells the dongle so.
Stall ==
    /\ conn = "up"
    /\ conn' = "stalled"
    /\ UNCHANGED <<phase, tape, arrived, need, buffer, calls, history>>

\* The connection is closed or reset; what has not arrived is lost.
Vanish ==
    /\ conn \in {"up", "stalled"}
    /\ conn' = "gone"
    /\ UNCHANGED <<phase, tape, arrived, need, buffer, calls, history>>

\* The connection ends: nothing of it is left but the buffer.
Forget ==
    /\ conn' = "none"
    /\ tape' = <<>> /\ arrived' = 0 /\ need' = 0
    /\ asked' = <<>> /\ handled' = <<>> /\ answered' = <<>>
    /\ spoiled' = FALSE

\* The client and the server are, or are not, out of step after this.
Keep == UNCHANGED <<asked, handled, answered, spoiled>>
Spoil == spoiled' = TRUE /\ asked' = <<>> /\ handled' = <<>> /\ answered' = <<>>

\* The next k words are read.
Take(k) == /\ tape' = Seen(SubSeq(tape, k + 1, Len(tape)), spoiled')
           /\ arrived' = arrived - k

-----------------------------------------------------------------------------
(* get_vxi_packet().                                                       *)

\* Fault: the length is taken to include the prefix.
LengthsWithPrefix(w) == IF w.is = "prefix" THEN {1 + w.of.data} ELSE 0..(BufferWords + 1)
\* The length a word stands for when it is read as a prefix: any number of words,
\* if it is not one.  BufferWords + 1 is whatever does not fit.
Lengths(w) == IF w.is = "prefix" THEN {BodyLength(w.of)} ELSE 0..(BufferWords + 1)

\* Fault: a connection that is closed is not read any more.
GetPrefixIfUp ==
    /\ phase = "loop" /\ conn = "up" /\ arrived > 0
    /\ \E len \in Lengths(tape[1]) :
          /\ phase' = CASE len = 0 -> "loop" [] len = 1 -> "handle" [] OTHER -> "body"
          /\ need' = IF len > BufferWords THEN BufferWords ELSE len
          /\ IF len > BufferWords THEN Spoil ELSE Keep
    /\ Take(1)
    /\ UNCHANGED <<conn, buffer, calls>>
\* Fault: the length is not cut to the size of the buffer.
GetPrefixUncut ==
    /\ phase = "loop" /\ conn # "none" /\ arrived > 0
    /\ \E len \in Lengths(tape[1]) :
          /\ phase' = CASE len = 0 -> "loop" [] len = 1 -> "handle" [] OTHER -> "body"
          /\ need' = len
    /\ Keep
    /\ Take(1)
    /\ UNCHANGED <<conn, buffer, calls>>
\* Fault: the prefix is looked at, and stays.
GetPrefixPeeked ==
    /\ phase = "loop" /\ conn # "none" /\ arrived > 0
    /\ \E len \in Lengths(tape[1]) :
          /\ phase' = CASE len = 0 -> "loop" [] len = 1 -> "handle" [] OTHER -> "body"
          /\ need' = IF len > BufferWords THEN BufferWords ELSE len
          /\ IF len > BufferWords THEN Spoil ELSE Keep
    /\ UNCHANGED <<network, buffer, calls>>
\* connected(), which it is while there is something to read; then the prefix.
\* Nothing follows a length of 0.  A body of 4 bytes or less is not read, and the
\* buffer is handled as it is.  No more is read than the buffer can hold.
\* (If no prefix arrives in time the length is 0 and nothing changes.)
GetPrefix ==
    /\ phase = "loop" /\ conn # "none" /\ arrived > 0
    /\ \E len \in Lengths(tape[1]) :
          /\ phase' = CASE len = 0 -> "loop" [] len = 1 -> "handle" [] OTHER -> "body"
          /\ need' = IF len > BufferWords THEN BufferWords ELSE len
          /\ IF len > BufferWords THEN Spoil ELSE Keep
    /\ Take(1)
    /\ UNCHANGED <<conn, buffer, calls>>

\* The next k words are put into the buffer; the rest of it stays.
Store(k) ==
    /\ buffer' = [i \in 1..BufferWords |-> IF i <= k THEN tape[i] ELSE buffer[i]]
    /\ Take(k)
    /\ phase' = "handle"
    /\ UNCHANGED <<conn, need, calls>>

\* Fault: what has arrived of the body is taken to be all of it.
GetBodyEagerly ==
    /\ phase = "body" /\ arrived > 0
    /\ Keep
    /\ Store(IF need <= arrived THEN need ELSE arrived)
GetBody == phase = "body" /\ need <= arrived /\ Keep /\ Store(need)

\* readBytes() gives up, but its result is not looked at.
BodyTimeout == phase = "body" /\ arrived < need /\ Spoil /\ Store(arrived)

-----------------------------------------------------------------------------
(* handle_packet() and send_vxi_packet().                                  *)

Requested == buffer[2].of

\* The data the call speaks of, as far as it lies in the buffer, is its own.
OwnData == \A i \in 3..BodyLength(Requested) :
              i <= BufferWords /\ buffer[i] = [is |-> "data", of |-> Requested]

Executed == IF buffer[2].is = "call" /\ OwnData THEN Requested ELSE Garbled

\* create_link() and write() put a terminator behind the data.
Terminated == [i \in 1..BufferWords |-> IF i = BodyLength(Requested) + 1 THEN Blank ELSE buffer[i]]

HandlePacket ==
    /\ phase = "handle"
    /\ phase' = "reply"
    /\ handled' = Note(handled, Executed)
    /\ buffer' \in IF buffer[2].is = "call" THEN
                       CASE Requested.procedure = "write"  -> {Terminated}
                         [] Requested.procedure = "create" -> {Terminated, buffer}
                         [] OTHER                          -> {buffer}
                   ELSE {buffer}
    /\ UNCHANGED <<network, need, calls, asked, answered, spoiled>>

\* Whether the connection is closed afterwards; noise may ask for it or not.
bClose == CASE buffer[2].is = "call"  -> {Requested.procedure = "destroy"}
            [] buffer[2].is = "noise" -> {TRUE, FALSE}
            [] OTHER                  -> {FALSE}

\* The answer carries the transaction id that is in the buffer.
Response == IF buffer[1] = [is |-> "xid", of |-> Executed] THEN Executed ELSE Garbled

\* Fault: a procedure that is not available is not answered.
SendServed ==
    /\ phase = "reply"
    /\ phase' = "loop"
    /\ \/ TRUE \in bClose /\ Forget
       \/ /\ FALSE \in bClose
          /\ answered' = IF Requested.procedure # "other"
                         THEN Note(answered, Response) ELSE answered
          /\ UNCHANGED <<network, need, asked, handled, spoiled>>
    /\ UNCHANGED <<buffer, calls>>
\* After DESTROY_LINK the connection is closed by begin_next().
Send ==
    /\ phase = "reply"
    /\ phase' = "loop"
    /\ \/ TRUE \in bClose /\ Forget
       \/ /\ FALSE \in bClose
          /\ answered' = Note(answered, Response)
          /\ UNCHANGED <<network, need, asked, handled, spoiled>>
    /\ UNCHANGED <<buffer, calls>>

\* "wait for tcp to be available": a closed connection never is, nor one whose client
\* has left too much unread, and the loop that waits for it feeds no watchdog.
Hang ==
    /\ phase = "reply" /\ conn \in {"stalled", "gone"}
    /\ phase' = "hung"
    /\ UNCHANGED <<network, need, buffer, calls, history>>

Cleared == [i \in 1..BufferWords |-> Blank]

\* The watchdog restarts the dongle.
Watchdog ==
    /\ phase = "hung"
    /\ phase' = "loop"
    /\ Forget
    /\ buffer' = Cleared
    /\ UNCHANGED calls

-----------------------------------------------------------------------------
(* The end of a connection.                                                *)

\* client.connected(): open, or with something left to be read.
connected == conn \in {"up", "stalled"} \/ (conn = "gone" /\ arrived > 0)

Close ==
    /\ phase = "loop" /\ conn # "none" /\ ~connected
    /\ Forget
    /\ UNCHANGED <<phase, buffer, calls>>

\* disconnect_client(), from the web page
Kick ==
    /\ phase = "loop" /\ connected
    /\ Forget
    /\ UNCHANGED <<phase, buffer, calls>>

-----------------------------------------------------------------------------
Init ==
    /\ phase = "loop" /\ conn = "none"
    /\ tape = <<>> /\ arrived = 0 /\ need = 0
    /\ buffer = Cleared /\ calls = 0
    /\ asked = <<>> /\ handled = <<>> /\ answered = <<>>
    /\ spoiled = FALSE

Server == GetPrefix \/ GetBody \/ BodyTimeout \/ HandlePacket \/ Send \/ Close

Next == \/ Server \/ Hang \/ Watchdog \/ Kick
        \/ Connect \/ (\E c \in Calls : Ask(c)) \/ Arrive \/ Stall \/ Vanish

Spec == Init /\ [][Next]_vars
\* loop() runs for ever, the network delivers, and the watchdog watches.
LoopingSpec == Spec /\ WF_vars(Server) /\ WF_vars(Arrive) /\ WF_vars(Watchdog)

-----------------------------------------------------------------------------
(* Properties.                                                             *)

Entries == Seq(Calls \cup {Garbled})

\* Types; what has arrived and is not read is part of what was sent.
TypeOK ==
    /\ phase \in {"loop", "body", "handle", "reply", "hung"}
    /\ conn \in {"none", "up", "stalled", "gone"}
    /\ tape \in Seq(Words \cup {Noise})
    /\ arrived \in 0..Len(tape)
    /\ need \in 0..BufferWords
    /\ buffer \in [1..BufferWords -> Words \cup {Blank, Noise}]
    /\ calls \in 0..MaxCalls
    /\ asked \in Seq(Calls)
    /\ handled \in Entries /\ answered \in Entries
    /\ spoiled \in BOOLEAN

\* Until a call is cut, the server is never out of step with its client: between
\* calls the next word to be read is the prefix of the next call, and what it
\* is about to execute is that call, whole, whatever was in the buffer before.
InStep ==
    ~spoiled =>
        /\ phase = "loop" =>
              IF Len(handled) = Len(asked)
              THEN tape = <<>>
              ELSE tape # <<>> /\ tape[1] = [is |-> "prefix", of |-> asked[Len(handled) + 1]]
        /\ phase = "handle" => Executed = asked[Len(handled) + 1]
        /\ phase \in {"reply", "hung"} => Response = asked[Len(handled)]

Contract == INSTANCE RpcContract WITH
    promised <- ~spoiled

\* The server keeps RpcContract: a client whose calls fit and come in time has
\* them executed once and in order and answered with their own transaction ids,
\* and a client that comes after one whose calls were cut starts afresh.
KeepsContract == Contract!Spec

\* Bound on the steps of the server until it has dealt with what has arrived: a
\* word makes it go through its phases once at most.
StepsLeft == 4 * arrived + (CASE phase = "body" -> 3 [] phase = "handle" -> 2
                              [] phase = "reply" -> 1 [] OTHER -> 0)

\* While a client holds the server, each step of the server brings it nearer to
\* the end of what has arrived: no length that a word may be taken for, and no
\* call that is cut short, makes it go round.  Only a client that is still there
\* gives it more to do.
EveryStepCounts ==
    [][conn # "none" /\ conn' = conn =>
          \/ StepsLeft' < StepsLeft
          \/ conn # "gone" /\ (arrived' > arrived \/ calls' > calls)]_vars

\* A call that comes whole is answered in the end if the client stays and reads.
EveryCallAnswered ==
    \A n \in 1..MaxCalls :
        (Len(asked) >= n /\ Len(answered) < n)
            ~> (Len(answered) >= n \/ spoiled \/ conn # "up")

\* The server notices that a connection has been closed or reset, whatever was left
\* unread, if need be because the watchdog restarts the dongle: it becomes free again.
FreedInTheEnd == conn = "gone" ~> conn # "gone"
=============================================================================
