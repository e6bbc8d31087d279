# Specifications of the Riden dongle firmware

The firmware runs on an ESP8266 inside a Riden power supply.  It talks Modbus RTU
to the supply over the UART and offers the supply to the network: SCPI over a raw
socket and over VXI-11, Modbus TCP, and web pages.  These TLA+ modules model the
parts of the firmware where something can go wrong that a test would hardly reach.

- [Inventory](#inventory): components, state, interaction, what is hard
- [Modules](#modules): what models what
- [Runs](#runs): what is model-checked, with which bounds and fairness
- [Proofs](#proofs): what holds for every value of the constants
- [Findings](#findings): where comments and code disagree
- [Plan](#plan) and [limits](#limits)

## Inventory

The firmware has one thread and no pre-emption.  `setup()` starts the components,
`loop()` in `main.cpp` calls one `loop()` of each in a fixed order: Modbus, SCPI,
bridge, RPC bind, VXI-11, web server.  Concurrency comes from three sides: the
peers and the supply act at any time; the wait loops run the Modbus library's
`task()`, which calls the bridge back; and state survives from one `loop()` to the
next while clients come and go.

| Component | State | Operations | Correct when |
|---|---|---|---|
| Modbus link (`riden_modbus.cpp` 683-756, with the modbus-esp8266 library) | the library's transaction slot, buffer pointer and raw callback; `millis()` | blocking read and write, `wait_for_inactive()`, `task()` | each answer reaches the request it answers; a call that returns true has been carried out; waits end |
| Register access (`riden_modbus.cpp`, `riden_modbus_registers.h`) | multipliers, type, limits | getters, setters, `get_all_values()`, presets | what is reported of a wide value was so at one moment; what is set is read back |
| Modbus TCP bridge (`riden_modbus_bridge.cpp`) | transaction id, unit id and IP address of the request under way | two raw callbacks, `disconnect_client()` | a client is answered once, with its own response |
| SCPI server and parser (`riden_scpi.cpp`) | one client, input buffer, output buffer, `external_control`, `external_output_ready` | accept, read, reap; `write()`/`read()` for VXI; command handlers | a line is from one client and whole, an answer goes to who asked |
| VXI-11 server (`vxi_server.cpp`, `rpc_packets.cpp`) | one client, one read and one send buffer, the listener | create and destroy link, write, read, port rotation, packets | control of the parser is claimed and given back; a call is executed once, whole and in order; the server gets free again |
| RPC bind server (`rpc_bind_server.cpp`, `utilities.h`) | two request buffers, UDP and TCP sockets, cyclic port | answer GETPORT while the VXI server is free | the port handed out is the one listened on; an answer belongs to its request |
| Web server (`riden_http_server.cpp`) | none of its own | status, set, toggle, configuration, disconnect, reboot, upload | an operation does what it reports |
| Configuration (`riden_config.cpp`) | time zone, baud rate, portal flag, in RAM and EEPROM | begin, commit, portal flag | survives resets, the portal flag works once |
| Boot (`main.cpp`) | `connected`, `has_time`, `did_update_time` | retry of `begin()`, WiFi, start of the servers, clock | servers run only with a supply, the clock is set |

Interaction: SCPI handlers, web pages and the clock update call the getters and
setters of `RidenModbus`; the bridge uses the library's raw requests beside them on
the same slot; the VXI server writes to and reads from the SCPI parser through
`scpi_bridge.h`; the RPC server asks the VXI server for its port; the web server
disconnects the clients of all of them.

What is hard: answers that come late, never, or after the caller has gone; a
callback left installed; unsigned time that wraps; one parser and one pair of
buffers for clients that come and go; and peers that vanish in the middle of a
protocol.  `PROJECT.json` lists these hazards line by line.

## Modules

| Module | Models |
|---|---|
| `RidenBus` | `wait_for_inactive()`, the blocking calls, the bridge's callbacks, and the part of the library they rely on |
| `BusContract` | what the link promises: one holder at a time, an answer goes to the holder; and what is left of that when the supply was given up on |
| `RidenBusProofs` | TLAPS proofs about `RidenBus` |
| `ScpiControl` | `RidenScpi::loop()`, `write()`, `read()`, output callbacks, `VXI_Server::loop()` and its procedures, disconnection from the web |
| `ParserContract` | what the two servers that share the parser are promised: who may use it when, and whose answers it gives to whom |
| `ScpiControlProofs` | TLAPS proofs about `ScpiControl` |
| `DongleBoot` | `setup()`, `connect_wifi()`, the clock update of `loop()`, `RidenConfig` with its EEPROM store, the pages that change the configuration or restart the dongle, power failures |
| `DongleBootProofs` | TLAPS proofs about `DongleBoot` |
| `RidenRegisters` | the supply's registers, the chunks of `get_all_values()`, the identification, and how a number becomes counts |
| `SupplyAccess` | the SCPI command handlers, the status, supply, set and toggle requests of the web server, and the supply they act on |
| `SupplyAccessProofs` | TLAPS proofs about `SupplyAccess` |
| `VxiPorts` | `RPC_Bind_Server::loop()` with its request buffers, `cyclic_uint32_t`, `VXI_Server::allocate()`, `begin()` and the listener, what an upload does to the sockets |
| `VxiPortsProofs` | TLAPS proofs about `VxiPorts` |
| `VxiStream` | `get_vxi_packet()`, `handle_packet()` and `send_vxi_packet()`: how a stream of bytes becomes calls, and how it ends |
| `RpcContract` | what the VXI-11 server promises a client: each call once, in order, answered before the next |
| `VxiStreamProofs` | TLAPS proofs about `VxiStream` |
| `MCRidenBus`, `MCScpiControl`, `MCDongleBoot`, `MCSupplyAccess`, `MCVxiPorts`, `MCVxiStream` | what TLC runs; the constants' values are in the `.cfg` files |

An operator whose comment begins with "Fault:" is a deliberately wrong variant of
the operator that follows it.  Nothing uses it; it says what kind of mistake
a property is there to catch.

### RidenBus

The thread is at `pc`: `idle` in `loop()`, `wait1` and `wait2` in the two calls of
`wait_for_inactive()` that a blocking call makes, `bridgeWait` in the bridge's own
loop.  `cur` is the request of the blocked caller.  One action is one turn of a
wait loop: time passes (`Pass`), `task()` runs (`Task`), and only then is the time
compared, so that a call may give up in the turn in which its answer came.

The library is external; its behaviour is taken from the code's use of it and the
interface of modbus-esp8266 4.1: one slot (`server()`), freed by a frame or after
`MODBUSRTU_TIMEOUT` (1000 ms, longer than the firmware's 500 ms); the raw
callback sees a frame first and keeps it from the library; an exception frees the
slot without a trace; an unexpected frame is dropped, or handed to a raw callback
if there is one; a frame for an older request may pass for the answer, or may not.

The supply answers requests in order.  Unless `Prompt`, it may lose them, before or
after it has carried them out, or answer at any later time.  With `Prompt` it answers
within `MaxDelay`, which may exceed the application's timeout but not the library's.

`disturbed` is a history variable: it becomes true when the library gives up on a
transaction, and false when a request is sent on a link with nothing left over (no
request or answer under way, and no raw callback, or one that is replaced).
The properties that cannot hold after a timeout are stated for `~disturbed`, so
they also say that the link recovers.

`millis()` is a counter modulo `ClockSize`; `TimedOut` compares points in time, as
the code does, and `Expired` differences, as the library does.

The fixed order of `loop()` is relaxed to any order of its parts.

`BusContract` knows nothing of time, slots or callbacks: a request takes the link, is answered, is released without
an answer, or, unless the supply is reliable, is given up.  After that answers may go astray (`Misdeliver`), until a new request starts
the link afresh; but nobody gets two, and none is given twice.  `sound` stands for `~disturbed`, `Reliable` for `Prompt`.

### ScpiControl

`phase` is the place in `loop()`: accepting, reading and reaping in
`RidenScpi::loop()`, then the VXI server, then the web server; the peers act in
between.  A piece of a line (`part`) is what one call of `readBytes()` loop gets
before it times out; `query` and `set` complete a line, and only `query` has an answer (a
question that fails on the Modbus link has none, like `set`).  Buffers hold the names
of those whose data is in them.  `inputBuf` and `pending` together tell whether a
parsed line is whole.

A write over VXI-11 of white space only, or of more than the input buffer holds, leaves the parser and control alone (`DevWriteBlank`).

A connection that is lost keeps its unread data or loses it.  Its handle may compare
as false before the server notices (`Collapse`).  `sent`, which bounds what a peer
sends, starts again with each connection.

`LinkFirst` says that VXI clients send CREATE_LINK first, as the protocol
requires.  Without it `RawGetsOwnAnswers` does not hold: a client that writes
without a link and is disconnected from the web page in the same turn of
`loop()` leaves its answer to a raw client that was never stopped.

`ParserContract` sees no buffers and no connections, only who has claimed the parser (`claimed`), which raw client is served (`user`), and
whose questions have answers that nobody has read (`left`).  `SharesAsPromised` maps them to `external_control`, `rawClient` and what is in the
output buffer.  It promises a raw client an empty parser to itself; it does not promise a VXI client that what it reads answers its own
question (see [findings](#findings)).

Sending an answer is a step that ends here.  `create_link()` sends it after it has claimed control and `destroy_link()` before it
releases it (`vxi_server.cpp:187-188`); if the client has gone by then the firmware may hang in `send_vxi_packet()`, which
`VxiStream` and `VxiPorts` model, until the watchdog restarts it.  The restart stops every client and releases control,
so that `RawIsDisabled` and `DestroyReleases` have nothing left to ask.

The check of `write_buffer_length` in `read()` is modelled; the overrun of the
output buffer that would precede it is not: `MaxItems` stays below `OutCapacity`.

### DongleBoot

`pc` is the place in `setup()`, or `running` in `loop()`.  `commit()` is a place of its
own, `after` says where its caller goes on, and its result is not among what they
look at, as in the code.  The EEPROM library is external: it does nothing if nothing has changed,
otherwise it erases the sector and writes it.  Each of the two may fail, and power may go
between or during them; a write that is cut short leaves the erased sector, or a valid
header with fields that are not written (`Noise`), since there is no checksum.

`flash.version` is `none` for an erased sector, a wrong magic and an unknown version,
which `begin()` treats alike.  Time is counted in tries of `begin()`: `MaxWait` fit into the
five seconds, and the supply answers from try `readyAt` on; a try may still be lost on the link, and `missed` says that the last one was.  The supply's baud rate changes
with the power off only, as the page says.  A posted rate that does not parse is stored as a rate
no supply has (`Choices` has `Noise` for it): no supply is found with it, but the pages come up, and another can be
posted there.  An id that `begin()` does not know is the
same to it as no answer, and is not modelled apart.

Three history variables carry what the user may expect: `wanted` are the settings posted
last, `lost` says that storing them went wrong, and `due` whether a portal has been announced and not
been shown yet.  `due` is `maybe` after failures that leave it open.

`clock` holds `has_time`, `did_update_time` and what came of `set_clock()`.

### RidenRegisters and SupplyAccess

`RidenRegisters` has no state.  `Span` is the register map; `Chunk`, `Total`, `ReportedFields` and `Look`
are `get_all_values()`: what it reads at a time, and where it looks for each field.  A voltage or
current that is asked for is an integer of ten thousandths.  `Truncated(n, M)`, with `FallsShort`, is what
`uint16_t(d * M)` makes of the double `d` that is nearest to `n / M`, worked out with integers: the
quotient is rounded to 53 binary digits, and if it was rounded down, the product may fall to
the double below `n`.  It gives `n` or `n - 1`; compared with double arithmetic it agrees for every
`n` up to 65535 and the three factors the supplies have.  A number that does not fit in 16 bits is undefined behaviour in C++,
and `Converted` then allows for wrapping and saturation.  No handler refuses such a number.

In `SupplyAccess` one transaction on the link is one step, and stands for a call of `RidenBus`: carried
out and heard of, carried out and unheard, or lost.  (A supply that refuses requests makes
that weaker, as `bus_refused` shows; `SuccessfulCallsAreDone` is the theorem for one that does not.)
SCPI handlers make one transaction each, so a command is one action.  A readout is one
action for each chunk, and a toggle reads, writes and then reads out; in between the supply measures
and its front panel may be used (`Drift`).  `SetNumber` stands for the set requests of the web pages too.
`during` collects what every field has been during a readout, `asked` remembers what a setting was last set to,
until it fails, or the supply changes it.

### VxiPorts

`loop()` passes through `bind`, `vxi` and `http`; clients act in between.  `send_bind_packet()` and `send_vxi_packet()` wait for room in
the connection in loops with no end (`rpc_packets.cpp:148` and `:183`): if the client has gone, or does not read, the firmware is `hung`
(`Hang` over TCP, `VxiHang`) until the watchdog of the chip restarts it (`Watchdog`).  All requests, connections and buffers are lost then;
what clients were told is not.  A bind client over TCP may go at any time before its answer; all that can come of it is that the answer is
lost or the firmware hangs, so that `BindTCP` leaves it open which.  A bind request is one of
the kinds that leave different things in the request buffer: whole, with the port mapper's or another program or
procedure; cut short behind its transaction id; `brief`, with a length that makes `get_bind_packet()` read nothing; or `silent`.
`KindsOnUDP` and `KindsOnTCP` say which of them clients send.  `Stored` says what the buffer holds
afterwards, which is what `process_request()` looks at, since nothing clears the buffers.  `Reply` may be lost.
A client believes an answer with its own transaction id, and connects to the port it was `told`.

The VXI server is `ScpiControl`'s, seen from the side of its listener: `VxiAccept`, `VxiIdle` and `VxiClose` are what
a turn of its `loop()` may come to, and a packet matters only if it is DESTROY_LINK (`goodbye`).  `BeginNext` moves
the listener; whether the network stack then drops connections that nobody has accepted is left open.
Ranges are given to the constructor in either order, as `Cyclic` takes them.

`UploadFails` is `WiFiUDP::stopAll()` of a firmware upload that does not end in a restart; how an upload comes out is the
Updater library's matter.  A successful one is `Reboot` in `DongleBoot`.

`fresh`, `last` and `recent` are history: who has been told a port since the listener last moved, the answer of this turn, and
the ports used since each other port had its turn.  `AnswersAreRight` takes in the requests that are cut short or not read:
the first are answered with their own id and what an earlier one asked for, the second with an older id, which their client does not take.

### VxiStream and RpcContract

The unit is the word of 4 bytes.  A call is a prefix with its length, and a body of a transaction id, what is asked for, and
data.  Words are marked with the call they belong to, so that the model can tell a call that is whole
from one that was put together.  `tape` is what has been sent and not been read, `arrived` how much of it is there.
`Lengths` says what a word means where a prefix is expected: one that is not a prefix may stand for any length, those that fit in the
buffer included (`rpc_packets.cpp:90-95`); `BufferWords + 1` is whatever does not fit.  A length above the
buffer's is cut (`rpc_packets.cpp:93`), and a body that has not come in time is handled all the same, with what the buffer
held before (`BodyTimeout`; the result of `readBytes()` is not looked at).  `write()` and `create_link()` put a terminator
behind the data, which is a word of the buffer if it is inside.

After a cut or late call the rest of it is read as calls; `spoiled` says so, and the server's promise ends there until the next
connection.  A length need not be a multiple of a word, so that from then on the server may read across words: what it has not read yet is `Noise`,
which stands for any length, executes as nothing a client asked for, and may close the connection or not.  `RpcContract` states the promise, and `KeepsContract` that the server keeps it: before the first such call, and again
with the next client, although the buffer still holds what the last one left.

`send_vxi_packet()` waits for room in a loop with no end.  There is none if the client has gone, or is `stalled`: it does not read, or
is lost without the network telling the dongle, and what was sent to it fills the connection.  `Hang` is that loop, which only the watchdog ends, by a restart.
A stalled client's connection is not known to be lost, so the server stays with it until an answer hangs or the
client is reset; `FreedInTheEnd` speaks of the losses the network stack reports.  The fragment bit is masked by the code and is not in the model.

## Runs

| Run | Configuration | Shows |
|---|---|---|
| `bus_faulty` | 1 TCP client, 3 requests, losses, memory failures; fair firmware | types; one receiver per answer and one answer per receiver; right receivers and truthful results whenever the link is clean; `BusContract` is implemented; waits are bounded, the clock never comes round under one, and no wait loop runs for ever |
| `bus_prompt` | 1 TCP client, 3 requests, exceptions, answers up to the library's timeout; fair firmware and supply | `BusContract` is implemented with a reliable supply (nothing is given up, nothing goes astray), and forwarded requests are answered |
| `scpi_shared` | 2 raw clients, 1 VXI client, 3 items per connection, blanks among them; fair loop | raw clients get their own answers, lines are whole, `ParserContract` is implemented, raw clients yield to a VXI client, a destroyed link gives control back |
| `boot_store` | 1 time zone, 2 baud rates, supply slow to start, requests lost; fair firmware and network | settings survive, a portal is shown once per request, the supply is found unless the last try is lost, every step of a start brings it nearer to its end, the dongle comes up |
| `supply_access` | RD6018, 2 changes of the supply, 10 fields that may change; no fairness | reports are true field by field, acknowledged settings are read back within a count, settings stay legal |
| `vxi_ports` | 2 clients, ranges of one and of three ports, 3 bind requests, one waiting on each transport, hangs and restarts; fair firmware and watchdog | the port handed out is listened on until the listener moves, with one port for ever; answers belong to their requests; ports take turns; waiting connections and requests over TCP are served |
| `vxi_stream` | 3 calls, 2 ahead of the answers, buffer of 3 words, data of 0 to 2, misread words of any length, clients that stall; fair server, network and watchdog | calls that come whole and in time are executed once, in order, with their own data; each is answered; the server gets free when its client is gone, and every step of the server counts towards that |
| `bus_wrong_answer`, `bus_wrap`, `bus_refused`, `scpi_locked_out`, `supply_exact` | smallest that show it | see [findings](#findings) |

Bounds.  Timeouts are 2 (application) and 4 (library) ticks, the order of 500 and
1000 ms; `ClockSize` is 8, and the clock starts at every value, so that every part of
a call meets the wrap.  Three requests are enough for one that is left behind, one that
suffers and one that recovers.  One TCP client is enough, since requests are told apart by
id, so that an answer to a client's other request counts as wrong too.  A line of two parts
and a rest fills the input buffer (`InCapacity` 2) and overflows it.  Three
items let a VXI client create a link, ask, and read or leave.  `DongleBoot` has no bound on
starts, posts or failures; two baud rates, and one that does not parse, are enough for one that is not the default and one
that is not the supply's.  In `SupplyAccess` a readout needs one change to be torn and a setting two to be
lost again (`MaxChanges`); the fields that change are those next to the ends of chunks and some others, and the
registers hold different numbers at first.  Its amounts are a number of counts that
binary fractions miss, one that is not whole, and one that does not fit; its parameters lie on both sides of
each limit, and one comes to a legal one in eight bits.
`VxiPorts` needs two clients for one that is told a port while the other's session moves the listener, and three ports for a
wrong rotation to show.  Each kind of request but `procedure`, which is refused like `program`, is sent over one of the two transports,
`getport` over both; the code handles both alike once they are read.  In `VxiStream` a
buffer of 3 words holds a call with one word of data: the run has calls with none, with as much as fits, and
with one more, misread words stand for each length from 0 to one that does not fit, and three calls are one that is cut, one that is read from its rest, and one of the next client.

Fairness.  `WF(Firmware)` and `WF(Loop)`: the thread never stops, since nothing in it
blocks but the modelled wait loops.  Two of these have no end, and `VxiPorts` and `VxiStream`, where they are, add `WF(Watchdog)`: neither feeds
the watchdog of the ESP8266, which resets the chip some seconds later.  `WF(Answer)` in `bus_prompt` is the assumption
of that run that the supply answers.  Clients are never assumed to act.
`CallsReturn` needs no more than `WF(Firmware)`: the supply may be silent.
`DongleBoot` assumes that a network is found, or entered in the portal, if the dongle tries again and
again (`SF(WifiConnects)`): it resets itself for ever otherwise.
In `VxiPorts` a firmware that hangs takes no step but the watchdog's; `WaitingIsServed` and `TcpIsRead` state what else they need in their own premises: that clients
go in the end, and that the server is found free with no datagram waiting again and again, since `loop()` looks for datagrams
first.  `VxiStream` adds `WF(Arrive)`: what was sent arrives while the connection stands.

## Proofs

`RidenBusProofs` proves, for every set of clients, every number of requests and all
times that satisfy the assumptions (`AppTimeout < LibTimeout`,
`LibTimeout + 2 * MaxStall < ClockSize`, and `MaxDelay <= LibTimeout` for a prompt
supply):

| Theorem | States |
|---|---|
| `TypeCorrect` | `[]TypeOK` |
| `WaitBounded` | `[]WaitIsBounded`: a wait takes no longer than the application's timeout, or the library's where the clock wraps; the bridge's no longer than the library's |
| `WaitsCount` | `TimeCounts`: the clock never comes round under a wait |
| `AnswersReachTheirRequests` | `RightReceiver` |
| `SuccessfulCallsAreDone` | `TrueMeansDone` |
| `PromptNeverDisturbed` | a prompt supply is never given up on |
| `ContractKept` | `KeepsContract`: `RidenBus` implements `BusContract`, whatever the supply does |
| `ResponsesAreForwarded` | with a prompt supply, `[]ClientsGetOwnResponse` |
| `SuccessIsAccepted` | with a prompt supply that refuses nothing, `[]TrueMeansAccepted` |
| `AnswersGoOnce` | `[]OneAnswerOneReceiver` |
| `GivesUpInTime` | a wait whose `wait_until` does not wrap gives up only after its timeout |

`TypeOK` is inductive.  The rest need `IInv`.  A bounded wait is not inductive by
itself: the code's check is useless near the wrap, and what ends the wait there is the
age of the transaction in the slot (`Young`).  `RightReceiver` needs to know
that whatever is on the wire, in the receive buffer, in the library's pointer and in
the bridge belongs to the slot's transaction (`Aligned`), which a timeout breaks and a
clean send restores.  `TrueMeansDone` needs `SecondWait`, which relates the second wait to
that transaction, and `Accepted`; and the prompt supply needs `OnTime`, that the slot's request is
always under way and not overdue.  Its seven conjuncts are kept by every action
(`NextInv`); what a turn of a wait loop does is proved once (`TickType`, `TickYoung`,
`TickAligned`, `TickCompletes`, `TickOnTime`), what sending does in `SendInv`.  Clock
arithmetic is confined to `ElapsedLater` and three more lemmas.

`AnswersGoOnce` rests on another invariant, `FInv`, and on no assumption about time or the supply.  Requests are
numbered, and none on its way has a number still to come (`Aged`); nothing is known of a request that waits for
the link (`Unsent`), so that sending it cannot repeat an answered one; what is on the wire or received has not been answered (`Pending`); and the
library's buffer and the bridge's client still wait for their first answer (`Receivers`).

`ContractKept` takes both invariants: `IInv` tells that an answer on a clean link goes to the holder (`Handover`), `FInv` that one
that goes astray is new and so is its receiver (`Astray`).  A step that delivers nothing is looked at through the slot alone (`SlotStep`).

Three theorems say how far the comments are right that `bus_wrong_answer`, `bus_refused` and `bus_wrap` refute.  `ResponsesAreForwarded`: forwarding
is as the comment says with a supply that answers within the library's timeout, even if callers gave up before; it follows from the contract
alone (`ContractAnswers`).  `SuccessIsAccepted`: "true on success" needs a supply that refuses nothing as well.
`GivesUpInTime`: a wait that begins far enough from the wrap does not give up early, whatever the supply does.

`DongleBootProofs` proves, for every set of time zones and baud rates (`DefaultBaud` being
one of them) and every `BootTime <= MaxWait`:

| Theorem | States |
|---|---|
| `BootTypeCorrect` | `[]TypeOK` |
| `SettingsAreKept` | `[]SettingsSurvive` |
| `PortalIsShown`, `PortalIsShownOnce` | `PortalWhenAsked`, `PortalOnlyWhenAsked` |
| `SupplyFound` | `[]SupplyIsFound` |
| `StartsAdvance` | `StartAdvances` |

`SettingsSurvive` is inductive once types are known: it speaks of RAM and of the store, and of the
moments when one is ahead of the other.  The two portal properties compare a history variable
with a flag in RAM, and between them lies the store, a restart or any number of power failures.
`DueIsFlagged` and `FlagIsDue` follow the flag along that way in both directions, and `CommitKnows` says what RAM
holds while `commit()` is under way.  `SupplyIsFound` has it that the supply is found exactly if the stored baud rate is its own and the last try was not lost; it needs `LinkIsKnown`, which covers the places
between `begin()` and `loop()`.

`ScpiControlProofs` proves, for all clients, queues, sizes of the buffers and numbers of items:

| Theorem | States |
|---|---|
| `ScpiTypeCorrect` | `[]TypeOK` |
| `RawAnswersAreOwn` | with `LinkFirst`, `[]RawGetsOwnAnswers` |
| `LinesStayWhole` | with `LinkFirst`, `[]LinesAreWhole` |
| `ParserIsShared` | with `LinkFirst`, `SharesAsPromised`: `ScpiControl` implements `ParserContract` |
| `RawYields` | `[]Yielded`, with or without `LinkFirst` |

`TypeOK` needs `HasCome`: a client in a queue or being served has connected.  The two safety properties are about what is left in the
buffers when the parser changes hands.  `Yielded`: past the first step of `RidenScpi::loop()` there is either no raw client or no
external control.  `LinksFirst` is what `LinkFirst` amounts to: a VXI client is still to send CREATE_LINK, of which nothing was
read yet, or it is the one served and holds a link.  `OwnBuffers`: while a raw client is served, both buffers are its own, and
the input buffer holds the parts it has pending.  `NonePending`: nobody else has parts of a line pending.  Without `LinkFirst` a VXI client
could fill the buffers of a raw client that was never stopped.

`ParserIsShared` takes the same invariant, step by step (`StepKeeps`).  Most steps put nothing into the parser (`Comings`); accepting, reading,
writing and fetching have a lemma each.  `WriterIsAlone` is where `Yielded` and `LinksFirst` meet: who writes has control, and no raw client is left.

`SupplyAccessProofs` proves, for every supply `begin()` knows, all amounts, choices and dates, and any number of changes:

| Theorem | States |
|---|---|
| `SupplyTypeCorrect` | `[]TypeOK` |
| `SettingsLegal` | `[]SettingsStayLegal` |
| `TrueReports` | `[]ReportsAreTrue` |
| `SettingIsRead` | `[]SetThenRead` |
| `ExactUnlessMissed` | `[]SetIsExact`, if no voltage users ask for comes to a count that binary fractions miss |

They assume that the supply comes in a legal state (`LegalContents`), and that its own changes leave preset, language and brightness alone
(`SupplyAssumption`).  The facts about the register map are lemmas: no setting lies in another's
registers (`SettingsApart`, `FieldsApart`), a field has all registers of a setting or none (`WholeSettings`), every question
reads the registers its command writes (`QuestionFields`), a report looks for a field where it is (`Reported`), and no field but the calibration
lies across the end of a transaction (`OneTransaction`).  `TrueReports` needs to know what has been read so far (`ReadSoFar`): each
field whose registers are all below the place the readout stands at was, as it was read, among what
the field has been.  `ChunkIsRead` is the step of the loop.  `SettingIsRead` needs that an acknowledged setting is what the registers
hold (`SetIsHeld`), and that an answer outlives no change of its setting (`AnswerIsHeld`); `ConvertedIsClose` bounds the conversion
for every amount and all factors, from `InCounts` and from `Truncated` giving `n` or `n - 1`.  The invariant keeps more than that,
what the conversion gave (`Stores`), so that `ExactUnlessMissed` follows too: `supply_exact` violates `SetIsExact` with such a count, and
there is no other way.

`VxiPortsProofs` proves, for all clients, ranges, kinds and numbers of requests:

| Theorem | States |
|---|---|
| `PortsTypeCorrect` | `[]TypeOK`; the port stays in its range |
| `FreshPortsOpen` | `[]FreshPortIsOpen` |
| `OnePortStays` | `OnePortIsForEver` |
| `AnswersRight` | `AnswersAreRight` |
| `PortsTakeTurns` | `EveryPortHasItsTurn` |

They hold across hangs and restarts.  Types alone are not inductive: that nobody is served and waiting at once needs that nobody waits twice (`NobodyTwice`).
`FreshPortIsOpen` holds because the counter and the listener move in one step, and nobody is told a port before
there is a listener, at the first start or after the watchdog's (`NothingYet`); `ToldForEver` carries what clients know where there is one port only.
`PortsTakeTurns` needs to know that the ports listened on last are those the counter has just passed, and fewer than there are
(`Rotation`); after a move each of them lies one further behind, and the new one is none of them (`OneFurther`).  `AnswersRight` needs, for requests that are not read, that
requests wait in the order of their ids (`InOrder`) and that what is in a buffer is older than all of them (`Oldest`).

`VxiStreamProofs` proves, for every size of the buffer (of two words or more), length of data, number of calls and window:

| Theorem | States |
|---|---|
| `StreamTypeCorrect` | `[]TypeOK` |
| `StaysInStep` | `[]InStep` |
| `StreamKeepsContract` | `KeepsContract`: `VxiStream` implements `RpcContract` |
| `ClientsAreAnsweredInOrder` | while the promise holds, the n-th answer is that of the n-th call, and no later call than the next has been executed (`AnswersInOrder` of `RpcContract`) |
| `StepsCount` | `EveryStepCounts` |

`InStep` speaks of the first word on the tape.  To know that word after a body has been read, one has to know the whole
tape: `Chain` says that every prefix on it is followed by its own body and then by the prefix of the next call, `Front` what
the tape begins with, and `IdsRise` that no two calls are the same, so that a prefix belongs to one call.  `NeedIsBody` and
`BufferHolds` connect the tape with the buffer.  All are kept until a call is cut (`SoundStays`), and a new connection
starts with them again (`ForgetSound`).  `SeenIsMarks`, `PacketIsMarks` and `TakeIsRest` say that until then no word is noise, and afterwards the tape
has as many words as before.  `StepsCount` holds whatever length a misread word stands for, since every step either takes words off the tape or goes on to the next phase.  `ClientsAreAnsweredInOrder` is proved of `RpcContract` (`ContractIsOrdered`) and holds of `VxiStream` since
it implements that.

Only model-checked are the liveness properties: `CallsReturn`, `ResponseForwarded`, `ComesUp`, `WaitingIsServed`, `TcpIsRead`,
`EveryCallAnswered`, `FreedInTheEnd`, `RawIsDisabled` and `DestroyReleases`.  That fair steps are taken in the end is out of the prover's reach.
What such a step must not do is not, and for five of them that is the larger part of the argument, and proved:

| Liveness property | Proved of it |
|---|---|
| `CallsReturn` | `WaitBounded` and `WaitsCount`: the time of a wait grows with each tick and has a bound, so that ticks end; what is left is that the firmware takes steps and the clock ticks |
| `ComesUp` | `StartsAdvance`: each step of a start lowers a number that is `MaxWait + 9` at most |
| `FreedInTheEnd` | `StepsCount`: each step lowers `StepsLeft` while the server is held by a client that has gone; what is left is that the server and the watchdog take steps |
| `EveryCallAnswered` | `StepsCount`: with a client that stays, each step lowers `StepsLeft` unless more arrives, of a bounded number of calls; `ClientsAreAnsweredInOrder`: none of its calls is passed over |
| `RawIsDisabled` | `RawYields`: after its turn in `loop()` the raw server has no client while control is claimed; what is left is that the turn comes |

## Findings

| Run | Where | Disagreement |
|---|---|---|
| `bus_wrong_answer` | `riden_modbus_bridge.cpp:122` | the raw callback forwards the first frame that comes: the late answer to a call of the application that was given up goes to the TCP client whose request was sent next (or that to a given-up request of another TCP client) |
| `bus_wrap` | `riden_modbus.cpp:693` | where `wait_until` wraps, a wait gives up in its first turn, although the supply answers in time |
| `bus_refused` | `riden_modbus.cpp:737` | a refused request is reported as a success |
| `scpi_locked_out` | `vxi_server.cpp:96` | control is not released when a VXI client is lost |
| `supply_exact` | `riden_modbus.cpp:799` | `VOLT 1.15` sets 1.14 V: the product is cut, not rounded |

Also noticed, without a run of its own: `riden_modbus_bridge.cpp:90` gives `errorResponce()` the
unit id in place of the client's address (`BridgeFails` models the call as it is).  The raw callback that `riden_modbus_bridge.cpp:98` installs
is removed by a frame only, so that after an unanswered request it takes the application's next answer, the other way round
than in `bus_wrong_answer`.  The library keeps a transaction, and the pointer to its caller's buffer (`riden_modbus.cpp:715`), for 1000 ms, while its caller gives up after
500: an answer in between is written to the stack of a function that has returned (`Store`; `dataPtr` is the request whose buffer it was).  A wait across the
wrap of `millis()` may also last for the library's timeout; `WaitIsBounded` says what is left of the bound.  `handle_toggle_out()` takes an output it
cannot read for off and switches it on (`riden_http_server.cpp:470`).  `SYSTem:TIME` cuts its parameters to eight bits
unchecked.  The comments of `riden_modbus.h` call the presets' index one-based where the accessors
count from M0 and refuse 9 (`riden_modbus.cpp:516`); nobody calls them so.  `RidenScpi::begin()` and the web pages print
a serial number and a firmware version that are not initialised if the supply does not answer.  `did_update_time` is set whatever
`set_clock()` returned (`main.cpp:192`), so that after one failed write the clock is not set until the next start, though
`README.md:52` says it is set automatically.  Neither claiming control nor `write()` empties the output buffer (`riden_scpi.cpp:738`), so
that a VXI client may read the answer its predecessor asked for.

Of the VXI-11 server: CREATE_LINK announces `VXI_READ_SIZE - 4`, 252 bytes, as the longest write (`vxi_server.cpp:178`), but a write's
header takes 60 of them, so that more than 192 bytes of data are cut (`rpc_packets.cpp:93`) and their rest read as the next packet;
the terminator of `write()` then lies behind the buffer (`vxi_server.cpp:219`).  A packet of 4 bytes or less, and a body that is late,
makes the server handle the last packet again.  One client that leaves before its answer is sent stops the whole firmware until the watchdog
restarts it, a bind client over TCP too (`rpc_packets.cpp:148`, `:183`).  A failed upload leaves the bind server's UDP socket closed until the next start
(`riden_http_server.cpp:319`).  The default range is one port (`rpc_enums.h:32-33`), so the listener does not move unless the
server is constructed with another.

## Plan

Done: `RidenBus` with its contract and proofs, `ScpiControl` with its contract and proofs, `DongleBoot`, `RidenRegisters` and
`SupplyAccess` with their proofs, `VxiPorts` with its proofs, `VxiStream` with its contract and proofs.  Every safety
property that a passing run checks, and every refinement, is proved; what else could be modelled, and why it is not, is under [limits](#limits).

Worth proving next: `WaitingIsServed` and `TcpIsRead` have no proved part yet (nobody comes before a connection or a request that
waits, and a wait is limited by the number of those before it).

## Limits

Not modelled, and not planned: page rendering and static pages, the time zone table, logging, what the Updater does with an upload,
WiFiManager, mDNS (output or library code without state of the firmware), scripts and
examples.  The libraries (modbus-esp8266, SCPI parser, ESP8266 network stack) appear only
through what the firmware sees of them, and are marked external in `PROJECT.json`.

Which connection of the Modbus TCP library a host gets, and whether it may hold two, is a build option of that library, so
`disconnect_client()` and `get_connected_clients()` of the bridge are not modelled.  Accessors of `RidenModbus` that
nothing in the program calls are not actions, since no state of the program comes from them.  `commit()` copies the time zone's name into 100 bytes without a
check (`riden_config.cpp:159`), and the page takes what is posted: a name is one of a set here, and one that does not fit is out of the model.  Overruns of the
output buffer and of the VXI packet buffers change memory whose content is the build's; buffers hold parts, answers and words here, not bytes.
