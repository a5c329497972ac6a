# A formal model of pyomb

TLA+ modules for pyomb, the Modbus library under `src/pyomb/`: a client and a
server simulator over TCP and TLS, message streams over TCP, RTU framing over
an injected serial port, and the packet classes down to their bytes. The
modules are checked with TLC on small instances; the safety properties of the
server, the client, the TCP stream, the RTU splitter, the RTU stream, of a
request with its answer and of an RTU frame byte by byte, and that the TCP
stream implements its abstract channel, are proved with TLAPS for every value of
the constants.

All paths below are relative to the repository. Line numbers of every
definition are in `PROJECT.json` under `map`.

## The system

| Part | Source | State it keeps | Operations | Talks to |
| --- | --- | --- | --- | --- |
| Server | `simulators/server.py` | read list, live clients, peer names, activity times, connection limit, three events, one thread | `run` (accept, handshake, serve, sweep, status, close), `start`, `stop`, `reset`, `accept`, `forget`, `disconnect`, setters | peers through sockets, callers through shared lists and events |
| Server responses | `simulators/server.py` | none | `on_data`, `answer`, `ResponseFactory` | PDU classes, TCP ADU, stream |
| Client | `simulators/client.py` | socket, next and pending transaction identifier | `connect`, `disconnect`, `reset`, `send_request`, `wait_response`, `send_raw` | stream, TCP ADU |
| Client requests | `simulators/client.py` | none | `send_request`'s branches, `RequestFactory` | PDU classes |
| TCP stream | `transport/stream.py` | fragment settings, packet lists, locks, stop events | `send`, `receive`, `ModbusFragmenter`, `ModbusTcpSender.run_once`, `ModbusTcpReceiver.run_once`, setters, `stop` | a socket |
| RTU framing | `transport/rtu.py` | the splitter's buffer | `read_rtu_frame`, `ModbusRtuSplitter.push`, `reset` | PDU classes' sizes, the checksum |
| RTU stream | `transport/rtu.py` | a buffer, a noise count | `ModbusRtuStream.receive`, `send` | a port |
| PDU classes | `pdu/*.py` | the class registry | `serialize`, `deserialize`, `expected_size`, `violations`, parser | - |
| TCP ADU | `adu/tcp.py` | - | header, length validation, three packet classes | PDU classes |
| RTU ADU | `adu/rtu.py` | - | CRC-16, three packet classes | PDU classes |
| Errors | `errors.py` | - | the class tree `except` clauses select on | everyone |
| TLS settings | `transport/tls.py` | - | build a context | `ssl` |

What is hard in it, and a unit test hardly reaches:

- **Server.** One thread serves everyone, and other threads write what it reads
  (`reset`, `stop`, `set_connection_limit`, `accept`). Peers close, reset, fall
  silent and break off handshakes between any two statements. Four tables and a
  socket describe one connection. Four blocking calls without a timeout, `recv`
  inside a frame, the `send` of a reply, the TLS handshake and the TLS goodbye,
  stand between one peer and everyone else.
- **Client.** Answers come late, twice, in another order, unreadable, in part or
  never; identifiers wrap; a send that fails leaves its identifier pending; a
  read that times out inside a frame leaves the stream out of step.
- **TCP stream.** Several threads drive one sender or one receiver while the
  settings change; the socket takes a part of what it is given.
- **RTU.** A frame has no length of its own. Noise, data and echoes look like
  headers; bytes arrive cut anywhere, late, or after the timeout; the port's
  read and write raise; a reply carries nothing that says what it answers.
- **Packets.** Counts, quantities and lengths that must agree, each at the edge
  of its width, two ways of finding a frame's size that must agree too, and a
  checksum that sender and receiver compute with the same code.

`PROJECT.json` lists each of these under `hazards` at the line where it bites,
with the properties that would catch it.

## The modules

| Module | Models | Extends or instantiates |
| --- | --- | --- |
| `Server` | the server simulator's thread, callers, peers, clock, in plaintext and over TLS | - |
| `ServerProof` | its theorems | `Server` |
| `Client` | the client simulator and a device | - |
| `ClientProof` | its theorems | `Client` |
| `Channel` | what a stream promises: whole messages, once, in order | - |
| `Stream` | sender, receiver and the byte stream between them | implements `Channel` |
| `StreamProof` | its theorems, and that it implements `Channel` | `Stream` |
| `RtuFraming` | `read_rtu_frame` and the checksum's verdict, abstractly | - |
| `RtuFramingProof` | what the verdict on some bytes says of more and of fewer of them | `RtuFraming` |
| `RtuSplitter` | `ModbusRtuSplitter` | `RtuFraming` |
| `RtuSplitterProof` | its theorems | `RtuSplitter`, `RtuFramingProof` |
| `RtuStream` | `ModbusRtuStream` over a port | `RtuFraming` |
| `RtuStreamProof` | its theorems | `RtuStream`, `RtuFramingProof` |
| `Pdu` | the packet classes | - |
| `Errors` | the exception classes | - |
| `Adu` | TCP and RTU packets, header, CRC-16, `read_rtu_frame` byte by byte | `Pdu`, `Errors` |
| `Exchange` | one request and its answer by content, client to server and back | `Adu` |
| `ExchangeProof` | its theorems, and those of the codecs below it | `Exchange` |
| `RtuLine` | one RTU frame by content, on a line that flips bits | `Adu`; instantiates `RtuFraming` |
| `RtuLineProof` | its theorems, those of the checksum among them | `RtuLine`, `ExchangeProof` |
| `MCServer`, `MCStream`, `MCRtu`, `MCRtuSplitter`, `MCRtuStream`, `MCRtuLine`, `MCExchange` | values of the constants for TLC | the module they are named after |

Some definitions are introduced as *mutants*. Each is the definition that
follows it with a mistake in it, such as a dropped guard or a comparison the
wrong way round. No action uses one; `PROJECT.json` pairs each property with
the mutant that breaks it.

### Server

A step is a stretch of the thread's code between two points where somebody else
can matter: `select`, `recv`, a handshake, a read of a list another thread
writes. `pc` names the place (`loop`, `blocked`, `accept`, `handshake`, `serve`,
`receive`, `stuck`, `handle`, `answering`, `farewell`, `forget`, `sweep`, `status`,
`close`), and ends in `ended` (`run` returned) or `crashed` (an exception left it).
`forget()` is two steps, because `reset()` can replace the live list between its
test and its `remove`. The read list is kept without the listening socket. A
connection is used once, so a peer that comes back is another connection.

With `Secure`, `_accept` goes through `wrap_socket()`. It detaches the accepted
socket first and then waits for the peer's part of the handshake (`hello`): a
good one registers the connection, a refused one registers the detached socket
(the code logs the `SSLError` and goes on), and a connection reset or closed
before the handshake raises out of `run()` or registers the same dead socket.
`disconnect()` waits for the peer's answer to the goodbye (`farewell`).

A peer may stop reading and start again (`deaf`). The reply to one that does not
read fills the buffers between the two, here at once, and `answer()` waits in its
`send` (`answering`) until the peer reads or resets.

`arrival` is history: when a byte of a connection, of its handshake too, last
came. The code has only `lastSeen`, the time its pass began, and the two differ by
as long as the thread waited in that pass.

What the model abstracts: `on_data` answers, waits to, or raises (what it answers
is `Exchange`'s), so `set_fail`, `set_delay` and `set_data_handler` add nothing;
`select` may return at any time, which covers its one-second timeout; time is a
counter that advances between any two steps. Sockets behave as on Linux: a
descriptor closed by another thread does not wake `recv`, `select` on a closed
socket raises, and a pending reset is readable. Over TLS a frame is one record;
that a second frame already decrypted inside the `ssl` object is invisible to
`select` (`server.py:454`) is not modelled.

### Client

A request's number is history the client does not see; the identifier is. The
device answers the oldest request, and, where `DeviceMay` allows it, any of
them, twice, never, with bytes that do not parse, or with a part of an answer.
A read that times out inside a frame drops what it had read, and from there on
the stream is `torn`: what is read next is the tail of one frame taken for the
head of another. It may parse, fail to, or wait for bytes that never come.
Nothing is claimed of what such a read returns except that the wait ends. A new
connection starts with an empty pipe and in step, and the pending identifier
survives `disconnect()`, as in the code.

### Stream

A byte is the message it belongs to and its place in it, so bytes that only add
up to a message are told from the message. `Capture` maps `sent` and the
receiver's `packets` to `Channel`, and the run checks `Channel`'s specification
as a property. The receiver's length field is what the bytes it read say: those
of a message where they are its header, anything otherwise.

### RTU

In `RtuFraming` and the two modules on it, the layout of every byte value, taken
as a function code, is a constant. A byte carries the frame it was sent in as
history, and a checksum accepts exactly the frames that were sent.
`RtuLine` is why that is a fair picture of the code: `ReaderIsAbstracted` says
that the byte-level `read_rtu_frame`, with the PDU classes it asks and the CRC
it computes, answers every prefix of a frame and of what follows it as
`RtuFraming`'s operator does. One thing it allows: where a frame's count is not
that of its items, the bytes counted may carry a checksum that agrees by chance.
Diagnostics, whose size depends on a sub-function, is no layout of `RtuFraming`.

`RtuStream` reads any number of bytes the port has, up to the number asked for;
`Quiet` is a read that returns none. `LineMay` says what the line does: `"late"`
silences inside a frame, `"collide"` noise that destroys an echo, `"fail"` a
port whose read or write raises or whose write is short. An echo is compared by
its bytes, as the code does, so a late reply that repeats the request passes for
its echo; `astray` records that an echo's bytes are loose from then on.

### Pdu, Adu, Exchange and RtuLine

A class is a record: identifier, field widths, item width of the tail, whether
the last field counts it, limits, and the rule its `violations()` adds. The
methods the classes repeat are one operator each. `Adu` puts header or checksum
around a PDU and says which exception each failure is. `Exchange` follows a call
of `send_request` through `RequestFactory`, `serialize`, the length check, the
parser, the dispatch of `on_data`, `ResponseFactory`, and back. A data handler may
answer, fail the request (`OnData(FALSE)`) or raise (`HandlerRaises`), which happens
outside the `try` of `on_data` and ends in `_serve`. Bytes are
numbers, and widths are those of the wire, so that counts overflow where they
do in the code. It assumes every byte arrives; what does not is the business of
`Server`, `Client` and `Stream`.

`RtuLine` follows one frame from `serialize` over a line that may flip any bits
of it (`Damage`) to the class that reads it, for its side or generic, verified
or not (`Receive`); to a gateway that sends on what it read (`Forward`), which a
response whose damaged count is not that of its items does not survive, because
it does not pack (`withheld`); or to a reader that holds only the first bytes of
it and of what follows (`Arrive`). A register of `calc_crc16` is the set of the
places of its one bits, so that folding a byte in is a symmetric difference.

## The runs

States are distinct states found by TLC.

| Run | Asks | Bounds | States |
| --- | --- | --- | --- |
| `MCServer` | the tables, sockets, limit and hand-outs in both modes under `reset()`, `accept()`, a moving limit, half frames and peers' resets; what holds the thread | 2 connections, limit 1 at first, then 0 to 2, 1 frame waiting, no clock | 2.5 M |
| `MCServerLive` | connections are answered, silent ones closed, and none is swept over bytes that were there when the pass began, over TLS with half frames and peers that stop reading | 2 connections, limit 1, timeout 0, clock to 1 | 523 k |
| `MCServerStop` | `stop()` and `reset()` end the thread, `run()` leaves nothing open, `start()` reports the truth, over TLS with half frames, resets, bad handshakes and peers that stop reading | 1 connection, timeout 0, clock to 1 | 126 k |
| `MCClient` | which answer is matched and which dropped; every wait ends | 3 identifiers, 4 requests, 1 stale answer, 3 frames on their way | 463 k |
| `MCStream` | the stream implements the channel; every message arrives | 2 senders of 2 packets, 1 reader, fragment sizes -1, 0 and 2 | 271 k |
| `MCRtuSplitter` | the result does not depend on how the bytes were cut; no frame is lost; what is held is bounded | every line of up to 3 of 9 frames and noise bytes | 115 k |
| `MCRtuStream` | no step of `receive()` drops a whole frame, no echo is read as a reply, a reply is the current one, calls end | lines of up to 1 frame, cut frames, 1 send with or without echo, 2 replies, silences, collisions and failures anywhere | 787 k |
| `MCRtuLine` | the CRC against polynomial division, what is sent is read, damage is found, the frame is found at its length, the abstract reader is the real one | 20 packets, single bits, pairs and bursts at every place, 3 sequences behind the frame | 53 k |
| `MCExchange` | codecs inverse, conforming requests answered under their identifiers, faults reported, drops with cause | some hundred calls and frames | 2 k |

Why these bounds are enough to meet the interesting cases. Two connections are
what it takes for one to be served while another is closed, for the limit to
refuse one, and for the order of hand-outs. A timeout of 0 with a clock to 1 has
connections on both sides of the boundary in one pass, and keeps the runs with
fairness small; what holds of the sweep at any timeout is proved. What a caller does
to the thread is left out of `MCServerLive`, because two connections and `stop()`
with all that peers may do are too many states for a check under fairness;
`MCServerStop` has all of it on one connection, which is enough to hold the one
thread, and `EndsClean` is proved for any number. Three identifiers and four requests make the identifier wrap onto a pending one. A fragment size of 2 with
PDUs of 1 and 2 bytes cuts with a remainder, evenly and not at all. The byte
values of the abstract RTU runs are also function codes, counts and checksums,
so every byte of a frame can be taken for the start of another; in
`MCRtuStream` a reply may repeat the request, so an echo can be taken for one.
`MCRtuLine` has a frame of every kind of layout on either side, every single
flipped bit, and a burst of every length class at every place; the quantities of
`MCExchange` are on both sides of every limit and width. `MaxInbox`, `MaxClock`,
`MaxRequests`, `MaxPipe`, `MaxRuns`, `MaxSends` and `MaxPush` only bound what TLC
enumerates; the constraint `WhileServing` of the run `MCServer` stops the exploration of what peers do before and after the thread. `HeaderSize`
2, `CrcSize` 1 and `MaxFrame` 6 stand in for 7, 2 and 256 in the modules that
are not about bytes.

Every module has a `TypeOK`; those of `Stream`, `RtuSplitter` and `RtuStream`
hold on the same instances and are left out of the runs, whose other invariants
say more.

Deadlock is not checked where the system may stop: a server that ended, a line
that is used up, threads that made all their calls, an exchange that is over.

### What the code does differently from what it says

These runs are expected to be violated; each checks a sentence of the
repository, quoted in `PROJECT.json` under `findings`.

| Run | Sentence | What happens |
| --- | --- | --- |
| `MCServerVanish` | a client that vanishes must not take the thread with it | a reset between `select` and the status line raises out of `run()` |
| `MCServerHandshake` | the same sentence | a peer that closes before its TLS handshake is through leaves a dead socket in the read list, and the next `select` raises out of `run()` |
| `MCStreamShort` | sends a message | or a part of it: `send()` does not look at how much the socket took |

Modelling met more of them, which no run states. Where a module has the
behaviour, the property named with it is phrased so as to allow it.

- `stop()` ends the thread only if peers let go of it. A peer inside a frame
  holds `recv` (`server.py:363`), one that does not read its replies holds the
  `send` (`server.py:618`), one that does not speak TLS holds the handshake
  (`server.py:334`), and one that does not answer the goodbye holds `unwrap()`
  (`server.py:233`), none of which has a timeout. The repository's
  tests join the stopped thread and assert that it ended, with clients that do
  let go (`tests/integration/test_tls_integration.py:70`). `StopAlwaysEnds`,
  without the assumption, is violated on the instance of `MCServerStop`, which
  therefore checks `StopEnds`.
- An idle client goes, a busy one stays, says a test of the sweep
  (`tests/integration/test_server_inactivity.py:120`). Activity is the time the pass
  began (`server.py:347`, `server.py:378`), so a client whose handshake, or whose
  frame, the thread waited for longer than the timeout is swept though it spoke just
  now. TLC finds it where `SweepSparesTheActive` is asked of a TLS listener with one
  connection, a timeout of 1 and a clock to 3; `SweepReadsFirst` is what holds.
- `start()` says that it raises if the listener does not come up (`server.py:636`).
  It also does if the server came up and was stopped before `start()` looked,
  because `run()` clears the event it polls (`server.py:474`; `StartReportsTheEnd`).
- A peer is dropped "only where nothing survived to echo", says
  `docs/decisions/049-a-readable-header-earns-an-exception-response.md:59`. One is
  dropped, too, where the data handler raises (`server.py:513`), and where the
  answer does not pack: to a read of more than 2040 bits or 127 registers, or to a
  function code with the error mask (`server.py:586`). `DropHasCause` names all
  three.
- `reset()` closes sockets under the running thread, which then ends by an
  exception with the listening socket open (`server.py:679`; `CrashHasCause`).
- In manual mode the connection limit is compared with a read list no client
  enters, connections nobody asked for stay open when the server stops, and the names of
  those that were are kept (`server.py:323`, `server.py:423`, `server.py:342`).
- `connect()` after `reset()` finds the closed socket and fails
  (`client.py:271`); after a matched answer a late one is passed through
  unmatched (`client.py:449`).
- `violations()` never compares the values of a write with its byte count, so a
  write that contradicts itself is sent and answered (`pdu/bits.py:647`).
  Fewer values than the coil count comes to leave `send_request` as an
  `IndexError`, which is no error of the library (`client.py:708`).
- Two readers of one `ModbusTcpReceiver` share a frame (`stream.py:669`); with a
  negative fragment size, which the sender refuses, the receiver spins
  (`stream.py:404`; `EverythingArrives`).
- The RTU response timeout is one of the port, per read: a line that is never
  quiet keeps `receive()` for ever (`rtu.py:506`). A late reply that repeats the
  request passes for its echo, and the echo is then read as the reply
  (`rtu.py:398`; `EchoStaysOut`). Without an echo, a reply left over from an
  earlier request is returned for the next one (`rtu.py:371`; `ReplyIsCurrent`
  is about a caller who has them all).

## Fairness

- `Server`: weak fairness of the thread's steps together. The thread is
  scheduled by the interpreter and none of its steps waits for another thread,
  except at the four places above, whose step is enabled only once the peer has
  done its part. Nothing is assumed of peers, callers or the clock in `FairSpec`;
  the liveness properties that need it carry `PeersLetGo` as a premise: the
  thread is, again and again, not waiting on a peer. That is what a peer's
  operating system gives when it closes a dead process's sockets, and what the
  code itself does not ensure. `AtThePeersMercy` names the four places.
- `Client`: weak fairness of `wait_response()`'s steps. A read ends by a frame,
  the end of the stream or the socket's timeout, so one of them is always
  enabled.
- `Stream`: weak fairness of each thread inside `run_once()`. A thread that has
  not called it, a setter, `stop()` and the end of the connection owe nothing.
- `RtuStream`: weak fairness of the caller's steps, because a read of the port
  returns within its timeout, and of the arrival of bytes that are on the line.

## The proofs

`ServerProof` proves, with `Spec => []IndInv`: type correctness, `TablesAgree`,
`OpenIsTracked`, `EndsClean`, `CrashHasCause`, `WithinLimit`, `OneOwner`,
`HandedInOrder`, `HeldOnlyInsideAFrame`, `SweepReadsFirst`, and, on a plaintext
listener where peers send no half frames, `SweepSparesTheActive`. All but the last hold for a
plaintext and a TLS listener and for any set of things peers and callers may do.
It uses the module's assumptions on its constants and nothing else.

None of these is inductive. `TablesAgree` needs to know where the thread is when
a connection is half forgotten; `OpenIsTracked` needs what `ForgetRemove` leaves
and that a queued connection is in no table; `CrashHasCause` needs that only
`reset()` or a broken handshake closes a socket that is still listed, and only
`reset()` empties the live list; `HeldOnlyInsideAFrame` needs that a connection
`select` reported is still readable when its turn comes. The invariant is a
conjunction of parts, each with a lemma that every step keeps it given the
others: `ListenerInv` (which places of the thread have the listener open),
`LoopInv` (what `cur`, `gone` and `todo` are at each place), `SecureInv` (where
the thread can be with and without TLS), `SocketInv` (the state of a socket
against the tables), `ModeInv` (what manual mode leaves empty), `ResetInv` (what
only `reset()` can have done), `StampInv` (the order of acceptance),
`ReadableInv` (what is still to be served has something to read) and `LimitInv`.
`SweepComesLast` adds `ReadFirstInv`: of a connection with bytes unread that came
before the pass began, `select` reported it and it is still to be served, or it was
stamped with this pass. `SweepIsJust` adds `ActivityInv`: an activity time is never
older than the last arrival that was read, unless a byte is unread, which the next
pass serves before it sweeps. Half frames and handshakes break that: the activity
time is the start of the pass, and the thread may have waited since. That is why this
theorem has its premises; without them TLC finds a client that spoke and is swept.

`ClientProof` proves type correctness, `AnswersTheQuestion`,
`OnlyItsAnswerMatches` and `DropsOnlyTheStale`, with a device that stalls inside
frames included. The invariant adds `FlightInv` (a frame, or a request the
device has, carries its number modulo the number of identifiers) and
`PendingInv` (so does the pending one). Two numbers with the same residue are
equal or at least a round apart; that lemma is the argument.

`StartIsRight` adds `StartInv` to the server's: `start()` reports the end only of a
thread that is over, and `run()` comes to its close only after `stop()`.

`StreamProof` proves type correctness, `RunsDoNotMix`, `StopsAtTheBoundary` and
`FramesAreWhole`. The first two rest on `LockInv`: at most one thread is between
taking the sender's lock and giving it back, it is the lock's owner, and its next
packet follows the last one sent. `FramesAreWhole` speaks of neighbouring bytes
only, which no step can be shown to keep: `WrittenInv` says of any two bytes
written how far apart they are (`Ordered`), and that what a thread still has to
send of a message tiles the rest of it, from the byte at which what was written
ends (`EdgeInv`). `FragmentsTile` is the lemma on `ModbusFragmenter` it needs:
for every fragment size and every length the fragments are consecutive, not
empty, and cover the message. The theorem assumes `~ShortSends`, a socket that
takes each fragment whole; without it the property is false, which is what run
`MCStreamShort` shows of the code.

It also proves the refinement: under `~ShortSends` and `OneReader`, every
behaviour of `Stream` is one of `Channel`. Its invariant `CaptureInv` ties the
bytes on the wire to those written, the packets read to those sent, and the place
of the reading thread inside a message to the byte it has taken last; each step
then is a `Send`, a `Deliver` or a stutter of `Channel`. `OneReader` is needed
because two readers of one receiver share frames in the code too (`stream.py:669`).

`RtuFramingProof` has no theorem of its own listed. Its lemma `VerdictStands`
carries the rest: unless `read_rtu_frame` says incomplete, its verdict on some
bytes is that on every longer sequence that begins with them.

`RtuSplitterProof` proves type correctness, `HeldIsBounded`, `NoFrameIsLost` and
`CutsDoNotMatter` for any line, any cuts, any layouts. `HeldInv` says that what is
held is the stretch of the line between what was taken and what was pushed, and
that between calls its verdict is incomplete; that alone bounds it. `NoFrameIsLost`
is not inductive over what was pushed: a frame's first byte could be dropped before
its last one arrives. `TakenInv` therefore speaks of the whole line: a frame of it
that begins among the bytes taken has been returned. `CutsDoNotMatter` compares
with one pass over all bytes, defined by recursion from the far end. `ScanInv`
says it of every continuation of what was pushed, so that it survives the
next push. That the recursive definition has a value at every place, and that two
passes over bytes with the same start agree, is an induction: it is done by least
counterexample (`LeastNumber`, from the well-foundedness of `<` on the naturals),
since the library's induction rule takes an operator the provers cannot instantiate.

`RtuStreamProof` proves type correctness, `KeepsWholeFrames`, `InOrder`,
`EchoStaysOut` and `ReplyIsCurrent`, with and without an echo, for any line,
requests and replies, and everything the line may do.
`KeepsWholeFrames` follows from the framing lemmas: a rejected first byte begins
no frame, and fewer bytes than the smallest frame hold none. `OrderInv` puts the
frames returned and those that begin in the buffer, in the port and on the line in
one queue (`Queued`), in which an echo may stand anywhere; cutting, dropping,
joining and appending keep it. `EchoInv` says where the bytes of an echo are:
nowhere but before `send()`, which reads as many bytes as the echo has, so that
having read nothing else it leaves none behind. `CurrentInv` adds that every other
byte is of a reply, and that a caller who waited has them all but the last.

`ExchangeProof` proves all five claims of `Exchange`, for every call of integers,
every header and every sequence of bytes sent raw. Its first half is about the
codecs. `FieldEnds` gives each field its place (`EndsAre`, `EndsAscend`),
`SerializeLays` says which byte of which field stands where, `DeserializeBack` that
reading those places gives the packet back, and `DeserializeShapes` what a
packet that was read looks like, however the bytes came about. `Layouts` is the one
place where the classes are gone through one by one for that; `PduBack`, `HeaderBack`,
`RequestBack` and `AnswerBack` carry it to frames, through the length field and the
parser's lookup, and `ForwardsAsItCame` is the generic packet. The second half says
which class answers which: one `Suits` lemma per method of `ResponseFactory`, and
`ToldConforms` and `ToldDrops`, which bound the answer of a conforming request and
find the cause when there is none: every answer is `Sendable` but that to a read too
wide for its count byte, and an exception but for a function code above 127. The invariant `ExchangeInv` is short, because an
exchange is: what the server reads is what the client packed (`RequestCarried`);
what went out is the packing of a reply that suits what was read, or warns about
what could not be read (`Replied`); and a drop has a frame without a header, a data
handler that raised, or a reply that does not pack, behind it (`Dropped`).

The proof found that an answer is not always within the 260 bytes of an ADU, as
`ConformingIsAnswered` first said: `ModbusRequestFC43` has no upper limit on its
data, so a longer frame of that class has no violations and is answered at its own
length. The property says so now, and `MCExchange` has such a frame.

`RtuLineProof` proves `WhatIsReadWasSent`, `TheFrameIsFound`, `ReaderIsAbstracted`,
`ChecksumIsTheRemainder` and `DamageIsReported`, for any packets of any class, any
damage and any bytes that follow. `LineInv` is inductive (`LineIsAsWritten`) and short,
because a frame's life is: what is on the line is what `serialize` made of the packet,
damaged or not, and whatever was read, sent on or held is what the code makes of that.
The properties follow from lemmas about the operators, in two parts.

The first part is about frames and takes nothing from the checksum but its two bytes.
`ReadBack` takes a frame apart again, on the codec lemmas of `ExchangeProof`; `SentOn`
is the gateway. For the reader, `KindsAre` divides the classes by how they state their
size; `SizeHeld` says what `expected_size` makes of any bytes that begin as the frame
does: the size of the PDU that was sent, or that more are needed; `AbstractIs` does the same for
`RtuFraming`'s operator, and the two are compared place by place.

The second part is about the checksum, for frames of any length. A turn of the register
is a step of the division (`ShiftDivides`): the terms of what is left of the polynomial
are the places of the register and of the bits still to come, behind it. A bit to come
is brought nearer by a turn and changes nothing until it is in the register
(`ShiftBrings`), so folding a byte in before eight turns is the same as having it behind
the register all along (`ByteTurns`). `LoopDivides` counts that up over the bytes; loop
and division are recursive functions, whose values `StepsExist` gives, and every count
is done by least counterexample (`CountsUp`). For the bursts, the turns are linear
(`TurnedAdds`), and a frame whose checksum agrees leaves nothing when it is turned to its
end (`ValidEnds`): so what a damaged frame leaves is what its flipped bits leave. Sixteen
places in a row come down into the register before any is folded back, and from
then on what is in it never becomes nothing (`BurstStays`). For two flipped bits, the
first is turned until the second comes near, and must have become another by then:
`OrderIs` says that it takes 32767 turns to become itself again. What it is after so
many turns is the sum of what it was after fewer (`Recurs`), and squares of sums are sums
of squares (`RecursTwice`), so a handful of sums reach 32767 turns and the few numbers
below it that need one; if any number of turns below 32767 brought it back the least
would divide 32767 (`ComesBack`), hence 217, 1057 or 4681 (`DivisorsAre`), and none of
these does (`NotBack`).

What the proof found of the model: a response whose count was damaged need not pack, so
`Forward` must be able to fail, and `WhatIsReadWasSent` says when; a diagnostic with
several data words is longer than the five bytes its sub-function is read as
(`LengthStated`); and a count that is not that of the items leaves room for a checksum
by chance, which `ReaderIsAbstracted` now names. `MCRtuLine` has a packet for each.
Two flipped bits 32767 places apart go unnoticed, so `PairsAreReported` now speaks of
frames below 4096 bytes: far above the 256 of `MAX_RTU_FRAME`, to which `serialize`
does not hold a packet.
`LineAssumption` says what a packet is: of a class that the side which reads it looks up
under its function code, with a value for every field.

The proofs use the modules' assumptions on their constants and nothing else.
`ExchangeAssumption` says what a call, a header and a frame are made of: integers
of any size, and bytes. Two of the others are there for the proofs: `0 \in Values` in
`FramingAssumption` (the model's collided echo is zeros), and, in `StreamAssumption`,
that the frames of a line are numbered in their order, below the numbers of echoes and
replies. The second is a convention for the numbers, which are history.

Only model-checked:

- Liveness (`StopEnds`, `ConnectionAnswered`, `SilentIsClosed`, `WaitingEnds`,
  `EverythingArrives`, `CallsEnd`): out of the prover's reach under fairness.
- The codec of diagnostics as `RtuFraming` would see it, which has no layout for it:
  `TheFrameIsFound` covers it, `ReaderIsAbstracted` does not.

## Not modelled

- What `TlsSettings` relaxes and the `ssl` library makes of it: the settings
  keep no state, and certificates are decided outside the repository. The
  client's side of TLS. TLS records that hold more than one frame.
- Lines that are never quiet, and a send of `Stream` that times out.
- False acceptance of the checksum in `RtuFraming`; `RtuLine` computes it.
- A response delay, apart from the clock that advances while `on_data` runs;
  sockets of other platforms than Linux.
- Growth without a bound of `peer_names` in manual mode (`server.py:342`): the
  entries are there, a bounded number of connections cannot tell.
- A thread that changes the PDU registry, or sets another parser. The registry
  is a class attribute meant to be set up before use.
- Logging, printing, equality, data views and the text of errors; examples,
  scripts and the checks of the repository's own documents.

## The plan

Done, in this order: `Server` and its proof; `Client` and its proof; `Stream`
with `Channel`; `RtuFraming`, `RtuSplitter`, `RtuStream`; `Pdu` with `Exchange`;
TLS in `Server` and its proof; stalls in `Client` and its proof; `Errors`, `Adu`
and `RtuLine`; echoes, replies and a failing port in `RtuStream`; the proofs of
`Stream`, of the refinement of `Channel`, of `RtuSplitter`, of `RtuStream`, of `Exchange`
and of `RtuLine`.

Next: `Session`, which is `Client` composed with the connection of `Server`, with the
server's delay and sweep against the client's timeout, and an abstract
request-response service they implement.
