------------------------------- MODULE Stream -------------------------------
(***************************************************************************)
(* The message stream over TCP (transport/stream.py): a ModbusTcpSender at *)
(* one end of a connection and a ModbusTcpReceiver at the other, each      *)
(* driven by several threads, over the byte stream of the socket.          *)
(*                                                                         *)
(* A byte is known by the message it belongs to and its place in it, so a  *)
(* message read whole can be told from bytes that only add up to one.      *)
(*                                                                         *)
(* A definition introduced as a mutant is the one after it with a mistake  *)
(* in it; nothing here uses one.                                           *)
(***************************************************************************)
EXTENDS Integers, Sequences, FiniteSets

CONSTANTS
    Senders, Readers,  \* threads that call run_once() of the sender, the receiver
    NoThread,          \* nobody holds the sender's lock
    HeaderSize,        \* HEADER_SIZE (7): a bound, the bytes of an MBAP header
    PduLength,         \* the sender's packets: the PDU bytes of each, in order
    FragSizes,         \* the sizes set_frag_size() is called with
    ShortSends,        \* the socket may take a part of a fragment
    MaxRuns            \* bound: calls of run_once() per thread

Packets == 1 .. Len(PduLength)

ASSUME StreamAssumption ==
    /\ NoThread \notin Senders
    /\ HeaderSize \in Nat \ {0}
    /\ PduLength \in Seq(Nat)
    /\ FragSizes \subseteq Int
    /\ ShortSends \in BOOLEAN
    /\ MaxRuns \in Nat

VARIABLES
    spc,        \* where each sending thread is
    runs,       \* run_once() calls each thread has made
    lock,       \* who holds the sender's _lock
    sendFrag,   \* the sender's _frag_size
    frag,       \* its stream's frag_size
    sendStop,   \* its _stop
    next,       \* the next of its packets, for each thread
    todo,       \* the fragments of the message being sent
    sent,       \* the packet of each message sent, oldest first (history)
    wire,       \* bytes on their way
    link,       \* the sending end of the connection
    written,    \* every byte the socket has taken (history)
    rpc,        \* where each reading thread is
    readFrag,   \* the receiver's _frag_size
    rfrag,      \* its stream's frag_size
    readStop,   \* its _stop
    buffer,     \* the message each thread is reading, as far as it has come
    need,       \* bytes its _recv_exactly() waits for
    pdu,        \* bytes of the PDU after those
    packets,    \* the receiver's packets
    late        \* packets each thread appended after stop() (history)

senderVars == <<spc, lock, sendFrag, frag, sendStop, next, todo, sent, written>>
readerVars == <<rpc, readFrag, rfrag, readStop, buffer, need, pdu, packets, late>>
vars == <<senderVars, runs, wire, link, readerVars>>

Smaller(a, b) == IF a < b THEN a ELSE b

Byte == [msg : Nat \ {0}, pos : Nat \ {0}]

\* The bytes of a packet, sent as message number m.
Serialized(m, p) ==
    [k \in 1 .. HeaderSize + PduLength[p] |-> [msg |-> m, pos |-> k]]

\* A packet captured from bytes that are not a message of the sender's.
Mangled == 0

\* The message some bytes are, where they are one.
MessageOf(bytes) ==
    IF \E m \in 1 .. Len(sent) : bytes = Serialized(m, sent[m])
    THEN bytes[1].msg ELSE Mangled

TypeOK ==
    /\ spc \in [Senders -> {"idle", "acquire", "locked"}]
    /\ runs \in [Senders \cup Readers -> 0 .. MaxRuns]
    /\ lock \in Senders \cup {NoThread}
    /\ {sendFrag, frag, readFrag, rfrag} \subseteq FragSizes
    /\ {sendStop, readStop} \subseteq BOOLEAN
    /\ next \in [Senders -> Nat \ {0}]
    /\ todo \in [Senders -> Seq(Seq(Byte))]
    /\ sent \in Seq(Packets)
    /\ wire \in Seq(Byte) /\ written \in Seq(Byte)
    /\ link \in {"up", "closed"}
    /\ rpc \in [Readers -> {"idle", "loop", "header", "pdu", "append"}]
    /\ buffer \in [Readers -> Seq(Byte)]
    /\ need \in [Readers -> Nat] /\ pdu \in [Readers -> Nat]
    /\ packets \in Seq(0 .. Len(sent))
    /\ late \in [Readers -> Nat]

Init ==
    /\ spc = [s \in Senders |-> "idle"]
    /\ runs = [t \in Senders \cup Readers |-> 0]
    /\ lock = NoThread
    /\ sendFrag \in FragSizes /\ frag = sendFrag
    /\ sendStop = FALSE
    /\ next = [s \in Senders |-> 1]
    /\ todo = [s \in Senders |-> <<>>]
    /\ sent = <<>>
    /\ wire = <<>> /\ written = <<>>
    /\ link = "up"
    /\ rpc = [r \in Readers |-> "idle"]
    /\ readFrag \in FragSizes /\ rfrag = readFrag
    /\ readStop = FALSE
    /\ buffer = [r \in Readers |-> <<>>]
    /\ need = [r \in Readers |-> 0] /\ pdu = [r \in Readers |-> 0]
    /\ packets = <<>>
    /\ late = [r \in Readers |-> 0]

-----------------------------------------------------------------------------
(* Sending. *)

\* Mutant: the last piece, where it is not a full one, is left out.
FullPieces(bytes, size) ==
    [k \in 1 .. Len(bytes) \div size |-> SubSeq(bytes, (k - 1) * size + 1, k * size)]

\* ModbusFragmenter.fragment: the header, then the PDU in pieces.
Pieces(bytes, size) ==
    [k \in 1 .. (Len(bytes) + size - 1) \div size |->
        SubSeq(bytes, (k - 1) * size + 1, Smaller(k * size, Len(bytes)))]

Fragments(message, size) ==
    IF size = 0 THEN <<message>>
    ELSE <<SubSeq(message, 1, HeaderSize)>>
         \o Pieces(SubSeq(message, HeaderSize + 1, Len(message)), size)

\* run_once() reads the stop event before it asks for the lock.
SendRun(s) ==
    /\ spc[s] = "idle"
    /\ runs[s] < MaxRuns
    /\ ~sendStop
    /\ spc' = [spc EXCEPT ![s] = "acquire"]
    /\ runs' = [runs EXCEPT ![s] = @ + 1]
    /\ UNCHANGED <<lock, sendFrag, frag, sendStop, next, todo, sent, written,
                   wire, link, readerVars>>

\* Mutant: no lock is taken.
SendUnlocked(s) ==
    /\ spc[s] = "acquire"
    /\ frag' = sendFrag
    /\ next' = [next EXCEPT ![s] = 1]
    /\ spc' = [spc EXCEPT ![s] = "locked"]
    /\ UNCHANGED <<lock, runs, sendFrag, sendStop, todo, sent, written, wire,
                   link, readerVars>>

\* The lock is taken and the settings copied under it.
SendLock(s) ==
    /\ spc[s] = "acquire"
    /\ lock = NoThread
    /\ lock' = s
    /\ frag' = sendFrag
    /\ next' = [next EXCEPT ![s] = 1]
    /\ spc' = [spc EXCEPT ![s] = "locked"]
    /\ UNCHANGED <<runs, sendFrag, sendStop, todo, sent, written, wire, link,
                   readerVars>>

\* The next packet is serialized and cut up; fragment() refuses a negative size.
SendPacket(s) ==
    /\ spc[s] = "locked"
    /\ todo[s] = <<>>
    /\ next[s] \in Packets
    /\ frag >= 0
    /\ sent' = Append(sent, next[s])
    /\ todo' = [todo EXCEPT ![s] =
                   Fragments(Serialized(Len(sent) + 1, next[s]), frag)]
    /\ next' = [next EXCEPT ![s] = @ + 1]
    /\ UNCHANGED <<spc, runs, lock, sendFrag, frag, sendStop, written, wire,
                   link, readerVars>>

\* sock.send(fragment); how much of it the socket took is not looked at.
SendFragment(s) ==
    /\ spc[s] = "locked"
    /\ todo[s] # <<>>
    /\ link = "up"
    /\ \E n \in 1 .. Len(Head(todo[s])) :
          /\ n = Len(Head(todo[s])) \/ ShortSends
          /\ wire' = wire \o SubSeq(Head(todo[s]), 1, n)
          /\ written' = written \o SubSeq(Head(todo[s]), 1, n)
    /\ todo' = [todo EXCEPT ![s] = Tail(@)]
    /\ UNCHANGED <<spc, runs, lock, sendFrag, frag, sendStop, next, sent, link,
                   readerVars>>

\* run_once() gives the lock back however it ends.
SendEnds(s) ==
    /\ spc[s] = "locked"
    /\ lock' = NoThread
    /\ spc' = [spc EXCEPT ![s] = "idle"]
    /\ todo' = [todo EXCEPT ![s] = <<>>]
    /\ UNCHANGED <<runs, sendFrag, frag, sendStop, next, sent, written, wire,
                   link, readerVars>>

SendReturns(s) == todo[s] = <<>> /\ next[s] \notin Packets /\ SendEnds(s)

\* A negative fragment size, or a connection that is gone.
SendRaises(s) ==
    /\ \/ todo[s] = <<>> /\ next[s] \in Packets /\ frag < 0
       \/ todo[s] # <<>> /\ link = "closed"
    /\ SendEnds(s)

\* set_frag_size() and stop() of the sender.
SendSetFrag(size) ==
    /\ lock = NoThread
    /\ sendFrag # size
    /\ sendFrag' = size
    /\ UNCHANGED <<spc, runs, lock, frag, sendStop, next, todo, sent, written,
                   wire, link, readerVars>>

SendStop ==
    /\ ~sendStop
    /\ sendStop' = TRUE
    /\ UNCHANGED <<spc, runs, lock, sendFrag, frag, next, todo, sent, written,
                   wire, link, readerVars>>

\* The sending side closes the connection; what it wrote still arrives.
Close ==
    /\ link = "up"
    /\ link' = "closed"
    /\ UNCHANGED <<senderVars, runs, wire, readerVars>>

-----------------------------------------------------------------------------
(* Receiving. *)

\* run_once(): the stop event, then the copy of the setting under the lock,
\* which no other section holds for longer than a step.
ReadRun(r) ==
    /\ rpc[r] = "idle"
    /\ runs[r] < MaxRuns
    /\ ~readStop
    /\ rfrag' = readFrag
    /\ rpc' = [rpc EXCEPT ![r] = "loop"]
    /\ runs' = [runs EXCEPT ![r] = @ + 1]
    /\ UNCHANGED <<readFrag, readStop, buffer, need, pdu, packets, late,
                   senderVars, wire, link>>

\* Mutant: the stop event is not looked at again.
ReadLoopForever(r) ==
    /\ rpc[r] = "loop"
    /\ rpc' = [rpc EXCEPT ![r] = "header"]
    /\ buffer' = [buffer EXCEPT ![r] = <<>>]
    /\ need' = [need EXCEPT ![r] = HeaderSize]
    /\ UNCHANGED <<runs, readFrag, rfrag, readStop, pdu, packets, late,
                   senderVars, wire, link>>

\* Out of the loop, or into stream.receive() for a header.
ReadLoop(r) ==
    /\ rpc[r] = "loop"
    /\ IF readStop
       THEN /\ rpc' = [rpc EXCEPT ![r] = "idle"]
            /\ UNCHANGED <<buffer, need>>
       ELSE /\ rpc' = [rpc EXCEPT ![r] = "header"]
            /\ buffer' = [buffer EXCEPT ![r] = <<>>]
            /\ need' = [need EXCEPT ![r] = HeaderSize]
    /\ UNCHANGED <<runs, readFrag, rfrag, readStop, pdu, packets, late,
                   senderVars, wire, link>>

\* sock.recv(): some of the bytes that have arrived, at most those needed.
Recv(r) ==
    /\ rpc[r] \in {"header", "pdu"}
    /\ \E n \in 1 .. Smaller(need[r], Len(wire)) :
          /\ buffer' = [buffer EXCEPT ![r] = @ \o SubSeq(wire, 1, n)]
          /\ wire' = SubSeq(wire, n + 1, Len(wire))
          /\ need' = [need EXCEPT ![r] = @ - n]
    /\ UNCHANGED <<rpc, runs, readFrag, rfrag, readStop, pdu, packets, late,
                   senderVars, link>>

\* The PDU bytes a header declares: those of its message, or anything where the
\* bytes read are no message's header; fewer than none is an error.
Declared(bytes) ==
    LET p == {m \in 1 .. Len(sent) :
                  bytes = SubSeq(Serialized(m, sent[m]), 1, HeaderSize)}
    IN IF p # {} THEN {PduLength[sent[m]] : m \in p}
       ELSE -1 .. HeaderSize

ReadHeader(r) ==
    /\ rpc[r] = "header"
    /\ need[r] = 0
    /\ \E length \in Declared(buffer[r]) :
          IF length < 0
          THEN /\ rpc' = [rpc EXCEPT ![r] = "idle"]
               /\ UNCHANGED pdu
          ELSE /\ rpc' = [rpc EXCEPT ![r] = "pdu"]
               /\ pdu' = [pdu EXCEPT ![r] = length]
    /\ UNCHANGED <<runs, readFrag, rfrag, readStop, buffer, need, packets,
                   late, senderVars, wire, link>>

\* The bytes asked for at once.
Chunk(left) == IF rfrag = 0 THEN left ELSE Smaller(rfrag, left)

\* _receive_pdu(): one chunk after the other.  A negative chunk is read at once
\* as no bytes, and the loop goes round with as many bytes still to come: from
\* there no step changes anything.
ReadChunk(r) ==
    /\ rpc[r] = "pdu"
    /\ need[r] = 0
    /\ pdu[r] > 0
    /\ rfrag >= 0
    /\ need' = [need EXCEPT ![r] = Chunk(pdu[r])]
    /\ pdu' = [pdu EXCEPT ![r] = @ - Chunk(@)]
    /\ UNCHANGED <<rpc, runs, readFrag, rfrag, readStop, buffer, packets, late,
                   senderVars, wire, link>>

\* The message is complete; deserialize() reads it, or finds no packet in it.
ReadMessage(r) ==
    /\ rpc[r] = "pdu"
    /\ need[r] = 0
    /\ pdu[r] = 0
    /\ \/ rpc' = [rpc EXCEPT ![r] = "append"]
       \/ /\ MessageOf(buffer[r]) = Mangled
          /\ rpc' = [rpc EXCEPT ![r] = "idle"]
    /\ UNCHANGED <<runs, readFrag, rfrag, readStop, buffer, need, pdu, packets,
                   late, senderVars, wire, link>>

\* The packet is appended under the lock.
ReadAppend(r) ==
    /\ rpc[r] = "append"
    /\ packets' = Append(packets, MessageOf(buffer[r]))
    /\ late' = [late EXCEPT ![r] = IF readStop THEN @ + 1 ELSE @]
    /\ rpc' = [rpc EXCEPT ![r] = "loop"]
    /\ UNCHANGED <<runs, readFrag, rfrag, readStop, buffer, need, pdu,
                   senderVars, wire, link>>

\* Mutant: the end of the stream is reported before the bytes ahead of it are
\* read.
EndBeforeData(r) ==
    /\ rpc[r] \in {"header", "pdu"} /\ need[r] > 0 /\ link = "closed"
    /\ rpc' = [rpc EXCEPT ![r] = "idle"]
    /\ UNCHANGED <<runs, readFrag, rfrag, readStop, buffer, need, pdu, packets,
                   late, senderVars, wire, link>>

\* The peer closed the connection, between frames or inside one: what has been
\* read of the message is gone.
ReadEnds(r) ==
    /\ rpc[r] \in {"header", "pdu"}
    /\ need[r] > 0
    /\ link = "closed" /\ wire = <<>>
    /\ rpc' = [rpc EXCEPT ![r] = "idle"]
    /\ UNCHANGED <<runs, readFrag, rfrag, readStop, buffer, need, pdu, packets,
                   late, senderVars, wire, link>>

\* set_frag_size() and stop() of the receiver.
ReadSetFrag(size) ==
    /\ readFrag # size
    /\ readFrag' = size
    /\ UNCHANGED <<rpc, runs, rfrag, readStop, buffer, need, pdu, packets, late,
                   senderVars, wire, link>>

ReadStop ==
    /\ ~readStop
    /\ readStop' = TRUE
    /\ UNCHANGED <<rpc, runs, readFrag, rfrag, buffer, need, pdu, packets, late,
                   senderVars, wire, link>>

-----------------------------------------------------------------------------

Sending(s) ==
    SendLock(s) \/ SendPacket(s) \/ SendFragment(s) \/ SendReturns(s) \/ SendRaises(s)

Reading(r) ==
    ReadLoop(r) \/ Recv(r) \/ ReadHeader(r) \/ ReadChunk(r) \/ ReadMessage(r)
        \/ ReadAppend(r) \/ ReadEnds(r)

Next ==
    \/ \E s \in Senders : SendRun(s) \/ Sending(s)
    \/ \E r \in Readers : ReadRun(r) \/ Reading(r)
    \/ \E size \in FragSizes : SendSetFrag(size) \/ ReadSetFrag(size)
    \/ SendStop
    \/ ReadStop
    \/ Close

Spec == Init /\ [][Next]_vars

\* A thread inside run_once() keeps running.
FairSpec == /\ Spec
            /\ \A s \in Senders : WF_vars(Sending(s))
            /\ \A r \in Readers : WF_vars(Reading(r))

-----------------------------------------------------------------------------
(* Properties. *)

\* "two callers cannot interleave fragments into a malformed frame": what the
\* socket was given is whole messages, one after the other, but for the one
\* being sent and those a failed run_once() broke off.
FramesAreWhole ==
    \A k \in 1 .. Len(written) - 1 :
        LET a == written[k]
            b == written[k + 1]
        IN \/ b.msg = a.msg /\ b.pos = a.pos + 1
           \/ /\ b.msg = a.msg + 1 /\ b.pos = 1
              /\ a.pos = HeaderSize + PduLength[sent[a.msg]]

\* One run_once() sends its packets without a packet of another in between.
RunsDoNotMix ==
    \A k \in 1 .. Len(sent) - 1 : sent[k + 1] \in {sent[k] + 1, 1}

\* The receiver's packets are the messages sent, whole, once each, in order.
Capture == INSTANCE Channel WITH
               Message <- Packets,
               sent <- sent,
               delivered <- [k \in 1 .. Len(packets) |->
                                IF packets[k] = Mangled THEN Mangled
                                ELSE sent[packets[k]]]

CapturesWhatIsSent == Capture!Spec

\* stop() "ends the loop at the next message boundary".
StopsAtTheBoundary == \A r \in Readers : late[r] <= 1

\* The messages the socket has taken to the last byte.
Written == {m \in 1 .. Len(sent) :
                \E k \in 1 .. Len(written) :
                    written[k] = [msg |-> m, pos |-> HeaderSize + PduLength[sent[m]]]}

\* A receiver that is reading when the sender closes the connection ends up
\* with every message that went out, unless it is stopped.
EverythingArrives ==
    \A r \in Readers :
        link = "closed" /\ rfrag >= 0 /\ rpc[r] # "idle"
            ~> readStop \/ Len(packets) = Cardinality(Written)

=============================================================================
