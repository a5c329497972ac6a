------------------------------ MODULE Exchange ------------------------------
(***************************************************************************)
(* One request and its answer, by content: the call of                     *)
(* ModbusClientSimulator.send_request or send_raw, RequestFactory, the     *)
(* frame on the wire, on_data and ResponseFactory at the server, and       *)
(* wait_response's parse.  Connections, time and the matching of late      *)
(* answers are Server's and Client's; here every byte arrives.             *)
(*                                                                         *)
(* A definition introduced as a mutant is the one after it with a mistake  *)
(* in it; nothing here uses one.                                           *)
(***************************************************************************)
EXTENDS Adu

CONSTANTS
    Calls,      \* arguments of send_request()
    CallHeader, \* the header of its frames: the next transaction, the unit
    RawFrames,  \* what send_raw() and peers of other makes send
    NoPacket    \* "no packet"

\* What the caller's data handler raises, of whatever class it is.
HandlersOwn == "the handler's own"

\* What a call, a frame, a header and a PDU are made of.
Arguments == [fc : Int, readAddress : Int, readCount : Int, writeAddress : Int,
              writeCount : Int, values : Seq(Int), andMask : Int, orMask : Int]

ASSUME ExchangeAssumption ==
    /\ Calls \subseteq Arguments
    /\ CallHeader \in Headers
    /\ RawFrames \subseteq Seq(Octet)
    /\ NoPacket \notin [header : Headers, pdu : Pdus]

VARIABLES
    phase,    \* how far the exchange is
    request,  \* the packet the client built (history of the call)
    wire,     \* the bytes the server received
    heard,    \* the packet the server read from them
    reply,    \* the packet the server built
    back,     \* the bytes the client received
    answer,   \* the packet the client read from them
    raised    \* the exception that left send_request, on_data or wait_response

vars == <<phase, request, wire, heard, reply, back, answer, raised>>

Init ==
    /\ phase = "idle"
    /\ request = NoPacket /\ heard = NoPacket /\ reply = NoPacket /\ answer = NoPacket
    /\ wire = <<>> /\ back = <<>>
    /\ raised = "nothing"

(***************************************************************************)
(* RequestFactory.                                                         *)
(***************************************************************************)
CreateReadReq(call) ==
    Pdu(Lookup(call.fc), <<call.readAddress, call.readCount>>, <<>>)

CreateSingleReq(call) ==
    Pdu(Lookup(call.fc), <<call.writeAddress, call.values[1]>>, <<>>)

CreateFc7Req == Pdu(ModbusRequestFC7, <<>>, <<>>)

\* The values are read by index, one for every byte the count comes to.
CoilBytes(call) == (call.writeCount + 7) \div 8

CreateFc15Req(call) ==
    Pdu(ModbusRequestFC15, <<call.writeAddress, call.writeCount, CoilBytes(call)>>,
        SubSeq(call.values, 1, CoilBytes(call)))

CreateFc16Req(call) ==
    Pdu(ModbusRequestFC16, <<call.writeAddress, call.writeCount, 2 * call.writeCount>>,
        call.values)

CreateFc22Req(call) ==
    Pdu(ModbusRequestFC22, <<call.writeAddress, call.andMask, call.orMask>>, <<>>)

CreateFc23Req(call) ==
    Pdu(ModbusRequestFC23,
        <<call.readAddress, call.readCount, call.writeAddress, call.writeCount,
          2 * call.writeCount>>,
        call.values)

CreateFc43Req == Pdu(ModbusRequestFC43, <<14>>, [k \in 1 .. 10 |-> k])

\* A packet around a PDU: the header says how long it is.
Framed(header, pdu) ==
    [header |-> [header EXCEPT !.length = PduLen(pdu) + 1], pdu |-> pdu]

\* The branch of send_request the function code selects.
Create(call) ==
    CASE call.fc \in 1 .. 4  -> CreateReadReq(call)
      [] call.fc \in {5, 6}  -> CreateSingleReq(call)
      [] call.fc = 7         -> CreateFc7Req
      [] call.fc = 15        -> CreateFc15Req(call)
      [] call.fc = 16        -> CreateFc16Req(call)
      [] call.fc = 22        -> CreateFc22Req(call)
      [] call.fc = 23        -> CreateFc23Req(call)
      [] call.fc = 43        -> CreateFc43Req

\* What send_request raises before a frame exists: a function code of no
\* branch, a write of nothing, fewer values than create_fc15_req indexes, a
\* header or a PDU that does not pack.
Refusal(call) ==
    CASE call.fc \notin 1 .. 7 \cup {15, 16, 22, 23, 43} -> "ModbusIllegalFunctionError"
      [] call.fc \in {5, 6} /\ call.values = <<>> -> "ModbusIllegalDataValueError"
      [] call.fc = 15 /\ Len(call.values) < CoilBytes(call) -> "IndexError"
      [] OTHER -> IF TcpPacks(Framed(CallHeader, Create(call))) THEN "nothing"
                  ELSE "ModbusPacketError"

SendRequest(call) ==
    /\ phase = "idle"
    /\ Refusal(call) = "nothing"
    /\ phase' = "sent"
    /\ request' = Framed(CallHeader, Create(call))
    /\ wire' = SerializeTcp(request')
    /\ UNCHANGED <<heard, reply, back, answer, raised>>

SendRaises(call) ==
    /\ phase = "idle"
    /\ Refusal(call) # "nothing"
    /\ phase' = "refused"
    /\ raised' = Refusal(call)
    /\ UNCHANGED <<request, wire, heard, reply, back, answer>>

SendRaw(frame) ==
    /\ phase = "idle"
    /\ phase' = "sent"
    /\ wire' = frame
    /\ UNCHANGED <<request, heard, reply, back, answer, raised>>

(***************************************************************************)
(* ResponseFactory.                                                        *)
(***************************************************************************)
Repeated(value, n) == [k \in 1 .. n |-> value]

\* Mutants: a coil per register; registers counted as bytes.
CreateWideBitsRsp(pdu) ==
    LET bytes == (pdu.fields[2] + 7) \div 8
    IN Pdu(Lookup(Rsp(pdu.fc)), <<bytes>>, Repeated(65535, bytes))

CreateUncountedRsp(pdu) ==
    Pdu(Lookup(Rsp(pdu.fc)), <<pdu.fields[2]>>, Repeated(65535, pdu.fields[2]))

CreateBitsRsp(pdu) ==
    LET bytes == (pdu.fields[2] + 7) \div 8
    IN Pdu(Lookup(Rsp(pdu.fc)), <<bytes>>, Repeated(255, bytes))

CreateRegistersRsp(pdu) ==
    Pdu(Lookup(Rsp(pdu.fc)), <<2 * pdu.fields[2]>>, Repeated(65535, pdu.fields[2]))

\* FC5, FC6 and FC22 hand every field back.
CreateEchoRsp(pdu) == Pdu(Lookup(Rsp(pdu.fc)), pdu.fields, <<>>)

CreateFc7Rsp == Pdu(ModbusResponseFC7, <<0>>, <<>>)

\* FC15 and FC16 hand back what was written where, not the values.
CreateRangeRsp(pdu) == Pdu(Lookup(Rsp(pdu.fc)), SubSeq(pdu.fields, 1, 2), <<>>)

CreateFc23Rsp(pdu) ==
    Pdu(ModbusResponseFC23, <<2 * pdu.fields[2]>>, Repeated(65535, pdu.fields[2]))

CreateFc43Rsp(pdu) == Pdu(ModbusResponseFC43, pdu.fields, pdu.tail)

\* Mutant: another code.
CreateParseErrRsp(fc) == Exception(fc, 3)

CreateErrRsp(fc) == Exception(fc, SlaveDeviceFailure)

\* The branch of on_data that request.pdu's class selects.
Dispatch(pdu) ==
    CASE pdu.id \in {1, 2}   -> CreateBitsRsp(pdu)
      [] pdu.id \in {3, 4}   -> CreateRegistersRsp(pdu)
      [] pdu.id \in {5, 6, 22} -> CreateEchoRsp(pdu)
      [] pdu.id = 7          -> CreateFc7Rsp
      [] pdu.id \in {15, 16} -> CreateRangeRsp(pdu)
      [] pdu.id = 23         -> CreateFc23Rsp(pdu)
      [] pdu.id = 43         -> CreateFc43Rsp(pdu)
      [] OTHER               -> CreateErrRsp(pdu.fc)

\* Mutant: the reply goes out under a transaction of its own.
ReplyUnderItsOwn(header, pdu, wrapped) ==
    /\ phase' = "answered"
    /\ reply' = Framed([header EXCEPT !.trans_id = 0], pdu)
    /\ back' = SerializeTcp(reply')
    /\ UNCHANGED raised

\* answer() sends the reply under the identifiers of the request, or its
\* serialize() raises; on_data wraps that where it had a request to answer.
Reply(header, pdu, wrapped) ==
    /\ reply' = Framed(header, pdu)
    /\ \/ /\ TcpPacks(reply')
          /\ phase' = "answered"
          /\ back' = SerializeTcp(reply')
          /\ UNCHANGED raised
       \/ /\ ~ TcpPacks(reply')
          /\ phase' = "dropped"
          /\ raised' = IF wrapped THEN "ModbusSlaveDeviceFailureError"
                       ELSE "ModbusPacketError"
          /\ UNCHANGED back

\* on_data with a request it can read; works is false where the fail flag is
\* set or the data handler returned a false result.  A handler that raises is
\* HandlerRaises.
OnData(works) ==
    LET read == ModbusTcpRequest(wire) IN
    /\ phase = "sent" /\ read.raises = "nothing"
    /\ heard' = read.packet
    /\ Reply(heard'.header,
             IF works THEN Dispatch(heard'.pdu) ELSE CreateErrRsp(heard'.pdu.fc), TRUE)
    /\ UNCHANGED <<request, wire, answer>>

\* The data handler is a caller's and raises anything, before and outside the
\* try that makes exceptions of on_data's own; _serve forgets the peer.
HandlerRaises ==
    LET read == ModbusTcpRequest(wire) IN
    /\ phase = "sent" /\ read.raises = "nothing"
    /\ heard' = read.packet
    /\ phase' = "dropped"
    /\ raised' = HandlersOwn
    /\ UNCHANGED <<request, wire, reply, back, answer>>

\* The except clause: the header survived, and the peer is told.
OnUnparsable ==
    LET read == ModbusTcpRequest(wire) IN
    /\ phase = "sent" /\ IsA(read.raises, "ModbusPduParseError")
    /\ Reply(read.header, Exception(read.fc, IllegalDataValue), FALSE)
    /\ UNCHANGED <<request, wire, heard, answer>>

\* Anything else leaves on_data, and run() forgets the peer.
OnUnreadable ==
    LET read == ModbusTcpRequest(wire) IN
    /\ phase = "sent"
    /\ read.raises # "nothing" /\ ~ IsA(read.raises, "ModbusPduParseError")
    /\ phase' = "dropped"
    /\ raised' = read.raises
    /\ UNCHANGED <<request, wire, heard, reply, back, answer>>

\* ModbusTcpResponse.deserialize in wait_response.
WaitResponse ==
    LET read == ModbusTcpResponse(back) IN
    /\ phase = "answered"
    /\ \/ /\ read.raises = "nothing"
          /\ answer' = read.packet
          /\ phase' = "done"
          /\ UNCHANGED raised
       \/ /\ read.raises # "nothing"
          /\ phase' = "unread"
          /\ raised' = read.raises
          /\ UNCHANGED answer
    /\ UNCHANGED <<request, wire, heard, reply, back>>

Next ==
    \/ \E call \in Calls : SendRequest(call) \/ SendRaises(call)
    \/ \E frame \in RawFrames : SendRaw(frame)
    \/ \E works \in BOOLEAN : OnData(works)
    \/ HandlerRaises \/ OnUnparsable \/ OnUnreadable \/ WaitResponse

Spec == Init /\ [][Next]_vars

-----------------------------------------------------------------------------
\* What the client packs, the server unpacks, and what the server packs, the
\* client unpacks: serialize() and deserialize() of every class are inverse,
\* through the header, its length field and the parser's dispatch.  A generic
\* packet between the two forwards either unchanged, without knowing which.
NothingIsLostOnTheWire ==
    /\ (request # NoPacket /\ phase \in {"answered", "dropped", "done", "unread"})
          => heard = request
    /\ phase # "unread"
    /\ phase = "done" => answer = reply
    /\ \A bytes \in {wire, back} :
          (HeaderHolds(bytes) /\ PduBytes(bytes) # <<>>) =>
              SerializeTcp(ModbusTcpPacket(bytes).packet) = bytes

\* A request with no violations that neither the server nor its data handler
\* fails is answered by a response of its own function code that has none
\* either and that is no longer than the 260 bytes an ADU may have; only the
\* data of FC43, which go back as they came, can be as long as a request that
\* was too long already.
ConformingIsAnswered ==
    (heard # NoPacket /\ raised # HandlersOwn /\ Conforming(heard.pdu)
          /\ reply.pdu.id # ModbusError.id) =>
        /\ reply.pdu.id = Rsp(heard.pdu.id)
        /\ Conforming(reply.pdu)
        /\ HeaderConforms(heard.header) => HeaderConforms(reply.header)
        /\ Len(back) > HeaderSize
        /\ \/ Len(back) <= 260
           \/ heard.pdu.id = ModbusRequestFC43.id /\ Len(back) = Len(wire)

\* An answer goes out under the transaction, protocol and unit identifiers of
\* what it answers, and is for the function code asked about, with the error
\* mask where it reports an exception: a client can tell what it answers.
AnswersTheRequest ==
    back # <<>> =>
        LET asked == DeserializeHeader(wire)
            answered == DeserializeHeader(back)
        IN /\ [answered EXCEPT !.length = 0] = [asked EXCEPT !.length = 0]
           /\ PduBytes(back)[1] % 128 = PduBytes(wire)[1] % 128

\* A peer whose header could be read is told that its PDU could not be (0x03),
\* and one whose function the server has no factory for that it failed (0x04).
FaultsAreReported ==
    phase = "done" =>
        /\ heard = NoPacket => answer.pdu = Exception(PduBytes(wire)[1], IllegalDataValue)
        /\ (heard # NoPacket /\ heard.pdu.id \in {ModbusPdu.id, ModbusRequestFC8.id})
              => answer.pdu = Exception(heard.pdu.fc, SlaveDeviceFailure)

\* A read whose answer has a count of data bytes that one byte cannot hold.
ReadTooWide(pdu) ==
    \/ pdu.id \in {ModbusRequestFC1.id, ModbusRequestFC2.id} /\ pdu.fields[2] > 2040
    \/ /\ pdu.id \in {ModbusRequestFC3.id, ModbusRequestFC4.id, ModbusRequestFC23.id}
       /\ pdu.fields[2] > 127

\* A connection is dropped, under the class that says so, for one of three
\* causes and no other: a frame that left nothing to echo, a data handler that
\* raised, and an answer that does not pack - to a read of more than its count
\* byte can tell, or to a function code that carries the error mask already.
\* docs/decisions/049 names only the first: "It drops the peer only where nothing
\* survived to echo".
DropHasCause ==
    phase = "dropped" =>
        \/ /\ raised = "ModbusPacketError"
           /\ ~ HeaderHolds(wire) \/ PduBytes(wire) = <<>>
        \/ raised = HandlersOwn /\ heard # NoPacket /\ reply = NoPacket
        \/ /\ raised = "ModbusSlaveDeviceFailureError" /\ heard # NoPacket
           /\ ReadTooWide(heard.pdu) \/ heard.pdu.fc >= 128

=============================================================================
