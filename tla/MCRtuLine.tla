----------------------------- MODULE MCRtuLine -----------------------------
(***************************************************************************)
(* The packets, the damage and the bytes behind a frame that RtuLine is    *)
(* checked with.                                                           *)
(***************************************************************************)
EXTENDS RtuLine

Packet(id, to, pdu) == [slave_id |-> id, pdu |-> pdu, crc |-> <<255, 255>>, side |-> to]

\* Frames of every shape of layout, in both directions.
Requests ==
    {Packet(17, "request", Pdu(ModbusRequestFC3, <<107, 3>>, <<>>)),
     Packet(0, "request", Pdu(ModbusRequestFC5, <<172, 65280>>, <<>>)),
     Packet(1, "request", Pdu(ModbusRequestFC7, <<>>, <<>>)),
     Packet(255, "request", Pdu(ModbusRequestFC15, <<19, 10, 2>>, <<205, 1>>)),
     Packet(247, "request", Pdu(ModbusRequestFC22, <<4, 242, 37>>, <<>>)),
     Packet(4, "request", Pdu(ModbusRequestFC8, <<4>>, <<0>>)),
     Packet(4, "request", Pdu(ModbusRequestFC8, <<0>>, <<42, 43>>)),
     Packet(4, "request", Pdu(ModbusRequestFC8, <<4>>, <<0, 1>>)),
     Packet(8, "request", Pdu(ModbusRequestFC16, <<1, 1, 1>>, <<5>>)),
     Packet(6, "request", [id |-> ModbusPdu.id, fc |-> 99, fields |-> <<>>, tail |-> <<1, 2>>]),
     Packet(9, "request", Pdu(ModbusRequestFC43, <<14>>, <<1, 0>>)),
     Packet(256, "request", Pdu(ModbusRequestFC7, <<>>, <<>>)),
     Packet(3, "request", Pdu(ModbusRequestFC3, <<65536, 1>>, <<>>))}

Responses ==
    {Packet(17, "response", Pdu(ModbusResponseFC3, <<4>>, <<555, 0>>)),
     Packet(17, "response", Pdu(ModbusResponseFC1, <<0>>, <<>>)),
     Packet(5, "response", Pdu(ModbusResponseFC1, <<3>>, <<1, 128, 255>>)),
     Packet(17, "response", Exception(3, 2)),
     Packet(2, "response", Pdu(ModbusResponseFC7, <<109>>, <<>>)),
     Packet(11, "response", Pdu(ModbusResponseFC16, <<1, 2>>, <<>>)),
     Packet(11, "response", Pdu(ModbusResponseFC23, <<2>>, <<258>>))}

AllPackets == Requests \cup Responses

\* Every single bit, pairs at every distance and from two places, bursts of
\* up to sixteen bits at every place, and one of seventeen.
Shapes == {{0, 2, 15}, {0, 13, 15}, {0, 1, 2, 3, 4, 5, 6, 7, 8, 9, 10, 11, 12, 13, 14, 15},
           {0, 7, 8, 14}, {0, 5, 16}}
Longest == 8 * 11 - 1
AllFlips ==
    {{p} : p \in 0 .. Longest}
    \cup {{p, q} : p \in {0, 21}, q \in 0 .. Longest}
    \cup {{p + k : k \in shape} : p \in 0 .. Longest, shape \in Shapes}

\* Nothing, a stray byte, another frame.
AllFollowing == {<<>>, <<3>>, <<17, 3, 0, 107, 0, 3, 118, 135>>}

=============================================================================
