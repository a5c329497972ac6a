----------------------------- MODULE MCExchange -----------------------------
(***************************************************************************)
(* The calls and frames Exchange is checked with: every function code, the *)
(* quantities on both sides of every limit and of every width, writes with *)
(* fewer, as many and more values than they state, and frames no call      *)
(* builds.                                                                 *)
(***************************************************************************)
EXTENDS Exchange

\* send_request's own defaults.
Default ==
    [fc |-> 1, readAddress |-> 0, readCount |-> 1, writeAddress |-> 0, writeCount |-> 1,
     values |-> <<0>>, andMask |-> 65535, orMask |-> 0]

Quantities ==
    {0, 1, 7, 8, 9, 121, 122, 123, 124, 125, 126, 127, 128, 1968, 1969, 2000, 2001,
     2040, 2041, 65535, 65536}

Reads ==
    {[Default EXCEPT !.fc = fc, !.readAddress = address, !.readCount = count] :
        fc \in 1 .. 4, address \in {1, 65535}, count \in Quantities}

Singles ==
    {[Default EXCEPT !.fc = fc, !.writeAddress = address, !.values = values] :
        fc \in {5, 6}, address \in {0, 65536},
        values \in {<<>>, <<0>>, <<1>>, <<65280>>, <<65535, 2>>, <<65536>>}}

ValuesOf(n) == [k \in 1 .. n |-> (37 * k) % 256]

Writes ==
    UNION {{[Default EXCEPT !.fc = fc, !.writeAddress = 258, !.writeCount = count,
                            !.readCount = 9, !.values = ValuesOf(n)] :
              n \in {0, 1, 2, 3, 122, 123, CoilBytes([writeCount |-> count])}} :
           fc \in {15, 16, 23}, count \in {0, 1, 2, 8, 9, 17, 121, 122, 123, 124, 1968, 1969, 2041}}

ReadWrites ==
    {[Default EXCEPT !.fc = 23, !.readCount = count, !.values = <<65535>>] : count \in Quantities}

Others ==
    {[Default EXCEPT !.fc = fc] : fc \in {0, 7, 8, 43, 128, 300}}
    \cup {[Default EXCEPT !.fc = 22, !.andMask = 242, !.orMask = mask] : mask \in {37, 65536}}

AllCalls == Reads \cup Singles \cup Writes \cup ReadWrites \cup Others

\* The header of the client's frames.
Header258 == [trans_id |-> 258, prot_id |-> 0, length |-> 0, unit_id |-> 17]

FrameOf(bytes) ==
    SerializeHeader([Header258 EXCEPT !.length = Len(bytes) + 1]) \o bytes

\* PDUs of every request class, whole, with the last byte missing and with one
\* more; with a header that miscounts or that another protocol would send;
\* Diagnostics, function codes no class is registered for, and no PDU at all.
Samples ==
    {Serialize(Create(call)) : call \in
        {[Default EXCEPT !.fc = fc, !.values = ValuesOf(n)] :
            fc \in 1 .. 7 \cup {15, 16, 22, 23, 43}, n \in 1 .. 3}}
    \cup {<<8, 0, sub, 1, 2>> : sub \in {0, 4, 5, 20, 21}}
    \cup {<<8, 0>>, <<8, 0, 0>>, <<9>>, <<9, 1, 2>>, <<128>>, <<129, 2>>, <<255, 1, 2>>}

AllFrames ==
    {FrameOf(bytes) : bytes \in Samples}
    \cup {FrameOf(SubSeq(bytes, 1, Len(bytes) - 1)) : bytes \in Samples}
    \cup {FrameOf(bytes \o <<0>>) : bytes \in Samples}
    \cup {SerializeHeader([Header258 EXCEPT !.length = Len(bytes) + 2]) \o bytes :
             bytes \in Samples}
    \cup {SerializeHeader([trans_id |-> 65535, prot_id |-> 256, length |-> Len(bytes) + 1,
                           unit_id |-> 0]) \o bytes : bytes \in Samples}
    \cup {FrameOf(<<43, 14>> \o ValuesOf(300))}
    \cup {FrameOf(<<>>), <<>>, <<1, 2, 0, 0, 0, 1>>}

=============================================================================
