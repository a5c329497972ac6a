----------------------------- MODULE MCRtuStream -----------------------------
(***************************************************************************)
(* ModbusRtuStream with a request whose echo reads as a reply (as the      *)
(* write requests' do), on lines that may already carry something.         *)
(***************************************************************************)
EXTENDS RtuStream, MCRtu

Requests == {<<2, 1, 2, 0>>}

\* A reply that repeats the request, and another.
Replies == {<<2, 1, 2, 0>>, <<1, 2, 1, 0, 3>>}

\* Nothing, a frame or a noise byte, and a frame that has lost its last byte.
StreamLines ==
    {<<>>}
    \cup LinesOf(Sizable \cup {Frame(<<1, 3, 0, 2>>), Noise(1), Noise(2)}, 1)
    \cup {Cut(l) : l \in LinesOf(Sizable, 1)}

=============================================================================
