------------------------------- MODULE MCRtu -------------------------------
(***************************************************************************)
(* The byte values, layouts and lines the RTU modules are checked with.    *)
(*                                                                         *)
(* 0 and 3 are function codes no layout sizes, 1 one of a fixed layout, 2  *)
(* one whose frames state a count.  The same values serve as slave ids,    *)
(* data, counts and checksums, so that every byte of a frame can be taken  *)
(* for the start of another.                                               *)
(***************************************************************************)
EXTENDS Integers, Sequences, SequencesExt

LayoutTable ==
    [v \in 0 .. 3 |->
        CASE v = 1 -> [kind |-> "fixed", head |-> 2]
          [] v = 2 -> [kind |-> "counted", head |-> 2]
          [] OTHER -> [kind |-> "none", head |-> 1]]

\* What comes down a line: frames the reader can size, frames it cannot, and
\* single bytes of noise.
Frame(values) == [sent |-> TRUE, values |-> values]
Noise(value) == [sent |-> FALSE, values |-> <<value>>]

Sizable == {Frame(<<2, 1, 2, 0>>), Frame(<<1, 2, 1, 0, 3>>), Frame(<<0, 2, 2, 1, 2, 1>>)}
Unsizable == {Frame(<<1, 3, 2>>), Frame(<<1, 3, 0, 2>>)}
NoiseBytes == {Noise(v) : v \in 0 .. 3}

\* The bytes of a sequence of these, each frame known by its place.
Bytes(items) ==
    FlattenSeq([k \in 1 .. Len(items) |->
        [j \in 1 .. Len(items[k].values) |->
            [value |-> items[k].values[j],
             frame |-> IF items[k].sent THEN k ELSE 0,
             pos |-> j,
             of |-> Len(items[k].values)]]])

\* A frame that loses its last byte on the way.
Cut(bytes) == SubSeq(bytes, 1, Len(bytes) - 1)

LinesOf(items, n) == {Bytes(s) : s \in UNION {[1 .. k -> items] : k \in 1 .. n}}

=============================================================================
