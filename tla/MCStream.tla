------------------------------ MODULE MCStream ------------------------------
(***************************************************************************)
(* Module Stream with two packets, whose PDUs are one and two bytes long.  *)
(***************************************************************************)
EXTENDS Stream, TLC

Lengths == <<1, 2>>

\* No fragmentation, pieces of a frame and of a PDU with and without a
\* remainder, and a size fragment() refuses.
Sizes == {-1, 0, 2}

=============================================================================
