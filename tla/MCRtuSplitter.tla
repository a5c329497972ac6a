---------------------------- MODULE MCRtuSplitter ----------------------------
(***************************************************************************)
(* ModbusRtuSplitter on every line of up to three frames and noise bytes.   *)
(***************************************************************************)
EXTENDS RtuSplitter, MCRtu

AllLines == LinesOf(Sizable \cup Unsizable \cup NoiseBytes, 3)

=============================================================================
