------------------------------ MODULE MCServer ------------------------------
(***************************************************************************)
(* Server for TLC: symmetric connections, and a bound that keeps what has  *)
(* a run of its own, the start handshake, and what has no thread left to   *)
(* be interesting, the time after run() is over, out of the other runs.    *)
(***************************************************************************)
EXTENDS Server, TLC

ConnSymmetry == Permutations(Conns)

WhileServing ==
    /\ startResult = "none" => /\ \A c \in Conns : peer[c] = "none"
                               /\ clock = 0
    /\ ~processing => \A c \in Conns : inbox[c] = 0 /\ ~half[c]
    /\ ~Over
=============================================================================
