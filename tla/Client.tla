------------------------------- MODULE Client -------------------------------
(***************************************************************************)
(* ModbusClientSimulator (simulators/client.py): its socket, and how it    *)
(* tells the answer to its request from late answers to earlier ones, on a *)
(* connection to a device that answers when it likes.                      *)
(*                                                                         *)
(* Requests are numbered 1, 2, ... as they are made; the number is history *)
(* and stands for the question asked.  The client only ever sees the       *)
(* transaction identifier.                                                 *)
(*                                                                         *)
(* A definition introduced as a mutant is the one after it with a mistake  *)
(* in it; nothing here uses one.                                           *)
(***************************************************************************)
EXTENDS Integers, Sequences

CONSTANTS
    Modulus,      \* TRANS_ID_MODULO (65536)
    MaxStale,     \* MAX_STALE_RESPONSES (8)
    DeviceMay,    \* what the device does besides answering each request in turn:
                  \* "ignore" it, "reorder" answers, "repeat" one, "garble" one,
                  \* "stall" inside one
    MaxRequests,  \* bound: requests made
    MaxPipe       \* bound: frames on their way to the client

ASSUME ModulusAssumption == Modulus \in Nat \ {0}
ASSUME ClientAssumption == /\ MaxStale \in Nat
                           /\ DeviceMay \subseteq {"ignore", "reorder", "repeat", "garble", "stall"}
                           /\ MaxRequests \in Nat
                           /\ MaxPipe \in Nat

VARIABLES
    csock,       \* self.sock
    nextId,      \* self._next_trans_id
    pending,     \* self._pending_trans_id
    waiting,     \* inside wait_response()
    reads,       \* stale responses this wait_response() has dropped
    made,        \* requests made so far; the last is the pending one (history)
    outcome,     \* how the last wait_response() ended (history)
    given,       \* the request the last response returned answers (history)
    asked,       \* the requests the device has and has not dealt with
    pipe,        \* frames on their way to the client, oldest first
    link,        \* the device's end of the connection
    torn         \* whether the next byte to be read lies inside a frame

clientVars == <<csock, nextId, pending, waiting, reads, made>>
historyVars == <<outcome, given>>
netVars == <<asked, pipe, link, torn>>
vars == <<clientVars, historyVars, netVars>>

NoId == -1

Ids == 0 .. Modulus - 1

\* A request the device has, and a response on its way back: the identifier,
\* the request meant, and whether ModbusTcpResponse.deserialize can read it.
Request == [id : Ids, req : Nat]
Frame == [id : Ids, req : Nat, ok : BOOLEAN]

TypeOK ==
    /\ csock \in {"none", "fresh", "connected", "closed"}
    /\ nextId \in Ids
    /\ pending \in {NoId} \cup Ids
    /\ waiting \in BOOLEAN
    /\ reads \in 0 .. MaxStale
    /\ made \in Nat
    /\ outcome \in {"none", "matched", "passed", "misread", "eof", "error"}
    /\ given \in Nat
    /\ asked \subseteq Request
    /\ pipe \in Seq(Frame)
    /\ link \in {"down", "up", "closed"}
    /\ torn \in BOOLEAN

\* __init__: a socket that is not connected.
Init ==
    /\ csock = "fresh"
    /\ nextId = 0
    /\ pending = NoId
    /\ waiting = FALSE
    /\ reads = 0
    /\ made = 0
    /\ outcome = "none"
    /\ given = 0
    /\ asked = {}
    /\ pipe = <<>>
    /\ link = "down"
    /\ torn = FALSE

-----------------------------------------------------------------------------
(* The socket. *)

\* connect(): a new socket only where there is none.  A socket reset() closed
\* is still there, and closed sockets do not connect.
Connect ==
    /\ ~waiting
    /\ \/ /\ csock \in {"none", "fresh"}
          /\ csock' = "connected"
          /\ link' = "up"
       \/ /\ csock = "closed"
          /\ UNCHANGED <<csock, link>>
    /\ UNCHANGED <<nextId, pending, waiting, reads, made, outcome, given,
                   asked, pipe, torn>>

HangUp == /\ link' = "down"
          /\ asked' = {}
          /\ pipe' = <<>>
          /\ torn' = FALSE

\* disconnect(): whatever the socket was, it is given up.  The pending
\* identifier stays.
Disconnect ==
    /\ ~waiting
    /\ csock # "none"
    /\ csock' = "none"
    /\ HangUp
    /\ UNCHANGED <<nextId, pending, waiting, reads, made, historyVars>>

\* reset(): the socket is closed and kept.
Reset ==
    /\ ~waiting
    /\ csock \in {"fresh", "connected"}
    /\ csock' = "closed"
    /\ HangUp
    /\ UNCHANGED <<nextId, pending, waiting, reads, made, historyVars>>

-----------------------------------------------------------------------------
(* Requests. *)

\* Mutants: the identifier does not wrap; it does not advance.
FollowingUnwrapped(id) == id + 1
FollowingSame(id) == id

\* _take_trans_id
Following(id) == (id + 1) % Modulus

\* Mutant: the identifiers are one apart.
MatchesTheNext(frame) == pending \in {NoId, (frame.id + 1) % Modulus}

\* The frame answers the pending request, or no request is pending.
Matches(frame) == pending \in {NoId, frame.id}

\* send_request(): _take_trans_id comes before the send, so a send that fails
\* (no connection, or one the device closed) leaves its identifier pending.
SendRequest ==
    /\ ~waiting
    /\ made < MaxRequests
    /\ made' = made + 1
    /\ pending' = nextId
    /\ nextId' = Following(nextId)
    /\ asked' = IF link = "up" THEN asked \cup {[id |-> nextId, req |-> made + 1]}
                ELSE asked
    /\ outcome' = "none"
    /\ UNCHANGED <<csock, waiting, reads, given, pipe, link, torn>>

\* wait_response() begins; receive() fails at once without a connection.
WaitCall ==
    /\ ~waiting
    /\ IF csock = "connected"
       THEN /\ waiting' = TRUE
            /\ reads' = 0
            /\ UNCHANGED outcome
       ELSE /\ outcome' = "error"
            /\ UNCHANGED <<waiting, reads>>
    /\ UNCHANGED <<csock, nextId, pending, made, given, netVars>>

WaitEnds(how) == /\ waiting' = FALSE
                 /\ outcome' = how

\* A frame that answers the pending request, or any frame where none is.
TakeAnswer ==
    /\ waiting
    /\ ~torn
    /\ pipe # <<>>
    /\ Head(pipe).ok
    /\ Matches(Head(pipe))
    /\ WaitEnds(IF pending = NoId THEN "passed" ELSE "matched")
    /\ given' = Head(pipe).req
    /\ pending' = NoId
    /\ pipe' = Tail(pipe)
    /\ UNCHANGED <<csock, nextId, reads, made, asked, link, torn>>

\* Mutant: the drops are not counted.
DropStaleForever ==
    /\ waiting /\ pipe # <<>> /\ Head(pipe).ok /\ ~Matches(Head(pipe))
    /\ pipe' = Tail(pipe)
    /\ UNCHANGED <<clientVars, historyVars, asked, link, torn>>

\* A frame that answers another request is dropped, and the read repeated as
\* long as the bound allows.
DropStale ==
    /\ waiting
    /\ ~torn
    /\ pipe # <<>>
    /\ Head(pipe).ok
    /\ ~Matches(Head(pipe))
    /\ pipe' = Tail(pipe)
    /\ IF reads < MaxStale
       THEN /\ reads' = reads + 1
            /\ UNCHANGED <<waiting, outcome>>
       ELSE /\ WaitEnds("error")
            /\ UNCHANGED reads
    /\ UNCHANGED <<csock, nextId, pending, made, given, asked, link, torn>>

\* deserialize() raises: the frame is gone and the request still pending.
GarbledFrame ==
    /\ waiting
    /\ ~torn
    /\ pipe # <<>>
    /\ ~Head(pipe).ok
    /\ pipe' = Tail(pipe)
    /\ WaitEnds("error")
    /\ UNCHANGED <<csock, nextId, pending, reads, made, given, asked, link, torn>>

\* receive() returns nothing: the peer closed the connection.
EndOfStream ==
    /\ waiting
    /\ pipe = <<>>
    /\ link = "closed"
    /\ WaitEnds("eof")
    /\ UNCHANGED <<csock, nextId, pending, reads, made, given, netVars>>

\* The socket's timeout between two frames, or where what is left of a frame
\* declares more than there is.
Timeout ==
    /\ waiting
    /\ pipe = <<>> \/ torn
    /\ link = "up"
    /\ WaitEnds("error")
    /\ UNCHANGED <<csock, nextId, pending, reads, made, given, netVars>>

\* The socket's timeout inside a frame: receive() raises, and what it had read
\* is gone with it.
TimeoutInside ==
    /\ "stall" \in DeviceMay
    /\ waiting
    /\ pipe # <<>>
    /\ pipe' = Tail(pipe)
    /\ torn' = TRUE
    /\ WaitEnds("error")
    /\ UNCHANGED <<csock, nextId, pending, reads, made, given, asked, link>>

\* A read that begins inside a frame makes of its bytes, and of what comes
\* behind them, a frame with any identifier, readable or not, or a header that
\* is none; it may end where a frame does.
Misread(id, readable) ==
    /\ waiting
    /\ torn
    /\ pipe' = pipe \/ (pipe # <<>> /\ pipe' = Tail(pipe))
    /\ torn' \in BOOLEAN
    /\ \/ /\ readable /\ pending \in {NoId, id}
          /\ WaitEnds("misread")
          /\ given' = 0
          /\ pending' = NoId
          /\ UNCHANGED reads
       \/ /\ readable /\ pending \notin {NoId, id} /\ reads < MaxStale
          /\ reads' = reads + 1
          /\ UNCHANGED <<waiting, outcome, given, pending>>
       \/ /\ ~readable \/ (pending \notin {NoId, id} /\ reads = MaxStale)
          /\ WaitEnds("error")
          /\ UNCHANGED <<reads, given, pending>>
    /\ UNCHANGED <<csock, nextId, made, asked, link>>

Waiting ==
    \/ TakeAnswer
    \/ DropStale
    \/ GarbledFrame
    \/ EndOfStream
    \/ Timeout
    \/ TimeoutInside
    \/ \E id \in Ids, readable \in BOOLEAN : Misread(id, readable)

-----------------------------------------------------------------------------
(* The device. *)

\* The oldest request is dealt with first, unless answers may be reordered.
Turn(r) ==
    /\ r \in asked
    /\ "reorder" \in DeviceMay \/ \A s \in asked : r.req <= s.req

Respond(r, readable) ==
    /\ Len(pipe) < MaxPipe
    /\ pipe' = Append(pipe, [id |-> r.id, req |-> r.req, ok |-> readable])

Answer(r, readable) ==
    /\ Turn(r)
    /\ readable \/ "garble" \in DeviceMay
    /\ asked' = asked \ {r}
    /\ Respond(r, readable)
    /\ UNCHANGED <<clientVars, historyVars, link, torn>>

\* A second response to a request.
Repeat(r) ==
    /\ "repeat" \in DeviceMay
    /\ Turn(r)
    /\ Respond(r, TRUE)
    /\ UNCHANGED <<clientVars, historyVars, asked, link, torn>>

Ignore(r) ==
    /\ "ignore" \in DeviceMay
    /\ Turn(r)
    /\ asked' = asked \ {r}
    /\ UNCHANGED <<clientVars, historyVars, pipe, link, torn>>

DeviceCloses ==
    /\ link = "up"
    /\ link' = "closed"
    /\ asked' = {}
    /\ UNCHANGED <<clientVars, historyVars, pipe, torn>>

Device ==
    \/ \E r \in asked :
          \/ \E readable \in BOOLEAN : Answer(r, readable)
          \/ Repeat(r)
          \/ Ignore(r)
    \/ DeviceCloses

Next ==
    \/ Connect
    \/ Disconnect
    \/ Reset
    \/ SendRequest
    \/ WaitCall
    \/ Waiting
    \/ Device

Spec == Init /\ [][Next]_vars

\* wait_response() runs on; its reads time out.
FairSpec == Spec /\ WF_vars(Waiting)

-----------------------------------------------------------------------------
(* Properties. *)

\* wait_response(): a response returned for a request answers that request,
\* however late, repeated or out of order others are: for a wrong match a
\* whole round of identifiers has to be used up in between.  (Once a read has
\* timed out inside a frame and until the connection is given up, what is read
\* may be no response at all: nothing is said of that.)
AnswersTheQuestion ==
    outcome = "matched" => given = made \/ made - given >= Modulus

\* While a request is pending, the frames that could be taken for its answer
\* are its answer, or a round of identifiers old.
OnlyItsAnswerMatches ==
    \A i \in 1 .. Len(pipe) :
        pipe[i].id = pending => \/ pipe[i].req = made
                                \/ made - pipe[i].req >= Modulus

\* wait_response() never drops the answer it waits for.
DropsOnlyTheStale == [][DropStale => Head(pipe).req # made]_vars

\* wait_response() ends, even where the device keeps answering with
\* identifiers that match no outstanding request.
WaitingEnds == waiting ~> ~waiting

=============================================================================
