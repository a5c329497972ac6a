----------------------------- MODULE ClientProof -----------------------------
(***************************************************************************)
(* What the client's matching guarantees for every modulus, bound and      *)
(* device of module Client, proved.                                        *)
(*                                                                         *)
(* The properties speak of two identifiers being equal; what is inductive  *)
(* is where every identifier still in flight stands relative to the next   *)
(* one to be taken: as many steps behind it as requests were made since,   *)
(* until the numbering has gone once around.                               *)
(***************************************************************************)
EXTENDS Client, TLAPS

\* The requests made from request number n on, itself included.
Age(n) == made + 1 - n

\* Identifier id stands n steps behind nextId.
Behind(id, n) == nextId = id + n \/ nextId + Modulus = id + n

\* A request or response in flight is one that was made, and its identifier
\* is as old as it is.
Dated(f) == /\ f.req \in 1 .. made
            /\ Age(f.req) <= Modulus => Behind(f.id, Age(f.req))

FlightInv == /\ \A r \in asked : Dated(r)
             /\ \A i \in 1 .. Len(pipe) : Dated(pipe[i])

\* The pending identifier is the last one taken.
PendingInv == pending # NoId => Behind(pending, 1)

IndInv == /\ TypeOK
          /\ FlightInv
          /\ PendingInv
          /\ AnswersTheQuestion

\* One step of _take_trans_id moves every identifier one step further behind.
LEMMA TakenId ==
    ASSUME NEW M \in Nat \ {0}, NEW x \in 0 .. M - 1
    PROVE  /\ (x + 1) % M \in 0 .. M - 1
           /\ (x + 1) % M = IF x + 1 = M THEN 0 ELSE x + 1
  OBVIOUS

\* A frame that carries the pending identifier answers the pending request,
\* unless it is a whole round old.
LEMMA SameIdSameRequest ==
    ASSUME TypeOK, PendingInv, NEW f \in Frame, Dated(f), pending = f.id
    PROVE  f.req = made \/ made - f.req >= Modulus
  <1>1. /\ made \in Nat /\ nextId \in 0 .. Modulus - 1
        /\ f.req \in Nat /\ f.id \in 0 .. Modulus - 1
        /\ f.id # NoId
    BY ModulusAssumption DEF TypeOK, Frame, Ids, NoId
  <1>2. Behind(f.id, 1)
    BY <1>1 DEF PendingInv
  <1> QED
    BY <1>1, <1>2, ModulusAssumption DEF Dated, Behind, Age

\* The answer to the pending request carries the pending identifier.
LEMMA SameRequestSameId ==
    ASSUME TypeOK, PendingInv, NEW f \in Frame, Dated(f), pending # NoId,
           f.req = made
    PROVE  pending = f.id
  <1>1. /\ made \in Nat /\ nextId \in 0 .. Modulus - 1
        /\ f.id \in 0 .. Modulus - 1 /\ pending \in 0 .. Modulus - 1
    BY ModulusAssumption DEF TypeOK, Frame, Ids
  <1>2. Behind(pending, 1)
    BY DEF PendingInv
  <1>3. Behind(f.id, 1)
    BY <1>1, ModulusAssumption DEF Dated, Age
  <1> QED
    BY <1>1, <1>2, <1>3, ModulusAssumption DEF Behind

\* The first frame of the pipe, and what is left of the pipe without it.
LEMMA Received ==
    ASSUME TypeOK, FlightInv, pipe # <<>>
    PROVE  /\ Head(pipe) \in Frame /\ Dated(Head(pipe))
           /\ Tail(pipe) \in Seq(Frame)
           /\ \A i \in 1 .. Len(Tail(pipe)) : Dated(Tail(pipe)[i])
  <1>1. pipe \in Seq(Frame) /\ Len(pipe) \in Nat /\ Len(pipe) > 0
    BY DEF TypeOK
  <1>2. /\ Head(pipe) = pipe[1] /\ Head(pipe) \in Frame
        /\ Tail(pipe) \in Seq(Frame) /\ Len(Tail(pipe)) = Len(pipe) - 1
        /\ \A i \in 1 .. Len(pipe) - 1 : Tail(pipe)[i] = pipe[i + 1]
    BY <1>1
  <1>3. \A i \in 1 .. Len(pipe) : Dated(pipe[i])
    BY DEF FlightInv
  <1>4. Dated(Head(pipe))
    BY <1>1, <1>2, <1>3
  <1>5. ASSUME NEW i \in 1 .. Len(Tail(pipe)) PROVE Dated(Tail(pipe)[i])
    <2>1. i + 1 \in 1 .. Len(pipe) /\ Tail(pipe)[i] = pipe[i + 1]
      BY <1>1, <1>2
    <2> QED
      BY <2>1, <1>3
  <1> QED
    BY <1>2, <1>4, <1>5

\* A step that makes no request and leaves the identifiers alone keeps what
\* was in flight dated.
LEMMA StillDated ==
    ASSUME UNCHANGED <<nextId, made>>
    PROVE  \A f : Dated(f) => Dated(f)'
  BY DEF Dated, Behind, Age

\* One more response in the pipe: as old as the request it answers.
LEMMA Sent ==
    ASSUME TypeOK, FlightInv,
           NEW r \in asked, NEW readable \in BOOLEAN, Respond(r, readable)
    PROVE  pipe' \in Seq(Frame) /\ \A i \in 1 .. Len(pipe') : Dated(pipe'[i])
  <1> DEFINE f == [id |-> r.id, req |-> r.req, ok |-> readable]
  <1>1. f \in Frame /\ pipe \in Seq(Frame) /\ pipe' = Append(pipe, f)
    BY DEF TypeOK, Request, Frame, Respond
  <1>2. Dated(f)
    BY DEF FlightInv, Dated, Behind, Age
  <1>3. \A i \in 1 .. Len(pipe) : Dated(pipe[i])
    BY DEF FlightInv
  <1> HIDE DEF f
  <1>4. /\ pipe' \in Seq(Frame) /\ Len(pipe') = Len(pipe) + 1
        /\ \A i \in 1 .. Len(pipe) : pipe'[i] = pipe[i]
        /\ pipe'[Len(pipe) + 1] = f
        /\ Len(pipe) \in Nat
    BY <1>1
  <1>5. ASSUME NEW i \in 1 .. Len(pipe') PROVE Dated(pipe'[i])
    <2>1. CASE i \in 1 .. Len(pipe)
      BY <2>1, <1>3, <1>4
    <2>2. CASE i = Len(pipe) + 1
      BY <2>2, <1>2, <1>4
    <2> QED
      BY <2>1, <2>2, <1>4
  <1> QED
    BY <1>4, <1>5

LEMMA InitIndInv == Init => IndInv
  <1> SUFFICES ASSUME Init PROVE IndInv
    OBVIOUS
  <1>1. TypeOK
    <2>1. nextId \in Ids /\ reads \in 0 .. MaxStale
      BY ModulusAssumption, ClientAssumption DEF Init, Ids
    <2>2. pipe \in Seq(Frame)
      BY DEF Init
    <2> QED
      BY <2>1, <2>2 DEF Init, TypeOK
  <1>2. FlightInv
    BY DEF Init, FlightInv
  <1> QED
    BY <1>1, <1>2 DEF Init, IndInv, PendingInv, AnswersTheQuestion

\* A new request: its identifier is one step behind the next, every other one
\* a step further than before.
LEMMA SendStep == IndInv /\ SendRequest => IndInv'
  <1> SUFFICES ASSUME IndInv, SendRequest PROVE IndInv'
    OBVIOUS
  <1>0. PICK new : new = [id |-> nextId, req |-> made + 1]
    OBVIOUS
  <1>1. /\ made \in Nat /\ nextId \in 0 .. Modulus - 1
        /\ made' = made + 1 /\ nextId' \in 0 .. Modulus - 1
        /\ nextId' = IF nextId + 1 = Modulus THEN 0 ELSE nextId + 1
        /\ pending' = nextId
    BY TakenId, ModulusAssumption DEF IndInv, TypeOK, Ids, SendRequest, Following
  <1>2. ASSUME NEW f, f.req \in Nat, f.id \in 0 .. Modulus - 1, Dated(f)
        PROVE  Dated(f)'
    BY <1>1, <1>2, ModulusAssumption DEF Dated, Behind, Age
  <1>3. Dated(new)' /\ new \in Request
    BY <1>0, <1>1, ModulusAssumption DEF Dated, Behind, Age, Request, Ids
  <1>4. \A r \in asked : r.req \in Nat /\ r.id \in 0 .. Modulus - 1 /\ Dated(r)
    BY DEF IndInv, TypeOK, FlightInv, Request, Ids
  <1>5. \A i \in 1 .. Len(pipe) :
            pipe[i].req \in Nat /\ pipe[i].id \in 0 .. Modulus - 1 /\ Dated(pipe[i])
    <2>1. \A i \in 1 .. Len(pipe) : pipe[i] \in Frame /\ Dated(pipe[i])
      BY DEF IndInv, TypeOK, FlightInv
    <2> QED
      BY <2>1 DEF Frame, Ids
  <1>6. asked' \subseteq asked \cup {new} /\ pipe' = pipe
    BY <1>0 DEF SendRequest, Following
  <1>7. FlightInv'
    <2>1. ASSUME NEW r \in asked' PROVE Dated(r)'
      BY <1>2, <1>3, <1>4, <1>6
    <2>2. ASSUME NEW i \in 1 .. Len(pipe') PROVE Dated(pipe[i])'
      <3>1. PICK f : f = pipe[i]
        OBVIOUS
      <3>2. Dated(f)'
        BY <3>1, <1>2, <1>5, <1>6
      <3>3. f = pipe'[i]
        BY <3>1, <1>6
      <3> QED
        BY <3>2, <3>3
    <2> QED
      BY <2>1, <2>2 DEF FlightInv
  <1>8. PendingInv'
    BY <1>1, ModulusAssumption DEF PendingInv, Behind
  <1>9. TypeOK'
    BY <1>1, <1>3, <1>6 DEF IndInv, TypeOK, SendRequest, Following, Ids
  <1> QED
    BY <1>7, <1>8, <1>9 DEF IndInv, AnswersTheQuestion, SendRequest, Following

\* The steps of wait_response().
LEMMA WaitStep == IndInv /\ Waiting => IndInv'
  <1> SUFFICES ASSUME IndInv, Waiting PROVE IndInv'
    OBVIOUS
  <1> USE ClientAssumption DEF IndInv
  <1>0. /\ UNCHANGED <<nextId, made, asked>>
        /\ pending' \in {pending, NoId}
    BY DEF Waiting, TakeAnswer, DropStale, GarbledFrame, EndOfStream, Timeout,
           TimeoutInside, Misread, netVars
  <1>1. PendingInv'
    BY <1>0 DEF PendingInv, Behind
  <1>2. pipe' = pipe \/ (pipe # <<>> /\ pipe' = Tail(pipe))
    BY DEF Waiting, TakeAnswer, DropStale, GarbledFrame, EndOfStream, Timeout,
           TimeoutInside, Misread, netVars
  <1>3. FlightInv'
    <2>1. \A r \in asked' : Dated(r)'
      BY <1>0, StillDated DEF FlightInv
    <2>2. \A i \in 1 .. Len(pipe') : Dated(pipe'[i])
      BY <1>2, Received DEF FlightInv
    <2> QED
      BY <2>1, <2>2, <1>0, StillDated DEF FlightInv
  <1>4. pipe' \in Seq(Frame)
    BY <1>2, Received DEF TypeOK
  <1>5. CASE TakeAnswer
    <2>1. Head(pipe) \in Frame /\ Dated(Head(pipe))
      BY <1>5, Received DEF TakeAnswer, Matches
    <2>2. TypeOK'
      BY <1>0, <1>4, <1>5, <2>1 DEF TypeOK, TakeAnswer, Matches, WaitEnds, Frame
    <2>3. pending # NoId => \/ Head(pipe).req = made
                            \/ made - Head(pipe).req >= Modulus
      BY <1>5, <2>1, SameIdSameRequest DEF TakeAnswer, Matches
    <2>4. AnswersTheQuestion'
      BY <1>0, <1>5, <2>3 DEF AnswersTheQuestion, TakeAnswer, Matches, WaitEnds
    <2> QED
      BY <1>1, <1>3, <2>2, <2>4
  <1>6. CASE DropStale
    <2>1. reads' \in 0 .. MaxStale
      <3>1. reads \in 0 .. MaxStale /\ MaxStale \in Nat
        BY DEF TypeOK
      <3>2. reads' = reads \/ (reads < MaxStale /\ reads' = reads + 1)
        BY <1>6 DEF DropStale, Matches
      <3> QED
        BY <3>1, <3>2
    <2> QED
      BY <1>1, <1>3, <1>4, <1>6, <2>1
      DEF TypeOK, AnswersTheQuestion, DropStale, Matches, WaitEnds
  <1>7. CASE GarbledFrame
    BY <1>1, <1>3, <1>4, <1>7
    DEF TypeOK, AnswersTheQuestion, GarbledFrame, WaitEnds
  <1>8. CASE EndOfStream
    BY <1>1, <1>3, <1>8
    DEF TypeOK, AnswersTheQuestion, EndOfStream, WaitEnds, netVars
  <1>9. CASE Timeout
    BY <1>1, <1>3, <1>9
    DEF TypeOK, AnswersTheQuestion, Timeout, WaitEnds, netVars
  <1>10. CASE TimeoutInside
    BY <1>1, <1>3, <1>4, <1>10
    DEF TypeOK, AnswersTheQuestion, TimeoutInside, WaitEnds
  <1>11. CASE \E id \in Ids, readable \in BOOLEAN : Misread(id, readable)
    <2>1. reads' \in 0 .. MaxStale /\ torn' \in BOOLEAN
      <3>1. reads \in 0 .. MaxStale /\ MaxStale \in Nat
        BY DEF TypeOK
      <3>2. reads' = reads \/ (reads < MaxStale /\ reads' = reads + 1)
        BY <1>11 DEF Misread
      <3> QED
        BY <3>1, <3>2, <1>11 DEF Misread
    <2>2. \/ UNCHANGED <<waiting, outcome, given, pending>>
          \/ waiting' = FALSE /\ outcome' = "misread" /\ given' = 0 /\ pending' = NoId
          \/ waiting' = FALSE /\ outcome' = "error" /\ UNCHANGED <<given, pending>>
      BY <1>11 DEF Misread, WaitEnds
    <2>3. UNCHANGED <<csock, nextId, made, asked, link>>
      BY <1>11 DEF Misread
    <2>4. TypeOK'
      <3>1. /\ waiting' = waiting \/ waiting' = FALSE
            /\ given' = given \/ given' = 0
            /\ pending' = pending \/ pending' = NoId
        BY <2>2
      <3>2. outcome' \in {"none", "matched", "passed", "misread", "eof", "error"}
        BY <2>2 DEF TypeOK
      <3>3. waiting' \in BOOLEAN
        BY <3>1, Zenon DEF TypeOK
      <3>4. given' \in Nat
        BY <3>1 DEF TypeOK
      <3>5. pending' \in {NoId} \cup Ids
        BY <3>1, Zenon DEF TypeOK
      <3>6. /\ csock' \in {"none", "fresh", "connected", "closed"}
            /\ nextId' \in Ids /\ made' \in Nat /\ asked' \subseteq Request
            /\ link' \in {"down", "up", "closed"}
        BY <2>3 DEF TypeOK
      <3> QED
        BY <1>4, <2>1, <3>2, <3>3, <3>4, <3>5, <3>6, Zenon DEF TypeOK
    <2>5. AnswersTheQuestion'
      BY <2>2, <2>3 DEF AnswersTheQuestion
    <2> QED
      BY <1>1, <1>3, <2>4, <2>5
  <1> QED
    BY <1>5, <1>6, <1>7, <1>8, <1>9, <1>10, <1>11 DEF Waiting

\* The device's steps.
LEMMA DeviceStep == IndInv /\ Device => IndInv'
  <1> SUFFICES ASSUME IndInv, Device PROVE IndInv'
    OBVIOUS
  <1> USE DEF IndInv
  <1>0. /\ UNCHANGED <<clientVars, historyVars>>
        /\ asked' \subseteq asked
        /\ link' \in {link, "closed"}
        /\ torn' = torn
    BY DEF Device, Answer, Repeat, Ignore, DeviceCloses
  <1>1. PendingInv' /\ AnswersTheQuestion'
    BY <1>0 DEF PendingInv, Behind, AnswersTheQuestion, clientVars, historyVars
  <1>2. pipe' \in Seq(Frame) /\ \A i \in 1 .. Len(pipe') : Dated(pipe'[i])
    <2>1. CASE pipe' = pipe
      BY <2>1 DEF TypeOK, FlightInv
    <2>2. CASE \E r \in asked, readable \in BOOLEAN : Respond(r, readable)
      BY <2>2, Sent
    <2> QED
      BY <2>1, <2>2 DEF Device, Answer, Repeat, Ignore, DeviceCloses
  <1>3. \A r \in asked' : Dated(r)'
    BY <1>0, StillDated DEF FlightInv, clientVars
  <1>4. TypeOK'
    BY <1>0, <1>2 DEF TypeOK, clientVars, historyVars
  <1>5. \A f : Dated(f) => Dated(f)'
    BY <1>0, StillDated DEF clientVars
  <1> QED
    BY <1>1, <1>2, <1>3, <1>4, <1>5 DEF FlightInv

LEMMA Preserved == IndInv /\ [Next]_vars => IndInv'
  <1> SUFFICES ASSUME IndInv, [Next]_vars PROVE IndInv'
    OBVIOUS
  <1>1. ASSUME \/ Connect \/ Disconnect \/ Reset \/ WaitCall \/ UNCHANGED vars
        PROVE  IndInv'
    <2>1. /\ UNCHANGED <<nextId, pending, made>>
          /\ asked' \subseteq asked
          /\ pipe' = pipe \/ pipe' = <<>>
      BY <1>1 DEF Connect, Disconnect, Reset, WaitCall, HangUp, vars,
                  clientVars, netVars
    <2>2. FlightInv'
      BY <2>1, StillDated DEF IndInv, FlightInv
    <2>3. PendingInv'
      BY <2>1 DEF IndInv, PendingInv, Behind
    <2>4. TypeOK'
      <3>1. reads' \in 0 .. MaxStale
        BY <1>1, ClientAssumption
        DEF IndInv, TypeOK, Connect, Disconnect, Reset, WaitCall, vars, clientVars
      <3>2. pipe' \in Seq(Frame)
        <4>1. <<>> \in Seq(Frame)
          OBVIOUS
        <4> QED
          BY <4>1, <2>1 DEF IndInv, TypeOK
      <3> QED
        BY <1>1, <2>1, <3>1, <3>2
        DEF IndInv, TypeOK, Connect, Disconnect, Reset, WaitCall, HangUp, vars,
            clientVars, netVars, historyVars
    <2>5. AnswersTheQuestion'
      BY <1>1
      DEF IndInv, AnswersTheQuestion, Connect, Disconnect, Reset, WaitCall,
          vars, clientVars, netVars, historyVars
    <2> QED
      BY <2>2, <2>3, <2>4, <2>5 DEF IndInv
  <1> QED
    BY <1>1, SendStep, WaitStep, DeviceStep DEF Next

-----------------------------------------------------------------------------

\* The invariant that all of it rests on.
THEOREM Invariance == Spec => []IndInv
  BY InitIndInv, Preserved, PTL DEF Spec

\* The types of the client's state, of what the device owes and of what is on
\* its way.
THEOREM TypeCorrect == Spec => []TypeOK
  BY Invariance, PTL DEF IndInv

\* wait_response() returns the answer to the last request made, or one at
\* least Modulus requests old.
THEOREM AnswerMatches == Spec => []AnswersTheQuestion
  BY Invariance, PTL DEF IndInv

\* No other frame on its way could be taken for the answer.
THEOREM MatchIsUnique == Spec => []OnlyItsAnswerMatches
  <1>1. IndInv => OnlyItsAnswerMatches
    <2> SUFFICES ASSUME IndInv, NEW i \in 1 .. Len(pipe), pipe[i].id = pending
                 PROVE  pipe[i].req = made \/ made - pipe[i].req >= Modulus
      BY DEF OnlyItsAnswerMatches
    <2>1. pipe[i] \in Frame /\ Dated(pipe[i]) /\ TypeOK /\ PendingInv
      BY DEF IndInv, TypeOK, FlightInv
    <2> QED
      BY <2>1, SameIdSameRequest
  <1> QED
    BY <1>1, Invariance, PTL

\* The bounded re-read never throws away the answer it is for.
THEOREM DropsAreJust == Spec => DropsOnlyTheStale
  <1>1. IndInv /\ [Next]_vars => [DropStale => Head(pipe).req # made]_vars
    <2> SUFFICES ASSUME IndInv, DropStale PROVE Head(pipe).req # made
      OBVIOUS
    <2>1. Head(pipe) \in Frame /\ Dated(Head(pipe))
      BY Received DEF IndInv, DropStale
    <2> QED
      BY <2>1, SameRequestSameId DEF IndInv, DropStale, Matches
  <1> QED
    BY <1>1, Invariance, PTL DEF Spec, DropsOnlyTheStale

=============================================================================
