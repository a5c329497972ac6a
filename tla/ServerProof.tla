---------------------------- MODULE ServerProof ----------------------------
(***************************************************************************)
(* Proofs about Server for every set of connections, limit, timeout and    *)
(* mode, and whatever peers and callers do.                                *)
(*                                                                         *)
(* The safety invariants are not inductive: each rests on where the thread *)
(* is.  The inductive invariant below adds, per concern, what the program  *)
(* counters imply.                                                         *)
(***************************************************************************)
EXTENDS Server, FiniteSetTheorems, TLAPS

\* The thread starts in start(); before the listener is up there is nothing
\* to serve, and a thread that has ended on its own has closed it.
ListenerInv ==
    /\ cpc = "init" => pc = "new"
    /\ pc \in {"new", "open"} =>
          listener = "none" /\ \A c \in Conns : sock[c] = "none"
    /\ pc = "ended" => listener # "open"
    /\ listener = "none" => \A c \in Conns : peer[c] = "none"
    /\ \A c \in Conns : peer[c] = "none" => sock[c] = "none"

\* Where the loops over connections stand.
LoopInv ==
    /\ pc \in {"accept", "handshake", "serve", "receive", "stuck", "handle", "answering",
              "close"} =>
          todo \subseteq readList
    /\ pc \in {"receive", "stuck", "handle", "answering"} => cur \in readList /\ cur \notin todo
    /\ pc = "forget" =>
          gone \in Conns /\ gone \notin readList /\ (backTo = "serve" => todo \subseteq readList)
    /\ pc = "farewell" =>
          /\ gone \in readList
          /\ backTo # "sweep" => todo \subseteq readList
          /\ backTo = "serve" => gone \notin todo
          /\ backTo = "close" => gone \in todo
    /\ pc = "forget" => backTo # "close"
    /\ gone # NoConn => pc \in {"farewell", "forget", "crashed"}

\* The handshake and the goodbye are TLS's, and a socket in a handshake is in
\* no table yet.
SecureInv ==
    /\ ~Secure => /\ pc \notin {"handshake", "farewell"}
                  /\ \A c \in Conns : sock[c] \notin {"handshaking", "detached"}
    /\ pc = "handshake" => cur \in Conns /\ sock[cur] = "handshaking"
    /\ \A c \in Conns : sock[c] = "handshaking" => pc = "handshake" /\ cur = c
    /\ \A c \in Conns : sock[c] = "detached" => Spoiled(c)
    /\ \A c \in Conns : peer[c] = "none" => hello[c] = "none"

\* The sockets of the connections the tables name.
SocketInv ==
    /\ \A c \in readList \cup clients \cup names :
          sock[c] \in {"open", "closed", "aborted", "detached", "handed"}
    /\ processing => \A c \in Conns : sock[c] # "handed"
    /\ processing /\ gone # NoConn /\ pc # "farewell" => sock[gone] # "open"
    /\ processing /\ (pc = "close" \/ (pc = "farewell" /\ backTo = "close")) =>
          \A c \in Conns : sock[c] = "open" => c \in todo
    /\ \A c \in readList : sock[c] = "closed" =>
          \/ pc = "close" /\ c \notin todo
          \/ pc = "farewell" /\ backTo = "close" /\ c \notin todo
          \/ pc \in {"ended", "crashed"}

\* Manual mode never reads from a connection.
ModeInv ==
    /\ ~processing => /\ readList = {}
                              /\ gone = NoConn
                              /\ pc \notin {"receive", "stuck", "handle", "answering", "farewell", "forget"}
    /\ cpc \in {"acc_clear", "acc_wait", "acc_pop"} => ~processing
    /\ pc = "new" => processing

\* Only reset() closes a socket, or empties the live list, under the thread.
ResetInv ==
    /\ cpc = "resetting" => resetCalled
    /\ \A c \in Conns : sock[c] = "aborted" => resetCalled
    /\ pc = "forget" /\ gone \notin clients => resetCalled

\* set_connection_limit() may lower the limit during a handshake.
LimitInv == /\ limit <= topLimit
            /\ pc = "handshake" => Cardinality(readList) < topLimit

\* Acceptance stamps are handed out once each.
StampInv ==
    /\ \A c \in Conns : stamp[c] <= accepted
    /\ \A c \in clients : stamp[c] > 0
    /\ \A c \in Conns : sock[c] = "handed" => stamp[c] > 0
    /\ \A c, d \in Conns : c # d /\ stamp[c] > 0 => stamp[c] # stamp[d]

\* What select reported of a connection stays true until its turn comes.
StillReadable(c) == half[c] \/ inbox[c] > 0 \/ peer[c] # "open" \/ Dead(c)

ReadableInv ==
    /\ \/ pc \in {"accept", "handshake", "serve", "receive", "stuck", "handle", "answering"}
       \/ pc \in {"farewell", "forget"} /\ backTo = "serve"
       => \A c \in todo : StillReadable(c)
    /\ pc = "receive" => StillReadable(cur)

IndInv == /\ TypeOK
          /\ ListenerInv /\ LoopInv /\ SecureInv /\ SocketInv /\ ModeInv
          /\ ResetInv /\ LimitInv /\ StampInv /\ ReadableInv
          /\ TablesAgree /\ OpenIsTracked /\ EndsClean /\ CrashHasCause
          /\ WithinLimit /\ OneOwner /\ HandedInOrder /\ HeldOnlyInsideAFrame

-----------------------------------------------------------------------------
(* How start() ends. *)

StartInv ==
    /\ startResult = "ended" => Over
    /\ pc = "ended" => listener = "none" \/ quit
    /\ pc = "close" \/ (pc = "farewell" /\ backTo = "close") => quit

-----------------------------------------------------------------------------
(* What was there when a pass began. *)

\* A pass of run()'s loop, from select to the end of its sweep.
Passing == \/ pc \in {"accept", "handshake", "serve", "receive", "stuck", "handle",
                      "answering", "forget", "sweep"}
           \/ pc = "farewell" /\ backTo # "close"

\* The connections the pass is still to read, or to close.
Waiting == todo \cup (IF pc \in {"receive", "stuck"} THEN {cur} ELSE {})
                \cup (IF pc = "farewell" THEN {gone} ELSE {})

ReadFirstInv ==
    /\ now <= clock
    /\ pc = "sweep" \/ (pc \in {"farewell", "forget"} /\ backTo = "sweep") => todo = {}
    /\ Passing => \A c \in readList :
          inbox[c] > 0 \/ half[c]
             => c \in Waiting \/ arrival[c] >= now \/ lastSeen[c] = now

-----------------------------------------------------------------------------
(* The activity times, where peers send whole frames. *)

\* The connections of this pass that are still to be read.
Unread == todo \cup (IF pc = "receive" THEN {cur} ELSE {})

InPass == pc \in {"accept", "serve", "receive", "handle", "answering", "forget", "sweep"}

ActivityInv ==
    /\ pc # "stuck"
    /\ \A c \in Conns : ~half[c]
    /\ now <= clock
    /\ \A c \in Conns : arrival[c] <= clock
    /\ pc = "sweep" \/ (pc = "forget" /\ backTo = "sweep") => todo = {}
    \* Nothing was ever heard from a connection with nothing to read before
    \* it is accepted, and nothing since the last reading after that.
    /\ \A c \in Conns :
          sock[c] \in {"none", "queued"} /\ peer[c] \in {"none", "open"} /\ inbox[c] = 0
             => arrival[c] = 0
    /\ \A c \in readList :
          peer[c] = "open" /\ inbox[c] = 0 => arrival[c] <= lastSeen[c]
    \* What select reported is still there when its turn comes, and what came
    \* after it is behind it.
    /\ InPass => \A c \in Unread :
          peer[c] = "open" /\ ~Dead(c)
             => inbox[c] > 0 /\ (arrival[c] > now => inbox[c] > 1)
    \* What arrived before the pass began has been noted or will be read.
    /\ InPass => \A c \in readList :
          \/ c \in Unread
          \/ arrival[c] >= now
          \/ arrival[c] <= lastSeen[c]
          \/ lastSeen[c] = now

\* Type correctness needs to know that the connection being read or forgotten
\* is one.
LEMMA TypeStep ==
    TypeOK /\ LoopInv /\ SecureInv /\ [Next]_vars => TypeOK'
<1> SUFFICES ASSUME TypeOK /\ LoopInv /\ SecureInv, [Next]_vars PROVE TypeOK'
    OBVIOUS
<1> USE ConnsAssumption, NumbersAssumption, ModesAssumption
        DEF TypeOK, LoopInv, SecureInv, Spoiled, None,
            netVars, tableVars, orderVars, limitVars, eventVars, threadVars,
            callerVars, worldVars, selfVars
<1>1. ASSUME NEW c \in Conns, Connect(c) PROVE TypeOK'
    BY <1>1 DEF Connect
<1>2. ASSUME NEW c \in Conns, NEW h \in {"good", "bad"}, PeerHello(c, h) PROVE TypeOK'
    BY <1>2 DEF PeerHello
<1>3. ASSUME NEW c \in Conns, PeerSends(c) PROVE TypeOK'
    BY <1>3 DEF PeerSends, MaySend
<1>4. ASSUME NEW c \in Conns, PeerSendsHalf(c) PROVE TypeOK'
    BY <1>4 DEF PeerSendsHalf, MaySend
<1>5. ASSUME NEW c \in Conns, PeerCloses(c) PROVE TypeOK'
    BY <1>5 DEF PeerCloses
<1>6. ASSUME NEW c \in Conns, PeerResets(c) PROVE TypeOK'
    BY <1>6 DEF PeerResets
<1>7. ASSUME NEW c \in Conns, PeerStopsReading(c) PROVE TypeOK'
    BY <1>7 DEF PeerStopsReading, MaySend
<1>8. ASSUME NEW c \in Conns, PeerReads(c) PROVE TypeOK'
    BY <1>8 DEF PeerReads
<1>9. CASE Tick
    BY <1>9 DEF Tick
<1>10. CASE BindFails
    BY <1>10 DEF BindFails
<1>11. CASE OpenListener
    BY <1>11 DEF OpenListener
<1>12. CASE Loop
    BY <1>12 DEF Loop, Crash, Dead
<1>13. CASE SelectReturns
    BY <1>13 DEF SelectReturns, Readable, Dead
<1>14. CASE NothingToAccept
    BY <1>14 DEF NothingToAccept
<1>15. ASSUME NEW c \in Conns, Refuse(c) PROVE TypeOK'
    BY <1>15 DEF Refuse
<1>16. ASSUME NEW c \in Conns, Accept(c) PROVE TypeOK'
    BY <1>16 DEF Accept, Register
<1>17. ASSUME NEW c \in Conns, AcceptSecure(c) PROVE TypeOK'
    BY <1>17 DEF AcceptSecure
<1>18. CASE HandshakeDone
    BY <1>18 DEF HandshakeDone, Register
<1>19. CASE HandshakeFails
    BY <1>19 DEF HandshakeFails, Register
<1>20. CASE HandshakeBreaks
    BY <1>20 DEF HandshakeBreaks, Crash
<1>21. ASSUME NEW c \in Conns, ServeNext(c) PROVE TypeOK'
    BY <1>21 DEF ServeNext
<1>22. CASE ServeDone
    BY <1>22 DEF ServeDone
<1>23. CASE FarewellEnds
    BY <1>23 DEF FarewellEnds, Drop, AfterClose
<1>24. CASE ForgetRemove
    BY <1>24 DEF ForgetRemove, Crash
<1>25. CASE ReceiveBlocks
    BY <1>25 DEF ReceiveBlocks, Dead
<1>26. CASE ReceiveFrame
    BY <1>26 DEF ReceiveFrame, Dead
<1>27. CASE ReceiveFails
    BY <1>27 DEF ReceiveFails, Forget, Drop, AfterClose, Dead
<1>28. CASE OnDataAnswers
    BY <1>28 DEF OnDataAnswers, Dead
<1>29. CASE AnswerBlocks
    BY <1>29 DEF AnswerBlocks, Dead
<1>30. CASE AnswerEnds
    BY <1>30 DEF AnswerEnds
<1>31. CASE OnDataRaises
    BY <1>31 DEF OnDataRaises, Forget, Drop, AfterClose, Dead
<1>32. ASSUME NEW c \in Conns, SweepOne(c) PROVE TypeOK'
    BY <1>32 DEF SweepOne, Forget, Drop, AfterClose
<1>33. CASE SweepDone
    BY <1>33 DEF SweepDone
<1>34. CASE Status
    BY <1>34 DEF Status, Crash, Dead, StatusDue
<1>35. ASSUME NEW c \in Conns, CloseOne(c) PROVE TypeOK'
    BY <1>35 DEF CloseOne, Crash, Dead, AfterClose
<1>36. CASE CloseListener
  <2>1. started' \in BOOLEAN
    BY <1>36, Zenon DEF CloseListener
  <2> QED
    BY <1>36, <2>1 DEF CloseListener
<1>37. CASE Start
    BY <1>37 DEF Start
<1>38. ASSUME NEW r \in {"ok", "ended", "deadline"}, StartReturns(r) PROVE TypeOK'
    BY <1>38 DEF StartReturns
<1>39. CASE Stop
    BY <1>39 DEF Stop
<1>40. ASSUME NEW n \in 0 .. Cardinality(Conns), SetConnectionLimit(n) PROVE TypeOK'
    BY <1>40 DEF SetConnectionLimit
<1>41. CASE AcceptCall
    BY <1>41 DEF AcceptCall
<1>42. CASE AcceptClear
  <2>1. newConn' \in BOOLEAN
    BY <1>42, Zenon DEF AcceptClear
  <2> QED
    BY <1>42, <2>1 DEF AcceptClear
<1>43. CASE AcceptWait
    BY <1>43 DEF AcceptWait
<1>44. CASE AcceptPop
    BY <1>44 DEF AcceptPop, First
<1>45. CASE ResetCall
    BY <1>45 DEF ResetCall
<1>46. ASSUME NEW c \in Conns, ResetOne(c) PROVE TypeOK'
    BY <1>46 DEF ResetOne
<1>47. CASE ResetDone
    BY <1>47 DEF ResetDone
<1>48. CASE UNCHANGED vars
    BY <1>48 DEF vars
<1>49. CASE Peers
    BY <1>49, <1>1, <1>2, <1>3, <1>4, <1>5, <1>6, <1>7, <1>8 DEF Peers
<1>50. CASE Thread
    BY <1>50, <1>10, <1>11, <1>12, <1>13, <1>14, <1>15, <1>16, <1>17, <1>18, <1>19,
       <1>20, <1>21, <1>22, <1>23, <1>24, <1>25, <1>26, <1>27, <1>28, <1>29,
       <1>30, <1>31, <1>32, <1>33, <1>34, <1>35, <1>36 DEF Thread
<1>51. CASE Callers
    BY <1>51, <1>37, <1>38, <1>39, <1>40, <1>41, <1>42, <1>43, <1>44, <1>45, <1>46,
       <1>47 DEF Callers
<1> QED
    BY <1>9, <1>48, <1>49, <1>50, <1>51 DEF Next

\* Nothing is served before _open_listener is through, and run() returns with
\* its listener closed.
LEMMA ListenerStep ==
    TypeOK /\ ListenerInv /\ SecureInv /\ SocketInv
      /\ [Next]_vars => ListenerInv'
<1> SUFFICES ASSUME TypeOK /\ ListenerInv /\ SecureInv /\ SocketInv, [Next]_vars
             PROVE ListenerInv'
    OBVIOUS
<1> USE ConnsAssumption, NumbersAssumption, ModesAssumption
        DEF TypeOK, ListenerInv, SecureInv, Spoiled, SocketInv, None,
            netVars, tableVars, orderVars, limitVars, eventVars, threadVars,
            callerVars, worldVars, selfVars
<1>1. CASE Peers
    BY <1>1 DEF Peers, Connect, PeerHello, MaySend, PeerSends, PeerSendsHalf, PeerCloses, PeerResets,
                PeerStopsReading, PeerReads
<1>2. CASE Tick
    BY <1>2 DEF Tick
<1>3. CASE BindFails
    BY <1>3 DEF BindFails
<1>4. CASE OpenListener
    BY <1>4 DEF OpenListener
<1>5. CASE Loop
    BY <1>5 DEF Loop, Crash, Dead
<1>6. CASE SelectReturns
    BY <1>6 DEF SelectReturns, Readable, Dead
<1>7. CASE NothingToAccept
    BY <1>7 DEF NothingToAccept
<1>8. ASSUME NEW c \in Conns, Refuse(c) PROVE ListenerInv'
    BY <1>8 DEF Refuse
<1>9. ASSUME NEW c \in Conns, Accept(c) PROVE ListenerInv'
    BY <1>9 DEF Accept, Register
<1>10. ASSUME NEW c \in Conns, AcceptSecure(c) PROVE ListenerInv'
    BY <1>10 DEF AcceptSecure
<1>11. CASE HandshakeDone
    BY <1>11 DEF HandshakeDone, Register
<1>12. CASE HandshakeFails
    BY <1>12 DEF HandshakeFails, Register
<1>13. CASE HandshakeBreaks
    BY <1>13 DEF HandshakeBreaks, Crash
<1>14. ASSUME NEW c \in Conns, ServeNext(c) PROVE ListenerInv'
    BY <1>14 DEF ServeNext
<1>15. CASE ServeDone
    BY <1>15 DEF ServeDone
<1>16. CASE FarewellEnds
    BY <1>16 DEF FarewellEnds, Drop, AfterClose
<1>17. CASE ForgetRemove
    BY <1>17 DEF ForgetRemove, Crash
<1>18. CASE ReceiveBlocks
    BY <1>18 DEF ReceiveBlocks, Dead
<1>19. CASE ReceiveFrame
    BY <1>19 DEF ReceiveFrame, Dead
<1>20. CASE ReceiveFails
    BY <1>20 DEF ReceiveFails, Forget, Drop, AfterClose, Dead
<1>21. CASE OnDataAnswers
    BY <1>21 DEF OnDataAnswers, Dead
<1>22. CASE AnswerBlocks
    BY <1>22 DEF AnswerBlocks, Dead
<1>23. CASE AnswerEnds
    BY <1>23 DEF AnswerEnds
<1>24. CASE OnDataRaises
    BY <1>24 DEF OnDataRaises, Forget, Drop, AfterClose, Dead
<1>25. ASSUME NEW c \in Conns, SweepOne(c) PROVE ListenerInv'
    BY <1>25 DEF SweepOne, Forget, Drop, AfterClose
<1>26. CASE SweepDone
    BY <1>26 DEF SweepDone
<1>27. CASE Status
    BY <1>27 DEF Status, Crash, Dead, StatusDue
<1>28. ASSUME NEW c \in Conns, CloseOne(c) PROVE ListenerInv'
    BY <1>28 DEF CloseOne, Crash, Dead, AfterClose
<1>29. CASE CloseListener
    BY <1>29 DEF CloseListener
<1>30. CASE Callers
    BY <1>30 DEF Callers, Start, StartReturns, Stop, SetConnectionLimit, AcceptCall, AcceptClear,
            AcceptWait, AcceptPop, First, ResetCall, ResetOne, ResetDone
<1>31. CASE UNCHANGED vars
    BY <1>31 DEF vars
<1> QED
    BY <1>1, <1>2, <1>3, <1>4, <1>5, <1>6, <1>7, <1>8, <1>9, <1>10, <1>11,
       <1>12, <1>13, <1>14, <1>15, <1>16, <1>17, <1>18, <1>19, <1>20, <1>21,
       <1>22, <1>23, <1>24, <1>25, <1>26, <1>27, <1>28, <1>29, <1>30, <1>31 DEF Next, Thread

\* The loops of run() only come to connections of the read list, each once, and
\* forget() has one connection in hand.
LEMMA LoopStep ==
    TypeOK /\ ListenerInv /\ LoopInv /\ SecureInv /\ SocketInv
      /\ [Next]_vars => LoopInv'
<1> SUFFICES ASSUME TypeOK /\ ListenerInv /\ LoopInv /\ SecureInv /\ SocketInv, [Next]_vars
             PROVE LoopInv'
    OBVIOUS
<1> USE ConnsAssumption, NumbersAssumption, ModesAssumption
        DEF TypeOK, ListenerInv, LoopInv, SecureInv, Spoiled, SocketInv, None,
            netVars, tableVars, orderVars, limitVars, eventVars, threadVars,
            callerVars, worldVars, selfVars
<1>1. CASE Peers
    BY <1>1 DEF Peers, Connect, PeerHello, MaySend, PeerSends, PeerSendsHalf, PeerCloses, PeerResets,
                PeerStopsReading, PeerReads
<1>2. CASE Tick
    BY <1>2 DEF Tick
<1>3. CASE BindFails
    BY <1>3 DEF BindFails
<1>4. CASE OpenListener
    BY <1>4 DEF OpenListener
<1>5. CASE Loop
    BY <1>5 DEF Loop, Crash, Dead
<1>6. CASE SelectReturns
    BY <1>6 DEF SelectReturns, Readable, Dead
<1>7. CASE NothingToAccept
    BY <1>7 DEF NothingToAccept
<1>8. ASSUME NEW c \in Conns, Refuse(c) PROVE LoopInv'
    BY <1>8 DEF Refuse
<1>9. ASSUME NEW c \in Conns, Accept(c) PROVE LoopInv'
    BY <1>9 DEF Accept, Register
<1>10. ASSUME NEW c \in Conns, AcceptSecure(c) PROVE LoopInv'
    BY <1>10 DEF AcceptSecure
<1>11. CASE HandshakeDone
    BY <1>11 DEF HandshakeDone, Register
<1>12. CASE HandshakeFails
    BY <1>12 DEF HandshakeFails, Register
<1>13. CASE HandshakeBreaks
    BY <1>13 DEF HandshakeBreaks, Crash
<1>14. ASSUME NEW c \in Conns, ServeNext(c) PROVE LoopInv'
    BY <1>14 DEF ServeNext
<1>15. CASE ServeDone
    BY <1>15 DEF ServeDone
<1>16. CASE FarewellEnds
    BY <1>16 DEF FarewellEnds, Drop, AfterClose
<1>17. CASE ForgetRemove
    BY <1>17 DEF ForgetRemove, Crash
<1>18. CASE ReceiveBlocks
    BY <1>18 DEF ReceiveBlocks, Dead
<1>19. CASE ReceiveFrame
    BY <1>19 DEF ReceiveFrame, Dead
<1>20. CASE ReceiveFails
    BY <1>20 DEF ReceiveFails, Forget, Drop, AfterClose, Dead
<1>21. CASE OnDataAnswers
    BY <1>21 DEF OnDataAnswers, Dead
<1>22. CASE AnswerBlocks
    BY <1>22 DEF AnswerBlocks, Dead
<1>23. CASE AnswerEnds
    BY <1>23 DEF AnswerEnds
<1>24. CASE OnDataRaises
    BY <1>24 DEF OnDataRaises, Forget, Drop, AfterClose, Dead
<1>25. ASSUME NEW c \in Conns, SweepOne(c) PROVE LoopInv'
    BY <1>25 DEF SweepOne, Forget, Drop, AfterClose
<1>26. CASE SweepDone
    BY <1>26 DEF SweepDone
<1>27. CASE Status
    BY <1>27 DEF Status, Crash, Dead, StatusDue
<1>28. ASSUME NEW c \in Conns, CloseOne(c) PROVE LoopInv'
    BY <1>28 DEF CloseOne, Crash, Dead, AfterClose
<1>29. CASE CloseListener
    BY <1>29 DEF CloseListener
<1>30. CASE Callers
    BY <1>30 DEF Callers, Start, StartReturns, Stop, SetConnectionLimit, AcceptCall, AcceptClear,
            AcceptWait, AcceptPop, First, ResetCall, ResetOne, ResetDone
<1>31. CASE UNCHANGED vars
    BY <1>31 DEF vars
<1> QED
    BY <1>1, <1>2, <1>3, <1>4, <1>5, <1>6, <1>7, <1>8, <1>9, <1>10, <1>11,
       <1>12, <1>13, <1>14, <1>15, <1>16, <1>17, <1>18, <1>19, <1>20, <1>21,
       <1>22, <1>23, <1>24, <1>25, <1>26, <1>27, <1>28, <1>29, <1>30, <1>31 DEF Next, Thread

\* A connection in the tables has a socket; one the thread itself closed is out
\* of the read list, until _close_listener.
LEMMA SocketStep ==
    TypeOK /\ ListenerInv /\ LoopInv /\ SecureInv /\ SocketInv /\ ModeInv
      /\ TablesAgree /\ OpenIsTracked /\ [Next]_vars => SocketInv'
<1> SUFFICES ASSUME TypeOK /\ ListenerInv /\ LoopInv /\ SecureInv /\ SocketInv /\ ModeInv
             /\ TablesAgree /\ OpenIsTracked, [Next]_vars PROVE SocketInv'
    OBVIOUS
<1> USE ConnsAssumption, NumbersAssumption, ModesAssumption
        DEF TypeOK, ListenerInv, LoopInv, SecureInv, Spoiled, SocketInv,
            ModeInv, TablesAgree, Leaving, OpenIsTracked, None,
            netVars, tableVars, orderVars, limitVars, eventVars, threadVars,
            callerVars, worldVars, selfVars
<1>1. CASE Peers
    BY <1>1 DEF Peers, Connect, PeerHello, MaySend, PeerSends, PeerSendsHalf, PeerCloses, PeerResets,
                PeerStopsReading, PeerReads
<1>2. CASE Tick
    BY <1>2 DEF Tick
<1>3. CASE BindFails
    BY <1>3 DEF BindFails
<1>4. CASE OpenListener
    BY <1>4 DEF OpenListener
<1>5. CASE Loop
    BY <1>5 DEF Loop, Crash, Dead
<1>6. CASE SelectReturns
    BY <1>6 DEF SelectReturns, Readable, Dead
<1>7. CASE NothingToAccept
    BY <1>7 DEF NothingToAccept
<1>8. ASSUME NEW c \in Conns, Refuse(c) PROVE SocketInv'
    BY <1>8 DEF Refuse
<1>9. ASSUME NEW c \in Conns, Accept(c) PROVE SocketInv'
    BY <1>9 DEF Accept, Register
<1>10. ASSUME NEW c \in Conns, AcceptSecure(c) PROVE SocketInv'
    BY <1>10 DEF AcceptSecure
<1>11. CASE HandshakeDone
    BY <1>11 DEF HandshakeDone, Register
<1>12. CASE HandshakeFails
    BY <1>12 DEF HandshakeFails, Register
<1>13. CASE HandshakeBreaks
    BY <1>13 DEF HandshakeBreaks, Crash
<1>14. ASSUME NEW c \in Conns, ServeNext(c) PROVE SocketInv'
    BY <1>14 DEF ServeNext
<1>15. CASE ServeDone
    BY <1>15 DEF ServeDone
<1>16. CASE FarewellEnds
    BY <1>16 DEF FarewellEnds, Drop, AfterClose
<1>17. CASE ForgetRemove
    BY <1>17 DEF ForgetRemove, Crash
<1>18. CASE ReceiveBlocks
    BY <1>18 DEF ReceiveBlocks, Dead
<1>19. CASE ReceiveFrame
    BY <1>19 DEF ReceiveFrame, Dead
<1>20. CASE ReceiveFails
    BY <1>20 DEF ReceiveFails, Forget, Drop, AfterClose, Dead
<1>21. CASE OnDataAnswers
    BY <1>21 DEF OnDataAnswers, Dead
<1>22. CASE AnswerBlocks
    BY <1>22 DEF AnswerBlocks, Dead
<1>23. CASE AnswerEnds
    BY <1>23 DEF AnswerEnds
<1>24. CASE OnDataRaises
    BY <1>24 DEF OnDataRaises, Forget, Drop, AfterClose, Dead
<1>25. ASSUME NEW c \in Conns, SweepOne(c) PROVE SocketInv'
    BY <1>25 DEF SweepOne, Forget, Drop, AfterClose
<1>26. CASE SweepDone
    BY <1>26 DEF SweepDone
<1>27. CASE Status
    BY <1>27 DEF Status, Crash, Dead, StatusDue
<1>28. ASSUME NEW c \in Conns, CloseOne(c) PROVE SocketInv'
    BY <1>28 DEF CloseOne, Crash, Dead, AfterClose
<1>29. CASE CloseListener
    BY <1>29 DEF CloseListener
<1>30. CASE Callers
    BY <1>30 DEF Callers, Start, StartReturns, Stop, SetConnectionLimit, AcceptCall, AcceptClear,
            AcceptWait, AcceptPop, First, ResetCall, ResetOne, ResetDone
<1>31. CASE UNCHANGED vars
    BY <1>31 DEF vars
<1> QED
    BY <1>1, <1>2, <1>3, <1>4, <1>5, <1>6, <1>7, <1>8, <1>9, <1>10, <1>11,
       <1>12, <1>13, <1>14, <1>15, <1>16, <1>17, <1>18, <1>19, <1>20, <1>21,
       <1>22, <1>23, <1>24, <1>25, <1>26, <1>27, <1>28, <1>29, <1>30, <1>31 DEF Next, Thread

\* In manual mode the read list stays empty, so nothing is served or forgotten;
\* accept() only goes on in that mode.
LEMMA ModeStep ==
    TypeOK /\ ListenerInv /\ LoopInv /\ SecureInv /\ SocketInv /\ ModeInv
      /\ [Next]_vars => ModeInv'
<1> SUFFICES ASSUME TypeOK /\ ListenerInv /\ LoopInv /\ SecureInv /\ SocketInv
             /\ ModeInv, [Next]_vars PROVE ModeInv'
    OBVIOUS
<1> USE ConnsAssumption, NumbersAssumption, ModesAssumption
        DEF TypeOK, ListenerInv, LoopInv, SecureInv, Spoiled, SocketInv,
            ModeInv, None,
            netVars, tableVars, orderVars, limitVars, eventVars, threadVars,
            callerVars, worldVars, selfVars
<1>1. CASE Peers
    BY <1>1 DEF Peers, Connect, PeerHello, MaySend, PeerSends, PeerSendsHalf, PeerCloses, PeerResets,
                PeerStopsReading, PeerReads
<1>2. CASE Tick
    BY <1>2 DEF Tick
<1>3. CASE BindFails
    BY <1>3 DEF BindFails
<1>4. CASE OpenListener
    BY <1>4 DEF OpenListener
<1>5. CASE Loop
    BY <1>5 DEF Loop, Crash, Dead
<1>6. CASE SelectReturns
    BY <1>6 DEF SelectReturns, Readable, Dead
<1>7. CASE NothingToAccept
    BY <1>7 DEF NothingToAccept
<1>8. ASSUME NEW c \in Conns, Refuse(c) PROVE ModeInv'
    BY <1>8 DEF Refuse
<1>9. ASSUME NEW c \in Conns, Accept(c) PROVE ModeInv'
    BY <1>9 DEF Accept, Register
<1>10. ASSUME NEW c \in Conns, AcceptSecure(c) PROVE ModeInv'
    BY <1>10 DEF AcceptSecure
<1>11. CASE HandshakeDone
    BY <1>11 DEF HandshakeDone, Register
<1>12. CASE HandshakeFails
    BY <1>12 DEF HandshakeFails, Register
<1>13. CASE HandshakeBreaks
    BY <1>13 DEF HandshakeBreaks, Crash
<1>14. ASSUME NEW c \in Conns, ServeNext(c) PROVE ModeInv'
    BY <1>14 DEF ServeNext
<1>15. CASE ServeDone
    BY <1>15 DEF ServeDone
<1>16. CASE FarewellEnds
    BY <1>16 DEF FarewellEnds, Drop, AfterClose
<1>17. CASE ForgetRemove
    BY <1>17 DEF ForgetRemove, Crash
<1>18. CASE ReceiveBlocks
    BY <1>18 DEF ReceiveBlocks, Dead
<1>19. CASE ReceiveFrame
    BY <1>19 DEF ReceiveFrame, Dead
<1>20. CASE ReceiveFails
    BY <1>20 DEF ReceiveFails, Forget, Drop, AfterClose, Dead
<1>21. CASE OnDataAnswers
    BY <1>21 DEF OnDataAnswers, Dead
<1>22. CASE AnswerBlocks
    BY <1>22 DEF AnswerBlocks, Dead
<1>23. CASE AnswerEnds
    BY <1>23 DEF AnswerEnds
<1>24. CASE OnDataRaises
    BY <1>24 DEF OnDataRaises, Forget, Drop, AfterClose, Dead
<1>25. ASSUME NEW c \in Conns, SweepOne(c) PROVE ModeInv'
    BY <1>25 DEF SweepOne, Forget, Drop, AfterClose
<1>26. CASE SweepDone
    BY <1>26 DEF SweepDone
<1>27. CASE Status
    BY <1>27 DEF Status, Crash, Dead, StatusDue
<1>28. ASSUME NEW c \in Conns, CloseOne(c) PROVE ModeInv'
    BY <1>28 DEF CloseOne, Crash, Dead, AfterClose
<1>29. CASE CloseListener
    BY <1>29 DEF CloseListener
<1>30. CASE Callers
    BY <1>30 DEF Callers, Start, StartReturns, Stop, SetConnectionLimit, AcceptCall, AcceptClear,
            AcceptWait, AcceptPop, First, ResetCall, ResetOne, ResetDone
<1>31. CASE UNCHANGED vars
    BY <1>31 DEF vars
<1> QED
    BY <1>1, <1>2, <1>3, <1>4, <1>5, <1>6, <1>7, <1>8, <1>9, <1>10, <1>11,
       <1>12, <1>13, <1>14, <1>15, <1>16, <1>17, <1>18, <1>19, <1>20, <1>21,
       <1>22, <1>23, <1>24, <1>25, <1>26, <1>27, <1>28, <1>29, <1>30, <1>31 DEF Next, Thread

\* A socket closed under the thread, and a connection gone from the live list
\* while forget() is at work, are both reset()'s doing.
LEMMA ResetStep ==
    TypeOK /\ LoopInv /\ SecureInv /\ ModeInv /\ ResetInv
      /\ [Next]_vars => ResetInv'
<1> SUFFICES ASSUME TypeOK /\ LoopInv /\ SecureInv /\ ModeInv /\ ResetInv, [Next]_vars
             PROVE ResetInv'
    OBVIOUS
<1> USE ConnsAssumption, NumbersAssumption, ModesAssumption
        DEF TypeOK, LoopInv, SecureInv, Spoiled, ModeInv, ResetInv, None,
            netVars, tableVars, orderVars, limitVars, eventVars, threadVars,
            callerVars, worldVars, selfVars
<1>1. CASE Peers
    BY <1>1 DEF Peers, Connect, PeerHello, MaySend, PeerSends, PeerSendsHalf, PeerCloses, PeerResets,
                PeerStopsReading, PeerReads
<1>2. CASE Tick
    BY <1>2 DEF Tick
<1>3. CASE BindFails
    BY <1>3 DEF BindFails
<1>4. CASE OpenListener
    BY <1>4 DEF OpenListener
<1>5. CASE Loop
    BY <1>5 DEF Loop, Crash, Dead
<1>6. CASE SelectReturns
    BY <1>6 DEF SelectReturns, Readable, Dead
<1>7. CASE NothingToAccept
    BY <1>7 DEF NothingToAccept
<1>8. ASSUME NEW c \in Conns, Refuse(c) PROVE ResetInv'
    BY <1>8 DEF Refuse
<1>9. ASSUME NEW c \in Conns, Accept(c) PROVE ResetInv'
    BY <1>9 DEF Accept, Register
<1>10. ASSUME NEW c \in Conns, AcceptSecure(c) PROVE ResetInv'
    BY <1>10 DEF AcceptSecure
<1>11. CASE HandshakeDone
    BY <1>11 DEF HandshakeDone, Register
<1>12. CASE HandshakeFails
    BY <1>12 DEF HandshakeFails, Register
<1>13. CASE HandshakeBreaks
    BY <1>13 DEF HandshakeBreaks, Crash
<1>14. ASSUME NEW c \in Conns, ServeNext(c) PROVE ResetInv'
    BY <1>14 DEF ServeNext
<1>15. CASE ServeDone
    BY <1>15 DEF ServeDone
<1>16. CASE FarewellEnds
    BY <1>16 DEF FarewellEnds, Drop, AfterClose
<1>17. CASE ForgetRemove
    BY <1>17 DEF ForgetRemove, Crash
<1>18. CASE ReceiveBlocks
    BY <1>18 DEF ReceiveBlocks, Dead
<1>19. CASE ReceiveFrame
    BY <1>19 DEF ReceiveFrame, Dead
<1>20. CASE ReceiveFails
    BY <1>20 DEF ReceiveFails, Forget, Drop, AfterClose, Dead
<1>21. CASE OnDataAnswers
    BY <1>21 DEF OnDataAnswers, Dead
<1>22. CASE AnswerBlocks
    BY <1>22 DEF AnswerBlocks, Dead
<1>23. CASE AnswerEnds
    BY <1>23 DEF AnswerEnds
<1>24. CASE OnDataRaises
    BY <1>24 DEF OnDataRaises, Forget, Drop, AfterClose, Dead
<1>25. ASSUME NEW c \in Conns, SweepOne(c) PROVE ResetInv'
    BY <1>25 DEF SweepOne, Forget, Drop, AfterClose
<1>26. CASE SweepDone
    BY <1>26 DEF SweepDone
<1>27. CASE Status
    BY <1>27 DEF Status, Crash, Dead, StatusDue
<1>28. ASSUME NEW c \in Conns, CloseOne(c) PROVE ResetInv'
    BY <1>28 DEF CloseOne, Crash, Dead, AfterClose
<1>29. CASE CloseListener
    BY <1>29 DEF CloseListener
<1>30. CASE Callers
    BY <1>30 DEF Callers, Start, StartReturns, Stop, SetConnectionLimit, AcceptCall, AcceptClear,
            AcceptWait, AcceptPop, First, ResetCall, ResetOne, ResetDone
<1>31. CASE UNCHANGED vars
    BY <1>31 DEF vars
<1> QED
    BY <1>1, <1>2, <1>3, <1>4, <1>5, <1>6, <1>7, <1>8, <1>9, <1>10, <1>11,
       <1>12, <1>13, <1>14, <1>15, <1>16, <1>17, <1>18, <1>19, <1>20, <1>21,
       <1>22, <1>23, <1>24, <1>25, <1>26, <1>27, <1>28, <1>29, <1>30, <1>31 DEF Next, Thread

\* _accept gives every connection a stamp of its own.
LEMMA StampStep ==
    TypeOK /\ SecureInv /\ StampInv /\ [Next]_vars => StampInv'
<1> SUFFICES ASSUME TypeOK /\ SecureInv /\ StampInv, [Next]_vars PROVE StampInv'
    OBVIOUS
<1> USE ConnsAssumption, NumbersAssumption, ModesAssumption
        DEF TypeOK, SecureInv, Spoiled, StampInv, None,
            netVars, tableVars, orderVars, limitVars, eventVars, threadVars,
            callerVars, worldVars, selfVars
<1>1. CASE Peers
    BY <1>1 DEF Peers, Connect, PeerHello, MaySend, PeerSends, PeerSendsHalf, PeerCloses, PeerResets,
                PeerStopsReading, PeerReads
<1>2. CASE Tick
    BY <1>2 DEF Tick
<1>3. CASE BindFails
    BY <1>3 DEF BindFails
<1>4. CASE OpenListener
    BY <1>4 DEF OpenListener
<1>5. CASE Loop
    BY <1>5 DEF Loop, Crash, Dead
<1>6. CASE SelectReturns
    BY <1>6 DEF SelectReturns, Readable, Dead
<1>7. CASE NothingToAccept
    BY <1>7 DEF NothingToAccept
<1>8. ASSUME NEW c \in Conns, Refuse(c) PROVE StampInv'
    BY <1>8 DEF Refuse
<1>9. ASSUME NEW c \in Conns, Accept(c) PROVE StampInv'
    BY <1>9 DEF Accept, Register
<1>10. ASSUME NEW c \in Conns, AcceptSecure(c) PROVE StampInv'
    BY <1>10 DEF AcceptSecure
<1>11. CASE HandshakeDone
    BY <1>11 DEF HandshakeDone, Register
<1>12. CASE HandshakeFails
    BY <1>12 DEF HandshakeFails, Register
<1>13. CASE HandshakeBreaks
    BY <1>13 DEF HandshakeBreaks, Crash
<1>14. ASSUME NEW c \in Conns, ServeNext(c) PROVE StampInv'
    BY <1>14 DEF ServeNext
<1>15. CASE ServeDone
    BY <1>15 DEF ServeDone
<1>16. CASE FarewellEnds
    BY <1>16 DEF FarewellEnds, Drop, AfterClose
<1>17. CASE ForgetRemove
    BY <1>17 DEF ForgetRemove, Crash
<1>18. CASE ReceiveBlocks
    BY <1>18 DEF ReceiveBlocks, Dead
<1>19. CASE ReceiveFrame
    BY <1>19 DEF ReceiveFrame, Dead
<1>20. CASE ReceiveFails
    BY <1>20 DEF ReceiveFails, Forget, Drop, AfterClose, Dead
<1>21. CASE OnDataAnswers
    BY <1>21 DEF OnDataAnswers, Dead
<1>22. CASE AnswerBlocks
    BY <1>22 DEF AnswerBlocks, Dead
<1>23. CASE AnswerEnds
    BY <1>23 DEF AnswerEnds
<1>24. CASE OnDataRaises
    BY <1>24 DEF OnDataRaises, Forget, Drop, AfterClose, Dead
<1>25. ASSUME NEW c \in Conns, SweepOne(c) PROVE StampInv'
    BY <1>25 DEF SweepOne, Forget, Drop, AfterClose
<1>26. CASE SweepDone
    BY <1>26 DEF SweepDone
<1>27. CASE Status
    BY <1>27 DEF Status, Crash, Dead, StatusDue
<1>28. ASSUME NEW c \in Conns, CloseOne(c) PROVE StampInv'
    BY <1>28 DEF CloseOne, Crash, Dead, AfterClose
<1>29. CASE CloseListener
    BY <1>29 DEF CloseListener
<1>30. CASE Callers
    BY <1>30 DEF Callers, Start, StartReturns, Stop, SetConnectionLimit, AcceptCall, AcceptClear,
            AcceptWait, AcceptPop, First, ResetCall, ResetOne, ResetDone
<1>31. CASE UNCHANGED vars
    BY <1>31 DEF vars
<1> QED
    BY <1>1, <1>2, <1>3, <1>4, <1>5, <1>6, <1>7, <1>8, <1>9, <1>10, <1>11,
       <1>12, <1>13, <1>14, <1>15, <1>16, <1>17, <1>18, <1>19, <1>20, <1>21,
       <1>22, <1>23, <1>24, <1>25, <1>26, <1>27, <1>28, <1>29, <1>30, <1>31 DEF Next, Thread

\* Only a TLS listener has handshakes and goodbyes, and a socket only loses its
\* descriptor to a handshake the peer broke off.
LEMMA SecureStep ==
    TypeOK /\ ListenerInv /\ LoopInv /\ SocketInv /\ SecureInv
      /\ [Next]_vars => SecureInv'
<1> SUFFICES ASSUME TypeOK /\ ListenerInv /\ LoopInv /\ SocketInv /\ SecureInv, [Next]_vars
             PROVE SecureInv'
    OBVIOUS
<1> USE ConnsAssumption, NumbersAssumption, ModesAssumption
        DEF TypeOK, ListenerInv, LoopInv, SocketInv, SecureInv, Spoiled, None,
            netVars, tableVars, orderVars, limitVars, eventVars, threadVars,
            callerVars, worldVars, selfVars
<1>1. CASE Peers
    BY <1>1 DEF Peers, Connect, PeerHello, MaySend, PeerSends, PeerSendsHalf, PeerCloses, PeerResets,
                PeerStopsReading, PeerReads
<1>2. CASE Tick
    BY <1>2 DEF Tick
<1>3. CASE BindFails
    BY <1>3 DEF BindFails
<1>4. CASE OpenListener
    BY <1>4 DEF OpenListener
<1>5. CASE Loop
    BY <1>5 DEF Loop, Crash, Dead
<1>6. CASE SelectReturns
    BY <1>6 DEF SelectReturns, Readable, Dead
<1>7. CASE NothingToAccept
    BY <1>7 DEF NothingToAccept
<1>8. ASSUME NEW c \in Conns, Refuse(c) PROVE SecureInv'
    BY <1>8 DEF Refuse
<1>9. ASSUME NEW c \in Conns, Accept(c) PROVE SecureInv'
    BY <1>9 DEF Accept, Register
<1>10. ASSUME NEW c \in Conns, AcceptSecure(c) PROVE SecureInv'
    BY <1>10 DEF AcceptSecure
<1>11. CASE HandshakeDone
    BY <1>11 DEF HandshakeDone, Register
<1>12. CASE HandshakeFails
    BY <1>12 DEF HandshakeFails, Register
<1>13. CASE HandshakeBreaks
    BY <1>13 DEF HandshakeBreaks, Crash
<1>14. ASSUME NEW c \in Conns, ServeNext(c) PROVE SecureInv'
    BY <1>14 DEF ServeNext
<1>15. CASE ServeDone
    BY <1>15 DEF ServeDone
<1>16. CASE FarewellEnds
    BY <1>16 DEF FarewellEnds, Drop, AfterClose
<1>17. CASE ForgetRemove
    BY <1>17 DEF ForgetRemove, Crash
<1>18. CASE ReceiveBlocks
    BY <1>18 DEF ReceiveBlocks, Dead
<1>19. CASE ReceiveFrame
    BY <1>19 DEF ReceiveFrame, Dead
<1>20. CASE ReceiveFails
    BY <1>20 DEF ReceiveFails, Forget, Drop, AfterClose, Dead
<1>21. CASE OnDataAnswers
    BY <1>21 DEF OnDataAnswers, Dead
<1>22. CASE AnswerBlocks
    BY <1>22 DEF AnswerBlocks, Dead
<1>23. CASE AnswerEnds
    BY <1>23 DEF AnswerEnds
<1>24. CASE OnDataRaises
    BY <1>24 DEF OnDataRaises, Forget, Drop, AfterClose, Dead
<1>25. ASSUME NEW c \in Conns, SweepOne(c) PROVE SecureInv'
    BY <1>25 DEF SweepOne, Forget, Drop, AfterClose
<1>26. CASE SweepDone
    BY <1>26 DEF SweepDone
<1>27. CASE Status
    BY <1>27 DEF Status, Crash, Dead, StatusDue
<1>28. ASSUME NEW c \in Conns, CloseOne(c) PROVE SecureInv'
    BY <1>28 DEF CloseOne, Crash, Dead, AfterClose
<1>29. CASE CloseListener
    BY <1>29 DEF CloseListener
<1>30. CASE Callers
    BY <1>30 DEF Callers, Start, StartReturns, Stop, SetConnectionLimit, AcceptCall, AcceptClear,
            AcceptWait, AcceptPop, First, ResetCall, ResetOne, ResetDone
<1>31. CASE UNCHANGED vars
    BY <1>31 DEF vars
<1> QED
    BY <1>1, <1>2, <1>3, <1>4, <1>5, <1>6, <1>7, <1>8, <1>9, <1>10, <1>11,
       <1>12, <1>13, <1>14, <1>15, <1>16, <1>17, <1>18, <1>19, <1>20, <1>21,
       <1>22, <1>23, <1>24, <1>25, <1>26, <1>27, <1>28, <1>29, <1>30, <1>31 DEF Next, Thread

\* Between select and its turn, a connection only gets more readable.
LEMMA ReadableStep ==
    TypeOK /\ ListenerInv /\ LoopInv /\ SecureInv /\ SocketInv /\ ModeInv /\ ReadableInv
      /\ [Next]_vars => ReadableInv'
<1> SUFFICES ASSUME TypeOK /\ ListenerInv /\ LoopInv /\ SecureInv /\ SocketInv /\ ModeInv
             /\ ReadableInv, [Next]_vars PROVE ReadableInv'
    OBVIOUS
<1> USE ConnsAssumption, NumbersAssumption, ModesAssumption
        DEF TypeOK, ListenerInv, LoopInv, SecureInv, Spoiled, SocketInv, ModeInv,
            ReadableInv, StillReadable, Dead, None,
            netVars, tableVars, orderVars, limitVars, eventVars, threadVars,
            callerVars, worldVars, selfVars
<1>1. CASE Peers
  <2>1. ASSUME NEW c \in Conns, Connect(c) PROVE ReadableInv'
    BY <2>1 DEF Connect
  <2>2. ASSUME NEW c \in Conns, NEW h \in {"good", "bad"}, PeerHello(c, h) PROVE ReadableInv'
    BY <2>2 DEF PeerHello
  <2>3. ASSUME NEW c \in Conns, PeerSends(c) PROVE ReadableInv'
    BY <2>3 DEF PeerSends, MaySend
  <2>4. ASSUME NEW c \in Conns, PeerSendsHalf(c) PROVE ReadableInv'
    BY <2>4 DEF PeerSendsHalf, MaySend
  <2>5. ASSUME NEW c \in Conns, PeerCloses(c) PROVE ReadableInv'
    BY <2>5 DEF PeerCloses
  <2>6. ASSUME NEW c \in Conns, PeerResets(c) PROVE ReadableInv'
    BY <2>6 DEF PeerResets
  <2>7. ASSUME NEW c \in Conns, PeerStopsReading(c) PROVE ReadableInv'
    BY <2>7 DEF PeerStopsReading, MaySend
  <2>8. ASSUME NEW c \in Conns, PeerReads(c) PROVE ReadableInv'
    BY <2>8 DEF PeerReads
  <2> QED
    BY <1>1, <2>1, <2>2, <2>3, <2>4, <2>5, <2>6, <2>7, <2>8 DEF Peers
<1>2. CASE Tick
    BY <1>2 DEF Tick
<1>3. CASE BindFails
    BY <1>3 DEF BindFails
<1>4. CASE OpenListener
    BY <1>4 DEF OpenListener
<1>5. CASE Loop
    BY <1>5 DEF Loop, Crash, Dead
<1>6. CASE SelectReturns
    BY <1>6 DEF SelectReturns, Readable, Dead
<1>7. CASE NothingToAccept
    BY <1>7 DEF NothingToAccept
<1>8. ASSUME NEW c \in Conns, Refuse(c) PROVE ReadableInv'
    BY <1>8 DEF Refuse
<1>9. ASSUME NEW c \in Conns, Accept(c) PROVE ReadableInv'
    BY <1>9 DEF Accept, Register
<1>10. ASSUME NEW c \in Conns, AcceptSecure(c) PROVE ReadableInv'
    BY <1>10 DEF AcceptSecure
<1>11. CASE HandshakeDone
    BY <1>11 DEF HandshakeDone, Register
<1>12. CASE HandshakeFails
    BY <1>12 DEF HandshakeFails, Register
<1>13. CASE HandshakeBreaks
    BY <1>13 DEF HandshakeBreaks, Crash
<1>14. ASSUME NEW c \in Conns, ServeNext(c) PROVE ReadableInv'
    BY <1>14 DEF ServeNext
<1>15. CASE ServeDone
    BY <1>15 DEF ServeDone
<1>16. CASE FarewellEnds
    BY <1>16 DEF FarewellEnds, Drop, AfterClose
<1>17. CASE ForgetRemove
    BY <1>17 DEF ForgetRemove, Crash
<1>18. CASE ReceiveBlocks
    BY <1>18 DEF ReceiveBlocks, Dead
<1>19. CASE ReceiveFrame
    BY <1>19 DEF ReceiveFrame, Dead
<1>20. CASE ReceiveFails
    BY <1>20 DEF ReceiveFails, Forget, Drop, AfterClose, Dead
<1>21. CASE OnDataAnswers
    BY <1>21 DEF OnDataAnswers, Dead
<1>22. CASE AnswerBlocks
    BY <1>22 DEF AnswerBlocks, Dead
<1>23. CASE AnswerEnds
    BY <1>23 DEF AnswerEnds
<1>24. CASE OnDataRaises
    BY <1>24 DEF OnDataRaises, Forget, Drop, AfterClose, Dead
<1>25. ASSUME NEW c \in Conns, SweepOne(c) PROVE ReadableInv'
    BY <1>25 DEF SweepOne, Forget, Drop, AfterClose
<1>26. CASE SweepDone
    BY <1>26 DEF SweepDone
<1>27. CASE Status
    BY <1>27 DEF Status, Crash, Dead, StatusDue
<1>28. ASSUME NEW c \in Conns, CloseOne(c) PROVE ReadableInv'
    BY <1>28 DEF CloseOne, Crash, Dead, AfterClose
<1>29. CASE CloseListener
    BY <1>29 DEF CloseListener
<1>30. CASE Callers
    BY <1>30 DEF Callers, Start, StartReturns, Stop, SetConnectionLimit, AcceptCall, AcceptClear,
            AcceptWait, AcceptPop, First, ResetCall, ResetOne, ResetDone
<1>31. CASE UNCHANGED vars
    BY <1>31 DEF vars
<1> QED
    BY <1>1, <1>2, <1>3, <1>4, <1>5, <1>6, <1>7, <1>8, <1>9, <1>10, <1>11,
       <1>12, <1>13, <1>14, <1>15, <1>16, <1>17, <1>18, <1>19, <1>20, <1>21,
       <1>22, <1>23, <1>24, <1>25, <1>26, <1>27, <1>28, <1>29, <1>30, <1>31 DEF Next, Thread

\* recv() is only entered on a connection that was reported readable.
LEMMA HeldStep ==
    TypeOK /\ ListenerInv /\ LoopInv /\ SecureInv /\ SocketInv /\ ReadableInv /\ HeldOnlyInsideAFrame
      /\ [Next]_vars => HeldOnlyInsideAFrame'
<1> SUFFICES ASSUME TypeOK /\ ListenerInv /\ LoopInv /\ SecureInv /\ SocketInv /\ ReadableInv
             /\ HeldOnlyInsideAFrame, [Next]_vars PROVE HeldOnlyInsideAFrame'
    OBVIOUS
<1> USE ConnsAssumption, NumbersAssumption, ModesAssumption
        DEF TypeOK, ListenerInv, LoopInv, SecureInv, Spoiled, SocketInv, ReadableInv, StillReadable,
            Dead, HeldOnlyInsideAFrame, None,
            netVars, tableVars, orderVars, limitVars, eventVars, threadVars,
            callerVars, worldVars, selfVars
<1>1. CASE Peers
  <2>1. ASSUME NEW c \in Conns, Connect(c) PROVE HeldOnlyInsideAFrame'
    BY <2>1 DEF Connect
  <2>2. ASSUME NEW c \in Conns, NEW h \in {"good", "bad"}, PeerHello(c, h) PROVE HeldOnlyInsideAFrame'
    BY <2>2 DEF PeerHello
  <2>3. ASSUME NEW c \in Conns, PeerSends(c) PROVE HeldOnlyInsideAFrame'
    BY <2>3 DEF PeerSends, MaySend
  <2>4. ASSUME NEW c \in Conns, PeerSendsHalf(c) PROVE HeldOnlyInsideAFrame'
    BY <2>4 DEF PeerSendsHalf, MaySend
  <2>5. ASSUME NEW c \in Conns, PeerCloses(c) PROVE HeldOnlyInsideAFrame'
    BY <2>5 DEF PeerCloses
  <2>6. ASSUME NEW c \in Conns, PeerResets(c) PROVE HeldOnlyInsideAFrame'
    BY <2>6 DEF PeerResets
  <2>7. ASSUME NEW c \in Conns, PeerStopsReading(c) PROVE HeldOnlyInsideAFrame'
    BY <2>7 DEF PeerStopsReading, MaySend
  <2>8. ASSUME NEW c \in Conns, PeerReads(c) PROVE HeldOnlyInsideAFrame'
    BY <2>8 DEF PeerReads
  <2> QED
    BY <1>1, <2>1, <2>2, <2>3, <2>4, <2>5, <2>6, <2>7, <2>8 DEF Peers
<1>2. CASE Tick
    BY <1>2 DEF Tick
<1>3. CASE BindFails
    BY <1>3 DEF BindFails
<1>4. CASE OpenListener
    BY <1>4 DEF OpenListener
<1>5. CASE Loop
    BY <1>5 DEF Loop, Crash, Dead
<1>6. CASE SelectReturns
    BY <1>6 DEF SelectReturns, Readable, Dead
<1>7. CASE NothingToAccept
    BY <1>7 DEF NothingToAccept
<1>8. ASSUME NEW c \in Conns, Refuse(c) PROVE HeldOnlyInsideAFrame'
    BY <1>8 DEF Refuse
<1>9. ASSUME NEW c \in Conns, Accept(c) PROVE HeldOnlyInsideAFrame'
    BY <1>9 DEF Accept, Register
<1>10. ASSUME NEW c \in Conns, AcceptSecure(c) PROVE HeldOnlyInsideAFrame'
    BY <1>10 DEF AcceptSecure
<1>11. CASE HandshakeDone
    BY <1>11 DEF HandshakeDone, Register
<1>12. CASE HandshakeFails
    BY <1>12 DEF HandshakeFails, Register
<1>13. CASE HandshakeBreaks
    BY <1>13 DEF HandshakeBreaks, Crash
<1>14. ASSUME NEW c \in Conns, ServeNext(c) PROVE HeldOnlyInsideAFrame'
    BY <1>14 DEF ServeNext
<1>15. CASE ServeDone
    BY <1>15 DEF ServeDone
<1>16. CASE FarewellEnds
    BY <1>16 DEF FarewellEnds, Drop, AfterClose
<1>17. CASE ForgetRemove
    BY <1>17 DEF ForgetRemove, Crash
<1>18. CASE ReceiveBlocks
    BY <1>18 DEF ReceiveBlocks, Dead
<1>19. CASE ReceiveFrame
    BY <1>19 DEF ReceiveFrame, Dead
<1>20. CASE ReceiveFails
    BY <1>20 DEF ReceiveFails, Forget, Drop, AfterClose, Dead
<1>21. CASE OnDataAnswers
    BY <1>21 DEF OnDataAnswers, Dead
<1>22. CASE AnswerBlocks
    BY <1>22 DEF AnswerBlocks, Dead
<1>23. CASE AnswerEnds
    BY <1>23 DEF AnswerEnds
<1>24. CASE OnDataRaises
    BY <1>24 DEF OnDataRaises, Forget, Drop, AfterClose, Dead
<1>25. ASSUME NEW c \in Conns, SweepOne(c) PROVE HeldOnlyInsideAFrame'
    BY <1>25 DEF SweepOne, Forget, Drop, AfterClose
<1>26. CASE SweepDone
    BY <1>26 DEF SweepDone
<1>27. CASE Status
    BY <1>27 DEF Status, Crash, Dead, StatusDue
<1>28. ASSUME NEW c \in Conns, CloseOne(c) PROVE HeldOnlyInsideAFrame'
    BY <1>28 DEF CloseOne, Crash, Dead, AfterClose
<1>29. CASE CloseListener
    BY <1>29 DEF CloseListener
<1>30. CASE Callers
    BY <1>30 DEF Callers, Start, StartReturns, Stop, SetConnectionLimit, AcceptCall, AcceptClear,
            AcceptWait, AcceptPop, First, ResetCall, ResetOne, ResetDone
<1>31. CASE UNCHANGED vars
    BY <1>31 DEF vars
<1> QED
    BY <1>1, <1>2, <1>3, <1>4, <1>5, <1>6, <1>7, <1>8, <1>9, <1>10, <1>11,
       <1>12, <1>13, <1>14, <1>15, <1>16, <1>17, <1>18, <1>19, <1>20, <1>21,
       <1>22, <1>23, <1>24, <1>25, <1>26, <1>27, <1>28, <1>29, <1>30, <1>31 DEF Next, Thread

\* The read list and the bookkeeping that shadows it fall away together.
LEMMA TablesStep ==
    TypeOK /\ ListenerInv /\ LoopInv /\ SecureInv /\ SocketInv /\ ModeInv
      /\ TablesAgree /\ [Next]_vars => TablesAgree'
<1> SUFFICES ASSUME TypeOK /\ ListenerInv /\ LoopInv /\ SecureInv /\ SocketInv /\ ModeInv
             /\ TablesAgree, [Next]_vars PROVE TablesAgree'
    OBVIOUS
<1> USE ConnsAssumption, NumbersAssumption, ModesAssumption
        DEF TypeOK, ListenerInv, LoopInv, SecureInv, Spoiled, SocketInv,
            ModeInv, TablesAgree, Leaving, None,
            netVars, tableVars, orderVars, limitVars, eventVars, threadVars,
            callerVars, worldVars, selfVars
<1>1. CASE Peers
  <2>1. ASSUME NEW c \in Conns, Connect(c) PROVE TablesAgree'
    BY <2>1 DEF Connect
  <2>2. ASSUME NEW c \in Conns, NEW h \in {"good", "bad"}, PeerHello(c, h) PROVE TablesAgree'
    BY <2>2 DEF PeerHello
  <2>3. ASSUME NEW c \in Conns, PeerSends(c) PROVE TablesAgree'
    BY <2>3 DEF PeerSends, MaySend
  <2>4. ASSUME NEW c \in Conns, PeerSendsHalf(c) PROVE TablesAgree'
    BY <2>4 DEF PeerSendsHalf, MaySend
  <2>5. ASSUME NEW c \in Conns, PeerCloses(c) PROVE TablesAgree'
    BY <2>5 DEF PeerCloses
  <2>6. ASSUME NEW c \in Conns, PeerResets(c) PROVE TablesAgree'
    BY <2>6 DEF PeerResets
  <2>7. ASSUME NEW c \in Conns, PeerStopsReading(c) PROVE TablesAgree'
    BY <2>7 DEF PeerStopsReading, MaySend
  <2>8. ASSUME NEW c \in Conns, PeerReads(c) PROVE TablesAgree'
    BY <2>8 DEF PeerReads
  <2> QED
    BY <1>1, <2>1, <2>2, <2>3, <2>4, <2>5, <2>6, <2>7, <2>8 DEF Peers
<1>2. CASE Tick
    BY <1>2 DEF Tick
<1>3. CASE BindFails
    BY <1>3 DEF BindFails
<1>4. CASE OpenListener
    BY <1>4 DEF OpenListener
<1>5. CASE Loop
    BY <1>5 DEF Loop, Crash, Dead
<1>6. CASE SelectReturns
    BY <1>6 DEF SelectReturns, Readable, Dead
<1>7. CASE NothingToAccept
    BY <1>7 DEF NothingToAccept
<1>8. ASSUME NEW c \in Conns, Refuse(c) PROVE TablesAgree'
    BY <1>8 DEF Refuse
<1>9. ASSUME NEW c \in Conns, Accept(c) PROVE TablesAgree'
    BY <1>9 DEF Accept, Register
<1>10. ASSUME NEW c \in Conns, AcceptSecure(c) PROVE TablesAgree'
    BY <1>10 DEF AcceptSecure
<1>11. CASE HandshakeDone
    BY <1>11 DEF HandshakeDone, Register
<1>12. CASE HandshakeFails
    BY <1>12 DEF HandshakeFails, Register
<1>13. CASE HandshakeBreaks
    BY <1>13 DEF HandshakeBreaks, Crash
<1>14. ASSUME NEW c \in Conns, ServeNext(c) PROVE TablesAgree'
    BY <1>14 DEF ServeNext
<1>15. CASE ServeDone
    BY <1>15 DEF ServeDone
<1>16. CASE FarewellEnds
    BY <1>16 DEF FarewellEnds, Drop, AfterClose
<1>17. CASE ForgetRemove
    BY <1>17 DEF ForgetRemove, Crash
<1>18. CASE ReceiveBlocks
    BY <1>18 DEF ReceiveBlocks, Dead
<1>19. CASE ReceiveFrame
    BY <1>19 DEF ReceiveFrame, Dead
<1>20. CASE ReceiveFails
    BY <1>20 DEF ReceiveFails, Forget, Drop, AfterClose, Dead
<1>21. CASE OnDataAnswers
    BY <1>21 DEF OnDataAnswers, Dead
<1>22. CASE AnswerBlocks
    BY <1>22 DEF AnswerBlocks, Dead
<1>23. CASE AnswerEnds
    BY <1>23 DEF AnswerEnds
<1>24. CASE OnDataRaises
    BY <1>24 DEF OnDataRaises, Forget, Drop, AfterClose, Dead
<1>25. ASSUME NEW c \in Conns, SweepOne(c) PROVE TablesAgree'
    BY <1>25 DEF SweepOne, Forget, Drop, AfterClose
<1>26. CASE SweepDone
    BY <1>26 DEF SweepDone
<1>27. CASE Status
    BY <1>27 DEF Status, Crash, Dead, StatusDue
<1>28. ASSUME NEW c \in Conns, CloseOne(c) PROVE TablesAgree'
    BY <1>28 DEF CloseOne, Crash, Dead, AfterClose
<1>29. CASE CloseListener
    BY <1>29 DEF CloseListener
<1>30. CASE Callers
  <2>1. CASE Start
    BY <2>1 DEF Start
  <2>2. ASSUME NEW r \in {"ok", "ended", "deadline"}, StartReturns(r) PROVE TablesAgree'
    BY <2>2 DEF StartReturns
  <2>3. CASE Stop
    BY <2>3 DEF Stop
  <2>4. ASSUME NEW n \in 0 .. Cardinality(Conns), SetConnectionLimit(n) PROVE TablesAgree'
    BY <2>4 DEF SetConnectionLimit
  <2>5. CASE AcceptCall
    BY <2>5 DEF AcceptCall
  <2>6. CASE AcceptClear
    BY <2>6 DEF AcceptClear
  <2>7. CASE AcceptWait
    BY <2>7 DEF AcceptWait
  <2>8. CASE AcceptPop
    BY <2>8 DEF AcceptPop, First
  <2>9. CASE ResetCall
    BY <2>9 DEF ResetCall
  <2>10. ASSUME NEW c \in Conns, ResetOne(c) PROVE TablesAgree'
    BY <2>10 DEF ResetOne
  <2>11. CASE ResetDone
    BY <2>11 DEF ResetDone
  <2> QED
    BY <1>30, <2>1, <2>2, <2>3, <2>4, <2>5, <2>6, <2>7, <2>8, <2>9, <2>10, <2>11 DEF Callers
<1>31. CASE UNCHANGED vars
    BY <1>31 DEF vars
<1> QED
    BY <1>1, <1>2, <1>3, <1>4, <1>5, <1>6, <1>7, <1>8, <1>9, <1>10, <1>11,
       <1>12, <1>13, <1>14, <1>15, <1>16, <1>17, <1>18, <1>19, <1>20, <1>21,
       <1>22, <1>23, <1>24, <1>25, <1>26, <1>27, <1>28, <1>29, <1>30, <1>31 DEF Next, Thread

\* _accept registers what it accepts; forget() closes what it removes.
LEMMA OpenStep ==
    TypeOK /\ ListenerInv /\ LoopInv /\ SecureInv /\ OpenIsTracked
      /\ [Next]_vars => OpenIsTracked'
<1> SUFFICES ASSUME TypeOK /\ ListenerInv /\ LoopInv /\ SecureInv /\ OpenIsTracked, [Next]_vars
             PROVE OpenIsTracked'
    OBVIOUS
<1> USE ConnsAssumption, NumbersAssumption, ModesAssumption
        DEF TypeOK, ListenerInv, LoopInv, SecureInv, Spoiled, OpenIsTracked,
            None,
            netVars, tableVars, orderVars, limitVars, eventVars, threadVars,
            callerVars, worldVars, selfVars
<1>1. CASE Peers
  <2>1. ASSUME NEW c \in Conns, Connect(c) PROVE OpenIsTracked'
    BY <2>1 DEF Connect
  <2>2. ASSUME NEW c \in Conns, NEW h \in {"good", "bad"}, PeerHello(c, h) PROVE OpenIsTracked'
    BY <2>2 DEF PeerHello
  <2>3. ASSUME NEW c \in Conns, PeerSends(c) PROVE OpenIsTracked'
    BY <2>3 DEF PeerSends, MaySend
  <2>4. ASSUME NEW c \in Conns, PeerSendsHalf(c) PROVE OpenIsTracked'
    BY <2>4 DEF PeerSendsHalf, MaySend
  <2>5. ASSUME NEW c \in Conns, PeerCloses(c) PROVE OpenIsTracked'
    BY <2>5 DEF PeerCloses
  <2>6. ASSUME NEW c \in Conns, PeerResets(c) PROVE OpenIsTracked'
    BY <2>6 DEF PeerResets
  <2>7. ASSUME NEW c \in Conns, PeerStopsReading(c) PROVE OpenIsTracked'
    BY <2>7 DEF PeerStopsReading, MaySend
  <2>8. ASSUME NEW c \in Conns, PeerReads(c) PROVE OpenIsTracked'
    BY <2>8 DEF PeerReads
  <2> QED
    BY <1>1, <2>1, <2>2, <2>3, <2>4, <2>5, <2>6, <2>7, <2>8 DEF Peers
<1>2. CASE Tick
    BY <1>2 DEF Tick
<1>3. CASE BindFails
    BY <1>3 DEF BindFails
<1>4. CASE OpenListener
    BY <1>4 DEF OpenListener
<1>5. CASE Loop
    BY <1>5 DEF Loop, Crash, Dead
<1>6. CASE SelectReturns
    BY <1>6 DEF SelectReturns, Readable, Dead
<1>7. CASE NothingToAccept
    BY <1>7 DEF NothingToAccept
<1>8. ASSUME NEW c \in Conns, Refuse(c) PROVE OpenIsTracked'
    BY <1>8 DEF Refuse
<1>9. ASSUME NEW c \in Conns, Accept(c) PROVE OpenIsTracked'
    BY <1>9 DEF Accept, Register
<1>10. ASSUME NEW c \in Conns, AcceptSecure(c) PROVE OpenIsTracked'
    BY <1>10 DEF AcceptSecure
<1>11. CASE HandshakeDone
    BY <1>11 DEF HandshakeDone, Register
<1>12. CASE HandshakeFails
    BY <1>12 DEF HandshakeFails, Register
<1>13. CASE HandshakeBreaks
    BY <1>13 DEF HandshakeBreaks, Crash
<1>14. ASSUME NEW c \in Conns, ServeNext(c) PROVE OpenIsTracked'
    BY <1>14 DEF ServeNext
<1>15. CASE ServeDone
    BY <1>15 DEF ServeDone
<1>16. CASE FarewellEnds
    BY <1>16 DEF FarewellEnds, Drop, AfterClose
<1>17. CASE ForgetRemove
    BY <1>17 DEF ForgetRemove, Crash
<1>18. CASE ReceiveBlocks
    BY <1>18 DEF ReceiveBlocks, Dead
<1>19. CASE ReceiveFrame
    BY <1>19 DEF ReceiveFrame, Dead
<1>20. CASE ReceiveFails
    BY <1>20 DEF ReceiveFails, Forget, Drop, AfterClose, Dead
<1>21. CASE OnDataAnswers
    BY <1>21 DEF OnDataAnswers, Dead
<1>22. CASE AnswerBlocks
    BY <1>22 DEF AnswerBlocks, Dead
<1>23. CASE AnswerEnds
    BY <1>23 DEF AnswerEnds
<1>24. CASE OnDataRaises
    BY <1>24 DEF OnDataRaises, Forget, Drop, AfterClose, Dead
<1>25. ASSUME NEW c \in Conns, SweepOne(c) PROVE OpenIsTracked'
    BY <1>25 DEF SweepOne, Forget, Drop, AfterClose
<1>26. CASE SweepDone
    BY <1>26 DEF SweepDone
<1>27. CASE Status
    BY <1>27 DEF Status, Crash, Dead, StatusDue
<1>28. ASSUME NEW c \in Conns, CloseOne(c) PROVE OpenIsTracked'
    BY <1>28 DEF CloseOne, Crash, Dead, AfterClose
<1>29. CASE CloseListener
    BY <1>29 DEF CloseListener
<1>30. CASE Callers
  <2>1. CASE Start
    BY <2>1 DEF Start
  <2>2. ASSUME NEW r \in {"ok", "ended", "deadline"}, StartReturns(r) PROVE OpenIsTracked'
    BY <2>2 DEF StartReturns
  <2>3. CASE Stop
    BY <2>3 DEF Stop
  <2>4. ASSUME NEW n \in 0 .. Cardinality(Conns), SetConnectionLimit(n) PROVE OpenIsTracked'
    BY <2>4 DEF SetConnectionLimit
  <2>5. CASE AcceptCall
    BY <2>5 DEF AcceptCall
  <2>6. CASE AcceptClear
    BY <2>6 DEF AcceptClear
  <2>7. CASE AcceptWait
    BY <2>7 DEF AcceptWait
  <2>8. CASE AcceptPop
    BY <2>8 DEF AcceptPop, First
  <2>9. CASE ResetCall
    BY <2>9 DEF ResetCall
  <2>10. ASSUME NEW c \in Conns, ResetOne(c) PROVE OpenIsTracked'
    BY <2>10 DEF ResetOne
  <2>11. CASE ResetDone
    BY <2>11 DEF ResetDone
  <2> QED
    BY <1>30, <2>1, <2>2, <2>3, <2>4, <2>5, <2>6, <2>7, <2>8, <2>9, <2>10, <2>11 DEF Callers
<1>31. CASE UNCHANGED vars
    BY <1>31 DEF vars
<1> QED
    BY <1>1, <1>2, <1>3, <1>4, <1>5, <1>6, <1>7, <1>8, <1>9, <1>10, <1>11,
       <1>12, <1>13, <1>14, <1>15, <1>16, <1>17, <1>18, <1>19, <1>20, <1>21,
       <1>22, <1>23, <1>24, <1>25, <1>26, <1>27, <1>28, <1>29, <1>30, <1>31 DEF Next, Thread

\* _close_listener has come to every open socket before run() returns.
LEMMA EndsStep ==
    TypeOK /\ ListenerInv /\ SecureInv /\ SocketInv /\ OpenIsTracked
      /\ EndsClean /\ [Next]_vars => EndsClean'
<1> SUFFICES ASSUME TypeOK /\ ListenerInv /\ SecureInv /\ SocketInv /\ OpenIsTracked
             /\ EndsClean, [Next]_vars PROVE EndsClean'
    OBVIOUS
<1> USE ConnsAssumption, NumbersAssumption, ModesAssumption
        DEF TypeOK, ListenerInv, SecureInv, Spoiled, SocketInv, OpenIsTracked,
            EndsClean, None,
            netVars, tableVars, orderVars, limitVars, eventVars, threadVars,
            callerVars, worldVars, selfVars
<1>1. CASE Peers
    BY <1>1 DEF Peers, Connect, PeerHello, MaySend, PeerSends, PeerSendsHalf, PeerCloses, PeerResets,
                PeerStopsReading, PeerReads
<1>2. CASE Tick
    BY <1>2 DEF Tick
<1>3. CASE BindFails
    BY <1>3 DEF BindFails
<1>4. CASE OpenListener
    BY <1>4 DEF OpenListener
<1>5. CASE Loop
    BY <1>5 DEF Loop, Crash, Dead
<1>6. CASE SelectReturns
    BY <1>6 DEF SelectReturns, Readable, Dead
<1>7. CASE NothingToAccept
    BY <1>7 DEF NothingToAccept
<1>8. ASSUME NEW c \in Conns, Refuse(c) PROVE EndsClean'
    BY <1>8 DEF Refuse
<1>9. ASSUME NEW c \in Conns, Accept(c) PROVE EndsClean'
    BY <1>9 DEF Accept, Register
<1>10. ASSUME NEW c \in Conns, AcceptSecure(c) PROVE EndsClean'
    BY <1>10 DEF AcceptSecure
<1>11. CASE HandshakeDone
    BY <1>11 DEF HandshakeDone, Register
<1>12. CASE HandshakeFails
    BY <1>12 DEF HandshakeFails, Register
<1>13. CASE HandshakeBreaks
    BY <1>13 DEF HandshakeBreaks, Crash
<1>14. ASSUME NEW c \in Conns, ServeNext(c) PROVE EndsClean'
    BY <1>14 DEF ServeNext
<1>15. CASE ServeDone
    BY <1>15 DEF ServeDone
<1>16. CASE FarewellEnds
    BY <1>16 DEF FarewellEnds, Drop, AfterClose
<1>17. CASE ForgetRemove
    BY <1>17 DEF ForgetRemove, Crash
<1>18. CASE ReceiveBlocks
    BY <1>18 DEF ReceiveBlocks, Dead
<1>19. CASE ReceiveFrame
    BY <1>19 DEF ReceiveFrame, Dead
<1>20. CASE ReceiveFails
    BY <1>20 DEF ReceiveFails, Forget, Drop, AfterClose, Dead
<1>21. CASE OnDataAnswers
    BY <1>21 DEF OnDataAnswers, Dead
<1>22. CASE AnswerBlocks
    BY <1>22 DEF AnswerBlocks, Dead
<1>23. CASE AnswerEnds
    BY <1>23 DEF AnswerEnds
<1>24. CASE OnDataRaises
    BY <1>24 DEF OnDataRaises, Forget, Drop, AfterClose, Dead
<1>25. ASSUME NEW c \in Conns, SweepOne(c) PROVE EndsClean'
    BY <1>25 DEF SweepOne, Forget, Drop, AfterClose
<1>26. CASE SweepDone
    BY <1>26 DEF SweepDone
<1>27. CASE Status
    BY <1>27 DEF Status, Crash, Dead, StatusDue
<1>28. ASSUME NEW c \in Conns, CloseOne(c) PROVE EndsClean'
    BY <1>28 DEF CloseOne, Crash, Dead, AfterClose
<1>29. CASE CloseListener
    BY <1>29 DEF CloseListener
<1>30. CASE Callers
    BY <1>30 DEF Callers, Start, StartReturns, Stop, SetConnectionLimit, AcceptCall, AcceptClear,
            AcceptWait, AcceptPop, First, ResetCall, ResetOne, ResetDone
<1>31. CASE UNCHANGED vars
    BY <1>31 DEF vars
<1> QED
    BY <1>1, <1>2, <1>3, <1>4, <1>5, <1>6, <1>7, <1>8, <1>9, <1>10, <1>11,
       <1>12, <1>13, <1>14, <1>15, <1>16, <1>17, <1>18, <1>19, <1>20, <1>21,
       <1>22, <1>23, <1>24, <1>25, <1>26, <1>27, <1>28, <1>29, <1>30, <1>31 DEF Next, Thread

\* select, get_peers() and getsockname() only raise on a socket that was reset,
\* and list.remove in forget() only where reset() replaced the list.
LEMMA CrashStep ==
    TypeOK /\ LoopInv /\ SecureInv /\ SocketInv /\ ResetInv /\ CrashHasCause
      /\ [Next]_vars => CrashHasCause'
<1> SUFFICES ASSUME TypeOK /\ LoopInv /\ SecureInv /\ SocketInv /\ ResetInv
             /\ CrashHasCause, [Next]_vars PROVE CrashHasCause'
    OBVIOUS
<1> USE ConnsAssumption, NumbersAssumption, ModesAssumption
        DEF TypeOK, LoopInv, SecureInv, Spoiled, SocketInv, ResetInv,
            CrashHasCause, None,
            netVars, tableVars, orderVars, limitVars, eventVars, threadVars,
            callerVars, worldVars, selfVars
<1>1. CASE Peers
    BY <1>1 DEF Peers, Connect, PeerHello, MaySend, PeerSends, PeerSendsHalf, PeerCloses, PeerResets,
                PeerStopsReading, PeerReads
<1>2. CASE Tick
    BY <1>2 DEF Tick
<1>3. CASE BindFails
    BY <1>3 DEF BindFails
<1>4. CASE OpenListener
    BY <1>4 DEF OpenListener
<1>5. CASE Loop
    BY <1>5 DEF Loop, Crash, Dead
<1>6. CASE SelectReturns
    BY <1>6 DEF SelectReturns, Readable, Dead
<1>7. CASE NothingToAccept
    BY <1>7 DEF NothingToAccept
<1>8. ASSUME NEW c \in Conns, Refuse(c) PROVE CrashHasCause'
    BY <1>8 DEF Refuse
<1>9. ASSUME NEW c \in Conns, Accept(c) PROVE CrashHasCause'
    BY <1>9 DEF Accept, Register
<1>10. ASSUME NEW c \in Conns, AcceptSecure(c) PROVE CrashHasCause'
    BY <1>10 DEF AcceptSecure
<1>11. CASE HandshakeDone
    BY <1>11 DEF HandshakeDone, Register
<1>12. CASE HandshakeFails
    BY <1>12 DEF HandshakeFails, Register
<1>13. CASE HandshakeBreaks
    BY <1>13 DEF HandshakeBreaks, Crash
<1>14. ASSUME NEW c \in Conns, ServeNext(c) PROVE CrashHasCause'
    BY <1>14 DEF ServeNext
<1>15. CASE ServeDone
    BY <1>15 DEF ServeDone
<1>16. CASE FarewellEnds
    BY <1>16 DEF FarewellEnds, Drop, AfterClose
<1>17. CASE ForgetRemove
    BY <1>17 DEF ForgetRemove, Crash
<1>18. CASE ReceiveBlocks
    BY <1>18 DEF ReceiveBlocks, Dead
<1>19. CASE ReceiveFrame
    BY <1>19 DEF ReceiveFrame, Dead
<1>20. CASE ReceiveFails
    BY <1>20 DEF ReceiveFails, Forget, Drop, AfterClose, Dead
<1>21. CASE OnDataAnswers
    BY <1>21 DEF OnDataAnswers, Dead
<1>22. CASE AnswerBlocks
    BY <1>22 DEF AnswerBlocks, Dead
<1>23. CASE AnswerEnds
    BY <1>23 DEF AnswerEnds
<1>24. CASE OnDataRaises
    BY <1>24 DEF OnDataRaises, Forget, Drop, AfterClose, Dead
<1>25. ASSUME NEW c \in Conns, SweepOne(c) PROVE CrashHasCause'
    BY <1>25 DEF SweepOne, Forget, Drop, AfterClose
<1>26. CASE SweepDone
    BY <1>26 DEF SweepDone
<1>27. CASE Status
    BY <1>27 DEF Status, Crash, Dead, StatusDue
<1>28. ASSUME NEW c \in Conns, CloseOne(c) PROVE CrashHasCause'
    BY <1>28 DEF CloseOne, Crash, Dead, AfterClose
<1>29. CASE CloseListener
    BY <1>29 DEF CloseListener
<1>30. CASE Callers
    BY <1>30 DEF Callers, Start, StartReturns, Stop, SetConnectionLimit, AcceptCall, AcceptClear,
            AcceptWait, AcceptPop, First, ResetCall, ResetOne, ResetDone
<1>31. CASE UNCHANGED vars
    BY <1>31 DEF vars
<1> QED
    BY <1>1, <1>2, <1>3, <1>4, <1>5, <1>6, <1>7, <1>8, <1>9, <1>10, <1>11,
       <1>12, <1>13, <1>14, <1>15, <1>16, <1>17, <1>18, <1>19, <1>20, <1>21,
       <1>22, <1>23, <1>24, <1>25, <1>26, <1>27, <1>28, <1>29, <1>30, <1>31 DEF Next, Thread

\* accept() takes a connection off the live list as it hands it out.
LEMMA OwnerStep ==
    TypeOK /\ ListenerInv /\ SecureInv /\ SocketInv /\ ModeInv /\ OneOwner
      /\ [Next]_vars => OneOwner'
<1> SUFFICES ASSUME TypeOK /\ ListenerInv /\ SecureInv /\ SocketInv /\ ModeInv
             /\ OneOwner, [Next]_vars PROVE OneOwner'
    OBVIOUS
<1> USE ConnsAssumption, NumbersAssumption, ModesAssumption
        DEF TypeOK, ListenerInv, SecureInv, Spoiled, SocketInv, ModeInv,
            OneOwner, None,
            netVars, tableVars, orderVars, limitVars, eventVars, threadVars,
            callerVars, worldVars, selfVars
<1>1. CASE Peers
    BY <1>1 DEF Peers, Connect, PeerHello, MaySend, PeerSends, PeerSendsHalf, PeerCloses, PeerResets,
                PeerStopsReading, PeerReads
<1>2. CASE Tick
    BY <1>2 DEF Tick
<1>3. CASE BindFails
    BY <1>3 DEF BindFails
<1>4. CASE OpenListener
    BY <1>4 DEF OpenListener
<1>5. CASE Loop
    BY <1>5 DEF Loop, Crash, Dead
<1>6. CASE SelectReturns
    BY <1>6 DEF SelectReturns, Readable, Dead
<1>7. CASE NothingToAccept
    BY <1>7 DEF NothingToAccept
<1>8. ASSUME NEW c \in Conns, Refuse(c) PROVE OneOwner'
    BY <1>8 DEF Refuse
<1>9. ASSUME NEW c \in Conns, Accept(c) PROVE OneOwner'
    BY <1>9 DEF Accept, Register
<1>10. ASSUME NEW c \in Conns, AcceptSecure(c) PROVE OneOwner'
    BY <1>10 DEF AcceptSecure
<1>11. CASE HandshakeDone
    BY <1>11 DEF HandshakeDone, Register
<1>12. CASE HandshakeFails
    BY <1>12 DEF HandshakeFails, Register
<1>13. CASE HandshakeBreaks
    BY <1>13 DEF HandshakeBreaks, Crash
<1>14. ASSUME NEW c \in Conns, ServeNext(c) PROVE OneOwner'
    BY <1>14 DEF ServeNext
<1>15. CASE ServeDone
    BY <1>15 DEF ServeDone
<1>16. CASE FarewellEnds
    BY <1>16 DEF FarewellEnds, Drop, AfterClose
<1>17. CASE ForgetRemove
    BY <1>17 DEF ForgetRemove, Crash
<1>18. CASE ReceiveBlocks
    BY <1>18 DEF ReceiveBlocks, Dead
<1>19. CASE ReceiveFrame
    BY <1>19 DEF ReceiveFrame, Dead
<1>20. CASE ReceiveFails
    BY <1>20 DEF ReceiveFails, Forget, Drop, AfterClose, Dead
<1>21. CASE OnDataAnswers
    BY <1>21 DEF OnDataAnswers, Dead
<1>22. CASE AnswerBlocks
    BY <1>22 DEF AnswerBlocks, Dead
<1>23. CASE AnswerEnds
    BY <1>23 DEF AnswerEnds
<1>24. CASE OnDataRaises
    BY <1>24 DEF OnDataRaises, Forget, Drop, AfterClose, Dead
<1>25. ASSUME NEW c \in Conns, SweepOne(c) PROVE OneOwner'
    BY <1>25 DEF SweepOne, Forget, Drop, AfterClose
<1>26. CASE SweepDone
    BY <1>26 DEF SweepDone
<1>27. CASE Status
    BY <1>27 DEF Status, Crash, Dead, StatusDue
<1>28. ASSUME NEW c \in Conns, CloseOne(c) PROVE OneOwner'
    BY <1>28 DEF CloseOne, Crash, Dead, AfterClose
<1>29. CASE CloseListener
    BY <1>29 DEF CloseListener
<1>30. CASE Callers
    BY <1>30 DEF Callers, Start, StartReturns, Stop, SetConnectionLimit, AcceptCall, AcceptClear,
            AcceptWait, AcceptPop, First, ResetCall, ResetOne, ResetDone
<1>31. CASE UNCHANGED vars
    BY <1>31 DEF vars
<1> QED
    BY <1>1, <1>2, <1>3, <1>4, <1>5, <1>6, <1>7, <1>8, <1>9, <1>10, <1>11,
       <1>12, <1>13, <1>14, <1>15, <1>16, <1>17, <1>18, <1>19, <1>20, <1>21,
       <1>22, <1>23, <1>24, <1>25, <1>26, <1>27, <1>28, <1>29, <1>30, <1>31 DEF Next, Thread

\* accept() takes the first connection of the live list.
LEMMA HandedStep ==
    TypeOK /\ SecureInv /\ StampInv /\ SocketInv /\ OneOwner /\ HandedInOrder
      /\ [Next]_vars => HandedInOrder'
<1> SUFFICES ASSUME TypeOK /\ SecureInv /\ StampInv /\ SocketInv /\ OneOwner
             /\ HandedInOrder, [Next]_vars PROVE HandedInOrder'
    OBVIOUS
<1> USE ConnsAssumption, NumbersAssumption, ModesAssumption
        DEF TypeOK, SecureInv, Spoiled, StampInv, SocketInv, OneOwner,
            HandedInOrder, None,
            netVars, tableVars, orderVars, limitVars, eventVars, threadVars,
            callerVars, worldVars, selfVars
<1>1. CASE Peers
    BY <1>1 DEF Peers, Connect, PeerHello, MaySend, PeerSends, PeerSendsHalf, PeerCloses, PeerResets,
                PeerStopsReading, PeerReads
<1>2. CASE Tick
    BY <1>2 DEF Tick
<1>3. CASE BindFails
    BY <1>3 DEF BindFails
<1>4. CASE OpenListener
    BY <1>4 DEF OpenListener
<1>5. CASE Loop
    BY <1>5 DEF Loop, Crash, Dead
<1>6. CASE SelectReturns
    BY <1>6 DEF SelectReturns, Readable, Dead
<1>7. CASE NothingToAccept
    BY <1>7 DEF NothingToAccept
<1>8. ASSUME NEW c \in Conns, Refuse(c) PROVE HandedInOrder'
    BY <1>8 DEF Refuse
<1>9. ASSUME NEW c \in Conns, Accept(c) PROVE HandedInOrder'
    BY <1>9 DEF Accept, Register
<1>10. ASSUME NEW c \in Conns, AcceptSecure(c) PROVE HandedInOrder'
    BY <1>10 DEF AcceptSecure
<1>11. CASE HandshakeDone
    BY <1>11 DEF HandshakeDone, Register
<1>12. CASE HandshakeFails
    BY <1>12 DEF HandshakeFails, Register
<1>13. CASE HandshakeBreaks
    BY <1>13 DEF HandshakeBreaks, Crash
<1>14. ASSUME NEW c \in Conns, ServeNext(c) PROVE HandedInOrder'
    BY <1>14 DEF ServeNext
<1>15. CASE ServeDone
    BY <1>15 DEF ServeDone
<1>16. CASE FarewellEnds
    BY <1>16 DEF FarewellEnds, Drop, AfterClose
<1>17. CASE ForgetRemove
    BY <1>17 DEF ForgetRemove, Crash
<1>18. CASE ReceiveBlocks
    BY <1>18 DEF ReceiveBlocks, Dead
<1>19. CASE ReceiveFrame
    BY <1>19 DEF ReceiveFrame, Dead
<1>20. CASE ReceiveFails
    BY <1>20 DEF ReceiveFails, Forget, Drop, AfterClose, Dead
<1>21. CASE OnDataAnswers
    BY <1>21 DEF OnDataAnswers, Dead
<1>22. CASE AnswerBlocks
    BY <1>22 DEF AnswerBlocks, Dead
<1>23. CASE AnswerEnds
    BY <1>23 DEF AnswerEnds
<1>24. CASE OnDataRaises
    BY <1>24 DEF OnDataRaises, Forget, Drop, AfterClose, Dead
<1>25. ASSUME NEW c \in Conns, SweepOne(c) PROVE HandedInOrder'
    BY <1>25 DEF SweepOne, Forget, Drop, AfterClose
<1>26. CASE SweepDone
    BY <1>26 DEF SweepDone
<1>27. CASE Status
    BY <1>27 DEF Status, Crash, Dead, StatusDue
<1>28. ASSUME NEW c \in Conns, CloseOne(c) PROVE HandedInOrder'
    BY <1>28 DEF CloseOne, Crash, Dead, AfterClose
<1>29. CASE CloseListener
    BY <1>29 DEF CloseListener
<1>30. CASE Callers
    BY <1>30 DEF Callers, Start, StartReturns, Stop, SetConnectionLimit, AcceptCall, AcceptClear,
            AcceptWait, AcceptPop, First, ResetCall, ResetOne, ResetDone
<1>31. CASE UNCHANGED vars
    BY <1>31 DEF vars
<1> QED
    BY <1>1, <1>2, <1>3, <1>4, <1>5, <1>6, <1>7, <1>8, <1>9, <1>10, <1>11,
       <1>12, <1>13, <1>14, <1>15, <1>16, <1>17, <1>18, <1>19, <1>20, <1>21,
       <1>22, <1>23, <1>24, <1>25, <1>26, <1>27, <1>28, <1>29, <1>30, <1>31 DEF Next, Thread

\* Without half-sent frames, a pass serves whatever arrived before it began ahead
\* of sweeping.
LEMMA ActivityStep ==
    "half" \notin PeerMay /\ ~Secure /\ TypeOK /\ ListenerInv /\ LoopInv
      /\ SecureInv /\ SocketInv /\ ModeInv /\ TablesAgree /\ ActivityInv
      /\ [Next]_vars => ActivityInv'
<1> SUFFICES ASSUME "half" \notin PeerMay /\ ~Secure /\ TypeOK /\ ListenerInv /\ LoopInv
             /\ SecureInv /\ SocketInv /\ ModeInv /\ TablesAgree
             /\ ActivityInv, [Next]_vars PROVE ActivityInv'
    OBVIOUS
<1> USE ConnsAssumption, NumbersAssumption, ModesAssumption
        DEF TypeOK, ListenerInv, LoopInv, SecureInv, Spoiled, SocketInv,
            ModeInv, TablesAgree, Leaving, ActivityInv, Unread, InPass, Dead,
            None,
            netVars, tableVars, orderVars, limitVars, eventVars, threadVars,
            callerVars, worldVars, selfVars
<1>1. CASE Peers
    BY <1>1 DEF Peers, Connect, PeerHello, MaySend, PeerSends, PeerSendsHalf, PeerCloses, PeerResets,
                PeerStopsReading, PeerReads
<1>2. CASE Tick
    BY <1>2 DEF Tick
<1>3. CASE BindFails
    BY <1>3 DEF BindFails
<1>4. CASE OpenListener
    BY <1>4 DEF OpenListener
<1>5. CASE Loop
    BY <1>5 DEF Loop, Crash, Dead
<1>6. CASE SelectReturns
    BY <1>6 DEF SelectReturns, Readable, Dead
<1>7. CASE NothingToAccept
    BY <1>7 DEF NothingToAccept
<1>8. ASSUME NEW c \in Conns, Refuse(c) PROVE ActivityInv'
    BY <1>8 DEF Refuse
<1>9. ASSUME NEW c \in Conns, Accept(c) PROVE ActivityInv'
    BY <1>9 DEF Accept, Register
<1>10. ASSUME NEW c \in Conns, AcceptSecure(c) PROVE ActivityInv'
    BY <1>10 DEF AcceptSecure
<1>11. CASE HandshakeDone
    BY <1>11 DEF HandshakeDone, Register
<1>12. CASE HandshakeFails
    BY <1>12 DEF HandshakeFails, Register
<1>13. CASE HandshakeBreaks
    BY <1>13 DEF HandshakeBreaks, Crash
<1>14. ASSUME NEW c \in Conns, ServeNext(c) PROVE ActivityInv'
    BY <1>14 DEF ServeNext
<1>15. CASE ServeDone
    BY <1>15 DEF ServeDone
<1>16. CASE FarewellEnds
    BY <1>16 DEF FarewellEnds, Drop, AfterClose
<1>17. CASE ForgetRemove
    BY <1>17 DEF ForgetRemove, Crash
<1>18. CASE ReceiveBlocks
    BY <1>18 DEF ReceiveBlocks, Dead
<1>19. CASE ReceiveFrame
    BY <1>19 DEF ReceiveFrame, Dead
<1>20. CASE ReceiveFails
    BY <1>20 DEF ReceiveFails, Forget, Drop, AfterClose, Dead
<1>21. CASE OnDataAnswers
    BY <1>21 DEF OnDataAnswers, Dead
<1>22. CASE AnswerBlocks
    BY <1>22 DEF AnswerBlocks, Dead
<1>23. CASE AnswerEnds
    BY <1>23 DEF AnswerEnds
<1>24. CASE OnDataRaises
    BY <1>24 DEF OnDataRaises, Forget, Drop, AfterClose, Dead
<1>25. ASSUME NEW c \in Conns, SweepOne(c) PROVE ActivityInv'
    BY <1>25 DEF SweepOne, Forget, Drop, AfterClose
<1>26. CASE SweepDone
    BY <1>26 DEF SweepDone
<1>27. CASE Status
    BY <1>27 DEF Status, Crash, Dead, StatusDue
<1>28. ASSUME NEW c \in Conns, CloseOne(c) PROVE ActivityInv'
    BY <1>28 DEF CloseOne, Crash, Dead, AfterClose
<1>29. CASE CloseListener
    BY <1>29 DEF CloseListener
<1>30. CASE Callers
    BY <1>30 DEF Callers, Start, StartReturns, Stop, SetConnectionLimit, AcceptCall, AcceptClear,
            AcceptWait, AcceptPop, First, ResetCall, ResetOne, ResetDone
<1>31. CASE UNCHANGED vars
    BY <1>31 DEF vars
<1> QED
    BY <1>1, <1>2, <1>3, <1>4, <1>5, <1>6, <1>7, <1>8, <1>9, <1>10, <1>11,
       <1>12, <1>13, <1>14, <1>15, <1>16, <1>17, <1>18, <1>19, <1>20, <1>21,
       <1>22, <1>23, <1>24, <1>25, <1>26, <1>27, <1>28, <1>29, <1>30, <1>31 DEF Next, Thread

\* What select reported is read before the sweep, and stamped with its pass.
LEMMA ReadFirstStep ==
    TypeOK /\ ListenerInv /\ LoopInv /\ SecureInv /\ SocketInv /\ ModeInv
      /\ TablesAgree /\ ReadFirstInv /\ [Next]_vars => ReadFirstInv'
<1> SUFFICES ASSUME TypeOK /\ ListenerInv /\ LoopInv /\ SecureInv /\ SocketInv /\ ModeInv /\ TablesAgree
             /\ ReadFirstInv, [Next]_vars PROVE ReadFirstInv'
    OBVIOUS
<1> USE ConnsAssumption, NumbersAssumption, ModesAssumption
        DEF TypeOK, ListenerInv, LoopInv, SecureInv, Spoiled, SocketInv,
            ModeInv, TablesAgree, Leaving, ReadFirstInv, Waiting, Passing, Dead,
            None,
            netVars, tableVars, orderVars, limitVars, eventVars, threadVars,
            callerVars, worldVars, selfVars
<1>1. CASE Peers
    BY <1>1 DEF Peers, Connect, PeerHello, MaySend, PeerSends, PeerSendsHalf, PeerCloses, PeerResets,
                PeerStopsReading, PeerReads
<1>2. CASE Tick
    BY <1>2 DEF Tick
<1>3. CASE BindFails
    BY <1>3 DEF BindFails
<1>4. CASE OpenListener
    BY <1>4 DEF OpenListener
<1>5. CASE Loop
    BY <1>5 DEF Loop, Crash, Dead
<1>6. CASE SelectReturns
    BY <1>6 DEF SelectReturns, Readable, Dead
<1>7. CASE NothingToAccept
    BY <1>7 DEF NothingToAccept
<1>8. ASSUME NEW c \in Conns, Refuse(c) PROVE ReadFirstInv'
    BY <1>8 DEF Refuse
<1>9. ASSUME NEW c \in Conns, Accept(c) PROVE ReadFirstInv'
    BY <1>9 DEF Accept, Register
<1>10. ASSUME NEW c \in Conns, AcceptSecure(c) PROVE ReadFirstInv'
    BY <1>10 DEF AcceptSecure
<1>11. CASE HandshakeDone
    BY <1>11 DEF HandshakeDone, Register
<1>12. CASE HandshakeFails
    BY <1>12 DEF HandshakeFails, Register
<1>13. CASE HandshakeBreaks
    BY <1>13 DEF HandshakeBreaks, Crash
<1>14. ASSUME NEW c \in Conns, ServeNext(c) PROVE ReadFirstInv'
    BY <1>14 DEF ServeNext
<1>15. CASE ServeDone
    BY <1>15 DEF ServeDone
<1>16. CASE FarewellEnds
    BY <1>16 DEF FarewellEnds, Drop, AfterClose
<1>17. CASE ForgetRemove
    BY <1>17 DEF ForgetRemove, Crash
<1>18. CASE ReceiveBlocks
    BY <1>18 DEF ReceiveBlocks, Dead
<1>19. CASE ReceiveFrame
    BY <1>19 DEF ReceiveFrame, Dead
<1>20. CASE ReceiveFails
    BY <1>20 DEF ReceiveFails, Forget, Drop, AfterClose, Dead
<1>21. CASE OnDataAnswers
    BY <1>21 DEF OnDataAnswers, Dead
<1>22. CASE AnswerBlocks
    BY <1>22 DEF AnswerBlocks, Dead
<1>23. CASE AnswerEnds
    BY <1>23 DEF AnswerEnds
<1>24. CASE OnDataRaises
    BY <1>24 DEF OnDataRaises, Forget, Drop, AfterClose, Dead
<1>25. ASSUME NEW c \in Conns, SweepOne(c) PROVE ReadFirstInv'
    BY <1>25 DEF SweepOne, Forget, Drop, AfterClose
<1>26. CASE SweepDone
    BY <1>26 DEF SweepDone
<1>27. CASE Status
    BY <1>27 DEF Status, Crash, Dead, StatusDue
<1>28. ASSUME NEW c \in Conns, CloseOne(c) PROVE ReadFirstInv'
    BY <1>28 DEF CloseOne, Crash, Dead, AfterClose
<1>29. CASE CloseListener
    BY <1>29 DEF CloseListener
<1>30. CASE Callers
    BY <1>30 DEF Callers, Start, StartReturns, Stop, SetConnectionLimit, AcceptCall, AcceptClear,
            AcceptWait, AcceptPop, First, ResetCall, ResetOne, ResetDone
<1>31. CASE UNCHANGED vars
    BY <1>31 DEF vars
<1> QED
    BY <1>1, <1>2, <1>3, <1>4, <1>5, <1>6, <1>7, <1>8, <1>9, <1>10, <1>11,
       <1>12, <1>13, <1>14, <1>15, <1>16, <1>17, <1>18, <1>19, <1>20, <1>21,
       <1>22, <1>23, <1>24, <1>25, <1>26, <1>27, <1>28, <1>29, <1>30, <1>31 DEF Next, Thread

\* Refusing at the limit keeps the read list within the largest limit set.
LEMMA LimitStep ==
    TypeOK /\ SecureInv /\ LimitInv /\ WithinLimit /\ [Next]_vars
      => (LimitInv /\ WithinLimit)'
<1> SUFFICES ASSUME TypeOK, SecureInv, LimitInv, WithinLimit, [Next]_vars
             PROVE  (LimitInv /\ WithinLimit)'
    OBVIOUS
<1> USE ConnsAssumption, NumbersAssumption DEF TypeOK, LimitInv, WithinLimit,
        netVars, tableVars, orderVars, limitVars, eventVars, threadVars, callerVars,
        worldVars, selfVars
<1>1. IsFiniteSet(readList) /\ Cardinality(readList) \in Nat
    BY FS_Subset, FS_CardinalityType
<1>2. ASSUME readList' \subseteq readList, UNCHANGED limitVars,
             pc' = "handshake" => pc = "handshake"
      PROVE  (LimitInv /\ WithinLimit)'
  <2>1. Cardinality(readList') <= Cardinality(readList) /\ Cardinality(readList') \in Nat
    BY <1>1, <1>2, FS_Subset, FS_CardinalityType
  <2> QED
    BY <1>1, <1>2, <2>1
<1>3. ASSUME NEW c \in Conns, NEW state, Register(c, state),
             Cardinality(readList) < topLimit
      PROVE  (LimitInv /\ WithinLimit)'
  <2>1. readList' = readList \cup {c} \/ readList' = readList
    BY <1>3 DEF Register
  <2>2. Cardinality(readList \cup {c}) <= Cardinality(readList) + 1
    <3>1. Cardinality(readList \cup {c}) \in {Cardinality(readList), Cardinality(readList) + 1}
        BY <1>1, FS_AddElement, Zenon
    <3> QED
        BY <1>1, <3>1
  <2>3. Cardinality(readList \cup {c}) \in Nat
    BY <1>1, FS_AddElement, FS_CardinalityType
  <2>4. limit' = limit /\ topLimit' = topLimit /\ pc' = "serve"
    BY <1>3 DEF Register
  <2>5. LimitInv'
    BY <2>4
  <2>6. topLimit \in Nat
    OBVIOUS
  <2>7. Cardinality(readList') <= topLimit
    <3>1. CASE readList' = readList
      BY <3>1
    <3>2. CASE readList' = readList \cup {c}
      <4>1. Cardinality(readList') <= Cardinality(readList) + 1
        BY <3>2, <2>2
      <4>2. Cardinality(readList') \in Nat
        BY <3>2, <2>3
      <4> QED
        BY <1>1, <1>3, <2>6, <4>1, <4>2
    <3> QED
      BY <2>1, <3>1, <3>2
  <2> QED
    BY <2>4, <2>5, <2>7
<1>4. ASSUME NEW c \in Conns, Accept(c) PROVE (LimitInv /\ WithinLimit)'
  <2>1. Cardinality(readList) < topLimit
    BY <1>1, <1>4 DEF Accept, Full
  <2> QED
    BY <1>3, <1>4, <2>1 DEF Accept
<1>5. ASSUME NEW c \in Conns, AcceptSecure(c) PROVE (LimitInv /\ WithinLimit)'
  <2>1. Cardinality(readList) < topLimit
    BY <1>1, <1>5 DEF AcceptSecure, Full
  <2>2. readList' = readList /\ UNCHANGED limitVars
    BY <1>5 DEF AcceptSecure
  <2> QED
    BY <1>1, <2>1, <2>2
<1>6. CASE HandshakeDone
    BY <1>3, <1>6 DEF HandshakeDone, SecureInv
<1>7. CASE HandshakeFails
    BY <1>3, <1>7 DEF HandshakeFails, SecureInv
<1>8. ASSUME NEW n \in 0 .. Cardinality(Conns), SetConnectionLimit(n)
      PROVE  (LimitInv /\ WithinLimit)'
  <2>1. n \in Nat /\ readList' = readList /\ pc' = pc
    BY <1>8, FS_CardinalityType DEF SetConnectionLimit
  <2> QED
    BY <1>1, <1>8, <2>1 DEF SetConnectionLimit
<1>9. CASE Peers \/ Tick
    BY <1>2, <1>9 DEF Peers, Connect, PeerHello, PeerSends, PeerSendsHalf, PeerCloses,
                      PeerResets, PeerStopsReading, PeerReads, Tick
<1>10. ASSUME Thread, ~ HandshakeDone, ~ HandshakeFails,
              ~ \E c \in Conns : Accept(c) \/ AcceptSecure(c)
       PROVE  (LimitInv /\ WithinLimit)'
  <2>1. UNCHANGED limitVars /\ (pc' = "handshake" => pc = "handshake")
    BY <1>10 DEF Thread, BindFails, OpenListener, Loop, SelectReturns, NothingToAccept,
                Refuse, HandshakeBreaks, Crash, ServeNext, ServeDone, FarewellEnds,
                Drop, Forget, ForgetRemove, ReceiveBlocks, ReceiveFrame, ReceiveFails,
                OnDataAnswers, AnswerBlocks, AnswerEnds, OnDataRaises, SweepOne, SweepDone, Status, CloseOne,
                CloseListener
  <2>2. readList' \subseteq readList
    BY <1>10 DEF Thread, BindFails, OpenListener, Loop, SelectReturns, NothingToAccept,
                Refuse, HandshakeBreaks, ServeNext, ServeDone, FarewellEnds, Drop,
                Forget, ForgetRemove, ReceiveBlocks, ReceiveFrame, ReceiveFails,
                OnDataAnswers, AnswerBlocks, AnswerEnds, OnDataRaises, SweepOne, SweepDone, Status, CloseOne,
                CloseListener
  <2> QED
    BY <1>2, <2>1, <2>2
<1>11. ASSUME Callers, ~ \E n \in 0 .. Cardinality(Conns) : SetConnectionLimit(n)
       PROVE  (LimitInv /\ WithinLimit)'
    BY <1>2, <1>11 DEF Callers, Start, StartReturns, Stop, AcceptCall, AcceptClear,
                       AcceptWait, AcceptPop, ResetCall, ResetOne, ResetDone
<1>12. CASE UNCHANGED vars
    BY <1>2, <1>12 DEF vars
<1> QED
    BY <1>4, <1>5, <1>6, <1>7, <1>8, <1>9, <1>10, <1>11, <1>12 DEF Next, Thread

\* Once the thread is over it stays so, and only stop(), reset() or a failed
\* bind ends it: nothing but stop() and reset() make run() close the listener.
LEMMA StartStep ==
    TypeOK /\ ListenerInv /\ LoopInv /\ StartInv /\ [Next]_vars => StartInv'
<1> SUFFICES ASSUME TypeOK /\ ListenerInv /\ LoopInv /\ StartInv, [Next]_vars
             PROVE StartInv'
    OBVIOUS
<1> USE ConnsAssumption, NumbersAssumption, ModesAssumption
        DEF TypeOK, ListenerInv, LoopInv, StartInv, Over, None,
            netVars, tableVars, orderVars, limitVars, eventVars, threadVars,
            callerVars, worldVars, selfVars
<1>1. CASE Peers
    BY <1>1 DEF Peers, Connect, PeerHello, MaySend, PeerSends, PeerSendsHalf, PeerCloses, PeerResets,
                PeerStopsReading, PeerReads
<1>2. CASE Tick
    BY <1>2 DEF Tick
<1>3. CASE BindFails
    BY <1>3 DEF BindFails
<1>4. CASE OpenListener
    BY <1>4 DEF OpenListener
<1>5. CASE Loop
    BY <1>5 DEF Loop, Crash, Dead
<1>6. CASE SelectReturns
    BY <1>6 DEF SelectReturns, Readable, Dead
<1>7. CASE NothingToAccept
    BY <1>7 DEF NothingToAccept
<1>8. ASSUME NEW c \in Conns, Refuse(c) PROVE StartInv'
    BY <1>8 DEF Refuse
<1>9. ASSUME NEW c \in Conns, Accept(c) PROVE StartInv'
    BY <1>9 DEF Accept, Register
<1>10. ASSUME NEW c \in Conns, AcceptSecure(c) PROVE StartInv'
    BY <1>10 DEF AcceptSecure
<1>11. CASE HandshakeDone
    BY <1>11 DEF HandshakeDone, Register
<1>12. CASE HandshakeFails
    BY <1>12 DEF HandshakeFails, Register
<1>13. CASE HandshakeBreaks
    BY <1>13 DEF HandshakeBreaks, Crash
<1>14. ASSUME NEW c \in Conns, ServeNext(c) PROVE StartInv'
    BY <1>14 DEF ServeNext
<1>15. CASE ServeDone
    BY <1>15 DEF ServeDone
<1>16. CASE FarewellEnds
    BY <1>16 DEF FarewellEnds, Drop, AfterClose
<1>17. CASE ForgetRemove
    BY <1>17 DEF ForgetRemove, Crash
<1>18. CASE ReceiveBlocks
    BY <1>18 DEF ReceiveBlocks, Dead
<1>19. CASE ReceiveFrame
    BY <1>19 DEF ReceiveFrame, Dead
<1>20. CASE ReceiveFails
    BY <1>20 DEF ReceiveFails, Forget, Drop, AfterClose, Dead
<1>21. CASE OnDataAnswers
    BY <1>21 DEF OnDataAnswers, Dead
<1>22. CASE AnswerBlocks
    BY <1>22 DEF AnswerBlocks, Dead
<1>23. CASE AnswerEnds
    BY <1>23 DEF AnswerEnds
<1>24. CASE OnDataRaises
    BY <1>24 DEF OnDataRaises, Forget, Drop, AfterClose, Dead
<1>25. ASSUME NEW c \in Conns, SweepOne(c) PROVE StartInv'
    BY <1>25 DEF SweepOne, Forget, Drop, AfterClose
<1>26. CASE SweepDone
    BY <1>26 DEF SweepDone
<1>27. CASE Status
    BY <1>27 DEF Status, Crash, Dead, StatusDue
<1>28. ASSUME NEW c \in Conns, CloseOne(c) PROVE StartInv'
    BY <1>28 DEF CloseOne, Crash, Dead, AfterClose
<1>29. CASE CloseListener
    BY <1>29 DEF CloseListener
<1>30. CASE Callers
    BY <1>30 DEF Callers, Start, StartReturns, Stop, SetConnectionLimit, AcceptCall, AcceptClear,
            AcceptWait, AcceptPop, First, ResetCall, ResetOne, ResetDone
<1>31. CASE UNCHANGED vars
    BY <1>31 DEF vars
<1> QED
    BY <1>1, <1>2, <1>3, <1>4, <1>5, <1>6, <1>7, <1>8, <1>9, <1>10, <1>11,
       <1>12, <1>13, <1>14, <1>15, <1>16, <1>17, <1>18, <1>19, <1>20, <1>21,
       <1>22, <1>23, <1>24, <1>25, <1>26, <1>27, <1>28, <1>29, <1>30, <1>31 DEF Next, Thread

-----------------------------------------------------------------------------
\* The server object of __init__ satisfies the invariant.
LEMMA InitIndInv == Init => IndInv
<1> SUFFICES ASSUME Init PROVE IndInv
    OBVIOUS
<1> USE ConnsAssumption, NumbersAssumption, ModesAssumption
<1>1. TypeOK
  <2>1. /\ quit \in BOOLEAN /\ started \in BOOLEAN /\ newConn \in BOOLEAN
        /\ srvReady \in BOOLEAN /\ resetCalled \in BOOLEAN /\ processing \in BOOLEAN
    BY Zenon DEF Init
  <2>2. half \in [Conns -> BOOLEAN] /\ deaf \in [Conns -> BOOLEAN]
    BY Zenon DEF Init
  <2> QED
    BY <2>1, <2>2 DEF Init, TypeOK, None
<1>2. WithinLimit
    BY FS_EmptySet DEF Init, WithinLimit
<1>3. ListenerInv /\ LoopInv /\ SecureInv /\ SocketInv /\ ModeInv /\ ResetInv
      /\ LimitInv /\ ReadableInv /\ HeldOnlyInsideAFrame
    BY DEF Init, ListenerInv, LoopInv, SecureInv, SocketInv, ModeInv, ResetInv,
           LimitInv, ReadableInv, HeldOnlyInsideAFrame
<1>4. StampInv
    BY DEF Init, StampInv
<1>5. TablesAgree /\ OpenIsTracked /\ EndsClean /\ CrashHasCause /\ OneOwner
      /\ HandedInOrder
    BY DEF Init, TablesAgree, Leaving, OpenIsTracked, EndsClean, CrashHasCause,
           OneOwner, HandedInOrder
<1> QED
    BY <1>1, <1>2, <1>3, <1>4, <1>5 DEF IndInv

\* The inductive invariant holds in every reachable state of the server.
THEOREM Invariance == Spec => []IndInv
<1>1. IndInv /\ [Next]_vars => IndInv'
    BY TypeStep, ListenerStep, LoopStep, SecureStep, SocketStep, ModeStep,
       ResetStep, LimitStep, StampStep, ReadableStep, TablesStep, OpenStep,
       EndsStep, CrashStep, OwnerStep, HandedStep, HeldStep
    DEF IndInv
<1> QED
    BY InitIndInv, <1>1, PTL DEF Spec

\* Every value of every variable is one the code can produce.
THEOREM TypeCorrect == Spec => []TypeOK
<1>1. IndInv => TypeOK
    BY DEF IndInv
<1> QED
    BY <1>1, Invariance, PTL

\* The read list, the peer names, the activity times and the live list fall
\* away together (forget()), whatever callers and peers do in between.
THEOREM TablesFallTogether == Spec => []TablesAgree
<1>1. IndInv => TablesAgree
    BY DEF IndInv
<1> QED
    BY <1>1, Invariance, PTL

\* No accepted socket is lost: while run() goes on, an open client socket of
\* the server is in the list select() watches (_accept, forget()).
THEOREM NothingLeaks == Spec => []OpenIsTracked
<1>1. IndInv => OpenIsTracked
    BY DEF IndInv
<1> QED
    BY <1>1, Invariance, PTL

\* A run() that returns has closed the listener (_close_listener) and, in
\* processing mode, every client's socket.
THEOREM NothingIsLeftOpen == Spec => []EndsClean
<1>1. IndInv => EndsClean
    BY DEF IndInv
<1> QED
    BY <1>1, Invariance, PTL

\* Only a reset, the peer's or reset(), or a broken handshake makes an
\* exception leave run().
THEOREM OnlyResetsCrash == Spec => []CrashHasCause
<1>1. IndInv => CrashHasCause
    BY DEF IndInv
<1> QED
    BY <1>1, Invariance, PTL

\* recv() holds the thread only on a peer that stopped inside a frame (run(),
\* _serve).
THEOREM OnlyPartialFramesHold == Spec => []HeldOnlyInsideAFrame
<1>1. IndInv => HeldOnlyInsideAFrame
    BY DEF IndInv
<1> QED
    BY <1>1, Invariance, PTL

\* connection_limit bounds the clients served at once (_accept).
THEOREM LimitHolds == Spec => []WithinLimit
<1>1. IndInv => WithinLimit
    BY DEF IndInv
<1> QED
    BY <1>1, Invariance, PTL

\* accept() hands every connection to one owner, in the order of acceptance.
THEOREM HandOut == Spec => [](OneOwner /\ HandedInOrder)
<1>1. IndInv => OneOwner /\ HandedInOrder
    BY DEF IndInv
<1> QED
    BY <1>1, Invariance, PTL

\* start() reports "the server thread ended" of a listener that never came up,
\* and else only of a server that was stopped or crashed: a thread that is
\* merely slow to come up is not taken for one that is over.
THEOREM StartIsRight == Spec => []StartReportsTheEnd
<1>1. Init => StartInv
    BY DEF Init, StartInv
<1>2. IndInv /\ StartInv /\ [Next]_vars => StartInv'
    BY StartStep DEF IndInv
<1>3. StartInv => StartReportsTheEnd
    BY DEF StartInv, StartReportsTheEnd, Over
<1> QED
    BY Invariance, <1>1, <1>2, <1>3, PTL DEF Spec

\* _sweep_inactive closes no connection on which a frame, or a part of one, was
\* waiting when its pass began: run() serves before it sweeps, whatever holds
\* the thread in between.
THEOREM SweepComesLast == Spec => SweepReadsFirst
<1>1. Init => ReadFirstInv
    BY DEF Init, ReadFirstInv, Passing
<1>2. IndInv /\ ReadFirstInv /\ [Next]_vars => ReadFirstInv'
    BY ReadFirstStep DEF IndInv
<1>3. IndInv /\ ReadFirstInv => SweepsOnlyWhatWasRead
  <2> SUFFICES ASSUME IndInv, ReadFirstInv, NEW c \in Conns, SweepOne(c),
                      inbox[c] > 0 \/ half[c]
               PROVE  arrival[c] >= now
    BY DEF SweepsOnlyWhatWasRead
  <2>1. c \in readList /\ pc = "sweep" /\ c \notin Waiting /\ Passing
    BY DEF SweepOne, ReadFirstInv, Waiting, Passing
  <2>2. lastSeen[c] \in Int /\ now \in Nat /\ Timeout \in Nat
    BY NumbersAssumption DEF IndInv, TypeOK, None
  <2>3. lastSeen[c] # now
    BY <2>2 DEF SweepOne, Stale
  <2> QED
    BY <2>1, <2>3 DEF ReadFirstInv
<1> QED
    BY Invariance, <1>1, <1>2, <1>3, PTL DEF Spec, SweepReadsFirst

\* Where peers send whole frames in plaintext, _sweep_inactive never closes a
\* connection on which something arrived within the timeout.
THEOREM SweepIsJust ==
    ASSUME "half" \notin PeerMay, ~Secure PROVE Spec => SweepSparesTheActive
<1>1. Init => ActivityInv
    BY DEF Init, ActivityInv, InPass, Unread, Dead
<1>2. IndInv /\ ActivityInv /\ [Next]_vars => ActivityInv'
    BY ActivityStep DEF IndInv
<1>3. IndInv /\ ActivityInv => SweepsOnlyTheSilent
  <2> SUFFICES ASSUME IndInv, ActivityInv, NEW c \in Conns, SweepOne(c)
               PROVE  arrival[c] + Timeout < now \/ arrival[c] >= now
    BY DEF SweepsOnlyTheSilent
  <2>1. /\ c \in readList /\ todo = {} /\ pc = "sweep"
        /\ lastSeen[c] + Timeout < now
    BY DEF SweepOne, ActivityInv, Stale
  <2>2. arrival[c] >= now \/ arrival[c] <= lastSeen[c] \/ lastSeen[c] = now
    BY <2>1 DEF ActivityInv, InPass, Unread
  <2>3. /\ arrival[c] \in Nat /\ now \in Nat /\ lastSeen[c] \in Int /\ Timeout \in Nat
    BY NumbersAssumption DEF IndInv, TypeOK, None
  <2> QED
    BY <2>1, <2>2, <2>3
<1> QED
    BY Invariance, <1>1, <1>2, <1>3, PTL DEF Spec, SweepSparesTheActive
=============================================================================
