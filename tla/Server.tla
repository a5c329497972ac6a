------------------------------- MODULE Server -------------------------------
(***************************************************************************)
(* ModbusServerSimulator (simulators/server.py): the thread that runs      *)
(* run(), the threads that call its public methods, the peers and the      *)
(* kernel's side of their sockets, for a plaintext and for a TLS listener. *)
(*                                                                         *)
(* A connection is one element of Conns; it is made at most once.  The     *)
(* read list is kept without the listening socket, which is in it from     *)
(* _open_listener on and never leaves it.  One action is one stretch of    *)
(* the thread's code between two points where another thread, a peer or    *)
(* the clock can matter: a blocking call, or a read of state that other    *)
(* threads write.                                                          *)
(*                                                                         *)
(* A definition introduced as a mutant is the one after it with a mistake  *)
(* in it.  Nothing here uses one: a property the mistake does not break    *)
(* would say nothing.                                                      *)
(***************************************************************************)
EXTENDS Integers, FiniteSets

CONSTANTS
    Conns,              \* the connections peers may make
    NoConn,             \* "no connection"
    InitialLimit,       \* connection_limit as passed to __init__
    Timeout,            \* inactive_timeout, in clock units
    PrintPeriod,        \* the period of the status line (1 in run())
    Modes,              \* values of process_connections start() is called with
    Secure,             \* whether TLS settings were passed to __init__
    PeerMay,            \* what peers do: "half" a frame, "rst" the connection,
                        \* a "bad" handshake, "deaf" to what is sent to them
    CallerMay,          \* calls made: "stop", "reset", "limit", "accept"
    MaxInbox,           \* bound: complete frames waiting in one socket
    MaxClock            \* bound: last instant of the clock

ASSUME ConnsAssumption == /\ IsFiniteSet(Conns)
                          /\ NoConn \notin Conns
ASSUME NumbersAssumption == /\ InitialLimit \in Nat
                            /\ Timeout \in Nat
                            /\ PrintPeriod \in Nat
                            /\ MaxInbox \in Nat
                            /\ MaxClock \in Nat
ASSUME ModesAssumption == /\ Modes \subseteq BOOLEAN
                          /\ Secure \in BOOLEAN
                          /\ PeerMay \subseteq {"half", "rst", "bad", "deaf"}
                          /\ CallerMay \subseteq {"stop", "reset", "limit", "accept"}

VARIABLES
    \* The peers and the kernel.
    peer,        \* the remote end of each connection
    inbox,       \* complete frames received and not yet read
    half,        \* whether the first part of one more frame is there too
    hello,       \* the peer's part of the TLS handshake
    deaf,        \* whether what is sent to it finds the buffers full: the
                 \* peer does not read
    sock,        \* the local socket of each connection
    listener,    \* the listening socket
    clock,       \* time.time()
    arrival,     \* when bytes last arrived (history)
    \* What the server object holds.
    readList,    \* self.read_list without the listening socket
    clients,     \* self.clients, ordered by stamp
    names,       \* the keys of self.peer_names
    lastSeen,    \* last_activity_time; None is a missing key
    stamp,       \* the place of each connection in the order of acceptance
    accepted,    \* how many connections were accepted
    limit,       \* self.connection_limit
    topLimit,    \* the largest limit ever in force (history)
    quit,        \* self.quit_event
    started,     \* self.started_event
    newConn,     \* self.new_connection_event
    processing,  \* self.process_connections
    \* The server thread.
    pc,          \* where the thread is
    todo,        \* connections the loop at pc has not come to yet
    srvReady,    \* srv in ready_to_read
    cur,         \* the connection being served
    gone,        \* the connection inside forget() or disconnect()
    backTo,      \* where that returns to
    now,         \* current_time
    lastPrint,   \* last_print_time
    \* The caller's thread.
    cpc,         \* where the calling thread is
    startResult, \* how start() ended
    resetTodo,   \* sockets reset() has not come to yet
    resetCalled  \* whether reset() was ever called (history)

netVars  == <<peer, inbox, half, hello, deaf, arrival>>
tableVars == <<readList, names, lastSeen>>
orderVars == <<stamp, accepted>>
limitVars == <<limit, topLimit>>
eventVars == <<quit, started, newConn>>
threadVars == <<todo, srvReady, cur, gone, backTo, now, lastPrint>>
callerVars == <<processing, cpc, startResult, resetTodo, resetCalled>>
worldVars == <<netVars, sock, listener, clock>>
selfVars == <<tableVars, clients, orderVars, limitVars, eventVars>>
vars == <<worldVars, selfVars, pc, threadVars, callerVars>>

None == -1

TypeOK ==
    /\ peer \in [Conns -> {"none", "open", "closed", "reset"}]
    /\ inbox \in [Conns -> Nat]
    /\ half \in [Conns -> BOOLEAN]
    /\ hello \in [Conns -> {"none", "good", "bad"}]
    /\ deaf \in [Conns -> BOOLEAN]
    /\ arrival \in [Conns -> Nat]
    /\ sock \in [Conns -> {"none", "queued", "refused", "handshaking", "open",
                           "closed", "aborted", "detached", "handed"}]
    /\ listener \in {"none", "open", "closed"}
    /\ clock \in Nat
    /\ readList \subseteq Conns /\ clients \subseteq Conns /\ names \subseteq Conns
    /\ lastSeen \in [Conns -> Nat \cup {None}]
    /\ stamp \in [Conns -> Nat]
    /\ accepted \in Nat /\ limit \in Nat /\ topLimit \in Nat
    /\ quit \in BOOLEAN /\ started \in BOOLEAN /\ newConn \in BOOLEAN
    /\ processing \in BOOLEAN
    /\ pc \in {"new", "open", "loop", "blocked", "accept", "handshake", "serve",
               "receive", "stuck", "handle", "answering", "farewell", "forget",
               "sweep", "status", "close", "ended", "crashed"}
    /\ todo \subseteq Conns
    /\ srvReady \in BOOLEAN
    /\ cur \in Conns \cup {NoConn} /\ gone \in Conns \cup {NoConn}
    /\ backTo \in {"serve", "sweep", "close"}
    /\ now \in Nat /\ lastPrint \in Nat
    /\ cpc \in {"init", "starting", "idle", "acc_clear", "acc_wait", "acc_pop",
                "resetting"}
    /\ startResult \in {"none", "ok", "ended", "deadline"}
    /\ resetTodo \subseteq Conns
    /\ resetCalled \in BOOLEAN

Init ==
    /\ peer = [c \in Conns |-> "none"]
    /\ inbox = [c \in Conns |-> 0]
    /\ half = [c \in Conns |-> FALSE]
    /\ hello = [c \in Conns |-> "none"]
    /\ deaf = [c \in Conns |-> FALSE]
    /\ arrival = [c \in Conns |-> 0]
    /\ sock = [c \in Conns |-> "none"]
    /\ listener = "none"
    /\ clock = 0
    /\ readList = {} /\ clients = {} /\ names = {}
    /\ lastSeen = [c \in Conns |-> None]
    /\ stamp = [c \in Conns |-> 0]
    /\ accepted = 0
    /\ limit = InitialLimit /\ topLimit = InitialLimit
    /\ quit = FALSE /\ started = FALSE /\ newConn = FALSE
    /\ processing = TRUE
    /\ pc = "new"
    /\ todo = {}
    /\ srvReady = FALSE
    /\ cur = NoConn /\ gone = NoConn
    /\ backTo = "serve"
    /\ now = 0 /\ lastPrint = 0
    /\ cpc = "init"
    /\ startResult = "none"
    /\ resetTodo = {}
    /\ resetCalled = FALSE

-----------------------------------------------------------------------------
(* Helpers. *)

\* A socket whose descriptor is gone: closed here, closed by reset(), or
\* taken over by an SSL socket that failed.
Dead(c) == sock[c] \in {"closed", "aborted", "detached"}

\* What select reports readable: bytes, end of stream, a pending error, or,
\* on Linux, a descriptor closed by another thread while select was waiting.
Readable(c) == \/ inbox[c] > 0
               \/ half[c]
               \/ peer[c] \in {"closed", "reset"}
               \/ Dead(c)

\* Mutants of AfterClose: shut down and never closed; forgotten altogether.
AfterShutdown(c) == IF sock[c] = "open" THEN "shut down" ELSE sock[c]
LeftOpen(c) == sock[c]

\* disconnect(): shutdown's OSError is swallowed, close never fails.
AfterClose(c) == IF sock[c] = "open" THEN "closed" ELSE sock[c]

\* Mutant: the comparison the wrong way round.
StaleSwapped(c) == lastSeen[c] # None /\ lastSeen[c] + Timeout > now

\* The test of _sweep_inactive.
Stale(c) == /\ lastSeen[c] # None
            /\ lastSeen[c] + Timeout < now

\* Mutant: one client too many.
Overfull == Cardinality(readList) > limit

\* The limit is reached.
Full == Cardinality(readList) >= limit

\* An exception leaves run(): the thread ends where it stands, with the
\* listener open, the started event set and the tables as they are.
Crash == /\ pc' = "crashed"
         /\ UNCHANGED threadVars

-----------------------------------------------------------------------------
(* Peers and time. *)

Connect(c) ==
    /\ listener = "open"
    /\ peer[c] = "none"
    /\ peer' = [peer EXCEPT ![c] = "open"]
    /\ sock' = [sock EXCEPT ![c] = "queued"]
    /\ UNCHANGED <<inbox, half, hello, deaf, arrival, listener, clock, selfVars, pc,
                   threadVars, callerVars>>

\* The peer's part of the handshake arrives: what the listener asks for, or
\* something else (bytes of another protocol, a certificate it rejects).
PeerHello(c, h) ==
    /\ Secure
    /\ h = "bad" => "bad" \in PeerMay
    /\ peer[c] = "open"
    /\ hello[c] = "none"
    /\ hello' = [hello EXCEPT ![c] = h]
    /\ arrival' = [arrival EXCEPT ![c] = clock]
    /\ UNCHANGED <<peer, inbox, half, deaf, sock, listener, clock, selfVars, pc,
                   threadVars, callerVars>>

\* Over TLS a peer has nothing to send before the handshake is through.
MaySend(c) == /\ peer[c] = "open"
              /\ Secure => sock[c] \in {"open", "aborted", "closed", "handed"}

\* A whole frame arrives, or the rest of one whose first part is there.
PeerSends(c) ==
    /\ MaySend(c)
    /\ inbox[c] < MaxInbox
    /\ inbox' = [inbox EXCEPT ![c] = @ + 1]
    /\ half' = [half EXCEPT ![c] = FALSE]
    /\ arrival' = [arrival EXCEPT ![c] = clock]
    /\ UNCHANGED <<peer, hello, deaf, sock, listener, clock, selfVars, pc,
                   threadVars, callerVars>>

\* The first part of a frame arrives.
PeerSendsHalf(c) ==
    /\ "half" \in PeerMay
    /\ MaySend(c)
    /\ ~half[c]
    /\ half' = [half EXCEPT ![c] = TRUE]
    /\ arrival' = [arrival EXCEPT ![c] = clock]
    /\ UNCHANGED <<peer, inbox, hello, deaf, sock, listener, clock, selfVars, pc,
                   threadVars, callerVars>>

PeerCloses(c) ==
    /\ peer[c] = "open"
    /\ peer' = [peer EXCEPT ![c] = "closed"]
    /\ arrival' = [arrival EXCEPT ![c] = clock]
    /\ UNCHANGED <<inbox, half, hello, deaf, sock, listener, clock, selfVars, pc,
                   threadVars, callerVars>>

PeerResets(c) ==
    /\ "rst" \in PeerMay
    /\ peer[c] \in {"open", "closed"}
    /\ peer' = [peer EXCEPT ![c] = "reset"]
    /\ arrival' = [arrival EXCEPT ![c] = clock]
    /\ UNCHANGED <<inbox, half, hello, deaf, sock, listener, clock, selfVars, pc,
                   threadVars, callerVars>>

\* The peer stops reading while answers to it fill the buffers ...
PeerStopsReading(c) ==
    /\ "deaf" \in PeerMay
    /\ MaySend(c)
    /\ ~deaf[c]
    /\ deaf' = [deaf EXCEPT ![c] = TRUE]
    /\ UNCHANGED <<peer, inbox, half, hello, arrival, sock, listener, clock, selfVars,
                   pc, threadVars, callerVars>>

\* ... and takes them in after all.
PeerReads(c) ==
    /\ deaf[c]
    /\ peer[c] \in {"open", "closed"}
    /\ deaf' = [deaf EXCEPT ![c] = FALSE]
    /\ UNCHANGED <<peer, inbox, half, hello, arrival, sock, listener, clock, selfVars,
                   pc, threadVars, callerVars>>

Tick ==
    /\ clock < MaxClock
    /\ clock' = clock + 1
    /\ UNCHANGED <<netVars, sock, listener, selfVars, pc, threadVars, callerVars>>

Peers == \E c \in Conns : \/ Connect(c)
                          \/ \E h \in {"good", "bad"} : PeerHello(c, h)
                          \/ PeerSends(c)
                          \/ PeerSendsHalf(c)
                          \/ PeerCloses(c)
                          \/ PeerResets(c)
                          \/ PeerStopsReading(c)
                          \/ PeerReads(c)

-----------------------------------------------------------------------------
(* The server thread: run() and what it calls. *)

\* _open_listener: the bind fails and the thread ends ...
BindFails ==
    /\ pc = "open"
    /\ pc' = "ended"
    /\ UNCHANGED <<worldVars, selfVars, threadVars, callerVars>>

\* ... or the listener is up and start() may go on.
OpenListener ==
    /\ pc = "open"
    /\ pc' = "loop"
    /\ listener' = "open"
    /\ started' = TRUE
    /\ lastPrint' = clock
    /\ UNCHANGED <<netVars, sock, clock, tableVars, clients, orderVars, limitVars,
                   quit, newConn, todo, srvReady, cur, gone, backTo, now, callerVars>>

\* Mutant: stop() is not heeded.
LoopForever == /\ pc = "loop"
               /\ pc' = "blocked"
               /\ UNCHANGED <<worldVars, selfVars, threadVars, callerVars>>

\* The loop condition, and the call of select: ValueError on a read list with
\* a closed socket in it.
Loop ==
    /\ pc = "loop"
    /\ \/ /\ quit
          /\ pc' = "close"
          /\ todo' = readList
          /\ UNCHANGED <<srvReady, cur, gone, backTo, now, lastPrint>>
       \/ /\ ~quit
          /\ \E c \in readList : Dead(c)
          /\ Crash
       \/ /\ ~quit
          /\ \A c \in readList : ~Dead(c)
          /\ pc' = "blocked"
          /\ UNCHANGED threadVars
    /\ UNCHANGED <<worldVars, selfVars, callerVars>>

\* Mutant: every connection is served, whatever select reported.
SelectReportsAll ==
    /\ pc = "blocked"
    /\ pc' = "accept"
    /\ todo' = readList
    /\ srvReady' = \E c \in Conns : sock[c] = "queued"
    /\ now' = clock
    /\ UNCHANGED <<worldVars, selfVars, cur, gone, backTo, lastPrint, callerVars>>

\* select returns, on readiness or on its one-second timeout.
SelectReturns ==
    /\ pc = "blocked"
    /\ pc' = "accept"
    /\ todo' = {c \in readList : Readable(c)}
    /\ srvReady' = \E c \in Conns : sock[c] = "queued"
    /\ now' = clock
    /\ UNCHANGED <<worldVars, selfVars, cur, gone, backTo, lastPrint, callerVars>>

NothingToAccept ==
    /\ pc = "accept"
    /\ ~srvReady
    /\ pc' = "serve"
    /\ UNCHANGED <<worldVars, selfVars, threadVars, callerVars>>

\* Mutant: at the limit the connection is left in the backlog.
LeaveQueued(c) ==
    /\ pc = "accept" /\ srvReady /\ sock[c] = "queued" /\ Full
    /\ pc' = "serve"
    /\ UNCHANGED <<worldVars, selfVars, threadVars, callerVars>>

\* _accept at the limit: accepted and closed at once.
Refuse(c) ==
    /\ pc = "accept"
    /\ srvReady
    /\ sock[c] = "queued"
    /\ Full
    /\ sock' = [sock EXCEPT ![c] = "refused"]
    /\ pc' = "serve"
    /\ UNCHANGED <<netVars, listener, clock, selfVars, threadVars, callerVars>>

\* The end of _accept: the connection is entered in the tables of its mode.
Register(c, state) ==
    /\ sock' = [sock EXCEPT ![c] = state]
    /\ names' = names \cup {c}
    /\ IF processing
       THEN /\ readList' = readList \cup {c}
            /\ lastSeen' = [lastSeen EXCEPT ![c] = now]
       ELSE UNCHANGED <<readList, lastSeen>>
    /\ clients' = clients \cup {c}
    /\ accepted' = accepted + 1
    /\ stamp' = [stamp EXCEPT ![c] = accepted + 1]
    /\ newConn' = TRUE
    /\ pc' = "serve"
    /\ UNCHANGED <<netVars, listener, clock, limitVars, quit, started, callerVars>>

\* _accept below the limit, in plaintext.
Accept(c) ==
    /\ pc = "accept"
    /\ ~Secure
    /\ srvReady
    /\ sock[c] = "queued"
    /\ ~Full
    /\ Register(c, "open")
    /\ UNCHANGED threadVars

\* With TLS, _accept runs the handshake: wrap_socket takes the descriptor and
\* blocks until the peer has done its part.
AcceptSecure(c) ==
    /\ pc = "accept"
    /\ Secure
    /\ srvReady
    /\ sock[c] = "queued"
    /\ ~Full
    /\ sock' = [sock EXCEPT ![c] = "handshaking"]
    /\ cur' = c
    /\ pc' = "handshake"
    /\ UNCHANGED <<netVars, listener, clock, selfVars, todo, srvReady, gone, backTo,
                   now, lastPrint, callerVars>>

HandshakeDone ==
    /\ pc = "handshake"
    /\ hello[cur] = "good"
    /\ Register(cur, "open")
    /\ cur' = NoConn
    /\ UNCHANGED <<todo, srvReady, gone, backTo, now, lastPrint>>

\* An SSLError is logged and nothing more: the socket that goes into the
\* tables has lost its descriptor to the one that failed.
HandshakeFails ==
    /\ pc = "handshake"
    /\ \/ hello[cur] = "bad"
       \/ hello[cur] = "none" /\ peer[cur] = "closed"
    /\ Register(cur, "detached")
    /\ cur' = NoConn
    /\ UNCHANGED <<todo, srvReady, gone, backTo, now, lastPrint>>

\* A reset is a ConnectionResetError, which nothing catches.
HandshakeBreaks ==
    /\ pc = "handshake"
    /\ peer[cur] = "reset"
    /\ sock' = [sock EXCEPT ![cur] = "closed"]
    /\ Crash
    /\ UNCHANGED <<netVars, listener, clock, selfVars, callerVars>>

\* The for loop over ready_to_read takes up its next connection.
ServeNext(c) ==
    /\ pc = "serve"
    /\ c \in todo
    /\ todo' = todo \ {c}
    /\ cur' = c
    /\ pc' = "receive"
    /\ UNCHANGED <<worldVars, selfVars, srvReady, gone, backTo, now, lastPrint,
                   callerVars>>

ServeDone ==
    /\ pc = "serve"
    /\ todo = {}
    /\ pc' = "sweep"
    /\ UNCHANGED <<worldVars, selfVars, threadVars, callerVars>>

\* Mutants of Drop: the bookkeeping is left behind; the socket is closed and
\* stays in the read list.
DropNoNames(c, return) ==
    /\ sock' = [sock EXCEPT ![c] = AfterClose(c)]
    /\ readList' = readList \ {c}
    /\ backTo' = return /\ gone' = NoConn /\ pc' = return
    /\ UNCHANGED <<names, lastSeen>>

DropStillRead(c, return) ==
    /\ sock' = [sock EXCEPT ![c] = AfterClose(c)]
    /\ backTo' = return /\ gone' = NoConn /\ pc' = return
    /\ UNCHANGED <<readList, names, lastSeen>>

\* forget(c) from the close of the socket up to and including its test "conn
\* in self.clients".  A socket not in the live list leaves nothing to remove
\* from it.
Drop(c, return) ==
    /\ sock' = [sock EXCEPT ![c] = AfterClose(c)]
    /\ readList' = readList \ {c}
    /\ backTo' = return
    /\ IF c \in clients
       THEN /\ gone' = c
            /\ pc' = "forget"
            /\ UNCHANGED <<names, lastSeen>>
       ELSE /\ gone' = NoConn
            /\ pc' = return
            /\ names' = names \ {c}
            /\ lastSeen' = [lastSeen EXCEPT ![c] = None]

\* forget(c).  disconnect() of an SSL socket calls unwrap(), which says
\* goodbye and waits for the answer; on one reset() has closed it raises
\* ValueError, which disconnect() does not catch.
Forget(c, return) ==
    \/ /\ ~Secure \/ sock[c] = "detached"
       /\ Drop(c, return)
    \/ /\ Secure /\ sock[c] = "open"
       /\ pc' = "farewell"
       /\ gone' = c
       /\ backTo' = return
       /\ UNCHANGED <<sock, readList, names, lastSeen>>
    \/ /\ Secure /\ sock[c] \in {"closed", "aborted"}
       /\ pc' = "crashed"
       /\ UNCHANGED <<sock, readList, names, lastSeen, gone, backTo>>

\* unwrap() returns or raises once its own goodbye is sent and the peer has
\* answered or gone, or sent something else; disconnect() then closes the
\* socket either way.
FarewellEnds ==
    /\ pc = "farewell"
    /\ peer[gone] # "open" \/ inbox[gone] > 0 \/ half[gone]
    /\ deaf[gone] => peer[gone] = "reset"
    /\ \/ /\ backTo # "close"
          /\ Drop(gone, backTo)
          /\ UNCHANGED todo
       \/ /\ backTo = "close"
          /\ sock' = [sock EXCEPT ![gone] = AfterClose(gone)]
          /\ todo' = todo \ {gone}
          /\ gone' = NoConn
          /\ pc' = "close"
          /\ UNCHANGED <<readList, names, lastSeen, backTo>>
    /\ UNCHANGED <<netVars, listener, clock, clients, orderVars, limitVars,
                   eventVars, srvReady, cur, now, lastPrint, callerVars>>

\* The rest of forget(): list.remove raises ValueError where reset() has
\* replaced the list since the test, and nothing catches it.
ForgetRemove ==
    /\ pc = "forget"
    /\ \/ /\ gone \in clients
          /\ clients' = clients \ {gone}
          /\ names' = names \ {gone}
          /\ lastSeen' = [lastSeen EXCEPT ![gone] = None]
          /\ gone' = NoConn
          /\ pc' = backTo
          /\ UNCHANGED <<todo, srvReady, cur, backTo, now, lastPrint>>
       \/ /\ gone \notin clients
          /\ Crash
          /\ UNCHANGED <<clients, names, lastSeen>>
    /\ UNCHANGED <<worldVars, readList, orderVars, limitVars, eventVars, callerVars>>

\* _serve, the receive() part.  With neither a whole frame nor an end of
\* stream, recv() blocks; a close by another thread does not wake it.
ReceiveBlocks ==
    /\ pc = "receive"
    /\ ~Dead(cur)
    /\ peer[cur] = "open"
    /\ inbox[cur] = 0
    /\ pc' = "stuck"
    /\ UNCHANGED <<worldVars, selfVars, threadVars, callerVars>>

\* Mutant: what is read is not noted as activity.
ReceiveUnstamped ==
    /\ \/ pc = "receive" /\ ~Dead(cur)
       \/ pc = "stuck"
    /\ inbox[cur] > 0
    /\ inbox' = [inbox EXCEPT ![cur] = @ - 1]
    /\ pc' = "handle"
    /\ UNCHANGED <<peer, half, hello, deaf, arrival, sock, listener, clock, tableVars,
                   clients, orderVars, limitVars, eventVars, threadVars, callerVars>>

\* A frame is read once all of it is there.
ReceiveFrame ==
    /\ \/ pc = "receive" /\ ~Dead(cur)
       \/ pc = "stuck"
    /\ inbox[cur] > 0
    /\ inbox' = [inbox EXCEPT ![cur] = @ - 1]
    /\ lastSeen' = [lastSeen EXCEPT ![cur] = now]
    /\ pc' = "handle"
    /\ UNCHANGED <<peer, half, hello, deaf, arrival, sock, listener, clock, readList,
                   names, clients, orderVars, limitVars, eventVars, threadVars,
                   callerVars>>

\* receive() raises, or returns nothing: the connection is forgotten.  A reset
\* may be reported before the frames that came ahead of it are read, and a
\* socket closed under a blocked recv() fails the recv() after it.
ReceiveFails ==
    /\ pc \in {"receive", "stuck"}
    /\ \/ pc = "receive" /\ Dead(cur)
       \/ pc = "stuck" /\ Dead(cur) /\ inbox[cur] > 0
       \/ peer[cur] = "reset"
       \/ peer[cur] = "closed" /\ inbox[cur] = 0
    /\ Forget(cur, "serve")
    /\ cur' = NoConn
    /\ UNCHANGED <<netVars, listener, clock, clients, orderVars, limitVars,
                   eventVars, todo, srvReady, now, lastPrint, callerVars>>

\* on_data() answers: the send of answer() finds room in the buffers, ...
OnDataAnswers ==
    /\ pc = "handle"
    /\ ~Dead(cur)
    /\ peer[cur] # "reset"
    /\ ~deaf[cur]
    /\ cur' = NoConn
    /\ pc' = "serve"
    /\ UNCHANGED <<worldVars, selfVars, todo, srvReady, gone, backTo, now,
                   lastPrint, callerVars>>

\* ... or waits for it: an accepted socket is blocking and has no timeout.
AnswerBlocks ==
    /\ pc = "handle"
    /\ ~Dead(cur)
    /\ peer[cur] # "reset"
    /\ deaf[cur]
    /\ pc' = "answering"
    /\ UNCHANGED <<worldVars, selfVars, threadVars, callerVars>>

\* The peer has read: the send returns, though reset() may have closed the
\* socket under it, which does not wake it.
AnswerEnds ==
    /\ pc = "answering"
    /\ peer[cur] # "reset"
    /\ ~deaf[cur]
    /\ cur' = NoConn
    /\ pc' = "serve"
    /\ UNCHANGED <<worldVars, selfVars, todo, srvReady, gone, backTo, now,
                   lastPrint, callerVars>>

\* on_data() raises: a header that does not parse, a data handler's own
\* exception, a response that cannot be built, a send that fails at once, or
\* after it waited, because the peer or the socket is gone.
OnDataRaises ==
    /\ \/ pc = "handle"
       \/ pc = "answering" /\ peer[cur] = "reset"
       \/ pc = "answering" /\ Dead(cur) /\ ~deaf[cur]
    /\ Forget(cur, "serve")
    /\ cur' = NoConn
    /\ UNCHANGED <<netVars, listener, clock, clients, orderVars, limitVars,
                   eventVars, todo, srvReady, now, lastPrint, callerVars>>

\* _sweep_inactive forgets a stale connection ...
SweepOne(c) ==
    /\ pc = "sweep"
    /\ c \in readList
    /\ Stale(c)
    /\ Forget(c, "sweep")
    /\ UNCHANGED <<netVars, listener, clock, clients, orderVars, limitVars,
                   eventVars, todo, srvReady, cur, now, lastPrint, callerVars>>

\* ... and returns once it has seen them all.
SweepDone ==
    /\ pc = "sweep"
    /\ \A c \in readList : ~Stale(c)
    /\ pc' = "status"
    /\ UNCHANGED <<worldVars, selfVars, threadVars, callerVars>>

\* The status line of run(), printed in processing mode once per period.
\* get_peers() asks every client socket for its peer, which a reset or closed
\* one does not have.
StatusDue == processing /\ lastPrint + PrintPeriod < now

Status ==
    /\ pc = "status"
    /\ \/ /\ StatusDue
          /\ \E c \in readList : peer[c] = "reset" \/ Dead(c)
          /\ Crash
       \/ /\ StatusDue
          /\ \A c \in readList : peer[c] # "reset" /\ ~Dead(c)
          /\ lastPrint' = now
          /\ pc' = "loop"
          /\ UNCHANGED <<todo, srvReady, cur, gone, backTo, now>>
       \/ /\ ~StatusDue
          /\ pc' = "loop"
          /\ UNCHANGED threadVars
    /\ UNCHANGED <<worldVars, selfVars, callerVars>>

\* _close_listener, one client: its log line calls getsockname(), which
\* raises on a socket reset() has closed.
CloseOne(c) ==
    /\ pc = "close"
    /\ c \in todo
    /\ \/ /\ Dead(c)
          /\ Crash
          /\ UNCHANGED sock
       \/ /\ ~Dead(c)
          /\ ~Secure
          /\ sock' = [sock EXCEPT ![c] = AfterClose(c)]
          /\ todo' = todo \ {c}
          /\ UNCHANGED <<pc, srvReady, cur, gone, backTo, now, lastPrint>>
       \/ /\ ~Dead(c)
          /\ Secure
          /\ pc' = "farewell"
          /\ gone' = c
          /\ backTo' = "close"
          /\ UNCHANGED <<sock, todo, srvReady, cur, now, lastPrint>>
    /\ UNCHANGED <<netVars, listener, clock, selfVars, callerVars>>

\* _close_listener's last statement and the end of run().
CloseListener ==
    /\ pc = "close"
    /\ todo = {}
    /\ listener' = "closed"
    /\ started' = FALSE
    /\ pc' = "ended"
    /\ UNCHANGED <<netVars, sock, clock, tableVars, clients, orderVars, limitVars,
                   quit, newConn, threadVars, callerVars>>

Thread ==
    \/ BindFails
    \/ OpenListener
    \/ Loop
    \/ SelectReturns
    \/ NothingToAccept
    \/ \E c \in Conns : Refuse(c) \/ Accept(c) \/ AcceptSecure(c)
    \/ HandshakeDone
    \/ HandshakeFails
    \/ HandshakeBreaks
    \/ \E c \in Conns : ServeNext(c)
    \/ ServeDone
    \/ FarewellEnds
    \/ ForgetRemove
    \/ ReceiveBlocks
    \/ ReceiveFrame
    \/ ReceiveFails
    \/ OnDataAnswers
    \/ AnswerBlocks
    \/ AnswerEnds
    \/ OnDataRaises
    \/ \E c \in Conns : SweepOne(c)
    \/ SweepDone
    \/ Status
    \/ \E c \in Conns : CloseOne(c)
    \/ CloseListener

-----------------------------------------------------------------------------
(* The callers of the public methods. *)

Over == pc \in {"ended", "crashed"}

\* start(): the thread is started, then polled for.
Start ==
    /\ cpc = "init"
    /\ cpc' = "starting"
    /\ pc' = "open"
    /\ processing' \in Modes
    /\ UNCHANGED <<worldVars, selfVars, threadVars, startResult, resetTodo,
                   resetCalled>>

\* Mutant: a listener that is not up yet is taken for a thread that is over.
StartLooksOnce(result) ==
    /\ cpc = "starting"
    /\ result = IF started THEN "ok" ELSE "ended"
    /\ startResult' = result
    /\ cpc' = "idle"
    /\ UNCHANGED <<worldVars, selfVars, pc, threadVars, processing, resetTodo,
                   resetCalled>>

StartReturns(result) ==
    /\ cpc = "starting"
    /\ \/ result = "ok" /\ started
       \/ result = "ended" /\ ~started /\ Over
       \/ result = "deadline" /\ ~started /\ ~Over
    /\ startResult' = result
    /\ cpc' = "idle"
    /\ UNCHANGED <<worldVars, selfVars, pc, threadVars, processing, resetTodo,
                   resetCalled>>

\* stop(), from any thread at any time.
Stop ==
    /\ "stop" \in CallerMay
    /\ ~quit
    /\ quit' = TRUE
    /\ UNCHANGED <<worldVars, tableVars, clients, orderVars, limitVars, started,
                   newConn, pc, threadVars, callerVars>>

\* set_connection_limit(), from any thread at any time.
SetConnectionLimit(n) ==
    /\ "limit" \in CallerMay
    /\ n # limit
    /\ limit' = n
    /\ topLimit' = IF n > topLimit THEN n ELSE topLimit
    /\ UNCHANGED <<worldVars, tableVars, clients, orderVars, eventVars, pc,
                   threadVars, callerVars>>

\* accept() in manual mode: the test of the live list, ...
AcceptCall ==
    /\ "accept" \in CallerMay
    /\ ~processing
    /\ cpc = "idle"
    /\ cpc' = IF clients = {} THEN "acc_clear" ELSE "acc_pop"
    /\ UNCHANGED <<worldVars, selfVars, pc, threadVars, processing, startResult,
                   resetTodo, resetCalled>>

\* ... the event cleared, ...
AcceptClear ==
    /\ cpc = "acc_clear"
    /\ newConn' = FALSE
    /\ cpc' = "acc_wait"
    /\ UNCHANGED <<worldVars, tableVars, clients, orderVars, limitVars, quit,
                   started, pc, threadVars, processing, startResult, resetTodo,
                   resetCalled>>

\* ... the wait, which ends on the event or on the caller's timeout, ...
AcceptWait ==
    /\ cpc = "acc_wait"
    /\ cpc' = "acc_pop"
    /\ UNCHANGED <<worldVars, selfVars, pc, threadVars, processing, startResult,
                   resetTodo, resetCalled>>

\* Mutant: the newest client is handed out.
Last(c) == c \in clients /\ \A d \in clients : stamp[c] >= stamp[d]

\* ... and the first client handed out, or (None, None).
First(c) == /\ c \in clients
            /\ \A d \in clients : stamp[c] <= stamp[d]

AcceptPop ==
    /\ cpc = "acc_pop"
    /\ cpc' = "idle"
    /\ \/ /\ clients = {}
          /\ UNCHANGED <<clients, sock>>
       \/ \E c \in Conns :
             /\ First(c)
             /\ clients' = clients \ {c}
             /\ sock' = [sock EXCEPT ![c] = "handed"]
    /\ UNCHANGED <<netVars, listener, clock, tableVars, orderVars, limitVars,
                   eventVars, pc, threadVars, processing, startResult, resetTodo,
                   resetCalled>>

\* reset(): the live list is copied, ...
ResetCall ==
    /\ "reset" \in CallerMay
    /\ cpc = "idle"
    /\ cpc' = "resetting"
    /\ resetTodo' = clients
    /\ resetCalled' = TRUE
    /\ UNCHANGED <<worldVars, selfVars, pc, threadVars, processing, startResult>>

\* ... every socket of the copy closed with a zero linger time, ...
ResetOne(c) ==
    /\ cpc = "resetting"
    /\ c \in resetTodo
    /\ resetTodo' = resetTodo \ {c}
    /\ sock' = [sock EXCEPT ![c] = IF @ = "open" THEN "aborted" ELSE @]
    /\ UNCHANGED <<netVars, listener, clock, selfVars, pc, threadVars,
                   processing, cpc, startResult, resetCalled>>

\* ... the list replaced and the server stopped.
ResetDone ==
    /\ cpc = "resetting"
    /\ resetTodo = {}
    /\ cpc' = "idle"
    /\ clients' = {}
    /\ quit' = TRUE
    /\ UNCHANGED <<worldVars, tableVars, orderVars, limitVars, started, newConn,
                   pc, threadVars, processing, startResult, resetTodo,
                   resetCalled>>

Callers ==
    \/ Start
    \/ \E r \in {"ok", "ended", "deadline"} : StartReturns(r)
    \/ Stop
    \/ \E n \in 0 .. Cardinality(Conns) : SetConnectionLimit(n)
    \/ AcceptCall
    \/ AcceptClear
    \/ AcceptWait
    \/ AcceptPop
    \/ ResetCall
    \/ \E c \in Conns : ResetOne(c)
    \/ ResetDone

Next == Peers \/ Tick \/ Thread \/ Callers

Spec == Init /\ [][Next]_vars

\* The thread is scheduled; what a peer, the clock or a caller does is not
\* owed to anyone.
FairSpec == Spec /\ WF_vars(Thread)

-----------------------------------------------------------------------------
(* Properties. *)

\* The connection inside forget() is the only one the tables may disagree on.
Leaving == IF gone = NoConn THEN {} ELSE {gone}

\* forget(): "the read list and the bookkeeping that shadows it have to fall
\* away together".  In processing mode the read list, the peer names and the
\* activity times always name the same connections, and the live list names
\* no other, whatever peers and callers do in between.
TablesAgree ==
    processing =>
        /\ names = readList \cup Leaving
        /\ {c \in Conns : lastSeen[c] # None} = names
        /\ clients \subseteq names

\* Every socket the server accepted and has not closed is one that stop()
\* still reaches: in processing mode it is in the read list.
OpenIsTracked ==
    processing => \A c \in Conns : sock[c] = "open" => c \in readList

\* A run() that returns leaves no socket behind: in processing mode no client
\* socket is open, and the listener is not open in any mode.
EndsClean ==
    pc = "ended" => /\ listener # "open"
                    /\ processing => \A c \in Conns : sock[c] # "open"

\* A peer that reset its connection, or broke off a TLS handshake.
Spoiled(c) == \/ peer[c] = "reset"
              \/ hello[c] = "bad"
              \/ Secure /\ hello[c] = "none" /\ peer[c] = "closed"

\* An exception leaves run() only where a peer reset its connection or broke
\* off a handshake, or a caller used reset(): a peer that closes, goes silent
\* or sends what cannot be answered never ends the thread.
CrashHasCause ==
    pc = "crashed" => resetCalled \/ \E c \in Conns : Spoiled(c)

\* recv() blocks the thread only on a peer that stopped inside a frame: what
\* select reported is still there when its turn comes, however many frames
\* and other connections came before it.
HeldOnlyInsideAFrame ==
    pc = "stuck" => half[cur] \/ inbox[cur] > 0 \/ peer[cur] # "open"

\* connection_limit: the server never serves more clients at once than the
\* largest limit that was ever set.
WithinLimit == Cardinality(readList) <= topLimit

\* The inactivity sweep closes no connection over bytes nobody has read: what
\* was there when the pass began, a whole frame or the first part of one, was
\* read before the sweep, and the connection stamped with this pass.  (Bytes
\* that arrive after select returned are the next pass's.)
SweepsOnlyWhatWasRead ==
    \A c \in Conns :
        SweepOne(c) /\ (inbox[c] > 0 \/ half[c]) => arrival[c] >= now
SweepReadsFirst == [][SweepsOnlyWhatWasRead]_vars

\* "An idle client goes, a busy one stays": the sweep only closes a connection
\* on which nothing arrived within the timeout before the pass began.  It holds
\* where the thread waits for nobody (SweepIsJust).  The code stamps what it
\* reads with the beginning of the pass that read it, so that a handshake or a
\* frame the thread waited for counts as older than it is, and with either the
\* formula does not hold.
SweepsOnlyTheSilent ==
    \A c \in Conns : SweepOne(c) => \/ arrival[c] + Timeout < now
                                    \/ arrival[c] >= now
SweepSparesTheActive == [][SweepsOnlyTheSilent]_vars

\* accept(): handing out a connection the server still owns "would give a
\* single socket two owners".
OneOwner ==
    \A c \in Conns : sock[c] = "handed" => c \notin readList \cup clients

\* accept() "returns the first one": a connection still waiting in the live
\* list was accepted after every connection handed out so far.
HandedInOrder ==
    \A c, d \in Conns :
        sock[c] = "handed" /\ d \in clients => stamp[c] < stamp[d]

\* What the thread waits for without a timeout is a peer's: the rest of a
\* frame, its part of a handshake, room for an answer, its answer to a goodbye.
AtThePeersMercy == pc \in {"stuck", "handshake", "answering", "farewell"}
PeersLetGo == []<>~AtThePeersMercy

\* stop() ends the thread, and so does reset(), whose last step it is, if
\* peers do not hold it for ever.
StopAlwaysEnds == (quit /\ pc # "new") ~> Over
StopEnds == PeersLetGo => StopAlwaysEnds

\* A peer that connects is accepted or refused while the server runs.
ConnectionAnswered ==
    PeersLetGo =>
        \A c \in Conns : (sock[c] = "queued") ~> (sock[c] # "queued" \/ Over)

\* start() raises "the server thread ended before the listener ... came up"
\* where it did not come up, and else only of a server that was stopped or
\* crashed before start() looked: run() clears the event start() polls, and a
\* server that came up and ended is reported as one that never did.
StartReportsTheEnd ==
    startResult = "ended" => listener = "none" \/ quit \/ pc = "crashed"

\* _sweep_inactive: "close every connection that has been silent past the
\* timeout": a served connection that is overdue does not stay so for ever.
Overdue(c) == /\ c \in readList
              /\ sock[c] = "open"
              /\ lastSeen[c] + Timeout < clock
SilentIsClosed ==
    PeersLetGo =>
        \A c \in Conns : Overdue(c) ~> (~Overdue(c) \/ pc = "crashed")

\* "A client that vanishes must not take the server thread with it."
ServerSurvives == pc # "crashed"

=============================================================================
