------------------------------ MODULE RtuStream ------------------------------
(***************************************************************************)
(* ModbusRtuStream (transport/rtu.py): receive() and send() over a port    *)
(* whose reads return what is there, or nothing once a timeout elapses.    *)
(* A device at the other end answers what it is sent, late perhaps or not  *)
(* at all.  The bytes of the n-th frame sent, as the transceiver echoes    *)
(* them, and those of its reply are known by frame numbers of their own.   *)
(***************************************************************************)
EXTENDS RtuFraming, FiniteSets

CONSTANTS
    Lines,       \* the byte sequences the other end may put on the line unasked
    Echoes,      \* the values of echo ModbusRtuStream is made with
    Sends,       \* the frames send() is called with, as byte values
    Answers,     \* the replies to them
    LineMay,     \* "late": bytes arrive after the timeout has elapsed;
                 \* "collide": an echo is corrupted;
                 \* "fail": the port fails, or writes short
    MaxFrame,    \* MAX_RTU_FRAME (256): a bound
    MaxSends     \* bound: calls of send()

\* The frame numbers of the n-th frame sent and of its reply, behind those of
\* the line.
EchoNo(n) == 100 + 2 * n
ReplyNo(n) == EchoNo(n) + 1

\* A frame begins with this byte.
Starts(byte) == byte.frame # 0 /\ byte.pos = 1

\* The frames of a line are numbered in their order, up to EchoNo(0).
ASSUME StreamAssumption ==
    /\ Lines \subseteq Seq(Byte)
    /\ \A l \in Lines :
          /\ \A k \in 1 .. Len(l) : l[k].frame <= EchoNo(0)
          /\ \A j, k \in 1 .. Len(l) :
                j < k /\ Starts(l[j]) /\ Starts(l[k]) => l[j].frame < l[k].frame
    /\ Sends \subseteq Seq(Values) /\ Answers \subseteq Seq(Values)
    /\ Echoes \subseteq BOOLEAN
    /\ LineMay \subseteq {"late", "collide", "fail"}
    /\ {MaxFrame, MaxSends} \subseteq Nat

VARIABLES
    echo,       \* self.echo
    line,       \* bytes still to arrive
    inbox,      \* bytes the port holds
    buffer,     \* self._buffer
    noise,      \* self._noise: bytes discarded in this receive()
    pc,         \* where the caller of receive() or send() is
    message,    \* the frame send() was called with
    heard,      \* what it has read back so far
    sends,      \* calls of send() so far
    got,        \* the frames receive() has returned (history)
    result,     \* how the last call ended (history)
    replies,    \* the frames the other end has put on the line (history)
    settled,    \* no send() was called with one of them outstanding (history)
    astray      \* bytes of an echo may be where replies are read (history)

vars == <<echo, line, inbox, buffer, noise, pc, message, heard, sends, got, result,
          replies, settled, astray>>
callVars == <<echo, message, heard, sends, replies, settled, astray>>

Labelled(values, n) ==
    [k \in 1 .. Len(values) |->
        [value |-> values[k], frame |-> n, pos |-> k, of |-> Len(values)]]

ValuesOf(bytes) == [k \in 1 .. Len(bytes) |-> bytes[k].value]

Returned == {got[k] : k \in 1 .. Len(got)}

TypeOK ==
    /\ echo \in Echoes
    /\ line \in Seq(Byte)
    /\ inbox \in Seq(Byte)
    /\ buffer \in Seq(Byte)
    /\ noise \in BOOLEAN
    /\ pc \in {"idle", "receive", "read", "silence", "scan", "echo", "drain"}
    /\ message \in Sends \cup {<<>>}
    /\ heard \in Seq(Byte) /\ Len(heard) <= Len(message)
    /\ sends \in 0 .. MaxSends
    /\ got \in Seq(Nat)
    /\ result \in {"none", "frame", "timeout", "garbage", "sent", "collision", "failed"}
    /\ replies \subseteq Nat
    /\ {settled, astray} \subseteq BOOLEAN

Init ==
    /\ echo \in Echoes
    /\ line \in Lines
    /\ inbox = <<>> /\ buffer = <<>>
    /\ noise = FALSE
    /\ pc = "idle"
    /\ message = <<>> /\ heard = <<>>
    /\ sends = 0
    /\ got = <<>>
    /\ result = "none"
    /\ replies = {line[k].frame : k \in 1 .. Len(line)} \ {0}
    /\ settled = TRUE
    /\ astray = FALSE

-----------------------------------------------------------------------------
(* The port. *)

\* The next byte of the line arrives.
Arrive ==
    /\ line # <<>>
    /\ inbox' = Append(inbox, Head(line))
    /\ line' = Tail(line)
    /\ UNCHANGED <<buffer, noise, pc, callVars, got, result>>

\* port.read(size) returns the first n bytes, for one of these n.
Readable(size) == {n \in 1 .. Len(inbox) : n <= size}

First(n) == SubSeq(inbox, 1, n)

PortReads(n) == inbox' = From(inbox, n + 1)

\* It returns none: the timeout has elapsed.
Quiet == /\ inbox = <<>>
         /\ line = <<>> \/ "late" \in LineMay

-----------------------------------------------------------------------------
(* receive(). *)

Receive ==
    /\ pc = "idle"
    /\ pc' = "receive"
    /\ noise' = FALSE
    /\ UNCHANGED <<line, inbox, buffer, callVars, got, result>>

\* Mutant: the frame returned stays in the buffer.
ReturnKeeps(length) ==
    /\ got' = Append(got, buffer[1].frame)
    /\ result' = "frame"
    /\ pc' = "idle"
    /\ UNCHANGED buffer

\* _take() and return.
Return(length) ==
    /\ got' = Append(got, buffer[1].frame)
    /\ buffer' = From(buffer, length + 1)
    /\ result' = "frame"
    /\ pc' = "idle"

TakeFrame ==
    /\ pc = "receive"
    /\ ReadRtuFrame(buffer).found
    /\ Return(ReadRtuFrame(buffer).length)
    /\ UNCHANGED <<line, inbox, noise, callVars>>

\* Nothing sizes what starts here, and nothing has been discarded before it.
NoSizeStated ==
    /\ pc = "receive"
    /\ ~ReadRtuFrame(buffer).sizable
    /\ ~noise
    /\ pc' = "silence"
    /\ UNCHANGED <<line, inbox, buffer, noise, callVars, got, result>>

\* Mutant: all that is held is dropped.
DiscardAll ==
    /\ pc = "receive"
    /\ ~ReadRtuFrame(buffer).found /\ ~ReadRtuFrame(buffer).incomplete
    /\ buffer' = <<>>
    /\ noise' = TRUE
    /\ UNCHANGED <<line, inbox, pc, callVars, got, result>>

\* _discard()
Discard ==
    /\ pc = "receive"
    /\ LET read == ReadRtuFrame(buffer)
       IN ~read.found /\ ~read.incomplete /\ (read.sizable \/ noise)
    /\ buffer' = Tail(buffer)
    /\ noise' = TRUE
    /\ UNCHANGED <<line, inbox, pc, callVars, got, result>>

WantMore ==
    /\ pc = "receive"
    /\ ReadRtuFrame(buffer).incomplete
    /\ pc' = "read"
    /\ UNCHANGED <<line, inbox, buffer, noise, callVars, got, result>>

\* The read the verdict asked for.
ReadWanted ==
    /\ pc = "read"
    /\ \E n \in Readable(ReadRtuFrame(buffer).wanted) :
          buffer' = buffer \o First(n) /\ PortReads(n)
    /\ pc' = "receive"
    /\ UNCHANGED <<line, noise, callVars, got, result>>

\* Mutant: an empty read is tried again.
ReadAgain == pc = "read" /\ Quiet /\ UNCHANGED vars

ReadQuiet ==
    /\ pc = "read"
    /\ Quiet
    /\ pc' = "scan"
    /\ UNCHANGED <<line, inbox, buffer, noise, callVars, got, result>>

\* _receive_by_silence(): read on, up to the largest frame.
ReadToSilence ==
    /\ pc = "silence"
    /\ Len(buffer) < MaxFrame
    /\ \E n \in Readable(MaxFrame - Len(buffer)) :
          buffer' = buffer \o First(n) /\ PortReads(n)
    /\ UNCHANGED <<line, noise, pc, callVars, got, result>>

\* Then the whole buffer is a frame, or it is scanned.
JudgeSilence ==
    /\ pc = "silence"
    /\ Len(buffer) >= MaxFrame \/ Quiet
    /\ IF ChecksumHolds(buffer)
       THEN Return(Len(buffer))
       ELSE pc' = "scan" /\ UNCHANGED <<buffer, got, result>>
    /\ UNCHANGED <<line, inbox, noise, callVars>>

\* _receive_after_silence(): an incomplete verdict is a rejection.
ScanFinds ==
    /\ pc = "scan"
    /\ ReadRtuFrame(buffer).found
    /\ Return(ReadRtuFrame(buffer).length)
    /\ UNCHANGED <<line, inbox, noise, callVars>>

ScanDiscards ==
    /\ pc = "scan"
    /\ Len(buffer) >= MinFrame
    /\ ~ReadRtuFrame(buffer).found
    /\ buffer' = Tail(buffer)
    /\ noise' = TRUE
    /\ UNCHANGED <<line, inbox, pc, callVars, got, result>>

\* Nothing arrived, or what did framed to nothing; what is left of it goes.
ScanFails ==
    /\ pc = "scan"
    /\ Len(buffer) < MinFrame
    /\ result' = IF buffer = <<>> THEN "timeout" ELSE "garbage"
    /\ buffer' = <<>>
    /\ pc' = "idle"
    /\ UNCHANGED <<line, inbox, noise, callVars, got>>

-----------------------------------------------------------------------------
(* send(). *)

\* What the transceiver puts before the reader of the first bytes of a frame:
\* these, or others where they collide with another sender's.
EchoesOf(bytes) ==
    {bytes} \cup (IF "collide" \in LineMay
                  THEN {Labelled([k \in 1 .. Len(bytes) |-> 0], 0)}
                  ELSE {})

\* The port has written the first bytes of a frame; the device may answer a
\* whole one.
Written(frame, bytes) ==
    /\ IF echo THEN \E heardBack \in EchoesOf(bytes) : inbox' = inbox \o heardBack
       ELSE UNCHANGED inbox
    /\ \/ UNCHANGED <<line, replies>>
       \/ /\ Len(bytes) = Len(frame)
          /\ \E answer \in Answers : line' = line \o Labelled(answer, ReplyNo(sends'))
          /\ replies' = replies \cup {ReplyNo(sends')}

Call(frame) ==
    /\ pc = "idle"
    /\ sends < MaxSends
    /\ sends' = sends + 1
    /\ message' = frame
    /\ heard' = <<>>
    /\ settled' = (settled /\ replies \subseteq Returned)

\* write() takes the frame; without an echo that is all.
Send(frame) ==
    /\ Call(frame)
    /\ Written(frame, Labelled(frame, EchoNo(sends')))
    /\ IF echo THEN pc' = "echo" /\ UNCHANGED result
       ELSE result' = "sent" /\ UNCHANGED pc
    /\ UNCHANGED <<echo, buffer, noise, got, astray>>

\* write() raises, or takes the first bytes only: send() raises, and reads
\* nothing back.
SendFails(frame) ==
    /\ "fail" \in LineMay
    /\ Call(frame)
    /\ \E n \in 0 .. Len(frame) :
          /\ Written(frame, SubSeq(Labelled(frame, EchoNo(sends')), 1, n))
          /\ astray' = (astray \/ (echo /\ n > 0))
    /\ result' = "failed"
    /\ UNCHANGED <<echo, pc, buffer, noise, got>>

\* _read_exactly(len(message))
ReadEcho ==
    /\ pc = "echo"
    /\ Len(heard) < Len(message)
    /\ \E n \in Readable(Len(message) - Len(heard)) :
          heard' = heard \o First(n) /\ PortReads(n)
    /\ UNCHANGED <<echo, line, buffer, noise, pc, message, sends, got, result,
                   replies, settled, astray>>

\* What was heard is the frame, or whatever is on the line goes with it.
JudgeEcho ==
    /\ pc = "echo"
    /\ Len(heard) = Len(message) \/ Quiet
    /\ IF ValuesOf(heard) = message
       THEN /\ pc' = "idle" /\ result' = "sent"
            /\ astray' = (astray \/ \E k \in 1 .. Len(heard) : heard[k].frame # EchoNo(sends))
       ELSE pc' = "drain" /\ UNCHANGED <<result, astray>>
    /\ heard' = <<>>
    /\ UNCHANGED <<echo, line, inbox, buffer, noise, message, sends, got, replies, settled>>

\* Mutant: the rest of the line is not drained.
DrainNothing ==
    /\ pc = "drain"
    /\ buffer' = <<>>
    /\ pc' = "idle"
    /\ result' = "collision"
    /\ astray' = FALSE
    /\ UNCHANGED <<echo, line, inbox, noise, message, heard, sends, got, replies, settled>>

\* _drain(), then the error.
Drain ==
    /\ pc = "drain"
    /\ \/ /\ \E n \in Readable(MaxFrame) : PortReads(n)
          /\ UNCHANGED <<buffer, pc, result, astray>>
       \/ /\ Quiet
          /\ buffer' = <<>>
          /\ pc' = "idle"
          /\ result' = "collision"
          /\ astray' = FALSE
          /\ UNCHANGED inbox
    /\ UNCHANGED <<echo, line, noise, message, heard, sends, got, replies, settled>>

-----------------------------------------------------------------------------
(* The port. *)

\* A read fails: the call raises, and leaves everything as it is.
ReadFails ==
    /\ "fail" \in LineMay
    /\ pc \in {"read", "silence", "echo", "drain"}
    /\ pc' = "idle"
    /\ result' = "failed"
    /\ astray' = (astray \/ pc \in {"echo", "drain"})
    /\ heard' = <<>>
    /\ UNCHANGED <<echo, line, inbox, buffer, noise, message, sends, got, replies, settled>>

-----------------------------------------------------------------------------

Receiving == TakeFrame \/ NoSizeStated \/ Discard \/ WantMore \/ ReadWanted
                \/ ReadQuiet \/ ReadToSilence \/ JudgeSilence \/ ScanFinds
                \/ ScanDiscards \/ ScanFails

Sending == ReadEcho \/ JudgeEcho \/ Drain

Next ==
    \/ Arrive
    \/ Receive
    \/ Receiving
    \/ \E frame \in Sends : Send(frame) \/ SendFails(frame)
    \/ Sending
    \/ ReadFails

Spec == Init /\ [][Next]_vars

\* The caller runs, and what is on the line arrives.
FairSpec == Spec /\ WF_vars(Receiving \/ Sending) /\ WF_vars(Arrive)

-----------------------------------------------------------------------------
(* Properties. *)

\* Frames are returned once each, those of the other end in the order it put
\* them on the line, whatever of an echo comes in between.
InOrder ==
    \A i, j \in 1 .. Len(got) :
        i < j => /\ got[i] # got[j]
                 /\ {got[i], got[j]} \subseteq replies => got[i] < got[j]

\* No step of receive() drops a frame that is whole and can be sized, whatever
\* it does about the bytes around it: such a frame is returned or stays.
KeepsWholeFrames ==
    [][Receiving => FramesIn(buffer) \subseteq
                        FramesIn(buffer') \cup {got'[k] : k \in 1 .. Len(got')}]_vars

\* "Whatever else is on the line belongs to this failure": with the echo read
\* back, no byte of it is ever taken for a part of a reply.  The code loses
\* hold of an echo where the port fails it before the echo is read, and where
\* a reply that came late reads, byte for byte, as the frame written; until
\* _drain() has run to its end, nothing is said then.
EchoStaysOut ==
    ~astray => \A k \in 1 .. Len(buffer) : \A n \in 1 .. sends : buffer[k].frame # EchoNo(n)

\* An RTU reply does not say what it answers.  A caller who makes no request
\* before it has the reply to every earlier one (and to whatever came unasked)
\* gets the reply to that request, or none: no frame is returned twice, held
\* back, or put together of two, whatever noise, silence and failures fall in
\* between.
ReplyIsCurrent ==
    pc = "idle" /\ result = "frame" /\ sends > 0 /\ settled /\ ~astray =>
        got[Len(got)] = ReplyNo(sends)

\* A call returns, or raises, however the line fell silent.
CallsEnd == pc # "idle" ~> pc = "idle"

=============================================================================
