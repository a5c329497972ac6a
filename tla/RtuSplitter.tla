----------------------------- MODULE RtuSplitter -----------------------------
(***************************************************************************)
(* ModbusRtuSplitter (transport/rtu.py): bytes are pushed in as they       *)
(* arrive, in pieces of any size, and whole frames come out.               *)
(***************************************************************************)
EXTENDS RtuFraming

CONSTANTS
    Lines,     \* the byte sequences that may come down the line
    MaxPush    \* bound: bytes pushed at once

ASSUME SplitterAssumption ==
    Lines \subseteq Seq(Byte) /\ MaxPush \in Nat \ {0}

VARIABLES
    line,      \* the bytes of the line, all of them
    fed,       \* how many of them have been pushed
    start,     \* how many had been when the splitter was last reset
    buffer,    \* self._buffer
    resyncs,   \* self._resyncs
    found,     \* the frames returned since then
    taking     \* inside push()

vars == <<line, fed, start, buffer, resyncs, found, taking>>

TypeOK ==
    /\ line \in Seq(Byte)
    /\ fed \in 0 .. Len(line) /\ start \in 0 .. fed
    /\ buffer \in Seq(Byte)
    /\ resyncs \in Nat
    /\ found \in Seq(Nat)
    /\ taking \in BOOLEAN

Init ==
    /\ line \in Lines
    /\ fed = 0 /\ start = 0
    /\ buffer = <<>>
    /\ resyncs = 0
    /\ found = <<>>
    /\ taking = FALSE

\* push(): the bytes are added, then frames taken as long as there are any.
Push ==
    /\ ~taking
    /\ \E n \in 1 .. MaxPush :
          /\ fed + n <= Len(line)
          /\ buffer' = buffer \o SubSeq(line, fed + 1, fed + n)
          /\ fed' = fed + n
    /\ taking' = TRUE
    /\ UNCHANGED <<line, start, resyncs, found>>

\* _take(): a frame at the head of the buffer is returned.
TakeFrame ==
    /\ taking
    /\ ReadRtuFrame(buffer).found
    /\ found' = Append(found, buffer[1].frame)
    /\ buffer' = From(buffer, ReadRtuFrame(buffer).length + 1)
    /\ UNCHANGED <<line, fed, start, resyncs, taking>>

\* Mutant: all that is held is dropped.
DiscardAll ==
    /\ taking /\ ~ReadRtuFrame(buffer).found /\ ~ReadRtuFrame(buffer).incomplete
    /\ buffer' = <<>>
    /\ resyncs' = resyncs + 1
    /\ UNCHANGED <<line, fed, start, found, taking>>

\* _discard(): no frame starts at the leading byte.
Discard ==
    /\ taking
    /\ ~ReadRtuFrame(buffer).found
    /\ ~ReadRtuFrame(buffer).incomplete
    /\ buffer' = Tail(buffer)
    /\ resyncs' = resyncs + 1
    /\ UNCHANGED <<line, fed, start, found, taking>>

\* Mutant: an incomplete frame is not held for the next call.
PushForgets ==
    /\ taking /\ ReadRtuFrame(buffer).incomplete
    /\ taking' = FALSE
    /\ buffer' = <<>>
    /\ UNCHANGED <<line, fed, start, resyncs, found>>

\* More bytes are needed.
PushReturns ==
    /\ taking
    /\ ReadRtuFrame(buffer).incomplete
    /\ taking' = FALSE
    /\ UNCHANGED <<line, fed, start, buffer, resyncs, found>>

\* reset()
Reset ==
    /\ ~taking
    /\ start # fed
    /\ buffer' = <<>>
    /\ resyncs' = 0
    /\ found' = <<>>
    /\ start' = fed
    /\ UNCHANGED <<line, fed, taking>>

Next == Push \/ TakeFrame \/ Discard \/ PushReturns \/ Reset

Spec == Init /\ [][Next]_vars

-----------------------------------------------------------------------------
(* Properties. *)

Pushed == SubSeq(line, start + 1, fed)

\* What one pass over some bytes comes to from each of them on.
PassOver(bytes) ==
    LET pass[k \in 1 .. Len(bytes) + 1] ==
            LET read == ReadRtuFrame(From(bytes, k)) IN
            IF read.found
            THEN [pass[k + read.length] EXCEPT !.found = <<bytes[k].frame>> \o @]
            ELSE IF read.incomplete
            THEN [found |-> <<>>, dropped |-> 0, held |-> From(bytes, k)]
            ELSE [pass[k + 1] EXCEPT !.dropped = @ + 1]
    IN pass

\* How often the line was pushed, and where it was cut, makes no difference:
\* what the splitter has found, discarded and holds is what one pass over all
\* the bytes since the last reset comes to.
OnePass == PassOver(Pushed)[1]

CutsDoNotMatter ==
    ~taking => /\ found = OnePass.found
               /\ resyncs = OnePass.dropped
               /\ buffer = OnePass.held

\* "A rejected frame costs one byte": whatever noise comes before a frame or
\* after it, and whatever it looks like, a whole frame that can be sized comes
\* out, or is held until a candidate ahead of it is decided.
NoFrameIsLost ==
    \A f \in FramesIn(Pushed) :
        \/ \E k \in 1 .. Len(found) : found[k] = f
        \/ f \in FramesIn(buffer)

\* What is held between calls is less than the longest frame any header could
\* announce.
HeldIsBounded ==
    ~taking => \E code, count \in Values :
                   Len(buffer) < 1 + Layout[code].head + count + CrcSize

=============================================================================
