------------------------------- MODULE Frames -------------------------------
(***************************************************************************)
(* A connection's bytes and the lines they make: recv hands over what has  *)
(* come, cut anywhere, and LineBuffer keeps the beginning of the line that *)
(* is not complete.  A line is its length, a byte a letter or a newline.   *)
(***************************************************************************)
EXTENDS Naturals, Sequences

CONSTANTS
  MaxLine,      \* MAX_LINE
  MaxBytes      \* bytes that are sent on the connection

ASSUME FramesAssumption == {MaxLine, MaxBytes} \subseteq Nat

VARIABLES
  received,     \* history: all bytes the listener has read
  buffered,     \* LineBuffer.buffer: letters of the incomplete line
  lines,        \* the lines handed to decode_frame
  connected

framesVars == <<received, buffered, lines, connected>>

FramesInit == received = <<>> /\ buffered = 0 /\ lines = <<>> /\ connected = TRUE

Bytes == {"letter", "newline"}

FramesTypeOK ==
  /\ received \in Seq(Bytes) /\ Len(received) <= MaxBytes
  /\ buffered \in 0..MaxLine /\ lines \in Seq(1..MaxLine)
  /\ connected \in BOOLEAN

\* One more byte of the incomplete line, or its end; an empty line is none.
Grow(parts, byte) ==
  IF byte = "letter" THEN [parts EXCEPT ![Len(parts)] = @ + 1]
  ELSE IF parts[Len(parts)] = 0 THEN parts ELSE Append(parts, 0)

\* split(b"\n"): the lengths of the lines that are not empty, the incomplete one (or 0) at
\* the end.
Split(bytes) ==
  LET upTo[i \in 0..Len(bytes)] == IF i = 0 THEN <<0>> ELSE Grow(upTo[i - 1], bytes[i])
  IN  upTo[Len(bytes)]

Letters(n) == [i \in 1..n |-> "letter"]
Complete(parts) == SubSeq(parts, 1, Len(parts) - 1)

\* Mistaken variant: only the lines that are complete are measured.
TooLongComplete(parts) == \E i \in 1..(Len(parts) - 1) : parts[i] > MaxLine

TooLong(parts) == \E i \in 1..Len(parts) : parts[i] > MaxLine

\* A line over the limit, complete or not, ends the connection, with all the lines that
\* have come in the same read.
Feed(data) ==
  LET parts == Split(Letters(buffered) \o data) IN
  /\ connected /\ Len(received) + Len(data) <= MaxBytes
  /\ received' = received \o data
  /\ IF TooLong(parts)
       THEN connected' = FALSE /\ UNCHANGED <<buffered, lines>>
       ELSE /\ lines' = lines \o Complete(parts)
            /\ buffered' = parts[Len(parts)]
            /\ UNCHANGED connected

Chunks == UNION {[1..n -> Bytes] : n \in 1..MaxBytes}

FramesNext == \E data \in Chunks : Feed(data)

FramesSpec == FramesInit /\ [][FramesNext]_framesVars

-----------------------------------------------------------------------------
\* However the bytes are cut, the lines are those of the whole stream, none twice and
\* none in two pieces, as long as the connection lasts and up to its end; and no more
\* than a line of the permitted length is ever kept.
LinesAreWhole ==
  /\ buffered <= MaxLine
  /\ connected => lines = Complete(Split(received))
  /\ ~connected =>
       /\ lines = SubSeq(Complete(Split(received)), 1, Len(lines))
       /\ TooLong(Split(received))
=============================================================================
