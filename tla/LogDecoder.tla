----------------------------- MODULE LogDecoder -----------------------------
(***************************************************************************)
(* internal/source/docker/source.go: decodeMultiplexed and decodePlain,    *)
(* which turn what the Docker log reader delivers into lines.  A byte is   *)
(* "x" (text), "n" (line feed) or "r" (carriage return); a chunk is the    *)
(* payload of a frame, or of a read on a TTY.  Where Docker cuts a chunk   *)
(* is arbitrary.                                                           *)
(***************************************************************************)
EXTENDS Integers, Sequences

CONSTANTS
  MaxChunk,     \* bound on the length of a chunk
  MaxBytes      \* bound on the bytes delivered

VARIABLES
  tty,          \* the container has a TTY
  buffers,      \* buffers, or bufio's, per stream: what follows the last line feed
  out,          \* the lines emitted, per stream
  state,        \* the decoder reads, or has returned
  fed           \* history: the bytes delivered, per stream

decoderVars == <<tty, buffers, out, state, fed>>

Byte == {"x", "n", "r"}
Streams == {1, 2}           \* stdout and stderr; frames of others are skipped
Chunks == UNION { [1 .. k -> Byte] : k \in 0 .. MaxChunk }

DecoderInit ==
  /\ tty \in BOOLEAN
  /\ buffers = [s \in Streams |-> <<>>]
  /\ out = [s \in Streams |-> <<>>]
  /\ state = "reading"
  /\ fed = [s \in Streams |-> <<>>]

-----------------------------------------------------------------------------
(* strings.TrimSuffix(line, "\r")                                          *)
TrimCR(line) ==
  IF line # <<>> /\ line[Len(line)] = "r" THEN SubSeq(line, 1, Len(line) - 1) ELSE line

(* Definitions named Bad... are faulty variants used to test properties.   *)
BadCutLines(buffered, chunk) ==
  LET cut[i \in 0 .. Len(chunk)] ==
        IF i = 0
        THEN [lines |-> IF buffered = <<>> THEN <<>> ELSE <<buffered>>, rest |-> <<>>]
        ELSE LET acc == cut[i - 1]
             IN IF chunk[i] = "n"
                THEN [lines |-> Append(acc.lines, TrimCR(acc.rest)), rest |-> <<>>]
                ELSE [lines |-> acc.lines, rest |-> Append(acc.rest, chunk[i])]
  IN cut[Len(chunk)]

(* The loop that cuts a buffer at each line feed; what the buffer held     *)
(* before the chunk has none.                                              *)
CutLines(buffered, chunk) ==
  LET cut[i \in 0 .. Len(chunk)] ==
        IF i = 0 THEN [lines |-> <<>>, rest |-> buffered]
        ELSE LET acc == cut[i - 1]
             IN IF chunk[i] = "n"
                THEN [lines |-> Append(acc.lines, TrimCR(acc.rest)), rest |-> <<>>]
                ELSE [lines |-> acc.lines, rest |-> Append(acc.rest, chunk[i])]
  IN cut[Len(chunk)]

(* What is sent of some lines when the emit after the k-th one fails.      *)
Sent(lines, k) == SubSeq(lines, 1, k)

Emit(s, lines) == out' = [out EXCEPT ![s] = @ \o lines]

(* One chunk.  emit fails once the context is cancelled, and the decoder   *)
(* then returns.                                                           *)
Read(s, chunk) ==
  LET cut == CutLines(buffers[s], chunk)
  IN /\ state = "reading"
     /\ tty => s = 1
     /\ Len(fed[1]) + Len(fed[2]) + Len(chunk) <= MaxBytes
     /\ fed' = [fed EXCEPT ![s] = @ \o chunk]
     /\ buffers' = [buffers EXCEPT ![s] = cut.rest]
     /\ \/ Emit(s, cut.lines) /\ UNCHANGED state
        \/ \E k \in 0 .. Len(cut.lines) - 1 : Emit(s, Sent(cut.lines, k)) /\ state' = "failed"
     /\ UNCHANGED tty

Rest(s) ==
  IF buffers[s] = <<>>
  THEN <<>>
  ELSE <<IF tty THEN TrimCR(buffers[s]) ELSE buffers[s]>>

(* The reader fails, or ends inside a header or a payload.  On a TTY the   *)
(* unfinished line ReadString returned with the error is a line, unless    *)
(* its emit fails; decodeMultiplexed drops it.                             *)
ReadFails ==
  /\ state = "reading"
  /\ UNCHANGED out \/ (tty /\ Emit(1, Rest(1)))
  /\ state' = "failed"
  /\ UNCHANGED <<tty, buffers, fed>>

(* The end between two frames: what is buffered is a line; the order of    *)
(* the two streams is that of a Go map, and an emit may fail.              *)
EOF ==
  /\ state = "reading"
  /\ \/ /\ out' = [s \in Streams |-> out[s] \o Rest(s)]
        /\ state' = "ended"
     \/ /\ \A s \in Streams : Rest(s) # <<>>
        /\ \E s \in Streams : Emit(s, Rest(s))
        /\ state' = "failed"
  /\ UNCHANGED <<tty, buffers, fed>>

DecoderNext == (\E s \in Streams, chunk \in Chunks : Read(s, chunk)) \/ ReadFails \/ EOF

DecoderSpec == DecoderInit /\ [][DecoderNext]_decoderVars

-----------------------------------------------------------------------------
(* Properties                                                              *)

(* Where the line starts that goes on at the i-th byte, or would.          *)
LineStart(bytes, i) ==
  CHOOSE m \in 1 .. i : /\ m = 1 \/ bytes[m - 1] = "n"
                        /\ \A j \in m .. i - 1 : bytes[j] # "n"

(* The lines of a byte sequence, cut out of it at its line feeds.          *)
Complete(bytes) ==
  LET lines[i \in 0 .. Len(bytes)] ==
        IF i = 0 THEN <<>>
        ELSE IF bytes[i] = "n"
        THEN Append(lines[i - 1], TrimCR(SubSeq(bytes, LineStart(bytes, i), i - 1)))
        ELSE lines[i - 1]
  IN lines[Len(bytes)]

(* What follows the last line feed.                                        *)
Ending(bytes) == SubSeq(bytes, LineStart(bytes, Len(bytes) + 1), Len(bytes))

Unfinished(bytes, trimmed) ==
  IF Ending(bytes) = <<>> THEN <<>>
  ELSE <<IF trimmed THEN TrimCR(Ending(bytes)) ELSE Ending(bytes)>>

IsPrefixOf(a, b) == Len(a) <= Len(b) /\ a = SubSeq(b, 1, Len(a))

\* However Docker cut and interleaved the frames, each stream's emitted lines are,
\* in order, the complete lines of its bytes while the decoder reads; at a clean end
\* the unterminated last line too; and after a failure a prefix of these.  On a TTY
\* that prefix may end with an unfinished line, which decodePlain sends with the
\* timestamp of the whole one: what its replay makes of it is LogReplay's question.
LinesExact ==
  \A s \in Streams :
    LET all == Complete(fed[s]) \o Unfinished(fed[s], tty)
    IN CASE state = "reading" -> out[s] = Complete(fed[s])
         [] state = "ended"   -> out[s] = all
         [] state = "failed"  -> IsPrefixOf(out[s], all)
=============================================================================
