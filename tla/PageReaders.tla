------------------------------ MODULE PageReaders ------------------------------
(***************************************************************************)
(* The two readers of a raw session: streamRawText, which feeds the        *)
(* parsers, and consumeRawPreview, which feeds the Raw tab.  The network   *)
(* cuts the payload into chunks as it likes.                               *)
(*                                                                         *)
(* A payload is a sequence of bytes of which the model tells the newline   *)
(* from the rest; text is as long as its bytes.                            *)
(***************************************************************************)
EXTENDS Naturals, FiniteSets, Sequences, SequencesExt

CONSTANTS
  Newline, Other,           \* the bytes
  MaxPayload,               \* bound: bytes of a payload
  LineCap, PreviewByteCap,  \* RAW_PREVIEW_LINE_CAP, RAW_PREVIEW_BYTE_CAP
  TextByteCap               \* STREAM_RAW_TEXT_BYTE_CAP

ASSUME ReadersAssumption ==
  /\ Newline # Other /\ MaxPayload \in Nat
  /\ {LineCap, PreviewByteCap, TextByteCap} \subseteq Nat \ {0}

VARIABLES
  reader,      \* which of the two reads
  payload,     \* what the server sends
  reading,     \* "open", or how the read ended
  signalled,   \* the signal is aborted
  got,         \* bytes received
  text,        \* streamRawText: the text; consumeRawPreview: its buffer
  lines,       \* consumeRawPreview: the lines
  capped       \* truncated; reachedLineCap or reachedByteCap

readerVars == <<reader, payload, reading, signalled, got, text, lines, capped>>

Byte == {Newline, Other}

ReadersTypeOK ==
  /\ reader \in {"text", "preview"} /\ payload \in BoundedSeq(Byte, MaxPayload)
  /\ reading \in {"open", "success", "error", "aborted"}
  /\ signalled \in BOOLEAN /\ got \in 0 .. Len(payload)
  /\ IsPrefix(text, payload) \/ reader = "preview"
  /\ Len(lines) <= LineCap /\ capped \in {"no", "bytes", "lines"}

ReadersBegin(who, sent) ==
  /\ reader = who /\ payload = sent
  /\ reading = "open" /\ signalled = FALSE
  /\ got = 0 /\ text = <<>> /\ lines = <<>> /\ capped = "no"

ReadersInit == \E who \in {"text", "preview"}, sent \in BoundedSeq(Byte, MaxPayload) : ReadersBegin(who, sent)

-----------------------------------------------------------------------------

\* The next chunk the network delivers.
Chunks == {SubSeq(payload, got + 1, n) : n \in got + 1 .. Len(payload)}

\* streamRawText: a chunk that does not fit is cut at the cap and ends it.
TextChunk(chunk) ==
  LET room == TextByteCap - Len(text) IN
  /\ reader = "text"
  /\ IF Len(chunk) > room
       THEN text' = text \o SubSeq(chunk, 1, room) /\ capped' = "bytes" /\ reading' = "success"
       ELSE text' = text \o chunk /\ UNCHANGED <<capped, reading>>
  /\ UNCHANGED lines

\* The first newline of a text, or 0.
NewlineIn(t) == SelectInSeq(t, LAMBDA b : b = Newline)

\* The loop over the buffer: complete lines are taken until the line cap.
Buffer == [lines : Seq(Seq(Byte)), text : Seq(Byte)]
Drain[s \in Buffer] ==
  LET i == NewlineIn(s.text) IN
  IF i = 0 \/ Len(s.lines) >= LineCap THEN s
  ELSE Drain[[lines |-> Append(s.lines, SubSeq(s.text, 1, i - 1)),
              text |-> SubSeq(s.text, i + 1, Len(s.text))]]

\* Variant that drops what follows the last newline of a chunk.
DrainedFresh(chunk) == [Drain[[lines |-> lines, text |-> text \o chunk]] EXCEPT !.text = <<>>]

Drained(chunk) == Drain[[lines |-> lines, text |-> text \o chunk]]

\* consumeRawPreview: the line cap is looked at first.
PreviewChunk(chunk) ==
  /\ reader = "preview"
  /\ lines' = Drained(chunk).lines /\ text' = Drained(chunk).text
  /\ capped' = IF Len(lines') >= LineCap THEN "lines"
               ELSE IF got' >= PreviewByteCap THEN "bytes" ELSE "no"
  /\ reading' = IF capped' = "no" THEN "open" ELSE "success"

ChunkArrives ==
  /\ reading = "open"
  /\ \E chunk \in Chunks :
       /\ got' = got + Len(chunk)
       /\ TextChunk(chunk) \/ PreviewChunk(chunk)
  /\ UNCHANGED <<reader, payload, signalled>>

\* The stream ends; what is left in the buffer of a preview is a line.
StreamDone ==
  /\ reading = "open" /\ got = Len(payload) /\ ~signalled
  /\ reading' = "success"
  /\ IF reader = "preview" /\ text # <<>>
       THEN /\ lines' = Append(lines, text) /\ text' = <<>>
            /\ capped' = IF Len(lines') >= LineCap THEN "lines" ELSE capped
       ELSE UNCHANGED <<lines, text, capped>>
  /\ UNCHANGED <<reader, payload, signalled, got>>

NetworkFails ==
  /\ reading = "open" /\ ~signalled
  /\ reading' = "error"
  /\ UNCHANGED <<reader, payload, signalled, got, text, lines, capped>>

\* The listener cancels the stream; a chunk that has arrived by then is still
\* taken, and may end the read at a cap.
Abort ==
  /\ ~signalled /\ signalled' = TRUE
  /\ UNCHANGED <<reader, payload, reading, got, text, lines, capped>>

AbortSeen ==
  /\ reading = "open" /\ signalled
  /\ reading' = "aborted"
  /\ UNCHANGED <<reader, payload, signalled, got, text, lines, capped>>

ReadersNext == ChunkArrives \/ StreamDone \/ NetworkFails \/ Abort \/ AbortSeen

-----------------------------------------------------------------------------
(* Properties *)

\* The lines of a text: what newlines end, and what the last one leaves.
LineEnds(t) == {i \in 1 .. Len(t) : t[i] = Newline}
LineOf(t, n) ==
  LET end(k) == IF k = 0 THEN 0 ELSE CHOOSE i \in LineEnds(t) : Cardinality({j \in LineEnds(t) : j <= i}) = k
      last == IF n <= Cardinality(LineEnds(t)) THEN end(n) - 1 ELSE Len(t)
  IN SubSeq(t, end(n - 1) + 1, last)

\* However the network cuts the payload, a read that succeeds shows its first
\* lines, whole and in order, or its first bytes up to the cap; one that was
\* not capped shows all of it.
PreviewIsPrefix ==
  reading = "success" =>
    IF reader = "text"
      THEN /\ text = SubSeq(payload, 1, IF Len(payload) < TextByteCap THEN Len(payload) ELSE TextByteCap)
           /\ (capped = "bytes") = (Len(payload) > TextByteCap)
      ELSE LET unended == payload # <<>> /\ Last(payload) = Other
               all == Cardinality(LineEnds(payload)) + (IF unended THEN 1 ELSE 0)
           IN /\ \A n \in DOMAIN lines : n <= all /\ lines[n] = LineOf(payload, n)
              /\ capped = "no" => Len(lines) = all

=============================================================================
