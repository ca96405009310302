------------------------------ MODULE Framing ------------------------------
(***************************************************************************)
(* The Server-Sent Events decoder: bytes that arrive in chunks cut         *)
(* anywhere become frames.  A byte is one of the five that matter here: a  *)
(* line feed, a carriage return, the start of a data or of an event field, *)
(* and a character of a value.                                             *)
(***************************************************************************)
EXTENDS Naturals, Sequences, SequencesExt

CONSTANTS
    MaxBytes,      \* bound on the bytes of a body
    MaxChunk       \* bound on the bytes of a chunk

VARIABLES
    fed,           \* every byte received, a history
    buf,           \* SseDecoder::buf
    pending,       \* the frame being read: its event, data and saw_data
    frames,        \* every frame dispatched, a history
    closed         \* finish() was called

vars == <<fed, buf, pending, frames, closed>>

Bytes == {"lf", "cr", "data", "event", "x"}
Terminators == {"lf", "cr"}
Chunks == UNION {[1..n -> Bytes] : n \in 1..MaxChunk}

NoFrame == [event |-> FALSE, data |-> <<>>, saw |-> FALSE]

\* The first line of b, and what is left; none is "no line can be told yet".
Ends(b) == {i \in DOMAIN b : b[i] \in Terminators}
FirstEnd(b) == CHOOSE i \in Ends(b) : \A j \in Ends(b) : i <= j
\* A carriage return ends a line before what follows it has been seen.
HasLineAtOnce(b, atEof) == Ends(b) # {}
HasLine(b, atEof) == Ends(b) # {} /\ (b[FirstEnd(b)] = "lf" \/ FirstEnd(b) < Len(b) \/ atEof)
TakeLine(b) ==
    LET i == FirstEnd(b)
        n == IF b[i] = "cr" /\ i < Len(b) /\ b[i+1] = "lf" THEN 2 ELSE 1
    IN [line |-> SubSeq(b, 1, i - 1), rest |-> SubSeq(b, i + n, Len(b))]

\* A field adds to the frame; a second data field adds a line to its data.
ConsumeLine(frame, line) ==
    CASE line[1] = "data" ->
            [frame EXCEPT !.data = (IF frame.saw THEN Append(@, "lf") ELSE @) \o Tail(line), !.saw = TRUE]
      [] line[1] = "event" -> [frame EXCEPT !.event = TRUE]
      [] OTHER -> frame

\* dispatch: a frame with neither field is none.
Dispatch(frame) == IF frame.saw \/ frame.event THEN <<[event |-> frame.event, data |-> frame.data]>> ELSE <<>>

\* Every line that can be told is read; at most every byte of b ends one.
Step(state, atEof) ==
    IF ~HasLine(state.buf, atEof) THEN state
    ELSE LET taken == TakeLine(state.buf) IN
         IF taken.line = <<>>
         THEN [buf |-> taken.rest, frame |-> NoFrame, out |-> state.out \o Dispatch(state.frame)]
         ELSE [buf |-> taken.rest, frame |-> ConsumeLine(state.frame, taken.line), out |-> state.out]
ReadLines(b, frame, atEof) ==
    FoldLeft(LAMBDA state, i : Step(state, atEof), [buf |-> b, frame |-> frame, out |-> <<>>],
             [i \in 1..Len(b) |-> i])

Init == fed = <<>> /\ buf = <<>> /\ pending = NoFrame /\ frames = <<>> /\ closed = FALSE

Push ==
    /\ ~closed
    /\ \E chunk \in Chunks :
        /\ Len(fed) + Len(chunk) <= MaxBytes
        /\ fed' = fed \o chunk
        /\ LET read == ReadLines(buf \o chunk, pending, FALSE) IN
            /\ buf' = read.buf /\ pending' = read.frame /\ frames' = frames \o read.out
    /\ UNCHANGED closed

\* An unterminated line is discarded, and the frame it belongs to with it.
Finish ==
    /\ ~closed /\ closed' = TRUE
    /\ LET read == ReadLines(buf, pending, TRUE) IN
        /\ frames' = frames \o read.out \o (IF read.buf = <<>> THEN Dispatch(read.frame) ELSE <<>>)
        /\ buf' = <<>>
        /\ pending' = NoFrame
    /\ UNCHANGED fed

Next == Push \/ Finish

Spec == Init /\ [][Next]_vars

(* ---- the reference: what a body says, read whole ---- *)

\* The body's lines, every terminator one; the last is what follows the last.
Normal(b) == SelectSeq([i \in DOMAIN b |-> IF b[i] = "cr" THEN (IF i < Len(b) /\ b[i+1] = "lf" THEN "none" ELSE "lf")
                                           ELSE b[i]], LAMBDA c : c # "none")
Breaks(b) == {0} \union {i \in DOMAIN b : b[i] = "lf"}
LineEnding(b, j) ==
    LET before == CHOOSE i \in Breaks(b) : i < j /\ \A k \in Breaks(b) : k < j => k <= i
    IN SubSeq(b, before + 1, j - 1)
Lines(b) == LET ends == SetToSortSeq(Breaks(b) \ {0}, <)
            IN [k \in DOMAIN ends |-> LineEnding(b, ends[k])]
Rest(b) == LET at == CHOOSE i \in Breaks(b) : \A j \in Breaks(b) : j <= i IN SubSeq(b, at + 1, Len(b))

\* The fields of the lines between two blank ones, as one frame.
FrameOf(lines) ==
    LET data == SelectSeq(lines, LAMBDA l : l[1] = "data")
        value(k) == (IF k = 1 THEN <<>> ELSE <<"lf">>) \o Tail(data[k])
    IN IF \A k \in DOMAIN lines : lines[k][1] = "x" THEN <<>>
       ELSE <<[event |-> \E k \in DOMAIN lines : lines[k][1] = "event",
               data |-> FlattenSeq([k \in DOMAIN data |-> value(k)])]>>
Blanks(ls) == {0} \union {k \in DOMAIN ls : ls[k] = <<>>}
Group(ls, k) ==
    LET before == CHOOSE i \in Blanks(ls) : i < k /\ \A j \in Blanks(ls) : j < k => j <= i
    IN SubSeq(ls, before + 1, k - 1)
Framed(ls) == LET ends == SetToSortSeq(Blanks(ls) \ {0}, <)
              IN FlattenSeq([k \in DOMAIN ends |-> FrameOf(Group(ls, ends[k]))])

\* A carriage return that may yet be half a terminator does not count.
Decided(b) == IF b # <<>> /\ Last(b) = "cr" THEN SubSeq(b, 1, Len(b) - 1) ELSE b
\* At the end of the body its last frame counts, unless it was cut inside a line.
Whole(b) ==
    LET n == Normal(b) IN Framed(Lines(n) \o (IF Rest(n) = <<>> THEN <<<<>>>> ELSE <<>>))

(* ---- properties ---- *)

TypeOK ==
    /\ Len(fed) <= MaxBytes /\ Len(buf) <= Len(fed) /\ Len(frames) <= Len(fed)
    /\ pending.event \in BOOLEAN /\ pending.saw \in BOOLEAN /\ closed \in BOOLEAN

\* sse.rs:3: wherever the body was cut into chunks, its frames are the ones it
\* has when it is read whole, and a body cut inside a line gives none of the
\* frame that line belongs to.
ChunkingIsInvisible ==
    frames = IF closed THEN Whole(fed) ELSE Framed(Lines(Normal(Decided(fed))))
=============================================================================
