------------------------------- MODULE Screen -------------------------------
(***************************************************************************)
(* How an answer that streams becomes what a person reads.  The terminal    *)
(* surface renders each line as its newline arrives, and holds the rows of   *)
(* a table until it ends (tui/events.rs, tui/markdown/mod.rs); the one-shot  *)
(* command writes every delta through (render.rs).  A stream may break and   *)
(* be begun again, and an endpoint may deliver an answer with no deltas.     *)
(***************************************************************************)
EXTENDS Naturals, Sequences, SequencesExt

CONSTANTS
    MaxSymbols,    \* bound on the symbols of an answer
    MaxDelta,      \* bound on the symbols of a delta
    MaxAttempts    \* bound on the attempts at an answer

VARIABLES
    phase,         \* "between", "streaming", "done"
    answer, streams,    \* what this attempt says, and whether in deltas
    sent,          \* symbols of it the deltas have delivered
    attempts,
    live, md, flushed, streamed,   \* the fields of Tui
    scrollback,    \* what the surface printed
    stdout, said   \* what the command wrote, and whether it said "[retrying]"

vars == <<phase, answer, streams, sent, attempts, live, md, flushed, streamed, scrollback, stdout, said>>

\* A row of a table, a fence, any other word, and the newline.
Symbols == {"row", "fence", "word", "nl"}
Answers == {s \in BoundedSeq(Symbols, MaxSymbols) :
               s # <<>> /\ \E i \in DOMAIN s : s[i] # "nl"}
NoMd == [fenced |-> FALSE, table |-> <<>>]
Notice == "notice"

Init ==
    /\ phase = "between" /\ answer = <<>> /\ streams = TRUE /\ sent = 0 /\ attempts = 0
    /\ live = <<>> /\ md = NoMd /\ flushed = FALSE /\ streamed = FALSE
    /\ scrollback = <<>> /\ stdout = <<>> /\ said = FALSE

(* ---- markdown ---- *)

\* The kind of a line is that of what it begins with.
Lines(s) ==
    LET Cut(ls, c) == IF c = "nl" THEN Append(ls, <<>>) ELSE Append(Front(ls), Append(Last(ls), c))
    IN  FoldLeft(Cut, <<<<>>>>, s)
KindOf(line) == IF line = <<>> THEN "blank" ELSE Head(line)
Shown(line) == IF line = <<>> THEN <<>> ELSE <<line>>
\* What a line prints, and the renderer after it; the table goes before
\* whatever ends it.
Rendered(m, line) ==
    LET flat == [fenced |-> m.fenced, table |-> <<>>]
    IN  IF ~m.fenced /\ KindOf(line) = "row"
        THEN [out |-> <<>>, md |-> [m EXCEPT !.table = Append(@, line)]]
        ELSE IF KindOf(line) = "fence"
        THEN [out |-> m.table, md |-> [flat EXCEPT !.fenced = ~m.fenced]]
        ELSE [out |-> m.table \o Shown(line), md |-> flat]
RenderAll(m, ls) ==
    FoldLeft(LAMBDA r, line : [out |-> r.out \o Rendered(r.md, line).out, md |-> Rendered(r.md, line).md],
             [out |-> <<>>, md |-> m], ls)

(* ---- the surface ---- *)

begin_message == live' = <<>> /\ md' = NoMd /\ flushed' = FALSE /\ streamed' = FALSE
Printed(lines) == scrollback' = scrollback \o lines

ItemStarted ==
    /\ phase = "between" /\ attempts < MaxAttempts
    /\ phase' = "streaming" /\ attempts' = attempts + 1 /\ sent' = 0
    /\ answer' \in Answers /\ streams' \in BOOLEAN
    /\ begin_message
    /\ UNCHANGED <<scrollback, stdout, said>>

\* Every complete line is rendered; what is left has no newline yet.
TextDelta ==
    /\ phase = "streaming" /\ streams /\ sent < Len(answer)
    /\ \E n \in 1..MaxDelta :
          /\ sent + n <= Len(answer)
          /\ sent' = sent + n
          /\ LET text == SubSeq(answer, sent + 1, sent + n)
                 ls == Lines(live \o text)
                 r == RenderAll(md, Front(ls))
             IN  /\ live' = Last(ls) /\ md' = r.md /\ Printed(r.out)
                 /\ flushed' = (flushed \/ r.out # <<>>) /\ streamed' = TRUE
                 /\ stdout' = stdout \o text
    /\ UNCHANGED <<phase, answer, streams, attempts, said>>

RepeatsNever == FALSE
Repeats == flushed
ItemDiscarded ==
    /\ phase = "streaming" /\ attempts < MaxAttempts
    /\ phase' = "between" /\ begin_message
    /\ Printed(IF Repeats THEN <<<<Notice>>>> ELSE <<>>)
    /\ said' = TRUE /\ answer' = <<>> /\ sent' = 0
    /\ UNCHANGED <<streams, attempts, stdout>>

RemainderIfFlushed == IF flushed THEN live ELSE answer
Remainder == IF streamed THEN live ELSE answer
\* What the deltas left is rendered, and whatever the renderer holds; the whole
\* text when there were none.  The command prints nothing of it.
ItemCompleted ==
    /\ phase = "streaming" /\ (streams => sent = Len(answer))
    /\ LET r == IF Remainder = <<>> THEN [out |-> <<>>, md |-> md] ELSE RenderAll(md, Lines(Remainder))
       IN  Printed(r.out \o r.md.table)
    /\ begin_message /\ phase' = "done"
    /\ UNCHANGED <<answer, streams, sent, attempts, stdout, said>>

\* An interrupted turn drops the tail it was showing.
TurnEnds ==
    /\ phase \in {"streaming", "between"} /\ phase' = "done" /\ begin_message
    /\ answer' = <<>> /\ sent' = 0
    /\ UNCHANGED <<streams, attempts, scrollback, stdout, said>>

Next == ItemStarted \/ TextDelta \/ ItemDiscarded \/ ItemCompleted \/ TurnEnds
Spec == Init /\ [][Next]_vars

(* ---- properties ---- *)

\* What an answer prints when it is rendered at once, whatever it is cut into.
Whole(s) == LET r == RenderAll(NoMd, Lines(s)) IN r.out \o r.md.table
LastNotice == FoldLeft(LAMBDA n, i : IF scrollback[i] = <<Notice>> THEN i ELSE n, 0, [i \in DOMAIN scrollback |-> i])

TypeOK ==
    /\ phase \in {"between", "streaming", "done"} /\ (answer = <<>> \/ sent <= Len(answer))
    /\ \A i \in DOMAIN live : live[i] # "nl"
    /\ attempts \in 0..MaxAttempts /\ md.fenced => md.table = <<>>

\* Every line of an answer reaches the scrollback exactly once, however its
\* deltas cut it and whatever a broken attempt had printed, which the notice
\* before it accounts for (tui/events.rs:44, 132-151, state.rs:56-65).
ShownOnce ==
    phase = "done" /\ answer # <<>> =>
        SubSeq(scrollback, LastNotice + 1, Len(scrollback)) = Whole(answer)

\* What the command writes to its standard output is the answer (render.rs:88).
PipedIsTheAnswer == phase = "done" /\ answer # <<>> /\ ~said => stdout = answer
\* The text of a retry is not appended to text the reader has already seen
\* (render.rs:99).
RetryIsNotAppended == phase = "done" /\ answer # <<>> /\ streams => stdout = answer
=============================================================================
