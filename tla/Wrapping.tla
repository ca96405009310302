------------------------------ MODULE Wrapping ------------------------------
(***************************************************************************)
(* How a line that is wider than the terminal is broken: prose at its        *)
(* spaces (tui/markdown/wrap.rs:87), code on width alone (wrap.rs:124), what *)
(* a command says at a space when there is one (tui/scrollback.rs:248), and  *)
(* the cell of a table that is cut (tui/markdown/table.rs:144).  The text is *)
(* grown a character at a time and broken at every width.                    *)
(***************************************************************************)
EXTENDS Naturals, Sequences, FiniteSets, SequencesExt, FiniteSetsExt

CONSTANTS MaxText, MaxWidth

VARIABLES text

Chars == {"a", "wide", " "}
Cells(c) == IF c = "wide" THEN 2 ELSE 1
CellsOf(s) == FoldSeq(LAMBDA c, n : Cells(c) + n, 0, s)
Widths == 2..MaxWidth

Init == text = <<>>
Next == Len(text) < MaxText /\ \E c \in Chars : text' = Append(text, c)
Spec == Init /\ [][Next]_text

LastSpace(row) == Max({0} \union {i \in DOMAIN row : row[i] = " "})

\* A full row is broken at its last space, which goes, or else where it is.
BrokenByLength(laid) == [rows |-> Append(laid.rows, laid.row), row |-> <<>>]
Broken(laid) ==
    LET at == LastSpace(laid.row)
    IN  IF at = 0 THEN [rows |-> Append(laid.rows, laid.row), row |-> <<>>]
        ELSE [rows |-> Append(laid.rows, SubSeq(laid.row, 1, at - 1)),
              row |-> SubSeq(laid.row, at + 1, Len(laid.row))]
TooWide(row, c, width) == CellsOf(row) + Cells(c) > width /\ row # <<>>
wrap_styled(s, width) ==
    LET Put(laid, c) ==
            LET b == IF TooWide(laid.row, c, width) THEN Broken(laid) ELSE laid
            IN  IF c = " " /\ b.row = <<>> THEN b ELSE [b EXCEPT !.row = Append(@, c)]
        laid == FoldLeft(Put, [rows |-> <<>>, row |-> <<>>], s)
    IN  Append(laid.rows, laid.row)

hard_wrap(s, width) ==
    LET Put(rows, c) == IF TooWide(Last(rows), c, width) THEN Append(rows, <<c>>)
                        ELSE Append(Front(rows), Append(Last(rows), c))
    IN  FoldLeft(Put, <<<<>>>>, s)

\* Words with the space that ends them.
words(s) ==
    LET Put(ws, c) == IF ws = <<>> \/ Last(Last(ws)) = " " THEN Append(ws, <<c>>)
                      ELSE Append(Front(ws), Append(Last(ws), c))
    IN  FoldLeft(Put, <<>>, s)
chunks(w, width) ==
    [i \in 1..((Len(w) + width - 1) \div width) |->
        SubSeq(w, (i - 1) * width + 1, Min({i * width, Len(w)}))]
FlushedLate(laid, w, width) == laid
Flushed(laid, w, width) ==
    IF Len(laid.row) + Len(w) > width /\ laid.row # <<>>
    THEN [rows |-> Append(laid.rows, laid.row), row |-> <<>>] ELSE laid
wrap_hard(s, width) ==
    LET Put(laid, w) ==
            LET f == Flushed(laid, w, width)
            IN  IF Len(w) > width THEN [f EXCEPT !.rows = @ \o chunks(w, width)]
                ELSE [f EXCEPT !.row = @ \o w]
        laid == FoldLeft(Put, [rows |-> <<>>, row |-> <<>>], words(s))
    IN  IF laid.row # <<>> \/ laid.rows = <<>> THEN Append(laid.rows, laid.row) ELSE laid.rows

\* A cell cut to its column, with a mark of one cell.
fit(s, width) ==
    IF CellsOf(s) <= width THEN s
    ELSE LET kept == Max({n \in 0..Len(s) : CellsOf(SubSeq(s, 1, n)) <= width - 1})
         IN  Append(SubSeq(s, 1, kept), "cut")

(* ---- properties ---- *)

TypeOK == Len(text) <= MaxText /\ Range(text) \subseteq Chars

Fits(rows, width) == \A i \in DOMAIN rows : CellsOf(rows[i]) <= width
Letters(s) == SelectSeq(s, LAMBDA c : c # " ")
\* Broken prose fits and has every letter in order; a row ends inside a word
\* only where the word alone fills it (markdown/wrap.rs:85).
ProseIsWhole ==
    \A width \in Widths :
        LET rows == wrap_styled(text, width)
        IN  /\ Fits(rows, width) /\ Letters(FlattenSeq(rows)) = Letters(text)
            /\ \A i \in 1..Len(rows) - 1 :
                  LET before == FlattenSeq(SubSeq(rows, 1, i))
                      here == Len(Letters(before))
                      at == CHOOSE n \in DOMAIN text : text[n] # " " /\ Len(Letters(SubSeq(text, 1, n))) = here
                  IN  here > 0 /\ at < Len(text) => text[at + 1] = " " \/ LastSpace(rows[i]) = 0

\* Code and what a command says keep every character, spaces too: a URL is
\* copied from the screen (markdown/wrap.rs:122, scrollback.rs:79).
NothingMoves ==
    \A width \in Widths :
        /\ FlattenSeq(hard_wrap(text, width)) = text /\ Fits(hard_wrap(text, width), width)
        /\ FlattenSeq(wrap_hard(text, width)) = text
        /\ \A i \in DOMAIN wrap_hard(text, width) : Len(wrap_hard(text, width)[i]) <= width
        /\ CellsOf(fit(text, width)) <= width

\* What a command says is wrapped and never clipped (scrollback.rs:79).
NothingIsClipped == \A width \in Widths : Fits(wrap_hard(text, width), width)
=============================================================================
