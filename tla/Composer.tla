------------------------------ MODULE Composer ------------------------------
(***************************************************************************)
(* What a person types into (tui/composer.rs): a text, a cursor counted in  *)
(* characters, the prompts sent before and the draft a walk through them    *)
(* put aside; how it is laid out in rows (composer.rs:130); and the lists a *)
(* person chooses from, the slash menu (commands.rs:132) and the picker     *)
(* (picker.rs), which show a window of what they hold.                      *)
(***************************************************************************)
EXTENDS Naturals, Sequences, FiniteSets, SequencesExt, FiniteSetsExt

CONSTANTS
    MaxText,       \* bound on the characters of a text
    MaxPrompt,     \* bound on the characters of a prompt that is sent
    MaxHistory,    \* bound on the prompts remembered
    MaxWidth,      \* the widths a text is laid out in
    MaxEntries     \* bound on the entries of a list

VARIABLES
    text, cursor,
    history,
    recall,        \* the prompt shown, counted from the first; 0 is None
    draft,
    began,         \* the text the walk under way began from, a history
    list           \* the list a person chooses from; len 0 is none

vars == <<text, cursor, history, recall, draft, began, list>>
memory == <<history, recall, draft, began>>

\* A wide character takes two cells.
Chars == {"a", "wide", " ", "nl"}
IsBlank(c) == c \in {" ", "nl"}
Cells(c) == IF c = "wide" THEN 2 ELSE 1
CellsOf(s) == FoldSeq(LAMBDA c, n : Cells(c) + n, 0, s)
NoList == [len |-> 0, selected |-> 0]

Init ==
    /\ text = <<>> /\ cursor = 0 /\ history = <<>> /\ recall = 0 /\ draft = <<>>
    /\ began = <<>> /\ list = NoList

(* ---- positions; the character at index i of the code is text[i + 1] ---- *)

Upto(s, n) == SubSeq(s, 1, n)
From(s, n) == SubSeq(s, n + 1, Len(s))
line_start(s, at) == Max({0} \union {i \in 1..at : s[i] = "nl"})
line_end(s, at) == Min({Len(s)} \union {i - 1 : i \in {j \in at + 1..Len(s) : s[j] = "nl"}})
line_index(s, at) == Cardinality({i \in 1..at : s[i] = "nl"})
line_count(s) == line_index(s, Len(s)) + 1
\* Over the blanks, then over what is not blank.
word_back(s, at) ==
    LET w == Max({0} \union {i \in 1..at : ~IsBlank(s[i])})
    IN  Max({0} \union {i \in 1..w : IsBlank(s[i])})
word_forward(s, at) ==
    LET w == Min({Len(s) + 1} \union {i \in at + 1..Len(s) : ~IsBlank(s[i])})
    IN  Min({Len(s)} \union {i - 1 : i \in {j \in w..Len(s) : IsBlank(s[j])}})
trim(s) ==
    LET kept == {i \in DOMAIN s : ~IsBlank(s[i])}
    IN  IF kept = {} THEN <<>> ELSE SubSeq(s, Min(kept), Max(kept))

(* ---- keys ---- *)

Composing == list = NoList
Without(from, until) == Upto(text, from) \o From(text, until)
Deletes(from, until) ==
    /\ from < until /\ text' = Without(from, until) /\ cursor' = from
    /\ UNCHANGED <<memory, list>>
GoesTo(at) == cursor' = at /\ UNCHANGED <<text, memory, list>>

\* A character or a paste, and what is typed ends a walk.
Insert ==
    /\ Composing /\ Len(text) < MaxText
    /\ \E c \in Chars : text' = Upto(text, cursor) \o <<c>> \o From(text, cursor)
    /\ cursor' = cursor + 1 /\ recall' = 0 /\ began' = <<>>
    /\ UNCHANGED <<history, draft, list>>
Backspace == Composing /\ cursor > 0 /\ Deletes(cursor - 1, cursor)
Delete ==
    /\ Composing /\ cursor < Len(text) /\ text' = Without(cursor, cursor + 1)
    /\ UNCHANGED <<cursor, memory, list>>
delete_word_back == Composing /\ Deletes(word_back(text, cursor), cursor)
delete_to_line_start == Composing /\ Deletes(line_start(text, cursor), cursor)
delete_to_line_end == Composing /\ Deletes(cursor, line_end(text, cursor))
Move ==
    /\ Composing
    /\ GoesTo(cursor - IF cursor > 0 THEN 1 ELSE 0) \/ GoesTo(Min({cursor + 1, Len(text)}))
       \/ GoesTo(word_back(text, cursor)) \/ GoesTo(word_forward(text, cursor))
       \/ GoesTo(line_start(text, cursor)) \/ GoesTo(line_end(text, cursor))
Clear ==
    /\ Composing /\ text' = <<>> /\ cursor' = 0 /\ recall' = 0 /\ began' = <<>>
    /\ UNCHANGED <<history, draft, list>>
Enter ==
    /\ Composing /\ trim(text) # <<>> /\ Len(trim(text)) <= MaxPrompt
    /\ history' = IF history # <<>> /\ Last(history) = trim(text) THEN history
                  ELSE Append(history, trim(text))
    /\ Len(history') <= MaxHistory
    /\ text' = <<>> /\ cursor' = 0 /\ recall' = 0 /\ began' = <<>>
    /\ UNCHANGED <<draft, list>>

\* The column the code asks for: that of the cursor, or the line's last.
ColumnUnbounded(column, s, start) == start + column
Column(column, s, start) == start + Min({column, line_end(s, start) - start})
StartOf(s, n) == IF n = 0 THEN 0
                 ELSE CHOOSE i \in DOMAIN s : s[i] = "nl" /\ line_index(s, i) = n
move_line(to) ==
    GoesTo(Column(cursor - line_start(text, cursor), text, StartOf(text, to)))
\* The walk begins from what is being written, and ends there.
KeepsLast == draft' = text
Keeps == draft' = IF recall = 0 THEN text ELSE draft
WalkBack ==
    /\ history # <<>> /\ Keeps
    /\ recall' = IF recall = 0 THEN Len(history) ELSE Max({1, recall - 1})
    /\ began' = IF recall = 0 THEN text ELSE began
    /\ text' = history[recall'] /\ cursor' = Len(text')
    /\ UNCHANGED <<history, list>>
WalkOn ==
    /\ history # <<>> /\ recall # 0
    /\ IF recall >= Len(history) THEN recall' = 0 /\ text' = draft /\ draft' = <<>>
       ELSE recall' = recall + 1 /\ text' = history[recall + 1] /\ UNCHANGED draft
    /\ cursor' = Len(text') /\ began' = IF recall' = 0 THEN <<>> ELSE began
    /\ UNCHANGED <<history, list>>
UpALine ==
    Composing /\ line_index(text, cursor) > 0 /\ move_line(line_index(text, cursor) - 1)
DownALine ==
    /\ Composing /\ line_index(text, cursor) + 1 < line_count(text)
    /\ move_line(line_index(text, cursor) + 1)
Up == UpALine \/ (Composing /\ line_index(text, cursor) = 0 /\ WalkBack)
Down == DownALine \/ (Composing /\ line_index(text, cursor) + 1 = line_count(text) /\ WalkOn)

(* ---- layout ---- *)

\* One character put after what a line has been given: rows, and the cells used.
PutAtOnce(laid, c) == [rows |-> Append(Front(laid.rows), Append(Last(laid.rows), c)),
                       used |-> laid.used + Cells(c)]
BrokenByCount(laid, c, width) ==
    IF laid.used + 1 > width THEN [rows |-> Append(laid.rows, <<>>), used |-> 0] ELSE laid
Broken(laid, c, width) ==
    IF laid.used + Cells(c) > width THEN [rows |-> Append(laid.rows, <<>>), used |-> 0] ELSE laid
\* `rows` as it goes: the caret is set where its character is about to be put,
\* and at the end of a line that ends with it.
rows(s, at, width) ==
    LET NewLine(laid) == [laid EXCEPT !.rows = Append(@, <<>>), !.used = 0]
        Caret(laid, i) == IF i = at THEN [laid EXCEPT !.caret = <<Len(laid.rows), laid.used>>] ELSE laid
        Put(laid, i) ==
            LET b == Broken([rows |-> laid.rows, used |-> laid.used], s[i], width)
                c == Caret([rows |-> b.rows, used |-> b.used, caret |-> laid.caret], i - 1)
                p == PutAtOnce(c, s[i])
            IN  [rows |-> p.rows, used |-> p.used, caret |-> c.caret]
        Step(laid, i) == IF s[i] = "nl" THEN NewLine(Caret(laid, i - 1)) ELSE Put(laid, i)
    IN  Caret(FoldLeft(Step, [rows |-> <<<<>>>>, used |-> 0, caret |-> <<1, 0>>],
                       [i \in 1..Len(s) |-> i]), Len(s))

(* ---- choosing ---- *)

Open ==
    /\ Composing /\ text = <<>> /\ history = <<>>
    /\ \E n \in 1..MaxEntries : \E current \in 0..n - 1 : list' = [len |-> n, selected |-> current]
    /\ UNCHANGED <<text, cursor, memory>>
Step ==
    /\ ~Composing
    /\ \E delta \in {1, list.len - 1} : list' = [list EXCEPT !.selected = (@ + delta) % list.len]
    /\ UNCHANGED <<text, cursor, memory>>
choose_digit ==
    /\ ~Composing
    /\ \E digit \in 1..list.len : list' = [list EXCEPT !.selected = digit - 1]
    /\ UNCHANGED <<text, cursor, memory>>
Close == ~Composing /\ list' = NoList /\ UNCHANGED <<text, cursor, memory>>

Minus(a, b) == IF a > b THEN a - b ELSE 0
\* The first entry of the window, and the one after its last.
WindowOffByOne(len, selected, height) ==
    LET first == Min({Minus(selected, height), Minus(len, height)})
    IN  <<first, Min({first + height, len})>>
window(len, selected, height) ==
    LET first == Min({Minus(selected, Minus(height, 1)), Minus(len, height)})
    IN  <<first, Min({first + height, len})>>

Next ==
    \/ Insert \/ Backspace \/ Delete \/ delete_word_back \/ delete_to_line_start
    \/ delete_to_line_end \/ Move \/ Clear \/ Enter \/ Up \/ Down
    \/ Open \/ Step \/ choose_digit \/ Close

Spec == Init /\ [][Next]_vars

(* ---- properties ---- *)

TypeOK ==
    /\ cursor \in 0..Len(text) /\ Range(text) \subseteq Chars
    /\ recall \in 0..Len(history) /\ \A i \in DOMAIN history : history[i] = trim(history[i])
    /\ list.len \in 0..MaxEntries

\* The caret is drawn where the next character will go: what the rows hold
\* before it is what the text holds before the cursor, in every width a wide
\* character fits in, and no row is wider (composer.rs:127).
CaretIsWhereTypingGoes ==
    \A width \in 2..MaxWidth :
        LET laid == rows(text, cursor, width)
            row == laid.rows[laid.caret[1]]
            before == {i \in 0..Len(row) : CellsOf(Upto(row, i)) = laid.caret[2]}
            shown == FlattenSeq(Upto(laid.rows, laid.caret[1] - 1)) \o Upto(row, Max(before))
        IN  /\ before # {} /\ shown = SelectSeq(Upto(text, cursor), LAMBDA c : c # "nl")
            /\ \A i \in DOMAIN laid.rows : CellsOf(laid.rows[i]) <= width

\* A walk that is left the way it was entered gives back what was being written
\* when it began, whatever was deleted on the way (composer.rs:30, 171).
DraftComesBack == [][Composing /\ WalkOn /\ recall' = 0 => text' = began]_vars

\* Up and down move by one line, and sideways only onto a line too short
\* (composer.rs:304).
LinesKeepTheirColumn ==
    [][UpALine \/ DownALine =>
          LET column == cursor - line_start(text, cursor)
              now == cursor' - line_start(text, cursor')
          IN  /\ {line_index(text, cursor), line_index(text, cursor')} \in {{n, n + 1} : n \in 0..MaxText}
              /\ now = column \/ (now < column /\ cursor' = line_end(text, cursor'))]_vars

\* The entry that Enter would take is among those on the screen
\* (commands.rs:173, picker.rs:129).
SelectionIsShown ==
    ~Composing => \A height \in 1..MaxEntries :
        LET shown == window(list.len, list.selected, height)
        IN  shown[1] <= list.selected /\ list.selected < shown[2]
=============================================================================
