------------------------------ MODULE Rollouts ------------------------------
(***************************************************************************)
(* The transcript of a hosted agent, folded from the file its tool writes: *)
(* messages, calls, and the results that come lines later and belong on    *)
(* the call they answer.  The file is read whole, again and again, while   *)
(* the tool appends to it; two formats fold into the same rows.            *)
(***************************************************************************)
EXTENDS Naturals, Sequences, FiniteSets, SequencesExt

CONSTANTS
    CallIds,     \* ids a tool gives its calls; a call may have none
    MaxBlocks,   \* bound on the blocks of the file
    Limit        \* characters of a result that are shown

VARIABLES
    format,      \* which tool writes the file
    file,        \* the blocks of its lines
    torn,        \* what the last write has left: nothing, part of a line, part of a character
    view         \* what the reader was last answered

vars == <<format, file, torn, view>>

(* ---- what the tool writes ---- *)

\* A block: who says it, of what type, for which call, how long and how it went;
\* `hidden` is a meta line, or a block put in the person's mouth.
Block(type, role, id, size, failed, hidden) ==
    [type |-> type, role |-> role, id |-> id, size |-> size, failed |-> failed, hidden |-> hidden]
Sizes == {0, Limit, Limit + 1}
Written ==
    {Block("text", role, "none", 1, FALSE, hidden) : role \in {"user", "agent"}, hidden \in BOOLEAN}
    \union {Block("use", "agent", id, 1, FALSE, FALSE) : id \in CallIds \union {"none"}}
    \union {Block("result", "user", id, size, failed, FALSE) : id \in CallIds, size \in Sizes, failed \in BOOLEAN}
    \union {Block("complete", "agent", "none", 1, FALSE, FALSE)}

(* ---- the fold ---- *)

\* A row named after its call, or after how many rows had no name.
Named(acc, id) == IF id = "none" THEN acc.named + 1 ELSE acc.named
Pushed(acc, kind, id) ==
    [rows |-> Append(acc.rows, [kind |-> kind, id |-> id, nth |-> IF id = "none" THEN acc.named + 1 ELSE 0,
                                output |-> 0, truncated |-> FALSE, status |-> "ok"]),
     named |-> Named(acc, id)]

\* What may be said by its author, in that tool's file.
Hides(f, b) == b.hidden /\ (f = "claude" \/ b.role = "user")
\* The first call of that id, wherever the answer comes.
FirstCall(rows, id) ==
    LET calls == {k \in DOMAIN rows : rows[k].kind = "tool" /\ rows[k].id = id}
    IN IF calls = {} THEN 0 ELSE CHOOSE k \in calls : \A j \in calls : k <= j
\* The call an answer belongs to: the last of that id before it.
Call(rows, id) ==
    LET calls == {k \in DOMAIN rows : rows[k].kind = "tool" /\ rows[k].id = id}
    IN IF calls = {} THEN 0 ELSE CHOOSE k \in calls : \A j \in calls : j <= k
Shown(size) == IF size > Limit THEN Limit ELSE size
\* Once cut, or once failed, a row stays so; the other tool's calls never fail.
Answered(f, row, b) ==
    [row EXCEPT !.output = Shown(b.size), !.truncated = @ \/ b.size > Limit,
                !.status = IF b.failed /\ f = "claude" THEN "failed" ELSE @]

\* One block of the one tool's file, and of the other's.
fold_claude(acc, b) ==
    CASE b.type = "text" /\ ~Hides("claude", b) -> Pushed(acc, b.role, "none")
      [] b.type = "use" -> Pushed(acc, "tool", b.id)
      [] b.type = "result" /\ Call(acc.rows, b.id) # 0 ->
            [acc EXCEPT !.rows[Call(acc.rows, b.id)] = Answered("claude", @, b)]
      [] OTHER -> acc
fold_codex(acc, b) ==
    CASE b.type = "text" /\ ~Hides("codex", b) -> Pushed(acc, b.role, "none")
      [] b.type = "use" -> Pushed(acc, "tool", b.id)
      [] b.type = "complete" -> Pushed(acc, "turn", "none")
      [] b.type = "result" /\ Call(acc.rows, b.id) # 0 ->
            [acc EXCEPT !.rows[Call(acc.rows, b.id)] = Answered("codex", @, b)]
      [] OTHER -> acc
fold(f, acc, b) == IF f = "claude" THEN fold_claude(acc, b) ELSE fold_codex(acc, b)
Unread == [rows |-> <<>>, named |-> 0]
\* Some blocks, folded one after another.
Accumulated(f, blocks) ==
    LET after[k \in 0..Len(blocks)] == IF k = 0 THEN Unread ELSE fold(f, after[k - 1], blocks[k])
    IN after[Len(blocks)]
Folded(f, blocks) == Accumulated(f, blocks).rows

(* ---- writing and reading ---- *)

NotNamed == [answer |-> "notice", rows |-> <<>>]
Init == format \in {"claude", "codex"} /\ file = <<>> /\ torn = "none" /\ view = NotNamed

\* One line after another, each ended before the next begins.
WriteLine ==
    /\ Len(file) < MaxBlocks /\ torn' = "none"
    /\ \E b \in Written : file' = Append(file, b)
    /\ UNCHANGED <<format, view>>
WritesPart ==
    /\ torn' \in {"line", "character"} /\ torn = "none" /\ UNCHANGED <<format, file, view>>

\* A part of a line folds into nothing; a part of a character fails the reading.
transcript ==
    /\ view' = IF torn = "character" THEN [view EXCEPT !.answer = "error"]
               ELSE [answer |-> "rows", rows |-> Folded(format, file)]
    /\ UNCHANGED <<format, file, torn>>

Next == WriteLine \/ WritesPart \/ transcript

Spec == Init /\ [][Next]_vars

(* ---- properties ---- *)

TypeOK == torn \in {"none", "line", "character"} /\ view.answer \in {"notice", "rows", "error"}

\* Reading on never takes back what was shown: rows keep their places and their
\* names, and only a call's answer comes to them (agent.rs:141).
SameRow(a, b) == a.kind = b.kind /\ a.id = b.id /\ a.nth = b.nth
ReadsOn ==
    [][/\ Len(view.rows) <= Len(view'.rows)
       /\ \A k \in DOMAIN view.rows :
             /\ SameRow(view.rows[k], view'.rows[k])
             /\ view.rows[k].kind # "tool" => view'.rows[k] = view.rows[k]]_vars

\* A row of a call shows the end of the last answer that was given to it and
\* not to a later call of the same id (agent.rs:386).
CallsOf(id) == {k \in DOMAIN file : file[k].type = "use" /\ file[k].id = id}
AnswersTo(c) ==
    {k \in DOMAIN file :
        /\ k > c /\ file[k].type = "result" /\ file[k].id = file[c].id
        /\ ~\E d \in CallsOf(file[c].id) : d > c /\ d < k}
RowOf(c, rows) ==
    LET before == Cardinality({d \in CallsOf(file[c].id) : d <= c})
        same == {k \in DOMAIN rows : rows[k].kind = "tool" /\ rows[k].id = file[c].id}
    IN CHOOSE k \in same : Cardinality({j \in same : j <= k}) = before
ResultsOnTheirCalls ==
    LET rows == Folded(format, file)
    IN \A c \in DOMAIN file :
          file[c].type = "use" /\ file[c].id # "none" =>
            LET answers == AnswersTo(c)
                row == rows[RowOf(c, rows)]
            IN /\ answers = {} => row.output = 0 /\ ~row.truncated
               /\ \A k \in answers : (\A j \in answers : j <= k) => row.output = Shown(file[k].size)
               /\ row.truncated <=> \E k \in answers : file[k].size > Limit
=============================================================================
