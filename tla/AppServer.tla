------------------------------ MODULE AppServer ------------------------------
(***************************************************************************)
(* One agent driven through its own protocol: requests that wait for the   *)
(* tool's answers, the reader task that folds what the tool says into rows *)
(* and wakes whoever waits, and the tool's questions with their answers.   *)
(* Requests, the reader, a person's decisions and the end of the tool      *)
(* interleave; every lock is let go at an await.                           *)
(***************************************************************************)
EXTENDS Naturals, Sequences, FiniteSets

CONSTANTS
    Callers,     \* the commands that talk to the tool
    MaxLines,    \* bound on the lines the tool writes
    MaxAsks,     \* bound on the questions it asks
    MaxDeltas    \* bound on the pieces of one message

VARIABLES
    alive,       \* the tool runs
    taken,       \* close() has taken the child
    closing,     \* close() waits for it to end
    reader,      \* "reading" until the tool's output ends
    lines,       \* what the tool wrote and the reader has not read
    wrote,       \* lines written
    inbox,       \* requests the tool has not answered, as <<method, caller>>
    server,      \* the tool: its turns and threads, what it said and asked
    pending,     \* requests somebody waits for
    calls,       \* caller -> where it is
    sending,     \* answers to questions on their way
    folded       \* what a surface is shown

vars == <<alive, taken, closing, reader, lines, wrote, inbox, server, pending, calls, sending, folded>>
tool == <<alive, lines, wrote, inbox, server>>
surface == <<taken, closing, reader, pending, calls, sending, folded>>

(* ---- the tool ---- *)

Says(type, n, value) == [type |-> type, n |-> n, value |-> value]
Yes == 1
No == 0
Writes(said) ==
    /\ alive /\ wrote + Len(said) <= MaxLines
    /\ lines' = lines \o said /\ wrote' = wrote + Len(said)

Init ==
    /\ alive = TRUE /\ taken = FALSE /\ closing = FALSE /\ reader = "reading"
    /\ lines = <<>> /\ wrote = 0 /\ inbox = {} /\ pending = {} /\ sending = {}
    /\ server = [threads |-> 0, turns |-> 0, turn |-> FALSE, said |-> 0, asked |-> 0,
                 answers |-> [q \in 1..MaxAsks |-> 0]]
    /\ calls = [c \in Callers |-> [pc |-> "idle", wait |-> "no", late |-> FALSE]]
    /\ folded = [status |-> "idle", approvals |-> <<>>, turn |-> 0, thread |-> 0, rows |-> <<>>]

ToolAnswers(method, c) == <<method, c>> \in inbox /\ inbox' = inbox \ {<<method, c>>}
ToolOpensThread ==
    /\ \E c \in Callers :
          /\ ToolAnswers("thread", c)
          /\ server' = [server EXCEPT !.threads = @ + 1]
          /\ Writes(<<Says("thread", server.threads + 1, Yes), Says("answer", c, Yes)>>)
    /\ UNCHANGED <<alive, surface>>
ToolStartsTurn ==
    /\ ~server.turn
    /\ \E c \in Callers :
          /\ ToolAnswers("turn", c)
          /\ server' = [server EXCEPT !.turns = @ + 1, !.turn = TRUE, !.said = 0]
          /\ Writes(<<Says("answer", c, Yes), Says("turn", server.turns + 1, Yes)>>)
    /\ UNCHANGED <<alive, surface>>
ToolRefuses ==
    /\ \E c \in Callers, method \in {"thread", "turn"} :
          ToolAnswers(method, c) /\ Writes(<<Says("answer", c, No)>>)
    /\ UNCHANGED <<alive, server, surface>>
\* A piece of a message, and its end with the whole text or with none.
ToolSays ==
    /\ server.turn /\ server.said < MaxDeltas
    /\ server' = [server EXCEPT !.said = @ + 1]
    /\ Writes(<<Says("delta", server.turns, server'.said)>>)
    /\ UNCHANGED <<alive, inbox, surface>>
ToolCompletes ==
    /\ server.turn /\ server.said > 0
    /\ \E text \in {0, server.said} : Writes(<<Says("completed", server.turns, text)>>)
    /\ server' = [server EXCEPT !.said = MaxDeltas]
    /\ UNCHANGED <<alive, inbox, surface>>
\* Some questions are of a kind nobody here knows.
ToolAsks ==
    /\ server.turn /\ server.asked < MaxAsks
    /\ server' = [server EXCEPT !.asked = @ + 1]
    /\ \E known \in {Yes, No} : Writes(<<Says("question", server'.asked, known)>>)
    /\ UNCHANGED <<alive, inbox, surface>>
\* A turn ends by itself or because it was interrupted, with its questions open.
ToolEndsTurn ==
    /\ server.turn /\ server' = [server EXCEPT !.turn = FALSE]
    /\ \E stopped \in SUBSET {c \in Callers : <<"interrupt", c>> \in inbox} :
          /\ inbox' = inbox \ {<<"interrupt", c>> : c \in stopped}
          /\ Cardinality(stopped) <= 1
          /\ Writes(<<Says("turnEnd", 0, Yes)>>
                    \o (IF stopped = {} THEN <<>> ELSE <<Says("answer", CHOOSE c \in stopped : TRUE, Yes)>>))
    /\ UNCHANGED <<alive, surface>>
ToolDies == alive /\ alive' = FALSE /\ inbox' = {} /\ UNCHANGED <<lines, wrote, server, surface>>

(* ---- requests ---- *)

\* The waiter is registered before the line is sent, and stays when sending fails.
request(c, method, pc) ==
    /\ pending' = pending \union {c}
    /\ inbox' = IF alive THEN inbox \union {<<method, c>>} ELSE inbox
    /\ calls' = [calls EXCEPT ![c] = [pc |-> IF alive THEN pc ELSE "failed", wait |-> IF alive THEN "waits" ELSE "no",
                                      late |-> reader = "ended"]]
    /\ UNCHANGED <<alive, taken, closing, reader, lines, wrote, server, sending, folded>>

Prompt(c) == calls[c].pc = "idle" /\ folded.thread = 0 /\ request(c, "thread", "opens")
HasThread(c) == calls[c].pc = "opened" \/ (calls[c].pc = "idle" /\ folded.thread # 0)
PushPrompt(c) ==
    /\ HasThread(c)
    /\ folded' = [folded EXCEPT !.rows = Append(@, [kind |-> "user", id |-> 0, text |-> 0, streaming |-> FALSE]),
                                !.status = "working"]
    /\ calls' = [calls EXCEPT ![c] = [@ EXCEPT !.pc = "pushed"]]
    /\ UNCHANGED <<tool, taken, closing, reader, pending, sending>>
StartTurn(c) == calls[c].pc = "pushed" /\ request(c, "turn", "starts")
Interrupt(c) ==
    calls[c].pc = "idle" /\ folded.thread # 0 /\ folded.turn # 0 /\ request(c, "interrupt", "stops")

\* What the waiter does with its answer: the thread's id came with it.
Settled(c, outcome) ==
    calls' = [calls EXCEPT ![c] = [pc |-> IF outcome # "ok" THEN "failed"
                                          ELSE IF calls[c].pc = "opens" THEN "opened" ELSE "done",
                                   wait |-> "no", late |-> FALSE]]
Wake(c) ==
    /\ calls[c].wait \in {"ok", "error", "gone"}
    /\ Settled(c, calls[c].wait)
    /\ UNCHANGED <<tool, taken, closing, reader, pending, sending, folded>>
\* After two minutes; the waiter's entry stays, and a late answer finds nobody.
TimesOut(c) ==
    /\ calls[c].wait = "waits"
    /\ Settled(c, "late")
    /\ UNCHANGED <<tool, taken, closing, reader, pending, sending, folded>>

(* ---- the reader ---- *)

RowOf(rows, id) == {i \in DOMAIN rows : rows[i].kind = "agent" /\ rows[i].id = id}
AgentRow(id, text, streaming) == [kind |-> "agent", id |-> id, text |-> text, streaming |-> streaming]
\* An empty completion keeps what the deltas built.
upsert(rows, id, text) ==
    IF RowOf(rows, id) = {} THEN Append(rows, AgentRow(id, text, FALSE))
    ELSE [i \in DOMAIN rows |->
            IF i \in RowOf(rows, id) THEN AgentRow(id, IF text = 0 THEN rows[i].text ELSE text, FALSE) ELSE rows[i]]
delta(rows, id) ==
    IF RowOf(rows, id) = {} THEN Append(rows, AgentRow(id, 1, TRUE))
    ELSE [i \in DOMAIN rows |-> IF i \in RowOf(rows, id) THEN [rows[i] EXCEPT !.text = @ + 1] ELSE rows[i]]

fold(f, line) ==
    CASE line.type = "thread" -> [f EXCEPT !.thread = line.n]
      [] line.type = "turn" -> [f EXCEPT !.turn = line.n, !.status = "working"]
      [] line.type = "turnEnd" ->
            [f EXCEPT !.turn = 0, !.status = "done",
                      !.rows = Append(@, [kind |-> "turn", id |-> 0, text |-> 0, streaming |-> FALSE])]
      [] line.type = "delta" -> [f EXCEPT !.rows = delta(@, line.n)]
      [] line.type = "completed" -> [f EXCEPT !.rows = upsert(@, line.n, line.value)]
      [] line.type = "question" /\ line.value = Yes -> [f EXCEPT !.approvals = Append(@, line.n), !.status = "blocked"]
      [] OTHER -> f

receive ==
    /\ reader = "reading" /\ lines # <<>>
    /\ lines' = Tail(lines)
    /\ LET line == Head(lines)
       IN /\ folded' = fold(folded, line)
          /\ sending' = IF line.type = "question" /\ line.value = No THEN sending \union {line.n} ELSE sending
          /\ IF line.type = "answer" /\ line.n \in pending
             THEN /\ pending' = pending \ {line.n}
                  /\ calls' = IF calls[line.n].wait = "waits"
                              THEN [calls EXCEPT ![line.n].wait = IF line.value = Yes THEN "ok" ELSE "error"] ELSE calls
             ELSE UNCHANGED <<pending, calls>>
    /\ UNCHANGED <<alive, taken, closing, reader, wrote, inbox, server>>

\* A reader that just stops.
WokenByNothing == {}
\* Everyone the end of the tool's output wakes.
Woken == pending
ReadEnds ==
    /\ reader = "reading" /\ ~alive /\ lines = <<>>
    /\ reader' = "ended"
    /\ calls' = [c \in Callers |-> IF c \in Woken /\ calls[c].wait = "waits"
                                   THEN [calls[c] EXCEPT !.wait = "gone"] ELSE calls[c]]
    /\ pending' = pending \ Woken
    /\ folded' = IF folded.status \in {"working", "blocked"} THEN [folded EXCEPT !.status = "idle"] ELSE folded
    /\ UNCHANGED <<tool, taken, closing, sending>>

(* ---- questions and the end ---- *)

\* A decision that leaves the question for the next one.
DecidedStays(approvals, at) == approvals
Decided(approvals, at) == SubSeq(approvals, 1, at - 1) \o SubSeq(approvals, at + 1, Len(approvals))
\* The question goes from the list in the step that takes it; the answer is sent after.
Decide ==
    /\ \E i \in DOMAIN folded.approvals :
          LET q == folded.approvals[i]
              left == Decided(folded.approvals, i)
          IN /\ q \notin sending
             /\ folded' = [folded EXCEPT !.approvals = left, !.status = IF left = <<>> THEN "working" ELSE @]
             /\ sending' = sending \union {q}
    /\ UNCHANGED <<tool, taken, closing, reader, pending, calls>>
SendDecision ==
    /\ \E q \in sending :
          /\ sending' = sending \ {q}
          /\ server' = IF alive THEN [server EXCEPT !.answers[q] = @ + 1] ELSE server
    /\ UNCHANGED <<alive, lines, wrote, inbox, taken, closing, reader, pending, calls, folded>>

Close ==
    /\ ~taken /\ taken' = TRUE /\ closing' = TRUE
    /\ alive' = FALSE /\ inbox' = {}
    /\ UNCHANGED <<lines, wrote, server, reader, pending, calls, sending, folded>>
Closed ==
    /\ closing /\ closing' = FALSE
    /\ folded' = IF folded.status # "done" THEN [folded EXCEPT !.status = "idle"] ELSE folded
    /\ UNCHANGED <<tool, taken, reader, pending, calls, sending>>

Next ==
    \/ ToolOpensThread \/ ToolStartsTurn \/ ToolRefuses \/ ToolSays \/ ToolCompletes \/ ToolAsks
    \/ ToolEndsTurn \/ ToolDies \/ receive \/ ReadEnds \/ Decide \/ SendDecision \/ Close \/ Closed
    \/ \E c \in Callers :
          Prompt(c) \/ PushPrompt(c) \/ StartTurn(c) \/ Interrupt(c) \/ Wake(c) \/ TimesOut(c)

Spec == Init /\ [][Next]_vars

(* ---- properties ---- *)

TypeOK ==
    /\ folded.status \in {"idle", "working", "blocked", "done"} /\ folded.thread \in 0..server.threads
    /\ pending \subseteq Callers /\ sending \subseteq 1..server.asked
    /\ \A c \in Callers : calls[c].wait \in {"no", "waits", "ok", "error", "gone"}

Counted(q) == Cardinality({i \in DOMAIN folded.approvals : folded.approvals[i] = q})
\* Every question the reader has read is on the list, on its way or answered, in
\* exactly one of these, as long as the tool runs, and a row that says it is
\* blocked shows a question (appserver.rs:242, 454).
Unread(q) == \E i \in DOMAIN lines : lines[i].type = "question" /\ lines[i].n = q
QuestionsAreAnswered ==
    /\ alive => \A q \in 1..server.asked :
          (IF Unread(q) THEN 1 ELSE 0) + Counted(q) + (IF q \in sending THEN 1 ELSE 0) + server.answers[q] = 1
    /\ folded.status = "blocked" => folded.approvals # <<>>

\* Whoever waited when the tool's output ended has been told so; only who asks
\* after that waits for the timeout (appserver.rs:351).
NoneWaitsForTheGone ==
    reader = "ended" => \A c \in Callers : calls[c].wait = "waits" => calls[c].late

\* Two prompts at once of a row without a thread open two of them, and what is
\* said in the first is not in the conversation the row goes on with.
OneThread == server.threads <= 1
=============================================================================
