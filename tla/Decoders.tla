------------------------------ MODULE Decoders ------------------------------
(***************************************************************************)
(* One request to a provider, from the connection to the end of its body:  *)
(* the status is classified, the frames of one of the three dialects are   *)
(* turned into the loop's events, and the stream hands those out until it  *)
(* is finished, cancelled or broken.                                       *)
(***************************************************************************)
EXTENDS Naturals, Sequences, FiniteSets, SequencesExt

CONSTANTS
    MaxBlocks,     \* bound on the blocks of an answer
    MaxChunk       \* bound on the frames that arrive at once

VARIABLES
    dialect,       \* which provider answers
    answer,        \* what the model says, as the kinds of its blocks
    script,        \* the frames the endpoint has not sent yet
    dec,           \* the dialect's decoder
    pending,       \* Body::pending
    state,         \* "connecting", "streaming", "finished"
    cancelled,     \* the turn's token
    error,         \* the error the stream ended with
    taken          \* the events the loop took, a history

vars == <<dialect, answer, script, dec, pending, state, cancelled, error, taken>>

Dialects == {"messages", "chat", "responses"}
BlockKinds == {"text", "thinking", "tool"}

(* ---- what the endpoint sends ---- *)

Frame(type, index, kind) == [type |-> type, index |-> index, kind |-> kind]
Plain(type) == Frame(type, 0, "none")

\* The chat dialect says its text first and has no reasoning to show.
Speakable(d, blocks) ==
    d = "chat" => \A i \in DOMAIN blocks : blocks[i] = "tool" \/ (blocks[i] = "text" /\ i = 1)
Answers(d) == {b \in SeqOf(BlockKinds, MaxBlocks) : b # <<>> /\ Speakable(d, b)}

\* The frames of block i; a dialect may leave out what its decoder can do without.
MessagesBlock(kind, i) == {<<Frame("start", i - 1, kind), Frame("delta", i - 1, kind), Frame("stop", i - 1, kind)>>}
\* Chat calls are counted on their own, from 0.
ChatBlock(kind, call) ==
    {IF kind = "text" THEN <<Frame("content", 0, kind), Frame("content", 0, kind)>>
     ELSE <<Frame("call", call, kind), Frame("call", call, kind)>>}
ResponsesBlock(kind, i) ==
    LET whole == <<Frame("added", i, kind)>> \o (IF kind = "tool" THEN <<>> ELSE <<Frame("said", i, kind)>>)
                 \o <<Frame("item_done", i, kind)>>
    IN {whole} \union (IF i = 1 THEN {Tail(whole)} ELSE {})

CallsBefore(blocks, i) == Cardinality({j \in 1..(i - 1) : blocks[j] = "tool"})
Block(d, blocks, i) == CASE d = "messages" -> MessagesBlock(blocks[i], i)
                         [] d = "chat" -> ChatBlock(blocks[i], CallsBefore(blocks, i))
                         [] d = "responses" -> ResponsesBlock(blocks[i], i)
\* A change of model in the middle of an answer is a block without a word.
Boundary(d, n) == IF d = "messages" THEN {<<>>, <<Frame("start", n, "fallback"), Frame("stop", n, "fallback")>>} ELSE {<<>>}
Ending(d) == CASE d = "messages" -> <<Plain("message_delta"), Plain("message_stop")>>
               [] d = "chat" -> <<Plain("finish"), Plain("sentinel")>>
               [] d = "responses" -> <<Plain("completed")>>
Scripts(d, blocks) ==
    {FlattenSeq([i \in DOMAIN blocks |-> frames[i]]) \o boundary \o Ending(d) :
        frames \in {f \in [DOMAIN blocks -> UNION {Block(d, blocks, i) : i \in DOMAIN blocks}] :
                        \A i \in DOMAIN blocks : f[i] \in Block(d, blocks, i)},
        boundary \in Boundary(d, Len(blocks))}

(* ---- the decoders ---- *)

NewDecoder == [started |-> {}, text |-> {}, next |-> 0, done |-> FALSE]

Event(type, index, kind) == [type |-> type, index |-> index, kind |-> kind]
Start(i, kind) == Event("start", i, kind)
Delta(i, kind) == Event("delta", i, kind)
End(i) == Event("end", i, "none")
Done == Event("done", 0, "none")

\* A frame leaves the decoder d, gives events, and may be an error instead.
Gives(d, events) == [dec |-> d, out |-> events, error |-> "none"]
Fails(d, e) == [dec |-> d, out |-> <<>>, error |-> e]

\* A block that is started is not remembered: the frames say it all.
map_frame(d, f) ==
    CASE f.type = "start" -> Gives(d, IF f.kind = "fallback" THEN <<>> ELSE <<Start(f.index, f.kind)>>)
      [] f.type = "delta" -> Gives(d, <<Delta(f.index, f.kind)>>)
      [] f.type = "stop" -> Gives(d, <<End(f.index)>>)
      [] f.type = "message_delta" -> Gives(d, <<Done>>)
      [] f.type = "message_stop" -> Gives([d EXCEPT !.done = TRUE], <<>>)
      [] f.type = "error" -> Fails(d, IF f.kind \in {"Overloaded", "RateLimited", "Auth", "ContextOverflow"}
                                      THEN f.kind ELSE "Transport")

\* A call's own index, as the endpoint counts it.
CallIndexBare(raw) == raw
\* The offset that keeps a call's own index away from the text's.
CallIndex(raw) == raw + 1000
Ends(started) == LET order == SetToSortSeq(started, <) IN [k \in DOMAIN order |-> End(order[k])]

ChatText(d) ==
    IF d.text # {} THEN Gives(d, <<Delta(CHOOSE i \in d.text : TRUE, "text")>>)
    ELSE Gives([d EXCEPT !.text = {d.next}, !.started = @ \union {d.next}, !.next = @ + 1],
               <<Start(d.next, "text"), Delta(d.next, "text")>>)
ChatCall(d, i) ==
    Gives([d EXCEPT !.started = @ \union {i}],
          (IF i \in d.started THEN <<>> ELSE <<Start(i, "tool")>>) \o <<Delta(i, "tool")>>)
map(d, f) ==
    CASE f.type = "content" -> ChatText(d)
      [] f.type = "call" -> ChatCall(d, CallIndex(f.index))
      [] f.type = "finish" -> Gives([d EXCEPT !.started = {}, !.text = {}], Append(Ends(d.started), Done))
      [] f.type = "sentinel" -> Gives([d EXCEPT !.done = TRUE], <<>>)
      [] f.type = "error" -> Fails(d, "Transport")

close_open(d) == Gives([d EXCEPT !.started = {}], Ends(d.started))
Opens(d, kind) == Gives([d EXCEPT !.started = {d.next}, !.next = @ + 1], <<Start(d.next, kind)>>)
open_or_start(d, kind) == IF d.started = {} THEN Opens(d, kind) ELSE Gives(d, <<>>)
\* A call arrives whole, and becomes the three events the loop expects.
item_done(d, kind) ==
    IF kind # "tool" THEN close_open(d)
    ELSE LET i == d.next IN
         Gives([d EXCEPT !.started = {}, !.next = @ + 1],
               Ends(d.started) \o <<Start(i, "tool"), Delta(i, "tool"), End(i)>>)
event(d, f) ==
    CASE f.type = "added" -> IF f.kind = "tool" THEN Gives(d, <<>>) ELSE Opens(d, f.kind)
      [] f.type = "said" -> LET opened == open_or_start(d, f.kind) IN
                            [opened EXCEPT !.out = Append(@, Delta(CHOOSE i \in opened.dec.started : TRUE, f.kind))]
      [] f.type = "item_done" -> item_done(d, f.kind)
      [] f.type = "completed" -> Gives([close_open(d).dec EXCEPT !.done = TRUE], Append(Ends(d.started), Done))
      [] f.type = "error" -> Fails(d, "Transport")

Decode(d, f) == IF f.type = "garbage" THEN Fails(d, "Decode")
                ELSE CASE dialect = "messages" -> map_frame(d, f)
                       [] dialect = "chat" -> map(d, f)
                       [] dialect = "responses" -> event(d, f)

\* push: the events of a chunk are all lost when a frame of it is an error.
DecodeAll(d, frames) ==
    FoldLeft(LAMBDA r, f : IF r.error # "none" THEN r
                           ELSE LET one == Decode(r.dec, f) IN
                                [dec |-> one.dec, out |-> IF one.error = "none" THEN r.out \o one.out ELSE <<>>,
                                 error |-> one.error],
             Gives(d, <<>>), frames)

\* finish: the last frame counts though its blank line is missing, except in
\* the Responses dialect, which never asks for it.
Finish(d, held) ==
    LET read == IF dialect = "responses" THEN Gives(d, <<>>) ELSE DecodeAll(d, held)
    IN IF read.error # "none" THEN read
       ELSE IF ~read.dec.done THEN Fails(read.dec, "Truncated")
       ELSE IF dialect = "chat" THEN Gives([read.dec EXCEPT !.started = {}], read.out \o Ends(read.dec.started))
       ELSE read

(* ---- the request ---- *)

Statuses == {200, 400, 401, 403, 413, 429, 500, 529}
classify(status, big) ==
    CASE status \in {401, 403} -> "Auth"
      [] status = 429 -> "RateLimited"
      [] status = 529 -> "Overloaded"
      [] status = 400 /\ big -> "ContextOverflow"
      [] OTHER -> IF status >= 500 THEN "Http5xx" ELSE "Http4xx"

transport_error(why) == IF why \in {"builder", "connect"} THEN "Configuration" ELSE "Transport"

retryable(e) == e \in {"RateLimited", "Overloaded", "Truncated", "Transport", "Http5xx"}

Init ==
    /\ dialect = "messages" /\ answer = <<>> /\ script = <<>>
    /\ dec = NewDecoder /\ pending = <<>>
    /\ state = "idle" /\ cancelled = FALSE /\ error = "none" /\ taken = <<>>

Ask ==
    /\ state = "idle"
    /\ \E d \in Dialects : \E blocks \in Answers(d) :
        /\ dialect' = d /\ answer' = blocks /\ script' \in Scripts(d, blocks)
    /\ state' = "connecting"
    /\ UNCHANGED <<dec, pending, cancelled, error, taken>>

Fail(e) == error' = e /\ state' = "finished"

\* stream(): the token is looked at first, then the connection, then the status.
ConnectFails ==
    /\ state = "connecting"
    /\ IF cancelled THEN Fail("Cancelled") ELSE \E why \in {"builder", "connect", "timeout"} : Fail(transport_error(why))
    /\ UNCHANGED <<dialect, answer, script, dec, pending, cancelled, taken>>
Refused ==
    /\ state = "connecting" /\ ~cancelled
    /\ \E status \in Statuses \ {200}, big \in BOOLEAN : Fail(classify(status, big))
    /\ UNCHANGED <<dialect, answer, script, dec, pending, cancelled, taken>>
Connects ==
    /\ state = "connecting" /\ ~cancelled
    /\ state' = "streaming"
    /\ UNCHANGED <<dialect, answer, script, dec, pending, cancelled, error, taken>>

Cancel ==
    /\ state \in {"connecting", "streaming"} /\ ~cancelled
    /\ cancelled' = TRUE
    /\ UNCHANGED <<dialect, answer, script, dec, pending, state, error, taken>>

\* poll_next hands out what is decoded before it looks at anything else.
Take ==
    /\ pending # <<>>
    /\ taken' = Append(taken, Head(pending)) /\ pending' = Tail(pending)
    /\ UNCHANGED <<dialect, answer, script, dec, state, cancelled, error>>

Polls == state = "streaming" /\ pending = <<>>
SeesCancel ==
    /\ Polls /\ cancelled
    /\ Fail("Cancelled")
    /\ UNCHANGED <<dialect, answer, script, dec, pending, cancelled, taken>>

Receives(frames) ==
    LET read == DecodeAll(dec, frames) IN
    /\ dec' = read.dec
    /\ IF read.error = "none" THEN pending' = read.out /\ UNCHANGED <<state, error>>
       ELSE Fail(read.error) /\ UNCHANGED pending
    /\ UNCHANGED <<dialect, answer, cancelled, taken>>

Chunk ==
    /\ Polls /\ ~cancelled
    /\ \E n \in 1..MaxChunk :
        /\ n <= Len(script)
        /\ Receives(SubSeq(script, 1, n))
        /\ script' = SubSeq(script, n + 1, Len(script))

\* The endpoint reports an error after it has begun to answer, or is garbled.
ErrorChunk ==
    /\ Polls /\ ~cancelled /\ script # <<>>
    /\ \E n \in {0, 1}, bad \in {Frame("error", 0, "Overloaded"), Frame("error", 0, "ContextOverflow"), Plain("garbage")} :
        Receives(Append(SubSeq(script, 1, n), bad))
    /\ script' = <<>>

Breaks ==
    /\ Polls /\ ~cancelled /\ script # <<>>
    /\ Fail("Transport")
    /\ UNCHANGED <<dialect, answer, script, dec, pending, cancelled, taken>>

\* The body ends, maybe inside an answer, maybe one blank line short of a frame.
EndOfBody ==
    /\ Polls /\ ~cancelled
    /\ \E held \in {<<>>} \union (IF script = <<>> THEN {} ELSE {<<Head(script)>>}) :
        LET read == Finish(dec, held) IN
            /\ dec' = read.dec
            /\ pending' = read.out
            /\ error' = read.error
            /\ script' = SubSeq(script, Len(held) + 1, Len(script))
    /\ state' = "finished"
    /\ UNCHANGED <<dialect, answer, cancelled, taken>>

Next == Ask \/ ConnectFails \/ Refused \/ Connects \/ Cancel \/ Take \/ SeesCancel
        \/ Chunk \/ ErrorChunk \/ Breaks \/ EndOfBody

Spec == Init /\ [][Next]_vars

(* ---- properties ---- *)

Errors == {"none", "Auth", "RateLimited", "Overloaded", "ContextOverflow", "Http4xx", "Http5xx",
           "Truncated", "Transport", "Configuration", "Decode", "Cancelled"}

\* An error is one of the kinds the loop knows, and nothing follows one.
TypeOK ==
    /\ dialect \in Dialects /\ Len(answer) <= MaxBlocks
    /\ state \in {"idle", "connecting", "streaming", "finished"} /\ cancelled \in BOOLEAN
    /\ error \in Errors
    /\ error # "none" => state = "finished"
    /\ dec.next \in 0..MaxBlocks /\ Cardinality(dec.started) <= MaxBlocks

OfType(type) == SelectSeq(taken, LAMBDA e : e.type = type)


\* What the loop can tell apart: every block starts once, under a number of its
\* own, and what is said for a number comes between its start and its end.
BlocksAreWhole ==
    \A i \in DOMAIN taken :
        LET e == taken[i]
            starts == {j \in DOMAIN taken : taken[j].type = "start" /\ taken[j].index = e.index}
            ends == {j \in DOMAIN taken : taken[j].type = "end" /\ taken[j].index = e.index}
        IN e.type \in {"start", "delta"} =>
              /\ \E j \in starts : j <= i /\ taken[j].kind = e.kind
              /\ Cardinality(starts) = 1
              /\ \A j \in ends : i < j

\* provider/mod.rs:158, body.rs:26: whatever the chunks, the losses and the end
\* of the body, a stream that reports no error gave the loop the model's answer,
\* every block of it finished, and then the end of the message once.
AnswerArrivesWhole ==
    state = "finished" /\ error = "none" /\ pending = <<>> =>
        /\ [k \in DOMAIN OfType("start") |-> OfType("start")[k].kind] = answer
        /\ \A k \in DOMAIN OfType("start") :
            LET i == OfType("start")[k].index IN
            /\ Delta(i, answer[k]) \in Range(taken) /\ End(i) \in Range(taken)
        /\ Len(OfType("done")) = 1 /\ Last(taken) = Done
=============================================================================
