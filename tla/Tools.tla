------------------------------- MODULE Tools --------------------------------
(***************************************************************************)
(* One call of a built-in tool after another: a shell command and the      *)
(* process group it grows, a walk over the files, a read.  What a call     *)
(* answers is cleaned and capped in the loop, and what was cut is kept in  *)
(* a file the model can read on from.  Text is a sequence of characters:   *)
(* "w" is two bytes, "n" ends a line, "bad" is not UTF-8.                  *)
(***************************************************************************)
EXTENDS Naturals, Sequences, FiniteSets, SequencesExt

CONSTANTS
    Kids,          \* the processes a command may leave in the background
    Outputs,       \* what a stream of a command may carry
    Trees,         \* what a walk may meet: sequences of entries
    Limit,         \* bytes of an answer that go into the request
    MaxFileBytes,  \* bytes of a file read() takes
    MaxResults,    \* results of a walk
    MaxCalls       \* bound on the calls of a behaviour

VARIABLES
    tool, pc,      \* the call being made, and where its run() is
    group,         \* the processes of the command's group
    holders,       \* those that hold its pipes open
    cancelled,     \* the turn's token
    walk,          \* what the walk has yet to meet, and its results
    answer,        \* how the last call ended, and its text
    spill,         \* the complete text of the last answer that was cut
    calls

vars == <<tool, pc, group, holders, cancelled, walk, answer, spill, calls>>

Procs == {"shell"} \union Kids
Alive == {p \in Procs : group[p] \in {"running", "deaf"}}

(* ---- text ---- *)

Bytes(text) == Len(text) + Cardinality({i \in DOMAIN text : text[i] = "w"})
Lines(text) == Cardinality({i \in DOMAIN text : text[i] = "n"})
               + (IF text # <<>> /\ Last(text) # "n" THEN 1 ELSE 0)

\* One character of output: escapes, cursor movement and control bytes go, and
\* a carriage return on its own becomes a line.
Sanitised(s, ch) ==
    LET plain(t) == CASE ch = "esc" -> [t EXCEPT !.mode = "esc"]
                      [] ch = "cr" -> [t EXCEPT !.mode = "cr"]
                      [] ch = "bel" -> t
                      [] OTHER -> [t EXCEPT !.out = Append(@, ch)]
        text == [s EXCEPT !.mode = "text"]
    IN CASE s.mode = "csi" -> IF ch \in {"x", "[", "]"} THEN text ELSE s
         [] s.mode = "osc" -> IF ch = "bel" THEN text ELSE s
         [] s.mode = "esc" /\ ch = "[" -> [s EXCEPT !.mode = "csi"]
         [] s.mode = "esc" /\ ch = "]" -> [s EXCEPT !.mode = "osc"]
         [] s.mode = "cr" /\ ch # "n" -> plain([text EXCEPT !.out = Append(@, "n")])
         [] OTHER -> plain(text)
sanitise(input) ==
    LET end == FoldLeft(Sanitised, [mode |-> "text", out |-> <<>>], input)
    IN IF end.mode = "cr" THEN Append(end.out, "n") ELSE end.out

\* The longest beginning, and the longest end, of at most n bytes and of whole
\* characters.
FloorByCount(text, n) == IF n > Len(text) THEN Len(text) ELSE n
FloorAt(text, n) == CHOOSE k \in 0..Len(text) : Bytes(SubSeq(text, 1, k)) <= n
                        /\ (k = Len(text) \/ Bytes(SubSeq(text, 1, k + 1)) > n)
Head_(text, n) == SubSeq(text, 1, FloorAt(text, n))
Tail_(text, n) == Reverse(Head_(Reverse(text), n))

cap(text) ==
    IF Bytes(text) <= Limit THEN [head |-> text, tail |-> <<>>, dropped |-> 0]
    ELSE LET head == Head_(text, Limit \div 2)
             tail == Tail_(text, Limit - Limit \div 2)
         IN [head |-> head, tail |-> tail, dropped |-> Bytes(text) - Bytes(head) - Bytes(tail)]

NoSpill == <<"none">>
Untouched(text) == [before |-> text, after |-> <<>>, dropped |-> 0, marked |-> FALSE, resumeAt |-> 0, omitted |-> 0]
\* The marker goes in the middle of what is left, and says what it stands for.
Marked(before, after, dropped, clean) ==
    LET shown == Lines(before) + Lines(after)
    IN [before |-> before, after |-> after, dropped |-> dropped, marked |-> TRUE,
        resumeAt |-> Lines(before) + 1,
        omitted |-> IF Lines(clean) > shown THEN Lines(clean) - shown ELSE 0]
Halved(text, split, dropped, clean) ==
    Marked(SubSeq(text, 1, split), SubSeq(text, split + 1, Len(text)), dropped, clean)
Capped(clean, capped) ==
    LET text == capped.head \o capped.tail
    IN IF capped.dropped = 0 THEN [text |-> Untouched(clean), spill |-> NoSpill]
       ELSE [text |-> Halved(text, FloorAt(text, Bytes(text) \div 2), capped.dropped, clean), spill |-> clean]
Cleaned(clean) == Capped(clean, cap(clean))
finish(raw) == Cleaned(sanitise(raw))

\* The file could not be written: what fits of the text as it came.
Fallback(raw) == LET capped == cap(raw) IN
    [Untouched(capped.head) EXCEPT !.after = capped.tail, !.dropped = capped.dropped]

(* ---- a call ---- *)

NoWalk == [left |-> <<>>, out |-> 0, met |-> 0]
Nothing == [kind |-> "none", of |-> "none", text |-> Untouched(<<>>)]
Quiet == [p \in Procs |-> "none"]

Init ==
    /\ tool = "none" /\ pc = "idle"
    /\ group = Quiet /\ holders = {}
    /\ cancelled = FALSE /\ walk = NoWalk
    /\ answer = Nothing /\ spill = NoSpill /\ calls = 0

Starts(t) ==
    /\ pc = "idle" /\ calls < MaxCalls
    /\ tool' = t /\ pc' = "running" /\ calls' = calls + 1
    /\ UNCHANGED cancelled

\* The loop cleans, caps and spills what a call returned; an error is shown as it is.
Answered(kind, text, kept) ==
    /\ pc' = "idle"
    /\ answer' = [kind |-> kind, of |-> tool', text |-> text]
    /\ spill' = IF kept # NoSpill THEN kept ELSE spill
Saves(raw, done) ==
    \/ Answered("ok", done.text, done.spill)
    \/ done.spill # NoSpill /\ Answered("ok", Fallback(raw), NoSpill)
Succeeds(raw) == Saves(raw, finish(raw))
Fails(kind) == Answered(kind, Untouched(<<>>), NoSpill)

Cancel ==
    /\ ~cancelled /\ pc # "idle" /\ cancelled' = TRUE
    /\ UNCHANGED <<tool, pc, group, holders, walk, answer, spill, calls>>

(* ---- a command ---- *)

\* What an earlier command left in the background is no longer this call's.
Spawn ==
    /\ Starts("bash")
    /\ group' = [Quiet EXCEPT !["shell"] = "running"] /\ holders' = {"shell"}
    /\ UNCHANGED <<walk, answer, spill>>

\* A process of the group starts another, which may let go of the pipes and may
\* ignore the first signal.
Fork ==
    /\ tool = "bash" /\ pc \in {"running", "stopping"} /\ Alive # {}
    /\ \E k \in Kids, how \in {"running", "deaf"}, holds \in BOOLEAN :
        /\ group[k] = "none"
        /\ group' = [group EXCEPT ![k] = how]
        /\ holders' = IF holds THEN holders \union {k} ELSE holders
    /\ UNCHANGED <<tool, pc, cancelled, walk, answer, spill, calls>>

Ends(ps) ==
    /\ group' = [p \in Procs |-> IF p \in ps THEN "dead" ELSE group[p]]
    /\ holders' = holders \ ps

ProcessEnds ==
    /\ tool = "bash" /\ pc \in {"running", "stopping"}
    /\ \E p \in Alive : Ends({p})
    /\ UNCHANGED <<tool, pc, cancelled, walk, answer, spill, calls>>

\* A stream that is not UTF-8 is read as nothing at all.
Read_(stream) == IF \E i \in DOMAIN stream : stream[i] = "bad" THEN <<>> ELSE stream
OnItsOwnLine(text, more) ==
    IF more = <<>> THEN text
    ELSE IF text # <<>> /\ Last(text) # "n" THEN text \o <<"n">> \o more ELSE text \o more
\* "x" stands for the exit status, and for the words of an empty answer.
Combined(out, err, success) ==
    LET both == OnItsOwnLine(Read_(out), Read_(err))
        all == IF success THEN both ELSE OnItsOwnLine(both, <<"x">>)
    IN IF \A i \in DOMAIN all : all[i] \in {"n", "cr"} THEN <<"x">> ELSE all

\* Both streams have ended and the shell has been waited for; a cancelled token
\* would have been seen first.
Collected ==
    /\ tool = "bash" /\ pc = "running" /\ ~cancelled
    /\ holders = {} /\ group["shell"] = "dead"
    /\ \E out \in Outputs, err \in {<<>>, <<"x">>}, success \in BOOLEAN :
        UNCHANGED tool /\ Succeeds(Combined(out, err, success))
    /\ UNCHANGED <<group, holders, walk, cancelled, calls>>

\* The token or the timeout: the first signal goes to the whole group.
OnlyTheShell == {"shell"} \intersect Alive
TreeOf == Alive
Signals ==
    /\ tool = "bash" /\ pc = "running"
    /\ pc' = "stopping"
    /\ Ends({p \in TreeOf : group[p] = "running"})
    /\ UNCHANGED <<tool, cancelled, walk, answer, spill, calls>>

\* A moment later the second, which nothing ignores.
Kills ==
    /\ tool = "bash" /\ pc = "stopping"
    /\ Ends(TreeOf)
    /\ UNCHANGED <<tool, walk, cancelled, calls>>
    /\ Fails(IF cancelled THEN "cancelled" ELSE "failed")

(* ---- a walk ---- *)

StartWalk ==
    /\ Starts("walk")
    /\ \E tree \in Trees : walk' = [NoWalk EXCEPT !.left = tree]
    /\ UNCHANGED <<group, holders, answer, spill>>

\* An entry has as many results as the tool finds in it; one that is unreadable,
\* binary or too large has none it will see.
Found(entry) == IF entry.readable THEN entry.hits ELSE 0
\* The limit counted from each file anew.
RoomOfEachFile == MaxResults
Room == MaxResults - walk.out

Visit ==
    /\ tool = "walk" /\ pc = "running" /\ ~cancelled
    /\ walk.left # <<>> /\ walk.out < MaxResults
    /\ LET n == Found(Head(walk.left)) IN
        walk' = [left |-> Tail(walk.left), met |-> walk.met + n,
                 out |-> walk.out + (IF n > Room THEN Room ELSE n)]
    /\ UNCHANGED <<tool, pc, group, holders, cancelled, answer, spill, calls>>

\* "x" is the list of results and "n" the note that there may be more.
Listing(n) == IF n >= MaxResults THEN <<"x", "n">> ELSE <<"x">>

WalkEnds ==
    /\ tool = "walk" /\ pc = "running"
    /\ cancelled \/ walk.left = <<>> \/ walk.out >= MaxResults
    /\ UNCHANGED <<tool, group, holders, walk, cancelled, calls>>
    /\ IF cancelled THEN Fails("cancelled") ELSE Succeeds(Listing(walk.out))

(* ---- a read ---- *)

\* The text from its n-th line on.
From(text, n) ==
    LET ends == {0} \union {i \in DOMAIN text : text[i] = "n"}
        at == {e \in ends : Cardinality({i \in ends : i # 0 /\ i <= e}) = n - 1}
    IN IF at = {} THEN <<>> ELSE SubSeq(text, (CHOOSE e \in at : TRUE) + 1, Len(text))

\* The model reads the file the marker names, from the line it names.
ReadsOn ==
    /\ pc = "idle" /\ answer.text.marked
    /\ calls < MaxCalls /\ calls' = calls + 1
    /\ tool' = "read"
    /\ IF Bytes(spill) > MaxFileBytes THEN Fails("failed")
       ELSE LET rest == From(spill, answer.text.resumeAt) IN Succeeds(IF rest = <<>> THEN <<"x">> ELSE rest)
    /\ UNCHANGED <<group, holders, cancelled, walk>>

NewTurn ==
    /\ pc = "idle" /\ cancelled /\ cancelled' = FALSE
    /\ UNCHANGED <<tool, pc, group, holders, walk, answer, spill, calls>>

Next == Cancel \/ Spawn \/ Fork \/ ProcessEnds \/ Collected \/ Signals \/ Kills
        \/ StartWalk \/ Visit \/ WalkEnds \/ ReadsOn \/ NewTurn

Spec == Init /\ [][Next]_vars

(* ---- properties ---- *)

\* A call that is running has a tool, and a walk never holds more than its room.
TypeOK ==
    /\ pc \in {"idle", "running", "stopping"} /\ calls \in 0..MaxCalls
    /\ tool \in {"none", "bash", "walk", "read"} /\ (pc # "idle" => tool \in {"bash", "walk"})
    /\ DOMAIN group = Procs /\ holders \subseteq Alive
    /\ walk.out \in 0..MaxResults

\* proc.rs:3, bash.rs:203: whatever a command started, and whenever it started
\* it, nothing of its group is left when its call was cancelled or timed out.
NoOrphans == pc = "idle" /\ answer.of = "bash" /\ answer.kind \in {"cancelled", "failed"} => Alive = {}

\* truncate.rs:80-84, 120-124: what goes into the request stays within its bytes,
\* keeps the beginning and the end, and says exactly how much it leaves out of
\* the text that is kept; and a walk that stopped early says so.
CutsAreAccounted ==
    LET t == answer.text
        shown == t.before \o t.after
    IN /\ Bytes(shown) <= Limit
       /\ t.marked =>
            /\ t.dropped + Bytes(shown) = Bytes(spill)
            /\ \E k \in 0..Len(shown) : IsPrefix(SubSeq(shown, 1, k), spill) /\ IsSuffix(SubSeq(shown, k + 1, Len(shown)), spill)
            /\ t.omitted <= Lines(spill)
       /\ pc = "idle" /\ answer.of = "walk" /\ answer.kind = "ok" /\ (walk.left # <<>> \/ walk.met > walk.out)
            => t.before = <<"x", "n">>

\* truncate.rs:123: the file the marker names is one the read tool takes.
SpilledIsReadable == answer.text.marked => Bytes(spill) <= MaxFileBytes

\* agent/mod.rs:63: where the file could not be written, what fits is sent and
\* the answer says that it is not all.
CutIsSaid == answer.text.dropped > 0 => answer.text.marked
=============================================================================
