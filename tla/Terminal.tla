------------------------------ MODULE Terminal ------------------------------
(***************************************************************************)
(* One hosted tool in a pseudo-terminal: the tool writes, a pump thread    *)
(* moves its bytes into a bounded ring, a watcher thread learns of its     *)
(* end, a relay task tells the window to ask, and the window reads by      *)
(* cursor.  The other way, prompts are typed with a pause before Enter.    *)
(***************************************************************************)
EXTENDS Naturals, Sequences, FiniteSets, SequencesExt

CONSTANTS
    MaxBytes,    \* what the ring holds
    MaxOutput,   \* bound on the bytes the tool writes
    MaxTyped     \* bound on the prompts typed

VARIABLES
    alive,       \* whether the tool runs
    stream,      \* every byte it ever wrote
    pumped,      \* how many of them the pump has moved
    ring,        \* the bytes kept
    written,     \* the ring's count of all the bytes it was given
    pump,        \* "reads", "notes" (pushed, not yet told) or "ended"
    watch,       \* "waits", "notes" or "ended"
    status,      \* Running, Exited or Ended
    kill,        \* the kill under way: "none", "signalled"
    relay,       \* the relay task: where it stands
    woken,       \* whether a notice came since it registered
    news,        \* whether the window was told to ask
    cursor,      \* the window's cursor
    held,        \* the bytes the window was given, and what it made of them
    typed,       \* prompts typed whose Enter is still to come
    input        \* what the tool received

vars == <<alive, stream, pumped, ring, written, pump, watch, status, kill, relay, woken, news, cursor, held, typed, input>>
output == <<stream, pumped, ring, written>>
threads == <<pump, watch, relay, woken, news>>
window == <<cursor, held>>
keyboard == <<typed, input>>

\* A letter, the two bytes of one wider letter, and a question to the terminal.
Bytes == {"a", "h1", "h2", "query"}
\* Wider letters are written whole: h2 follows h1 and nothing else does.
Half(s) == s # <<>> /\ Last(s) = "h1"
Speaks(s, b) == (b = "h2") = Half(s)

Init ==
    /\ alive = TRUE /\ stream = <<>> /\ pumped = 0 /\ ring = <<>> /\ written = 0
    /\ pump = "reads" /\ watch = "waits" /\ status = "Running" /\ kill = "none"
    /\ relay = "listens" /\ woken = FALSE /\ news = FALSE
    /\ cursor = 0 /\ held = [bytes |-> <<>>, text |-> <<>>, gap |-> 0]
    /\ typed = {} /\ input = <<>>

(* ---- the tool ---- *)

Write ==
    /\ alive /\ Len(stream) < MaxOutput
    /\ \E b \in Bytes : Speaks(stream, b) /\ stream' = Append(stream, b)
    /\ UNCHANGED <<alive, pumped, ring, written, threads, status, kill, window, keyboard>>

\* It ends: on its own, or on the signal a kill sends to its group.
Exit ==
    /\ alive /\ ~Half(stream)
    /\ alive' = FALSE
    /\ UNCHANGED <<output, threads, status, kill, window, keyboard>>

(* ---- the threads beside it ---- *)

\* notify_waiters: only who is registered at the moment hears of it.
Notify == woken' = (woken \/ relay = "listens")

\* The excess as it was before the chunk came.
ExcessBefore(all, chunk) == IF Len(all) > MaxBytes + Len(chunk) THEN Len(all) - MaxBytes - Len(chunk) ELSE 0
Excess(all, chunk) == IF Len(all) > MaxBytes THEN Len(all) - MaxBytes ELSE 0
Push(chunk) ==
    LET all == ring \o chunk
    IN ring' = SubSeq(all, Excess(all, chunk) + 1, Len(all)) /\ written' = written + Len(chunk)

Pump ==
    /\ pump = "reads" /\ pumped < Len(stream)
    /\ \E n \in (pumped + 1)..Len(stream) : Push(SubSeq(stream, pumped + 1, n)) /\ pumped' = n
    /\ pump' = "notes"
    /\ UNCHANGED <<alive, stream, watch, relay, woken, news, status, kill, window, keyboard>>
PumpNotes ==
    /\ pump = "notes" /\ pump' = "reads" /\ Notify
    /\ UNCHANGED <<alive, output, watch, relay, news, status, kill, window, keyboard>>
PumpEnds ==
    /\ pump = "reads" /\ ~alive /\ pumped = Len(stream)
    /\ pump' = "ended"
    /\ UNCHANGED <<alive, output, watch, relay, woken, news, status, kill, window, keyboard>>

\* Only if nothing was decided: a kill's Ended is not turned into an exit code.
\* A watcher that reports what it saw, whatever a kill has said.
SetsAnyway == "Exited"
Outcome == IF status = "Running" THEN "Exited" ELSE status
Watch ==
    /\ watch = "waits" /\ ~alive
    /\ status' = Outcome /\ watch' = "notes"
    /\ UNCHANGED <<alive, output, pump, relay, woken, news, kill, window, keyboard>>
WatchNotes ==
    /\ watch = "notes" /\ watch' = "ended" /\ Notify
    /\ UNCHANGED <<alive, output, pump, relay, news, status, kill, window, keyboard>>

\* The group is signalled, which a tool may take its time to heed; then it is called ended.
Kill ==
    /\ kill = "none" /\ kill' = "signalled"
    /\ UNCHANGED <<alive, output, threads, status, window, keyboard>>
Killed ==
    /\ kill = "signalled" /\ kill' = "done" /\ status' = "Ended"
    /\ UNCHANGED <<alive, output, threads, window, keyboard>>

(* ---- the relay ---- *)

Relays ==
    /\ relay = "listens" /\ woken
    /\ relay' = "told" /\ news' = TRUE /\ woken' = FALSE
    /\ UNCHANGED <<alive, output, pump, watch, status, kill, window, keyboard>>
\* After the callback it looks at the status, and registers again only then.
RelaysOn ==
    /\ relay = "told"
    /\ relay' = IF status = "Running" THEN "listens" ELSE "ended"
    /\ UNCHANGED <<alive, output, pump, watch, woken, news, status, kill, window, keyboard>>

(* ---- the window ---- *)

earliest == written - Len(ring)
\* A ring that answers from its oldest byte whoever asks.
FromTheStart(from) == ring
read_from(from) ==
    LET start == IF from > earliest THEN from ELSE earliest
    IN SubSeq(ring, start - earliest + 1, Len(ring))

\* Decoding one read by itself: half a letter becomes a replacement character.
from_utf8_lossy(bytes) ==
    FoldLeft(LAMBDA text, b :
        CASE b = "h1" -> Append(text, "?")
          [] b = "h2" /\ text # <<>> /\ Last(text) = "?" -> Append(Front(text), "h")
          [] b = "h2" -> Append(text, "?")
          [] OTHER -> Append(text, b), <<>>, bytes)
strip_queries(bytes) == SelectSeq(bytes, LAMBDA b : b # "query")

Read ==
    /\ news /\ news' = FALSE
    /\ LET bytes == read_from(cursor)
           shown == IF cursor = 0 THEN strip_queries(bytes) ELSE bytes
       IN held' = [bytes |-> held.bytes \o bytes, text |-> held.text \o from_utf8_lossy(shown),
                   gap |-> held.gap + (IF cursor < earliest THEN earliest - cursor ELSE 0)]
    /\ cursor' = written
    /\ UNCHANGED <<alive, output, pump, watch, relay, woken, status, kill, keyboard>>

\* The page is loaded again: it starts over, from nothing.
Reload ==
    /\ cursor > 0
    /\ cursor' = 0 /\ held' = [bytes |-> <<>>, text |-> <<>>, gap |-> 0] /\ news' = TRUE
    /\ UNCHANGED <<alive, output, pump, watch, relay, woken, status, kill, keyboard>>

(* ---- typing ---- *)

\* The carriage return, among the numbers of the prompts.
Return == 0
Prompts == {i \in DOMAIN input : input[i] # Return}
Submit ==
    /\ alive /\ Cardinality(Prompts) < MaxTyped
    /\ LET n == Cardinality(Prompts) + 1
       IN typed' = typed \union {n} /\ input' = Append(input, n)
    /\ UNCHANGED <<alive, output, threads, status, kill, window>>
Enter ==
    /\ alive
    /\ \E n \in typed : typed' = typed \ {n}
    /\ input' = Append(input, Return)
    /\ UNCHANGED <<alive, output, threads, status, kill, window>>

Next ==
    \/ Write \/ Exit \/ Pump \/ PumpNotes \/ PumpEnds \/ Watch \/ WatchNotes \/ Kill \/ Killed
    \/ Relays \/ RelaysOn \/ Read \/ Reload \/ Submit \/ Enter

Spec == Init /\ [][Next]_vars

(* ---- properties ---- *)

TypeOK ==
    /\ status \in {"Running", "Exited", "Ended"} /\ pump \in {"reads", "notes", "ended"}
    /\ watch \in {"waits", "notes", "ended"} /\ relay \in {"listens", "told", "ended"}
    /\ Len(ring) <= MaxBytes /\ pumped \in 0..Len(stream) /\ cursor \in 0..written

\* A window that asks from its cursor is given every byte once and in order,
\* however many pushes lie between its questions, whatever the ring dropped and
\* whenever it started over; what it fell behind by is exactly what it misses.
NothingTwice ==
    /\ cursor = held.gap + Len(held.bytes)
    /\ cursor > 0 /\ held.gap = 0 => held.bytes = SubSeq(stream, 1, cursor)
    /\ IsSuffix(read_from(0), SubSeq(stream, 1, written)) /\ written = pumped

\* A tool somebody stopped is never reported as one that exited, whichever of
\* the kill and the watcher comes second (session.rs:486).
StoppedStaysEnded == [][status = "Ended" => status' = "Ended"]_vars

\* No letter is damaged by where a read ended: what the window shows is what the
\* bytes it was given say (buffer.rs:22, session.rs:454).
CharactersSurvive ==
    held.gap = 0 /\ (held.bytes = <<>> \/ Last(held.bytes) # "h1") =>
        "?" \notin {held.text[i] : i \in DOMAIN held.text}

\* Once the relay has ended there is nothing left to relay (lifecycle.rs:22).
NothingAfterTheExit == relay = "ended" => news \/ cursor = Len(stream)

\* Every prompt is followed by its own Enter before the next is typed.
PromptsStandAlone == \A i \in 1..(Len(input) - 1) : input[i] # Return => input[i + 1] = Return
=============================================================================
