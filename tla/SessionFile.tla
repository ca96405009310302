---------------------------- MODULE SessionFile ----------------------------
(***************************************************************************)
(* A session's file: appending to it, losing power or disk in the middle   *)
(* of a line, reading it back and appending again (axio-core/src/record/   *)
(* mod.rs and load.rs, axio/src/sessions.rs, surfaces/mod.rs, factory.rs). *)
(*                                                                         *)
(* The file is a sequence of lines, the last one not ended by a newline    *)
(* (and empty when the file ends with one).  A line is the sequence of     *)
(* the pieces written into it: a record in whole, a part of one that is    *)
(* text, or a part that ends inside a character of several bytes.  Only a  *)
(* line that is one whole record parses.  A write that fails, and a        *)
(* process that is killed, may leave any of the pieces behind.             *)
(***************************************************************************)
EXTENDS Naturals, Sequences, FiniteSets, SequencesExt

CONSTANTS
    MaxAppends,   \* bound: records handed to append() over the behaviour
    MaxLives      \* bound: processes that open the file, the first included

ASSUME SessionFileAssumption == {MaxAppends, MaxLives} \subseteq Nat

VARIABLES
    file,        \* what is on disk
    dirty,       \* SessionFile::dirty of the process that has the file open
    recording,   \* Recorder::File, or Recorder::Ephemeral after a failed open
    up,          \* a process runs the session
    session,     \* its transcript: items with an id and a status
    lives,       \* processes so far
    appends,     \* records handed to append() so far; numbers them
    nextId,      \* ItemId::generate
    texts,       \* ids of the messages; the rest are tool calls (history)
    acked,       \* items whose write was reported to have worked (history)
    seams        \* numbers of the first records of supervised resumes (history)

fileVars == <<file, dirty, recording, appends, acked, seams>>
vars == <<up, session, lives, nextId, texts, fileVars>>

Statuses == {"said", "pending", "ok", "cancelled"}
Items == [id : Nat \ {0}, status : Statuses]
Header == [id |-> 0, status |-> "header"]
Resumed == [id |-> 0, status |-> "resumed"]
TurnEnded == [id |-> 0, status |-> "turn_ended"]
Records == Items \union {Header, Resumed, TurnEnded}
Whole(n, record) == [n |-> n, record |-> record, part |-> "whole"]
Fragment(part) == [n |-> 0, record |-> Header, part |-> part]
Pieces == [n : Nat, record : Records, part : {"whole"}]
          \union {Fragment("torn"), Fragment("cut")}
IsItem(record) == record.id # 0

Init ==
    /\ file = <<>> /\ dirty = FALSE /\ recording = FALSE
    /\ up = FALSE /\ session = <<>>
    /\ lives = 0 /\ appends = 0 /\ nextId = 1
    /\ texts = {} /\ acked = {} /\ seams = {}

-----------------------------------------------------------------------------
(* Reading: load() is a function of the bytes.                             *)

\* BufRead::lines: a newline at the end of the file starts no further line.
PhysicalLines == IF file = <<>> \/ Last(file) # <<>> THEN file ELSE Front(file)

IsText(line) == \A k \in 1..Len(line) : line[k].part # "cut"

\* map_while(Result::ok): the first line that is not UTF-8 ends the file.
Lines ==
    LET broken == {k \in 1..Len(PhysicalLines) : ~IsText(PhysicalLines[k])} IN
    IF broken = {} THEN PhysicalLines
    ELSE SubSeq(PhysicalLines, 1, (CHOOSE k \in broken : \A j \in broken : k <= j) - 1)

Parses(line) == Len(line) = 1 /\ line[1].part = "whole"
BadLines == {k \in 1..Len(Lines) : Lines[k] # <<>> /\ ~Parses(Lines[k])}

\* Faulty: the last two lines count as the tail.
IsHoleUnlessNearEnd(k) == k + 1 < Len(Lines)

\* A bad last line is a notice; any other bad line degrades the load.
IsHole(k) == k # Len(Lines)
Degraded == \E k \in BadLines : IsHole(k)

\* The lines that are read.
ReadLines == {k \in 1..Len(Lines) : Parses(Lines[k])}

\* Faulty: a record that is always new, a record that changes nothing.
ReplacedNever(items, item) == Append(items, item)
ReplacedOnce(items, item) ==
    IF \E k \in 1..Len(items) : items[k].id = item.id THEN items ELSE Append(items, item)

\* "Replacing by id is the fold."
Replaced(items, item) ==
    IF \E k \in 1..Len(items) : items[k].id = item.id
    THEN [k \in 1..Len(items) |-> IF items[k].id = item.id THEN item ELSE items[k]]
    ELSE Append(items, item)

\* Faulty: every record but the header is an item.
FoldedAll(items, record) == IF record = Header THEN items ELSE Replaced(items, record)

\* Only items enter the transcript; the other records are observability.
Folded(items, record) == IF IsItem(record) THEN Replaced(items, record) ELSE items

\* The items after so many lines; a line that does not parse adds none.
ItemsAfter[k \in 0..Len(Lines)] ==
    IF k = 0 THEN <<>>
    ELSE IF Parses(Lines[k]) THEN Folded(ItemsAfter[k - 1], Lines[k][1].record)
    ELSE ItemsAfter[k - 1]
Unrepaired == ItemsAfter[Len(Lines)]

\* Every orphan is marked cancelled, in memory only.
Repaired(item) == IF item.status = "pending" THEN [item EXCEPT !.status = "cancelled"] ELSE item
Loaded == [k \in 1..Len(Unrepaired) |-> Repaired(Unrepaired[k])]

HasHeader == \E k \in ReadLines : Lines[k][1].record = Header

\* Faulty: nothing is said of a bad last line.
NoticedHoles(k) == k \in BadLines /\ IsHole(k)

\* Which bad lines load() says something about: all of them.
Noticed(k) == k \in BadLines
Notices == {k \in 1..Len(Lines) : Noticed(k)}

-----------------------------------------------------------------------------
(* Writing.                                                                *)

\* How far a write gets: nothing; the newline that sets a torn line apart;
\* some of the record; all but the closing newline; everything.
Stops == {"nothing", "apart", "torn", "cut", "unended", "done"}

Onto(lines, piece) ==
    IF lines = <<>> THEN <<<<piece>>>>
    ELSE [lines EXCEPT ![Len(lines)] = Append(@, piece)]

Leaves(stop, record, wasDirty) ==
    LET apart == IF wasDirty THEN Append(file, <<>>) ELSE file
        piece == Whole(appends + 1, record) IN
    CASE stop = "nothing" -> file
      [] stop = "apart" -> apart
      [] stop \in {"torn", "cut"} -> Onto(apart, Fragment(stop))
      [] stop = "unended" -> Onto(apart, piece)
      [] stop = "done" -> Append(Onto(apart, piece), <<>>)

\* Faulty: a failed write is forgotten.
DirtyNever(stop) == FALSE

\* A failed or short write leaves the file dirty; a good one cleans it.
DirtyAfter(stop) == stop # "done"

\* append(): the caller is never told that a write failed.
Write(record, stop, wasDirty) ==
    /\ appends < MaxAppends
    /\ appends' = appends + 1
    /\ file' = Leaves(stop, record, wasDirty)
    /\ dirty' = DirtyAfter(stop)
    /\ acked' = IF stop = "done" /\ IsItem(record)
                THEN acked \union {[n |-> appends + 1, record |-> record]} ELSE acked

\* An append of the running session: recorded, tried in vain, or not tried at
\* all because the recorder is Ephemeral.
Record(record) ==
    IF recording
    THEN (\E stop \in Stops : Write(record, stop, dirty)) /\ UNCHANGED <<recording, seams>>
    ELSE UNCHANGED fileVars

\* SessionFile::create writes the header in the same call.  The directory or
\* the open may fail: the session then runs unrecorded.
Create ==
    /\ lives = 0 /\ MaxLives > 0
    /\ lives' = 1 /\ up' = TRUE
    /\ \/ \E stop \in Stops : Write(Header, stop, FALSE) /\ recording' = TRUE
       \/ recording' = FALSE /\ UNCHANGED <<file, dirty, appends, acked>>
    /\ UNCHANGED <<session, nextId, texts, seams>>

\* A message is pushed when every call before it has its answer.
Say ==
    /\ up /\ nextId <= MaxAppends
    /\ \A k \in 1..Len(session) : session[k].status # "pending"
    /\ LET item == [id |-> nextId, status |-> "said"] IN
       session' = Append(session, item) /\ Record(item)
    /\ texts' = texts \union {nextId} /\ nextId' = nextId + 1
    /\ UNCHANGED <<up, lives>>

\* The calls of one answer are pushed together, before any of them is settled.
CallTool ==
    /\ up /\ nextId <= MaxAppends
    /\ session # <<>> /\ Last(session).status \in {"said", "pending"}
    /\ LET item == [id |-> nextId, status |-> "pending"] IN
       session' = Append(session, item) /\ Record(item)
    /\ nextId' = nextId + 1
    /\ UNCHANGED <<up, lives, texts>>

\* set_tool_status with the record that follows it.
Settle(k) ==
    /\ up /\ session[k].status = "pending"
    /\ LET item == [session[k] EXCEPT !.status = "ok"] IN
       session' = [session EXCEPT ![k] = item] /\ Record(item)
    /\ UNCHANGED <<up, lives, nextId, texts>>

\* run_turn ends and writes what the turn cost.
EndTurn ==
    /\ up
    /\ session # <<>> /\ Last(session).status # "pending"
    /\ Record(TurnEnded)
    /\ UNCHANGED <<up, session, lives, nextId, texts>>

\* The process exits or is killed between two appends.
Exit ==
    /\ up /\ up' = FALSE
    /\ UNCHANGED <<session, lives, nextId, texts, fileVars>>

\* load(), which refuses a file without a header, then SessionFile::reopen,
\* which takes the file to be clean and may fail.
ReopenedDirty == FALSE

Resume ==
    /\ ~up /\ 0 < lives /\ lives < MaxLives /\ HasHeader
    /\ lives' = lives + 1 /\ up' = TRUE /\ session' = Loaded
    /\ UNCHANGED <<nextId, texts>>

ResumeUnrecorded ==
    /\ Resume
    /\ recording' = FALSE /\ UNCHANGED <<file, dirty, appends, acked, seams>>

\* axio --resume writes a Resumed record before anything else.
ResumeInteractive ==
    /\ Resume
    /\ recording' = TRUE
    /\ \E stop \in Stops : Write(Resumed, stop, ReopenedDirty)
    /\ UNCHANGED seams

\* A supervised session goes straight on with its items.
ResumeSupervised ==
    /\ Resume
    /\ recording' = TRUE /\ dirty' = ReopenedDirty
    /\ seams' = seams \union {appends + 1}
    /\ UNCHANGED <<file, appends, acked>>

Next ==
    \/ Create \/ Say \/ CallTool \/ EndTurn \/ Exit
    \/ \E k \in 1..Len(session) : Settle(k)
    \/ ResumeUnrecorded \/ ResumeInteractive \/ ResumeSupervised

Spec == Init /\ [][Next]_vars

-----------------------------------------------------------------------------
(* Properties.                                                             *)

ReadNumbers == {Lines[k][1].n : k \in ReadLines}
Missed == {a \in acked : a.n \notin ReadNumbers}
StandsAlone(n) ==
    \E k \in 1..Len(file) : Parses(file[k]) /\ file[k][1].n = n

TypeOK ==
    /\ file \in Seq(Seq(Pieces))
    /\ {dirty, recording, up} \subseteq BOOLEAN
    /\ session \in Seq(Items) /\ Loaded \in Seq(Items)
    /\ lives \in 0..MaxLives /\ appends \in 0..MaxAppends
    /\ nextId \in 1..(MaxAppends + 1) /\ texts \subseteq 1..MaxAppends
    /\ acked \subseteq [n : 1..MaxAppends, record : Items]
    /\ seams \subseteq 1..(MaxAppends + 1)

\* "A torn line becomes one skippable bad line rather than corrupting the
\* record that follows it": an item whose write worked has a line to itself,
\* whatever was torn before it and whichever process tore it.  Only the first
\* record of a supervised resume is not promised one.
WrittenItemsStandAlone == \A a \in acked : a.n \in seams \/ StandsAlone(a.n)

\* "A bad line in the middle is different": a history with a gap, one that
\* misses an item whose write worked and reads a later one, is degraded.
GapsAreDegraded ==
    \A a \in Missed : (HasHeader /\ \E n \in ReadNumbers : n > a.n) => Degraded

\* A load that misses an item whose write worked says so, if the file is text,
\* and marks the load degraded where the history has a gap.
LossIsNoticed ==
    /\ (HasHeader /\ Missed # {} /\ \A k \in 1..Len(file) : IsText(file[k])) => Notices # {}
    /\ GapsAreDegraded

\* What load() returns is the history it was: every item once, every message
\* at its place among the messages, and every call between the message that
\* asked for it and the next one, even if its first records were lost.
HistoryInOrder ==
    LET step(id) == Cardinality({t \in texts : t <= id}) IN
    \A j, k \in 1..Len(Loaded) : j < k =>
        Loaded[j].id # Loaded[k].id /\ step(Loaded[j].id) <= step(Loaded[k].id)

\* The transcript a process resumes from has no call without an answer, and an
\* answer that was written and can be read is the one it has.
AnswersAreRead ==
    /\ \A k \in 1..Len(Loaded) : Loaded[k].status # "pending"
    /\ \A a \in acked \ Missed :
         a.record.status = "ok" => a.record \in ToSet(Loaded)

\* Whatever was lost around it, what a process resumes from is a history: in
\* order, with every call answered, and with the answers the file holds.
HistoryIsRead == HistoryInOrder /\ AnswersAreRead

\* "A truncated final line is a notice", and a hole marks the load degraded:
\* no item whose write worked is missing from a load without a word.
TruncationIsNoticed == HasHeader /\ Missed # {} => Notices # {} \/ Degraded

=============================================================================
