----------------------------- MODULE Transcripts -----------------------------
(***************************************************************************)
(* What the window shows of a session that runs: rows built from the       *)
(* supervisor's stream as it is relayed, and seeded once from the session  *)
(* file, which the agent writes meanwhile.  A prompt is in the file and    *)
(* not in the stream; an answer is in the stream before it is in the file; *)
(* a tool's result is in the file before it is in the stream.              *)
(***************************************************************************)
EXTENDS Naturals, Sequences, FiniteSets

CONSTANTS
    MaxItems,    \* bound on the items of the session
    MaxRetries   \* bound on the attempts that break off

VARIABLES
    agent,       \* what the session's task is at: its step, the item, retries
    items,       \* what the agent has minted
    file,        \* the records of items, in the order they were appended
    stream,      \* events sent and not observed yet
    rows,        \* the entries of the transcript
    seeded,      \* the file has been folded in
    opened       \* what transcript() has read of the file, <<>> when it reads nothing

vars == <<agent, items, file, stream, rows, seeded, opened>>
window == <<rows, seeded, opened>>

Entry(id, kind, state) == [id |-> id, kind |-> kind, state |-> state]
Event(type, e) == [type |-> type, entry |-> e]
Ids == 1..MaxItems
Divider == Entry(0, "turn", "whole")

\* Records of one item follow each other; the last one counts.
RecordOf(records, id) ==
    LET at == {i \in DOMAIN records : records[i].id = id}
    IN records[CHOOSE i \in at : \A j \in at : j <= i]
Recorded(records) == {records[i].id : i \in DOMAIN records}
Folded(records) ==
    LET First(i) == \A j \in 1..(i - 1) : records[j].id # records[i].id
        firsts == SelectSeq([i \in DOMAIN records |-> i], First)
    IN [k \in DOMAIN firsts |-> RecordOf(records, records[firsts[k]].id)]

Init ==
    /\ agent = [pc |-> "idle", item |-> 0, retries |-> 0] /\ items = 0 /\ file = <<>>
    /\ stream = <<>> /\ rows = <<>> /\ seeded = FALSE /\ opened = <<>>

(* ---- the agent ---- *)

Mints == items < MaxItems /\ items' = items + 1
Goes(pc, item) == agent' = [agent EXCEPT !.pc = pc, !.item = item]
Sends(events) == stream' = stream \o events
Appends(e) == file' = Append(file, e)

\* A prompt is recorded and announced to nobody.
Prompt ==
    /\ agent.pc = "idle" /\ Mints /\ Goes("asks", 0)
    /\ Appends(Entry(items + 1, "user", "whole"))
    /\ UNCHANGED <<stream, window>>
BlockStarts ==
    /\ agent.pc = "asks" /\ Mints
    /\ \E kind \in {"agent", "tool"} :
          /\ Goes(kind, items + 1)
          /\ Sends(<<Event("started", Entry(items + 1, kind, "part"))>>)
    /\ UNCHANGED <<file, window>>
\* The attempt breaks off; what is announced as dropped is an id of its own.
BlockBreaks ==
    /\ agent.pc \in {"agent", "tool"} /\ agent.retries < MaxRetries
    /\ agent' = [agent EXCEPT !.pc = "asks", !.item = 0, !.retries = @ + 1]
    /\ Sends(<<Event("discarded", Entry(0, "agent", "part"))>>)
    /\ UNCHANGED <<items, file, window>>
Over(pc) == IF pc = "tool" THEN "tool done" ELSE "agent done"
\* A block that is whole is announced first and recorded when the step is over.
BlockCompletes ==
    /\ agent.pc \in {"agent", "tool"} /\ agent' = [agent EXCEPT !.pc = Over(@)]
    /\ Sends(<<Event("completed", Entry(agent.item, agent.pc, IF agent.pc = "tool" THEN "pending" ELSE "whole"))>>)
    /\ UNCHANGED <<items, file, window>>
StepRecorded ==
    /\ agent.pc \in {"agent done", "tool done"}
    /\ IF agent.pc = "tool done"
       THEN Appends(Entry(agent.item, "tool", "pending")) /\ Goes("runs", agent.item)
       ELSE Appends(Entry(agent.item, "agent", "whole")) /\ Goes("ends", 0)
    /\ UNCHANGED <<items, stream, window>>
ToolRuns ==
    /\ agent.pc = "runs" /\ Goes("finishes", agent.item)
    /\ Sends(<<Event("updated", Entry(agent.item, "tool", "running"))>>)
    /\ UNCHANGED <<items, file, window>>
ToolRecorded ==
    /\ agent.pc = "finishes" /\ Goes("answers", agent.item)
    /\ Appends(Entry(agent.item, "tool", "whole"))
    /\ UNCHANGED <<items, stream, window>>
ToolAnswers ==
    /\ agent.pc = "answers" /\ \E pc \in {"asks", "ends"} : Goes(pc, 0)
    /\ Sends(<<Event("updated", Entry(agent.item, "tool", "whole"))>>)
    /\ UNCHANGED <<items, file, window>>
TurnEnds ==
    /\ agent.pc \in {"ends", "asks"} /\ Goes("idle", 0)
    /\ Sends(<<Event("ended", Divider)>>)
    /\ UNCHANGED <<items, file, window>>

(* ---- the window ---- *)

At(entries, id) == {i \in DOMAIN entries : entries[i].id = id /\ id # 0}
upsert(entries, e) ==
    IF At(entries, e.id) = {} THEN Append(entries, e)
    ELSE [i \in DOMAIN entries |-> IF i \in At(entries, e.id) THEN e ELSE entries[i]]
discard(entries, id) == SelectSeq(entries, LAMBDA r : r.id # id \/ id = 0)

apply(entries, event) ==
    CASE event.type \in {"started", "updated", "completed"} -> upsert(entries, event.entry)
      [] event.type = "discarded" -> discard(entries, event.entry.id)
      [] event.type = "ended" -> Append(entries, event.entry)

\* The relay observes an event before it tells the window of it.
Observe ==
    /\ stream # <<>> /\ stream' = Tail(stream)
    /\ rows' = apply(rows, Head(stream))
    /\ UNCHANGED <<agent, items, file, seeded, opened>>

\* The file taken as it is: also for the items that were seen live.
seedAll(entries, records) == records \o SelectSeq(entries, LAMBDA r : r.id \notin Recorded(records))
\* Only what was not seen live, and ahead of it.
seed(entries, records) == SelectSeq(records, LAMBDA r : At(entries, r.id) = {}) \o entries

\* transcript() loads the file without the lock, and takes it for the seed.
Open ==
    /\ file # <<>> /\ opened = <<>>
    /\ opened' = Folded(file)
    /\ UNCHANGED <<agent, items, file, stream, rows, seeded>>
View ==
    /\ opened # <<>> /\ opened' = <<>> /\ seeded' = TRUE
    /\ rows' = IF seeded THEN rows ELSE seed(rows, opened)
    /\ UNCHANGED <<agent, items, file, stream>>

Next ==
    \/ Prompt \/ BlockStarts \/ BlockBreaks \/ BlockCompletes \/ StepRecorded
    \/ ToolRuns \/ ToolRecorded \/ ToolAnswers \/ TurnEnds \/ Observe \/ Open \/ View

Spec == Init /\ [][Next]_vars

(* ---- properties ---- *)

TypeOK ==
    /\ items \in 0..MaxItems /\ agent.item \in 0..items /\ agent.retries \in 0..MaxRetries
    /\ \A i \in DOMAIN rows : rows[i].id \in 0..items /\ rows[i].state \in {"part", "pending", "running", "whole"}

\* An item has one row, and once the stream has been observed and the turn is
\* over the row is what the file holds of it, also when the file was read while
\* the item changed (transcript.rs:107).
Settled == stream = <<>> /\ agent.pc = "idle"
RowsAgree ==
    /\ \A i, j \in DOMAIN rows : i # j /\ rows[i].id = rows[j].id => rows[i].id = 0
    /\ Settled => \A i \in DOMAIN rows :
          rows[i].id \in Recorded(file) => rows[i] = RecordOf(file, rows[i].id)

\* A window that has read the file and seen the stream shows every prompt and
\* every answer (shell.rs:157 "late rather than wrong").
NothingIsMissing == Settled /\ seeded => Recorded(file) \subseteq {rows[i].id : i \in DOMAIN rows}

\* What it shows is in the order in which it was said (transcript.rs:111).
ShownInOrder ==
    \A i, j \in DOMAIN rows :
        i < j /\ {rows[i].id, rows[j].id} \subseteq Recorded(file) => rows[i].id < rows[j].id
=============================================================================
