------------------------------ MODULE History ------------------------------
(***************************************************************************)
(* The series of past readings the quota panel draws: one file of lines,   *)
(* one writer (a probe that has ended), and readers that open the file     *)
(* whenever the window asks.  A write may end early, with the process      *)
(* (killed) or without it (a full disk): every failure is silent, and the  *)
(* next probe appends behind whatever was left.                            *)
(***************************************************************************)
EXTENDS Naturals, Sequences, FiniteSets, SequencesExt

CONSTANTS
    Windows,     \* the windows a probe may report
    Retention,   \* how long a reading is kept by a compaction
    Above,       \* lines above which the file is compacted
    MaxProbes,   \* bound on the probes
    MaxCuts      \* bound on the writes that end early

VARIABLES
    file,        \* the lines; a line is the pieces that were written on it
    ended,       \* whether the last line has its newline
    now,         \* the time of the last probe
    at,          \* what the recorder is at
    batch,       \* the readings it is recording
    kept,        \* the lines a compaction writes back
    acked,       \* the readings of records that were written to their end
    cuts,        \* writes that ended early
    wiped        \* a compaction was cut

vars == <<file, ended, now, at, batch, kept, acked, cuts, wiped>>

(* ---- lines ---- *)

Whole(r) == [reading |-> r, whole |-> TRUE, text |-> TRUE]
Part(r) == [Whole(r) EXCEPT !.whole = FALSE]
\* A label may hold characters of several bytes, and a cut may fall inside one.
PartOfACharacter(r) == [Part(r) EXCEPT !.text = FALSE]
Lines(readings) == [i \in DOMAIN readings |-> <<Whole(readings[i])>>]

\* Two pieces on one line are no reading, whole as they may be.
Parses(line) == Len(line) = 1 /\ line[1].whole
ReadingOf(line) == line[1].reading

\* Writing over what is there, from the start of the file.
Over(lines, more) == more \o SubSeq(lines, Len(more) + 1, Len(lines))
\* Writing behind a line that lacks its newline goes on with that line.
Behind(lines, more) ==
    IF ended \/ lines = <<>> \/ more = <<>> THEN lines \o more
    ELSE Front(lines) \o <<Last(lines) \o Head(more)>> \o Tail(more)

\* The file is read as text or not at all.
IsText == \A i \in DOMAIN file : \A j \in DOMAIN file[i] : file[i][j].text

\* Every reading on file, in the order of their times; bad lines are skipped.
load ==
    LET parsed == IF IsText THEN SelectSeq(file, Parses) ELSE <<>>
    IN SortSeq([i \in DOMAIN parsed |-> ReadingOf(parsed[i])], LAMBDA a, b : a.at < b.at)
series(window) == SelectSeq(load, LAMBDA r : r.window = window)

Young(r) == r.at + Retention >= now
Survives(line) == Parses(line) /\ Young(ReadingOf(line))

-----------------------------------------------------------------------------
Init ==
    /\ file = <<>> /\ ended = TRUE /\ now = 0 /\ at = "idle"
    /\ batch = <<>> /\ kept = <<>> /\ acked = {} /\ cuts = 0 /\ wiped = FALSE

\* A probe has ended; providers that failed have no windows, and a probe that
\* read none leaves the file alone.
record ==
    /\ at = "idle" /\ now < MaxProbes
    /\ now' = now + 1
    /\ \E ws \in SUBSET Windows :
          /\ batch' = SetToSeq({[at |-> now', window |-> w] : w \in ws})
          /\ at' = IF ws = {} THEN "idle" ELSE IF Len(file) > Above THEN "compact" ELSE "append"
    /\ UNCHANGED <<file, ended, kept, acked, cuts, wiped>>

\* The file is read and then opened to be written anew, which empties it; one
\* that is not text is left as it is.
compact ==
    /\ at = "compact"
    /\ IF IsText
       THEN /\ kept' = SelectSeq(file, Survives)
            /\ file' = <<>> /\ ended' = TRUE /\ at' = "rewrite"
       ELSE at' = "append" /\ UNCHANGED <<kept, file, ended>>
    /\ UNCHANGED <<now, batch, acked, cuts, wiped>>

\* A rewrite that takes the new readings along.
RewriteAll ==
    /\ at = "rewrite"
    /\ file' = kept \o Lines(batch) /\ ended' = TRUE /\ at' = "append" /\ kept' = <<>>
    /\ UNCHANGED <<now, batch, acked, cuts, wiped>>
Rewrite ==
    /\ at = "rewrite"
    /\ file' = kept /\ ended' = TRUE /\ at' = "append" /\ kept' = <<>>
    /\ UNCHANGED <<now, batch, acked, cuts, wiped>>

append ==
    /\ at = "append"
    /\ file' = Behind(file, Lines(batch)) /\ ended' = TRUE
    /\ acked' = acked \union ToSet(batch)
    /\ at' = "idle" /\ batch' = <<>>
    /\ UNCHANGED <<now, kept, cuts, wiped>>

\* The write at hand ends early: some lines of it are there, and perhaps a piece
\* of the next, which may lack its newline alone.
Left(lines, more) ==
    \E n \in 0..Len(more) - 1 :
        \/ /\ file' = Behind(lines, SubSeq(more, 1, n))
           /\ ended' = (ended \/ n > 0)
        \/ \E piece \in LET r == more[n + 1][1].reading
                        IN  {Whole(r), Part(r), PartOfACharacter(r)} :
              /\ file' = Behind(lines, Append(SubSeq(more, 1, n), <<piece>>))
              /\ ended' = FALSE

\* Killed: nothing else of this record is done.
Killed ==
    /\ at \in {"compact", "rewrite", "append"} /\ cuts < MaxCuts
    /\ \/ at = "append" /\ Left(file, Lines(batch)) /\ wiped' = wiped
       \/ at = "rewrite" /\ kept # <<>> /\ Left(<<>>, kept) /\ wiped' = TRUE
       \/ at \in {"compact", "append"} /\ UNCHANGED <<file, ended, wiped>>
    /\ at' = "idle" /\ batch' = <<>> /\ kept' = <<>> /\ cuts' = cuts + 1
    /\ UNCHANGED <<now, acked>>

\* A full disk: a compaction that could not write back goes on to the append.
DiskFull ==
    /\ at \in {"rewrite", "append"} /\ cuts < MaxCuts /\ cuts' = cuts + 1
    /\ \/ /\ at = "append" /\ Left(file, Lines(batch))
          /\ at' = "idle" /\ batch' = <<>> /\ UNCHANGED <<kept, wiped>>
       \/ /\ at = "rewrite" /\ kept # <<>> /\ Left(<<>>, kept)
          /\ at' = "append" /\ kept' = <<>> /\ wiped' = TRUE /\ UNCHANGED batch
    /\ UNCHANGED <<now, acked>>

Next == record \/ compact \/ Rewrite \/ append \/ Killed \/ DiskFull

Spec == Init /\ [][Next]_vars

-----------------------------------------------------------------------------
TypeOK ==
    /\ at \in {"idle", "compact", "rewrite", "append"}
    /\ now \in 0..MaxProbes /\ cuts \in 0..MaxCuts /\ {ended, wiped} \subseteq BOOLEAN
    /\ \A i \in DOMAIN file : file[i] # <<>>
    /\ at = "idle" => batch = <<>> /\ kept = <<>>

Missing == {r \in acked : Young(r) /\ r \notin ToSet(load)}

\* A write that ended early costs no more than one reading of those that were
\* recorded, whatever is written behind it, however often the file is compacted
\* afterwards and however long ago it was: only a compaction that was itself cut
\* or a cut inside a character may cost more (history.rs:8, 90, 116).
TailCostsOne == at # "rewrite" /\ ~wiped /\ IsText => Cardinality(Missing) <= cuts

\* No reading is drawn twice and none that was not measured, and the line of a
\* window runs forward in time, also behind torn lines (history.rs:99).
DrawnOnce ==
    \A w \in Windows :
        LET s == series(w)
        IN \A i, j \in DOMAIN s : i < j => s[i].at < s[j].at

\* What history.rs:8 says: a corrupt tail costs the sample it was to hold, and no
\* other.
TailCostsItself == at # "rewrite" /\ ~wiped => Missing = {}

\* What history.rs:8 and 90 say of any tail: that it must not lose the series.  Not
\* so of one that is cut inside a character: the file is not read any more, nor ever
\* compacted.
TailKeepsTheSeries == at # "rewrite" /\ ~wiped => Cardinality(Missing) <= cuts

\* What history.rs:90 says of the whole series, a compaction that is cut included.
SeriesSurvives == at = "idle" => Cardinality(Missing) <= cuts
=============================================================================
