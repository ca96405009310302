------------------------------- MODULE Index -------------------------------
(***************************************************************************)
(* The sidecar index several processes share: one append-only file, and in *)
(* each process the reading of it made when the process started, kept up   *)
(* with that process's own appends only.  With it, the start of a session: *)
(* a readable name picked, a worktree cut under it, the project's setup    *)
(* run, the entry recorded.  A write may stop half way, with the process   *)
(* or without it.  A discard gives the name back, whether it is recorded   *)
(* or not, and an entry goes on naming what was discarded.                 *)
(***************************************************************************)
EXTENDS Naturals, Sequences, FiniteSets, SequencesExt

CONSTANTS
    Procs,       \* the processes that share the state directory
    Sessions,    \* session ids, each given out once; "none" is none of them
    Names,       \* the readable names
    MaxPicks,    \* names a start tries; three in the code
    MaxWrites,   \* bound on the records offered to the file
    MaxTears     \* bound on the writes that stop half way

VARIABLES
    file,        \* the lines; the last may lack its newline
    open,        \* how the last line ends: "newline", or what a stopped write left
    up,          \* the processes that run
    mem,         \* process -> the entries it holds, in file order
    job,         \* process -> the start it is busy with
    owner,       \* the session a name's branch and directory were cut for, or "none"
    gone,        \* sessions whose own worktree was discarded (history)
    robbed,      \* sessions whose worktree a discard of another took away (history)
    used,        \* sessions given out
    acked,       \* the records whose append returned, in order, with their line
    tears        \* writes that stopped half way

trees == <<owner, gone, robbed>>
vars == <<file, open, up, mem, job, trees, used, acked, tears>>

(* ---- records and entries ---- *)

Started(s, n) == [rec |-> "started", session |-> s, value |-> n]
Closed(s, how) == [rec |-> "closed", session |-> s, value |-> how]
Renamed(s, title) == [rec |-> "renamed", session |-> s, value |-> title]
Labelled(s, label) == [rec |-> "labelled", session |-> s, value |-> label]
\* A line that is no record, and one that is not even text.
Damaged == [rec |-> "damaged", session |-> "none", value |-> "none"]
NotText == [rec |-> "not_text", session |-> "none", value |-> "none"]

Entry(s, n) == [session |-> s, name |-> n, title |-> "none", label |-> "none", closed |-> "no"]
At(entries, s) == {i \in DOMAIN entries : entries[i].session = s}
Knows(entries, s) == At(entries, s) # {}
Mark(entries, s, mark(_)) == [i \in DOMAIN entries |-> IF entries[i].session = s THEN mark(entries[i]) ELSE entries[i]]

remember(entries, s, n) ==
    IF Knows(entries, s) THEN Mark(entries, s, LAMBDA e : Entry(s, n)) ELSE Append(entries, Entry(s, n))
mark_labelled(entries, s, label) ==
    Mark(entries, s, LAMBDA e : IF e.label = "none" THEN [e EXCEPT !.label = label] ELSE e)

Apply(entries, line) ==
    CASE line.rec = "started" -> remember(entries, line.session, line.value)
      [] line.rec = "closed" -> Mark(entries, line.session, LAMBDA e : [e EXCEPT !.closed = line.value])
      [] line.rec = "renamed" -> Mark(entries, line.session, LAMBDA e : [e EXCEPT !.title = line.value])
      [] line.rec = "labelled" -> mark_labelled(entries, line.session, line.value)
      [] OTHER -> entries

\* A reader that gives up at the first line it cannot parse.
StopsAtDamage(lines) ==
    LET bad == {i \in DOMAIN lines : lines[i].rec \in {"not_text", "damaged"}}
    IN IF bad = {} THEN lines ELSE SubSeq(lines, 1, (CHOOSE i \in bad : \A j \in bad : i <= j) - 1)
\* Reading ends at the first line that is not text; a line that is no record is skipped.
Readable(lines) ==
    LET bad == {i \in DOMAIN lines : lines[i].rec = "not_text"}
    IN IF bad = {} THEN lines ELSE SubSeq(lines, 1, (CHOOSE i \in bad : \A j \in bad : i <= j) - 1)
Replay(lines) == FoldLeft(Apply, <<>>, Readable(lines))

(* ---- appending ---- *)

\* Where the write of a record may stop: in the middle, just before the newline,
\* or in the middle of a character of more than one byte (a title, a path).
Stops == {"half", "unended", "mid_char"}
\* What a stopped write shows to a reader, while it is the last line of the file.
Shown(record, stop) == CASE stop = "unended" -> record [] stop = "half" -> Damaged [] stop = "mid_char" -> NotText
\* A record written behind one that was stopped shares its line.
Joined == IF open = "newline" THEN file ELSE Front(file)
Behind(record) ==
    CASE open = "newline" -> record
      [] open = "mid_char" -> NotText
      [] OTHER -> Damaged

Writable == Len(acked) + tears < MaxWrites
Appended(record) ==
    /\ Writable
    /\ file' = Append(Joined, Behind(record)) /\ open' = "newline"
    /\ acked' = Append(acked, [record |-> record, line |-> Len(file')])
    /\ tears' = tears
\* The write stops half way: its caller sees an error, and memory stays as it was.
Torn(record) ==
    /\ Writable /\ tears < MaxTears
    /\ \E stop \in Stops :
          LET left == IF open \in {"newline", "unended"} THEN stop ELSE open
              shown == IF open = "newline" THEN Shown(record, stop)
                       ELSE IF open = "mid_char" \/ stop = "mid_char" THEN NotText ELSE Damaged
          IN /\ file' = Append(Joined, shown)
             /\ open' = IF open = "unended" /\ left = "unended" THEN "half" ELSE left
    /\ tears' = tears + 1 /\ acked' = acked

(* ---- the start of a session ---- *)

Idle == [pc |-> "idle", session |-> "none", name |-> "none", tries |-> 0]
Running(p) == p \in up

Init ==
    /\ file = <<>> /\ open = "newline" /\ acked = <<>> /\ tears = 0
    /\ up = {} /\ mem = [p \in Procs |-> <<>>] /\ job = [p \in Procs |-> Idle]
    /\ owner = [n \in Names |-> "none"] /\ gone = {} /\ robbed = {} /\ used = {}

Open(p) ==
    /\ ~Running(p)
    /\ up' = up \union {p} /\ mem' = [mem EXCEPT ![p] = Replay(file)]
    /\ UNCHANGED <<file, open, job, trees, used, acked, tears>>

\* A process dies where it stands; a write it was making may stop half way.
Die(p) ==
    /\ Running(p)
    /\ up' = up \ {p} /\ mem' = [mem EXCEPT ![p] = <<>>] /\ job' = [job EXCEPT ![p] = Idle]
    /\ UNCHANGED <<trees, used>>
    /\ \/ UNCHANGED <<file, open, acked, tears>>
       \/ /\ job[p].pc = "cut" /\ Torn(Started(job[p].session, job[p].name))

FreeNames == {n \in Names : owner[n] = "none"}
HoldsTree(p) == job[p].pc \in {"setup", "cut"}

\* Whoever uses a name by now loses the worktree when it is discarded for s.
Robs(s, n, but) ==
    LET starting == {q \in Procs \ but : HoldsTree(q) /\ job[q].name = n}
    IN robbed' = robbed \union ({owner[n]} \ {s}) \union {job[q].session : q \in starting}
\* `worktree remove --force` and `branch -D`, which know no session but a name: both
\* work and the name is free, or the branch stays.
TakeAway(s, n, but) ==
    /\ n \in Names \ FreeNames /\ Robs(s, n, but)
    /\ owner' = [owner EXCEPT ![n] = "none"] /\ gone' = gone \union {s}
HalfTaken(s, n, but) ==
    n \in Names \ FreeNames /\ Robs(s, n, but) /\ UNCHANGED <<owner, gone>>

\* The name is picked against what the repository has now; the cut comes later.
Pick(p) ==
    /\ Running(p) /\ job[p].pc = "idle"
    /\ \E s \in Sessions \ used, n \in FreeNames :
          /\ job' = [job EXCEPT ![p] = [pc |-> "picked", session |-> s, name |-> n, tries |-> 1]]
          /\ used' = used \union {s}
    /\ UNCHANGED <<file, open, up, mem, trees, acked, tears>>

\* A cut that trusts the pick.
TakenAtPick(p) == job[p].name \notin Names
Taken(p) == job[p].name \notin FreeNames
PickAgain(p) ==
    /\ Running(p) /\ job[p].pc = "picked" /\ Taken(p)
    /\ IF job[p].tries < MaxPicks
       THEN \E n \in FreeNames : job' = [job EXCEPT ![p] = [@ EXCEPT !.name = n, !.tries = job[p].tries + 1]]
       ELSE job' = [job EXCEPT ![p] = Idle]
    /\ UNCHANGED <<file, open, up, mem, trees, used, acked, tears>>

\* `worktree add -b` makes branch and directory or neither.
Cut(p) ==
    /\ Running(p) /\ job[p].pc = "picked" /\ ~Taken(p)
    /\ owner' = [owner EXCEPT ![job[p].name] = job[p].session] /\ UNCHANGED <<gone, robbed>>
    /\ job' = [job EXCEPT ![p].pc = "setup"]
    /\ UNCHANGED <<file, open, up, mem, used, acked, tears>>

SetUp(p) ==
    /\ Running(p) /\ job[p].pc = "setup"
    /\ job' = [job EXCEPT ![p].pc = "cut"]
    /\ UNCHANGED <<file, open, up, mem, trees, used, acked, tears>>

\* The setup fails: the start fails with it, and the worktree stays where it is.
SetUpFails(p) ==
    /\ Running(p) /\ job[p].pc = "setup"
    /\ job' = [job EXCEPT ![p] = Idle]
    /\ UNCHANGED <<file, open, up, mem, trees, used, acked, tears>>

\* Nobody looks whether the discard works.
Discard(p) ==
    /\ LET s == job[p].session  n == job[p].name
       IN TakeAway(s, n, {p}) \/ HalfTaken(s, n, {p}) \/ UNCHANGED trees
    /\ job' = [job EXCEPT ![p] = Idle]
\* The agent cannot be built, or its entry not recorded: the worktree is taken away.
BuildFails(p) ==
    /\ Running(p) /\ job[p].pc = "cut" /\ Discard(p)
    /\ UNCHANGED <<file, open, up, mem, used, acked, tears>>
StartIsTorn(p) ==
    /\ Running(p) /\ job[p].pc = "cut" /\ Discard(p)
    /\ Torn(Started(job[p].session, job[p].name))
    /\ UNCHANGED <<up, mem, used>>

RecordStarted(p) ==
    /\ Running(p) /\ job[p].pc = "cut"
    /\ LET s == job[p].session  n == job[p].name
       IN Appended(Started(s, n)) /\ mem' = [mem EXCEPT ![p] = remember(@, s, n)]
    /\ job' = [job EXCEPT ![p] = Idle]
    /\ UNCHANGED <<up, trees, used>>

(* ---- what is recorded of a session later ---- *)

EntryOf(p, s) == mem[p][CHOOSE i \in DOMAIN mem[p] : mem[p][i].session = s]
\* One append, and memory follows only when it returned.
Records(p, record) ==
    /\ \/ Appended(record) /\ mem' = [mem EXCEPT ![p] = Apply(@, record)]
       \/ Torn(record) /\ mem' = mem
    /\ UNCHANGED <<up, job, used>>

\* close() of a session this process does not run: kept, or discarded first.  Only
\* this process reads the record in between, so the two are one step.
Close(p) ==
    \E s \in used :
        /\ Running(p) /\ Knows(mem[p], s) /\ EntryOf(p, s).closed = "no"
        /\ \/ Records(p, Closed(s, "kept")) /\ UNCHANGED trees
           \/ TakeAway(s, EntryOf(p, s).name, {}) /\ Records(p, Closed(s, "discarded"))
\* And a discard nothing is written of: the record could not be appended, git left
\* the branch, or it is `axio session close`, which looks at no closed and records
\* nothing.
DiscardUnrecorded(p) ==
    /\ \E s \in used :
          /\ Running(p) /\ Knows(mem[p], s)
          /\ TakeAway(s, EntryOf(p, s).name, {}) \/ HalfTaken(s, EntryOf(p, s).name, {})
    /\ UNCHANGED <<file, open, up, mem, job, used, acked, tears>>
Rename(p) ==
    /\ \E s \in used : Running(p) /\ Knows(mem[p], s) /\ Records(p, Renamed(s, "title"))
    /\ UNCHANGED trees
Label(p) ==
    /\ \E s \in used :
          /\ Running(p) /\ Knows(mem[p], s) /\ EntryOf(p, s).label = "none"
          /\ Records(p, Labelled(s, p))
    /\ UNCHANGED trees

Next ==
    \E p \in Procs :
        \/ Open(p) \/ Die(p) \/ Pick(p) \/ PickAgain(p) \/ Cut(p) \/ SetUp(p) \/ SetUpFails(p)
        \/ BuildFails(p) \/ StartIsTorn(p) \/ RecordStarted(p) \/ Close(p)
        \/ DiscardUnrecorded(p) \/ Rename(p) \/ Label(p)

Spec == Init /\ [][Next]_vars

(* ---- properties ---- *)

TypeOK ==
    /\ \A i \in DOMAIN file : file[i].rec \in {"started", "closed", "renamed", "labelled", "damaged", "not_text"}
    /\ open \in {"newline"} \union Stops /\ tears \in 0..MaxTears
    /\ \A p \in Procs : job[p].pc \in {"idle", "picked", "setup", "cut"} /\ job[p].tries \in 0..MaxPicks
    /\ owner \in [Names -> Sessions \union {"none"}] /\ used \subseteq Sessions
    /\ gone \subseteq used /\ robbed \subseteq used

Kept(r) == r.line <= Len(Readable(file)) /\ file[r.line] = r.record
LostOf(rs) == Cardinality({i \in DOMAIN rs : ~Kept(rs[i])})

\* A write that stopped half way costs one entry and never the file: of the
\* records whose append returned, at most one for every stopped write is missing
\* to the next reader (index.rs:12).
TornCostsOne == LostOf(acked) <= tears

\* What the code does keep of that: of the records in front of the first line that
\* is not text, at most one for each stopped write is missing to the next reader.
DamageIsLocal ==
    LostOf(SelectSeq(acked, LAMBDA r : \A i \in 1..r.line : file[i].rec # "not_text")) <= tears

\* Two starts never work in one worktree, whichever process runs them and however
\* long lies between the pick and the cut, and an entry names a worktree some other
\* start holds only once its own was discarded (supervisor.rs:153).  A start whose
\* worktree a discard of another took away is beside it.
NeverShared ==
    /\ \A p, q \in Procs :
          p # q /\ HoldsTree(p) /\ HoldsTree(q) /\ {job[p].session, job[q].session} \intersect robbed = {}
            => job[p].name # job[q].name
    /\ \A p \in Procs, i \in DOMAIN acked :
          LET r == acked[i].record IN
          HoldsTree(p) /\ job[p].session \notin robbed /\ r.rec = "started" /\ r.session \notin gone \union robbed
            => r.value # job[p].name

\* Stated, and not kept by the code: a discard takes away the worktree of the session
\* it is asked for.  An entry goes on naming what was discarded, and a second discard
\* of it takes the worktree of whoever got the name since.
StaleEntriesAreHarmless == robbed = {}

\* A worktree that was cut is in the index, or a start that still runs holds it:
\* none is left for nobody to remove (supervisor.rs:119, worktree.rs:123).
NoLitter ==
    \A n \in Names \ FreeNames :
        \/ \E p \in Procs : HoldsTree(p) /\ job[p].name = n
        \/ \E i \in DOMAIN acked : acked[i].record = Started(owner[n], n)
        \/ tears > 0
=============================================================================
