------------------------------- MODULE Hosted -------------------------------
(***************************************************************************)
(* The window's registry of hosted agents: a row for each, the process     *)
(* behind it, and the journal the next window reads the rows from.  Start, *)
(* resume, stop and forget are commands of their own tasks, each of which  *)
(* lets go of the registry's lock while it waits; a launch resumes what    *)
(* the last window had running, beside whatever a person clicks.           *)
(***************************************************************************)
EXTENDS Naturals, Sequences, FiniteSets, Functions

CONSTANTS
    MaxRows,     \* bound on the ids rows are given
    Slots,       \* the commands that run at one time
    MaxProcs,    \* bound on the processes started
    MaxWindows   \* bound on the windows opened

VARIABLES
    minted,      \* the last id given out
    held,        \* row -> what the registry knows of it
    procs,       \* process -> what it is
    journal,     \* row -> what the file says of it
    unwritten,   \* whether this window failed to write it since it last did, or to read it
    ops,         \* slot -> the command it runs
    launch,      \* rows the launch still has to resume
    windows,     \* windows opened so far
    up,          \* whether a window is open
    raced        \* rows two commands have been at together

vars == <<minted, held, procs, journal, unwritten, ops, launch, windows, up, raced>>

Rows == 1..MaxRows
\* Ids go on from the highest the journal knows.
Highest(rows) == CHOOSE n \in 0..MaxRows : (n = 0 \/ n \in rows) /\ \A r \in rows : r <= n
Transports == {"pty", "app"}
NoRows == [r \in {} |-> "none"]
Put(f, r, v) == [x \in DOMAIN f \union {r} |-> IF x = r THEN v ELSE f[x]]
Without(f, r) == Restrict(f, DOMAIN f \ {r})

(* ---- rows and processes ---- *)

\* `live` is the process behind the row, 0 before a resume; `session` is the
\* conversation the tool named, 0 while it has named none.
Held(transport, live) == [transport |-> transport, live |-> live, stopped |-> FALSE, session |-> 0]
Remembered(row) == [transport |-> row.transport, stopped |-> row.stopped, session |-> row.session]
Restored(row) == [transport |-> row.transport, live |-> 0, stopped |-> row.stopped, session |-> row.session]

\* The whole list, beside the old one and renamed over it; a write that fails is said
\* and otherwise ignored.
Rewritten(rows) == [r \in DOMAIN rows |-> Remembered(rows[r])]
record(rows) ==
    \/ journal' = Rewritten(rows) /\ unwritten' = FALSE
    \/ UNCHANGED journal /\ unwritten' = TRUE

NextProc == Cardinality(DOMAIN procs) + 1
MayStart == NextProc <= MaxProcs
\* A conversation is called after the process that began it.
Process(row, transport, session) ==
    [row |-> row, transport |-> transport, alive |-> TRUE, relayed |-> FALSE,
     session |-> IF session = 0 THEN NextProc ELSE session]
Running(p) == p \in DOMAIN procs /\ procs[p].alive
Structured(r) == held[r].live # 0 /\ procs[held[r].live].transport = "app"

\* Letting go of a process ends it, unless its relay still holds it.
Dropped(ps, p) == IF p \in DOMAIN ps /\ ~ps[p].relayed THEN [ps EXCEPT ![p].alive = FALSE] ELSE ps
Ended(ps, p) == IF p \in DOMAIN ps THEN [ps EXCEPT ![p].alive = FALSE, ![p].relayed = FALSE] ELSE ps

(* ---- commands ---- *)

Idle == [cmd |-> "idle", row |-> 0, pc |-> "none", session |-> 0, proc |-> 0]
Free(s) == ops[s].cmd = "idle"
At(s, cmd, pc) == ops[s].cmd = cmd /\ ops[s].pc = pc
Busy(r) == \E s \in Slots : ops[s].row = r
Begin(s, cmd, r, session, proc) ==
    /\ ops' = [ops EXCEPT ![s] = [cmd |-> cmd, row |-> r, pc |-> "away", session |-> session, proc |-> proc]]
    /\ raced' = IF Busy(r) THEN raced \union {r} ELSE raced
Done(s) == ops' = [ops EXCEPT ![s] = Idle]

Init ==
    /\ minted = 0 /\ held = NoRows /\ procs = <<>> /\ journal = NoRows /\ unwritten = FALSE /\ up = TRUE /\ windows = 1
    /\ ops = [s \in Slots |-> Idle] /\ launch = {} /\ raced = {}

\* The process first, then the row, the journal and the relay.
Start ==
    /\ up /\ MayStart /\ minted < MaxRows
    /\ minted' = minted + 1
    /\ \E t \in Transports :
          /\ held' = Put(held, minted', Held(t, NextProc))
          /\ procs' = Append(procs, [Process(minted', t, 0) EXCEPT !.relayed = TRUE])
    /\ record(held')
    /\ UNCHANGED <<ops, launch, windows, up, raced>>

\* A tool's hook names its conversation; a process of a row that is gone names nothing.
ObserveHook ==
    /\ up
    /\ \E p \in DOMAIN procs :
          LET r == procs[p].row
          IN /\ procs[p].alive /\ procs[p].transport = "pty" /\ r \in DOMAIN held
             /\ held[r].session # procs[p].session
             /\ held' = [held EXCEPT ![r].session = procs[p].session]
    /\ record(held')
    /\ UNCHANGED <<minted, procs, ops, launch, windows, up, raced>>

Exit ==
    /\ \E p \in DOMAIN procs : procs[p].alive /\ procs' = Ended(procs, p)
    /\ UNCHANGED <<minted, held, journal, unwritten, ops, launch, windows, up, raced>>

Rename ==
    /\ up /\ held # NoRows /\ record(held)
    /\ UNCHANGED <<minted, held, procs, ops, launch, windows, up, raced>>

(* ---- resume ---- *)

\* A resume that does not look.
ResumeUnasked(r) == r \in DOMAIN held
\* What a resume reads before it lets the lock go: nothing may run behind the row.
MayResume(r) == r \in DOMAIN held /\ ~Running(held[r].live)
\* A structured row goes by its protocol's thread, another by what its hooks said.
ThreadOf(r) == IF Structured(r) THEN procs[held[r].live].session ELSE held[r].session

Resuming(s, pc) == ops[s].cmd \in {"resume", "launch"} /\ ops[s].pc = pc
BeginResume(s, cmd, r) == up /\ Free(s) /\ MayResume(r) /\ Begin(s, cmd, r, ThreadOf(r), held[r].live)
Resume ==
    /\ \E s \in Slots, r \in Rows : BeginResume(s, "resume", r)
    /\ UNCHANGED <<minted, held, procs, journal, unwritten, launch, windows, up>>

\* What the row turns into: its protocol again only when this window held one.
ResumesAs(s) == IF ops[s].proc # 0 /\ procs[ops[s].proc].transport = "app" THEN "app" ELSE "pty"
Revived(s) ==
    LET h == held[ops[s].row]
        back == [h EXCEPT !.live = NextProc, !.stopped = FALSE]
    IN IF ResumesAs(s) = "app" THEN [back EXCEPT !.session = ops[s].session] ELSE back

\* The row may have been forgotten meanwhile: then the new process goes with the error.
SpawnResumed(s) ==
    /\ Resuming(s, "away") /\ MayStart
    /\ LET r == ops[s].row
           new == Process(r, ResumesAs(s), ops[s].session)
       IN IF r \in DOMAIN held
          THEN /\ procs' = Append(Dropped(procs, held[r].live), new)
               /\ held' = [held EXCEPT ![r] = Revived(s)]
               /\ IF ResumesAs(s) = "pty" THEN record(held') ELSE UNCHANGED <<journal, unwritten>>
               /\ ops' = [ops EXCEPT ![s].pc = "relay"]
          ELSE /\ procs' = Append(procs, [new EXCEPT !.alive = FALSE])
               /\ UNCHANGED <<held, journal, unwritten>> /\ Done(s)
    /\ UNCHANGED <<minted, launch, windows, up, raced>>
\* The relay is given whatever is behind the row by then.
RelayResumed(s) ==
    /\ Resuming(s, "relay") /\ Done(s)
    /\ LET r == ops[s].row
       IN procs' = IF r \in DOMAIN held /\ Running(held[r].live)
                   THEN [procs EXCEPT ![held[r].live].relayed = TRUE] ELSE procs
    /\ UNCHANGED <<minted, held, journal, unwritten, launch, windows, up, raced>>
ResumeFails(s) ==
    /\ Resuming(s, "away") /\ Done(s)
    /\ UNCHANGED <<minted, held, procs, journal, unwritten, launch, windows, up, raced>>

(* ---- stop and forget ---- *)

\* Both end the process behind the row first, with the lock let go.
BeginHalt ==
    /\ up
    /\ \E s \in Slots, r \in DOMAIN held, cmd \in {"stop", "forget"} :
          Free(s) /\ Begin(s, cmd, r, 0, held[r].live)
    /\ UNCHANGED <<minted, held, procs, journal, unwritten, launch, windows, up>>
Halt(s) ==
    /\ ops[s].cmd \in {"stop", "forget"} /\ ops[s].pc = "away"
    /\ procs' = Ended(procs, ops[s].proc)
    /\ ops' = [ops EXCEPT ![s].pc = "halted"]
    /\ UNCHANGED <<minted, held, journal, unwritten, launch, windows, up, raced>>
\* A stop the journal does not hear of.
MarksUnrecorded(s) ==
    /\ At(s, "stop", "halted") /\ Done(s)
    /\ held' = IF ops[s].row \in DOMAIN held THEN [held EXCEPT ![ops[s].row].stopped = TRUE] ELSE held
    /\ UNCHANGED <<minted, procs, journal, unwritten, launch, windows, up, raced>>
MarkStopped(s) ==
    /\ At(s, "stop", "halted") /\ Done(s)
    /\ held' = IF ops[s].row \in DOMAIN held THEN [held EXCEPT ![ops[s].row].stopped = TRUE] ELSE held
    /\ record(held')
    /\ UNCHANGED <<minted, procs, launch, windows, up, raced>>
Forget(s) ==
    /\ At(s, "forget", "halted") /\ Done(s)
    /\ held' = Without(held, ops[s].row)
    /\ procs' = IF ops[s].row \in DOMAIN held THEN Dropped(procs, held[ops[s].row].live) ELSE procs
    /\ record(held')
    /\ UNCHANGED <<minted, launch, windows, up, raced>>

(* ---- the window ---- *)

\* Everything is halted and the process ends; no row is marked as stopped.
CloseWindow ==
    /\ up /\ up' = FALSE
    /\ procs' = [p \in DOMAIN procs |-> [procs[p] EXCEPT !.alive = FALSE, !.relayed = FALSE]]
    /\ held' = NoRows /\ ops' = [s \in Slots |-> Idle] /\ launch' = {}
    /\ UNCHANGED <<minted, journal, unwritten, windows, raced>>

\* A list that cannot be read, or is none, is an empty one.
OpenWindow ==
    /\ ~up /\ windows < MaxWindows
    /\ up' = TRUE /\ windows' = windows + 1 /\ raced' = {}
    /\ \/ /\ held' = [r \in DOMAIN journal |-> Restored(journal[r])]
          /\ launch' = {r \in DOMAIN journal : ~journal[r].stopped}
          /\ minted' = Highest(DOMAIN journal) /\ unwritten' = FALSE
       \/ held' = NoRows /\ launch' = {} /\ minted' = 0 /\ unwritten' = TRUE
    /\ UNCHANGED <<procs, journal, ops>>

\* The launch goes through its list one resume after the other.
LaunchResumes ==
    /\ up /\ \A s \in Slots : ops[s].cmd # "launch"
    /\ \E r \in launch, s \in Slots :
          /\ launch' = launch \ {r}
          /\ IF MayResume(r) THEN BeginResume(s, "launch", r) ELSE UNCHANGED <<ops, raced>>
    /\ UNCHANGED <<minted, held, procs, journal, unwritten, windows, up>>

Next ==
    \/ Start \/ ObserveHook \/ Exit \/ Rename \/ Resume \/ BeginHalt
    \/ CloseWindow \/ OpenWindow \/ LaunchResumes
    \/ \E s \in Slots :
          SpawnResumed(s) \/ RelayResumed(s) \/ ResumeFails(s) \/ Halt(s) \/ MarkStopped(s) \/ Forget(s)

Spec == Init /\ [][Next]_vars

(* ---- properties ---- *)

TypeOK ==
    /\ minted \in 0..MaxRows /\ DOMAIN held \subseteq Rows /\ DOMAIN journal \subseteq Rows /\ raced \subseteq Rows
    /\ \A r \in DOMAIN held : held[r].live \in 0..MaxProcs /\ held[r].session \in 0..MaxProcs
    /\ \A s \in Slots : ops[s].cmd \in {"idle", "resume", "launch", "stop", "forget"}

\* What the next window reads of a terminal is what this one shows of it: a stop
\* stays a stop, a name it was told stays told, unless the file could not be written
\* since, or not be read at first (journal.rs:105).
JournalFollows ==
    up /\ ~unwritten =>
        /\ DOMAIN journal = DOMAIN held
        /\ \A r \in DOMAIN held : held[r].transport = "pty" => journal[r] = Remembered(held[r])

\* Stated, and not kept by the code: a window that opens lists every row the file has.
\* A list it cannot read is an empty one to it, and its first write takes the rows away.
EveryRowComesBack == [][~up /\ up' => DOMAIN held' = DOMAIN journal]_vars

\* A process no row leads to, which nobody can stop any more, and a row called
\* stopped with a process at work behind it, come only of two commands at one
\* row together: one after the other they leave neither (lifecycle.rs:3).
Unreachable(p) ==
    Running(p) /\ ~(procs[p].row \in DOMAIN held /\ held[procs[p].row].live = p)
LostOnlyToARace ==
    /\ \A p \in DOMAIN procs : Unreachable(p) => procs[p].row \in raced
    /\ \A r \in DOMAIN held : held[r].stopped /\ Running(held[r].live) => r \in raced

\* A row has one process at work at most, whatever is clicked at the same time.
OneProcess == \A p, q \in DOMAIN procs : p # q /\ Running(p) /\ Running(q) => procs[p].row # procs[q].row

\* A structured row resumes by its protocol, with the thread it had
\* (lifecycle.rs:111).
ResumedAsItWas == \A r \in DOMAIN held : held[r].transport = "app" /\ Running(held[r].live) => Structured(r)
=============================================================================
