------------------------------ MODULE ScanStore ------------------------------
(***************************************************************************)
(* The saved scan (axio-cost, store) and the two that keep it: the command *)
(* line, which scans and writes back (axio, cost), and the desktop window, *)
(* which shows the saved scan at once and replaces it by a live one        *)
(* (axio-quota, app/cost).                                                 *)
(*                                                                         *)
(* A scan is the number of its walk and how many messages each agent had.  *)
(* A file is a sequence of lines, a writer of it a position: the temporary *)
(* file has one name for everybody, so two writers of it share the file    *)
(* and each keeps its own position.                                        *)
(***************************************************************************)
EXTENDS Naturals, Sequences, SequencesExt

CONSTANTS
    Known,      \* the agents the reading build has in its registry
    Shapes,     \* how many messages the agents of a scan may have
    MaxScans    \* bound: scans begun

App   == "app"
Cli   == "cli"
Procs == {App, Cli}

VARIABLES
    files,      \* what each file ever created holds
    cache,      \* the file under the cache's name, 0 when there is none
    temp,       \* the file under the temporary name, 0 when there is none
    work,       \* what each process is doing
    memory,     \* the report the window shows
    begun,      \* scans begun so far
    overlapped  \* whether a save began while another was under way

vars == <<files, cache, temp, work, memory, begun, overlapped>>

NoScan == [id |-> 0, shape |-> <<>>]
Hole   == [t |-> "hole", agent |-> 0, id |-> 0]
Line(t, agent, id) == [t |-> t, agent |-> agent, id |-> id]

Idle == [phase |-> "idle", scan |-> NoScan, file |-> 0, at |-> 0]

-----------------------------------------------------------------------------
(* The format. *)

(* A head, then for each agent its line and its messages. *)
Records(scan) ==
    LET Of(a) == <<Line("agent", a, scan.id)>>
                   \o [i \in 1..scan.shape[a] |-> Line("message", a, scan.id)]
    IN  <<Line("head", 0, scan.id)>>
          \o FlattenSeq([a \in 1..Len(scan.shape) |-> Of(a)])

(* The lines a reader gets to: up to the first that does not parse or that *)
(* is a second head.                                                       *)
Readable(lines) ==
    LET Good(n) == \A i \in 2..n : lines[i].t \in {"agent", "message"}
    IN  CHOOSE n \in 1..Len(lines) : Good(n) /\ (n = Len(lines) \/ ~Good(n + 1))

(* An agent this build does not have is passed over; a message goes to the *)
(* agent read last, and one before any agent ends the reading.             *)
Place(agents, line) ==
    CASE line.t = "agent" /\ line.agent \in Known ->
            Append(agents, [agent |-> line.agent, id |-> line.id, messages |-> <<>>])
      [] line.t = "message" /\ agents # <<>> ->
            [agents EXCEPT ![Len(agents)].messages = Append(@, <<line.agent, line.id>>)]
      [] OTHER -> agents

Homeless(lines, n) ==
    \E m \in 2..n : /\ lines[m].t = "message"
                    /\ \A k \in 2..m : lines[k].t = "agent" => lines[k].agent \notin Known

load(lines) ==
    IF lines = <<>> \/ Head(lines).t # "head" THEN <<>>
    ELSE LET n == Readable(lines)
             known == IF Homeless(lines, n)
                      THEN CHOOSE m \in 1..n : ~Homeless(lines, m) /\ Homeless(lines, m + 1)
                      ELSE n
         IN  FoldLeft(Place, <<>>, SubSeq(lines, 2, known))

Saved == IF cache = 0 THEN <<>> ELSE load(files[cache])

-----------------------------------------------------------------------------
(* The processes. *)

Init ==
    /\ files = <<>> /\ cache = 0 /\ temp = 0
    /\ work = [p \in Procs |-> Idle]
    /\ memory = [id |-> 0, agents |-> <<>>]
    /\ begun = 0 /\ overlapped = FALSE

AlwaysWarm == Saved # <<>>

(* The saved scan is published only when nothing better is loaded.         *)
MayWarm == memory.agents = <<>> /\ Saved # <<>>

(* A scan begins, unless this process has one under way; the window shows  *)
(* what was saved first.                                                   *)
Begin(p) ==
    /\ work[p].phase = "idle" /\ begun < MaxScans
    /\ begun' = begun + 1
    /\ \E shape \in Shapes :
         work' = [work EXCEPT ![p] = [Idle EXCEPT !.phase = "scanning",
                                        !.scan = [id |-> begun + 1, shape |-> shape]]]
    /\ memory' = IF p = App /\ MayWarm
                 THEN [id |-> Saved[1].id, agents |-> Saved] ELSE memory
    /\ UNCHANGED <<files, cache, temp, overlapped>>

Writing(p) == work[p].phase = "writing"

CreateInPlace(p) ==
    /\ work[p].phase = "scanning"
    /\ LET made == IF cache = 0 THEN Len(files) + 1 ELSE cache
       IN  /\ files' = IF cache = 0 THEN Append(files, <<>>) ELSE [files EXCEPT ![cache] = <<>>]
           /\ cache' = made
           /\ work' = [work EXCEPT ![p].phase = "writing", ![p].file = made, ![p].at = 1]
    /\ overlapped' = (overlapped \/ \E q \in Procs \ {p} : Writing(q))
    /\ UNCHANGED <<temp, memory, begun>>

(* The temporary file is made, or, when the name is taken, emptied where   *)
(* it is: under a second writer too.                                       *)
Create(p) ==
    /\ work[p].phase = "scanning"
    /\ LET made == IF temp = 0 THEN Len(files) + 1 ELSE temp
       IN  /\ files' = IF temp = 0 THEN Append(files, <<>>) ELSE [files EXCEPT ![temp] = <<>>]
           /\ temp' = made
           /\ work' = [work EXCEPT ![p].phase = "writing", ![p].file = made, ![p].at = 1]
    /\ overlapped' = (overlapped \/ \E q \in Procs \ {p} : Writing(q))
    /\ UNCHANGED <<cache, memory, begun>>

(* A line is written at the writer's own position, past the end if the     *)
(* file was emptied under it.                                              *)
Written(lines, at, line) ==
    [i \in 1..(IF at > Len(lines) THEN at ELSE Len(lines)) |->
        IF i = at THEN line ELSE IF i <= Len(lines) THEN lines[i] ELSE Hole]

WriteLine(p) ==
    /\ Writing(p)
    /\ LET w == work[p]
       IN  /\ w.at <= Len(Records(w.scan))
           /\ files' = [files EXCEPT ![w.file] = Written(@, w.at, Records(w.scan)[w.at])]
           /\ work' = [work EXCEPT ![p].at = @ + 1]
    /\ UNCHANGED <<cache, temp, memory, begun, overlapped>>

(* What the process does once the save is over, whichever way it went: the *)
(* window swaps the live scan in.                                          *)
Publish(p) ==
    /\ memory' = IF p = App
                 THEN [id |-> work[p].scan.id, agents |-> load(Records(work[p].scan))]
                 ELSE memory
    /\ work' = [work EXCEPT ![p] = Idle]

(* The rename moves whatever has the temporary name now, and fails if a    *)
(* second writer has moved it already.                                     *)
Rename(p) ==
    /\ Writing(p) /\ work[p].at > Len(Records(work[p].scan))
    /\ IF temp = 0 THEN UNCHANGED <<cache, temp>>
       ELSE cache' = temp /\ temp' = 0
    /\ Publish(p)
    /\ UNCHANGED <<files, begun, overlapped>>

(* A write that fails (a full disk) ends the save where it is.             *)
Full(p) ==
    /\ Writing(p)
    /\ Publish(p)
    /\ UNCHANGED <<files, cache, temp, begun, overlapped>>

(* The process is killed at any point; what it wrote stays.                *)
Crash(p) ==
    /\ work[p].phase # "idle"
    /\ work' = [work EXCEPT ![p] = Idle]
    /\ memory' = IF p = App THEN [id |-> 0, agents |-> <<>>] ELSE memory
    /\ UNCHANGED <<files, cache, temp, begun, overlapped>>

(* The settings tab forgets the saved scan.                                *)
Invalidate ==
    /\ cache # 0
    /\ cache' = 0
    /\ UNCHANGED <<files, temp, work, memory, begun, overlapped>>

Next ==
    \/ \E p \in Procs : \/ Begin(p) \/ Create(p) \/ WriteLine(p) \/ Rename(p)
                        \/ Full(p) \/ Crash(p)
    \/ Invalidate

Spec == Init /\ [][Next]_vars

-----------------------------------------------------------------------------
(* What a reader may rely on. *)

Whole(lines) ==
    /\ lines # <<>>
    /\ \E shape \in Shapes :
          lines = Records([id |-> lines[1].id, shape |-> shape])

(* The types of the state: the two names never stand for one file.         *)
TypeOK ==
    /\ cache \in 0..Len(files) /\ temp \in 0..Len(files)
    /\ cache = temp => cache = 0
    /\ \A p \in Procs :
         /\ work[p].phase \in {"idle", "scanning", "writing"}
         /\ work[p].file \in 0..Len(files)
    /\ memory.id \in 0..begun

(* While no two saves overlap, the cache is one whole scan, whatever was   *)
(* killed or ran out of disk on the way (store.rs:79-117).                 *)
AloneSavesWhole == cache # 0 /\ ~overlapped => Whole(files[cache])

(* The figures in the window never go back to an older scan: the saved one *)
(* is published only into an empty window, and one live scan at a time     *)
(* replaces it (app/cost.rs:69-103).                                       *)
FiguresNeverGoBack == [][memory.id # 0 /\ memory'.id # 0 => memory'.id >= memory.id]_vars

(* What store.rs:81-82 says of the cache: never a half file that parses as *)
(* a much cheaper year.                                                    *)
CacheIsAWholeScan == cache # 0 => Whole(files[cache])

(* What store.rs:199 says of a message: it is the agent's whose line it    *)
(* follows.                                                                *)
MessagesKeepTheirAgent ==
    \A i \in 1..Len(Saved) : \A j \in 1..Len(Saved[i].messages) :
        Saved[i].messages[j][1] = Saved[i].agent
=============================================================================
