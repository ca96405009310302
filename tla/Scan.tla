-------------------------------- MODULE Scan --------------------------------
(***************************************************************************)
(* Reading what every agent on the machine has spent (axio-cost, sources   *)
(* and message): the files of every agent are listed, cut into equal       *)
(* batches over a pool of workers, read each by the rules of the agent     *)
(* that wrote it, and the workers' ledgers merged.                         *)
(*                                                                         *)
(* A file is what its agent wrote: a sequence of candidate tables, of      *)
(* which a database is asked for the first that exists and a text file     *)
(* has one, each a sequence of lines.  A line is what its parser tells     *)
(* apart: its kind, the identity of the call, the day, the tokens.  Token  *)
(* counts are one number, the buckets being merged alike.                  *)
(***************************************************************************)
EXTENDS Naturals, Sequences, FiniteSets, SequencesExt

CONSTANTS
    Registry,    \* the dialect of every agent, in the registry's order
    Files,       \* the files the walk may find
    MaxJobs,     \* bound: files on the machine
    MaxWorkers   \* bound: cores

VARIABLES
    jobs,        \* the files found, agent by agent
    chunk,       \* files in a worker's batch, 0 before the walk
    shares,      \* what each worker has read so far
    lost,        \* the workers that panicked
    report       \* the agents' reports, or none yet

vars == <<jobs, chunk, shares, lost, report>>

Agents  == 1..Len(Registry)
NoKey   == <<>>
Unread  == <<>>
EmptyPart == [ledger |-> <<>>, billable |-> 0, skipped |-> 0,
              malformed |-> 0, read |-> 0, failed |-> 0]
Nothing == [a \in Agents |-> EmptyPart]

-----------------------------------------------------------------------------
(* The ledger. *)

Larger(m, n) == IF m >= n THEN m ELSE n

SeenAt(ledger, key) == {i \in 1..Len(ledger) : ledger[i].key = key}

(* A message with an identity joins the one that has it: the first         *)
(* sighting keeps its day, the counts are running totals and the larger    *)
(* wins.  A message without one is taken at face value.                    *)
push(ledger, m) ==
    IF m.key = NoKey \/ SeenAt(ledger, m.key) = {}
    THEN Append(ledger, m)
    ELSE LET i == CHOOSE i \in SeenAt(ledger, m.key) : TRUE
         IN  [ledger EXCEPT ![i].tokens = Larger(@, m.tokens)]

absorbByAppending(ledger, other) == ledger \o other

absorb(ledger, other) == FoldLeft(push, ledger, other)

-----------------------------------------------------------------------------
(* One file, by the rules of its dialect.  The accumulator carries what    *)
(* the parser remembers between lines: the model a context line named and  *)
(* the last counts billed.                                                 *)

Start(part) == [part |-> part, model |-> FALSE, previous |-> 0]

Skip(acc)      == [acc EXCEPT !.part.skipped = @ + 1]
Malformed(acc) == [acc EXCEPT !.part.malformed = @ + 1]

Bill(acc, line, key) ==
    [acc EXCEPT !.part.billable = @ + 1,
                !.part.ledger = push(@, [key |-> key, day |-> line.day,
                                         tokens |-> line.tokens])]

(* The entries of a line, each under the line's identity and its own.      *)
BillEach(acc, line) ==
    LET Entry(a, n) == Bill(a, line, IF line.key = NoKey THEN NoKey ELSE line.key \o <<n>>)
    IN  FoldLeft(Entry, acc, [n \in 1..line.entries |-> n])

(* A growing response is written again and again under the message's       *)
(* identity; one that names itself by nothing is taken at face value.      *)
Claude(acc, line) ==
    CASE line.kind = "bad"  -> Malformed(acc)
      [] line.kind = "call" -> Bill(acc, line, line.key)
      [] OTHER              -> Skip(acc)

(* The model is set by context lines, the same counts twice in a row are   *)
(* one request, and counts that cannot be billed are remembered too.       *)
Codex(acc, line) ==
    CASE line.kind = "bad"     -> Malformed(acc)
      [] line.kind = "context" -> Skip([acc EXCEPT !.model = TRUE])
      [] line.kind = "call" /\ line.tokens # acc.previous ->
            LET seen == [acc EXCEPT !.previous = line.tokens]
            IN  IF acc.model THEN Bill(seen, line, NoKey) ELSE Skip(seen)
      [] OTHER -> Skip(acc)

(* One prompt bills against several models, each a message of its own.     *)
Grok(acc, line) ==
    CASE line.kind = "bad"  -> Malformed(acc)
      [] line.kind = "call" -> BillEach(acc, line)
      [] OTHER              -> Skip(acc)

(* A blob is one turn or a whole conversation, and is asked for its usage. *)
consume(acc, line) ==
    CASE line.kind = "bad"  -> Malformed(acc)
      [] line.kind = "call" -> BillEach(acc, line)
      [] OTHER              -> Skip(acc)

(* A row of the message table is a call when the assistant wrote it; its   *)
(* identity is the row's.                                                  *)
OpenCode(acc, row) ==
    CASE row.kind = "bad"  -> Malformed(acc)
      [] row.kind = "call" -> Bill(acc, row, row.key)
      [] OTHER             -> Skip(acc)

ReadLine(dialect, acc, line) ==
    CASE dialect = "claude-code" -> Claude(acc, line)
      [] dialect = "codex"       -> Codex(acc, line)
      [] dialect = "grok"        -> Grok(acc, line)
      [] dialect = "opencode"    -> OpenCode(acc, line)
      [] OTHER                   -> consume(acc, line)

Missing(table) == \E i \in 1..Len(table) : table[i].kind = "no table"
Prepared(file) == SelectSeq(file.tables, LAMBDA t : ~Missing(t))

TableOfAll(file) == FlattenSeq(Prepared(file))

(* The first table that exists is the schema in use; with none, the        *)
(* database was read and held nothing.                                     *)
TableOf(file) ==
    IF Prepared(file) = <<>> THEN <<>> ELSE Prepared(file)[1]

open(file, part) ==
    IF ~file.readable
    THEN [part EXCEPT !.failed = @ + 1]
    ELSE LET Line(acc, line) == ReadLine(Registry[file.agent], acc, line)
             done == FoldLeft(Line, Start(part), TableOf(file)).part
         IN  [done EXCEPT !.read = @ + 1]

-----------------------------------------------------------------------------
(* The scan. *)

Init ==
    /\ jobs = <<>> /\ chunk = 0 /\ shares = <<>> /\ lost = {}
    /\ report = Unread

DivCeil(n, d) == (n + d - 1) \div d

Workers == 1..Len(shares)
EndOf(w) == IF w * chunk < Len(jobs) THEN w * chunk ELSE Len(jobs)
Busy(w) == shares[w].next <= EndOf(w) /\ w \notin lost

(* Phase one: the walk finds the files, agent by agent, and the flat list  *)
(* is cut evenly over the workers.                                         *)
Walk ==
    /\ chunk = 0
    /\ \E n \in 1..MaxJobs, cores \in 1..MaxWorkers :
         \E found \in [1..n -> Files] :
            /\ \A i \in 1..(n - 1) : found[i].agent <= found[i + 1].agent
            /\ LET size == DivCeil(n, IF cores < n THEN cores ELSE n)
               IN  /\ chunk' = size
                   /\ shares' = [w \in 1..DivCeil(n, size) |->
                                   [next |-> (w - 1) * size + 1, of |-> Nothing]]
            /\ jobs' = found
    /\ UNCHANGED <<lost, report>>

(* Phase two: a worker reads the next file of its batch into the ledger    *)
(* it keeps for that agent. *)
Parse(w) ==
    /\ Busy(w)
    /\ LET file == jobs[shares[w].next]
       IN  shares' = [shares EXCEPT ![w].next = @ + 1,
                                    ![w].of[file.agent] = open(file, @)]
    /\ UNCHANGED <<jobs, chunk, lost, report>>

(* A parser that panics takes its worker, and all that worker had read.    *)
Panic(w) ==
    /\ Busy(w)
    /\ lost' = lost \cup {w}
    /\ UNCHANGED <<jobs, chunk, shares, report>>

Joined(a, b) ==
    [ledger    |-> absorb(a.ledger, b.ledger),
     billable  |-> a.billable + b.billable,
     skipped   |-> a.skipped + b.skipped,
     malformed |-> a.malformed + b.malformed,
     read      |-> a.read + b.read,
     failed    |-> a.failed + b.failed]

Survivors == SelectSeq([w \in Workers |-> w], LAMBDA w : w \notin lost)

(* Merged in batch order, so that messages keep the order of the walk.     *)
Merge ==
    /\ chunk > 0 /\ report = Unread
    /\ \A w \in Workers : ~Busy(w)
    /\ LET Take(all, w) == [a \in Agents |-> Joined(all[a], shares[w].of[a])]
       IN  report' = FoldLeft(Take, Nothing, Survivors)
    /\ UNCHANGED <<jobs, chunk, shares, lost>>

Next ==
    \/ Walk
    \/ \E w \in Workers : Parse(w) \/ Panic(w)
    \/ Merge

Spec == Init /\ [][Next]_vars

-----------------------------------------------------------------------------
(* What the report promises. *)

(* The types of the state: a worker's next file lies in its own batch, and *)
(* a report has one part for every agent of the registry.                  *)
TypeOK ==
    /\ \A i \in 1..Len(jobs) : jobs[i] \in Files
    /\ lost \subseteq Workers
    /\ \A w \in Workers : shares[w].next \in ((w - 1) * chunk + 1)..(EndOf(w) + 1)
    /\ report # Unread => DOMAIN report = Agents

(* The worker a file was given to.                                         *)
OwnerOf(i) == DivCeil(i, chunk)

(* The calls in the files of an agent that were not lost, in the order of  *)
(* the walk.                                                               *)
CallsOf(a) ==
    LET kept == SelectSeq([i \in 1..Len(jobs) |-> i],
                  LAMBDA i : jobs[i].agent = a /\ jobs[i].readable /\ OwnerOf(i) \notin lost)
        lines == FlattenSeq([k \in 1..Len(kept) |-> FlattenSeq(jobs[kept[k]].tables)])
    IN  SelectSeq(lines, LAMBDA l : l.kind = "call")

(* A response that was written several times while it grew, in one file or *)
(* in files that fell to two workers, is billed once: for the largest      *)
(* counts any sighting had, on the day of the first (message.rs:120-154).  *)
BilledOnce ==
    report # Unread =>
        \A a \in {b \in Agents : Registry[b] \in {"claude-code", "opencode"}} :
            LET calls == CallsOf(a)
                keys  == {calls[i].key : i \in 1..Len(calls)} \ {NoKey}
                bill  == report[a].ledger
            IN  /\ \A k \in keys :
                     LET at == {i \in 1..Len(calls) : calls[i].key = k}
                         first == CHOOSE i \in at : \A j \in at : i <= j
                     IN  \E i \in 1..Len(bill) :
                            /\ SeenAt(bill, k) = {i}
                            /\ bill[i].day = calls[first].day
                            /\ \A j \in at : calls[j].tokens <= bill[i].tokens
                            /\ \E j \in at : calls[j].tokens = bill[i].tokens
                /\ Len(bill) = Cardinality(keys)
                                 + Cardinality({i \in 1..Len(calls) : calls[i].key = NoKey})

(* However the files are cut over the workers, the report is the one a     *)
(* single worker writes of the files that were not lost: the same          *)
(* messages in the same order, and every file counted read or failed       *)
(* (sources/mod.rs:233-245).                                               *)
PartitionIsInvisible ==
    report # Unread =>
        LET kept == SelectSeq([i \in 1..Len(jobs) |-> i], LAMBDA i : OwnerOf(i) \notin lost)
            Take(all, i) == [all EXCEPT ![jobs[i].agent] = open(jobs[i], @)]
        IN  report = FoldLeft(Take, Nothing, kept)

(* A database that has its rows under two schemas is read once             *)
(* (database.rs:104-127).                                                  *)
SchemasAreRivals ==
    \A i \in {j \in 1..Len(jobs) : jobs[j].readable /\ Registry[jobs[j].agent] = "database"} :
        \E q \in 1..Len(jobs[i].tables) :
            LET Sum(m, l) == m + (IF l.kind = "call" THEN l.entries ELSE 0)
            IN  open(jobs[i], EmptyPart).billable <= FoldLeft(Sum, 0, jobs[i].tables[q])

(* What sources/mod.rs:210 says of a worker that panics: one agent's       *)
(* malformed store does not cost the others their numbers.                 *)
LossIsOneAgents ==
    \A w \in lost : \A i \in 1..Len(jobs) :
        OwnerOf(i) = w => jobs[i].agent = jobs[shares[w].next].agent
=============================================================================
