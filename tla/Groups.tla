------------------------------- MODULE Groups -------------------------------
(***************************************************************************)
(* Several agents on one prompt: the members of a group started one after  *)
(* another, each in a checkout of its own, by commands that run beside one *)
(* another, while a person forgets rows that are already there.  A member  *)
(* is asked the prompt by the way its tool takes one.                      *)
(***************************************************************************)
EXTENDS Naturals, Sequences, FiniteSets, SequencesExt, Functions

CONSTANTS
    Requests,    \* what is asked for: [members, prompt]
    Starts,      \* the commands that start members at one time
    MaxRows      \* bound on the rows made

VARIABLES
    starts,      \* command -> what it starts and how far it is
    rows,        \* rows in the order they came: the members that run
    cut,         \* checkouts on disk: [start, at] of the member each was cut for
    typing       \* rows the prompt is still to be typed into

vars == <<starts, rows, cut, typing>>

(* ---- what a tool is started with ---- *)

\* Tools that take a prompt on the command line, and what each takes there.
prompt_args(tool) == IF tool \in {"claude", "codex"} THEN <<"prompt">> ELSE <<>>
model_args(tool) == <<"model">>
effort_args(tool) == IF tool = "codex" THEN <<"effort">> ELSE <<>>
permission_args(tool) == IF tool \in {"claude", "codex"} THEN <<"permission">> ELSE <<>>
Chosen(m, what, words) == IF what \in m.chosen THEN words ELSE <<>>
member_args(m) ==
    Chosen(m, "model", model_args(m.tool)) \o Chosen(m, "effort", effort_args(m.tool))
        \o Chosen(m, "permission", permission_args(m.tool))

Member(s) == starts[s].members[starts[s].at]
\* A group's prompt goes on the command line where the tool takes one there, and
\* with the protocol; a member added later is always typed at.
OnCommandLine(s) ==
    ~starts[s].adds /\ (Member(s).app \/ (starts[s].prompt /\ prompt_args(Member(s).tool) # <<>>))
Carries(s) == starts[s].prompt /\ OnCommandLine(s)
\* Typing at every member, asked on its command line or not.
TypesAnyway(s) == starts[s].prompt
Types(s) == starts[s].prompt /\ ~OnCommandLine(s)

\* The tool's configured words come first, then the launch's own, the prompt last.
Line(s) ==
    <<"settings">> \o (IF starts[s].adds \/ Member(s).app THEN <<>> ELSE member_args(Member(s)))
        \o (IF Carries(s) /\ ~Member(s).app THEN prompt_args(Member(s).tool) ELSE <<>>)

(* ---- rows ---- *)

Listed(tool) == {i \in DOMAIN rows : rows[i].listed /\ rows[i].tool = tool}
\* One more than there are.
numberByCount(tool) == Cardinality(Listed(tool)) + 1
\* The lowest number no listed row of the tool holds.
number_for(tool) ==
    CHOOSE n \in 1..(MaxRows + 1) :
        /\ \A i \in Listed(tool) : rows[i].number # n
        /\ \A k \in 1..(n - 1) : \E i \in Listed(tool) : rows[i].number = k

Row(s, line, asked) ==
    [start |-> s, at |-> starts[s].at, tool |-> Member(s).tool, number |-> number_for(Member(s).tool),
     line |-> line, asked |-> asked, listed |-> TRUE]
Occurrences(line, word) == Cardinality({k \in DOMAIN line : line[k] = word})
\* How often the member has been given the prompt.
Asked(i) == rows[i].asked + Occurrences(rows[i].line, "prompt")

(* ---- commands ---- *)

None == [members |-> <<>>, prompt |-> FALSE, adds |-> FALSE, at |-> 0, pc |-> "free"]
At(s, pc) == starts[s].pc = pc
Goes(s, pc) == starts' = [starts EXCEPT ![s].pc = pc]
\* A member that cannot be started is passed over.
Skips(s) ==
    starts' = [starts EXCEPT ![s].at = @ + 1,
                             ![s].pc = IF starts[s].at = Len(starts[s].members) THEN "done" ELSE "member"]
\* A failure stops the rest, and nothing that was started is told of.
Fails(s) == Goes(s, "failed")
NextMember(s) ==
    starts' = [starts EXCEPT ![s].at = @ + 1,
                             ![s].pc = IF starts[s].at = Len(starts[s].members) THEN "done" ELSE "member"]
Here(s) == [start |-> s, at |-> starts[s].at]

Init == starts = [s \in Starts |-> None] /\ rows = <<>> /\ cut = {} /\ typing = {}

\* `start_group`: no members is refused before anything is started.
StartGroup(s) ==
    /\ At(s, "free")
    /\ \E q \in Requests :
          starts' = [starts EXCEPT ![s] =
              [members |-> q.members, prompt |-> q.prompt, adds |-> FALSE, at |-> 1,
               pc |-> IF q.members = <<>> THEN "failed" ELSE "member"]]
    /\ UNCHANGED <<rows, cut, typing>>

\* `add_to_group`: one more member, without choices of its own.
AddToGroup(s) ==
    /\ At(s, "free") /\ \E g \in Starts : At(g, "done")
    /\ \E q \in Requests, k \in 1..2 :
          /\ k \in DOMAIN q.members /\ ~q.members[k].app
          /\ starts' = [starts EXCEPT ![s] =
                [members |-> <<[q.members[k] EXCEPT !.chosen = {}]>>, prompt |-> q.prompt, adds |-> TRUE,
                 at |-> 1, pc |-> "member"]]
    /\ UNCHANGED <<rows, cut, typing>>

(* ---- a session of axio's own ---- *)

\* The supervisor cuts the checkout and starts the session, or takes the checkout
\* away again; the first turn is handed over by a task of its own.
StartSession(s) ==
    /\ At(s, "member") /\ Member(s).tool = "session" /\ Len(rows) < MaxRows
    /\ \/ /\ rows' = Append(rows, Row(s, <<>>, IF starts[s].prompt THEN 1 ELSE 0))
          /\ cut' = cut \union {Here(s)} /\ NextMember(s)
       \/ UNCHANGED <<rows, cut>> /\ Fails(s)
    /\ UNCHANGED typing

(* ---- a hosted tool ---- *)

\* A profile's name that cannot be one, and a checkout that cannot be cut.
CutCheckout(s) ==
    /\ At(s, "member") /\ Member(s).tool # "session"
    /\ \/ cut' = cut \union {Here(s)} /\ Goes(s, "cut")
       \/ UNCHANGED cut /\ Fails(s)
    /\ UNCHANGED <<rows, typing>>

\* The checkout stays where the tool cannot be started.
SpawnFails(s) ==
    /\ At(s, "cut") /\ Fails(s)
    /\ UNCHANGED <<rows, cut, typing>>

\* Only one tool has a protocol.
MayBeDriven(s) == Member(s).app => Member(s).tool = "codex"
SpawnTool(s) ==
    /\ At(s, "cut") /\ MayBeDriven(s) /\ Len(rows) < MaxRows
    /\ rows' = Append(rows, Row(s, Line(s), 0))
    /\ Goes(s, "row")
    /\ UNCHANGED <<cut, typing>>

\* With the row there, the protocol is asked: a refusal fails the start, not the row.
AskByProtocol(s) ==
    /\ At(s, "row") /\ Member(s).app /\ Carries(s)
    /\ \E i \in DOMAIN rows :
          /\ rows[i].start = s /\ rows[i].at = starts[s].at
          /\ \/ rows' = [rows EXCEPT ![i].asked = @ + 1] /\ NextMember(s)
             \/ UNCHANGED rows /\ Fails(s)
    /\ UNCHANGED <<cut, typing>>

\* A row that was forgotten meanwhile cannot be typed at: the command fails there.
HandOver(s) ==
    /\ At(s, "row") /\ ~(Member(s).app /\ Carries(s))
    /\ \E i \in DOMAIN rows :
          /\ rows[i].start = s /\ rows[i].at = starts[s].at
          /\ typing' = IF Types(s) /\ rows[i].listed THEN typing \union {i} ELSE typing
          /\ IF Types(s) /\ ~rows[i].listed THEN Fails(s) ELSE NextMember(s)
    /\ UNCHANGED <<rows, cut>>

\* Once the tool has painted, or after a while; its terminal is held until then.
TypePrompt ==
    /\ \E i \in typing :
          /\ rows' = [rows EXCEPT ![i].asked = @ + 1]
          /\ typing' = typing \ {i}
    /\ UNCHANGED <<starts, cut>>

Forget ==
    /\ \E i \in DOMAIN rows :
          rows[i].tool # "session" /\ rows[i].listed /\ rows' = [rows EXCEPT ![i].listed = FALSE]
    /\ UNCHANGED <<starts, cut, typing>>

Next ==
    \/ TypePrompt \/ Forget
    \/ \E s \in Starts :
          \/ StartGroup(s) \/ AddToGroup(s) \/ StartSession(s) \/ CutCheckout(s)
          \/ SpawnFails(s) \/ SpawnTool(s) \/ AskByProtocol(s) \/ HandOver(s)

Spec == Init /\ [][Next]_vars

(* ---- properties ---- *)

TypeOK ==
    /\ typing \subseteq DOMAIN rows
    /\ \A s \in Starts : starts[s].pc \in {"free", "member", "cut", "row", "done", "failed"}
    /\ \A c \in cut : c.start \in Starts /\ c.at \in 1..Len(starts[c.start].members)

\* A member is asked the group's prompt by one way only, and when a group is
\* said to have started, every member has been asked or is about to be
\* (groups.rs:77).
Pending(i) == IF i \in typing THEN 1 ELSE 0
AskedOnce ==
    \A i \in DOMAIN rows :
        LET s == rows[i].start
        IN /\ Asked(i) + Pending(i) <= (IF starts[s].prompt THEN 1 ELSE 0)
           /\ At(s, "done") /\ starts[s].prompt => Asked(i) + Pending(i) = 1

\* No two listed terminals of one tool are called by the same number, in
\* whatever order they are started and forgotten (hosted/mod.rs:92).
NumbersTellApart ==
    \A i, j \in DOMAIN rows :
        i # j /\ rows[i].listed /\ rows[j].listed /\ rows[i].tool = rows[j].tool
            => rows[i].number # rows[j].number

\* The members that run are the first of those asked for, and a command leaves
\* at most the one checkout nothing works in: the member's that failed
\* (groups.rs:25).
Of(s) == {i \in DOMAIN rows : rows[i].start = s}
FailureStopsTheRest ==
    \A s \in Starts :
        LET ran == {rows[i].at : i \in Of(s)}
        IN /\ ran = 1..Cardinality(Of(s))
           /\ At(s, "done") => Cardinality(Of(s)) = Len(starts[s].members)
           /\ Cardinality({c \in cut : c.start = s /\ c.at \notin ran}) <= 1
=============================================================================
