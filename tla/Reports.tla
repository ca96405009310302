------------------------------- MODULE Reports -------------------------------
(***************************************************************************)
(* What a hosted agent says about itself: reports of its hooks, each over  *)
(* a connection of its own that the script gives up on after a while;      *)
(* sequences printed into the terminal, read when the surface reads; and   *)
(* the word of the window that has typed a prompt.  All of it lands in one *)
(* status and one conversation for the row.                                *)
(***************************************************************************)
EXTENDS Naturals, Sequences, FiniteSets, SequencesExt

CONSTANTS
    Desks,       \* tools that may be hosted together: row -> tool
    Dirs,        \* directories the tools may run in
    MaxWords,    \* bound on what a tool does
    MaxLooked    \* rollouts looked at, newest first

VARIABLES
    harness,     \* row -> its tool
    cwd,         \* row -> the directory its tool runs in
    tool,        \* row -> what the tool does, and the conversation it is in
    wire,        \* reports that were sent and not applied
    printed,     \* row -> statuses printed and not read
    rollouts,    \* conversations on disk, the last written last
    agent,       \* row -> what is known of the tool
    words,       \* what tools have done so far
    typed,       \* rows a prompt was typed into that the tool has not taken up
    vouched      \* rows whose reports have come in the order they were made

vars == <<harness, cwd, tool, wire, printed, rollouts, agent, words, typed, vouched>>

Terminals == DOMAIN harness
Statuses == {"working", "blocked", "idle", "done"}

(* ---- a report ---- *)

\* Any word of a notification about it, whatever kind it is.
StatusOfEach(e) ==
    IF e.event \in {"PermissionRequest", "Notification"} THEN "blocked"
    ELSE IF e.event = "UserPromptSubmit" THEN "working"
    ELSE IF e.event \in {"Stop", "codex"} /\ e.type = "end" THEN "done"
    ELSE IF e.event = "osc" THEN e.type ELSE "none"
\* What a report says the tool is doing; many say nothing of that.
StatusOf(e) ==
    CASE e.event = "UserPromptSubmit" -> "working"
      [] e.event = "PermissionRequest" -> "blocked"
      [] e.event \in {"Stop", "codex"} /\ e.type = "end" -> "done"
      [] e.event = "Notification" /\ e.type = "permission_prompt" -> "blocked"
      [] e.event = "Notification" /\ e.type = "idle_prompt" -> "idle"
      [] e.event = "osc" -> e.type
      [] OTHER -> "none"

Report(r, event, type) ==
    [row |-> r, event |-> event, type |-> type, conv |-> tool[r].conv, looked |-> event # "codex"]

\* Whatever was written last, wherever it ran.
rolloutAnywhere(dir) == IF rollouts = <<>> THEN 0 ELSE rollouts[Len(rollouts)].conv
\* The newest conversation written in the directory, among the newest of all.
codex_rollout_for(dir) ==
    LET newest == {k \in DOMAIN rollouts : k + MaxLooked > Len(rollouts)}
        here == {k \in newest : rollouts[k].dir = dir}
    IN IF here = {} THEN 0 ELSE rollouts[CHOOSE k \in here : \A j \in here : j <= k].conv

\* A report without a status or a conversation leaves what was known.
Learns(a, status, conv) ==
    [status |-> IF status = "none" THEN a.status ELSE status,
     session |-> IF conv = 0 THEN a.session ELSE conv]

(* ---- the tools ---- *)

Speaks(r) == words < MaxWords /\ words' = words + 1
Does(r, what) == tool' = [tool EXCEPT ![r].doing = what]
\* Its conversation's file is written, and becomes the newest.
Writes(r) ==
    rollouts' = IF harness[r] = "codex"
                THEN Append(SelectSeq(rollouts, LAMBDA f : f.conv # tool'[r].conv),
                            [dir |-> cwd[r], conv |-> tool'[r].conv])
                ELSE rollouts
\* A tool waits for the script of its hook; one with a notifier does not.
Waits(r) == harness[r] = "claude" /\ \E e \in wire : e.row = r /\ ~e.late
\* Each way of telling has words of its own: a hook for an event, a notifier for
\* the end of a turn, a printed status.
Sends(r, event, type) == wire' = wire \union {[late |-> FALSE] @@ Report(r, event, type)}
Says(r, event, type, status) ==
    \/ harness[r] = "claude" /\ event # "nothing" /\ Sends(r, event, type) /\ UNCHANGED printed
    \/ harness[r] = "codex" /\ event = "Stop" /\ Sends(r, "codex", "end") /\ UNCHANGED printed
    \/ harness[r] = "pi" /\ status # "none"
       /\ printed' = [printed EXCEPT ![r] = Append(@, status)] /\ UNCHANGED wire
    \/ UNCHANGED <<wire, printed>>
       /\ CASE harness[r] = "claude" -> event = "nothing"
            [] harness[r] = "codex" -> event # "Stop"
            [] OTHER -> status = "none"
Acts(r, from, to, event, type, status) ==
    /\ tool[r].doing \in from /\ ~Waits(r) /\ Speaks(r) /\ Does(r, to)
    /\ Says(r, event, type, status) /\ Writes(r)

TakesUp ==
    /\ \E r \in Terminals :
          Acts(r, {"idle", "done"}, "working", "UserPromptSubmit", "", "working") /\ typed' = typed \ {r}
    /\ UNCHANGED <<harness, cwd, agent, vouched>>
AsksPermission ==
    /\ \E r \in Terminals : Acts(r, {"working"}, "blocked", "PermissionRequest", "", "blocked")
    /\ UNCHANGED <<harness, cwd, agent, typed, vouched>>
\* The answer is given in the terminal, and nothing reports it.
IsAnswered ==
    /\ \E r \in Terminals : Acts(r, {"blocked"}, "working", "nothing", "", "working")
    /\ UNCHANGED <<harness, cwd, agent, typed, vouched>>
Finishes ==
    /\ \E r \in Terminals : Acts(r, {"working"}, "done", "Stop", "end", "done")
    /\ UNCHANGED <<harness, cwd, agent, typed, vouched>>
Notifies ==
    /\ \E r \in Terminals :
          \/ Acts(r, {"done"}, "idle", "Notification", "idle_prompt", "idle")
          \/ Acts(r, {"done", "idle", "working"}, tool[r].doing, "Notification", "auth_success", "none")
    /\ UNCHANGED <<harness, cwd, agent, typed, vouched>>
\* A fresh conversation in the same terminal; its id is its number.
StartsAfresh ==
    /\ \E r \in Terminals :
          /\ tool[r].doing \in {"idle", "done"} /\ ~Waits(r) /\ Speaks(r)
          /\ tool' = [tool EXCEPT ![r].conv = Cardinality(Terminals) + words']
          /\ Says(r, "SessionStart", "", "none") /\ Writes(r)
    /\ UNCHANGED <<harness, cwd, agent, typed, vouched>>

(* ---- the window ---- *)

\* The script gives up: the tool goes on with its report under way, or lost.
GivesUp ==
    /\ \E e \in wire :
          /\ ~e.late /\ harness[e.row] = "claude"
          /\ vouched' = vouched \ {e.row}
          /\ \/ wire' = (wire \ {e}) \union {[e EXCEPT !.late = TRUE]}
             \/ wire' = wire \ {e}
    /\ UNCHANGED <<harness, cwd, tool, printed, rollouts, agent, words, typed>>

\* A notifier's thread is not the conversation: that is looked for on disk first.
LooksUp ==
    /\ \E e \in wire :
          /\ ~e.looked
          /\ wire' = (wire \ {e}) \union {[e EXCEPT !.looked = TRUE, !.conv = codex_rollout_for(cwd[e.row])]}
    /\ UNCHANGED <<harness, cwd, tool, printed, rollouts, agent, words, typed, vouched>>
observe_hook ==
    /\ \E e \in wire :
          /\ e.looked /\ wire' = wire \ {e}
          /\ agent' = [agent EXCEPT ![e.row] = Learns(@, StatusOf(e), e.conv)]
    /\ UNCHANGED <<harness, cwd, tool, printed, rollouts, words, typed, vouched>>

\* Whoever reads the terminal takes what was printed, oldest first.
observe_signals ==
    /\ \E r \in Terminals :
          /\ printed[r] # <<>>
          /\ agent' = [agent EXCEPT ![r] =
                FoldLeft(LAMBDA a, s : Learns(a, StatusOf([event |-> "osc", type |-> s]), 0), @, printed[r])]
          /\ printed' = [printed EXCEPT ![r] = <<>>]
    /\ UNCHANGED <<harness, cwd, tool, wire, rollouts, words, typed, vouched>>

\* The window has typed a prompt: the tool works until it says otherwise.
submit ==
    /\ \E r \in Terminals :
          /\ r \notin typed /\ typed' = typed \union {r}
          /\ agent' = [agent EXCEPT ![r].status = "working"]
    /\ UNCHANGED <<harness, cwd, tool, wire, printed, rollouts, words, vouched>>

Init ==
    /\ harness \in Desks /\ cwd \in [Terminals -> Dirs]
    /\ tool = [r \in Terminals |-> [doing |-> "idle", conv |-> r]]
    /\ wire = {} /\ printed = [r \in Terminals |-> <<>>] /\ rollouts = <<>>
    /\ agent = [r \in Terminals |-> [status |-> "none", session |-> 0]]
    /\ words = 0 /\ typed = {} /\ vouched = Terminals

Next ==
    \/ TakesUp \/ AsksPermission \/ IsAnswered \/ Finishes \/ Notifies \/ StartsAfresh
    \/ GivesUp \/ LooksUp \/ observe_hook \/ observe_signals \/ submit

Spec == Init /\ [][Next]_vars

(* ---- properties ---- *)

TypeOK ==
    /\ typed \subseteq Terminals /\ vouched \subseteq Terminals
    /\ \A r \in Terminals :
          /\ tool[r].doing \in Statuses /\ agent[r].status \in Statuses \union {"none"}
          /\ agent[r].session \in 0..(Cardinality(Terminals) + MaxWords)

\* With nothing under way, what is shown of a tool that reports is what it
\* does; only an answer given in its terminal goes unreported, and leaves it
\* shown as waiting while it works (agent.rs:22).
Quiet(r) == printed[r] = <<>> /\ r \notin typed /\ \A e \in wire : e.row # r
StatusIsTrue ==
    \A r \in vouched :
        Quiet(r) /\ harness[r] # "codex" /\ agent[r].status # "none" =>
            \/ agent[r].status = tool[r].doing
            \/ agent[r].status = "blocked" /\ tool[r].doing = "working"

\* The conversation a row would be resumed in is one that ran in its
\* directory, and its tool's own when no other terminal is there (agent.rs:55).
ResumesWhatRanHere ==
    \A r \in Terminals :
        agent[r].session # 0 =>
            /\ \A k \in DOMAIN rollouts : rollouts[k].conv = agent[r].session => rollouts[k].dir = cwd[r]
            /\ \A q \in Terminals \ {r} : cwd[q] # cwd[r] => agent[r].session # tool[q].conv
=============================================================================
