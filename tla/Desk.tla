-------------------------------- MODULE Desk --------------------------------
(***************************************************************************)
(* The desktop window over its supervisor (axio-app, shell.rs, state/,     *)
(* commands/): a session whose turns run beside the window, the stream     *)
(* that wakes it, the reads it paints itself from, and the guard that is   *)
(* asked before the window closes.                                         *)
(*                                                                         *)
(* A read of the window takes the index, the live sessions and the         *)
(* questions one lock after another; here it takes them at one moment, and *)
(* what it may miss is that it is painted later, beside other reads.       *)
(***************************************************************************)
EXTENDS Naturals, FiniteSets

CONSTANTS
    MaxReads,     \* bound: reads of the window under way at once
    MaxPrompts,   \* bound: prompts a person gives
    MaxStream     \* bound: events the relay is behind (the channel has none)

VARIABLES
    task,      \* where the session's task is
    closing,      \* whether close has taken it out of the live map
    entry,        \* what the index says of it: "none", "open", "closed"
    prompts, given,    \* prompts accepted and not yet taken; given in all
    question,     \* whether one is in the approval queue
    hosted,       \* whether a hosted tool runs
    starting,     \* whether the start of one is under way
    stream,       \* events not yet relayed to the window
    woken,        \* whether the window was told to read
    reads,        \* what the reads under way have seen
    shown,        \* what the window paints
    window,       \* "up", "asking" whether to close, or "gone"
    exiting,      \* whether the guard has let an exit through
    quit,         \* whether the process has ended
    since         \* history: what began to run after the guard looked for it

vars == <<task, closing, entry, prompts, given, question, hosted, starting, stream, woken,
          reads, shown, window, exiting, quit, since>>

Places == {"none", "indexed", "announced", "idle", "turn", "asking", "waiting",
           "answered", "after", "closed"}
InATurn == {"turn", "asking", "waiting", "answered", "after"}
Tasked == {"idle"} \union InATurn
Blank == [status |-> "none", asks |-> FALSE]

Init ==
    /\ task = "none" /\ closing = FALSE /\ entry = "none" /\ prompts = 0 /\ given = 0
    /\ question = FALSE /\ hosted = FALSE /\ stream = 0
    /\ starting \in BOOLEAN          \* a launch may have a terminal to resume
    /\ woken = TRUE /\ reads = {} /\ shown = Blank
    /\ window = "up" /\ exiting = FALSE /\ quit = FALSE /\ since = {}

Up == ~quit
Emit == stream < MaxStream /\ stream' = stream + 1
Window == <<woken, reads, shown>>
Wake == woken' = (window # "gone")
Live == task \in Tasked /\ ~closing
Work == <<task, closing, entry, prompts, given, question>>
Hosting == <<hosted, starting>>
Guarding == <<window, exiting, quit>>
Leaving == <<Guarding, since>>
Began(what) == since' = IF exiting THEN since \union {what} ELSE {}

-----------------------------------------------------------------------------
(* The supervisor and the session's task.                                  *)

(* start: the entry is written, the task announces itself, the handle goes *)
(* into the live map; the command returns and the window reads again.      *)
Starts ==
    /\ Up /\ (task = "indexed" \/ (task = "none" /\ window = "up"))
    /\ task' = IF task = "none" THEN "indexed" ELSE "announced"
    /\ entry' = "open"
    /\ IF task = "none" THEN stream' = stream ELSE Emit
    /\ UNCHANGED <<closing, prompts, given, question, Hosting, Window, Leaving>>
Started ==
    /\ Up /\ task = "announced"
    /\ task' = "idle" /\ Wake
    /\ \E with \in 0..1 : prompts' = with /\ given' = with
    /\ UNCHANGED <<closing, entry, question, Hosting, stream, reads, shown, Leaving>>

(* send: the turn is spawned and the command returns.                      *)
Send ==
    /\ Up /\ Live /\ window = "up" /\ given < MaxPrompts
    /\ prompts' = prompts + 1 /\ given' = given + 1
    /\ UNCHANGED <<task, closing, entry, question, Hosting, stream, Window, Leaving>>

(* The task takes a prompt, says it runs, and runs the turn.               *)
TurnBegins ==
    /\ Up /\ task = "idle" /\ prompts > 0
    /\ task' = "turn" /\ prompts' = prompts - 1
    /\ Emit /\ Began("turn")
    /\ UNCHANGED <<closing, entry, given, question, Hosting, Window, Guarding>>

(* dispatch tells of the question, and the approver it then awaits puts it *)
(* in the queue.  Bound: one question is in the queue at a time.           *)
Asks ==
    /\ Up /\ task = "turn" /\ ~question
    /\ task' = "asking" /\ Emit
    /\ UNCHANGED <<closing, entry, prompts, given, question, Hosting, Window, Leaving>>
Registers ==
    /\ Up /\ task = "asking"
    /\ task' = "waiting" /\ question' = TRUE
    /\ UNCHANGED <<closing, entry, prompts, given, Hosting, stream, Window, Leaving>>

(* resolve_approval: the question leaves the queue; the turn goes on with  *)
(* the answer, unless it was cancelled in the meantime.                    *)
Resolve ==
    /\ Up /\ question /\ window = "up" /\ shown.asks
    /\ question' = FALSE /\ Wake
    /\ task' = IF task = "waiting" THEN "answered" ELSE task
    /\ UNCHANGED <<closing, entry, prompts, given, Hosting, stream, reads, shown, Leaving>>
Resolved ==
    /\ Up /\ task = "answered"
    /\ task' = "turn" /\ Emit
    /\ UNCHANGED <<closing, entry, prompts, given, question, Hosting, Window, Leaving>>

(* The turn ends, by itself or cancelled, also while it asks: then its     *)
(* question stays in the queue.  The checkpoint behind it comes after the  *)
(* last event, and only then does the task say that it rests.              *)
TurnEnds ==
    /\ Up /\ task \in {"turn", "asking", "waiting"}
    /\ task' = "after" /\ Emit
    /\ UNCHANGED <<closing, entry, prompts, given, question, Hosting, Window, Leaving>>
Rests ==
    /\ Up /\ task = "after"
    /\ task' = "idle"
    /\ UNCHANGED <<closing, entry, prompts, given, question, Hosting, stream, Window, Leaving>>

(* close: out of the live map, its questions answered, its token cancelled *)
(* (a question asked at that moment is left in the queue).  The task reads *)
(* the close behind the prompts it was given before, and runs those; then  *)
(* the index is told, and the window reads when the command returns.       *)
Close ==
    /\ Up /\ Live /\ window = "up"
    /\ closing' = TRUE
    /\ question' \in IF task = "asking" THEN BOOLEAN ELSE {FALSE}
    /\ IF task \in InATurn \ {"after"}
       THEN task' = "after" /\ Emit
       ELSE UNCHANGED <<task, stream>>
    /\ UNCHANGED <<entry, prompts, given, Hosting, Window, Leaving>>
Closed ==
    /\ Up /\ closing /\ task = "idle"
    /\ task' = "closed" /\ entry' = "closed" /\ prompts' = 0 /\ Wake
    /\ UNCHANGED <<closing, given, question, Hosting, stream, reads, shown, Leaving>>

-----------------------------------------------------------------------------
(* The relay wakes the window for every event.                             *)
Relay ==
    /\ Up /\ stream > 0
    /\ stream' = stream - 1
    /\ Wake
    /\ UNCHANGED <<Work, Hosting, reads, shown, Leaving>>

(* A hosted tool is started from the window, or resumed by the launch with *)
(* no window to ask; the spawn is awaited, and may fail.  Its process ends. *)
HostedAsked ==
    /\ Up /\ ~hosted /\ ~starting /\ window = "up"
    /\ starting' = TRUE
    /\ UNCHANGED <<Work, hosted, stream, Window, Leaving>>
HostedStarts ==
    /\ Up /\ starting
    /\ starting' = FALSE
    /\ \/ hosted' = TRUE /\ Began("hosted")
       \/ UNCHANGED <<hosted, since>>
    /\ \E told \in BOOLEAN : woken' = (woken \/ (told /\ window # "gone"))
    /\ UNCHANGED <<Work, stream, reads, shown, Guarding>>
HostedEnds ==
    /\ Up /\ hosted
    /\ hosted' = FALSE
    /\ UNCHANGED <<Work, starting, stream, Window, Leaving>>

-----------------------------------------------------------------------------
(* The window reads: AppState::snapshot, one lock after another.           *)

Statuses == {"none", "idle", "running", "closed"}
StatusByIndex(e) == IF e = "none" THEN "none" ELSE IF e = "closed" THEN "closed" ELSE "running"
Status(e) ==
    IF e = "none" THEN "none"
    ELSE IF ~Live THEN "closed"
    ELSE IF task = "idle" THEN "idle" ELSE "running"

(* Two reads that have seen the same count as one.                         *)
Seen == [status |-> Status(entry), asks |-> question]
Refresh ==
    /\ Up /\ window # "gone" /\ woken /\ Seen \notin reads /\ Cardinality(reads) < MaxReads
    /\ woken' = FALSE /\ reads' = reads \union {Seen}
    /\ UNCHANGED <<Work, Hosting, stream, shown, Leaving>>
Paint(read) ==
    /\ Up /\ shown' = read /\ reads' = reads \ {read}
    /\ UNCHANGED <<Work, Hosting, stream, woken, Leaving>>

(* The window's own timer, "a fallback, not the mechanism".                *)
NoFallback == FALSE /\ UNCHANGED vars
Fallback ==
    /\ Up /\ window # "gone" /\ ~woken
    /\ Wake
    /\ UNCHANGED <<Work, Hosting, stream, reads, shown, Leaving>>

-----------------------------------------------------------------------------
(* Closing.  The title bar's button and the process's own end ask the same *)
(* guard; a refusal asks the person, who may have the window destroyed.    *)
(* The thread that asks is the window's own: what it is let through with   *)
(* is the next thing it does, but the sessions and the tools run beside it *)
(* and go on until the process has ended.  (The guard looks for tools,     *)
(* then for sessions: a tool that starts in between has started behind its *)
(* back, as one that starts after both.)                                   *)

RunningSessions == Status(entry) = "running"
OnlySessions == RunningSessions
has_running_work == hosted \/ RunningSessions

(* A window that is gone has nothing under way.                            *)
Torn == woken' = FALSE /\ reads' = {} /\ shown' = Blank

CloseRequested ==
    /\ Up /\ ~exiting /\ window = "up"
    /\ IF has_running_work THEN window' = "asking" /\ UNCHANGED Window
       ELSE window' = "gone" /\ Torn
    /\ UNCHANGED <<Work, Hosting, stream, exiting, quit, since>>
KeepWorking ==
    /\ Up /\ window = "asking" /\ window' = "up"
    /\ UNCHANGED <<Work, Hosting, stream, Window, exiting, quit, since>>
Destroy ==
    /\ Up /\ window = "asking" /\ window' = "gone" /\ Torn
    /\ UNCHANGED <<Work, Hosting, stream, exiting, quit, since>>
(* The last window is gone, or the system asks.                            *)
ExitRequested ==
    /\ Up /\ ~exiting
    /\ IF has_running_work
       THEN /\ window' = IF window = "gone" THEN "gone" ELSE "asking"
            /\ UNCHANGED <<exiting, Window>>
       ELSE exiting' = TRUE /\ window' = "gone" /\ Torn
    /\ UNCHANGED <<Work, Hosting, stream, quit, since>>
Exits ==
    /\ Up /\ exiting
    /\ quit' = TRUE /\ stream' = 0
    /\ UNCHANGED <<Work, Hosting, Window, window, exiting, since>>

Next ==
    \/ Starts \/ Started \/ Send \/ TurnBegins \/ Asks \/ Registers
    \/ Resolve \/ Resolved \/ TurnEnds \/ Rests \/ Close \/ Closed
    \/ Relay \/ HostedAsked \/ HostedStarts \/ HostedEnds
    \/ Refresh \/ \E read \in reads : Paint(read)
    \/ Fallback \/ CloseRequested \/ KeepWorking \/ Destroy
    \/ ExitRequested \/ Exits

(* The relay is a task, the webview runs what it was woken for, and its    *)
(* timer goes off; nobody must work or answer.                             *)
Reading == Refresh \/ \E read \in reads : Paint(read)
Fairness == WF_vars(Relay) /\ WF_vars(Reading) /\ WF_vars(Fallback)
Spec == Init /\ [][Next]_vars /\ Fairness

-----------------------------------------------------------------------------
(* Properties.                                                             *)

Views == [status : Statuses, asks : BOOLEAN]
TypeOK ==
    /\ task \in Places /\ closing \in BOOLEAN /\ entry \in {"none", "open", "closed"}
    /\ prompts \in 0..given /\ given \in 0..MaxPrompts /\ question \in BOOLEAN
    /\ hosted \in BOOLEAN /\ starting \in BOOLEAN /\ stream \in 0..MaxStream
    /\ woken \in BOOLEAN
    /\ reads \subseteq Views /\ Cardinality(reads) <= MaxReads /\ shown \in Views
    /\ window \in {"up", "asking", "gone"} /\ quit \in BOOLEAN
    /\ exiting \in BOOLEAN /\ since \subseteq {"hosted", "turn"}

(* "Whether closing now would abandon work": the guard misses nothing that *)
(* ran when it looked.  A hosted tool or a turn that the end of the        *)
(* process cuts short began behind the guard's back, after it had looked   *)
(* for its kind, or the turn is of a session that a person has closed.     *)
NothingIsAbandoned ==
    quit => /\ hosted => "hosted" \in since
            /\ task \in InATurn => closing \/ "turn" \in since

(* "A listener that missed one is late rather than wrong": whatever the    *)
(* order of wakes, overlapping reads and the reads' own moments, a window  *)
(* whose session and questions rest comes to show them as they are.        *)
Truth == [status |-> IF entry = "none" THEN "none"
                     ELSE IF closing \/ task \in {"indexed", "announced"} THEN "closed"
                     ELSE IF task \in InATurn THEN "running" ELSE "idle",
          asks |-> question]
ShownInTheEnd ==
    <>[][Truth' = Truth]_vars => <>[](shown = Truth \/ window = "gone" \/ quit)

(* shell.rs: "the window's read never races the write it was woken for".   *)
(* Not so: the relay's word of a question and of a turn's end goes out     *)
(* before the queue has the question and before the handle rests.          *)
WakesAreEnough ==
    task \in {"idle", "waiting"} /\ stream = 0 /\ ~woken /\ window # "gone" /\ ~quit /\ reads = {}
        => shown = Truth
(* The dialog's "close anyway" skips the guard "on purpose".  Not so: the  *)
(* exit that follows the last window asks the same guard again, and the    *)
(* process stays without a window.                                         *)
CloseAnywayEnds == window = "gone" => quit \/ ~has_running_work
(* "Whether closing now would abandon work".  Not so of a prompt that was  *)
(* accepted and that the task has not taken, ...                           *)
NoPromptIsLost == quit /\ ~closing => prompts = 0
(* ... nor is the guard "the only thing standing between a taskbar close   *)
(* and five sessions of abandoned work": a terminal that the launch brings *)
(* back, a tool or a turn may start between its look and the exit, and it  *)
(* does not see the turn of a session that is being closed.                *)
NothingRunsAtTheEnd == quit => ~hosted /\ task \notin InATurn
=============================================================================
