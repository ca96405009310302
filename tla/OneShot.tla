------------------------------ MODULE OneShot ------------------------------
(***************************************************************************)
(* `axio -p`: one turn in a task, a loop that renders its events, a        *)
(* watcher for the signals that mean stop, and the exit code a script sees *)
(* (axio, src/input.rs, src/surface.rs, src/surfaces/mod.rs one_shot).     *)
(***************************************************************************)
EXTENDS Naturals, Sequences, FiniteSets

CONSTANTS
    MaxEvents,     \* bound: events the turn sends
    MaxSignals     \* bound: signals sent to the process

VARIABLES
    stdin,         \* what the process was given: prompt or none, pipe or tty;
                   \* the one prompt it becomes, once it is read
    phase,         \* "reading", "running", "joined", "over"
    turn,          \* the spawned task: "running" or how it ended
    wedged,        \* whether the turn takes no notice of the cancel token
    cancelled,     \* the token
    sent, queue, shown,    \* events: sent in all, not yet taken, rendered
    unrendered,    \* events taken whose rendering failed
    refusals,      \* Refusals.seen: the calls observed as denied
    code,          \* signal_code: 0 until a signal is picked up
    heard,         \* signals the watcher's current listeners have received
    window,        \* whether a first interrupt is less than two seconds old
    grace,         \* the termination signals whose deadline is running
    exit,          \* the exit code, or Running
    got            \* ghost: signals sent, those picked up, denied calls

vars == <<stdin, phase, turn, wedged, cancelled, sent, queue, shown, unrendered, refusals,
          code, heard, window, grace, exit, got>>

Running == 1000
SIGINT == 130
Terminations == {143, 129}
Signals == {SIGINT} \cup Terminations
Outcomes == {"completed", "failed", "limited", "refused", "interrupted", "panicked"}
Ended == turn # "running"
Pieces == {"text", "denied"}

(* TurnOutcome::exit_code; a turn that panicked is reported as failed.     *)
ExitCodeOf(outcome) ==
    [completed |-> 0, failed |-> 1, panicked |-> 1, limited |-> 3, refused |-> 4,
     interrupted |-> SIGINT][outcome]
EXIT_REFUSED_ACTIONS == 5
EXIT_NO_PROMPT == 2

Denied(events) == {i \in DOMAIN events : events[i] = "denied"}

---------------------------------------------------------------------------
(* read_stdin, compose_prompt and Surface::select.  Without -p a pipe is   *)
(* read to its end; with it, for a bounded wait, and what came late is     *)
(* dropped whole.  No prompt at all opens the interface or is an error.    *)
Composed(late) ==
    \/ stdin.prompt
    \/ stdin.piped /\ stdin.text /\ ~late

OnePrompt == [prompt |-> TRUE, piped |-> FALSE, text |-> FALSE]

ReadStdin(late) ==
    /\ phase = "reading"
    /\ stdin.piped
    /\ late => stdin.prompt
    /\ IF Composed(late)
       THEN phase' = "running" /\ stdin' = OnePrompt /\ exit' = exit
       ELSE phase' = "over" /\ stdin' = stdin /\ exit' = EXIT_NO_PROMPT
    /\ UNCHANGED <<turn, wedged, cancelled, sent, queue, shown, unrendered, refusals,
                   code, heard, window, grace, got>>

ArgumentOnly ==
    /\ phase = "reading"
    /\ ~stdin.piped
    /\ phase' = "running"
    /\ UNCHANGED <<stdin, turn, wedged, cancelled, sent, queue, shown, unrendered, refusals,
                   code, heard, window, grace, exit, got>>

---------------------------------------------------------------------------
(* The turn's task.                                                        *)
Alive == phase = "running" /\ exit = Running

Send(piece) ==
    /\ Alive /\ ~Ended /\ sent < MaxEvents
    /\ sent' = sent + 1
    /\ queue' = Append(queue, piece)
    /\ got' = [got EXCEPT !.denied = @ \/ piece = "denied"]
    /\ UNCHANGED <<stdin, phase, turn, wedged, cancelled, shown, unrendered, refusals,
                   code, heard, window, grace, exit>>

TurnEnds(outcome) ==
    /\ Alive /\ ~Ended /\ ~wedged
    /\ IF cancelled THEN outcome = "interrupted" ELSE outcome # "interrupted"
    /\ turn' = outcome
    /\ UNCHANGED <<stdin, phase, wedged, cancelled, sent, queue, shown, unrendered, refusals,
                   code, heard, window, grace, exit, got>>

---------------------------------------------------------------------------
(* What the renderer is given may be written or not (a closed pipe, a full *)
(* disk): the loop goes on, and the exit code is told nothing of it.       *)
Rendered(events) ==
    \E n \in 0..Len(events) :
        shown' = shown + n /\ unrendered' = unrendered + Len(events) - n

(* one_shot's loop: an event, ...                                          *)
Handle ==
    /\ Alive /\ queue # <<>>
    /\ refusals' = refusals + Cardinality(Denied(<<Head(queue)>>))
    /\ Rendered(<<Head(queue)>>)
    /\ queue' = Tail(queue)
    /\ UNCHANGED <<stdin, phase, turn, wedged, cancelled, sent, code, heard, window,
                   grace, exit, got>>

(* ... or the turn's result, after which what is still queued is taken;    *)
(* not if the task panicked.                                               *)
DrainedNever == <<>>       \* a mutant's: the loop ends with the turn
Drained == IF turn = "panicked" THEN <<>> ELSE queue

Joined ==
    /\ Alive /\ Ended
    /\ refusals' = refusals + Cardinality(Denied(Drained))
    /\ Rendered(Drained)
    /\ queue' = SubSeq(queue, Len(Drained) + 1, Len(queue))
    /\ phase' = "joined"
    /\ UNCHANGED <<stdin, turn, wedged, cancelled, sent, code, heard, window, grace,
                   exit, got>>

(* The signal's code outranks the outcome's, and refused work a completed  *)
(* turn's.                                                                 *)
Report ==
    /\ phase = "joined" /\ exit = Running
    /\ exit' = IF code # 0 THEN code
               ELSE IF turn = "completed" /\ refusals > 0 THEN EXIT_REFUSED_ACTIONS
               ELSE ExitCodeOf(turn)
    /\ phase' = "over"
    /\ UNCHANGED <<stdin, turn, wedged, cancelled, sent, queue, shown, unrendered, refusals, code,
                   heard, window, grace, got>>

---------------------------------------------------------------------------
(* A signal is sent.  Before the watcher runs it has its default effect;   *)
(* after that the listeners of the pass under way receive it.              *)
Signal(signal) ==
    /\ exit = Running /\ got.signals < MaxSignals
    /\ got' = [got EXCEPT !.signals = @ + 1,
                          !.terminated = @ \/ (signal \in Terminations /\ phase # "reading")]
    /\ IF phase = "reading"
       THEN exit' = signal /\ phase' = "over" /\ heard' = heard
       ELSE exit' = exit /\ phase' = phase /\ heard' = heard \cup {signal}
    /\ UNCHANGED <<stdin, turn, wedged, cancelled, sent, queue, shown, unrendered, refusals, code,
                   window, grace>>

(* next_signal: select! takes one of those received and drops the three    *)
(* listeners; the next pass's hear only what is sent from then on.         *)
LastingGrace(signal) == grace      \* a mutant's: a termination only cancels
GraceFor(signal) == IF signal \in Terminations THEN grace \cup {signal} ELSE grace

Impatient(signal) == signal = SIGINT /\ window

PickUp(signal) ==
    /\ exit = Running
    /\ signal \in heard
    /\ heard' = {}
    /\ code' = signal
    /\ IF Impatient(signal)
       THEN exit' = SIGINT /\ phase' = "over" /\ UNCHANGED <<cancelled, window, grace>>
       ELSE /\ cancelled' = TRUE
            /\ window' = (window \/ signal = SIGINT)
            /\ grace' = GraceFor(signal)
            /\ UNCHANGED <<exit, phase>>
    /\ got' = [got EXCEPT !.picked = @ \/ signal \in Terminations]
    /\ UNCHANGED <<stdin, turn, wedged, sent, queue, shown, unrendered, refusals>>

WindowPasses ==
    /\ window /\ exit = Running
    /\ window' = FALSE
    /\ UNCHANGED <<stdin, phase, turn, wedged, cancelled, sent, queue, shown, unrendered, refusals,
                   code, heard, grace, exit, got>>

GraceEnds(signal) ==
    /\ exit = Running /\ signal \in grace
    /\ exit' = signal
    /\ phase' = "over"
    /\ UNCHANGED <<stdin, turn, wedged, cancelled, sent, queue, shown, unrendered, refusals, code,
                   heard, window, grace, got>>

---------------------------------------------------------------------------
Init ==
    /\ stdin \in {s \in [prompt : BOOLEAN, piped : BOOLEAN, text : BOOLEAN] :
                      /\ s.prompt \/ s.piped          \* a tty alone is the interface
                      /\ s.text => s.piped}
    /\ phase = "reading"
    /\ turn = "running" /\ wedged \in BOOLEAN /\ cancelled = FALSE
    /\ sent = 0 /\ queue = <<>> /\ shown = 0 /\ unrendered = 0 /\ refusals = 0
    /\ code = 0 /\ heard = {} /\ window = FALSE /\ grace = {}
    /\ exit = Running
    /\ got = [signals |-> 0, terminated |-> FALSE, picked |-> FALSE, denied |-> FALSE]

Next ==
    \/ \E late \in BOOLEAN : ReadStdin(late)
    \/ ArgumentOnly
    \/ \E piece \in Pieces : Send(piece)
    \/ \E outcome \in Outcomes : TurnEnds(outcome)
    \/ Handle \/ Joined \/ Report \/ WindowPasses
    \/ \E signal \in Signals : Signal(signal) \/ PickUp(signal) \/ GraceEnds(signal)

(* The process's tasks are polled and its deadlines fire; a wedged turn    *)
(* never ends, and nobody is obliged to send a signal.                     *)
Watching == \E signal \in Signals : PickUp(signal)
Deadline == \E signal \in Signals : GraceEnds(signal)
Looping == Handle \/ Joined \/ Report
Fairness == WF_vars(Watching) /\ WF_vars(Deadline) /\ WF_vars(Looping)

Spec == Init /\ [][Next]_vars /\ Fairness

---------------------------------------------------------------------------
TypeOK ==
    /\ phase \in {"reading", "running", "joined", "over"}
    /\ turn \in Outcomes \cup {"running"}
    /\ shown + unrendered + Len(queue) = sent
    /\ heard \subseteq Signals /\ grace \subseteq Terminations
    /\ (exit # Running) = (phase = "over")

(* Exit code 0 is a promise about the turn: it completed, no signal cut it *)
(* short, none of its calls was refused, and no event of it was left       *)
(* behind: each was counted and given to the renderer, and what is not on  *)
(* the screen is what could not be written.                                *)
ZeroMeansDone ==
    exit = 0 => /\ turn = "completed" /\ ~cancelled /\ ~got.denied
                /\ shown + unrendered = sent

(* A termination the watcher picked up ends the process, also when the     *)
(* turn is wedged and whatever other signals come.                         *)
PickedUpEnds == got.picked ~> exit # Running

(* Said of the code, and not so.  surface.rs bounds the wait because "a    *)
(* wedged turn must not turn SIGTERM into a hang".                         *)
TerminatedEnds == got.terminated ~> exit # Running

(* What a script may take exit code 0 for, and not so: an event that could *)
(* not be written is logged at most, and the code stays 0.                 *)
ZeroMeansShown == exit = 0 => shown = sent

(* Said of the code, and not so, of a turn that panics: what it had sent   *)
(* and the loop had not taken is not rendered; nor of a sink that fails.   *)
AllIsShown == (phase = "over" /\ Ended /\ code = 0) => shown = sent
============================================================================
