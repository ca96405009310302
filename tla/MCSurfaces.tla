----------------------------- MODULE MCSurfaces -----------------------------
(***************************************************************************)
(* The surfaces and the side panels, side by side: the one-shot command,   *)
(* the composer, the screen and the wrapping of its lines, the scan of     *)
(* other tools' logs with its cache and its totals, the desktop window and *)
(* the quota panel.                                                        *)
(* The components share no state; a behaviour runs one of them.            *)
(***************************************************************************)
EXTENDS Naturals, Sequences

VARIABLES
    part,   \* the component this behaviour runs
    stdin, oneShotPhase, turn, wedged, cancelled, oneShotSent, queue,
    oneShotShown, unrendered, refusals, code, heard, oneShotWindow, grace, exit, got,
    composerText, cursor, history, recall, draft, began, list,
    screenPhase, answer, streams, screenSent, attempts, live, md, flushed,
    streamed, scrollback, stdout, said,
    wrappingText,
    jobs, chunk, shares, lost, report,
    files, cache, temp, work, memory, begun, overlapped,
    logs,
    task, closing, entry, prompts, given, question, hosted, starting, stream, woken,
    reads, deskShown, deskWindow, exiting, quit, since,
    refreshing, gap, sleep, probe, results, file, quiet, changes

(* ---- log files, one agent for each way of keeping a log ---- *)

Call(k, d, n) == [kind |-> "call", key |-> k, day |-> d, tokens |-> n, entries |-> 1]
Pair(k, d, n) == [Call(k, d, n) EXCEPT !.entries = 2]
Other(kind) == [kind |-> kind, key |-> <<>>, day |-> 0, tokens |-> 0, entries |-> 0]
File(a, r, t) == [agent |-> a, readable |-> r, tables |-> t]
Registry == <<"claude-code", "codex", "grok", "opencode", "database">>
Files == {
    File(1, TRUE, << <<Call(<<"k">>, 1, 1), Call(<<"k">>, 2, 2)>> >>),
    File(1, TRUE, << <<Call(<<"k">>, 2, 3), Call(<<>>, 2, 1), Other("bad")>> >>),
    File(1, FALSE, << <<>> >>),
    File(2, TRUE, << <<Call(<<>>, 1, 1), Other("context"), Call(<<>>, 1, 1), Call(<<>>, 1, 2)>> >>),
    File(3, TRUE, << <<Pair(<<"k">>, 1, 1), Pair(<<"k">>, 2, 2), Other("other")>> >>),
    File(4, TRUE, << <<Call(<<"k">>, 1, 1), Other("other"), Call(<<"l">>, 1, 2)>> >>),
    File(5, TRUE, << <<Call(<<"k">>, 1, 2)>>, <<Call(<<"l">>, 1, 2)>> >>),
    File(5, TRUE, << <<Other("no table")>>, <<Pair(<<"k">>, 2, 1), Other("bad")>> >>) }

(* ---- prices: a tiered, a promoted, a fed and an unknown model ---- *)

Id(name, suffixes) == [name |-> name, platform |-> FALSE, vendors |-> 1, suffixes |-> suffixes]
Plain(name) == [name |-> name, platform |-> FALSE, vendors |-> 0, suffixes |-> <<>>]
Use(i, o, c, w, t) == [input |-> i, output |-> o, cached |-> c, write |-> w, total |-> t]
Log(client, session, model, day, usage, reported) ==
    [client |-> client, session |-> session, model |-> model, day |-> day,
     usage |-> usage, reported |-> reported]
Price(input, output, read) ==
    [input |-> input, output |-> output, read |-> read, above |-> 0, factor |-> 0, until |-> 0, promo |-> 0]
Bundle == [tiered |-> [Price(2, 3, 1) EXCEPT !.above = 3, !.factor = 2],
           promoted |-> [Price(3, 4, 1) EXCEPT !.until = 2, !.promo = 2]]
Feed == << [model |-> Plain("fed"), input |-> 2, output |-> 2],
           [model |-> Id("fed", <<"date">>), input |-> 2, output |-> 5],
           [model |-> Plain("tiered"), input |-> 1, output |-> 1],
           [model |-> Plain("free"), input |-> 0, output |-> 1] >>
Logs == {
    Log("a", "s", Id("tiered", <<>>), 1, Use(3, 1, 1, 0, 0), 0),
    Log("b", "t", Id("tiered", <<"date", "fast">>), 2, Use(3, 1, 1, 1, 0), 0),
    Log("a", "s", Id("promoted", <<"date">>), 2, Use(1, 1, 2, 0, 0), 0),
    Log("b", "s", Id("promoted", <<"latest">>), 3, Use(1, 0, 2, 0, 0), 0),
    Log("a", "t", Id("fed", <<>>), 4, Use(2, 2, 0, 0, 0), 0),
    Log("b", "t", Id("free", <<>>), 4, Use(2, 2, 1, 0, 0), 0),
    Log("a", "s", Id("free", <<>>), 5, Use(0, 0, 0, 0, 400), 0),
    Log("b", "u", Id("free", <<"fast", "latest">>), 1, Use(1, 0, 0, 0, 0), 7) }

(* ---- quota answers: calm with a far reset, and never set up ---- *)

Reply(ok, used, reset, configured) ==
    [ok |-> ok, used |-> used, reset |-> reset, configured |-> configured]
Replies == {Reply(TRUE, 10, 800, TRUE), Reply(FALSE, 0, 0, FALSE)}

\* Two events and two signals around one turn.
OneShot == INSTANCE OneShot WITH
    MaxEvents <- 2, MaxSignals <- 2, phase <- oneShotPhase,
    sent <- oneShotSent, shown <- oneShotShown, window <- oneShotWindow
\* Narrow and wide characters and newlines in rows of two and three cells.
Composer == INSTANCE Composer WITH
    MaxText <- 2, MaxPrompt <- 1, MaxHistory <- 2, MaxWidth <- 3,
    MaxEntries <- 4, text <- composerText
\* Answers of three symbols, in pieces, and a second attempt.
Screen == INSTANCE Screen WITH
    MaxSymbols <- 3, MaxDelta <- 2, MaxAttempts <- 2, phase <- screenPhase,
    sent <- screenSent
\* Every text of seven characters in every width to four.
Wrapping == INSTANCE Wrapping WITH
    MaxText <- 7, MaxWidth <- 4, text <- wrappingText
\* Three of the files above on one to three workers.
Scan == INSTANCE Scan WITH
    MaxJobs <- 3, MaxWorkers <- 3
\* Three scans by two processes over one cache.
ScanStore == INSTANCE ScanStore WITH
    Known <- {1, 2}, Shapes <- {<<1, 1>>}, MaxScans <- 3
\* Four entries; agent b counts cached reads into its input.
Spend == INSTANCE Spend WITH
    Inclusive <- {"b"}, MaxLogs <- 4
\* A session asked once, and two reads of the window that may overlap.
Desk == INSTANCE Desk WITH
    MaxReads <- 2, MaxPrompts <- 1, MaxStream <- 1, shown <- deskShown,
    window <- deskWindow
\* Two providers and one change of the settings.
Quota == INSTANCE Quota WITH
    Providers <- {1, 2}, Answers <- Replies,
    Cadences <- {"adaptive", "manual"}, MaxChanges <- 1

oneShotVars == <<stdin, oneShotPhase, turn, wedged, cancelled, oneShotSent, queue,
    oneShotShown, unrendered, refusals, code, heard, oneShotWindow, grace, exit, got>>
composerVars == <<composerText, cursor, history, recall, draft, began, list>>
screenVars == <<screenPhase, answer, streams, screenSent, attempts, live, md, flushed,
    streamed, scrollback, stdout, said>>
wrappingVars == <<wrappingText>>
scanVars == <<jobs, chunk, shares, lost, report>>
scanStoreVars == <<files, cache, temp, work, memory, begun, overlapped>>
spendVars == <<logs>>
deskVars == <<task, closing, entry, prompts, given, question, hosted, starting, stream, woken,
    reads, deskShown, deskWindow, exiting, quit, since>>
quotaVars == <<refreshing, gap, sleep, probe, results, file, quiet, changes>>

(* One component runs; the others rest in one of their initial states.  *)
Init ==
    /\ part \in {"OneShot", "Composer", "Screen", "Wrapping", "Scan", "ScanStore",
        "Spend", "Desk", "Quota"}
    /\ OneShot!Init
    /\ part # "OneShot" => stdin.prompt /\ ~stdin.piped /\ ~wedged
    /\ Composer!Init
    /\ Screen!Init
    /\ Wrapping!Init
    /\ Scan!Init
    /\ ScanStore!Init
    /\ Spend!Init
    /\ Desk!Init
    /\ part # "Desk" => ~starting
    /\ Quota!Init
    /\ part # "Quota" => file.refresh = "manual"

OneShotStep ==
    /\ part = "OneShot" /\ OneShot!Next
    /\ UNCHANGED <<part, composerVars, screenVars, wrappingVars, scanVars, scanStoreVars,
        spendVars, deskVars, quotaVars>>
ComposerStep ==
    /\ part = "Composer" /\ Composer!Next
    /\ UNCHANGED <<part, oneShotVars, screenVars, wrappingVars, scanVars, scanStoreVars,
        spendVars, deskVars, quotaVars>>
ScreenStep ==
    /\ part = "Screen" /\ Screen!Next
    /\ UNCHANGED <<part, oneShotVars, composerVars, wrappingVars, scanVars, scanStoreVars,
        spendVars, deskVars, quotaVars>>
WrappingStep ==
    /\ part = "Wrapping" /\ Wrapping!Next
    /\ UNCHANGED <<part, oneShotVars, composerVars, screenVars, scanVars, scanStoreVars,
        spendVars, deskVars, quotaVars>>
ScanStep ==
    /\ part = "Scan" /\ Scan!Next
    /\ UNCHANGED <<part, oneShotVars, composerVars, screenVars, wrappingVars, scanStoreVars,
        spendVars, deskVars, quotaVars>>
ScanStoreStep ==
    /\ part = "ScanStore" /\ ScanStore!Next
    /\ UNCHANGED <<part, oneShotVars, composerVars, screenVars, wrappingVars, scanVars,
        spendVars, deskVars, quotaVars>>
SpendStep ==
    /\ part = "Spend" /\ Spend!Next
    /\ UNCHANGED <<part, oneShotVars, composerVars, screenVars, wrappingVars, scanVars,
        scanStoreVars, deskVars, quotaVars>>
DeskStep ==
    /\ part = "Desk" /\ Desk!Next
    /\ UNCHANGED <<part, oneShotVars, composerVars, screenVars, wrappingVars, scanVars,
        scanStoreVars, spendVars, quotaVars>>
QuotaStep ==
    /\ part = "Quota" /\ Quota!Next
    /\ UNCHANGED <<part, oneShotVars, composerVars, screenVars, wrappingVars, scanVars,
        scanStoreVars, spendVars, deskVars>>

Next ==
    \/ OneShotStep  \/ ComposerStep  \/ ScreenStep
    \/ WrappingStep  \/ ScanStep  \/ ScanStoreStep
    \/ SpendStep  \/ DeskStep  \/ QuotaStep

vars == <<part, oneShotVars, composerVars, screenVars, wrappingVars, scanVars,
            scanStoreVars, spendVars, deskVars, quotaVars>>

(* The three components that state fairness: the tasks of the one-shot      *)
(* command are polled and its deadlines fire, the quota panel's loop and    *)
(* its worker run and time passes, the desktop's relay, its webview and its *)
(* timer run.  Only one of them is ever running, so the fairness of a       *)
(* disjunction is that of each.                                             *)
Loops ==
    \/ /\ part = "OneShot" /\ OneShot!Looping
       /\ UNCHANGED <<part, composerVars, screenVars, wrappingVars, scanVars,
           scanStoreVars, spendVars, deskVars, quotaVars>>
    \/ /\ part = "Quota" /\ Quota!LoopPass
       /\ UNCHANGED <<part, oneShotVars, composerVars, screenVars, wrappingVars, scanVars,
           scanStoreVars, spendVars, deskVars>>
    \/ /\ part = "Desk" /\ Desk!Relay
       /\ UNCHANGED <<part, oneShotVars, composerVars, screenVars, wrappingVars, scanVars,
           scanStoreVars, spendVars, quotaVars>>
Workers ==
    \/ /\ part = "OneShot" /\ OneShot!Watching
       /\ UNCHANGED <<part, composerVars, screenVars, wrappingVars, scanVars,
           scanStoreVars, spendVars, deskVars, quotaVars>>
    \/ /\ part = "Quota" /\ Quota!Work
       /\ UNCHANGED <<part, oneShotVars, composerVars, screenVars, wrappingVars, scanVars,
           scanStoreVars, spendVars, deskVars>>
    \/ /\ part = "Desk" /\ Desk!Reading
       /\ UNCHANGED <<part, oneShotVars, composerVars, screenVars, wrappingVars, scanVars,
           scanStoreVars, spendVars, quotaVars>>
Clocks ==
    \/ /\ part = "OneShot" /\ OneShot!Deadline
       /\ UNCHANGED <<part, composerVars, screenVars, wrappingVars, scanVars,
           scanStoreVars, spendVars, deskVars, quotaVars>>
    \/ /\ part = "Quota" /\ Quota!Tick
       /\ UNCHANGED <<part, oneShotVars, composerVars, screenVars, wrappingVars, scanVars,
           scanStoreVars, spendVars, deskVars>>
    \/ /\ part = "Desk" /\ Desk!Fallback
       /\ UNCHANGED <<part, oneShotVars, composerVars, screenVars, wrappingVars, scanVars,
           scanStoreVars, spendVars, quotaVars>>
Fairness == WF_vars(Loops) /\ WF_vars(Workers) /\ WF_vars(Clocks)
Spec == Init /\ [][Next]_vars /\ Fairness

-----------------------------------------------------------------------------
(* Every component keeps the types of its own state. *)
TypeOK ==
    /\ part = "OneShot" => OneShot!TypeOK
    /\ part = "Composer" => Composer!TypeOK
    /\ part = "Screen" => Screen!TypeOK
    /\ part = "Wrapping" => Wrapping!TypeOK
    /\ part = "Scan" => Scan!TypeOK
    /\ part = "ScanStore" => ScanStore!TypeOK
    /\ part = "Spend" => Spend!TypeOK
    /\ part = "Desk" => Desk!TypeOK
    /\ part = "Quota" => Quota!TypeOK

(* What is typed and answered is on the screen: the caret is where the     *)
(* next character goes, the chosen entry of a list is shown, an answer is  *)
(* printed once and whole whatever its deltas and retries, no character is *)
(* lost to wrapping, exit code zero means the turn was done and every      *)
(* event of it given to the renderer, and the desktop ends over no work    *)
(* but what began after its guard had looked for it.                       *)
ScreenIsTrue ==
    /\ part = "Composer" => Composer!CaretIsWhereTypingGoes /\ Composer!SelectionIsShown
    /\ part = "Screen" => Screen!ShownOnce
    /\ part = "Wrapping" => Wrapping!ProseIsWhole /\ Wrapping!NothingMoves
    /\ part = "OneShot" => OneShot!ZeroMeansDone
    /\ part = "Desk" => Desk!NothingIsAbandoned

(* The cost panel adds up: a call is billed once however logs are read and *)
(* split among workers, rivals of one database are not both counted, every *)
(* grouping sums to the same total, what has no price is said to have      *)
(* none, streaks are those of the calendar, a cache that one process wrote *)
(* holds a whole scan, and a burst of triggers probes the quota once.      *)
FiguresAreHonest ==
    /\ part = "Scan" => Scan!BilledOnce /\ Scan!PartitionIsInvisible /\ Scan!SchemasAreRivals
    /\ part = "Spend" => Spend!CostIsHonest /\ Spend!GroupsAddUp /\ Spend!CalendarIsRead
    /\ part = "ScanStore" => ScanStore!AloneSavesWhole
    /\ part = "Quota" => Quota!BurstsAreOneProbe

(* Walking through the history and back returns the draft, the caret keeps *)
(* its column from line to line, and the figures on show never go back to  *)
(* those of an earlier scan.                                               *)
StepsKeep ==
    /\ Composer!DraftComesBack /\ Composer!LinesKeepTheirColumn
    /\ ScanStore!FiguresNeverGoBack

(* An interrupt that was picked up ends the command, also when its turn is *)
(* wedged, a provider that is switched off leaves the panel unless the     *)
(* panel's worker has died or none can ask, and a desktop window whose     *)
(* session rests comes to show it as it is.                                *)
WorkEnds ==
    /\ OneShot!PickedUpEnds
    /\ Quota!SwitchedOffLeaves
    /\ Desk!ShownInTheEnd
=============================================================================
