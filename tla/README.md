# axio: specifications, model checking and proofs

axio is a coding agent: a loop that asks a model what to do, runs the tools it
asks for under a permission policy, records everything in an append-only file,
and can be supervised many at a time, each in a git worktree of its own. This
directory holds TLA+ modules for the parts of it where order, concurrency and
failure decide whether it is right, the TLC configurations that check them on
small instances, and TLAPS proofs of the results that hold for every instance.

All paths below are relative to `src/crates/`. Code under `#[cfg(test)]` was read
as evidence of what is promised and is not modelled.

## 1. Inventory

| Component | Source | State it keeps | Operations | What is hard | What makes it correct |
|---|---|---|---|---|---|
| Agent loop | `axio-core/src/agent/turn.rs`, `dispatch.rs`, `session.rs` | transcript, statuses of calls, refusals of the turn, plans of the batch | `run_turn`, `dispatch`, `set_status`, `resolve_pending` | reads run beside the loop, cancellation at any await, panics, crashes between two records | every call gets one answer, before the next request; nothing refused runs; effects follow call order; one `TurnEnded` |
| Sampling | `agent/sample.rs` | the buffered answer, open blocks, backoff | `sample`, `stream_once`, `force_compact` | a stream that breaks off after it was partly shown; cancel against answer | only whole answers are kept; attempts are bounded; it returns |
| Session records | `record/mod.rs`, `load.rs`, `axio/src/sessions.rs` | the file, the dirty flag | `create`, `append`, `reopen`, `load` | a write that stops anywhere in a line, kill between two writes, resume of a torn file | a record that was written can be read; a gap is never silent; the fold gives the history |
| Policy | `policy.rs`, `approver.rs` | rules, grants | `evaluate`, `grant` | the order of the rules; grants after refusals | denies always win |
| Compaction | `compact.rs` | elisions | `plan`, `force`, `apply` | re-planned at every step | no call loses its result; a force gains something |
| Wire projection | `session.rs` | – | `wire_messages` | merging results and steps | each `tool_use` followed by its `tool_result` |
| Tools | `axio-tools` | child processes, output caps | `plan`, `run` | timeouts, process groups | a cancelled tool leaves nothing running |
| Supervisor | `axio-supervisor/src/supervisor.rs` | live map, index, queue | `start`, `close`, `drop` | callers interleave at every await | the task ends before its worktree is touched |
| Session task | `axio-supervisor/src/session.rs` | channel, token of the turn | `turn`, `cancel`, `close` | the token is replaced by every turn | a close ends the turn and returns |
| Approval queue | `axio-supervisor/src/approval.rs` | open questions, closed flag | `register`, `resolve`, `close_session`, `shutdown` | registering races shutting down | nobody waits for an answer that cannot come |
| Index, worktrees | `index.rs`, `worktree.rs` | one line per fact; a directory and a branch | `record_*`, `open`; `worktree`, `close` | crashes between git and the index; a count that fails; a HEAD off its branch; names that are free again | work is findable; discarding deletes no commit it counted |
| Desktop app | `axio-app` | transcripts, hosted terminals, journal | `apply`; `resume`, `stop`, hooks | stop, resume and exit of one process race | one process per row; a journal that says what the rows are |
| Desktop window | `shell.rs`, `state/`, `commands/`, `ui/src/App.tsx` | what it shows, reads under way | the relay, `snapshot`, the guard in front of closing | wakes, reads and turns overlap | what rests is shown; nothing that runs is abandoned unasked |
| Pseudo-terminals | `axio-pty` | ring buffer, state, subscribers | `write`, `kill`, attach | the watcher races `kill` | a subscriber sees a suffix without holes |
| Providers, sign-in | `axio-provider`, `axio-core/src/auth.rs` | decoder state, tokens | decode, refresh | chunk boundaries; two refreshes | same blocks however the bytes are cut |
| Quota, cost | `axio-quota`, `axio-cost` | schedule, readings, totals | probe, record, scan | one worker under four triggers; partial files read twice | a figure is that of its window, each message counted once |
| Surfaces | `axio` | – | render, interrupt | the second interrupt | presentation |

How they interact: the loop calls sampling and the tools, appends to the record
file in the same step in which it changes the transcript, and awaits the approver.
Under a supervisor the approver is the shared queue; the session's task awaits
`run_turn`; handles reach the task through a bounded channel and the running turn
through a shared token. Surfaces see an unbounded stream of events and never
block the loop. The index and the worktrees are all that outlives the process
besides the session files.

`PROJECT.json` lists, under `hazards`, each point of the code where this is hard to
test, with the property that watches it or the reason why none does.

## 2. Modules

Every component is a module with its own `CONSTANTS`, `Init`, one action per
operation, and properties. The four that make up the core of the agent have an MC
module and a run each:

| Module | Models | Checked by |
|---|---|---|
| `TurnLoop` | one agent: turns, batches, policy verdicts, records, crash and resume | `MCTurnLoop`, `TurnLoopProofs` |
| `TurnContract` | the abstract promise of a turn: issue, answer once, end when all are answered, fail and recover | instantiated by `TurnLoop` (`Contract`) |
| `TurnLoopProofs`, `SamplingProofs`, `SessionFileProofs`, `SupervisorProofs` | the theorems about the module of that name | – |
| `HostParts` | the ten parts of the desktop host that are proved about (`Remembered`, `Connect`, `Landing`, `Hosted`, `Index`, `AppServer`, `Groups`, `Rollouts`, `Terminal`, `Config`) side by side, and the theorems about them; `MCDesktop` extends it. Those of `Auth` are in `Auth`, those of `Permission`, `Tools`, `Launch` and `Tui` in `MCAgentParts`, each after the instance it is about | – |
| `Sampling` | `sample()`, `stream_once()`, what `run_turn` does with the answer, and a surface's transcript | `Sampling` |
| `SessionFile` | the file as lines and pieces of records, writers that fail and die, `load()` | `SessionFile` |
| `Supervisor` | starting, the session task, the queue, `close()`, drop, crash, the index and worktrees | `Supervisor` |

The others are smaller and share no state with each other. Three modules put them
side by side, so that one run of TLC goes through all of a kind: `part` names the
component a behaviour runs, the others rest in one of their initial states.
`X!P` below is property `P` of module `X`; a property of the run is the
conjunction of those of its components, each under `part = "X"`. In `MCDesktop`
`RecordsAreKept` is what the host wrote down (of `Index`, `Hosted`, `Landing`, `Connect` and
`Remembered`), `NobodyIsForgotten` what waits (`AppServer`, `Groups`), `ViewsAreTrue` what is
read or shown (the others, and `Index!DamageIsLocal`, `Config!EditKeepsTheRest`,
`History!TailCostsOne`), and `NothingIsTakenBack` the action properties (`Terminal`, `Rollouts`,
`Config`).

`MCAgentParts`, what a turn is made of:

| Module | Models | Properties in the run |
|---|---|---|
| `Projection` | `session.rs` `wire_messages`, the two other dialects' conversion of it, `compact.rs`; a session between prompts, steps, overflows, model switches and resumes | `ToolPairsHold`, `ResponsesPairsHold`, `QuestionSurvives` |
| `Framing` | `sse.rs`: bytes in chunks become frames | `ChunkingIsInvisible` (against the frames of the whole body) |
| `Decoders` | `body.rs`, `client.rs`, the three dialects' streams: one request from connect to its end | `BlocksAreWhole`, `AnswerArrivesWhole` |
| `Auth` | `auth.rs`, the Codex provider's tokens, the sign-in callback: processes that save, forget, renew and die between two system calls | `RenewsOnlyExpired`, `AloneIsAtomic` |
| `Permission` | `policy.rs`, `approver.rs`, `workspace.rs`, bash's `subject_for`: the glob matcher step by step, evaluation, confinement over trees with links | `OnlyWhatIsCovered`, `StaysInside` |
| `Tools` | `bash.rs`, `proc.rs`, `search.rs`, `read.rs`, `truncate.rs`: process group against cancel and timeout, capping, spilling | `NoOrphans`, `CutsAreAccounted` |
| `Launch` | `lib.rs`, `provider.rs`, `sandbox.rs`, `sessions.rs`, `factory.rs`: from flags to an agent | `ReasoningGoesHome`, `TerminalIsTold` |
| `Tui` | `tui/`: one loop over a turn's questions and end, a sign-in, listed models and the keyboard | `QuestionIsOnScreen`, `SavedWorks`, `LeavingIsTold` |

`MCDesktop`, the desktop host:

| Module | Models | Properties in the run |
|---|---|---|
| `Index` | `index.rs`, `names.rs`, the start of a session: one append-only file and several processes, writes that stop half way, discards that free a name | `DamageIsLocal`, `NeverShared` |
| `Landing` | `worktree.rs`, `state/landing.rs`: checkpoints, merge, push, discard, with the agent, who may check out something else, and a person at work between two git commands, any of which may fail | `MergedIsLanded`, `CommittedIsKept` |
| `Hosted` | `hosted/lifecycle.rs`, `journal.rs`, `structured.rs`: rows, processes, windows; start, stop, resume, forget as tasks that let go of the lock; a journal that may not be read or written | `JournalFollows`, `LostOnlyToARace` |
| `Groups` | `state/groups.rs`, `state/hosted.rs`: members started one after another by commands side by side | `AskedOnce`, `NumbersTellApart`, `FailureStopsTheRest` |
| `Terminal` | `axio-pty/src/session.rs`, `buffer.rs`, `typing.rs`: pump, watcher, relay, window, ring | `NothingTwice`, `StoppedStaysEnded` |
| `AppServer` | `hosted/appserver.rs`: requests, the reader, questions and decisions | `QuestionsAreAnswered`, `NoneWaitsForTheGone` |
| `Transcripts` | `transcript.rs` with the record file and the event stream it is fed from | `RowsAgree` |
| `Rollouts` | `hosted/agent.rs` and its folds: another tool's file, read while it grows | `ResultsOnTheirCalls`, `ReadsOn` |
| `Reports` | `hooks.rs`, `hosted/agent.rs`: what a tool says of itself over hooks, its output and its window | `StatusIsTrue`, `ResumesWhatRanHere` |
| `Config` | `config/`: four layers, salvage, and the line edit of two programs | `EditKeepsTheRest`, `SalvageIsLocal` |
| `Connect` | the quota panel's settings file under a page, a capture and an accident | `NothingIsForgotten`, `OnlyASessionIsCaptured` |
| `Signals` | `osc.rs` | `BellsAreFound` (against the sequences of the whole output) |
| `History` | `axio-quota/src/history.rs`: appends, compactions, and writes that end early, inside a character too, with or without the process | `TailCostsOne`, `DrawnOnce` |
| `Readings` | the refresh worker of `app/state.rs` with two of the probes it makes: `opencode/` (lookup, second try, figures lifted out of a text) and `claude/` (one window in three shapes) | `FiguresAreOwn`, `OneRowPerWindow` |
| `Remembered` | `window_state.rs` and its use in `App.tsx`: tabs held back until a snapshot, saves that overlap, windows that die | `TabsAreKept` |

`MCSurfaces`, the surfaces and side panels:

| Module | Models | Properties in the run |
|---|---|---|
| `OneShot` | `surface.rs`, `surfaces/mod.rs`: one turn, its events and those that cannot be written, signals, the exit code | `ZeroMeansDone`, `PickedUpEnds` (liveness) |
| `Composer` | `composer.rs`, `picker.rs`, the slash menu | `CaretIsWhereTypingGoes`, `SelectionIsShown`, `DraftComesBack`, `LinesKeepTheirColumn` |
| `Screen` | `tui/events.rs`, `markdown/`, `render.rs`: deltas, retries, tables that are held back | `ShownOnce` |
| `Wrapping` | `wrap.rs`, `scrollback.rs`, `table.rs` | `ProseIsWhole`, `NothingMoves` |
| `Scan` | `axio-cost` sources and ledger: five ways of keeping a log, a pool of workers, the merge | `BilledOnce`, `PartitionIsInvisible`, `SchemasAreRivals` |
| `ScanStore` | `store.rs` and its two users: one cache file, one temporary name | `AloneSavesWhole`, `FiguresNeverGoBack` |
| `Spend` | prices, totals, groups, streaks | `CostIsHonest`, `GroupsAddUp`, `CalendarIsRead` |
| `Quota` | `app/state.rs`, `schedule.rs`: four triggers, one worker that may find no runtime or panic, pacing | `BurstsAreOneProbe`, `SwitchedOffLeaves` (liveness) |
| `Desk` | `shell.rs`, `state/`, `commands/`, `App.tsx`, `session.rs`: a session's turns, the relay, overlapping reads of the window, hosted starts (the launch's own among them), closing, and the exit the guard lets through | `NothingIsAbandoned`, `ShownInTheEnd` (liveness) |

How the small modules abstract: text is a sequence of a handful of characters (a wide
one, a line end, an escape, one that is damaged); a command or a path is a
sequence of tokens; time is counted down to the next timer that runs out; a git
repository is which commits which reference holds; a JSON line is what its reader
tells apart. History variables (what was asked, what was acknowledged, what raced)
are named as such where they are declared. An operator that stands in front of the one it varies, and is used nowhere,
is a mutant of it: it belongs to no behaviour.

### TurnLoop

`pc` is where `run_turn` is; each of its awaits and each record it writes is a
boundary between two actions, because cancellation, a panic or a crash can fall
there. `StartTurn`, `BeginStep`, `StepLimit`, `Sample*`, `AppendCall`, `Appended` and
`EndTurn` are turn.rs in order. `PlanCall` is one iteration of phase one of
`dispatch`, with a disjunct for every way a call can be decided: unplannable,
refused again, allowed, denied, asked. `Approve`, `ApproveSession` and `DenyCall`
resolve the question. `TakeAnswered`, `SpawnRead`, `StartSerial`, `FinishSerial`,
`FinishTask` and `Executed` are phase two, where spawned reads finish at any time
and in any order. `Settle` and `ResolvePending` write the answers in call order.
`SerialPanic`, `Crash` and `Resume` end the process or the task, and load what was
recorded.

A call is a number in the order of the model's messages; a request is a kind and a
file; policy rules are sets of subjects. An edit's plan is the set of edits its
file held when it was planned (`base`) and its effect is that set and itself, which
is what writing a whole precomputed file does. The items of the transcript are
users' messages, calls and Interrupted markers; text and reasoning carry no
state the properties need. `TurnPhase`, `UnfinishedCalls`, `Answered` and `Abandoned`
are the refinement mapping to `TurnContract`.

### Sampling

An attempt connects, streams blocks and ends, breaks off, or is cancelled at any
of its awaits. Item ids are numbers never used twice. The attempt has an id of
its own (`item`), as in the code, and each block another. `surface` is what
`Transcript::apply` (axio-app) makes of the events. `lost` is a history variable.
That a decoder numbers and ends blocks as `Numbered` and `BlockEnd` say is assumed
of the provider crates; it is the one external definition of the module.

### SessionFile

A line is a sequence of pieces: a whole record, a torn part, or a part cut inside
a character. A write stops at one of six points (`Stops`) and the file keeps what
came before; that covers failed writes and kills alike. `load()` is a set of
operators over the file: which lines it reads, which are bad, which of those are
holes, the fold by id, and the repair of orphans. `acked` and `seams` are history:
the items whose write was reported to have worked, and the first record after a
supervised resume.

### Supervisor

What a method does under one lock is a step; what it does after the next await is
another. `start()` is five steps, the session task and its channel are `Receive*`,
`Ask`/`Register` split `register()` between the look at the flag and the insert,
`close()` runs in nine steps per caller and by three routes (the live handle, the
index, another process), and `Drop` in three. `Commit`, `Switch` and `DeleteByHand` are what
an agent and a person do to a worktree: `commits` says of the session's branch and of
whatever else may be checked out whether it has some that are nowhere else, and `head`
which of the two the worktree is on. A discard counts those of HEAD, or fails to
count and goes on with none (`worktree.rs:306`); then it deletes the branch. A turn here works, asks and ends; that it
ends is what `TurnLoop!TurnEnds` and `CancelEndsTurn` establish.

Left out here: `rename` and `label` (`Index` has them), checkpoints (`Landing` has
them), and `StartOptions::resume`, which no surface sets.

## 3. Runs

| Run | States | Shows |
|---|---|---|
| `turn_loop` | 735 thousand | eleven properties of the loop, the refinement and liveness among them |
| `turn_loop_stale` | – | finding: two edits of one file in a batch, both previewed against the same contents |
| `sampling` | 355 thousand | whole answers, shown under their ids; `sample()` returns |
| `session_file` | 215 thousand | written items stand alone, gaps degrade the load, losses are noticed, order and answers survive |
| `session_file_cut` | – | finding: a line that is not UTF-8 silently ends the load |
| `supervisor` | 341 thousand | joining before tidying, discards that lose nothing they counted, findable work, no turn parked after a drop, closes that return |
| `supervisor_race` | – | finding: a second `close()` removes the worktree under the running turn |
| `agent_parts` | 724 thousand | requests stand alone, answers arrive whole, calls are held, credentials and records are kept or their loss is told, the person is in charge |
| `desktop` | 1 264 thousand | records are kept, nobody is forgotten, views are true, nothing is taken back |
| `surfaces` | 256 thousand | the screen is true, zero is of a turn that completed, figures are honest, steps keep what they walk over, work ends |
| `signals_ends` | – | finding: a notice ended by ST is read on to the next BEL |
| `connect_damage` | – | finding: a save over a damaged settings file loses every other key |

The five finding runs each check one property that states what a comment or a
document says, and TLC finds it violated by what the code does; `PROJECT.json`
quotes the lines. Every property of the passing runs is paired with mutants, each
an operator defined in front of the one it replaces, which break it: at least one
for every property, and for the properties of the three joint runs one or more
for nearly every component they speak of.

**What each property is for.** Above each definition a comment states it and quotes
the code's promise. The ones a reviewer should look at first: `AnsweredBeforeRequest`
and `RecordedAnswerIsFinal` (one answer per call, across crashes), `RefusedNeverRuns`
(stated over the effects on files, in this process and the next),
`NotAskedAgain` (over several batches, with grants in between),
`EditsLoseOnlyTheirBatch` (the code's weaker form of no lost update; within a batch
it does lose one, see `turn_loop_stale`), `WrittenItemsStandAlone` and `LossIsNoticed`
(failures of several processes in a row), `NobodyParkedAfterDrop` and
`DiscardIsWhole` (races between three actors), `Framing!ChunkingIsInvisible` and
`Scan!PartitionIsInvisible` (an incremental or parallel computation against its
definition on the whole), `Hosted!LostOnlyToARace` (which interleavings of stop and
resume lose a process, and that nothing else does), `Permission!StaysInside`
(the walk that confines a path, against the file system's own resolution),
`History!TailCostsOne` (what a cut write may cost, over appends and compactions behind
it) and `Remembered!TabsAreKept` (when a tab that was saved may be missing, and that
it never is otherwise).

### Where the code falls short of its words

Besides the five findings, the modules state what the code or its documents say
next to the weaker property that holds and is checked. TLC refutes each of the
following on the bounds of its run; they are in no run, so that each run asks
one question. The comment above each definition names the line that says it.

| Stated as | What happens |
|---|---|
| `Sampling!PartialsDropped` | the retry's `ItemDiscarded` carries the id of the attempt, which no shown item has |
| `Supervisor!DiscardRefusesCommits` | counting commits may fail, and a failure counts as none; the worktree's HEAD is counted, and the session's branch is deleted |
| `Projection!ResultsFollowCalls` | after an interrupted call the chat-completions request puts the text of the next user message before the result |
| `Permission!StarsCoverStars` | a pattern's star that meets a literal star of the subject is taken for that character |
| `Permission!CompoundIsAsked` | a rule that allows everything covers the subject of a compound command too |
| `Tools!SpilledIsReadable` | what was cut is saved to a file that may be larger than the read tool takes |
| `Tools!CutIsSaid` | where that file cannot be written the middle is dropped with no marker |
| `Auth!NeverTruncated` | two processes that save share the temporary name: one renames the other's half |
| `Launch!ScratchIsThere`, `EverySurfaceIsTold` | a sandboxed run starts without its scratch directory; the supervisor's factory drops the notice that nothing is recorded |
| `Config!ProjectOnlyRestricts` | a project's deny list replaces the person's |
| `Config!EditStillParses` | a header with a comment behind it is not recognised, and a second one is written |
| `Tui!ModelOfItsProvider` | a provider picked while another's models are listed: the pick pairs one's model with the other |
| `Tui!AnsweredByAKey` | a listing that arrives takes the question off the screen and nobody answers it |
| `Tui!PromptsAreRun` | after a turn that panicked the composer still takes prompts |
| `Tui!SignInCanEnd` | after an interrupted turn a sign-in is given the token that turn was cancelled by |
| `History!TailKeepsTheSeries` | a cut inside a character leaves a file that is not text: it is read as empty, and compacted no more |
| `History!TailCostsItself`, `SeriesSurvives` | the first reading of the next record shares the torn line and is lost with it; a compaction that is cut loses whatever it had not written back |
| `Remembered!TabsComeBack` | the restored sizes arm the save before the first snapshot lets the tabs back: a window whose snapshot is late saves an empty list over them |
| `Remembered!FileIsWhole` | two saves write through one temporary name and may leave a mixture |
| `Readings!NoBorrowing`, `PercentIsPercent` | the bound of 400 bytes does not stop before the next window: a window without a percentage, or with one spelt otherwise, shows its neighbour's; after a null it shows the countdown; at the bound, half a number |
| `Readings!WorkerSurvives` | the bound may fall inside a character: the slice panics, the worker is gone with its flag set, and nothing is probed again |
| `Index!TornCostsOne`, `NoLitter` | a line that is not text hides every line behind it; a start that failed or was killed leaves its worktree |
| `Index!StaleEntriesAreHarmless` | `axio session close --discard` frees a name and records nothing; the old entry then names the worktree of whoever picks the name again, and a second discard of it takes that one away |
| `Landing!SaidIsLanded` | with another branch, or none, checked out, what is uncommitted is committed there, and the session's branch is merged without it |
| `Landing!DiscardLosesNothing` | a failing count reads as none; the branch is deleted uncounted while something else is checked out; a landing may commit behind the count |
| `Landing!ListedTurnsAreWhole` | a turn is offered whose first checkpoint was never taken, or was taken in an earlier life |
| `Hosted!EveryRowComesBack` | a journal that cannot be read is an empty one to the window that opens, whose first write takes the rows away |
| `Hosted!OneProcess`, `ResumedAsItWas` | two resumes at once start two processes; a structured row may come back as a terminal |
| `AppServer!OneThread` | two prompts at once open two threads |
| `Transcripts!NothingIsMissing`, `ShownInOrder` | a prompt is in the file and not in the stream; what the file adds later comes after what was streamed |
| `Terminal!CharactersSurvive`, `NothingAfterTheExit` | a character cut by a read is shown as two damaged ones; the relay may end with output still unread |
| `OneShot!ZeroMeansShown` | an event that cannot be written is logged at most (not even that when the reader of the pipe has gone), and the exit code stays 0 |
| `OneShot!TerminatedEnds`, `AllIsShown` | of two signals that arrive together the second is forgotten; what a panicking turn sent last is not printed |
| `Screen!RetryIsNotAppended`, `PipedIsTheAnswer` | the one-shot command appends the retry to what it printed; it prints nothing of an answer that came without deltas |
| `Wrapping!NothingIsClipped` | wide characters are counted as one column |
| `Quota!SwitchedOffAlwaysLeaves` | a worker that panics leaves its flag set: no probe starts any more, and a provider that was switched off stays shown |
| `Quota!ManualIsByHand`, `ShownIsEnabled` | the timer wakes a loop set to manual and it probes; a provider switched off stays shown when the refresh is refused |
| `Scan!LossIsOneAgents` | a worker that panics loses its whole share |
| `ScanStore!CacheIsAWholeScan` | two savers write into one temporary file |
| `ScanStore!MessagesKeepTheirAgent` | messages of an agent the reader does not know are booked on the one before it (with one agent known) |
| `Desk!WakesAreEnough` | the relay wakes the window before the queue has the question and before the handle rests; only the timer repairs what is shown |
| `Desk!NothingRunsAtTheEnd` | a terminal the launch brings back, a tool or a turn may start between the guard's look and the exit; the guard does not see the turn of a session that is being closed |
| `Desk!CloseAnywayEnds`, `NoPromptIsLost` | after "close anyway" the exit asks the guard again and the process stays without a window; a prompt not yet taken by the task is not counted by the guard |
| `Spend!FourLevels` | days of equal weight make the thresholds coincide |
| `Spend!UnpricedAreNotFree`, `SpellingsAgree`, `DearestIsKept` | a group with no price sorts as free; a prefix or a date keeps a spelling from its row; an offer that costs the same to read hides the dearer answer |

### Bounds, and why they are enough

- `TurnLoop`: three calls, at most two in a batch, two steps, two turns, one crash.
  Two calls in a batch meet every order and conflict between two calls; the third
  falls in a later batch or turn, which the memo of refusals, grants and the
  repair after a crash need. Deny and allow rules overlap on `env`, so that their
  order matters. Reads and edits stand for parallel and serial tools; an unknown
  tool ends like a plan that fails, which every call may do. `Unattended` is
  "ask": "allow" and "deny" behave as rules do. No symmetry: calls are ordered.
- `Sampling`: one retry, two blocks to an attempt, two requests; a failed attempt
  before and after a kept answer both occur.
- `SessionFile`: four appends (five for the finding, whose shortest trace needs them),
  three processes. A torn record, the one after it and the one after that are
  three appends; the header is the first.
- `Supervisor`: one session, two callers of `close()`, one queued message, one
  prompt, one question, one crash. Sessions share the queue, whose entries carry
  the session, and the index, keyed by it; no step of one reads another's. The
  channel holds sixteen messages in the code; with room for one a sender already
  waits. Two callers are what the interleavings of `close()` need.

- The three joint runs give each component the least that lets its cases meet; the
  comment above each `INSTANCE` says which. Two of a kind where two must race
  (processes of `Auth`, `Index`, `ScanStore`; windows and rows of `Hosted`; callers of
  `AppServer`; providers of `Tui` and `Quota`; saves of `Remembered`), one of a kind where only time matters;
  texts of up to six symbols with every place a chunk, a line or a width can cut
  them. Every action of every component fires within them.

Counters that only bound the exploration (`turns`, `crashes`, `samples`, `appends`,
`lives`, `asked`, `saves`, `switches`) are named in the CONSTANTS of each module. No run uses a state
constraint. Deadlock is not checked: an idle agent, a closed session and a spent
bound are states where the system rightly stops.

### Fairness

- `TurnLoop`: weak fairness of the loop as a whole (Tokio polls what is ready, and
  tools and requests come to an end) and of the denial that a cancelled token gives
  to an open question. No fairness for people: nobody must answer, prompt or
  interrupt, so `TurnEnds` allows a turn to wait in "asking".
- `Sampling`: weak fairness of the steps of `sample()`: the endpoint answers or
  fails, streams are finite, timers fire.
- `Supervisor`: weak fairness per session of its task, per caller of `close()`'s
  steps, and of the steps of the drop. `EndTurn` is in it because turns end, as
  above; sending, answering, asking and closing are not.
- `MCSurfaces`: `OneShot` has weak fairness of its event loop, its signal watcher
  and its deadline (three tasks of one runtime), `Quota` of its worker and its
  clock, `Desk` of the relay (a task), the webview's reads and its five-second
  timer. As only one component runs in a behaviour, weak fairness of the
  disjunction of their steps is that of each. No signal need be sent, a wedged turn
  never ends, no setting need be changed, and a session's turns need not end.
  `Quota`'s worker goes on at every step it can take, but a panic in a fetch may end it
  (`WorkerDies`), after which no fairness brings it back, as in the code; and of a
  machine on which ever more workers find no runtime nothing is promised.
- `MCAgentParts` and `MCDesktop` check safety only and assume no fairness.

## 4. Proofs

TLC checks the small instances of section 3. The theorems below hold for every menu,
policy, number of processes, sessions, callers, records and bounds that the stated
assumptions admit. Proofs about a run's own module stand in a module beside it;
those about components of a composed run stand with the composition, so that they end in
its joint property.

| Theorem | Statement |
|---|---|
| `TurnLoopProofs!TypeCorrect` | `Spec => []TypeOK` |
| `TurnLoopProofs!AllAnswered` | `Spec => []AnsweredBeforeRequest` |
| `TurnLoopProofs!AnswersAreFinal` | `Spec => RecordedAnswerIsFinal` |
| `TurnLoopProofs!LoopImplementsContract` | `Spec => ImplementsContract`: the refinement of `TurnContract` |
| `TurnLoopProofs!RefusedHasNoEffect` | `Spec => []RefusedNeverRuns` |
| `TurnLoopProofs!BatchInOrder` | `Spec => []BatchRunsInOrder` |
| `TurnLoopProofs!EditsKeepEarlierWork` | `Spec => EditsLoseOnlyTheirBatch` |
| `TurnLoopProofs!NobodyAskedTwice` | `Spec => []NotAskedAgain` |
| `TurnLoopProofs!RecordsNeverBehind` | `Spec => []RecordsLead` |
| `SamplingProofs!SamplingTypes`, `SessionIsShown` | `Spec => []TypeOK`, `Spec => []TranscriptIsShown` |
| `SessionFileProofs!ItemsStandAlone`, `LossesAreNoticed` | `Spec => []WrittenItemsStandAlone`, `Spec => []LossIsNoticed` |
| `SessionFileProofs!SessionFileTypes`, `HistoryComesBack` | `Spec => []TypeOK`, `Spec => []HistoryIsRead`: what is resumed is the history, for files of any length |
| `SupervisorProofs!SupervisorTypes` | `Spec => []TypeOK` |
| `SupervisorProofs!TaskIsJoined` | `Spec => []JoinedBeforeTidying` |
| `SupervisorProofs!DiscardsAreWhole` | `Spec => []DiscardIsWhole`, of what was counted |
| `SupervisorProofs!WorkStaysFindable` | `Spec => []WorkIsFindable` |
| `Auth!AuthTypes`, `OneRenewalPerPair`, `SavesAloneAreAtomic` | `Spec => []TypeOK`, `[]RenewsOnlyExpired`, `[]AloneIsAtomic` |
| `MCAgentParts!NoQuestionIsHidden`, `DefaultsWork`, `LeaversAreNotKept` | `Tui!Spec => []Tui!QuestionIsOnScreen`, `[]Tui!SavedWorks`, `[]Tui!LeavingIsTold` |
| `MCAgentParts!PolicyHolds`, `NoneIsLeft` | `Permission!Spec => []Permission!OnlyWhatIsCovered`, `Tools!Spec => []Tools!NoOrphans` |
| `MCAgentParts!CredentialsAndLogs` | `Spec => []KeptOrTold`, of the composed agent parts |
| `MCAgentParts!ThePersonDecides` | `Spec => []PersonIsInCharge`, of the composed agent parts |
| `MCAgentParts!CallsStayInBounds` | `Spec => []CallsAreHeld`, of the composed agent parts |
| `HostParts!IndexHolds` | `Index!Spec => []Index!NeverShared` |
| `HostParts!HostedHolds` | `Hosted!Spec => [](Hosted!JournalFollows /\ Hosted!LostOnlyToARace)` |
| `HostParts!LandingHolds` | `Landing!Spec => [](Landing!MergedIsLanded /\ Landing!CommittedIsKept)` |
| `HostParts!ConnectHolds` | `Connect!Spec => [](Connect!NothingIsForgotten /\ Connect!OnlyASessionIsCaptured)` |
| `HostParts!RememberedHolds` | `Remembered!Spec => []Remembered!TabsAreKept` |
| `HostParts!AppServerHolds` | `AppServer!Spec => [](AppServer!QuestionsAreAnswered /\ AppServer!NoneWaitsForTheGone)` |
| `HostParts!GroupsHold` | `Groups!Spec => [](Groups!AskedOnce /\ Groups!NumbersTellApart /\ Groups!FailureStopsTheRest)` |
| `HostParts!NothingShownIsLost`, `StoppedIsNotUndone`, `SalvageStaysLocal` | `Rollouts!Spec => Rollouts!ReadsOn`, `Terminal!Spec => Terminal!StoppedStaysEnded`, `Config!Spec => Config!SalvageIsLocal` |
| `MCDesktop!HostSharesNoWorktree` | `Spec => []Index!NeverShared`, of the composed host |
| `MCDesktop!TheHostKeepsItsRecords` | `Spec => []RecordsAreKept`, of the composed host |
| `MCDesktop!NobodyIsForgottenByTheHost` | `Spec => []NobodyIsForgotten`, of the composed host |
| `MCDesktop!TheHostTakesNothingBack` | `Spec => NothingIsTakenBack`, of the composed host |

### What is assumed

- `TurnLoop`: every request of the menu has one of the known kinds
  (`MenuAssumption`); bounds are natural numbers and `Unattended` is one of its three
  settings (`BoundsAssumption`).
- `Sampling`, `SessionFile`: bounds are natural numbers.
- `Supervisor`: bounds are natural numbers, the channel has room for a message,
  sessions are not callers, and no caller is the message that asks for a turn
  (`SupervisorAssumption`).
- `Auth`: bounds are natural numbers with room for one file, and the two marks
  for "no task" are no tasks. This is the operator `Names`, a hypothesis of the
  theorems of `Auth`; `MCAgentParts` has it from `AuthBounds`, which TLC evaluates.
- `HostParts`: the bounds on questions, pieces, saves of tabs and rows are natural numbers
  (`AskBounds`, `SaveBounds`, `RowBounds`, `GroupBounds`); what a group is asked for is a list of members with
  one of the four tools, settings, and a prompt or none (`GroupBounds`).
- The two composed modules take as `CONSTANTS` what their proved components are
  parameterised by; the `.cfg` gives the values. The components nothing is proved about
  get theirs in the module. `Permission`: commands and the names the matcher is run on
  are sequences of tokens (`TokenSequences`). `Tools`, `Tui`, `Launch`, `Index`, `Landing`,
  `Connect`, `Rollouts`, `Terminal` and `Config`: nothing.

### The inductive invariants

Hardly any of the properties is inductive. What each proof adds, and why:

*Types of the loop* (`Flow`). `TypeOK` needs a few relations between `pc`, `cursor` and
the batch: a serial call is a call of the batch, the cursor is in the batch while a
question is open.

*One answer per call* (`AnswerInv`). `AnsweredBeforeRequest` says nothing while a batch
is open. `OneStatus` says what is known of a call at every `pc`: one not yet
issued has no record; an unfinished status belongs to a call of the open batch, and
only while it is being dispatched; while it is being appended, exactly the calls
before `cursor` are pending; none is finished before settling reaches it; and while the
process is up transcript and record agree, except on a call a resume has marked
cancelled, whose record stays unfinished. From this every step maps to a step of
`TurnContract` or to a stutter.

*Nothing refused runs* (`WalkInv`, `EffectInv`). `OneCall` ties a verdict and a result to
a call the walk has reached, "denied" as a result to "denied" as a verdict, and the
serial call to one that may run. `OneEffect` goes the other way, from the disk: a call
whose edit is in a file, or in the contents planned for one, was allowed, and its
record says at least that it was started. `OnePlan` says that the plan of a call that may run
differs from the file by edits of its own batch only; `EditsKeepEarlierWork` is what a step makes
of that. The planned contents have to be in the invariant because writing them
brings back edits of calls that the step is not about.

*Nobody is asked twice* (`RefusalInv`). What was refused in this turn is among the
refusals remembered, or a later call was granted for the session, which is when the code
forgets; the walk decides how far "in this turn" reaches.

*Records* (`RecordsInv`). The file and the transcript hold the same items, the
Interrupted markers apart, which only the transcript has.

*Sampling*. `TranscriptIsShown` relates a finished answer to a surface that was
fed block by block. `IdsInv` says ids are handed out in order, so that nothing shown, kept or
lost is met again; `OpenInv` where an open block stands on the surface, relative to what is
finished; `OnceInv` and `LostInv` that an id is shown once and never both lost and kept; the
last conjunct is that what is finished so far is already shown in its order.

*Session file*. Records are numbered in the order of the file (`Ordered`); one that was
acknowledged ends a line to which nobody appends any more (`Kept`); the next
record starts a line, unless it is the first of a supervised resume. `LossIsNoticed`
takes the first bad line in front of a line that is read; that there is a first one is
`WFMin` over the naturals, not an induction over the file.

*Supervisor*. Per session `OneStart` (how far the start has come against directory, branch, index
and task) and `Mail` (a Close in the channel belongs to a caller that awaits the task), per caller `OneClose`
(who took the handle keeps it alone, and tidies only once the task is gone), per worktree
`OneTree`. Quantified over sessions and callers, so that a step of one must be shown to leave those of
the others.

*Credentials*. `PairsInv` bounds what any copy of the file can hold, `LockInv` says that
whoever trades or stores a token holds the lock and the lock is held by such a task,
and `SaveInv` that, as long as no saves have overlapped, one process at a time saves, into a
temporary file that is not `auth.json`, what differs from it in one provider.

*Index* (`IndexInv`). A name is its owner's from the cut of the worktree to a discard
of it (`NamesAreOwned`), and a session is given to one start and entered only when that
is over (`OneStartEach`); so two starts that hold one name would own it both. Between pick and cut
only `Taken` protects a name, which is why the cut looks again. A discard
frees the name whether or not it is recorded, so an entry may outlive its worktree
and name another's: a session whose worktree a discard of such an entry took is in
`robbed`, one that was itself discarded in `gone` (history variables both), and the invariant speaks of the rest.

*Hosted tools* (`HostedInv`). A row that runs goes by a process that was started for it, and a
terminal's by a terminal (`RowsAreBacked`); a live process is of an open window and of a row
that was handed out. A command at a row holds the row's process or none. Two commands at one row
mark it raced (`TwoAreARace`), so that of a row that is not raced one command at most
is on its way, and what it read before it let go of the lock is still so when it comes back
(`AloneFindsItAsItWas`): this is what makes a lost process the fault of a race and of
nothing else. `JournalFollows` speaks of a window that could write its last change and read what it found: a write that
fails sets `unwritten`, the next that succeeds writes all rows and takes it back. `Fewer` says of a step what it may do to the processes: some end, none
starts or changes its row; each of the steps that does not start one is an instance.

*Landing* (`LandingInv`). While there is a worktree on its branch, what is on the branch is in it
(`BranchIsAhead`), and each step of a merge that was never off the branch goes on only with all that was asked for
(`MergeGoesOn`), whatever turns and edits fall between them; `off` remembers a merge that
was, which says it landed and may not have (`SaidIsLanded` above). From the count of a discard no turn
runs, and what was counted, of the branch or of what is checked out in its place, is elsewhere
unless a landing committed since (`CountedIsElsewhere`); `of` says which, or that git failed
and nothing was.

*The quota settings* (`ConnectInv`). While no two commands met: the file has what was given,
the page too except where it was edited or a capture is newer than it, and a capture that
has loaded the file writes over what it loaded (`NothingMet`). While every provider could be
asked, no cookie of a handshake is on file, on the page, in what a command read, or about to be
written (`AllProved`). Each is inductive without the other.

*Tabs* (`RememberedInv`). While no saves met and none overtook the tabs: one save at most is on its way,
has all the safe tabs, and goes through a temporary file that is not the file and holds what its
step says (`SaveIsAlone`); what is safe is on the disk, and in the window or held back there
until the first snapshot (`SafeIsThere`). `TabsAreKept` says nothing of a window that
has read the file and seen no snapshot, which is where tabs were lost.

*Terminal*. The choice yet to prove itself is the pair the agent has; who leaves and is still
here waits for a turn.

*Launch* (`LaunchTells`). A launch puts a notice among its notices in the step in
which it loses the log or reads a hole, and the notices reach the person in its last.

*What a load returns* (`SessionFileProofs`). `ItemsAfter` folds the lines of a file of any
length. That its items are in step with their ids, and that a line that adds or replaces
one changes no other, is carried from line to line by taking the first line after which it fails
(`FirstOf`: a least counterexample over the naturals), which needs no induction with
an operator as its parameter. `HistoryIsRead` then relates the fold to what was
acknowledged.

*App server* (`QuestionsInv`). While the tool lives, `OnePlace` counts the places of a
question: in a line nobody has read, on the list, in a decision on its way, and in the answers
the tool has had. The four always add up to one, which is stronger than
`QuestionsAreAnswered` and is what a step that moves a question from one place to the next
preserves. The list is a sequence from which one decision is taken out by position;
`Removal` and `OneAppended` say what that does to its members. A command that waits is on the
reader's list, or asked when the list was already closed and is woken at once.

*Groups* (`GroupsInv`). The rows of a command are its first members, one each
(`OneRowEach`); what each of them has been given of the prompt follows from the step its command is
at (`ToldOfPrompt`); a checkout nothing works in belongs to the member the command
is at (`CutFor`). The row that is the `n`-th of its tool has a number of at most `n`, so among
the first `n + 1` numbers one is free: the code's search for the lowest free number
always ends, and with a number of its own.

*Rollouts* (`ViewInv`). What is shown grew into what the file folds into now (`Grows`: the old
rows in their places, with their names, and only a call's row changed). That one
block more is one step more of the fold (`FoldsOne`) is shown by two readings agreeing as far
as their blocks do, again with a least place where they do not; that a step of either fold
makes rows grow is shown for every accumulator of the right shape, so it needs no
account of how the rows came about. The next reading then shows something the last one
grew into, over any number of lines.

*Settings*. `SalvageIsLocal` speaks of one step, a load, and needs no invariant. The four
layers are laid over the defaults one after another in the code; `ResolvedIs` takes one key
through them, and `UserSays` and `ProjectSays` say when a file of either kind reaches it.

*The matcher* (`GlobInv`). `Covers` is the definition the matcher is held against: for each
place of the pattern the places of the subject from which the rest matches the rest.
The code keeps two pointers, the last star and where it resumed. `Looking` relates the two:
the whole is covered exactly if the rest at the last star is, whatever the star
could still stand for beyond what has been passed is still ahead, and what is found at the
pointers is found from the star too. When a token does not fit, no shorter run would have done
(`StuckIs`, `StarMore`), so that going back to the last star only, and never to one before it,
finds every match. This needs the rows of the table and no induction over the pattern,
except that the end of the subject is covered by stars alone (`EndIs`, a least
counterexample). A subject with a star of its own is excluded: there the
code does something else (`StarsCoverStars` in section 3).

*The policy* (`Verdicts`). What is allowed or being asked about was looked at when it was planned: no
built-in list names it, and no deny rule covers it; rules do not change after the first
call. That a subject names the only program a simple command starts is a fact
about `subject_for` (`OneProgram`), for any command.

*Composition*. A step of `MCAgentParts` or `MCDesktop` is a step of one component or leaves
its variables alone, so a behaviour of the whole, seen through the variables of a component,
is a behaviour of that component (`AuthRuns`, `TuiRuns`, `LaunchRuns`, `PermissionRuns`, `ToolsRuns`, `IndexRuns`,
`HostedRuns`, `LandingRuns`, `ConnectRuns`, `RememberedRuns`, `AppServerRuns`, `GroupsRuns`, `TerminalRuns`, `RolloutsRuns`, `ConfigRuns`). What is proved of the component then holds of the whole,
whichever component runs.

### What stays with TLC

- Every liveness property (`CancelEndsTurn`, `TurnEnds`, `SampleReturns`,
  `NobodyParkedAfterDrop`, `CancelledCloseReturns`, `PickedUpEnds`, `SwitchedOffLeaves`,
  `ShownInTheEnd`): ENABLED and fairness are outside the prover's reach.
- `RequestsStandAlone` and `AnswersArriveWhole` of `MCAgentParts`,
  `ViewsAreTrue` of `MCDesktop`, and all of `MCSurfaces`. Most
  of their parts (`Framing`, `Projection`, `Decoders`, `Transcripts`, `Scan`, `Spend`, `Wrapping`)
  compare two folds over a text of any length; each fold would need the argument by least
  counterexample made for `ItemsAfter` and for the rollouts, and has not had it.
  `Index!DamageIsLocal`, `Config!EditKeepsTheRest` and `History!TailCostsOne`, the parts of
  `ViewsAreTrue` that are about files, select from a sequence or count its members (`SelectSeq`,
  `Cardinality` of what is left): facts about these for sequences of any length need an
  induction over the sequence.
- `TypeOK` of the three composed modules is proved for no component but `Auth`.

## 5. Plan

What is left is proofs, most important first:

1. `Desk!NothingIsAbandoned` and `Quota!BurstsAreOneProbe`, safety of two components whose
   liveness is checked.
2. `Transcripts!RowsAgree` and `History!DrawnOnce`, by the argument made for the rollouts.

## 6. Not modelled

Themes, colours, layout and wording carry no protocol, nor does the parsing of
command-line flags. Of the providers' quota answers the two that need
interpretation are in `Readings`; the others are JSON with fixed fields, and they
and the price feed are taken as answers that arrive or do not. Of the cost scan's log formats five stand for
all, one for each way of keeping a log. Searching text inside a transcript, the
updater, the calls that only move windows, the desktop's badge and notifications, and the pruning of old session files are
left out: each is a single pass over what it is given. A save of the quota settings is one step in `Quota`, which reads them only; `Connect` has
its steps. The components with
an operation among these are `partly` in `PROJECT.json`.

The data race question does not arise: the code is safe Rust, and shared state is
behind locks that are never held across an await.

Hazards seen while reading that no property covers, beside those listed in
`PROJECT.json`: the Interrupted marker is put in the transcript and not in the
record (`agent/turn.rs:42`); a serial tool that panics takes the turn with it
(`dispatch.rs:196`), and serial calls of a batch still start after a cancel (`:192`);
`reopen()` takes the file to end in a newline (`record/mod.rs:174`); `close()` between
the index entry and the live map (`supervisor.rs:230`); a later Keep overwrites a
discard (`index.rs:242`); the queue shows the question of a cancelled turn
(`approval.rs:59`); a forced compaction is planned away by the next step
(`compact.rs:224`); `cancel()` reaches the previous turn's token, so a turn queued
ahead of a Close runs uncancelled (`axio-supervisor/src/session.rs:91`). The models let these happen; what is missing is a promise of the
code to hold them against.

## 7. Running

    tlc -workers 2 -config MCTurnLoop.cfg MCTurnLoop.tla
    tlapm TurnLoopProofs.tla

Each `.cfg` belongs to the module whose name it begins with.
