------------------------------ MODULE TurnLoop ------------------------------
(***************************************************************************)
(* One axio agent: run_turn (axio-core/src/agent/turn.rs), the two-phase   *)
(* dispatch of a batch of tool calls (agent/dispatch.rs), the transcript   *)
(* they fill (session.rs), the records they append (record/mod.rs) and the *)
(* session a later process loads from those records (record/load.rs).      *)
(*                                                                         *)
(* A request to the model is abstracted to the ways sample() returns; its  *)
(* retries and its stream are modelled in Sampling.  Tools are abstracted  *)
(* to a kind (is it parallel-safe, does it change a file), a subject and   *)
(* the outcomes run() may have.  Policy rules are sets of subjects.        *)
(***************************************************************************)
EXTENDS Naturals, Sequences, FiniteSets

CONSTANTS
    Menu,         \* what one tool_use may ask for: records [kind, file]
    DenyRules,    \* subjects the built-in or the user's deny rules match
    AllowRules,   \* subjects the user's allow rules match
    Unattended,   \* "ask": a person can answer; else the unattended verdict
    MaxCalls,     \* bound: tool calls over the whole behaviour
    MaxBatch,     \* bound: tool calls in one assistant message
    MaxSteps,     \* RuntimeConfig::max_steps
    MaxTurns,     \* bound: turns over the whole behaviour
    MaxCrashes    \* bound: process deaths

Kinds == {"unknown", "read", "edit", "bash"}

ASSUME MenuAssumption == \A r \in Menu : r.kind \in Kinds
ASSUME BoundsAssumption ==
    /\ {MaxCalls, MaxBatch, MaxSteps, MaxTurns, MaxCrashes} \subseteq Nat
    /\ Unattended \in {"ask", "allow", "deny"}

VARIABLES
    pc,          \* where run_turn is
    cancelled,   \* the turn's CancellationToken
    steps,       \* steps taken by this turn
    turns,       \* turns started so far (bound)
    crashes,     \* process deaths so far (bound)
    outcome,     \* why the turn is ending
    balance,     \* TurnStarted minus TurnEnded events of this process
    transcript,  \* Session::transcript: items in order
    asked,       \* call id -> what the model asked for
    status,      \* call id -> ToolStatus in the transcript
    issued,      \* calls 1..issued were sampled and are in, or next for, the transcript
    low,         \* first call of the current batch
    cursor,      \* the call the current phase is at
    verdict,     \* call id -> what phase one planned for it
    base,        \* call id -> contents of its file when it was planned
    denied,      \* Agent::denied_this_turn
    grants,      \* Policy::session_grants
    serial,      \* the serial call now running, 0 for none
    tasks,       \* parallel-safe calls spawned and not joined
    results,     \* call id -> result waiting for the end of phase two
    content,     \* file -> edits its contents carry
    disk,        \* the records, folded by id: items in first-append order
    diskStatus   \* call id -> status in its last record

agentVars == <<denied, grants, verdict, base, low, cursor, serial, tasks, results>>
sessionVars == <<transcript, asked, status, issued>>
diskVars == <<disk, diskStatus>>
turnVars == <<steps, turns, outcome, balance>>
vars == <<pc, cancelled, crashes, content, agentVars, sessionVars, diskVars, turnVars>>

-----------------------------------------------------------------------------
(* The data the loop works on. *)

CallId == 1..MaxCalls
Nothing == [kind |-> "none", file |-> "none"]
Terminal == {"ok", "failed", "denied", "cancelled"}
Unfinished == {"pending", "awaiting", "running"}
Status == Terminal \union Unfinished \union {"none"}
Verdicts == {"none", "run", "failed", "denied"}
Outcomes == {"none", "completed", "interrupted", "failed", "rejected", "steplimit"}
Phases == {"idle", "step", "sampling", "appending", "planning", "asking",
           "executing", "settling", "resolving", "ending", "down"}

UserItem == [kind |-> "user", call |-> 0]
InterruptedItem == [kind |-> "interrupted", call |-> 0]
CallItem(k) == [kind |-> "call", call |-> k]
Item == [kind : {"user", "interrupted", "call"}, call : 0..MaxCalls]

Files == {r.file : r \in Menu}
Subject(r) == <<r.kind, r.file>>
SubjectOf(k) == Subject(asked[k])

\* Faulty: a change to a file is spawned beside the reads.
ParallelSafeEdits(r) == r.kind \in {"read", "edit"}

\* Effects::parallel_safe: nothing but reads.
ParallelSafe(r) == r.kind = "read"

\* write and edit carry the whole new file in their plan.
Edits(r) == r.kind = "edit"

Batch == low..issued

\* Faulty: takes a call that was never started for an answered one.
RunningCalls == {k \in 1..issued : status[k] = "running"}

\* Faulty: takes a failure for a call that still needs an answer.
UnsuccessfulCalls == {k \in 1..issued : status[k] \in Unfinished \union {"failed"}}

\* Session::unfinished_calls.
UnfinishedCalls == {k \in 1..issued : status[k] \in Unfinished}

\* Faulty: an allow rule is looked at before the denies.
VerdictAllowFirst(r) ==
    IF Subject(r) \in AllowRules THEN "allow"
    ELSE IF Subject(r) \in DenyRules THEN "deny"
    ELSE IF ParallelSafe(r) \/ Subject(r) \in grants THEN "allow" ELSE Unattended

\* Policy::evaluate: denies, then read-only, then allow rules, then grants.
Verdict(r) ==
    IF Subject(r) \in DenyRules THEN "deny"
    ELSE IF \/ ParallelSafe(r)
            \/ Subject(r) \in AllowRules
            \/ Subject(r) \in grants
         THEN "allow"
    ELSE Unattended

\* record::load: an item without a recorded result is repaired to cancelled.
Repaired(s) == IF s \in Unfinished THEN "cancelled" ELSE s

-----------------------------------------------------------------------------
NoVerdicts == [k \in CallId |-> "none"]
NoBases == [k \in CallId |-> {}]
NoResults == [k \in CallId |-> "none"]
NoStatus == [k \in CallId |-> "none"]

Init ==
    /\ pc = "idle" /\ cancelled = FALSE /\ crashes = 0
    /\ content = [f \in Files |-> {}]
    /\ denied = {} /\ grants = {}
    /\ verdict = NoVerdicts
    /\ base = NoBases
    /\ low = 1 /\ cursor = 1 /\ serial = 0 /\ tasks = {}
    /\ results = NoResults
    /\ transcript = <<>> /\ issued = 0
    /\ asked = [k \in CallId |-> Nothing]
    /\ status = NoStatus
    /\ disk = <<>> /\ diskStatus = NoStatus
    /\ steps = 0 /\ turns = 0 /\ outcome = "none" /\ balance = 0

\* Faulty: the transcript changes and the record is not written.
SetStatusUnrecorded(k, s) ==
    /\ status' = [status EXCEPT ![k] = s]
    /\ UNCHANGED diskStatus

\* Agent::set_status: the transcript and the record change together.
SetStatus(k, s) ==
    /\ status' = [status EXCEPT ![k] = s]
    /\ diskStatus' = [diskStatus EXCEPT ![k] = s]

\* Session::push_item followed by Recorder::append_item.
AppendItem(item) ==
    /\ transcript' = Append(transcript, item)
    /\ disk' = Append(disk, item)

\* Session::push of an Interrupted item, which nothing passes to the recorder.
PushInterrupted == transcript' = Append(transcript, InterruptedItem)

End(o) == pc' = "ending" /\ outcome' = o

\* What dispatch keeps in its own frame is gone when it returns.
ForgetBatch ==
    /\ verdict' = NoVerdicts /\ base' = NoBases /\ results' = NoResults
    /\ low' = issued + 1 /\ cursor' = issued + 1

\* The process, or the task that owns the agent, is gone with its memory.
Die ==
    /\ pc' = "down"
    /\ ForgetBatch
    /\ denied' = {} /\ grants' = {} /\ serial' = 0 /\ tasks' = {}
    /\ transcript' = <<>> /\ status' = NoStatus
    /\ cancelled' = FALSE /\ steps' = 0 /\ outcome' = "none" /\ balance' = 0

-----------------------------------------------------------------------------
(* run_turn *)

StartTurn ==
    /\ pc = "idle" /\ turns < MaxTurns
    /\ turns' = turns + 1
    /\ denied' = {}
    /\ AppendItem(UserItem)
    /\ balance' = balance + 1
    /\ pc' = "step"
    /\ UNCHANGED <<cancelled, crashes, content, steps, outcome, grants, verdict, base, low, cursor, serial,
                    tasks, results, asked, status, issued, diskStatus>>

\* Faulty: one step too many.
OneMoreStep == steps <= MaxSteps

StepsLeft == steps < MaxSteps

\* The head of the loop: one more request, or the step limit.
BeginStep ==
    /\ pc = "step" /\ StepsLeft
    /\ steps' = steps + 1
    /\ pc' = "sampling"
    /\ UNCHANGED <<cancelled, crashes, content, agentVars, sessionVars, diskVars, turns,
                    outcome, balance>>

StepLimit ==
    /\ pc = "step" /\ ~StepsLeft
    /\ End("steplimit")
    /\ UNCHANGED <<cancelled, crashes, content, agentVars, sessionVars, diskVars, turns,
                    steps, balance>>

SampleCancelled ==
    /\ pc = "sampling" /\ cancelled
    /\ PushInterrupted
    /\ End("interrupted")
    /\ UNCHANGED <<cancelled, crashes, content, agentVars, asked, status, issued,
                    diskVars, turns, steps, balance>>

\* An overflow nothing can be elided for, or a fatal provider error; and, with
\* an answer that is thrown away, a spent budget or a refusal.
SampleEnds ==
    /\ pc = "sampling"
    /\ \E o \in {"failed", "rejected"} : End(o)
    /\ UNCHANGED <<cancelled, crashes, content, agentVars, sessionVars, diskVars, turns,
                    steps, balance>>

\* The answer may land as the token is cancelled: the last poll came before.
SampleAnswers ==
    /\ pc = "sampling"
    /\ \E n \in 0..MaxBatch :
         /\ issued + n <= MaxCalls
         /\ \E reqs \in [1..n -> Menu] :
              asked' = [k \in CallId |->
                           IF k \in (issued + 1)..(issued + n) THEN reqs[k - issued]
                           ELSE asked[k]]
         /\ low' = issued + 1 /\ cursor' = issued + 1
         /\ issued' = issued + n
    /\ pc' = "appending"
    /\ UNCHANGED <<cancelled, crashes, content, denied, grants, verdict, base, serial, tasks,
                    results, transcript, status, diskVars, turnVars>>

\* The whole answer is appended, one record at a time, before anything runs.
AppendCall ==
    /\ pc = "appending" /\ cursor <= issued
    /\ AppendItem(CallItem(cursor))
    /\ SetStatus(cursor, "pending")
    /\ cursor' = cursor + 1
    /\ UNCHANGED <<pc, cancelled, crashes, content, denied, grants, verdict, base, low,
                    serial, tasks, results, asked, issued, turnVars>>

Appended ==
    /\ pc = "appending" /\ cursor > issued
    /\ IF Batch = {} THEN End("completed")
       ELSE pc' = "planning" /\ UNCHANGED outcome
    /\ cursor' = low
    /\ UNCHANGED <<cancelled, crashes, content, denied, grants, verdict, base, low, serial,
                    tasks, results, sessionVars, diskVars, turns, steps, balance>>

\* TurnEnded is recorded and emitted.
EndTurn ==
    /\ pc = "ending"
    /\ balance' = balance - 1
    /\ pc' = "idle"
    /\ outcome' = "none" /\ cancelled' = FALSE /\ steps' = 0
    /\ UNCHANGED <<crashes, content, agentVars, sessionVars, diskVars, turns>>

-----------------------------------------------------------------------------
(* dispatch, phase one: plan and authorise every call, in call order *)

Decided(v) ==
    /\ verdict' = [verdict EXCEPT ![cursor] = v]
    /\ cursor' = cursor + 1
    /\ pc' = "planning"
    /\ UNCHANGED <<status, diskStatus>>

\* Faulty: the updated file is computed without what the file holds.
PlanBlind(r) == UNCHANGED base

\* tool.plan: an edit reads its file and computes the whole updated file now.
Plan(r) ==
    base' = IF Edits(r) THEN [base EXCEPT ![cursor] = content[r.file]] ELSE base

\* Faulty: a refusal is not remembered.
ForgetRefusal(r) == UNCHANGED denied

\* denied_this_turn.insert
RememberRefusal(r) == denied' = denied \union {Subject(r)}

\* No such tool, arguments its schema rejects, or a plan that fails.
Unplannable(r) == Decided("failed") /\ UNCHANGED <<base, denied, grants>>

RefusedAgain(r) ==
    /\ r.kind # "unknown" /\ Subject(r) \in denied
    /\ Plan(r)
    /\ Decided("denied") /\ UNCHANGED <<denied, grants>>

Evaluated(r, v) ==
    /\ r.kind # "unknown" /\ Subject(r) \notin denied
    /\ Plan(r)
    /\ Verdict(r) = v

Allowed(r) == Evaluated(r, "allow") /\ Decided("run") /\ UNCHANGED <<denied, grants>>

Denied(r) ==
    /\ Evaluated(r, "deny")
    /\ RememberRefusal(r)
    /\ Decided("denied") /\ UNCHANGED grants

Asks(r) ==
    /\ Evaluated(r, "ask")
    /\ SetStatus(cursor, "awaiting")
    /\ pc' = "asking"
    /\ UNCHANGED <<verdict, cursor, denied, grants>>

dispatchFrame == <<cancelled, crashes, low, transcript, asked, issued, disk, turnVars>>

\* Faulty: an allowed read runs while later calls are still being planned.
PlanCallEager ==
    /\ pc = "planning" /\ cursor <= issued
    /\ LET r == asked[cursor] IN
         \/ Unplannable(r) \/ RefusedAgain(r) \/ Allowed(r) \/ Denied(r) \/ Asks(r)
    /\ tasks' = IF verdict'[cursor] = "run" THEN tasks \union {cursor} ELSE tasks
    /\ UNCHANGED <<content, serial, results, dispatchFrame>>

PlanCall ==
    /\ pc = "planning" /\ cursor <= issued
    /\ LET r == asked[cursor] IN
         \/ Unplannable(r) \/ RefusedAgain(r) \/ Allowed(r) \/ Denied(r) \/ Asks(r)
    /\ UNCHANGED <<content, serial, tasks, results, dispatchFrame>>

\* The select is biased: a cancelled token wins over an answer.
Approve ==
    /\ pc = "asking" /\ ~cancelled
    /\ Decided("run")
    /\ UNCHANGED <<base, denied, grants, content, serial, tasks, results, dispatchFrame>>

ApproveSession ==
    /\ pc = "asking" /\ ~cancelled
    /\ grants' = grants \union {SubjectOf(cursor)}
    /\ denied' = {}
    /\ Decided("run")
    /\ UNCHANGED <<base, content, serial, tasks, results, dispatchFrame>>

\* Faulty: only the approver is waited for.
MayDenyInPerson == pc = "asking" /\ ~cancelled

MayDeny == pc = "asking"

\* A person says no, or the token is cancelled while the question is open.
DenyCall ==
    /\ MayDeny
    /\ RememberRefusal(asked[cursor])
    /\ Decided("denied")
    /\ UNCHANGED <<base, grants, content, serial, tasks, results, dispatchFrame>>

Planned ==
    /\ pc = "planning" /\ cursor > issued
    /\ pc' = "executing" /\ cursor' = low
    /\ UNCHANGED <<verdict, base, denied, grants, status, diskStatus, content, serial, tasks,
                    results, dispatchFrame>>

-----------------------------------------------------------------------------
(* dispatch, phase two: reads concurrently, everything else in call order *)

\* The walk over the plans awaits a serial call before it takes the next one.
Walking == pc = "executing" /\ cursor <= issued /\ serial = 0

executeFrame == <<verdict, base, denied, grants, dispatchFrame>>

TakeAnswered ==
    /\ Walking /\ verdict[cursor] # "run"
    /\ results' = [results EXCEPT ![cursor] = verdict[cursor]]
    /\ cursor' = cursor + 1
    /\ UNCHANGED <<pc, serial, tasks, status, diskStatus, content, executeFrame>>

SpawnRead ==
    /\ Walking /\ verdict[cursor] = "run" /\ ParallelSafe(asked[cursor])
    /\ tasks' = tasks \union {cursor}
    /\ cursor' = cursor + 1
    /\ UNCHANGED <<pc, serial, results, status, diskStatus, content, executeFrame>>

StartSerial ==
    /\ Walking /\ verdict[cursor] = "run" /\ ~ParallelSafe(asked[cursor])
    /\ SetStatus(cursor, "running")
    /\ serial' = cursor
    /\ UNCHANGED <<pc, cursor, tasks, results, content, executeFrame>>

\* Only a tool that watches its token answers "cancelled"; write and edit do not.
ToolOutcomes(k) ==
    {"ok", "failed"} \union
        (IF cancelled /\ ~Edits(asked[k]) THEN {"cancelled"} ELSE {})

\* The file an edit leaves: the contents it planned against, and its own edit.
Updated(k) == [content EXCEPT ![asked[k].file] = base[k] \union {k}]

FinishSerial ==
    /\ pc = "executing" /\ serial # 0
    /\ \E s \in ToolOutcomes(serial) :
         /\ results' = [results EXCEPT ![serial] = s]
         /\ content' = IF s = "ok" /\ Edits(asked[serial]) THEN Updated(serial) ELSE content
    /\ serial' = 0 /\ cursor' = cursor + 1
    /\ UNCHANGED <<pc, tasks, status, diskStatus, executeFrame>>

\* Nothing catches the unwinding: run_turn and its task are gone.
SerialPanic ==
    /\ pc = "executing" /\ serial # 0
    /\ Die
    /\ UNCHANGED <<crashes, content, asked, issued, diskVars, turns>>

\* A spawned read returns, or panics: a JoinError leaves the call no result.
FinishTask ==
    /\ pc = "executing"
    /\ \E k \in tasks :
         /\ tasks' = tasks \ {k}
         /\ \/ \E s \in ToolOutcomes(k) : results' = [results EXCEPT ![k] = s]
            \/ UNCHANGED results
    /\ UNCHANGED <<pc, cursor, serial, status, diskStatus, content, executeFrame>>

\* Faulty: waits for as many results as calls, and a panicked read has none.
JoinedByCount == tasks = {} /\ \A k \in Batch : results[k] # "none"

Joined == tasks = {}

Executed ==
    /\ pc = "executing" /\ cursor > issued /\ serial = 0 /\ Joined
    /\ pc' = "settling" /\ cursor' = low
    /\ UNCHANGED <<serial, tasks, results, status, diskStatus, content, executeFrame>>

\* Results reach the transcript in call order, one record at a time.
Settle ==
    /\ pc = "settling" /\ cursor <= issued
    /\ IF results[cursor] = "none" THEN UNCHANGED <<status, diskStatus>>
       ELSE SetStatus(cursor, results[cursor])
    /\ cursor' = cursor + 1
    /\ UNCHANGED <<pc, serial, tasks, results, content, executeFrame>>

Settled ==
    /\ pc = "settling" /\ cursor > issued
    /\ pc' = "resolving"
    /\ UNCHANGED <<cancelled, crashes, content, agentVars, sessionVars, diskVars, turnVars>>

\* resolve_pending: whatever has no terminal status yet is cancelled.
ResolvePending ==
    /\ pc = "resolving"
    /\ \E k \in UnfinishedCalls :
         /\ \A j \in UnfinishedCalls : k <= j
         /\ SetStatus(k, "cancelled")
    /\ UNCHANGED <<pc, cancelled, crashes, content, agentVars, transcript, asked, issued, disk, turnVars>>

\* dispatch returns, and run_turn looks at the token.
Dispatched ==
    /\ pc = "resolving" /\ UnfinishedCalls = {}
    /\ IF cancelled THEN PushInterrupted /\ End("interrupted")
       ELSE pc' = "step" /\ UNCHANGED <<transcript, outcome>>
    /\ ForgetBatch
    /\ UNCHANGED <<cancelled, crashes, content, denied, grants, serial, tasks, asked, status,
                    issued, diskVars, turns, steps, balance>>

-----------------------------------------------------------------------------
(* The environment: the person who interrupts, and the process that dies *)

Cancel ==
    /\ pc \notin {"idle", "down"} /\ ~cancelled
    /\ cancelled' = TRUE
    /\ UNCHANGED <<pc, crashes, content, agentVars, sessionVars, diskVars, turnVars>>

Crash ==
    /\ pc # "down" /\ crashes < MaxCrashes
    /\ crashes' = crashes + 1
    /\ Die
    /\ UNCHANGED <<content, asked, issued, diskVars, turns>>

\* A new process loads the file: only what was recorded comes back.
Resume ==
    /\ pc = "down"
    /\ transcript' = disk
    /\ status' = [k \in CallId |-> Repaired(diskStatus[k])]
    /\ pc' = "idle"
    /\ UNCHANGED <<cancelled, crashes, content, agentVars, asked, issued, diskVars,
                    turnVars>>

-----------------------------------------------------------------------------
Answer == Approve \/ ApproveSession \/ DenyCall

Loop ==
    \/ BeginStep \/ StepLimit
    \/ SampleCancelled \/ SampleEnds \/ SampleAnswers
    \/ AppendCall \/ Appended
    \/ PlanCall \/ Planned
    \/ TakeAnswered \/ SpawnRead \/ StartSerial \/ FinishSerial \/ FinishTask \/ Executed
    \/ Settle \/ Settled \/ ResolvePending \/ Dispatched
    \/ EndTurn

Next ==
    \/ StartTurn \/ Loop \/ Answer \/ SerialPanic
    \/ Cancel \/ Crash \/ Resume

Spec == Init /\ [][Next]_vars

\* Tokio polls a ready future, tools and streams return (the loop hands each a
\* child token and bash a timeout), and a cancelled token ends an open question.
\* Nothing makes a person answer, interrupt, or start another turn.
FairSpec ==
    /\ Spec
    /\ WF_vars(Loop)
    /\ WF_vars(DenyCall /\ cancelled)

-----------------------------------------------------------------------------
(* Properties *)

ControlTypeOK ==
    /\ pc \in Phases /\ outcome \in Outcomes
    /\ steps \in 0..MaxSteps /\ turns \in 0..MaxTurns /\ crashes \in 0..MaxCrashes
    /\ balance \in {0, 1}

SessionTypeOK ==
    /\ transcript \in Seq(Item) /\ disk \in Seq(Item)
    /\ status \in [CallId -> Status] /\ diskStatus \in [CallId -> Status]
    /\ asked \in [CallId -> Menu \union {Nothing}] /\ issued \in 0..MaxCalls

BatchTypeOK ==
    /\ low \in 1..(MaxCalls + 1) /\ cursor \in 1..(MaxCalls + 1)
    /\ verdict \in [CallId -> Verdicts]
    /\ results \in [CallId -> Terminal \union {"none"}]
    /\ serial \in 0..MaxCalls /\ tasks \subseteq CallId
    /\ base \in [CallId -> SUBSET CallId] /\ content \in [Files -> SUBSET CallId]

PolicyTypeOK ==
    /\ denied \subseteq {Subject(r) : r \in Menu}
    /\ grants \subseteq {Subject(r) : r \in Menu}

\* Every variable has its type.
TypeOK ==
    /\ ControlTypeOK /\ SessionTypeOK /\ BatchTypeOK /\ PolicyTypeOK
    /\ cancelled \in BOOLEAN

\* "A tool_use with no matching tool_result makes the next request invalid":
\* when a request is built, and when a turn is over, every call in the
\* transcript has its own answer, whatever was refused, lost or interrupted.
AnsweredBeforeRequest ==
    pc \in {"idle", "step", "sampling", "ending"} =>
        \A k \in CallId : status[k] \notin Unfinished

\* The two phases: until the whole batch is authorised none of it has started,
\* so a refusal late in a batch comes before the first effect of the batch.
NothingRunsWhilePlanning ==
    pc \in {"appending", "planning", "asking"} =>
        /\ serial = 0 /\ tasks = {}
        /\ \A k \in Batch : results[k] = "none" /\ \A f \in Files : k \notin content[f]

\* What was refused never happens: no file carries an edit that a rule, the
\* memo of refusals or a person turned down, in this life of the process or,
\* read back from the records, in the next.
RefusedNeverRuns ==
    \A f \in Files : \A k \in content[f] :
        /\ SubjectOf(k) \notin DenyRules
        /\ "denied" \notin {verdict[k], status[k], diskStatus[k], results[k]}

\* write(a) and edit(a) in one batch must not race: a serial call starts only
\* when every earlier serial call of its batch is done, and a read is spawned
\* only then, so what a batch reads includes what it wrote before.
WritesInCallOrder ==
    \A k \in tasks \union ({serial} \ {0}) : \A j \in Batch :
        j < k /\ verdict[j] = "run" /\ asked[j].kind # "read" => results[j] # "none"

\* dispatch keeps its two orders at once: nothing starts before the batch is
\* authorised, and what has started finishes in the order of the calls.
BatchRunsInOrder == NothingRunsWhilePlanning /\ WritesInCallOrder

\* The last user message: calls after it belong to the current turn.
InThisTurn(k) ==
    \E i \in 1..Len(transcript) :
        /\ transcript[i] = CallItem(k)
        /\ \A j \in i..Len(transcript) : transcript[j] # UserItem

\* An approver is not asked the same question twice in a turn: when a question
\* is open, no call of this turn with the same subject was refused, in any
\* batch, unless a call in between was granted for the session.
NotAskedAgain ==
    pc = "asking" =>
        \A j \in 1..(cursor - 1) :
            /\ InThisTurn(j) /\ SubjectOf(j) = SubjectOf(cursor)
            /\ "denied" \in {verdict[j], status[j]}
            => \E g \in (j + 1)..(cursor - 1) : SubjectOf(g) \in grants

\* The record is written ahead of the effect: no file carries an edit whose
\* call the file on disk still shows as never started.
EffectRecordedFirst ==
    \A f \in Files : \A k \in content[f] :
        diskStatus[k] \notin {"none", "pending", "awaiting"}

\* The items among the first n of the transcript that have a record: all but
\* the Interrupted markers.
RecordedAmong(n) == {i \in 1..n : transcript[i] # InterruptedItem}

\* Each of them is in the records, at its place among the others, and the
\* records hold nothing else.
RecordsFollow ==
    /\ Len(disk) = Cardinality(RecordedAmong(Len(transcript)))
    /\ \A i \in RecordedAmong(Len(transcript)) :
         disk[Cardinality(RecordedAmong(i))] = transcript[i]

\* A resumed session rebuilds the history the turn ended with: the records fold
\* to the transcript (less the Interrupted markers, which are not recorded) and
\* to the same answer for every call.
RecordsMatchTranscript ==
    pc \in {"idle", "step", "sampling", "ending"} =>
        /\ RecordsFollow
        /\ \A k \in CallId : status[k] = Repaired(diskStatus[k])

\* Between a record and what it stands for a crash can only lose the later one:
\* the records are never behind the files, nor behind a turn that is over.
RecordsLead == EffectRecordedFirst /\ RecordsMatchTranscript

\* An answer that reached the file is the answer for good, across crashes and
\* resumes: no later step of this process or the next records another.
RecordedAnswerIsFinal ==
    [][\A k \in CallId : diskStatus[k] \in Terminal => diskStatus'[k] = diskStatus[k]]_vars

\* Writing a file never loses work of an earlier batch: what a step removes
\* from a file was put there by the batch that is running.
EditsLoseOnlyTheirBatch ==
    [][\A f \in Files : content[f] \ content'[f] \subseteq Batch]_vars

\* The loop implements the contract.  What counts as answered is what is on
\* disk; a call is abandoned when the disk shows no answer for it and the
\* transcript (repaired by a resume, or gone) does not wait for one.
TurnPhase == IF pc = "idle" THEN "rest" ELSE IF pc = "down" THEN "down" ELSE "turn"
Answered == {k \in CallId : diskStatus[k] \in Terminal}
Abandoned == {k \in CallId : diskStatus[k] \in Unfinished} \ UnfinishedCalls

Contract == INSTANCE TurnContract WITH
    Call <- CallId,
    phase <- TurnPhase,
    pending <- UnfinishedCalls,
    answered <- Answered,
    abandoned <- Abandoned

\* Every behaviour of the loop is one the contract allows: one answer per call,
\* none taken back, all of them given before the turn ends.
ImplementsContract == Contract!Spec

\* Once the token is cancelled the turn ends, whatever it was waiting for.
CancelEndsTurn == (cancelled /\ pc # "idle") ~> (pc \in {"idle", "down"})

\* A turn does not hang: it ends, dies with its task, or waits for a person who
\* may leave the question unanswered.
TurnEnds == (balance = 1) ~> (pc \in {"idle", "asking", "down"})

\* "What was previewed is what runs": a file is what it was when the edit that
\* now replaces it was previewed and approved.
NoStalePreview ==
    serial # 0 /\ Edits(asked[serial]) => content[asked[serial].file] = base[serial]

=============================================================================
