----------------------------- MODULE Supervisor -----------------------------
(***************************************************************************)
(* Many sessions under one Supervisor: starting one in a worktree, its     *)
(* task and command channel, the pooled approval queue, closing, dropping  *)
(* the supervisor and finding everything again after a crash               *)
(* (axio-supervisor/src/supervisor.rs, session.rs, approval.rs, index.rs,  *)
(* worktree.rs, and the `axio session close` of axio/src/session_cmd.rs).  *)
(*                                                                         *)
(* Every lock is released before the next await, so what a method does     *)
(* under one lock is a step, and whatever it does next is another.  A turn *)
(* is what TurnLoop models; here it works, asks and comes to an end.       *)
(* StartOptions::resume is set by no surface and is left out.              *)
(***************************************************************************)
EXTENDS Naturals, Sequences, FiniteSets

CONSTANTS
    Sessions,      \* sessions that may be started
    Closers,       \* calls of close(), each made once
    Capacity,      \* messages the command channel holds
    MaxTurns,      \* bound: prompts sent over the behaviour
    MaxQuestions,  \* bound: approvals asked for over the behaviour
    MaxCrashes     \* bound: times the process is killed

ASSUME SupervisorAssumption ==
    /\ Sessions \intersect Closers = {} /\ "turn" \notin Closers
    /\ {Capacity, MaxTurns, MaxQuestions, MaxCrashes} \subseteq Nat
    /\ Capacity > 0

VARIABLES
    stage,      \* how far start() has come with a session
    live,       \* Supervisor::live
    task,       \* what the session's task does
    mailbox,    \* its command channel
    cancelled,  \* the token in SessionHandle::cancel is cancelled
    question,   \* the approval a session's turn asks about
    waiting,    \* ApprovalQueue::waiting
    shut,       \* ApprovalQueue::closed
    dropping,   \* how far Supervisor::drop has come
    index,      \* what the session index says of a session
    dir,        \* a session's worktree directory
    branch,     \* and its branch
    head,       \* what the worktree's HEAD is on
    commits,    \* the HEADs that hold commits which are nowhere else
    closer,     \* the calls of close()
    turns, asked, crashes,   \* prompts, questions and crashes so far (bounds)
    litter      \* sessions whose start stopped with a worktree cut (history)

queueVars == <<waiting, shut>>
diskVars == <<index, dir, branch, head, commits, litter>>
taskVars == <<task, mailbox, cancelled, question>>
bounds == <<turns, asked, crashes>>
vars == <<stage, live, taskVars, queueVars, dropping, diskVars, closer, bounds>>

Turn == "turn"
NoQuestion == 0
NoSession == "none"
Heads == {"branch", "elsewhere"}
Nothing == "nothing"
Working == {"running", "asking", "parked"}
Inert == [pc |-> "idle", session |-> NoSession, discard |-> FALSE,
          via |-> "none", seen |-> Nothing]
Finished == [Inert EXCEPT !.pc = "done"]
Active == {c \in Closers : closer[c].pc \notin {"idle", "done"}}

Init ==
    /\ stage = [s \in Sessions |-> "none"] /\ live = {}
    /\ task = [s \in Sessions |-> "none"]
    /\ mailbox = [s \in Sessions |-> <<>>]
    /\ cancelled = [s \in Sessions |-> FALSE]
    /\ question = [s \in Sessions |-> NoQuestion]
    /\ waiting = {} /\ shut = FALSE /\ dropping = "no"
    /\ index = [s \in Sessions |-> "none"]
    /\ dir = [s \in Sessions |-> "none"] /\ branch = [s \in Sessions |-> "none"]
    /\ head = [s \in Sessions |-> "branch"] /\ commits = [s \in Sessions |-> {}]
    /\ closer = [c \in Closers |-> Inert]
    /\ turns = 0 /\ asked = 0 /\ crashes = 0
    /\ litter = {}

-----------------------------------------------------------------------------
(* start()                                                                 *)

\* checkout(): a worktree on a branch of its own, or none under Direct.  A
\* setup command that fails fails the start, and its worktree stays.
CutWorktree(s) ==
    /\ stage[s] = "none" /\ dropping = "no"
    /\ dir' = [dir EXCEPT ![s] = "present"]
    /\ branch' = [branch EXCEPT ![s] = "present"]
    /\ \/ stage' = [stage EXCEPT ![s] = "cut"] /\ UNCHANGED litter
       \/ stage' = [stage EXCEPT ![s] = "failed"] /\ litter' = litter \union {s}
    /\ UNCHANGED <<live, taskVars, queueVars, dropping, index, head, commits, closer, bounds>>

TakeDirect(s) ==
    /\ stage[s] = "none" /\ dropping = "no"
    /\ stage' = [stage EXCEPT ![s] = "cut"]
    /\ UNCHANGED <<live, taskVars, queueVars, dropping, diskVars, closer, bounds>>

\* Faulty: the start fails and leaves its worktree.
LeftOver(s) == FALSE

\* A branch was cut for the session.
IsCut(s) == dir[s] = "present"

\* The factory or the index fails: the checkout is discarded again, unless git
\* fails at it, which nobody looks at.
BuildFails(s) ==
    /\ stage[s] = "cut"
    /\ stage' = [stage EXCEPT ![s] = "failed"]
    /\ \/ /\ dir' = [dir EXCEPT ![s] = IF IsCut(s) THEN "gone" ELSE @]
          /\ branch' \in {branch, [branch EXCEPT ![s] = IF IsCut(s) THEN "deleted" ELSE @]}
          /\ UNCHANGED litter
       \/ litter' = litter \union {s} /\ UNCHANGED <<dir, branch>>
    /\ UNCHANGED <<live, taskVars, queueVars, dropping, index, head, commits, closer, bounds>>

\* record_started, before there is a task to close.
RecordStarted(s) ==
    /\ stage[s] = "cut"
    /\ stage' = [stage EXCEPT ![s] = "recorded"]
    /\ index' = [index EXCEPT ![s] = "open"]
    /\ UNCHANGED <<live, taskVars, queueVars, dropping, dir, branch, head, commits,
                   litter, closer, bounds>>

\* session::spawn and the live map.
Spawn(s) ==
    /\ stage[s] = "recorded"
    /\ stage' = [stage EXCEPT ![s] = "started"]
    /\ task' = [task EXCEPT ![s] = "idle"] /\ live' = live \union {s}
    /\ UNCHANGED <<mailbox, cancelled, question, queueVars, dropping, diskVars, closer, bounds>>

-----------------------------------------------------------------------------
(* The session's task.                                                     *)

\* Faulty: one message too many is let in.
HasRoomForOneMore(s) == Len(mailbox[s]) <= Capacity

\* A send waits while the channel is full.
HasRoom(s) == Len(mailbox[s]) < Capacity

\* SessionHandle::turn, by whoever holds a clone of the handle.
SendTurn(s) ==
    /\ stage[s] = "started" /\ task[s] \notin {"none", "gone"}
    /\ turns < MaxTurns /\ HasRoom(s)
    /\ mailbox' = [mailbox EXCEPT ![s] = Append(@, Turn)]
    /\ turns' = turns + 1
    /\ UNCHANGED <<stage, live, task, cancelled, question, queueVars, dropping, diskVars,
                   closer, asked, crashes>>

\* SessionHandle::cancel, through the live map.
Interrupt(s) ==
    /\ s \in live /\ dropping = "no" /\ ~cancelled[s]
    /\ cancelled' = [cancelled EXCEPT ![s] = TRUE]
    /\ UNCHANGED <<stage, live, task, mailbox, question, queueVars, dropping, diskVars,
                   closer, bounds>>

\* Every turn gets a token of its own.
ReceiveTurn(s) ==
    /\ task[s] = "idle" /\ mailbox[s] # <<>> /\ Head(mailbox[s]) = Turn
    /\ task' = [task EXCEPT ![s] = "running"]
    /\ mailbox' = [mailbox EXCEPT ![s] = Tail(@)]
    /\ cancelled' = [cancelled EXCEPT ![s] = FALSE]
    /\ UNCHANGED <<stage, live, question, queueVars, dropping, diskVars, closer, bounds>>

\* Close replies and ends the task; whatever was still queued is dropped, and
\* nobody holds the token any more.
ReceiveClose(s) ==
    /\ task[s] = "idle" /\ mailbox[s] # <<>> /\ Head(mailbox[s]) \in Closers
    /\ task' = [task EXCEPT ![s] = "gone"]
    /\ mailbox' = [mailbox EXCEPT ![s] = <<>>]
    /\ closer' = [closer EXCEPT ![Head(mailbox[s])].pc = "tidying"]
    /\ cancelled' = [cancelled EXCEPT ![s] = FALSE]
    /\ UNCHANGED <<stage, live, question, queueVars, dropping, diskVars, bounds>>

\* The last handle went with the supervisor.
ChannelCloses(s) ==
    /\ task[s] = "idle" /\ mailbox[s] = <<>> /\ dropping = "done"
    /\ task' = [task EXCEPT ![s] = "gone"]
    /\ UNCHANGED <<stage, live, mailbox, cancelled, question, queueVars, dropping, diskVars,
                   closer, bounds>>

\* A turn may commit in its worktree, on whatever HEAD is.
Commit(s) ==
    /\ task[s] = "running" /\ dir[s] = "present"
    /\ commits' = [commits EXCEPT ![s] = @ \union {head[s]}]
    /\ UNCHANGED <<stage, live, taskVars, queueVars, dropping, index, dir, branch, head, litter,
                   closer, bounds>>

\* And it may leave the session's branch, where the branch stands or on a
\* commit the repository has, and come back; what it leaves behind no count
\* looks at.
Switch(s) ==
    /\ task[s] = "running" /\ dir[s] = "present"
    /\ \/ /\ head[s] = "branch"
          /\ head' = [head EXCEPT ![s] = "elsewhere"]
          /\ \E there \in {{}, {h \in {"elsewhere"} : "branch" \in commits[s]}} :
               commits' = [commits EXCEPT ![s] = @ \union there]
       \/ /\ head[s] = "elsewhere" /\ branch[s] = "present"
          /\ head' = [head EXCEPT ![s] = "branch"]
          /\ commits' = [commits EXCEPT ![s] = @ \ {"elsewhere"}]
    /\ UNCHANGED <<stage, live, taskVars, queueVars, dropping, index, dir, branch, litter,
                   closer, bounds>>

\* Faulty: nobody looks whether the queue is closed.
RegisterAlways == TRUE

\* register() refuses once the queue is closed: nobody is left to ask.
MayRegister == ~shut

\* decide() begins, unless the token is cancelled first: register() looks at
\* the flag, and inserts under the lock in a later step.
Ask(s) ==
    /\ task[s] = "running" /\ ~cancelled[s] /\ asked < MaxQuestions
    /\ MayRegister
    /\ task' = [task EXCEPT ![s] = "asking"]
    /\ asked' = asked + 1
    /\ question' = [question EXCEPT ![s] = asked + 1]
    /\ UNCHANGED <<stage, live, mailbox, cancelled, queueVars, dropping, diskVars, closer,
                   turns, crashes>>

Register(s) ==
    /\ task[s] = "asking"
    /\ task' = [task EXCEPT ![s] = "parked"]
    /\ waiting' = waiting \union {[session |-> s, id |-> question[s]]}
    /\ UNCHANGED <<stage, live, mailbox, cancelled, question, shut, dropping, diskVars, closer,
                   bounds>>

\* Faulty: only an answer ends the wait.
HearsNothing(s) == FALSE

\* dispatch.rs races the answer against the token.
HearsCancel(s) == cancelled[s]

\* The turn gives up waiting; its question stays in the queue.
GiveUp(s) ==
    /\ task[s] = "parked" /\ HearsCancel(s)
    /\ task' = [task EXCEPT ![s] = "running"]
    /\ question' = [question EXCEPT ![s] = NoQuestion]
    /\ UNCHANGED <<stage, live, mailbox, cancelled, queueVars, dropping, diskVars, closer, bounds>>

\* resolve() takes questions out of the queue and wakes whoever still waits.
Resolve(answered) ==
    LET woken == {s \in Sessions : task[s] = "parked"
                      /\ [session |-> s, id |-> question[s]] \in answered} IN
    /\ waiting' = waiting \ answered
    /\ task' = [s \in Sessions |-> IF s \in woken THEN "running" ELSE task[s]]
    /\ question' = [s \in Sessions |-> IF s \in woken THEN NoQuestion ELSE question[s]]

\* Somebody answers one question.
Answer(w) ==
    /\ w \in waiting /\ dropping = "no"
    /\ Resolve({w})
    /\ UNCHANGED <<stage, live, mailbox, cancelled, shut, dropping, diskVars, closer, bounds>>

\* run_turn returns: TurnLoop!TurnEnds.
EndTurn(s) ==
    /\ task[s] = "running"
    /\ task' = [task EXCEPT ![s] = "idle"]
    /\ UNCHANGED <<stage, live, mailbox, cancelled, question, queueVars, dropping, diskVars,
                   closer, bounds>>

-----------------------------------------------------------------------------
(* close()                                                                 *)

Step(c, pc) == closer' = [closer EXCEPT ![c].pc = pc]
Finish(c) == closer' = [closer EXCEPT ![c] = Finished]
Does(c, pc) == closer[c].pc = pc

Begin(c, s, discard, via, pc) ==
    /\ Does(c, "idle")
    /\ closer' = [closer EXCEPT ![c] =
                    [pc |-> pc, session |-> s, discard |-> discard, via |-> via, seen |-> Nothing]]

\* The handle leaves the live map: only one close() gets it.
CloseLive(c, s, discard) ==
    /\ dropping = "no" /\ s \in live
    /\ Begin(c, s, discard, "handle", "answering")
    /\ live' = live \ {s}
    /\ UNCHANGED <<stage, taskVars, queueVars, dropping, diskVars, bounds>>

\* Any other is taken to be about a directory, if the index has it open.
CloseIndexed(c, s, discard) ==
    /\ dropping = "no" /\ s \notin live /\ index[s] = "open"
    /\ Begin(c, s, discard, "index", "tidying")
    /\ UNCHANGED <<stage, live, taskVars, queueVars, dropping, diskVars, bounds>>

\* `axio session close` in another process tidies without asking anybody.
CloseElsewhere(c, s, discard) ==
    /\ index[s] # "none"
    /\ Begin(c, s, discard, "elsewhere", "tidying")
    /\ UNCHANGED <<stage, live, taskVars, queueVars, dropping, diskVars, bounds>>

QuestionsOf(s) == {w \in waiting : w.session = s}

\* close_session: "Pending approvals are answered first."
AnswerPending(c) ==
    /\ Does(c, "answering") /\ Step(c, "cancelling")
    /\ Resolve(QuestionsOf(closer[c].session))
    /\ UNCHANGED <<stage, live, mailbox, cancelled, shut, dropping, diskVars, bounds>>

CancelTurn(c) ==
    /\ Does(c, "cancelling") /\ Step(c, "sending")
    /\ cancelled' = [cancelled EXCEPT ![closer[c].session] = TRUE]
    /\ UNCHANGED <<stage, live, task, mailbox, question, queueVars, dropping, diskVars, bounds>>

\* Faulty: the message is sent and nobody waits for the task.
AfterSending == "tidying"

AfterSend == "awaiting"

\* A full channel is waited for; a task that is gone needs no message.
SendClose(c) ==
    LET s == closer[c].session IN
    /\ Does(c, "sending")
    /\ \/ task[s] = "gone" /\ Step(c, "tidying") /\ UNCHANGED mailbox
       \/ /\ task[s] # "gone" /\ HasRoom(s)
          /\ mailbox' = [mailbox EXCEPT ![s] = Append(@, c)]
          /\ Step(c, AfterSend)
    /\ UNCHANGED <<stage, live, task, cancelled, question, queueVars, dropping, diskVars, bounds>>

\* Checkout::close under Keep, or without a branch, does nothing.
Leave(c) ==
    LET s == closer[c].session IN
    /\ Does(c, "tidying") /\ (~closer[c].discard \/ branch[s] = "none")
    /\ Step(c, "recording")
    /\ UNCHANGED <<stage, live, taskVars, queueVars, dropping, diskVars, bounds>>

\* Faulty: the commits are not counted.
CountsNothing(s) == FALSE

\* unmerged_commits counts what HEAD of the worktree has and the repository
\* does not, whichever branch HEAD is on.
HasUnmerged(s) == dir[s] = "present" /\ head[s] \in commits[s]

\* Faulty: a refusal is recorded as a close.
RefusedAnyway(c) == Step(c, "recording")

Refused(c) == Finish(c)

Refuse(c) ==
    LET s == closer[c].session IN
    /\ Does(c, "tidying") /\ closer[c].discard /\ branch[s] # "none"
    /\ HasUnmerged(s)
    /\ Refused(c)
    /\ UNCHANGED <<stage, live, taskVars, queueVars, dropping, diskVars, bounds>>

\* A count that fails, as it does where there is no worktree, is a count of
\* none.  Of the close that joined the task, seen keeps which HEAD was counted.
Agree(c) ==
    LET s == closer[c].session IN
    /\ Does(c, "tidying") /\ closer[c].discard /\ branch[s] # "none"
    /\ \/ Step(c, "removing")
       \/ /\ dir[s] = "present" /\ ~HasUnmerged(s) /\ closer[c].via = "handle"
          /\ closer' = [closer EXCEPT ![c].pc = "removing", ![c].seen = head[s]]
    /\ UNCHANGED <<stage, live, taskVars, queueVars, dropping, diskVars, bounds>>

\* git worktree remove --force, or prune where somebody removed it by hand; a
\* worktree git will not remove (a locked one) stays, and pruning skips it.
\* Where git cannot be run at all the close fails here.
RemoveWorktree(c) ==
    /\ Does(c, "removing")
    /\ \/ Step(c, "deleting") /\ dir' = [dir EXCEPT ![closer[c].session] = "gone"]
       \/ Step(c, "deleting") /\ UNCHANGED dir
       \/ Finish(c) /\ UNCHANGED dir
    /\ UNCHANGED <<stage, live, taskVars, queueVars, dropping, index, branch, head, commits,
                   litter, bounds>>

\* git branch -D, whose failure is the close's: it refuses a branch that is
\* checked out in a worktree, and one that is not there.
DeleteBranch(c) ==
    LET s == closer[c].session
        checkedOut == dir[s] = "present" /\ head[s] = "branch" IN
    /\ Does(c, "deleting")
    /\ \/ /\ branch[s] = "present" /\ ~checkedOut /\ Step(c, "recording")
          /\ branch' = [branch EXCEPT ![s] = "deleted"]
       \/ Finish(c) /\ UNCHANGED branch
    /\ UNCHANGED <<stage, live, taskVars, queueVars, dropping, index, dir, head, commits, litter,
                   bounds>>

\* record_closed, unless the index cannot be written or belongs to another
\* process.
RecordClosed(c) ==
    /\ Does(c, "recording") /\ Finish(c)
    /\ \/ /\ closer[c].via # "elsewhere"
          /\ index' = [index EXCEPT ![closer[c].session] =
                         IF closer[c].discard THEN "discarded" ELSE "kept"]
       \/ UNCHANGED index
    /\ UNCHANGED <<stage, live, taskVars, queueVars, dropping, dir, branch, head, commits,
                   litter, bounds>>

-----------------------------------------------------------------------------
(* The end of the supervisor, of the process, and of a directory.          *)

\* Drop runs when no call borrows the supervisor any more.
DropBegins ==
    /\ dropping = "no" /\ \A s \in Sessions : stage[s] \notin {"cut", "recorded"}
    /\ \A c \in Active : closer[c].via = "elsewhere"
    /\ dropping' = "shut" /\ shut' = TRUE
    /\ UNCHANGED <<stage, live, taskVars, waiting, diskVars, closer, bounds>>

DropAnswers ==
    /\ dropping = "shut" /\ dropping' = "answered"
    /\ Resolve(waiting)
    /\ UNCHANGED <<stage, live, mailbox, cancelled, shut, diskVars, closer, bounds>>

DropCancels ==
    /\ dropping = "answered" /\ dropping' = "done"
    /\ cancelled' = [s \in Sessions |-> s \in live \/ cancelled[s]]
    /\ live' = {}
    /\ UNCHANGED <<stage, task, mailbox, question, queueVars, diskVars, closer, bounds>>

\* The process ends with everything it held in memory; the next one has a
\* supervisor of its own, which reads the index.
Crash ==
    /\ crashes < MaxCrashes /\ crashes' = crashes + 1
    /\ stage' = [s \in Sessions |-> IF stage[s] \in {"cut", "recorded"} THEN "failed" ELSE stage[s]]
    /\ litter' = litter \union {s \in Sessions : stage[s] = "cut" /\ dir[s] = "present"}
    /\ task' = [s \in Sessions |-> IF task[s] = "none" THEN "none" ELSE "gone"]
    /\ mailbox' = [s \in Sessions |-> <<>>]
    /\ cancelled' = [s \in Sessions |-> FALSE]
    /\ question' = [s \in Sessions |-> NoQuestion]
    /\ live' = {} /\ waiting' = {} /\ shut' = FALSE /\ dropping' = "no"
    /\ closer' = [c \in Closers |->
         IF c \in Active /\ closer[c].via # "elsewhere" THEN Finished
         ELSE closer[c]]
    /\ UNCHANGED <<index, dir, branch, head, commits, turns, asked>>

\* "A directory somebody already deleted by hand."
DeleteByHand(s) ==
    /\ dir[s] = "present"
    /\ dir' = [dir EXCEPT ![s] = "gone"]
    /\ UNCHANGED <<stage, live, taskVars, queueVars, dropping, index, branch, head, commits,
                   litter, closer, bounds>>

Start(s) == CutWorktree(s) \/ TakeDirect(s) \/ BuildFails(s) \/ RecordStarted(s) \/ Spawn(s)
TaskStep(s) ==
    \/ ReceiveTurn(s) \/ ReceiveClose(s) \/ ChannelCloses(s)
    \/ Register(s) \/ GiveUp(s) \/ EndTurn(s)
CloseStep(c) ==
    \/ AnswerPending(c) \/ CancelTurn(c) \/ SendClose(c) \/ Leave(c) \/ Refuse(c) \/ Agree(c)
    \/ RemoveWorktree(c) \/ DeleteBranch(c) \/ RecordClosed(c)
DropStep == DropAnswers \/ DropCancels

Next ==
    \/ \E s \in Sessions :
         \/ Start(s) \/ SendTurn(s) \/ Interrupt(s) \/ TaskStep(s) \/ Commit(s) \/ Switch(s)
         \/ Ask(s) \/ DeleteByHand(s)
    \/ \E w \in waiting : Answer(w)
    \/ \E c \in Closers, s \in Sessions, discard \in BOOLEAN :
         CloseLive(c, s, discard) \/ CloseIndexed(c, s, discard) \/ CloseElsewhere(c, s, discard)
    \/ \E c \in Closers : CloseStep(c)
    \/ DropBegins \/ DropStep \/ Crash

Spec == Init /\ [][Next]_vars

\* Tasks and calls that can go on do.  Nobody has to answer, to send a prompt
\* or to close anything.
FairSpec ==
    /\ Spec
    /\ \A s \in Sessions : WF_vars(TaskStep(s))
    /\ \A c \in Closers : WF_vars(CloseStep(c))
    /\ WF_vars(DropStep)

-----------------------------------------------------------------------------
(* Properties.                                                             *)

Tidying == {"tidying", "removing", "deleting", "recording"}
Closing == [pc : Tidying \union {"idle", "answering", "cancelling", "sending", "awaiting", "done"},
            session : Sessions \union {NoSession}, discard : BOOLEAN,
            via : {"none", "handle", "index", "elsewhere"}, seen : Heads \union {Nothing}]

StartTypeOK ==
    /\ stage \in [Sessions -> {"none", "cut", "recorded", "started", "failed"}]
    /\ live \subseteq {s \in Sessions : stage[s] = "started" /\ task[s] # "gone"}
    /\ dropping \in {"no", "shut", "answered", "done"}
    /\ turns \in 0..MaxTurns /\ asked \in 0..MaxQuestions /\ crashes \in 0..MaxCrashes

TaskTypeOK ==
    /\ task \in [Sessions -> Working \union {"none", "idle", "gone"}]
    /\ mailbox \in [Sessions -> Seq({Turn} \union Closers)]
    /\ \A s \in Sessions : Len(mailbox[s]) <= Capacity
    /\ cancelled \in [Sessions -> BOOLEAN]

QueueTypeOK ==
    /\ question \in [Sessions -> 0..MaxQuestions]
    /\ \A s \in Sessions : question[s] # NoQuestion <=> task[s] \in {"asking", "parked"}
    /\ waiting \subseteq [session : Sessions, id : 1..MaxQuestions] /\ shut \in BOOLEAN

DiskTypeOK ==
    /\ index \in [Sessions -> {"none", "open", "kept", "discarded"}]
    /\ dir \in [Sessions -> {"none", "present", "gone"}]
    /\ branch \in [Sessions -> {"none", "present", "deleted"}]
    /\ head \in [Sessions -> Heads] /\ commits \in [Sessions -> SUBSET Heads] /\ litter \subseteq Sessions

\* Every variable has its type.
TypeOK ==
    StartTypeOK /\ TaskTypeOK /\ QueueTypeOK /\ DiskTypeOK /\ closer \in [Closers -> Closing]

\* "Then the turn is cancelled and the task joined; only then is the worktree
\* touched": the close that took the handle tidies up after a task that ended.
JoinedBeforeTidying ==
    \A c \in Closers : closer[c].via = "handle" /\ closer[c].pc \in Tidying =>
        task[closer[c].session] = "gone"

\* "Closing a window is not consent to delete work": a close that joined the
\* task and counted what HEAD has deletes no commit of that HEAD which is
\* nowhere else.  A count that failed, and commits of a branch the agent has
\* left, are not looked at.
JoinedDiscardLosesNothing ==
    \A c \in Closers :
        closer[c].via = "handle" /\ closer[c].pc \in {"removing", "deleting"} =>
            closer[c].seen \notin commits[closer[c].session]

\* The session's branch is gone; a directory that git would not remove stays
\* only where an agent had left the branch.
Gone(s) == branch[s] # "present" /\ (dir[s] = "present" => head[s] = "elsewhere")

\* A session that the index calls discarded is gone from the disk.
DiscardedIsGone == \A s \in Sessions : index[s] = "discarded" => Gone(s)

\* A discard is all or nothing: commits it counted stop it, and where nothing
\* stopped it the index says discarded and the branch has gone.
DiscardIsWhole == JoinedDiscardLosesNothing /\ DiscardedIsGone

\* "They are in the index, and the next run finds them": a worktree is one of
\* a start that goes on, or in the index, whoever went away in between.  Only
\* a failed setup, or a crash before the index was written, leaves litter.
WorkIsFindable ==
    \A s \in Sessions : dir[s] = "present" =>
        stage[s] = "cut" \/ index[s] # "none" \/ s \in litter

\* "A hang with no owner": once the supervisor has gone, no turn waits for ever
\* for an answer nobody can give.
NobodyParkedAfterDrop ==
    \A s \in Sessions : dropping = "done" ~> task[s] # "parked"

\* A close whose message is next, behind a turn it cancelled, comes to an end
\* though nobody answers what that turn asks.
CancelledCloseReturns ==
    \A c \in Closers :
        LET s == closer[c].session IN
        Does(c, "awaiting") /\ cancelled[s] /\ mailbox[s] = <<c>> ~> ~Does(c, "awaiting")

\* "Removing a checkout out from under a running tool is how a session ends in
\* a way nobody can explain afterwards": while one close() waits for the task,
\* no other close() of the same supervisor removes the worktree of its turn.
NeverRemovedUnderATurn ==
    [][\A c, d \in Closers :
         /\ Does(c, "removing") /\ Does(c, "deleting")' /\ closer[c].via = "index"
         /\ Does(d, "awaiting") /\ closer[d].session = closer[c].session
         => task[closer[c].session] \notin Working]_vars

\* "Discarding refuses while the branch holds commits the repository does not."
DiscardRefusesCommits ==
    [][\A c \in Closers :
         Does(c, "tidying") /\ Does(c, "removing")' =>
             "branch" \notin commits[closer[c].session]]_vars

=============================================================================
