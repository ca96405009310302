-------------------------- MODULE SupervisorProofs --------------------------
(* What one supervisor guarantees for any number of sessions and of calls of *)
(* close(), whatever dies in between: no worktree is touched under a task    *)
(* that close() was to join, no work is thrown away, none is lost sight of.  *)
EXTENDS Supervisor, TLAPS

\* How far a start has come, and what it has put on disk by then.
OneStart(s) ==
    /\ stage[s] = "none" => dir[s] = "none" /\ branch[s] = "none"
    /\ stage[s] \in {"none", "cut"} => index[s] = "none"
    /\ stage[s] \in {"recorded", "started"} => index[s] # "none"
    /\ task[s] = "none" <=> stage[s] # "started"
    /\ task[s] = "none" => mailbox[s] = <<>>
    /\ branch[s] = "none" => dir[s] = "none"
    /\ dropping # "no" => stage[s] \notin {"cut", "recorded"}

\* A Close in the channel is one whose call awaits the task.
Sent(s, m) ==
    m # Turn => closer[m].pc = "awaiting" /\ closer[m].via = "handle" /\ closer[m].session = s

Mail(s) == \A i \in 1..Len(mailbox[s]) : Sent(s, mailbox[s][i])

\* A call of close() is about a session the index knows; the one that took the
\* handle has it for good, and tidies up when the task is gone.
OneClose(c) ==
    LET s == closer[c].session IN
    /\ closer[c].pc \notin {"idle", "done"} => s \in Sessions /\ index[s] # "none"
    /\ closer[c].pc \in {"answering", "cancelling", "sending", "awaiting"} =>
         closer[c].via = "handle"
    /\ closer[c].via = "handle" => s \in Sessions /\ stage[s] = "started" /\ s \notin live
    /\ closer[c].via = "handle" /\ closer[c].pc \in Tidying => task[s] = "gone"
    /\ closer[c].via = "handle" /\ closer[c].pc \in {"removing", "deleting"} =>
         closer[c].seen \notin commits[s]
    /\ closer[c].pc \notin {"removing", "deleting", "recording"} => closer[c].seen = Nothing
    /\ closer[c].pc = "removing" => branch[s] # "none"
    /\ closer[c].pc = "recording" /\ closer[c].discard => Gone(s)

\* What is on disk is known, and what was discarded is gone.
OneTree(s) ==
    /\ index[s] = "discarded" => Gone(s)
    /\ dir[s] = "present" => stage[s] = "cut" \/ index[s] # "none" \/ s \in litter

Inv ==
    /\ TypeOK
    /\ dropping = "done" => live = {}
    /\ \A s \in Sessions : OneStart(s) /\ Mail(s) /\ OneTree(s)
    /\ \A c \in Closers : OneClose(c)

-----------------------------------------------------------------------------
(* Types.                                                                    *)

\* The bounds are numbers, and no caller is called Turn.
LEMMA Constants ==
    /\ Capacity \in Nat /\ MaxTurns \in Nat /\ MaxQuestions \in Nat /\ MaxCrashes \in Nat
    /\ Capacity > 0 /\ Turn \notin Closers
  BY SupervisorAssumption DEF Turn

\* A message appended to a channel with room in it.
LEMMA Posted ==
  ASSUME NEW M, NEW q \in Seq(M), NEW m \in M
  PROVE  /\ Append(q, m) \in Seq(M) /\ Len(Append(q, m)) = Len(q) + 1 /\ Len(q) \in Nat
         /\ \A i \in 1..Len(q) : Append(q, m)[i] = q[i]
         /\ Append(q, m)[Len(q) + 1] = m
  OBVIOUS

\* A message taken from it.
LEMMA Taken ==
  ASSUME NEW M, NEW q \in Seq(M), q # <<>>
  PROVE  /\ Tail(q) \in Seq(M) /\ Len(Tail(q)) = Len(q) - 1 /\ Len(q) \in Nat \ {0}
         /\ Head(q) \in M /\ Head(q) = q[1]
         /\ \A i \in 1..Len(Tail(q)) : Tail(q)[i] = q[i + 1]
  OBVIOUS

\* A call of close() that moves keeps what it was made with, and its fellows.
LEMMA StepOnly ==
  ASSUME closer \in [Closers -> Closing], NEW c \in Closers, NEW p, Step(c, p)
  PROVE  /\ closer'[c].pc = p /\ closer'[c].session = closer[c].session
         /\ closer'[c].discard = closer[c].discard /\ closer'[c].via = closer[c].via
         /\ closer'[c].seen = closer[c].seen
         /\ \A d \in Closers \ {c} : closer'[d] = closer[d]
         /\ p \in Tidying \union {"awaiting", "cancelling", "sending"} =>
              closer' \in [Closers -> Closing]
  BY DEF Step, Closing

\* One that has come to an end is about no session any more.
LEMMA FinishOnly ==
  ASSUME closer \in [Closers -> Closing], NEW c \in Closers, Finish(c)
  PROVE  /\ closer' \in [Closers -> Closing] /\ closer'[c] = Finished
         /\ Finished.pc = "done" /\ Finished.via = "none" /\ Finished.seen = Nothing
         /\ \A d \in Closers \ {c} : closer'[d] = closer[d]
<1>1. /\ Finished \in Closing /\ Finished.pc = "done" /\ Finished.via = "none"
      /\ Finished.seen = Nothing
  BY DEF Finished, Inert, Closing, Tidying, Nothing, NoSession
<1> QED BY <1>1 DEF Finish

\* With no session there is nothing to go wrong.
LEMMA InitInv == Init => Inv
<1> SUFFICES ASSUME Init PROVE Inv
  OBVIOUS
<1> USE Constants DEF Init
<1>1. StartTypeOK
  BY DEF StartTypeOK
<1>2. TaskTypeOK
  BY DEF TaskTypeOK
<1>3. QueueTypeOK
  <2>1. question \in [Sessions -> 0..MaxQuestions]
    BY DEF NoQuestion
  <2>2. shut \in BOOLEAN /\ waiting \subseteq [session : Sessions, id : 1..MaxQuestions]
    OBVIOUS
  <2>3. \A s \in Sessions : question[s] # NoQuestion <=> task[s] \in {"asking", "parked"}
    OBVIOUS
  <2> QED BY <2>1, <2>2, <2>3 DEF QueueTypeOK
<1>4. DiskTypeOK
  BY DEF DiskTypeOK, Heads
<1>5. closer \in [Closers -> Closing]
  BY DEF Inert, Closing, NoSession, Tidying, Nothing
<1>6. \A s \in Sessions : OneStart(s) /\ Mail(s) /\ OneTree(s)
  BY DEF OneStart, Mail, OneTree
<1>7. \A c \in Closers : OneClose(c)
  BY DEF OneClose, Inert, Tidying
<1> QED BY <1>1, <1>2, <1>3, <1>4, <1>5, <1>6, <1>7 DEF Inv, TypeOK

-----------------------------------------------------------------------------
(* Every step keeps every type.                                              *)

\* Every step keeps the type of what is on disk.
LEMMA DiskType ==
  ASSUME TypeOK, [Next]_vars
  PROVE  DiskTypeOK'
<1> USE DEF DiskTypeOK, TypeOK
<1>1. CASE UNCHANGED diskVars
  BY <1>1 DEF diskVars
<1>2. ASSUME NEW s \in Sessions, CutWorktree(s) \/ BuildFails(s)
      PROVE  DiskTypeOK'
  BY <1>2 DEF CutWorktree, BuildFails, IsCut
<1>3. ASSUME NEW s \in Sessions, RecordStarted(s) \/ Commit(s) \/ Switch(s) \/ DeleteByHand(s)
      PROVE  DiskTypeOK'
  BY <1>3 DEF RecordStarted, Commit, Switch, DeleteByHand, Heads
<1>4. ASSUME NEW c \in Closers, RemoveWorktree(c) \/ DeleteBranch(c) \/ RecordClosed(c)
      PROVE  DiskTypeOK'
  BY <1>4 DEF RemoveWorktree, DeleteBranch, RecordClosed
<1>5. CASE Crash
  BY <1>5 DEF Crash
<1> QED
  BY ZenonT(30), <1>1, <1>2, <1>3, <1>4, <1>5 DEF Next, Start, TaskStep, CloseStep, DropStep, TakeDirect, Spawn,
     SendTurn, Interrupt, ReceiveTurn, ReceiveClose, ChannelCloses, Ask, Register, GiveUp, EndTurn,
     Answer, CloseLive, CloseIndexed, CloseElsewhere, AnswerPending, CancelTurn, SendClose, Leave,
     Refuse, Agree, DropBegins, DropAnswers, DropCancels, vars, diskVars

\* Every step keeps the types of tasks, channels and tokens.
LEMMA TaskType ==
  ASSUME TypeOK, [Next]_vars
  PROVE  TaskTypeOK'
<1> USE DEF TaskTypeOK, TypeOK, Working
<1>1. CASE UNCHANGED <<task, mailbox, cancelled>>
  BY <1>1
<1>2. ASSUME NEW s \in Sessions, SendTurn(s) PROVE TaskTypeOK'
  BY <1>2, Posted, Constants DEF SendTurn, HasRoom
<1>3. ASSUME NEW s \in Sessions, ReceiveTurn(s) PROVE TaskTypeOK'
  BY <1>3, Taken, Constants DEF ReceiveTurn
<1>4. ASSUME NEW s \in Sessions, ReceiveClose(s) PROVE TaskTypeOK'
  BY <1>4, Constants DEF ReceiveClose
<1>5. ASSUME NEW s \in Sessions,
             \/ Spawn(s) \/ ChannelCloses(s) \/ Interrupt(s) \/ Ask(s) \/ Register(s)
             \/ GiveUp(s) \/ EndTurn(s)
      PROVE  TaskTypeOK'
  BY <1>5 DEF Spawn, ChannelCloses, Interrupt, Ask, Register, GiveUp, EndTurn
<1>6. ASSUME NEW W, Resolve(W), UNCHANGED <<mailbox, cancelled>> PROVE TaskTypeOK'
  BY <1>6 DEF Resolve
<1>7. ASSUME NEW c \in Closers, CancelTurn(c) PROVE TaskTypeOK'
  BY <1>7 DEF CancelTurn
<1>8. ASSUME NEW c \in Closers, SendClose(c) PROVE TaskTypeOK'
  <2> DEFINE s == closer[c].session
  <2>1. CASE UNCHANGED mailbox
    BY <1>8, <2>1 DEF SendClose
  <2>2. CASE s \in Sessions /\ HasRoom(s) /\ mailbox' = [mailbox EXCEPT ![s] = Append(@, c)]
    <3>1. mailbox[s] \in Seq({Turn} \union Closers)
      BY <2>2
    <3> QED BY <1>8, <2>2, <3>1, Posted, Constants DEF SendClose, HasRoom
  <2>3. CASE s \notin Sessions /\ mailbox' = [mailbox EXCEPT ![s] = Append(@, c)]
    <3>1. mailbox' = mailbox
      BY <2>3
    <3> QED BY <1>8, <3>1 DEF SendClose
  <2> QED BY <1>8, <2>1, <2>2, <2>3 DEF SendClose
<1>9. CASE DropCancels
  BY <1>9 DEF DropCancels
<1>10. CASE Crash
  BY <1>10, Constants DEF Crash
<1> QED
  BY <1>1, <1>2, <1>3, <1>4, <1>5, <1>6, <1>7, <1>8, <1>9, <1>10 DEF Next, Start, TaskStep, CloseStep,
     DropStep, CutWorktree, TakeDirect, BuildFails, RecordStarted, Commit, Switch, DeleteByHand,
     Answer, CloseLive, CloseIndexed, CloseElsewhere, AnswerPending, Leave,
     Refuse, Agree, RemoveWorktree, DeleteBranch, RecordClosed, DropBegins, DropAnswers,
     vars, taskVars

\* Every step keeps the type of the queue of questions.
LEMMA QueueType ==
  ASSUME TypeOK, \A s \in Sessions : OneStart(s), [Next]_vars
  PROVE  QueueTypeOK'
<1> USE DEF QueueTypeOK, TypeOK, NoQuestion
<1>1. CASE UNCHANGED <<question, task, waiting, shut>>
  BY <1>1
<1>2. ASSUME NEW s \in Sessions, Spawn(s) PROVE QueueTypeOK'
  BY <1>2 DEF Spawn, OneStart, TaskTypeOK, queueVars
<1>3. ASSUME NEW s \in Sessions,
             \/ ReceiveTurn(s) \/ ReceiveClose(s) \/ ChannelCloses(s) \/ GiveUp(s) \/ EndTurn(s)
      PROVE  QueueTypeOK'
  <2>1. /\ UNCHANGED <<waiting, shut>>
        /\ \/ UNCHANGED question /\ task[s] \notin {"asking", "parked"}
           \/ question' = [question EXCEPT ![s] = NoQuestion]
    BY <1>3 DEF ReceiveTurn, ReceiveClose, ChannelCloses, GiveUp, EndTurn, queueVars
  <2>2. \E t \in {"running", "idle", "gone"} : task' = [task EXCEPT ![s] = t]
    BY <1>3 DEF ReceiveTurn, ReceiveClose, ChannelCloses, GiveUp, EndTurn
  <2>3. question' \in [Sessions -> 0..MaxQuestions]
    BY <2>1, Constants
  <2>4. ASSUME NEW r \in Sessions
        PROVE  question'[r] # NoQuestion <=> task'[r] \in {"asking", "parked"}
    <3>1. CASE r = s
      BY <2>1, <2>2, <3>1 DEF TaskTypeOK
    <3>2. CASE r # s
      BY <2>1, <2>2, <3>2 DEF TaskTypeOK
    <3> QED BY <3>1, <3>2
  <2> QED BY <2>1, <2>3, <2>4
<1>4. ASSUME NEW s \in Sessions, Ask(s) PROVE QueueTypeOK'
  BY <1>4, Constants DEF Ask, TaskTypeOK, StartTypeOK, queueVars
<1>5. ASSUME NEW s \in Sessions, Register(s) PROVE QueueTypeOK'
  BY <1>5, Constants DEF Register, TaskTypeOK
<1>6. ASSUME NEW W, Resolve(W), shut' = shut PROVE QueueTypeOK'
  BY <1>6, Constants DEF Resolve, TaskTypeOK
<1>7. CASE DropBegins
  BY <1>7 DEF DropBegins, taskVars
<1>8. CASE Crash
  <2>1. /\ question' = [s \in Sessions |-> NoQuestion] /\ waiting' = {} /\ shut' = FALSE
        /\ task' = [s \in Sessions |-> IF task[s] = "none" THEN "none" ELSE "gone"]
    BY <1>8 DEF Crash
  <2>2. question' \in [Sessions -> 0..MaxQuestions]
    BY <2>1, Constants
  <2>3. \A s \in Sessions : question'[s] # NoQuestion <=> task'[s] \in {"asking", "parked"}
    BY <2>1
  <2> QED BY <2>1, <2>2, <2>3
<1> QED
  BY <1>1, <1>2, <1>3, <1>4, <1>5, <1>6, <1>7, <1>8 DEF Next, Start, TaskStep, CloseStep,
     DropStep, CutWorktree, TakeDirect, BuildFails, RecordStarted, Commit, Switch, DeleteByHand, SendTurn,
     Interrupt, CancelTurn, SendClose,
     Answer, CloseLive, CloseIndexed, CloseElsewhere, AnswerPending, Leave,
     Refuse, Agree, RemoveWorktree, DeleteBranch, RecordClosed, DropAnswers, DropCancels,
     vars, taskVars, queueVars

\* The steps of close(), and what makes a call of it.
Begins(c) == \E s \in Sessions, discard \in BOOLEAN :
    CloseLive(c, s, discard) \/ CloseIndexed(c, s, discard) \/ CloseElsewhere(c, s, discard)

\* Every step keeps the type of each call of close().
LEMMA CloserType ==
  ASSUME TypeOK, \A c \in Closers : OneClose(c), [Next]_vars
  PROVE  closer' \in [Closers -> Closing]
<1> USE DEF TypeOK
<1>1. CASE UNCHANGED closer
  BY <1>1
<1>2. ASSUME NEW c \in Closers, Begins(c) PROVE closer' \in [Closers -> Closing]
  <2>1. PICK s \in Sessions, discard \in BOOLEAN, via \in {"handle", "index", "elsewhere"},
             pc \in {"answering", "tidying"} : Begin(c, s, discard, via, pc)
    BY <1>2 DEF Begins, CloseLive, CloseIndexed, CloseElsewhere
  <2>2. [pc |-> pc, session |-> s, discard |-> discard, via |-> via, seen |-> Nothing] \in Closing
    BY DEF Closing, Tidying
  <2> QED BY <2>1, <2>2 DEF Begin
<1>3. ASSUME NEW c \in Closers, CloseStep(c) PROVE closer' \in [Closers -> Closing]
  <2>1. closer[c].pc = "tidying" => head[closer[c].session] \in Heads
    BY DEF OneClose, DiskTypeOK
  <2>3. \/ Finish(c)
        \/ \E p \in Tidying \union {"awaiting", "cancelling", "sending"} : Step(c, p)
        \/ \E h \in Heads : closer' = [closer EXCEPT ![c].pc = "removing", ![c].seen = h]
    BY <1>3, <2>1 DEF CloseStep, AnswerPending, CancelTurn, SendClose, Leave, Refuse, Agree,
       RemoveWorktree, DeleteBranch, RecordClosed, Tidying, AfterSend, Refused, Does
  <2>2. ASSUME NEW h \in Heads,
               closer' = [closer EXCEPT ![c].pc = "removing", ![c].seen = h]
        PROVE  closer' \in [Closers -> Closing]
    <3>1. [closer[c] EXCEPT !.pc = "removing", !.seen = h] \in Closing
      BY DEF Closing, Tidying
    <3> QED BY <2>2, <3>1
  <2> QED BY <2>2, <2>3, StepOnly, FinishOnly
<1>5. ASSUME NEW s \in Sessions, ReceiveClose(s) PROVE closer' \in [Closers -> Closing]
  BY <1>5 DEF ReceiveClose, Closing, Tidying
<1>6. CASE Crash
  <2>1. closer' = [c \in Closers |->
          IF c \in Active /\ closer[c].via # "elsewhere" THEN Finished ELSE closer[c]]
    BY <1>6 DEF Crash
  <2> QED BY <2>1 DEF Closing, Tidying, Finished, Inert, NoSession, Nothing
<1> QED
  BY <1>1, <1>2, <1>3, <1>5, <1>6 DEF Next, Begins, Start, TaskStep, DropStep,
     CutWorktree, TakeDirect, BuildFails, RecordStarted, Spawn, SendTurn, Interrupt, ReceiveTurn,
     ChannelCloses, Commit, Switch, Ask, Register, GiveUp, EndTurn, DeleteByHand, Answer, DropBegins,
     DropAnswers, DropCancels, vars

\* Where a session's start and its task are, after any step.
LEMMA StartStep ==
  ASSUME Inv, [Next]_vars, NEW s \in Sessions
  PROVE  OneStart(s)'
<1> USE DEF OneStart, TypeOK, StartTypeOK, TaskTypeOK, DiskTypeOK
<1>0. TypeOK /\ OneStart(s)
  BY DEF Inv
<1>1. ASSUME NEW t \in Sessions, CutWorktree(t) \/ TakeDirect(t) PROVE OneStart(s)'
  BY <1>0, <1>1 DEF CutWorktree, TakeDirect, taskVars, diskVars
<1>2. ASSUME NEW t \in Sessions, BuildFails(t) PROVE OneStart(s)'
  BY <1>0, <1>2 DEF BuildFails, IsCut, taskVars
<1>3. ASSUME NEW t \in Sessions, RecordStarted(t) \/ Spawn(t) PROVE OneStart(s)'
  <2>1. CASE RecordStarted(t)
    BY <1>0, <2>1 DEF RecordStarted, taskVars
  <2>2. CASE Spawn(t)
    BY <1>0, <2>2 DEF Spawn, diskVars
  <2> QED BY <1>3, <2>1, <2>2
<1>4. CASE /\ UNCHANGED <<stage, index, dir, branch, dropping>>
           /\ \/ UNCHANGED task
              \/ \E t \in Sessions, p \in {"running", "asking", "parked", "idle", "gone"} :
                   task[t] # "none" /\ task' = [task EXCEPT ![t] = p]
           /\ \/ UNCHANGED mailbox
              \/ \E t \in Sessions : \E q : task[t] # "none" /\ mailbox' = [mailbox EXCEPT ![t] = q]
  BY <1>0, <1>4
<1>5. ASSUME NEW t \in Sessions, SendTurn(t) \/ Interrupt(t) \/ TaskStep(t) \/ Commit(t) \/ Switch(t) \/ Ask(t)
      PROVE  OneStart(s)'
  <2>1. UNCHANGED <<stage, index, dir, branch, dropping>>
    BY <1>5 DEF SendTurn, Interrupt, TaskStep, ReceiveTurn, ReceiveClose, ChannelCloses, Commit, Switch,
       Ask, Register, GiveUp, EndTurn, diskVars
  <2>2. \/ UNCHANGED task
        \/ \E p \in {"running", "asking", "parked", "idle", "gone"} :
             task[t] # "none" /\ task' = [task EXCEPT ![t] = p]
    BY <1>5 DEF SendTurn, Interrupt, TaskStep, ReceiveTurn, ReceiveClose, ChannelCloses, Commit, Switch,
       Ask, Register, GiveUp, EndTurn, taskVars
  <2>3. \/ UNCHANGED mailbox
        \/ \E q : task[t] # "none" /\ mailbox' = [mailbox EXCEPT ![t] = q]
    BY <1>5 DEF SendTurn, Interrupt, TaskStep, ReceiveTurn, ReceiveClose, ChannelCloses, Commit, Switch,
       Ask, Register, GiveUp, EndTurn, taskVars
  <2> QED BY <1>4, <2>1, <2>2, <2>3
<1>6. ASSUME NEW W, Resolve(W), UNCHANGED <<mailbox, stage, index, dir, branch>>,
             dropping' = dropping \/ dropping # "no"
      PROVE  OneStart(s)'
  BY <1>0, <1>6 DEF Resolve
<1>7. ASSUME NEW t \in Sessions, DeleteByHand(t) PROVE OneStart(s)'
  BY <1>0, <1>7 DEF DeleteByHand, taskVars
<1>8. ASSUME NEW c \in Closers, RemoveWorktree(c) \/ DeleteBranch(c) \/ RecordClosed(c)
      PROVE  OneStart(s)'
  <2>1. OneClose(c) /\ UNCHANGED <<stage, task, mailbox, dropping>>
    BY <1>8 DEF Inv, RemoveWorktree, DeleteBranch, RecordClosed, taskVars
  <2>2. CASE RemoveWorktree(c)
    BY <1>0, <2>1, <2>2 DEF RemoveWorktree, OneClose, Does
  <2>3. CASE DeleteBranch(c)
    BY <1>0, <2>1, <2>3 DEF DeleteBranch, OneClose, Does
  <2>4. CASE RecordClosed(c)
    BY <1>0, <2>1, <2>4 DEF RecordClosed, OneClose, Does
  <2> QED BY <1>8, <2>2, <2>3, <2>4
<1>9. ASSUME NEW c \in Closers, SendClose(c) PROVE OneStart(s)'
  <2>1. OneClose(c) /\ UNCHANGED <<stage, task, index, dir, branch, dropping>>
    BY <1>9 DEF Inv, SendClose, diskVars
  <2>2. closer[c].session \in Sessions /\ stage[closer[c].session] = "started"
    BY <1>9, <2>1 DEF SendClose, Does, OneClose
  <2>3. task[closer[c].session] # "none"
    BY <2>2 DEF Inv
  <2>4. UNCHANGED mailbox \/ \E q : mailbox' = [mailbox EXCEPT ![closer[c].session] = q]
    BY <1>9 DEF SendClose
  <2> QED BY <1>4, <2>1, <2>2, <2>3, <2>4
<1>10. CASE DropBegins
  BY <1>0, <1>10 DEF DropBegins, taskVars, diskVars
<1>11. CASE Crash
  BY <1>0, <1>11 DEF Crash
<1>12. CASE UNCHANGED <<stage, task, mailbox, index, dir, branch, dropping>>
  BY <1>0, <1>12
<1>13. CASE DropStep
  BY <1>0, <1>6, <1>13 DEF DropStep, DropAnswers, DropCancels, diskVars
<1>14. ASSUME NEW w \in waiting, Answer(w) PROVE OneStart(s)'
  BY <1>6, <1>14 DEF Answer, diskVars
<1>15. ASSUME NEW c \in Closers, AnswerPending(c) PROVE OneStart(s)'
  BY <1>6, <1>15 DEF AnswerPending, diskVars
<1>16. ASSUME NEW c \in Closers, Begins(c) \/ CancelTurn(c) \/ Leave(c) \/ Refuse(c) \/ Agree(c)
       PROVE  OneStart(s)'
  BY <1>12, <1>16 DEF Begins, CloseLive, CloseIndexed, CloseElsewhere, CancelTurn, Leave, Refuse,
     Agree, taskVars, diskVars
<1>17. CASE UNCHANGED vars
  BY <1>12, <1>17 DEF vars, taskVars, diskVars
<1> QED
  BY <1>1, <1>2, <1>3, <1>5, <1>7, <1>8, <1>9, <1>10, <1>11, <1>13, <1>14, <1>15, <1>16, <1>17
     DEF Next, Start, CloseStep, Begins

\* A task that takes a Close from its channel is no longer in the live map.
LEMMA HeadIsSent ==
  ASSUME Inv, NEW s \in Sessions, mailbox[s] # <<>>, Head(mailbox[s]) \in Closers
  PROVE  LET c == Head(mailbox[s]) IN
         /\ closer[c].pc = "awaiting" /\ closer[c].via = "handle" /\ closer[c].session = s
         /\ s \notin live /\ stage[s] = "started"
<1>1. mailbox[s] \in Seq({Turn} \union Closers)
  BY DEF Inv, TypeOK, TaskTypeOK
<1>2. Head(mailbox[s]) = mailbox[s][1] /\ 1 \in 1..Len(mailbox[s])
  BY <1>1
<1>3. Mail(s) /\ OneClose(Head(mailbox[s]))
  BY DEF Inv
<1>4. Head(mailbox[s]) # Turn
  BY Constants
<1>5. Sent(s, Head(mailbox[s]))
  BY <1>2, <1>3 DEF Mail
<1> QED BY <1>3, <1>4, <1>5 DEF Sent, OneClose

\* Every step keeps the types of the starts, and nothing is live once the drop is done.
LEMMA StartType ==
  ASSUME Inv, [Next]_vars
  PROVE  StartTypeOK' /\ (dropping' = "done" => live' = {})
<1> USE DEF StartTypeOK
<1>0. StartTypeOK /\ TaskTypeOK /\ (dropping = "done" => live = {})
  BY DEF Inv, TypeOK
<1>1. CASE UNCHANGED <<stage, live, dropping, turns, asked, crashes>>
           /\ \A t \in live : task'[t] # "gone"
  BY <1>0, <1>1
<1>2. ASSUME NEW s \in Sessions, Start(s) \/ SendTurn(s) \/ Ask(s)
      PROVE  StartTypeOK' /\ (dropping' = "done" => live' = {})
  <2>1. CASE CutWorktree(s) \/ TakeDirect(s) \/ BuildFails(s) \/ RecordStarted(s)
    BY <1>0, <2>1 DEF CutWorktree, TakeDirect, BuildFails, RecordStarted, taskVars, bounds
  <2>2. CASE Spawn(s)
    <3>1. dropping = "no"
      BY <2>2 DEF Inv, OneStart, Spawn
    <3> QED BY <1>0, <2>2, <3>1 DEF Spawn, bounds, TaskTypeOK
  <2>3. CASE SendTurn(s) \/ Ask(s)
    BY <1>0, <2>3, Constants DEF SendTurn, Ask, TaskTypeOK
  <2> QED BY <1>2, <2>1, <2>2, <2>3 DEF Start
<1>3. ASSUME NEW s \in Sessions,
             Interrupt(s) \/ TaskStep(s) \/ Commit(s) \/ Switch(s) \/ DeleteByHand(s)
      PROVE  StartTypeOK' /\ (dropping' = "done" => live' = {})
  <2>1. UNCHANGED <<stage, live, dropping, turns, asked, crashes>>
    BY <1>3 DEF Interrupt, TaskStep, ReceiveTurn, ReceiveClose, ChannelCloses, Register, GiveUp,
       EndTurn, Commit, Switch, DeleteByHand, bounds
  <2>2. CASE ReceiveClose(s)
    <3>1. s \notin live
      BY <2>2, HeadIsSent DEF ReceiveClose
    <3> QED BY <1>0, <1>1, <2>1, <2>2, <3>1 DEF ReceiveClose, TaskTypeOK
  <2>3. CASE ChannelCloses(s)
    <3>1. live = {}
      BY <1>0, <2>3 DEF ChannelCloses
    <3> QED BY <1>1, <2>1, <3>1
  <2>4. CASE UNCHANGED task \/ \E p \in {"running", "idle", "parked"} : task' = [task EXCEPT ![s] = p]
    BY <1>0, <1>1, <2>1, <2>4 DEF TaskTypeOK
  <2> QED BY <1>3, <2>2, <2>3, <2>4 DEF Interrupt, TaskStep, ReceiveTurn, Register, GiveUp,
     EndTurn, Commit, Switch, DeleteByHand, taskVars
<1>4. ASSUME NEW W, Resolve(W), UNCHANGED <<stage, live, turns, asked, crashes>>,
             dropping' = dropping \/ dropping' = "answered"
      PROVE  StartTypeOK' /\ (dropping' = "done" => live' = {})
  <2>1. \A t \in live : task'[t] # "gone"
    BY <1>0, <1>4 DEF Resolve
  <2> QED BY <1>0, <1>4, <2>1
<1>5. ASSUME NEW c \in Closers, Begins(c)
      PROVE  StartTypeOK' /\ (dropping' = "done" => live' = {})
  <2>1. UNCHANGED <<stage, dropping, task, turns, asked, crashes>> /\ live' \subseteq live
    BY <1>5 DEF Begins, CloseLive, CloseIndexed, CloseElsewhere, taskVars, bounds
  <2> QED BY <1>0, <2>1
<1>6. ASSUME NEW c \in Closers, CloseStep(c)
      PROVE  StartTypeOK' /\ (dropping' = "done" => live' = {})
  <2>1. CASE AnswerPending(c)
    BY <1>4, <2>1 DEF AnswerPending, bounds
  <2>2. CASE ~AnswerPending(c)
    <3>1. UNCHANGED <<stage, live, dropping, turns, asked, crashes, task>>
      BY <1>6, <2>2 DEF CloseStep, CancelTurn, SendClose, Leave, Refuse, Agree, RemoveWorktree,
         DeleteBranch, RecordClosed, taskVars, bounds
    <3> QED BY <1>0, <1>1, <3>1
  <2> QED BY <2>1, <2>2
<1>7. ASSUME NEW w \in waiting, Answer(w)
      PROVE  StartTypeOK' /\ (dropping' = "done" => live' = {})
  BY <1>4, <1>7 DEF Answer, bounds
<1>8. CASE DropBegins
  BY <1>0, <1>8 DEF DropBegins, taskVars, bounds
<1>9. CASE DropAnswers
  BY <1>4, <1>9 DEF DropAnswers, bounds
<1>10. CASE DropCancels
  BY <1>0, <1>10 DEF DropCancels, bounds
<1>11. CASE Crash
  <2>1. crashes' \in 0..MaxCrashes
    BY <1>0, <1>11, Constants DEF Crash
  <2>2. stage' \in [Sessions -> {"none", "cut", "recorded", "started", "failed"}]
    BY <1>0, <1>11 DEF Crash
  <2> QED BY <1>0, <1>11, <2>1, <2>2 DEF Crash
<1>12. CASE UNCHANGED vars
  BY <1>0, <1>12 DEF vars, taskVars, bounds
<1> QED
  BY <1>2, <1>3, <1>5, <1>6, <1>7, <1>8, <1>9, <1>10, <1>11, <1>12
     DEF Next, Begins, DropStep

-----------------------------------------------------------------------------
(* Every step keeps the channels, the calls of close() and the directories.  *)

\* Only the task a call awaits, or the death of both, ends the wait.
LEMMA AwaitingStays ==
  ASSUME Inv, [Next]_vars, NEW m \in Closers, closer[m].pc = "awaiting"
  PROVE  \/ closer'[m] = closer[m]
         \/ \E t \in Sessions : ReceiveClose(t) /\ Head(mailbox[t]) = m
         \/ Crash
<1>0. closer \in [Closers -> Closing]
  BY DEF Inv, TypeOK
<1>1. ASSUME NEW c \in Closers, CloseStep(c) \/ Begins(c) PROVE closer'[m] = closer[m]
  <2>1. closer[c].pc # "awaiting"
    BY <1>1 DEF CloseStep, AnswerPending, CancelTurn, SendClose, Leave, Refuse, Agree,
       RemoveWorktree, DeleteBranch, RecordClosed, Begins, CloseLive, CloseIndexed, CloseElsewhere,
       Begin, Does
  <2>2. \E r : closer' = [closer EXCEPT ![c] = r]
    BY <1>1 DEF CloseStep, AnswerPending, CancelTurn, SendClose, Leave, Refuse, Agree,
       RemoveWorktree, DeleteBranch, RecordClosed, Begins, CloseLive, CloseIndexed, CloseElsewhere,
       Begin, Step, Finish, Refused
  <2> QED BY <1>0, <2>1, <2>2
<1>2. ASSUME NEW t \in Sessions, ReceiveClose(t), Head(mailbox[t]) # m PROVE closer'[m] = closer[m]
  BY <1>0, <1>2 DEF ReceiveClose
<1>3. CASE UNCHANGED closer
  BY <1>3
<1> QED
  BY <1>1, <1>2, <1>3 DEF Next, Begins, Start, TaskStep, DropStep,
     CutWorktree, TakeDirect, BuildFails, RecordStarted, Spawn, SendTurn, Interrupt, ReceiveTurn,
     ChannelCloses, Commit, Switch, Ask, Register, GiveUp, EndTurn, DeleteByHand, Answer, DropBegins,
     DropAnswers, DropCancels, vars

\* A Close in a channel has a caller who waits for its task, after every step.
LEMMA MailStep ==
  ASSUME Inv, [Next]_vars, NEW s \in Sessions
  PROVE  Mail(s)'
<1>0. /\ mailbox \in [Sessions -> Seq({Turn} \union Closers)] /\ Mail(s)
      /\ closer \in [Closers -> Closing]
  BY DEF Inv, TypeOK, TaskTypeOK
<1>1. CASE mailbox'[s] = <<>>
  BY <1>1 DEF Mail
<1>2. ASSUME mailbox'[s] = mailbox[s] \/ (mailbox[s] # <<>> /\ mailbox'[s] = Tail(mailbox[s])),
             \A m \in Closers : closer[m].pc = "awaiting" /\ closer[m].session = s
                                  => closer'[m] = closer[m]
      PROVE  Mail(s)'
  <2>1. ASSUME NEW i \in 1..Len(mailbox'[s])
        PROVE  \E j \in 1..Len(mailbox[s]) : mailbox'[s][i] = mailbox[s][j]
    <3>1. mailbox[s] \in Seq({Turn} \union Closers) /\ Len(mailbox[s]) \in Nat
      BY <1>0
    <3>2. CASE mailbox'[s] = mailbox[s]
      BY <2>1, <3>2
    <3>3. CASE mailbox[s] # <<>> /\ mailbox'[s] = Tail(mailbox[s])
      <4>1. /\ Len(mailbox'[s]) = Len(mailbox[s]) - 1
            /\ \A j \in 1..Len(mailbox'[s]) : mailbox'[s][j] = mailbox[s][j + 1]
        BY <3>1, <3>3, Taken
      <4>2. i + 1 \in 1..Len(mailbox[s]) /\ mailbox'[s][i] = mailbox[s][i + 1]
        BY <2>1, <3>1, <4>1
      <4> QED BY <4>2
    <3> QED BY <1>2, <3>2, <3>3
  <2>2. \A m \in {Turn} \union Closers : Sent(s, m) => Sent(s, m)'
    BY <1>2 DEF Sent
  <2>3. \A j \in 1..Len(mailbox[s]) :
          mailbox[s][j] \in {Turn} \union Closers /\ Sent(s, mailbox[s][j])
    BY <1>0 DEF Mail
  <2> QED BY <2>1, <2>2, <2>3 DEF Mail, Sent
<1>3. ASSUME NEW t \in Sessions, SendTurn(t) PROVE Mail(s)'
  <2>1. closer' = closer /\ (s # t => mailbox'[s] = mailbox[s])
    BY <1>0, <1>3 DEF SendTurn
  <2>2. CASE s = t
    <3>1. mailbox'[s] = Append(mailbox[s], Turn) /\ mailbox[s] \in Seq({Turn} \union Closers)
      BY <1>0, <1>3, <2>2 DEF SendTurn
    <3>2. /\ Len(mailbox'[s]) = Len(mailbox[s]) + 1 /\ Len(mailbox[s]) \in Nat
          /\ mailbox'[s][Len(mailbox[s]) + 1] = Turn
          /\ \A j \in 1..Len(mailbox[s]) : mailbox'[s][j] = mailbox[s][j]
      BY <3>1, Posted
    <3>3. \A m : Sent(s, m) => Sent(s, m)'
      BY <2>1 DEF Sent
    <3>4. ASSUME NEW i \in 1..Len(mailbox'[s]) PROVE Sent(s, mailbox'[s][i])
      <4>1. CASE i = Len(mailbox[s]) + 1
        BY <3>2, <4>1 DEF Sent
      <4>2. CASE i \in 1..Len(mailbox[s])
        BY <1>0, <3>2, <4>2 DEF Mail
      <4> QED BY <3>2, <3>4, <4>1, <4>2
    <3> QED BY <3>3, <3>4 DEF Mail
  <2> QED BY <1>2, <2>1, <2>2
<1>4. ASSUME NEW c \in Closers, SendClose(c) PROVE Mail(s)'
  <2>1. /\ OneClose(c) /\ closer[c].pc = "sending"
    BY <1>4 DEF Inv, SendClose, Does
  <2>2. closer[c].via = "handle" /\ closer[c].session \in Sessions
    BY <2>1 DEF OneClose
  <2>3. \A m \in Closers : closer[m].pc = "awaiting" => closer'[m] = closer[m]
    BY <1>0, <1>4, <2>1, StepOnly DEF SendClose
  <2>4. CASE mailbox'[s] = mailbox[s]
    BY <1>2, <2>3, <2>4
  <2>5. CASE mailbox'[s] # mailbox[s]
    <3>1. /\ closer[c].session = s /\ mailbox'[s] = Append(mailbox[s], c)
          /\ mailbox[s] \in Seq({Turn} \union Closers)
      BY <1>0, <1>4, <2>2, <2>5 DEF SendClose
    <3>2. Step(c, "awaiting")
      BY <1>4, <2>5 DEF SendClose, AfterSend
    <3>3. Sent(s, c)'
      BY <1>0, <2>2, <3>1, <3>2, StepOnly DEF Sent
    <3>4. \A m \in {Turn} \union Closers : Sent(s, m) => Sent(s, m)'
      BY <2>3 DEF Sent
    <3>5. \A i \in 1..Len(mailbox[s]) :
            mailbox[s][i] \in {Turn} \union Closers /\ Sent(s, mailbox[s][i])
      BY <1>0 DEF Mail
    <3>6. /\ Len(mailbox'[s]) = Len(mailbox[s]) + 1 /\ Len(mailbox[s]) \in Nat
          /\ mailbox'[s][Len(mailbox[s]) + 1] = c
          /\ \A j \in 1..Len(mailbox[s]) : mailbox'[s][j] = mailbox[s][j]
      BY <3>1, Posted
    <3> QED BY <3>3, <3>4, <3>5, <3>6 DEF Mail, Sent
  <2> QED BY <2>4, <2>5
<1>5. ASSUME NEW t \in Sessions, ReceiveTurn(t) PROVE Mail(s)'
  <2>1. mailbox'[s] = mailbox[s] \/ (mailbox[s] # <<>> /\ mailbox'[s] = Tail(mailbox[s]))
    BY <1>0, <1>5 DEF ReceiveTurn
  <2>2. closer' = closer
    BY <1>5 DEF ReceiveTurn
  <2> QED BY <1>2, <2>1, <2>2
<1>6. ASSUME NEW t \in Sessions, ReceiveClose(t) PROVE Mail(s)'
  <2>1. CASE s = t
    BY <1>0, <1>1, <1>6, <2>1 DEF ReceiveClose
  <2>2. CASE s # t
    <3>1. closer[Head(mailbox[t])].session = t
      BY <1>6, HeadIsSent DEF ReceiveClose
    <3>2. mailbox'[s] = mailbox[s]
      BY <1>0, <1>6, <2>2 DEF ReceiveClose
    <3>3. \A m \in Closers : closer[m].session = s => closer'[m] = closer[m]
      BY <1>0, <1>6, <2>2, <3>1 DEF ReceiveClose
    <3> QED BY <1>2, <3>2, <3>3
  <2> QED BY <2>1, <2>2
<1>7. CASE Crash
  BY <1>1, <1>7 DEF Crash
<1>8. CASE UNCHANGED mailbox /\ ~Crash /\ \A t \in Sessions : ~ReceiveClose(t)
  BY <1>2, <1>8, AwaitingStays
<1> QED
  BY ZenonT(30), <1>3, <1>4, <1>5, <1>6, <1>7, <1>8 DEF Next, Begins, Start, TaskStep, DropStep, CloseStep,
     CutWorktree, TakeDirect, BuildFails, RecordStarted, Spawn, Interrupt,
     ChannelCloses, Commit, Switch, Ask, Register, GiveUp, EndTurn, DeleteByHand, Answer, DropBegins,
     DropAnswers, DropCancels, CloseLive, CloseIndexed, CloseElsewhere, AnswerPending, CancelTurn,
     Leave, Refuse, Agree, RemoveWorktree, DeleteBranch, RecordClosed, vars, taskVars

\* A call that has the handle keeps it, and its task does not come back.
LEMMA TaskStaysGone ==
  ASSUME Inv, [Next]_vars, NEW s \in Sessions, stage[s] = "started"
  PROVE  /\ stage'[s] = "started" /\ (s \notin live => s \notin live')
         /\ task[s] = "gone" => task'[s] = "gone" /\ commits'[s] = commits[s]
<1>0. StartTypeOK /\ TaskTypeOK /\ DiskTypeOK
  BY DEF Inv, TypeOK
<1> USE DEF StartTypeOK, TaskTypeOK, DiskTypeOK
<1>1. ASSUME NEW t \in Sessions, Start(t)
      PROVE  /\ t # s /\ UNCHANGED commits /\ live' \subseteq live \union {t}
             /\ stage'[s] = stage[s] /\ task'[s] = task[s]
  <2>1. t # s
    BY <1>1 DEF Start, CutWorktree, TakeDirect, BuildFails, RecordStarted, Spawn
  <2> QED
    BY <1>0, <1>1, <2>1 DEF Start, CutWorktree, TakeDirect, BuildFails, RecordStarted, Spawn, taskVars,
       diskVars
<1>2. ASSUME NEW t \in Sessions, SendTurn(t) \/ Interrupt(t) \/ TaskStep(t) \/ Ask(t) \/ DeleteByHand(t)
      PROVE  /\ UNCHANGED <<stage, live, commits>>
             /\ \/ UNCHANGED task
                \/ \E p : task' = [task EXCEPT ![t] = p] /\ (task[t] # "gone" \/ p = "gone")
  BY <1>2 DEF SendTurn, Interrupt, TaskStep, ReceiveTurn, ReceiveClose, ChannelCloses,
     Ask, Register, GiveUp, EndTurn, DeleteByHand, taskVars, diskVars
<1>3. ASSUME NEW t \in Sessions, Commit(t) \/ Switch(t)
      PROVE  /\ UNCHANGED <<stage, live, task>> /\ task[t] # "gone"
             /\ \E held : commits' = [commits EXCEPT ![t] = held]
  BY <1>3 DEF Commit, Switch, taskVars
<1>4. ASSUME NEW W, Resolve(W)
      PROVE  task[s] = "gone" => task'[s] = "gone"
  BY <1>0, <1>4 DEF Resolve
<1>5. ASSUME NEW c \in Closers, Begins(c) \/ CloseStep(c)
      PROVE  UNCHANGED <<stage, commits>> /\ live' \subseteq live
             /\ (UNCHANGED task \/ \E W : Resolve(W))
  BY <1>5 DEF Begins, CloseLive, CloseIndexed, CloseElsewhere, CloseStep, AnswerPending, CancelTurn,
     SendClose, Leave, Refuse, Agree, RemoveWorktree, DeleteBranch, RecordClosed, taskVars, diskVars
<1>6. CASE DropBegins \/ DropStep \/ \E w \in waiting : Answer(w)
  <2>1. UNCHANGED <<stage, commits>> /\ live' \subseteq live /\ (UNCHANGED task \/ \E W : Resolve(W))
    BY <1>6 DEF DropBegins, DropStep, DropAnswers, DropCancels, Answer, taskVars, diskVars
  <2> QED BY <1>4, <2>1
<1>7. CASE Crash
  BY <1>0, <1>7 DEF Crash
<1>8. CASE UNCHANGED vars
  BY <1>8 DEF vars, taskVars, diskVars
<1>9. CASE \E t \in Sessions : Start(t)
  <2>1. PICK t \in Sessions : Start(t)
    BY <1>9
  <2> QED BY <1>1, <2>1
<1>10. CASE \E t \in Sessions : SendTurn(t) \/ Interrupt(t) \/ TaskStep(t) \/ Ask(t) \/ DeleteByHand(t)
  <2>1. PICK t \in Sessions : SendTurn(t) \/ Interrupt(t) \/ TaskStep(t) \/ Ask(t) \/ DeleteByHand(t)
    BY <1>10
  <2> QED BY <1>0, <1>2, <2>1
<1>11. CASE \E t \in Sessions : Commit(t) \/ Switch(t)
  BY <1>0, <1>3, <1>11
<1>12. CASE \E c \in Closers : Begins(c) \/ CloseStep(c)
  BY <1>4, <1>5, <1>12
<1> QED
  BY <1>6, <1>7, <1>8, <1>9, <1>10, <1>11, <1>12 DEF Next, Begins

\* What the index knows of has been cut or never will be: no later step brings
\* a directory or a branch back.
LEMMA TreeStaysGone ==
  ASSUME Inv, [Next]_vars, NEW s \in Sessions, index[s] # "none"
  PROVE  /\ index'[s] # "none"
         /\ dir[s] # "present" => dir'[s] # "present"
         /\ branch[s] # "present" => branch'[s] # "present"
         /\ branch[s] # "none" => branch'[s] # "none"
         /\ Gone(s) => Gone(s)'
<1>0. DiskTypeOK /\ stage[s] \notin {"none", "cut"}
  BY DEF Inv, TypeOK, OneStart
<1> USE DEF DiskTypeOK
<1>1. CASE /\ index'[s] = index[s] \/ index'[s] \in {"discarded", "kept"}
           /\ dir'[s] = dir[s] \/ dir'[s] = "gone"
           /\ branch'[s] = branch[s] \/ branch'[s] = "deleted"
           /\ head'[s] = head[s] \/ head'[s] = "elsewhere" \/ branch[s] = "present"
  BY <1>0, <1>1 DEF Gone
<1>2. ASSUME NEW t \in Sessions, CutWorktree(t) \/ BuildFails(t) \/ RecordStarted(t)
      PROVE  index'[s] = index[s] /\ dir'[s] = dir[s] /\ branch'[s] = branch[s] /\ head' = head
  <2>1. t # s
    BY <1>0, <1>2 DEF CutWorktree, BuildFails, RecordStarted
  <2> QED BY <1>0, <1>2, <2>1 DEF CutWorktree, BuildFails, RecordStarted
<1>3. CASE \E t \in Sessions : CutWorktree(t) \/ BuildFails(t) \/ RecordStarted(t)
  BY <1>1, <1>2, <1>3
<1>4. CASE \E t \in Sessions : DeleteByHand(t)
  BY <1>0, <1>1, <1>4 DEF DeleteByHand
<1>5. CASE \E t \in Sessions : Switch(t)
  BY <1>0, <1>1, <1>5 DEF Switch
<1>6. CASE \E c \in Closers : RemoveWorktree(c) \/ DeleteBranch(c) \/ RecordClosed(c)
  BY <1>0, <1>1, <1>6 DEF RemoveWorktree, DeleteBranch, RecordClosed
<1>7. CASE UNCHANGED <<index, dir, branch, head>>
  BY <1>1, <1>7
<1> QED
  BY ZenonT(30), <1>3, <1>4, <1>5, <1>6, <1>7 DEF Next, Start, TaskStep, CloseStep, DropStep, TakeDirect, Spawn,
     SendTurn, Interrupt, ReceiveTurn, ReceiveClose, ChannelCloses, Ask, Register, GiveUp, EndTurn,
     Commit, Answer, CloseLive, CloseIndexed, CloseElsewhere, AnswerPending, CancelTurn, SendClose,
     Leave, Refuse, Agree, DropBegins, DropAnswers, DropCancels, Crash, vars, diskVars

\* What each call of close() knows of its task stays true.
LEMMA ClosesStep ==
  ASSUME Inv, [Next]_vars, NEW c \in Closers
  PROVE  OneClose(c)'
<1> DEFINE s == closer[c].session
<1>0. closer \in [Closers -> Closing] /\ OneClose(c) /\ live \subseteq Sessions
  BY DEF Inv, TypeOK, StartTypeOK
<1>1. CASE closer'[c] = closer[c]
  BY <1>0, <1>1, TaskStaysGone, TreeStaysGone DEF OneClose, Tidying
<1>2. CASE Begins(c)
  <2>1. PICK r \in Sessions, discard \in BOOLEAN :
          CloseLive(c, r, discard) \/ CloseIndexed(c, r, discard) \/ CloseElsewhere(c, r, discard)
    BY <1>2 DEF Begins
  <2>2. /\ UNCHANGED <<stage, task, commits, index, dir, branch>>
        /\ closer'[c].session = r /\ closer'[c].seen = Nothing
        /\ \/ closer'[c].pc = "answering" /\ closer'[c].via = "handle" /\ r \in live /\ r \notin live'
           \/ closer'[c].pc = "tidying" /\ closer'[c].via # "handle" /\ index[r] # "none"
    BY <1>0, <2>1 DEF CloseLive, CloseIndexed, CloseElsewhere, Begin, taskVars, diskVars
  <2>3. r \in live => stage[r] = "started" /\ index[r] # "none"
    BY DEF Inv, TypeOK, StartTypeOK, OneStart
  <2> QED BY <2>2, <2>3 DEF OneClose, Tidying
<1>3. CASE AnswerPending(c) \/ CancelTurn(c) \/ SendClose(c)
  <2>1. /\ closer[c].pc \in {"answering", "cancelling", "sending"}
        /\ UNCHANGED <<stage, live, commits, index, dir, branch>>
        /\ \/ \E p \in {"cancelling", "sending", "awaiting"} : Step(c, p)
           \/ Step(c, "tidying") /\ task[s] = "gone" /\ UNCHANGED task
    BY <1>3 DEF AnswerPending, CancelTurn, SendClose, AfterSend, Does, taskVars, diskVars
  <2> QED BY <1>0, <2>1, StepOnly DEF OneClose, Tidying
<1>4. CASE Leave(c)
  <2>1. /\ closer[c].pc = "tidying" /\ Step(c, "recording")
        /\ UNCHANGED <<stage, live, task, commits, index, dir, branch, head>>
        /\ closer[c].discard => branch[s] = "none"
    BY <1>4 DEF Leave, Does, taskVars, diskVars
  <2>2. branch[s] = "none" /\ s \in Sessions => Gone(s)
    BY DEF Inv, OneStart, Gone
  <2>3. closer'[c].discard => Gone(s)'
    BY <1>0, <2>1, <2>2, StepOnly DEF OneClose, Gone
  <2>4. /\ closer'[c].pc = "recording" /\ closer'[c].session = s
        /\ closer'[c].via = closer[c].via /\ closer'[c].seen = Nothing
    BY <1>0, <2>1, StepOnly DEF OneClose
  <2> QED BY <1>0, <2>1, <2>3, <2>4 DEF OneClose, Tidying, Gone
<1>5. CASE Finish(c)
  BY <1>0, <1>5, FinishOnly DEF OneClose, Tidying
<1>6. CASE Agree(c)
  <2>1. /\ closer[c].pc = "tidying" /\ branch[s] # "none"
        /\ UNCHANGED <<stage, live, task, commits, index, dir, branch>>
        /\ closer'[c].pc = "removing" /\ closer'[c].session = s /\ closer'[c].via = closer[c].via
        /\ \/ closer'[c].seen = closer[c].seen /\ closer[c].pc = "tidying"
           \/ closer'[c].seen = head[s] /\ head[s] \notin commits[s]
    BY <1>0, <1>6 DEF Agree, Does, Step, HasUnmerged, Closing, taskVars, diskVars
  <2>2. closer[c].via = "handle" /\ closer[c].pc = "tidying" => closer[c].seen = Nothing
    BY <1>0 DEF OneClose
  <2>3. s \in Sessions => Nothing \notin commits[s]
    BY DEF Inv, TypeOK, DiskTypeOK, Heads, Nothing
  <2> QED BY <1>0, <2>1, <2>2, <2>3 DEF OneClose, Tidying
<1>7. CASE RemoveWorktree(c) /\ Step(c, "deleting")
  <2>1. closer[c].pc = "removing" /\ UNCHANGED <<stage, live, task, commits>>
    BY <1>7 DEF RemoveWorktree, Does, taskVars
  <2> QED BY <1>0, <1>7, <2>1, StepOnly, TreeStaysGone DEF OneClose, Tidying
<1>8. CASE DeleteBranch(c) /\ Step(c, "recording")
  <2>1. /\ closer[c].pc = "deleting" /\ UNCHANGED <<stage, live, task, commits, index, dir, head>>
        /\ ~(dir[s] = "present" /\ head[s] = "branch")
        /\ branch' = [branch EXCEPT ![s] = "deleted"]
    BY <1>0, <1>8, StepOnly, FinishOnly DEF DeleteBranch, Does, taskVars
  <2>2. /\ s \in Sessions /\ branch \in [Sessions -> {"none", "present", "deleted"}]
        /\ head[s] \in {"branch", "elsewhere"}
    BY <1>0, <2>1 DEF OneClose, Inv, TypeOK, DiskTypeOK, Heads
  <2>3. Gone(s)'
    BY <1>0, <1>8, <2>1, <2>2, StepOnly DEF Gone
  <2> QED BY <1>0, <1>8, <2>1, <2>2, <2>3, StepOnly DEF OneClose, Tidying, Gone
<1>9. ASSUME NEW t \in Sessions, ReceiveClose(t), Head(mailbox[t]) = c PROVE OneClose(c)'
  <2>1. /\ closer[c].via = "handle" /\ s = t /\ closer[c].pc = "awaiting"
        /\ UNCHANGED <<stage, live, commits, index, dir, branch>>
    BY <1>9, HeadIsSent DEF ReceiveClose, diskVars
  <2>2. task'[t] = "gone"
    BY <1>9 DEF ReceiveClose, Inv, TypeOK, TaskTypeOK
  <2>3. Step(c, "tidying")
    BY <1>9 DEF ReceiveClose, Step
  <2> QED BY <1>0, <2>1, <2>2, <2>3, StepOnly DEF OneClose, Tidying
<1>10. CASE Crash
  <2>1. /\ live' = {} /\ UNCHANGED <<commits, index, dir, branch>>
        /\ closer'[c] = IF c \in Active /\ closer[c].via # "elsewhere"
                        THEN Finished ELSE closer[c]
    BY <1>10 DEF Crash
  <2>2. CASE closer'[c] = closer[c]
    BY <1>1, <2>2
  <2>3. CASE closer'[c] = Finished
    BY <2>3 DEF OneClose, Tidying, Finished, Inert
  <2> QED BY <2>1, <2>2, <2>3
<1>11. ASSUME NEW d \in Closers \ {c}, Begins(d) \/ CloseStep(d) PROVE closer'[c] = closer[c]
  <2>1. \E r : closer' = [closer EXCEPT ![d] = r]
    BY <1>11 DEF CloseStep, AnswerPending, CancelTurn, SendClose, Leave, Refuse, Agree,
       RemoveWorktree, DeleteBranch, RecordClosed, Begins, CloseLive, CloseIndexed, CloseElsewhere,
       Begin, Step, Finish, Refused
  <2> QED BY <1>0, <2>1
<1>12. ASSUME NEW t \in Sessions, ReceiveClose(t), Head(mailbox[t]) # c
       PROVE  closer'[c] = closer[c]
  BY <1>0, <1>12 DEF ReceiveClose
<1>13. CASE UNCHANGED closer
  BY <1>1, <1>13
<1>14. CASE \E d \in Closers : Begins(d) \/ CloseStep(d)
  <2>1. ASSUME CloseStep(c) PROVE OneClose(c)'
    <3>1. RecordClosed(c) \/ Refuse(c) => Finish(c)
      BY DEF RecordClosed, Refuse, Refused
    <3>2. RemoveWorktree(c) => Finish(c) \/ Step(c, "deleting")
      BY DEF RemoveWorktree
    <3>3. DeleteBranch(c) => Finish(c) \/ Step(c, "recording")
      BY DEF DeleteBranch
    <3> QED BY <1>3, <1>4, <1>5, <1>6, <1>7, <1>8, <2>1, <3>1, <3>2, <3>3 DEF CloseStep
  <2> QED BY <1>1, <1>2, <1>11, <1>14, <2>1
<1>15. CASE \E t \in Sessions : ReceiveClose(t)
  BY <1>1, <1>9, <1>12, <1>15
<1> QED
  BY <1>10, <1>13, <1>14, <1>15 DEF Next, Begins, Start, TaskStep, DropStep,
     CutWorktree, TakeDirect, BuildFails, RecordStarted, Spawn, SendTurn, Interrupt, ReceiveTurn,
     ChannelCloses, Commit, Switch, Ask, Register, GiveUp, EndTurn, DeleteByHand, Answer, DropBegins,
     DropAnswers, DropCancels, vars

\* What was discarded stays gone, and what is on disk stays known.
LEMMA TreeStep ==
  ASSUME Inv, [Next]_vars, NEW s \in Sessions
  PROVE  OneTree(s)'
<1>0. /\ StartTypeOK /\ DiskTypeOK /\ OneTree(s) /\ OneStart(s)
      /\ index[s] # "none" => /\ index'[s] # "none"
                              /\ dir[s] # "present" => dir'[s] # "present"
                              /\ Gone(s) => Gone(s)'
  BY TreeStaysGone DEF Inv, TypeOK
<1> USE DEF StartTypeOK, DiskTypeOK, OneTree
<1>1. ASSUME NEW t \in Sessions, CutWorktree(t) PROVE OneTree(s)'
  BY <1>0, <1>1 DEF CutWorktree, OneStart
<1>2. ASSUME NEW t \in Sessions, TakeDirect(t) \/ Spawn(t) PROVE OneTree(s)'
  BY <1>0, <1>2 DEF TakeDirect, Spawn, OneStart, diskVars
<1>3. ASSUME NEW t \in Sessions, BuildFails(t) PROVE OneTree(s)'
  BY <1>0, <1>3 DEF BuildFails, IsCut, OneStart
<1>4. ASSUME NEW t \in Sessions, RecordStarted(t) PROVE OneTree(s)'
  BY <1>0, <1>4 DEF RecordStarted
<1>5. ASSUME NEW t \in Sessions, DeleteByHand(t) PROVE OneTree(s)'
  BY <1>0, <1>5 DEF DeleteByHand
<1>6. ASSUME NEW c \in Closers, RecordClosed(c) PROVE OneTree(s)'
  <2>1. /\ UNCHANGED <<stage, dir, branch, head, litter>>
        /\ \/ UNCHANGED index
           \/ index' = [index EXCEPT ![closer[c].session] =
                          IF closer[c].discard THEN "discarded" ELSE "kept"]
    BY <1>6 DEF RecordClosed
  <2>2. closer[c].discard => Gone(closer[c].session)
    BY <1>6 DEF RecordClosed, Does, Inv, OneClose
  <2>3. \A t : Gone(t) => Gone(t)'
    BY <2>1 DEF Gone
  <2> QED BY <1>0, <2>1, <2>2, <2>3
<1>7. ASSUME NEW c \in Closers, RemoveWorktree(c) \/ DeleteBranch(c) PROVE OneTree(s)'
  BY <1>0, <1>7 DEF RemoveWorktree, DeleteBranch
<1>8. CASE Crash
  BY <1>0, <1>8 DEF Crash, OneStart
<1>9. ASSUME NEW t \in Sessions, Switch(t) PROVE OneTree(s)'
  BY <1>0, <1>9 DEF Switch
<1>10. CASE UNCHANGED <<stage, index, dir, branch, head, litter>>
  BY <1>0, <1>10
<1> QED
  BY ZenonT(30), <1>1, <1>2, <1>3, <1>4, <1>5, <1>6, <1>7, <1>8, <1>9, <1>10 DEF Next, Start, TaskStep, CloseStep,
     DropStep, SendTurn, Interrupt, ReceiveTurn, ReceiveClose, ChannelCloses, Ask, Register,
     GiveUp, EndTurn, Commit, Answer, CloseLive, CloseIndexed, CloseElsewhere, AnswerPending,
     CancelTurn, SendClose, Leave, Refuse, Agree, DropBegins, DropAnswers, DropCancels, vars,
     diskVars

\* The invariant holds in every reachable state.
LEMMA AlwaysInv == Spec => []Inv
<1>1. Inv /\ [Next]_vars => Inv'
  <2> SUFFICES ASSUME Inv, [Next]_vars PROVE Inv'
    OBVIOUS
  <2>1. TypeOK'
    BY StartType, TaskType, QueueType, DiskType, CloserType DEF Inv, TypeOK
  <2>2. \A s \in Sessions : (OneStart(s) /\ Mail(s) /\ OneTree(s))'
    BY StartStep, MailStep, TreeStep
  <2>3. \A c \in Closers : OneClose(c)'
    BY ClosesStep
  <2> QED BY <2>1, <2>2, <2>3, StartType DEF Inv
<1> QED BY InitInv, <1>1, PTL DEF Spec

-----------------------------------------------------------------------------
(* What the invariant is for.                                                *)

\* Every variable keeps its type; among them, a session in the live map has a
\* task, and a question belongs to a task that asks.
THEOREM SupervisorTypes == Spec => []TypeOK
<1>1. Inv => TypeOK
  BY DEF Inv
<1> QED BY AlwaysInv, <1>1, PTL

\* close() touches the worktree of the session whose handle it took only when
\* that session's task has ended, however calls, turns and crashes interleave.
THEOREM TaskIsJoined == Spec => []JoinedBeforeTidying
<1>1. Inv => JoinedBeforeTidying
  BY DEF Inv, OneClose, JoinedBeforeTidying
<1> QED BY AlwaysInv, <1>1, PTL

\* A discard that joined its task loses no commit between its look and the
\* removal, and what the index calls discarded is gone.
THEOREM DiscardsAreWhole == Spec => []DiscardIsWhole
<1>1. Inv => JoinedDiscardLosesNothing
  BY DEF Inv, OneClose, JoinedDiscardLosesNothing
<1>2. Inv => DiscardedIsGone
  BY DEF Inv, OneTree, DiscardedIsGone
<1> QED BY AlwaysInv, <1>1, <1>2, PTL DEF DiscardIsWhole

\* A worktree on disk is one of a start that goes on, or in the index, but for
\* the litter of a start that stopped.
THEOREM WorkStaysFindable == Spec => []WorkIsFindable
<1>1. Inv => WorkIsFindable
  BY DEF Inv, OneTree, WorkIsFindable
<1> QED BY AlwaysInv, <1>1, PTL

=============================================================================
