--------------------------- MODULE TurnLoopProofs ---------------------------
(* What TurnLoop guarantees for every menu, every policy and every bound: its *)
(* types, and that every tool call gets one answer, the invariant behind the  *)
(* transcript's well-formedness, the finality of what was recorded, and the   *)
(* refinement of TurnContract.                                                *)
EXTENDS TurnLoop, FiniteSetTheorems, TLAPS

Working == {"appending", "planning", "asking", "executing", "settling"}

\* Where the walk over the batch is, phase by phase.
Flow ==
    /\ \A k \in 1..issued : asked[k] \in Menu
    /\ low <= issued + 1
    /\ pc \in Working => low <= cursor /\ cursor <= issued + 1
    /\ pc = "asking" => cursor <= issued
    /\ serial # 0 => pc = "executing" /\ serial = cursor /\ cursor <= issued
    /\ tasks # {} => pc = "executing"
    /\ tasks \subseteq low..(cursor - 1)
    /\ balance = IF pc \in {"idle", "down"} THEN 0 ELSE 1

TypeInv == TypeOK /\ Flow

\* The bounds are natural numbers.
LEMMA Bounds ==
    /\ MaxCalls \in Nat /\ MaxBatch \in Nat /\ MaxSteps \in Nat
    /\ MaxTurns \in Nat /\ MaxCrashes \in Nat
  BY BoundsAssumption

\* The loop starts with every variable in its type.
LEMMA InitType == Init => TypeInv
<1> SUFFICES ASSUME Init PROVE TypeInv
  OBVIOUS
<1> USE Bounds DEF Init
<1>1. TypeOK
  <2>1. transcript \in Seq(Item) /\ disk \in Seq(Item)
    OBVIOUS
  <2>2. /\ asked \in [CallId -> Menu \union {Nothing}]
        /\ status \in [CallId -> Status] /\ diskStatus \in [CallId -> Status]
        /\ verdict \in [CallId -> Verdicts] /\ base \in [CallId -> SUBSET CallId]
        /\ results \in [CallId -> Terminal \union {"none"}]
        /\ content \in [Files -> SUBSET CallId]
    BY DEF Status, Verdicts, NoStatus, NoVerdicts, NoBases, NoResults
  <2>3. /\ issued \in 0..MaxCalls /\ low \in 1..(MaxCalls + 1)
        /\ cursor \in 1..(MaxCalls + 1)
        /\ serial \in 0..MaxCalls /\ tasks \subseteq CallId
        /\ steps \in 0..MaxSteps /\ turns \in 0..MaxTurns /\ crashes \in 0..MaxCrashes
    OBVIOUS
  <2> QED BY <2>1, <2>2, <2>3 DEF TypeOK, ControlTypeOK, SessionTypeOK, BatchTypeOK,
                                 PolicyTypeOK, Phases, Outcomes
<1>2. Flow
  BY DEF Flow, Working
<1> QED BY <1>1, <1>2 DEF TypeInv

-----------------------------------------------------------------------------
(* Every step keeps every part of the type invariant.  A part is disturbed   *)
(* by few actions; the others leave its variables alone.                     *)

\* The policy's memory holds subjects a tool_use can have.
LEMMA PolicyStep == TypeInv /\ [Next]_vars => PolicyTypeOK'
<1> SUFFICES ASSUME TypeInv, [Next]_vars PROVE PolicyTypeOK'
  OBVIOUS
<1> USE DEF PolicyTypeOK
<1>0. PolicyTypeOK /\ (pc \in {"planning", "asking"} /\ cursor <= issued => asked[cursor] \in Menu)
  BY Bounds DEF TypeInv, TypeOK, Flow, BatchTypeOK, SessionTypeOK, Working
<1>1. CASE StartTurn
  BY <1>0, <1>1 DEF StartTurn
<1>2. CASE PlanCall
  BY <1>0, <1>2 DEF PlanCall, Unplannable, RefusedAgain, Allowed, Denied, Asks, RememberRefusal
<1>3. CASE ApproveSession
  BY <1>0, <1>3 DEF ApproveSession, SubjectOf, TypeInv, Flow
<1>4. CASE DenyCall
  BY <1>0, <1>4 DEF DenyCall, MayDeny, RememberRefusal, TypeInv, Flow
<1>5. CASE SerialPanic \/ Crash
  BY <1>5 DEF SerialPanic, Crash, Die
<1>6. CASE UNCHANGED <<denied, grants>>
  BY <1>0, <1>6
<1>7. CASE UNCHANGED vars
  BY <1>0, <1>7 DEF vars, agentVars
<1> QED
  BY <1>1, <1>2, <1>3, <1>4, <1>5, <1>6, <1>7
     DEF Next, Loop, Answer, BeginStep, StepLimit, SampleCancelled, SampleEnds, SampleAnswers,
         AppendCall, Appended, Planned, TakeAnswered, SpawnRead, StartSerial, FinishSerial,
         FinishTask, Executed, Settle, Settled, ResolvePending, Dispatched, EndTurn, Approve,
         Cancel, Resume, agentVars, executeFrame

\* The transcript, the records and the statuses keep their types.
LEMMA SessionStep == TypeInv /\ [Next]_vars => SessionTypeOK'
<1> SUFFICES ASSUME TypeInv, [Next]_vars PROVE SessionTypeOK'
  OBVIOUS
<1> USE Bounds DEF SessionTypeOK, CallId, Status, Terminal, Unfinished
<1>0. SessionTypeOK /\ cursor \in Nat \ {0} /\ low \in Nat \ {0} /\ serial \in Nat
  BY DEF TypeInv, TypeOK, BatchTypeOK
<1>1. UserItem \in Item /\ InterruptedItem \in Item /\ \A k \in CallId : CallItem(k) \in Item
  BY DEF UserItem, InterruptedItem, CallItem, Item
<1>2. ASSUME NEW k \in CallId, NEW s \in Status, SetStatus(k, s)
      PROVE status' \in [CallId -> Status] /\ diskStatus' \in [CallId -> Status]
  BY <1>0, <1>2 DEF SetStatus
<1>3. ASSUME NEW i \in Item, AppendItem(i)
      PROVE transcript' \in Seq(Item) /\ disk' \in Seq(Item)
  BY <1>0, <1>3 DEF AppendItem
<1>4. CASE StartTurn
  BY <1>0, <1>1, <1>3, <1>4 DEF StartTurn
<1>5. CASE SampleCancelled
  BY <1>0, <1>1, <1>5 DEF SampleCancelled, PushInterrupted, diskVars
<1>6. CASE SampleAnswers
  BY <1>0, <1>6 DEF SampleAnswers, diskVars
<1>7. CASE AppendCall
  BY <1>0, <1>1, <1>2, <1>3, <1>7 DEF AppendCall
<1>8. CASE PlanCall
  BY <1>0, <1>2, <1>8 DEF PlanCall, Unplannable, RefusedAgain, Allowed, Denied, Asks, Decided,
                          dispatchFrame
<1>9. CASE StartSerial
  BY <1>0, <1>2, <1>9 DEF StartSerial, Walking, executeFrame, dispatchFrame
<1>10. CASE Settle
  <2>1. results[cursor] \in Status
    BY <1>0, <1>10 DEF Settle, TypeInv, TypeOK, BatchTypeOK
  <2> QED BY <1>0, <1>2, <1>10, <2>1 DEF Settle, executeFrame, dispatchFrame
<1>11. CASE ResolvePending
  BY <1>0, <1>2, <1>11 DEF ResolvePending, UnfinishedCalls
<1>12. CASE Dispatched
  <2>1. PushInterrupted \/ UNCHANGED transcript
    <3>1. CASE cancelled BY <1>12, <3>1 DEF Dispatched
    <3>2. CASE ~cancelled BY <1>12, <3>2 DEF Dispatched
    <3> QED BY <3>1, <3>2
  <2>2. transcript' \in Seq(Item)
    <3>1. CASE PushInterrupted BY <1>0, <1>1, <3>1 DEF PushInterrupted
    <3>2. CASE UNCHANGED transcript BY <1>0, <3>2
    <3> QED BY <2>1, <3>1, <3>2
  <2>3. UNCHANGED <<asked, status, issued, disk, diskStatus>>
    BY <1>12 DEF Dispatched, diskVars
  <2> QED BY <1>0, <2>2, <2>3
<1>13. CASE SerialPanic \/ Crash
  <2>1. transcript' = <<>> /\ status' = NoStatus /\ UNCHANGED <<asked, issued, disk, diskStatus>>
    BY <1>13 DEF SerialPanic, Crash, Die, diskVars
  <2>2. transcript' \in Seq(Item)
    BY <2>1
  <2>3. status' \in [CallId -> Status]
    BY <2>1 DEF NoStatus
  <2> QED BY <1>0, <2>1, <2>2, <2>3
<1>14. CASE Resume
  BY <1>0, <1>14 DEF Resume, Repaired, diskVars
<1>15. CASE UNCHANGED <<transcript, asked, status, issued, disk, diskStatus>>
  BY <1>0, <1>15
<1> QED
  BY <1>4, <1>5, <1>6, <1>7, <1>8, <1>9, <1>10, <1>11, <1>12, <1>13, <1>14, <1>15
     DEF Next, Loop, Answer, BeginStep, StepLimit, SampleEnds, Appended, Planned,
         TakeAnswered, SpawnRead, FinishSerial, FinishTask, Executed, Settled, EndTurn,
         Approve, ApproveSession, DenyCall, Cancel, Decided, vars, sessionVars, diskVars,
         executeFrame, dispatchFrame

\* Phases, counters and the pairing of turn events keep their types.
LEMMA ControlStep == TypeInv /\ [Next]_vars => ControlTypeOK'
<1> SUFFICES ASSUME TypeInv, [Next]_vars PROVE ControlTypeOK'
  OBVIOUS
<1> USE Bounds DEF ControlTypeOK, Phases, Outcomes
<1>0. ControlTypeOK /\ balance = IF pc \in {"idle", "down"} THEN 0 ELSE 1
  BY DEF TypeInv, TypeOK, Flow
<1>1. CASE StartTurn
  BY <1>0, <1>1 DEF StartTurn
<1>2. CASE BeginStep \/ StepLimit
  BY <1>0, <1>2 DEF BeginStep, StepLimit, StepsLeft, End
<1>3. CASE SampleCancelled \/ SampleEnds \/ SampleAnswers
  BY <1>0, <1>3 DEF SampleCancelled, SampleEnds, SampleAnswers, End, turnVars
<1>4. CASE AppendCall \/ Appended
  BY <1>0, <1>4 DEF AppendCall, Appended, End, turnVars
<1>5. CASE PlanCall
  BY <1>0, <1>5 DEF PlanCall, Unplannable, RefusedAgain, Allowed, Denied, Asks, Decided,
                    dispatchFrame, turnVars
<1>6. CASE Approve \/ ApproveSession \/ DenyCall \/ Planned
  BY <1>0, <1>6 DEF Approve, ApproveSession, DenyCall, Planned, Decided, dispatchFrame, turnVars
<1>7. CASE TakeAnswered \/ SpawnRead \/ StartSerial \/ FinishSerial \/ FinishTask \/ Executed \/ Settle
  BY <1>0, <1>7 DEF TakeAnswered, SpawnRead, StartSerial, FinishSerial, FinishTask, Executed,
                    Settle, executeFrame, dispatchFrame, turnVars
<1>8. CASE Settled \/ ResolvePending
  BY <1>0, <1>8 DEF Settled, ResolvePending, turnVars
<1>9. CASE Dispatched
  <2>1. CASE cancelled BY <1>0, <1>9, <2>1 DEF Dispatched, End
  <2>2. CASE ~cancelled BY <1>0, <1>9, <2>2 DEF Dispatched
  <2> QED BY <2>1, <2>2
<1>10. CASE EndTurn
  BY <1>0, <1>10 DEF EndTurn
<1>11. CASE SerialPanic \/ Crash
  BY <1>0, <1>11 DEF SerialPanic, Crash, Die
<1>12. CASE Cancel \/ Resume
  BY <1>0, <1>12 DEF Cancel, Resume, turnVars
<1>13. CASE UNCHANGED vars
  BY <1>0, <1>13 DEF vars, turnVars
<1> QED
  BY <1>1, <1>2, <1>3, <1>4, <1>5, <1>6, <1>7, <1>8, <1>9, <1>10, <1>11, <1>12, <1>13
     DEF Next, Loop, Answer

\* What dispatch works on keeps its type.
LEMMA BatchStep == TypeInv /\ [Next]_vars => BatchTypeOK'
<1> SUFFICES ASSUME TypeInv, [Next]_vars PROVE BatchTypeOK'
  OBVIOUS
<1> USE Bounds DEF BatchTypeOK, CallId, Verdicts, Terminal
<1>0. /\ BatchTypeOK /\ issued \in 0..MaxCalls
      /\ pc \in Working => low <= cursor /\ cursor <= issued + 1
      /\ pc = "asking" => cursor <= issued
      /\ \A k \in 1..issued : asked[k] \in Menu
      /\ serial # 0 => cursor <= issued
  BY DEF TypeInv, TypeOK, SessionTypeOK, Flow
<1>a. ASSUME NEW v \in Verdicts, Decided(v), cursor \in 1..issued
      PROVE verdict' \in [CallId -> Verdicts] /\ cursor' \in 1..(MaxCalls + 1)
  BY <1>0, <1>a DEF Decided
<1>1. CASE SampleAnswers
  BY <1>0, <1>1 DEF SampleAnswers
<1>2. CASE AppendCall
  BY <1>0, <1>2 DEF AppendCall
<1>3. CASE Appended
  BY <1>0, <1>3 DEF Appended
<1>4. CASE PlanCall
  <2>1. cursor \in 1..issued /\ asked[cursor] \in Menu
    BY <1>0, <1>4 DEF PlanCall
  <2>2. base' \in [CallId -> SUBSET CallId]
    <3>1. CASE UNCHANGED base BY <1>0, <3>1
    <3>2. CASE base' = [base EXCEPT ![cursor] = content[asked[cursor].file]]
      <4>1. content[asked[cursor].file] \in SUBSET CallId
        BY <1>0, <2>1 DEF Files
      <4> QED BY <1>0, <3>2, <4>1
    <3> QED BY <1>4, <3>1, <3>2 DEF PlanCall, Unplannable, RefusedAgain, Allowed, Denied, Asks,
                                   Evaluated, Plan
  <2>3. verdict' \in [CallId -> Verdicts] /\ cursor' \in 1..(MaxCalls + 1)
    <3>1. Decided("failed") \/ Decided("denied") \/ Decided("run") \/ UNCHANGED <<verdict, cursor>>
      BY <1>4 DEF PlanCall, Unplannable, RefusedAgain, Allowed, Denied, Asks
    <3> QED BY <1>0, <1>a, <2>1, <3>1
  <2>4. UNCHANGED <<low, results, serial, tasks, content>>
    BY <1>4 DEF PlanCall, dispatchFrame
  <2> QED BY <1>0, <2>2, <2>3, <2>4
<1>5. CASE Approve \/ ApproveSession \/ DenyCall
  <2>1. cursor \in 1..issued /\ (Decided("run") \/ Decided("denied"))
    BY <1>0, <1>5 DEF Approve, ApproveSession, DenyCall, MayDeny, Working
  <2>2. UNCHANGED <<low, results, serial, tasks, content, base>>
    BY <1>5 DEF Approve, ApproveSession, DenyCall, dispatchFrame
  <2> QED BY <1>0, <1>a, <2>1, <2>2
<1>6. CASE Planned
  BY <1>0, <1>6 DEF Planned, dispatchFrame
<1>7. CASE TakeAnswered
  <2>1. cursor \in CallId /\ verdict[cursor] \in Terminal \union {"none"}
    BY <1>0, <1>7 DEF TakeAnswered, Walking
  <2> QED BY <1>0, <1>7, <2>1 DEF TakeAnswered, Walking, executeFrame, dispatchFrame
<1>8. CASE SpawnRead \/ StartSerial
  <2>1. /\ cursor \in 1..issued
        /\ tasks' \in {tasks, tasks \union {cursor}}
        /\ cursor' \in {cursor, cursor + 1} /\ serial' \in {serial, cursor}
    BY <1>0, <1>8 DEF SpawnRead, StartSerial, Walking
  <2>2. UNCHANGED <<low, verdict, results, content, base>>
    BY <1>8 DEF SpawnRead, StartSerial, executeFrame, dispatchFrame
  <2> QED BY <1>0, <2>1, <2>2
<1>9. CASE FinishSerial
  <2>1. serial \in CallId /\ serial \in 1..issued
    BY <1>0, <1>9 DEF FinishSerial, TypeInv, Flow
  <2>2. ToolOutcomes(serial) \subseteq Terminal
    BY DEF ToolOutcomes
  <2>3. results' \in [CallId -> Terminal \union {"none"}]
    BY <1>0, <1>9, <2>1, <2>2 DEF FinishSerial
  <2>4. Updated(serial) \in [Files -> SUBSET CallId]
    BY <1>0, <2>1 DEF Updated
  <2>5. content' \in [Files -> SUBSET CallId]
    BY <1>0, <1>9, <2>4 DEF FinishSerial
  <2> QED BY <1>0, <1>9, <2>3, <2>5 DEF FinishSerial, executeFrame, dispatchFrame
<1>10. CASE FinishTask
  <2>1. \A k \in tasks : ToolOutcomes(k) \subseteq Terminal
    BY DEF ToolOutcomes
  <2>2. results' \in [CallId -> Terminal \union {"none"}] /\ tasks' \subseteq CallId
    BY <1>0, <1>10, <2>1 DEF FinishTask
  <2> QED BY <1>0, <1>10, <2>2 DEF FinishTask, executeFrame, dispatchFrame
<1>11. CASE Executed \/ Settle
  <2>1. cursor' = low \/ (cursor \in 1..issued /\ cursor' = cursor + 1)
    BY <1>0, <1>11 DEF Executed, Settle
  <2>2. UNCHANGED <<low, verdict, base, results, serial, tasks, content>>
    BY <1>11 DEF Executed, Settle, executeFrame, dispatchFrame
  <2> QED BY <1>0, <2>1, <2>2
<1>12. CASE Dispatched
  BY <1>0, <1>12 DEF Dispatched, ForgetBatch, NoVerdicts, NoBases, NoResults
<1>13. CASE SerialPanic \/ Crash
  BY <1>0, <1>13 DEF SerialPanic, Crash, Die, ForgetBatch, NoVerdicts, NoBases, NoResults
<1>14. CASE UNCHANGED <<verdict, base, low, cursor, serial, tasks, results, content>>
  BY <1>0, <1>14
<1> QED
  BY <1>1, <1>2, <1>3, <1>4, <1>5, <1>6, <1>7, <1>8, <1>9, <1>10, <1>11, <1>12, <1>13, <1>14
     DEF Next, Loop, Answer, StartTurn, BeginStep, StepLimit, SampleCancelled, SampleEnds,
         Settled, ResolvePending, EndTurn, Cancel, Resume, agentVars, vars

\* The walk stays inside the batch, and what runs stays behind it.
LEMMA FlowStep == TypeInv /\ [Next]_vars => Flow'
<1> SUFFICES ASSUME TypeInv, [Next]_vars PROVE Flow'
  OBVIOUS
<1> USE Bounds DEF Flow, Working
<1>0. /\ Flow /\ pc \in Phases /\ issued \in 0..MaxCalls /\ serial \in Nat
      /\ low \in 1..(MaxCalls + 1) /\ cursor \in 1..(MaxCalls + 1)
  BY DEF TypeInv, TypeOK, ControlTypeOK, SessionTypeOK, BatchTypeOK
<1>1. CASE StartTurn
  BY <1>0, <1>1 DEF StartTurn
<1>2. CASE BeginStep \/ StepLimit
  BY <1>0, <1>2 DEF BeginStep, StepLimit, End, agentVars, sessionVars
<1>3. CASE SampleCancelled \/ SampleEnds
  BY <1>0, <1>3 DEF SampleCancelled, SampleEnds, End, agentVars, sessionVars
<1>4. CASE SampleAnswers
  <2>1. PICK n \in 0..MaxBatch :
          /\ issued + n <= MaxCalls
          /\ \E reqs \in [1..n -> Menu] :
               asked' = [k \in CallId |-> IF k \in (issued + 1)..(issued + n)
                                          THEN reqs[k - issued] ELSE asked[k]]
          /\ low' = issued + 1 /\ cursor' = issued + 1 /\ issued' = issued + n
    BY <1>4 DEF SampleAnswers
  <2>2. PICK reqs \in [1..n -> Menu] :
          asked' = [k \in CallId |-> IF k \in (issued + 1)..(issued + n)
                                     THEN reqs[k - issued] ELSE asked[k]]
    BY <2>1
  <2>3. \A k \in 1..issued' : asked'[k] \in Menu
    <3> SUFFICES ASSUME NEW k \in 1..issued' PROVE asked'[k] \in Menu
      OBVIOUS
    <3>1. k \in CallId
      BY <1>0, <2>1 DEF CallId
    <3>2. CASE k \in 1..issued
      BY <1>0, <2>2, <3>1, <3>2
    <3>3. CASE k \in (issued + 1)..(issued + n)
      <4>1. k - issued \in 1..n
        BY <1>0, <2>1, <3>3
      <4> QED BY <2>2, <3>1, <3>3, <4>1
    <3> QED BY <1>0, <2>1, <3>2, <3>3
  <2>4. pc' = "appending" /\ pc = "sampling" /\ UNCHANGED <<serial, tasks, balance>>
    BY <1>4 DEF SampleAnswers, turnVars
  <2> QED BY <1>0, <2>1, <2>3, <2>4
<1>5. CASE AppendCall
  BY <1>0, <1>5 DEF AppendCall, turnVars
<1>6. CASE Appended
  BY <1>0, <1>6 DEF Appended, Batch, End, sessionVars
<1>7. CASE PlanCall
  <2>1. \/ pc' = "planning" /\ cursor' = cursor + 1
        \/ pc' = "asking" /\ cursor' = cursor
    BY <1>7 DEF PlanCall, Unplannable, RefusedAgain, Allowed, Denied, Asks, Decided
  <2>2. pc = "planning" /\ cursor <= issued
        /\ UNCHANGED <<asked, issued, low, serial, tasks, balance>>
    BY <1>7 DEF PlanCall, dispatchFrame, turnVars
  <2> QED BY <1>0, <2>1, <2>2
<1>8. CASE Approve \/ ApproveSession \/ DenyCall
  <2>1. /\ pc = "asking" /\ pc' = "planning" /\ cursor' = cursor + 1
        /\ UNCHANGED <<asked, issued, low, serial, tasks, balance>>
    BY <1>8 DEF Approve, ApproveSession, DenyCall, MayDeny, Decided, dispatchFrame, turnVars
  <2> QED BY <1>0, <2>1
<1>9. CASE Planned
  BY <1>0, <1>9 DEF Planned, dispatchFrame, turnVars
<1>10. CASE TakeAnswered \/ SpawnRead
  <2>1. /\ pc = "executing" /\ cursor <= issued /\ serial = 0 /\ cursor' = cursor + 1
        /\ tasks' \in {tasks, tasks \union {cursor}}
        /\ UNCHANGED <<pc, asked, issued, low, serial, balance>>
    BY <1>10 DEF TakeAnswered, SpawnRead, Walking, executeFrame, dispatchFrame, turnVars
  <2> QED BY <1>0, <2>1
<1>11. CASE StartSerial
  BY <1>0, <1>11 DEF StartSerial, Walking, executeFrame, dispatchFrame, turnVars
<1>12. CASE FinishSerial
  BY <1>0, <1>12 DEF FinishSerial, executeFrame, dispatchFrame, turnVars
<1>13. CASE FinishTask
  BY <1>0, <1>13 DEF FinishTask, executeFrame, dispatchFrame, turnVars
<1>14. CASE Executed
  BY <1>0, <1>14 DEF Executed, Joined, executeFrame, dispatchFrame, turnVars
<1>15. CASE Settle
  BY <1>0, <1>15 DEF Settle, executeFrame, dispatchFrame, turnVars
<1>16. CASE Settled \/ ResolvePending
  BY <1>0, <1>16 DEF Settled, ResolvePending, agentVars, sessionVars, turnVars
<1>17. CASE Dispatched
  <2>1. /\ pc = "resolving" /\ pc' \in {"step", "ending"}
        /\ UNCHANGED <<asked, issued, serial, tasks, balance>> /\ low' = issued + 1
    <3>1. CASE cancelled BY <1>17, <3>1 DEF Dispatched, End, ForgetBatch
    <3>2. CASE ~cancelled BY <1>17, <3>2 DEF Dispatched, ForgetBatch
    <3> QED BY <3>1, <3>2
  <2> QED BY <1>0, <2>1
<1>18. CASE EndTurn
  BY <1>0, <1>18 DEF EndTurn, agentVars, sessionVars
<1>19. CASE SerialPanic \/ Crash
  BY <1>0, <1>19 DEF SerialPanic, Crash, Die, ForgetBatch
<1>20. CASE Cancel \/ Resume
  BY <1>0, <1>20 DEF Cancel, Resume, agentVars, sessionVars, turnVars
<1>21. CASE UNCHANGED vars
  BY <1>0, <1>21 DEF vars, agentVars, sessionVars, turnVars
<1> QED
  BY <1>1, <1>2, <1>3, <1>4, <1>5, <1>6, <1>7, <1>8, <1>9, <1>10, <1>11, <1>12, <1>13, <1>14,
     <1>15, <1>16, <1>17, <1>18, <1>19, <1>20, <1>21 DEF Next, Loop, Answer

\* The token is a Boolean: the provers need to be told.
LEMMA TokenStep == TypeInv /\ [Next]_vars => cancelled' \in BOOLEAN
<1> SUFFICES ASSUME TypeInv, [Next]_vars PROVE cancelled' \in BOOLEAN
  OBVIOUS
<1>1. cancelled' \in {TRUE, FALSE, cancelled}
  BY DEF Next, Loop, Answer, vars, StartTurn, BeginStep, StepLimit, SampleCancelled, SampleEnds,
         SampleAnswers, AppendCall, Appended, PlanCall, Planned, TakeAnswered, SpawnRead,
         StartSerial, FinishSerial, FinishTask, Executed, Settle, Settled, ResolvePending,
         Dispatched, EndTurn, Approve, ApproveSession, DenyCall, SerialPanic, Cancel, Crash,
         Resume, Die, dispatchFrame, executeFrame
<1>2. cancelled \in BOOLEAN
  BY Zenon DEF TypeInv, TypeOK
<1> QED BY <1>1, <1>2, Zenon

\* Every step keeps the types and the flow of the walk.
LEMMA StepType == TypeInv /\ [Next]_vars => TypeInv'
  BY PolicyStep, SessionStep, ControlStep, BatchStep, FlowStep, TokenStep DEF TypeInv, TypeOK

\* Types and flow hold in every reachable state.
LEMMA AlwaysTyped == Spec => []TypeInv
  BY InitType, StepType, PTL DEF Spec

\* Every variable of the loop has its type in every reachable state.
THEOREM TypeCorrect == Spec => []TypeOK
<1>1. TypeInv => TypeOK
  BY DEF TypeInv
<1> QED BY AlwaysTyped, <1>1, PTL

-----------------------------------------------------------------------------
(* Answers.                                                                 *)

InDispatch == {"appending", "planning", "asking", "executing", "settling", "resolving"}

\* The transcript and the record of call k agree, except for what a resume
\* repaired; k is unfinished only while its own batch is being dispatched, and
\* until phase two is over no call of the batch has its answer.
OneStatus(k) ==
    /\ pc = "down" => status[k] = "none"
    /\ pc # "down" => \/ status[k] = diskStatus[k]
                      \/ status[k] = "cancelled" /\ diskStatus[k] \in Unfinished
    /\ k > issued => diskStatus[k] = "none"
    /\ status[k] \in Unfinished => k \in Batch /\ pc \in InDispatch
    /\ pc = "appending" /\ k \in Batch =>
          /\ status[k] = diskStatus[k]
          /\ diskStatus[k] = IF k < cursor THEN "pending" ELSE "none"
    /\ pc \in {"planning", "asking", "executing"} /\ k \in Batch => status[k] \in Unfinished
    /\ pc = "settling" /\ k \in cursor..issued => status[k] \in Unfinished

AnswerInv == \A k \in CallId : OneStatus(k)

\* A status written reaches the transcript and the record, and no other call.
LEMMA SetStatusLocal ==
  ASSUME TypeInv, NEW k \in CallId, NEW s, SetStatus(k, s)
  PROVE  /\ status'[k] = s /\ diskStatus'[k] = s
         /\ \A j \in CallId \ {k} : status'[j] = status[j] /\ diskStatus'[j] = diskStatus[j]
  BY DEF SetStatus, TypeInv, TypeOK, SessionTypeOK

\* Before any call is issued, no call has a status anywhere.
LEMMA InitAnswer == Init => AnswerInv
  BY DEF Init, AnswerInv, OneStatus, Batch, CallId, NoStatus, Unfinished

\* The types the steps below need, in one place.
LEMMA Numbers ==
  ASSUME TypeInv
  PROVE  /\ MaxCalls \in Nat
         /\ low \in 1..(MaxCalls + 1) /\ cursor \in 1..(MaxCalls + 1)
         /\ issued \in 0..MaxCalls /\ serial \in 0..MaxCalls
         /\ status \in [CallId -> Status] /\ diskStatus \in [CallId -> Status]
         /\ results \in [CallId -> Terminal \union {"none"}]
         /\ low <= issued + 1
         /\ pc \in Working => low <= cursor /\ cursor <= issued + 1
         /\ pc = "asking" => cursor <= issued
         /\ serial # 0 => pc = "executing" /\ serial = cursor /\ cursor <= issued
  BY Bounds DEF TypeInv, TypeOK, SessionTypeOK, BatchTypeOK, Flow

\* No step breaks it.
LEMMA StepAnswer == TypeInv /\ AnswerInv /\ [Next]_vars => AnswerInv'
<1> SUFFICES ASSUME TypeInv, AnswerInv, [Next]_vars, NEW k \in CallId PROVE OneStatus(k)'
  BY DEF AnswerInv, CallId
<1> USE DEF OneStatus, Batch, CallId, InDispatch, Unfinished
<1>0. OneStatus(k) /\ k \in Nat
  BY DEF AnswerInv
<1>1. CASE StartTurn
  BY <1>0, <1>1 DEF StartTurn
<1>2. CASE BeginStep \/ StepLimit \/ SampleCancelled \/ SampleEnds
  <2>1. /\ pc \in {"step", "sampling"} /\ pc' \in {"sampling", "ending"}
        /\ UNCHANGED <<status, diskStatus, low, issued>>
    BY <1>2 DEF BeginStep, StepLimit, SampleCancelled, SampleEnds, End, agentVars, sessionVars,
                diskVars
  <2> QED BY <1>0, <2>1
<1>3. CASE SampleAnswers
  <2>1. /\ pc = "sampling" /\ pc' = "appending" /\ UNCHANGED <<status, diskStatus>>
        /\ issued' >= issued /\ issued' \in Nat
        /\ low' = issued + 1 /\ cursor' = issued + 1
    BY <1>3, Numbers, Bounds DEF SampleAnswers, diskVars
  <2> QED BY <1>0, <2>1, Numbers
<1>4. CASE AppendCall
  <2>1. cursor \in CallId /\ cursor <= issued /\ SetStatus(cursor, "pending")
        /\ pc = "appending" /\ cursor' = cursor + 1 /\ UNCHANGED <<pc, low, issued>>
    BY <1>4, Numbers DEF AppendCall
  <2>2. CASE k = cursor
    BY <1>0, <2>1, <2>2, SetStatusLocal, Numbers DEF Working
  <2>3. CASE k # cursor
    <3>1. status'[k] = status[k] /\ diskStatus'[k] = diskStatus[k]
      BY <2>1, <2>3, SetStatusLocal
    <3> QED BY <1>0, <2>1, <2>3, <3>1, Numbers
  <2> QED BY <2>2, <2>3
<1>5. CASE Appended
  <2>1. /\ pc = "appending" /\ cursor > issued /\ UNCHANGED <<status, diskStatus, low, issued>>
        /\ pc' \in {"ending", "planning"} /\ (pc' = "ending" => Batch = {})
    BY <1>5 DEF Appended, End, sessionVars, diskVars
  <2>2. CASE k \in Batch
    BY <1>0, <2>1, <2>2, Numbers
  <2>3. CASE k \notin Batch
    BY <1>0, <2>1, <2>3
  <2> QED BY <2>2, <2>3
<1>6. CASE PlanCall
  <2>1. /\ pc = "planning" /\ pc' \in {"planning", "asking"} /\ UNCHANGED <<low, issued>>
        /\ cursor <= issued
        /\ UNCHANGED <<status, diskStatus>> \/ SetStatus(cursor, "awaiting")
    BY <1>6 DEF PlanCall, Unplannable, RefusedAgain, Allowed, Denied, Asks, Decided, dispatchFrame
  <2>2. cursor \in CallId /\ cursor \in Batch
    BY <2>1, Numbers DEF Working
  <2>3. CASE SetStatus(cursor, "awaiting") /\ k = cursor
    BY <1>0, <2>1, <2>2, <2>3, SetStatusLocal, Numbers
  <2>4. CASE UNCHANGED <<status, diskStatus>> \/ k # cursor
    <3>1. status'[k] = status[k] /\ diskStatus'[k] = diskStatus[k]
      BY <2>1, <2>2, <2>4, SetStatusLocal
    <3> QED BY <1>0, <2>1, <3>1
  <2> QED BY <2>1, <2>3, <2>4
<1>7. CASE Approve \/ ApproveSession \/ DenyCall \/ Planned
  <2>1. /\ pc \in {"asking", "planning"} /\ pc' \in {"planning", "executing"}
        /\ UNCHANGED <<status, diskStatus, low, issued>>
    BY <1>7 DEF Approve, ApproveSession, DenyCall, Planned, MayDeny, Decided, dispatchFrame
  <2> QED BY <1>0, <2>1
<1>8. CASE TakeAnswered \/ SpawnRead \/ FinishSerial \/ FinishTask \/ Executed
  <2>1. /\ pc = "executing" /\ UNCHANGED <<status, diskStatus, low, issued>>
        /\ pc' = "executing" \/ (pc' = "settling" /\ cursor' = low)
    BY <1>8 DEF TakeAnswered, SpawnRead, FinishSerial, FinishTask, Executed, Walking,
                executeFrame, dispatchFrame
  <2> QED BY <1>0, <2>1, Numbers
<1>9. CASE StartSerial
  <2>1. /\ pc = "executing" /\ cursor <= issued /\ SetStatus(cursor, "running")
        /\ UNCHANGED <<pc, low, issued>>
    BY <1>9 DEF StartSerial, Walking, executeFrame, dispatchFrame
  <2>2. cursor \in CallId /\ cursor \in Batch
    BY <2>1, Numbers DEF Working
  <2>3. CASE k = cursor
    BY <1>0, <2>1, <2>2, <2>3, SetStatusLocal, Numbers
  <2>4. CASE k # cursor
    BY <1>0, <2>1, <2>2, <2>4, SetStatusLocal
  <2> QED BY <2>3, <2>4
<1>10. CASE Settle
  <2>1. /\ pc = "settling" /\ cursor <= issued /\ cursor' = cursor + 1
        /\ UNCHANGED <<pc, low, issued>>
        /\ \/ UNCHANGED <<status, diskStatus>>
           \/ SetStatus(cursor, results[cursor]) /\ results[cursor] # "none"
    BY <1>10 DEF Settle, executeFrame, dispatchFrame
  <2>2. cursor \in CallId /\ cursor \in Batch /\ results[cursor] \in Terminal \union {"none"}
    BY <2>1, Numbers DEF Working
  <2>3. CASE SetStatus(cursor, results[cursor]) /\ results[cursor] # "none" /\ k = cursor
    BY <1>0, <2>1, <2>2, <2>3, SetStatusLocal, Numbers DEF Terminal
  <2>4. CASE UNCHANGED <<status, diskStatus>> \/ k # cursor
    <3>1. status'[k] = status[k] /\ diskStatus'[k] = diskStatus[k]
      BY <2>1, <2>2, <2>4, SetStatusLocal
    <3> QED BY <1>0, <2>1, <3>1, Numbers
  <2> QED BY <2>1, <2>3, <2>4
<1>11. CASE Settled
  BY <1>0, <1>11 DEF Settled, agentVars, sessionVars, diskVars
<1>12. CASE ResolvePending
  <2>1. PICK j \in UnfinishedCalls : SetStatus(j, "cancelled")
    BY <1>12 DEF ResolvePending
  <2>2. j \in CallId /\ pc = "resolving" /\ UNCHANGED <<pc, low, issued>>
    BY <1>12, <2>1, Numbers DEF ResolvePending, UnfinishedCalls, agentVars
  <2>3. CASE k = j
    BY <1>0, <2>1, <2>2, <2>3, SetStatusLocal, Numbers DEF UnfinishedCalls
  <2>4. CASE k # j
    BY <1>0, <2>1, <2>2, <2>4, SetStatusLocal
  <2> QED BY <2>3, <2>4
<1>13. CASE Dispatched
  <2>1. /\ pc = "resolving" /\ pc' \in {"step", "ending"} /\ UnfinishedCalls = {}
        /\ UNCHANGED <<status, diskStatus, issued>>
    <3>1. CASE cancelled BY <1>13, <3>1 DEF Dispatched, End, diskVars
    <3>2. CASE ~cancelled BY <1>13, <3>2 DEF Dispatched, diskVars
    <3> QED BY <3>1, <3>2
  <2>2. status[k] \notin Unfinished
    BY <1>0, <2>1, Numbers DEF UnfinishedCalls
  <2> QED BY <1>0, <2>1, <2>2
<1>14. CASE EndTurn
  BY <1>0, <1>14 DEF EndTurn, agentVars, sessionVars, diskVars
<1>15. CASE SerialPanic \/ Crash
  <2>1. pc' = "down" /\ status' = NoStatus /\ UNCHANGED <<issued, diskStatus>>
    BY <1>15 DEF SerialPanic, Crash, Die, diskVars
  <2> QED BY <1>0, <2>1 DEF NoStatus
<1>16. CASE Cancel
  BY <1>0, <1>16 DEF Cancel, agentVars, sessionVars, diskVars
<1>17. CASE Resume
  <2>1. pc' = "idle" /\ status'[k] = Repaired(diskStatus[k]) /\ UNCHANGED <<issued, diskStatus>>
    BY <1>17 DEF Resume, diskVars
  <2> QED BY <1>0, <2>1 DEF Repaired
<1>18. CASE UNCHANGED vars
  BY <1>0, <1>18 DEF vars, agentVars, sessionVars, diskVars
<1> QED
  BY <1>1, <1>2, <1>3, <1>4, <1>5, <1>6, <1>7, <1>8, <1>9, <1>10, <1>11, <1>12, <1>13, <1>14,
     <1>15, <1>16, <1>17, <1>18 DEF Next, Loop, Answer

\* Both invariants hold in every reachable state.
LEMMA AlwaysAnswer == Spec => [](TypeInv /\ AnswerInv)
<1>1. Init => TypeInv /\ AnswerInv
  BY InitType, InitAnswer
<1>2. TypeInv /\ AnswerInv /\ [Next]_vars => (TypeInv /\ AnswerInv)'
  BY StepType, StepAnswer
<1> QED BY <1>1, <1>2, PTL DEF Spec

-----------------------------------------------------------------------------
(* What the invariant is for. *)

\* No request is built, and no turn is over, with a call unanswered.
THEOREM AllAnswered == Spec => []AnsweredBeforeRequest
<1>1. AnswerInv => AnsweredBeforeRequest
  BY DEF AnswerInv, OneStatus, AnsweredBeforeRequest, InDispatch
<1> QED BY AlwaysAnswer, <1>1, PTL

\* Where a step leaves the calls: every call keeps its place, or one call that
\* waits for its first record or for its answer moves on.
Kept(k) ==
    /\ (status'[k] \in Unfinished) = (status[k] \in Unfinished)
    /\ (diskStatus'[k] \in Unfinished) = (diskStatus[k] \in Unfinished)
    /\ diskStatus[k] \in Terminal => diskStatus'[k] = diskStatus[k]
    /\ diskStatus[k] \notin Terminal => diskStatus'[k] \notin Terminal

Issued(k) == status[k] = "none" /\ diskStatus[k] = "none" /\ SetStatus(k, "pending")

Settles(k) ==
    /\ status[k] \in Unfinished /\ diskStatus[k] \in Unfinished
    /\ \E s \in Terminal : SetStatus(k, s)

\* A step inside a turn leaves every call where it was, issues one or settles
\* one; what dies or is loaded from the file is left to the refinement.
LEMMA CallsMove ==
  ASSUME TypeInv, AnswerInv, Next, pc' # "down", pc # "down"
  PROVE  \/ \A k \in CallId : Kept(k)
         \/ \E j \in CallId : /\ Issued(j) \/ Settles(j)
                              /\ TurnPhase = "turn" /\ TurnPhase' = "turn"
<1> USE DEF Unfinished, Terminal
<1>1. CASE AppendCall
  <2>1. cursor \in CallId /\ cursor \in Batch /\ SetStatus(cursor, "pending")
        /\ pc = "appending" /\ pc' = pc
    BY <1>1, Numbers DEF AppendCall, Batch, CallId, Working
  <2>2. status[cursor] = "none" /\ diskStatus[cursor] = "none"
    BY <2>1, Numbers DEF AnswerInv, OneStatus
  <2> QED BY <2>1, <2>2 DEF Issued, TurnPhase
<1>2. CASE PlanCall
  <2>1. CASE UNCHANGED <<status, diskStatus>>
    BY <2>1 DEF Kept
  <2>2. CASE SetStatus(cursor, "awaiting")
    <3>1. cursor \in CallId /\ cursor \in Batch /\ pc = "planning"
      BY <1>2, Numbers DEF PlanCall, Batch, CallId, Working
    <3>2. status[cursor] \in Unfinished /\ diskStatus[cursor] \in Unfinished
      BY <3>1 DEF AnswerInv, OneStatus
    <3> QED BY <2>2, <3>1, <3>2, SetStatusLocal DEF Kept
  <2> QED BY <1>2, <2>1, <2>2 DEF PlanCall, Unplannable, RefusedAgain, Allowed, Denied, Asks, Decided
<1>3. CASE StartSerial
  <2>1. cursor \in CallId /\ cursor \in Batch /\ pc = "executing" /\ SetStatus(cursor, "running")
    BY <1>3, Numbers DEF StartSerial, Walking, Batch, CallId, Working
  <2>2. status[cursor] \in Unfinished /\ diskStatus[cursor] \in Unfinished
    BY <2>1 DEF AnswerInv, OneStatus
  <2> QED BY <2>1, <2>2, SetStatusLocal DEF Kept
<1>4. CASE Settle
  <2>1. CASE UNCHANGED <<status, diskStatus>>
    BY <2>1 DEF Kept
  <2>2. CASE SetStatus(cursor, results[cursor]) /\ results[cursor] # "none"
    <3>1. cursor \in CallId /\ cursor \in cursor..issued /\ pc = "settling" /\ pc' = pc
          /\ results[cursor] \in Terminal
      BY <1>4, <2>2, Numbers DEF Settle, CallId, Working, executeFrame, dispatchFrame
    <3>2. status[cursor] \in Unfinished /\ diskStatus[cursor] \in Unfinished
      BY <3>1 DEF AnswerInv, OneStatus
    <3> QED BY <2>2, <3>1, <3>2 DEF Settles, TurnPhase
  <2> QED BY <1>4, <2>1, <2>2 DEF Settle
<1>5. CASE ResolvePending
  <2>1. PICK j \in UnfinishedCalls : SetStatus(j, "cancelled")
    BY <1>5 DEF ResolvePending
  <2>2. j \in CallId /\ status[j] \in Unfinished /\ pc = "resolving" /\ pc' = pc
    BY <1>5, <2>1, Numbers DEF ResolvePending, UnfinishedCalls, CallId
  <2>3. diskStatus[j] \in Unfinished
    BY <2>2 DEF AnswerInv, OneStatus
  <2> QED BY <2>1, <2>2, <2>3 DEF Settles, TurnPhase
<1>6. CASE UNCHANGED <<status, diskStatus>>
  BY <1>6 DEF Kept
<1> QED
  BY <1>1, <1>2, <1>3, <1>4, <1>5, <1>6
     DEF Next, Loop, Answer, StartTurn, BeginStep, StepLimit, SampleCancelled, SampleEnds,
         SampleAnswers, Appended, Planned, TakeAnswered, SpawnRead, FinishSerial, FinishTask,
         Executed, Settled, Dispatched, EndTurn, Approve, ApproveSession, DenyCall,
         SerialPanic, Cancel, Crash, Resume, Die, Decided, sessionVars, diskVars, executeFrame,
         dispatchFrame

\* Only a death takes the process down, and it leaves the file as it is.
LEMMA DeadKeepsRecords ==
  ASSUME Next, pc # "down", pc' = "down", TypeInv
  PROVE  /\ diskStatus' = diskStatus /\ status' = NoStatus /\ issued' = issued
<1>1. SerialPanic \/ Crash
  <2>1. CASE Dispatched
    <3>1. CASE cancelled BY <2>1, <3>1 DEF Dispatched, End
    <3>2. CASE ~cancelled BY <2>1, <3>2 DEF Dispatched
    <3> QED BY <3>1, <3>2
  <2> QED
  BY <2>1 DEF Next, Loop, Answer, StartTurn, BeginStep, StepLimit, SampleCancelled, SampleEnds,
         SampleAnswers, AppendCall, Appended, PlanCall, Planned, TakeAnswered, SpawnRead,
         StartSerial, FinishSerial, FinishTask, Executed, Settle, Settled, ResolvePending,
         EndTurn, Approve, ApproveSession, DenyCall, Cancel, Resume, End, Decided,
         Unplannable, RefusedAgain, Allowed, Denied, Asks, turnVars, executeFrame, dispatchFrame
<1> QED BY <1>1 DEF SerialPanic, Crash, Die, diskVars

\* What a resume reads back as answered stays answered: no step of any process
\* records a second answer for a call.
THEOREM AnswersAreFinal == Spec => RecordedAnswerIsFinal
<1>1. ASSUME TypeInv, AnswerInv, [Next]_vars, NEW k \in CallId, diskStatus[k] \in Terminal
      PROVE diskStatus'[k] = diskStatus[k]
  <2>1. CASE UNCHANGED vars
    BY <2>1 DEF vars, diskVars
  <2>2. CASE pc = "down" \/ pc' = "down"
    <3>1. diskStatus' = diskStatus
      <4>1. CASE pc = "down" /\ Next
        BY <4>1 DEF Next, Loop, Answer, StartTurn, BeginStep, StepLimit, SampleCancelled,
           SampleEnds, SampleAnswers, AppendCall, Appended, PlanCall, Planned, TakeAnswered,
           SpawnRead, StartSerial, FinishSerial, FinishTask, Executed, Settle, Settled,
           ResolvePending, Dispatched, EndTurn, Approve, ApproveSession, DenyCall, MayDeny,
           SerialPanic, Cancel, Crash, Resume, Walking, diskVars
      <4>2. CASE pc # "down" /\ pc' = "down" /\ Next
        BY <1>1, <4>2, DeadKeepsRecords
      <4> QED BY <1>1, <2>1, <2>2, <4>1, <4>2 DEF vars, diskVars
    <3> QED BY <3>1
  <2>3. CASE Next /\ pc # "down" /\ pc' # "down"
    <3>1. CASE Kept(k)
      BY <1>1, <3>1 DEF Kept
    <3>2. ASSUME NEW j \in CallId, Issued(j) \/ Settles(j) PROVE diskStatus'[k] = diskStatus[k]
      <4>1. diskStatus[j] \notin Terminal
        BY <3>2 DEF Issued, Settles, Terminal, Unfinished
      <4>2. j # k /\ \E s : SetStatus(j, s)
        BY <1>1, <3>2, <4>1 DEF Issued, Settles
      <4> QED BY <1>1, <4>2, SetStatusLocal
    <3> QED BY <1>1, <2>3, <3>1, <3>2, CallsMove
  <2> QED BY <1>1, <2>1, <2>2, <2>3
<1>2. TypeInv /\ AnswerInv /\ [Next]_vars =>
        \A k \in CallId : diskStatus[k] \in Terminal => diskStatus'[k] = diskStatus[k]
  BY <1>1
<1> QED BY AlwaysAnswer, <1>2, PTL DEF Spec, RecordedAnswerIsFinal

-----------------------------------------------------------------------------
(* The loop implements TurnContract. *)

\* What the contract waits for is the unfinished calls; outside dispatch there are none.
LEMMA Waiting ==
  ASSUME TypeInv, AnswerInv
  PROVE  /\ UnfinishedCalls = {k \in CallId : status[k] \in Unfinished}
         /\ UnfinishedCalls \subseteq {k \in CallId : diskStatus[k] \in Unfinished}
         /\ pc \notin InDispatch => UnfinishedCalls = {}
  BY Numbers DEF AnswerInv, OneStatus, UnfinishedCalls, CallId, Batch, Unfinished

\* The same of the next state.
LEMMA WaitingNext ==
  ASSUME TypeInv', AnswerInv'
  PROVE  /\ UnfinishedCalls' = {k \in CallId : status'[k] \in Unfinished}
         /\ pc' \notin InDispatch => UnfinishedCalls' = {}
<1>1. /\ MaxCalls \in Nat /\ low' \in 1..(MaxCalls + 1) /\ issued' \in 0..MaxCalls
  BY Bounds DEF TypeInv, TypeOK, SessionTypeOK, BatchTypeOK
<1> QED BY <1>1 DEF AnswerInv, OneStatus, UnfinishedCalls, CallId, Batch, Unfinished

\* The initial state of the loop is one of the contract.
LEMMA InitContract == Init => Contract!Init
  BY DEF Init, Contract!Init, TurnPhase, UnfinishedCalls, Answered, Abandoned, NoStatus, Terminal,
         Unfinished, CallId

\* When no call moves, the contract sees at most a phase change.
LEMMA CallsKept ==
  ASSUME TypeInv, AnswerInv, TypeInv', AnswerInv', \A k \in CallId : Kept(k)
  PROVE  UNCHANGED <<UnfinishedCalls, Answered, Abandoned>>
  BY Waiting, WaitingNext DEF Kept, Answered, Abandoned, Terminal, Unfinished

\* Every step of the loop is a step of the contract or leaves it as it is.
LEMMA StepContract ==
  TypeInv /\ AnswerInv /\ TypeInv' /\ AnswerInv' /\ [Next]_vars => [Contract!Next]_(Contract!vars)
<1> SUFFICES ASSUME TypeInv, AnswerInv, TypeInv', AnswerInv', [Next]_vars
             PROVE  Contract!Next \/ UNCHANGED Contract!vars
  OBVIOUS
<1> USE DEF Contract!Next, Contract!vars
<1>1. CASE UNCHANGED vars
  BY <1>1 DEF vars, sessionVars, diskVars, UnfinishedCalls, TurnPhase, Answered, Abandoned
<1>2. CASE Next /\ pc # "down" /\ pc' = "down"
  <2>1. /\ diskStatus' = diskStatus /\ status' = NoStatus
    BY <1>2, DeadKeepsRecords
  <2>2. UnfinishedCalls' = {} /\ Answered' = Answered
    BY <1>2, <2>1, WaitingNext DEF Answered, InDispatch
  <2>3. Abandoned' = Abandoned \union UnfinishedCalls
    BY <2>1, <2>2, Waiting DEF Abandoned
  <2>4. TurnPhase # "down" /\ TurnPhase' = "down"
    BY <1>2 DEF TurnPhase
  <2> QED BY <2>2, <2>3, <2>4 DEF Contract!Fail
<1>3. CASE Next /\ pc = "down"
  <2>1. Resume
    BY <1>3 DEF Next, Loop, Answer, StartTurn, BeginStep, StepLimit, SampleCancelled,
       SampleEnds, SampleAnswers, AppendCall, Appended, PlanCall, Planned, TakeAnswered,
       SpawnRead, StartSerial, FinishSerial, FinishTask, Executed, Settle, Settled,
       ResolvePending, Dispatched, EndTurn, Approve, ApproveSession, DenyCall, MayDeny,
       SerialPanic, Cancel, Crash, Walking
  <2>2. UnfinishedCalls = {} /\ UnfinishedCalls' = {}
    BY <1>3, <2>1, Waiting, WaitingNext DEF Resume, InDispatch
  <2>3. UNCHANGED <<Answered, Abandoned, UnfinishedCalls>>
    BY <2>1, <2>2 DEF Resume, diskVars, Answered, Abandoned
  <2>4. TurnPhase = "down" /\ TurnPhase' = "rest"
    BY <1>3, <2>1 DEF Resume, TurnPhase
  <2> QED BY <2>3, <2>4 DEF Contract!Recover
<1>4. CASE Next /\ pc # "down" /\ pc' # "down"
  <2>1. CASE \A k \in CallId : Kept(k)
    <3>1. UNCHANGED <<UnfinishedCalls, Answered, Abandoned>>
      BY <2>1, CallsKept
    <3>2. CASE TurnPhase' = TurnPhase
      BY <3>1, <3>2
    <3>3. CASE TurnPhase = "rest" /\ TurnPhase' = "turn"
      BY <3>1, <3>3 DEF Contract!Begin
    <3>4. CASE TurnPhase = "turn" /\ TurnPhase' = "rest"
      <4>1. UnfinishedCalls' = {}
        BY <3>4, WaitingNext DEF TurnPhase, InDispatch
      <4> QED BY <3>1, <3>4, <4>1 DEF Contract!End
    <3> QED BY <1>4, <3>2, <3>3, <3>4 DEF TurnPhase
  <2>2. ASSUME NEW j \in CallId, Issued(j), TurnPhase = "turn", TurnPhase' = "turn"
        PROVE  Contract!Issue(j)
    <3>1. status'[j] = "pending" /\ diskStatus'[j] = "pending"
          /\ \A i \in CallId \ {j} : status'[i] = status[i] /\ diskStatus'[i] = diskStatus[i]
      BY <2>2, SetStatusLocal DEF Issued
    <3>2. j \notin UnfinishedCalls \union Answered \union Abandoned
      BY <2>2, Waiting DEF Issued, Answered, Abandoned, Terminal, Unfinished
    <3>3. UnfinishedCalls' = UnfinishedCalls \union {j}
      BY <3>1, Waiting, WaitingNext DEF Unfinished
    <3>4. Answered' = Answered
      BY <3>1, <3>2 DEF Answered, Terminal
    <3>5. Abandoned' = Abandoned
      BY <3>1, <3>2, <3>3 DEF Abandoned
    <3> QED BY <2>2, <3>2, <3>3, <3>4, <3>5 DEF Contract!Issue
  <2>3. ASSUME NEW j \in CallId, Settles(j), TurnPhase = "turn", TurnPhase' = "turn"
        PROVE  Contract!Answer(j)
    <3>1. PICK s \in Terminal :
            /\ status'[j] = s /\ diskStatus'[j] = s
            /\ \A i \in CallId \ {j} : status'[i] = status[i] /\ diskStatus'[i] = diskStatus[i]
      BY <2>3, SetStatusLocal DEF Settles
    <3>2. j \in UnfinishedCalls
      BY <2>3, Waiting DEF Settles
    <3>3. UnfinishedCalls' = UnfinishedCalls \ {j}
      BY <3>1, Waiting, WaitingNext DEF Unfinished, Terminal
    <3>4. Answered' = Answered \union {j}
      BY <3>1 DEF Answered
    <3>5. Abandoned' = Abandoned
      BY <3>1, <3>2, <3>3 DEF Abandoned, Terminal, Unfinished
    <3> QED BY <2>3, <3>2, <3>3, <3>4, <3>5 DEF Contract!Answer
  <2> QED BY <1>4, <2>1, <2>2, <2>3, CallsMove
<1> QED BY <1>1, <1>2, <1>3, <1>4

\* One answer per call, none taken back, all of them given before a turn ends:
\* every behaviour of the loop is a behaviour of the contract.
THEOREM LoopImplementsContract == Spec => ImplementsContract
<1>1. TypeInv /\ AnswerInv /\ [Next]_vars => TypeInv' /\ AnswerInv'
  BY StepType, StepAnswer
<1> QED BY InitContract, StepContract, AlwaysAnswer, <1>1, PTL
        DEF Spec, ImplementsContract, Contract!Spec

-----------------------------------------------------------------------------
(* What the tools of a batch may do: nothing starts before the batch is      *)
(* authorised, nothing refused runs, an edit removes only what its own batch *)
(* wrote, nobody is asked twice, and the records are never behind.           *)

InPhaseTwo == {"executing", "settling", "resolving"}
InPhases == {"planning", "asking"} \union InPhaseTwo

\* What dispatch knows of call k: a verdict or a result belongs to a call of the
\* batch that the walk has reached, and only a denied call is answered "denied".
OneCall(k) ==
    /\ verdict[k] # "none" =>
         k \in Batch /\ pc \in InPhases /\ (pc \in {"planning", "asking"} => k < cursor)
    /\ results[k] # "none" => k \in Batch /\ pc \in InPhaseTwo
    /\ results[k] = "denied" => verdict[k] = "denied"
    /\ k \in tasks => ParallelSafe(asked[k])
    /\ serial = k => verdict[k] = "run" /\ ~ParallelSafe(asked[k])
    /\ pc = "executing" /\ k \in Batch /\ k < cursor /\ verdict[k] = "run" /\ ~ParallelSafe(asked[k])
         => results[k] # "none"

WalkInv == \A k \in CallId : OneCall(k)

\* Some file carries the edit of call k, or would after an edit now planned.
Carried(k) ==
    \/ \E f \in Files : k \in content[f]
    \/ \E j \in CallId : k \in base[j]

\* A call whose effect is on disk was allowed, and its record says so; the plans
\* of a batch were made before any call of the batch had an effect.
OneEffect(k) ==
    /\ Carried(k) =>
         /\ Edits(asked[k]) /\ SubjectOf(k) \notin DenyRules /\ k <= issued
         /\ diskStatus[k] \in {"running", "ok", "cancelled"}
         /\ status[k] \in {"none", "running", "ok", "cancelled"}
         /\ k \in Batch => /\ pc \in InPhaseTwo /\ (pc = "executing" => k < cursor)
                           /\ verdict[k] = "run" /\ results[k] = "ok"
    /\ serial = k => status[k] = "running" /\ diskStatus[k] = "running"
    /\ base[k] # {} => pc \in InPhases
    /\ \A j \in CallId : j \in base[k] => j < low

\* A call that may still run was not refused, and the file it was planned
\* against differs from what the file now holds by edits of this batch only.
OnePlan(k) ==
    k \in Batch /\ pc \in {"planning", "asking", "executing"}
      /\ (verdict[k] = "run" \/ (pc = "asking" /\ k = cursor)) =>
        /\ SubjectOf(k) \notin DenyRules
        /\ Edits(asked[k]) => base[k] \ Batch = content[asked[k].file] \ Batch

EffectInv == \A k \in CallId : OneEffect(k) /\ OnePlan(k)

\* How far the approvals of this process have come.
Walked ==
    IF pc = "appending" THEN low - 1
    ELSE IF pc \in {"planning", "asking"} THEN cursor - 1
    ELSE issued

\* What was refused in this turn is remembered, or a later call was granted.
Remembered(k) ==
    InThisTurn(k) /\ "denied" \in {verdict[k], status[k]} =>
        \/ SubjectOf(k) \in denied
        \/ \E g \in (k + 1)..Walked : SubjectOf(g) \in grants

RefusalInv ==
    /\ pc \notin {"idle", "down"} => \A k \in CallId : Remembered(k)
    /\ pc = "asking" => SubjectOf(cursor) \notin denied

\* The records and the transcript have the same items.
RecordsInv ==
    /\ pc # "down" => RecordsFollow
    /\ \A i \in 1..Len(disk) : disk[i] # InterruptedItem

-----------------------------------------------------------------------------
(* The walk over the batch.                                                  *)

\* The types the steps below need, in one place.
LEMMA WalkTypes ==
  ASSUME TypeInv
  PROVE  /\ verdict \in [CallId -> Verdicts] /\ asked \in [CallId -> Menu \union {Nothing}]
         /\ base \in [CallId -> SUBSET CallId] /\ content \in [Files -> SUBSET CallId]
         /\ tasks \subseteq low..(cursor - 1) /\ tasks \subseteq CallId
         /\ tasks # {} => pc = "executing"
         /\ \A k \in 1..issued : asked[k] \in Menu
  BY DEF TypeInv, TypeOK, SessionTypeOK, BatchTypeOK, Flow

\* Nothing is decided about a call that does not exist.
LEMMA InitWalk == Init => WalkInv
  BY DEF Init, WalkInv, OneCall, NoVerdicts, NoResults, CallId

\* Every step of a turn leaves what a call asks for alone, once it is issued.
LEMMA StepWalk == TypeInv /\ WalkInv /\ [Next]_vars => WalkInv'
<1> SUFFICES ASSUME TypeInv, WalkInv, [Next]_vars, NEW k \in CallId PROVE OneCall(k)'
  BY DEF WalkInv, CallId
<1> USE DEF OneCall, Batch, CallId, InPhases, InPhaseTwo
<1>0. OneCall(k) /\ k \in Nat
  BY DEF WalkInv
<1>1. CASE StartTurn \/ BeginStep \/ StepLimit \/ SampleCancelled \/ SampleEnds \/ EndTurn
           \/ Resume
  <2>1. /\ pc \in {"idle", "step", "sampling", "ending", "down"}
        /\ UNCHANGED <<verdict, results, tasks, serial, asked, low, cursor, issued>>
    BY <1>1 DEF StartTurn, BeginStep, StepLimit, SampleCancelled, SampleEnds, EndTurn, Resume,
                agentVars, sessionVars
  <2> QED BY <1>0, <2>1, WalkTypes, Numbers
<1>2. CASE SampleAnswers
  <2>1. /\ pc = "sampling" /\ UNCHANGED <<verdict, results, tasks, serial>>
    BY <1>2 DEF SampleAnswers
  <2> QED BY <1>0, <2>1, WalkTypes, Numbers
<1>3. CASE AppendCall \/ Appended
  <2>1. /\ pc = "appending" /\ UNCHANGED <<verdict, results, tasks, serial>>
    BY <1>3 DEF AppendCall, Appended
  <2> QED BY <1>0, <2>1, WalkTypes, Numbers
<1>4. CASE PlanCall
  <2>1. /\ pc = "planning" /\ cursor <= issued /\ pc' \in {"planning", "asking"}
        /\ UNCHANGED <<results, tasks, serial, asked, low, issued>>
        /\ \/ cursor' = cursor + 1 /\ \E v \in Verdicts : verdict' = [verdict EXCEPT ![cursor] = v]
           \/ UNCHANGED <<verdict, cursor>>
    BY <1>4 DEF PlanCall, Unplannable, RefusedAgain, Allowed, Denied, Asks, Decided,
                dispatchFrame, Verdicts
  <2> QED BY <1>0, <2>1, WalkTypes, Numbers DEF Working
<1>5. CASE Approve \/ ApproveSession \/ DenyCall
  <2>1. /\ pc = "asking" /\ cursor <= issued /\ pc' = "planning" /\ cursor' = cursor + 1
        /\ UNCHANGED <<results, tasks, serial, asked, low, issued>>
        /\ \E v \in Verdicts : verdict' = [verdict EXCEPT ![cursor] = v]
    BY <1>5, Numbers DEF Approve, ApproveSession, DenyCall, MayDeny, Decided, dispatchFrame, Verdicts
  <2> QED BY <1>0, <2>1, WalkTypes, Numbers DEF Working
<1>6. CASE Planned
  <2>1. /\ pc = "planning" /\ pc' = "executing" /\ cursor' = low
        /\ UNCHANGED <<verdict, results, tasks, serial, asked, low, issued>>
    BY <1>6 DEF Planned, dispatchFrame
  <2> QED BY <1>0, <2>1, WalkTypes, Numbers
<1>7. CASE TakeAnswered
  <2>1. /\ pc = "executing" /\ cursor <= issued /\ serial = 0 /\ cursor' = cursor + 1
        /\ verdict[cursor] # "run" /\ results' = [results EXCEPT ![cursor] = verdict[cursor]]
        /\ UNCHANGED <<pc, verdict, tasks, serial, asked, low, issued>>
    BY <1>7 DEF TakeAnswered, Walking, executeFrame, dispatchFrame
  <2> QED BY <1>0, <2>1, WalkTypes, Numbers DEF Working
<1>8. CASE SpawnRead
  <2>1. /\ pc = "executing" /\ cursor <= issued /\ serial = 0 /\ cursor' = cursor + 1
        /\ ParallelSafe(asked[cursor]) /\ tasks' = tasks \union {cursor}
        /\ UNCHANGED <<pc, verdict, results, serial, asked, low, issued>>
    BY <1>8 DEF SpawnRead, Walking, executeFrame, dispatchFrame
  <2> QED BY <1>0, <2>1, WalkTypes, Numbers
<1>9. CASE StartSerial
  <2>1. /\ pc = "executing" /\ cursor <= issued /\ serial' = cursor
        /\ verdict[cursor] = "run" /\ ~ParallelSafe(asked[cursor])
        /\ UNCHANGED <<pc, verdict, results, tasks, cursor, asked, low, issued>>
    BY <1>9 DEF StartSerial, Walking, executeFrame, dispatchFrame
  <2> QED BY <1>0, <2>1, WalkTypes, Numbers
<1>10. CASE FinishSerial
  <2>1. PICK s \in ToolOutcomes(serial) : results' = [results EXCEPT ![serial] = s]
    BY <1>10 DEF FinishSerial
  <2>2. s \in {"ok", "failed", "cancelled"}
    BY DEF ToolOutcomes
  <2>3. /\ pc = "executing" /\ serial # 0 /\ serial' = 0 /\ cursor' = cursor + 1
        /\ UNCHANGED <<pc, verdict, tasks, asked, low, issued>>
    BY <1>10 DEF FinishSerial, executeFrame, dispatchFrame
  <2> QED BY <1>0, <2>1, <2>2, <2>3, WalkTypes, Numbers DEF Working
<1>11. CASE FinishTask
  <2>1. PICK t \in tasks : /\ tasks' = tasks \ {t}
                           /\ \/ \E s \in ToolOutcomes(t) : results' = [results EXCEPT ![t] = s]
                              \/ UNCHANGED results
    BY <1>11 DEF FinishTask
  <2>2. ToolOutcomes(t) \subseteq {"ok", "failed", "cancelled"}
    BY DEF ToolOutcomes
  <2>3. /\ pc = "executing"
        /\ UNCHANGED <<pc, verdict, serial, cursor, asked, low, issued>>
    BY <1>11 DEF FinishTask, executeFrame, dispatchFrame
  <2>4. t \in low..issued
    BY <2>1, <2>3, WalkTypes, Numbers DEF Working
  <2> QED BY <1>0, <2>1, <2>2, <2>3, <2>4, WalkTypes, Numbers
<1>12. CASE Executed \/ Settle \/ Settled
  <2>1. /\ pc \in {"executing", "settling"} /\ pc' \in {"settling", "resolving"}
        /\ UNCHANGED <<verdict, results, tasks, serial, asked, low, issued>>
    BY <1>12 DEF Executed, Settle, Settled, executeFrame, dispatchFrame, agentVars, sessionVars
  <2> QED BY <1>0, <2>1
<1>13. CASE ResolvePending
  BY <1>0, <1>13 DEF ResolvePending, agentVars
<1>14. CASE Dispatched \/ SerialPanic \/ Crash
  <2>1. /\ verdict' = NoVerdicts /\ results' = NoResults
        /\ \/ UNCHANGED <<serial, tasks>> /\ pc = "resolving"
           \/ serial' = 0 /\ tasks' = {}
    BY <1>14 DEF Dispatched, SerialPanic, Crash, Die, ForgetBatch
  <2> QED BY <1>0, <2>1, WalkTypes, Numbers DEF NoVerdicts, NoResults
<1>15. CASE Cancel \/ UNCHANGED vars
  <2>1. UNCHANGED <<pc, verdict, results, tasks, serial, asked, low, cursor, issued>>
    BY <1>15 DEF Cancel, vars, agentVars, sessionVars
  <2> QED BY <1>0, <2>1
<1> QED
  BY <1>1, <1>2, <1>3, <1>4, <1>5, <1>6, <1>7, <1>8, <1>9, <1>10, <1>11, <1>12, <1>13, <1>14,
     <1>15 DEF Next, Loop, Answer

-----------------------------------------------------------------------------
(* The effects on disk.                                                      *)

\* No file carries an edit at the start.
LEMMA InitEffect == Init => EffectInv
  BY DEF Init, EffectInv, OneEffect, OnePlan, Carried, NoBases, NoVerdicts, CallId, Batch

\* Nothing new is carried when no file is written and no plan is made.
LEMMA CarriedSame ==
  ASSUME UNCHANGED <<content, base>>, NEW k \in CallId
  PROVE  Carried(k)' = Carried(k)
  BY DEF Carried, Files

\* No step records a call whose effect is on disk as anything but a call that ran.
LEMMA StepEffect ==
  ASSUME TypeInv, WalkInv, EffectInv, [Next]_vars, NEW k \in CallId
  PROVE  OneEffect(k)'
<1> USE DEF OneEffect, Batch, CallId, InPhases, InPhaseTwo, SubjectOf
<1>0. OneEffect(k) /\ OnePlan(k) /\ OneCall(k) /\ k \in Nat
  BY DEF WalkInv, EffectInv
<1>1. CASE StartTurn \/ BeginStep \/ StepLimit \/ SampleCancelled \/ SampleEnds \/ EndTurn
           \/ Appended \/ Planned \/ Cancel \/ UNCHANGED vars
  <2>1. /\ \/ pc \notin InPhases /\ pc' \notin InPhases
           \/ pc \notin InPhases /\ pc' = "planning"
           \/ pc = "planning" /\ pc' = "executing" /\ cursor' = low
           \/ UNCHANGED <<pc, cursor>>
        /\ UNCHANGED <<verdict, base, results, serial, asked, low, issued, status, diskStatus, content>>
    BY <1>1 DEF StartTurn, BeginStep, StepLimit, SampleCancelled, SampleEnds, EndTurn, Appended,
                Planned, Cancel, vars, agentVars, sessionVars, diskVars, End, dispatchFrame
  <2> QED BY <1>0, <2>1, CarriedSame, Numbers
<1>2. CASE SampleAnswers
  <2>1. /\ pc = "sampling" /\ UNCHANGED <<verdict, base, results, serial, status, diskStatus, content>>
        /\ low' = issued + 1 /\ issued' \in Nat /\ issued' >= issued
        /\ \A j \in 1..issued : asked'[j] = asked[j]
    <3>1. PICK n \in 0..MaxBatch :
            /\ \E reqs \in [1..n -> Menu] :
                 asked' = [j \in CallId |-> IF j \in (issued + 1)..(issued + n)
                                            THEN reqs[j - issued] ELSE asked[j]]
            /\ low' = issued + 1 /\ issued' = issued + n
      BY <1>2 DEF SampleAnswers
    <3> QED BY <1>2, <3>1, Numbers, Bounds DEF SampleAnswers, diskVars
  <2> QED BY <1>0, <2>1, CarriedSame, Numbers
<1>3. CASE AppendCall
  <2>1. /\ pc = "appending" /\ cursor \in Batch /\ SetStatus(cursor, "pending")
        /\ UNCHANGED <<pc, verdict, base, results, serial, asked, low, issued, content>>
    BY <1>3, Numbers DEF AppendCall, Working
  <2>2. ~Carried(cursor) /\ serial # cursor
    BY <2>1, Numbers DEF EffectInv
  <2>3. k # cursor => status'[k] = status[k] /\ diskStatus'[k] = diskStatus[k]
    BY <2>1, SetStatusLocal, Numbers
  <2> QED BY <1>0, <2>1, <2>2, <2>3, CarriedSame, Numbers
<1>4. CASE PlanCall
  <2>1. /\ pc = "planning" /\ cursor \in Batch /\ pc' \in {"planning", "asking"}
        /\ UNCHANGED <<results, serial, asked, low, issued, content>>
        /\ UNCHANGED <<status, diskStatus>> \/ SetStatus(cursor, "awaiting")
        /\ UNCHANGED verdict \/ \E v \in Verdicts : verdict' = [verdict EXCEPT ![cursor] = v]
    BY <1>4, Numbers DEF PlanCall, Unplannable, RefusedAgain, Allowed, Denied, Asks, Decided,
                         dispatchFrame, Verdicts, Working
  <2>2. UNCHANGED base \/ base' = [base EXCEPT ![cursor] = content[asked[cursor].file]]
    BY <1>4 DEF PlanCall, Unplannable, RefusedAgain, Allowed, Denied, Asks, Evaluated, Plan
  <2>3. asked[cursor].file \in Files
    BY <2>1, WalkTypes, Numbers DEF Files
  <2>4. /\ Carried(k)' => Carried(k)
        /\ \A j \in CallId : j \in base'[k] => j \in base[k] \/ Carried(j)
    BY <2>1, <2>2, <2>3, WalkTypes, Numbers DEF Carried, Files
  <2>5. \A j \in CallId : Carried(j) => j < low
    BY <2>1, Numbers DEF EffectInv
  <2>6. k # cursor => status'[k] = status[k] /\ diskStatus'[k] = diskStatus[k]
    BY <2>1, SetStatusLocal, Numbers
  <2>7. serial = 0
    BY <2>1, Numbers
  <2> QED BY <1>0, <2>1, <2>4, <2>5, <2>6, <2>7, WalkTypes, Numbers
<1>5. CASE Approve \/ ApproveSession \/ DenyCall
  <2>1. /\ pc = "asking" /\ cursor \in Batch /\ pc' = "planning"
        /\ UNCHANGED <<base, results, serial, asked, low, issued, content, status, diskStatus>>
        /\ \E v \in Verdicts : verdict' = [verdict EXCEPT ![cursor] = v]
    BY <1>5, Numbers DEF Approve, ApproveSession, DenyCall, MayDeny, Decided, dispatchFrame,
                         Verdicts, Working
  <2> QED BY <1>0, <2>1, CarriedSame, WalkTypes, Numbers
<1>6. CASE TakeAnswered \/ SpawnRead
  <2>1. /\ pc = "executing" /\ cursor' = cursor + 1 /\ cursor \in CallId
        /\ UNCHANGED results \/ results' = [results EXCEPT ![cursor] = verdict[cursor]]
        /\ UNCHANGED <<pc, verdict, base, serial, asked, low, issued, content, status, diskStatus>>
    BY <1>6, Numbers DEF TakeAnswered, SpawnRead, Walking, executeFrame, dispatchFrame
  <2> QED BY <1>0, <2>1, CarriedSame, Numbers, SMTT(30)
<1>7. CASE StartSerial
  <2>1. /\ pc = "executing" /\ serial' = cursor /\ SetStatus(cursor, "running") /\ cursor \in CallId
        /\ UNCHANGED <<pc, cursor, verdict, base, results, asked, low, issued, content>>
        /\ serial = 0
    BY <1>7, Numbers DEF StartSerial, Walking, executeFrame, dispatchFrame
  <2>2. k # cursor => status'[k] = status[k] /\ diskStatus'[k] = diskStatus[k]
    BY <2>1, SetStatusLocal
  <2>3. status'[cursor] = "running" /\ diskStatus'[cursor] = "running"
    BY <2>1, SetStatusLocal
  <2> QED BY <1>0, <2>1, <2>2, <2>3, CarriedSame
<1>8. CASE FinishSerial
  <2>1. PICK s \in ToolOutcomes(serial) :
          /\ results' = [results EXCEPT ![serial] = s]
          /\ content' = IF s = "ok" /\ Edits(asked[serial]) THEN Updated(serial) ELSE content
    BY <1>8 DEF FinishSerial
  <2>2. /\ pc = "executing" /\ serial # 0 /\ serial' = 0 /\ cursor' = cursor + 1
        /\ UNCHANGED <<pc, verdict, base, asked, low, issued, status, diskStatus>>
    BY <1>8 DEF FinishSerial, executeFrame, dispatchFrame
  <2>3. serial = cursor /\ serial \in Batch /\ serial \in CallId
    BY <2>2, Numbers DEF Working
  <2>4. Carried(k)' => Carried(k) \/ (k = serial /\ s = "ok" /\ Edits(asked[serial]))
    BY <2>1, <2>2, <2>3, WalkTypes DEF Carried, Updated, Files
  <2>5. /\ verdict[serial] = "run" /\ SubjectOf(serial) \notin DenyRules
        /\ status[serial] = "running" /\ diskStatus[serial] = "running"
    BY <2>2, <2>3 DEF WalkInv, OneCall, EffectInv, OnePlan
  <2>6. CASE k = serial
    BY <1>0, <2>1, <2>2, <2>3, <2>4, <2>5, <2>6, Numbers
  <2>7. CASE k # serial
    BY <1>0, <2>1, <2>2, <2>3, <2>4, <2>7, Numbers
  <2> QED BY <2>6, <2>7
<1>9. CASE FinishTask
  <2>1. PICK t \in tasks : \/ \E s \in ToolOutcomes(t) : results' = [results EXCEPT ![t] = s]
                           \/ UNCHANGED results
    BY <1>9 DEF FinishTask
  <2>2. UNCHANGED <<pc, cursor, verdict, base, serial, asked, low, issued, content, status, diskStatus>>
    BY <1>9 DEF FinishTask, executeFrame, dispatchFrame
  <2>3. t \in CallId /\ ~Edits(asked[t])
    BY <2>1, WalkTypes DEF WalkInv, OneCall, ParallelSafe, Edits
  <2> QED BY <1>0, <2>1, <2>2, <2>3, CarriedSame, Numbers
<1>10. CASE Executed \/ Settled
  <2>1. /\ pc \in InPhaseTwo /\ pc' \in {"settling", "resolving"}
        /\ UNCHANGED <<verdict, base, results, serial, asked, low, issued, content, status, diskStatus>>
    BY <1>10 DEF Executed, Settled, executeFrame, dispatchFrame, agentVars, sessionVars, diskVars
  <2> QED BY <1>0, <2>1, CarriedSame
<1>11. CASE Settle
  <2>1. /\ pc = "settling" /\ pc' = pc /\ cursor \in Batch
        /\ \/ UNCHANGED <<status, diskStatus>>
           \/ SetStatus(cursor, results[cursor])
        /\ UNCHANGED <<verdict, base, results, serial, asked, low, issued, content>>
    BY <1>11, Numbers DEF Settle, executeFrame, dispatchFrame, Working
  <2>2. k # cursor => status'[k] = status[k] /\ diskStatus'[k] = diskStatus[k]
    BY <2>1, SetStatusLocal, Numbers
  <2>3. k = cursor => \/ status'[k] = status[k] /\ diskStatus'[k] = diskStatus[k]
                      \/ status'[k] = results[k] /\ diskStatus'[k] = results[k]
    BY <2>1, SetStatusLocal, Numbers
  <2> QED BY <1>0, <2>1, <2>2, <2>3, CarriedSame, Numbers
<1>12. CASE ResolvePending
  <2>1. PICK j \in UnfinishedCalls : SetStatus(j, "cancelled")
    BY <1>12 DEF ResolvePending
  <2>2. /\ j \in CallId /\ pc = "resolving" /\ serial = 0
        /\ UNCHANGED <<pc, cursor, verdict, base, results, serial, asked, low, issued, content>>
    BY <1>12, <2>1, Numbers DEF ResolvePending, UnfinishedCalls, agentVars
  <2>3. k # j => status'[k] = status[k] /\ diskStatus'[k] = diskStatus[k]
    BY <2>1, <2>2, SetStatusLocal
  <2>4. k = j => status'[k] = "cancelled" /\ diskStatus'[k] = "cancelled"
    BY <2>1, <2>2, SetStatusLocal
  <2> QED BY <1>0, <2>1, <2>2, <2>3, <2>4, CarriedSame
<1>13. CASE Dispatched \/ SerialPanic \/ Crash
  <2>1. /\ base' = NoBases /\ low' = issued + 1 /\ UNCHANGED <<asked, issued, content, diskStatus>>
        /\ \/ pc = "resolving" /\ UNCHANGED <<status, serial>>
           \/ status' = NoStatus /\ serial' = 0
    BY <1>13 DEF Dispatched, SerialPanic, Crash, Die, ForgetBatch, diskVars
  <2>2. Carried(k)' => Carried(k)
    BY <2>1 DEF Carried, NoBases, Files
  <2> QED BY <1>0, <2>1, <2>2, Numbers DEF NoBases, NoStatus
<1>14. CASE Resume
  <2>1. /\ pc = "down" /\ pc' = "idle" /\ status'[k] = Repaired(diskStatus[k]) /\ serial = 0
        /\ UNCHANGED <<verdict, base, results, serial, asked, low, issued, content, diskStatus>>
    BY <1>14, Numbers DEF Resume, agentVars, diskVars
  <2> QED BY <1>0, <2>1, CarriedSame DEF Repaired, Unfinished
<1> QED
  BY <1>1, <1>2, <1>3, <1>4, <1>5, <1>6, <1>7, <1>8, <1>9, <1>10, <1>11, <1>12, <1>13, <1>14
     DEF Next, Loop, Answer

\* No step runs what was refused, nor writes a file from an outdated plan.
LEMMA StepPlan ==
  ASSUME TypeInv, WalkInv, EffectInv, [Next]_vars, NEW k \in CallId
  PROVE  OnePlan(k)'
<1> USE DEF OnePlan, Batch, CallId, SubjectOf
<1>0. OnePlan(k) /\ OneCall(k) /\ k \in Nat
  BY DEF WalkInv, EffectInv
<1>1. CASE PlanCall
  <2>1. /\ pc = "planning" /\ cursor \in Batch /\ cursor \in CallId
        /\ UNCHANGED <<asked, low, issued, content>>
    BY <1>1, Numbers DEF PlanCall, dispatchFrame, Working
  <2>2. \/ verdict' = [verdict EXCEPT ![cursor] = "failed"] /\ UNCHANGED base
        \/ verdict' = [verdict EXCEPT ![cursor] = "denied"]
        \/ Verdict(asked[cursor]) # "deny" /\ verdict' = [verdict EXCEPT ![cursor] = "run"]
        \/ Verdict(asked[cursor]) # "deny" /\ pc' = "asking" /\ UNCHANGED verdict
    BY <1>1 DEF PlanCall, Unplannable, RefusedAgain, Allowed, Denied, Asks, Evaluated, Decided
  <2>3. \/ UNCHANGED base /\ (~Edits(asked[cursor]) \/ verdict' = [verdict EXCEPT ![cursor] = "failed"])
        \/ base' = [base EXCEPT ![cursor] = content[asked[cursor].file]]
    BY <1>1 DEF PlanCall, Unplannable, RefusedAgain, Allowed, Denied, Asks, Evaluated, Plan, Decided
  <2>4. /\ pc' \in {"planning", "asking"}
        /\ pc' = "asking" => cursor' = cursor /\ verdict' = verdict
    BY <1>1 DEF PlanCall, Unplannable, RefusedAgain, Allowed, Denied, Asks, Decided
  <2>5. verdict[cursor] = "none"
    BY <2>1 DEF WalkInv, OneCall
  <2>6. CASE k = cursor
    <3>1. SubjectOf(cursor) \in DenyRules => Verdict(asked[cursor]) = "deny"
      BY DEF Verdict
    <3> QED BY <2>1, <2>2, <2>3, <2>4, <2>5, <2>6, <3>1, WalkTypes
  <2>7. CASE k # cursor
    BY <1>0, <2>1, <2>2, <2>3, <2>4, <2>7, WalkTypes
  <2> QED BY <2>6, <2>7
<1>2. CASE Approve \/ ApproveSession \/ DenyCall
  <2>1. /\ pc = "asking" /\ cursor \in Batch /\ pc' = "planning"
        /\ UNCHANGED <<base, asked, low, issued, content>>
        /\ \E v \in Verdicts : verdict' = [verdict EXCEPT ![cursor] = v]
    BY <1>2, Numbers DEF Approve, ApproveSession, DenyCall, MayDeny, Decided, dispatchFrame,
                         Verdicts, Working
  <2> QED BY <1>0, <2>1, WalkTypes, Numbers
<1>3. CASE FinishSerial
  <2>1. PICK s \in ToolOutcomes(serial) :
          content' = IF s = "ok" /\ Edits(asked[serial]) THEN Updated(serial) ELSE content
    BY <1>3 DEF FinishSerial
  <2>2. /\ pc = "executing" /\ serial # 0
        /\ UNCHANGED <<pc, verdict, base, asked, low, issued>>
    BY <1>3 DEF FinishSerial, executeFrame, dispatchFrame
  <2>3. serial \in Batch /\ serial \in CallId /\ verdict[serial] = "run"
    BY <2>2, Numbers DEF Working, WalkInv, OneCall
  <2>4. Edits(asked[serial]) => base[serial] \ Batch = content[asked[serial].file] \ Batch
    BY <2>2, <2>3 DEF EffectInv
  <2>5. /\ \A f \in Files : content'[f] \ Batch = content[f] \ Batch
        /\ k \in 1..issued => asked[k].file \in Files
    BY <2>1, <2>3, <2>4, WalkTypes, Numbers DEF Updated, Files
  <2> QED BY <1>0, <2>2, <2>5, Numbers
<1>4. CASE Appended
  <2>1. pc = "appending" /\ pc' # "asking" /\ UNCHANGED <<verdict, low, issued>>
    BY <1>4 DEF Appended, End, sessionVars
  <2> QED BY <1>0, <2>1 DEF OneCall, InPhases, InPhaseTwo
<1>5. CASE pc' \notin {"planning", "asking", "executing"}
  BY <1>5
<1>6. CASE UNCHANGED <<verdict, base, asked, low, issued, content>> /\ pc' = "executing"
           /\ pc \in {"planning", "executing"}
  BY <1>0, <1>6
<1>7. CASE UNCHANGED <<pc, cursor, verdict, base, asked, low, issued, content>>
  BY <1>0, <1>7
<1>8. CASE StartTurn \/ BeginStep \/ StepLimit \/ SampleCancelled \/ SampleEnds \/ SampleAnswers
           \/ AppendCall \/ EndTurn \/ Executed \/ Settle \/ Settled \/ ResolvePending
           \/ Dispatched \/ SerialPanic \/ Crash \/ Resume
  <2>1. pc' \notin {"planning", "asking", "executing"}
    <3>1. CASE Dispatched
      <4>1. CASE cancelled BY <3>1, <4>1 DEF Dispatched, End
      <4>2. CASE ~cancelled BY <3>1, <4>2 DEF Dispatched
      <4> QED BY <4>1, <4>2
    <3> QED
      BY <1>8, <3>1 DEF StartTurn, BeginStep, StepLimit, SampleCancelled, SampleEnds, SampleAnswers,
         AppendCall, EndTurn, Executed, Settle, Settled, ResolvePending, SerialPanic,
         Crash, Resume, End, Die
  <2> QED BY <1>5, <2>1
<1>9. CASE Planned \/ TakeAnswered \/ SpawnRead \/ StartSerial \/ FinishTask
  BY <1>6, <1>9 DEF Planned, TakeAnswered, SpawnRead, StartSerial, FinishTask, Walking,
     executeFrame, dispatchFrame
<1>10. CASE Cancel \/ UNCHANGED vars
  BY <1>7, <1>10 DEF Cancel, vars, agentVars, sessionVars
<1> QED BY <1>1, <1>2, <1>3, <1>4, <1>8, <1>9, <1>10 DEF Next, Loop, Answer

\* The walk and the effects keep their invariants in every reachable state.
LEMMA AlwaysSafe == Spec => [](TypeInv /\ AnswerInv /\ WalkInv /\ EffectInv)
<1>1. Init => TypeInv /\ AnswerInv /\ WalkInv /\ EffectInv
  BY InitType, InitAnswer, InitWalk, InitEffect
<1>2. TypeInv /\ AnswerInv /\ WalkInv /\ EffectInv /\ [Next]_vars
        => (TypeInv /\ AnswerInv /\ WalkInv /\ EffectInv)'
  <2>1. TypeInv /\ WalkInv /\ EffectInv /\ [Next]_vars => EffectInv'
    BY StepEffect, StepPlan DEF EffectInv, CallId
  <2> QED BY <2>1, StepType, StepAnswer, StepWalk
<1> QED BY <1>1, <1>2, PTL DEF Spec

-----------------------------------------------------------------------------
(* What the invariants are for.                                              *)

\* Whatever a rule, the memo of refusals or a person turned down has no effect
\* on any file, in this life of the process or the next.
THEOREM RefusedHasNoEffect == Spec => []RefusedNeverRuns
<1>1. TypeInv /\ WalkInv /\ EffectInv => RefusedNeverRuns
  <2> SUFFICES ASSUME TypeInv, WalkInv, EffectInv, NEW f \in Files, NEW k \in content[f]
               PROVE  /\ SubjectOf(k) \notin DenyRules
                      /\ "denied" \notin {verdict[k], status[k], diskStatus[k], results[k]}
    BY DEF RefusedNeverRuns
  <2>1. k \in CallId
    BY WalkTypes
  <2>2. Carried(k) /\ OneEffect(k) /\ OneCall(k)
    BY <2>1 DEF Carried, EffectInv, WalkInv
  <2>3. verdict[k] # "denied" /\ results[k] # "denied"
    BY <2>2 DEF OneEffect, OneCall
  <2> QED BY <2>2, <2>3 DEF OneEffect
<1> QED BY AlwaysSafe, <1>1, PTL

\* dispatch keeps its two orders: no effect before the batch is authorised, and
\* no serial call before the serial calls ahead of it are done.
THEOREM BatchInOrder == Spec => []BatchRunsInOrder
<1>1. TypeInv /\ WalkInv /\ EffectInv => NothingRunsWhilePlanning
  <2> SUFFICES ASSUME TypeInv, WalkInv, EffectInv, pc \in {"appending", "planning", "asking"}
               PROVE  /\ serial = 0 /\ tasks = {}
                      /\ \A k \in Batch : results[k] = "none" /\ \A f \in Files : k \notin content[f]
    BY DEF NothingRunsWhilePlanning
  <2>1. serial = 0 /\ tasks = {}
    BY Numbers, WalkTypes
  <2>2. \A k \in Batch : k \in CallId
    BY Numbers DEF Batch, CallId
  <2>3. \A k \in Batch : results[k] = "none" /\ ~Carried(k)
    BY <2>2 DEF WalkInv, OneCall, EffectInv, OneEffect, InPhaseTwo
  <2> QED BY <2>1, <2>3 DEF Carried
<1>2. TypeInv /\ WalkInv => WritesInCallOrder
  <2> SUFFICES ASSUME TypeInv, WalkInv, NEW k \in tasks \union ({serial} \ {0}), NEW j \in Batch,
                      j < k, verdict[j] = "run", asked[j].kind # "read"
               PROVE  results[j] # "none"
    BY DEF WritesInCallOrder
  <2>1. pc = "executing" /\ j \in CallId /\ j < cursor
    BY Numbers, WalkTypes DEF Batch, CallId
  <2> QED BY <2>1 DEF WalkInv, OneCall, ParallelSafe
<1> QED BY AlwaysSafe, <1>1, <1>2, PTL DEF BatchRunsInOrder

\* An edit is planned against the whole file, and takes away nothing but what
\* its own batch wrote since.
THEOREM EditsKeepEarlierWork == Spec => EditsLoseOnlyTheirBatch
<1>1. ASSUME TypeInv, WalkInv, EffectInv, [Next]_vars, NEW f \in Files
      PROVE  content[f] \ content'[f] \subseteq Batch
  <2>1. CASE FinishSerial
    <3>1. PICK s \in ToolOutcomes(serial) :
            content' = IF s = "ok" /\ Edits(asked[serial]) THEN Updated(serial) ELSE content
      BY <2>1 DEF FinishSerial
    <3>2. serial \in Batch /\ serial \in CallId /\ verdict[serial] = "run" /\ pc = "executing"
      BY <1>1, <2>1, Numbers DEF FinishSerial, Working, WalkInv, OneCall, Batch, CallId
    <3>3. Edits(asked[serial]) => base[serial] \ Batch = content[asked[serial].file] \ Batch
      BY <1>1, <3>2 DEF EffectInv, OnePlan
    <3> QED BY <1>1, <3>1, <3>3, WalkTypes DEF Updated
  <2>2. CASE UNCHANGED content
    BY <2>2
  <2> QED
    BY <1>1, <2>1, <2>2 DEF Next, Loop, Answer, StartTurn, BeginStep, StepLimit, SampleCancelled,
       SampleEnds, SampleAnswers, AppendCall, Appended, PlanCall, Planned, TakeAnswered, SpawnRead,
       StartSerial, FinishTask, Executed, Settle, Settled, ResolvePending, Dispatched, EndTurn,
       Approve, ApproveSession, DenyCall, SerialPanic, Cancel, Crash, Resume, vars, executeFrame
<1>2. TypeInv /\ WalkInv /\ EffectInv /\ [Next]_vars
        => [\A f \in Files : content[f] \ content'[f] \subseteq Batch]_vars
  BY <1>1
<1> QED BY AlwaysSafe, <1>2, PTL DEF Spec, EditsLoseOnlyTheirBatch

-----------------------------------------------------------------------------
(* Refusals.                                                                 *)

\* What a step that appends one item does to the calls of this turn.
LEMMA TurnGrows ==
  ASSUME TypeInv, NEW k \in CallId, NEW x \in Item, transcript' = Append(transcript, x),
         InThisTurn(k)'
  PROVE  x # UserItem /\ (InThisTurn(k) \/ x = CallItem(k))
<1>1. transcript \in Seq(Item)
  BY DEF TypeInv, TypeOK, SessionTypeOK
<1>2. PICK i \in 1..Len(transcript') :
        /\ transcript'[i] = CallItem(k)
        /\ \A j \in i..Len(transcript') : transcript'[j] # UserItem
  BY DEF InThisTurn
<1>3. /\ Len(transcript') = Len(transcript) + 1 /\ Len(transcript) \in Nat
      /\ transcript'[Len(transcript) + 1] = x
      /\ \A j \in 1..Len(transcript) : transcript'[j] = transcript[j]
  BY <1>1
<1>4. CASE i = Len(transcript) + 1
  BY <1>2, <1>3, <1>4
<1>5. CASE i \in 1..Len(transcript)
  <2>1. transcript[i] = CallItem(k) /\ \A j \in i..Len(transcript) : transcript[j] # UserItem
    BY <1>2, <1>3, <1>5
  <2> QED BY <1>2, <1>3, <1>5, <2>1 DEF InThisTurn
<1> QED BY <1>2, <1>3, <1>4, <1>5

\* A call that was refused is a call of the batch the walk has passed, or of an
\* earlier one.
LEMMA RefusedIsWalked ==
  ASSUME TypeInv, AnswerInv, WalkInv, NEW k \in CallId, "denied" \in {verdict[k], status[k]}
  PROVE  /\ k \in 1..issued
         /\ pc \in {"planning", "asking"} => k < cursor
<1>1. OneStatus(k) /\ OneCall(k)
  BY DEF AnswerInv, WalkInv
<1>2. k <= issued
  BY <1>1, Numbers DEF OneStatus, OneCall, Batch, CallId, Unfinished
<1>3. pc \in {"planning", "asking"} => k < cursor
  <2>1. CASE verdict[k] = "denied"
    BY <1>1, <2>1 DEF OneCall
  <2>2. CASE status[k] = "denied"
    BY <1>1, <1>2, <2>2, Numbers DEF OneStatus, Batch, CallId, Unfinished, Working
  <2> QED BY <2>1, <2>2
<1> QED BY <1>2, <1>3 DEF CallId

\* What is remembered stays so while nothing is forgotten.
LEMMA StillRemembered ==
  ASSUME TypeInv, AnswerInv, WalkInv, NEW k \in CallId, Remembered(k),
         InThisTurn(k)' => InThisTurn(k),
         "denied" \in {verdict'[k], status'[k]} => "denied" \in {verdict[k], status[k]},
         denied \subseteq denied', grants \subseteq grants',
         \A j \in 1..issued : asked'[j] = asked[j],
         Walked' \in Nat, Walked <= Walked'
  PROVE  Remembered(k)'
<1> SUFFICES ASSUME InThisTurn(k)', "denied" \in {verdict'[k], status'[k]}
             PROVE  \/ SubjectOf(k)' \in denied'
                    \/ \E g \in (k + 1)..Walked' : SubjectOf(g)' \in grants'
  BY DEF Remembered
<1>1. k \in 1..issued /\ k \in Nat
  BY RefusedIsWalked DEF CallId
<1>2. Walked \in Nat /\ Walked <= issued /\ issued \in Nat
  BY Numbers DEF Walked, Working
<1>3. CASE SubjectOf(k) \in denied
  BY <1>1, <1>3 DEF SubjectOf
<1>4. CASE \E g \in (k + 1)..Walked : SubjectOf(g) \in grants
  <2>1. PICK g \in (k + 1)..Walked : SubjectOf(g) \in grants
    BY <1>4
  <2>2. g \in 1..issued /\ g \in (k + 1)..Walked'
    BY <1>1, <1>2, <2>1
  <2> QED BY <2>1, <2>2 DEF SubjectOf
<1> QED BY <1>3, <1>4 DEF Remembered

\* Nothing is refused at the start.
LEMMA InitRefusal == Init => RefusalInv
  BY DEF Init, RefusalInv

\* No step forgets a refusal but a new turn, and a grant for the session.
LEMMA StepRefusal ==
  ASSUME TypeInv, AnswerInv, WalkInv, RefusalInv, [Next]_vars
  PROVE  RefusalInv'
<1>1. ASSUME pc' \notin {"idle", "down"}, NEW k \in CallId PROVE Remembered(k)'
  <2>0. /\ pc \notin {"idle", "down"} => Remembered(k)
        /\ OneStatus(k) /\ OneCall(k)
        /\ transcript' = transcript => InThisTurn(k)' = InThisTurn(k)
    BY DEF RefusalInv, AnswerInv, WalkInv, InThisTurn
  <2>1. CASE StartTurn
    <3>1. transcript' = Append(transcript, UserItem) /\ UserItem \in Item
      BY <2>1, Bounds DEF StartTurn, AppendItem, UserItem, Item
    <3> QED BY <3>1, TurnGrows DEF Remembered
  <2>2. CASE BeginStep \/ StepLimit \/ SampleEnds \/ Cancel \/ Settled \/ UNCHANGED vars
    <3>1. /\ pc \notin {"idle", "down"} /\ transcript' = transcript
          /\ UNCHANGED <<verdict, status, denied, grants, asked, low, cursor, issued>>
          /\ \/ pc \in {"step", "sampling", "settling"} /\ pc' \in {"sampling", "ending", "resolving"}
             \/ UNCHANGED pc
      BY <1>1, <2>2 DEF BeginStep, StepLimit, SampleEnds, Cancel, Settled, End, vars, agentVars,
                        sessionVars
    <3>2. Walked' \in Nat /\ Walked <= Walked'
      BY <3>1, Numbers DEF Walked, Working
    <3> QED BY <2>0, <3>1, <3>2, StillRemembered
  <2>3. CASE SampleCancelled \/ Dispatched
    <3>1. /\ pc \in {"sampling", "resolving"} /\ pc' \in {"step", "ending"}
          /\ \/ UNCHANGED transcript
             \/ transcript' = Append(transcript, InterruptedItem)
          /\ UNCHANGED <<status, denied, grants, asked, issued>>
          /\ UNCHANGED verdict \/ verdict' = NoVerdicts
      <4>1. CASE cancelled
        BY <2>3, <4>1 DEF SampleCancelled, Dispatched, PushInterrupted, End, ForgetBatch, agentVars
      <4>2. CASE ~cancelled
        BY <2>3, <4>2 DEF SampleCancelled, Dispatched, ForgetBatch
      <4> QED BY <4>1, <4>2
    <3>2. InThisTurn(k)' => InThisTurn(k)
      <4>1. InterruptedItem \in Item /\ InterruptedItem # CallItem(k)
        BY Bounds DEF Item, InterruptedItem, CallItem
      <4> QED BY <2>0, <3>1, <4>1, TurnGrows
    <3>3. Walked' \in Nat /\ Walked <= Walked'
      BY <3>1, Numbers DEF Walked
    <3> QED BY <2>0, <3>1, <3>2, <3>3, StillRemembered DEF NoVerdicts
  <2>4. CASE SampleAnswers
    <3>1. /\ pc = "sampling" /\ pc' = "appending" /\ low' = issued + 1
          /\ UNCHANGED <<transcript, verdict, status, denied, grants>>
          /\ \A j \in 1..issued : asked'[j] = asked[j]
      <4>1. PICK n \in 0..MaxBatch : \E reqs \in [1..n -> Menu] :
              asked' = [j \in CallId |-> IF j \in (issued + 1)..(issued + n)
                                         THEN reqs[j - issued] ELSE asked[j]]
        BY <2>4 DEF SampleAnswers
      <4> QED BY <2>4, <4>1, Numbers, Bounds DEF SampleAnswers, CallId
    <3>2. Walked' \in Nat /\ Walked <= Walked'
      BY <3>1, Numbers DEF Walked
    <3> QED BY <2>0, <3>1, <3>2, StillRemembered
  <2>5. CASE AppendCall
    <3>1. /\ pc = "appending" /\ cursor \in Batch /\ SetStatus(cursor, "pending")
          /\ transcript' = Append(transcript, CallItem(cursor))
          /\ UNCHANGED <<pc, verdict, denied, grants, asked, low, issued>>
      BY <2>5, Numbers DEF AppendCall, AppendItem, Working, Batch
    <3>2. CASE k = cursor
      BY <2>0, <3>1, <3>2, SetStatusLocal DEF Remembered, OneCall, InPhases, InPhaseTwo
    <3>3. CASE k # cursor
      <4>1. cursor \in CallId /\ CallItem(cursor) \in Item /\ CallItem(cursor) # CallItem(k)
        BY <3>1, <3>3, Numbers DEF Batch, CallId, CallItem, Item
      <4>2. status'[k] = status[k]
        BY <3>1, <3>3, <4>1, SetStatusLocal
      <4>3. InThisTurn(k)' => InThisTurn(k)
        BY <3>1, <4>1, TurnGrows
      <4>4. Walked' \in Nat /\ Walked <= Walked'
        BY <3>1, Numbers DEF Walked
      <4> QED BY <2>0, <3>1, <4>2, <4>3, <4>4, StillRemembered
    <3> QED BY <3>2, <3>3
  <2>6. CASE Appended \/ Planned
    <3>1. \/ pc = "appending" /\ pc' = "ending"
          \/ pc = "appending" /\ pc' = "planning" /\ cursor' = low
          \/ pc = "planning" /\ cursor > issued /\ pc' = "executing"
      BY <2>6 DEF Appended, Planned, End
    <3>2. UNCHANGED <<transcript, verdict, status, denied, grants, asked, low, issued>>
      BY <2>6 DEF Appended, Planned, dispatchFrame, sessionVars
    <3>3. Walked' \in Nat /\ Walked <= Walked'
      BY <3>1, <3>2, Numbers DEF Walked, Working
    <3> QED BY <2>0, <3>2, <3>1, <3>3, StillRemembered
  <2>7. CASE PlanCall \/ Approve \/ DenyCall
    <3>1. /\ pc \in {"planning", "asking"} /\ cursor \in Batch /\ cursor \in CallId
          /\ UNCHANGED <<transcript, grants, asked, low, issued>>
          /\ denied \subseteq denied'
      BY <2>7, Numbers DEF PlanCall, Approve, DenyCall, MayDeny, RememberRefusal, Unplannable,
             RefusedAgain, Allowed, Denied, Asks, dispatchFrame, Working, Batch, CallId
    <3>2. /\ \/ pc' = "planning" /\ cursor' = cursor + 1 /\ UNCHANGED <<status, diskStatus>>
                /\ \/ \E v \in {"run", "failed"} : verdict' = [verdict EXCEPT ![cursor] = v]
                   \/ verdict' = [verdict EXCEPT ![cursor] = "denied"] /\ SubjectOf(cursor) \in denied'
             \/ pc' = "asking" /\ SetStatus(cursor, "awaiting") /\ UNCHANGED <<verdict, cursor>>
      BY <2>7 DEF PlanCall, Approve, DenyCall, MayDeny, RememberRefusal, Unplannable,
             RefusedAgain, Allowed, Denied, Asks, Decided, SubjectOf
    <3>3. Walked' \in Nat /\ Walked <= Walked'
      BY <3>1, <3>2, Numbers DEF Walked, Working
    <3>4. CASE k = cursor
      <4>1. "denied" \notin {verdict[k], status[k]}
        BY <3>1, <3>4, RefusedIsWalked, Numbers
      <4> QED BY <2>0, <3>1, <3>2, <3>4, <4>1, SetStatusLocal, WalkTypes DEF Remembered, SubjectOf
    <3>5. CASE k # cursor
      <4>1. verdict'[k] = verdict[k] /\ status'[k] = status[k]
        BY <3>1, <3>2, <3>5, SetStatusLocal, WalkTypes
      <4> QED BY <2>0, <3>1, <3>3, <4>1, StillRemembered
    <3> QED BY <3>4, <3>5
  <2>8. CASE ApproveSession
    <3>1. /\ pc = "asking" /\ pc' = "planning" /\ cursor' = cursor + 1
          /\ verdict' = [verdict EXCEPT ![cursor] = "run"]
          /\ SubjectOf(cursor) \in grants'
          /\ UNCHANGED <<transcript, status, asked, issued>>
      BY <2>8 DEF ApproveSession, Decided, dispatchFrame
    <3>2. "denied" \in {verdict'[k], status'[k]} => k < cursor
      BY <3>1, RefusedIsWalked, WalkTypes, Numbers
    <3>3. Walked' = cursor /\ cursor \in Nat /\ k \in Nat
      <4>1. cursor \in Nat /\ k \in Nat
        BY Numbers DEF CallId
      <4> QED BY <3>1, <4>1 DEF Walked
    <3>4. k < cursor => cursor \in (k + 1)..Walked'
      BY <3>3
    <3>5. Subject(asked'[cursor]) \in grants'
      BY <3>1 DEF SubjectOf
    <3> QED BY <3>2, <3>4, <3>5 DEF Remembered, SubjectOf
  <2>9. CASE \/ TakeAnswered \/ SpawnRead \/ StartSerial \/ FinishSerial \/ FinishTask \/ Executed
             \/ Settle \/ ResolvePending
    <3>1. /\ pc \in InPhaseTwo /\ pc' \in InPhaseTwo
          /\ UNCHANGED <<transcript, verdict, denied, grants, asked, issued>>
      BY <2>9 DEF TakeAnswered, SpawnRead, StartSerial, FinishSerial, FinishTask, Executed, Settle,
             ResolvePending, Walking, executeFrame, dispatchFrame, agentVars, InPhaseTwo
    <3>2. status'[k] = "denied" => "denied" \in {verdict[k], status[k]}
      <4>1. CASE UNCHANGED status
        BY <4>1
      <4>2. CASE StartSerial
        <5>1. SetStatus(cursor, "running")
          BY <4>2 DEF StartSerial
        <5> QED BY <5>1, Numbers DEF SetStatus
      <4>3. CASE Settle /\ SetStatus(cursor, results[cursor])
        BY <2>0, <4>3, Numbers DEF SetStatus, OneCall
      <4>4. CASE ResolvePending
        <5>1. PICK j \in UnfinishedCalls : SetStatus(j, "cancelled")
          BY <4>4 DEF ResolvePending
        <5> QED BY <5>1, Numbers DEF SetStatus
      <4> QED BY <2>9, <4>1, <4>2, <4>3, <4>4 DEF TakeAnswered, SpawnRead, FinishSerial, FinishTask,
                 Executed, Settle
    <3>3. Walked' \in Nat /\ Walked <= Walked'
      BY <3>1, Numbers DEF Walked, InPhaseTwo
    <3> QED BY <2>0, <3>1, <3>2, <3>3, StillRemembered DEF InPhaseTwo
  <2>10. CASE EndTurn \/ SerialPanic \/ Crash \/ Resume
    BY <1>1, <2>10 DEF EndTurn, SerialPanic, Crash, Resume, Die
  <2> QED
    BY <2>1, <2>2, <2>3, <2>4, <2>5, <2>6, <2>7, <2>8, <2>9, <2>10 DEF Next, Loop, Answer
<1>2. ASSUME pc' = "asking" PROVE SubjectOf(cursor)' \notin denied'
  <2>1. CASE PlanCall
    BY <1>2, <2>1 DEF PlanCall, Unplannable, RefusedAgain, Allowed, Denied, Asks, Evaluated,
       Decided, dispatchFrame, SubjectOf
  <2>2. CASE Cancel \/ UNCHANGED vars
    BY <1>2, <2>2 DEF Cancel, vars, agentVars, sessionVars, RefusalInv, SubjectOf
  <2>3. CASE Dispatched
    <3>1. CASE cancelled BY <1>2, <2>3, <3>1 DEF Dispatched, End
    <3>2. CASE ~cancelled BY <1>2, <2>3, <3>2 DEF Dispatched
    <3> QED BY <3>1, <3>2
  <2> QED
    BY <1>2, <2>1, <2>2, <2>3 DEF Next, Loop, Answer, StartTurn, BeginStep, StepLimit,
       SampleCancelled, SampleEnds, SampleAnswers, AppendCall, Appended, Planned, TakeAnswered,
       SpawnRead, StartSerial, FinishSerial, FinishTask, Executed, Settle, Settled, ResolvePending,
       EndTurn, Approve, ApproveSession, DenyCall, MayDeny, SerialPanic, Crash, Resume, Walking,
       End, Die, Decided
<1> QED BY <1>1, <1>2 DEF RefusalInv

\* What is known of refused calls holds in every reachable state.
LEMMA AlwaysRefused == Spec => [](TypeInv /\ AnswerInv /\ WalkInv /\ RefusalInv)
<1>1. TypeInv /\ AnswerInv /\ WalkInv /\ RefusalInv /\ [Next]_vars => RefusalInv'
  BY StepRefusal
<1> QED BY InitRefusal, AlwaysSafe, <1>1, PTL DEF Spec

\* A question that a refusal of this turn has answered is not put again, unless
\* the person has granted something for the session since.
THEOREM NobodyAskedTwice == Spec => []NotAskedAgain
<1>1. TypeInv /\ RefusalInv => NotAskedAgain
  <2> SUFFICES ASSUME TypeInv, RefusalInv, pc = "asking", NEW j \in 1..(cursor - 1),
                      InThisTurn(j), SubjectOf(j) = SubjectOf(cursor),
                      "denied" \in {verdict[j], status[j]}
               PROVE  \E g \in (j + 1)..(cursor - 1) : SubjectOf(g) \in grants
    BY DEF NotAskedAgain
  <2>1. j \in CallId
    BY Numbers DEF CallId
  <2> QED BY <2>1 DEF RefusalInv, Remembered, Walked
<1> QED BY AlwaysRefused, <1>1, PTL

-----------------------------------------------------------------------------
(* The records and the transcript.                                           *)

\* Transcript and records are sequences of items, and no marker is a call.
LEMMA Sequences ==
  ASSUME TypeInv
  PROVE  /\ transcript \in Seq(Item) /\ Len(transcript) \in Nat
         /\ disk \in Seq(Item) /\ Len(disk) \in Nat
         /\ UserItem \in Item /\ UserItem # InterruptedItem /\ InterruptedItem \in Item
         /\ \A k \in CallId : CallItem(k) \in Item /\ CallItem(k) # InterruptedItem
  BY Bounds DEF TypeInv, TypeOK, SessionTypeOK, UserItem, InterruptedItem, CallItem, Item, CallId

\* A place among the recorded items is a place in the records.
LEMMA RecordedPlaces ==
  ASSUME TypeInv, NEW n \in 0..Len(transcript)
  PROVE  /\ IsFiniteSet(RecordedAmong(n)) /\ Cardinality(RecordedAmong(n)) \in Nat
         /\ Cardinality(RecordedAmong(n)) <= Cardinality(RecordedAmong(Len(transcript)))
         /\ n \in RecordedAmong(n) => Cardinality(RecordedAmong(n)) >= 1
<1>1. n \in Nat /\ Len(transcript) \in Nat
  BY Sequences
<1>2. IsFiniteSet(1..Len(transcript))
  BY <1>1, FS_Interval
<1>3. RecordedAmong(Len(transcript)) \subseteq 1..Len(transcript)
  BY DEF RecordedAmong
<1>4. RecordedAmong(n) \subseteq RecordedAmong(Len(transcript))
  BY <1>1 DEF RecordedAmong
<1>5. IsFiniteSet(RecordedAmong(Len(transcript)))
  BY <1>2, <1>3, FS_Subset
<1>6. /\ IsFiniteSet(RecordedAmong(n))
      /\ Cardinality(RecordedAmong(n)) <= Cardinality(RecordedAmong(Len(transcript)))
  BY <1>4, <1>5, FS_Subset
<1>7. Cardinality(RecordedAmong(n)) \in Nat
  BY <1>6, FS_CardinalityType
<1>8. ASSUME n \in RecordedAmong(n) PROVE Cardinality(RecordedAmong(n)) # 0
  BY <1>6, <1>8, FS_EmptySet
<1> QED BY <1>6, <1>7, <1>8

\* An item appended to the transcript is recorded last, or not at all.
LEMMA RecordedGrows ==
  ASSUME TypeInv, NEW x \in Item, transcript' = Append(transcript, x)
  PROVE  /\ Len(transcript') = Len(transcript) + 1
         /\ \A i \in 1..Len(transcript) : /\ transcript'[i] = transcript[i]
                                          /\ RecordedAmong(i)' = RecordedAmong(i)
         /\ transcript'[Len(transcript) + 1] = x
         /\ RecordedAmong(Len(transcript))' =
              RecordedAmong(Len(transcript)) \union
                IF x = InterruptedItem THEN {} ELSE {Len(transcript) + 1}
<1>1. /\ Len(transcript') = Len(transcript) + 1 /\ Len(transcript) \in Nat
      /\ transcript'[Len(transcript) + 1] = x
      /\ \A j \in 1..Len(transcript) : transcript'[j] = transcript[j]
  BY Sequences
<1>2. \A i \in 1..Len(transcript) : RecordedAmong(i)' = RecordedAmong(i)
  BY <1>1 DEF RecordedAmong
<1>3. 1..(Len(transcript) + 1) = 1..Len(transcript) \union {Len(transcript) + 1}
  BY <1>1
<1>4. RecordedAmong(Len(transcript))' =
        {i \in 1..Len(transcript) \union {Len(transcript) + 1} : transcript'[i] # InterruptedItem}
  BY <1>1, <1>3 DEF RecordedAmong
<1>5. RecordedAmong(Len(transcript))' =
        RecordedAmong(Len(transcript)) \union
          IF x = InterruptedItem THEN {} ELSE {Len(transcript) + 1}
  BY <1>1, <1>4 DEF RecordedAmong
<1> QED BY <1>1, <1>2, <1>5

\* An item that reaches both keeps them together.
LEMMA AppendFollows ==
  ASSUME TypeInv, RecordsFollow, NEW x \in Item, x # InterruptedItem, AppendItem(x)
  PROVE  RecordsFollow'
<1> DEFINE n == Len(transcript)
<1>1. /\ transcript' = Append(transcript, x) /\ disk' = Append(disk, x)
  BY DEF AppendItem
<1>2. /\ Len(disk') = Len(disk) + 1 /\ Len(disk) \in Nat /\ n \in Nat
      /\ disk'[Len(disk) + 1] = x
      /\ \A j \in 1..Len(disk) : disk'[j] = disk[j]
  BY <1>1, Sequences
<1>3. RecordedAmong(Len(transcript))' = RecordedAmong(n) \union {n + 1}
  BY <1>1, RecordedGrows
<1>4. n + 1 \notin RecordedAmong(n)
  BY <1>2 DEF RecordedAmong
<1>5. Cardinality(RecordedAmong(n) \union {n + 1}) = Len(disk) + 1
  <2>1. n \in 0..Len(transcript)
    BY <1>2
  <2>2. IsFiniteSet(RecordedAmong(n)) /\ Cardinality(RecordedAmong(n)) = Len(disk)
    BY <2>1, RecordedPlaces DEF RecordsFollow
  <2> QED BY <1>4, <2>2, FS_AddElement
<1>6. ASSUME NEW i \in RecordedAmong(Len(transcript))'
      PROVE  disk'[Cardinality(RecordedAmong(i))'] = transcript'[i]
  <2>1. CASE i = n + 1
    <3>1. RecordedAmong(i)' = RecordedAmong(n) \union {n + 1}
      BY <1>1, <1>3, <2>1, RecordedGrows
    <3> QED BY <1>1, <1>2, <1>5, <2>1, <3>1, RecordedGrows
  <2>2. CASE i \in RecordedAmong(n)
    <3>1. i \in 1..n /\ i \in RecordedAmong(i) /\ i \in 0..Len(transcript)
      BY <1>2, <2>2 DEF RecordedAmong
    <3>2. RecordedAmong(i)' = RecordedAmong(i) /\ transcript'[i] = transcript[i]
      BY <1>1, <3>1, RecordedGrows
    <3>3. /\ Cardinality(RecordedAmong(i)) \in 1..Len(disk)
          /\ disk[Cardinality(RecordedAmong(i))] = transcript[i]
      BY <1>2, <2>2, <3>1, RecordedPlaces DEF RecordsFollow
    <3> QED BY <1>2, <3>2, <3>3
  <2> QED BY <1>3, <2>1, <2>2
<1> QED BY <1>2, <1>3, <1>5, <1>6 DEF RecordsFollow

\* The marker of an interruption has no record, and needs none.
LEMMA MarkerFollows ==
  ASSUME TypeInv, RecordsFollow, PushInterrupted, disk' = disk
  PROVE  RecordsFollow'
<1>1. RecordedAmong(Len(transcript))' = RecordedAmong(Len(transcript))
  BY Sequences, RecordedGrows DEF PushInterrupted
<1>2. ASSUME NEW i \in RecordedAmong(Len(transcript))
      PROVE  RecordedAmong(i)' = RecordedAmong(i) /\ transcript'[i] = transcript[i]
  <2>1. i \in 1..Len(transcript)
    BY <1>2 DEF RecordedAmong
  <2> QED BY <2>1, Sequences, RecordedGrows DEF PushInterrupted
<1> QED BY <1>1, <1>2 DEF RecordsFollow

\* What a resume loads is the records themselves.
LEMMA LoadFollows ==
  ASSUME TypeInv, RecordsInv, transcript' = disk, disk' = disk
  PROVE  RecordsFollow'
<1>1. Len(disk) \in Nat
  BY Sequences
<1>2. ASSUME NEW i \in 0..Len(disk)
      PROVE  RecordedAmong(i)' = 1..i /\ Cardinality(1..i) = i
  <2>1. \A j \in 1..i : transcript'[j] # InterruptedItem
    BY <1>1, <1>2 DEF RecordsInv
  <2>2. RecordedAmong(i)' = 1..i
    BY <2>1 DEF RecordedAmong
  <2>3. Cardinality(1..i) = IF 1 > i THEN 0 ELSE i - 1 + 1
    BY <1>1, <1>2, FS_Interval
  <2> QED BY <1>1, <1>2, <2>2, <2>3
<1>3. Cardinality(RecordedAmong(Len(transcript)))' = Len(disk)
  BY <1>1, <1>2
<1>4. ASSUME NEW i \in RecordedAmong(Len(transcript))'
      PROVE  disk'[Cardinality(RecordedAmong(i))'] = transcript'[i]
  <2>1. i \in 1..Len(disk)
    BY <1>1, <1>2, <1>4
  <2> QED BY <1>1, <1>2, <2>1
<1> QED BY <1>3, <1>4 DEF RecordsFollow

\* The records of an empty session match its transcript.
LEMMA InitRecords == Init => RecordsInv
<1> SUFFICES ASSUME Init PROVE RecordsInv
  OBVIOUS
<1>1. transcript = <<>> /\ disk = <<>>
  BY DEF Init
<1>2. RecordedAmong(Len(transcript)) = {}
  BY <1>1 DEF RecordedAmong
<1> QED BY <1>1, <1>2, FS_EmptySet DEF RecordsInv, RecordsFollow

\* Every step appends to both, to the transcript a marker, or to neither.
LEMMA StepRecords ==
  ASSUME TypeInv, RecordsInv, [Next]_vars
  PROVE  RecordsInv'
<1>1. CASE \E x \in Item : x # InterruptedItem /\ AppendItem(x) /\ pc # "down"
  <2>1. PICK x \in Item : x # InterruptedItem /\ AppendItem(x) /\ pc # "down"
    BY <1>1
  <2>2. RecordsFollow'
    BY <2>1, AppendFollows DEF RecordsInv
  <2>3. \A i \in 1..Len(disk') : disk'[i] # InterruptedItem
    <3>1. /\ Len(disk') = Len(disk) + 1 /\ Len(disk) \in Nat /\ disk'[Len(disk) + 1] = x
          /\ \A j \in 1..Len(disk) : disk'[j] = disk[j]
      BY <2>1, Sequences DEF AppendItem
    <3> QED BY <2>1, <3>1 DEF RecordsInv
  <2> QED BY <2>2, <2>3 DEF RecordsInv
<1>2. CASE PushInterrupted /\ disk' = disk /\ pc # "down"
  BY <1>2, MarkerFollows DEF RecordsInv
<1>3. CASE pc' = "down" /\ disk' = disk
  BY <1>3 DEF RecordsInv
<1>4. CASE transcript' = disk /\ disk' = disk
  BY <1>4, LoadFollows DEF RecordsInv
<1>5. CASE transcript' = transcript /\ disk' = disk /\ pc # "down"
  <2>1. RecordsFollow' = RecordsFollow
    BY <1>5 DEF RecordsFollow, RecordedAmong
  <2> QED BY <1>5, <2>1 DEF RecordsInv
<1>6. CASE UNCHANGED vars
  <2>1. RecordsFollow' = RecordsFollow /\ disk' = disk /\ pc' = pc
    BY <1>6 DEF RecordsFollow, RecordedAmong, vars, sessionVars, diskVars
  <2> QED BY <1>6, <2>1 DEF RecordsInv
<1>7. CASE StartTurn \/ AppendCall
  <2>1. cursor \in CallId \/ StartTurn
    BY <1>7, Numbers DEF AppendCall, CallId, Working
  <2> QED BY <1>1, <1>7, <2>1, Sequences DEF StartTurn, AppendCall
<1>8. CASE SampleCancelled \/ Dispatched
  <2>1. CASE cancelled
    BY <1>2, <1>8, <2>1 DEF SampleCancelled, Dispatched, diskVars
  <2>2. CASE ~cancelled
    BY <1>5, <1>8, <2>2 DEF SampleCancelled, Dispatched, diskVars
  <2> QED BY <2>1, <2>2
<1>9. CASE SerialPanic \/ Crash
  BY <1>3, <1>9 DEF SerialPanic, Crash, Die, diskVars
<1>10. CASE Resume
  BY <1>4, <1>10 DEF Resume, diskVars
<1>11. CASE \/ BeginStep \/ StepLimit \/ SampleEnds \/ SampleAnswers \/ Appended \/ EndTurn
            \/ Settled \/ Cancel
  BY <1>5, <1>11 DEF BeginStep, StepLimit, SampleEnds, SampleAnswers, Appended, EndTurn, Settled,
     Cancel, sessionVars, diskVars
<1>12. CASE \/ PlanCall \/ Answer \/ Planned \/ TakeAnswered \/ SpawnRead \/ StartSerial
            \/ FinishSerial \/ FinishTask \/ Executed \/ Settle \/ ResolvePending
  BY <1>5, <1>12 DEF PlanCall, Answer, Approve, ApproveSession, DenyCall, MayDeny, Planned,
     TakeAnswered, SpawnRead, StartSerial, FinishSerial, FinishTask, Executed, Settle,
     ResolvePending, Walking, executeFrame, dispatchFrame
<1> QED BY <1>6, <1>7, <1>8, <1>9, <1>10, <1>11, <1>12 DEF Next, Loop

\* The record of a call is written before its effect, and when a turn is over
\* the records hold the transcript: a crash can lose the effect, never its trace.
THEOREM RecordsNeverBehind == Spec => []RecordsLead
<1>1. TypeInv /\ EffectInv => EffectRecordedFirst
  <2> SUFFICES ASSUME TypeInv, EffectInv, NEW f \in Files, NEW k \in content[f]
               PROVE  diskStatus[k] \notin {"none", "pending", "awaiting"}
    BY DEF EffectRecordedFirst
  <2>1. k \in CallId /\ Carried(k)
    BY WalkTypes DEF Carried
  <2> QED BY <2>1 DEF EffectInv, OneEffect
<1>2. TypeInv /\ AnswerInv /\ RecordsInv => RecordsMatchTranscript
  <2> SUFFICES ASSUME AnswerInv, RecordsInv, pc \in {"idle", "step", "sampling", "ending"}
               PROVE  /\ RecordsFollow
                      /\ \A k \in CallId : status[k] = Repaired(diskStatus[k])
    BY DEF RecordsMatchTranscript
  <2>1. \A k \in CallId : status[k] = Repaired(diskStatus[k])
    BY DEF AnswerInv, OneStatus, Repaired, InDispatch, Unfinished
  <2> QED BY <2>1 DEF RecordsInv
<1>3. TypeInv /\ RecordsInv /\ [Next]_vars => RecordsInv'
  BY StepRecords
<1> QED BY AlwaysSafe, InitRecords, <1>1, <1>2, <1>3, PTL DEF Spec, RecordsLead

=============================================================================
