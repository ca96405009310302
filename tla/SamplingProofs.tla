--------------------------- MODULE SamplingProofs ---------------------------
(* What the loop that asks the model guarantees for any number of retries,  *)
(* blocks and turns: the surface shows the session's items, whatever the    *)
(* attempts that failed have left on it.                                    *)
EXTENDS Sampling, SequenceTheorems, TLAPS

Entries == [id : Nat, kind : Kinds, live : BOOLEAN]

\* An attempt is under way, or its answer is not used yet.
Underway == pc \in {"connecting", "streaming"} \/ (pc = "returned" /\ result = "ok")

\* The blocks that are finished: those of the session, then those of this answer.
Finished == transcript \o blocks

\* Identifiers are handed out in order: the attempt's own, then its blocks'.
IdsInv ==
    /\ item < nextId
    /\ \A n \in 1..Len(surface) : surface[n].id < nextId /\ surface[n].id # item
    /\ \A i \in 1..Len(transcript) : transcript[i].id < nextId
    /\ \A x \in lost : x < nextId
    /\ \A i \in Open : open[i].id \in (item + 1)..(nextId - 1)
    /\ \A i \in 1..Len(blocks) : blocks[i].id \in (item + 1)..(nextId - 1)
    /\ Underway => /\ \A i \in 1..Len(transcript) : transcript[i].id < item
                   /\ \A x \in lost : x < item

\* What belongs to an attempt is gone when it is over.
LocalInv ==
    /\ Open \subseteq started
    /\ ~Underway => blocks = <<>>
    /\ pc # "streaming" => Open = {}

\* An open text is shown after everything that is finished, an open tool call
\* is not shown yet, and texts end before the tool calls open with them.
OpenInv ==
    /\ \A i \in Open : open[i].kind = "text" =>
         /\ \E n \in 1..Len(surface) : surface[n].id = open[i].id
         /\ \A k \in 1..Len(Finished), n, m \in 1..Len(surface) :
              surface[n].id = Finished[k].id /\ surface[m].id = open[i].id => n < m
    /\ \A i \in Open : open[i].kind = "tool" =>
         \A n \in 1..Len(surface) : surface[n].id # open[i].id
    /\ \A i, j \in Open : i < j =>
         /\ open[i].id # open[j].id
         /\ open[j].kind = "text" => open[i].kind = "text"
         /\ open[j].kind = "text" =>
              \A n, m \in 1..Len(surface) :
                surface[n].id = open[i].id /\ surface[m].id = open[j].id => n < m

OnceInv == \A n, m \in 1..Len(surface) : surface[n].id = surface[m].id => n = m

LostInv == \A i \in 1..Len(transcript) : transcript[i].id \notin lost

Inv ==
    /\ TypeOK /\ IdsInv /\ LocalInv /\ OpenInv /\ OnceInv /\ LostInv
    /\ ShownInOrder(Finished, surface)

-----------------------------------------------------------------------------
(* Operators.                                                               *)

\* A block and its entry share their id, and no block is a closed one.
LEMMA KindsOfBlock ==
    /\ Closed \notin Block
    /\ \A b \in Block : b.id \in Nat /\ b.kind \in Kinds
    /\ \A b \in Block, live \in BOOLEAN :
         Entry(b, live) \in Entries /\ Entry(b, live).id = b.id
<1>1. \A b \in Block, live \in BOOLEAN :
        Entry(b, live) \in Entries /\ Entry(b, live).id = b.id
  BY DEF Entry, Entries, Block, Kinds
<1>2. "none" \notin Kinds
  BY DEF Kinds
<1> QED BY <1>1, <1>2 DEF Block, Closed

\* An entry whose id is not on the surface goes to its end.
LEMMA UpsertNew ==
    ASSUME NEW s \in Seq(Entries), NEW e \in Entries,
           \A n \in 1..Len(s) : s[n].id # e.id
    PROVE  LET t == Upsert(s, e) IN
           /\ t \in Seq(Entries) /\ Len(t) = Len(s) + 1 /\ Len(s) \in Nat
           /\ \A n \in 1..Len(s) : t[n] = s[n]
           /\ t[Len(s) + 1] = e
<1>1. Upsert(s, e) = Append(s, e)
  BY DEF Upsert
<1> QED BY <1>1, AppendProperties, LenProperties

\* One that is there is replaced where it is.
LEMMA UpsertOld ==
    ASSUME NEW s \in Seq(Entries), NEW e \in Entries,
           \E n \in 1..Len(s) : s[n].id = e.id
    PROVE  LET t == Upsert(s, e) IN
           /\ t \in Seq(Entries) /\ Len(t) = Len(s) /\ Len(s) \in Nat
           /\ \A n \in 1..Len(s) : t[n] = IF s[n].id = e.id THEN e ELSE s[n]
<1>1. Upsert(s, e) = [n \in 1..Len(s) |-> IF s[n].id = e.id THEN e ELSE s[n]]
  BY DEF Upsert
<1>2. Len(s) \in Nat /\ \A n \in 1..Len(s) : s[n] \in Entries
  BY LenProperties, ElementOfSeq
<1>3. Upsert(s, e) \in [1..Len(s) -> Entries]
  BY <1>1, <1>2
<1>4. Upsert(s, e) \in Seq(Entries)
  BY <1>2, <1>3, SeqDef
<1>5. Len(Upsert(s, e)) = Len(s)
  BY <1>2, <1>3, <1>4, LenProperties
<1> QED BY <1>1, <1>2, <1>4, <1>5

\* Either way the surface stays one.
LEMMA UpsertTyped ==
    ASSUME NEW s \in Seq(Entries), NEW e \in Entries
    PROVE  Upsert(s, e) \in Seq(Entries)
BY UpsertNew, UpsertOld

\* An id that is not on the surface is dropped from it in vain.
LEMMA DropNothing ==
    ASSUME NEW s, NEW id, \A n \in 1..Len(s) : s[n].id # id
    PROVE  Drop(s, id) = s
BY DEF Drop

\* Dropping removes one entry.
LEMMA DropTyped ==
    ASSUME NEW s \in Seq(Entries), NEW id
    PROVE  Drop(s, id) \in Seq(Entries)
<1>1. CASE \E n \in 1..Len(s) : s[n].id = id
  <2> DEFINE n == CHOOSE n \in 1..Len(s) : s[n].id = id
  <2>1. n \in 1..Len(s) /\ Drop(s, id) = SubSeq(s, 1, n - 1) \o SubSeq(s, n + 1, Len(s))
    BY <1>1 DEF Drop, RemoveAt
  <2> HIDE DEF n
  <2>2. Len(s) \in Nat /\ \A k \in 1..Len(s) : s[k] \in Entries
    BY LenProperties, ElementOfSeq
  <2>3. SubSeq(s, 1, n - 1) \in Seq(Entries) /\ SubSeq(s, n + 1, Len(s)) \in Seq(Entries)
    BY <2>1, <2>2, SubSeqProperties
  <2> QED BY <2>1, <2>3, ConcatProperties
<1>2. CASE ~\E n \in 1..Len(s) : s[n].id = id
  BY <1>2, DropNothing
<1> QED BY <1>1, <1>2

-----------------------------------------------------------------------------
(* Types.                                                                   *)

\* Every step keeps the types.
LEMMA TypesHold ==
    ASSUME TypeOK, [Next]_vars
    PROVE  TypeOK'
<1> USE SamplingAssumption
<1>1. CASE Prompt
  <2>1. cancelled' \in BOOLEAN /\ forced' \in BOOLEAN
    BY <1>1, Zenon DEF Prompt, Call
  <2> QED BY <1>1, <2>1 DEF Prompt, Call, TypeOK, streamVars
<1>2. CASE Attempt
  BY <1>2 DEF Attempt, TypeOK
<1>3. CASE Connected
  BY <1>3 DEF Connected, TypeOK, streamVars, callVars
<1>4. CASE AttemptCancelled
  BY <1>4, EmptySeq DEF AttemptCancelled, Return, EmptyBuffer, ForgetBlocks, TypeOK, callVars
<1>5. CASE BlockStart
  <2>1. PICK i \in Index, k \in Kinds : LET block == [id |-> nextId, kind |-> k] IN
          /\ open' = [open EXCEPT ![i] = block]
          /\ surface' = IF k = "text" THEN Upsert(surface, Entry(block, TRUE)) ELSE surface
          /\ started' = started \union {i}
    BY <1>5 DEF BlockStart
  <2> DEFINE block == [id |-> nextId, kind |-> k]
  <2>2. block \in Block /\ Entry(block, TRUE) \in Entries
    BY KindsOfBlock DEF TypeOK, Block
  <2>3. surface' \in Seq(Entries) /\ open' \in [Index -> Block \union {Closed}]
    BY <2>1, <2>2, UpsertTyped DEF TypeOK, Entries
  <2>4. UNCHANGED <<pc, cancelled, result, lost, transcript, item, blocks, callVars>>
        /\ started' \subseteq Index /\ nextId' \in Nat
    BY <1>5, <2>1 DEF BlockStart, TypeOK
  <2> QED BY <2>3, <2>4 DEF TypeOK, Entries, callVars
<1>6. CASE BlockEnd
  <2>1. PICK i \in Open :
          /\ open' = [open EXCEPT ![i] = Closed]
          /\ surface' = Upsert(surface, Entry(open[i], FALSE))
          /\ blocks' = Append(blocks, open[i])
    BY <1>6 DEF BlockEnd, Buffered
  <2>2. open[i] \in Block /\ Entry(open[i], FALSE) \in Entries
    BY KindsOfBlock DEF TypeOK, Open
  <2>3. surface' \in Seq(Entries) /\ blocks' \in Seq(Block)
        /\ open' \in [Index -> Block \union {Closed}]
    BY <2>1, <2>2, UpsertTyped, AppendProperties DEF TypeOK, Entries
  <2> QED BY <1>6, <2>3 DEF BlockEnd, TypeOK, Entries, callVars
<1>7. CASE StreamEnds
  BY <1>7 DEF StreamEnds, Return, ForgetBlocks, TypeOK, callVars
<1>8. CASE Failed
  <2>1. /\ surface' = surface \/ surface' = Drop(surface, item)
        /\ backoff' = backoff \/ (backoff > 0 /\ backoff' = backoff - 1)
        /\ forced' = forced \/ forced' = TRUE
        /\ \/ pc' \in {"attempt", "backoff"} /\ UNCHANGED result
           \/ pc' = "returned" /\ result' \in {"overflow", "fatal"}
    BY <1>8 DEF Failed, Overflowed, OnlyOnce, Retried, DelaysLeft, Return
  <2>2. surface' \in Seq(Entries)
    BY <2>1, DropTyped DEF TypeOK, Entries
  <2>3. lost' \subseteq Nat
    BY <1>8 DEF Failed, TypeOK, OfThisAttempt
  <2>4. backoff' \in 0..Retries
    BY <2>1 DEF TypeOK
  <2>5. /\ UNCHANGED <<cancelled, transcript, item, nextId, samples, attempts>>
        /\ blocks' = <<>> /\ started' = {} /\ open' = [i \in Index |-> Closed]
    BY <1>8 DEF Failed, EmptyBuffer, ForgetBlocks
  <2> QED BY <2>1, <2>2, <2>3, <2>4, <2>5, EmptySeq DEF TypeOK, Entries
<1>9. CASE Wake \/ WaitCancelled
  BY <1>9 DEF Wake, WaitCancelled, Return, TypeOK, streamVars, callVars
<1>10. CASE AnswerDropped
  BY <1>10, EmptySeq DEF AnswerDropped, EmptyBuffer, TypeOK, callVars
<1>11. CASE AnswerKept
  <2>1. transcript' \in Seq(Block) /\ blocks' \in Seq(Block)
    BY <1>11, EmptySeq, ConcatProperties DEF AnswerKept, EmptyBuffer, TypeOK
  <2>2. UNCHANGED <<cancelled, lost, surface, item, nextId, started, open>>
    BY <1>11 DEF AnswerKept
  <2>3. CASE Call
    <3>1. forced' \in BOOLEAN
      BY <2>3, Zenon DEF Call
    <3> QED BY <2>1, <2>2, <2>3, <3>1 DEF Call, TypeOK
  <2>4. CASE pc' = "over" /\ UNCHANGED <<callVars, result>>
    BY <2>1, <2>2, <2>4 DEF TypeOK, callVars
  <2> QED BY <1>11, <2>3, <2>4 DEF AnswerKept
<1>12. CASE TurnOver \/ Cancel
  BY <1>12 DEF TurnOver, Cancel, TypeOK, streamVars, callVars
<1>13. CASE UNCHANGED vars
  BY <1>13 DEF vars, streamVars, callVars, TypeOK
<1> QED BY <1>1, <1>2, <1>3, <1>4, <1>5, <1>6, <1>7, <1>8, <1>9, <1>10, <1>11, <1>12, <1>13
        DEF Next, Asking

\* Nothing is asked, shown or kept at first.
LEMMA InitTyped == Init => TypeOK
<1>1. Init => cancelled \in BOOLEAN /\ forced \in BOOLEAN
  BY Zenon DEF Init
<1> QED BY <1>1, SamplingAssumption, EmptySeq DEF Init, TypeOK

\* Every variable has its type: the retries stay within their schedule.
THEOREM SamplingTypes == Spec => []TypeOK
BY InitTyped, TypesHold, PTL DEF Spec


-----------------------------------------------------------------------------
(* What is shown.                                                           *)

\* Of a longer list that is shown, its beginning is.
LEMMA ShownPrefix ==
    ASSUME NEW s \in Seq(Block), NEW r \in Seq(Block), NEW t, ShownInOrder(s \o r, t)
    PROVE  ShownInOrder(s, t)
<1>1. /\ Len(s) \in Nat /\ Len(r) \in Nat /\ Len(s \o r) = Len(s) + Len(r)
      /\ \A i \in 1..Len(s) : i \in 1..Len(s \o r) /\ (s \o r)[i] = s[i]
  <2>1. Len(s) \in Nat /\ Len(r) \in Nat /\ Len(s \o r) = Len(s) + Len(r)
        /\ \A i \in 1..(Len(s) + Len(r)) :
             (s \o r)[i] = IF i <= Len(s) THEN s[i] ELSE r[i - Len(s)]
    BY ConcatProperties, LenProperties
  <2>2. \A i \in 1..Len(s) : i \in 1..(Len(s) + Len(r)) /\ i <= Len(s)
    BY <2>1
  <2> QED BY <2>1, <2>2
<1>2. \A i \in 1..Len(s) : \E n \in 1..Len(t) : t[n] = Entry(s[i], FALSE)
  BY <1>1 DEF ShownInOrder
<1>3. \A i, j \in 1..Len(s), n, m \in 1..Len(t) :
        t[n].id = s[i].id /\ t[m].id = s[j].id => (i < j <=> n < m)
  <2> SUFFICES ASSUME NEW i \in 1..Len(s), NEW j \in 1..Len(s),
                      NEW n \in 1..Len(t), NEW m \in 1..Len(t),
                      t[n].id = s[i].id, t[m].id = s[j].id
               PROVE  i < j <=> n < m
    OBVIOUS
  <2> QED BY <1>1 DEF ShownInOrder
<1> QED BY <1>2, <1>3 DEF ShownInOrder

\* An entry at the end hides nothing that is shown before it.
LEMMA ShownStays ==
    ASSUME NEW s \in Seq(Block), NEW t \in Seq(Entries), NEW u \in Seq(Entries), NEW e,
           ShownInOrder(s, t),
           Len(u) = Len(t) + 1, \A n \in 1..Len(t) : u[n] = t[n], u[Len(t) + 1] = e,
           \A i \in 1..Len(s) : s[i].id # e.id
    PROVE  ShownInOrder(s, u)
<1>1. Len(t) \in Nat
  BY LenProperties
<1>2. \A n \in 1..Len(u) : n = Len(t) + 1 \/ (n \in 1..Len(t) /\ u[n] = t[n])
  BY <1>1
<1>3. \A n \in 1..Len(t) : n \in 1..Len(u) /\ u[n] = t[n]
  BY <1>1
<1>4. \A i \in 1..Len(s) : \E n \in 1..Len(u) : u[n] = Entry(s[i], FALSE)
  BY <1>3 DEF ShownInOrder
<1>5. ASSUME NEW i \in 1..Len(s), NEW j \in 1..Len(s), NEW n \in 1..Len(u), NEW m \in 1..Len(u),
             u[n].id = s[i].id, u[m].id = s[j].id
      PROVE  i < j <=> n < m
  <2>1. n \in 1..Len(t) /\ u[n] = t[n] /\ m \in 1..Len(t) /\ u[m] = t[m]
    BY <1>2, <1>5
  <2> QED BY <1>5, <2>1 DEF ShownInOrder
<1> QED BY <1>4, <1>5 DEF ShownInOrder

\* A block that ends is shown after those that ended before it.
LEMMA ShownNext ==
    ASSUME NEW s \in Seq(Block), NEW t \in Seq(Entries), NEW b \in Block,
           ShownInOrder(s, t),
           \A i \in 1..Len(s) : s[i].id # b.id,
           \A n, m \in 1..Len(t) : t[n].id = t[m].id => n = m,
           \A i \in 1..Len(s), n, m \in 1..Len(t) :
             t[n].id = s[i].id /\ t[m].id = b.id => n < m
    PROVE  ShownInOrder(Append(s, b), Upsert(t, Entry(b, FALSE)))
<1> DEFINE a == Append(s, b)
           e == Entry(b, FALSE)
           u == Upsert(t, e)
<1>1. e \in Entries /\ e.id = b.id
  BY KindsOfBlock
<1>2. /\ Len(s) \in Nat /\ Len(t) \in Nat /\ Len(a) = Len(s) + 1 /\ a[Len(s) + 1] = b
      /\ \A i \in 1..Len(s) : a[i] = s[i]
  BY AppendProperties, LenProperties
<1> HIDE DEF e
<1>3. (\E n \in 1..Len(t) : t[n].id = b.id) =>
         Len(u) = Len(t) /\ \A n \in 1..Len(t) : u[n] = IF t[n].id = b.id THEN e ELSE t[n]
  <2>1. ASSUME \E n \in 1..Len(t) : t[n].id = e.id
        PROVE  /\ Len(u) = Len(t)
               /\ \A n \in 1..Len(t) : u[n] = IF t[n].id = e.id THEN e ELSE t[n]
    BY ONLY <1>1, <2>1, UpsertOld, t \in Seq(Entries)
  <2> QED BY <1>1, <2>1
<1>4. (\A n \in 1..Len(t) : t[n].id # b.id) =>
         Len(u) = Len(t) + 1 /\ u[Len(t) + 1] = e /\ \A n \in 1..Len(t) : u[n] = t[n]
  <2> SUFFICES ASSUME \A n \in 1..Len(t) : t[n].id # b.id
               PROVE  Len(u) = Len(t) + 1 /\ u[Len(t) + 1] = e /\ \A n \in 1..Len(t) : u[n] = t[n]
    OBVIOUS
  <2>1. \A n \in 1..Len(t) : t[n].id # e.id
    BY <1>1
  <2> QED BY <1>1, <2>1, UpsertNew
<1> HIDE DEF a, u
<1>5. /\ Len(u) \in Nat /\ Len(t) <= Len(u)
      /\ \A n \in 1..Len(t) : t[n].id # b.id => u[n] = t[n]
      /\ \A n \in 1..Len(t) : t[n].id = b.id => u[n] = e
      /\ \E n \in 1..Len(u) : u[n] = e
      /\ \A n \in 1..Len(u) : n \notin 1..Len(t) =>
           n = Len(t) + 1 /\ u[n] = e /\ \A m \in 1..Len(t) : t[m].id # b.id
  <2>1. CASE \E n \in 1..Len(t) : t[n].id = b.id
    BY <1>2, <1>3, <2>1
  <2>2. CASE \A n \in 1..Len(t) : t[n].id # b.id
    <3>1. Len(t) + 1 \in 1..Len(u) /\ \A n \in 1..Len(u) : n \notin 1..Len(t) => n = Len(t) + 1
      BY <1>2, <1>4, <2>2
    <3> QED BY <1>2, <1>4, <2>2, <3>1
  <2> QED BY <2>1, <2>2
<1>6. \A i \in 1..Len(a) : i = Len(s) + 1 \/ i \in 1..Len(s)
  BY <1>2
<1>7. ASSUME NEW i \in 1..Len(a) PROVE \E n \in 1..Len(u) : u[n] = Entry(a[i], FALSE)
  <2>1. CASE i = Len(s) + 1
    BY <1>2, <1>5, <2>1 DEF e
  <2>2. CASE i \in 1..Len(s)
    <3>1. PICK n \in 1..Len(t) : t[n] = Entry(s[i], FALSE)
      BY <2>2 DEF ShownInOrder
    <3>2. t[n].id = s[i].id
      BY <2>2, <3>1, ElementOfSeq, KindsOfBlock
    <3>3. u[n] = t[n] /\ n \in 1..Len(u)
      BY <1>2, <1>5, <2>2, <3>2
    <3> QED BY <1>2, <2>2, <3>1, <3>3
  <2> QED BY <1>6, <2>1, <2>2
<1>8. ASSUME NEW n \in 1..Len(u), NEW i \in 1..Len(s), u[n].id = s[i].id
      PROVE  n \in 1..Len(t) /\ t[n].id = s[i].id
  BY <1>1, <1>5, <1>8
<1>9. ASSUME NEW n \in 1..Len(u), u[n].id = b.id
      PROVE  (n \in 1..Len(t) /\ t[n].id = b.id) \/ n = Len(t) + 1
  BY <1>5, <1>9
<1>10. ASSUME NEW n \in 1..Len(u), NEW m \in 1..Len(u), u[n].id = b.id, u[m].id = b.id
      PROVE  n = m
  BY <1>1, <1>5, <1>9, <1>10
<1>11. ASSUME NEW n \in 1..Len(u), NEW m \in 1..Len(u), NEW i \in 1..Len(s),
             u[n].id = s[i].id, u[m].id = b.id
      PROVE  n < m
  <2>1. n \in 1..Len(t) /\ t[n].id = s[i].id
    BY <1>8, <1>11
  <2>2. (m \in 1..Len(t) /\ t[m].id = b.id) \/ m = Len(t) + 1
    BY <1>9, <1>11
  <2> QED BY <1>2, <2>1, <2>2
<1>12. ASSUME NEW i \in 1..Len(a), NEW j \in 1..Len(a), NEW n \in 1..Len(u), NEW m \in 1..Len(u),
              u[n].id = a[i].id, u[m].id = a[j].id
       PROVE  i < j <=> n < m
  <2>1. CASE i \in 1..Len(s) /\ j \in 1..Len(s)
    <3>1. a[i] = s[i] /\ a[j] = s[j]
      BY <1>2, <2>1
    <3>2. n \in 1..Len(t) /\ t[n].id = s[i].id
      BY <1>8, <1>12, <2>1, <3>1
    <3>3. m \in 1..Len(t) /\ t[m].id = s[j].id
      BY <1>8, <1>12, <2>1, <3>1
    <3> QED BY <2>1, <3>2, <3>3 DEF ShownInOrder
  <2>2. CASE i \in 1..Len(s) /\ j = Len(s) + 1
    <3>1. n < m
      BY <1>2, <1>11, <1>12, <2>2
    <3> QED BY <1>2, <2>2, <3>1
  <2>3. CASE i = Len(s) + 1 /\ j \in 1..Len(s)
    <3>1. m < n
      BY <1>2, <1>11, <1>12, <2>3
    <3> QED BY <1>2, <1>5, <2>3, <3>1
  <2>4. CASE i = Len(s) + 1 /\ j = Len(s) + 1
    <3>1. n = m
      BY <1>2, <1>10, <1>12, <2>4
    <3> QED BY <1>5, <2>4, <3>1
  <2> QED BY <1>6, <2>1, <2>2, <2>3, <2>4
<1>13. ShownInOrder(a, u)
  BY <1>7, <1>12 DEF ShownInOrder
<1> QED BY <1>13 DEF a, u, e


-----------------------------------------------------------------------------
(* The steps.                                                               *)

\* What is finished is the session's items and then the answer's blocks.
LEMMA FinishedIs ==
    ASSUME TypeOK
    PROVE  /\ Finished \in Seq(Block) /\ Len(Finished) \in Nat
           /\ \A k \in 1..Len(Finished) :
                \/ \E i \in 1..Len(transcript) : Finished[k] = transcript[i]
                \/ \E i \in 1..Len(blocks) : Finished[k] = blocks[i]
<1>1. transcript \in Seq(Block) /\ blocks \in Seq(Block)
  BY DEF TypeOK
<1>2. /\ Finished \in Seq(Block) /\ Len(Finished) = Len(transcript) + Len(blocks)
      /\ Len(transcript) \in Nat /\ Len(blocks) \in Nat
      /\ \A k \in 1..(Len(transcript) + Len(blocks)) :
           Finished[k] = IF k <= Len(transcript) THEN transcript[k]
                         ELSE blocks[k - Len(transcript)]
  BY <1>1, ConcatProperties, LenProperties DEF Finished
<1> HIDE DEF Finished
<1>3. ASSUME NEW k \in 1..(Len(transcript) + Len(blocks))
      PROVE  k \in 1..Len(transcript)
             \/ (~(k <= Len(transcript)) /\ k - Len(transcript) \in 1..Len(blocks))
  BY <1>2
<1>4. ASSUME NEW k \in 1..Len(Finished)
      PROVE  \/ \E i \in 1..Len(transcript) : Finished[k] = transcript[i]
             \/ \E i \in 1..Len(blocks) : Finished[k] = blocks[i]
  BY <1>2, <1>3
<1> QED BY <1>2, <1>4

\* The identifiers of what is finished, and of what is open, are used up.
LEMMA FinishedIds ==
    ASSUME Inv
    PROVE  \A k \in 1..Len(Finished) : Finished[k].id \in Nat /\ Finished[k].id < nextId
<1>1. Finished \in Seq(Block) /\ \A k \in 1..Len(Finished) : Finished[k] \in Block
  BY FinishedIs, ElementOfSeq DEF Inv
<1>2. ASSUME NEW k \in 1..Len(Finished) PROVE Finished[k].id < nextId
  <2>1. CASE \E i \in 1..Len(transcript) : Finished[k] = transcript[i]
    BY <2>1 DEF Inv, IdsInv
  <2>2. CASE \E i \in 1..Len(blocks) : Finished[k] = blocks[i]
    BY <2>2 DEF Inv, IdsInv, TypeOK
  <2> QED BY <2>1, <2>2, FinishedIs DEF Inv
<1> QED BY <1>1, <1>2, KindsOfBlock

\* A step that shows nothing and ends no block.
LEMMA QuietStep ==
    ASSUME Inv, TypeOK', UNCHANGED <<transcript, surface, lost, open, blocks>>,
           started' = started \/ Open = {},
           \/ UNCHANGED <<item, nextId>>
           \/ item' = nextId /\ nextId' = nextId + 1 /\ Open = {} /\ blocks = <<>>,
           Underway' => Underway \/ item' = nextId,
           ~Underway' => blocks = <<>>,
           pc' # "streaming" => Open = {}
    PROVE  Inv'
<1>1. UNCHANGED <<Open, Finished>>
  BY DEF Open, Finished
<1>2. item \in Nat /\ nextId \in Nat
  BY DEF Inv, TypeOK
<1>3. IdsInv'
  <2>1. \A n \in 1..Len(surface) : surface[n] \in Entries
    BY ElementOfSeq DEF Inv, TypeOK, Entries
  <2>2. CASE UNCHANGED <<item, nextId>>
    BY <1>1, <1>2, <2>2 DEF Inv, IdsInv
  <2>3. CASE item' = nextId /\ nextId' = nextId + 1 /\ Open = {} /\ blocks = <<>>
    <3>1. \A n \in 1..Len(surface) : surface[n].id \in Nat
      BY <2>1 DEF Entries
    <3>2. \A i \in 1..Len(transcript) : transcript[i].id \in Nat
      BY ElementOfSeq, KindsOfBlock DEF Inv, TypeOK
    <3>3. \A x \in lost : x \in Nat
      BY DEF Inv, TypeOK
    <3>4. item' < nextId'
      BY <1>2, <2>3
    <3>5. \A n \in 1..Len(surface) : surface[n].id < nextId' /\ surface[n].id # item'
      BY <1>2, <2>3, <3>1 DEF Inv, IdsInv
    <3>6. \A i \in 1..Len(transcript) : transcript[i].id < nextId' /\ transcript[i].id < item'
      BY <1>2, <2>3, <3>2 DEF Inv, IdsInv
    <3>7. \A x \in lost : x < nextId' /\ x < item'
      BY <1>2, <2>3, <3>3 DEF Inv, IdsInv
    <3>8. Open' = {} /\ Len(blocks') = 0
      BY <1>1, <2>3, EmptySeq
    <3> QED BY <3>4, <3>5, <3>6, <3>7, <3>8 DEF IdsInv
  <2> QED BY <2>2, <2>3
<1>4. LocalInv'
  BY <1>1 DEF Inv, LocalInv
<1>5. OpenInv'
  BY <1>1 DEF Inv, OpenInv
<1>6. OnceInv' /\ LostInv' /\ ShownInOrder(Finished, surface)'
  BY <1>1 DEF Inv, OnceInv, LostInv
<1> QED BY <1>3, <1>4, <1>5, <1>6 DEF Inv


\* An attempt that is over leaves its blocks to the session, all of them or
\* none, and what it had shown to the surface.
LEMMA OverStep ==
    ASSUME Inv, TypeOK', UNCHANGED <<surface, item, nextId>>, ~Underway',
           Open' = {}, blocks' = <<>>,
           \/ transcript' = transcript /\ UNCHANGED lost
           \/ transcript' = transcript /\ Underway /\ lost' = lost \union OfThisAttempt
           \/ transcript' = Finished /\ Underway /\ UNCHANGED lost
    PROVE  Inv'
<1>1. /\ item \in Nat /\ nextId \in Nat /\ lost \subseteq Nat /\ lost' \subseteq Nat
      /\ \A i \in 1..Len(transcript) : transcript[i].id \in Nat
      /\ \A i \in 1..Len(blocks) : blocks[i].id \in Nat
  BY ElementOfSeq, KindsOfBlock DEF Inv, TypeOK
<1>2. /\ \A i \in 1..Len(transcript) : transcript[i].id < nextId
      /\ \A i \in 1..Len(blocks) : item < blocks[i].id /\ blocks[i].id < nextId
      /\ \A x \in lost : x < nextId
      /\ Underway => /\ \A i \in 1..Len(transcript) : transcript[i].id < item
                     /\ \A x \in lost : x < item
  BY <1>1 DEF Inv, IdsInv
<1>3. \A x \in lost' : x \in lost \/ (Underway /\ x \in (item + 1)..(nextId - 1))
  BY DEF OfThisAttempt
<1>4. IdsInv'
  <2>1. \A k \in 1..Len(transcript') : transcript'[k].id < nextId'
    BY <1>2, FinishedIds
  <2>2. \A x \in lost' : x < nextId'
    BY <1>1, <1>2, <1>3
  <2>3. item' < nextId' /\ \A n \in 1..Len(surface') : surface'[n].id < nextId' /\ surface'[n].id # item'
    BY DEF Inv, IdsInv
  <2>4. Len(blocks') = 0
    BY EmptySeq
  <2> QED BY <2>1, <2>2, <2>3, <2>4 DEF IdsInv
<1>5. LocalInv' /\ OpenInv' /\ OnceInv'
  BY DEF Inv, LocalInv, OpenInv, OnceInv
<1>6. LostInv'
  <2>1. CASE transcript' = transcript
    <3> SUFFICES ASSUME NEW i \in 1..Len(transcript) PROVE transcript[i].id \notin lost'
      BY <2>1 DEF LostInv
    <3>1. transcript[i].id \notin lost
      BY DEF Inv, LostInv
    <3>2. Underway => transcript[i].id \notin (item + 1)..(nextId - 1)
      BY <1>1, <1>2
    <3> QED BY <1>3, <3>1, <3>2
  <2>2. CASE transcript' = Finished /\ Underway /\ UNCHANGED lost
    <3> SUFFICES ASSUME NEW k \in 1..Len(Finished) PROVE Finished[k].id \notin lost
      BY <2>2 DEF LostInv
    <3>1. CASE \E i \in 1..Len(transcript) : Finished[k] = transcript[i]
      BY <3>1 DEF Inv, LostInv
    <3>2. CASE \E i \in 1..Len(blocks) : Finished[k] = blocks[i]
      BY <1>1, <1>2, <2>2, <3>2
    <3> QED BY <3>1, <3>2, FinishedIs DEF Inv
  <2> QED BY <2>1, <2>2
<1>7. ShownInOrder(transcript', surface')
  <2>1. ShownInOrder(transcript, surface)
    BY ShownPrefix DEF Inv, Finished, TypeOK
  <2>2. ShownInOrder(Finished, surface)
    BY DEF Inv
  <2> QED BY <2>1, <2>2
<1>8. ShownInOrder(Finished, surface)'
  <2>1. transcript' \o <<>> = transcript'
    BY ConcatEmptySeq DEF TypeOK
  <2> QED BY <1>7, <2>1 DEF Finished
<1> QED BY <1>4, <1>5, <1>6, <1>8 DEF Inv

\* A text that starts is shown last; a tool call that starts is not shown yet.
LEMMA StartStep ==
    ASSUME Inv, TypeOK', BlockStart
    PROVE  Inv'
<1>1. PICK i \in Index, k \in Kinds : LET block == [id |-> nextId, kind |-> k] IN
        /\ Numbered(i, k)
        /\ open' = [open EXCEPT ![i] = block]
        /\ surface' = IF k = "text" THEN Upsert(surface, Entry(block, TRUE)) ELSE surface
        /\ started' = started \union {i}
  BY DEF BlockStart
<1> DEFINE block == [id |-> nextId, kind |-> k]
           e == Entry(block, TRUE)
<1>2. /\ pc = "streaming" /\ nextId' = nextId + 1
      /\ UNCHANGED <<pc, result, lost, transcript, item, blocks>>
  BY DEF BlockStart
<1>3. /\ nextId \in Nat /\ item \in Nat /\ item < nextId
      /\ block \in Block /\ e \in Entries /\ e.id = nextId
      /\ surface \in Seq(Entries) /\ Len(surface) \in Nat
      /\ \A n \in 1..Len(surface) : surface[n].id \in Nat /\ surface[n].id < nextId
  <2>1. nextId \in Nat /\ item \in Nat /\ item < nextId /\ surface \in Seq(Entries)
    BY DEF Inv, TypeOK, IdsInv, Entries
  <2>2. block \in Block
    BY <2>1 DEF Block
  <2>3. \A n \in 1..Len(surface) : surface[n] \in Entries
    BY <2>1, ElementOfSeq
  <2>4. \A n \in 1..Len(surface) : surface[n].id \in Nat
    BY <2>3 DEF Entries
  <2> QED BY <2>1, <2>2, <2>4, KindsOfBlock, LenProperties DEF Inv, IdsInv
<1>4. i \notin Open /\ i \notin started /\ Open' = Open \union {i} /\ open'[i] = block
      /\ \A j \in Open : open'[j] = open[j] /\ j # i
  <2>1. i \notin started /\ i \notin Open
    BY <1>1 DEF Numbered, Inv, LocalInv
  <2>2. open' = [open EXCEPT ![i] = block] /\ block # Closed /\ open \in [Index -> Block \union {Closed}]
    BY <1>1, <1>3, KindsOfBlock DEF Inv, TypeOK
  <2> QED BY <2>1, <2>2 DEF Open
<1>5. ASSUME NEW j \in Open PROVE open[j].id \in Nat /\ item < open[j].id /\ open[j].id < nextId
  BY <1>3, <1>5 DEF Inv, IdsInv
<1>6. k = "text" => surface' = Upsert(surface, e)
  BY <1>1
<1> HIDE DEF block, e
<1>7. /\ \A f \in 1..Len(Finished) : Finished[f].id \in Nat /\ Finished[f].id < nextId
      /\ Finished' = Finished /\ Finished \in Seq(Block) /\ ShownInOrder(Finished, surface)
  BY <1>2, FinishedIds, FinishedIs DEF Inv, Finished
<1>8. k = "text" => /\ surface' \in Seq(Entries) /\ Len(surface') = Len(surface) + 1
                    /\ \A n \in 1..Len(surface) : surface'[n] = surface[n]
                    /\ surface'[Len(surface) + 1] = e
  <2>1. \A n \in 1..Len(surface) : surface[n].id # e.id
    BY <1>3
  <2> QED BY SMTT(30), <1>3, <1>6, <2>1, UpsertNew
<1>9. k # "text" => surface' = surface
  BY <1>1
<1>10. /\ Len(surface') \in Nat
       /\ \A n \in 1..Len(surface) : n \in 1..Len(surface') /\ surface'[n] = surface[n]
       /\ \A n \in 1..Len(surface') :
            n \in 1..Len(surface) \/ (k = "text" /\ n = Len(surface) + 1 /\ surface'[n].id = nextId)
       /\ k = "text" => \E n \in 1..Len(surface') : surface'[n].id = nextId
  <2>1. CASE k = "text"
    <3>1. Len(surface) + 1 \in 1..Len(surface') /\ \A n \in 1..Len(surface') :
            n \in 1..Len(surface) \/ n = Len(surface) + 1
      BY <1>3, <1>8, <2>1
    <3> QED BY <1>3, <1>8, <2>1, <3>1
  <2>2. CASE k # "text"
    BY <1>3, <1>9, <2>2
  <2> QED BY <2>1, <2>2
<1>11. ASSUME NEW n \in 1..Len(surface'), surface'[n].id # nextId
       PROVE  n \in 1..Len(surface) /\ surface'[n] = surface[n]
  <2>1. n \in 1..Len(surface)
    BY <1>10, <1>11
  <2> QED BY <1>10, <2>1
<1>12. ASSUME NEW n \in 1..Len(surface'), surface'[n].id = nextId
       PROVE  n = Len(surface) + 1
  <2>1. CASE n \in 1..Len(surface)
    <3>1. surface'[n] = surface[n] /\ surface[n].id \in Nat /\ surface[n].id < nextId
      BY <1>3, <1>10, <2>1
    <3> QED BY <1>3, <1>12, <3>1
  <2>2. CASE n \notin 1..Len(surface)
    BY <1>10, <2>2
  <2> QED BY <2>1, <2>2
<1>13. ShownInOrder(Finished, surface')
  <2>1. CASE k = "text"
    <3>1. \A j \in 1..Len(Finished) : Finished[j].id # e.id
      BY <1>3, <1>7
    <3> QED BY <1>3, <1>7, <1>8, <2>1, <3>1, ShownStays
  <2>2. CASE k # "text"
    BY <1>7, <1>9, <2>2
  <2> QED BY <2>1, <2>2
<1>14. IdsInv'
  <2>1. \A n \in 1..Len(surface') : surface'[n].id < nextId' /\ surface'[n].id # item'
    <3> SUFFICES ASSUME NEW n \in 1..Len(surface')
                 PROVE  surface'[n].id < nextId' /\ surface'[n].id # item'
      OBVIOUS
    <3>1. CASE surface'[n].id = nextId
      BY <1>2, <1>3, <3>1
    <3>2. CASE surface'[n].id # nextId
      <4>1. n \in 1..Len(surface) /\ surface'[n] = surface[n]
        BY <1>11, <3>2
      <4>2. surface[n].id # item
        BY <4>1 DEF Inv, IdsInv
      <4> QED BY <1>2, <1>3, <4>1, <4>2
    <3> QED BY <3>1, <3>2
  <2>2. \A j \in Open' : open'[j].id \in (item' + 1)..(nextId' - 1)
    <3> SUFFICES ASSUME NEW j \in Open' PROVE open'[j].id \in (item' + 1)..(nextId' - 1)
      OBVIOUS
    <3>1. CASE j = i
      BY <1>2, <1>3, <1>4, <3>1 DEF block
    <3>2. CASE j # i
      <4>1. j \in Open /\ open'[j] = open[j]
        BY <1>4, <3>2
      <4>2. open[j].id \in Nat /\ item < open[j].id /\ open[j].id < nextId
        BY <1>5, <4>1
      <4> QED BY <1>2, <1>3, <4>1, <4>2
    <3> QED BY <3>1, <3>2
  <2>3. /\ \A j \in 1..Len(transcript') : transcript'[j].id < nextId'
        /\ \A j \in 1..Len(blocks') : blocks'[j].id \in (item' + 1)..(nextId' - 1)
        /\ Underway' => Underway
    <3>1. \A j \in 1..Len(transcript) : transcript[j].id \in Nat /\ transcript[j].id < nextId
      BY ElementOfSeq, KindsOfBlock DEF Inv, TypeOK, IdsInv
    <3>2. \A j \in 1..Len(blocks) : blocks[j].id \in (item + 1)..(nextId - 1)
      BY DEF Inv, IdsInv
    <3> QED BY <1>2, <1>3, <3>1, <3>2 DEF Underway
  <2>4. \A x \in lost' : x < nextId'
    <3>1. \A x \in lost : x \in Nat /\ x < nextId
      BY DEF Inv, TypeOK, IdsInv
    <3> QED BY <1>2, <1>3, <3>1
  <2>5. item' < nextId'
    BY <1>2, <1>3
  <2>6. Underway' => /\ \A j \in 1..Len(transcript') : transcript'[j].id < item'
                     /\ \A x \in lost' : x < item'
    BY <1>2, <2>3 DEF Inv, IdsInv
  <2> QED BY <2>1, <2>2, <2>3, <2>4, <2>5, <2>6 DEF IdsInv
<1>15. LocalInv'
  BY <1>1, <1>2, <1>4 DEF Inv, LocalInv, Underway
<1>16. OnceInv'
  <2> SUFFICES ASSUME NEW n \in 1..Len(surface'), NEW m \in 1..Len(surface'),
                      surface'[n].id = surface'[m].id
               PROVE  n = m
    BY DEF OnceInv
  <2>1. CASE surface'[n].id = nextId
    <3>1. n = Len(surface) + 1 /\ m = Len(surface) + 1
      BY <1>12, <2>1
    <3> QED BY <3>1
  <2>2. CASE surface'[n].id # nextId
    BY <1>11, <2>2 DEF Inv, OnceInv
  <2> QED BY <2>1, <2>2
<1>17. OpenInv'
  <2>1. ASSUME NEW j \in Open', open'[j].kind = "text"
        PROVE  /\ \E n \in 1..Len(surface') : surface'[n].id = open'[j].id
               /\ \A f \in 1..Len(Finished'), n, m \in 1..Len(surface') :
                    surface'[n].id = Finished'[f].id /\ surface'[m].id = open'[j].id => n < m
    <3>1. CASE j = i
      <4>1. k = "text" /\ open'[j].id = nextId
        BY <1>4, <2>1, <3>1 DEF block
      <4>2. ASSUME NEW f \in 1..Len(Finished), NEW n \in 1..Len(surface'),
                   NEW m \in 1..Len(surface'),
                   surface'[n].id = Finished[f].id, surface'[m].id = nextId
            PROVE  n < m
        <5>1. n \in 1..Len(surface)
          BY SMTT(30), <1>3, <1>7, <1>11, <4>2
        <5>2. m = Len(surface) + 1
          BY <1>12, <4>2
        <5> QED BY <1>3, <5>1, <5>2
      <4>3. \E n \in 1..Len(surface') : surface'[n].id = nextId
        BY <1>10, <4>1
      <4> QED BY <1>7, <4>1, <4>2, <4>3
    <3>2. CASE j # i
      <4>1. j \in Open /\ open'[j] = open[j] /\ open[j].id < nextId /\ open[j].id \in Nat
        BY <1>4, <1>5, <3>2
      <4>2. \E n \in 1..Len(surface') : surface'[n].id = open[j].id
        BY <1>10, <2>1, <4>1 DEF Inv, OpenInv
      <4>3. ASSUME NEW f \in 1..Len(Finished), NEW n \in 1..Len(surface'),
                   NEW m \in 1..Len(surface'),
                   surface'[n].id = Finished[f].id, surface'[m].id = open[j].id
            PROVE  n < m
        <5>1. /\ n \in 1..Len(surface) /\ surface'[n] = surface[n]
              /\ m \in 1..Len(surface) /\ surface'[m] = surface[m]
          BY SMTT(30), <1>3, <1>7, <1>11, <4>1, <4>3
        <5> QED BY <2>1, <4>1, <4>3, <5>1 DEF Inv, OpenInv
      <4> QED BY <1>7, <4>1, <4>2, <4>3
    <3> QED BY <3>1, <3>2
  <2>2. ASSUME NEW j \in Open', open'[j].kind = "tool", NEW n \in 1..Len(surface')
        PROVE  surface'[n].id # open'[j].id
    <3>1. CASE j = i
      <4>1. k = "tool" /\ open'[j].id = nextId
        BY <1>4, <2>2, <3>1 DEF block
      <4> QED BY <1>3, <1>9, <4>1
    <3>2. CASE j # i
      <4>1. j \in Open /\ open'[j] = open[j] /\ open[j].id < nextId /\ open[j].id \in Nat
        BY <1>4, <1>5, <3>2
      <4>2. CASE surface'[n].id = nextId
        BY <1>3, <4>1, <4>2
      <4>3. CASE surface'[n].id # nextId
        BY <1>11, <2>2, <4>1, <4>3 DEF Inv, OpenInv
      <4> QED BY <4>2, <4>3
    <3> QED BY <3>1, <3>2
  <2>3. ASSUME NEW j \in Open', NEW l \in Open', j < l
        PROVE  /\ open'[j].id # open'[l].id
               /\ open'[l].kind = "text" => open'[j].kind = "text"
               /\ open'[l].kind = "text" =>
                    \A n, m \in 1..Len(surface') :
                      surface'[n].id = open'[j].id /\ surface'[m].id = open'[l].id => n < m
    <3>1. CASE j \in Open /\ l \in Open
      <4>1. open'[j] = open[j] /\ open'[l] = open[l] /\ open[j].id # nextId /\ open[l].id # nextId
        BY <1>3, <1>4, <1>5, <3>1
      <4>2. ASSUME NEW n \in 1..Len(surface'), NEW m \in 1..Len(surface'),
                   surface'[n].id = open[j].id, surface'[m].id = open[l].id
            PROVE  /\ n \in 1..Len(surface) /\ surface'[n] = surface[n]
                   /\ m \in 1..Len(surface) /\ surface'[m] = surface[m]
        BY <1>11, <4>1, <4>2
      <4> QED BY <2>3, <3>1, <4>1, <4>2 DEF Inv, OpenInv
    <3>2. CASE j \in Open /\ l = i
      <4>1. /\ open'[j] = open[j] /\ open[j].id < nextId /\ open[j].id \in Nat
            /\ open'[l].id = nextId /\ open'[l].kind = k /\ open[j].kind \in Kinds
        BY SMTT(30), <1>4, <1>5, <3>2, KindsOfBlock DEF block, Open, Inv, TypeOK
      <4>2. k = "text" => open[j].kind = "text"
        <5>1. ~(j > i)
          BY <2>3, <3>2 DEF Index, Open
        <5> QED BY <1>1, <3>2, <4>1, <5>1 DEF Numbered, Kinds
      <4>3. ASSUME NEW n \in 1..Len(surface'), NEW m \in 1..Len(surface'),
                   surface'[n].id = open[j].id, surface'[m].id = nextId
            PROVE  n < m
        <5>1. n \in 1..Len(surface)
          BY <1>3, <1>11, <4>1, <4>3
        <5>2. m = Len(surface) + 1
          BY <1>12, <4>3
        <5> QED BY <1>3, <5>1, <5>2
      <4> QED BY <1>3, <4>1, <4>2, <4>3
    <3>3. CASE j = i /\ l \in Open
      <4>1. /\ open'[l] = open[l] /\ open[l].id < nextId /\ open[l].id \in Nat
            /\ open'[j].id = nextId
        BY <1>4, <1>5, <3>3 DEF block
      <4>2. open[l].kind = "tool"
        BY <1>1, <2>3, <3>3 DEF Numbered
      <4> QED BY <1>3, <4>1, <4>2
    <3> QED BY <1>4, <2>3, <3>1, <3>2, <3>3 DEF Index
  <2> QED BY <2>1, <2>2, <2>3 DEF OpenInv
<1>18. LostInv'
  BY <1>2 DEF Inv, LostInv
<1>19. ShownInOrder(Finished, surface)'
  BY <1>7, <1>13
<1> QED BY <1>14, <1>15, <1>16, <1>17, <1>18, <1>19 DEF Inv

\* A block that ends is the first that is open: every text before it has ended
\* and is shown before it, and the blocks still open are not its equals.
LEMMA EndStep ==
    ASSUME Inv, TypeOK', BlockEnd
    PROVE  Inv'
<1>1. PICK i \in Open :
        /\ \A j \in Open : i <= j
        /\ open' = [open EXCEPT ![i] = Closed]
        /\ surface' = Upsert(surface, Entry(open[i], FALSE))
        /\ blocks' = Append(blocks, open[i])
  BY DEF BlockEnd, Buffered
<1> DEFINE b == open[i]
           e == Entry(b, FALSE)
<1>2. /\ pc = "streaming" /\ UNCHANGED <<pc, result, lost, transcript, item, nextId, started>>
  BY DEF BlockEnd
<1>3. /\ nextId \in Nat /\ item \in Nat /\ item < nextId
      /\ b \in Block /\ e \in Entries /\ e.id = b.id /\ b.kind \in Kinds
      /\ surface \in Seq(Entries) /\ Len(surface) \in Nat
      /\ b.id \in Nat /\ item < b.id /\ b.id < nextId
  <2>1. nextId \in Nat /\ item \in Nat /\ item < nextId /\ surface \in Seq(Entries)
    BY DEF Inv, TypeOK, IdsInv, Entries
  <2>2. b \in Block
    BY DEF Inv, TypeOK, Open
  <2>3. b.id \in (item + 1)..(nextId - 1)
    BY DEF Inv, IdsInv
  <2>4. e \in Entries /\ e.id = b.id /\ b.kind \in Kinds
    BY <2>2, KindsOfBlock
  <2> HIDE DEF b, e
  <2>5. b.id \in Nat /\ item < b.id /\ b.id < nextId
    BY <2>1, <2>3
  <2> QED BY <2>1, <2>2, <2>4, <2>5, LenProperties
<1>4. /\ Open' = Open \ {i}
      /\ \A j \in Open' : open'[j] = open[j] /\ j \in Open /\ i < j
  <2>1. open \in [Index -> Block \union {Closed}] /\ Open \subseteq Nat /\ Open \subseteq Index
    BY SMTT(30) DEF Inv, TypeOK, Open, Index
  <2>2. Open' = Open \ {i} /\ \A j \in Open' : open'[j] = open[j] /\ j \in Open /\ j # i
    BY <1>1, <2>1 DEF Open
  <2> QED BY <1>1, <2>1, <2>2
<1>5. /\ Finished' = Append(Finished, b) /\ Finished \in Seq(Block) /\ Len(Finished) \in Nat
      /\ Len(Finished') = Len(Finished) + 1 /\ Finished'[Len(Finished) + 1] = b
      /\ \A k \in 1..Len(Finished) : Finished'[k] = Finished[k]
  <2>1. transcript \in Seq(Block) /\ blocks \in Seq(Block) /\ <<b>> \in Seq(Block)
    BY <1>3, EmptySeq DEF Inv, TypeOK
  <2>2. Append(blocks, b) = blocks \o <<b>>
    BY <1>3, <2>1, AppendIsConcat
  <2>3. transcript \o (blocks \o <<b>>) = (transcript \o blocks) \o <<b>>
    BY <2>1, ConcatAssociative
  <2>4. Append(transcript \o blocks, b) = (transcript \o blocks) \o <<b>>
    BY <1>3, <2>1, ConcatProperties, AppendIsConcat
  <2>5. Finished' = Append(Finished, b)
    BY <1>1, <1>2, <2>2, <2>3, <2>4 DEF Finished
  <2>6. Finished \in Seq(Block) /\ Len(Finished) \in Nat
    BY FinishedIs DEF Inv
  <2> QED BY <1>3, <2>5, <2>6, AppendProperties
<1>6. surface' = Upsert(surface, e) /\ \A n \in 1..Len(surface) : surface[n] \in Entries
  BY <1>1, <1>3, ElementOfSeq
<1>7. b.kind = "text" => \E n \in 1..Len(surface) : surface[n].id = b.id
  BY DEF Inv, OpenInv
<1>8. b.kind = "tool" => \A n \in 1..Len(surface) : surface[n].id # b.id
  BY DEF Inv, OpenInv
<1>9. \A k \in 1..Len(Finished), n, m \in 1..Len(surface) :
        surface[n].id = Finished[k].id /\ surface[m].id = b.id => n < m
  <2>1. CASE b.kind = "text"
    BY <2>1 DEF Inv, OpenInv
  <2>2. CASE b.kind = "tool"
    BY <1>8, <2>2
  <2> QED BY <1>3, <2>1, <2>2 DEF Kinds
<1> HIDE DEF b, e
<1>10. \A k \in 1..Len(Finished) : Finished[k].id # b.id
  <2> SUFFICES ASSUME NEW k \in 1..Len(Finished), Finished[k].id = b.id PROVE FALSE
    OBVIOUS
  <2>1. PICK n \in 1..Len(surface) : surface[n] = Entry(Finished[k], FALSE)
    BY DEF Inv, ShownInOrder
  <2>2. surface[n].id = b.id
    BY <1>5, <2>1, ElementOfSeq, KindsOfBlock
  <2>3. n < n
    BY <1>9, <2>2
  <2> QED BY <1>3, <2>3
<1>11. ShownInOrder(Finished', surface')
  <2>1. surface' = Upsert(surface, Entry(b, FALSE))
    BY <1>6 DEF e
  <2> QED BY <1>3, <1>5, <1>9, <1>10, <2>1, ShownNext DEF Inv, OnceInv
<1>12. ASSUME b.kind = "text"
       PROVE  /\ \A n \in 1..Len(surface') : surface'[n].id < nextId /\ surface'[n].id # item
              /\ OnceInv' /\ OpenInv'
  <2>1. /\ Len(surface') = Len(surface)
        /\ \A n \in 1..Len(surface) : surface'[n].id = surface[n].id
    <3>1. \E n \in 1..Len(surface) : surface[n].id = e.id
      BY <1>3, <1>7, <1>12
    <3>2. Len(surface') = Len(surface) /\ \A n \in 1..Len(surface) :
            surface'[n] = IF surface[n].id = e.id THEN e ELSE surface[n]
      BY <1>3, <1>6, <3>1, UpsertOld
    <3> QED BY <3>2
  <2>2. /\ Len(surface') \in Nat
        /\ \A n \in 1..Len(surface') : surface'[n].id < nextId /\ surface'[n].id # item
    BY <1>3, <2>1 DEF Inv, IdsInv
  <2>3. OnceInv'
    BY <2>1 DEF Inv, OnceInv
  <2>4. OpenInv'
    <3>1. ASSUME NEW j \in Open', open'[j].kind = "text"
          PROVE  /\ \E n \in 1..Len(surface') : surface'[n].id = open'[j].id
                 /\ \A k \in 1..Len(Finished'), n, m \in 1..Len(surface') :
                      surface'[n].id = Finished'[k].id /\ surface'[m].id = open'[j].id => n < m
      <4>1. j \in Open /\ i < j /\ open'[j] = open[j]
        BY <1>4
      <4>2. \E n \in 1..Len(surface') : surface'[n].id = open'[j].id
        BY <2>1, <3>1, <4>1 DEF Inv, OpenInv
      <4>3. ASSUME NEW k \in 1..Len(Finished'), NEW n \in 1..Len(surface'),
                   NEW m \in 1..Len(surface'),
                   surface'[n].id = Finished'[k].id, surface'[m].id = open'[j].id
            PROVE  n < m
        <5>1. k \in 1..Len(Finished) \/ k = Len(Finished) + 1
          BY <1>5
        <5>2. CASE k \in 1..Len(Finished)
          BY <1>5, <2>1, <3>1, <4>1, <4>3, <5>2 DEF Inv, OpenInv
        <5>3. CASE k = Len(Finished) + 1
          <6>1. surface[n].id = open[i].id /\ surface[m].id = open[j].id /\ open[j].kind = "text"
            BY <1>5, <2>1, <3>1, <4>1, <4>3, <5>3 DEF b
          <6>2. \A n1, m1 \in 1..Len(surface) :
                  surface[n1].id = open[i].id /\ surface[m1].id = open[j].id => n1 < m1
            BY <4>1, <6>1 DEF Inv, OpenInv
          <6> QED BY <2>1, <6>1, <6>2
        <5> QED BY <5>1, <5>2, <5>3
      <4> QED BY <4>2, <4>3
    <3>2. ASSUME NEW j \in Open', open'[j].kind = "tool", NEW n \in 1..Len(surface')
          PROVE  surface'[n].id # open'[j].id
      BY <1>4, <2>1, <3>2 DEF Inv, OpenInv
    <3>3. ASSUME NEW j \in Open', NEW l \in Open', j < l
          PROVE  /\ open'[j].id # open'[l].id
                 /\ open'[l].kind = "text" => open'[j].kind = "text"
                 /\ open'[l].kind = "text" =>
                      \A n, m \in 1..Len(surface') :
                        surface'[n].id = open'[j].id /\ surface'[m].id = open'[l].id => n < m
      BY <1>4, <2>1, <3>3 DEF Inv, OpenInv
    <3> QED BY <3>1, <3>2, <3>3 DEF OpenInv
  <2> QED BY <1>3, <2>2, <2>3, <2>4
<1>13. ASSUME b.kind = "tool"
       PROVE  /\ \A n \in 1..Len(surface') : surface'[n].id < nextId /\ surface'[n].id # item
              /\ OnceInv' /\ OpenInv'
  <2>1. /\ Len(surface') = Len(surface) + 1 /\ surface'[Len(surface) + 1].id = b.id
        /\ \A n \in 1..Len(surface) : surface'[n] = surface[n] /\ surface[n].id # b.id
    <3>1. \A n \in 1..Len(surface) : surface[n].id # e.id
      BY <1>3, <1>8, <1>13
    <3> QED BY <1>3, <1>6, <3>1, UpsertNew
  <2>2. \A n \in 1..Len(surface') : n \in 1..Len(surface) \/ n = Len(surface) + 1
    BY <1>3, <2>1
  <2>3. ASSUME NEW n \in 1..Len(surface')
        PROVE  surface'[n].id < nextId /\ surface'[n].id # item
    <3>1. CASE n \in 1..Len(surface)
      BY <2>1, <3>1 DEF Inv, IdsInv
    <3>2. CASE n = Len(surface) + 1
      BY <1>3, <2>1, <3>2
    <3> QED BY <2>2, <3>1, <3>2
  <2>4. OnceInv'
    <3> SUFFICES ASSUME NEW n \in 1..Len(surface'), NEW m \in 1..Len(surface'),
                        surface'[n].id = surface'[m].id
                 PROVE  n = m
      BY DEF OnceInv
    <3>1. CASE n \in 1..Len(surface) /\ m \in 1..Len(surface)
      BY <2>1, <3>1 DEF Inv, OnceInv
    <3>2. CASE n = Len(surface) + 1 \/ m = Len(surface) + 1
      BY <2>1, <2>2, <3>2
    <3> QED BY <2>2, <3>1, <3>2
  <2>5. OpenInv'
    <3>1. ASSUME NEW j \in Open' PROVE open'[j].kind # "text" /\ open'[j].id # b.id
      <4>1. j \in Open /\ i < j /\ open'[j] = open[j]
        BY <1>4
      <4>2. open[j].kind = "text" => open[i].kind = "text"
        BY <4>1 DEF Inv, OpenInv
      <4>3. open[i].id # open[j].id
        BY <4>1 DEF Inv, OpenInv
      <4> QED BY <1>13, <4>1, <4>2, <4>3 DEF b
    <3>2. ASSUME NEW j \in Open', open'[j].kind = "tool", NEW n \in 1..Len(surface')
          PROVE  surface'[n].id # open'[j].id
      <4>1. CASE n \in 1..Len(surface)
        BY <1>4, <2>1, <3>2, <4>1 DEF Inv, OpenInv
      <4>2. CASE n = Len(surface) + 1
        BY <2>1, <3>1, <4>2
      <4> QED BY <2>2, <4>1, <4>2
    <3>3. ASSUME NEW j \in Open', NEW l \in Open', j < l
          PROVE  open'[j].id # open'[l].id
      BY <1>4, <3>3 DEF Inv, OpenInv
    <3> QED BY <3>1, <3>2, <3>3 DEF OpenInv
  <2> QED BY <1>3, <2>1, <2>3, <2>4, <2>5
<1>14. /\ \A n \in 1..Len(surface') : surface'[n].id < nextId /\ surface'[n].id # item
       /\ OnceInv' /\ OpenInv'
  BY <1>3, <1>12, <1>13 DEF Kinds
<1>15. /\ Len(blocks') = Len(blocks) + 1 /\ Len(blocks) \in Nat /\ blocks'[Len(blocks) + 1] = b
       /\ \A k \in 1..Len(blocks) : blocks'[k] = blocks[k]
  BY <1>1, <1>3, AppendProperties, LenProperties DEF Inv, TypeOK, b
<1>16. IdsInv'
  <2>1. \A j \in Open' : open'[j].id \in (item' + 1)..(nextId' - 1)
    BY <1>2, <1>4 DEF Inv, IdsInv
  <2>2. \A k \in 1..Len(blocks') : blocks'[k].id \in (item' + 1)..(nextId' - 1)
    <3> SUFFICES ASSUME NEW k \in 1..Len(blocks')
                 PROVE  blocks'[k].id \in (item + 1)..(nextId - 1)
      BY <1>2
    <3>1. k \in 1..Len(blocks) \/ k = Len(blocks) + 1
      BY <1>15
    <3>2. CASE k \in 1..Len(blocks)
      BY <1>15, <3>2 DEF Inv, IdsInv
    <3>3. CASE k = Len(blocks) + 1
      BY <1>3, <1>15, <3>3
    <3> QED BY <3>1, <3>2, <3>3
  <2>3. Underway' => Underway
    BY <1>2 DEF Underway
  <2> QED BY <1>2, <1>14, <2>1, <2>2, <2>3 DEF Inv, IdsInv
<1>17. LocalInv'
  <2>1. Open' \subseteq started' /\ Underway' /\ pc' = "streaming"
    BY <1>2, <1>4 DEF Inv, LocalInv, Underway
  <2> QED BY <2>1 DEF LocalInv
<1>18. LostInv'
  BY <1>2 DEF Inv, LostInv
<1> QED BY <1>11, <1>14, <1>16, <1>17, <1>18 DEF Inv

\* The invariant: identifiers grow, what is finished is shown in order, what is
\* open is shown behind it, and what failed is none of the session's.
THEOREM SamplingInv == Spec => []Inv
<1>1. Init => Inv
  <2> SUFFICES ASSUME Init PROVE Inv
    OBVIOUS
  <2>1. TypeOK
    BY InitTyped
  <2>2. Open = {} /\ Len(blocks) = 0 /\ Len(transcript) = 0 /\ Len(surface) = 0 /\ blocks = <<>>
        /\ lost = {} /\ item < nextId
    BY EmptySeq DEF Init, Open
  <2>3. Len(Finished) = 0
    BY <2>1, <2>2, ConcatProperties DEF Finished, TypeOK
  <2> QED BY <2>1, <2>2, <2>3
          DEF Inv, IdsInv, LocalInv, OpenInv, OnceInv, LostInv, ShownInOrder
<1>2. Inv /\ [Next]_vars => Inv'
  <2> SUFFICES ASSUME Inv, [Next]_vars PROVE Inv'
    OBVIOUS
  <2>1. TypeOK'
    BY TypesHold DEF Inv
  <2>2. pc # "streaming" => Open = {}
    BY DEF Inv, LocalInv
  <2>3. ~Underway => blocks = <<>>
    BY DEF Inv, LocalInv
  <2>4. CASE Prompt
    BY <2>1, <2>2, <2>3, <2>4, QuietStep DEF Prompt, Call, Underway, streamVars
  <2>5. CASE Attempt
    BY <2>1, <2>2, <2>3, <2>5, QuietStep DEF Attempt, Underway
  <2>6. CASE Connected
    BY <2>1, <2>2, <2>3, <2>6, QuietStep DEF Connected, Underway, streamVars
  <2>7. CASE StreamEnds
    <3>1. open' = open
      BY <2>7 DEF StreamEnds, ForgetBlocks, Open, Inv, TypeOK
    <3> QED BY <2>1, <2>7, <3>1, QuietStep DEF StreamEnds, Return, ForgetBlocks, Underway
  <2>8. CASE Wake \/ WaitCancelled \/ TurnOver \/ Cancel
    BY <2>1, <2>2, <2>3, <2>8, QuietStep
       DEF Wake, WaitCancelled, Return, TurnOver, Cancel, Underway, streamVars
  <2>9. CASE UNCHANGED vars
    BY <2>1, <2>2, <2>3, <2>9, QuietStep DEF vars, streamVars, Underway
  <2>10. CASE AttemptCancelled
    BY <2>1, <2>10, OverStep
       DEF AttemptCancelled, Return, EmptyBuffer, ForgetBlocks, Open, Underway
  <2>11. CASE Failed
    <3>1. /\ pc' # "returned" \/ result' # "ok"
          /\ pc' \notin {"connecting", "streaming"}
          /\ UNCHANGED <<transcript, item, nextId>> /\ lost' = lost \union OfThisAttempt
          /\ Underway /\ Open' = {} /\ blocks' = <<>>
      BY <2>11 DEF Failed, Overflowed, OnlyOnce, Retried, Return, EmptyBuffer, ForgetBlocks,
                   Open, Underway
    <3>2. Drop(surface, item) = surface
      BY DropNothing DEF Inv, IdsInv
    <3>3. surface' = surface
      BY <2>11, <3>2 DEF Failed, Overflowed, Retried
    <3> QED BY <2>1, <3>1, <3>3, OverStep DEF Underway
  <2>12. CASE AnswerDropped
    BY <2>1, <2>2, <2>12, OverStep DEF AnswerDropped, EmptyBuffer, Open, Underway
  <2>13. CASE AnswerKept
    <3>1. pc' \in {"over", "attempt"} /\ Open' = Open /\ Underway
      BY <2>13 DEF AnswerKept, Call, Open, Underway
    <3> QED BY <2>1, <2>2, <2>13, <3>1, OverStep DEF AnswerKept, EmptyBuffer, Finished, Underway
  <2> QED BY <2>1, <2>4, <2>5, <2>6, <2>7, <2>8, <2>9, <2>10, <2>11, <2>12, <2>13,
             StartStep, EndStep DEF Next, Asking
<1> QED BY <1>1, <1>2, PTL DEF Spec

\* The surface shows the session: every item once, finished and in its order,
\* and none of an attempt that failed, however often the loop asked again.
THEOREM SessionIsShown == Spec => []TranscriptIsShown
<1>1. Inv => TranscriptIsShown
  <2> SUFFICES ASSUME Inv PROVE TranscriptIsShown
    OBVIOUS
  <2>1. ShownInOrder(transcript, surface)
    BY ShownPrefix DEF Inv, TypeOK, Finished
  <2> QED BY <2>1 DEF TranscriptIsShown, Inv, LostInv
<1> QED BY <1>1, SamplingInv, PTL
=============================================================================
