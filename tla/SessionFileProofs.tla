------------------------- MODULE SessionFileProofs -------------------------
(* What the format of a session's file guarantees, for any number of        *)
(* appends and of processes that die in the middle of one: an item whose    *)
(* write worked stays in the file, a load that misses it says so, and what  *)
(* is read back is a history of the session.                                *)
EXTENDS SessionFile, SequenceTheorems, FiniteSetTheorems, WellFoundedInduction, TLAPS

\* A file of lines of pieces, whatever the pieces are.
IsFile(f) == \E P : f \in Seq(Seq(P))

\* Records are numbered as they are handed over, so a later line has later ones.
Ordered(f, n) ==
    \A i, j \in 1..Len(f) : \A x \in 1..Len(f[i]), y \in 1..Len(f[j]) :
      f[i][x].part = "whole" =>
        /\ f[i][x].n \in 1..n
        /\ i < j /\ f[j][y].part = "whole" => f[i][x].n < f[j][y].n

\* A record that was acknowledged ends a line that nobody appends to any more.
Kept(f, n, record) ==
    \E k \in 1..(Len(f) - 1) :
      /\ f[k] # <<>> /\ f[k][Len(f[k])] = Whole(n, record)
      /\ n \in seams \/ Len(f[k]) = 1

\* The next record starts a line, or it is the first of a supervised resume.
EndsLine(f) == f = <<>> \/ f[Len(f)] = <<>>

Inv ==
    /\ appends \in Nat /\ dirty \in BOOLEAN
    /\ IsFile(file) /\ Ordered(file, appends)
    /\ \A a \in acked : a.n \in 1..appends /\ Kept(file, a.n, a.record)
    /\ up /\ recording /\ ~dirty => EndsLine(file) \/ appends + 1 \in seams

-----------------------------------------------------------------------------
(* What a write does to the lines.                                          *)

\* Setting the torn line apart only adds a line.
LEMMA AddsLine ==
    ASSUME NEW P, NEW f \in Seq(Seq(P))
    PROVE  LET g == Append(f, <<>>) IN
           /\ g \in Seq(Seq(P)) /\ Len(g) = Len(f) + 1 /\ g[Len(g)] = <<>>
           /\ \A k \in 1..Len(f) : g[k] = f[k]
<1>1. <<>> \in Seq(P)
  BY EmptySeq
<1> QED BY <1>1, AppendProperties

\* A piece is written at the end of the last line, and nowhere else.
LEMMA OntoLast ==
    ASSUME NEW P, NEW f \in Seq(Seq(P)), NEW p \in P
    PROVE  LET g == Onto(f, p)
               last == IF f = <<>> THEN <<>> ELSE f[Len(f)] IN
           /\ g \in Seq(Seq(P)) /\ Len(g) = IF f = <<>> THEN 1 ELSE Len(f)
           /\ \A k \in 1..(Len(g) - 1) : g[k] = f[k]
           /\ last \in Seq(P) /\ g[Len(g)] = Append(last, p)
<1>1. CASE f = <<>>
  <2>1. Onto(f, p) = <<<<p>>>> /\ <<p>> \in Seq(P) /\ <<>> \in Seq(P) /\ Append(<<>>, p) = <<p>>
    BY <1>1, EmptySeq DEF Onto
  <2>2. <<<<p>>>> \in Seq(Seq(P)) /\ Len(<<<<p>>>>) = 1 /\ <<<<p>>>>[1] = <<p>>
    BY <2>1
  <2> QED BY <1>1, <2>1, <2>2
<1>2. CASE f # <<>>
  <2>1. /\ Len(f) \in 1..Len(f) /\ f[Len(f)] \in Seq(P)
        /\ Append(f[Len(f)], p) \in Seq(P)
    BY <1>2, EmptySeq, ElementOfSeq, AppendProperties
  <2>2. /\ Onto(f, p) \in Seq(Seq(P)) /\ Len(Onto(f, p)) = Len(f)
        /\ \A k \in 1..Len(f) :
             Onto(f, p)[k] = IF k = Len(f) THEN Append(f[Len(f)], p) ELSE f[k]
    BY <1>2, <2>1, ExceptSeq DEF Onto
  <2>3. /\ \A k \in 1..(Len(f) - 1) : Onto(f, p)[k] = f[k]
        /\ Onto(f, p)[Len(f)] = Append(f[Len(f)], p)
    <3>1. \A k \in 1..(Len(f) - 1) : k \in 1..Len(f) /\ k # Len(f)
      BY <2>1
    <3> QED BY <2>1, <2>2, <3>1
  <2> QED BY <1>2, <2>1, <2>2, <2>3
<1> QED BY <1>1, <1>2

\* A file of some pieces is a file of those and one more.
LEMMA OnePieceMore ==
    ASSUME NEW P, NEW f \in Seq(Seq(P)), NEW p
    PROVE  f \in Seq(Seq(P \union {p}))
<1>1. Seq(P) \subseteq Seq(P \union {p})
  BY SeqMonotonic
<1> QED BY <1>1, SeqMonotonic

\* A line more changes nothing that was written.
LEMMA AddingKeeps ==
    ASSUME NEW f, IsFile(f), NEW n \in Nat, Ordered(f, n)
    PROVE  LET g == Append(f, <<>>) IN
           /\ IsFile(g) /\ Ordered(g, n) /\ EndsLine(g) /\ g # <<>>
           /\ \A m, record : Kept(f, m, record) => Kept(g, m, record)
<1> DEFINE g == Append(f, <<>>)
<1>1. PICK P : f \in Seq(Seq(P))
  BY DEF IsFile
<1>2. /\ g \in Seq(Seq(P)) /\ Len(g) = Len(f) + 1 /\ Len(f) \in Nat /\ g[Len(g)] = <<>>
      /\ \A k \in 1..Len(f) : g[k] = f[k]
  BY <1>1, AddsLine, LenProperties
<1>3. Ordered(g, n)
  <2> SUFFICES ASSUME NEW i \in 1..Len(g), NEW j \in 1..Len(g),
                      NEW x \in 1..Len(g[i]), NEW y \in 1..Len(g[j]), g[i][x].part = "whole"
               PROVE  /\ g[i][x].n \in 1..n
                      /\ i < j /\ g[j][y].part = "whole" => g[i][x].n < g[j][y].n
    BY DEF Ordered
  <2>1. i \in 1..Len(f) /\ j \in 1..Len(f)
    BY <1>2, EmptySeq
  <2>2. g[i] = f[i] /\ g[j] = f[j]
    BY <1>2, <2>1
  <2> QED BY <2>1, <2>2 DEF Ordered
<1>4. ASSUME NEW m, NEW record, Kept(f, m, record) PROVE Kept(g, m, record)
  <2>1. PICK k \in 1..(Len(f) - 1) :
          /\ f[k] # <<>> /\ f[k][Len(f[k])] = Whole(m, record)
          /\ m \in seams \/ Len(f[k]) = 1
    BY <1>4 DEF Kept
  <2>2. k \in 1..(Len(g) - 1) /\ g[k] = f[k]
    BY <1>2
  <2> QED BY <2>1, <2>2 DEF Kept
<1> QED BY <1>2, <1>3, <1>4, EmptySeq DEF IsFile, EndsLine

\* Nor does a piece more, if it is numbered after everything before it.
LEMMA WritingKeeps ==
    ASSUME NEW f, IsFile(f), NEW n \in Nat, Ordered(f, n),
           NEW p, p.part = "whole" => p.n = n + 1
    PROVE  LET g == Onto(f, p) IN
           /\ IsFile(g) /\ Ordered(g, n + 1) /\ g # <<>>
           /\ g[Len(g)] # <<>> /\ g[Len(g)][Len(g[Len(g)])] = p
           /\ EndsLine(f) => Len(g[Len(g)]) = 1
           /\ \A m, record : Kept(f, m, record) => Kept(g, m, record)
<1> DEFINE g == Onto(f, p)
           last == IF f = <<>> THEN <<>> ELSE f[Len(f)]
<1>1. PICK Q : f \in Seq(Seq(Q))
  BY DEF IsFile
<1> DEFINE P == Q \union {p}
<1>2. f \in Seq(Seq(P)) /\ p \in P /\ Len(f) \in Nat /\ (f # <<>> => Len(f) # 0)
  BY <1>1, OnePieceMore, LenProperties, EmptySeq
<1> HIDE DEF P
<1>3. /\ g \in Seq(Seq(P)) /\ Len(g) = IF f = <<>> THEN 1 ELSE Len(f)
      /\ \A k \in 1..(Len(g) - 1) : g[k] = f[k]
      /\ last \in Seq(P) /\ g[Len(g)] = Append(last, p)
  BY ONLY <1>2, OntoLast
<1> HIDE DEF g, last
<1>4. /\ Len(Append(last, p)) = Len(last) + 1 /\ Len(last) \in Nat
      /\ Append(last, p)[Len(last) + 1] = p
      /\ \A x \in 1..Len(last) : Append(last, p)[x] = last[x]
  BY <1>2, <1>3, AppendProperties, LenProperties
<1>5. Len(g) \in Nat \ {0}
  BY <1>2, <1>3
<1>6. ASSUME NEW i \in 1..Len(g), NEW x \in 1..Len(g[i])
      PROVE  \/ i = Len(g) /\ g[i][x] = p
             \/ i \in 1..Len(f) /\ x \in 1..Len(f[i]) /\ g[i][x] = f[i][x]
  <2>1. CASE i = Len(g)
    <3>1. x = Len(last) + 1 \/ x \in 1..Len(last)
      BY <1>3, <1>4, <2>1
    <3>2. CASE x \in 1..Len(last)
      <4>1. f # <<>>
        BY <3>2, EmptySeq DEF last
      <4> QED BY <1>2, <1>3, <1>4, <2>1, <3>2, <4>1 DEF last
    <3> QED BY <1>3, <1>4, <2>1, <3>1, <3>2
  <2>2. CASE i # Len(g)
    <3>1. i \in 1..(Len(g) - 1) /\ i \in 1..Len(f)
      BY <1>2, <1>3, <1>5, <2>2
    <3> QED BY <1>3, <3>1
  <2> QED BY <2>1, <2>2
<1>7. Ordered(g, n + 1)
  <2> SUFFICES ASSUME NEW i \in 1..Len(g), NEW j \in 1..Len(g),
                      NEW x \in 1..Len(g[i]), NEW y \in 1..Len(g[j]), g[i][x].part = "whole"
               PROVE  /\ g[i][x].n \in 1..(n + 1)
                      /\ i < j /\ g[j][y].part = "whole" => g[i][x].n < g[j][y].n
    BY DEF Ordered
  <2>1. CASE i = Len(g) /\ g[i][x] = p
    BY <1>5, <2>1
  <2>2. CASE i \in 1..Len(f) /\ x \in 1..Len(f[i]) /\ g[i][x] = f[i][x]
    <3>1. g[i][x].n \in 1..n
      BY <2>2 DEF Ordered
    <3>2. ASSUME i < j, g[j][y].part = "whole" PROVE g[i][x].n < g[j][y].n
      <4>1. CASE g[j][y] = p
        BY <3>1, <3>2, <4>1
      <4>2. CASE j \in 1..Len(f) /\ y \in 1..Len(f[j]) /\ g[j][y] = f[j][y]
        BY <2>2, <3>2, <4>2 DEF Ordered
      <4> QED BY <1>6, <4>1, <4>2
    <3> QED BY <3>1, <3>2
  <2> QED BY <1>6, <2>1, <2>2
<1>8. ASSUME NEW m, NEW record, Kept(f, m, record) PROVE Kept(g, m, record)
  <2>1. PICK k \in 1..(Len(f) - 1) :
          /\ f[k] # <<>> /\ f[k][Len(f[k])] = Whole(m, record)
          /\ m \in seams \/ Len(f[k]) = 1
    BY <1>8 DEF Kept
  <2>2. k \in 1..(Len(g) - 1) /\ g[k] = f[k]
    BY <1>2, <1>3, <2>1, EmptySeq
  <2> QED BY <2>1, <2>2 DEF Kept
<1>9. EndsLine(f) => Len(last) = 0
  BY EmptySeq DEF EndsLine, last
<1>10. IsFile(g) /\ g # <<>> /\ g[Len(g)] # <<>>
  <2>1. IsFile(g)
    BY <1>3 DEF IsFile
  <2>2. g # <<>>
    BY <1>5
  <2>3. Append(last, p) # <<>>
    <3>1. Len(Append(last, p)) = Len(last) + 1 /\ Len(last) \in Nat
      BY <1>2, <1>3, AppendProperties, LenProperties
    <3>2. Len(Append(last, p)) # 0
      BY <3>1
    <3>3. Len(<<>>) = 0
      BY EmptySeq
    <3> QED BY <3>2, <3>3, Zenon
  <2> QED BY <1>3, <2>1, <2>2, <2>3
<1> QED BY <1>3, <1>4, <1>5, <1>7, <1>8, <1>9, <1>10 DEF g

-----------------------------------------------------------------------------
(* The steps.                                                               *)

\* However far append() gets, what was acknowledged stays, and what it says it
\* has written is there.
LEMMA WriteStep ==
    ASSUME Inv, UNCHANGED seams,
           NEW record, NEW stop \in Stops, NEW wasDirty \in BOOLEAN,
           Write(record, stop, wasDirty),
           IsItem(record) => wasDirty \/ EndsLine(file) \/ appends + 1 \in seams
    PROVE  /\ appends' \in Nat
           /\ IsFile(file)' /\ Ordered(file, appends)'
           /\ \A a \in acked' : a.n \in 1..appends' /\ Kept(file, a.n, a.record)'
           /\ ~dirty' => EndsLine(file)'
<1> DEFINE apart == IF wasDirty THEN Append(file, <<>>) ELSE file
           piece == Whole(appends + 1, record)
<1>1. /\ IsFile(apart) /\ Ordered(apart, appends)
      /\ wasDirty => EndsLine(apart)
      /\ ~wasDirty => apart = file
      /\ \A m, r : Kept(file, m, r) => Kept(apart, m, r)
  BY AddingKeeps DEF Inv
<1>2. ASSUME NEW f, IsFile(f), Ordered(f, appends) PROVE Ordered(f, appends + 1)
  BY <1>2 DEF Inv, Ordered
<1>3. ASSUME NEW p, p.part = "whole" => p.n = appends + 1
      PROVE  LET g == Onto(apart, p) IN
             /\ IsFile(g) /\ Ordered(g, appends + 1) /\ g # <<>>
             /\ g[Len(g)] # <<>> /\ g[Len(g)][Len(g[Len(g)])] = p
             /\ EndsLine(apart) => Len(g[Len(g)]) = 1
             /\ \A m, r : Kept(apart, m, r) => Kept(g, m, r)
  BY <1>1, <1>3, WritingKeeps DEF Inv
<1>4. /\ file' = Leaves(stop, record, wasDirty) /\ appends' = appends + 1
      /\ dirty' = (stop # "done")
      /\ acked' = IF stop = "done" /\ IsItem(record)
                  THEN acked \union {[n |-> appends + 1, record |-> record]} ELSE acked
  BY DEF Write, DirtyAfter
<1>5. stop \in {"nothing", "apart", "torn", "cut", "unended", "done"}
  BY DEF Stops
<1> HIDE DEF apart
<1>6. ASSUME IsFile(file'), Ordered(file', appends + 1),
             \A a \in acked' : a.n \in 1..appends' /\ Kept(file', a.n, a.record)
      PROVE  /\ appends' \in Nat /\ IsFile(file)' /\ Ordered(file, appends)'
             /\ \A a \in acked' : a.n \in 1..appends' /\ Kept(file, a.n, a.record)'
  <2>1. IsFile(file)' /\ Ordered(file, appends)'
    BY <1>4, <1>6 DEF IsFile, Ordered
  <2>2. \A a \in acked' : Kept(file, a.n, a.record)'
    BY <1>6 DEF Kept
  <2> QED BY <1>4, <1>6, <2>1, <2>2 DEF Inv
<1>7. CASE stop = "nothing" \/ stop = "apart"
  <2>1. file' = file \/ file' = apart
    BY <1>4, <1>7 DEF Leaves, apart
  <2>2. /\ IsFile(file') /\ Ordered(file', appends + 1)
        /\ \A m, r : Kept(file, m, r) => Kept(file', m, r)
    BY <1>1, <1>2, <2>1 DEF Inv
  <2>3. \A a \in acked' : a.n \in 1..appends' /\ Kept(file', a.n, a.record)
    BY <1>4, <1>7, <2>2 DEF Inv
  <2> QED BY <1>4, <1>6, <1>7, <2>2, <2>3
<1>8. CASE stop \in {"torn", "cut", "unended"}
  <2> DEFINE p == IF stop = "unended" THEN piece ELSE Fragment(stop)
  <2>1. file' = Onto(apart, p)
    BY <1>4, <1>8 DEF Leaves, apart
  <2>2. p.part = "whole" => p.n = appends + 1
    BY <1>8 DEF Whole, Fragment
  <2>3. /\ IsFile(file') /\ Ordered(file', appends + 1)
        /\ \A m, r : Kept(file, m, r) => Kept(file', m, r)
    BY <1>1, <1>3, <2>1, <2>2
  <2>4. \A a \in acked' : a.n \in 1..appends' /\ Kept(file', a.n, a.record)
    BY <1>4, <1>8, <2>3 DEF Inv
  <2> QED BY <1>4, <1>6, <1>8, <2>3, <2>4
<1>9. CASE stop = "done"
  <2> DEFINE f == Onto(apart, piece)
  <2>1. file' = Append(f, <<>>)
    BY <1>4, <1>9 DEF Leaves, apart
  <2>2. piece.part = "whole" => piece.n = appends + 1
    BY DEF Whole
  <2>3. /\ IsFile(f) /\ Ordered(f, appends + 1) /\ f # <<>>
        /\ f[Len(f)] # <<>> /\ f[Len(f)][Len(f[Len(f)])] = piece
        /\ EndsLine(apart) => Len(f[Len(f)]) = 1
        /\ \A m, r : Kept(apart, m, r) => Kept(f, m, r)
    BY <1>3, <2>2
  <2> HIDE DEF f, piece
  <2>4. /\ IsFile(file') /\ Ordered(file', appends + 1) /\ EndsLine(file')
        /\ \A m, r : Kept(f, m, r) => Kept(file', m, r)
    BY <2>1, <2>3, AddingKeeps DEF Inv
  <2>5. ASSUME IsItem(record) PROVE Kept(file', appends + 1, record)
    <3>1. PICK P : f \in Seq(Seq(P))
      BY <2>3 DEF IsFile
    <3>2. /\ Len(f) \in Nat \ {0} /\ Len(file') = Len(f) + 1
          /\ \A k \in 1..Len(f) : file'[k] = f[k]
      BY <2>1, <2>3, <3>1, AddsLine, EmptySeq
    <3>3. appends + 1 \in seams \/ Len(f[Len(f)]) = 1
      BY <1>1, <2>3, <2>5
    <3>4. Len(f) \in 1..(Len(file') - 1) /\ file'[Len(f)] = f[Len(f)]
      BY <3>2
    <3> QED BY <2>3, <3>3, <3>4 DEF Kept, piece
  <2>6. \A a \in acked' : a.n \in 1..appends' /\ Kept(file', a.n, a.record)
    BY <1>1, <1>4, <1>9, <2>3, <2>4, <2>5 DEF Inv
  <2> QED BY <1>4, <1>6, <2>4, <2>6 DEF EndsLine
<1> QED BY <1>5, <1>7, <1>8, <1>9


\* What a running session records keeps the file in order.
LEMMA RecordStep ==
    ASSUME Inv, up, NEW record, Record(record)
    PROVE  Inv'
<1>1. CASE recording
  <2>1. PICK stop \in Stops : Write(record, stop, dirty)
    BY <1>1 DEF Record
  <2>2. UNCHANGED <<recording, seams>> /\ dirty' \in BOOLEAN /\ appends' = appends + 1
    BY <1>1, <2>1 DEF Record, Write, DirtyAfter
  <2>3. dirty \/ EndsLine(file) \/ appends + 1 \in seams
    BY <1>1 DEF Inv
  <2>4. /\ appends' \in Nat
        /\ IsFile(file)' /\ Ordered(file, appends)'
        /\ \A a \in acked' : a.n \in 1..appends' /\ Kept(file, a.n, a.record)'
        /\ ~dirty' => EndsLine(file)'
    BY <2>1, <2>2, <2>3, WriteStep DEF Inv
  <2> QED BY <2>2, <2>4 DEF Inv
<1>2. CASE ~recording
  BY <1>2 DEF Record, Inv, fileVars, IsFile, Ordered, Kept, EndsLine
<1> QED BY <1>1, <1>2

\* A process that opens the file, or has none to write to.
LEMMA OpenStep ==
    ASSUME Inv, Create \/ ResumeUnrecorded \/ ResumeInteractive \/ ResumeSupervised
    PROVE  Inv'
<1>1. ASSUME NEW record, ~IsItem(record), NEW stop \in Stops, Write(record, stop, FALSE),
             UNCHANGED seams
      PROVE  Inv'
  <2>1. /\ appends' \in Nat /\ dirty' \in BOOLEAN
        /\ IsFile(file)' /\ Ordered(file, appends)'
        /\ \A a \in acked' : a.n \in 1..appends' /\ Kept(file, a.n, a.record)'
        /\ ~dirty' => EndsLine(file)'
    BY <1>1, WriteStep DEF Write, DirtyAfter
  <2> QED BY <2>1 DEF Inv
<1>2. ASSUME UNCHANGED <<file, dirty, appends, acked, seams>>, ~recording' PROVE Inv'
  BY <1>2 DEF Inv, IsFile, Ordered, Kept
<1>3. CASE Create
  <2>1. ~IsItem(Header)
    BY DEF IsItem, Header
  <2> QED BY <1>1, <1>2, <1>3, <2>1 DEF Create
<1>4. CASE ResumeUnrecorded
  BY <1>2, <1>4 DEF ResumeUnrecorded
<1>5. CASE ResumeInteractive
  <2>1. ~IsItem(Resumed)
    BY DEF IsItem, Resumed
  <2> QED BY <1>1, <1>5, <2>1 DEF ResumeInteractive, ReopenedDirty
<1>6. CASE ResumeSupervised
  <2>1. /\ UNCHANGED <<file, appends, acked>> /\ dirty' = FALSE
        /\ seams' = seams \union {appends + 1}
    BY <1>6 DEF ResumeSupervised, ReopenedDirty
  <2>2. \A m, r : Kept(file, m, r) => Kept(file, m, r)'
    BY <2>1 DEF Kept
  <2>3. IsFile(file)' /\ Ordered(file, appends)'
    BY <2>1 DEF Inv, IsFile, Ordered
  <2> QED BY <2>1, <2>2, <2>3 DEF Inv
<1> QED BY <1>3, <1>4, <1>5, <1>6

\* The invariant: what was acknowledged ends a line of its own, in the order of
\* the appends, and a clean file is one whose last line is ended.
THEOREM InvHolds == Spec => []Inv
<1>1. Init => Inv
  <2>1. <<>> \in Seq(Seq({}))
    BY EmptySeq
  <2>2. IsFile(<<>>) /\ Ordered(<<>>, 0)
    BY <2>1 DEF IsFile, Ordered
  <2>3. Init => IsFile(file) /\ Ordered(file, appends)
    BY <2>2 DEF Init
  <2>4. Init => dirty \in BOOLEAN /\ acked = {} /\ ~up
    BY Zenon DEF Init
  <2>5. Init => appends \in Nat
    BY DEF Init
  <2> QED BY <2>3, <2>4, <2>5 DEF Inv
<1>2. Inv /\ [Next]_vars => Inv'
  <2> SUFFICES ASSUME Inv, [Next]_vars PROVE Inv'
    OBVIOUS
  <2>1. ASSUME NEW record, up, Record(record) PROVE Inv'
    BY <2>1, RecordStep
  <2>2. CASE Say
    BY <2>1, <2>2 DEF Say
  <2>3. CASE CallTool
    BY <2>1, <2>3 DEF CallTool
  <2>4. CASE EndTurn
    BY <2>1, <2>4 DEF EndTurn
  <2>5. ASSUME NEW k \in 1..Len(session), Settle(k) PROVE Inv'
    BY <2>1, <2>5 DEF Settle
  <2>6. CASE Exit
    BY <2>6 DEF Exit, Inv, fileVars, IsFile, Ordered, Kept
  <2>7. CASE UNCHANGED vars
    BY <2>7 DEF vars, Inv, fileVars, IsFile, Ordered, Kept, EndsLine
  <2> QED BY <2>2, <2>3, <2>4, <2>5, <2>6, <2>7, OpenStep DEF Next
<1> QED BY <1>1, <1>2, PTL DEF Spec


-----------------------------------------------------------------------------
(* Reading the file back.                                                   *)

\* Among the numbers of some lines there is a first.
LEMMA FirstOf ==
    ASSUME NEW T \in SUBSET Nat, T # {}
    PROVE  \E k \in T : \A j \in T : k <= j
<1> DEFINE R == OpToRel(<, Nat)
<1>1. IsWellFoundedOn(R, Nat)
  BY NatLessThanWellFounded
<1>2. PICK k \in T : \A j \in T : <<j, k>> \notin R
  <2> HIDE DEF R
  <2> QED BY <1>1, WFMin
<1>3. \A j \in T : j < k => <<j, k>> \in R
  BY DEF OpToRel
<1> HIDE DEF R
<1>4. k \in Nat /\ \A j \in T : j \in Nat /\ ~(j < k)
  BY <1>2, <1>3
<1> QED BY <1>4

\* What load() reads of the file is its beginning: all of it but the newline at
\* the end, or up to the first line that is not text.
LEMMA LinesAreThere ==
    ASSUME IsFile(file)
    PROVE  /\ Len(Lines) \in Nat /\ Len(file) \in Nat /\ Len(Lines) <= Len(file)
           /\ \A k \in 1..Len(Lines) : Lines[k] = file[k]
           /\ (\A k \in 1..Len(file) : IsText(file[k])) => Len(file) - 1 <= Len(Lines)
<1>1. PICK P : file \in Seq(Seq(P))
  BY DEF IsFile
<1> DEFINE lines == PhysicalLines
           broken == {k \in 1..Len(lines) : ~IsText(lines[k])}
<1>2. Len(file) \in Nat /\ (file # <<>> => Len(file) # 0)
  BY <1>1, LenProperties, EmptySeq
<1>3. /\ lines \in Seq(Seq(P)) /\ Len(lines) \in Nat
      /\ Len(lines) <= Len(file) /\ Len(file) - 1 <= Len(lines)
      /\ \A k \in 1..Len(lines) : lines[k] = file[k]
  <2>1. CASE file = <<>> \/ Last(file) # <<>>
    BY <1>1, <1>2, <2>1 DEF PhysicalLines
  <2>2. CASE file # <<>> /\ Last(file) = <<>>
    <3>1. lines = SubSeq(file, 1, Len(file) - 1)
      BY <2>2 DEF PhysicalLines, Front
    <3>2. \A k \in 1..(Len(file) - 1) : file[k] \in Seq(P)
      BY <1>1, <1>2, ElementOfSeq
    <3>3. /\ lines \in Seq(Seq(P)) /\ Len(lines) = Len(file) - 1
          /\ \A k \in 1..(Len(file) - 1) : lines[k] = file[k]
      <4>1. /\ Len(file) - 1 \in Int /\ (1 <= Len(file) - 1 \/ Len(file) - 1 = 0)
            /\ \A k \in 1..(Len(file) - 1) : 1 + k - 1 = k
            /\ Len(file) - 1 - 1 + 1 = Len(file) - 1
        BY <1>2, <2>2
      <4>2. /\ SubSeq(file, 1, Len(file) - 1) \in Seq(Seq(P))
            /\ Len(SubSeq(file, 1, Len(file) - 1)) =
                 IF 1 <= Len(file) - 1 THEN Len(file) - 1 - 1 + 1 ELSE 0
            /\ \A k \in 1..(Len(file) - 1 - 1 + 1) :
                 SubSeq(file, 1, Len(file) - 1)[k] = file[1 + k - 1]
        BY <3>2, <4>1, SubSeqProperties
      <4> QED BY <3>1, <4>1, <4>2
    <3> QED BY <1>2, <2>2, <3>3
  <2> QED BY <2>1, <2>2
<1> HIDE DEF lines
<1>4. CASE broken = {}
  BY <1>2, <1>3, <1>4 DEF Lines, lines
<1>5. CASE broken # {}
  <2> DEFINE b == CHOOSE k \in broken : \A j \in broken : k <= j
  <2>1. broken \in SUBSET Nat
    OBVIOUS
  <2>2. b \in broken
    <3>1. \E k \in broken : \A j \in broken : k <= j
      BY <1>5, <2>1, FirstOf
    <3> QED BY <3>1
  <2>3. Lines = SubSeq(lines, 1, b - 1)
    BY <1>5 DEF Lines, lines
  <2>4. b \in 1..Len(lines) /\ ~IsText(lines[b])
    BY <2>2
  <2> HIDE DEF b
  <2>5. \A k \in 1..(b - 1) : lines[k] \in Seq(P)
    BY <1>3, <2>4, ElementOfSeq
  <2>6. Len(Lines) = b - 1 /\ \A k \in 1..(b - 1) : Lines[k] = lines[k]
    BY <1>3, <2>3, <2>4, <2>5, SubSeqProperties
  <2>7. ~IsText(file[b]) /\ b \in 1..Len(file)
    BY <1>2, <1>3, <2>4
  <2> QED BY <1>2, <1>3, <2>4, <2>6, <2>7
<1> QED BY <1>4, <1>5


\* A line that ends with an acknowledged record is read, or it is a bad line.
LEMMA ReadOrBad ==
    ASSUME IsFile(file), NEW a, NEW k \in 1..(Len(file) - 1), k <= Len(Lines),
           file[k] # <<>>, file[k][Len(file[k])] = Whole(a.n, a.record)
    PROVE  a.n \in ReadNumbers \/ k \in BadLines
<1>1. k \in 1..Len(Lines) /\ Lines[k] = file[k]
  BY LinesAreThere
<1>2. CASE Parses(Lines[k])
  <2>1. Lines[k][1].n = a.n
    BY <1>1, <1>2 DEF Parses, Whole
  <2>2. k \in ReadLines
    BY <1>1, <1>2 DEF ReadLines
  <2> QED BY <2>1, <2>2 DEF ReadNumbers
<1>3. CASE ~Parses(Lines[k])
  BY <1>1, <1>3 DEF BadLines
<1> QED BY <1>2, <1>3

-----------------------------------------------------------------------------
(* The properties.                                                          *)

\* An item whose write worked has a line to itself, however often the disk was
\* full and whichever process died in the middle of the line before it.
THEOREM ItemsStandAlone == Spec => []WrittenItemsStandAlone
<1>1. Inv => WrittenItemsStandAlone
  <2> SUFFICES ASSUME Inv, NEW a \in acked, a.n \notin seams
               PROVE  StandsAlone(a.n)
    BY DEF WrittenItemsStandAlone
  <2>1. PICK k \in 1..(Len(file) - 1) :
          /\ file[k] # <<>>
          /\ file[k][Len(file[k])] = Whole(a.n, a.record) /\ Len(file[k]) = 1
    BY DEF Inv, Kept
  <2>2. Parses(file[k]) /\ file[k][1].n = a.n
    BY <2>1 DEF Parses, Whole
  <2>3. k \in 1..Len(file)
    BY LinesAreThere DEF Inv
  <2> QED BY <2>2, <2>3 DEF StandsAlone
<1> QED BY <1>1, InvHolds, PTL

\* A load that misses an item whose write worked does not pass for a good one:
\* the line that item is lost in is reported, and once anything later is read
\* back the load is degraded.
THEOREM LossesAreNoticed == Spec => []LossIsNoticed
<1>1. Inv => LossIsNoticed
  <2> SUFFICES ASSUME Inv PROVE LossIsNoticed
    OBVIOUS
  <2>1. /\ Len(Lines) \in Nat /\ Len(file) \in Nat /\ Len(Lines) <= Len(file)
        /\ \A k \in 1..Len(Lines) : Lines[k] = file[k]
        /\ (\A k \in 1..Len(file) : IsText(file[k])) => Len(file) - 1 <= Len(Lines)
    BY LinesAreThere DEF Inv
  <2>2. ASSUME NEW a \in Missed
        PROVE  \E k \in 1..(Len(file) - 1) :
                 /\ file[k] # <<>> /\ file[k][Len(file[k])] = Whole(a.n, a.record)
                 /\ k <= Len(Lines) => k \in BadLines
    BY ReadOrBad DEF Inv, Kept, Missed
  <2>3. ASSUME Missed # {}, \A k \in 1..Len(file) : IsText(file[k]) PROVE Notices # {}
    <3>1. PICK a \in Missed : TRUE
      BY <2>3
    <3>2. PICK k \in 1..(Len(file) - 1) : k <= Len(Lines) => k \in BadLines
      BY <2>2
    <3>3. k \in 1..Len(Lines) /\ k \in BadLines
      BY <2>1, <2>3, <3>2
    <3> QED BY <3>3 DEF Notices, Noticed
  <2>4. ASSUME NEW a \in Missed, NEW n \in ReadNumbers, n > a.n PROVE Degraded
    <3>1. PICK k \in 1..(Len(file) - 1) :
            /\ file[k] # <<>> /\ file[k][Len(file[k])] = Whole(a.n, a.record)
            /\ k <= Len(Lines) => k \in BadLines
      BY <2>2
    <3>2. PICK j \in 1..Len(Lines) : Parses(Lines[j]) /\ Lines[j][1].n = n
      BY DEF ReadNumbers, ReadLines
    <3>3. /\ j \in 1..Len(file) /\ file[j] = Lines[j]
          /\ Len(file[j]) = 1 /\ file[j][1].part = "whole" /\ file[j][1].n = n
      BY <2>1, <3>2 DEF Parses
    <3>4. PICK P : file[k] \in Seq(P)
      BY <2>1, ElementOfSeq DEF Inv, IsFile
    <3>5. /\ Len(file[k]) \in 1..Len(file[k]) /\ k \in 1..Len(file)
          /\ file[k][Len(file[k])].part = "whole" /\ file[k][Len(file[k])].n = a.n
      BY <2>1, <3>1, <3>4, EmptySeq DEF Whole
    <3>6. a.n \in Nat /\ n \in Nat
      BY SMTT(30), <3>3, <3>5 DEF Inv, Ordered
    <3>7. CASE k < j
      <4>1. k \in BadLines /\ k # Len(Lines)
        BY <2>1, <3>1, <3>7
      <4> QED BY <4>1 DEF Degraded, IsHole
    <3>8. CASE j < k
      <4>1. n < a.n
        BY SMTT(30), <3>3, <3>5, <3>8 DEF Inv, Ordered
      <4> QED BY <2>4, <3>6, <4>1
    <3>9. CASE j = k
      BY <2>4, <3>3, <3>5, <3>6, <3>9
    <3> QED BY <3>7, <3>8, <3>9
  <2> QED BY <2>3, <2>4 DEF LossIsNoticed, GapsAreDegraded
<1> QED BY <1>1, InvHolds, PTL

-----------------------------------------------------------------------------
(* The history that is read back.                                           *)

\* What load() makes of a line, after the items of the lines before it.
After(items, line) == IF Parses(line) THEN Folded(items, line[1].record) ELSE items

\* Reading the lines one after the other is well defined.
LEMMA ReadingLines ==
    ASSUME Len(Lines) \in Nat
    PROVE  /\ ItemsAfter[0] = <<>>
           /\ \A k \in 1..Len(Lines) : ItemsAfter[k] = After(ItemsAfter[k - 1], Lines[k])
<1> DEFINE N == Len(Lines)
           Reads(g, n) == g = [k \in 0..n |-> IF k = 0 THEN <<>> ELSE After(g[k - 1], Lines[k])]
           Unread == {n \in 0..N : ~ \E g : Reads(g, n)}
<1> HIDE DEF N
<1>0. N \in Nat
  BY DEF N
<1>1. Unread = {}
  <2> SUFFICES ASSUME Unread # {} PROVE FALSE
    OBVIOUS
  <2>1. PICK m \in Unread : \A j \in Unread : m <= j
    <3>1. Unread \in SUBSET Nat
      BY <1>0
    <3> HIDE DEF Unread
    <3> QED BY <3>1, FirstOf
  <2>2. CASE m = 0
    <3> DEFINE g == [k \in 0..m |-> <<>>]
    <3>1. Reads(g, m)
      BY <2>2
    <3> QED BY <3>1
  <2>3. CASE m # 0
    <3>1. m \in 1..N /\ m - 1 \in 0..N /\ m - 1 \notin Unread
      BY <1>0, <2>1, <2>3
    <3>2. PICK h : Reads(h, m - 1)
      BY <3>1
    <3> DEFINE g == [k \in 0..m |-> IF k = m THEN After(h[m - 1], Lines[m]) ELSE h[k]]
    <3>3. \A k \in 0..(m - 1) : g[k] = h[k]
      BY <1>0, <3>1
    <3>4. ASSUME NEW k \in 0..m
          PROVE  g[k] = IF k = 0 THEN <<>> ELSE After(g[k - 1], Lines[k])
      <4>1. CASE k = m
        <5>1. g[k] = After(h[m - 1], Lines[m]) /\ m - 1 \in 0..(m - 1) /\ k # 0
          BY <1>0, <3>1, <4>1
        <5>2. g[m - 1] = h[m - 1]
          BY <3>3, <5>1
        <5> HIDE DEF g
        <5> QED BY <4>1, <5>1, <5>2
      <4>2. CASE k # m
        <5>1. k \in 0..(m - 1) /\ (k # 0 => k - 1 \in 0..(m - 1))
          BY <1>0, <3>1, <4>2
        <5>2. g[k] = h[k] /\ (k # 0 => g[k - 1] = h[k - 1])
          BY <3>3, <5>1
        <5>3. h[k] = IF k = 0 THEN <<>> ELSE After(h[k - 1], Lines[k])
          BY <3>2, <5>1
        <5> HIDE DEF g
        <5> QED BY <5>2, <5>3
      <4> QED BY <4>1, <4>2
    <3>5. g = [k \in 0..m |-> g[k]]
      OBVIOUS
    <3> HIDE DEF g
    <3>6. Reads(g, m)
      BY <3>4, <3>5
    <3> QED BY <3>6
  <2> QED BY <2>2, <2>3
<1>2. \E g : Reads(g, N)
  <2>1. N \in 0..N /\ N \notin Unread
    <3> HIDE DEF Unread
    <3> QED BY <1>0, <1>1
  <2> HIDE DEF Reads
  <2> QED BY <2>1, Zenon
<1>3. Reads(ItemsAfter, N)
  BY <1>2, Zenon DEF ItemsAfter, After, N
<1> HIDE DEF Reads
<1>4. \A k \in 0..N : ItemsAfter[k] = IF k = 0 THEN <<>> ELSE After(ItemsAfter[k - 1], Lines[k])
  BY <1>3 DEF Reads
<1> QED BY <1>0, <1>4 DEF N

\* The records of items that are in the file, in whatever line.
Said ==
    {p \in UNION {{file[i][x] : x \in 1..Len(file[i])} : i \in 1..Len(file)} :
        p.part = "whole" /\ IsItem(p.record)}

\* How many messages there were when an item was begun.
StepIn(T, id) == Cardinality({t \in T : t <= id})
StepOf(id) == StepIn(texts, id)

FileTyped ==
    /\ file \in Seq(Seq(Pieces)) /\ dirty \in BOOLEAN /\ recording \in BOOLEAN
    /\ appends \in 0..MaxAppends
    /\ acked \subseteq [n : 1..MaxAppends, record : Items]
    /\ seams \subseteq 1..(MaxAppends + 1)
SessionTyped ==
    /\ up \in BOOLEAN /\ session \in Seq(Items) /\ lives \in 0..MaxLives
    /\ nextId \in 1..(MaxAppends + 1) /\ texts \subseteq 1..MaxAppends

\* Records are written in the order of the steps, and none after the answer.
InSteps ==
    \A p, q \in Said : p.n < q.n =>
        /\ StepOf(p.record.id) <= StepOf(q.record.id)
        /\ p.record.status = "ok" => p.record.id # q.record.id

\* Ids are handed out once, and a call that waits for its answer is of the
\* last step and has none in the file.
SessionInv ==
    /\ lives = 0 => ~up /\ session = <<>>
    /\ \A p \in Said : p.record.id < nextId
    /\ \A t \in texts : t < nextId
    /\ \A k \in 1..Len(session) : session[k].id < nextId
    /\ \A j, k \in 1..Len(session) : j # k => session[j].id # session[k].id
    /\ up => \A k \in 1..Len(session) : session[k].status = "pending" =>
         /\ StepOf(session[k].id) = Cardinality(texts)
         /\ \A p \in Said : p.record.status = "ok" => p.record.id # session[k].id

\* The parts together, and with the order of the file.
Hist == FileTyped /\ SessionTyped /\ InSteps /\ SessionInv
HistInv == Inv /\ FileTyped /\ SessionTyped /\ InSteps /\ SessionInv

-----------------------------------------------------------------------------
\* The bounds are numbers.
LEMMA Bounds == MaxAppends \in Nat /\ MaxLives \in Nat
  BY SessionFileAssumption DEF SessionFileAssumption

\* Steps are counted with the ids.
LEMMA StepsCount ==
    ASSUME NEW T \in SUBSET Nat, IsFiniteSet(T)
    PROVE  /\ \A i \in Nat : StepIn(T, i) \in Nat /\ StepIn(T, i) <= Cardinality(T)
           /\ Cardinality(T) \in Nat
           /\ \A i, j \in Nat : i <= j => StepIn(T, i) <= StepIn(T, j)
           /\ \A i \in Nat : (\A t \in T : t <= i) => StepIn(T, i) = Cardinality(T)
           /\ \A i, n \in Nat : i < n => StepIn(T \union {n}, i) = StepIn(T, i)
<1>1. ASSUME NEW i \in Nat
      PROVE  /\ IsFiniteSet({t \in T : t <= i}) /\ StepIn(T, i) \in Nat
             /\ StepIn(T, i) <= Cardinality(T)
  <2>1. {t \in T : t <= i} \subseteq T
    OBVIOUS
  <2> QED BY <2>1, FS_Subset, FS_CardinalityType DEF StepIn
<1>2. Cardinality(T) \in Nat
  BY FS_CardinalityType
<1>3. ASSUME NEW i \in Nat, NEW j \in Nat, i <= j
      PROVE  StepIn(T, i) <= StepIn(T, j)
  <2>1. ASSUME NEW t \in T, t <= i PROVE t <= j
    <3>1. t \in Nat
      OBVIOUS
    <3> QED BY <1>3, <2>1, <3>1
  <2>2. {t \in T : t <= i} \subseteq {t \in T : t <= j}
    BY <2>1
  <2> QED BY <1>1, <2>2, FS_Subset DEF StepIn
<1>4. ASSUME NEW i \in Nat, \A t \in T : t <= i PROVE StepIn(T, i) = Cardinality(T)
  <2>1. {t \in T : t <= i} = T
    BY <1>4
  <2> QED BY <2>1 DEF StepIn
<1>5. ASSUME NEW i \in Nat, NEW n \in Nat, i < n
      PROVE  StepIn(T \union {n}, i) = StepIn(T, i)
  <2>1. {t \in T \union {n} : t <= i} = {t \in T : t <= i}
    BY <1>5
  <2> QED BY <2>1 DEF StepIn
<1> QED BY <1>1, <1>2, <1>3, <1>4, <1>5

\* What stands in the file, and a file that differs from it by one piece.
Old(p) == \E j \in 1..Len(file) : \E y \in 1..Len(file[j]) : p = file[j][y]
New(f, p) ==
    /\ f \in Seq(Seq(Pieces))
    /\ \A i \in 1..Len(f) : \A x \in 1..Len(f[i]) : f[i][x] = p \/ Old(f[i][x])

\* What is in the file after a write: what was there and, if it came that far,
\* the new record.
LEMMA WritesOne ==
    ASSUME file \in Seq(Seq(Pieces)), appends \in Nat,
           NEW record \in Records, NEW stop \in Stops, NEW wasDirty \in BOOLEAN
    PROVE  LET f == Leaves(stop, record, wasDirty) IN
           /\ f \in Seq(Seq(Pieces))
           /\ \A i \in 1..Len(f) : \A x \in 1..Len(f[i]) : f[i][x].part = "whole" =>
                f[i][x] = Whole(appends + 1, record) \/ Old(f[i][x])
<1> DEFINE apart == IF wasDirty THEN Append(file, <<>>) ELSE file
<1>1. apart \in Seq(Seq(Pieces)) /\ \A i \in 1..Len(apart) : \A x \in 1..Len(apart[i]) : Old(apart[i][x])
  <2>1. CASE wasDirty
    <3>1. /\ apart \in Seq(Seq(Pieces)) /\ Len(apart) = Len(file) + 1 /\ apart[Len(apart)] = <<>>
          /\ \A k \in 1..Len(file) : apart[k] = file[k]
      BY <2>1, AddsLine
    <3>2. Len(file) \in Nat /\ Len(<<>>) = 0
      BY LenProperties, EmptySeq
    <3>4. \A i \in 1..Len(file) : \A x \in 1..Len(file[i]) : Old(file[i][x])
      BY DEF Old
    <3>3. ASSUME NEW i \in 1..Len(apart), NEW x \in 1..Len(apart[i])
          PROVE  i \in 1..Len(file) /\ apart[i] = file[i]
      <4> HIDE DEF apart
      <4>1. i # Len(apart)
        BY <3>1, <3>2
      <4>2. i \in 1..Len(file)
        BY <3>1, <3>2, <4>1
      <4> QED BY <3>1, <4>2
    <3> HIDE DEF apart
    <3> QED BY <3>1, <3>3, <3>4
  <2>2. CASE ~wasDirty
    BY <2>2 DEF Old
  <2> QED BY <2>1, <2>2
<1> HIDE DEF apart
<1>2. ASSUME NEW p \in Pieces PROVE New(Onto(apart, p), p)
  <2> DEFINE g == Onto(apart, p)
             last == IF apart = <<>> THEN <<>> ELSE apart[Len(apart)]
  <2>1. /\ g \in Seq(Seq(Pieces)) /\ Len(g) = IF apart = <<>> THEN 1 ELSE Len(apart)
        /\ \A k \in 1..(Len(g) - 1) : g[k] = apart[k]
        /\ last \in Seq(Pieces) /\ g[Len(g)] = Append(last, p)
    <3>1. apart \in Seq(Seq(Pieces)) /\ p \in Pieces
      BY <1>1
    <3> QED BY ONLY <3>1, OntoLast
  <2>2. /\ Len(apart) \in Nat /\ (apart # <<>> => Len(apart) # 0) /\ Len(last) \in Nat
        /\ Len(Append(last, p)) = Len(last) + 1 /\ Append(last, p)[Len(last) + 1] = p
        /\ \A x \in 1..Len(last) : Append(last, p)[x] = last[x]
        /\ Len(<<>>) = 0
    BY <1>1, <2>1, LenProperties, EmptySeq, AppendProperties
  <2> HIDE DEF g
  <2>3. ASSUME NEW i \in 1..Len(g), NEW x \in 1..Len(g[i]) PROVE g[i][x] = p \/ Old(g[i][x])
    <3>1. CASE i # Len(g)
      <4>1. i \in 1..(Len(g) - 1) /\ i \in 1..Len(apart)
        BY <2>1, <2>2, <3>1
      <4>2. g[i] = apart[i]
        BY <2>1, <4>1
      <4> QED BY <1>1, <4>1, <4>2
    <3>2. CASE i = Len(g) /\ x = Len(last) + 1
      BY <2>1, <2>2, <3>2
    <3>3. CASE i = Len(g) /\ x # Len(last) + 1
      <4>1. x \in 1..Len(last) /\ g[i][x] = last[x]
        <5> HIDE DEF last
        <5>1. x \in 1..(Len(last) + 1) /\ g[i] = Append(last, p)
          BY <2>1, <2>2, <3>3
        <5>2. x \in 1..Len(last)
          BY <2>2, <3>3, <5>1
        <5> QED BY <2>2, <5>1, <5>2
      <4>2. apart # <<>>
        BY <2>2, <4>1
      <4>3. Len(apart) \in 1..Len(apart) /\ last = apart[Len(apart)]
        BY <2>2, <4>2
      <4> HIDE DEF last
      <4> QED BY <1>1, <4>1, <4>3
    <3> QED BY <3>1, <3>2, <3>3
  <2> QED BY <2>1, <2>3 DEF g, New
<1>3. ASSUME NEW f, NEW p, New(f, p) PROVE New(Append(f, <<>>), p)
  <2> DEFINE g == Append(f, <<>>)
  <2>1. /\ g \in Seq(Seq(Pieces)) /\ Len(g) = Len(f) + 1 /\ g[Len(g)] = <<>>
        /\ \A k \in 1..Len(f) : g[k] = f[k]
    BY <1>3, AddsLine DEF New
  <2>2. Len(f) \in Nat /\ Len(<<>>) = 0
    BY <1>3, LenProperties, EmptySeq DEF New
  <2> HIDE DEF g
  <2>3. ASSUME NEW i \in 1..Len(g), NEW x \in 1..Len(g[i]) PROVE g[i][x] = p \/ Old(g[i][x])
    <3>1. i # Len(g)
      BY <2>1, <2>2
    <3>2. i \in 1..Len(f) /\ g[i] = f[i]
      BY <2>1, <2>2, <3>1
    <3> QED BY <1>3, <3>2 DEF New
  <2> QED BY <2>1, <2>3 DEF g, New
<1>4. /\ Whole(appends + 1, record) \in Pieces
      /\ \A part \in {"torn", "cut"} : Fragment(part) \in Pieces /\ Fragment(part).part # "whole"
  BY DEF Whole, Fragment, Pieces
<1> DEFINE f == Leaves(stop, record, wasDirty)
           Fine == /\ f \in Seq(Seq(Pieces))
                   /\ \A i \in 1..Len(f) : \A x \in 1..Len(f[i]) : f[i][x].part = "whole" =>
                        f[i][x] = Whole(appends + 1, record) \/ Old(f[i][x])
<1>5. CASE stop \in {"nothing", "apart"}
  <2>1. f = file \/ f = apart
    BY <1>5 DEF Leaves, apart
  <2> HIDE DEF f
  <2>2. \A i \in 1..Len(file) : \A x \in 1..Len(file[i]) : Old(file[i][x])
    BY DEF Old
  <2>3. Fine
    BY <1>1, <2>1, <2>2
  <2> QED BY <2>3 DEF f
<1>6. CASE stop \in {"torn", "cut"}
  <2>1. f = Onto(apart, Fragment(stop)) /\ Fragment(stop) \in Pieces /\ Fragment(stop).part # "whole"
    BY <1>4, <1>6 DEF Leaves, apart
  <2>2. New(f, Fragment(stop))
    BY <1>2, <2>1
  <2> HIDE DEF f
  <2>3. Fine
    BY <2>1, <2>2 DEF New
  <2> QED BY <2>3 DEF f
<1>7. CASE stop \in {"unended", "done"}
  <2> DEFINE w == Whole(appends + 1, record)
  <2>1. f = Onto(apart, w) \/ f = Append(Onto(apart, w), <<>>)
    BY <1>7 DEF Leaves, apart
  <2>2. New(Onto(apart, w), w)
    BY <1>2, <1>4
  <2>3. New(f, w)
    <3> HIDE DEF f, w
    <3> QED BY <1>3, <2>1, <2>2
  <2> HIDE DEF f
  <2>4. Fine
    BY <2>3 DEF New
  <2> QED BY <2>4 DEF f
<1> QED BY <1>5, <1>6, <1>7 DEF Stops

-----------------------------------------------------------------------------
(* What load() makes of the file.                                           *)

\* What parses is a record of the file, and later lines have later records.
LEMMA ReadsRecords ==
    ASSUME Inv, FileTyped
    PROVE  /\ Len(Lines) \in Nat
           /\ \A k \in 1..Len(Lines) : Parses(Lines[k]) =>
                /\ Lines[k][1].record \in Records
                /\ IsItem(Lines[k][1].record) =>
                     Lines[k][1] \in Said /\ Lines[k][1].record \in Items
           /\ \A k, l \in 1..Len(Lines) : k < l /\ Parses(Lines[k]) /\ Parses(Lines[l]) =>
                Lines[k][1].n < Lines[l][1].n
<1>1. /\ Len(Lines) \in Nat /\ Len(file) \in Nat /\ Len(Lines) <= Len(file)
      /\ \A k \in 1..Len(Lines) : Lines[k] = file[k]
  BY LinesAreThere DEF Inv
<1>2. ASSUME NEW k \in 1..Len(Lines), Parses(Lines[k])
      PROVE  /\ k \in 1..Len(file) /\ 1 \in 1..Len(file[k])
             /\ Lines[k][1] = file[k][1] /\ file[k][1] \in Pieces /\ file[k][1].part = "whole"
  <2>1. k \in 1..Len(file) /\ file[k] \in Seq(Pieces) /\ Lines[k] = file[k]
    BY <1>1, ElementOfSeq DEF FileTyped
  <2>2. Len(file[k]) = 1 /\ file[k][1].part = "whole"
    BY <1>2, <2>1 DEF Parses
  <2> QED BY <2>1, <2>2, ElementOfSeq
<1>3. ASSUME NEW p \in Pieces, p.part = "whole"
      PROVE  p.record \in Records /\ (IsItem(p.record) => p.record \in Items)
  <2>1. p.record \in Records
    BY <1>3 DEF Pieces, Fragment
  <2>2. Header.id = 0 /\ Resumed.id = 0 /\ TurnEnded.id = 0
    BY DEF Header, Resumed, TurnEnded
  <2> QED BY <2>1, <2>2 DEF Records, IsItem
<1>4. ASSUME NEW k \in 1..Len(Lines), Parses(Lines[k]), IsItem(Lines[k][1].record)
      PROVE  Lines[k][1] \in Said
  <2>1. file[k][1] \in {file[k][x] : x \in 1..Len(file[k])} /\ k \in 1..Len(file)
    BY <1>2, <1>4
  <2>2. file[k][1] \in UNION {{file[i][x] : x \in 1..Len(file[i])} : i \in 1..Len(file)}
    BY <2>1, Zenon
  <2>3. file[k][1].part = "whole" /\ IsItem(file[k][1].record) /\ Lines[k][1] = file[k][1]
    BY <1>2, <1>4
  <2> QED BY <2>2, <2>3, Zenon DEF Said
<1>5. ASSUME NEW k \in 1..Len(Lines), NEW l \in 1..Len(Lines), k < l,
             Parses(Lines[k]), Parses(Lines[l])
      PROVE  Lines[k][1].n < Lines[l][1].n
  <2>1. /\ k \in 1..Len(file) /\ l \in 1..Len(file) /\ 1 \in 1..Len(file[k]) /\ 1 \in 1..Len(file[l])
        /\ file[k][1].part = "whole" /\ file[l][1].part = "whole"
        /\ Lines[k][1] = file[k][1] /\ Lines[l][1] = file[l][1]
    BY <1>2, <1>5
  <2> QED BY <1>5, <2>1 DEF Inv, Ordered
<1> QED BY <1>1, <1>2, <1>3, <1>4, <1>5

\* Reading m lines gives the items they speak of, in the order they first do,
\* once each, and with the answer where there is one.
Holds(items, m) ==
    /\ items \in Seq(Items)
    /\ \A j \in 1..Len(items) : \E k \in 1..m : Parses(Lines[k]) /\ Lines[k][1].record = items[j]
    /\ \A i, j \in 1..Len(items) : i < j =>
         items[i].id # items[j].id /\ StepOf(items[i].id) <= StepOf(items[j].id)
    /\ \A k \in 1..m : Parses(Lines[k]) /\ IsItem(Lines[k][1].record) =>
         \E j \in 1..Len(items) :
           /\ items[j].id = Lines[k][1].record.id
           /\ Lines[k][1].record.status = "ok" => items[j] = Lines[k][1].record

\* Nothing an item's line says is undone by a line behind it.
LEMMA ReadsOneMore ==
    ASSUME Inv, FileTyped, InSteps, NEW m \in 0..(Len(Lines) - 1), NEW items, Holds(items, m)
    PROVE  Holds(After(items, Lines[m + 1]), m + 1)
<1> DEFINE line == Lines[m + 1]
           record == line[1].record
<1>1. /\ Len(Lines) \in Nat /\ m \in Nat /\ m + 1 \in 1..Len(Lines)
      /\ \A k \in 1..(m + 1) : k \in 1..Len(Lines) /\ (k \in 1..m \/ k = m + 1)
      /\ \A k \in 1..m : k \in 1..(m + 1) /\ k < m + 1
  <2>1. Len(Lines) \in Nat
    BY ReadsRecords
  <2> QED BY <2>1
<1>2. items \in Seq(Items) /\ Len(items) \in Nat
  BY LenProperties DEF Holds
<1>3. CASE ~(Parses(line) /\ IsItem(record))
  <2>1. After(items, line) = items
    BY <1>3 DEF After, Folded
  <2>2. \A k \in 1..(m + 1) : Parses(Lines[k]) /\ IsItem(Lines[k][1].record) => k \in 1..m
    BY <1>1, <1>3
  <2> HIDE DEF line
  <2>3. /\ \A j \in 1..Len(items) :
             \E k \in 1..(m + 1) : Parses(Lines[k]) /\ Lines[k][1].record = items[j]
        /\ \A k \in 1..(m + 1) : Parses(Lines[k]) /\ IsItem(Lines[k][1].record) =>
             \E j \in 1..Len(items) :
               /\ items[j].id = Lines[k][1].record.id
               /\ Lines[k][1].record.status = "ok" => items[j] = Lines[k][1].record
    BY <1>1, <2>2 DEF Holds
  <2> QED BY <1>2, <2>1, <2>3 DEF Holds, line
<1>4. CASE Parses(line) /\ IsItem(record)
  <2>1. /\ line[1] \in Said /\ record \in Items
        /\ \A k \in 1..m : Parses(Lines[k]) => Lines[k][1].n < line[1].n
        /\ \A k \in 1..m : Parses(Lines[k]) /\ IsItem(Lines[k][1].record) => Lines[k][1] \in Said
    BY <1>1, <1>4, ReadsRecords
  <2>2. \A k \in 1..m : Parses(Lines[k]) /\ IsItem(Lines[k][1].record) =>
          /\ StepOf(Lines[k][1].record.id) <= StepOf(record.id)
          /\ Lines[k][1].record.status = "ok" => Lines[k][1].record.id # record.id
    BY <2>1 DEF InSteps
  <2>3. \A j \in 1..Len(items) : items[j] \in Items /\ IsItem(items[j])
    <3>1. \A j \in 1..Len(items) : items[j] \in Items
      BY <1>2, ElementOfSeq
    <3> QED BY <3>1 DEF Items, IsItem
  <2>4. \A j \in 1..Len(items) : StepOf(items[j].id) <= StepOf(record.id)
    <3> SUFFICES ASSUME NEW j \in 1..Len(items) PROVE StepOf(items[j].id) <= StepOf(record.id)
      OBVIOUS
    <3>1. PICK k \in 1..m : Parses(Lines[k]) /\ Lines[k][1].record = items[j]
      BY DEF Holds
    <3> QED BY <2>2, <2>3, <3>1
  <2> HIDE DEF line
  <2>5. CASE \E j \in 1..Len(items) : items[j].id = record.id
    <3> DEFINE next == [k \in 1..Len(items) |-> IF items[k].id = record.id THEN record ELSE items[k]]
    <3>1. After(items, Lines[m + 1]) = next
      BY <1>4, <2>5 DEF After, Folded, Replaced, line
    <3>2. next \in Seq(Items) /\ Len(next) = Len(items)
      BY <1>2, <2>1, <2>3
    <3>3. \A j \in 1..Len(items) :
            /\ next[j] = IF items[j].id = record.id THEN record ELSE items[j]
            /\ next[j].id = items[j].id
      OBVIOUS
    <3> HIDE DEF next
    <3>4. \A j \in 1..Len(next) :
            \E k \in 1..(m + 1) : Parses(Lines[k]) /\ Lines[k][1].record = next[j]
      <4> SUFFICES ASSUME NEW j \in 1..Len(items)
                   PROVE  \E k \in 1..(m + 1) : Parses(Lines[k]) /\ Lines[k][1].record = next[j]
        BY <3>2
      <4>1. CASE next[j] = record
        BY <1>1, <1>4, <4>1 DEF line
      <4>2. CASE next[j] = items[j]
        BY <1>1, <4>2 DEF Holds
      <4> QED BY <3>3, <4>1, <4>2
    <3>5. \A i, j \in 1..Len(next) : i < j =>
            next[i].id # next[j].id /\ StepOf(next[i].id) <= StepOf(next[j].id)
      BY <3>2, <3>3 DEF Holds
    <3>6. ASSUME NEW k \in 1..(m + 1), Parses(Lines[k]), IsItem(Lines[k][1].record)
          PROVE  \E j \in 1..Len(next) :
                   /\ next[j].id = Lines[k][1].record.id
                   /\ Lines[k][1].record.status = "ok" => next[j] = Lines[k][1].record
      <4>1. CASE k = m + 1
        <5>1. PICK j \in 1..Len(items) : items[j].id = record.id
          BY <2>5
        <5> QED BY <3>2, <3>3, <4>1, <5>1 DEF line
      <4>2. CASE k \in 1..m
        <5>1. PICK j \in 1..Len(items) :
                /\ items[j].id = Lines[k][1].record.id
                /\ Lines[k][1].record.status = "ok" => items[j] = Lines[k][1].record
          BY <3>6, <4>2 DEF Holds
        <5>2. Lines[k][1].record.status = "ok" => Lines[k][1].record.id # record.id
          BY <2>2, <3>6, <4>2
        <5> QED BY <3>2, <3>3, <5>1, <5>2
      <4> QED BY <1>1, <4>1, <4>2
    <3> QED BY <3>1, <3>2, <3>4, <3>5, <3>6 DEF Holds
  <2>6. CASE ~\E j \in 1..Len(items) : items[j].id = record.id
    <3> DEFINE next == Append(items, record)
    <3>1. After(items, Lines[m + 1]) = next
      BY <1>4, <2>6 DEF After, Folded, Replaced, line
    <3>2. /\ next \in Seq(Items) /\ Len(next) = Len(items) + 1 /\ next[Len(items) + 1] = record
          /\ \A j \in 1..Len(items) : next[j] = items[j]
      BY <1>2, <2>1, AppendProperties
    <3> HIDE DEF next
    <3>3. \A j \in 1..Len(next) : j \in 1..Len(items) \/ j = Len(items) + 1
      BY <1>2, <3>2
    <3>4. \A j \in 1..Len(next) :
            \E k \in 1..(m + 1) : Parses(Lines[k]) /\ Lines[k][1].record = next[j]
      <4> SUFFICES ASSUME NEW j \in 1..Len(next)
                   PROVE  \E k \in 1..(m + 1) : Parses(Lines[k]) /\ Lines[k][1].record = next[j]
        OBVIOUS
      <4>1. CASE j = Len(items) + 1
        BY <1>1, <1>4, <3>2, <4>1 DEF line
      <4>2. CASE j \in 1..Len(items)
        BY <1>1, <3>2, <4>2 DEF Holds
      <4> QED BY <3>3, <4>1, <4>2
    <3>5. ASSUME NEW i \in 1..Len(next), NEW j \in 1..Len(next), i < j
          PROVE  next[i].id # next[j].id /\ StepOf(next[i].id) <= StepOf(next[j].id)
      <4>1. i \in 1..Len(items)
        BY <1>2, <3>2, <3>5
      <4>2. CASE j \in 1..Len(items)
        BY <3>2, <3>5, <4>1, <4>2 DEF Holds
      <4>3. CASE j = Len(items) + 1
        BY <2>4, <2>6, <3>2, <4>1, <4>3
      <4> QED BY <3>3, <4>2, <4>3
    <3>6. ASSUME NEW k \in 1..(m + 1), Parses(Lines[k]), IsItem(Lines[k][1].record)
          PROVE  \E j \in 1..Len(next) :
                   /\ next[j].id = Lines[k][1].record.id
                   /\ Lines[k][1].record.status = "ok" => next[j] = Lines[k][1].record
      <4>1. CASE k = m + 1
        <5>1. Len(items) + 1 \in 1..Len(next)
          BY <1>2, <3>2
        <5> QED BY <3>2, <4>1, <5>1 DEF line
      <4>2. CASE k \in 1..m
        <5>1. PICK j \in 1..Len(items) :
                /\ items[j].id = Lines[k][1].record.id
                /\ Lines[k][1].record.status = "ok" => items[j] = Lines[k][1].record
          BY <3>6, <4>2 DEF Holds
        <5>2. j \in 1..Len(next)
          BY <1>2, <3>2
        <5> QED BY <3>2, <5>1, <5>2
      <4> QED BY <1>1, <4>1, <4>2
    <3> QED BY <3>1, <3>2, <3>4, <3>5, <3>6 DEF Holds
  <2> QED BY <2>5, <2>6
<1> QED BY <1>3, <1>4

\* And so it is for the whole file: there is no first line where it fails.
LEMMA ReadsAll ==
    ASSUME Inv, FileTyped, InSteps
    PROVE  Holds(Unrepaired, Len(Lines))
<1> DEFINE Failing == {m \in 0..Len(Lines) : ~Holds(ItemsAfter[m], m)}
<1>1. Len(Lines) \in Nat
  BY ReadsRecords
<1>2. Holds(ItemsAfter[0], 0)
  <2>1. ItemsAfter[0] = <<>> /\ <<>> \in Seq(Items) /\ Len(<<>>) = 0
    BY <1>1, ReadingLines, EmptySeq
  <2>2. 1..0 = {}
    OBVIOUS
  <2> QED BY <2>1, <2>2 DEF Holds
<1>3. Failing = {}
  <2> SUFFICES ASSUME Failing # {} PROVE FALSE
    OBVIOUS
  <2>1. PICK m \in Failing : \A j \in Failing : m <= j
    <3>1. Failing \in SUBSET Nat
      BY <1>1
    <3> HIDE DEF Failing
    <3> QED BY <3>1, FirstOf
  <2>2. m \in 1..Len(Lines) /\ m - 1 \in 0..(Len(Lines) - 1) /\ m - 1 + 1 = m
    BY <1>1, <1>2, <2>1
  <2>3. m - 1 \notin Failing /\ m - 1 \in 0..Len(Lines)
    BY <1>1, <2>1, <2>2
  <2>4. Holds(ItemsAfter[m - 1], m - 1)
    BY <2>3, Zenon
  <2>5. Holds(After(ItemsAfter[m - 1], Lines[m]), m)
    <3>1. Holds(After(ItemsAfter[m - 1], Lines[m - 1 + 1]), m - 1 + 1)
      BY ONLY <2>2, <2>4, ReadsOneMore, Inv, FileTyped, InSteps
    <3> QED BY <2>2, <3>1
  <2>6. ItemsAfter[m] = After(ItemsAfter[m - 1], Lines[m])
    BY <1>1, <2>2, ReadingLines
  <2>7. ~Holds(ItemsAfter[m], m)
    BY <2>1, Zenon
  <2> QED BY <2>5, <2>6, <2>7
<1>4. Len(Lines) \in 0..Len(Lines) /\ Len(Lines) \notin Failing
  BY <1>1, <1>3
<1> QED BY <1>4, Zenon DEF Unrepaired

-----------------------------------------------------------------------------
(* What the session adds to the file.                                       *)

\* The records of items that are read have the numbers of appends that were.
LEMMA SaidTyped ==
    ASSUME Inv, FileTyped
    PROVE  \A p \in Said : p.n \in 1..appends /\ p.record \in Items
<1> SUFFICES ASSUME NEW p \in Said PROVE p.n \in 1..appends /\ p.record \in Items
  OBVIOUS
<1>1. PICK i \in 1..Len(file) : \E x \in 1..Len(file[i]) : p = file[i][x]
  BY Zenon DEF Said
<1>2. p.part = "whole" /\ IsItem(p.record)
  BY DEF Said
<1>3. file[i] \in Seq(Pieces)
  BY ElementOfSeq DEF FileTyped
<1>4. p \in Pieces
  BY <1>1, <1>3, ElementOfSeq
<1>5. p.record \in Records
  BY <1>2, <1>4 DEF Pieces, Fragment
<1>6. Header.id = 0 /\ Resumed.id = 0 /\ TurnEnded.id = 0
  BY DEF Header, Resumed, TurnEnded
<1>7. p.record \in Items
  BY <1>2, <1>5, <1>6 DEF Records, IsItem
<1>8. p.n \in 1..appends
  BY <1>1, <1>2 DEF Inv, Ordered
<1> QED BY <1>7, <1>8

\* A write leaves what was said, and at most the record it was given.
LEMMA WriteSays ==
    ASSUME Inv, FileTyped, NEW record \in Records, NEW stop \in Stops,
           NEW wasDirty \in BOOLEAN, Write(record, stop, wasDirty)
    PROVE  /\ file' \in Seq(Seq(Pieces)) /\ dirty' \in BOOLEAN /\ appends' \in 0..MaxAppends
           /\ acked' \subseteq [n : 1..MaxAppends, record : Items]
           /\ \A p \in Said' : p \in Said \/ (IsItem(record) /\ p = Whole(appends + 1, record))
<1>1. /\ appends < MaxAppends /\ appends' = appends + 1 /\ dirty' = (stop # "done")
      /\ file' = Leaves(stop, record, wasDirty)
      /\ acked' = IF stop = "done" /\ IsItem(record)
                  THEN acked \union {[n |-> appends + 1, record |-> record]} ELSE acked
  BY DEF Write, DirtyAfter
<1>2. /\ file' \in Seq(Seq(Pieces))
      /\ \A i \in 1..Len(file') : \A x \in 1..Len(file'[i]) : file'[i][x].part = "whole" =>
           file'[i][x] = Whole(appends + 1, record) \/ Old(file'[i][x])
  <2>1. file \in Seq(Seq(Pieces)) /\ appends \in Nat
    BY DEF FileTyped, Inv
  <2>2. /\ Leaves(stop, record, wasDirty) \in Seq(Seq(Pieces))
        /\ \A i \in 1..Len(Leaves(stop, record, wasDirty)) :
             \A x \in 1..Len(Leaves(stop, record, wasDirty)[i]) :
               Leaves(stop, record, wasDirty)[i][x].part = "whole" =>
                 \/ Leaves(stop, record, wasDirty)[i][x] = Whole(appends + 1, record)
                 \/ Old(Leaves(stop, record, wasDirty)[i][x])
    BY <2>1, WritesOne
  <2>3. file' = Leaves(stop, record, wasDirty)
    BY <1>1
  <2> QED BY <2>2, <2>3
<1>3. appends' \in 0..MaxAppends /\ appends + 1 \in 1..MaxAppends
  BY <1>1, Bounds DEF FileTyped
<1>4. IsItem(record) => record \in Items
  <2>1. Header.id = 0 /\ Resumed.id = 0 /\ TurnEnded.id = 0
    BY DEF Header, Resumed, TurnEnded
  <2> QED BY <2>1 DEF Records, IsItem
<1>5. acked' \subseteq [n : 1..MaxAppends, record : Items]
  BY <1>1, <1>3, <1>4 DEF FileTyped
<1>6. ASSUME NEW p \in Said'
      PROVE  p \in Said \/ (IsItem(record) /\ p = Whole(appends + 1, record))
  <2>1. PICK i \in 1..Len(file') : \E x \in 1..Len(file'[i]) : p = file'[i][x]
    BY <1>6, Zenon DEF Said
  <2>2. p.part = "whole" /\ IsItem(p.record)
    BY <1>6 DEF Said
  <2>3. CASE p = Whole(appends + 1, record)
    BY <2>2, <2>3 DEF Whole
  <2>4. CASE Old(p)
    <3>1. PICK j \in 1..Len(file) : \E y \in 1..Len(file[j]) : p = file[j][y]
      BY <2>4 DEF Old
    <3>2. p \in {file[j][z] : z \in 1..Len(file[j])}
      BY <3>1
    <3> QED BY <2>2, <3>2 DEF Said
  <2> QED BY <1>2, <2>1, <2>2, <2>3, <2>4
<1> QED BY <1>1, <1>2, <1>3, <1>5, <1>6

\* The same of what a running session records, or cannot.
LEMMA RecordSays ==
    ASSUME Inv, FileTyped, NEW record \in Records, Record(record)
    PROVE  /\ FileTyped'
           /\ \A p \in Said' : p \in Said \/ (IsItem(record) /\ p = Whole(appends + 1, record))
<1>1. CASE recording
  <2>1. PICK stop \in Stops : Write(record, stop, dirty)
    BY <1>1 DEF Record
  <2>2. UNCHANGED <<recording, seams>>
    BY <1>1 DEF Record
  <2>3. dirty \in BOOLEAN /\ recording' \in BOOLEAN
    BY <2>2, Zenon DEF FileTyped
  <2>4. /\ file' \in Seq(Seq(Pieces)) /\ dirty' \in BOOLEAN /\ appends' \in 0..MaxAppends
        /\ acked' \subseteq [n : 1..MaxAppends, record : Items]
        /\ \A p \in Said' : p \in Said \/ (IsItem(record) /\ p = Whole(appends + 1, record))
    BY <2>1, <2>3, WriteSays
  <2>5. seams' \subseteq 1..(MaxAppends + 1)
    BY <2>2 DEF FileTyped
  <2>6. FileTyped'
    BY <2>3, <2>4, <2>5 DEF FileTyped
  <2> QED BY <2>4, <2>6
<1>2. CASE ~recording
  <2>1. UNCHANGED fileVars
    BY <1>2 DEF Record
  <2>2. FileTyped'
    BY <2>1, Zenon DEF FileTyped, fileVars
  <2>3. Said' = Said
    BY <2>1 DEF Said, fileVars
  <2> QED BY <2>2, <2>3
<1> QED BY <1>1, <1>2

\* The ids and the messages counted by them.
LEMMA Counting ==
    ASSUME SessionTyped
    PROVE  /\ nextId \in Nat /\ texts \in SUBSET Nat /\ IsFiniteSet(texts)
           /\ IsFiniteSet(texts \union {nextId})
           /\ session \in Seq(Items) /\ Len(session) \in Nat
           /\ \A k \in 1..Len(session) : session[k] \in Items /\ session[k].id \in Nat \ {0}
<1>1. texts \subseteq 1..MaxAppends /\ nextId \in 1..(MaxAppends + 1)
  BY DEF SessionTyped
<1>2. IsFiniteSet(1..MaxAppends)
  BY Bounds, FS_Interval
<1>3. IsFiniteSet(texts)
  BY <1>1, <1>2, FS_Subset
<1>4. \A t \in texts : t \in Nat
  BY <1>1
<1>5. nextId \in Nat
  BY <1>1
<1>6. IsFiniteSet(texts \union {nextId})
  BY <1>3, FS_AddElement
<1>7. session \in Seq(Items) /\ Len(session) \in Nat
  BY LenProperties DEF SessionTyped
<1>8. \A k \in 1..Len(session) : session[k] \in Items
  BY <1>7, ElementOfSeq
<1> QED BY <1>3, <1>4, <1>5, <1>6, <1>7, <1>8 DEF Items

\* A new record is of the last step, and its item has had no answer yet.
LEMMA StepsGo ==
    ASSUME Inv, FileTyped, SessionTyped, InSteps, SessionInv,
           texts' = texts \/ texts' = texts \union {nextId},
           \A p \in Said' : p \in Said \/
             /\ p.n = appends + 1
             /\ StepIn(texts', p.record.id) = Cardinality(texts')
             /\ \A q \in Said : q.record.status = "ok" => q.record.id # p.record.id
    PROVE  InSteps'
<1>1. /\ texts \in SUBSET Nat /\ IsFiniteSet(texts)
      /\ texts' \in SUBSET Nat /\ IsFiniteSet(texts') /\ nextId \in Nat
  BY Counting
<1>2. ASSUME NEW p \in Said
      PROVE  /\ p.n \in 1..appends /\ p.record.id \in Nat
             /\ StepIn(texts', p.record.id) = StepIn(texts, p.record.id)
             /\ StepIn(texts', p.record.id) <= Cardinality(texts')
  <2>1. p.n \in 1..appends /\ p.record \in Items /\ p.record.id < nextId
    BY SaidTyped DEF SessionInv
  <2>2. p.record.id \in Nat
    BY <2>1 DEF Items
  <2>3. StepIn(texts', p.record.id) = StepIn(texts, p.record.id)
    BY <1>1, <2>1, <2>2, StepsCount
  <2> QED BY <1>1, <2>1, <2>2, <2>3, StepsCount
<1> SUFFICES ASSUME NEW p \in Said', NEW q \in Said', p.n < q.n
             PROVE  /\ StepIn(texts', p.record.id) <= StepIn(texts', q.record.id)
                    /\ p.record.status = "ok" => p.record.id # q.record.id
  BY DEF InSteps, StepOf
<1>3. appends \in Nat
  BY DEF Inv
<1>4. p \in Said
  BY <1>2, <1>3
<1>5. CASE q \in Said
  BY <1>2, <1>4, <1>5 DEF InSteps, StepOf
<1>6. CASE q \notin Said
  BY <1>2, <1>4, <1>6
<1> QED BY <1>5, <1>6

\* What a process resumes from: a history, whatever was lost around it.
LEMMA LoadsHistory ==
    ASSUME HistInv
    PROVE  /\ Loaded \in Seq(Items) /\ Len(Loaded) \in Nat
           /\ \A k \in 1..Len(Loaded) :
                Loaded[k].status # "pending" /\ Loaded[k].id < nextId
           /\ \A j, k \in 1..Len(Loaded) : j < k =>
                /\ Loaded[j].id # Loaded[k].id
                /\ StepOf(Loaded[j].id) <= StepOf(Loaded[k].id)
           /\ \A a \in acked \ Missed : a.record.status = "ok" => a.record \in ToSet(Loaded)
<1>1. Holds(Unrepaired, Len(Lines)) /\ Inv /\ FileTyped
  BY ReadsAll DEF HistInv
<1>2. Unrepaired \in Seq(Items) /\ Len(Unrepaired) \in Nat
  BY <1>1, LenProperties DEF Holds
<1>3. \A k \in 1..Len(Unrepaired) : Unrepaired[k] \in Items
  BY <1>2, ElementOfSeq
<1>4. \A item \in Items :
        /\ Repaired(item) \in Items /\ Repaired(item).id = item.id
        /\ Repaired(item).status # "pending"
        /\ item.status = "ok" => Repaired(item) = item
  BY DEF Repaired, Items, Statuses
<1>5. /\ Loaded \in Seq(Items) /\ Len(Loaded) = Len(Unrepaired)
      /\ \A k \in 1..Len(Loaded) : Loaded[k] = Repaired(Unrepaired[k])
  <2>1. Loaded = [k \in 1..Len(Unrepaired) |-> Repaired(Unrepaired[k])]
    BY DEF Loaded
  <2>2. \A k \in 1..Len(Unrepaired) : Repaired(Unrepaired[k]) \in Items
    BY <1>3, <1>4
  <2> QED BY <1>2, <2>1, <2>2
<1>6. /\ Len(Lines) \in Nat /\ Len(file) \in Nat /\ Len(Lines) <= Len(file)
      /\ \A k \in 1..Len(Lines) : Lines[k] = file[k]
  BY <1>1, LinesAreThere DEF Inv
<1>7. ASSUME NEW k \in 1..Len(Loaded)
      PROVE  Loaded[k].status # "pending" /\ Loaded[k].id < nextId
  <2>1. k \in 1..Len(Unrepaired) /\ Unrepaired[k] \in Items
        /\ Loaded[k] = Repaired(Unrepaired[k])
    BY <1>3, <1>5
  <2>2. PICK l \in 1..Len(Lines) : Parses(Lines[l]) /\ Lines[l][1].record = Unrepaired[k]
    BY <1>1, <2>1 DEF Holds
  <2>3. IsItem(Unrepaired[k])
    BY <2>1 DEF Items, IsItem
  <2>4. Lines[l][1] \in Said
    BY <1>1, <2>2, <2>3, ReadsRecords
  <2>5. Unrepaired[k].id < nextId
    BY <2>2, <2>4 DEF HistInv, SessionInv
  <2> QED BY <1>4, <2>1, <2>5
<1>8. ASSUME NEW j \in 1..Len(Loaded), NEW k \in 1..Len(Loaded), j < k
      PROVE  /\ Loaded[j].id # Loaded[k].id
             /\ StepOf(Loaded[j].id) <= StepOf(Loaded[k].id)
  <2>1. Loaded[j].id = Unrepaired[j].id /\ Loaded[k].id = Unrepaired[k].id
    BY <1>3, <1>4, <1>5
  <2>2. j \in 1..Len(Unrepaired) /\ k \in 1..Len(Unrepaired)
    BY <1>5
  <2>3. /\ Unrepaired[j].id # Unrepaired[k].id
        /\ StepOf(Unrepaired[j].id) <= StepOf(Unrepaired[k].id)
    BY <1>1, <1>8, <2>2 DEF Holds
  <2> QED BY <2>1, <2>3
<1>9. ASSUME NEW a \in acked \ Missed, a.record.status = "ok"
      PROVE  a.record \in ToSet(Loaded)
  <2>1. a \in acked /\ a.n \in ReadNumbers /\ a.record \in Items
    BY <1>1 DEF Missed, FileTyped
  <2>2. PICK k \in 1..Len(Lines) : Parses(Lines[k]) /\ Lines[k][1].n = a.n
    BY <2>1 DEF ReadNumbers, ReadLines
  <2>3. PICK l \in 1..(Len(file) - 1) : file[l] # <<>> /\ file[l][Len(file[l])] = Whole(a.n, a.record)
    BY <1>1, <2>1 DEF Inv, Kept
  <2>4. /\ k \in 1..Len(file) /\ file[k] = Lines[k]
        /\ Len(file[k]) = 1 /\ 1 \in 1..Len(file[k]) /\ file[k][1].part = "whole" /\ file[k][1].n = a.n
    BY <1>6, <2>2 DEF Parses
  <2>5. l \in 1..Len(file) /\ file[l] \in Seq(Pieces)
    BY <1>1, <1>6, ElementOfSeq DEF FileTyped
  <2>6. /\ Len(file[l]) \in 1..Len(file[l])
        /\ file[l][Len(file[l])].part = "whole" /\ file[l][Len(file[l])].n = a.n
    BY <2>3, <2>5, EmptySeq DEF Whole
  <2>7. a.n \in Nat
    <3>1. a.n \in 1..appends /\ appends \in Nat
      BY <1>1, <2>1 DEF Inv
    <3> QED BY <3>1
  <2>8. ~(k < l)
    <3>1. k < l => a.n < a.n
      BY SMTT(30), <1>1, <2>4, <2>5, <2>6 DEF Inv, Ordered
    <3> QED BY <2>7, <3>1
  <2>9. ~(l < k)
    <3>1. l < k => a.n < a.n
      BY SMTT(30), <1>1, <2>4, <2>5, <2>6 DEF Inv, Ordered
    <3> QED BY <2>7, <3>1
  <2>10. k = l
    BY <2>4, <2>5, <2>8, <2>9
  <2>11. Lines[k][1].record = a.record /\ IsItem(a.record)
    BY <2>1, <2>3, <2>4, <2>10 DEF Whole, Items, IsItem
  <2>12. PICK j \in 1..Len(Unrepaired) : Unrepaired[j] = a.record
    BY <1>1, <1>9, <2>2, <2>11 DEF Holds
  <2>13. j \in 1..Len(Loaded) /\ Loaded[j] = a.record
    BY <1>4, <1>5, <1>9, <2>1, <2>12
  <2>14. DOMAIN Loaded = 1..Len(Loaded)
    BY <1>5, LenProperties
  <2> QED BY <2>13, <2>14 DEF ToSet
<1> QED BY <1>2, <1>5, <1>7, <1>8, <1>9

\* A new item has a new id and is of the last step: a message begins one, a
\* call belongs to the message before it.
LEMMA PushStep ==
    ASSUME HistInv, up, nextId <= MaxAppends, UNCHANGED <<up, lives>>,
           NEW r \in Items, r.id = nextId, r.status # "ok",
           session' = Append(session, r), Record(r), nextId' = nextId + 1,
           \/ /\ texts' = texts \union {nextId} /\ r.status # "pending"
              /\ \A k \in 1..Len(session) : session[k].status # "pending"
           \/ texts' = texts
    PROVE  Hist'
<1>1. /\ nextId \in Nat /\ texts \in SUBSET Nat /\ IsFiniteSet(texts)
      /\ texts' \in SUBSET Nat /\ IsFiniteSet(texts')
      /\ session \in Seq(Items) /\ Len(session) \in Nat
      /\ \A k \in 1..Len(session) : session[k] \in Items /\ session[k].id \in Nat
      /\ Inv /\ FileTyped /\ SessionTyped /\ InSteps /\ SessionInv
  <2>1. Inv /\ FileTyped /\ SessionTyped /\ InSteps /\ SessionInv
    BY DEF HistInv
  <2> QED BY <2>1, Counting
<1>2. /\ FileTyped'
      /\ \A p \in Said' : p \in Said \/ (p.n = appends + 1 /\ p.record = r)
  <2>1. r \in Records
    BY DEF Records
  <2>2. FileTyped' /\ \A p \in Said' : p \in Said \/ p = Whole(appends + 1, r)
    BY <1>1, <2>1, RecordSays
  <2> QED BY <2>2 DEF Whole
<1>3. \A p \in Said : p.record.id \in Nat /\ p.record.id < nextId
  BY <1>1, SaidTyped DEF SessionInv, Items
<1>4. StepIn(texts', nextId) = Cardinality(texts')
  <2>1. \A t \in texts' : t <= nextId
    <3>1. \A t \in texts : t \in Nat /\ t < nextId
      BY <1>1 DEF SessionInv
    <3> QED BY <1>1, <3>1
  <2> QED BY <1>1, <2>1, StepsCount
<1>5. InSteps'
  <2>1. texts' = texts \/ texts' = texts \union {nextId}
    OBVIOUS
  <2>2. \A p \in Said' : p \in Said \/
          /\ p.n = appends + 1
          /\ StepIn(texts', p.record.id) = Cardinality(texts')
          /\ \A q \in Said : q.record.status = "ok" => q.record.id # p.record.id
    BY <1>1, <1>2, <1>3, <1>4
  <2> QED BY <1>1, <2>1, <2>2, StepsGo
<1>6. /\ session' \in Seq(Items) /\ Len(session') = Len(session) + 1
      /\ session'[Len(session) + 1] = r
      /\ \A k \in 1..Len(session) : session'[k] = session[k]
  BY <1>1, AppendProperties
<1>7. \A k \in 1..Len(session') :
        \/ k \in 1..Len(session) /\ session'[k] = session[k]
        \/ k = Len(session) + 1 /\ session'[k] = r
  <2>1. \A k \in 1..Len(session') : k \in 1..Len(session) \/ k = Len(session) + 1
    BY <1>1, <1>6
  <2> QED BY <1>6, <2>1
<1>8. SessionTyped'
  <2>1. nextId' \in 1..(MaxAppends + 1) /\ texts' \subseteq 1..MaxAppends
    <3>1. nextId \in 1..MaxAppends
      BY <1>1, Bounds DEF SessionTyped
    <3> QED BY <1>1, <3>1, Bounds DEF SessionTyped
  <2>2. up' \in BOOLEAN /\ lives' \in 0..MaxLives
    BY <1>1, Zenon DEF SessionTyped
  <2> QED BY <1>6, <2>1, <2>2 DEF SessionTyped
<1>9. SessionInv'
  <2>1. \A p \in Said' : p.record.id < nextId'
    BY <1>1, <1>2, <1>3
  <2>2. \A t \in texts' : t < nextId'
    <3>1. \A t \in texts : t \in Nat /\ t < nextId
      BY <1>1 DEF SessionInv
    <3> QED BY <1>1, <3>1
  <2>3. \A k \in 1..Len(session) : session[k].id < nextId
    BY <1>1 DEF SessionInv
  <2>4. \A k \in 1..Len(session') : session'[k].id < nextId'
    BY <1>1, <1>7, <2>3
  <2>5. \A j, k \in 1..Len(session') : j # k => session'[j].id # session'[k].id
    <3> SUFFICES ASSUME NEW j \in 1..Len(session'), NEW k \in 1..Len(session'), j # k
                 PROVE  session'[j].id # session'[k].id
      OBVIOUS
    <3>1. CASE j \in 1..Len(session) /\ k \in 1..Len(session)
      BY <1>6, <3>1, <1>1 DEF SessionInv
    <3>2. CASE ~(j \in 1..Len(session) /\ k \in 1..Len(session))
      BY <1>1, <1>7, <2>3, <3>2
    <3> QED BY <3>1, <3>2
  <2>6. ASSUME NEW k \in 1..Len(session'), session'[k].status = "pending"
        PROVE  /\ StepIn(texts', session'[k].id) = Cardinality(texts')
               /\ \A p \in Said' : p.record.status = "ok" => p.record.id # session'[k].id
    <3>1. CASE session'[k] = r
      <4>1. \A p \in Said' : p.record.status = "ok" => p \in Said
        BY <1>2
      <4> QED BY <1>1, <1>3, <1>4, <3>1, <4>1
    <3>2. CASE k \in 1..Len(session) /\ session'[k] = session[k]
      <4>1. texts' = texts
        BY <2>6, <3>2
      <4>2. /\ StepIn(texts, session[k].id) = Cardinality(texts)
            /\ \A p \in Said : p.record.status = "ok" => p.record.id # session[k].id
        BY <1>1, <2>6, <3>2 DEF SessionInv, StepOf
      <4> QED BY <1>2, <3>2, <4>1, <4>2
    <3> QED BY <1>7, <3>1, <3>2
  <2>7. lives' # 0
    BY <1>1 DEF SessionInv
  <2> QED BY <2>1, <2>2, <2>4, <2>5, <2>6, <2>7 DEF SessionInv, StepOf
<1> QED BY <1>2, <1>5, <1>8, <1>9 DEF Hist

\* A call is settled while it is of the last step, and only once.
LEMMA SettleStep ==
    ASSUME HistInv, NEW k \in 1..Len(session), Settle(k)
    PROVE  Hist'
<1>1. PICK r : r = [session[k] EXCEPT !.status = "ok"]
  OBVIOUS
<1>2. /\ nextId \in Nat /\ texts \in SUBSET Nat /\ IsFiniteSet(texts)
      /\ session \in Seq(Items) /\ Len(session) \in Nat
      /\ \A j \in 1..Len(session) : session[j] \in Items /\ session[j].id \in Nat
      /\ Inv /\ FileTyped /\ SessionTyped /\ InSteps /\ SessionInv
  <2>1. Inv /\ FileTyped /\ SessionTyped /\ InSteps /\ SessionInv
    BY DEF HistInv
  <2> QED BY <2>1, Counting
<1>3. /\ up /\ session[k].status = "pending" /\ session' = [session EXCEPT ![k] = r] /\ Record(r)
      /\ UNCHANGED <<up, lives, nextId, texts>>
  BY <1>1 DEF Settle
<1>4. r \in Items /\ r.id = session[k].id /\ r.status = "ok"
  BY <1>1, <1>2 DEF Items, Statuses
<1>5. /\ StepIn(texts, r.id) = Cardinality(texts)
      /\ \A p \in Said : p.record.status = "ok" => p.record.id # r.id
  BY <1>2, <1>3, <1>4 DEF SessionInv, StepOf
<1>6. /\ FileTyped'
      /\ \A p \in Said' : p \in Said \/ (p.n = appends + 1 /\ p.record = r)
  <2>1. r \in Records
    BY <1>4 DEF Records
  <2>2. FileTyped' /\ \A p \in Said' : p \in Said \/ p = Whole(appends + 1, r)
    BY <1>2, <1>3, <2>1, RecordSays
  <2> QED BY <2>2 DEF Whole
<1>7. InSteps'
  <2>1. texts' = texts
    BY <1>3
  <2>2. \A p \in Said' : p \in Said \/
          /\ p.n = appends + 1
          /\ StepIn(texts', p.record.id) = Cardinality(texts')
          /\ \A q \in Said : q.record.status = "ok" => q.record.id # p.record.id
    BY <1>5, <1>6, <2>1
  <2> QED BY <1>2, <2>1, <2>2, StepsGo
<1>8. /\ session' \in Seq(Items) /\ Len(session') = Len(session)
      /\ \A j \in 1..Len(session) : session'[j] = IF j = k THEN r ELSE session[j]
  BY <1>2, <1>3, <1>4, ExceptSeq
<1>9. SessionTyped'
  <2>1. up' \in BOOLEAN
    BY <1>2, <1>3, Zenon DEF SessionTyped
  <2> QED BY <1>2, <1>3, <1>8, <2>1 DEF SessionTyped
<1>10. SessionInv'
  <2>1. \A j \in 1..Len(session) : session'[j].id = session[j].id
    BY <1>4, <1>8
  <2>2. ASSUME NEW j \in 1..Len(session'), session'[j].status = "pending"
        PROVE  /\ StepIn(texts', session'[j].id) = Cardinality(texts')
               /\ \A p \in Said' : p.record.status = "ok" => p.record.id # session'[j].id
    <3>1. j \in 1..Len(session) /\ j # k /\ session'[j] = session[j]
      BY <1>4, <1>8, <2>2
    <3>2. r.id # session[j].id
      BY <1>2, <1>4, <3>1 DEF SessionInv
    <3>3. /\ StepIn(texts, session[j].id) = Cardinality(texts)
          /\ \A p \in Said : p.record.status = "ok" => p.record.id # session[j].id
      BY <1>2, <1>3, <2>2, <3>1 DEF SessionInv, StepOf
    <3> QED BY <1>3, <1>6, <3>1, <3>2, <3>3
  <2>3. \A p \in Said' : p.record.id < nextId'
    BY <1>2, <1>3, <1>4, <1>6 DEF SessionInv
  <2>4. \A t \in texts' : t < nextId'
    BY <1>2, <1>3 DEF SessionInv
  <2>5. /\ \A j \in 1..Len(session') : session'[j].id < nextId'
        /\ \A i, j \in 1..Len(session') : i # j => session'[i].id # session'[j].id
    BY <1>2, <1>3, <1>8, <2>1 DEF SessionInv
  <2>6. lives' # 0
    BY <1>2, <1>3 DEF SessionInv
  <2> QED BY <2>2, <2>3, <2>4, <2>5, <2>6 DEF SessionInv, StepOf
<1> QED BY <1>6, <1>7, <1>9, <1>10 DEF Hist

\* A process that opens the file has what load() made of it, and what it may
\* write first is not an item.
LEMMA OpenHist ==
    ASSUME HistInv, Create \/ ResumeUnrecorded \/ ResumeInteractive \/ ResumeSupervised
    PROVE  Hist'
<1>1. Inv /\ FileTyped /\ SessionTyped /\ InSteps /\ SessionInv
  BY DEF HistInv
<1>2. UNCHANGED <<nextId, texts>> /\ up' = TRUE
  BY DEF Create, Resume, ResumeUnrecorded, ResumeInteractive, ResumeSupervised
<1>3. ASSUME NEW record \in Records, ~IsItem(record), NEW stop \in Stops,
             Write(record, stop, FALSE), recording' = TRUE, UNCHANGED seams
      PROVE  FileTyped' /\ Said' \subseteq Said
  <2>1. /\ file' \in Seq(Seq(Pieces)) /\ dirty' \in BOOLEAN /\ appends' \in 0..MaxAppends
        /\ acked' \subseteq [n : 1..MaxAppends, record : Items]
        /\ \A p \in Said' : p \in Said
    BY <1>1, <1>3, WriteSays
  <2>2. seams' \subseteq 1..(MaxAppends + 1)
    BY <1>1, <1>3 DEF FileTyped
  <2> QED BY <1>3, <2>1, <2>2 DEF FileTyped
<1>4. FileTyped' /\ Said' \subseteq Said
  <2>1. CASE Create
    <3>1. ~IsItem(Header) /\ Header \in Records
      BY DEF IsItem, Header, Records
    <3>2. CASE recording' = FALSE /\ UNCHANGED <<file, dirty, appends, acked, seams>>
      <4>1. FileTyped'
        BY <1>1, <3>2, Zenon DEF FileTyped
      <4> QED BY <3>2, <4>1 DEF Said
    <3> QED BY <1>3, <2>1, <3>1, <3>2 DEF Create
  <2>2. CASE ResumeUnrecorded
    <3>1. recording' = FALSE /\ UNCHANGED <<file, dirty, appends, acked, seams>>
      BY <2>2 DEF ResumeUnrecorded
    <3>2. FileTyped'
      BY <1>1, <3>1, Zenon DEF FileTyped
    <3> QED BY <3>1, <3>2 DEF Said
  <2>3. CASE ResumeInteractive
    <3>1. ~IsItem(Resumed) /\ Resumed \in Records
      BY DEF IsItem, Resumed, Records
    <3> QED BY <1>3, <2>3, <3>1 DEF ResumeInteractive, ReopenedDirty
  <2>4. CASE ResumeSupervised
    <3>1. /\ recording' = TRUE /\ dirty' = FALSE /\ UNCHANGED <<file, appends, acked>>
          /\ seams' = seams \union {appends + 1}
      BY <2>4 DEF ResumeSupervised, ReopenedDirty
    <3>2. appends + 1 \in 1..(MaxAppends + 1)
      BY <1>1, Bounds DEF FileTyped
    <3>3. seams' \subseteq 1..(MaxAppends + 1)
      BY <1>1, <3>1, <3>2 DEF FileTyped
    <3>4. FileTyped'
      BY <1>1, <3>1, <3>3 DEF FileTyped
    <3> QED BY <3>1, <3>4 DEF Said
  <2> QED BY <2>1, <2>2, <2>3, <2>4
<1>5. lives' \in 0..MaxLives
  <2>1. CASE Create
    BY <2>1, Bounds DEF Create
  <2>2. CASE Resume
    BY <1>1, <2>2, Bounds DEF Resume, SessionTyped
  <2> QED BY <2>1, <2>2 DEF ResumeUnrecorded, ResumeInteractive, ResumeSupervised
<1>6. /\ session' \in Seq(Items)
      /\ \A k \in 1..Len(session') : session'[k].id < nextId
      /\ \A j, k \in 1..Len(session') : j # k => session'[j].id # session'[k].id
      /\ session' = session \/ \A k \in 1..Len(session') : session'[k].status # "pending"
  <2>1. CASE session' = session
    BY <1>1, <2>1 DEF SessionTyped, SessionInv
  <2>2. CASE session' = Loaded
    <3>1. /\ Loaded \in Seq(Items) /\ Len(Loaded) \in Nat
          /\ \A k \in 1..Len(Loaded) : Loaded[k].status # "pending" /\ Loaded[k].id < nextId
          /\ \A j, k \in 1..Len(Loaded) : j < k => Loaded[j].id # Loaded[k].id
      BY LoadsHistory
    <3>2. \A j, k \in 1..Len(Loaded) : j # k => j < k \/ k < j
      BY <3>1
    <3>3. \A j, k \in 1..Len(Loaded) : j # k => Loaded[j].id # Loaded[k].id
      BY <3>1, <3>2, Zenon
    <3> QED BY <2>2, <3>1, <3>3
  <2> QED BY <2>1, <2>2 DEF Create, Resume, ResumeUnrecorded, ResumeInteractive, ResumeSupervised
<1>7. SessionTyped'
  BY <1>1, <1>2, <1>5, <1>6 DEF SessionTyped
<1>8. InSteps'
  <2>1. texts' = texts /\ \A p \in Said' : p \in Said
    BY <1>2, <1>4
  <2> QED BY <1>1, <2>1, StepsGo
<1>9. \A k \in 1..Len(session') : session'[k].status # "pending"
  <2>1. CASE Create
    <3>1. session' = <<>> /\ Len(<<>>) = 0
      BY <1>1, <2>1, EmptySeq DEF Create, SessionInv
    <3> QED BY <3>1
  <2>2. CASE session' = Loaded
    BY <2>2, LoadsHistory
  <2> QED BY <2>1, <2>2 DEF Resume, ResumeUnrecorded, ResumeInteractive, ResumeSupervised
<1>10. SessionInv'
  <2>1. \A p \in Said' : p.record.id < nextId'
    BY <1>1, <1>2, <1>4 DEF SessionInv
  <2>2. \A t \in texts' : t < nextId'
    BY <1>1, <1>2 DEF SessionInv
  <2>3. lives' # 0
    <3>1. lives \in Nat
      BY <1>1, Bounds DEF SessionTyped
    <3>2. CASE Create
      BY <3>2 DEF Create
    <3>3. CASE Resume
      BY <3>1, <3>3 DEF Resume
    <3> QED BY <3>2, <3>3 DEF ResumeUnrecorded, ResumeInteractive, ResumeSupervised
  <2> QED BY <1>2, <1>6, <1>9, <2>1, <2>2, <2>3 DEF SessionInv
<1> QED BY <1>4, <1>7, <1>8, <1>10 DEF Hist

\* The invariant of the file and of the session that writes it: records follow
\* the steps, and what waits for its answer is of the last of them.
THEOREM HistHolds == Spec => []HistInv
<1>1. Init => Hist
  <2> SUFFICES ASSUME Init PROVE Hist
    OBVIOUS
  <2>1. /\ file = <<>> /\ dirty = FALSE /\ recording = FALSE /\ up = FALSE /\ session = <<>>
        /\ lives = 0 /\ appends = 0 /\ nextId = 1 /\ texts = {} /\ acked = {} /\ seams = {}
    BY DEF Init
  <2>2. <<>> \in Seq(Seq(Pieces)) /\ <<>> \in Seq(Items) /\ Len(<<>>) = 0
    BY EmptySeq
  <2>3. Said = {}
    BY <2>1, <2>2 DEF Said
  <2>4. 0 \in 0..MaxAppends /\ 0 \in 0..MaxLives /\ 1 \in 1..(MaxAppends + 1)
    BY Bounds
  <2>5. FileTyped /\ SessionTyped
    BY <2>1, <2>2, <2>4 DEF FileTyped, SessionTyped
  <2>6. InSteps /\ SessionInv
    BY <2>1, <2>2, <2>3 DEF InSteps, SessionInv
  <2> QED BY <2>5, <2>6 DEF Hist
<1>2. HistInv /\ [Next]_vars => Hist'
  <2> SUFFICES ASSUME HistInv, [Next]_vars PROVE Hist'
    OBVIOUS
  <2>1. Inv /\ FileTyped /\ SessionTyped /\ InSteps /\ SessionInv
    BY DEF HistInv
  <2>2. CASE Say
    <3>1. PICK r : r = [id |-> nextId, status |-> "said"]
      OBVIOUS
    <3>2. nextId \in Nat \ {0}
      BY <2>1, Bounds DEF SessionTyped
    <3>3. r \in Items /\ r.id = nextId /\ r.status # "ok" /\ r.status # "pending"
      BY <3>1, <3>2 DEF Items, Statuses
    <3>4. /\ up /\ nextId <= MaxAppends /\ UNCHANGED <<up, lives>>
          /\ \A k \in 1..Len(session) : session[k].status # "pending"
          /\ session' = Append(session, r) /\ Record(r)
          /\ texts' = texts \union {nextId} /\ nextId' = nextId + 1
      BY <2>2, <3>1 DEF Say
    <3> QED BY <3>3, <3>4, PushStep
  <2>3. CASE CallTool
    <3>1. PICK r : r = [id |-> nextId, status |-> "pending"]
      OBVIOUS
    <3>2. nextId \in Nat \ {0}
      BY <2>1, Bounds DEF SessionTyped
    <3>3. r \in Items /\ r.id = nextId /\ r.status # "ok"
      BY <3>1, <3>2 DEF Items, Statuses
    <3>4. /\ up /\ nextId <= MaxAppends /\ UNCHANGED <<up, lives>>
          /\ session' = Append(session, r) /\ Record(r)
          /\ texts' = texts /\ nextId' = nextId + 1
      BY <2>3, <3>1 DEF CallTool
    <3> QED BY <3>3, <3>4, PushStep
  <2>4. ASSUME NEW k \in 1..Len(session), Settle(k) PROVE Hist'
    BY <2>4, SettleStep
  <2>5. CASE EndTurn
    <3>1. /\ Record(TurnEnded) /\ UNCHANGED <<up, session, lives, nextId, texts>>
          /\ TurnEnded \in Records /\ ~IsItem(TurnEnded)
      BY <2>5 DEF EndTurn, TurnEnded, Records, IsItem
    <3>2. FileTyped' /\ \A p \in Said' : p \in Said
      BY <2>1, <3>1, RecordSays
    <3>3. SessionTyped'
      BY <2>1, <3>1, Zenon DEF SessionTyped
    <3>4. InSteps'
      BY <2>1, <3>1, <3>2, StepsGo
    <3>5. SessionInv'
      BY <2>1, <3>1, <3>2 DEF SessionInv, StepOf
    <3> QED BY <3>2, <3>3, <3>4, <3>5 DEF Hist
  <2>6. CASE Exit
    <3>1. /\ up /\ up' = FALSE /\ UNCHANGED <<session, lives, nextId, texts>>
          /\ UNCHANGED <<file, dirty, recording, appends, acked, seams>>
      BY <2>6 DEF Exit, fileVars
    <3>2. FileTyped' /\ Said' = Said
      <4>1. FileTyped'
        BY <2>1, <3>1, Zenon DEF FileTyped
      <4> QED BY <3>1, <4>1 DEF Said
    <3>3. SessionTyped'
      BY <2>1, <3>1 DEF SessionTyped
    <3>4. InSteps'
      BY <2>1, <3>1, <3>2, StepsGo
    <3>5. SessionInv'
      BY <2>1, <3>1, <3>2 DEF SessionInv
    <3> QED BY <3>2, <3>3, <3>4, <3>5 DEF Hist
  <2>7. CASE UNCHANGED vars
    <3>1. /\ UNCHANGED <<up, session, lives, nextId, texts>>
          /\ UNCHANGED <<file, dirty, recording, appends, acked, seams>>
      BY <2>7 DEF vars, fileVars
    <3>2. FileTyped' /\ Said' = Said
      <4>1. FileTyped'
        BY <2>1, <3>1, Zenon DEF FileTyped
      <4> QED BY <3>1, <4>1 DEF Said
    <3>3. SessionTyped'
      BY <2>1, <3>1, Zenon DEF SessionTyped
    <3>4. InSteps'
      BY <2>1, <3>1, <3>2, StepsGo
    <3>5. SessionInv'
      BY <2>1, <3>1, <3>2 DEF SessionInv, StepOf
    <3> QED BY <3>2, <3>3, <3>4, <3>5 DEF Hist
  <2> QED BY <2>2, <2>3, <2>4, <2>5, <2>6, <2>7, OpenHist DEF Next
<1>3. Inv /\ Hist <=> HistInv
  BY DEF Hist, HistInv
<1> QED BY <1>1, <1>2, <1>3, InvHolds, PTL DEF Spec

\* What a session keeps, what is in its file and what a load makes of it stay
\* what they are declared to be, whatever the file is torn into.
THEOREM SessionFileTypes == Spec => []TypeOK
<1>1. HistInv => TypeOK
  <2> SUFFICES ASSUME HistInv PROVE TypeOK
    OBVIOUS
  <2>1. FileTyped /\ SessionTyped
    BY DEF HistInv
  <2>2. {dirty, recording, up} \subseteq BOOLEAN
    <3>1. dirty \in BOOLEAN /\ recording \in BOOLEAN /\ up \in BOOLEAN
      BY <2>1, Zenon DEF FileTyped, SessionTyped
    <3> QED BY <3>1, Zenon
  <2>3. Loaded \in Seq(Items)
    BY LoadsHistory
  <2> QED BY <2>1, <2>2, <2>3 DEF TypeOK, FileTyped, SessionTyped
<1> QED BY <1>1, HistHolds, PTL

\* What a process resumes from is a history: every item once, in the order of
\* the steps, no call without an answer, and every answer whose write worked
\* and that can be read is the one its call has.
THEOREM HistoryComesBack == Spec => []HistoryIsRead
<1>1. HistInv => HistoryIsRead
  <2> SUFFICES ASSUME HistInv PROVE HistoryIsRead
    OBVIOUS
  <2>1. HistoryInOrder
    BY LoadsHistory DEF HistoryInOrder, StepOf, StepIn
  <2>2. AnswersAreRead
    BY LoadsHistory DEF AnswersAreRead
  <2> QED BY <2>1, <2>2 DEF HistoryIsRead
<1> QED BY <1>1, HistHolds, PTL

=============================================================================
