---------------------------- MODULE MCAgentParts ----------------------------
(***************************************************************************)
(* What a turn is made of, side by side: the launch before it, the request *)
(* built from the transcript, the credential it is sent with, the answer   *)
(* read from the wire, the policy and the tools that carry its calls out,  *)
(* and the terminal a person answers on.  The components share no state; a *)
(* behaviour runs one of them.                                             *)
(***************************************************************************)
EXTENDS Naturals, Sequences, SequencesExt, NaturalsInduction, WellFoundedInduction, TLAPS

CONSTANTS
    Models, FirstModel,                               \* what a session is asked under
    Window, MaxItems, MaxSwitches,                    \* Projection
    MaxBytes, MaxChunk, MaxBlocks,                    \* Framing and Decoders
    Processes, Senders, Tasks,                        \* Auth: processes, those that send, their requests
    MaxPairs, MaxFiles, MaxSaves,                     \* and what they use up
    Commands, Patterns, Strings,                      \* Permission: commands, rules, and what is matched
    MaxCalls, Kids,                                   \* Permission and Tools
    Limit, MaxFileBytes, MaxResults,                  \* Tools
    Sessions,                                         \* Launch: the session files
    Services, MaxTurns, MaxAsks, MaxListings          \* Tui

VARIABLES
    part,   \* the component this behaviour runs
    transcript, recorded, owner, model, elisions, projectionPhase,
    projectionRequest, forced, switches,
    fed, buf, framingPending, frames, closed,
    dialect, decodersAnswer, script, dec, decodersPending, state,
    decodersCancelled, error, taken,
    authDisk, auth, temp, save, held, lock, task, redeemable, issued, expired,
    port, saves, overlapped,
    deny, allow, grants, unattended, plan, verdict, permissionAsked, glob,
    opened, permissionCalls,
    tool, pc, group, holders, toolsCancelled, walk, toolsAnswer, spill,
    toolsCalls,
    launchRequest, launchDisk, launchPhase, confined, provider, session,
    launchAsked, recorder, notices, told, resumedOnFile,
    mode, agent, pair, turn, tuiCancelled, tuiPending, listings, unproven,
    offers, signin, armed, leaving, up, answers, proofs, saved, listed

(* ---- commands and rules: plain, quoted, compound, with assignments ---- *)

ShellCommands == {<<w>> : w \in {"git", ".ENV", "A=b", "meta", "quote"}} \union
    {<<"git", "-x">>, <<"git", ".ENV">>, <<"A=b", "git">>, <<"quote", "git", "quote">>, <<"git", "quote">>,
     <<"git", "meta", "cat">>, <<"meta", "git">>, <<"cat", "quote", ".env", "quote">>, <<"git", "meta", "cat", ".env">>}
Rules == {<<"*">>, <<"bash", "git">>, <<"bash", "?">>}
Names == SeqOf({"a", "b", "*"}, 3) \union {<<"?", "*", "b">>, <<"a", "b", "a", "b">>}

(* ---- a workspace "r" with two links, l and d/m, beside an outside "o" ---- *)

Dir == [type |-> "dir", to |-> <<>>]
Link(to) == [type |-> "link", to |-> to]
Tree(l, m) == [p \in {<<>>, <<"r">>, <<"o">>, <<"r", "d">>, <<"r", "l">>, <<"r", "d", "m">>} |->
                 IF p = <<"r", "l">> THEN Link(l) ELSE IF p = <<"r", "d", "m">> THEN Link(m) ELSE Dir]
Targets == {<<"r">>, <<"o">>, <<"o", "new">>, <<"r", "new">>, <<"r", "d", "m">>, <<"r", "l", "..", "..", "o">>, <<"r", "new", "..", "..", "o">>, <<"r", "l">>}
\* A link to a link that names nothing is left out: see StaysInside.
FileTrees == {Tree(l, m) : l \in Targets \ {<<"r", "d", "m">>}, m \in Targets \ {<<"r", "l">>}}
             \union {Tree(<<"r", "d", "m">>, m) : m \in {<<"r">>, <<"o">>}}
             \union {Tree(l, <<"r", "l">>) : l \in {<<"r">>, <<"o">>}}
Paths == {p \in SeqOf({"d", "l", "m", "new", ".."}, 3) : p # <<>>}

(* ---- outputs with wide characters, escapes and damage; files to walk ---- *)

Outputs == {<<>>, <<"x", "x">>, <<"x", "w", "n", "x", "w", "x", "n", "x">>, <<"w", "w", "w", "w">>,
            <<"x", "esc", "[", "w", "x", "w", "cr", "x">>, <<"esc", "]", "x", "bel", "x", "cr", "n", "esc", "x">>, <<"x", "bad">>}
Found(hits, readable) == [hits |-> hits, readable |-> readable]
Walks == {<<>>, <<Found(1, TRUE), Found(2, FALSE), Found(2, TRUE)>>, <<Found(3, TRUE), Found(1, TRUE)>>, <<Found(2, TRUE), Found(0, TRUE)>>}

\* The second call meets what the first was granted.
Permission == INSTANCE Permission WITH
    Trees <- FileTrees, asked <- permissionAsked, calls <- permissionCalls

\* Names and commands are sequences of tokens.
ASSUME TokenSequences == Strings \subseteq Seq(STRING) /\ Commands \subseteq Seq(STRING)

(* ---- the matcher ---- *)

LEMMA FirstOf ==
    ASSUME NEW T \in SUBSET Nat, T # {}
    PROVE  \E k \in T : \A j \in T : k <= j
<1> DEFINE R == OpToRel(<, Nat)
<1>1. IsWellFoundedOn(R, Nat)
  BY NatLessThanWellFounded
<1>2. PICK k \in T : \A j \in T : <<j, k>> \notin R
  <2> HIDE DEF R
  <2> QED BY <1>1, WFMin
<1>3. \A j \in T : j < k => <<j, k>> \in R
  BY DEF OpToRel
<1> HIDE DEF R
<1>4. k \in Nat /\ \A j \in T : j \in Nat /\ ~(j < k)
  BY <1>2, <1>3
<1> QED BY <1>4

\* The row of a place of the pattern, from the row after it.
Row(p, s, F, i) ==
    IF i > Len(p) THEN {Len(s) + 1}
    ELSE LET rest == F[i + 1] IN
         IF p[i] = "*" THEN {j \in 1..(Len(s) + 1) : \E k \in rest : j <= k}
         ELSE {j \in 1..Len(s) : p[i] \in {"?", s[j]} /\ j + 1 \in rest}
Table(p, s, F) == F = [i \in 1..(Len(p) + 1) |-> Row(p, s, F, i)]

\* There is a table: filled from its last row on.
LEMMA TableIsThere ==
  ASSUME NEW T, NEW p \in Seq(T), NEW s
  PROVE  \E F : Table(p, s, F)
<1> PICK m : m = Len(p) + 1
  OBVIOUS
<1>0. m \in Nat /\ m >= 1
  OBVIOUS
<1> DEFINE From(F, d) == /\ F = [i \in 1..m |-> F[i]]
                         /\ \A i \in 1..m : i >= d => F[i] = Row(p, s, F, i)
<1> DEFINE Filled == {d \in 1..m : \E F : From(F, d)}
<1>1. m \in Filled
  <2> DEFINE F == [i \in 1..m |-> {Len(s) + 1}]
  <2>1. \A i \in 1..m : i >= m => i > Len(p) /\ F[i] = {Len(s) + 1}
    BY <1>0
  <2>2. F = [i \in 1..m |-> F[i]]
    OBVIOUS
  <2> HIDE DEF F
  <2>3. From(F, m)
    BY <2>1, <2>2 DEF Row
  <2> HIDE DEF From
  <2> QED BY <1>0, <2>3
<1>2. PICK d \in Filled : \A e \in Filled : d <= e
  <2>1. Filled \in SUBSET Nat
    OBVIOUS
  <2> HIDE DEF Filled
  <2> QED BY <1>1, <2>1, FirstOf
<1>3. PICK F : From(F, d)
  BY <1>2
<1>4. CASE d = 1
  <2>1. F = [i \in 1..m |-> Row(p, s, F, i)]
    BY <1>3, <1>4
  <2> QED BY <2>1 DEF Table
<1>5. CASE d # 1
  <2> PICK c : c = d - 1
    OBVIOUS
  <2>1. c \in 1..m /\ d \in 1..m /\ c + 1 = d
    BY <1>0, <1>5
  <2> DEFINE G == [i \in 1..m |-> IF i = c THEN Row(p, s, F, c) ELSE F[i]]
  <2>2. G = [i \in 1..m |-> G[i]] /\ \A i \in 1..m : G[i] = IF i = c THEN Row(p, s, F, c) ELSE F[i]
    OBVIOUS
  <2> HIDE DEF G
  <2>3. ASSUME NEW i \in 1..m, i >= c PROVE G[i] = Row(p, s, G, i)
    <3>1. i <= Len(p) => i + 1 \in 1..m /\ i + 1 # c
      BY <1>0, <2>1, <2>3
    <3>2. i <= Len(p) => G[i + 1] = F[i + 1]
      BY <2>2, <3>1
    <3>3. Row(p, s, G, i) = Row(p, s, F, i)
      <4>1. CASE i > Len(p)
        BY <4>1, Zenon DEF Row
      <4>2. CASE ~(i > Len(p))
        <5>1. F[i + 1] = G[i + 1]
          BY <1>0, <2>3, <3>2, <4>2
        <5> QED BY <4>2, <5>1, Zenon DEF Row
      <4> QED BY <4>1, <4>2
    <3>4. i # c => i >= d
      BY <2>1, <2>3
    <3> QED BY <1>3, <2>2, <3>3, <3>4
  <2>4. c \in Filled
    BY <2>1, <2>2, <2>3
  <2>5. ~(d <= c)
    BY <2>1
  <2> HIDE DEF Filled, From
  <2> QED BY <1>2, <2>4, <2>5
<1> QED BY <1>4, <1>5

\* What the model says a pattern covers, with the table it is read from.
LEMMA CoversIs ==
  ASSUME NEW T, NEW p \in Seq(T), NEW s
  PROVE  \E F : Table(p, s, F) /\ (Permission!Covers(p, s) <=> 1 \in F[1])
<1>1. PICK F : F = CHOOSE x : Table(p, s, x)
  OBVIOUS
<1>2. Table(p, s, F)
  BY <1>1, TableIsThere, Zenon
<1>3. F = CHOOSE x : x = [i \in 1..(Len(p) + 1) |->
                             IF i > Len(p) THEN {Len(s) + 1}
                             ELSE LET rest == x[i + 1] IN
                                  IF p[i] = "*" THEN {j \in 1..(Len(s) + 1) : \E k \in rest : j <= k}
                                  ELSE {j \in 1..Len(s) : p[i] \in {"?", s[j]} /\ j + 1 \in rest}]
  BY <1>1, Zenon DEF Table, Row
<1>4. Permission!Covers(p, s) <=> 1 \in F[1]
  BY <1>3, Zenon DEF Permission!Covers
<1> QED BY <1>2, <1>4

\* What a table says, row by row: a star reaches back from any place of the next
\* row, a token from the place after its own.
Says(p, s, m, n, F) ==
    /\ m \in Nat /\ n \in Nat /\ F[m + 1] = {n + 1}
    /\ \A i \in 1..m : p[i] = "*" =>
         \A j : j \in F[i] <=> j \in 1..(n + 1) /\ \E k \in F[i + 1] : j <= k
    /\ \A i \in 1..m : p[i] # "*" =>
         \A j : j \in F[i] <=> j \in 1..n /\ p[i] \in {"?", s[j]} /\ j + 1 \in F[i + 1]
    /\ \A i \in 1..(m + 1) : F[i] \subseteq 1..(n + 1)

LEMMA TableSays ==
  ASSUME NEW p, NEW s, NEW m \in Nat, NEW n \in Nat, m = Len(p), n = Len(s), NEW F, Table(p, s, F)
  PROVE  Says(p, s, m, n, F)
<1>1. \A i \in 1..(m + 1) : F[i] = Row(p, s, F, i)
  BY DEF Table
<1>2. F[m + 1] = {n + 1}
  <2>1. m + 1 \in 1..(m + 1) /\ m + 1 > Len(p)
    OBVIOUS
  <2> QED BY <1>1, <2>1 DEF Row
<1>3. ASSUME NEW i \in 1..m, p[i] = "*"
      PROVE  F[i] = {j \in 1..(n + 1) : \E k \in F[i + 1] : j <= k}
  <2>1. i \in 1..(m + 1) /\ ~(i > Len(p))
    OBVIOUS
  <2> QED BY <1>1, <1>3, <2>1 DEF Row
<1>4. ASSUME NEW i \in 1..m, p[i] # "*"
      PROVE  F[i] = {j \in 1..n : p[i] \in {"?", s[j]} /\ j + 1 \in F[i + 1]}
  <2>1. i \in 1..(m + 1) /\ ~(i > Len(p))
    OBVIOUS
  <2> QED BY <1>1, <1>4, <2>1 DEF Row
<1>5. ASSUME NEW i \in 1..(m + 1) PROVE F[i] \subseteq 1..(n + 1)
  <2>1. i \in 1..m \/ i = m + 1
    OBVIOUS
  <2>2. CASE i = m + 1
    BY <1>2, <2>2
  <2>3. CASE i \in 1..m
    BY <1>3, <1>4, <2>3
  <2> QED BY <2>1, <2>2, <2>3
<1> QED BY <1>2, <1>3, <1>4, <1>5 DEF Says

\* Where the matcher is: what it has still to find is what there is to find, at
\* its two pointers or from the last star on, and what it passed since the star
\* is passed by whatever the star may stand for.
Looking(m, p, F, pi, si, star, resume) ==
    \/ star = 0 /\ (1 \in F[1] <=> si \in F[pi])
    \/ /\ star \in 1..m /\ p[star] = "*" /\ resume \in 1..si
       /\ 1 \in F[1] <=> resume \in F[star]
       /\ si \in F[pi] => resume \in F[star + 1]
       /\ \A k \in F[star + 1] : k >= resume => k + (si - resume) \in F[pi]

LEMMA OneMore ==
  ASSUME NEW p, NEW s, NEW m, NEW n, NEW F, Says(p, s, m, n, F),
         NEW pi \in 1..m, NEW si \in 1..n, NEW star, NEW resume,
         Looking(m, p, F, pi, si, star, resume), p[pi] # "*", p[pi] \in {"?", s[si]}
  PROVE  Looking(m, p, F, pi + 1, si + 1, star, resume)
<1>1. m \in Nat /\ n \in Nat /\ pi \in 1..m /\ si \in 1..n
  BY DEF Says
<1>2. (\A j : j \in F[pi] <=> j \in 1..n /\ p[pi] \in {"?", s[j]} /\ j + 1 \in F[pi + 1])
  BY DEF Says
<1>3. si \in F[pi] <=> si + 1 \in F[pi + 1]
  BY <1>1, <1>2
<1>4. CASE star = 0
  BY <1>3, <1>4 DEF Looking
<1>5. CASE star # 0
  <2>1. /\ star \in 1..m /\ p[star] = "*" /\ resume \in 1..si
        /\ 1 \in F[1] <=> resume \in F[star]
        /\ si \in F[pi] => resume \in F[star + 1]
        /\ \A k \in F[star + 1] : k >= resume => k + (si - resume) \in F[pi]
    BY <1>5 DEF Looking
  <2>2. F[star + 1] \subseteq 1..(n + 1)
    BY <1>1, <2>1 DEF Says
  <2>3. resume \in 1..(si + 1)
    BY <1>1, <2>1
  <2>4. ASSUME NEW k \in F[star + 1], k >= resume PROVE k + ((si + 1) - resume) \in F[pi + 1]
    <3>1. k + (si - resume) \in F[pi]
      BY <2>1, <2>4
    <3>2. (k + (si - resume)) + 1 = k + ((si + 1) - resume)
      BY <1>1, <2>1, <2>2
    <3> QED BY <1>2, <3>1, <3>2
  <2> QED BY <1>3, <2>1, <2>3, <2>4 DEF Looking
<1> QED BY <1>4, <1>5

LEMMA StarMet ==
  ASSUME NEW p, NEW s, NEW m, NEW n, NEW F, Says(p, s, m, n, F),
         NEW pi \in 1..m, NEW si \in 1..(n + 1), NEW star, NEW resume,
         Looking(m, p, F, pi, si, star, resume), p[pi] = "*"
  PROVE  Looking(m, p, F, pi + 1, si, pi, si)
<1>1. m \in Nat /\ n \in Nat /\ pi \in 1..m /\ si \in 1..(n + 1)
  BY DEF Says
<1>2. /\ (\A j : j \in F[pi] <=> j \in 1..(n + 1) /\ \E k \in F[pi + 1] : j <= k)
      /\ F[pi + 1] \subseteq 1..(n + 1)
  BY <1>1 DEF Says
<1>3. 1 \in F[1] <=> si \in F[pi]
  <2>1. CASE star = 0
    BY <2>1 DEF Looking
  <2>2. CASE star # 0
    <3>1. /\ star \in 1..m /\ p[star] = "*" /\ resume \in 1..si
          /\ 1 \in F[1] <=> resume \in F[star]
          /\ si \in F[pi] => resume \in F[star + 1]
          /\ \A k \in F[star + 1] : k >= resume => k + (si - resume) \in F[pi]
      BY <2>2 DEF Looking
    <3>2. /\ (\A j : j \in F[star] <=> j \in 1..(n + 1) /\ \E k \in F[star + 1] : j <= k)
          /\ F[star + 1] \subseteq 1..(n + 1)
      BY <1>1, <3>1 DEF Says
    <3>3. ASSUME resume \in F[star] PROVE si \in F[pi]
      <4>1. PICK k \in F[star + 1] : resume <= k
        BY <3>2, <3>3
      <4> PICK j : j = k + (si - resume)
        OBVIOUS
      <4>2. k \in 1..(n + 1) /\ j \in F[pi] /\ j \in Int /\ si <= j
        BY <1>1, <3>1, <3>2, <4>1
      <4>3. PICK l \in F[pi + 1] : j <= l
        BY <1>2, <4>2
      <4>4. l \in 1..(n + 1) /\ si <= l
        BY <1>1, <1>2, <4>2, <4>3
      <4> QED BY <1>1, <1>2, <4>4
    <3>4. ASSUME si \in F[pi] PROVE resume \in F[star]
      <4>1. resume \in F[star + 1] /\ resume \in 1..(n + 1) /\ resume <= resume
        BY <3>1, <3>2, <3>4
      <4> QED BY <3>2, <4>1
    <3> QED BY <3>1, <3>3, <3>4
  <2> QED BY <2>1, <2>2
<1>4. \A k \in F[pi + 1] : k + (si - si) = k
  BY <1>1, <1>2
<1> QED BY <1>1, <1>3, <1>4 DEF Looking

\* Nothing more can be found at the pointers.
Stuck(p, s, m, n, pi, si) ==
    pi \in 1..(m + 1) /\ si \in 1..n
    /\ (pi <= m => p[pi] # "*" /\ p[pi] \notin {"?", s[si]})

LEMMA StuckIs ==
  ASSUME NEW p, NEW s, NEW m, NEW n, NEW F, Says(p, s, m, n, F), NEW pi, NEW si, Stuck(p, s, m, n, pi, si)
  PROVE  si \notin F[pi]
<1>1. m \in Nat /\ n \in Nat /\ pi \in 1..(m + 1) /\ si \in 1..n
  BY DEF Stuck, Says
<1>2. CASE pi = m + 1
  <2>1. F[pi] = {n + 1} /\ si # n + 1
    BY <1>1, <1>2 DEF Says
  <2> QED BY <2>1
<1>3. CASE pi # m + 1
  <2>1. pi \in 1..m /\ p[pi] # "*" /\ p[pi] \notin {"?", s[si]}
    BY <1>1, <1>3 DEF Stuck
  <2>2. (\A j : j \in F[pi] <=> j \in 1..n /\ p[pi] \in {"?", s[j]} /\ j + 1 \in F[pi + 1])
    BY <2>1 DEF Says
  <2> QED BY <2>1, <2>2
<1> QED BY <1>2, <1>3

LEMMA StarMore ==
  ASSUME NEW p, NEW s, NEW m, NEW n, NEW F, Says(p, s, m, n, F),
         NEW pi, NEW si, NEW star, NEW resume,
         Looking(m, p, F, pi, si, star, resume), star # 0, Stuck(p, s, m, n, pi, si)
  PROVE  /\ Looking(m, p, F, star + 1, resume + 1, star, resume + 1)
         /\ star \in 1..m /\ resume \in 1..n
<1>1. m \in Nat /\ n \in Nat /\ pi \in 1..(m + 1) /\ si \in 1..n /\ si \notin F[pi]
  BY StuckIs DEF Stuck, Says
<1>2. /\ star \in 1..m /\ p[star] = "*" /\ resume \in 1..si
      /\ 1 \in F[1] <=> resume \in F[star]
      /\ si \in F[pi] => resume \in F[star + 1]
      /\ \A k \in F[star + 1] : k >= resume => k + (si - resume) \in F[pi]
  BY DEF Looking
<1>3. /\ (\A j : j \in F[star] <=> j \in 1..(n + 1) /\ \E k \in F[star + 1] : j <= k)
      /\ F[star + 1] \subseteq 1..(n + 1)
  BY <1>1, <1>2 DEF Says
<1> PICK r : r = resume + 1
  OBVIOUS
<1>4. r \in 1..(n + 1) /\ resume \in 1..n /\ r \in 1..r
  BY <1>1, <1>2
<1>5. resume \notin F[star + 1]
  <2>1. ASSUME resume \in F[star + 1] PROVE FALSE
    <3>1. resume + (si - resume) = si /\ resume >= resume
      BY <1>1, <1>2
    <3>2. resume + (si - resume) \in F[pi]
      BY <1>2, <2>1, <3>1
    <3> QED BY <1>1, <3>1, <3>2
  <2> QED BY <2>1
<1>6. resume \in F[star] <=> r \in F[star]
  <2>1. \A k \in F[star + 1] : resume <= k <=> r <= k
    BY <1>1, <1>3, <1>4, <1>5
  <2>2. (\E k \in F[star + 1] : resume <= k) <=> \E k \in F[star + 1] : r <= k
    BY <2>1
  <2>3. resume \in 1..(n + 1) /\ r \in 1..(n + 1)
    BY <1>1, <1>4
  <2> QED BY <1>3, <2>2, <2>3
<1>7. \A k \in F[star + 1] : k + (r - r) = k
  BY <1>3, <1>4
<1>8. Looking(m, p, F, star + 1, r, star, r)
  BY <1>2, <1>4, <1>6, <1>7 DEF Looking
<1> QED BY <1>2, <1>4, <1>8

\* The end of the subject is covered by stars only.
LEMMA EndIs ==
  ASSUME NEW p, NEW s, NEW m, NEW n, NEW F, Says(p, s, m, n, F), NEW i \in 1..(m + 1)
  PROVE  n + 1 \in F[i] <=> \A k \in i..m : p[k] = "*"
<1> PICK e : e = n + 1
  OBVIOUS
<1>1. m \in Nat /\ e \in Nat /\ e >= 1
  BY DEF Says
<1> DEFINE Right(j) == e \in F[j] <=> \A k \in j..m : p[k] = "*"
<1> DEFINE Wrong == {d \in 0..m : ~Right((m + 1) - d)}
<1>2. Wrong = {}
  <2> SUFFICES ASSUME Wrong # {} PROVE FALSE
    OBVIOUS
  <2>1. PICK d \in Wrong : \A c \in Wrong : d <= c
    <3>1. Wrong \in SUBSET Nat
      OBVIOUS
    <3> HIDE DEF Wrong
    <3> QED BY <3>1, FirstOf
  <2> PICK j : j = (m + 1) - d
    OBVIOUS
  <2>2. d \in 0..m /\ j \in 1..(m + 1) /\ ~Right(j)
    BY <1>1, <2>1
  <2>3. CASE d = 0
    <3>1. j = m + 1 /\ F[j] = {e} /\ j..m = {}
      BY <1>1, <2>2, <2>3 DEF Says
    <3> QED BY <2>2, <3>1
  <2>4. CASE d # 0
    <3>1. j \in 1..m /\ d - 1 \in 0..m /\ (m + 1) - (d - 1) = j + 1 /\ ~(d <= d - 1)
      BY <1>1, <2>2, <2>4
    <3>2. Right(j + 1)
      <4>1. d - 1 \notin Wrong
        BY <2>1, <3>1
      <4> QED BY <3>1, <4>1
    <3>3. \A k : k \in j..m <=> k = j \/ k \in (j + 1)..m
      BY <1>1, <3>1
    <3>4. CASE p[j] = "*"
      <4>1. (\A a : a \in F[j] <=> a \in 1..e /\ \E k \in F[j + 1] : a <= k) /\ F[j + 1] \subseteq 1..e
        BY <1>1, <3>1, <3>4 DEF Says
      <4>2. e \in F[j] <=> e \in F[j + 1]
        BY <1>1, <4>1
      <4> QED BY <2>2, <3>2, <3>3, <3>4, <4>2
    <3>5. CASE p[j] # "*"
      <4>1. F[j] \subseteq 1..(e - 1)
        <5>1. (\A a : a \in F[j] <=> a \in 1..n /\ p[j] \in {"?", s[a]} /\ a + 1 \in F[j + 1]) /\ n = e - 1
          BY <3>1, <3>5 DEF Says
        <5> QED BY <5>1
      <4>2. e \notin F[j] /\ j \in j..m
        BY <1>1, <3>1, <4>1
      <4> QED BY <2>2, <3>5, <4>2
    <3> QED BY <3>4, <3>5
  <2> QED BY <2>3, <2>4
<1>3. (m + 1) - i \in 0..m /\ (m + 1) - ((m + 1) - i) = i
  BY <1>1
<1>4. Right((m + 1) - ((m + 1) - i))
  BY <1>2, <1>3
<1> QED BY <1>3, <1>4

LEMMA Ended ==
  ASSUME NEW p, NEW s, NEW m, NEW n, NEW F, Says(p, s, m, n, F),
         NEW pi \in 1..(m + 1), NEW star, NEW resume,
         Looking(m, p, F, pi, n + 1, star, resume)
  PROVE  1 \in F[1] <=> \A k \in pi..m : p[k] = "*"
<1> PICK e : e = n + 1
  OBVIOUS
<1>1. m \in Nat /\ e \in Nat /\ e >= 1 /\ pi \in 1..(m + 1)
  BY DEF Says
<1>2. 1 \in F[1] <=> e \in F[pi]
  <2>1. CASE star = 0
    BY <2>1 DEF Looking
  <2>2. CASE star # 0
    <3>1. /\ star \in 1..m /\ p[star] = "*" /\ resume \in 1..e
          /\ 1 \in F[1] <=> resume \in F[star]
          /\ e \in F[pi] => resume \in F[star + 1]
          /\ \A k \in F[star + 1] : k >= resume => k + (e - resume) \in F[pi]
      BY <2>2 DEF Looking
    <3>2. /\ (\A j : j \in F[star] <=> j \in 1..e /\ \E k \in F[star + 1] : j <= k)
          /\ F[star + 1] \subseteq 1..e /\ F[pi] \subseteq 1..e
      BY <1>1, <3>1 DEF Says
    <3>3. ASSUME resume \in F[star] PROVE e \in F[pi]
      <4>1. PICK k \in F[star + 1] : resume <= k
        BY <3>2, <3>3
      <4>2. k \in 1..e /\ k + (e - resume) \in F[pi]
        BY <1>1, <3>1, <3>2, <4>1
      <4>3. k + (e - resume) \in 1..e
        BY <3>2, <4>2
      <4>4. k + (e - resume) = e
        BY <1>1, <3>1, <4>1, <4>2, <4>3
      <4> QED BY <4>2, <4>4
    <3>4. ASSUME e \in F[pi] PROVE resume \in F[star]
      <4>1. resume \in F[star + 1] /\ resume <= resume
        BY <1>1, <3>1, <3>4
      <4> QED BY <3>1, <3>2, <4>1
    <3> QED BY <3>1, <3>3, <3>4
  <2> QED BY <2>1, <2>2
<1>3. e \in F[pi] <=> \A k \in pi..m : p[k] = "*"
  BY EndIs
<1> QED BY <1>2, <1>3

(* ---- the matcher's record ---- *)

GlobShape(g) ==
    g = [p |-> g.p, s |-> g.s, pi |-> g.pi, si |-> g.si, star |-> g.star, resume |-> g.resume,
         done |-> g.done, result |-> g.result]
Placed(g) ==
    /\ g.p \in Seq(STRING) /\ g.s \in Seq(STRING)
    /\ g.pi \in 1..(Len(g.p) + 1) /\ g.si \in 1..(Len(g.s) + 1)
    /\ g.star = 0 \/ (g.star \in 1..Len(g.p) /\ g.resume \in 1..g.si)
    /\ g.done \in BOOLEAN /\ g.result \in BOOLEAN /\ (~g.done => ~g.result)
FoundSoFar(g) ==
    \A F : Says(g.p, g.s, Len(g.p), Len(g.s), F) /\ "*" \notin Permission!Range(g.s) =>
        IF g.done THEN g.result <=> 1 \in F[1] ELSE Looking(Len(g.p), g.p, F, g.pi, g.si, g.star, g.resume)
GlobInv == GlobShape(glob) /\ Placed(glob) /\ (glob = Permission!NoGlob \/ FoundSoFar(glob))

LEMMA MatchStarts ==
  ASSUME NEW p \in Seq(STRING), NEW s \in Seq(STRING)
  PROVE  /\ GlobShape(Permission!Started(p, s)) /\ Placed(Permission!Started(p, s)) /\ FoundSoFar(Permission!Started(p, s))
<1> PICK g : g = [p |-> p, s |-> s, pi |-> 1, si |-> 1, star |-> 0, resume |-> 0, done |-> FALSE, result |-> FALSE]
  OBVIOUS
<1> PICK z : z = [p |-> <<>>, s |-> <<>>, pi |-> 1, si |-> 1, star |-> 0, resume |-> 0,
                  done |-> TRUE, result |-> FALSE]
  OBVIOUS
<1>0. z = Permission!NoGlob
  BY DEF Permission!NoGlob
<1>1. g = Permission!Started(p, s)
  <2>1. Permission!Started(p, s) = [z EXCEPT !.p = p, !.s = s, !.done = FALSE]
    BY <1>0, Zenon DEF Permission!Started
  <2> QED BY <2>1
<1>2. /\ g.p = p /\ g.s = s /\ g.pi = 1 /\ g.si = 1 /\ g.star = 0 /\ g.resume = 0
      /\ g.done = FALSE /\ g.result = FALSE
  OBVIOUS
<1>3. GlobShape(g)
  BY <1>2 DEF GlobShape
<1>4. Placed(g)
  BY <1>2 DEF Placed
<1>5. FoundSoFar(g)
  BY <1>2 DEF FoundSoFar, Looking
<1> QED BY <1>1, <1>3, <1>4, <1>5

LEMMA StepFinds ==
  ASSUME NEW g, GlobShape(g), Placed(g), ~g.done, FoundSoFar(g)
  PROVE  /\ GlobShape(Permission!MatchStep(g)) /\ Placed(Permission!MatchStep(g)) /\ FoundSoFar(Permission!MatchStep(g))
<1> PICK p : p = g.p
  OBVIOUS
<1> PICK s : s = g.s
  OBVIOUS
<1> PICK pi : pi = g.pi
  OBVIOUS
<1> PICK si : si = g.si
  OBVIOUS
<1> PICK star : star = g.star
  OBVIOUS
<1> PICK resume : resume = g.resume
  OBVIOUS
<1> PICK m : m = Len(p)
  OBVIOUS
<1> PICK n : n = Len(s)
  OBVIOUS
<1> PICK h : h = Permission!MatchStep(g)
  OBVIOUS
<1>1. /\ p \in Seq(STRING) /\ s \in Seq(STRING) /\ m \in Nat /\ n \in Nat
      /\ pi \in 1..(m + 1) /\ si \in 1..(n + 1)
      /\ star = 0 \/ (star \in 1..m /\ resume \in 1..si)
  BY DEF Placed
<1>2. g = [p |-> p, s |-> s, pi |-> pi, si |-> si, star |-> star, resume |-> resume,
           done |-> FALSE, result |-> FALSE]
  <2>1. g.done = FALSE /\ g.result = FALSE
    BY DEF Placed
  <2> QED BY <2>1 DEF GlobShape
<1>3. \A F : Says(p, s, m, n, F) /\ "*" \notin Permission!Range(s) => Looking(m, p, F, pi, si, star, resume)
  BY DEF FoundSoFar
\* What a record of these fields is.
<1>4. ASSUME NEW a, NEW b, NEW c, NEW d, NEW e \in BOOLEAN, NEW f \in BOOLEAN,
             h = [p |-> p, s |-> s, pi |-> a, si |-> b, star |-> c, resume |-> d, done |-> e, result |-> f],
             a \in 1..(m + 1), b \in 1..(n + 1), c = 0 \/ (c \in 1..m /\ d \in 1..b), ~e => ~f,
             \A F : Says(p, s, m, n, F) /\ "*" \notin Permission!Range(s) => IF e THEN f <=> 1 \in F[1] ELSE Looking(m, p, F, a, b, c, d)
      PROVE  GlobShape(h) /\ Placed(h) /\ FoundSoFar(h)
  <2>1. h.p = p /\ h.s = s /\ h.pi = a /\ h.si = b /\ h.star = c /\ h.resume = d /\ h.done = e /\ h.result = f
    BY <1>4
  <2>2. GlobShape(h)
    BY <1>4, <2>1 DEF GlobShape
  <2>3. Placed(h)
    BY <1>1, <1>4, <2>1 DEF Placed
  <2>4. FoundSoFar(h)
    BY <1>4, <2>1, Zenon DEF FoundSoFar
  <2> QED BY <2>2, <2>3, <2>4
<1>5. CASE si > n
  <2> PICK f \in BOOLEAN : f <=> \A k \in pi..m : p[k] = "*"
    OBVIOUS
  <2>1. f = Permission!RestIsStars(g)
    BY <1>2, Zenon DEF Permission!RestIsStars
  <2>2. h = [g EXCEPT !.done = TRUE, !.result = f]
    BY <1>5, <2>1 DEF Permission!MatchStep
  <2>3. h = [p |-> p, s |-> s, pi |-> pi, si |-> si, star |-> star, resume |-> resume, done |-> TRUE, result |-> f]
    BY ONLY <1>2, <2>2
  <2>4. si = n + 1
    BY <1>1, <1>5
  <2>5. ASSUME NEW F, Says(p, s, m, n, F), "*" \notin Permission!Range(s) PROVE f <=> 1 \in F[1]
    <3>1. Looking(m, p, F, pi, n + 1, star, resume)
      BY <1>3, <2>4, <2>5
    <3>2. 1 \in F[1] <=> \A k \in pi..m : p[k] = "*"
      BY ONLY <1>1, <2>5, <3>1, Ended
    <3> QED BY <3>2
  <2>6. \A F : Says(p, s, m, n, F) /\ "*" \notin Permission!Range(s) =>
            IF TRUE THEN f <=> 1 \in F[1] ELSE Looking(m, p, F, pi, si, star, resume)
    BY <2>5, Zenon
  <2>7. TRUE \in BOOLEAN
    OBVIOUS
  <2> QED BY ONLY <1>1, <1>4, <2>3, <2>6, <2>7, h = Permission!MatchStep(g), f \in BOOLEAN
<1>6. CASE si <= n /\ pi <= m /\ p[pi] \in {"?", s[si]}
  <2>1. h = [g EXCEPT !.pi = @ + 1, !.si = @ + 1]
    BY <1>1, <1>6 DEF Permission!MatchStep, Permission!OneMatches
  <2>2. h = [p |-> p, s |-> s, pi |-> pi + 1, si |-> si + 1, star |-> star, resume |-> resume,
             done |-> FALSE, result |-> FALSE]
    BY ONLY <1>2, <2>1
  <2>3. pi \in 1..m /\ si \in 1..n /\ pi + 1 \in 1..(m + 1) /\ si + 1 \in 1..(n + 1)
    BY <1>1, <1>6
  <2>4. ASSUME NEW F, Says(p, s, m, n, F), "*" \notin Permission!Range(s) PROVE Looking(m, p, F, pi + 1, si + 1, star, resume)
    <3>1. p[pi] # "*"
      BY <1>1, <1>6, <2>3, <2>4 DEF Permission!Range
    <3> QED BY <1>1, <1>3, <1>6, <2>3, <2>4, <3>1, OneMore
  <2>5. star = 0 \/ (star \in 1..m /\ resume \in 1..(si + 1))
    BY <1>1
  <2> QED BY <1>4, <2>2, <2>3, <2>4, <2>5
<1>7. CASE si <= n /\ ~(pi <= m /\ p[pi] \in {"?", s[si]}) /\ pi <= m /\ p[pi] = "*"
  <2>1. h = [g EXCEPT !.star = g.pi, !.resume = g.si, !.pi = @ + 1]
    BY <1>1, <1>7 DEF Permission!MatchStep, Permission!OneMatches
  <2>2. h = [p |-> p, s |-> s, pi |-> pi + 1, si |-> si, star |-> pi, resume |-> si,
             done |-> FALSE, result |-> FALSE]
    BY ONLY <1>2, <2>1
  <2>3. pi \in 1..m /\ pi + 1 \in 1..(m + 1) /\ si \in 1..si
    BY <1>1, <1>7
  <2>4. ASSUME NEW F, Says(p, s, m, n, F), "*" \notin Permission!Range(s) PROVE Looking(m, p, F, pi + 1, si, pi, si)
    BY <1>1, <1>3, <1>7, <2>3, <2>4, StarMet
  <2> QED BY <1>1, <1>4, <2>2, <2>3, <2>4
<1>8. CASE si <= n /\ ~(pi <= m /\ p[pi] \in {"?", s[si]}) /\ ~(pi <= m /\ p[pi] = "*")
  <2>1. Stuck(p, s, m, n, pi, si)
    BY <1>1, <1>8 DEF Stuck
  <2>2. CASE star # 0
    <3>1. h = [g EXCEPT !.pi = g.star + 1, !.resume = @ + 1, !.si = g.resume + 1]
      BY <1>1, <1>8, <2>2 DEF Permission!MatchStep, Permission!OneMatches, Permission!Resumed
    <3>2. h = [p |-> p, s |-> s, pi |-> star + 1, si |-> resume + 1, star |-> star, resume |-> resume + 1,
               done |-> FALSE, result |-> FALSE]
      BY ONLY <1>2, <3>1
    <3>3. star \in 1..m /\ star + 1 \in 1..(m + 1) /\ resume + 1 \in 1..(n + 1) /\ resume + 1 \in 1..(resume + 1)
      BY <1>1, <1>8, <2>2
    <3>4. ASSUME NEW F, Says(p, s, m, n, F), "*" \notin Permission!Range(s) PROVE Looking(m, p, F, star + 1, resume + 1, star, resume + 1)
      BY <1>1, <1>3, <2>1, <2>2, <3>4, StarMore
    <3> QED BY <1>4, <3>2, <3>3, <3>4
  <2>3. CASE star = 0
    <3>1. h = [g EXCEPT !.done = TRUE]
      BY <1>1, <1>8, <2>3 DEF Permission!MatchStep, Permission!OneMatches
    <3>2. h = [p |-> p, s |-> s, pi |-> pi, si |-> si, star |-> star, resume |-> resume, done |-> TRUE, result |-> FALSE]
      BY ONLY <1>2, <3>1
    <3>3. ASSUME NEW F, Says(p, s, m, n, F), "*" \notin Permission!Range(s) PROVE 1 \notin F[1]
      <4>1. Looking(m, p, F, pi, si, 0, resume)
        BY <1>3, <2>3, <3>3
      <4>2. 1 \in F[1] <=> si \in F[pi]
        BY <4>1 DEF Looking
      <4> QED BY <1>1, <2>1, <3>3, <4>2, StuckIs
    <3> QED BY <1>1, <1>4, <3>2, <3>3
  <2> QED BY <2>2, <2>3
<1>9. si > n \/ si <= n
  BY <1>1
<1> QED BY <1>5, <1>6, <1>7, <1>8, <1>9

(* ---- what the matcher has found, when it is done ---- *)

LEMMA FoundIsCovered ==
  ASSUME NEW g, Placed(g), FoundSoFar(g), g.done, "*" \notin Permission!Range(g.s)
  PROVE  g.result <=> Permission!Covers(g.p, g.s)
<1>1. g.p \in Seq(STRING) /\ g.s \in Seq(STRING)
  BY DEF Placed
<1>2. PICK F : Table(g.p, g.s, F) /\ (Permission!Covers(g.p, g.s) <=> 1 \in F[1])
  BY <1>1, CoversIs, Zenon
<1>3. Len(g.p) \in Nat /\ Len(g.s) \in Nat
  BY <1>1
<1>4. Says(g.p, g.s, Len(g.p), Len(g.s), F)
  BY ONLY <1>2, <1>3, TableSays
<1>5. g.result <=> 1 \in F[1]
  BY <1>4, Zenon DEF FoundSoFar
<1> QED BY <1>2, <1>5, Zenon

(* ---- the policy ---- *)

\* What a call may be planned as, and what was looked at before it may run.
Planned(p) == (\E cmd \in Commands : p = Permission!BashPlan(cmd)) \/ (\E t \in {"read", "write"}, name \in {"src", ".env", ".ENV"} : p = Permission!FilePlan(t, name))
Clear(p) ==
    /\ ~Permission!builtin_denial(p) /\ \A name \in p.paths : ~Permission!builtin_path_denial(name, Permission!Effects(p.tool))
    /\ \A r \in deny : ~Permission!Covers(r, p.subject)
Verdicts ==
    /\ unattended \in {"ask", "allow", "deny"} /\ verdict \in {"none", "ask", "allow", "deny"}
    /\ verdict = "none" <=> plan = Permission!NoPlan
    /\ plan = Permission!NoPlan \/ Planned(plan)
    /\ permissionCalls \in Nat /\ (permissionCalls = 0 => verdict = "none")
    /\ verdict \in {"ask", "allow"} => Clear(plan)

LEMMA SomethingIsPlanned == ASSUME NEW p, Planned(p) PROVE p # Permission!NoPlan
<1>1. \A cmd : Permission!BashPlan(cmd).tool = "bash"
  BY DEF Permission!BashPlan
<1>2. \A t, name : Permission!FilePlan(t, name).tool = t
  BY DEF Permission!FilePlan
<1>3. Permission!NoPlan.tool = "none"
  BY DEF Permission!NoPlan
<1> QED BY <1>1, <1>2, <1>3 DEF Planned

LEMMA EvaluateClears ==
  ASSUME Verdicts, NEW p
  PROVE  /\ Permission!evaluate(p) \in {"ask", "allow", "deny"}
         /\ Permission!evaluate(p) \in {"ask", "allow"} => Clear(p)
<1>1. unattended \in {"ask", "allow", "deny"}
  BY DEF Verdicts
<1>2. CASE Permission!builtin_denial(p) \/ \E name \in p.paths : Permission!builtin_path_denial(name, Permission!Effects(p.tool))
  <2>1. Permission!evaluate(p) = "deny"
    BY <1>2, Zenon DEF Permission!evaluate
  <2> QED BY <2>1
<1>3. CASE \E r \in deny : Permission!Covers(r, p.subject)
  <2>1. Permission!evaluate(p) = "deny"
    BY <1>3, Zenon DEF Permission!evaluate
  <2> QED BY <2>1
<1>4. CASE /\ ~(Permission!builtin_denial(p) \/ \E name \in p.paths : Permission!builtin_path_denial(name, Permission!Effects(p.tool)))
           /\ ~\E r \in deny : Permission!Covers(r, p.subject)
  <2>1. Permission!evaluate(p) \in {"allow", unattended}
    BY <1>4, Zenon DEF Permission!evaluate
  <2>2. Clear(p)
    BY <1>4, Zenon DEF Clear
  <2> QED BY <1>1, <2>1, <2>2
<1> QED BY <1>2, <1>3, <1>4, Zenon

LEMMA VerdictsStart == Permission!Init => Verdicts
  BY DEF Permission!Init, Verdicts

LEMMA VerdictsStep == Verdicts /\ [Permission!Next]_(Permission!vars) => Verdicts'
<1> SUFFICES ASSUME Verdicts, [Permission!Next]_(Permission!vars) PROVE Verdicts'
  OBVIOUS
<1>1. CASE Permission!Configure
  <2>1. verdict = "none" /\ plan = Permission!NoPlan
    BY <1>1 DEF Permission!Configure, Permission!Fresh, Verdicts
  <2>2. verdict' = verdict /\ plan' = plan /\ permissionCalls' = permissionCalls /\ unattended' \in {"ask", "allow", "deny"}
    BY <1>1 DEF Permission!Configure
  <2> QED BY <2>1, <2>2 DEF Verdicts, Planned
<1>2. ASSUME NEW p, Planned(p), Permission!Called(p) PROVE Verdicts'
  <2>1. /\ verdict' = Permission!evaluate(p) /\ plan' = p /\ permissionCalls' = permissionCalls + 1
        /\ UNCHANGED <<deny, unattended>>
    BY <1>2 DEF Permission!Called
  <2>2. p # Permission!NoPlan
    BY <1>2, SomethingIsPlanned
  <2>3. permissionCalls' # 0
    BY <2>1 DEF Verdicts
  <2>4. Clear(p)' <=> Clear(p)
    BY <2>1, Zenon DEF Clear
  <2>5. Permission!evaluate(p) \in {"ask", "allow", "deny"} /\ (Permission!evaluate(p) \in {"ask", "allow"} => Clear(p))
    BY EvaluateClears
  <2> QED BY <1>2, <2>1, <2>2, <2>3, <2>4, <2>5 DEF Verdicts, Planned
<1>3. CASE Permission!CallBash
  BY <1>2, <1>3 DEF Permission!CallBash, Planned
<1>4. CASE Permission!CallFile
  <2>1. PICK t \in {"read", "write"}, name \in {"src", ".env", ".ENV"} : Permission!Called(Permission!FilePlan(t, name))
    BY <1>4 DEF Permission!CallFile
  <2>3. Planned(Permission!FilePlan(t, name))
    BY <2>1, Zenon DEF Planned
  <2> QED BY <1>2, <2>1, <2>3
<1>5. ASSUME NEW yes, NEW always, Permission!Decide(yes, always) PROVE Verdicts'
  <2>1. /\ verdict = "ask" /\ verdict' \in {"allow", "deny"}
        /\ UNCHANGED <<deny, unattended, plan, permissionCalls>>
    BY <1>5 DEF Permission!Decide
  <2>2. Clear(plan)' <=> Clear(plan)
    BY <2>1, Zenon DEF Clear
  <2> QED BY <2>1, <2>2 DEF Verdicts, Planned
<1>6. CASE Permission!Allow \/ Permission!AllowSession \/ Permission!Deny
  BY <1>5, <1>6 DEF Permission!Allow, Permission!AllowSession, Permission!Deny
<1>7. CASE UNCHANGED <<deny, unattended, plan, verdict, permissionCalls>>
  <2>1. Clear(plan)' <=> Clear(plan)
    BY <1>7, Zenon DEF Clear
  <2> QED BY <1>7, <2>1 DEF Verdicts, Planned
<1>8. CASE Permission!Resolve \/ Permission!StartMatch \/ Permission!Match
  BY <1>7, <1>8 DEF Permission!Resolve, Permission!StartMatch, Permission!Match
<1>9. CASE UNCHANGED Permission!vars
  BY <1>7, <1>9 DEF Permission!vars
<1> QED BY <1>1, <1>3, <1>4, <1>6, <1>8, <1>9 DEF Permission!Next

(* ---- the names a command starts with ---- *)

\* A set of numbers that end somewhere has a last one.
LEMMA LastOf ==
  ASSUME NEW b \in Nat, NEW T \in SUBSET (0..b), T # {}
  PROVE  \E k \in T : \A j \in T : j <= k
<1> PICK U : U = {b - j : j \in T}
  OBVIOUS
<1>0. \A j \in T : b - j \in Nat /\ b - j \in U
  OBVIOUS
<1>1. U \in SUBSET Nat /\ U # {}
  BY <1>0
<1>2. PICK u \in U : \A v \in U : u <= v
  BY <1>1, FirstOf
<1>3. PICK k \in T : u = b - k
  BY <1>2
<1>4. \A j \in T : u <= b - j
  BY <1>2
<1>5. \A j \in T : j \in 0..b
  OBVIOUS
<1> QED BY <1>3, <1>4, <1>5

\* A command that is no compound starts one program, the one its subject names.
LEMMA OneProgram ==
  ASSUME NEW cmd \in Seq(STRING), Permission!subject_for(cmd) # Permission!COMPOUND
  PROVE  Permission!Programs(cmd) = {Permission!subject_for(cmd)[2]}
<1> PICK c : c = CHOOSE i \in Permission!Foremost(cmd) : TRUE
  OBVIOUS
<1>1. Permission!IsSimple(cmd) /\ Permission!Foremost(cmd) # {} /\ Permission!subject_for(cmd) = <<"bash", cmd[c]>>
  BY Zenon DEF Permission!subject_for
<1>2. c \in Permission!Foremost(cmd)
  BY <1>1, Zenon
<1>3. \A i \in Permission!Words(cmd) : i \in 1..Len(cmd) /\ i \in DOMAIN cmd
  BY DEF Permission!Words
<1>4. \A i \in Permission!Words(cmd) : cmd[i] # "meta"
  BY <1>1, <1>3 DEF Permission!IsSimple
<1>5. c \in Permission!Words(cmd) /\ \A j \in Permission!Words(cmd) : c <= j
  BY <1>2 DEF Permission!Foremost
<1> DEFINE before(i) == {j \in Permission!Words(cmd) : j < i}
           starts(i) == /\ cmd[i] # "meta"
                        /\ \A j \in before(i) : (\A k \in before(i) : k <= j) => cmd[j] = "meta"
<1>6. \A i \in Permission!Words(cmd) : starts(i) <=> i = c
  <2> TAKE i \in Permission!Words(cmd)
  <2>1. ASSUME i = c PROVE starts(i)
    <3>1. before(i) = {}
      <4>1. \A j \in Permission!Words(cmd) : j \in Int /\ c <= j
        BY <1>3, <1>5
      <4>2. c \in Int
        BY <1>5, <4>1
      <4>3. \A j \in Permission!Words(cmd) : ~(j < c)
        BY ONLY <4>1, <4>2
      <4> QED BY <2>1, <4>3
    <3> QED BY <1>4, <3>1
  <2>2. ASSUME i # c PROVE ~starts(i)
    <3>1. before(i) # {}
      <4>1. c \in Int /\ i \in Int
        BY <1>3, <1>5
      <4>2. c <= i
        BY <1>5
      <4>3. c < i
        BY ONLY <2>2, <4>1, <4>2
      <4> QED BY <1>5, <4>3
    <3>2. before(i) \in SUBSET (0..Len(cmd)) /\ Len(cmd) \in Nat
      BY <1>3
    <3>3. PICK j \in before(i) : \A k \in before(i) : k <= j
      <4> HIDE DEF before
      <4> QED BY <3>1, <3>2, LastOf
    <3>4. cmd[j] # "meta"
      BY <1>4, <3>3
    <3> QED BY <3>3, <3>4
  <2> QED BY <2>1, <2>2
<1>7. Permission!Programs(cmd) = {cmd[i] : i \in {k \in Permission!Words(cmd) : starts(k)}}
  BY DEF Permission!Programs
<1>8. {k \in Permission!Words(cmd) : starts(k)} = {c}
  <2> HIDE DEF starts
  <2> QED BY <1>5, <1>6
<1> HIDE DEF starts
<1>9. Permission!Programs(cmd) = {cmd[c]}
  <2> PICK N : N = {k \in Permission!Words(cmd) : starts(k)}
    OBVIOUS
  <2>1. N = {c}
    BY <1>8
  <2>2. Permission!Programs(cmd) = {cmd[i] : i \in N}
    BY <1>7
  <2> QED BY ONLY <2>1, <2>2
<1>10. <<"bash", cmd[c]>>[2] = cmd[c]
  OBVIOUS
<1> QED BY <1>1, <1>9, <1>10

\* No word of a plan that was looked at and not refused is a protected name.
LEMMA NoProtectedWord ==
  ASSUME NEW cmd \in Seq(STRING), Clear(Permission!BashPlan(cmd))
  PROVE  Permission!Protected \intersect {Permission!Folded(w) : w \in Permission!Range(cmd)} = {}
<1> SUFFICES ASSUME NEW w \in Permission!Range(cmd), Permission!Folded(w) \in Permission!Protected PROVE FALSE
  OBVIOUS
<1>1. w \in {".env", ".ENV", "home"}
  BY DEF Permission!Folded, Permission!Protected
<1>2. w \in Permission!declared_paths(cmd)
  BY <1>1 DEF Permission!declared_paths, Permission!Marks
<1>3. Permission!BashPlan(cmd).paths = Permission!declared_paths(cmd) /\ Permission!BashPlan(cmd).tool = "bash"
  BY DEF Permission!BashPlan
<1>4. ~Permission!builtin_path_denial(w, Permission!Effects("bash"))
  BY <1>2, <1>3, Zenon DEF Clear
<1>5. "reads" \in Permission!Effects("bash")
  BY DEF Permission!Effects
<1> QED BY <1>4, <1>5 DEF Permission!builtin_path_denial

LEMMA NoProtectedFile ==
  ASSUME NEW t \in {"read", "write"}, NEW name, Clear(Permission!FilePlan(t, name))
  PROVE  Permission!Folded(name) \notin Permission!Protected
<1>1. Permission!FilePlan(t, name).subject = <<t, name>> /\ Permission!FilePlan(t, name).tool = t
  BY DEF Permission!FilePlan
<1>2. Permission!Last(<<t, name>>) = name
  BY DEF Permission!Last
<1>3. ~Permission!builtin_path_denial(name, Permission!Effects(t))
  BY <1>1, <1>2 DEF Clear, Permission!builtin_denial
<1>4. "reads" \in Permission!Effects(t)
  BY DEF Permission!Effects
<1> QED BY <1>3, <1>4 DEF Permission!builtin_path_denial

(* ---- the invariant of the policy and the matcher ---- *)

PermissionInv == Verdicts /\ GlobInv

LEMMA NoGlobIsPlaced == GlobShape(Permission!NoGlob) /\ Placed(Permission!NoGlob) /\ Permission!NoGlob.done
<1> PICK z : z = [p |-> <<>>, s |-> <<>>, pi |-> 1, si |-> 1, star |-> 0, resume |-> 0,
                  done |-> TRUE, result |-> FALSE]
  OBVIOUS
<1>1. z = Permission!NoGlob
  BY DEF Permission!NoGlob
<1>2. GlobShape(z)
  BY DEF GlobShape
<1>3. Placed(z)
  BY DEF Placed
<1> QED BY <1>1, <1>2, <1>3

LEMMA GlobStarts == Permission!Init => GlobInv
  BY NoGlobIsPlaced, Zenon DEF Permission!Init, GlobInv

LEMMA GlobSteps == GlobInv /\ [Permission!Next]_(Permission!vars) => GlobInv'
<1> SUFFICES ASSUME GlobInv, [Permission!Next]_(Permission!vars) PROVE GlobInv'
  OBVIOUS
<1>1. CASE Permission!StartMatch
  <2>1. PICK p \in Strings, s \in Strings : glob' = Permission!Started(p, s)
    BY <1>1 DEF Permission!StartMatch
  <2>2. p \in Seq(STRING) /\ s \in Seq(STRING)
    BY TokenSequences
  <2> QED BY <2>1, <2>2, MatchStarts, Zenon DEF GlobInv
<1>2. CASE Permission!Match
  <2>1. ~glob.done /\ glob' = Permission!MatchStep(glob)
    BY <1>2 DEF Permission!Match
  <2>2. glob # Permission!NoGlob
    BY <2>1, NoGlobIsPlaced
  <2>3. GlobShape(glob) /\ Placed(glob) /\ FoundSoFar(glob)
    BY <2>2 DEF GlobInv
  <2> QED BY <2>1, <2>3, StepFinds, Zenon DEF GlobInv
<1>3. CASE UNCHANGED glob
  BY <1>3, Zenon DEF GlobInv
<1>4. CASE Permission!Configure \/ Permission!CallBash \/ Permission!CallFile \/ Permission!Allow \/ Permission!AllowSession \/ Permission!Deny \/ Permission!Resolve
  BY <1>3, <1>4 DEF Permission!Configure, Permission!CallBash, Permission!CallFile,
     Permission!Called, Permission!Allow, Permission!AllowSession, Permission!Deny,
     Permission!Decide, Permission!Resolve
<1>5. CASE UNCHANGED Permission!vars
  BY <1>3, <1>5 DEF Permission!vars
<1> QED BY <1>1, <1>2, <1>4, <1>5 DEF Permission!Next

LEMMA CoveredIs == PermissionInv => Permission!OnlyWhatIsCovered
<1> SUFFICES ASSUME Verdicts, GlobInv PROVE Permission!OnlyWhatIsCovered
  BY DEF PermissionInv
<1>1. ASSUME verdict = "allow" PROVE Clear(plan) /\ Planned(plan)
  BY <1>1 DEF Verdicts
<1>2. \A cmd : Permission!BashPlan(cmd).tool = "bash" /\ Permission!BashPlan(cmd).command = cmd /\ Permission!BashPlan(cmd).subject = Permission!subject_for(cmd)
  BY DEF Permission!BashPlan
<1>3. \A t, name : Permission!FilePlan(t, name).tool = t /\ Permission!FilePlan(t, name).subject[2] = name
  BY DEF Permission!FilePlan
<1>4. ASSUME verdict = "allow", plan.tool = "bash"
      PROVE  \E cmd \in Seq(STRING) : plan = Permission!BashPlan(cmd)
  <2>1. \A t \in {"read", "write"} : t # "bash"
    OBVIOUS
  <2>2. \E cmd \in Commands : plan = Permission!BashPlan(cmd)
    BY <1>1, <1>3, <1>4, <2>1, Zenon DEF Planned
  <2> QED BY <2>2, TokenSequences
<1>5. ASSUME verdict = "allow", plan.tool = "bash"
      PROVE  /\ plan.subject # Permission!COMPOUND => Permission!Programs(plan.command) = {plan.subject[2]}
             /\ Permission!Protected \intersect {Permission!Folded(w) : w \in Permission!Range(plan.command)} = {}
  <2>1. PICK cmd \in Seq(STRING) : plan = Permission!BashPlan(cmd)
    BY <1>4, <1>5
  <2>2. plan.command = cmd /\ plan.subject = Permission!subject_for(cmd)
    BY <1>2, <2>1
  <2>3. Clear(Permission!BashPlan(cmd))
    BY <1>1, <1>5, <2>1
  <2>4. Permission!Protected \intersect {Permission!Folded(w) : w \in Permission!Range(cmd)} = {}
    BY <2>3, NoProtectedWord
  <2>5. plan.subject # Permission!COMPOUND => Permission!Programs(cmd) = {plan.subject[2]}
    BY <2>2, OneProgram
  <2> QED BY <2>2, <2>4, <2>5
<1>6. ASSUME verdict = "allow", plan.tool \in {"read", "write"}
      PROVE  Permission!Folded(plan.subject[2]) \notin Permission!Protected
  <2>1. plan.tool # "bash"
    BY <1>6
  <2>2. PICK t \in {"read", "write"}, name \in {"src", ".env", ".ENV"} : plan = Permission!FilePlan(t, name)
    BY <1>1, <1>2, <1>6, <2>1, Zenon DEF Planned
  <2>3. plan.subject[2] = name /\ Clear(Permission!FilePlan(t, name))
    BY <1>1, <1>3, <1>6, <2>2
  <2> QED BY <2>3, NoProtectedFile
<1>7. verdict = "allow" => \A r \in deny : ~Permission!Covers(r, plan.subject)
  BY <1>1, Zenon DEF Clear
<1>8. glob.done /\ glob # Permission!NoGlob /\ "*" \notin Permission!Range(glob.s) => (glob.result <=> Permission!Covers(glob.p, glob.s))
  BY FoundIsCovered, Zenon DEF GlobInv
<1> QED BY <1>5, <1>6, <1>7, <1>8, Zenon DEF Permission!OnlyWhatIsCovered

(* What runs unasked by a rule for one program starts that program only,   *)
(* nothing touches a protected name, no deny rule is passed over, and the  *)
(* matcher's two pointers and one remembered star find what the pattern    *)
(* covers, for every pattern and every name without a star of its own      *)
(* (policy.rs, bash.rs).                                                   *)
THEOREM PolicyHolds == Permission!Spec => []Permission!OnlyWhatIsCovered
<1>1. Permission!Init => PermissionInv
  BY VerdictsStart, GlobStarts DEF PermissionInv
<1>2. PermissionInv /\ [Permission!Next]_(Permission!vars) => PermissionInv'
  BY VerdictsStep, GlobSteps DEF PermissionInv
<1>3. PermissionInv => Permission!OnlyWhatIsCovered
  BY CoveredIs
<1> QED BY <1>1, <1>2, <1>3, PTL DEF Permission!Spec

\* A shell leaves two processes behind; outputs on both sides of the limit.
Tools == INSTANCE Tools WITH
    Trees <- Walks, cancelled <- toolsCancelled, answer <- toolsAnswer,
    calls <- toolsCalls

(* ---- a command that is stopped ---- *)

LEMMA AnsweredIs ==
  ASSUME NEW kind, NEW text, NEW kept, Tools!Answered(kind, text, kept)
  PROVE  toolsAnswer'.kind = kind /\ toolsAnswer'.of = tool' /\ pc' = "idle"
  BY DEF Tools!Answered

LEMMA SucceedsIs ==
  ASSUME NEW raw, Tools!Succeeds(raw)
  PROVE  toolsAnswer'.kind = "ok"
  BY AnsweredIs DEF Tools!Succeeds, Tools!Saves

LEMMA FailsIs ==
  ASSUME NEW kind, Tools!Fails(kind)
  PROVE  toolsAnswer'.kind = kind /\ toolsAnswer'.of = tool'
  BY AnsweredIs DEF Tools!Fails

LEMMA EndsAre ==
  ASSUME NEW ps, Tools!Ends(ps)
  PROVE  \A p \in Tools!Procs : group'[p] = IF p \in ps THEN "dead" ELSE group[p]
  BY DEF Tools!Ends

LEMMA NobodyIsLeftAtFirst == Tools!Init => Tools!NoOrphans
  BY DEF Tools!Init, Tools!NoOrphans, Tools!Nothing

LEMMA NobodyIsLeft == Tools!NoOrphans /\ [Tools!Next]_(Tools!vars) => Tools!NoOrphans'
<1> SUFFICES ASSUME Tools!NoOrphans, [Tools!Next]_(Tools!vars) PROVE Tools!NoOrphans'
  OBVIOUS
<1>1. CASE Tools!Spawn \/ Tools!StartWalk
  BY <1>1 DEF Tools!Spawn, Tools!StartWalk, Tools!Starts, Tools!NoOrphans
<1>2. CASE Tools!Fork \/ Tools!ProcessEnds \/ Tools!Visit \/ Tools!Signals
  BY <1>2 DEF Tools!Fork, Tools!ProcessEnds, Tools!Visit, Tools!Signals, Tools!NoOrphans
<1>3. CASE UNCHANGED <<pc, group, toolsAnswer>>
  <2>1. Tools!Alive' = Tools!Alive
    BY <1>3 DEF Tools!Alive
  <2> QED BY <1>3, <2>1 DEF Tools!NoOrphans
<1>4. CASE Tools!Cancel \/ Tools!NewTurn
  BY <1>3, <1>4 DEF Tools!Cancel, Tools!NewTurn
<1>5. CASE Tools!Collected
  <2>1. toolsAnswer'.kind = "ok"
    BY <1>5, SucceedsIs DEF Tools!Collected
  <2> QED BY <2>1 DEF Tools!NoOrphans
<1>6. CASE Tools!WalkEnds \/ Tools!ReadsOn
  <2>1. tool' # "bash"
    BY <1>6 DEF Tools!WalkEnds, Tools!ReadsOn
  <2>2. toolsAnswer'.of = tool' \/ toolsAnswer'.kind = "ok"
    BY <1>6, SucceedsIs, FailsIs DEF Tools!WalkEnds, Tools!ReadsOn
  <2> QED BY <2>1, <2>2 DEF Tools!NoOrphans
<1>7. CASE Tools!Kills
  <2>1. Tools!Ends(Tools!Alive)
    BY <1>7 DEF Tools!Kills, Tools!TreeOf
  <2>2. ASSUME NEW p \in Tools!Procs PROVE group'[p] \notin {"running", "deaf"}
    <3>1. group'[p] = IF p \in Tools!Alive THEN "dead" ELSE group[p]
      BY <2>1, EndsAre
    <3> QED BY <3>1 DEF Tools!Alive
  <2>3. Tools!Alive' = {}
    BY <2>2 DEF Tools!Alive
  <2> QED BY <2>3 DEF Tools!NoOrphans
<1>8. CASE UNCHANGED Tools!vars
  BY <1>3, <1>8 DEF Tools!vars
<1> QED BY <1>1, <1>2, <1>4, <1>5, <1>6, <1>7, <1>8 DEF Tools!Next

(* Whatever was started, and however late, nothing of the group of a       *)
(* command that was stopped is alive (proc.rs, bash.rs).                   *)
THEOREM NoneIsLeft == Tools!Spec => []Tools!NoOrphans
  BY NobodyIsLeftAtFirst, NobodyIsLeft, PTL DEF Tools!Spec

\* Every combination of flags, and two session files on a disk that may refuse.
Launch == INSTANCE Launch WITH
    Configured <- FirstModel, request <- launchRequest, disk <- launchDisk,
    phase <- launchPhase, asked <- launchAsked

(* ---- the launch ---- *)

(* A launch says in a notice that the log is lost when it loses it, and    *)
(* that the history has a hole when it reads one; the notices reach the    *)
(* terminal in the last step.                                              *)
LaunchTells ==
    /\ recorder = "ephemeral" => launchRequest.ephemeral \/ <<"unrecorded", "failed">> \in notices
    /\ session.holed => <<"history", "holed">> \in notices
    /\ launchPhase = "ready" /\ launchRequest.surface # "supervised" => notices \subseteq told

LEMMA LaunchStarts == Launch!Init => LaunchTells
  BY DEF Launch!Init, LaunchTells, Launch!Nothing, Launch!NoSession

LEMMA LaunchSteps == LaunchTells /\ [Launch!Next]_(Launch!vars) => LaunchTells'
<1> SUFFICES ASSUME LaunchTells, [Launch!Next]_(Launch!vars) PROVE LaunchTells'
  OBVIOUS
<1>1. CASE UNCHANGED Launch!vars
  BY <1>1 DEF LaunchTells, Launch!vars
<1>2. CASE Launch!Confine
  BY <1>2 DEF LaunchTells, Launch!Confine
<1>3. CASE Launch!Provider
  BY <1>3 DEF LaunchTells, Launch!Provider, Launch!Nothing
<1>4. CASE Launch!Open
  <2> DEFINE s == CHOOSE t \in Launch!Fits : TRUE
  <2>1. CASE session' = Launch!Adopted(s) /\ notices' = notices \cup Launch!LoadNotices(s)
             /\ launchPhase' = "record" /\ UNCHANGED <<recorder, launchRequest, told>>
    <3>1. session'.holed => <<"history", "holed">> \in notices'
      BY <2>1 DEF Launch!Adopted, Launch!LoadNotices
    <3> QED BY <2>1, <3>1 DEF LaunchTells
  <2>2. CASE UNCHANGED <<session, recorder, notices, launchRequest>> /\ launchPhase' = "failed"
    BY <2>2 DEF LaunchTells
  <2>3. CASE ~session'.holed /\ launchPhase' = "record" /\ UNCHANGED <<recorder, notices, launchRequest>>
    BY <2>3 DEF LaunchTells
  <2> QED BY <1>4, <2>1, <2>2, <2>3 DEF Launch!Open, Launch!Fails, Launch!NoSession
<1>5. CASE Launch!Record
  BY <1>5 DEF LaunchTells, Launch!Record, Launch!Unrecorded
<1>6. CASE Launch!Announce
  BY <1>6 DEF LaunchTells, Launch!Announce
<1> QED BY <1>1, <1>2, <1>3, <1>4, <1>5, <1>6 DEF Launch!Next

LEMMA LaunchIsHonest == Launch!Spec => []Launch!TerminalIsTold
<1>1. LaunchTells => Launch!TerminalIsTold
  BY DEF LaunchTells, Launch!TerminalIsTold
<1> QED BY <1>1, LaunchStarts, LaunchSteps, PTL DEF Launch!Spec

\* A question, a listing, a sign-in and a choice beside two turns.
Tui == INSTANCE Tui WITH
    Providers <- Services, cancelled <- tuiCancelled, pending <- tuiPending

(* ---- the person at the terminal ---- *)

\* A turn is its number and the question it waits on.
TurnShape == turn = [n |-> turn.n, waits |-> turn.waits]

\* The choice that is still to prove itself is the one the agent has.
ChoiceInv == (unproven # <<>> => unproven = pair) /\ Tui!SavedWorks

\* Who leaves and is still here waits for a turn, which was told to stop.
LeavingInv == Tui!LeavingIsTold /\ (leaving /\ up => Tui!Turning)

ScreenInv == TurnShape /\ Tui!QuestionIsOnScreen /\ ChoiceInv /\ LeavingInv

\* Nothing is asked, chosen or written down at first, and nobody leaves.
LEMMA ScreenStarts == Tui!Init => ScreenInv
<1> SUFFICES ASSUME Tui!Init PROVE ScreenInv
  OBVIOUS
<1>1. turn.n = 0 /\ turn.waits = 0 /\ TurnShape
  BY DEF Tui!Init, TurnShape
<1>2. ChoiceInv /\ LeavingInv
  BY DEF Tui!Init, ChoiceInv, Tui!SavedWorks, LeavingInv, Tui!LeavingIsTold
<1> QED BY <1>1, <1>2 DEF ScreenInv, Tui!QuestionIsOnScreen

\* No step makes anything else of a turn.
LEMMA TurnKeepsItsShape == TurnShape /\ [Tui!Next]_(Tui!vars) => TurnShape'
<1> SUFFICES ASSUME TurnShape, [Tui!Next]_(Tui!vars) PROVE TurnShape'
  OBVIOUS
<1>1. \A k : [turn EXCEPT !.waits = k] = [n |-> turn.n, waits |-> k]
  BY DEF TurnShape
<1>2. turn' = turn \/ \E n, k : turn' = [n |-> n, waits |-> k]
  BY <1>1, ZenonT(30) DEF Tui!Next, Tui!vars, Tui!Ask, Tui!TurnEnds, Tui!TurnPanics,
     Tui!ModelsListed, Tui!Replaced, Tui!SignInEnds, Tui!Submit, Tui!Interrupt, Tui!Quit,
     Tui!CtrlC, Tui!Settle, Tui!WriteNote, Tui!TypeModel, Tui!PickModel, Tui!OpenPicker,
     Tui!list_models, Tui!Back, Tui!Login, Tui!SaveKey, Tui!SignIn
<1> QED BY <1>2 DEF TurnShape

\* A question leaves the screen with the turn's wait for it.
LEMMA QuestionStaysOnScreen == TurnShape /\ Tui!QuestionIsOnScreen /\ [Tui!Next]_(Tui!vars) => Tui!QuestionIsOnScreen'
<1> SUFFICES ASSUME TurnShape, Tui!QuestionIsOnScreen, [Tui!Next]_(Tui!vars) PROVE Tui!QuestionIsOnScreen'
  OBVIOUS
<1>0. \A k : [turn EXCEPT !.waits = k].waits = k
  BY DEF TurnShape
<1>1. CASE UNCHANGED <<turn, mode>>
  BY <1>1 DEF Tui!QuestionIsOnScreen, Tui!OnScreen
<1>2. CASE turn'.waits = 0
  BY <1>2 DEF Tui!QuestionIsOnScreen
<1>3. CASE Tui!Ask
  <2>1. turn'.waits = Len(answers) + 1 /\ mode' = Tui!Asking("approving", Len(answers) + 1)
    BY <1>0, <1>3 DEF Tui!Ask
  <2>2. mode'.kind = "approving" /\ mode'.of = Len(answers) + 1
    BY <2>1 DEF Tui!Asking
  <2> QED BY <2>1, <2>2 DEF Tui!QuestionIsOnScreen, Tui!OnScreen
<1>4. CASE Tui!ModelsListed
  <2>1. turn'.waits = 0 \/ (UNCHANGED turn /\ ~(Tui!OnScreen # 0 /\ turn.waits = Tui!OnScreen)) \/ UNCHANGED <<mode, turn>>
    BY <1>0, <1>4 DEF Tui!ModelsListed, Tui!Replaced
  <2>2. ~(Tui!OnScreen # 0 /\ turn.waits = Tui!OnScreen) => turn.waits = 0
    BY DEF Tui!QuestionIsOnScreen
  <2> QED BY <1>1, <1>2, <2>1, <2>2
<1>5. CASE Tui!WriteNote
  <2>1. mode.kind = "approving" /\ mode' = Tui!Asking("denying", Tui!OnScreen) /\ turn' = turn
    BY <1>5 DEF Tui!WriteNote, Tui!Key
  <2>2. mode'.kind = "denying" /\ mode'.of = Tui!OnScreen
    BY <2>1 DEF Tui!Asking
  <2> QED BY <2>1, <2>2 DEF Tui!QuestionIsOnScreen, Tui!OnScreen
<1>6. CASE mode.kind \notin {"approving", "denying"} /\ UNCHANGED turn
  BY <1>2, <1>6 DEF Tui!QuestionIsOnScreen, Tui!OnScreen
<1>7. CASE Tui!Submit
  <2>1. mode.kind = "idle" /\ (UNCHANGED <<mode, turn>> \/ turn' = [n |-> turn.n + 1, waits |-> 0])
    BY <1>7 DEF Tui!Submit, Tui!Key
  <2> QED BY <1>1, <1>2, <2>1
<1>8. CASE Tui!TurnEnds \/ Tui!Settle
  BY <1>0, <1>2, <1>8 DEF Tui!TurnEnds, Tui!Settle
<1>9. CASE Tui!TurnPanics
  BY <1>2, <1>9 DEF Tui!TurnPanics
<1>10. CASE Tui!TypeModel \/ Tui!PickModel \/ Tui!OpenPicker \/ Tui!list_models \/ Tui!Back \/ Tui!Login \/ Tui!SaveKey \/ Tui!SignIn
  <2>1. mode.kind \in {"idle", "provider", "model", "login"} /\ UNCHANGED turn
    BY <1>10, ZenonT(30) DEF Tui!TypeModel, Tui!PickModel, Tui!OpenPicker, Tui!list_models,
       Tui!Back, Tui!Login, Tui!SaveKey, Tui!SignIn, Tui!Key
  <2> QED BY <1>6, <2>1
<1> QED
  BY <1>1, <1>3, <1>4, <1>5, <1>7, <1>8, <1>9, <1>10, ZenonT(30) DEF Tui!Next, Tui!vars,
     Tui!SignInEnds, Tui!Interrupt, Tui!Quit, Tui!CtrlC

\* Only a choice applied changes the pair, and it is the one still to be proved.
LEMMA ChoiceSteps == ChoiceInv /\ [Tui!Next]_(Tui!vars) => ChoiceInv'
<1> SUFFICES ASSUME ChoiceInv, [Tui!Next]_(Tui!vars) PROVE ChoiceInv'
  OBVIOUS
<1>1. CASE UNCHANGED <<pair, unproven, saved, proofs>>
  BY <1>1 DEF ChoiceInv, Tui!SavedWorks
<1>2. CASE Tui!TypeModel \/ Tui!PickModel
  <2>1. UNCHANGED <<saved, proofs>> /\ (UNCHANGED <<pair, unproven>> \/ unproven' = pair')
    BY <1>2 DEF Tui!TypeModel, Tui!PickModel, Tui!change_model, Tui!history
  <2> QED BY <2>1 DEF ChoiceInv, Tui!SavedWorks
<1>3. CASE Tui!OpenPicker
  BY <1>1, <1>3 DEF Tui!OpenPicker, Tui!history
<1>4. CASE Tui!TurnEnds
  <2>1. PICK outcome \in Tui!Outcomes : Tui!remember_default(outcome)
    BY <1>4 DEF Tui!TurnEnds
  <2> QED BY <2>1 DEF Tui!remember_default, Tui!proves_it_works, ChoiceInv, Tui!SavedWorks
<1> QED
  BY <1>1, <1>2, <1>3, <1>4, ZenonT(30) DEF Tui!Next, Tui!vars, Tui!history, Tui!Ask,
     Tui!TurnPanics, Tui!ModelsListed, Tui!SignInEnds, Tui!Submit, Tui!Interrupt, Tui!Quit,
     Tui!CtrlC, Tui!Settle, Tui!WriteNote, Tui!list_models, Tui!Back, Tui!Login, Tui!SaveKey,
     Tui!SignIn

\* Whoever leaves during a turn cancels it in the same step, and the loop is left
\* in the step that ends it.
LEMMA LeavingSteps == TurnShape /\ LeavingInv /\ [Tui!Next]_(Tui!vars) => LeavingInv'
<1> SUFFICES ASSUME TurnShape, LeavingInv, [Tui!Next]_(Tui!vars) PROVE LeavingInv'
  OBVIOUS
<1>0. \A k : [turn EXCEPT !.waits = k].n = turn.n
  BY DEF TurnShape
<1> USE DEF LeavingInv, Tui!LeavingIsTold, Tui!Turning
<1>1. CASE UNCHANGED <<leaving, up, agent, turn>> /\ tuiCancelled \subseteq tuiCancelled'
  BY <1>1
<1>2. CASE Tui!Ask \/ Tui!Settle
  <2>1. UNCHANGED <<leaving, up, agent, tuiCancelled>> /\ turn'.n = turn.n
    BY <1>0, <1>2 DEF Tui!Ask, Tui!Settle
  <2> QED BY <2>1
<1>3. CASE Tui!TurnEnds \/ Tui!TurnPanics
  <2>1. agent' \in {"here", "gone"} /\ up' = ~leaving /\ leaving' = leaving
    BY <1>3, Zenon DEF Tui!TurnEnds, Tui!TurnPanics
  <2>2. ~(leaving' /\ up') /\ agent' # "away"
    BY <2>1
  <2> QED BY <2>2, Zenon
<1>4. CASE Tui!ModelsListed
  <2>1. UNCHANGED <<leaving, up, agent, tuiCancelled>> /\ turn'.n = turn.n
    BY <1>0, <1>4 DEF Tui!ModelsListed, Tui!Replaced
  <2> QED BY <2>1
<1>5. CASE Tui!Submit
  <2>1. up /\ UNCHANGED <<leaving, up, tuiCancelled>> /\ (agent = "here" \/ UNCHANGED <<agent, turn>>)
    BY <1>5 DEF Tui!Submit, Tui!Key
  <2> QED BY <2>1
<1>6. CASE Tui!Quit \/ Tui!CtrlC
  <2>1. /\ UNCHANGED <<agent, turn>>
        /\ \/ UNCHANGED <<leaving, up, tuiCancelled>>
           \/ Tui!Turning /\ UNCHANGED up /\ leaving' = TRUE /\ tuiCancelled' = tuiCancelled \union {turn.n}
           \/ ~Tui!Turning /\ up' = FALSE /\ UNCHANGED <<leaving, tuiCancelled>>
    BY <1>6 DEF Tui!Quit, Tui!CtrlC, Tui!Leaves
  <2> QED BY <2>1
<1> QED
  BY <1>1, <1>2, <1>3, <1>4, <1>5, <1>6, ZenonT(30) DEF Tui!Next, Tui!vars, Tui!SignInEnds,
     Tui!Interrupt, Tui!WriteNote, Tui!TypeModel, Tui!PickModel, Tui!OpenPicker, Tui!list_models,
     Tui!Back, Tui!Login, Tui!SaveKey, Tui!SignIn

\* The invariant, in every state of every behaviour.
LEMMA ScreenHolds == Tui!Spec => []ScreenInv
<1>1. ScreenInv /\ [Tui!Next]_(Tui!vars) => ScreenInv'
  BY TurnKeepsItsShape, QuestionStaysOnScreen, ChoiceSteps, LeavingSteps DEF ScreenInv
<1> QED BY <1>1, ScreenStarts, PTL DEF Tui!Spec

\* approver.rs, tui/events.rs: whatever is opened, listed or begun meanwhile, a
\* turn that waits on a question has that question on the screen.
THEOREM NoQuestionIsHidden == Tui!Spec => []Tui!QuestionIsOnScreen
<1>1. ScreenInv => Tui!QuestionIsOnScreen
  BY DEF ScreenInv
<1> QED BY <1>1, ScreenHolds, PTL

\* defaults.rs: what is written down as the default is a pair a turn answered
\* with, whatever was chosen between the choice, the turn and the writing.
THEOREM DefaultsWork == Tui!Spec => []Tui!SavedWorks
<1>1. ScreenInv => Tui!SavedWorks
  BY DEF ScreenInv, ChoiceInv
<1> QED BY <1>1, ScreenHolds, PTL

\* tui/mod.rs: who leaves during a turn waits only for a turn told to stop.
THEOREM LeaversAreNotKept == Tui!Spec => []Tui!LeavingIsTold
<1>1. ScreenInv => Tui!LeavingIsTold
  BY DEF ScreenInv, LeavingInv
<1> QED BY <1>1, ScreenHolds, PTL

\* Within eight items the window of twenty units overflows and is compacted.
Projection == INSTANCE Projection WITH
    phase <- projectionPhase, request <- projectionRequest
\* Six bytes hold two frames, and every line end split between two chunks.
Framing == INSTANCE Framing WITH
    pending <- framingPending
\* Text, reasoning and a call in every order a dialect can speak.
Decoders == INSTANCE Decoders WITH
    answer <- decodersAnswer, pending <- decodersPending,
    cancelled <- decodersCancelled
\* Two processes save at once; two requests of one find their pair expired.
Auth == INSTANCE Auth WITH
    Procs <- Processes, Sessions <- Senders, disk <- authDisk

projectionVars == <<transcript, recorded, owner, model, elisions, projectionPhase,
    projectionRequest, forced, switches>>
framingVars == <<fed, buf, framingPending, frames, closed>>
decodersVars == <<dialect, decodersAnswer, script, dec, decodersPending, state,
    decodersCancelled, error, taken>>
authVars == <<authDisk, auth, temp, save, held, lock, task, redeemable, issued, expired,
    port, saves, overlapped>>
permissionVars == <<deny, allow, grants, unattended, plan, verdict, permissionAsked, glob,
    opened, permissionCalls>>
toolsVars == <<tool, pc, group, holders, toolsCancelled, walk, toolsAnswer, spill,
    toolsCalls>>
launchVars == <<launchRequest, launchDisk, launchPhase, confined, provider, session,
    launchAsked, recorder, notices, told, resumedOnFile>>
tuiVars == <<mode, agent, pair, turn, tuiCancelled, tuiPending, listings, unproven,
    offers, signin, armed, leaving, up, answers, proofs, saved, listed>>

(* One component runs; the others rest in one of their initial states.  *)
Init ==
    /\ part \in {"Projection", "Framing", "Decoders", "Auth", "Permission", "Tools",
        "Launch", "Tui"}
    /\ Projection!Init
    /\ Framing!Init
    /\ Decoders!Init
    /\ Auth!Init
    /\ part # "Auth" => auth = 0
    /\ Permission!Init
    /\ Tools!Init
    /\ Tui!Init
    /\ Launch!Init
    /\ part # "Launch" => launchRequest = [surface |-> "tui", resume |-> FALSE, typed |-> {}, override |-> "none",
                                     ephemeral |-> FALSE, sandbox |-> FALSE, credential |-> FALSE]
                         /\ ~launchDisk.made /\ ~launchDisk.writable

ProjectionStep ==
    /\ part = "Projection" /\ Projection!Next
    /\ UNCHANGED <<part, framingVars, decodersVars, authVars, permissionVars, toolsVars,
        launchVars, tuiVars>>
FramingStep ==
    /\ part = "Framing" /\ Framing!Next
    /\ UNCHANGED <<part, projectionVars, decodersVars, authVars, permissionVars, toolsVars,
        launchVars, tuiVars>>
DecodersStep ==
    /\ part = "Decoders" /\ Decoders!Next
    /\ UNCHANGED <<part, projectionVars, framingVars, authVars, permissionVars, toolsVars,
        launchVars, tuiVars>>
AuthStep ==
    /\ part = "Auth" /\ Auth!Next
    /\ UNCHANGED <<part, projectionVars, framingVars, decodersVars, permissionVars, toolsVars,
        launchVars, tuiVars>>
PermissionStep ==
    /\ part = "Permission" /\ Permission!Next
    /\ UNCHANGED <<part, projectionVars, framingVars, decodersVars, authVars, toolsVars,
        launchVars, tuiVars>>
ToolsStep ==
    /\ part = "Tools" /\ Tools!Next
    /\ UNCHANGED <<part, projectionVars, framingVars, decodersVars, authVars, permissionVars,
        launchVars, tuiVars>>
LaunchStep ==
    /\ part = "Launch" /\ Launch!Next
    /\ UNCHANGED <<part, projectionVars, framingVars, decodersVars, authVars, permissionVars,
        toolsVars, tuiVars>>
TuiStep ==
    /\ part = "Tui" /\ Tui!Next
    /\ UNCHANGED <<part, projectionVars, framingVars, decodersVars, authVars, permissionVars,
        toolsVars, launchVars>>

Next ==
    \/ ProjectionStep  \/ FramingStep  \/ DecodersStep
    \/ AuthStep  \/ PermissionStep  \/ ToolsStep
    \/ LaunchStep  \/ TuiStep

vars == <<part, projectionVars, framingVars, decodersVars, authVars,
            permissionVars, toolsVars, launchVars, tuiVars>>
Spec == Init /\ [][Next]_vars

-----------------------------------------------------------------------------
(* Every component keeps the types of its own state. *)
TypeOK ==
    /\ part = "Projection" => Projection!TypeOK
    /\ part = "Framing" => Framing!TypeOK
    /\ part = "Decoders" => Decoders!TypeOK
    /\ part = "Auth" => Auth!TypeOK
    /\ part = "Permission" => Permission!TypeOK
    /\ part = "Tools" => Tools!TypeOK
    /\ part = "Launch" => Launch!TypeOK
    /\ part = "Tui" => Tui!TypeOK

(* A request is one its provider accepts and that still carries what was   *)
(* asked: every call has its result beside it in all three dialects, the   *)
(* question survives compaction, and a resumed session is asked under the  *)
(* model whose reasoning it holds.                                         *)
RequestsStandAlone ==
    /\ part = "Projection" => Projection!ToolPairsHold /\ Projection!ResponsesPairsHold /\ Projection!QuestionSurvives
    /\ part = "Launch" => Launch!ReasoningGoesHome

(* However the network cuts a body into chunks, its frames are those of    *)
(* the whole body, its blocks open, grow and close in order, and an answer *)
(* that ends without an error has every block the provider sent.  What a   *)
(* tool answers is of a file inside the workspace, and what was cut from   *)
(* it is accounted for to the byte.                                        *)
AnswersArriveWhole ==
    /\ part = "Framing" => Framing!ChunkingIsInvisible
    /\ part = "Decoders" => Decoders!BlocksAreWhole /\ Decoders!AnswerArrivesWhole
    /\ part = "Permission" => Permission!StaysInside
    /\ part = "Tools" => Tools!CutsAreAccounted

(* A call runs only what the policy covers, and the matcher the policy     *)
(* rests on finds what a pattern covers; a command that was stopped leaves *)
(* no process behind.                                                      *)
CallsAreHeld ==
    /\ part = "Permission" => Permission!OnlyWhatIsCovered
    /\ part = "Tools" => Tools!NoOrphans

(* The credential store loses nothing to its own program: a pair is        *)
(* renewed by one task and only once it expired, and a save nobody         *)
(* overlaps is atomic and changes one provider's entry.  Where a terminal  *)
(* session cannot be recorded, or its history has holes, the person knows. *)
KeptOrTold ==
    /\ part = "Auth" => Auth!RenewsOnlyExpired /\ Auth!AloneIsAtomic
    /\ part = "Launch" => Launch!TerminalIsTold

(* The person at the terminal sees the question a turn waits for, has      *)
(* saved only a model that was seen to work, and leaves no turn running    *)
(* untold.                                                                 *)
PersonIsInCharge ==
    /\ part = "Tui" => Tui!QuestionIsOnScreen /\ Tui!SavedWorks /\ Tui!LeavingIsTold

-----------------------------------------------------------------------------
(* Proofs, for every value of the constants.  A behaviour is, seen through *)
(* the variables of one component, a behaviour of that component, so what  *)
(* is proved of the component in its module holds here.                    *)

\* Nobody's name is no request's, and the credential file has a number.
ASSUME AuthBounds ==
    /\ MaxPairs \in Nat /\ MaxFiles \in Nat \ {0}
    /\ "nobody" \notin Tasks /\ "none" \notin Tasks

LEMMA AuthRuns == Spec => Auth!Spec
<1>1. Init => Auth!Init
  BY DEF Init
<1>2. [Next]_vars => [Auth!Next]_(Auth!vars)
  BY DEF Next, vars, Auth!vars, authVars, ProjectionStep, FramingStep, DecodersStep, AuthStep,
         PermissionStep, ToolsStep, LaunchStep, TuiStep
<1> QED BY <1>1, <1>2, PTL DEF Spec, Auth!Spec

LEMMA TuiRuns == Spec => Tui!Spec
<1>1. Init => Tui!Init
  BY DEF Init
<1>2. [Next]_vars => [Tui!Next]_(Tui!vars)
  BY DEF Next, vars, Tui!vars, tuiVars, ProjectionStep, FramingStep, DecodersStep, AuthStep,
         PermissionStep, ToolsStep, LaunchStep, TuiStep
<1> QED BY <1>1, <1>2, PTL DEF Spec, Tui!Spec

LEMMA LaunchRuns == Spec => Launch!Spec
<1>1. Init => Launch!Init
  BY DEF Init
<1>2. [Next]_vars => [Launch!Next]_(Launch!vars)
  BY DEF Next, vars, Launch!vars, launchVars, ProjectionStep, FramingStep, DecodersStep, AuthStep,
         PermissionStep, ToolsStep, LaunchStep, TuiStep
<1> QED BY <1>1, <1>2, PTL DEF Spec, Launch!Spec

LEMMA PermissionRuns == Spec => Permission!Spec
<1>1. Init => Permission!Init
  BY DEF Init
<1>2. [Next]_vars => [Permission!Next]_(Permission!vars)
  BY DEF Next, vars, Permission!vars, permissionVars, ProjectionStep, FramingStep, DecodersStep,
     AuthStep, PermissionStep, ToolsStep, LaunchStep, TuiStep
<1> QED BY <1>1, <1>2, PTL DEF Spec, Permission!Spec

LEMMA ToolsRuns == Spec => Tools!Spec
<1>1. Init => Tools!Init
  BY DEF Init
<1>2. [Next]_vars => [Tools!Next]_(Tools!vars)
  BY DEF Next, vars, Tools!vars, toolsVars, ProjectionStep, FramingStep, DecodersStep, AuthStep,
         PermissionStep, ToolsStep, LaunchStep, TuiStep
<1> QED BY <1>1, <1>2, PTL DEF Spec, Tools!Spec

(* An expired pair is traded once, by the request that holds the lock, a   *)
(* save nobody overlaps is atomic, and a terminal session that has no log  *)
(* or a hole in its history has been told (auth.rs, sessions.rs, mod.rs).  *)
THEOREM CredentialsAndLogs == Spec => []KeptOrTold
<1>1. Auth!Names
  BY AuthBounds DEF Auth!Names, Auth!Nobody
<1>2. Auth!Spec => []Auth!RenewsOnlyExpired
  BY <1>1, Auth!OneRenewalPerPair
<1>3. Auth!Spec => []Auth!AloneIsAtomic
  BY <1>1, Auth!SavesAloneAreAtomic
<1>4. Auth!RenewsOnlyExpired /\ Auth!AloneIsAtomic /\ Launch!TerminalIsTold => KeptOrTold
  BY DEF KeptOrTold
<1> QED BY <1>2, <1>3, <1>4, AuthRuns, LaunchRuns, LaunchIsHonest, PTL

(* Whoever sits at the terminal sees the question a turn waits for, keeps  *)
(* only a model that worked, and is told before a turn is left running     *)
(* (tui/mod.rs, tui/turn.rs).                                              *)
THEOREM ThePersonDecides == Spec => []PersonIsInCharge
<1>1. Tui!QuestionIsOnScreen /\ Tui!SavedWorks /\ Tui!LeavingIsTold => PersonIsInCharge
  BY DEF PersonIsInCharge
<1> QED BY <1>1, TuiRuns, NoQuestionIsHidden, DefaultsWork, LeaversAreNotKept, PTL

(* A call that runs was allowed as what it is, and one that was stopped    *)
(* left nothing behind (policy.rs, bash.rs, proc.rs).                      *)
THEOREM CallsStayInBounds == Spec => []CallsAreHeld
<1>1. Permission!OnlyWhatIsCovered /\ Tools!NoOrphans => CallsAreHeld
  BY DEF CallsAreHeld
<1> QED BY <1>1, PermissionRuns, ToolsRuns, PolicyHolds, NoneIsLeft, PTL
=============================================================================
