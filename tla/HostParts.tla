----------------------------- MODULE HostParts -----------------------------
(***************************************************************************)
(* Ten parts of the desktop host and what they keep, proved for every      *)
(* value of the constants: a tab a window saved comes back, a credential   *)
(* stays with its provider, no commit is deleted before it is elsewhere,   *)
(* the journal has the rows that can be resumed, no two starts share a     *)
(* worktree, whatever a hosted tool asks is answered once and nobody waits *)
(* for a tool that is gone, a group's members are asked their prompt once  *)
(* and can be told apart, a conversation that is read again keeps its      *)
(* rows, a terminal that was stopped stays so, and a key of the settings   *)
(* comes from the strongest layer.  MCDesktop composes them with the rest  *)
(* of the host.                                                            *)
(***************************************************************************)
EXTENDS Naturals, Sequences, FiniteSets, SequencesExt, FiniteSetTheorems, SequenceTheorems,
        NaturalsInduction, WellFoundedInduction, TLAPS

CONSTANTS
    Procs, Sessions, Names,                           \* Index: processes, session ids, readable names
    MaxPicks, MaxWrites, MaxTears,                    \* and what is tried, written and torn of them
    Requests, GroupStarts, MaxRows,                   \* Groups: what is asked for, the commands, the rows
    Callers, MaxLines, MaxAsks, MaxDeltas,            \* AppServer: the commands and what the tool says
    CallIds, MaxBlocks, LongOutput,                   \* Rollouts: calls, blocks and what is shown of a result
    RingBytes, MaxOutput, MaxTyped,                   \* Terminal: what is kept, written and typed
    PersonTexts, RepositoryTexts, MaxEdits,           \* Config: the files people write and their edits
    MaxChanges, MaxTurns, MaxLives,                   \* Landing: what is changed, in which turns and lives
    Tabs, TabSaves, TabWindows,                       \* Remembered: the tabs, their saves and windows
    Providers, PageSaves, MaxCaptures, MaxAccidents,  \* Connect: the providers and the commands
    HostedRows, HostedSlots, HostedProcs, HostedWindows   \* Hosted: the rows, commands, processes, windows

VARIABLES
    indexFile, open, indexUp, mem, job, owner, gone, robbed, used, indexAcked,
    tears,
    starts, groupsRows, cut, typing,
    appServerAlive, taken, closing, reader, lines, wrote, inbox, server,
    appServerPending, calls, sending, folded,
    format, rolloutsFile, torn, view,
    terminalAlive, terminalStream, pumped, ring, written, pump, watch, status,
    kill, relay, woken, news, cursor, terminalHeld, terminalTyped, input,
    user, project, env, flags, resolved, copies, edit, edits,
    tree, branch, detached, stray, base, remote, merging, changes, turn, turns, landing, landed,
    discard,
    content, rememberedFile, tmp, exists, rememberedWindow, restored, waiting,
    rememberedPending, seen, tabs, timer, rememberedSaves, started, rememberedWindows,
    safe, early, met,
    connectFile, connectPage, edited, connectWindow, jar, saving, capturing,
    connectSaves, captures, accidents, told,
    minted, hostedHeld, procs, journal, unwritten, ops, launch, hostedWindows, hostedUp, raced

(* ---- what is assumed of the constants ---- *)

\* A hosted tool has some number of questions, and says some number of pieces.
ASSUME AskBounds == MaxAsks \in Nat /\ MaxDeltas \in Nat

\* No session id is the word for none.
ASSUME SessionIds == "none" \notin Sessions

\* A window saves its tabs some number of times, and a registry has some number of ids.
ASSUME SaveBounds == TabSaves \in Nat
ASSUME RowBounds == HostedRows \in Nat

\* A group is asked for as a list of members, with a prompt for all of them or none.
Tools == {"session", "claude", "codex", "pi"}
StartChoices == {"model", "effort", "permission"}
AMember == [tool : Tools, app : BOOLEAN, chosen : SUBSET StartChoices]
ASSUME GroupBounds ==
    /\ MaxRows \in Nat
    /\ \A q \in Requests : q.members \in Seq(AMember) /\ q.prompt \in BOOLEAN

(* ---- a first and a last ---- *)

\* Among some numbers there is a first.
LEMMA FirstOf ==
    ASSUME NEW T \in SUBSET Nat, T # {}
    PROVE  \E k \in T : \A j \in T : k <= j
<1> DEFINE R == OpToRel(<, Nat)
<1>1. IsWellFoundedOn(R, Nat)
  BY NatLessThanWellFounded
<1>2. PICK k \in T : \A j \in T : <<j, k>> \notin R
  <2> HIDE DEF R
  <2> QED BY <1>1, WFMin
<1>3. \A j \in T : j < k => <<j, k>> \in R
  BY DEF OpToRel
<1> HIDE DEF R
<1>4. k \in Nat /\ \A j \in T : j \in Nat /\ ~(j < k)
  BY <1>2, <1>3
<1> QED BY <1>4

\* Among the places of a sequence there is a last.
LEMMA LastOf ==
  ASSUME NEW n \in Nat, NEW T \in SUBSET (1..n), T # {}
  PROVE  \E k \in T : \A j \in T : j <= k
<1> DEFINE U == {u \in Nat : \E j \in T : u = n - j}
<1>1. U \in SUBSET Nat /\ U # {}
  <2>1. PICK j \in T : TRUE
    OBVIOUS
  <2>2. n - j \in Nat
    OBVIOUS
  <2> QED BY <2>2
<1>2. PICK u \in U : \A v \in U : u <= v
  <2> HIDE DEF U
  <2> QED BY <1>1, FirstOf
<1>3. PICK k \in T : u = n - k
  BY <1>2
<1>4. ASSUME NEW j \in T PROVE j <= k
  <2>1. n - j \in Nat
    OBVIOUS
  <2>2. n - k <= n - j
    BY <1>2, <1>3, <2>1
  <2> QED BY <2>2
<1> QED BY <1>3, <1>4

(* ---- what a window remembers ---- *)

\* Windows, one after the other, save their tabs.
Remembered == INSTANCE Remembered WITH
    MaxSaves <- TabSaves, MaxWindows <- TabWindows, file <- rememberedFile,
    window <- rememberedWindow, pending <- rememberedPending,
    saves <- rememberedSaves, windows <- rememberedWindows

\* The files that have a name are some that were made.
FilesAreCounted ==
    /\ started \in 0..TabSaves
    /\ content = [i \in 0..TabSaves |-> content[i]]
    /\ rememberedFile \in 0..started \union {Remembered!None} /\ tmp \in 0..started \union {Remembered!None}

\* Saves and the timer are of an open window that has read the file; tabs are held back
\* from then to the first snapshot.
SavesAreOfAWindow ==
    /\ \A s \in rememberedSaves :
          /\ s = [id |-> s.id, tabs |-> s.tabs, at |-> s.at, to |-> s.to]
          /\ s.id \in 1..started
          /\ s.at \in {"open", "write", "rename"}
    /\ rememberedSaves # {} \/ timer => rememberedWindow /\ restored
    /\ waiting => restored /\ ~seen
    /\ rememberedWindow /\ restored /\ ~seen => waiting
    /\ ~waiting => rememberedPending = {}

\* What holds while no two saves met and no save overtook the tabs.
SaveIsAlone ==
    /\ \A r, s \in rememberedSaves : r = s
    /\ \A s \in rememberedSaves :
          /\ safe \subseteq s.tabs
          /\ s.at = "open" => s.id # rememberedFile /\ s.id # tmp
          /\ s.at # "open" => s.to = tmp /\ tmp # Remembered!None
          /\ s.at = "write" => content[tmp] = Remembered!Empty
          /\ s.at = "rename" => content[tmp] = Remembered!Written(s.tabs)
    /\ waiting /\ rememberedPending # {} => rememberedSaves = {}
    /\ tmp # Remembered!None => tmp # rememberedFile

\* What was saved is on the disk and in the window, or held back there.
SafeIsThere ==
    /\ safe # {} => ~Remembered!Lost(safe)
    /\ rememberedWindow /\ restored /\ seen => safe \subseteq tabs
    /\ rememberedWindow /\ waiting => safe \subseteq IF rememberedPending = {} THEN tabs ELSE rememberedPending

\* All of it; the last two while no two saves met and no save overtook the tabs.
RememberedInv ==
    /\ FilesAreCounted /\ SavesAreOfAWindow /\ safe \subseteq exists
    /\ ~early /\ ~met => SaveIsAlone /\ SafeIsThere

\* The file of an earlier window, damaged or not, or none.
LEMMA RememberedStarts == Remembered!Init => RememberedInv
<1> SUFFICES ASSUME Remembered!Init PROVE RememberedInv
  OBVIOUS
<1>1. /\ tmp = Remembered!None /\ rememberedSaves = {} /\ started = 0 /\ ~rememberedWindow /\ ~restored /\ ~waiting /\ rememberedPending = {} /\ ~seen
      /\ ~timer
  BY DEF Remembered!Init
<1>2. /\ content = [i \in 0..TabSaves |-> content[i]]
      /\ rememberedFile \in {0, Remembered!None}
  BY DEF Remembered!Init
<1>3. /\ safe \subseteq exists
      /\ safe # {} => ~Remembered!Lost(safe)
  <2>1. CASE rememberedFile = Remembered!None
    <3>1. rememberedFile # 0
      BY <2>1, SaveBounds DEF Remembered!None
    <3>2. safe = {}
      BY <3>1 DEF Remembered!Init
    <3> QED BY <3>2
  <2>2. CASE rememberedFile = 0
    <3>1. rememberedFile # Remembered!None
      BY <2>2, SaveBounds DEF Remembered!None
    <3>2. safe = content[0].tabs \intersect exists
      BY <2>2 DEF Remembered!Init
    <3>3. content[0].kind = "whole"
      <4>1. PICK ts \in SUBSET Tabs, sizes \in {"ok", "bad"} :
              content = [i \in 0..TabSaves |-> IF i = 0 THEN [Remembered!Written(ts) EXCEPT !.sizes = sizes] ELSE Remembered!Empty]
        BY <3>1 DEF Remembered!Init
      <4>2. content[0] = [Remembered!Written(ts) EXCEPT !.sizes = sizes]
        BY <4>1, SaveBounds
      <4> QED BY <4>2 DEF Remembered!Written
    <3> QED BY <2>2, <3>1, <3>2, <3>3 DEF Remembered!Lost
  <2> QED BY <1>2, <2>1, <2>2
<1> QED BY <1>1, <1>2, <1>3, SaveBounds
    DEF RememberedInv, FilesAreCounted, SavesAreOfAWindow, SaveIsAlone, SafeIsThere

\* What a step sets of a save.
LEMMA SaveSet ==
  ASSUME NEW s, NEW id, NEW ts, NEW was, NEW in, s = [id |-> id, tabs |-> ts, at |-> was, to |-> in]
  PROVE  /\ \A at : [s EXCEPT !.at = at] = [id |-> id, tabs |-> ts, at |-> at, to |-> in]
         /\ \A to : [s EXCEPT !.to = to] = [id |-> id, tabs |-> ts, at |-> was, to |-> to]
OBVIOUS

\* A save under way takes a step: what becomes of the saves.
LEMMA SavesGo ==
  ASSUME RememberedInv, NEW s \in rememberedSaves, NEW at, NEW to, Remembered!Goes(s, at, to)
  PROVE  rememberedSaves' = (rememberedSaves \ {s}) \union {[id |-> s.id, tabs |-> s.tabs, at |-> at, to |-> to]}
<1>1. s = [id |-> s.id, tabs |-> s.tabs, at |-> s.at, to |-> s.to]
  BY DEF RememberedInv, SavesAreOfAWindow
<1> PICK y : y = [s EXCEPT !.at = at]
  OBVIOUS
<1>2. y = [id |-> s.id, tabs |-> s.tabs, at |-> at, to |-> s.to]
  BY <1>1
<1>3. [y EXCEPT !.to = to] = [id |-> s.id, tabs |-> s.tabs, at |-> at, to |-> to]
  BY ONLY <1>2
<1>4. rememberedSaves' = (rememberedSaves \ {s}) \union {[s EXCEPT !.at = at, !.to = to]}
  BY Zenon DEF Remembered!Goes
<1>5. [s EXCEPT !.at = at, !.to = to] = [[s EXCEPT !.at = at] EXCEPT !.to = to]
  BY ONLY TRUE
<1> QED BY <1>3, <1>4, <1>5, Zenon

\* The file is what it was and no save ends: what is safe is on it still.
LEMMA StillThere ==
  ASSUME RememberedInv, UNCHANGED <<content, rememberedFile>>, safe' \subseteq safe, safe # {} => ~Remembered!Lost(safe)
  PROVE  safe' # {} => ~Remembered!Lost(safe')
BY DEF Remembered!Lost

\* What is safe is in what a window reads.
LEMMA LoadHasIt ==
  ASSUME safe # {} => ~Remembered!Lost(safe)
  PROVE  safe \subseteq Remembered!load
BY DEF Remembered!Lost, Remembered!load, Remembered!salvage

\* Windows, people and saves keep it.
LEMMA RememberedSteps == RememberedInv /\ [Remembered!Next]_(Remembered!vars) => RememberedInv'
<1> SUFFICES ASSUME RememberedInv, [Remembered!Next]_(Remembered!vars) PROVE RememberedInv'
  OBVIOUS
<1>0. /\ FilesAreCounted /\ SavesAreOfAWindow /\ safe \subseteq exists
      /\ ~early /\ ~met => SaveIsAlone /\ SafeIsThere
  BY DEF RememberedInv
<1>n. started \in 0..TabSaves /\ rememberedFile \in 0..started \union {Remembered!None} /\ tmp \in 0..started \union {Remembered!None}
  BY <1>0 DEF FilesAreCounted
<1>c. content = [i \in 0..TabSaves |-> content[i]]
  BY <1>0 DEF FilesAreCounted
<1> USE DEF RememberedInv, SavesAreOfAWindow, Remembered!disk, Remembered!looking
<1>1. CASE Remembered!OpenWindow
  <2>1. rememberedSaves = {} /\ rememberedSaves' = {}
    BY <1>0, <1>1 DEF Remembered!OpenWindow
  <2>2. FilesAreCounted' /\ SavesAreOfAWindow' /\ safe' \subseteq exists'
    BY <1>0, <1>1, <2>1 DEF Remembered!OpenWindow, FilesAreCounted
  <2>3. ASSUME ~early', ~met' PROVE SaveIsAlone' /\ SafeIsThere'
    <3>1. (safe # {} => ~Remembered!Lost(safe)) /\ (tmp # Remembered!None => tmp # rememberedFile)
      BY <1>0, <1>1, <2>3 DEF Remembered!OpenWindow, SafeIsThere, SaveIsAlone
    <3> QED BY <1>1, <2>1, <3>1 DEF Remembered!OpenWindow, SaveIsAlone, SafeIsThere, Remembered!Lost
  <2> QED BY <2>2, <2>3
<1>2. CASE Remembered!Close
  <2>1. rememberedSaves' = {}
    BY <1>2 DEF Remembered!Close
  <2>2. FilesAreCounted' /\ SavesAreOfAWindow' /\ safe' \subseteq exists'
    BY <1>0, <1>2, <2>1 DEF Remembered!Close, FilesAreCounted
  <2>3. ASSUME ~early', ~met' PROVE SaveIsAlone' /\ SafeIsThere'
    <3>1. (safe # {} => ~Remembered!Lost(safe)) /\ (tmp # Remembered!None => tmp # rememberedFile)
      BY <1>0, <1>2, <2>3 DEF Remembered!Close, SafeIsThere, SaveIsAlone
    <3> QED BY <1>2, <2>1, <3>1 DEF Remembered!Close, SaveIsAlone, SafeIsThere, Remembered!Lost
  <2> QED BY <2>2, <2>3
<1>3. CASE Remembered!ReadsFile
  <2>1. rememberedSaves = {}
    BY <1>0, <1>3 DEF Remembered!ReadsFile
  <2>2. FilesAreCounted' /\ SavesAreOfAWindow' /\ safe' \subseteq exists'
    BY <1>0, <1>3, <2>1 DEF Remembered!ReadsFile, FilesAreCounted
  <2>3. ASSUME ~early', ~met' PROVE SaveIsAlone' /\ SafeIsThere'
    <3>1. ~early /\ ~met
      BY <1>3, <2>3 DEF Remembered!ReadsFile
    <3>2. (safe # {} => ~Remembered!Lost(safe)) /\ (tmp # Remembered!None => tmp # rememberedFile)
      BY <1>0, <3>1 DEF SafeIsThere, SaveIsAlone
    <3>3. safe \subseteq Remembered!load
      BY <3>2, LoadHasIt
    <3>4. SaveIsAlone'
      BY <1>3, <2>1, <3>2 DEF Remembered!ReadsFile, SaveIsAlone
    <3>5. safe' # {} => ~Remembered!Lost(safe)'
      BY <1>3, <3>2 DEF Remembered!ReadsFile, Remembered!Lost
    <3>6. CASE seen
      <4>1. tabs' = Remembered!Back(Remembered!load) /\ ~Remembered!Overtaken(Remembered!load)
        BY <1>3, <2>3, <3>6 DEF Remembered!ReadsFile
      <4>2. safe \subseteq tabs'
        BY <1>0, <3>3, <4>1 DEF Remembered!Back, Remembered!Overtaken
      <4> QED BY <1>0, <1>3, <3>4, <3>5, <3>6, <4>2 DEF Remembered!ReadsFile, SafeIsThere
    <3>7. CASE ~seen
      <4>1. rememberedPending' = Remembered!load /\ seen' = seen /\ safe' = safe
        BY <1>3, <3>7 DEF Remembered!ReadsFile
      <4> QED BY <3>3, <3>4, <3>5, <3>7, <4>1 DEF SafeIsThere
    <3> QED BY <3>6, <3>7
  <2> QED BY <2>2, <2>3
<1>4. CASE Remembered!FirstSnapshot
  <2>2. FilesAreCounted' /\ SavesAreOfAWindow' /\ safe' \subseteq exists'
    <3>1. rememberedSaves' # {} \/ timer' => rememberedWindow' /\ restored'
      BY <1>0, <1>4 DEF Remembered!FirstSnapshot
    <3> QED BY <1>0, <1>4, <3>1 DEF Remembered!FirstSnapshot, FilesAreCounted
  <2>3. ASSUME ~early', ~met' PROVE SaveIsAlone' /\ SafeIsThere'
    <3>1. ~early /\ ~met
      BY <1>4, <2>3 DEF Remembered!FirstSnapshot
    <3>2. SaveIsAlone /\ SafeIsThere
      BY <1>0, <3>1
    <3>3. SaveIsAlone'
      BY <1>4, <3>2 DEF Remembered!FirstSnapshot, SaveIsAlone, Remembered!Empty, Remembered!Written
    <3>4. safe' # {} => ~Remembered!Lost(safe)'
      BY <1>4, <3>2 DEF Remembered!FirstSnapshot, Remembered!Lost, SafeIsThere
    <3>5. restored => waiting
      BY <1>0, <1>4 DEF Remembered!FirstSnapshot
    <3>6. ASSUME waiting PROVE safe \subseteq tabs'
      <4>1. tabs' = Remembered!Back(rememberedPending) /\ ~Remembered!Overtaken(rememberedPending)
        BY <1>4, <2>3, <3>6 DEF Remembered!FirstSnapshot
      <4>2. safe \subseteq IF rememberedPending = {} THEN tabs ELSE rememberedPending
        BY <1>4, <3>2, <3>6 DEF Remembered!FirstSnapshot, SafeIsThere
      <4> QED BY <1>0, <4>1, <4>2 DEF Remembered!Back, Remembered!Overtaken
    <3> QED BY <1>4, <3>3, <3>4, <3>5, <3>6 DEF Remembered!FirstSnapshot, SafeIsThere
  <2> QED BY <2>2, <2>3
<1>5. CASE Remembered!Fire
  <2> PICK f : f = [id |-> started + 1, tabs |-> tabs, at |-> "open", to |-> Remembered!None]
    OBVIOUS
  <2>1. started' = started + 1 /\ rememberedSaves' = rememberedSaves \union {f}
    BY <1>5 DEF Remembered!Fire
  <2>2. FilesAreCounted' /\ SavesAreOfAWindow' /\ safe' \subseteq exists'
    <3>1. started \in 0..TabSaves /\ started' \in 0..TabSaves
      BY <1>0, <1>5, SaveBounds DEF Remembered!Fire, FilesAreCounted
    <3>2. FilesAreCounted'
      BY <1>0, <1>5, <3>1, <2>1 DEF Remembered!Fire, FilesAreCounted, Remembered!None
    <3>3. \A s \in rememberedSaves' :
             /\ s = [id |-> s.id, tabs |-> s.tabs, at |-> s.at, to |-> s.to]
             /\ s.id \in 1..started'
             /\ s.at \in {"open", "write", "rename"}
      <4>1. /\ f = [id |-> f.id, tabs |-> f.tabs, at |-> f.at, to |-> f.to]
            /\ f.id \in 1..started' /\ f.at = "open"
        BY <3>1, <2>1
      <4>2. \A s \in rememberedSaves :
             /\ s = [id |-> s.id, tabs |-> s.tabs, at |-> s.at, to |-> s.to]
             /\ s.id \in 1..started'
             /\ s.at \in {"open", "write", "rename"}
        BY <1>0, <3>1, <2>1
      <4> QED BY <2>1, <4>1, <4>2
    <3>4. restored /\ rememberedWindow
      BY <1>0, <1>5 DEF Remembered!Fire
    <3> QED BY <1>0, <1>5, <3>2, <3>3, <3>4 DEF Remembered!Fire
  <2>3. ASSUME ~early', ~met' PROVE SaveIsAlone' /\ SafeIsThere'
    <3>1. ~early /\ ~met /\ rememberedSaves = {} /\ (waiting => rememberedPending = {})
      BY <1>5, <2>3 DEF Remembered!Fire
    <3>2. SafeIsThere
      BY <1>0, <3>1
    <3>3. safe \subseteq tabs
      BY <1>0, <1>5, <3>1, <3>2 DEF Remembered!Fire, SafeIsThere
    <3>4. f.tabs = tabs /\ f.at = "open" /\ f.id = started + 1
      OBVIOUS
    <3>5. f.id # rememberedFile /\ f.id # tmp
      BY <1>0, <1>5, <3>4, SaveBounds DEF Remembered!Fire, FilesAreCounted, Remembered!None
    <3>6. SaveIsAlone'
      BY <1>5, <2>1, <3>1, <3>3, <3>4, <3>5 DEF Remembered!Fire, SaveIsAlone
    <3> QED BY <1>5, <3>2, <3>6 DEF Remembered!Fire, SafeIsThere, Remembered!Lost
  <2> QED BY <2>2, <2>3
<1>6. ASSUME NEW t \in Tabs, Remembered!OpenTab(t) PROVE RememberedInv'
  <2>1. tabs' = tabs \union {t} /\ exists' = exists \union {t} /\ timer' = restored
    BY <1>6 DEF Remembered!OpenTab
  <2>2. UNCHANGED <<content, rememberedFile, tmp, rememberedWindow, restored, waiting, rememberedPending, seen, rememberedSaves, started, safe, early, met>>
    BY <1>6 DEF Remembered!OpenTab
  <2>3. FilesAreCounted' /\ SavesAreOfAWindow' /\ safe' \subseteq exists'
    BY <1>0, <1>6, <2>1, <2>2 DEF FilesAreCounted, Remembered!OpenTab
  <2>4. ASSUME ~early', ~met' PROVE SaveIsAlone' /\ SafeIsThere'
    <3>1. SaveIsAlone /\ SafeIsThere
      BY <1>0, <2>2, <2>4
    <3>2. SaveIsAlone'
      BY <2>2, <3>1 DEF SaveIsAlone
    <3> QED BY <2>1, <2>2, <3>1, <3>2 DEF SafeIsThere, Remembered!Lost
  <2> QED BY <2>3, <2>4
<1>7. ASSUME NEW t \in Tabs, Remembered!CloseTab(t) PROVE RememberedInv'
  <2>1. tabs' = tabs \ {t} /\ safe' = safe \ {t} /\ timer' = restored
    BY <1>7 DEF Remembered!CloseTab
  <2>2. UNCHANGED <<content, rememberedFile, tmp, exists, rememberedWindow, restored, waiting, rememberedPending, seen, rememberedSaves, started, early, met>>
    BY <1>7 DEF Remembered!CloseTab
  <2>3. FilesAreCounted' /\ SavesAreOfAWindow' /\ safe' \subseteq exists'
    BY <1>0, <1>7, <2>1, <2>2 DEF FilesAreCounted, Remembered!CloseTab
  <2>4. ASSUME ~early', ~met' PROVE SaveIsAlone' /\ SafeIsThere'
    <3>1. SaveIsAlone /\ SafeIsThere
      BY <1>0, <2>2, <2>4
    <3>2. SaveIsAlone'
      BY <2>1, <2>2, <3>1 DEF SaveIsAlone
    <3> QED BY <2>1, <2>2, <3>1, <3>2 DEF SafeIsThere, Remembered!Lost
  <2> QED BY <2>3, <2>4
<1>8. ASSUME NEW t \in Tabs, Remembered!Gone(t) PROVE RememberedInv'
  <2>1. exists' = exists \ {t} /\ safe' = safe \ {t}
    BY <1>8 DEF Remembered!Gone
  <2>2. UNCHANGED <<content, rememberedFile, tmp, rememberedWindow, restored, waiting, rememberedPending, seen, tabs, timer, rememberedSaves, started, early, met>>
    BY <1>8 DEF Remembered!Gone
  <2>3. FilesAreCounted' /\ SavesAreOfAWindow' /\ safe' \subseteq exists'
    BY <1>0, <2>1, <2>2 DEF FilesAreCounted
  <2>4. ASSUME ~early', ~met' PROVE SaveIsAlone' /\ SafeIsThere'
    <3>1. SaveIsAlone /\ SafeIsThere
      BY <1>0, <2>2, <2>4
    <3>2. SaveIsAlone'
      BY <2>1, <2>2, <3>1 DEF SaveIsAlone
    <3> QED BY <2>1, <2>2, <3>1, <3>2 DEF SafeIsThere, Remembered!Lost
  <2> QED BY <2>3, <2>4
<1>9. ASSUME NEW s \in rememberedSaves, Remembered!OpenTmp(s) PROVE RememberedInv'
  <2> PICK g : g = [id |-> s.id, tabs |-> s.tabs, at |-> "write", to |-> Remembered!Target(s)]
    OBVIOUS
  <2>1. rememberedSaves' = (rememberedSaves \ {s}) \union {g}
    BY <1>9, SavesGo DEF Remembered!OpenTmp
  <2>2. /\ g = [id |-> g.id, tabs |-> g.tabs, at |-> g.at, to |-> g.to]
        /\ g.id = s.id /\ g.tabs = s.tabs /\ g.at = "write" /\ g.to = Remembered!Target(s)
    OBVIOUS
  <2>3. /\ content' = [content EXCEPT ![Remembered!Target(s)] = Remembered!Empty] /\ tmp' = Remembered!Target(s) /\ s.at = "open"
        /\ UNCHANGED <<rememberedFile, exists, rememberedWindow, restored, waiting, rememberedPending, seen, tabs, timer, started, safe, early, met>>
    BY <1>9 DEF Remembered!OpenTmp
  <2>4. Remembered!Target(s) \in 0..started /\ started \in 0..TabSaves /\ Remembered!Target(s) # Remembered!None
    BY <1>0, SaveBounds DEF Remembered!Target, FilesAreCounted, Remembered!None
  <2>5. content' = [i \in 0..TabSaves |-> content'[i]]
    BY <1>0, <2>3 DEF FilesAreCounted
  <2>6. content'[Remembered!Target(s)] = Remembered!Empty /\ \A i \in 0..TabSaves \ {Remembered!Target(s)} : content'[i] = content[i]
    <3>1. Remembered!Target(s) \in 0..TabSaves
      BY <2>4, SaveBounds
    <3> QED BY ONLY <1>c, <2>3, <3>1
  <2>7. SavesAreOfAWindow' /\ safe' \subseteq exists'
    BY <1>0, <2>1, <2>2, <2>3
  <2>8. FilesAreCounted'
    BY <1>0, <2>3, <2>4, <2>5 DEF FilesAreCounted
  <2>9. ASSUME ~early', ~met' PROVE SaveIsAlone' /\ SafeIsThere'
    <3>1. SaveIsAlone /\ SafeIsThere
      BY <1>0, <2>3, <2>9
    <3>2. Remembered!Target(s) # rememberedFile
      BY <2>3, <3>1 DEF SaveIsAlone, Remembered!Target
    <3>3. rememberedSaves' = {g} /\ safe \subseteq g.tabs
      BY <2>1, <2>2, <3>1 DEF SaveIsAlone
    <3>4. SaveIsAlone'
      BY <2>2, <2>3, <2>4, <2>6, <3>1, <3>2, <3>3 DEF SaveIsAlone
    <3>5. ASSUME safe # {} PROVE ~Remembered!Lost(safe)'
      <4>1. rememberedFile # Remembered!None /\ rememberedFile \in 0..TabSaves
        <5>1. rememberedFile # Remembered!None
          BY <3>1, <3>5 DEF SafeIsThere, Remembered!Lost
        <5> QED BY <1>n, <5>1, SaveBounds
      <4>2. content'[rememberedFile] = content[rememberedFile]
        BY <2>6, <3>2, <4>1
      <4> QED BY <2>3, <3>1, <3>5, <4>1, <4>2 DEF SafeIsThere, Remembered!Lost
    <3> QED BY <2>3, <3>1, <3>4, <3>5 DEF SafeIsThere, Remembered!Lost
  <2> QED BY <2>7, <2>8, <2>9
<1>10. ASSUME NEW s \in rememberedSaves, Remembered!WriteTmp(s) PROVE RememberedInv'
  <2> PICK g : g = [id |-> s.id, tabs |-> s.tabs, at |-> "rename", to |-> s.to]
    OBVIOUS
  <2>1. rememberedSaves' = (rememberedSaves \ {s}) \union {g}
    BY <1>10, SavesGo DEF Remembered!WriteTmp
  <2>2. /\ g = [id |-> g.id, tabs |-> g.tabs, at |-> g.at, to |-> g.to]
        /\ g.id = s.id /\ g.tabs = s.tabs /\ g.at = "rename" /\ g.to = s.to
    OBVIOUS
  <2>3. PICK c \in IF content[s.to].kind = "empty" THEN {Remembered!Written(s.tabs)} ELSE {Remembered!Written(s.tabs), Remembered!Mixed} :
          content' = [content EXCEPT ![s.to] = c]
    BY <1>10 DEF Remembered!WriteTmp
  <2>4. /\ s.at = "write"
        /\ UNCHANGED <<rememberedFile, tmp, exists, rememberedWindow, restored, waiting, rememberedPending, seen, tabs, timer, started, safe, early, met>>
    BY <1>10 DEF Remembered!WriteTmp
  <2>5. content' = [i \in 0..TabSaves |-> content'[i]]
    BY <1>0, <2>3 DEF FilesAreCounted
  <2>6. /\ s.to \in 0..TabSaves => content'[s.to] = c
        /\ \A i \in 0..TabSaves \ {s.to} : content'[i] = content[i]
    BY <1>0, <2>3 DEF FilesAreCounted
  <2>7. SavesAreOfAWindow' /\ safe' \subseteq exists'
    BY <1>0, <2>1, <2>2, <2>4
  <2>8. FilesAreCounted'
    BY <1>0, <2>4, <2>5 DEF FilesAreCounted
  <2>9. ASSUME ~early', ~met' PROVE SaveIsAlone' /\ SafeIsThere'
    <3>1. SaveIsAlone /\ SafeIsThere
      BY <1>0, <2>4, <2>9
    <3>2. s.to = tmp /\ tmp # Remembered!None /\ s.to # rememberedFile /\ content[s.to] = Remembered!Empty
      BY <2>4, <3>1 DEF SaveIsAlone
    <3>3. rememberedSaves' = {g} /\ safe \subseteq g.tabs
      BY <2>1, <2>2, <3>1 DEF SaveIsAlone
    <3>4. s.to \in 0..TabSaves /\ started \in 0..TabSaves
      BY <1>0, <3>2, SaveBounds DEF FilesAreCounted
    <3>5. c = Remembered!Written(s.tabs)
      <4>1. content[s.to].kind = "empty"
        BY <3>2 DEF Remembered!Empty
      <4> QED BY <2>3, <4>1
    <3>6. SaveIsAlone'
      BY <2>2, <2>4, <2>6, <3>1, <3>2, <3>3, <3>4, <3>5 DEF SaveIsAlone
    <3>7. ASSUME safe # {} PROVE ~Remembered!Lost(safe)'
      <4>1. rememberedFile # Remembered!None /\ rememberedFile \in 0..TabSaves
        <5>1. rememberedFile # Remembered!None
          BY <3>1, <3>7 DEF SafeIsThere, Remembered!Lost
        <5> QED BY <1>n, <5>1, SaveBounds
      <4>2. content'[rememberedFile] = content[rememberedFile]
        BY <2>6, <3>2, <4>1
      <4> QED BY <2>4, <3>1, <3>7, <4>1, <4>2 DEF SafeIsThere, Remembered!Lost
    <3> QED BY <2>4, <3>1, <3>6, <3>7 DEF SafeIsThere, Remembered!Lost
  <2> QED BY <2>7, <2>8, <2>9
<1>11. ASSUME NEW s \in rememberedSaves, Remembered!Rename(s) PROVE RememberedInv'
  <2>1. /\ s.at = "rename" /\ rememberedSaves' = rememberedSaves \ {s}
        /\ UNCHANGED <<content, exists, rememberedWindow, restored, waiting, rememberedPending, seen, tabs, timer, started, early, met>>
    BY <1>11 DEF Remembered!Rename
  <2>2. \/ tmp = Remembered!None /\ UNCHANGED <<rememberedFile, tmp, safe>>
        \/ tmp # Remembered!None /\ rememberedFile' = tmp /\ tmp' = Remembered!None /\ safe' = safe \union (s.tabs \intersect exists \intersect tabs)
    BY <1>11 DEF Remembered!Rename
  <2>3. FilesAreCounted' /\ SavesAreOfAWindow' /\ safe' \subseteq exists'
    <3>1. FilesAreCounted'
      BY <1>0, <2>1, <2>2 DEF FilesAreCounted, Remembered!None
    <3> QED BY <1>0, <2>1, <2>2, <3>1
  <2>4. ASSUME ~early', ~met' PROVE SaveIsAlone' /\ SafeIsThere'
    <3>1. SaveIsAlone /\ SafeIsThere
      BY <1>0, <2>1, <2>4
    <3>2. /\ tmp # Remembered!None /\ content[tmp] = Remembered!Written(s.tabs) /\ safe \subseteq s.tabs
          /\ rememberedSaves' = {}
      BY <2>1, <3>1 DEF SaveIsAlone
    <3>3. /\ rememberedFile' = tmp /\ tmp' = Remembered!None /\ safe' = safe \union (s.tabs \intersect exists \intersect tabs)
      BY <2>2, <3>2
    <3>4. ~Remembered!Lost(safe)'
      <4>1. content'[rememberedFile'].kind = "whole" /\ content'[rememberedFile'].tabs = s.tabs
        BY <2>1, <3>2, <3>3 DEF Remembered!Written
      <4>2. safe' \subseteq s.tabs
        BY <3>2, <3>3
      <4>3. rememberedFile' # Remembered!None
        BY <3>2, <3>3
      <4> QED BY <4>1, <4>2, <4>3 DEF Remembered!Lost, Remembered!None
    <3>5. waiting => rememberedPending = {}
      BY <3>1 DEF SaveIsAlone
    <3>6. SaveIsAlone'
      BY <3>2, <3>3 DEF SaveIsAlone, Remembered!None
    <3> QED BY <2>1, <3>1, <3>3, <3>4, <3>5, <3>6 DEF SafeIsThere
  <2> QED BY <2>3, <2>4
<1>12. CASE UNCHANGED Remembered!vars
  BY <1>0, <1>12 DEF Remembered!vars, FilesAreCounted, SaveIsAlone, SafeIsThere, Remembered!Lost
<1> HIDE DEF RememberedInv, SavesAreOfAWindow, Remembered!disk, Remembered!looking
<1> QED BY <1>1, <1>2, <1>3, <1>4, <1>5, <1>6, <1>7, <1>8, <1>9, <1>10, <1>11, <1>12 DEF
   Remembered!Next

\* window_state.rs:3, App.tsx:438: a tab that was saved is on the disk and in the window
\* until it is closed or gone, where neither two saves met nor one overtook the tabs.
THEOREM RememberedHolds == Remembered!Spec => []Remembered!TabsAreKept
<1>1. RememberedInv => Remembered!TabsAreKept
  BY DEF RememberedInv, SafeIsThere, Remembered!TabsAreKept
<1> QED BY RememberedStarts, RememberedSteps, <1>1, PTL DEF Remembered!Spec

(* ---- the quota tray's credentials ---- *)

\* Saves of a settings page beside the captures of sign-ins.
Connect == INSTANCE Connect WITH
    MaxSaves <- PageSaves, file <- connectFile, page <- connectPage,
    window <- connectWindow, saves <- connectSaves

\* What a config file has of each provider.
Entries(e) ==
    /\ e = [p \in Providers |-> e[p]]
    /\ \A p \in Providers : e[p] = [credential |-> e[p].credential, extras |-> e[p].extras]
\* A command has its fields.
CommandShape(c) == c = [step |-> c.step, id |-> c.id, header |-> c.header, read |-> c.read]
\* Everything has its fields, and a command under way has a page or a provider.
ConnectShapes ==
    /\ connectFile = [state |-> connectFile.state, entries |-> connectFile.entries] /\ Entries(connectFile.entries)
    /\ told = [given |-> told.given, behind |-> told.behind, disturbed |-> told.disturbed, unreached |-> told.unreached]
    /\ told.given = [p \in Providers |-> told.given[p]]
    /\ told.disturbed \in BOOLEAN /\ told.unreached \in BOOLEAN
    /\ connectPage # Connect!Blank => connectPage = [p \in Providers |-> connectPage[p]]
    /\ CommandShape(saving) /\ Entries(saving.read)
    /\ CommandShape(capturing) /\ Entries(capturing.read)
    /\ saving # Connect!Idle => connectPage # Connect!Blank
    /\ capturing # Connect!Idle => capturing.id \in Providers
    /\ capturing = Connect!Idle \/ capturing.step \in {"proving", "loaded"}

\* While no two commands met: the file, what a command read of it, and a page that
\* is not older than a capture, have what was given.
NothingMet ==
    /\ connectFile.state = "whole"
    /\ \A p \in Providers : connectFile.entries[p].credential = told.given[p] /\ connectFile.entries[p].extras
    /\ connectPage # Connect!Blank /\ told.behind = {} => \A p \in Providers \ edited : connectPage[p] = told.given[p]
    /\ saving # Connect!Idle => \A p \in Providers : saving.read[p].extras
    /\ capturing.step = "loaded" => capturing.read = connectFile.entries

\* While every provider could be asked: no cookies of a handshake are on file, on the
\* page, in what a command read, nor about to be written.
AllProved ==
    /\ \A p \in Providers :
          /\ connectFile.entries[p].credential # "handshake"
          /\ connectPage # Connect!Blank => connectPage[p] # "handshake"
          /\ saving.read[p].credential # "handshake"
          /\ capturing.read[p].credential # "handshake"
    /\ capturing.step = "loaded" => capturing.header = "session"

\* All of it.
ConnectInv ==
    /\ ConnectShapes
    /\ ~told.disturbed => NothingMet
    /\ ~told.unreached => AllProved

LEMMA FreshIs == Entries(Connect!Fresh) /\ \A p \in Providers : Connect!Fresh[p].credential = "none"
<1> PICK no \in BOOLEAN : no = FALSE
  OBVIOUS
<1>1. Connect!Fresh = [p \in Providers |-> [credential |-> "none", extras |-> no]]
  BY DEF Connect!Fresh, Connect!Entry
<1> QED BY ONLY <1>1 DEF Entries

LEMMA IdleIs == CommandShape(Connect!Idle) /\ Connect!Idle.step = "idle" /\ Connect!Idle.read = Connect!Fresh
BY DEF CommandShape, Connect!Idle

\* A field set in an entry leaves the rest of it and the other entries alone.
LEMMA PatchedIs ==
  ASSUME NEW e, Entries(e), NEW changed
  PROVE  /\ Entries(Connect!Patched(e, changed))
         /\ \A p \in Providers :
               /\ Connect!Patched(e, changed)[p].credential = IF p \in DOMAIN changed THEN changed[p] ELSE e[p].credential
               /\ Connect!Patched(e, changed)[p].extras = e[p].extras
<1> PICK f : f = Connect!Patched(e, changed)
  OBVIOUS
<1>1. f = [p \in Providers |-> IF p \in DOMAIN changed THEN [e[p] EXCEPT !.credential = changed[p]] ELSE e[p]]
  BY DEF Connect!Patched
<1>2. ASSUME NEW p \in Providers
      PROVE  /\ f[p] = [credential |-> f[p].credential, extras |-> f[p].extras]
             /\ f[p].credential = IF p \in DOMAIN changed THEN changed[p] ELSE e[p].credential
             /\ f[p].extras = e[p].extras
  <2>1. e[p] = [credential |-> e[p].credential, extras |-> e[p].extras]
    BY DEF Entries
  <2>2. [e[p] EXCEPT !.credential = changed[p]] = [credential |-> changed[p], extras |-> e[p].extras]
    BY ONLY <2>1
  <2>3. f[p] = IF p \in DOMAIN changed THEN [credential |-> changed[p], extras |-> e[p].extras]
               ELSE [credential |-> e[p].credential, extras |-> e[p].extras]
    BY <1>1, <2>1, <2>2
  <2> QED BY ONLY <2>3
<1>3. f = [p \in Providers |-> f[p]]
  BY <1>1
<1> QED BY <1>2, <1>3 DEF Entries

LEMMA LoadIs ==
  ASSUME ConnectShapes
  PROVE  Entries(Connect!LoadOrDefault) /\ (connectFile.state = "whole" => Connect!LoadOrDefault = connectFile.entries)
BY FreshIs DEF ConnectShapes, Connect!LoadOrDefault

LEMMA LoadProved ==
  ASSUME AllProved
  PROVE  \A p \in Providers : Connect!LoadOrDefault[p].credential # "handshake"
BY FreshIs DEF AllProved, Connect!LoadOrDefault

\* What a step sets of what is told, and of a command.
LEMMA ToldSet ==
  ASSUME NEW t, NEW g, NEW b, NEW d, NEW u, t = [given |-> g, behind |-> b, disturbed |-> d, unreached |-> u]
  PROVE  /\ \A x : [t EXCEPT !.given = x] = [given |-> x, behind |-> b, disturbed |-> d, unreached |-> u]
         /\ \A x : [t EXCEPT !.behind = x] = [given |-> g, behind |-> x, disturbed |-> d, unreached |-> u]
         /\ \A x : [t EXCEPT !.disturbed = x] = [given |-> g, behind |-> b, disturbed |-> x, unreached |-> u]
         /\ \A x : [t EXCEPT !.unreached = x] = [given |-> g, behind |-> b, disturbed |-> d, unreached |-> x]
OBVIOUS

LEMMA CommandSets ==
  ASSUME NEW c, NEW step, NEW id, NEW header, NEW read,
         c = [step |-> step, id |-> id, header |-> header, read |-> read]
  PROVE  /\ \A x : [c EXCEPT !.step = x] = [step |-> x, id |-> id, header |-> header, read |-> read]
         /\ \A x : [c EXCEPT !.id = x] = [step |-> step, id |-> x, header |-> header, read |-> read]
         /\ \A x : [c EXCEPT !.header = x] = [step |-> step, id |-> id, header |-> x, read |-> read]
         /\ \A x : [c EXCEPT !.read = x] = [step |-> step, id |-> id, header |-> header, read |-> x]
OBVIOUS

\* A command reads the file.
LEMMA CommandReads ==
  ASSUME NEW c, CommandShape(c), NEW step, NEW read
  PROVE  [c EXCEPT !.step = step, !.read = read] = [step |-> step, id |-> c.id, header |-> c.header, read |-> read]
<1> PICK y : y = [c EXCEPT !.step = step]
  OBVIOUS
<1>1. c = [step |-> c.step, id |-> c.id, header |-> c.header, read |-> c.read]
  BY DEF CommandShape
<1>2. y = [step |-> step, id |-> c.id, header |-> c.header, read |-> c.read]
  BY <1>1
<1>3. [y EXCEPT !.read = read] = [step |-> step, id |-> c.id, header |-> c.header, read |-> read]
  BY ONLY <1>2
<1>4. [c EXCEPT !.step = step, !.read = read] = [[c EXCEPT !.step = step] EXCEPT !.read = read]
  BY ONLY TRUE
<1> QED BY <1>3, <1>4, Zenon

\* A file of another client, without credentials.
LEMMA ConnectStarts == Connect!Init => ConnectInv
<1> SUFFICES ASSUME Connect!Init PROVE ConnectInv
  OBVIOUS
<1> PICK yes \in BOOLEAN : yes = TRUE
  OBVIOUS
<1> PICK no \in BOOLEAN : no = FALSE
  OBVIOUS
<1>1. connectFile = [state |-> "whole", entries |-> [p \in Providers |-> [credential |-> "none", extras |-> yes]]]
  BY DEF Connect!Init, Connect!Entry
<1>2. told = [given |-> [p \in Providers |-> "none"], behind |-> {}, disturbed |-> no, unreached |-> no]
  BY DEF Connect!Init
<1>3. connectPage = Connect!Blank /\ saving = Connect!Idle /\ capturing = Connect!Idle
  BY DEF Connect!Init
<1>4. /\ connectFile = [state |-> connectFile.state, entries |-> connectFile.entries] /\ Entries(connectFile.entries) /\ connectFile.state = "whole"
      /\ \A p \in Providers : connectFile.entries[p].credential = "none" /\ connectFile.entries[p].extras
  <2>1. connectFile.entries = [p \in Providers |-> [credential |-> "none", extras |-> yes]]
    BY <1>1
  <2>2. Entries(connectFile.entries)
    BY ONLY <2>1 DEF Entries
  <2> QED BY <1>1, <2>1, <2>2
<1>5. /\ told = [given |-> told.given, behind |-> told.behind, disturbed |-> told.disturbed, unreached |-> told.unreached]
      /\ told.given = [p \in Providers |-> told.given[p]]
      /\ told.disturbed \in BOOLEAN /\ told.unreached \in BOOLEAN
      /\ \A p \in Providers : told.given[p] = "none"
  BY <1>2
<1>6. ConnectShapes
  BY <1>3, <1>4, <1>5, FreshIs, IdleIs DEF ConnectShapes
<1>7. NothingMet
  BY <1>3, <1>4, <1>5, IdleIs DEF NothingMet
<1>8. AllProved
  BY <1>3, <1>4, <1>5, IdleIs, FreshIs DEF AllProved
<1> QED BY <1>6, <1>7, <1>8 DEF ConnectInv

\* The page, the saves, the captures and the accidents keep it.
LEMMA ConnectSteps == ConnectInv /\ [Connect!Next]_(Connect!vars) => ConnectInv'
<1> SUFFICES ASSUME ConnectInv, [Connect!Next]_(Connect!vars) PROVE ConnectInv'
  OBVIOUS
<1>0. ConnectShapes /\ (~told.disturbed => NothingMet) /\ (~told.unreached => AllProved)
  BY DEF ConnectInv
<1>1. CASE Connect!OpenPage
  <2>1. /\ connectPage' = [p \in Providers |-> Connect!LoadOrDefault[p].credential]
        /\ UNCHANGED <<connectFile, saving, capturing, told>> /\ saving = Connect!Idle
    BY <1>0, <1>1 DEF Connect!OpenPage, ConnectShapes
  <2>2. ConnectShapes'
    BY <1>0, <2>1 DEF ConnectShapes, Entries, CommandShape, Connect!Idle, Connect!Fresh
  <2>3. ~told'.disturbed => NothingMet'
    BY <1>0, <2>1, LoadIs DEF NothingMet, Connect!Idle, Connect!Fresh
  <2>4. ~told'.unreached => AllProved'
    BY <1>0, <2>1, LoadProved DEF AllProved, Connect!Blank
  <2> QED BY <2>2, <2>3, <2>4 DEF ConnectInv
<1>2. ASSUME NEW p \in Providers, Connect!Paste(p) PROVE ConnectInv'
  <2>1. /\ connectPage # Connect!Blank /\ connectPage' = [connectPage EXCEPT ![p] = "pasted"] /\ edited' = edited \cup {p}
        /\ UNCHANGED <<connectFile, saving, capturing, told>>
    BY <1>2 DEF Connect!Paste
  <2>2. connectPage = [q \in Providers |-> connectPage[q]]
    BY <1>0, <2>1 DEF ConnectShapes
  <2>3. connectPage' = [q \in Providers |-> IF q = p THEN "pasted" ELSE connectPage[q]]
    BY ONLY <2>1, <2>2
  <2>4. connectPage' # Connect!Blank
    BY ONLY <2>3, <1>2 DEF Connect!Blank
  <2>5. ConnectShapes'
    BY <1>0, <2>1, <2>3, <2>4 DEF ConnectShapes, Entries, CommandShape, Connect!Idle,
       Connect!Fresh, Connect!Blank
  <2>6. ~told'.disturbed => NothingMet'
    BY <1>0, <2>1, <2>3 DEF NothingMet, Connect!Idle, Connect!Fresh
  <2>7. ~told'.unreached => AllProved'
    BY <1>0, <2>1, <2>3 DEF AllProved
  <2> QED BY <2>5, <2>6, <2>7 DEF ConnectInv
<1>3. CASE Connect!SaveReads
  <2>1. /\ connectPage # Connect!Blank /\ saving' = [Connect!Idle EXCEPT !.step = "loaded", !.read = Connect!LoadOrDefault]
        /\ UNCHANGED <<connectFile, connectPage, edited, capturing, told>>
    BY <1>3 DEF Connect!SaveReads
  <2>2. saving' = [step |-> "loaded", id |-> Connect!Idle.id, header |-> Connect!Idle.header, read |-> Connect!LoadOrDefault]
    BY <2>1, IdleIs, CommandReads
  <2>3. CommandShape(saving') /\ saving'.read = Connect!LoadOrDefault /\ saving'.step = "loaded"
    BY <2>2 DEF CommandShape
  <2>4. ConnectShapes'
    BY <1>0, <2>1, <2>3, LoadIs DEF ConnectShapes, Entries, CommandShape, Connect!Idle,
       Connect!Fresh, Connect!Blank
  <2>5. ~told'.disturbed => NothingMet'
    BY <1>0, <2>1, <2>3, LoadIs DEF NothingMet, Connect!Idle, Connect!Fresh, Connect!Blank
  <2>6. ~told'.unreached => AllProved'
    BY <1>0, <2>1, <2>3, LoadProved DEF AllProved, Connect!Blank
  <2> QED BY <2>4, <2>5, <2>6 DEF ConnectInv
<1>4. CASE Connect!SaveWrites
  <2> PICK given : given = [p \in Providers |-> IF p \in edited THEN connectPage[p] ELSE told.given[p]]
    OBVIOUS
  <2> PICK disturbed \in BOOLEAN : disturbed <=> (told.disturbed \/ capturing.step = "loaded" \/ told.behind # {})
    OBVIOUS
  <2> PICK entries : entries = Connect!Patched(saving.read, connectPage)
    OBVIOUS
  <2>1. /\ saving # Connect!Idle /\ saving' = Connect!Idle /\ connectPage' = Connect!Blank
        /\ connectFile' = [state |-> "whole", entries |-> entries] /\ UNCHANGED capturing
    BY <1>4 DEF Connect!SaveWrites
  <2>2. told' = [given |-> given, behind |-> {}, disturbed |-> disturbed, unreached |-> told.unreached]
    <3>1. told' = [told EXCEPT !.given = [p \in Providers |-> IF p \in edited THEN connectPage[p] ELSE told.given[p]],
                               !.disturbed = told.disturbed \/ capturing.step = "loaded" \/ told.behind # {},
                               !.behind = {}]
      BY <1>4 DEF Connect!SaveWrites
    <3>2. (told.disturbed \/ capturing.step = "loaded" \/ told.behind # {}) = disturbed
      OBVIOUS
    <3>3. told' = [[[told EXCEPT !.given = given] EXCEPT !.disturbed = disturbed] EXCEPT !.behind = {}]
      BY <3>1, <3>2
    <3> PICK t : t = [told EXCEPT !.given = given]
      OBVIOUS
    <3> PICK v : v = [t EXCEPT !.disturbed = disturbed]
      OBVIOUS
    <3>4. told = [given |-> told.given, behind |-> told.behind, disturbed |-> told.disturbed, unreached |-> told.unreached]
      BY <1>0 DEF ConnectShapes
    <3>5. t = [given |-> given, behind |-> told.behind, disturbed |-> told.disturbed, unreached |-> told.unreached]
      BY <3>4
    <3>6. v = [given |-> given, behind |-> told.behind, disturbed |-> disturbed, unreached |-> told.unreached]
      BY <3>5
    <3>7. [v EXCEPT !.behind = {}] = [given |-> given, behind |-> {}, disturbed |-> disturbed, unreached |-> told.unreached]
      BY ONLY <3>6
    <3> QED BY <3>3, <3>7
  <2>3. connectPage = [p \in Providers |-> connectPage[p]]
    BY <1>0, <2>1 DEF ConnectShapes
  <2>4. /\ Entries(entries)
        /\ \A p \in Providers : entries[p].credential = connectPage[p] /\ entries[p].extras = saving.read[p].extras
    <3>1. Entries(saving.read)
      BY <1>0 DEF ConnectShapes
    <3> QED BY <2>3, <3>1, PatchedIs
  <2>5. connectFile'.state = "whole" /\ connectFile'.entries = entries /\ connectFile' = [state |-> connectFile'.state, entries |-> connectFile'.entries]
    BY <2>1
  <2>6. /\ told' = [given |-> told'.given, behind |-> told'.behind, disturbed |-> told'.disturbed, unreached |-> told'.unreached]
        /\ told'.given = given /\ told'.behind = {} /\ told'.disturbed = disturbed /\ told'.unreached = told.unreached
    BY <2>2
  <2>7. ConnectShapes'
    BY <1>0, <2>1, <2>4, <2>5, <2>6, IdleIs, FreshIs DEF ConnectShapes, Entries, CommandShape
  <2>8. ASSUME ~told'.disturbed PROVE NothingMet'
    <3>1. NothingMet /\ told.behind = {} /\ capturing.step # "loaded" /\ connectPage # Connect!Blank
      BY <1>0, <2>1, <2>6, <2>8 DEF ConnectShapes
    <3>2. \A p \in Providers : given[p] = connectPage[p] /\ saving.read[p].extras
      BY <2>1, <3>1 DEF NothingMet
    <3> QED BY <2>1, <2>4, <2>5, <2>6, <3>1, <3>2 DEF NothingMet
  <2>9. ~told'.unreached => AllProved'
    BY <1>0, <2>1, <2>4, <2>5, <2>6, IdleIs, FreshIs DEF AllProved, ConnectShapes
  <2> QED BY <2>7, <2>8, <2>9 DEF ConnectInv
<1>5. CASE Connect!CloseWindow \/ \E p \in Providers : Connect!Open(p) \/ Connect!SetsCookie(p)
  <2>1. UNCHANGED <<connectFile, connectPage, edited, saving, capturing, told>>
    BY <1>5 DEF Connect!CloseWindow, Connect!Open, Connect!SetsCookie
  <2> QED BY <1>0, <2>1 DEF ConnectInv, ConnectShapes, NothingMet, AllProved, Entries,
     CommandShape, Connect!Idle, Connect!Fresh, Connect!Blank
<1>6. ASSUME NEW p \in Providers, Connect!CaptureReads(p) PROVE ConnectInv'
  <2>1. /\ capturing' = [Connect!Idle EXCEPT !.step = "proving", !.id = p, !.header = jar[p]]
        /\ UNCHANGED <<connectFile, connectPage, edited, saving, told>>
    BY <1>6 DEF Connect!CaptureReads
  <2>2. capturing' = [step |-> "proving", id |-> p, header |-> jar[p], read |-> Connect!Fresh]
    BY <2>1 DEF Connect!Idle
  <2>3. CommandShape(capturing') /\ capturing'.read = Connect!Fresh /\ capturing'.step = "proving" /\ capturing'.id = p
    BY <2>2 DEF CommandShape
  <2>4. ConnectShapes'
    BY <1>0, <2>1, <2>3, FreshIs DEF ConnectShapes, Entries, CommandShape, Connect!Idle,
       Connect!Fresh, Connect!Blank
  <2>5. ~told'.disturbed => NothingMet'
    BY <1>0, <2>1, <2>3 DEF NothingMet, Connect!Idle, Connect!Fresh, Connect!Blank
  <2>6. ~told'.unreached => AllProved'
    BY <1>0, <2>1, <2>3, FreshIs DEF AllProved, Connect!Blank, Connect!Fresh
  <2> QED BY <2>4, <2>5, <2>6 DEF ConnectInv
<1>7. CASE Connect!CaptureProves
  <2>1. PICK reached \in BOOLEAN :
           IF Connect!Accepted(capturing.header, reached)
           THEN /\ capturing' = [capturing EXCEPT !.step = "loaded", !.read = Connect!LoadOrDefault]
                /\ told' = [told EXCEPT !.unreached = @ \/ ~reached, !.disturbed = @ \/ saving # Connect!Idle]
           ELSE capturing' = Connect!Idle /\ UNCHANGED told
    BY <1>7, Zenon DEF Connect!CaptureProves
  <2>2. capturing.step = "proving" /\ UNCHANGED <<connectFile, connectPage, edited, saving>>
    BY <1>7 DEF Connect!CaptureProves
  <2>3. CASE ~Connect!Accepted(capturing.header, reached)
    <3>1. capturing' = Connect!Idle /\ UNCHANGED told
      BY <2>1, <2>3
    <3>2. ConnectShapes'
      BY <1>0, <2>2, <3>1, IdleIs, FreshIs DEF ConnectShapes, Entries, CommandShape, Connect!Idle,
         Connect!Fresh, Connect!Blank
    <3>3. ~told'.disturbed => NothingMet'
      BY <1>0, <2>2, <3>1, IdleIs DEF NothingMet, Connect!Fresh, Connect!Blank, Connect!Idle
    <3>4. ~told'.unreached => AllProved'
      BY <1>0, <2>2, <3>1, IdleIs, FreshIs DEF AllProved, Connect!Blank
    <3> QED BY <3>2, <3>3, <3>4 DEF ConnectInv
  <2>4. CASE Connect!Accepted(capturing.header, reached)
    <3> PICK unreached \in BOOLEAN : unreached <=> (told.unreached \/ ~reached)
      OBVIOUS
    <3> PICK disturbed \in BOOLEAN : disturbed <=> (told.disturbed \/ saving # Connect!Idle)
      OBVIOUS
    <3>1. told' = [given |-> told.given, behind |-> told.behind, disturbed |-> disturbed, unreached |-> unreached]
      <4>1. told' = [told EXCEPT !.unreached = told.unreached \/ ~reached, !.disturbed = told.disturbed \/ saving # Connect!Idle]
        BY <2>1, <2>4
      <4>2. (told.unreached \/ ~reached) = unreached /\ (told.disturbed \/ saving # Connect!Idle) = disturbed
        OBVIOUS
      <4>3. told' = [[told EXCEPT !.unreached = unreached] EXCEPT !.disturbed = disturbed]
        BY <4>1, <4>2
      <4> PICK t : t = [told EXCEPT !.unreached = unreached]
        OBVIOUS
      <4>4. told = [given |-> told.given, behind |-> told.behind, disturbed |-> told.disturbed, unreached |-> told.unreached]
        BY <1>0 DEF ConnectShapes
      <4>5. t = [given |-> told.given, behind |-> told.behind, disturbed |-> told.disturbed, unreached |-> unreached]
        BY <4>4
      <4>6. [t EXCEPT !.disturbed = disturbed] = [given |-> told.given, behind |-> told.behind, disturbed |-> disturbed, unreached |-> unreached]
        BY ONLY <4>5
      <4> QED BY <4>3, <4>6
    <3>2. capturing' = [step |-> "loaded", id |-> capturing.id, header |-> capturing.header, read |-> Connect!LoadOrDefault]
      <4>1. CommandShape(capturing)
        BY <1>0 DEF ConnectShapes
      <4>2. capturing' = [capturing EXCEPT !.step = "loaded", !.read = Connect!LoadOrDefault]
        BY <2>1, <2>4
      <4>3. capturing' = [[capturing EXCEPT !.step = "loaded"] EXCEPT !.read = Connect!LoadOrDefault]
        BY <4>2
      <4> PICK y : y = [capturing EXCEPT !.step = "loaded"]
        OBVIOUS
      <4> PICK read : read = Connect!LoadOrDefault
        OBVIOUS
      <4>4. capturing = [step |-> capturing.step, id |-> capturing.id, header |-> capturing.header, read |-> capturing.read]
        BY <4>1 DEF CommandShape
      <4>5. y = [step |-> "loaded", id |-> capturing.id, header |-> capturing.header, read |-> capturing.read]
        BY <4>4
      <4>6. [y EXCEPT !.read = read] = [step |-> "loaded", id |-> capturing.id, header |-> capturing.header, read |-> read]
        BY ONLY <4>5
      <4> QED BY <4>3, <4>6
    <3>3. /\ CommandShape(capturing') /\ capturing'.read = Connect!LoadOrDefault /\ capturing'.step = "loaded"
          /\ capturing'.id = capturing.id /\ capturing'.header = capturing.header
      BY <3>2 DEF CommandShape
    <3>4. /\ told' = [given |-> told'.given, behind |-> told'.behind, disturbed |-> told'.disturbed, unreached |-> told'.unreached]
          /\ told'.given = told.given /\ told'.behind = told.behind /\ told'.disturbed = disturbed /\ told'.unreached = unreached
      BY <3>1
    <3>5. capturing # Connect!Idle
      BY <2>2, IdleIs
    <3>6. ConnectShapes'
      BY <1>0, <2>2, <3>3, <3>4, <3>5, LoadIs DEF ConnectShapes, Entries, CommandShape,
         Connect!Idle, Connect!Fresh, Connect!Blank
    <3>7. ~told'.disturbed => NothingMet'
      BY <1>0, <2>2, <3>3, <3>4, LoadIs DEF NothingMet, Connect!Idle, Connect!Fresh, Connect!Blank
    <3>8. ~told'.unreached => AllProved'
      BY <1>0, <2>2, <2>4, <3>3, <3>4, LoadProved DEF AllProved, Connect!Blank, Connect!Accepted
    <3> QED BY <3>6, <3>7, <3>8 DEF ConnectInv
  <2> QED BY <2>3, <2>4
<1>8. CASE Connect!CaptureWrites
  <2> PICK p : p = capturing.id
    OBVIOUS
  <2> PICK header : header = capturing.header
    OBVIOUS
  <2> PICK given : given = [told.given EXCEPT ![p] = header]
    OBVIOUS
  <2> PICK behind : behind = IF connectPage = Connect!Blank THEN {} ELSE told.behind \cup {p}
    OBVIOUS
  <2> PICK changed : changed = [q \in {p} |-> header]
    OBVIOUS
  <2> PICK entries : entries = Connect!Patched(capturing.read, changed)
    OBVIOUS
  <2>1. /\ capturing.step = "loaded" /\ capturing' = Connect!Idle /\ UNCHANGED <<connectPage, edited, saving>>
        /\ connectFile' = [state |-> "whole", entries |-> entries]
    BY <1>8 DEF Connect!CaptureWrites
  <2>2. told' = [given |-> given, behind |-> behind, disturbed |-> told.disturbed, unreached |-> told.unreached]
    <3>1. told' = [[told EXCEPT !.given = given] EXCEPT !.behind = behind]
      BY <1>8 DEF Connect!CaptureWrites
    <3> PICK t : t = [told EXCEPT !.given = given]
      OBVIOUS
    <3>2. told = [given |-> told.given, behind |-> told.behind, disturbed |-> told.disturbed, unreached |-> told.unreached]
      BY <1>0 DEF ConnectShapes
    <3>3. t = [given |-> given, behind |-> told.behind, disturbed |-> told.disturbed, unreached |-> told.unreached]
      BY <3>2
    <3>4. [t EXCEPT !.behind = behind] = [given |-> given, behind |-> behind, disturbed |-> told.disturbed, unreached |-> told.unreached]
      BY ONLY <3>3
    <3> QED BY <3>1, <3>4
  <2>3. p \in Providers
    BY <1>0, <2>1, IdleIs DEF ConnectShapes
  <2>4. given = [q \in Providers |-> IF q = p THEN header ELSE told.given[q]]
    <3>1. told.given = [q \in Providers |-> told.given[q]]
      BY <1>0 DEF ConnectShapes
    <3> QED BY <2>3, <3>1
  <2>5. DOMAIN changed = {p} /\ changed[p] = header
    OBVIOUS
  <2>6. /\ Entries(entries)
        /\ \A q \in Providers : /\ entries[q].credential = IF q = p THEN header ELSE capturing.read[q].credential
                                /\ entries[q].extras = capturing.read[q].extras
    <3>1. Entries(capturing.read)
      BY <1>0 DEF ConnectShapes
    <3> QED BY <2>5, <3>1, PatchedIs
  <2>7. connectFile'.state = "whole" /\ connectFile'.entries = entries /\ connectFile' = [state |-> connectFile'.state, entries |-> connectFile'.entries]
    BY <2>1
  <2>8. /\ told' = [given |-> told'.given, behind |-> told'.behind, disturbed |-> told'.disturbed, unreached |-> told'.unreached]
        /\ told'.given = given /\ told'.behind = behind /\ told'.disturbed = told.disturbed /\ told'.unreached = told.unreached
    BY <2>2
  <2>9. ConnectShapes'
    <3>1. told'.given = [q \in Providers |-> told'.given[q]]
      BY ONLY <2>4, <2>8
    <3>2. CommandShape(capturing') /\ Entries(capturing'.read) /\ Entries(connectFile'.entries)
      BY <2>1, <2>6, <2>7, IdleIs, FreshIs
    <3>3. /\ connectPage' # Connect!Blank => connectPage' = [q \in Providers |-> connectPage'[q]]
          /\ CommandShape(saving') /\ Entries(saving'.read)
          /\ saving' # Connect!Idle => connectPage' # Connect!Blank
      BY <1>0, <2>1 DEF ConnectShapes, Entries, CommandShape, Connect!Idle, Connect!Fresh,
         Connect!Blank
    <3>4. told'.disturbed \in BOOLEAN /\ told'.unreached \in BOOLEAN
      BY <1>0, <2>8 DEF ConnectShapes
    <3> QED BY <2>1, <2>7, <2>8, <3>1, <3>2, <3>3, <3>4 DEF ConnectShapes, Connect!Idle,
       Connect!Fresh
  <2>10. ASSUME ~told'.disturbed PROVE NothingMet'
    <3>1. NothingMet /\ capturing.read = connectFile.entries
      BY <1>0, <2>1, <2>8, <2>10 DEF NothingMet
    <3>2. connectPage # Connect!Blank => behind # {}
      OBVIOUS
    <3>3. \A q \in Providers : connectFile'.entries[q].credential = told'.given[q] /\ connectFile'.entries[q].extras
      BY <2>4, <2>6, <2>7, <2>8, <3>1 DEF NothingMet
    <3>4. capturing'.step # "loaded" /\ (saving' # Connect!Idle => \A q \in Providers : saving'.read[q].extras)
      BY <2>1, <3>1, IdleIs DEF NothingMet, Connect!Idle, Connect!Fresh
    <3> QED BY <2>1, <2>7, <2>8, <3>2, <3>3, <3>4 DEF NothingMet, Connect!Blank
  <2>11. ~told'.unreached => AllProved'
    BY <1>0, <2>1, <2>6, <2>7, <2>8, IdleIs, FreshIs DEF AllProved, Connect!Blank
  <2> QED BY <2>9, <2>10, <2>11 DEF ConnectInv
<1>9. CASE Connect!Damage
  <2>1. /\ connectFile' = [connectFile EXCEPT !.state = "damaged"] /\ told' = [told EXCEPT !.disturbed = told.disturbed \/ TRUE]
        /\ UNCHANGED <<connectPage, edited, saving, capturing>>
    BY <1>9 DEF Connect!Damage, Connect!Disturbed
  <2> PICK yes \in BOOLEAN : yes = TRUE
    OBVIOUS
  <2>2. told' = [given |-> told.given, behind |-> told.behind, disturbed |-> yes, unreached |-> told.unreached]
    <3>1. told' = [told EXCEPT !.disturbed = yes]
      BY <2>1
    <3>2. told = [given |-> told.given, behind |-> told.behind, disturbed |-> told.disturbed, unreached |-> told.unreached]
      BY <1>0 DEF ConnectShapes
    <3> QED BY ONLY <3>1, <3>2
  <2>3. connectFile' = [state |-> "damaged", entries |-> connectFile.entries]
    <3>1. connectFile = [state |-> connectFile.state, entries |-> connectFile.entries]
      BY <1>0 DEF ConnectShapes
    <3> QED BY ONLY <2>1, <3>1
  <2>4. connectFile'.entries = connectFile.entries /\ connectFile' = [state |-> connectFile'.state, entries |-> connectFile'.entries]
    BY <2>3
  <2>5. /\ told' = [given |-> told'.given, behind |-> told'.behind, disturbed |-> told'.disturbed, unreached |-> told'.unreached]
        /\ told'.given = told.given /\ told'.disturbed = yes /\ told'.unreached = told.unreached
    BY <2>2
  <2>6. ConnectShapes'
    BY <1>0, <2>1, <2>4, <2>5 DEF ConnectShapes, Entries, CommandShape, Connect!Idle,
       Connect!Fresh, Connect!Blank
  <2>7. ~told'.unreached => AllProved'
    BY <1>0, <2>1, <2>4, <2>5 DEF AllProved, Connect!Blank
  <2> QED BY <2>5, <2>6, <2>7 DEF ConnectInv
<1>10. CASE UNCHANGED Connect!vars
  BY <1>0, <1>10 DEF Connect!vars, ConnectInv, ConnectShapes, NothingMet, AllProved, Entries,
     CommandShape, Connect!Idle, Connect!Fresh, Connect!Blank
<1> QED BY <1>1, <1>2, <1>3, <1>4, <1>5, <1>6, <1>7, <1>8, <1>9, <1>10 DEF Connect!Next

\* commands.rs, connect.rs: commands that do not meet keep every credential and every
\* field of another client, and no handshake is taken for a session that could be asked.
THEOREM ConnectHolds == Connect!Spec => [](Connect!NothingIsForgotten /\ Connect!OnlyASessionIsCaptured)
<1>1. ConnectInv => Connect!NothingIsForgotten /\ Connect!OnlyASessionIsCaptured
  BY DEF ConnectInv, NothingMet, AllProved, Connect!NothingIsForgotten,
     Connect!OnlyASessionIsCaptured
<1> QED BY ConnectStarts, ConnectSteps, <1>1, PTL DEF Connect!Spec

(* ---- landing a session's branch, and discarding it ---- *)

\* A branch is landed, resumed by later processes, and discarded.
Landing == INSTANCE Landing

\* A landing, a discard and a turn have their fields.
LandingShapes ==
    /\ landing = [pc |-> landing.pc, action |-> landing.action, asked |-> landing.asked,
                  staged |-> landing.staged, off |-> landing.off]
    /\ discard = [pc |-> discard.pc, raced |-> discard.raced, of |-> discard.of]
    /\ discard.pc \in {"none", "counted", "gone"}
    /\ turn = [life |-> turn.life, number |-> turn.number, pc |-> turn.pc, before |-> turn.before]

\* What is at origin is in the branch, and what the branch has is in the worktree, as
\* long as there is one and it is on its branch.
BranchIsAhead ==
    /\ remote \subseteq branch
    /\ ~Landing!Gone /\ ~detached => branch \subseteq tree

\* A merge whose worktree was never off its branch goes on only with all it was asked for.
MergeGoesOn ==
    ~Landing!Gone /\ landing.pc # "none" /\ landing.action = "merge" /\ ~landing.off =>
        /\ ~detached /\ landing.asked \subseteq tree
        /\ landing.pc = "commit" => landing.asked \subseteq branch \union (landing.staged \intersect tree)
        /\ landing.pc = "land" => landing.asked \subseteq branch

\* From the count on no turn runs, and what was counted is elsewhere.
CountedIsElsewhere ==
    discard.pc # "none" =>
        /\ turn.pc = "idle"
        /\ ~discard.raced => /\ discard.of = "branch" => branch \subseteq base \union remote
                             /\ discard.of = "stray" => stray \subseteq base \union remote

\* No landing loses a commit, and what is removed is elsewhere.
LandingInv ==
    LandingShapes /\ BranchIsAhead /\ MergeGoesOn /\ CountedIsElsewhere /\ Landing!MergedIsLanded

\* A session that has landed nothing is so.
LEMMA LandingStarts == Landing!Init => LandingInv
BY DEF Landing!Init, LandingInv, LandingShapes, BranchIsAhead, MergeGoesOn, CountedIsElsewhere,
   Landing!MergedIsLanded, Landing!NoLanding, Landing!NoTurn, Landing!NoDiscard, Landing!Gone

\* What a step sets of a landing, of a discard, of a turn.
LEMMA LandingSet ==
  ASSUME NEW z, NEW old, NEW action, NEW asked, NEW staged, NEW off,
         z = [pc |-> old, action |-> action, asked |-> asked, staged |-> staged, off |-> off]
  PROVE  /\ \A pc : [z EXCEPT !.pc = pc] = [pc |-> pc, action |-> action, asked |-> asked, staged |-> staged, off |-> off]
         /\ \A new : [z EXCEPT !.staged = new] = [pc |-> old, action |-> action, asked |-> asked, staged |-> new, off |-> off]
         /\ \A new : [z EXCEPT !.off = new] = [pc |-> old, action |-> action, asked |-> asked, staged |-> staged, off |-> new]
OBVIOUS

LEMMA LandingSetBoth ==
  ASSUME NEW z, NEW old, NEW action, NEW asked, NEW staged, NEW off, NEW pc, NEW new,
         z = [pc |-> old, action |-> action, asked |-> asked, staged |-> staged, off |-> off]
  PROVE  [z EXCEPT !.pc = pc, !.staged = new] =
             [pc |-> pc, action |-> action, asked |-> asked, staged |-> new, off |-> off]
<1>1. PICK y : y = [z EXCEPT !.pc = pc]
  OBVIOUS
<1>2. y = [pc |-> pc, action |-> action, asked |-> asked, staged |-> staged, off |-> off]
  BY <1>1, LandingSet
<1>3. [y EXCEPT !.staged = new] = [pc |-> pc, action |-> action, asked |-> asked, staged |-> new, off |-> off]
  BY ONLY <1>2, LandingSet
<1>4. [z EXCEPT !.pc = pc, !.staged = new] = [y EXCEPT !.staged = new]
  BY ONLY <1>1, Zenon
<1> QED BY <1>3, <1>4

LEMMA DiscardSet ==
  ASSUME NEW d, NEW old, NEW no, NEW of, d = [pc |-> old, raced |-> no, of |-> of]
  PROVE  /\ \A pc : [d EXCEPT !.pc = pc] = [pc |-> pc, raced |-> no, of |-> of]
         /\ \A race : [d EXCEPT !.raced = race] = [pc |-> old, raced |-> race, of |-> of]
         /\ \A new : [d EXCEPT !.of = new] = [pc |-> old, raced |-> no, of |-> new]
OBVIOUS

LEMMA TurnSet ==
  ASSUME NEW t, NEW life, NEW number, NEW old, NEW first,
         t = [life |-> life, number |-> number, pc |-> old, before |-> first]
  PROVE  /\ \A pc : [t EXCEPT !.pc = pc] = [life |-> life, number |-> number, pc |-> pc, before |-> first]
         /\ \A n : [t EXCEPT !.number = n] = [life |-> life, number |-> n, pc |-> old, before |-> first]
         /\ \A b : [t EXCEPT !.before = b] = [life |-> life, number |-> number, pc |-> old, before |-> b]
OBVIOUS

\* A turn that goes on keeps its fields.
LEMMA TurnGoesOn ==
    ASSUME LandingShapes, Landing!BeginTurn \/ Landing!Before \/ Landing!EndTurn \/ Landing!After
    PROVE  \E n, pc, b : turn' = [life |-> turn.life, number |-> n, pc |-> pc, before |-> b]
<1>0. turn = [life |-> turn.life, number |-> turn.number, pc |-> turn.pc, before |-> turn.before]
  BY DEF LandingShapes
<1>1. CASE Landing!BeginTurn
  <2>1. turn' = [[turn EXCEPT !.number = turn.number + 1] EXCEPT !.pc = "before"]
    BY <1>1, Zenon DEF Landing!BeginTurn
  <2> PICK y : y = [turn EXCEPT !.number = turn.number + 1]
    OBVIOUS
  <2>2. y = [life |-> turn.life, number |-> turn.number + 1, pc |-> turn.pc, before |-> turn.before]
    BY ONLY <1>0, TurnSet, y = [turn EXCEPT !.number = turn.number + 1]
  <2>3. [y EXCEPT !.pc = "before"] = [life |-> turn.life, number |-> turn.number + 1, pc |-> "before", before |-> turn.before]
    BY ONLY <2>2, TurnSet
  <2> QED BY <2>1, <2>3
<1>2. CASE Landing!EndTurn
  <2>1. turn' = [turn EXCEPT !.pc = "after"]
    BY <1>2 DEF Landing!EndTurn
  <2>2. [turn EXCEPT !.pc = "after"] = [life |-> turn.life, number |-> turn.number, pc |-> "after", before |-> turn.before]
    BY ONLY <1>0, TurnSet
  <2> QED BY ONLY <2>1, <2>2
<1>3. ASSUME NEW pc, NEW b, turn' = [[turn EXCEPT !.pc = pc] EXCEPT !.before = b]
      PROVE  \E n, q, f : turn' = [life |-> turn.life, number |-> n, pc |-> q, before |-> f]
  <2> PICK y : y = [turn EXCEPT !.pc = pc]
    OBVIOUS
  <2>1. y = [life |-> turn.life, number |-> turn.number, pc |-> pc, before |-> turn.before]
    BY ONLY <1>0, TurnSet, y = [turn EXCEPT !.pc = pc]
  <2>2. [y EXCEPT !.before = b] = [life |-> turn.life, number |-> turn.number, pc |-> pc, before |-> b]
    BY ONLY <2>1, TurnSet
  <2> QED BY <1>3, <2>2
<1>4. CASE Landing!Before \/ Landing!After
  <2>1. \E pc, b : turn' = [[turn EXCEPT !.pc = pc] EXCEPT !.before = b]
    BY ONLY <1>4, Zenon DEF Landing!Before, Landing!After
  <2> QED BY ONLY <1>3, <2>1
<1> QED BY <1>1, <1>2, <1>4

\* A turn, a landing and a discard keep it, however their steps mix.
LEMMA LandingSteps == LandingInv /\ [Landing!Next]_(Landing!vars) => LandingInv'
<1> SUFFICES ASSUME LandingInv, [Landing!Next]_(Landing!vars) PROVE LandingInv'
  OBVIOUS
<1>0. LandingShapes /\ BranchIsAhead /\ MergeGoesOn /\ CountedIsElsewhere /\ Landing!MergedIsLanded
  BY DEF LandingInv
<1>l. landing = [pc |-> landing.pc, action |-> landing.action, asked |-> landing.asked,
                 staged |-> landing.staged, off |-> landing.off]
  BY <1>0 DEF LandingShapes
<1>p. \A pc : [landing EXCEPT !.pc = pc] =
           [pc |-> pc, action |-> landing.action, asked |-> landing.asked, staged |-> landing.staged, off |-> landing.off]
  BY ONLY <1>l, LandingSet
<1>d. discard = [pc |-> discard.pc, raced |-> discard.raced, of |-> discard.of]
  BY <1>0 DEF LandingShapes
<1> USE DEF LandingInv, LandingShapes, BranchIsAhead, MergeGoesOn, CountedIsElsewhere, Landing!MergedIsLanded, Landing!Gone,
        Landing!repository, Landing!lander, Landing!checkedOut
\* A step of a turn that leaves the worktree and the landing alone.
<1>1. CASE Landing!BeginTurn \/ Landing!Before \/ Landing!EndTurn \/ Landing!After
  <2>1. \E n, pc, b : turn' = [life |-> turn.life, number |-> n, pc |-> pc, before |-> b]
    BY <1>0, <1>1, TurnGoesOn
  <2>2. discard.pc = "none"
    BY <1>0, <1>1 DEF Landing!BeginTurn, Landing!Before, Landing!EndTurn, Landing!After
  <2>3. UNCHANGED <<tree, branch, detached, stray, base, remote, landing, landed, discard>>
    BY <1>1 DEF Landing!BeginTurn, Landing!Before, Landing!EndTurn, Landing!After
  <2> QED BY <1>0, <2>1, <2>2, <2>3
<1>2. CASE Landing!AgentEdits
  BY <1>0, <1>2 DEF Landing!AgentEdits
<1>3. CASE Landing!AgentCommits
  BY <1>0, <1>3 DEF Landing!AgentCommits, Landing!HeadIs
<1>16. CASE Landing!AgentSwitches
  <2> PICK off : off = (landing.action = "merge")
    OBVIOUS
  <2>1. landing' = [pc |-> landing.pc, action |-> landing.action, asked |-> landing.asked, staged |-> landing.staged, off |-> off]
    <3>1. landing' = [landing EXCEPT !.off = off]
      BY <1>16, Zenon DEF Landing!AgentSwitches
    <3> QED BY ONLY <1>l, <3>1, LandingSet
  <2>2. discard.pc = "none" /\ UNCHANGED <<branch, base, remote, turn, landed, discard>>
    BY <1>0, <1>16 DEF Landing!AgentSwitches
  <2>3. ~detached' => branch \subseteq tree'
    BY <1>16 DEF Landing!AgentSwitches
  <2> QED BY <1>0, <2>1, <2>2, <2>3
<1>4. CASE Landing!Resume
  <2>1. turn' = [life |-> turn.life + 1, number |-> 0, pc |-> "idle", before |-> FALSE]
    BY <1>4 DEF Landing!Resume, Landing!NoTurn
  <2> QED BY <1>0, <1>4, <2>1 DEF Landing!Resume, Landing!NoLanding, Landing!NoDiscard
<1>5. CASE Landing!Land
  <2>1. PICK action, asked, off :
          /\ landing' = [pc |-> "status", action |-> action, asked |-> asked, staged |-> {}, off |-> off]
          /\ action = "merge" => asked = tree /\ (off <=> detached)
    <3>1. PICK action : landing' = [Landing!NoLanding EXCEPT !.pc = "status", !.action = action,
                          !.asked = IF action = "merge" THEN tree ELSE {}, !.off = detached /\ action = "merge"]
      BY <1>5 DEF Landing!Land
    <3> QED BY <3>1 DEF Landing!NoLanding
  <2>2. UNCHANGED <<tree, branch, detached, stray, base, remote, turn, landed, discard>>
    BY <1>5 DEF Landing!Land
  <2> QED BY <1>0, <2>1, <2>2
<1>6. CASE Landing!Status
  <2>1. PICK pc : /\ landing' = [pc |-> pc, action |-> landing.action, asked |-> landing.asked, staged |-> landing.staged, off |-> landing.off]
                  /\ pc = "add" \/ (pc = "land" /\ tree = Landing!Head)
    BY <1>0, <1>6, <1>p DEF Landing!Status, Landing!Dirty
  <2> QED BY <1>0, <1>6, <2>1 DEF Landing!Status, Landing!Head
<1>7. CASE Landing!Add
  <2>1. landing' = [pc |-> "commit", action |-> landing.action, asked |-> landing.asked, staged |-> tree \ Landing!Head, off |-> landing.off]
    <3>1. landing' = [landing EXCEPT !.pc = "commit", !.staged = tree \ Landing!Head]
      BY <1>7, Zenon DEF Landing!Add
    <3> QED BY ONLY <1>l, <3>1, LandingSetBoth
  <2> QED BY <1>0, <1>7, <2>1 DEF Landing!Add, Landing!Head
<1>8. CASE Landing!Commit
  <2> DEFINE left == (landing.staged \intersect tree) \ Landing!Head
  <2> PICK race : race = (discard.raced \/ discard.pc = "counted")
    OBVIOUS
  <2>1. discard' = [pc |-> discard.pc, raced |-> race, of |-> discard.of]
    <3>1. discard' = [discard EXCEPT !.raced = race]
      BY <1>8, Zenon DEF Landing!Commit
    <3> QED BY ONLY <1>d, <3>1, DiscardSet
  <2>2. discard.pc # "none" => race
    BY <1>0, <1>8 DEF Landing!Commit
  <2>3. UNCHANGED <<tree, detached, base, remote, turn, landed>> /\ landing.pc = "commit"
    BY <1>8 DEF Landing!Commit
  <2>4. CASE left = {}
    <3>1. landing' = Landing!NoLanding /\ UNCHANGED <<branch, stray>>
      BY <1>8, <2>4 DEF Landing!Commit
    <3> QED BY <1>0, <2>1, <2>2, <2>3, <3>1 DEF Landing!NoLanding
  <2>5. CASE left # {}
    <3>1. landing' = [landing EXCEPT !.pc = "land", !.staged = {}] /\ Landing!HeadIs(Landing!Head \union left)
      BY <1>8, <2>5 DEF Landing!Commit
    <3>2. landing' = [pc |-> "land", action |-> landing.action, asked |-> landing.asked, staged |-> {}, off |-> landing.off]
      BY ONLY <1>l, <3>1, LandingSetBoth
    <3>3. /\ detached => UNCHANGED branch
          /\ ~detached => branch' = branch \union ((landing.staged \intersect tree) \ branch)
      BY <3>1 DEF Landing!HeadIs, Landing!Head
    <3> HIDE DEF left
    <3> QED BY <1>0, <2>1, <2>2, <2>3, <3>2, <3>3
  <2> QED BY <2>4, <2>5
<1>9. CASE Landing!Merge
  BY <1>0, <1>9 DEF Landing!Merge, Landing!Merges, Landing!NoLanding
<1>10. CASE Landing!Push
  BY <1>0, <1>10 DEF Landing!Push, Landing!NoLanding
<1>11. CASE Landing!LandFails
  BY <1>0, <1>11 DEF Landing!LandFails, Landing!NoLanding
<1>12. CASE Landing!PersonResolves
  BY <1>0, <1>12 DEF Landing!PersonResolves
<1>13. CASE Landing!Count
  <2>1. PICK of : /\ discard' = [discard EXCEPT !.pc = "counted", !.of = of]
                  /\ of = "branch" => ~detached /\ Landing!Unmerged = {}
                  /\ of = "stray" => detached /\ Landing!Unmerged = {}
    BY <1>13 DEF Landing!Count
  <2>2. discard' = [pc |-> "counted", raced |-> discard.raced, of |-> of]
    <3> PICK y : y = [discard EXCEPT !.pc = "counted"]
      OBVIOUS
    <3>1. y = [pc |-> "counted", raced |-> discard.raced, of |-> discard.of]
      BY ONLY <1>d, DiscardSet, y = [discard EXCEPT !.pc = "counted"]
    <3>2. [y EXCEPT !.of = of] = [pc |-> "counted", raced |-> discard.raced, of |-> of]
      BY ONLY <3>1, DiscardSet
    <3>3. discard' = [y EXCEPT !.of = of]
      BY ONLY <2>1, Zenon, y = [discard EXCEPT !.pc = "counted"]
    <3> QED BY ONLY <3>2, <3>3
  <2>3. /\ of = "branch" => branch \subseteq base \union remote
        /\ of = "stray" => stray \subseteq base \union remote
    BY <2>1 DEF Landing!Unmerged, Landing!Head
  <2>4. /\ turn.pc = "idle" /\ discard.pc = "none"
        /\ UNCHANGED <<tree, branch, detached, stray, base, remote, turn, landing, landed>>
    BY <1>13 DEF Landing!Count
  <2> QED BY <1>0, <2>2, <2>3, <2>4
<1>14. CASE Landing!Remove
  <2>1. CASE discard' = [discard EXCEPT !.pc = "gone"]
    <3>1. discard' = [pc |-> "gone", raced |-> discard.raced, of |-> discard.of]
      BY ONLY <1>d, <2>1, DiscardSet
    <3> QED BY <1>0, <1>14, <3>1 DEF Landing!Remove
  <2>2. CASE discard' = Landing!NoDiscard /\ UNCHANGED tree
    BY <1>0, <1>14, <2>2 DEF Landing!Remove, Landing!NoDiscard
  <2> QED BY <1>14, <2>1, <2>2 DEF Landing!Remove
<1>15. CASE UNCHANGED Landing!vars
  BY <1>0, <1>15 DEF Landing!vars
<1> QED BY <1>1, <1>2, <1>3, <1>4, <1>5, <1>6, <1>7, <1>8, <1>9, <1>10, <1>11, <1>12, <1>13, <1>14,
   <1>15, <1>16 DEF Landing!Next

\* landing.rs:10, worktree.rs:295: what a merge said it landed is in the base, as far as
\* the worktree was on its branch, and a worktree takes no commit with it that was
\* counted, but one a landing made behind the count.
THEOREM LandingHolds == Landing!Spec => [](Landing!MergedIsLanded /\ Landing!CommittedIsKept)
<1>1. LandingInv => Landing!MergedIsLanded /\ Landing!CommittedIsKept
  BY DEF LandingInv, CountedIsElsewhere, Landing!CommittedIsKept, Landing!Gone
<1> QED BY LandingStarts, LandingSteps, <1>1, PTL DEF Landing!Spec

(* ---- the registry of hosted tools and its journal ---- *)

\* Stops, resumes and exits race around the rows of the windows.
Hosted == INSTANCE Hosted WITH
    MaxRows <- HostedRows, Slots <- HostedSlots, MaxProcs <- HostedProcs,
    MaxWindows <- HostedWindows, held <- hostedHeld, windows <- hostedWindows, up <- hostedUp

\* An instance counts as this module does.
LEMMA HostedCounts == \A S : Hosted!Cardinality(S) = Cardinality(S)
BY DEF Hosted!Cardinality, Cardinality

(* ---- what the registry, the processes and the commands are ---- *)

ARow == [transport : Hosted!Transports, live : Nat, stopped : BOOLEAN, session : Nat]
AProcess == [row : Nat, transport : Hosted!Transports, alive : BOOLEAN, relayed : BOOLEAN, session : Nat]
AnEntry == [transport : Hosted!Transports, stopped : BOOLEAN, session : Nat]
ACommand == [cmd : {"idle", "resume", "launch", "stop", "forget"}, row : Nat,
             pc : {"none", "away", "relay", "halted"}, session : Nat, proc : Nat]
\* The registry, the processes, the journal and the commands are records of these.
Typed ==
    /\ minted \in 0..HostedRows /\ procs \in Seq(AProcess)
    /\ DOMAIN hostedHeld \subseteq 1..minted /\ hostedHeld \in [DOMAIN hostedHeld -> ARow]
    /\ DOMAIN journal \subseteq 1..HostedRows /\ journal \in [DOMAIN journal -> AnEntry]
    /\ ops \in [HostedSlots -> ACommand]
    /\ hostedUp \in BOOLEAN

\* The same processes, of the same rows, none of them alive that was not.
Fewer(ps, qs) ==
    /\ qs \in Seq(AProcess) /\ Len(qs) = Len(ps)
    /\ \A p \in 1..Len(ps) : /\ qs[p].row = ps[p].row /\ qs[p].transport = ps[p].transport
                             /\ qs[p].session = ps[p].session
                             /\ qs[p].alive => ps[p].alive

LEMMA ProcessIs ==
  ASSUME NEW ps \in Seq(AProcess), NEW p \in 1..Len(ps)
  PROVE  /\ ps[p] = [row |-> ps[p].row, transport |-> ps[p].transport, alive |-> ps[p].alive,
                     relayed |-> ps[p].relayed, session |-> ps[p].session]
         /\ ps[p].row \in Nat /\ ps[p].transport \in Hosted!Transports /\ ps[p].alive \in BOOLEAN
         /\ ps[p].relayed \in BOOLEAN /\ ps[p].session \in Nat
<1>1. ps[p] \in AProcess
  OBVIOUS
<1> QED BY <1>1 DEF AProcess

\* One process in its place for another of the same row, no more alive.
LEMMA OneFewer ==
  ASSUME NEW ps \in Seq(AProcess), NEW p \in 1..Len(ps), NEW x \in AProcess,
         x.row = ps[p].row, x.transport = ps[p].transport, x.session = ps[p].session, x.alive => ps[p].alive
  PROVE  Fewer(ps, [ps EXCEPT ![p] = x])
<1> PICK qs : qs = [ps EXCEPT ![p] = x]
  OBVIOUS
<1>1. qs \in Seq(AProcess) /\ Len(qs) = Len(ps)
  OBVIOUS
<1>2. \A q \in 1..Len(ps) : qs[q] = IF q = p THEN x ELSE ps[q]
  OBVIOUS
<1>3. Fewer(ps, qs)
  BY <1>1, <1>2 DEF Fewer
<1> QED BY <1>3

\* The fields of a process that are set, one or both.
LEMMA ProcessSet ==
  ASSUME NEW z \in AProcess, NEW a \in BOOLEAN, NEW b \in BOOLEAN
  PROVE  /\ [z EXCEPT !.alive = a, !.relayed = b] =
              [row |-> z.row, transport |-> z.transport, alive |-> a, relayed |-> b, session |-> z.session]
         /\ [z EXCEPT !.alive = a] =
              [row |-> z.row, transport |-> z.transport, alive |-> a, relayed |-> z.relayed, session |-> z.session]
         /\ [z EXCEPT !.relayed = b] =
              [row |-> z.row, transport |-> z.transport, alive |-> z.alive, relayed |-> b, session |-> z.session]
         /\ [row |-> z.row, transport |-> z.transport, alive |-> a, relayed |-> b, session |-> z.session] \in AProcess
         /\ [row |-> z.row, transport |-> z.transport, alive |-> a, relayed |-> z.relayed, session |-> z.session] \in AProcess
         /\ [row |-> z.row, transport |-> z.transport, alive |-> z.alive, relayed |-> b, session |-> z.session] \in AProcess
<1>1. z = [row |-> z.row, transport |-> z.transport, alive |-> z.alive, relayed |-> z.relayed, session |-> z.session]
  BY DEF AProcess
<1>2. z.row \in Nat /\ z.transport \in Hosted!Transports /\ z.alive \in BOOLEAN /\ z.relayed \in BOOLEAN /\ z.session \in Nat
  BY DEF AProcess
<1>3. [z EXCEPT !.alive = a] =
        [row |-> z.row, transport |-> z.transport, alive |-> a, relayed |-> z.relayed, session |-> z.session]
  BY ONLY <1>1
<1>4. [z EXCEPT !.relayed = b] =
        [row |-> z.row, transport |-> z.transport, alive |-> z.alive, relayed |-> b, session |-> z.session]
  BY ONLY <1>1
<1>5. [z EXCEPT !.alive = a, !.relayed = b] =
        [row |-> z.row, transport |-> z.transport, alive |-> a, relayed |-> b, session |-> z.session]
  <2>1. ASSUME NEW y, y = [row |-> z.row, transport |-> z.transport, alive |-> a, relayed |-> z.relayed, session |-> z.session]
        PROVE  [y EXCEPT !.relayed = b] =
                 [row |-> z.row, transport |-> z.transport, alive |-> a, relayed |-> b, session |-> z.session]
    BY ONLY <2>1
  <2>2. [z EXCEPT !.alive = a, !.relayed = b] = [[z EXCEPT !.alive = a] EXCEPT !.relayed = b]
    BY ONLY TRUE
  <2> QED BY ONLY <1>3, <2>1, <2>2
<1>6. /\ [row |-> z.row, transport |-> z.transport, alive |-> a, relayed |-> b, session |-> z.session] \in AProcess
      /\ [row |-> z.row, transport |-> z.transport, alive |-> a, relayed |-> z.relayed, session |-> z.session] \in AProcess
      /\ [row |-> z.row, transport |-> z.transport, alive |-> z.alive, relayed |-> b, session |-> z.session] \in AProcess
  BY <1>2 DEF AProcess
<1> QED BY ONLY <1>3, <1>4, <1>5, <1>6

LEMMA EndedIs ==
  ASSUME NEW ps \in Seq(AProcess), NEW p \in Nat
  PROVE  /\ Fewer(ps, Hosted!Ended(ps, p))
         /\ p \in 1..Len(ps) => ~Hosted!Ended(ps, p)[p].alive
<1>1. DOMAIN ps = 1..Len(ps)
  OBVIOUS
<1>2. CASE p \notin 1..Len(ps)
  <2>1. Hosted!Ended(ps, p) = ps
    BY <1>1, <1>2 DEF Hosted!Ended
  <2> QED BY <1>2, <2>1 DEF Fewer
<1>3. CASE p \in 1..Len(ps)
  <2> PICK z \in AProcess : z = ps[p]
    BY <1>3
  <2> PICK no \in BOOLEAN : no = FALSE
    OBVIOUS
  <2> PICK x : x = [row |-> z.row, transport |-> z.transport, alive |-> no, relayed |-> no, session |-> z.session]
    OBVIOUS
  <2>1. Hosted!Ended(ps, p) = [ps EXCEPT ![p].alive = no, ![p].relayed = no]
    BY <1>1, <1>3, Zenon DEF Hosted!Ended
  <2>2. x = [z EXCEPT !.alive = no, !.relayed = no] /\ x \in AProcess
    BY ProcessSet, Zenon
  <2>3. [ps EXCEPT ![p].alive = no, ![p].relayed = no] = [ps EXCEPT ![p] = x]
    BY ONLY <1>1, <1>3, <2>2, z = ps[p]
  <2>4. x.row = ps[p].row /\ x.transport = ps[p].transport /\ x.session = ps[p].session /\ x.alive = no
    BY ONLY x = [row |-> z.row, transport |-> z.transport, alive |-> no, relayed |-> no, session
       |-> z.session], z = ps[p]
  <2>5. x.alive => ps[p].alive
    BY <2>4
  <2>6. Fewer(ps, [ps EXCEPT ![p] = x])
    BY ONLY <1>3, <2>2, <2>4, <2>5, ps \in Seq(AProcess), OneFewer
  <2>7. [ps EXCEPT ![p] = x][p] = x
    BY ONLY <1>1, <1>3
  <2> QED BY <2>1, <2>3, <2>4, <2>6, <2>7
<1> QED BY <1>2, <1>3

LEMMA DroppedIs ==
  ASSUME NEW ps \in Seq(AProcess), NEW p \in Nat
  PROVE  Fewer(ps, Hosted!Dropped(ps, p))
<1>1. DOMAIN ps = 1..Len(ps)
  OBVIOUS
<1>2. CASE ~(p \in DOMAIN ps /\ ~ps[p].relayed)
  <2>1. Hosted!Dropped(ps, p) = ps
    BY <1>2 DEF Hosted!Dropped
  <2> QED BY <2>1 DEF Fewer
<1>3. CASE p \in DOMAIN ps /\ ~ps[p].relayed
  <2>0. p \in 1..Len(ps)
    BY <1>1, <1>3
  <2> PICK z \in AProcess : z = ps[p]
    BY <2>0
  <2> PICK no \in BOOLEAN : no = FALSE
    OBVIOUS
  <2> PICK x : x = [row |-> z.row, transport |-> z.transport, alive |-> no, relayed |-> z.relayed, session |-> z.session]
    OBVIOUS
  <2>1. Hosted!Dropped(ps, p) = [ps EXCEPT ![p].alive = no]
    BY <1>3, Zenon DEF Hosted!Dropped
  <2>2. x = [z EXCEPT !.alive = no] /\ x \in AProcess
    BY ProcessSet, Zenon
  <2>3. [ps EXCEPT ![p].alive = no] = [ps EXCEPT ![p] = x]
    BY ONLY <1>1, <2>0, <2>2, z = ps[p]
  <2>4. x.row = ps[p].row /\ x.transport = ps[p].transport /\ x.session = ps[p].session /\ x.alive = no
    BY ONLY x = [row |-> z.row, transport |-> z.transport, alive |-> no, relayed |-> z.relayed,
       session |-> z.session], z = ps[p]
  <2>5. x.alive => ps[p].alive
    BY <2>4
  <2>6. Fewer(ps, [ps EXCEPT ![p] = x])
    BY ONLY <2>0, <2>2, <2>4, <2>5, ps \in Seq(AProcess), OneFewer
  <2> QED BY <2>1, <2>3, <2>6
<1> QED BY <1>2, <1>3

LEMMA RelayedIs ==
  ASSUME NEW ps \in Seq(AProcess), NEW p \in 1..Len(ps)
  PROVE  Fewer(ps, [ps EXCEPT ![p].relayed = TRUE])
<1>1. DOMAIN ps = 1..Len(ps)
  OBVIOUS
<1> PICK z \in AProcess : z = ps[p]
  OBVIOUS
<1> PICK yes \in BOOLEAN : yes = TRUE
  OBVIOUS
<1> PICK x : x = [row |-> z.row, transport |-> z.transport, alive |-> z.alive, relayed |-> yes, session |-> z.session]
  OBVIOUS
<1>2. x = [z EXCEPT !.relayed = yes] /\ x \in AProcess
  BY ProcessSet, Zenon
<1>3. [ps EXCEPT ![p].relayed = yes] = [ps EXCEPT ![p] = x]
  BY ONLY <1>1, <1>2, p \in 1..Len(ps), z = ps[p]
<1>4. x.row = ps[p].row /\ x.transport = ps[p].transport /\ x.session = ps[p].session /\ x.alive = ps[p].alive
  BY ONLY x = [row |-> z.row, transport |-> z.transport, alive |-> z.alive, relayed |-> yes,
     session |-> z.session], z = ps[p]
<1>5. x.alive => ps[p].alive
  BY <1>4
<1>6. Fewer(ps, [ps EXCEPT ![p] = x])
  BY ONLY <1>2, <1>4, <1>5, p \in 1..Len(ps), ps \in Seq(AProcess), OneFewer
<1>7. [ps EXCEPT ![p].relayed = TRUE] = [ps EXCEPT ![p].relayed = yes]
  BY Zenon
<1> QED BY <1>3, <1>6, <1>7

\* A process is numbered after all others.
LEMMA NextProcIs == ASSUME procs \in Seq(AProcess) PROVE Hosted!NextProc = Len(procs) + 1
<1>1. DOMAIN procs = 1..Len(procs) /\ Len(procs) \in Nat
  OBVIOUS
<1>2. Cardinality(1..Len(procs)) = Len(procs)
  <2>1. Cardinality(1..Len(procs)) = IF 1 > Len(procs) THEN 0 ELSE Len(procs) - 1 + 1
    BY ONLY <1>1, FS_Interval
  <2> QED BY ONLY <1>1, <2>1
<1>3. Hosted!Cardinality(DOMAIN procs) = Cardinality(1..Len(procs))
  BY ONLY <1>1, HostedCounts
<1> QED BY <1>2, <1>3 DEF Hosted!NextProc

(* ---- the inductive invariant ---- *)

\* A process a row of its own goes by: a terminal's is a terminal.
Backs(r, p) ==
    /\ p \in DOMAIN procs /\ procs[p].row = r
    /\ r \in DOMAIN hostedHeld /\ hostedHeld[r].transport = "pty" => procs[p].transport = "pty"

\* A row that runs has its process, and every live process is a window's.
RowsAreBacked == \A r \in DOMAIN hostedHeld : hostedHeld[r].live # 0 => Backs(r, hostedHeld[r].live)
WorkIsOfAWindow == \A p \in DOMAIN procs : procs[p].alive => hostedUp /\ procs[p].row \in 1..minted
CommandsAreAtRows ==
    \A s \in HostedSlots : /\ ops[s].row \in 0..minted
                           /\ ops[s].cmd = "idle" <=> ops[s].row = 0
                           /\ ops[s].cmd = "idle" => ops[s].proc = 0 /\ ops[s].pc = "none"
                           /\ ops[s].proc # 0 => Backs(ops[s].row, ops[s].proc)
TwoAreARace ==
    \A s, t \in HostedSlots : s # t /\ ops[s].row = ops[t].row /\ ops[s].row # 0 => ops[s].row \in raced
\* What a command alone at its row read of it still is so when it comes back.
AloneFindsItAsItWas ==
    \A s \in HostedSlots : ops[s].row \notin raced /\ ops[s].pc \in {"away", "halted"} =>
        /\ ops[s].row \in DOMAIN hostedHeld /\ hostedHeld[ops[s].row].live = ops[s].proc
        /\ ops[s].pc = "halted" \/ ops[s].cmd \in {"resume", "launch"} => ~Hosted!Running(ops[s].proc)
ClosedIsEmpty == ~hostedUp => DOMAIN hostedHeld = {} /\ \A s \in HostedSlots : ops[s].cmd = "idle"

\* All of it.
HostedInv ==
    /\ Typed /\ RowsAreBacked /\ WorkIsOfAWindow /\ CommandsAreAtRows /\ TwoAreARace
    /\ AloneFindsItAsItWas /\ ClosedIsEmpty /\ Hosted!JournalFollows /\ Hosted!LostOnlyToARace

\* What is known of a row, of its processes, of a command.
LEMMA RowIs ==
  ASSUME NEW rows, rows \in [DOMAIN rows -> ARow], NEW r \in DOMAIN rows
  PROVE  /\ rows[r] = [transport |-> rows[r].transport, live |-> rows[r].live,
                       stopped |-> rows[r].stopped, session |-> rows[r].session]
         /\ rows[r].transport \in Hosted!Transports /\ rows[r].live \in Nat /\ rows[r].stopped \in BOOLEAN
         /\ rows[r].session \in Nat
<1>1. rows[r] \in ARow
  OBVIOUS
<1> QED BY <1>1 DEF ARow

LEMMA CommandIs ==
  ASSUME Typed, NEW s \in HostedSlots
  PROVE  /\ ops[s] = [cmd |-> ops[s].cmd, row |-> ops[s].row, pc |-> ops[s].pc,
                      session |-> ops[s].session, proc |-> ops[s].proc]
         /\ ops[s].cmd \in {"idle", "resume", "launch", "stop", "forget"}
         /\ ops[s].pc \in {"none", "away", "relay", "halted"}
         /\ ops[s].row \in Nat /\ ops[s].session \in Nat /\ ops[s].proc \in Nat
<1>1. ops[s] \in ACommand
  BY DEF Typed
<1> QED BY <1>1 DEF ACommand

\* The journal of what is held is of its rows, and says of them what is remembered.
LEMMA RecordIs ==
  ASSUME NEW rows, rows \in [DOMAIN rows -> ARow]
  PROVE  /\ DOMAIN Hosted!Rewritten(rows) = DOMAIN rows
         /\ \A r \in DOMAIN rows : Hosted!Rewritten(rows)[r] = Hosted!Remembered(rows[r])
         /\ Hosted!Rewritten(rows) \in [DOMAIN Hosted!Rewritten(rows) -> AnEntry]
<1>1. DOMAIN Hosted!Rewritten(rows) = DOMAIN rows /\ \A r \in DOMAIN rows : Hosted!Rewritten(rows)[r] = Hosted!Remembered(rows[r])
  BY DEF Hosted!Rewritten
<1>2. ASSUME NEW r \in DOMAIN rows PROVE Hosted!Remembered(rows[r]) \in AnEntry
  BY <1>2, RowIs DEF Hosted!Remembered, AnEntry
<1>3. Hosted!Rewritten(rows) = [r \in DOMAIN rows |-> Hosted!Remembered(rows[r])]
  BY DEF Hosted!Rewritten
<1> QED BY <1>1, <1>2, <1>3

\* A row in its place for another.
LEMMA HostedRowSet ==
  ASSUME NEW rows, rows \in [DOMAIN rows -> ARow], NEW r \in DOMAIN rows, NEW x \in ARow
  PROVE  /\ DOMAIN [rows EXCEPT ![r] = x] = DOMAIN rows
         /\ [rows EXCEPT ![r] = x] \in [DOMAIN rows -> ARow]
         /\ \A q \in DOMAIN rows : [rows EXCEPT ![r] = x][q] = IF q = r THEN x ELSE rows[q]
OBVIOUS

\* A command in its place for another.
LEMMA CommandSet ==
  ASSUME Typed, NEW s \in HostedSlots, NEW x \in ACommand, ops' = [ops EXCEPT ![s] = x]
  PROVE  /\ ops' \in [HostedSlots -> ACommand]
         /\ \A t \in HostedSlots : ops'[t] = IF t = s THEN x ELSE ops[t]
BY DEF Typed

\* One that is done is as it was at first.
LEMMA DoneIs ==
  ASSUME Typed, NEW s \in HostedSlots, Hosted!Done(s)
  PROVE  /\ ops' \in [HostedSlots -> ACommand]
         /\ \A t \in HostedSlots : ops'[t] = IF t = s THEN Hosted!Idle ELSE ops[t]
<1>1. Hosted!Idle \in ACommand
  BY DEF Hosted!Idle, ACommand
<1> QED BY <1>1, CommandSet DEF Hosted!Done

\* A step after which there are the same rows behind the same processes, none more
\* alive, and which leaves each command as it is, done, or with its process ended.
Quietly ==
    /\ UNCHANGED <<minted, hostedUp, raced>> /\ DOMAIN hostedHeld' = DOMAIN hostedHeld /\ Fewer(procs, procs')
    /\ \A r \in DOMAIN hostedHeld :
          /\ hostedHeld'[r].transport = hostedHeld[r].transport /\ hostedHeld'[r].live = hostedHeld[r].live
          /\ hostedHeld'[r].stopped /\ Hosted!Running(hostedHeld[r].live)' => hostedHeld[r].stopped \/ r \in raced
    /\ \A s \in HostedSlots :
          \/ ops'[s] = ops[s]
          \/ ops'[s] = Hosted!Idle
          \/ /\ ops'[s].row = ops[s].row /\ ops'[s].cmd = ops[s].cmd /\ ops'[s].proc = ops[s].proc
             /\ ops[s].pc = "away" /\ ~Hosted!Running(ops[s].proc)'

LEMMA QuietlyKept ==
  ASSUME HostedInv, Quietly, Typed', Hosted!JournalFollows'
  PROVE  HostedInv'
<1>1. /\ DOMAIN procs = 1..Len(procs) /\ DOMAIN procs' = DOMAIN procs
      /\ \A p \in DOMAIN procs : /\ procs'[p].row = procs[p].row /\ procs'[p].transport = procs[p].transport
                                 /\ procs'[p].alive => procs[p].alive
  BY DEF HostedInv, Typed, Quietly, Fewer
<1>2. \A p : Hosted!Running(p)' => Hosted!Running(p)
  BY <1>1 DEF Hosted!Running
<1>3. \A r, p : Backs(r, p)' <=> Backs(r, p)
  BY <1>1 DEF Backs, Quietly
<1>4. \A s \in HostedSlots : ops'[s] = Hosted!Idle => ops'[s].row = 0 /\ ops'[s].cmd = "idle" /\ ops'[s].proc = 0 /\ ops'[s].pc = "none"
  BY DEF Hosted!Idle
<1>5. RowsAreBacked'
  BY <1>3 DEF HostedInv, RowsAreBacked, Quietly
<1>6. WorkIsOfAWindow'
  BY <1>1 DEF HostedInv, WorkIsOfAWindow, Quietly
<1>7. CommandsAreAtRows'
  <2>1. minted \in Nat
    BY RowBounds DEF HostedInv, Typed
  <2> QED BY <1>3, <1>4, <2>1 DEF HostedInv, CommandsAreAtRows, Quietly
<1>8. TwoAreARace'
  BY <1>4 DEF HostedInv, TwoAreARace, Quietly
<1>9. AloneFindsItAsItWas'
  BY <1>2, <1>4 DEF HostedInv, AloneFindsItAsItWas, Quietly
<1>10. ClosedIsEmpty'
  BY <1>4 DEF HostedInv, ClosedIsEmpty, Quietly
<1>11. Hosted!LostOnlyToARace'
  <2>1. \A p \in DOMAIN procs' : Hosted!Unreachable(p)' => procs'[p].row \in raced'
    BY <1>1, <1>2 DEF HostedInv, Hosted!LostOnlyToARace, Hosted!Unreachable, Quietly
  <2>2. \A r \in DOMAIN hostedHeld' : hostedHeld'[r].stopped /\ Hosted!Running(hostedHeld[r].live)' => r \in raced'
    BY <1>2 DEF HostedInv, Hosted!LostOnlyToARace, Quietly
  <2>3. \A r \in DOMAIN hostedHeld' : hostedHeld'[r].live = hostedHeld[r].live
    BY DEF Quietly
  <2> QED BY <2>1, <2>2, <2>3 DEF Hosted!LostOnlyToARace, Hosted!Running
<1> QED BY <1>5, <1>6, <1>7, <1>8, <1>9, <1>10, <1>11 DEF HostedInv

LEMMA Same == ASSUME NEW ps \in Seq(AProcess) PROVE Fewer(ps, ps)
BY DEF Fewer

\* What is recorded follows what is held, or the file is as it was and known to be.
LEMMA Recorded ==
  ASSUME Typed, hostedHeld' \in [DOMAIN hostedHeld' -> ARow], DOMAIN hostedHeld' \subseteq 1..minted', minted' \in 0..HostedRows, Hosted!record(hostedHeld')
  PROVE  /\ DOMAIN journal' \subseteq 1..HostedRows /\ journal' \in [DOMAIN journal' -> AnEntry]
         /\ Hosted!JournalFollows'
<1>1. CASE UNCHANGED journal /\ unwritten' = TRUE
  BY <1>1 DEF Typed, Hosted!JournalFollows
<1>2. CASE journal' = Hosted!Rewritten(hostedHeld')
  <2>1. /\ DOMAIN journal' = DOMAIN hostedHeld' /\ journal' \in [DOMAIN journal' -> AnEntry]
        /\ \A r \in DOMAIN hostedHeld' : journal'[r] = Hosted!Remembered(hostedHeld'[r])
    BY <1>2, RecordIs
  <2>2. DOMAIN journal' \subseteq 1..HostedRows
    BY <2>1, RowBounds
  <2> QED BY <2>1, <2>2 DEF Hosted!JournalFollows
<1> QED BY <1>1, <1>2 DEF Hosted!record

\* One lemma for each step of a row, a process, a command or a window.
LEMMA HookKeeps == ASSUME HostedInv, Hosted!ObserveHook PROVE HostedInv'
<1>0. Typed /\ Hosted!JournalFollows
  BY DEF HostedInv
<1>1. PICK p \in DOMAIN procs :
         /\ procs[p].row \in DOMAIN hostedHeld
         /\ hostedHeld' = [hostedHeld EXCEPT ![procs[p].row].session = procs[p].session]
  BY DEF Hosted!ObserveHook
<1> DEFINE r == procs[p].row
           x == [transport |-> hostedHeld[r].transport, live |-> hostedHeld[r].live, stopped |-> hostedHeld[r].stopped, session |-> procs[p].session]
<1>2. procs[p].session \in Nat
  <2>1. procs \in Seq(AProcess) /\ p \in 1..Len(procs)
    BY <1>0 DEF Typed
  <2> QED BY <2>1, ProcessIs
<1>3. hostedHeld \in [DOMAIN hostedHeld -> ARow] /\ r \in DOMAIN hostedHeld
  BY <1>0, <1>1 DEF Typed
<1>4. x \in ARow
  BY <1>2, <1>3, RowIs DEF ARow
<1>5. hostedHeld' = [hostedHeld EXCEPT ![r] = x]
  <2> PICK z : z = hostedHeld[r]
    OBVIOUS
  <2>1. z = [transport |-> z.transport, live |-> z.live, stopped |-> z.stopped, session |-> z.session]
    BY <1>3, RowIs
  <2> PICK n : n = procs[p].session
    OBVIOUS
  <2>2. [z EXCEPT !.session = n] = [transport |-> z.transport, live |-> z.live, stopped |-> z.stopped, session |-> n]
    BY ONLY <2>1
  <2> QED BY <1>1, <1>3, <2>2
<1>6. x.transport = hostedHeld[r].transport /\ x.live = hostedHeld[r].live /\ x.stopped = hostedHeld[r].stopped
  OBVIOUS
<1> HIDE DEF x
<1>7. /\ DOMAIN hostedHeld' = DOMAIN hostedHeld /\ hostedHeld' \in [DOMAIN hostedHeld -> ARow]
      /\ \A q \in DOMAIN hostedHeld : hostedHeld'[q] = IF q = r THEN x ELSE hostedHeld[q]
  BY ONLY <1>3, <1>4, <1>5, HostedRowSet
<1>8. Fewer(procs, procs')
  BY <1>0, Same DEF Typed, Hosted!ObserveHook
<1>9. Quietly
  <2>1. UNCHANGED <<minted, hostedUp, raced, ops, procs>>
    BY DEF Hosted!ObserveHook
  <2>2. \A q \in DOMAIN hostedHeld : /\ hostedHeld'[q].transport = hostedHeld[q].transport /\ hostedHeld'[q].live = hostedHeld[q].live
                                     /\ hostedHeld'[q].stopped = hostedHeld[q].stopped
    BY <1>6, <1>7
  <2> QED BY <1>7, <1>8, <2>1, <2>2 DEF Quietly
<1>10. Typed' /\ Hosted!JournalFollows'
  <2>1. /\ hostedHeld' \in [DOMAIN hostedHeld' -> ARow] /\ DOMAIN hostedHeld' \subseteq 1..minted' /\ minted' \in 0..HostedRows
        /\ Hosted!record(hostedHeld')
    BY <1>0, <1>7 DEF Hosted!ObserveHook, Typed
  <2>2. DOMAIN journal' \subseteq 1..HostedRows /\ journal' \in [DOMAIN journal' -> AnEntry] /\ Hosted!JournalFollows'
    BY <1>0, <2>1, Recorded
  <2> QED BY <1>0, <2>1, <2>2 DEF Hosted!ObserveHook, Typed
<1> QED BY <1>9, <1>10, QuietlyKept

LEMMA ExitKeeps == ASSUME HostedInv, Hosted!Exit PROVE HostedInv'
<1>0. Typed /\ Hosted!JournalFollows
  BY DEF HostedInv
<1>1. PICK p \in DOMAIN procs : procs' = Hosted!Ended(procs, p)
  BY DEF Hosted!Exit
<1>2. Fewer(procs, procs')
  BY <1>0, <1>1, EndedIs DEF Typed
<1>3. Quietly
  <2>1. \A q : Hosted!Running(q)' => Hosted!Running(q)
    BY <1>0, <1>2 DEF Fewer, Hosted!Running, Typed
  <2> QED BY <1>2, <2>1 DEF Hosted!Exit, Quietly, HostedInv, Hosted!LostOnlyToARace
<1>4. Typed' /\ Hosted!JournalFollows'
  BY <1>0, <1>2 DEF Hosted!Exit, Typed, Hosted!JournalFollows, Fewer
<1> QED BY <1>3, <1>4, QuietlyKept

LEMMA RenameKeeps == ASSUME HostedInv, Hosted!Rename PROVE HostedInv'
<1>0. Typed /\ Hosted!JournalFollows
  BY DEF HostedInv
<1>1. Quietly
  BY <1>0, Same DEF Hosted!Rename, Quietly, Typed
<1>2. Typed' /\ Hosted!JournalFollows'
  <2>1. /\ hostedHeld' \in [DOMAIN hostedHeld' -> ARow] /\ DOMAIN hostedHeld' \subseteq 1..minted' /\ minted' \in 0..HostedRows
        /\ Hosted!record(hostedHeld')
    BY <1>0 DEF Hosted!Rename, Typed
  <2>2. DOMAIN journal' \subseteq 1..HostedRows /\ journal' \in [DOMAIN journal' -> AnEntry] /\ Hosted!JournalFollows'
    BY <1>0, <2>1, Recorded
  <2> QED BY <1>0, <2>1, <2>2 DEF Hosted!Rename, Typed
<1> QED BY <1>1, <1>2, QuietlyKept

LEMMA StutterKeeps == ASSUME HostedInv, UNCHANGED <<minted, hostedHeld, procs, journal, unwritten, ops, hostedUp, raced>> PROVE HostedInv'
<1>0. Typed /\ Hosted!JournalFollows
  BY DEF HostedInv
<1>1. Quietly
  BY <1>0, Same DEF Quietly, Typed
<1>2. Typed' /\ Hosted!JournalFollows'
  BY <1>0 DEF Typed, Hosted!JournalFollows
<1> QED BY <1>1, <1>2, QuietlyKept

LEMMA RelayKeeps == ASSUME HostedInv, NEW s \in HostedSlots, Hosted!RelayResumed(s) PROVE HostedInv'
<1>0. Typed /\ Hosted!JournalFollows
  BY DEF HostedInv
<1>1. ops' \in [HostedSlots -> ACommand] /\ \A t \in HostedSlots : ops'[t] = IF t = s THEN Hosted!Idle ELSE ops[t]
  BY <1>0, DoneIs DEF Hosted!RelayResumed
<1>2. Fewer(procs, procs')
  <2> DEFINE r == ops[s].row
  <2>1. CASE r \in DOMAIN hostedHeld /\ Hosted!Running(hostedHeld[r].live)
    <3>1. hostedHeld[r].live \in 1..Len(procs)
      BY <1>0, <2>1 DEF Hosted!Running, Typed
    <3>2. procs' = [procs EXCEPT ![hostedHeld[r].live].relayed = TRUE]
      BY <2>1, Zenon DEF Hosted!RelayResumed
    <3> QED BY <1>0, <3>1, <3>2, RelayedIs DEF Typed
  <2>2. CASE ~(r \in DOMAIN hostedHeld /\ Hosted!Running(hostedHeld[r].live))
    BY <1>0, <2>2, Same DEF Hosted!RelayResumed, Typed
  <2> QED BY <2>1, <2>2
<1>3. Quietly
  <2>1. \A q : Hosted!Running(q)' => Hosted!Running(q)
    BY <1>0, <1>2 DEF Fewer, Hosted!Running, Typed
  <2>2. \A r \in DOMAIN hostedHeld : hostedHeld[r].stopped /\ Hosted!Running(hostedHeld[r].live)' => r \in raced
    BY <2>1 DEF Hosted!RelayResumed, HostedInv, Hosted!LostOnlyToARace
  <2> QED BY <1>1, <1>2, <2>2 DEF Hosted!RelayResumed, Quietly
<1>4. Typed' /\ Hosted!JournalFollows'
  BY <1>0, <1>1, <1>2 DEF Hosted!RelayResumed, Typed, Hosted!JournalFollows, Fewer
<1> QED BY <1>3, <1>4, QuietlyKept

LEMMA FailKeeps == ASSUME HostedInv, NEW s \in HostedSlots, Hosted!ResumeFails(s) PROVE HostedInv'
<1>0. Typed /\ Hosted!JournalFollows
  BY DEF HostedInv
<1>1. ops' \in [HostedSlots -> ACommand] /\ \A t \in HostedSlots : ops'[t] = IF t = s THEN Hosted!Idle ELSE ops[t]
  BY <1>0, DoneIs DEF Hosted!ResumeFails
<1>2. Quietly
  BY <1>0, <1>1, Same DEF Hosted!ResumeFails, Quietly, Typed
<1>3. Typed' /\ Hosted!JournalFollows'
  BY <1>0, <1>1 DEF Hosted!ResumeFails, Typed, Hosted!JournalFollows
<1> QED BY <1>2, <1>3, QuietlyKept

LEMMA HaltKeeps == ASSUME HostedInv, NEW s \in HostedSlots, Hosted!Halt(s) PROVE HostedInv'
<1>0. Typed /\ Hosted!JournalFollows
  BY DEF HostedInv
<1> DEFINE x == [cmd |-> ops[s].cmd, row |-> ops[s].row, pc |-> "halted", session |-> ops[s].session, proc |-> ops[s].proc]
<1>1. x \in ACommand
  BY <1>0, CommandIs DEF ACommand
<1>2. ops' = [ops EXCEPT ![s] = x]
  <2> PICK z : z = ops[s]
    OBVIOUS
  <2>1. z = [cmd |-> z.cmd, row |-> z.row, pc |-> z.pc, session |-> z.session, proc |-> z.proc]
    BY <1>0, CommandIs
  <2>2. [z EXCEPT !.pc = "halted"] = [cmd |-> z.cmd, row |-> z.row, pc |-> "halted", session |-> z.session, proc |-> z.proc]
    BY ONLY <2>1
  <2>3. s \in DOMAIN ops /\ ops' = [ops EXCEPT ![s].pc = "halted"]
    BY <1>0 DEF Typed, Hosted!Halt
  <2> QED BY <2>2, <2>3
<1>3. x.cmd = ops[s].cmd /\ x.row = ops[s].row /\ x.proc = ops[s].proc
  OBVIOUS
<1> HIDE DEF x
<1>4. ops' \in [HostedSlots -> ACommand] /\ \A t \in HostedSlots : ops'[t] = IF t = s THEN x ELSE ops[t]
  BY <1>0, <1>1, <1>2, CommandSet
<1>5. ops[s].proc \in Nat
  BY <1>0, CommandIs
<1>6. /\ Fewer(procs, procs')
      /\ ops[s].proc \in 1..Len(procs) => ~procs'[ops[s].proc].alive
  BY <1>0, <1>5, EndedIs DEF Hosted!Halt, Typed
<1>7. (\A q : Hosted!Running(q)' => Hosted!Running(q)) /\ ~Hosted!Running(ops[s].proc)'
  <2>1. ops'[s].proc = ops[s].proc
    BY <1>3, <1>4
  <2>2. \A q : Hosted!Running(q)' => Hosted!Running(q)
    BY <1>0, <1>6 DEF Fewer, Hosted!Running, Typed
  <2>3. DOMAIN procs' = 1..Len(procs)
    BY <1>6 DEF Fewer
  <2> QED BY <1>6, <2>1, <2>2, <2>3 DEF Hosted!Running
<1>8. Quietly
  <2>1. \A r \in DOMAIN hostedHeld : hostedHeld[r].stopped /\ Hosted!Running(hostedHeld[r].live)' => r \in raced
    BY <1>7 DEF Hosted!Halt, HostedInv, Hosted!LostOnlyToARace
  <2>2. ops[s].pc = "away"
    BY DEF Hosted!Halt
  <2> QED BY <1>3, <1>4, <1>6, <1>7, <2>1, <2>2 DEF Hosted!Halt, Quietly
<1>9. Typed' /\ Hosted!JournalFollows'
  BY <1>0, <1>4, <1>6 DEF Hosted!Halt, Typed, Hosted!JournalFollows, Fewer
<1> QED BY <1>8, <1>9, QuietlyKept

LEMMA MarkKeeps == ASSUME HostedInv, NEW s \in HostedSlots, Hosted!MarkStopped(s) PROVE HostedInv'
<1>0. Typed /\ Hosted!JournalFollows
  BY DEF HostedInv
<1>1. ops' \in [HostedSlots -> ACommand] /\ \A t \in HostedSlots : ops'[t] = IF t = s THEN Hosted!Idle ELSE ops[t]
  BY <1>0, DoneIs DEF Hosted!MarkStopped
<1> DEFINE r == ops[s].row
<1>2. /\ DOMAIN hostedHeld' = DOMAIN hostedHeld /\ hostedHeld' \in [DOMAIN hostedHeld -> ARow]
      /\ \A q \in DOMAIN hostedHeld : /\ hostedHeld'[q].transport = hostedHeld[q].transport /\ hostedHeld'[q].live = hostedHeld[q].live
                                      /\ q # r => hostedHeld'[q].stopped = hostedHeld[q].stopped
  <2>0. hostedHeld \in [DOMAIN hostedHeld -> ARow]
    BY <1>0 DEF Typed
  <2>1. CASE r \notin DOMAIN hostedHeld
    BY <2>0, <2>1 DEF Hosted!MarkStopped
  <2>2. CASE r \in DOMAIN hostedHeld
    <3> PICK yes \in BOOLEAN : yes = TRUE
      OBVIOUS
    <3> PICK z \in ARow : z = hostedHeld[r]
      BY <2>0, <2>2
    <3> PICK x : x = [transport |-> z.transport, live |-> z.live, stopped |-> yes, session |-> z.session]
      OBVIOUS
    <3>1. hostedHeld' = [hostedHeld EXCEPT ![r].stopped = yes]
      BY <2>2, Zenon DEF Hosted!MarkStopped
    <3>2. z = [transport |-> z.transport, live |-> z.live, stopped |-> z.stopped, session |-> z.session]
          /\ z.transport \in Hosted!Transports /\ z.live \in Nat /\ z.session \in Nat
      BY DEF ARow
    <3>3. z = [transport |-> z.transport, live |-> z.live, stopped |-> z.stopped, session |-> z.session]
      BY <3>2
    <3>4. [z EXCEPT !.stopped = yes] = x
      BY ONLY <3>3, x = [transport |-> z.transport, live |-> z.live, stopped |-> yes, session |->
         z.session]
    <3>5. hostedHeld' = [hostedHeld EXCEPT ![r] = x]
      BY ONLY <2>2, <3>1, <3>4, z = hostedHeld[r]
    <3>6. x \in ARow
      BY <3>2 DEF ARow
    <3>7. x.transport = hostedHeld[r].transport /\ x.live = hostedHeld[r].live
      BY ONLY x = [transport |-> z.transport, live |-> z.live, stopped |-> yes, session |->
         z.session], z = hostedHeld[r]
    <3>8. /\ DOMAIN hostedHeld' = DOMAIN hostedHeld /\ hostedHeld' \in [DOMAIN hostedHeld -> ARow]
          /\ \A q \in DOMAIN hostedHeld : hostedHeld'[q] = IF q = r THEN x ELSE hostedHeld[q]
      BY ONLY <2>0, <2>2, <3>5, <3>6, HostedRowSet
    <3> QED BY ONLY <3>7, <3>8
  <2> QED BY <2>1, <2>2
<1>3. Fewer(procs, procs')
  BY <1>0, Same DEF Hosted!MarkStopped, Typed
<1>4. r \in DOMAIN hostedHeld /\ r \notin raced => ~Hosted!Running(hostedHeld[r].live)
  BY DEF HostedInv, AloneFindsItAsItWas, Hosted!MarkStopped, Hosted!At
<1>5. Quietly
  <2>1. UNCHANGED <<minted, hostedUp, raced, procs>>
    BY DEF Hosted!MarkStopped
  <2>2. \A q : Hosted!Running(q)' <=> Hosted!Running(q)
    BY <2>1 DEF Hosted!Running
  <2>3. \A q \in DOMAIN hostedHeld : hostedHeld'[q].stopped /\ Hosted!Running(hostedHeld[q].live)' => hostedHeld[q].stopped \/ q \in raced
    BY <1>2, <1>4, <2>2
  <2> QED BY <1>1, <1>2, <1>3, <2>1, <2>3 DEF Quietly
<1>6. Typed' /\ Hosted!JournalFollows'
  <2>1. /\ hostedHeld' \in [DOMAIN hostedHeld' -> ARow] /\ DOMAIN hostedHeld' \subseteq 1..minted' /\ minted' \in 0..HostedRows
        /\ Hosted!record(hostedHeld')
    BY <1>0, <1>2 DEF Hosted!MarkStopped, Typed
  <2>2. DOMAIN journal' \subseteq 1..HostedRows /\ journal' \in [DOMAIN journal' -> AnEntry] /\ Hosted!JournalFollows'
    BY <1>0, <2>1, Recorded
  <2> QED BY <1>0, <1>1, <2>1, <2>2 DEF Hosted!MarkStopped, Typed
<1> QED BY <1>5, <1>6, QuietlyKept

LEMMA BeginKeeps ==
  ASSUME HostedInv, hostedUp, NEW s \in HostedSlots, NEW cmd \in {"resume", "launch", "stop", "forget"}, NEW r \in DOMAIN hostedHeld,
         NEW session \in Nat, Hosted!Begin(s, cmd, r, session, hostedHeld[r].live), Hosted!Free(s),
         cmd \in {"resume", "launch"} => ~Hosted!Running(hostedHeld[r].live),
         UNCHANGED <<minted, hostedHeld, procs, journal, unwritten, hostedUp>>
  PROVE  HostedInv'
<1>0. Typed /\ Hosted!JournalFollows
  BY DEF HostedInv
<1> DEFINE x == [cmd |-> cmd, row |-> r, pc |-> "away", session |-> session, proc |-> hostedHeld[r].live]
<1>1. /\ r \in 1..minted /\ minted \in Nat /\ hostedHeld \in [DOMAIN hostedHeld -> ARow]
      /\ ops \in [HostedSlots -> ACommand]
  BY <1>0, RowBounds DEF Typed
<1>2. hostedHeld[r].live \in Nat
  BY <1>1, RowIs
<1>3. x \in ACommand
  BY <1>1, <1>2 DEF ACommand
<1>4. x.cmd = cmd /\ x.row = r /\ x.pc = "away" /\ x.proc = hostedHeld[r].live
  OBVIOUS
<1>5. ops' = [ops EXCEPT ![s] = x]
  BY DEF Hosted!Begin
<1> HIDE DEF x
<1>6. ops' \in [HostedSlots -> ACommand] /\ \A t \in HostedSlots : ops'[t] = IF t = s THEN x ELSE ops[t]
  BY <1>0, <1>3, <1>5, CommandSet
<1>7. /\ raced \subseteq raced' /\ raced' \subseteq raced \union {r}
      /\ \A t \in HostedSlots : ops[t].row = r => r \in raced'
  BY DEF Hosted!Begin, Hosted!Busy
<1>8. \A p : Hosted!Running(p)' <=> Hosted!Running(p)
  BY DEF Hosted!Running
<1>9. \A q, p : Backs(q, p)' <=> Backs(q, p)
  BY DEF Backs
<1>10. Typed'
  BY <1>0, <1>6 DEF Typed
<1>11. RowsAreBacked' /\ WorkIsOfAWindow'
  BY DEF HostedInv, RowsAreBacked, WorkIsOfAWindow, Backs
<1>12. CommandsAreAtRows'
  <2>1. hostedHeld[r].live # 0 => Backs(r, hostedHeld[r].live)
    BY DEF HostedInv, RowsAreBacked
  <2>2. 0 \notin 1..minted /\ 1..minted \subseteq 0..minted
    BY <1>1
  <2>3. \A t \in HostedSlots : /\ ops'[t].row \in 0..minted
                               /\ ops'[t].cmd = "idle" <=> ops'[t].row = 0
                               /\ ops'[t].cmd = "idle" => ops'[t].proc = 0 /\ ops'[t].pc = "none"
                               /\ ops'[t].proc # 0 => Backs(ops'[t].row, ops'[t].proc)
    BY <1>1, <1>4, <1>6, <2>1, <2>2 DEF HostedInv, CommandsAreAtRows
  <2> QED BY <2>3 DEF CommandsAreAtRows, Backs
<1>13. TwoAreARace'
  BY <1>4, <1>6, <1>7 DEF HostedInv, TwoAreARace
<1>14. AloneFindsItAsItWas'
  <2>1. ASSUME NEW t \in HostedSlots, ops'[t].row \notin raced', ops'[t].pc \in {"away", "halted"}
        PROVE  /\ ops'[t].row \in DOMAIN hostedHeld /\ hostedHeld[ops'[t].row].live = ops'[t].proc
               /\ ops'[t].pc = "halted" \/ ops'[t].cmd \in {"resume", "launch"} => ~Hosted!Running(hostedHeld[ops'[t].row].live)
    <3>1. CASE t = s
      BY <1>4, <1>6, <3>1
    <3>2. CASE t # s
      BY <1>6, <1>7, <2>1, <3>2 DEF HostedInv, AloneFindsItAsItWas
    <3> QED BY <3>1, <3>2
  <2> QED BY <2>1 DEF AloneFindsItAsItWas, Hosted!Running
<1>15. ClosedIsEmpty' /\ Hosted!JournalFollows'
  BY <1>0 DEF ClosedIsEmpty, Hosted!JournalFollows
<1>16. Hosted!LostOnlyToARace'
  BY <1>7 DEF HostedInv, Hosted!LostOnlyToARace, Hosted!Unreachable, Hosted!Running
<1> QED BY <1>10, <1>11, <1>12, <1>13, <1>14, <1>15, <1>16 DEF HostedInv

\* One process more, after the others.
LEMMA OneMore ==
  ASSUME NEW ps \in Seq(AProcess), NEW x \in AProcess
  PROVE  /\ Append(ps, x) \in Seq(AProcess)
         /\ DOMAIN Append(ps, x) = 1..(Len(ps) + 1) /\ Len(Append(ps, x)) = Len(ps) + 1
         /\ \A p \in 1..Len(ps) : Append(ps, x)[p] = ps[p]
         /\ Append(ps, x)[Len(ps) + 1] = x
OBVIOUS

LEMMA StartKeeps == ASSUME HostedInv, Hosted!Start PROVE HostedInv'
<1>0. Typed /\ Hosted!JournalFollows /\ ClosedIsEmpty
  BY DEF HostedInv
<1>1. PICK t \in Hosted!Transports :
         /\ hostedHeld' = Hosted!Put(hostedHeld, minted', Hosted!Held(t, Hosted!NextProc))
         /\ procs' = Append(procs, [Hosted!Process(minted', t, 0) EXCEPT !.relayed = TRUE])
  BY DEF Hosted!Start
<1> PICK m : m = minted + 1
  OBVIOUS
<1> PICK n : n = Len(procs) + 1
  OBVIOUS
<1> DEFINE x == [row |-> m, transport |-> t, alive |-> TRUE, relayed |-> TRUE, session |-> n]
           h == [transport |-> t, live |-> n, stopped |-> FALSE, session |-> 0]
<1>2. /\ m = minted + 1 /\ n = Len(procs) + 1 /\ n \in Nat
      /\ minted' = m /\ m \in Nat /\ m \in 1..HostedRows /\ minted' \in 0..HostedRows
      /\ minted \in Nat /\ Len(procs) \in Nat /\ Hosted!NextProc = n /\ procs \in Seq(AProcess)
      /\ UNCHANGED <<ops, hostedUp, raced>> /\ hostedUp
  BY <1>0, RowBounds, NextProcIs DEF Typed, Hosted!Start
<1>3. procs' = Append(procs, x)
  <2> PICK yes : yes = TRUE
    OBVIOUS
  <2> PICK no : no = FALSE
    OBVIOUS
  <2> PICK z : z = Hosted!Process(m, t, 0)
    OBVIOUS
  <2>1. z = [row |-> m, transport |-> t, alive |-> yes, relayed |-> no, session |-> n]
    BY <1>2 DEF Hosted!Process
  <2>2. [z EXCEPT !.relayed = yes] = [row |-> m, transport |-> t, alive |-> yes, relayed |-> yes, session |-> n]
    BY ONLY <2>1
  <2>3. procs' = Append(procs, [z EXCEPT !.relayed = yes])
    BY <1>1, <1>2, Zenon
  <2> QED BY <2>2, <2>3
<1>4. x \in AProcess
  BY <1>2 DEF AProcess
<1>5. h \in ARow
  BY <1>2 DEF ARow
<1>6. hostedHeld' = Hosted!Put(hostedHeld, m, h)
  BY <1>1, <1>2 DEF Hosted!Held
<1>7. x.row = m /\ x.transport = t /\ h.transport = t /\ h.live = n /\ h.stopped = FALSE
  OBVIOUS
<1> HIDE DEF x, h
<1>8. m \notin DOMAIN hostedHeld /\ \A r \in DOMAIN hostedHeld : r \in 1..minted
  BY <1>0, <1>2 DEF Typed
<1>9. /\ procs' \in Seq(AProcess) /\ DOMAIN procs' = 1..n /\ DOMAIN procs = 1..Len(procs)
      /\ \A p \in DOMAIN procs : procs'[p] = procs[p] /\ p # n
      /\ procs'[n] = x
  BY <1>2, <1>3, <1>4, OneMore
<1>10. /\ DOMAIN hostedHeld' = DOMAIN hostedHeld \union {m} /\ hostedHeld'[m] = h
       /\ \A r \in DOMAIN hostedHeld : hostedHeld'[r] = hostedHeld[r] /\ r # m
       /\ hostedHeld' \in [DOMAIN hostedHeld' -> ARow]
  <2>1. DOMAIN hostedHeld' = DOMAIN hostedHeld \union {m} /\ \A r \in DOMAIN hostedHeld \union {m} : hostedHeld'[r] = IF r = m THEN h ELSE hostedHeld[r]
    BY <1>6 DEF Hosted!Put
  <2>2. hostedHeld' = [r \in DOMAIN hostedHeld' |-> hostedHeld'[r]]
    BY <1>6, <2>1 DEF Hosted!Put
  <2>3. \A r \in DOMAIN hostedHeld' : hostedHeld'[r] \in ARow
    BY <1>0, <1>5, <2>1 DEF Typed
  <2> QED BY <1>8, <2>1, <2>2, <2>3
<1>11. \A p \in DOMAIN procs : Hosted!Running(p)' <=> Hosted!Running(p)
  BY <1>2, <1>9 DEF Hosted!Running
<1>12. \A r, p : r # m /\ Backs(r, p) => Backs(r, p)'
  BY <1>2, <1>9, <1>10 DEF Backs
<1>13. Typed' /\ Hosted!JournalFollows'
  <2>1. DOMAIN hostedHeld' \subseteq 1..minted'
    BY <1>2, <1>8, <1>10
  <2>2. DOMAIN journal' \subseteq 1..HostedRows /\ journal' \in [DOMAIN journal' -> AnEntry] /\ Hosted!JournalFollows'
    BY <1>0, <1>2, <1>10, <2>1, Recorded DEF Hosted!Start
  <2> QED BY <1>0, <1>2, <1>9, <1>10, <2>1, <2>2 DEF Typed
<1>14. RowsAreBacked'
  <2>1. Backs(m, n)'
    BY <1>2, <1>7, <1>9, <1>10 DEF Backs
  <2>2. \A r \in DOMAIN hostedHeld : hostedHeld[r].live # 0 => Backs(r, hostedHeld[r].live)'
    BY <1>10, <1>12 DEF HostedInv, RowsAreBacked
  <2> QED BY <1>7, <1>10, <2>1, <2>2 DEF RowsAreBacked, Backs
<1>15. WorkIsOfAWindow'
  BY <1>2, <1>7, <1>9 DEF HostedInv, WorkIsOfAWindow
<1>16. CommandsAreAtRows'
  <2>1. \A s \in HostedSlots : ops[s].row # m /\ ops[s].row \in 0..minted'
    BY <1>2 DEF HostedInv, CommandsAreAtRows
  <2> QED BY <1>2, <1>12, <2>1 DEF HostedInv, CommandsAreAtRows
<1>17. TwoAreARace'
  BY <1>2 DEF HostedInv, TwoAreARace
<1>18. AloneFindsItAsItWas'
  <2>1. ~Hosted!Running(n) /\ \A s \in HostedSlots : ops[s].proc = 0 \/ ops[s].proc \in DOMAIN procs
    BY <1>2, <1>9 DEF Hosted!Running, HostedInv, CommandsAreAtRows, Backs
  <2>2. 0 \notin DOMAIN procs'
    BY <1>2, <1>9
  <2>3. \A s \in HostedSlots : Hosted!Running(ops[s].proc)' => Hosted!Running(ops[s].proc)
    BY <1>2, <1>9, <2>1, <2>2 DEF Hosted!Running
  <2> QED BY <1>2, <1>10, <2>3 DEF HostedInv, AloneFindsItAsItWas
<1>19. ClosedIsEmpty'
  BY <1>2 DEF ClosedIsEmpty
<1>20. Hosted!LostOnlyToARace'
  <2>1. ASSUME NEW p \in DOMAIN procs', Hosted!Unreachable(p)' PROVE procs'[p].row \in raced'
    <3>1. CASE p = n
      BY <1>2, <1>7, <1>9, <1>10, <2>1, <3>1 DEF Hosted!Unreachable
    <3>2. CASE p # n
      <4>1. p \in DOMAIN procs /\ procs'[p] = procs[p]
        BY <1>2, <1>9, <3>2
      <4>2. Hosted!Unreachable(p)
        BY <1>10, <1>11, <2>1, <4>1 DEF Hosted!Unreachable
      <4> QED BY <1>2, <4>1, <4>2 DEF HostedInv, Hosted!LostOnlyToARace
    <3> QED BY <3>1, <3>2
  <2>2. ASSUME NEW r \in DOMAIN hostedHeld', hostedHeld'[r].stopped, Hosted!Running(hostedHeld[r].live)' PROVE r \in raced'
    <3>1. r # m /\ r \in DOMAIN hostedHeld /\ hostedHeld'[r] = hostedHeld[r]
      BY <1>7, <1>10, <2>2
    <3>2. Hosted!Running(hostedHeld[r].live)
      <4>1. hostedHeld[r].live # 0 => hostedHeld[r].live \in DOMAIN procs
        BY <3>1 DEF HostedInv, RowsAreBacked, Backs
      <4>2. 0 \notin DOMAIN procs'
        BY <1>2, <1>9
      <4> QED BY <1>9, <2>2, <3>1, <4>1, <4>2 DEF Hosted!Running
    <3> QED BY <1>2, <2>2, <3>1, <3>2 DEF HostedInv, Hosted!LostOnlyToARace
  <2> QED BY <2>1, <2>2 DEF Hosted!LostOnlyToARace
<1> QED BY <1>13, <1>14, <1>15, <1>16, <1>17, <1>18, <1>19, <1>20 DEF HostedInv

\* What a row and a process are after a resume.
LEMMA RevivedIs ==
  ASSUME Typed, NEW s \in HostedSlots, ops[s].row \in DOMAIN hostedHeld, NEW n, Hosted!NextProc = n
  PROVE  \E y \in [transport : {hostedHeld[ops[s].row].transport}, live : {n}, stopped : {FALSE}, session : {hostedHeld[ops[s].row].session, ops[s].session}] :
            Hosted!Revived(s) = y
<1> PICK no : no = FALSE
  OBVIOUS
<1> PICK h : h = hostedHeld[ops[s].row]
  OBVIOUS
<1> PICK k : k = ops[s].session
  OBVIOUS
<1>1. h = [transport |-> h.transport, live |-> h.live, stopped |-> h.stopped, session |-> h.session]
  BY RowIs DEF Typed
<1>2. [h EXCEPT !.live = n, !.stopped = no] = [transport |-> h.transport, live |-> n, stopped |-> no, session |-> h.session]
  <2>1. [h EXCEPT !.live = n] = [transport |-> h.transport, live |-> n, stopped |-> h.stopped, session |-> h.session]
    BY ONLY <1>1
  <2>2. [h EXCEPT !.live = n, !.stopped = no] = [[h EXCEPT !.live = n] EXCEPT !.stopped = no]
    BY ONLY TRUE
  <2>3. ASSUME NEW y, y = [transport |-> h.transport, live |-> n, stopped |-> h.stopped, session |-> h.session]
        PROVE  [y EXCEPT !.stopped = no] = [transport |-> h.transport, live |-> n, stopped |-> no, session |-> h.session]
    BY ONLY <2>3
  <2> QED BY ONLY <2>1, <2>2, <2>3
<1>3. ASSUME NEW y, y = [transport |-> h.transport, live |-> n, stopped |-> no, session |-> h.session]
      PROVE  [y EXCEPT !.session = k] = [transport |-> h.transport, live |-> n, stopped |-> no, session |-> k]
  BY ONLY <1>3
<1>4. \/ Hosted!Revived(s) = [h EXCEPT !.live = n, !.stopped = no]
      \/ Hosted!Revived(s) = [[h EXCEPT !.live = n, !.stopped = no] EXCEPT !.session = k]
  BY Zenon DEF Hosted!Revived
<1>5. \/ Hosted!Revived(s) = [transport |-> h.transport, live |-> n, stopped |-> no, session |-> h.session]
      \/ Hosted!Revived(s) = [transport |-> h.transport, live |-> n, stopped |-> no, session |-> k]
  BY ONLY <1>2, <1>3, <1>4
<1> QED BY <1>5

LEMMA SpawnKeeps == ASSUME HostedInv, NEW s \in HostedSlots, Hosted!SpawnResumed(s), ops[s].row \in DOMAIN hostedHeld PROVE HostedInv'
<1>0. Typed /\ Hosted!JournalFollows /\ ClosedIsEmpty
  BY DEF HostedInv
<1> PICK n : n = Len(procs) + 1
  OBVIOUS
<1> PICK r : r = ops[s].row
  OBVIOUS
<1> PICK u : u = Hosted!ResumesAs(s)
  OBVIOUS
<1> PICK ds : ds = Hosted!Dropped(procs, hostedHeld[r].live)
  OBVIOUS
<1> PICK x : x = Hosted!Process(r, u, ops[s].session)
  OBVIOUS
<1>1. /\ n \in Nat /\ Hosted!NextProc = n /\ n = Len(procs) + 1 /\ Len(procs) \in Nat
      /\ procs \in Seq(AProcess) /\ hostedHeld \in [DOMAIN hostedHeld -> ARow] /\ minted \in Nat
      /\ DOMAIN hostedHeld \subseteq 1..minted /\ r \in DOMAIN hostedHeld
      /\ ops \in [HostedSlots -> ACommand]
  BY <1>0, NextProcIs, RowBounds DEF Typed
<1>2. /\ procs' = Append(ds, x) /\ hostedHeld' = [hostedHeld EXCEPT ![r] = Hosted!Revived(s)]
      /\ IF u = "pty" THEN Hosted!record(hostedHeld') ELSE UNCHANGED <<journal, unwritten>>
      /\ ops' = [ops EXCEPT ![s].pc = "relay"]
      /\ UNCHANGED <<minted, hostedUp, raced>>
      /\ ops[s].pc = "away" /\ ops[s].cmd \in {"resume", "launch"}
  BY Zenon DEF Hosted!SpawnResumed, Hosted!Resuming
<1>3. PICK y \in [transport : {hostedHeld[r].transport}, live : {n}, stopped : {FALSE}, session : {hostedHeld[r].session, ops[s].session}] :
         Hosted!Revived(s) = y
  BY <1>0, <1>1, RevivedIs
<1>4. y.transport = hostedHeld[r].transport /\ y.live = n /\ y.stopped = FALSE
  BY <1>3
<1>5. y \in ARow
  <2>1. hostedHeld[r].transport \in Hosted!Transports /\ hostedHeld[r].session \in Nat
    BY <1>1, RowIs
  <2>2. ops[s].session \in Nat
    BY <1>0, CommandIs
  <2>3. y = [transport |-> y.transport, live |-> y.live, stopped |-> y.stopped, session |-> y.session]
    BY ONLY <1>3
  <2>4. y.session \in Nat
    BY <1>3, <2>1, <2>2
  <2>5. y.transport \in Hosted!Transports /\ y.live \in Nat /\ y.stopped \in BOOLEAN
    BY <1>1, <1>4, <2>1
  <2> QED BY ONLY <2>3, <2>4, <2>5 DEF ARow
<1>6. /\ DOMAIN hostedHeld' = DOMAIN hostedHeld /\ hostedHeld' \in [DOMAIN hostedHeld -> ARow]
      /\ \A q \in DOMAIN hostedHeld : hostedHeld'[q] = IF q = r THEN y ELSE hostedHeld[q]
  BY <1>1, <1>2, <1>3, <1>5, HostedRowSet
<1>7. u \in Hosted!Transports /\ (u = "app" <=> ops[s].proc # 0 /\ procs[ops[s].proc].transport = "app")
  BY DEF Hosted!ResumesAs, Hosted!Transports
<1>8. hostedHeld[r].transport = "pty" => u = "pty"
  BY <1>1, <1>7 DEF HostedInv, CommandsAreAtRows, Backs, Hosted!Transports
<1>9. x \in AProcess /\ x.row = r /\ x.transport = u
  <2>1. ops[s].session \in Nat
    BY <1>0, CommandIs
  <2>2. r \in Nat
    BY <1>1
  <2> QED BY <1>1, <1>7, <2>1, <2>2 DEF Hosted!Process, AProcess
<1>10. Fewer(procs, ds)
  BY <1>1, RowIs, DroppedIs
<1>11. /\ procs' \in Seq(AProcess) /\ DOMAIN procs' = 1..n /\ DOMAIN procs = 1..Len(procs) /\ procs'[n] = x
       /\ n \notin DOMAIN procs /\ n \in DOMAIN procs' /\ DOMAIN procs' = DOMAIN procs \union {n} /\ 0 \notin DOMAIN procs'
       /\ \A p \in DOMAIN procs : /\ procs'[p].row = procs[p].row /\ procs'[p].transport = procs[p].transport
                                  /\ procs'[p].alive => procs[p].alive
  <2>1. ds \in Seq(AProcess) /\ Len(ds) = Len(procs)
    BY <1>10 DEF Fewer
  <2>2. /\ procs' \in Seq(AProcess) /\ DOMAIN procs' = 1..n /\ procs'[n] = x
        /\ \A p \in 1..Len(procs) : procs'[p] = ds[p]
    BY <1>1, <1>2, <1>9, <2>1, OneMore
  <2>3. DOMAIN procs = 1..Len(procs)
    BY <1>1
  <2>4. /\ n \notin DOMAIN procs /\ n \in DOMAIN procs' /\ DOMAIN procs' = DOMAIN procs \union {n}
        /\ 0 \notin DOMAIN procs'
    BY ONLY <1>1, <2>2, <2>3
  <2>5. \A p \in DOMAIN procs : /\ procs'[p].row = procs[p].row /\ procs'[p].transport = procs[p].transport
                                /\ procs'[p].alive => procs[p].alive
    BY <1>10, <2>2, <2>3 DEF Fewer
  <2> QED BY <2>2, <2>3, <2>4, <2>5
<1>12. \A p \in DOMAIN procs : Hosted!Running(p)' => Hosted!Running(p)
  BY <1>11 DEF Hosted!Running
<1>13. ops' \in [HostedSlots -> ACommand] /\ \A t \in HostedSlots : /\ ops'[t].row = ops[t].row /\ ops'[t].cmd = ops[t].cmd
                                                                     /\ ops'[t].proc = ops[t].proc
                                                                     /\ ops'[t].pc = IF t = s THEN "relay" ELSE ops[t].pc
  <2> PICK z : z = ops[s]
    OBVIOUS
  <2>1. z = [cmd |-> z.cmd, row |-> z.row, pc |-> z.pc, session |-> z.session, proc |-> z.proc]
    BY <1>0, CommandIs
  <2> PICK c : c = [cmd |-> z.cmd, row |-> z.row, pc |-> "relay", session |-> z.session, proc |-> z.proc]
    OBVIOUS
  <2>2. [z EXCEPT !.pc = "relay"] = c
    BY ONLY <2>1, c = [cmd |-> z.cmd, row |-> z.row, pc |-> "relay", session |-> z.session, proc
       |-> z.proc]
  <2>3. c \in ACommand
    BY <1>0, CommandIs DEF ACommand
  <2>4. ops' = [ops EXCEPT ![s] = c]
    BY <1>1, <1>2, <2>2
  <2>5. ops' \in [HostedSlots -> ACommand] /\ \A t \in HostedSlots : ops'[t] = IF t = s THEN c ELSE ops[t]
    BY <1>0, <2>3, <2>4, CommandSet
  <2>6. c.cmd = ops[s].cmd /\ c.row = ops[s].row /\ c.pc = "relay" /\ c.proc = ops[s].proc
    OBVIOUS
  <2> QED BY <2>5, <2>6
<1>14. \A q, p : Backs(q, p) => Backs(q, p)'
  BY <1>4, <1>6, <1>11 DEF Backs
<1>15. r \in 1..minted /\ hostedUp /\ minted' = minted /\ hostedUp' = hostedUp /\ raced' = raced
  BY <1>0, <1>1, <1>2 DEF ClosedIsEmpty
<1>16. Typed' /\ Hosted!JournalFollows'
  <2>1. CASE u = "pty"
    <3>1. DOMAIN journal' \subseteq 1..HostedRows /\ journal' \in [DOMAIN journal' -> AnEntry] /\ Hosted!JournalFollows'
      <4>1. /\ hostedHeld' \in [DOMAIN hostedHeld' -> ARow] /\ DOMAIN hostedHeld' \subseteq 1..minted' /\ minted' \in 0..HostedRows
            /\ Hosted!record(hostedHeld')
        BY <1>0, <1>1, <1>2, <1>6, <2>1 DEF Typed
      <4> QED BY <1>0, <4>1, Recorded
    <3> QED BY <1>0, <1>1, <1>6, <1>11, <1>13, <1>15, <3>1 DEF Typed
  <2>2. CASE u # "pty"
    <3>1. journal' = journal /\ unwritten' = unwritten /\ hostedHeld'[r].transport # "pty"
      BY <1>1, <1>2, <1>4, <1>6, <1>8, <2>2
    <3> QED BY <1>0, <1>1, <1>6, <1>11, <1>13, <1>15, <3>1 DEF Typed, Hosted!JournalFollows
  <2> QED BY <2>1, <2>2
<1>17. RowsAreBacked'
  <2>1. Backs(r, n)'
    BY <1>4, <1>6, <1>8, <1>9, <1>11 DEF Backs
  <2>2. \A q \in DOMAIN hostedHeld : hostedHeld[q].live # 0 => Backs(q, hostedHeld[q].live)
    BY DEF HostedInv, RowsAreBacked
  <2> QED BY <1>4, <1>6, <1>14, <2>1, <2>2 DEF RowsAreBacked, Backs
<1>18. WorkIsOfAWindow'
  BY <1>9, <1>11, <1>15 DEF HostedInv, WorkIsOfAWindow
<1>19. CommandsAreAtRows'
  BY <1>13, <1>14, <1>15 DEF HostedInv, CommandsAreAtRows
<1>20. TwoAreARace'
  BY <1>13, <1>15 DEF HostedInv, TwoAreARace
<1>21. AloneFindsItAsItWas'
  <2>1. ASSUME NEW t \in HostedSlots, ops'[t].row \notin raced', ops'[t].pc \in {"away", "halted"}
        PROVE  /\ ops'[t].row \in DOMAIN hostedHeld' /\ hostedHeld'[ops'[t].row].live = ops'[t].proc
               /\ ops'[t].pc = "halted" \/ ops'[t].cmd \in {"resume", "launch"} => ~(ops'[t].proc \in DOMAIN procs' /\ procs'[ops'[t].proc].alive)
    <3>1. t # s /\ ops[t].row \notin raced /\ ops[t].pc \in {"away", "halted"}
      BY <1>13, <1>15, <2>1
    <3>2. ops[t].row # r
      BY <1>1, <3>1 DEF HostedInv, TwoAreARace
    <3>3. /\ ops[t].row \in DOMAIN hostedHeld /\ hostedHeld[ops[t].row].live = ops[t].proc
          /\ ops[t].pc = "halted" \/ ops[t].cmd \in {"resume", "launch"} => ~Hosted!Running(ops[t].proc)
      BY <3>1 DEF HostedInv, AloneFindsItAsItWas
    <3>4. ops[t].proc = 0 \/ ops[t].proc \in DOMAIN procs
      BY DEF HostedInv, CommandsAreAtRows, Backs
    <3> QED BY <1>6, <1>11, <1>13, <3>1, <3>2, <3>3, <3>4 DEF Hosted!Running
  <2> QED BY <2>1 DEF AloneFindsItAsItWas, Hosted!Running
<1>22. ClosedIsEmpty'
  BY <1>15 DEF ClosedIsEmpty
<1>23. Hosted!LostOnlyToARace'
  <2>1. ASSUME NEW p \in DOMAIN procs', Hosted!Unreachable(p)' PROVE procs'[p].row \in raced'
    <3>1. CASE p = n
      BY <1>1, <1>4, <1>6, <1>9, <1>11, <2>1, <3>1 DEF Hosted!Unreachable
    <3>2. CASE p # n
      <4>1. p \in DOMAIN procs /\ procs'[p].row = procs[p].row /\ Hosted!Running(p)
        BY <1>11, <1>12, <2>1, <3>2 DEF Hosted!Unreachable
      <4>2. CASE Hosted!Unreachable(p)
        BY <1>15, <4>1, <4>2 DEF HostedInv, Hosted!LostOnlyToARace
      <4>3. CASE ~Hosted!Unreachable(p)
        <5>1. procs[p].row \in DOMAIN hostedHeld /\ hostedHeld[procs[p].row].live = p
          BY <4>1, <4>3 DEF Hosted!Unreachable
        <5>2. procs[p].row = r
          BY <1>6, <2>1, <4>1, <5>1 DEF Hosted!Unreachable
        <5> QED BY <1>2, <1>15, <4>1, <5>1, <5>2 DEF HostedInv, AloneFindsItAsItWas
      <4> QED BY <4>2, <4>3
    <3> QED BY <3>1, <3>2
  <2>2. ASSUME NEW q \in DOMAIN hostedHeld', hostedHeld'[q].stopped, hostedHeld'[q].live \in DOMAIN procs', procs'[hostedHeld'[q].live].alive PROVE q \in raced'
    <3>1. q # r /\ q \in DOMAIN hostedHeld /\ hostedHeld'[q] = hostedHeld[q]
      BY <1>4, <1>6, <2>2
    <3>2. hostedHeld[q].live \in DOMAIN procs
      BY <1>11, <2>2, <3>1 DEF HostedInv, RowsAreBacked, Backs
    <3>3. Hosted!Running(hostedHeld[q].live)
      BY <1>11, <2>2, <3>1, <3>2 DEF Hosted!Running
    <3> QED BY <1>15, <2>2, <3>1, <3>3 DEF HostedInv, Hosted!LostOnlyToARace
  <2> QED BY <2>1, <2>2 DEF Hosted!LostOnlyToARace, Hosted!Running
<1> QED BY <1>16, <1>17, <1>18, <1>19, <1>20, <1>21, <1>22, <1>23 DEF HostedInv

LEMMA LateSpawnKeeps == ASSUME HostedInv, NEW s \in HostedSlots, Hosted!SpawnResumed(s), ops[s].row \notin DOMAIN hostedHeld PROVE HostedInv'
<1>0. Typed /\ Hosted!JournalFollows /\ ClosedIsEmpty
  BY DEF HostedInv
<1> PICK n : n = Len(procs) + 1
  OBVIOUS
<1> PICK r : r = ops[s].row
  OBVIOUS
<1> PICK no \in BOOLEAN : no = FALSE
  OBVIOUS
<1> PICK z : z = Hosted!Process(r, Hosted!ResumesAs(s), ops[s].session)
  OBVIOUS
<1> PICK x : x = [row |-> z.row, transport |-> z.transport, alive |-> no, relayed |-> z.relayed, session |-> z.session]
  OBVIOUS
<1>1. /\ n \in Nat /\ Hosted!NextProc = n /\ n = Len(procs) + 1 /\ Len(procs) \in Nat /\ procs \in Seq(AProcess)
  BY <1>0, NextProcIs DEF Typed
<1>2. /\ procs' = Append(procs, [z EXCEPT !.alive = no]) /\ Hosted!Done(s)
      /\ UNCHANGED <<hostedHeld, journal, unwritten, minted, hostedUp, raced>>
  BY Zenon DEF Hosted!SpawnResumed
<1>3. z \in AProcess
  <2>1. ops[s].session \in Nat /\ r \in Nat
    BY <1>0, CommandIs
  <2>2. Hosted!ResumesAs(s) \in Hosted!Transports
    BY DEF Hosted!ResumesAs, Hosted!Transports
  <2> QED BY <1>1, <2>1, <2>2 DEF Hosted!Process, AProcess
<1>4. x = [z EXCEPT !.alive = no] /\ x \in AProcess
  BY <1>3, ProcessSet, Zenon
<1>5. x.alive = no
  OBVIOUS
<1>6. /\ procs' \in Seq(AProcess) /\ DOMAIN procs' = 1..n /\ DOMAIN procs = 1..Len(procs) /\ ~procs'[n].alive
      /\ \A p \in DOMAIN procs : procs'[p] = procs[p]
  BY <1>1, <1>2, <1>4, <1>5, OneMore
<1>7. \A p : Hosted!Running(p)' <=> Hosted!Running(p)
  <2>1. DOMAIN procs' = DOMAIN procs \union {n}
    BY ONLY <1>1, <1>6
  <2> QED BY <1>6, <2>1 DEF Hosted!Running
<1>8. \A q, p : Backs(q, p) => Backs(q, p)'
  BY <1>1, <1>2, <1>6 DEF Backs
<1>9. ops' \in [HostedSlots -> ACommand] /\ \A t \in HostedSlots : ops'[t] = IF t = s THEN Hosted!Idle ELSE ops[t]
  BY <1>0, <1>2, DoneIs
<1>10. Hosted!Idle.row = 0 /\ Hosted!Idle.cmd = "idle" /\ Hosted!Idle.proc = 0 /\ Hosted!Idle.pc = "none"
  BY DEF Hosted!Idle
<1>11. Typed' /\ Hosted!JournalFollows'
  BY <1>0, <1>2, <1>6, <1>9 DEF Typed, Hosted!JournalFollows
<1>12. RowsAreBacked'
  BY <1>2, <1>8 DEF HostedInv, RowsAreBacked
<1>13. WorkIsOfAWindow'
  BY <1>1, <1>2, <1>6 DEF HostedInv, WorkIsOfAWindow
<1>14. CommandsAreAtRows'
  <2>1. 0 \in 0..minted'
    BY <1>0, <1>2, RowBounds DEF Typed
  <2> QED BY <1>2, <1>8, <1>9, <1>10, <2>1 DEF HostedInv, CommandsAreAtRows
<1>15. TwoAreARace'
  BY <1>2, <1>9, <1>10 DEF HostedInv, TwoAreARace
<1>16. AloneFindsItAsItWas'
  BY <1>2, <1>7, <1>9, <1>10 DEF HostedInv, AloneFindsItAsItWas
<1>17. ClosedIsEmpty'
  BY <1>0, <1>2, <1>9, <1>10 DEF ClosedIsEmpty
<1>18. Hosted!LostOnlyToARace'
  <2>1. ASSUME NEW p \in DOMAIN procs', Hosted!Unreachable(p)' PROVE procs'[p].row \in raced'
    <3>1. Hosted!Running(p)
      BY <1>7, <2>1 DEF Hosted!Unreachable
    <3>2. p \in DOMAIN procs /\ procs'[p] = procs[p]
      BY <1>6, <3>1 DEF Hosted!Running
    <3> QED BY <1>2, <2>1, <3>1, <3>2 DEF Hosted!Unreachable, HostedInv, Hosted!LostOnlyToARace
  <2>2. \A q \in DOMAIN hostedHeld : hostedHeld[q].stopped /\ Hosted!Running(hostedHeld[q].live)' => q \in raced
    BY <1>2, <1>7 DEF HostedInv, Hosted!LostOnlyToARace
  <2> QED BY <1>2, <2>1, <2>2 DEF Hosted!LostOnlyToARace
<1> QED BY <1>11, <1>12, <1>13, <1>14, <1>15, <1>16, <1>17, <1>18 DEF HostedInv

LEMMA ForgetKeeps == ASSUME HostedInv, NEW s \in HostedSlots, Hosted!Forget(s) PROVE HostedInv'
<1>0. Typed /\ Hosted!JournalFollows /\ ClosedIsEmpty
  BY DEF HostedInv
<1> PICK r : r = ops[s].row
  OBVIOUS
<1>1. /\ DOMAIN hostedHeld' = DOMAIN hostedHeld \ {r} /\ \A q \in DOMAIN hostedHeld' : q # r /\ hostedHeld'[q] = hostedHeld[q]
      /\ hostedHeld' \in [DOMAIN hostedHeld' -> ARow]
  <2>1. hostedHeld' = [q \in DOMAIN hostedHeld \ {r} |-> hostedHeld[q]]
    BY DEF Hosted!Forget, Hosted!Without, Hosted!Restrict
  <2> QED BY <1>0, <2>1 DEF Typed
<1>2. UNCHANGED <<minted, hostedUp, raced>> /\ Hosted!record(hostedHeld') /\ Hosted!Done(s) /\ ops[s].cmd = "forget" /\ ops[s].pc = "halted"
  BY DEF Hosted!Forget, Hosted!At
<1>3. Fewer(procs, procs')
  <2>1. procs \in Seq(AProcess)
    BY <1>0 DEF Typed
  <2>2. CASE r \in DOMAIN hostedHeld
    <3>1. hostedHeld[r].live \in Nat
      BY <1>0, <2>2, RowIs DEF Typed
    <3> QED BY <2>1, <2>2, <3>1, DroppedIs DEF Hosted!Forget
  <2>3. CASE r \notin DOMAIN hostedHeld
    BY <2>1, <2>3, Same DEF Hosted!Forget
  <2> QED BY <2>2, <2>3
<1>4. /\ DOMAIN procs = 1..Len(procs) /\ DOMAIN procs' = DOMAIN procs /\ procs' \in Seq(AProcess)
      /\ \A p \in DOMAIN procs : /\ procs'[p].row = procs[p].row /\ procs'[p].transport = procs[p].transport
                                 /\ procs'[p].alive => procs[p].alive
  BY <1>0, <1>3 DEF Typed, Fewer
<1>5. \A p : Hosted!Running(p)' => Hosted!Running(p)
  BY <1>4 DEF Hosted!Running
<1>6. \A q, p : Backs(q, p) => Backs(q, p)'
  BY <1>1, <1>4 DEF Backs
<1>7. ops' \in [HostedSlots -> ACommand] /\ \A t \in HostedSlots : ops'[t] = IF t = s THEN Hosted!Idle ELSE ops[t]
  BY <1>0, <1>2, DoneIs
<1>8. Hosted!Idle.row = 0 /\ Hosted!Idle.cmd = "idle" /\ Hosted!Idle.proc = 0 /\ Hosted!Idle.pc = "none"
  BY DEF Hosted!Idle
<1>9. Typed' /\ Hosted!JournalFollows'
  <2>1. /\ hostedHeld' \in [DOMAIN hostedHeld' -> ARow] /\ DOMAIN hostedHeld' \subseteq 1..minted' /\ minted' \in 0..HostedRows
    BY <1>0, <1>1, <1>2 DEF Typed
  <2>2. DOMAIN journal' \subseteq 1..HostedRows /\ journal' \in [DOMAIN journal' -> AnEntry] /\ Hosted!JournalFollows'
    BY <1>0, <1>2, <2>1, Recorded
  <2> QED BY <1>0, <1>2, <1>4, <1>7, <2>1, <2>2 DEF Typed
<1>10. RowsAreBacked'
  BY <1>1, <1>6 DEF HostedInv, RowsAreBacked
<1>11. WorkIsOfAWindow'
  BY <1>2, <1>4 DEF HostedInv, WorkIsOfAWindow
<1>12. CommandsAreAtRows'
  <2>1. 0 \in 0..minted'
    BY <1>0, <1>2, RowBounds DEF Typed
  <2> QED BY <1>2, <1>6, <1>7, <1>8, <2>1 DEF HostedInv, CommandsAreAtRows
<1>13. TwoAreARace'
  BY <1>2, <1>7, <1>8 DEF HostedInv, TwoAreARace
<1>14. AloneFindsItAsItWas'
  <2>1. ASSUME NEW t \in HostedSlots, ops'[t].row \notin raced', ops'[t].pc \in {"away", "halted"}
        PROVE  /\ ops'[t].row \in DOMAIN hostedHeld' /\ hostedHeld'[ops'[t].row].live = ops'[t].proc
               /\ ops'[t].pc = "halted" \/ ops'[t].cmd \in {"resume", "launch"} => ~Hosted!Running(ops'[t].proc)
    <3>1. t # s /\ ops'[t] = ops[t] /\ ops[t].row \notin raced /\ ops[t].pc \in {"away", "halted"}
      BY <1>2, <1>7, <1>8, <2>1
    <3>2. /\ ops[t].row \in DOMAIN hostedHeld /\ hostedHeld[ops[t].row].live = ops[t].proc
          /\ ops[t].pc = "halted" \/ ops[t].cmd \in {"resume", "launch"} => ~Hosted!Running(ops[t].proc)
      BY <3>1 DEF HostedInv, AloneFindsItAsItWas
    <3>3. ops[t].row # 0
      BY <1>0, <3>2, RowBounds DEF Typed
    <3>4. ops[t].row # r
      BY <3>1, <3>3 DEF HostedInv, TwoAreARace
    <3> QED BY <1>1, <3>1, <3>2, <3>4
  <2> QED BY <1>4, <2>1 DEF AloneFindsItAsItWas, Hosted!Running
<1>15. ClosedIsEmpty'
  BY <1>0, <1>1, <1>2, <1>7, <1>8 DEF ClosedIsEmpty
<1>16. Hosted!LostOnlyToARace'
  <2>1. ASSUME NEW p \in DOMAIN procs', Hosted!Unreachable(p)' PROVE procs'[p].row \in raced'
    <3>1. Hosted!Running(p) /\ procs'[p].row = procs[p].row
      BY <1>4, <1>5, <2>1 DEF Hosted!Unreachable
    <3>2. CASE Hosted!Unreachable(p)
      BY <1>2, <1>4, <3>1, <3>2 DEF HostedInv, Hosted!LostOnlyToARace
    <3>3. CASE ~Hosted!Unreachable(p)
      <4>1. procs[p].row \in DOMAIN hostedHeld /\ hostedHeld[procs[p].row].live = p
        BY <3>1, <3>3 DEF Hosted!Unreachable
      <4>2. procs[p].row = r
        BY <1>1, <2>1, <3>1, <4>1 DEF Hosted!Unreachable
      <4> QED BY <1>2, <3>1, <4>1, <4>2 DEF HostedInv, AloneFindsItAsItWas
    <3> QED BY <3>2, <3>3
  <2>2. ASSUME NEW q \in DOMAIN hostedHeld', hostedHeld'[q].stopped, hostedHeld'[q].live \in DOMAIN procs', procs'[hostedHeld'[q].live].alive PROVE q \in raced'
    <3>1. q \in DOMAIN hostedHeld /\ hostedHeld'[q] = hostedHeld[q]
      BY <1>1, <2>2
    <3>2. Hosted!Running(hostedHeld[q].live)
      BY <1>4, <2>2, <3>1 DEF Hosted!Running
    <3> QED BY <1>2, <2>2, <3>1, <3>2 DEF HostedInv, Hosted!LostOnlyToARace
  <2> QED BY <2>1, <2>2 DEF Hosted!LostOnlyToARace, Hosted!Running
<1> QED BY <1>9, <1>10, <1>11, <1>12, <1>13, <1>14, <1>15, <1>16 DEF HostedInv

LEMMA CloseKeeps == ASSUME HostedInv, Hosted!CloseWindow PROVE HostedInv'
<1>0. Typed
  BY DEF HostedInv
<1>1. /\ hostedUp' = FALSE /\ DOMAIN hostedHeld' = {} /\ hostedHeld' \in [DOMAIN hostedHeld' -> ARow]
      /\ ops' = [s \in HostedSlots |-> Hosted!Idle] /\ UNCHANGED <<minted, journal, unwritten, raced>>
  BY DEF Hosted!CloseWindow, Hosted!NoRows
<1>2. Hosted!Idle.row = 0 /\ Hosted!Idle.cmd = "idle" /\ Hosted!Idle.proc = 0 /\ Hosted!Idle.pc = "none" /\ Hosted!Idle \in ACommand
  BY DEF Hosted!Idle, ACommand
<1>3. procs' \in Seq(AProcess) /\ \A p \in DOMAIN procs' : ~procs'[p].alive
  <2>1. DOMAIN procs = 1..Len(procs) /\ Len(procs) \in Nat
    BY <1>0 DEF Typed
  <2> PICK no \in BOOLEAN : no = FALSE
    OBVIOUS
  <2>2. procs' = [p \in 1..Len(procs) |-> [procs[p] EXCEPT !.alive = no, !.relayed = no]]
    BY <2>1, Zenon DEF Hosted!CloseWindow
  <2>3. ASSUME NEW p \in 1..Len(procs)
        PROVE  procs'[p] \in AProcess /\ procs'[p].alive = no
    <3> PICK z \in AProcess : z = procs[p]
      BY <1>0 DEF Typed
    <3> PICK x : x = [row |-> z.row, transport |-> z.transport, alive |-> no, relayed |-> no, session |-> z.session]
      OBVIOUS
    <3>1. x = [z EXCEPT !.alive = no, !.relayed = no] /\ x \in AProcess
      BY ProcessSet, Zenon
    <3>2. procs'[p] = x
      BY ONLY <2>2, <3>1, p \in 1..Len(procs), z = procs[p]
    <3>3. x.alive = no
      BY ONLY x = [row |-> z.row, transport |-> z.transport, alive |-> no, relayed |-> no, session
         |-> z.session]
    <3> QED BY ONLY <3>1, <3>2, <3>3
  <2>4. DOMAIN procs' = 1..Len(procs)
    BY <2>2
  <2>5. procs' = [p \in 1..Len(procs) |-> procs'[p]]
    BY <2>2
  <2>6. procs' \in Seq(AProcess)
    BY ONLY <2>1, <2>3, <2>5
  <2> QED BY <2>3, <2>4, <2>6
<1>4. Typed'
  BY <1>0, <1>1, <1>2, <1>3 DEF Typed
<1>5. RowsAreBacked' /\ WorkIsOfAWindow' /\ ClosedIsEmpty' /\ Hosted!JournalFollows'
  BY <1>1, <1>2, <1>3 DEF RowsAreBacked, WorkIsOfAWindow, ClosedIsEmpty, Hosted!JournalFollows
<1>6. CommandsAreAtRows' /\ TwoAreARace' /\ AloneFindsItAsItWas'
  <2>1. 0 \in 0..minted'
    BY <1>0, <1>1, RowBounds DEF Typed
  <2> QED BY <1>1, <1>2, <2>1 DEF CommandsAreAtRows, TwoAreARace, AloneFindsItAsItWas
<1>7. Hosted!LostOnlyToARace'
  BY <1>1, <1>3 DEF Hosted!LostOnlyToARace, Hosted!Unreachable, Hosted!Running
<1> QED BY <1>4, <1>5, <1>6, <1>7 DEF HostedInv

\* There is a highest of the ids the journal knows.
LEMMA HighestIs == ASSUME NEW T \in SUBSET (1..HostedRows) PROVE Hosted!Highest(T) \in 0..HostedRows /\ \A r \in T : r <= Hosted!Highest(T)
<1>1. \E n \in 0..HostedRows : (n = 0 \/ n \in T) /\ \A r \in T : r <= n
  <2>1. CASE T = {}
    BY <2>1, RowBounds
  <2>2. CASE T # {}
    <3>1. PICK k \in T : \A j \in T : j <= k
      BY <2>2, RowBounds, LastOf
    <3>2. k \in 0..HostedRows
      BY RowBounds
    <3> QED BY <3>1, <3>2
  <2> QED BY <2>1, <2>2
<1> QED BY <1>1, Zenon DEF Hosted!Highest

LEMMA OpenKeeps == ASSUME HostedInv, Hosted!OpenWindow PROVE HostedInv'
<1>0. Typed /\ ClosedIsEmpty
  BY DEF HostedInv
<1>1. ~hostedUp /\ hostedUp' = TRUE /\ raced' = {} /\ UNCHANGED <<procs, journal, ops>>
  BY DEF Hosted!OpenWindow
\* A list that is read, and one that is not.
<1>2. ASSUME minted' = Hosted!Highest(DOMAIN journal),
             hostedHeld' = [r \in DOMAIN journal |-> Hosted!Restored(journal[r])]
      PROVE  /\ minted' \in 0..HostedRows /\ DOMAIN hostedHeld' \subseteq 1..minted'
             /\ hostedHeld' \in [DOMAIN hostedHeld' -> ARow] /\ \A r \in DOMAIN hostedHeld' : hostedHeld'[r].live = 0
             /\ Hosted!JournalFollows'
  <2>1. minted' \in 0..HostedRows /\ \A r \in DOMAIN journal : r <= minted'
    BY <1>0, <1>2, HighestIs DEF Typed
  <2>2. \A r \in DOMAIN journal :
          /\ journal[r] = [transport |-> journal[r].transport, stopped |-> journal[r].stopped, session |-> journal[r].session]
          /\ journal[r].transport \in Hosted!Transports /\ journal[r].stopped \in BOOLEAN /\ journal[r].session \in Nat
    <3>1. \A r \in DOMAIN journal : journal[r] \in AnEntry
      BY <1>0 DEF Typed
    <3> QED BY <3>1 DEF AnEntry
  <2>3. /\ DOMAIN hostedHeld' = DOMAIN journal
        /\ \A r \in DOMAIN journal : hostedHeld'[r] = [transport |-> journal[r].transport, live |-> 0,
                                                stopped |-> journal[r].stopped, session |-> journal[r].session]
    BY <1>2 DEF Hosted!Restored
  <2>4. \A r \in DOMAIN journal : hostedHeld'[r] \in ARow
    BY <2>2, <2>3 DEF ARow
  <2>5. \A r \in DOMAIN journal : hostedHeld'[r].live = 0 /\ Hosted!Remembered(hostedHeld'[r]) = journal[r]
    BY <2>2, <2>3 DEF Hosted!Remembered
  <2>6. hostedHeld' = [r \in DOMAIN hostedHeld' |-> hostedHeld'[r]]
    BY <1>2, <2>3
  <2>7. DOMAIN hostedHeld' \subseteq 1..minted'
    BY <1>0, <2>1, <2>3, RowBounds DEF Typed
  <2>8. hostedHeld' \in [DOMAIN hostedHeld' -> ARow] /\ \A r \in DOMAIN hostedHeld' : hostedHeld'[r].live = 0
    BY <2>3, <2>4, <2>5, <2>6
  <2>9. Hosted!JournalFollows'
    BY <1>1, <2>3, <2>5 DEF Hosted!JournalFollows
  <2> QED BY <2>1, <2>7, <2>8, <2>9
<1>3. ASSUME hostedHeld' = Hosted!NoRows, minted' = 0, unwritten' = TRUE
      PROVE  /\ minted' \in 0..HostedRows /\ DOMAIN hostedHeld' \subseteq 1..minted'
             /\ hostedHeld' \in [DOMAIN hostedHeld' -> ARow] /\ \A r \in DOMAIN hostedHeld' : hostedHeld'[r].live = 0
             /\ Hosted!JournalFollows'
  <2>1. DOMAIN hostedHeld' = {} /\ hostedHeld' \in [DOMAIN hostedHeld' -> ARow]
    BY <1>3 DEF Hosted!NoRows
  <2>2. Hosted!JournalFollows'
    BY <1>3 DEF Hosted!JournalFollows
  <2> QED BY <1>3, <2>1, <2>2, RowBounds
<1>4. /\ minted' \in 0..HostedRows /\ DOMAIN hostedHeld' \subseteq 1..minted'
      /\ hostedHeld' \in [DOMAIN hostedHeld' -> ARow] /\ \A r \in DOMAIN hostedHeld' : hostedHeld'[r].live = 0
      /\ Hosted!JournalFollows'
  BY <1>2, <1>3 DEF Hosted!OpenWindow
<1>6. /\ \A s \in HostedSlots : ops'[s].cmd = "idle" /\ ops'[s].row = 0 /\ ops'[s].proc = 0 /\ ops'[s].pc = "none"
      /\ \A p \in DOMAIN procs' : ~procs'[p].alive
  <2>1. \A s \in HostedSlots : ops[s].cmd = "idle" /\ ops[s].row = 0 /\ ops[s].proc = 0 /\ ops[s].pc = "none"
    BY <1>0, <1>1 DEF HostedInv, ClosedIsEmpty, CommandsAreAtRows
  <2> QED BY <1>1, <2>1 DEF HostedInv, WorkIsOfAWindow
<1>7. Typed'
  BY <1>0, <1>1, <1>4 DEF Typed
<1>8. RowsAreBacked' /\ WorkIsOfAWindow' /\ ClosedIsEmpty' /\ Hosted!JournalFollows'
  BY <1>1, <1>4, <1>6 DEF RowsAreBacked, WorkIsOfAWindow, ClosedIsEmpty
<1>9. CommandsAreAtRows' /\ TwoAreARace' /\ AloneFindsItAsItWas'
  <2>1. 0 \in 0..minted'
    BY <1>4, RowBounds
  <2> QED BY <1>6, <2>1 DEF CommandsAreAtRows, TwoAreARace, AloneFindsItAsItWas
<1>10. Hosted!LostOnlyToARace'
  BY <1>6 DEF Hosted!LostOnlyToARace, Hosted!Unreachable, Hosted!Running
<1> QED BY <1>7, <1>8, <1>9, <1>10 DEF HostedInv

\* A first window, before anything was started.
LEMMA HostedStarts == Hosted!Init => HostedInv
<1> SUFFICES ASSUME Hosted!Init PROVE HostedInv
  OBVIOUS
<1>1. /\ minted = 0 /\ hostedHeld = Hosted!NoRows /\ procs = <<>> /\ journal = Hosted!NoRows /\ hostedUp = TRUE
      /\ ops = [s \in HostedSlots |-> Hosted!Idle] /\ raced = {}
  BY DEF Hosted!Init
<1>2. DOMAIN Hosted!NoRows = {} /\ DOMAIN procs = {} /\ procs \in Seq(AProcess)
      /\ Hosted!NoRows \in [DOMAIN Hosted!NoRows -> ARow] /\ Hosted!NoRows \in [DOMAIN Hosted!NoRows -> AnEntry]
  BY <1>1 DEF Hosted!NoRows
<1>3. Hosted!Idle.row = 0 /\ Hosted!Idle.cmd = "idle" /\ Hosted!Idle.proc = 0 /\ Hosted!Idle.pc = "none" /\ Hosted!Idle \in ACommand
  BY DEF Hosted!Idle, ACommand
<1>4. Typed
  BY <1>1, <1>2, <1>3, RowBounds DEF Typed
<1> QED BY <1>1, <1>2, <1>3, <1>4 DEF HostedInv, RowsAreBacked, WorkIsOfAWindow, CommandsAreAtRows,
   TwoAreARace, AloneFindsItAsItWas, ClosedIsEmpty, Hosted!JournalFollows, Hosted!LostOnlyToARace

\* Together they are every step.
LEMMA HostedSteps == HostedInv /\ [Hosted!Next]_(Hosted!vars) => HostedInv'
<1> SUFFICES ASSUME HostedInv, [Hosted!Next]_(Hosted!vars) PROVE HostedInv'
  OBVIOUS
<1>0. Typed
  BY DEF HostedInv
<1>1. CASE Hosted!Start
  BY <1>1, StartKeeps
<1>2. CASE Hosted!ObserveHook
  BY <1>2, HookKeeps
<1>3. CASE Hosted!Exit
  BY <1>3, ExitKeeps
<1>4. CASE Hosted!Rename
  BY <1>4, RenameKeeps
\* A conversation is a number, named by a hook or by the protocol.
<1>5. ASSUME NEW r \in DOMAIN hostedHeld PROVE Hosted!ThreadOf(r) \in Nat
  <2>1. hostedHeld[r].session \in Nat
    BY <1>0, <1>5, RowIs DEF Typed
  <2>2. ASSUME Hosted!Structured(r) PROVE procs[hostedHeld[r].live].session \in Nat
    <3>1. procs \in Seq(AProcess) /\ hostedHeld[r].live \in 1..Len(procs)
      BY <1>0, <1>5, <2>2 DEF Hosted!Structured, HostedInv, RowsAreBacked, Backs, Typed
    <3> QED BY <3>1, ProcessIs
  <2> QED BY <2>1, <2>2 DEF Hosted!ThreadOf
<1>6. ASSUME NEW s \in HostedSlots, NEW cmd \in {"resume", "launch"}, NEW r, Hosted!BeginResume(s, cmd, r),
             UNCHANGED <<minted, hostedHeld, procs, journal, unwritten, hostedUp>>
      PROVE  HostedInv'
  <2>1. /\ hostedUp /\ Hosted!Free(s) /\ r \in DOMAIN hostedHeld /\ ~Hosted!Running(hostedHeld[r].live)
        /\ Hosted!Begin(s, cmd, r, Hosted!ThreadOf(r), hostedHeld[r].live)
    BY <1>6 DEF Hosted!BeginResume, Hosted!MayResume
  <2>2. Hosted!ThreadOf(r) \in Nat
    BY <1>5, <2>1
  <2> QED BY <1>6, <2>1, <2>2, BeginKeeps
<1>7. CASE Hosted!Resume
  <2>1. PICK s \in HostedSlots, r \in Hosted!Rows : Hosted!BeginResume(s, "resume", r)
    BY <1>7 DEF Hosted!Resume
  <2> QED BY <1>6, <1>7, <2>1 DEF Hosted!Resume
<1>8. CASE Hosted!BeginHalt
  <2>1. PICK s \in HostedSlots, r \in DOMAIN hostedHeld, cmd \in {"stop", "forget"} : Hosted!Free(s) /\ Hosted!Begin(s, cmd, r, 0, hostedHeld[r].live)
    BY <1>8 DEF Hosted!BeginHalt
  <2>2. hostedUp /\ UNCHANGED <<minted, hostedHeld, procs, journal, unwritten, hostedUp>>
    BY <1>8 DEF Hosted!BeginHalt
  <2> QED BY <2>1, <2>2, BeginKeeps
<1>9. CASE Hosted!CloseWindow
  BY <1>9, CloseKeeps
<1>10. CASE Hosted!OpenWindow
  BY <1>10, OpenKeeps
<1>11. CASE Hosted!LaunchResumes
  <2>1. PICK r \in launch, s \in HostedSlots :
           IF Hosted!MayResume(r) THEN Hosted!BeginResume(s, "launch", r) ELSE UNCHANGED <<ops, raced>>
    BY <1>11 DEF Hosted!LaunchResumes
  <2>2. UNCHANGED <<minted, hostedHeld, procs, journal, unwritten, hostedUp>>
    BY <1>11 DEF Hosted!LaunchResumes
  <2>3. CASE Hosted!MayResume(r)
    BY <1>6, <2>1, <2>2, <2>3
  <2>4. CASE ~Hosted!MayResume(r)
    BY <2>1, <2>2, <2>4, StutterKeeps
  <2> QED BY <2>3, <2>4
<1>12. ASSUME NEW s \in HostedSlots, Hosted!SpawnResumed(s) PROVE HostedInv'
  BY <1>12, SpawnKeeps, LateSpawnKeeps
<1>13. ASSUME NEW s \in HostedSlots,
              Hosted!RelayResumed(s) \/ Hosted!ResumeFails(s) \/ Hosted!Halt(s) \/ Hosted!MarkStopped(s) \/ Hosted!Forget(s)
       PROVE  HostedInv'
  BY <1>13, RelayKeeps, FailKeeps, HaltKeeps, MarkKeeps, ForgetKeeps
<1>14. CASE UNCHANGED Hosted!vars
  BY <1>14, StutterKeeps DEF Hosted!vars
<1> QED BY <1>1, <1>2, <1>3, <1>4, <1>7, <1>8, <1>9, <1>10, <1>11, <1>12, <1>13, <1>14 DEF
   Hosted!Next

\* hosted/mod.rs, journal.rs: the journal has every row a next window can resume, and a
\* live process without a row was lost to a race of two commands over one row.
THEOREM HostedHolds == Hosted!Spec => [](Hosted!JournalFollows /\ Hosted!LostOnlyToARace)
<1>1. HostedInv => Hosted!JournalFollows /\ Hosted!LostOnlyToARace
  BY DEF HostedInv
<1> QED BY HostedStarts, HostedSteps, <1>1, PTL DEF Hosted!Spec

(* ---- the session index ---- *)

\* Sessions that pick names and write records, from several processes.
Index == INSTANCE Index WITH
    file <- indexFile, up <- indexUp, acked <- indexAcked

HoldsWorktree(p) == Index!HoldsTree(p)
Busy(p) == job[p].pc # "idle"
SaysStarted(i) == indexAcked[i].record.rec = "started"
SaidFor(i) == indexAcked[i].record.session
Excused(x) == x \in gone \union robbed

\* A job has its fields, a name is owned by a session or by none, and what was
\* acknowledged is a sequence.
IndexShapes ==
    /\ job = [p \in Procs |-> [pc |-> job[p].pc, session |-> job[p].session,
                               name |-> job[p].name, tries |-> job[p].tries]]
    /\ owner \in [Names -> Sessions \union {"none"}]
    /\ \E Acks : indexAcked \in Seq(Acks)

\* A session is given to one start, and is that of an entry only when the start is over.
OneStartEach ==
    /\ \A p \in Procs : Busy(p) => job[p].session \in used
    /\ \A p, q \in Procs : p # q /\ Busy(p) /\ Busy(q) => job[p].session # job[q].session
    /\ \A i \in DOMAIN indexAcked : SaysStarted(i) =>
          SaidFor(i) \in used /\ \A p \in Procs : Busy(p) => job[p].session # SaidFor(i)
    /\ used \subseteq Sessions

\* A name belongs to the session its worktree was cut for, from the cut to a discard:
\* whoever it was taken from is robbed, and whoever gave it up is gone.
NamesAreOwned ==
    /\ \A p \in Procs : HoldsWorktree(p) /\ job[p].session \notin robbed =>
          job[p].name \in Names /\ owner[job[p].name] = job[p].session
    /\ \A i \in DOMAIN indexAcked : SaysStarted(i) /\ ~Excused(SaidFor(i)) =>
          indexAcked[i].record.value \in Names /\ owner[indexAcked[i].record.value] = SaidFor(i)

IndexInv == IndexShapes /\ OneStartEach /\ NamesAreOwned

\* Nothing is held or recorded at first.
LEMMA IndexStarts == Index!Init => IndexInv
<1> SUFFICES ASSUME Index!Init PROVE IndexInv
  OBVIOUS
<1>1. IndexShapes
  <2>1. indexAcked \in Seq({})
    BY EmptySeq DEF Index!Init
  <2> QED BY <2>1 DEF Index!Init, IndexShapes, Index!Idle
<1>2. DOMAIN indexAcked = {} /\ used = {} /\ \A p \in Procs : ~HoldsWorktree(p) /\ ~Busy(p)
  BY DEF Index!Init, HoldsWorktree, Index!HoldsTree, Busy, Index!Idle
<1> QED BY <1>1, <1>2, Zenon DEF IndexInv, OneStartEach, NamesAreOwned

\* One record more is acknowledged after the others.
LEMMA AckedGrows ==
    ASSUME IndexShapes, NEW a, indexAcked' = Append(indexAcked, a)
    PROVE  /\ \E Acks : indexAcked' \in Seq(Acks)
           /\ \A i \in DOMAIN indexAcked' : indexAcked'[i] = a \/ (i \in DOMAIN indexAcked /\ indexAcked'[i] = indexAcked[i])
<1>1. PICK Acks : indexAcked \in Seq(Acks)
  BY DEF IndexShapes
<1>2. indexAcked \in Seq(Acks \union {a})
  BY <1>1, SeqMonotonic
<1>3. /\ indexAcked' \in Seq(Acks \union {a}) /\ DOMAIN indexAcked' = 1..(Len(indexAcked) + 1)
      /\ DOMAIN indexAcked = 1..Len(indexAcked) /\ Len(indexAcked) \in Nat
      /\ \A i \in 1..Len(indexAcked) : indexAcked'[i] = indexAcked[i]
      /\ indexAcked'[Len(indexAcked) + 1] = a
  BY <1>2, AppendProperties, LenProperties
<1> QED BY <1>3

\* A process's job is set in whole or by field, and the other jobs stay.
LEMMA JobSet ==
    ASSUME IndexShapes, NEW p \in Procs
    PROVE  /\ \A j : LET js == [job EXCEPT ![p] = j]
                     IN js[p] = j /\ js = [job EXCEPT ![p] = js[p]] /\ \A q \in Procs \ {p} : js[q] = job[q]
           /\ \A pc : [job EXCEPT ![p].pc = pc] =
                [job EXCEPT ![p] = [pc |-> pc, session |-> job[p].session, name |-> job[p].name, tries |-> job[p].tries]]
<1>1. job = [q \in Procs |-> [pc |-> job[q].pc, session |-> job[q].session, name |-> job[q].name, tries |-> job[q].tries]]
  BY DEF IndexShapes
<1>2. DOMAIN job = Procs /\ job[p] = [pc |-> job[p].pc, session |-> job[p].session, name |-> job[p].name, tries |-> job[p].tries]
  BY <1>1
<1>3. ASSUME NEW j
      PROVE  LET js == [job EXCEPT ![p] = j]
             IN js[p] = j /\ js = [job EXCEPT ![p] = js[p]] /\ \A q \in Procs \ {p} : js[q] = job[q]
  BY <1>2
<1>4. ASSUME NEW pc
      PROVE  [job EXCEPT ![p].pc = pc] =
                [job EXCEPT ![p] = [pc |-> pc, session |-> job[p].session, name |-> job[p].name, tries |-> job[p].tries]]
  <2>1. [job[p] EXCEPT !.pc = pc] = [pc |-> pc, session |-> job[p].session, name |-> job[p].name, tries |-> job[p].tries]
    BY <1>2
  <2>2. [job EXCEPT ![p].pc = pc] = [job EXCEPT ![p] = [job[p] EXCEPT !.pc = pc]]
    BY <1>2
  <2> QED BY <2>1, <2>2
<1> QED BY <1>3, <1>4

\* One of the jobs is set, or none is.
JobIs(p, j) == job' = [job EXCEPT ![p] = j]
AJob(j) == j = [pc |-> j.pc, session |-> j.session, name |-> j.name, tries |-> j.tries]

Recorded1(record) == \E n : indexAcked' = Append(indexAcked, [record |-> record, line |-> n])
\* Nothing is acknowledged, or something that is no start.
NoStart == indexAcked' = indexAcked \/ \E record : record.rec # "started" /\ Recorded1(record)
\* A discard for session x of what carries the name n, whether it works or half does.
Takes(x, n, but) == Index!TakeAway(x, n, but) \/ Index!HalfTaken(x, n, but)

\* What a step of one process does to its job, to the names and to what is acknowledged.
GivesUp(j) == j.pc = "idle" /\ UNCHANGED <<owner, gone, robbed, used, indexAcked>>
Picks(j) ==
    /\ j.pc = "picked" /\ j.session \in Sessions \ used /\ used' = used \union {j.session}
    /\ UNCHANGED <<owner, gone, robbed, indexAcked>>
CarriesOn(p, j) ==
    /\ Busy(p) /\ j.session = job[p].session
    /\ j.pc = "picked" \/ (HoldsWorktree(p) /\ j.name = job[p].name)
    /\ UNCHANGED <<owner, gone, robbed, used, indexAcked>>
Cuts(p, j) ==
    /\ Busy(p) /\ j.session = job[p].session /\ j.name = job[p].name
    /\ j.name \in Index!FreeNames /\ owner' = [owner EXCEPT ![j.name] = j.session]
    /\ UNCHANGED <<gone, robbed, used, indexAcked>>
Discards(p, j) ==
    /\ HoldsWorktree(p) /\ j.pc = "idle"
    /\ Takes(job[p].session, job[p].name, {p}) /\ UNCHANGED <<used, indexAcked>>
Writes(p, j) ==
    /\ HoldsWorktree(p) /\ j.pc = "idle"
    /\ Recorded1(Index!Started(job[p].session, job[p].name)) /\ UNCHANGED <<owner, gone, robbed, used>>
JobDoes(p, j) ==
    GivesUp(j) \/ Picks(j) \/ CarriesOn(p, j) \/ Cuts(p, j) \/ Discards(p, j) \/ Writes(p, j)

\* What is done with no job: a record of another kind, and a discard for an entry.
EntryDoes ==
    /\ UNCHANGED <<job, used>> /\ NoStart
    /\ UNCHANGED <<owner, gone, robbed>> \/ \E x, n : Takes(x, n, {})

\* A second pick is a job like the first.
LEMMA PicksAgain ==
    ASSUME IndexShapes, NEW p \in Procs, NEW n, NEW k
    PROVE  LET j == [job[p] EXCEPT !.name = n, !.tries = k]
           IN AJob(j) /\ j.pc = job[p].pc /\ j.session = job[p].session
<1>1. job[p] = [pc |-> job[p].pc, session |-> job[p].session, name |-> job[p].name, tries |-> job[p].tries]
  BY DEF IndexShapes
<1> DEFINE r == [job[p] EXCEPT !.name = n]
<1>2. r = [pc |-> job[p].pc, session |-> job[p].session, name |-> n, tries |-> job[p].tries]
  BY <1>1
<1>3. [r EXCEPT !.tries = k] = [pc |-> job[p].pc, session |-> job[p].session, name |-> n, tries |-> k]
  <2> HIDE DEF r
  <2> QED BY <1>2
<1>4. [job[p] EXCEPT !.name = n, !.tries = k] = [r EXCEPT !.tries = k]
  OBVIOUS
<1> QED BY <1>3, <1>4 DEF AJob

\* Every step but a stutter sets one process's job, or is about an entry.
LEMMA OneJobDoes ==
    ASSUME IndexShapes, NEW p \in Procs,
           Index!Open(p) \/ Index!Die(p) \/ Index!Pick(p) \/ Index!PickAgain(p) \/ Index!Cut(p) \/ Index!SetUp(p) \/ Index!SetUpFails(p)
             \/ Index!BuildFails(p) \/ Index!StartIsTorn(p) \/ Index!RecordStarted(p) \/ Index!Close(p) \/ Index!DiscardUnrecorded(p)
             \/ Index!Rename(p) \/ Index!Label(p)
    PROVE  EntryDoes \/ \E j : JobIs(p, j) /\ AJob(j) /\ JobDoes(p, j)
<1>1. AJob(Index!Idle) /\ Index!Idle.pc = "idle"
  BY DEF AJob, Index!Idle
<1>2. CASE Index!Die(p)
  <2>1. JobIs(p, Index!Idle) /\ UNCHANGED <<owner, gone, robbed, used, indexAcked>>
    BY <1>2 DEF Index!Die, Index!Torn, Index!trees, JobIs
  <2> QED BY <1>1, <2>1 DEF JobDoes, GivesUp
<1>3. CASE Index!Pick(p)
  <2>1. PICK x, n : /\ JobIs(p, [pc |-> "picked", session |-> x, name |-> n, tries |-> 1])
                    /\ x \in Sessions \ used /\ used' = used \union {x}
    BY <1>3 DEF Index!Pick, JobIs
  <2>2. UNCHANGED <<owner, gone, robbed, indexAcked>>
    BY <1>3 DEF Index!Pick, Index!trees
  <2> QED BY <2>1, <2>2 DEF JobDoes, Picks, AJob
<1>4. CASE Index!PickAgain(p)
  <2>1. job[p].pc = "picked" /\ UNCHANGED <<owner, gone, robbed, used, indexAcked>>
    BY <1>4 DEF Index!PickAgain, Index!trees
  <2>2. CASE JobIs(p, Index!Idle)
    BY <1>1, <2>1, <2>2 DEF JobDoes, GivesUp
  <2>3. ASSUME NEW n, JobIs(p, [job[p] EXCEPT !.name = n, !.tries = job[p].tries + 1])
        PROVE  \E j : JobIs(p, j) /\ AJob(j) /\ JobDoes(p, j)
    <3> DEFINE k == job[p].tries + 1
               j == [job[p] EXCEPT !.name = n, !.tries = k]
    <3>0. JobIs(p, j)
      BY <2>3
    <3> HIDE DEF k
    <3>2. AJob(j) /\ j.pc = job[p].pc /\ j.session = job[p].session
      BY PicksAgain
    <3>1. AJob(j) /\ j.pc = "picked" /\ j.session = job[p].session /\ JobIs(p, j)
      BY <2>1, <3>0, <3>2
    <3> HIDE DEF j
    <3> QED BY <2>1, <3>1 DEF JobDoes, CarriesOn, Busy
  <2> QED BY <1>4, <2>2, <2>3 DEF Index!PickAgain, JobIs
<1>5. CASE Index!Cut(p) \/ Index!SetUp(p)
  <2>1. PICK pc \in {"setup", "cut"} : job' = [job EXCEPT ![p].pc = pc]
    BY <1>5 DEF Index!Cut, Index!SetUp
  <2> DEFINE j == [pc |-> pc, session |-> job[p].session, name |-> job[p].name, tries |-> job[p].tries]
  <2>2. JobIs(p, j) /\ AJob(j) /\ j.name = job[p].name /\ j.session = job[p].session
    BY <2>1, JobSet DEF JobIs, AJob
  <2> HIDE DEF j
  <2>3. CASE Index!Cut(p)
    BY <2>2, <2>3 DEF Index!Cut, Index!Taken, JobDoes, Cuts, Busy
  <2>4. CASE Index!SetUp(p)
    BY <2>2, <2>4 DEF Index!SetUp, Index!trees, JobDoes, CarriesOn, Busy, HoldsWorktree, Index!HoldsTree
  <2> QED BY <1>5, <2>3, <2>4
<1>6. CASE Index!SetUpFails(p)
  <2>1. JobIs(p, Index!Idle) /\ UNCHANGED <<owner, gone, robbed, used, indexAcked>>
    BY <1>6 DEF Index!SetUpFails, Index!trees, JobIs
  <2> QED BY <1>1, <2>1 DEF JobDoes, GivesUp
<1>7. CASE Index!BuildFails(p) \/ Index!StartIsTorn(p)
  <2>1. JobIs(p, Index!Idle) /\ HoldsWorktree(p) /\ UNCHANGED <<used, indexAcked>> /\ Index!Discard(p)
    BY <1>7 DEF Index!BuildFails, Index!StartIsTorn, Index!Discard, Index!Torn, JobIs, HoldsWorktree,
       Index!HoldsTree
  <2>2. Takes(job[p].session, job[p].name, {p}) \/ UNCHANGED <<owner, gone, robbed>>
    BY <2>1 DEF Index!Discard, Index!trees, Takes
  <2> QED BY <1>1, <2>1, <2>2 DEF JobDoes, GivesUp, Discards
<1>8. CASE Index!RecordStarted(p)
  <2>1. /\ JobIs(p, Index!Idle) /\ HoldsWorktree(p) /\ UNCHANGED <<owner, gone, robbed, used>>
        /\ Recorded1(Index!Started(job[p].session, job[p].name))
    BY <1>8 DEF Index!RecordStarted, Index!Appended, Index!trees, JobIs, HoldsWorktree, Index!HoldsTree,
       Recorded1
  <2> QED BY <1>1, <2>1 DEF JobDoes, Writes
<1>9. ASSUME NEW record, record.rec # "started", Index!Records(p, record)
      PROVE  UNCHANGED <<job, used>> /\ NoStart
  BY <1>9 DEF Index!Records, Index!Appended, Index!Torn, NoStart, Recorded1
<1>10. CASE Index!Open(p) \/ Index!Close(p) \/ Index!DiscardUnrecorded(p) \/ Index!Rename(p) \/ Index!Label(p)
  <2>1. \A x, v : Index!Closed(x, v).rec # "started" /\ Index!Renamed(x, v).rec # "started" /\ Index!Labelled(x, v).rec # "started"
    BY DEF Index!Closed, Index!Renamed, Index!Labelled
  <2>2. CASE Index!Open(p)
    BY <2>2 DEF Index!Open, Index!trees, EntryDoes, NoStart
  <2>3. CASE Index!Close(p)
    <3>1. PICK x : \/ Index!Records(p, Index!Closed(x, "kept")) /\ UNCHANGED <<owner, gone, robbed>>
                   \/ /\ Index!Records(p, Index!Closed(x, "discarded"))
                      /\ \E n : Index!TakeAway(x, n, {})
      BY <2>3 DEF Index!Close, Index!trees
    <3> QED BY <1>9, <2>1, <3>1 DEF EntryDoes, Takes
  <2>4. CASE Index!DiscardUnrecorded(p)
    BY <2>4 DEF Index!DiscardUnrecorded, EntryDoes, NoStart, Takes
  <2>5. CASE Index!Rename(p) \/ Index!Label(p)
    BY <1>9, <2>1, <2>5 DEF Index!Rename, Index!Label, Index!trees, EntryDoes
  <2> QED BY <1>10, <2>2, <2>3, <2>4, <2>5
<1> QED BY <1>2, <1>3, <1>4, <1>5, <1>6, <1>7, <1>8, <1>10

\* A discard for x of the name n leaves the other names alone, and of those whose n
\* was it excuses every one.
LEMMA TakenOnly ==
    ASSUME IndexShapes, NEW x, NEW n, NEW but, Takes(x, n, but)
    PROVE  /\ owner' \in [Names -> Sessions \union {"none"}]
           /\ \A m \in Names : m # n => owner'[m] = owner[m]
           /\ gone \subseteq gone' /\ robbed \subseteq robbed'
           /\ owner[n] # x => owner[n] \in robbed'
           /\ \A q \in Procs \ but : HoldsWorktree(q) /\ job[q].name = n => job[q].session \in robbed'
           /\ owner' = owner \/ x \in gone'
  BY DEF Takes, Index!TakeAway, Index!HalfTaken, Index!Robs, Index!FreeNames, IndexShapes, HoldsWorktree,
     Index!HoldsTree

\* What is acknowledged as started was so before, or is what a job wrote.
LEMMA SaidBefore ==
    ASSUME IndexShapes, NEW i \in DOMAIN indexAcked', SaysStarted(i)',
           NoStart
    PROVE  i \in DOMAIN indexAcked /\ SaysStarted(i) /\ indexAcked'[i] = indexAcked[i]
<1>1. CASE indexAcked' = indexAcked
  BY <1>1 DEF SaysStarted
<1>2. ASSUME NEW record, NEW n, record.rec # "started",
             indexAcked' = Append(indexAcked, [record |-> record, line |-> n])
      PROVE  i \in DOMAIN indexAcked /\ indexAcked'[i] = indexAcked[i]
  <2>1. indexAcked'[i] = [record |-> record, line |-> n] \/ (i \in DOMAIN indexAcked /\ indexAcked'[i] = indexAcked[i])
    BY <1>2, AckedGrows
  <2> QED BY <1>2, <2>1 DEF SaysStarted
<1> QED BY <1>1, <1>2 DEF NoStart, Recorded1, SaysStarted

\* No step about an entry breaks the invariant.
LEMMA EntryStep ==
    ASSUME IndexInv, EntryDoes
    PROVE  IndexInv'
<1>0. IndexShapes /\ OneStartEach /\ NamesAreOwned /\ UNCHANGED <<job, used>> /\ NoStart
  BY DEF IndexInv, EntryDoes
<1>1. \A i \in DOMAIN indexAcked' : SaysStarted(i)' =>
        i \in DOMAIN indexAcked /\ SaysStarted(i) /\ indexAcked'[i] = indexAcked[i]
  BY <1>0, SaidBefore
<1>2. \E Acks : indexAcked' \in Seq(Acks)
  BY <1>0, AckedGrows DEF NoStart, Recorded1, IndexShapes
<1>3. OneStartEach'
  BY <1>0, <1>1 DEF OneStartEach, Busy, SaidFor
<1>4. CASE UNCHANGED <<owner, gone, robbed>>
  <2>1. IndexShapes'
    BY <1>0, <1>2, <1>4 DEF IndexShapes
  <2>2. NamesAreOwned'
    BY <1>0, <1>1, <1>4 DEF NamesAreOwned, HoldsWorktree, Index!HoldsTree, SaidFor, Excused
  <2> QED BY <1>3, <2>1, <2>2 DEF IndexInv
<1>5. ASSUME NEW x, NEW n, Takes(x, n, {}) PROVE IndexInv'
  <2>1. IndexShapes'
    BY <1>0, <1>2, <1>5, TakenOnly DEF IndexShapes
  <2>2. ASSUME NEW p \in Procs, HoldsWorktree(p)', (job[p].session \notin robbed)'
        PROVE  job[p].name \in Names /\ owner'[job[p].name] = job[p].session
    <3>1. HoldsWorktree(p) /\ job[p].session \notin robbed /\ job[p].name # n
      BY <1>0, <1>5, <2>2, TakenOnly DEF HoldsWorktree, Index!HoldsTree
    <3> QED BY <1>0, <1>5, <3>1, TakenOnly DEF NamesAreOwned
  <2>3. ASSUME NEW i \in DOMAIN indexAcked', SaysStarted(i)', ~Excused(SaidFor(i))'
        PROVE  (indexAcked[i].record.value \in Names /\ owner[indexAcked[i].record.value] = SaidFor(i))'
    <3> DEFINE v == indexAcked[i].record.value
    <3>1. /\ i \in DOMAIN indexAcked /\ SaysStarted(i) /\ indexAcked'[i] = indexAcked[i]
          /\ ~Excused(SaidFor(i))
      BY <1>0, <1>1, <1>5, <2>3, TakenOnly DEF Excused, SaidFor
    <3>2. v \in Names /\ owner[v] = SaidFor(i)
      BY <1>0, <3>1 DEF NamesAreOwned
    <3>3. owner'[v] = owner[v]
      BY <1>5, <1>0, <2>3, <3>1, <3>2, TakenOnly DEF Excused, SaidFor
    <3> QED BY <3>1, <3>2, <3>3 DEF SaidFor
  <2> QED BY <1>0, <1>3, <2>1, <2>2, <2>3 DEF IndexInv, NamesAreOwned
<1> QED BY <1>4, <1>5 DEF EntryDoes

\* No step of a job breaks it: a name is cut only when it is nobody's, and a session
\* is given out once.
LEMMA JobStep ==
    ASSUME IndexInv, NEW p \in Procs, NEW j, JobIs(p, j), AJob(j), JobDoes(p, j)
    PROVE  IndexInv'
<1>0. IndexShapes /\ OneStartEach /\ NamesAreOwned
  BY DEF IndexInv
<1>1. job'[p] = j /\ \A q \in Procs \ {p} : job'[q] = job[q]
  BY <1>0, JobSet DEF JobIs
<1>2. job' = [q \in Procs |-> [pc |-> job'[q].pc, session |-> job'[q].session, name |-> job'[q].name, tries |-> job'[q].tries]]
  BY <1>0 DEF JobIs, AJob, IndexShapes
<1>3. \A q \in Procs \ {p} : Busy(q)' = Busy(q) /\ HoldsWorktree(q)' = HoldsWorktree(q)
  BY <1>1 DEF Busy, HoldsWorktree, Index!HoldsTree
<1>4. /\ Busy(p)' <=> j.pc # "idle"
      /\ HoldsWorktree(p)' <=> j.pc \in {"setup", "cut"}
      /\ HoldsWorktree(p) => Busy(p)
  BY <1>1 DEF Busy, HoldsWorktree, Index!HoldsTree
<1>5. CASE Writes(p, j)
  <2>1. PICK n : indexAcked' = Append(indexAcked, [record |-> Index!Started(job[p].session, job[p].name), line |-> n])
    BY <1>5 DEF Writes, Recorded1
  <2>2. /\ Index!Started(job[p].session, job[p].name).session = job[p].session
        /\ Index!Started(job[p].session, job[p].name).value = job[p].name
    BY DEF Index!Started
  <2>3. \A i \in DOMAIN indexAcked' :
          \/ indexAcked'[i].record = Index!Started(job[p].session, job[p].name)
          \/ i \in DOMAIN indexAcked /\ indexAcked'[i] = indexAcked[i]
    BY <1>0, <2>1, AckedGrows
  <2>4. ~Busy(p)' /\ ~HoldsWorktree(p)' /\ HoldsWorktree(p) /\ Busy(p) /\ UNCHANGED <<owner, gone, robbed, used>>
    BY <1>4, <1>5 DEF Writes
  <2>5. IndexShapes'
    BY <1>0, <1>2, <2>1, <2>4, AckedGrows DEF IndexShapes
  <2>6. OneStartEach'
    <3>1. ASSUME NEW i \in DOMAIN indexAcked', SaysStarted(i)'
          PROVE  SaidFor(i)' \in used /\ \A q \in Procs : Busy(q)' => job'[q].session # SaidFor(i)'
      BY <1>0, <1>1, <1>3, <2>2, <2>3, <2>4, <3>1 DEF OneStartEach, SaysStarted, SaidFor
    <3> QED BY <1>0, <1>1, <1>3, <2>4, <3>1 DEF OneStartEach
  <2>7. NamesAreOwned'
    <3>1. ASSUME NEW i \in DOMAIN indexAcked', SaysStarted(i)', ~Excused(SaidFor(i))'
          PROVE  (indexAcked[i].record.value \in Names /\ owner[indexAcked[i].record.value] = SaidFor(i))'
      <4>1. ~Excused(SaidFor(i)')
        BY <2>4, <3>1 DEF Excused
      <4>2. CASE indexAcked'[i].record = Index!Started(job[p].session, job[p].name)
        BY <1>0, <2>2, <2>4, <4>1, <4>2 DEF NamesAreOwned, SaidFor, Excused
      <4>3. CASE i \in DOMAIN indexAcked /\ indexAcked'[i] = indexAcked[i]
        BY <1>0, <2>4, <3>1, <4>1, <4>3 DEF NamesAreOwned, SaysStarted, SaidFor
      <4> QED BY <2>3, <4>2, <4>3
    <3> QED BY <1>0, <1>1, <1>3, <2>4, <3>1 DEF NamesAreOwned
  <2> QED BY <2>5, <2>6, <2>7 DEF IndexInv
<1>6. CASE ~Writes(p, j)
  <2>1. indexAcked' = indexAcked
    BY <1>6 DEF JobDoes, GivesUp, Picks, CarriesOn, Cuts, Discards
  <2>2. CASE GivesUp(j)
    <3>1. ~Busy(p)' /\ ~HoldsWorktree(p)' /\ UNCHANGED <<owner, gone, robbed, used>>
      BY <1>4, <2>2 DEF GivesUp
    <3>2. IndexShapes'
      BY <1>0, <1>2, <2>1, <3>1 DEF IndexShapes
    <3>3. OneStartEach'
      BY <1>0, <1>1, <1>3, <2>1, <3>1 DEF OneStartEach, SaysStarted, SaidFor
    <3>4. NamesAreOwned'
      BY <1>0, <1>1, <1>3, <2>1, <3>1 DEF NamesAreOwned, SaysStarted, SaidFor, Excused
    <3> QED BY <3>2, <3>3, <3>4 DEF IndexInv
  <2>3. CASE Picks(j)
    <3>1. ~HoldsWorktree(p)' /\ UNCHANGED <<owner, gone, robbed>> /\ used' = used \union {j.session}
          /\ j.session \in Sessions /\ j.session \notin used
      BY <1>4, <2>3 DEF Picks
    <3>2. IndexShapes'
      BY <1>0, <1>2, <2>1, <3>1 DEF IndexShapes
    <3>3. OneStartEach'
      BY <1>0, <1>1, <1>3, <2>1, <3>1 DEF OneStartEach, SaysStarted, SaidFor
    <3>4. NamesAreOwned'
      BY <1>0, <1>1, <1>3, <2>1, <3>1 DEF NamesAreOwned, SaysStarted, SaidFor, Excused
    <3> QED BY <3>2, <3>3, <3>4 DEF IndexInv
  <2>4. CASE CarriesOn(p, j)
    <3>1. /\ UNCHANGED <<owner, gone, robbed, used>> /\ Busy(p) /\ j.session = job[p].session
          /\ HoldsWorktree(p)' => HoldsWorktree(p) /\ j.name = job[p].name
      BY <1>4, <2>4 DEF CarriesOn
    <3>2. IndexShapes'
      BY <1>0, <1>2, <2>1, <3>1 DEF IndexShapes
    <3>3. OneStartEach'
      BY <1>0, <1>1, <1>3, <2>1, <3>1 DEF OneStartEach, SaysStarted, SaidFor
    <3>4. NamesAreOwned'
      BY <1>0, <1>1, <1>3, <2>1, <3>1 DEF NamesAreOwned, SaysStarted, SaidFor, Excused
    <3> QED BY <3>2, <3>3, <3>4 DEF IndexInv
  <2>5. CASE Cuts(p, j)
    <3>1. /\ UNCHANGED <<gone, robbed, used>> /\ Busy(p) /\ j.session = job[p].session
          /\ j.name \in Names /\ owner[j.name] = "none"
          /\ owner' = [owner EXCEPT ![j.name] = j.session]
      BY <2>5 DEF Cuts, Index!FreeNames
    <3>2. j.session \in Sessions
      BY <1>0, <3>1 DEF OneStartEach
    <3>3. owner'[j.name] = j.session /\ \A m \in Names : owner[m] \in Sessions => owner'[m] = owner[m]
      BY <1>0, <3>1, SessionIds DEF IndexShapes
    <3>4. IndexShapes'
      BY <1>0, <1>2, <2>1, <3>1, <3>2 DEF IndexShapes
    <3>5. OneStartEach'
      BY <1>0, <1>1, <1>3, <2>1, <3>1 DEF OneStartEach, SaysStarted, SaidFor
    <3>6. ASSUME NEW q \in Procs, HoldsWorktree(q)', job'[q].session \notin robbed
          PROVE  job'[q].name \in Names /\ owner'[job'[q].name] = job'[q].session
      <4>1. CASE q = p
        BY <1>1, <3>1, <3>3, <4>1
      <4>2. CASE q # p
        <5>1. job'[q] = job[q] /\ HoldsWorktree(q) /\ Busy(q)
          BY <1>1, <1>3, <3>6, <4>2 DEF HoldsWorktree, Busy, Index!HoldsTree
        <5>2. job[q].session \in Sessions /\ job[q].name \in Names /\ owner[job[q].name] = job[q].session
          BY <1>0, <3>6, <5>1 DEF NamesAreOwned, OneStartEach
        <5> QED BY <3>3, <5>1, <5>2
      <4> QED BY <4>1, <4>2
    <3>7. ASSUME NEW i \in DOMAIN indexAcked, SaysStarted(i), ~Excused(SaidFor(i))
          PROVE  indexAcked[i].record.value \in Names /\ owner'[indexAcked[i].record.value] = SaidFor(i)
      <4>1. SaidFor(i) \in Sessions /\ indexAcked[i].record.value \in Names
            /\ owner[indexAcked[i].record.value] = SaidFor(i)
        BY <1>0, <3>7 DEF NamesAreOwned, OneStartEach
      <4> QED BY <3>3, <4>1
    <3>8. NamesAreOwned'
      BY <2>1, <3>1, <3>6, <3>7 DEF NamesAreOwned, SaysStarted, SaidFor, Excused
    <3> QED BY <3>4, <3>5, <3>8 DEF IndexInv
  <2>6. CASE Discards(p, j)
    <3>1. /\ Takes(job[p].session, job[p].name, {p}) /\ UNCHANGED used
          /\ ~Busy(p)' /\ ~HoldsWorktree(p)'
      BY <1>4, <2>6 DEF Discards
    <3>2. IndexShapes'
      BY <1>0, <1>2, <2>1, <3>1, TakenOnly DEF IndexShapes
    <3>3. OneStartEach'
      BY <1>0, <1>1, <1>3, <2>1, <3>1 DEF OneStartEach, SaysStarted, SaidFor
    <3>4. ASSUME NEW q \in Procs, HoldsWorktree(q)', job'[q].session \notin robbed'
          PROVE  job'[q].name \in Names /\ owner'[job'[q].name] = job'[q].session
      <4>1. q # p /\ job'[q] = job[q] /\ HoldsWorktree(q)
        BY <1>1, <1>3, <3>1, <3>4
      <4>2. job[q].session \notin robbed /\ job[q].name # job[p].name
        BY <1>0, <3>1, <3>4, <4>1, TakenOnly
      <4>3. job[q].name \in Names /\ owner[job[q].name] = job[q].session
        BY <1>0, <4>1, <4>2 DEF NamesAreOwned
      <4> QED BY <1>0, <3>1, <4>1, <4>2, <4>3, TakenOnly
    <3>5. ASSUME NEW i \in DOMAIN indexAcked, SaysStarted(i), ~Excused(SaidFor(i))'
          PROVE  indexAcked[i].record.value \in Names /\ owner'[indexAcked[i].record.value] = SaidFor(i)
      <4> DEFINE v == indexAcked[i].record.value
      <4>1. SaidFor(i)' = SaidFor(i) /\ SaidFor(i) \notin gone' \union robbed' /\ ~Excused(SaidFor(i))
        BY <1>0, <2>1, <3>1, <3>5, TakenOnly DEF Excused, SaidFor
      <4>2. v \in Names /\ owner[v] = SaidFor(i)
        BY <1>0, <3>5, <4>1 DEF NamesAreOwned
      <4>3. owner'[v] = owner[v]
        BY <1>0, <3>1, <4>1, <4>2, TakenOnly
      <4> QED BY <4>2, <4>3
    <3>6. NamesAreOwned'
      BY <2>1, <3>4, <3>5 DEF NamesAreOwned, SaysStarted, SaidFor
    <3> QED BY <3>2, <3>3, <3>6 DEF IndexInv
  <2> QED BY <1>6, <2>2, <2>3, <2>4, <2>5, <2>6 DEF JobDoes
<1> QED BY <1>5, <1>6

\* So the invariant is inductive.
LEMMA IndexSteps ==
    ASSUME IndexInv, [Index!Next]_(Index!vars)
    PROVE  IndexInv'
<1>1. CASE UNCHANGED Index!vars
  <2>1. EntryDoes
    BY <1>1 DEF Index!vars, Index!trees, EntryDoes, NoStart
  <2> QED BY <2>1, EntryStep
<1>2. CASE Index!Next
  <2>1. \E p \in Procs : EntryDoes \/ \E j : JobIs(p, j) /\ AJob(j) /\ JobDoes(p, j)
    BY <1>2, OneJobDoes DEF Index!Next, IndexInv
  <2> QED BY <2>1, EntryStep, JobStep
<1> QED BY <1>1, <1>2

\* supervisor.rs:153, worktree.rs: two starts never work in one worktree, whichever
\* processes run them and die in them, and however long lies between pick and cut; nor
\* does an entry name it, but for what a discard of another session took away.
THEOREM IndexHolds == Index!Spec => []Index!NeverShared
<1>1. IndexInv => Index!NeverShared
  <2> SUFFICES ASSUME IndexInv PROVE Index!NeverShared
    OBVIOUS
  <2>1. \A p \in Procs : HoldsWorktree(p) => Busy(p)
    BY DEF HoldsWorktree, Index!HoldsTree, Busy
  <2>2. ASSUME NEW p \in Procs, NEW q \in Procs, p # q, HoldsWorktree(p), HoldsWorktree(q),
               job[p].session \notin robbed, job[q].session \notin robbed
        PROVE  job[p].name # job[q].name
    BY <2>1, <2>2 DEF IndexInv, OneStartEach, NamesAreOwned
  <2>3. ASSUME NEW p \in Procs, NEW i \in DOMAIN indexAcked, HoldsWorktree(p), job[p].session \notin robbed,
               SaysStarted(i), ~Excused(SaidFor(i))
        PROVE  indexAcked[i].record.value # job[p].name
    BY <2>1, <2>3 DEF IndexInv, OneStartEach, NamesAreOwned
  <2> QED BY <2>2, <2>3 DEF Index!NeverShared, HoldsWorktree, SaysStarted, SaidFor, Excused
<1> QED BY <1>1, IndexStarts, IndexSteps, PTL DEF Index!Spec

(* ---- one agent driven through its protocol ---- *)

\* One hosted tool, its reader and the commands that talk to it.
AppServer == INSTANCE AppServer WITH
    alive <- appServerAlive, pending <- appServerPending

\* An instance counts as this module does.
LEMMA AppServerCounts == \A S : AppServer!Cardinality(S) = Cardinality(S)
BY DEF AppServer!Cardinality, Cardinality

SaidTypes == {"thread", "turn", "turnEnd", "delta", "completed", "question", "answer"}
Said == [type : SaidTypes, n : Nat \union Callers, value : Nat]
IsQuestion(line) == line.type = "question"

FoldedShape ==
    /\ folded = [status |-> folded.status, approvals |-> folded.approvals, turn |-> folded.turn,
                 thread |-> folded.thread, rows |-> folded.rows]
    /\ folded.approvals \in Seq(Nat)
ServerShape ==
    /\ server = [threads |-> server.threads, turns |-> server.turns, turn |-> server.turn, said |-> server.said,
                 asked |-> server.asked, answers |-> server.answers]
    /\ server.threads \in Nat /\ server.turns \in Nat /\ server.said \in Nat
    /\ server.asked \in 0..MaxAsks /\ server.answers \in [1..MaxAsks -> Nat]
LinesShape ==
    /\ lines \in Seq(Said)
    /\ \A i \in DOMAIN lines :
          IsQuestion(lines[i]) => lines[i].n \in 1..server.asked /\ lines[i].value \in {AppServer!Yes, AppServer!No}
QuestionsShape ==
    /\ FoldedShape /\ ServerShape /\ LinesShape /\ sending \subseteq 1..server.asked
    /\ \A i \in DOMAIN folded.approvals : folded.approvals[i] \in 1..server.asked

\* While the tool runs a question is in one place, and there once.
ListedQ(q) == \E i \in DOMAIN folded.approvals : folded.approvals[i] = q
OnePlace(q) ==
    (IF AppServer!Unread(q) THEN 1 ELSE 0) + (IF ListedQ(q) THEN 1 ELSE 0) + (IF q \in sending THEN 1 ELSE 0)
        + server.answers[q] = 1
QuestionsOnce ==
    /\ \A i, j \in DOMAIN lines : i # j /\ IsQuestion(lines[i]) /\ IsQuestion(lines[j]) => lines[i].n # lines[j].n
    /\ \A i, j \in DOMAIN folded.approvals : i # j => folded.approvals[i] # folded.approvals[j]
    /\ \A q \in 1..server.asked : OnePlace(q)
    /\ \A q \in 1..MaxAsks : q > server.asked => server.answers[q] = 0
BlockedShows == folded.status = "blocked" => folded.approvals # <<>>
QuestionsInv == QuestionsShape /\ (appServerAlive => QuestionsOnce) /\ BlockedShows

LEMMA CountedIs ==
  ASSUME QuestionsShape, QuestionsOnce, NEW q
  PROVE  AppServer!Counted(q) = IF ListedQ(q) THEN 1 ELSE 0
<1> DEFINE S == {i \in DOMAIN folded.approvals : folded.approvals[i] = q}
<1>1. CASE ListedQ(q)
  <2>1. PICK i \in DOMAIN folded.approvals : folded.approvals[i] = q
    BY <1>1 DEF ListedQ
  <2>2. S = {i}
    BY <2>1 DEF QuestionsOnce
  <2> QED BY <1>1, <2>2, FS_Singleton, AppServerCounts DEF AppServer!Counted
<1>2. CASE ~ListedQ(q)
  <2>1. S = {}
    BY <1>2 DEF ListedQ
  <2> QED BY <1>2, <2>1, FS_EmptySet, AppServerCounts DEF AppServer!Counted
<1> QED BY <1>1, <1>2

LEMMA QuestionsSay == QuestionsInv => AppServer!QuestionsAreAnswered
<1> SUFFICES ASSUME QuestionsInv, NEW q \in 1..server.asked, appServerAlive
             PROVE  (IF AppServer!Unread(q) THEN 1 ELSE 0) + AppServer!Counted(q) + (IF q \in sending THEN 1 ELSE 0) + server.answers[q] = 1
  BY DEF AppServer!QuestionsAreAnswered, QuestionsInv, BlockedShows
<1>1. AppServer!Counted(q) = IF ListedQ(q) THEN 1 ELSE 0
  BY CountedIs DEF QuestionsInv
<1> QED BY <1>1 DEF QuestionsInv, QuestionsOnce, OnePlace

LEMMA QuestionsStart == AppServer!Init => QuestionsInv
<1> SUFFICES ASSUME AppServer!Init PROVE QuestionsInv
  OBVIOUS
<1>1. QuestionsShape
  BY AskBounds DEF AppServer!Init, QuestionsShape, FoldedShape, ServerShape, LinesShape
<1>2. QuestionsOnce
  BY AskBounds DEF AppServer!Init, QuestionsOnce
<1> QED BY <1>1, <1>2 DEF AppServer!Init, QuestionsInv, BlockedShows

\* The tool writes lines that ask nothing.
LEMMA WritesNoQuestion ==
  ASSUME QuestionsInv, NEW said \in Seq(Said), lines' = lines \o said, \A k \in DOMAIN said : ~IsQuestion(said[k]),
         UNCHANGED <<folded, sending>>, appServerAlive, appServerAlive', ServerShape', server'.asked = server.asked,
         server'.answers = server.answers
  PROVE  QuestionsInv'
<1> USE DEF QuestionsInv
<1>1. /\ lines' \in Seq(Said) /\ Len(lines') = Len(lines) + Len(said)
      /\ \A i \in DOMAIN lines : lines'[i] = lines[i]
      /\ \A i \in DOMAIN lines' : i \in DOMAIN lines \/ ~IsQuestion(lines'[i])
  BY DEF QuestionsShape, LinesShape, IsQuestion
<1>2. DOMAIN lines \subseteq DOMAIN lines'
  BY <1>1 DEF QuestionsShape, LinesShape
<1>3. QuestionsShape'
  <2>1. LinesShape'
    BY <1>1 DEF QuestionsShape, LinesShape, IsQuestion
  <2> QED BY <2>1 DEF QuestionsShape, FoldedShape
<1>4. \A q : AppServer!Unread(q)' <=> AppServer!Unread(q)
  <2> SUFFICES ASSUME NEW q PROVE AppServer!Unread(q)' <=> AppServer!Unread(q)
    OBVIOUS
  <2>1. ASSUME NEW i \in DOMAIN lines', lines'[i].type = "question", lines'[i].n = q PROVE AppServer!Unread(q)
    BY <1>1, <2>1 DEF AppServer!Unread, IsQuestion
  <2>2. ASSUME NEW i \in DOMAIN lines, lines[i].type = "question", lines[i].n = q PROVE AppServer!Unread(q)'
    BY <1>1, <1>2, <2>2 DEF AppServer!Unread
  <2> QED BY <2>1, <2>2 DEF AppServer!Unread
<1>5. \A q : ListedQ(q)' <=> ListedQ(q)
  BY DEF ListedQ
<1>6. QuestionsOnce'
  <2>1. \A i, j \in DOMAIN lines' : i # j /\ IsQuestion(lines'[i]) /\ IsQuestion(lines'[j]) => lines'[i].n # lines'[j].n
    BY <1>1 DEF QuestionsOnce
  <2>2. \A q \in 1..server.asked : OnePlace(q)'
    BY <1>4, <1>5 DEF QuestionsOnce, OnePlace
  <2> QED BY <2>1, <2>2 DEF QuestionsOnce, IsQuestion
<1> QED BY <1>3, <1>6 DEF BlockedShows

\* What the tool says that asks nothing.
LEMMA AnswersAreSaid ==
  ASSUME NEW c \in Callers, NEW value \in Nat
  PROVE  AppServer!Says("answer", c, value) \in Said /\ ~IsQuestion(AppServer!Says("answer", c, value))
  BY DEF AppServer!Says, Said, SaidTypes, IsQuestion
LEMMA NewsIsSaid ==
  ASSUME NEW type \in {"thread", "turn", "turnEnd", "delta", "completed"}, NEW n \in Nat, NEW value \in Nat
  PROVE  AppServer!Says(type, n, value) \in Said /\ ~IsQuestion(AppServer!Says(type, n, value))
  BY DEF AppServer!Says, Said, SaidTypes, IsQuestion

LEMMA Concat ==
  ASSUME NEW T, NEW s \in Seq(T), NEW t \in Seq(T)
  PROVE  /\ s \o t \in Seq(T) /\ DOMAIN (s \o t) = 1..Len(s) + Len(t) /\ Len(s \o t) = Len(s) + Len(t)
         /\ \A k \in 1..Len(s) + Len(t) : (s \o t)[k] = IF k <= Len(s) THEN s[k] ELSE t[k - Len(s)]
  OBVIOUS
LEMMA JoinedLines ==
  ASSUME NEW s \in Seq(Said), NEW t \in Seq(Said),
         \A k \in DOMAIN s : ~IsQuestion(s[k]), \A k \in DOMAIN t : ~IsQuestion(t[k])
  PROVE  s \o t \in Seq(Said) /\ \A k \in DOMAIN (s \o t) : ~IsQuestion((s \o t)[k])
<1> DEFINE u == s \o t
<1>1. u \in Seq(Said) /\ Len(u) = Len(s) + Len(t)
  OBVIOUS
<1>2. \A k \in 1..Len(s) + Len(t) : u[k] = IF k <= Len(s) THEN s[k] ELSE t[k - Len(s)]
  OBVIOUS
<1> HIDE DEF u
<1>3. DOMAIN u = 1..Len(s) + Len(t) /\ DOMAIN s = 1..Len(s) /\ DOMAIN t = 1..Len(t) /\ Len(s) \in Nat /\ Len(t) \in Nat
  BY <1>1
<1>4. ASSUME NEW k \in DOMAIN u PROVE ~IsQuestion(u[k])
  <2>1. CASE k <= Len(s)
    <3>1. u[k] = s[k] /\ k \in DOMAIN s
      BY <1>2, <1>3, <2>1
    <3> QED BY <3>1
  <2>2. CASE ~(k <= Len(s))
    <3>1. u[k] = t[k - Len(s)] /\ k - Len(s) \in DOMAIN t
      BY <1>2, <1>3, <2>2
    <3> QED BY <3>1
  <2> QED BY <2>1, <2>2
<1> QED BY <1>1, <1>4 DEF u
LEMMA OneLine ==
  ASSUME NEW x \in Said, ~IsQuestion(x)
  PROVE  <<x>> \in Seq(Said) /\ \A k \in DOMAIN <<x>> : ~IsQuestion(<<x>>[k])
  BY DEF IsQuestion
LEMMA TwoLines ==
  ASSUME NEW x \in Said, NEW y \in Said, ~IsQuestion(x), ~IsQuestion(y)
  PROVE  <<x, y>> \in Seq(Said) /\ \A k \in DOMAIN <<x, y>> : ~IsQuestion(<<x, y>>[k])
  BY DEF IsQuestion

LEMMA ToolTalks ==
  ASSUME QuestionsInv, AppServer!ToolOpensThread \/ AppServer!ToolStartsTurn \/ AppServer!ToolRefuses \/ AppServer!ToolSays \/ AppServer!ToolCompletes \/ AppServer!ToolEndsTurn
  PROVE  QuestionsInv'
<1> USE AskBounds DEF AppServer!Yes, AppServer!No
<1>0. QuestionsShape /\ ServerShape
  BY DEF QuestionsInv, QuestionsShape
<1>1. CASE AppServer!ToolOpensThread
  <2>1. PICK c \in Callers : /\ server' = [server EXCEPT !.threads = @ + 1]
                             /\ AppServer!Writes(<<AppServer!Says("thread", server.threads + 1, AppServer!Yes), AppServer!Says("answer", c, AppServer!Yes)>>)
    BY <1>1 DEF AppServer!ToolOpensThread
  <2>2. server.threads + 1 \in Nat
    BY <1>0 DEF ServerShape
  <2> DEFINE x == AppServer!Says("thread", server.threads + 1, AppServer!Yes)
             y == AppServer!Says("answer", c, AppServer!Yes)
  <2>3. x \in Said /\ ~IsQuestion(x)
    BY <2>2 DEF AppServer!Says, Said, SaidTypes, IsQuestion
  <2>4. y \in Said /\ ~IsQuestion(y)
    BY DEF AppServer!Says, Said, SaidTypes, IsQuestion
  <2>5. ServerShape' /\ server'.asked = server.asked /\ server'.answers = server.answers
    BY <1>0, <2>1 DEF ServerShape
  <2>6. appServerAlive /\ lines' = lines \o <<x, y>> /\ UNCHANGED <<appServerAlive, folded, sending>>
    BY <1>1, <2>1 DEF AppServer!Writes, AppServer!ToolOpensThread, AppServer!surface
  <2> HIDE DEF x, y
  <2>7. <<x, y>> \in Seq(Said) /\ \A k \in DOMAIN <<x, y>> : ~IsQuestion(<<x, y>>[k])
    BY <2>3, <2>4, TwoLines
  <2> QED BY <2>5, <2>6, <2>7, WritesNoQuestion
<1>2. CASE AppServer!ToolStartsTurn
  <2>1. PICK c \in Callers : /\ server' = [server EXCEPT !.turns = @ + 1, !.turn = TRUE, !.said = 0]
                             /\ AppServer!Writes(<<AppServer!Says("answer", c, AppServer!Yes), AppServer!Says("turn", server.turns + 1, AppServer!Yes)>>)
    BY <1>2 DEF AppServer!ToolStartsTurn
  <2>2. server.turns + 1 \in Nat
    BY <1>0 DEF ServerShape
  <2> DEFINE x == AppServer!Says("answer", c, AppServer!Yes)
             y == AppServer!Says("turn", server.turns + 1, AppServer!Yes)
  <2>3. x \in Said /\ ~IsQuestion(x)
    BY DEF AppServer!Says, Said, SaidTypes, IsQuestion
  <2>4. y \in Said /\ ~IsQuestion(y)
    BY <2>2 DEF AppServer!Says, Said, SaidTypes, IsQuestion
  <2>5. ServerShape' /\ server'.asked = server.asked /\ server'.answers = server.answers
    <3>1. server' = [threads |-> server.threads, turns |-> server.turns + 1, turn |-> TRUE, said |-> 0,
                     asked |-> server.asked, answers |-> server.answers]
      BY <1>0, <2>1 DEF ServerShape
    <3> QED BY <1>0, <3>1 DEF ServerShape
  <2>6. appServerAlive /\ lines' = lines \o <<x, y>> /\ UNCHANGED <<appServerAlive, folded, sending>>
    BY <1>2, <2>1 DEF AppServer!Writes, AppServer!ToolStartsTurn, AppServer!surface
  <2> HIDE DEF x, y
  <2>7. <<x, y>> \in Seq(Said) /\ \A k \in DOMAIN <<x, y>> : ~IsQuestion(<<x, y>>[k])
    BY <2>3, <2>4, TwoLines
  <2> QED BY <2>5, <2>6, <2>7, WritesNoQuestion
<1>3. CASE AppServer!ToolRefuses
  <2>1. PICK c \in Callers : AppServer!Writes(<<AppServer!Says("answer", c, AppServer!No)>>)
    BY <1>3 DEF AppServer!ToolRefuses
  <2> DEFINE x == AppServer!Says("answer", c, AppServer!No)
  <2>3. x \in Said /\ ~IsQuestion(x)
    BY DEF AppServer!Says, Said, SaidTypes, IsQuestion
  <2>6. appServerAlive /\ lines' = lines \o <<x>> /\ UNCHANGED <<appServerAlive, server, folded, sending>>
    BY <1>3, <2>1 DEF AppServer!Writes, AppServer!ToolRefuses, AppServer!surface
  <2> HIDE DEF x
  <2>7. <<x>> \in Seq(Said) /\ \A k \in DOMAIN <<x>> : ~IsQuestion(<<x>>[k])
    BY <2>3, OneLine
  <2>8. ServerShape'
    BY <1>0, <2>6 DEF ServerShape
  <2> QED BY <2>6, <2>7, <2>8, WritesNoQuestion
<1>4. CASE AppServer!ToolSays
  <2> DEFINE x == AppServer!Says("delta", server.turns, server'.said)
  <2>1. server' = [server EXCEPT !.said = @ + 1]
    BY <1>4 DEF AppServer!ToolSays
  <2>2. ServerShape' /\ server'.asked = server.asked /\ server'.answers = server.answers
    BY <1>0, <2>1 DEF ServerShape
  <2>3. x \in Said /\ ~IsQuestion(x)
    <3>1. server.turns \in Nat /\ server'.said \in Nat
      BY <1>0, <2>2 DEF ServerShape
    <3> QED BY <3>1 DEF AppServer!Says, Said, SaidTypes, IsQuestion
  <2>6. appServerAlive /\ lines' = lines \o <<x>> /\ UNCHANGED <<appServerAlive, folded, sending>>
    BY <1>4 DEF AppServer!Writes, AppServer!ToolSays, AppServer!surface
  <2> HIDE DEF x
  <2>7. <<x>> \in Seq(Said) /\ \A k \in DOMAIN <<x>> : ~IsQuestion(<<x>>[k])
    BY <2>3, OneLine
  <2> QED BY <2>2, <2>6, <2>7, WritesNoQuestion
<1>5. CASE AppServer!ToolCompletes
  <2>0. PICK text \in {0, server.said} : AppServer!Writes(<<AppServer!Says("completed", server.turns, text)>>)
    BY <1>5 DEF AppServer!ToolCompletes
  <2> DEFINE x == AppServer!Says("completed", server.turns, text)
  <2>1. server' = [server EXCEPT !.said = MaxDeltas]
    BY <1>5 DEF AppServer!ToolCompletes
  <2>2. ServerShape' /\ server'.asked = server.asked /\ server'.answers = server.answers
    BY <1>0, <2>1 DEF ServerShape
  <2>3. x \in Said /\ ~IsQuestion(x)
    <3>1. server.turns \in Nat /\ text \in Nat
      BY <1>0 DEF ServerShape
    <3> QED BY <3>1 DEF AppServer!Says, Said, SaidTypes, IsQuestion
  <2>6. appServerAlive /\ lines' = lines \o <<x>> /\ UNCHANGED <<appServerAlive, folded, sending>>
    BY <1>5, <2>0 DEF AppServer!Writes, AppServer!ToolCompletes, AppServer!surface
  <2> HIDE DEF x
  <2>7. <<x>> \in Seq(Said) /\ \A k \in DOMAIN <<x>> : ~IsQuestion(<<x>>[k])
    BY <2>3, OneLine
  <2> QED BY <2>2, <2>6, <2>7, WritesNoQuestion
<1>6. CASE AppServer!ToolEndsTurn
  <2>0. PICK stopped \in SUBSET {c \in Callers : <<"interrupt", c>> \in inbox} :
           AppServer!Writes(<<AppServer!Says("turnEnd", 0, AppServer!Yes)>>
                  \o (IF stopped = {} THEN <<>> ELSE <<AppServer!Says("answer", CHOOSE c \in stopped : TRUE, AppServer!Yes)>>))
    BY <1>6 DEF AppServer!ToolEndsTurn
  <2> DEFINE x == AppServer!Says("turnEnd", 0, AppServer!Yes)
             c == CHOOSE c \in stopped : TRUE
             y == AppServer!Says("answer", c, AppServer!Yes)
             said == <<x>> \o (IF stopped = {} THEN <<>> ELSE <<y>>)
  <2>1. server' = [server EXCEPT !.turn = FALSE]
    BY <1>6 DEF AppServer!ToolEndsTurn
  <2>2. ServerShape' /\ server'.asked = server.asked /\ server'.answers = server.answers
    BY <1>0, <2>1 DEF ServerShape
  <2>3. x \in Said /\ ~IsQuestion(x)
    BY NewsIsSaid
  <2>4. stopped # {} => y \in Said /\ ~IsQuestion(y)
    <3>1. stopped # {} => c \in Callers
      OBVIOUS
    <3> HIDE DEF c
    <3> QED BY <3>1, AnswersAreSaid
  <2>6. appServerAlive /\ lines' = lines \o said /\ UNCHANGED <<appServerAlive, folded, sending>>
    BY <1>6, <2>0 DEF AppServer!Writes, AppServer!ToolEndsTurn, AppServer!surface
  <2> HIDE DEF x, y
  <2>7. said \in Seq(Said) /\ \A k \in DOMAIN said : ~IsQuestion(said[k])
    <3>1. <<x>> \in Seq(Said) /\ \A k \in DOMAIN <<x>> : ~IsQuestion(<<x>>[k])
      BY <2>3, OneLine
    <3>2. CASE stopped = {}
      <4>1. <<x>> \o <<>> = <<x>>
        BY <3>1
      <4> QED BY <3>1, <3>2, <4>1
    <3>3. CASE stopped # {}
      <4>1. <<y>> \in Seq(Said) /\ \A k \in DOMAIN <<y>> : ~IsQuestion(<<y>>[k])
        BY <3>3, <2>4, OneLine
      <4> QED BY <3>1, <3>3, <4>1, JoinedLines
    <3> QED BY <3>2, <3>3
  <2> HIDE DEF said
  <2> QED BY <2>2, <2>6, <2>7, WritesNoQuestion
<1> QED BY <1>1, <1>2, <1>3, <1>4, <1>5, <1>6

\* The tool asks a question of the next number.
LEMMA ToolQuestions ==
  ASSUME QuestionsInv, AppServer!ToolAsks
  PROVE  QuestionsInv'
<1> USE AskBounds
<1>1. QuestionsShape /\ FoldedShape /\ ServerShape /\ LinesShape /\ QuestionsOnce
  BY DEF QuestionsInv, QuestionsShape, AppServer!ToolAsks, AppServer!Writes
<1> PICK new : new = server.asked + 1
  OBVIOUS
<1>2. PICK known \in {AppServer!Yes, AppServer!No} : AppServer!Writes(<<AppServer!Says("question", server'.asked, known)>>)
  BY DEF AppServer!ToolAsks
<1>3. server' = [server EXCEPT !.asked = @ + 1] /\ server.asked < MaxAsks
  BY DEF AppServer!ToolAsks
<1>4. /\ ServerShape' /\ server'.asked = new /\ server'.answers = server.answers
      /\ new \in 1..MaxAsks /\ server.asked \in Nat
  BY <1>1, <1>3 DEF ServerShape
<1> DEFINE x == AppServer!Says("question", new, known)
<1>5. x \in Said /\ IsQuestion(x) /\ x.n = new /\ x.value \in {AppServer!Yes, AppServer!No}
  BY <1>4 DEF AppServer!Says, Said, SaidTypes, IsQuestion, AppServer!Yes, AppServer!No
<1>6. appServerAlive /\ lines' = lines \o <<x>> /\ UNCHANGED <<folded, sending>>
  BY <1>2, <1>4 DEF AppServer!ToolAsks, AppServer!surface, AppServer!Writes
<1> HIDE DEF x
<1>7. /\ lines' \in Seq(Said) /\ DOMAIN lines' = DOMAIN lines \union {Len(lines) + 1}
      /\ \A i \in DOMAIN lines : lines'[i] = lines[i] /\ i # Len(lines) + 1
      /\ lines'[Len(lines) + 1] = x
  BY <1>1, <1>5, <1>6 DEF LinesShape
<1>8. LinesShape'
  <2> SUFFICES ASSUME NEW i \in DOMAIN lines', IsQuestion(lines'[i])
               PROVE  lines'[i].n \in 1..new /\ lines'[i].value \in {AppServer!Yes, AppServer!No}
    BY <1>4, <1>7 DEF LinesShape, IsQuestion, AppServer!Yes, AppServer!No
  <2>1. CASE i \in DOMAIN lines
    BY <1>1, <1>4, <1>7, <2>1 DEF LinesShape
  <2>2. CASE i = Len(lines) + 1
    BY <1>4, <1>5, <1>7, <2>2
  <2> QED BY <1>7, <2>1, <2>2
<1>9. QuestionsShape'
  <2>1. \A i \in DOMAIN folded.approvals : folded.approvals[i] \in 1..new
    <3>1. 1..server.asked \subseteq 1..new
      BY <1>4
    <3> QED BY <1>1, <3>1 DEF QuestionsShape
  <2>2. sending \subseteq 1..new
    BY <1>1, <1>4 DEF QuestionsShape
  <2> QED BY <1>1, <1>4, <1>6, <1>8, <2>1, <2>2 DEF QuestionsShape, FoldedShape
<1>10. AppServer!Unread(new)' /\ ~AppServer!Unread(new) /\ \A q : q # new => (AppServer!Unread(q)' <=> AppServer!Unread(q))
  <2>1. AppServer!Unread(new)'
    BY <1>5, <1>7 DEF AppServer!Unread, IsQuestion
  <2>2. ~AppServer!Unread(new)
    BY <1>1, <1>4 DEF AppServer!Unread, LinesShape, IsQuestion
  <2>3. ASSUME NEW q, q # new PROVE AppServer!Unread(q)' <=> AppServer!Unread(q)
    <3>1. AppServer!Unread(q) => AppServer!Unread(q)'
      BY <1>7 DEF AppServer!Unread
    <3>2. AppServer!Unread(q)' => AppServer!Unread(q)
      BY <1>5, <1>7, <2>3 DEF AppServer!Unread
    <3> QED BY <3>1, <3>2
  <2> QED BY <2>1, <2>2, <2>3
<1>11. ~ListedQ(new) /\ new \notin sending /\ server.answers[new] = 0
  BY <1>1, <1>4 DEF ListedQ, FoldedShape, QuestionsShape, QuestionsOnce
<1>12. \A q \in 1..new : OnePlace(q)'
  <2>1. \A q : ListedQ(q)' <=> ListedQ(q)
    BY <1>6 DEF ListedQ
  <2>2. OnePlace(new)'
    BY <1>4, <1>6, <1>10, <1>11, <2>1 DEF OnePlace
  <2>3. ASSUME NEW q \in 1..server.asked PROVE OnePlace(q)'
    <3>1. q # new /\ OnePlace(q)
      BY <1>1, <1>4 DEF QuestionsOnce
    <3> QED BY <1>4, <1>6, <1>10, <2>1, <3>1 DEF OnePlace
  <2>4. \A q \in 1..new : q = new \/ q \in 1..server.asked
    BY <1>4
  <2> QED BY <2>2, <2>3, <2>4
<1>13. QuestionsOnce'
  <2>1. ASSUME NEW i \in DOMAIN lines', NEW j \in DOMAIN lines', i # j, IsQuestion(lines'[i]), IsQuestion(lines'[j])
        PROVE  lines'[i].n # lines'[j].n
    <3>1. ASSUME NEW k \in DOMAIN lines, IsQuestion(lines[k]) PROVE lines[k].n # new
      BY <1>1, <1>4, <3>1 DEF LinesShape
    <3>2. CASE i \in DOMAIN lines /\ j \in DOMAIN lines
      BY <1>1, <1>7, <2>1, <3>2 DEF QuestionsOnce
    <3>3. CASE i \notin DOMAIN lines \/ j \notin DOMAIN lines
      BY <1>5, <1>7, <2>1, <3>1, <3>3
    <3> QED BY <3>2, <3>3
  <2>2. \A q \in 1..MaxAsks : q > new => server.answers[q] = 0
    BY <1>1, <1>4 DEF QuestionsOnce
  <2> QED BY <1>1, <1>4, <1>6, <1>12, <2>1, <2>2 DEF QuestionsOnce, IsQuestion
<1> QED BY <1>6, <1>9, <1>13 DEF QuestionsInv, BlockedShows

\* A step that leaves the questions where they are.
LEMMA QuestionsRest ==
  ASSUME QuestionsInv, UNCHANGED <<lines, server, sending>>, FoldedShape', folded'.approvals = folded.approvals,
         appServerAlive' => appServerAlive, folded'.status = "blocked" => folded.status = "blocked"
  PROVE  QuestionsInv'
<1>1. QuestionsShape'
  BY DEF QuestionsInv, QuestionsShape, ServerShape, LinesShape, IsQuestion, AppServer!Yes,
     AppServer!No
<1>2. ASSUME QuestionsOnce PROVE QuestionsOnce'
  <2>1. \A q : (AppServer!Unread(q)' <=> AppServer!Unread(q)) /\ (ListedQ(q)' <=> ListedQ(q))
    BY DEF AppServer!Unread, ListedQ
  <2>2. \A q \in 1..server.asked : OnePlace(q)'
    BY <1>2, <2>1 DEF QuestionsOnce, OnePlace
  <2> QED BY <1>2, <2>2 DEF QuestionsOnce, IsQuestion
<1> QED BY <1>1, <1>2 DEF QuestionsInv, BlockedShows

\* One question leaves the list.
LEMMA Removal ==
  ASSUME NEW T, NEW s \in Seq(T), NEW at \in DOMAIN s
  PROVE  /\ AppServer!Decided(s, at) \in Seq(T) /\ DOMAIN AppServer!Decided(s, at) = 1..Len(s) - 1
         /\ \A k \in 1..Len(s) - 1 : AppServer!Decided(s, at)[k] = IF k < at THEN s[k] ELSE s[k + 1]
<1> DEFINE a == SubSeq(s, 1, at - 1)
           b == SubSeq(s, at + 1, Len(s))
<1>0. at \in Nat /\ 1 <= at /\ at <= Len(s) /\ Len(s) \in Nat
  OBVIOUS
<1>1. a \in Seq(T) /\ Len(a) = at - 1 /\ \A k \in 1..at - 1 : a[k] = s[k]
  BY <1>0
<1>2. b \in Seq(T) /\ Len(b) = Len(s) - at /\ \A k \in 1..Len(s) - at : b[k] = s[at + k]
  BY <1>0
<1> HIDE DEF a, b
<1>3. /\ a \o b \in Seq(T) /\ DOMAIN (a \o b) = 1..Len(s) - 1
      /\ \A k \in 1..Len(s) - 1 : (a \o b)[k] = IF k <= at - 1 THEN a[k] ELSE b[k - (at - 1)]
  <2>1. Len(a) + Len(b) = Len(s) - 1
    BY <1>0, <1>1, <1>2
  <2>2. /\ a \o b \in Seq(T) /\ DOMAIN (a \o b) = 1..Len(a) + Len(b)
        /\ \A k \in 1..Len(a) + Len(b) : (a \o b)[k] = IF k <= Len(a) THEN a[k] ELSE b[k - Len(a)]
    BY <1>1, <1>2, Concat
  <2> QED BY <1>1, <2>1, <2>2
<1> PICK c : c = a \o b
  OBVIOUS
<1>4. ASSUME NEW k \in 1..Len(s) - 1 PROVE c[k] = IF k < at THEN s[k] ELSE s[k + 1]
  <2>1. CASE k < at
    <3>1. k \in 1..at - 1 /\ k <= at - 1
      BY <1>0, <2>1
    <3>2. c[k] = a[k]
      BY <1>3, <3>1
    <3> QED BY <1>1, <2>1, <3>1, <3>2
  <2>2. CASE ~(k < at)
    <3> PICK n : n = Len(s)
      OBVIOUS
    <3>1. n \in Nat /\ k \in Nat /\ 1 <= k /\ k <= n - 1 /\ at <= k
      BY <1>0, <2>2
    <3>2. k - (at - 1) \in 1..n - at /\ at + (k - (at - 1)) = k + 1 /\ ~(k <= at - 1)
      BY ONLY <1>0, <3>1
    <3>3. c[k] = b[k - (at - 1)]
      BY <1>3, <3>2
    <3> QED BY <1>2, <2>2, <3>2, <3>3
  <2> QED BY <2>1, <2>2
<1> QED BY <1>3, <1>4 DEF AppServer!Decided, a, b

\* A decision takes one question from the list and has it on its way.
LEMMA Decides ==
  ASSUME QuestionsInv, AppServer!Decide
  PROVE  QuestionsInv'
<1> USE AskBounds
<1>1. QuestionsShape /\ FoldedShape /\ ServerShape
  BY DEF QuestionsInv, QuestionsShape
<1> PICK old : old = folded.approvals
  OBVIOUS
<1>2. PICK i \in DOMAIN old :
        /\ old[i] \notin sending
        /\ folded' = [folded EXCEPT !.approvals = AppServer!Decided(old, i),
                                    !.status = IF AppServer!Decided(old, i) = <<>> THEN "working" ELSE @]
        /\ sending' = sending \union {old[i]}
  BY DEF AppServer!Decide
<1> PICK q : q = old[i]
  OBVIOUS
<1> PICK left : left = AppServer!Decided(old, i)
  OBVIOUS
<1>3. old \in Seq(Nat) /\ q \in 1..server.asked
  BY <1>1, <1>2 DEF FoldedShape, QuestionsShape
<1>4. /\ left \in Seq(Nat) /\ DOMAIN left = 1..Len(old) - 1
      /\ \A k \in 1..Len(old) - 1 : left[k] = IF k < i THEN old[k] ELSE old[k + 1]
  BY <1>2, <1>3, Removal
<1>5. DOMAIN old = 1..Len(old) /\ Len(old) \in Nat /\ i \in 1..Len(old)
  BY <1>2, <1>3
<1> PICK n : n = Len(old)
  OBVIOUS
<1>13. n \in Nat /\ i \in Nat /\ DOMAIN left = 1..n - 1 /\ DOMAIN old = 1..n /\ i \in 1..n
  BY <1>4, <1>5
<1>14. \A k \in 1..n - 1 : left[k] = IF k < i THEN old[k] ELSE old[k + 1]
  BY <1>4
<1>15. ASSUME NEW k \in 1..n - 1
       PROVE  /\ k \in Nat
              /\ k < i => k \in 1..n /\ k # i /\ left[k] = old[k]
              /\ ~(k < i) => k + 1 \in 1..n /\ k + 1 # i /\ left[k] = old[k + 1]
  <2>1. left[k] = IF k < i THEN old[k] ELSE old[k + 1]
    BY <1>14
  <2> QED BY <1>13, <2>1
<1>6. \A k \in DOMAIN left : \E j \in DOMAIN old \ {i} : left[k] = old[j]
  BY <1>13, <1>15
<1>7. \A j \in DOMAIN old \ {i} : \E k \in DOMAIN left : left[k] = old[j]
  <2> SUFFICES ASSUME NEW j \in DOMAIN old \ {i} PROVE \E k \in DOMAIN left : left[k] = old[j]
    OBVIOUS
  <2>1. CASE j < i
    <3>1. j \in 1..n - 1
      BY <1>13, <2>1
    <3>2. j \in DOMAIN left /\ left[j] = old[j]
      BY <1>13, <1>14, <2>1, <3>1
    <3> QED BY <3>2
  <2>2. CASE ~(j < i)
    <3>1. j - 1 \in DOMAIN left /\ ~(j - 1 < i) /\ (j - 1) + 1 = j
      BY <1>4, <1>5, <2>2
    <3>2. left[j - 1] = old[j]
      BY <1>4, <3>1
    <3> QED BY <3>1, <3>2
  <2> QED BY <2>1, <2>2
<1>8. folded' = [status |-> IF left = <<>> THEN "working" ELSE folded.status, approvals |-> left,
                 turn |-> folded.turn, thread |-> folded.thread, rows |-> folded.rows]
  BY <1>1, <1>2 DEF FoldedShape
<1>9. UNCHANGED <<appServerAlive, lines, server>>
  BY DEF AppServer!Decide, AppServer!tool
<1>10. QuestionsShape'
  <2>1. \A k \in DOMAIN left : left[k] \in 1..server.asked
    BY <1>1, <1>6 DEF QuestionsShape
  <2>2. FoldedShape'
    BY <1>4, <1>8 DEF FoldedShape
  <2>3. sending' \subseteq 1..server.asked
    BY <1>1, <1>2, <1>3 DEF QuestionsShape
  <2>4. LinesShape' /\ ServerShape'
    BY <1>1, <1>9 DEF QuestionsShape, LinesShape, ServerShape, IsQuestion, AppServer!Yes,
       AppServer!No
  <2>5. folded'.approvals = left
    BY <1>8
  <2> QED BY <1>9, <2>1, <2>2, <2>3, <2>4, <2>5 DEF QuestionsShape
<1>11. ASSUME QuestionsOnce PROVE QuestionsOnce'
  <2>1. \A j, k \in DOMAIN old : j # k => old[j] # old[k]
    BY <1>11 DEF QuestionsOnce
  <2>2. \A j, k \in DOMAIN left : j # k => left[j] # left[k]
    <3> SUFFICES ASSUME NEW j \in 1..n - 1, NEW k \in 1..n - 1, j < k PROVE left[j] # left[k]
      BY <1>13
    <3>0. j \in Nat /\ k \in Nat
      BY <1>13
    <3>1. CASE k < i
      <4>0. j < i
        BY <1>13, <3>0, <3>1
      <4>1. left[j] = old[j] /\ left[k] = old[k] /\ j \in 1..n /\ k \in 1..n /\ j # k
        BY <1>15, <3>0, <3>1, <4>0
      <4> QED BY <1>13, <2>1, <4>1
    <3>2. CASE ~(k < i) /\ j < i
      <4>1. left[j] = old[j] /\ left[k] = old[k + 1] /\ j \in 1..n /\ k + 1 \in 1..n /\ j # k + 1
        BY <1>13, <1>15, <3>2
      <4> QED BY <1>13, <2>1, <4>1
    <3>3. CASE ~(j < i)
      <4>1. left[j] = old[j + 1] /\ left[k] = old[k + 1] /\ j + 1 \in 1..n /\ k + 1 \in 1..n /\ j + 1 # k + 1
        BY <1>13, <1>15, <3>3
      <4> QED BY <1>13, <2>1, <4>1
    <3> QED BY <3>1, <3>2, <3>3
  <2>3. folded'.approvals = left
    BY <1>8
  <2>4. \A p : AppServer!Unread(p)' <=> AppServer!Unread(p)
    BY <1>9 DEF AppServer!Unread
  <2>5. \A p : ListedQ(p)' <=> ListedQ(p) /\ p # q
    <3>1. \A p : ListedQ(p)' <=> \E k \in DOMAIN left : left[k] = p
      BY <2>3 DEF ListedQ
    <3>2. \A p : ListedQ(p) <=> \E k \in DOMAIN old : old[k] = p
      BY DEF ListedQ
    <3>3. \A j \in DOMAIN old \ {i} : old[j] # q
      BY <2>1, <1>2
    <3> QED BY <1>6, <1>7, <3>1, <3>2, <3>3
  <2>6. ListedQ(q)
    BY <1>2 DEF ListedQ
  <2>7. ASSUME NEW p \in 1..server.asked PROVE OnePlace(p)'
    <3>1. OnePlace(p) /\ server.answers[p] \in Nat
      BY <1>1, <1>11 DEF QuestionsOnce, ServerShape
    <3>2. CASE p = q
      BY <1>2, <1>9, <2>4, <2>5, <2>6, <3>1, <3>2 DEF OnePlace
    <3>3. CASE p # q
      BY <1>2, <1>9, <2>4, <2>5, <3>1, <3>3 DEF OnePlace
    <3> QED BY <3>2, <3>3
  <2> QED BY <1>9, <1>11, <2>2, <2>3, <2>7 DEF QuestionsOnce, IsQuestion
<1>12. BlockedShows'
  BY <1>8 DEF BlockedShows
<1> QED BY <1>9, <1>10, <1>11, <1>12 DEF QuestionsInv

\* The answer reaches the tool, if the tool is there.
LEMMA Sends ==
  ASSUME QuestionsInv, AppServer!SendDecision
  PROVE  QuestionsInv'
<1> USE AskBounds
<1>1. QuestionsShape /\ ServerShape
  BY DEF QuestionsInv, QuestionsShape
<1>2. PICK q \in sending : /\ sending' = sending \ {q}
                           /\ server' = IF appServerAlive THEN [server EXCEPT !.answers[q] = @ + 1] ELSE server
  BY DEF AppServer!SendDecision
<1>3. UNCHANGED <<appServerAlive, lines, folded>>
  BY DEF AppServer!SendDecision
<1>4. q \in 1..server.asked /\ q \in 1..MaxAsks
  BY <1>1 DEF QuestionsShape, ServerShape
<1>5. appServerAlive => server' = [threads |-> server.threads, turns |-> server.turns, turn |-> server.turn, said |-> server.said,
                 asked |-> server.asked, answers |-> [server.answers EXCEPT ![q] = @ + 1]]
  BY <1>1, <1>2 DEF ServerShape
<1>6. ServerShape' /\ server'.asked = server.asked
      /\ (appServerAlive => server'.answers = [server.answers EXCEPT ![q] = @ + 1])
  BY <1>1, <1>2, <1>4, <1>5 DEF ServerShape
<1>7. QuestionsShape'
  BY <1>1, <1>2, <1>3, <1>6 DEF QuestionsShape, FoldedShape, LinesShape, IsQuestion, AppServer!Yes,
     AppServer!No
<1>8. ASSUME appServerAlive, QuestionsOnce PROVE QuestionsOnce'
  <2>1. \A p : (AppServer!Unread(p)' <=> AppServer!Unread(p)) /\ (ListedQ(p)' <=> ListedQ(p))
    BY <1>3 DEF AppServer!Unread, ListedQ
  <2>2. \A p \in 1..MaxAsks : server'.answers[p] = IF p = q THEN server.answers[p] + 1 ELSE server.answers[p]
    BY <1>1, <1>4, <1>6, <1>8 DEF ServerShape
  <2>3. ASSUME NEW p \in 1..server.asked PROVE OnePlace(p)'
    <3>1. p \in 1..MaxAsks /\ server.answers[p] \in Nat /\ OnePlace(p)
      BY <1>1, <1>8 DEF ServerShape, QuestionsOnce
    <3>2. CASE p = q
      BY <1>2, <2>1, <2>2, <3>1, <3>2 DEF OnePlace
    <3>3. CASE p # q
      BY <1>2, <2>1, <2>2, <3>1, <3>3 DEF OnePlace
    <3> QED BY <3>2, <3>3
  <2>4. \A p \in 1..MaxAsks : p > server.asked => server'.answers[p] = 0
    BY <1>1, <1>4, <1>8, <2>2 DEF QuestionsOnce, ServerShape
  <2> QED BY <1>3, <1>6, <1>8, <2>3, <2>4 DEF QuestionsOnce, IsQuestion
<1> QED BY <1>3, <1>7, <1>8 DEF QuestionsInv, BlockedShows

\* What the reader does with a line: only a question it knows changes the list.
KnownQuestion(line) == IsQuestion(line) /\ line.value = AppServer!Yes
LEMMA FoldIs ==
  ASSUME FoldedShape, NEW line \in Said, NEW g, g = AppServer!fold(folded, line)
  PROVE  /\ g = [status |-> g.status, approvals |-> g.approvals, turn |-> g.turn, thread |-> g.thread, rows |-> g.rows]
         /\ g.approvals = IF KnownQuestion(line) THEN Append(folded.approvals, line.n) ELSE folded.approvals
         /\ g.status = "blocked" => folded.status = "blocked" \/ KnownQuestion(line)
<1>1. CASE line.type = "thread"
  <2>1. g = [folded EXCEPT !.thread = line.n]
    BY <1>1 DEF AppServer!fold
  <2> QED BY <1>1, <2>1 DEF FoldedShape, KnownQuestion, IsQuestion
<1>2. CASE line.type = "turn"
  <2>1. g = [folded EXCEPT !.turn = line.n, !.status = "working"]
    BY <1>2 DEF AppServer!fold
  <2> QED BY <1>2, <2>1 DEF FoldedShape, KnownQuestion, IsQuestion
<1>3. CASE line.type = "turnEnd"
  <2>1. g = [folded EXCEPT !.turn = 0, !.status = "done",
                !.rows = Append(@, [kind |-> "turn", id |-> 0, text |-> 0, streaming |-> FALSE])]
    BY <1>3 DEF AppServer!fold
  <2> QED BY <1>3, <2>1 DEF FoldedShape, KnownQuestion, IsQuestion
<1>4. CASE line.type = "delta"
  <2>1. g = [folded EXCEPT !.rows = AppServer!delta(@, line.n)]
    BY <1>4 DEF AppServer!fold
  <2> QED BY <1>4, <2>1 DEF FoldedShape, KnownQuestion, IsQuestion
<1>5. CASE line.type = "completed"
  <2>1. g = [folded EXCEPT !.rows = AppServer!upsert(@, line.n, line.value)]
    BY <1>5 DEF AppServer!fold
  <2> QED BY <1>5, <2>1 DEF FoldedShape, KnownQuestion, IsQuestion
<1>6. CASE KnownQuestion(line)
  <2>1. g = [folded EXCEPT !.approvals = Append(@, line.n), !.status = "blocked"]
    BY <1>6 DEF AppServer!fold, KnownQuestion, IsQuestion
  <2> QED BY <1>6, <2>1 DEF FoldedShape
<1>7. CASE line.type \in {"question", "answer"} /\ ~KnownQuestion(line)
  <2>1. g = folded
    BY <1>7 DEF AppServer!fold, KnownQuestion, IsQuestion
  <2> QED BY <1>7, <2>1 DEF FoldedShape
<1>8. line.type \in SaidTypes
  BY DEF Said
<1> QED BY <1>1, <1>2, <1>3, <1>4, <1>5, <1>6, <1>7, <1>8 DEF SaidTypes

LEMMA OneAppended ==
  ASSUME NEW old \in Seq(Nat), NEW n \in Nat, NEW new, new = Append(old, n)
  PROVE  /\ new \in Seq(Nat) /\ new # <<>> /\ DOMAIN new = DOMAIN old \union {Len(old) + 1}
         /\ \A i \in DOMAIN old : new[i] = old[i] /\ i # Len(old) + 1
         /\ new[Len(old) + 1] = n
  OBVIOUS

\* A line that was read: a question goes on the list or is declined.
LEMMA Receives ==
  ASSUME QuestionsInv, AppServer!receive
  PROVE  QuestionsInv'
<1> USE AskBounds
<1>1. QuestionsShape /\ FoldedShape /\ ServerShape /\ LinesShape
  BY DEF QuestionsInv, QuestionsShape
<1>2. lines \in Seq(Said) /\ lines # <<>> /\ lines' = Tail(lines) /\ UNCHANGED <<appServerAlive, server>>
  BY <1>1 DEF AppServer!receive, LinesShape
<1> PICK line : line = Head(lines)
  OBVIOUS
<1>3. line \in Said /\ line = lines[1] /\ 1 \in DOMAIN lines
  BY <1>2
<1>4. folded' = AppServer!fold(folded, line)
      /\ sending' = IF IsQuestion(line) /\ line.value = AppServer!No THEN sending \union {line.n} ELSE sending
  BY DEF AppServer!receive, IsQuestion
<1>5. /\ folded' = [status |-> folded'.status, approvals |-> folded'.approvals, turn |-> folded'.turn,
                    thread |-> folded'.thread, rows |-> folded'.rows]
      /\ folded'.approvals = IF KnownQuestion(line) THEN Append(folded.approvals, line.n) ELSE folded.approvals
      /\ folded'.status = "blocked" => folded.status = "blocked" \/ KnownQuestion(line)
  <2> PICK g : g = folded'
    OBVIOUS
  <2>1. g = AppServer!fold(folded, line)
    BY <1>4
  <2>2. /\ g = [status |-> g.status, approvals |-> g.approvals, turn |-> g.turn, thread |-> g.thread, rows |-> g.rows]
        /\ g.approvals = IF KnownQuestion(line) THEN Append(folded.approvals, line.n) ELSE folded.approvals
        /\ g.status = "blocked" => folded.status = "blocked" \/ KnownQuestion(line)
    BY <1>1, <1>3, <2>1, FoldIs
  <2> QED BY <2>2
<1>6. IsQuestion(line) => line.n \in 1..server.asked /\ line.value \in {AppServer!Yes, AppServer!No} /\ (KnownQuestion(line) \/ line.value = AppServer!No)
                          /\ ~(KnownQuestion(line) /\ line.value = AppServer!No)
  BY <1>1, <1>3 DEF LinesShape, KnownQuestion, AppServer!Yes, AppServer!No
<1> PICK old : old = folded.approvals
  OBVIOUS
<1> PICK new : new = folded'.approvals
  OBVIOUS
<1>7. old \in Seq(Nat) /\ \A i \in DOMAIN old : old[i] \in 1..server.asked
  BY <1>1 DEF FoldedShape, QuestionsShape
<1>8. KnownQuestion(line) => /\ new \in Seq(Nat) /\ new # <<>> /\ DOMAIN new = DOMAIN old \union {Len(old) + 1}
                             /\ \A i \in DOMAIN old : new[i] = old[i] /\ i # Len(old) + 1
                             /\ new[Len(old) + 1] = line.n
  <2> SUFFICES ASSUME KnownQuestion(line)
               PROVE  /\ new \in Seq(Nat) /\ new # <<>> /\ DOMAIN new = DOMAIN old \union {Len(old) + 1}
                      /\ \A i \in DOMAIN old : new[i] = old[i] /\ i # Len(old) + 1
                      /\ new[Len(old) + 1] = line.n
    OBVIOUS
  <2> PICK n : n = line.n
    OBVIOUS
  <2>1. n \in Nat /\ new = Append(old, n)
    BY <1>1, <1>5, <1>6 DEF KnownQuestion, ServerShape
  <2> HIDE DEF KnownQuestion
  <2>2. /\ new \in Seq(Nat) /\ new # <<>> /\ DOMAIN new = DOMAIN old \union {Len(old) + 1}
        /\ \A i \in DOMAIN old : new[i] = old[i] /\ i # Len(old) + 1
        /\ new[Len(old) + 1] = n
    BY ONLY <1>7, <2>1, OneAppended
  <2> QED BY <2>2
<1>9. ~KnownQuestion(line) => new = old
  BY <1>5
<1>10. \A i \in DOMAIN new : new[i] \in 1..server.asked
  BY <1>6, <1>7, <1>8, <1>9 DEF KnownQuestion
<1> PICK m : m = Len(lines)
  OBVIOUS
<1>11. /\ m \in Nat /\ DOMAIN lines = 1..m /\ lines' \in Seq(Said) /\ DOMAIN lines' = 1..m - 1
       /\ \A k \in 1..m - 1 : lines'[k] = lines[k + 1]
  BY <1>2
<1>12. QuestionsShape'
  <2>1. LinesShape'
    <3> SUFFICES ASSUME NEW k \in 1..m - 1, IsQuestion(lines'[k])
                 PROVE  lines'[k].n \in 1..server.asked /\ lines'[k].value \in {AppServer!Yes, AppServer!No}
      BY <1>2, <1>11 DEF LinesShape, IsQuestion, AppServer!Yes, AppServer!No
    <3>1. k + 1 \in DOMAIN lines /\ lines'[k] = lines[k + 1]
      BY <1>11
    <3> QED BY <1>1, <3>1 DEF LinesShape
  <2>2. FoldedShape'
    BY <1>5, <1>7, <1>8, <1>9 DEF FoldedShape
  <2>3. ServerShape'
    BY <1>1, <1>2 DEF ServerShape
  <2>4. sending' \subseteq 1..server.asked
    BY <1>1, <1>4, <1>6 DEF QuestionsShape
  <2> QED BY <1>2, <1>10, <2>1, <2>2, <2>3, <2>4 DEF QuestionsShape
<1>13. ASSUME appServerAlive, QuestionsOnce PROVE QuestionsOnce'
  <2>1. \A i, j \in 1..m : i # j /\ IsQuestion(lines[i]) /\ IsQuestion(lines[j]) => lines[i].n # lines[j].n
    BY <1>11, <1>13 DEF QuestionsOnce
  <2>2. ASSUME NEW i \in 1..m - 1, NEW j \in 1..m - 1, i # j, IsQuestion(lines'[i]), IsQuestion(lines'[j])
        PROVE  lines'[i].n # lines'[j].n
    <3>1. i + 1 \in 1..m /\ j + 1 \in 1..m /\ i + 1 # j + 1
      BY <1>11, <2>2
    <3> QED BY <1>11, <2>1, <2>2, <3>1
  <2>3. \A q : AppServer!Unread(q) <=> \E i \in 1..m : IsQuestion(lines[i]) /\ lines[i].n = q
    BY <1>11 DEF AppServer!Unread, IsQuestion
  <2>4. \A q : AppServer!Unread(q)' <=> \E i \in 1..m - 1 : IsQuestion(lines[i + 1]) /\ lines[i + 1].n = q
    BY <1>11 DEF AppServer!Unread, IsQuestion
  <2>5. \A i \in 1..m - 1 : i + 1 \in 1..m /\ i + 1 # 1
    BY <1>11
  <2>6. \A i \in 1..m : i = 1 \/ (i - 1 \in 1..m - 1 /\ (i - 1) + 1 = i)
    BY <1>11
  <2>7. \A q : AppServer!Unread(q)' => AppServer!Unread(q) /\ (IsQuestion(line) => q # line.n)
    BY <1>3, <1>11, <2>1, <2>3, <2>4, <2>5
  <2>8. \A q : AppServer!Unread(q) => AppServer!Unread(q)' \/ (IsQuestion(line) /\ q = line.n)
    <3> SUFFICES ASSUME NEW q, AppServer!Unread(q), ~(IsQuestion(line) /\ q = line.n) PROVE AppServer!Unread(q)'
      OBVIOUS
    <3>1. PICK i \in 1..m : IsQuestion(lines[i]) /\ lines[i].n = q
      BY <2>3
    <3>2. i # 1
      BY <1>3, <3>1
    <3>3. i - 1 \in 1..m - 1 /\ (i - 1) + 1 = i
      BY <2>6, <3>2
    <3> PICK k : k = i - 1
      OBVIOUS
    <3>4. k \in 1..m - 1 /\ k + 1 = i
      BY <3>3
    <3>5. IsQuestion(lines[k + 1]) /\ lines[k + 1].n = q
      BY <3>1, <3>4
    <3> QED BY <2>4, <3>4, <3>5
  <2>9. IsQuestion(line) => AppServer!Unread(line.n)
    BY <1>3 DEF AppServer!Unread, IsQuestion
  <2>10. \A q : ListedQ(q)' <=> ListedQ(q) \/ (KnownQuestion(line) /\ q = line.n)
    <3>1. \A q : ListedQ(q)' <=> \E k \in DOMAIN new : new[k] = q
      BY DEF ListedQ
    <3>2. \A q : ListedQ(q) <=> \E k \in DOMAIN old : old[k] = q
      BY DEF ListedQ
    <3>3. CASE KnownQuestion(line)
      BY <1>8, <3>1, <3>2, <3>3
    <3>4. CASE ~KnownQuestion(line)
      BY <1>9, <3>1, <3>2, <3>4
    <3> QED BY <3>3, <3>4
  <2>11. ASSUME NEW q \in 1..server.asked PROVE OnePlace(q)'
    <3>1. OnePlace(q) /\ server.answers[q] \in Nat
      BY <1>1, <1>13 DEF QuestionsOnce, ServerShape
    <3>2. CASE IsQuestion(line) /\ q = line.n /\ KnownQuestion(line)
      BY <1>2, <1>4, <1>6, <2>7, <2>9, <2>10, <3>1, <3>2 DEF OnePlace
    <3>3. CASE IsQuestion(line) /\ q = line.n /\ ~KnownQuestion(line)
      BY <1>2, <1>4, <1>6, <2>7, <2>9, <2>10, <3>1, <3>3 DEF OnePlace
    <3>4. CASE ~(IsQuestion(line) /\ q = line.n)
      <4>1. (AppServer!Unread(q)' <=> AppServer!Unread(q)) /\ (ListedQ(q)' <=> ListedQ(q)) /\ (q \in sending' <=> q \in sending)
        BY <1>4, <2>7, <2>8, <2>10, <3>4 DEF KnownQuestion
      <4> QED BY <1>2, <3>1, <4>1 DEF OnePlace
    <3> QED BY <3>2, <3>3, <3>4
  <2>12. ASSUME NEW i \in DOMAIN new, NEW j \in DOMAIN new, i # j PROVE new[i] # new[j]
    <3>1. \A k, l \in DOMAIN old : k # l => old[k] # old[l]
      BY <1>13 DEF QuestionsOnce
    <3>2. CASE ~KnownQuestion(line)
      BY <1>9, <2>12, <3>1, <3>2
    <3>3. CASE KnownQuestion(line)
      <4>1. \A k \in DOMAIN old : old[k] # line.n
        <5>1. AppServer!Unread(line.n) /\ line.n \in 1..server.asked
          BY <1>6, <2>9, <3>3 DEF KnownQuestion
        <5>2. OnePlace(line.n) /\ server.answers[line.n] \in Nat
          BY <1>1, <1>13, <5>1 DEF QuestionsOnce, ServerShape
        <5>3. ~ListedQ(line.n)
          BY <5>1, <5>2 DEF OnePlace
        <5> QED BY <5>3 DEF ListedQ
      <4> QED BY <1>8, <2>12, <3>1, <3>3, <4>1
    <3> QED BY <3>2, <3>3
  <2> QED BY <1>2, <1>11, <1>13, <2>2, <2>11, <2>12 DEF QuestionsOnce, IsQuestion
<1>14. BlockedShows'
  <2>1. CASE KnownQuestion(line)
    BY <1>8, <2>1 DEF BlockedShows
  <2>2. CASE ~KnownQuestion(line)
    BY <1>5, <1>9, <2>2 DEF BlockedShows, QuestionsInv
  <2> QED BY <2>1, <2>2
<1> QED BY <1>2, <1>12, <1>13, <1>14 DEF QuestionsInv

LEMMA QuestionsStep == QuestionsInv /\ [AppServer!Next]_(AppServer!vars) => QuestionsInv'
<1> SUFFICES ASSUME QuestionsInv, [AppServer!Next]_(AppServer!vars) PROVE QuestionsInv'
  OBVIOUS
<1>0. FoldedShape
  BY DEF QuestionsInv, QuestionsShape
<1>1. ASSUME UNCHANGED <<lines, server, sending, folded>>, appServerAlive' => appServerAlive PROVE QuestionsInv'
  BY <1>0, <1>1, QuestionsRest DEF FoldedShape
<1>2. CASE UNCHANGED AppServer!vars
  BY <1>1, <1>2 DEF AppServer!vars
<1>3. CASE AppServer!ToolDies \/ AppServer!Close
  BY <1>1, <1>3 DEF AppServer!ToolDies, AppServer!Close, AppServer!surface
<1>4. CASE AppServer!ReadEnds
  <2>1. UNCHANGED <<appServerAlive, lines, server, sending>> /\ folded' \in {folded, [folded EXCEPT !.status = "idle"]}
    BY <1>4 DEF AppServer!ReadEnds, AppServer!tool
  <2>2. FoldedShape' /\ folded'.approvals = folded.approvals /\ (folded'.status = "blocked" => folded.status = "blocked")
    BY <1>0, <2>1 DEF FoldedShape
  <2> QED BY <2>1, <2>2, QuestionsRest
<1>5. CASE AppServer!Closed
  <2>1. UNCHANGED <<appServerAlive, lines, server, sending>> /\ folded' \in {folded, [folded EXCEPT !.status = "idle"]}
    BY <1>5 DEF AppServer!Closed, AppServer!tool
  <2>2. FoldedShape' /\ folded'.approvals = folded.approvals /\ (folded'.status = "blocked" => folded.status = "blocked")
    BY <1>0, <2>1 DEF FoldedShape
  <2> QED BY <2>1, <2>2, QuestionsRest
<1>6. ASSUME NEW c \in Callers, AppServer!Prompt(c) \/ AppServer!StartTurn(c) \/ AppServer!Interrupt(c) \/ AppServer!Wake(c) \/ AppServer!TimesOut(c) PROVE QuestionsInv'
  BY <1>1, <1>6 DEF AppServer!Prompt, AppServer!StartTurn, AppServer!Interrupt, AppServer!Wake,
     AppServer!TimesOut, AppServer!request, AppServer!tool
<1>7. ASSUME NEW c \in Callers, AppServer!PushPrompt(c) PROVE QuestionsInv'
  <2>1. /\ UNCHANGED <<appServerAlive, lines, server, sending>>
        /\ folded' = [folded EXCEPT !.rows = Append(@, [kind |-> "user", id |-> 0, text |-> 0, streaming |-> FALSE]),
                                    !.status = "working"]
    BY <1>7 DEF AppServer!PushPrompt, AppServer!tool
  <2>2. FoldedShape' /\ folded'.approvals = folded.approvals /\ folded'.status # "blocked"
    BY <1>0, <2>1 DEF FoldedShape
  <2> QED BY <2>1, <2>2, QuestionsRest
<1>8. CASE AppServer!ToolOpensThread \/ AppServer!ToolStartsTurn \/ AppServer!ToolRefuses \/ AppServer!ToolSays \/ AppServer!ToolCompletes \/ AppServer!ToolEndsTurn
  BY <1>8, ToolTalks
<1> QED BY <1>2, <1>3, <1>4, <1>5, <1>6, <1>7, <1>8, ToolQuestions, Receives, Decides, Sends DEF
   AppServer!Next

\* Whoever waits is on the reader's list, or asked after the reader had ended.
WaitInv ==
    /\ reader \in {"reading", "ended"} /\ appServerPending \subseteq Callers
    /\ \A c \in Callers : calls[c] = [pc |-> calls[c].pc, wait |-> calls[c].wait, late |-> calls[c].late]
    /\ calls = [c \in Callers |-> calls[c]]
    /\ \A c \in Callers : calls[c].wait = "waits" => calls[c].late \/ (reader = "reading" /\ c \in appServerPending)

LEMMA WaitStarts == AppServer!Init => WaitInv
  BY DEF AppServer!Init, WaitInv

LEMMA WaitSays == WaitInv => AppServer!NoneWaitsForTheGone
  BY DEF WaitInv, AppServer!NoneWaitsForTheGone

LEMMA WaitSteps == WaitInv /\ [AppServer!Next]_(AppServer!vars) => WaitInv'
<1> SUFFICES ASSUME WaitInv, [AppServer!Next]_(AppServer!vars) PROVE WaitInv'
  OBVIOUS
<1> USE DEF WaitInv
<1>1. CASE UNCHANGED <<reader, appServerPending, calls>>
  BY <1>1
<1>2. ASSUME NEW c \in Callers, NEW method, NEW pc, AppServer!request(c, method, pc) PROVE WaitInv'
  <2>1. /\ appServerPending' = appServerPending \union {c} /\ reader' = reader
        /\ calls' = [calls EXCEPT ![c] = [pc |-> IF appServerAlive THEN pc ELSE "failed", wait |-> IF appServerAlive THEN "waits" ELSE "no",
                                          late |-> reader = "ended"]]
    BY <1>2 DEF AppServer!request
  <2> QED BY <2>1
<1>3. ASSUME NEW c \in Callers, NEW outcome, AppServer!Settled(c, outcome), UNCHANGED <<reader, appServerPending>> PROVE WaitInv'
  <2>1. calls' = [calls EXCEPT ![c] = [pc |-> IF outcome # "ok" THEN "failed"
                                          ELSE IF calls[c].pc = "opens" THEN "opened" ELSE "done",
                                       wait |-> "no", late |-> FALSE]]
    BY <1>3 DEF AppServer!Settled
  <2> QED BY <1>3, <2>1
<1>4. ASSUME NEW c \in Callers, AppServer!PushPrompt(c) PROVE WaitInv'
  <2>1. UNCHANGED <<reader, appServerPending>> /\ calls' = [calls EXCEPT ![c] = [@ EXCEPT !.pc = "pushed"]]
    BY <1>4 DEF AppServer!PushPrompt
  <2>2. calls'[c] = [pc |-> "pushed", wait |-> calls[c].wait, late |-> calls[c].late]
    BY <1>4, <2>1
  <2>3. \A d \in Callers \ {c} : calls'[d] = calls[d]
    BY <2>1
  <2> QED BY <2>1, <2>2, <2>3
<1>5. CASE AppServer!receive
  <2> PICK line : line = Head(lines)
    OBVIOUS
  <2>1. reader' = reader
    BY <1>5 DEF AppServer!receive
  <2>2. CASE line.type = "answer" /\ line.n \in appServerPending
    <3>1. /\ appServerPending' = appServerPending \ {line.n} /\ line.n \in Callers
          /\ calls' = IF calls[line.n].wait = "waits"
                      THEN [calls EXCEPT ![line.n].wait = IF line.value = AppServer!Yes THEN "ok" ELSE "error"] ELSE calls
      BY <1>5, <2>2 DEF AppServer!receive
    <3>2. CASE calls[line.n].wait = "waits"
      <4>1. calls'[line.n] = [pc |-> calls[line.n].pc, wait |-> IF line.value = AppServer!Yes THEN "ok" ELSE "error",
                              late |-> calls[line.n].late]
        BY <3>1, <3>2
      <4>2. \A d \in Callers \ {line.n} : calls'[d] = calls[d]
        BY <3>1, <3>2
      <4>3. calls' = [c \in Callers |-> calls'[c]]
        BY <3>1, <3>2
      <4>4. calls'[line.n].wait # "waits"
        BY <4>1 DEF AppServer!Yes
      <4>5. \A d \in Callers : calls'[d] = [pc |-> calls'[d].pc, wait |-> calls'[d].wait, late |-> calls'[d].late]
        BY <4>1, <4>2
      <4>6. \A d \in Callers : calls'[d].wait = "waits" => calls'[d].late \/ (reader' = "reading" /\ d \in appServerPending')
        <5> SUFFICES ASSUME NEW d \in Callers, calls'[d].wait = "waits"
                     PROVE  calls'[d].late \/ (reader' = "reading" /\ d \in appServerPending')
          OBVIOUS
        <5>1. d # line.n /\ calls'[d] = calls[d]
          BY <4>2, <4>4
        <5>2. d \in appServerPending => d \in appServerPending'
          BY <3>1, <5>1
        <5> QED BY <2>1, <5>1, <5>2
      <4>7. reader' \in {"reading", "ended"} /\ appServerPending' \subseteq Callers
        BY <2>1, <3>1
      <4> QED BY <4>3, <4>5, <4>6, <4>7
    <3>3. CASE calls[line.n].wait # "waits"
      BY <2>1, <3>1, <3>3
    <3> QED BY <3>2, <3>3
  <2>3. CASE ~(line.type = "answer" /\ line.n \in appServerPending)
    <3>1. UNCHANGED <<appServerPending, calls>>
      BY <1>5, <2>3 DEF AppServer!receive
    <3> QED BY <2>1, <3>1
  <2> QED BY <2>2, <2>3
<1>6. CASE AppServer!ReadEnds
  <2>1. /\ reader' = "ended" /\ appServerPending' \subseteq appServerPending
        /\ calls' = [c \in Callers |-> IF c \in appServerPending /\ calls[c].wait = "waits"
                                       THEN [calls[c] EXCEPT !.wait = "gone"] ELSE calls[c]]
    BY <1>6 DEF AppServer!ReadEnds, AppServer!Woken
  <2>2. ASSUME NEW c \in Callers
        PROVE  /\ calls'[c] = [pc |-> calls'[c].pc, wait |-> calls'[c].wait, late |-> calls'[c].late]
               /\ calls'[c].wait = "waits" => calls'[c].late
    <3>1. CASE c \in appServerPending /\ calls[c].wait = "waits"
      <4>1. calls'[c] = [pc |-> calls[c].pc, wait |-> "gone", late |-> calls[c].late]
        BY <2>1, <3>1
      <4> QED BY <4>1
    <3>2. CASE ~(c \in appServerPending /\ calls[c].wait = "waits")
      <4>1. calls'[c] = calls[c]
        BY <2>1, <3>2
      <4> QED BY <3>2, <4>1
    <3> QED BY <3>1, <3>2
  <2> QED BY <2>1, <2>2
<1>7. ASSUME NEW c \in Callers, AppServer!Prompt(c) \/ AppServer!StartTurn(c) \/ AppServer!Interrupt(c) PROVE WaitInv'
  BY <1>2, <1>7 DEF AppServer!Prompt, AppServer!StartTurn, AppServer!Interrupt
<1>8. ASSUME NEW c \in Callers, AppServer!Wake(c) \/ AppServer!TimesOut(c) PROVE WaitInv'
  BY <1>3, <1>8 DEF AppServer!Wake, AppServer!TimesOut
<1>9. CASE AppServer!ToolOpensThread \/ AppServer!ToolStartsTurn \/ AppServer!ToolRefuses \/ AppServer!ToolSays \/ AppServer!ToolCompletes \/ AppServer!ToolAsks
           \/ AppServer!ToolEndsTurn \/ AppServer!ToolDies \/ AppServer!Decide \/ AppServer!SendDecision \/ AppServer!Close \/ AppServer!Closed
  BY <1>1, <1>9 DEF AppServer!ToolOpensThread, AppServer!ToolStartsTurn, AppServer!ToolRefuses,
     AppServer!ToolSays, AppServer!ToolCompletes, AppServer!ToolAsks, AppServer!ToolEndsTurn,
     AppServer!ToolDies, AppServer!Decide, AppServer!SendDecision, AppServer!Close,
     AppServer!Closed, AppServer!surface
<1> QED BY <1>1, <1>4, <1>5, <1>6, <1>7, <1>8, <1>9 DEF AppServer!Next, AppServer!vars

THEOREM AppServerHolds == AppServer!Spec => [](AppServer!QuestionsAreAnswered /\ AppServer!NoneWaitsForTheGone)
  BY QuestionsStart, QuestionsStep, QuestionsSay, WaitStarts, WaitSteps, WaitSays, PTL DEF
     AppServer!Spec

(* ---- several agents on one prompt ---- *)

\* Commands that start the members of what is asked for at one time.
Groups == INSTANCE Groups WITH
    Starts <- GroupStarts, rows <- groupsRows

\* An instance counts as this module does.
LEMMA GroupsCount == \A S : Groups!Cardinality(S) = Cardinality(S)
BY DEF Groups!Cardinality, Cardinality

\* The rows are a sequence of records, and a command has its fields.
RowShape(i) ==
    groupsRows[i] = [start |-> groupsRows[i].start, at |-> groupsRows[i].at, tool |-> groupsRows[i].tool, number |-> groupsRows[i].number,
               line |-> groupsRows[i].line, asked |-> groupsRows[i].asked, listed |-> groupsRows[i].listed]
RowsShape ==
    /\ \E R : groupsRows \in Seq(R)
    /\ \A i \in DOMAIN groupsRows : RowShape(i) /\ groupsRows[i].start \in GroupStarts
StartShape(s) ==
    /\ starts[s] = [members |-> starts[s].members, prompt |-> starts[s].prompt, adds |-> starts[s].adds,
                    at |-> starts[s].at, pc |-> starts[s].pc]
    /\ starts[s].members \in Seq(AMember) /\ starts[s].prompt \in BOOLEAN /\ starts[s].adds \in BOOLEAN
    /\ starts[s].at \in Nat /\ (starts[s].pc # "free" => starts[s].at >= 1)
    /\ starts[s].pc \in {"free", "member", "cut", "row", "done", "failed"}
    /\ starts[s].pc \in {"member", "cut", "row"} => starts[s].at <= Len(starts[s].members)
    /\ starts[s].pc = "done" => starts[s].at = Len(starts[s].members) + 1
StartsShape == starts = [s \in GroupStarts |-> starts[s]] /\ \A s \in GroupStarts : StartShape(s)

\* The rows of a command are its first members, each once: all in front of the
\* one it is at, and that one once it has a row.
RowsOf(s) == Cardinality(Groups!Of(s))
Filled(s) ==
    /\ IsFiniteSet(Groups!Of(s)) /\ RowsOf(s) \in Nat
    /\ \A i \in Groups!Of(s) : groupsRows[i].at \in 1..RowsOf(s)
    /\ \A a \in 1..RowsOf(s) : \E i \in Groups!Of(s) : groupsRows[i].at = a
    /\ starts[s].pc = "free" => RowsOf(s) = 0
    /\ starts[s].pc \in {"member", "cut", "done"} => RowsOf(s) + 1 = starts[s].at
    /\ starts[s].pc = "row" => RowsOf(s) = starts[s].at
    /\ starts[s].pc = "failed" => RowsOf(s) \in {starts[s].at, starts[s].at - 1}
OneRowEach ==
    \A i, j \in DOMAIN groupsRows : i # j /\ groupsRows[i].start = groupsRows[j].start => groupsRows[i].at # groupsRows[j].at

\* What a row has been given of the prompt, by what its command did so far.
InLine(i) == Groups!Occurrences(groupsRows[i].line, "prompt")
Due(s) == IF starts[s].prompt THEN 1 ELSE 0
Current(i) == groupsRows[i].at = starts[groupsRows[i].start].at
ToldOfPrompt(i) ==
    LET s == groupsRows[i].start
    IN /\ groupsRows[i].asked \in Nat /\ InLine(i) \in Nat
       /\ Current(i) /\ starts[s].pc = "row" =>
             groupsRows[i].asked = 0 /\ i \notin typing /\ InLine(i) = IF Groups!Carries(s) /\ ~Groups!Member(s).app THEN 1 ELSE 0
       /\ Current(i) /\ starts[s].pc = "failed" => groupsRows[i].asked + InLine(i) + Groups!Pending(i) <= Due(s)
       /\ ~(Current(i) /\ starts[s].pc \in {"row", "failed"}) => groupsRows[i].asked + InLine(i) + Groups!Pending(i) = Due(s)

\* A checkout was cut for a member that runs, or for the one the command is at.
CutFor(c) ==
    /\ c = [start |-> c.start, at |-> c.at] /\ c.start \in GroupStarts
    /\ \/ \E i \in Groups!Of(c.start) : groupsRows[i].at = c.at
       \/ starts[c.start].pc # "free" /\ c.at = starts[c.start].at

\* The row that came n-th has none of the numbers above n.
Numbered == \A i \in DOMAIN groupsRows : groupsRows[i].number \in 1..i

GroupsInv ==
    /\ StartsShape /\ RowsShape /\ typing \subseteq DOMAIN groupsRows
    /\ \A s \in GroupStarts : Filled(s)
    /\ OneRowEach /\ \A i \in DOMAIN groupsRows : ToldOfPrompt(i)
    /\ \A c \in cut : CutFor(c)
    /\ Numbered /\ Groups!NumbersTellApart

LEMMA GroupsSays == GroupsInv => Groups!AskedOnce /\ Groups!FailureStopsTheRest
<1> SUFFICES ASSUME GroupsInv PROVE Groups!AskedOnce /\ Groups!FailureStopsTheRest
  OBVIOUS
<1>1. Groups!AskedOnce
  <2> SUFFICES ASSUME NEW i \in DOMAIN groupsRows
               PROVE  /\ Groups!Asked(i) + Groups!Pending(i) <= Due(groupsRows[i].start)
                      /\ Groups!At(groupsRows[i].start, "done") /\ starts[groupsRows[i].start].prompt => Groups!Asked(i) + Groups!Pending(i) = 1
    BY DEF Groups!AskedOnce, Due
  <2> PICK s \in GroupStarts : s = groupsRows[i].start
    BY DEF GroupsInv, RowsShape
  <2>1. ToldOfPrompt(i) /\ Groups!Asked(i) = groupsRows[i].asked + InLine(i) /\ Groups!Pending(i) \in {0, 1}
    BY DEF GroupsInv, Groups!Asked, InLine, Groups!Pending
  <2>2. Due(s) = (IF starts[s].prompt THEN 1 ELSE 0) /\ Due(s) \in {0, 1}
    BY DEF Due
  <2>3. CASE Current(i) /\ starts[s].pc = "row"
    <3>1. InLine(i) <= Due(s) /\ groupsRows[i].asked = 0 /\ Groups!Pending(i) = 0
      BY <2>1, <2>3 DEF ToldOfPrompt, Groups!Carries, Due, Groups!Pending
    <3> QED BY <2>1, <2>2, <2>3, <3>1 DEF ToldOfPrompt, Groups!At
  <2>4. CASE ~(Current(i) /\ starts[s].pc = "row")
    BY <2>1, <2>2, <2>4 DEF ToldOfPrompt, Groups!At
  <2> QED BY <2>3, <2>4
<1>2. Groups!FailureStopsTheRest
  <2> SUFFICES ASSUME NEW s \in GroupStarts
               PROVE  LET ran == {groupsRows[i].at : i \in Groups!Of(s)}
                      IN /\ ran = 1..Cardinality(Groups!Of(s))
                         /\ Groups!At(s, "done") => Cardinality(Groups!Of(s)) = Len(starts[s].members)
                         /\ Cardinality({c \in cut : c.start = s /\ c.at \notin ran}) <= 1
    BY GroupsCount DEF Groups!FailureStopsTheRest
  <2> DEFINE ran == {groupsRows[i].at : i \in Groups!Of(s)}
             left == {c \in cut : c.start = s /\ c.at \notin ran}
             here == [start |-> s, at |-> starts[s].at]
  <2>1. Filled(s) /\ StartShape(s)
    BY DEF GroupsInv, StartsShape
  <2>2. ran = 1..RowsOf(s)
    BY <2>1 DEF Filled
  <2>3. Groups!At(s, "done") => RowsOf(s) = Len(starts[s].members)
    <3> PICK n : n = Len(starts[s].members)
      OBVIOUS
    <3>1. n \in Nat
      BY <2>1, LenProperties DEF StartShape
    <3> QED BY <2>1, <3>1 DEF Filled, StartShape, Groups!At
  <2>4. left \subseteq {here}
    BY DEF GroupsInv, CutFor
  <2>5. Cardinality(left) <= 1
    <3> HIDE DEF left, here
    <3>1. IsFiniteSet({here}) /\ Cardinality({here}) = 1
      BY FS_Singleton
    <3> QED BY <2>4, <3>1, FS_Subset
  <2> QED BY <2>2, <2>3, <2>5 DEF RowsOf
<1> QED BY <1>1, <1>2

LEMMA GroupsStarts == Groups!Init => GroupsInv
<1> SUFFICES ASSUME Groups!Init PROVE GroupsInv
  OBVIOUS
<1>1. groupsRows = <<>> /\ DOMAIN groupsRows = {} /\ \A s \in GroupStarts : Groups!Of(s) = {}
  BY DEF Groups!Init, Groups!Of
<1>2. StartsShape
  BY EmptySeq DEF Groups!Init, StartsShape, StartShape, Groups!None
<1>3. RowsShape
  <2>1. groupsRows \in Seq({})
    BY <1>1, EmptySeq
  <2> QED BY <1>1, <2>1 DEF RowsShape
<1>4. ASSUME NEW s \in GroupStarts PROVE Filled(s)
  <2>1. RowsOf(s) = 0 /\ IsFiniteSet(Groups!Of(s))
    BY <1>1, FS_EmptySet DEF RowsOf
  <2>2. starts[s].pc = "free"
    BY DEF Groups!Init, Groups!None
  <2> QED BY <1>1, <2>1, <2>2 DEF Filled
<1> QED BY <1>1, <1>2, <1>3, <1>4 DEF Groups!Init, GroupsInv, OneRowEach, Numbered,
   Groups!NumbersTellApart

\* A command goes on: it keeps what it was asked for, and the others stay.
GoesOn(s, a, pc) ==
    /\ starts' = [starts EXCEPT ![s] = [members |-> starts[s].members, prompt |-> starts[s].prompt,
                                        adds |-> starts[s].adds, at |-> a, pc |-> pc]]
    /\ starts'[s] = [members |-> starts[s].members, prompt |-> starts[s].prompt, adds |-> starts[s].adds,
                     at |-> a, pc |-> pc]
    /\ \A t \in GroupStarts \ {s} : starts'[t] = starts[t]
    /\ starts' = [t \in GroupStarts |-> starts'[t]]

LEMMA GoesTo ==
  ASSUME StartsShape, NEW s \in GroupStarts, NEW pc, Groups!Goes(s, pc)
  PROVE  GoesOn(s, starts[s].at, pc)
<1>1. starts' = [starts EXCEPT ![s].pc = pc]
  BY DEF Groups!Goes
<1>2. [starts[s] EXCEPT !.pc = pc] = [members |-> starts[s].members, prompt |-> starts[s].prompt,
                                      adds |-> starts[s].adds, at |-> starts[s].at, pc |-> pc]
  <2>1. starts[s] = [members |-> starts[s].members, prompt |-> starts[s].prompt, adds |-> starts[s].adds,
                     at |-> starts[s].at, pc |-> starts[s].pc]
    BY DEF StartsShape, StartShape
  <2> QED BY ONLY <2>1
<1>3. starts' = [starts EXCEPT ![s] = [starts[s] EXCEPT !.pc = pc]]
  BY <1>1
<1> QED BY <1>2, <1>3 DEF GoesOn, StartsShape

LEMMA NextTo ==
  ASSUME StartsShape, NEW s \in GroupStarts, Groups!NextMember(s)
  PROVE  GoesOn(s, starts[s].at + 1, IF starts[s].at = Len(starts[s].members) THEN "done" ELSE "member")
<1> PICK a : a = starts[s].at + 1
  OBVIOUS
<1> PICK pc : pc = IF starts[s].at = Len(starts[s].members) THEN "done" ELSE "member"
  OBVIOUS
<1>1. starts' = [starts EXCEPT ![s].at = a, ![s].pc = pc]
  BY DEF Groups!NextMember
<1> DEFINE r == [starts[s] EXCEPT !.at = a]
<1>2. r = [members |-> starts[s].members, prompt |-> starts[s].prompt,
           adds |-> starts[s].adds, at |-> a, pc |-> starts[s].pc]
  <2>1. starts[s] = [members |-> starts[s].members, prompt |-> starts[s].prompt, adds |-> starts[s].adds,
                     at |-> starts[s].at, pc |-> starts[s].pc]
    BY DEF StartsShape, StartShape
  <2> QED BY ONLY <2>1
<1>3. [r EXCEPT !.pc = pc] = [members |-> starts[s].members, prompt |-> starts[s].prompt,
                              adds |-> starts[s].adds, at |-> a, pc |-> pc]
  <2> HIDE DEF r
  <2> QED BY <1>2
<1>4. starts' = [starts EXCEPT ![s] = [r EXCEPT !.pc = pc]]
  BY <1>1 DEF StartsShape
<1>5. GoesOn(s, a, pc)
  BY <1>3, <1>4 DEF GoesOn, StartsShape
<1> QED BY <1>5

\* A command that goes on to where it may be has its shape.
LEMMA ShapeGoesOn ==
  ASSUME StartsShape, NEW s \in GroupStarts, NEW a \in Nat, a >= 1, NEW pc \in {"member", "cut", "row", "done", "failed"},
         GoesOn(s, a, pc),
         pc \in {"member", "cut", "row"} => a <= Len(starts[s].members),
         pc = "done" => a = Len(starts[s].members) + 1
  PROVE  StartsShape'
<1>1. ASSUME NEW t \in GroupStarts PROVE StartShape(t)'
  <2>1. CASE t = s
    BY <2>1 DEF GoesOn, StartsShape, StartShape
  <2>2. CASE t # s
    BY <2>2 DEF GoesOn, StartsShape, StartShape
  <2> QED BY <2>1, <2>2
<1> QED BY <1>1 DEF GoesOn, StartsShape

\* A row more, and a field of one set anew.
LEMMA RowAdded ==
  ASSUME RowsShape, NEW r, groupsRows' = Append(groupsRows, r)
  PROVE  /\ Len(groupsRows) \in Nat /\ DOMAIN groupsRows = 1..Len(groupsRows) /\ \E R : groupsRows' \in Seq(R)
         /\ DOMAIN groupsRows' = 1..(Len(groupsRows) + 1) /\ groupsRows'[Len(groupsRows) + 1] = r
         /\ \A i \in DOMAIN groupsRows : groupsRows'[i] = groupsRows[i]
<1>1. PICK R : groupsRows \in Seq(R)
  BY DEF RowsShape
<1>2. groupsRows \in Seq(R \union {r})
  BY <1>1, SeqMonotonic
<1> QED BY <1>2, AppendProperties, LenProperties

LEMMA RowSet ==
  ASSUME RowsShape, NEW i \in DOMAIN groupsRows, NEW r, groupsRows' = [groupsRows EXCEPT ![i] = r]
  PROVE  /\ \E R : groupsRows' \in Seq(R)
         /\ DOMAIN groupsRows' = DOMAIN groupsRows /\ groupsRows'[i] = r /\ \A j \in DOMAIN groupsRows : j # i => groupsRows'[j] = groupsRows[j]
<1>1. PICK R : groupsRows \in Seq(R)
  BY DEF RowsShape
<1>2. groupsRows \in Seq(R \union {r}) /\ i \in 1..Len(groupsRows)
  BY <1>1, SeqMonotonic, LenProperties
<1> QED BY <1>2, ExceptSeq, LenProperties

LEMMA RowAsked ==
  ASSUME RowsShape, NEW i \in DOMAIN groupsRows, groupsRows' = [groupsRows EXCEPT ![i].asked = @ + 1]
  PROVE  groupsRows' = [groupsRows EXCEPT ![i] =
            [start |-> groupsRows[i].start, at |-> groupsRows[i].at, tool |-> groupsRows[i].tool, number |-> groupsRows[i].number,
             line |-> groupsRows[i].line, asked |-> groupsRows[i].asked + 1, listed |-> groupsRows[i].listed]]
<1> PICK n : n = groupsRows[i].asked + 1
  OBVIOUS
<1>1. groupsRows[i] = [start |-> groupsRows[i].start, at |-> groupsRows[i].at, tool |-> groupsRows[i].tool, number |-> groupsRows[i].number,
                 line |-> groupsRows[i].line, asked |-> groupsRows[i].asked, listed |-> groupsRows[i].listed]
  BY DEF RowsShape, RowShape
<1>2. [groupsRows[i] EXCEPT !.asked = n] =
        [start |-> groupsRows[i].start, at |-> groupsRows[i].at, tool |-> groupsRows[i].tool, number |-> groupsRows[i].number,
         line |-> groupsRows[i].line, asked |-> n, listed |-> groupsRows[i].listed]
  BY <1>1
<1> QED BY <1>2

LEMMA RowForgotten ==
  ASSUME RowsShape, NEW i \in DOMAIN groupsRows, groupsRows' = [groupsRows EXCEPT ![i].listed = FALSE]
  PROVE  groupsRows' = [groupsRows EXCEPT ![i] =
            [start |-> groupsRows[i].start, at |-> groupsRows[i].at, tool |-> groupsRows[i].tool, number |-> groupsRows[i].number,
             line |-> groupsRows[i].line, asked |-> groupsRows[i].asked, listed |-> FALSE]]
<1> PICK no : no = FALSE
  OBVIOUS
<1>1. groupsRows[i] = [start |-> groupsRows[i].start, at |-> groupsRows[i].at, tool |-> groupsRows[i].tool, number |-> groupsRows[i].number,
                 line |-> groupsRows[i].line, asked |-> groupsRows[i].asked, listed |-> groupsRows[i].listed]
  BY DEF RowsShape, RowShape
<1>2. [groupsRows[i] EXCEPT !.listed = no] =
        [start |-> groupsRows[i].start, at |-> groupsRows[i].at, tool |-> groupsRows[i].tool, number |-> groupsRows[i].number,
         line |-> groupsRows[i].line, asked |-> groupsRows[i].asked, listed |-> no]
  BY ONLY <1>1
<1> QED BY <1>2

\* ---- what a command line asks ----

LEMMA NoWord ==
  ASSUME NEW S, NEW line \in Seq(S), NEW w, w \notin S
  PROVE  /\ Groups!Occurrences(line, w) = 0 /\ Groups!Occurrences(line \o <<w>>, w) = 1
<1>1. {k \in DOMAIN line : line[k] = w} = {}
  BY ElementOfSeq, LenProperties
<1> PICK n : n = Len(line)
  OBVIOUS
<1> PICK longer : longer = line \o <<w>>
  OBVIOUS
<1>2. n \in Nat /\ DOMAIN longer = 1..n + 1 /\ (\A k \in 1..n : longer[k] = line[k]) /\ longer[n + 1] = w
  <2>1. line \in Seq(S \union {w}) /\ <<w>> \in Seq(S \union {w})
    BY SeqMonotonic
  <2> QED BY <2>1
<1>3. \A k \in 1..n : line[k] # w
  BY ElementOfSeq
<1>4. {k \in DOMAIN longer : longer[k] = w} = {n + 1}
  BY <1>2, <1>3
<1>5. Cardinality({n + 1}) = 1
  BY FS_Singleton
<1> QED BY <1>1, <1>4, <1>5, FS_EmptySet, GroupsCount DEF Groups!Occurrences

LEMMA LineAsks ==
  ASSUME NEW s \in GroupStarts, Groups!Member(s) \in AMember
  PROVE  Groups!Occurrences(Groups!Line(s), "prompt") = IF Groups!Carries(s) /\ ~Groups!Member(s).app THEN 1 ELSE 0
<1> PICK Words : Words = {"settings", "model", "effort", "permission"}
  OBVIOUS
<1> DEFINE chosen == IF starts[s].adds \/ Groups!Member(s).app THEN <<>> ELSE Groups!member_args(Groups!Member(s))
<1> PICK m \in AMember : m = Groups!Member(s)
  OBVIOUS
<1>1. Groups!member_args(m) \in Seq(Words)
  <2>1. /\ Groups!Chosen(m, "model", Groups!model_args(m.tool)) \in Seq(Words)
        /\ Groups!Chosen(m, "effort", Groups!effort_args(m.tool)) \in Seq(Words)
        /\ Groups!Chosen(m, "permission", Groups!permission_args(m.tool)) \in Seq(Words)
    <3>1. \A w \in Words : <<w>> \in Seq(Words)
      OBVIOUS
    <3>2. <<>> \in Seq(Words) /\ "model" \in Words /\ "effort" \in Words /\ "permission" \in Words
      BY EmptySeq
    <3> QED BY <3>1, <3>2 DEF Groups!Chosen, Groups!model_args, Groups!effort_args,
       Groups!permission_args
  <2> QED BY ONLY <2>1 DEF Groups!member_args
<1>2. chosen \in Seq(Words)
  BY <1>1
<1>3. <<"settings">> \in Seq(Words)
  OBVIOUS
<1>4. "prompt" \notin Words
  OBVIOUS
<1> PICK front : front = <<"settings">> \o chosen
  OBVIOUS
<1>5. front \in Seq(Words)
  <2> HIDE DEF chosen
  <2> QED BY <1>2, <1>3
<1>5a. Groups!Occurrences(front, "prompt") = 0 /\ Groups!Occurrences(front \o <<"prompt">>, "prompt") = 1
  BY ONLY <1>4, <1>5, NoWord
<1>6. Groups!Line(s) = front \o (IF Groups!Carries(s) /\ ~m.app THEN Groups!prompt_args(m.tool) ELSE <<>>)
  BY DEF Groups!Line
<1>7. Groups!Carries(s) /\ ~m.app => Groups!prompt_args(m.tool) = <<"prompt">>
  BY DEF Groups!Carries, Groups!OnCommandLine, Groups!prompt_args
<1>8. CASE Groups!Carries(s) /\ ~m.app
  BY <1>5a, <1>6, <1>7, <1>8
<1>9. CASE ~(Groups!Carries(s) /\ ~m.app)
  <2>1. Groups!Line(s) = front
    BY <1>5, <1>6, <1>9, ConcatEmptySeq
  <2>2. Groups!Occurrences(Groups!Line(s), "prompt") = 0
    BY <1>5a, <2>1
  <2> QED BY <1>9, <2>2
<1> QED BY <1>8, <1>9

\* ---- the number of a new row ----

LEMMA NumberIs ==
  ASSUME GroupsInv, NEW kind, Len(groupsRows) < MaxRows
  PROVE  /\ Groups!number_for(kind) \in 1..(Len(groupsRows) + 1)
         /\ \A i \in Groups!Listed(kind) : groupsRows[i].number # Groups!number_for(kind)
<1> PICK n : n = Len(groupsRows)
  OBVIOUS
<1>1. n \in Nat /\ DOMAIN groupsRows = 1..n /\ n < MaxRows
  BY LenProperties DEF GroupsInv, RowsShape
<1>2. \A i \in 1..n : groupsRows[i].number \in 1..i
  BY <1>1 DEF GroupsInv, Numbered
<1> DEFINE Free == {k \in 1..(n + 1) : \A i \in Groups!Listed(kind) : groupsRows[i].number # k}
           Lowest(k) == /\ \A i \in Groups!Listed(kind) : groupsRows[i].number # k
                        /\ \A j \in 1..(k - 1) : \E i \in Groups!Listed(kind) : groupsRows[i].number = j
<1>3. n + 1 \in Free
  BY <1>1, <1>2 DEF Groups!Listed
<1>4. PICK k \in Free : \A j \in Free : k <= j
  <2>1. Free \in SUBSET Nat /\ Free # {}
    BY <1>1, <1>3
  <2> HIDE DEF Free
  <2> QED BY <2>1, FirstOf
<1>5. k \in 1..(MaxRows + 1) /\ Lowest(k)
  <2>1. k \in Nat /\ k \in 1..(n + 1)
    OBVIOUS
  <2>2. ASSUME NEW j \in 1..(k - 1) PROVE \E i \in Groups!Listed(kind) : groupsRows[i].number = j
    <3>1. j \notin Free /\ j \in 1..(n + 1)
      BY <1>1, <1>4, <2>1
    <3> QED BY <3>1
  <2> QED BY <1>1, <2>1, <2>2, GroupBounds
<1> PICK m : m = Groups!number_for(kind)
  OBVIOUS
<1>6. m \in 1..(MaxRows + 1) /\ Lowest(m)
  <2>1. Groups!number_for(kind) = CHOOSE j \in 1..(MaxRows + 1) : Lowest(j)
    BY DEF Groups!number_for
  <2> HIDE DEF Lowest
  <2> QED BY <1>5, <2>1
<1>7. m <= k
  <2> SUFFICES ASSUME ~(m <= k) PROVE FALSE
    OBVIOUS
  <2>1. k \in 1..(m - 1)
    BY <1>5, <1>6, GroupBounds
  <2> QED BY <1>5, <1>6, <2>1
<1> QED BY <1>1, <1>6, <1>7, GroupBounds

\* ---- steps ----

SameRow(i) ==
    /\ groupsRows'[i].start = groupsRows[i].start /\ groupsRows'[i].at = groupsRows[i].at /\ groupsRows'[i].tool = groupsRows[i].tool
    /\ groupsRows'[i].number = groupsRows[i].number /\ groupsRows'[i].line = groupsRows[i].line
    /\ groupsRows'[i].listed => groupsRows[i].listed
SameRows == DOMAIN groupsRows' = DOMAIN groupsRows /\ \A i \in DOMAIN groupsRows : SameRow(i)

LEMMA SameCount ==
  ASSUME SameRows, NEW s
  PROVE  Groups!Of(s)' = Groups!Of(s) /\ RowsOf(s)' = RowsOf(s)
<1>1. Groups!Of(s)' = Groups!Of(s)
  BY DEF SameRows, SameRow, Groups!Of
<1> QED BY <1>1 DEF RowsOf

\* Commands that go on with the same rows keep what is said of the rows together.
LEMMA RowsStay ==
  ASSUME GroupsInv, SameRows
  PROVE  OneRowEach' /\ Numbered' /\ Groups!NumbersTellApart'
<1>1. OneRowEach'
  BY DEF GroupsInv, OneRowEach, SameRows, SameRow
<1>2. Numbered'
  BY DEF GroupsInv, Numbered, SameRows, SameRow
<1>3. Groups!NumbersTellApart'
  <2> SUFFICES ASSUME NEW i \in DOMAIN groupsRows', NEW j \in DOMAIN groupsRows', i # j, groupsRows'[i].listed, groupsRows'[j].listed,
                      groupsRows'[i].tool = groupsRows'[j].tool
               PROVE  groupsRows'[i].number # groupsRows'[j].number
    BY DEF Groups!NumbersTellApart
  <2> QED BY DEF GroupsInv, Groups!NumbersTellApart, SameRows, SameRow
<1> QED BY <1>1, <1>2, <1>3

\* What the other commands' rows have been given stays as it was.
LEMMA ToldStays ==
  ASSUME NEW i, ToldOfPrompt(i), SameRow(i), groupsRows'[i].asked = groupsRows[i].asked, i \in typing' <=> i \in typing,
         starts'[groupsRows[i].start] = starts[groupsRows[i].start]
  PROVE  ToldOfPrompt(i)'
<1> PICK s : s = groupsRows[i].start
  OBVIOUS
<1>1. /\ InLine(i)' = InLine(i) /\ Groups!Pending(i)' = Groups!Pending(i) /\ Current(i)' = Current(i) /\ Due(s)' = Due(s)
      /\ Groups!Carries(s)' = Groups!Carries(s) /\ Groups!Member(s)' = Groups!Member(s)
  BY DEF SameRow, InLine, Groups!Pending, Current, Due, Groups!Carries, Groups!OnCommandLine,
     Groups!Member
<1>2. groupsRows'[i].start = s /\ starts'[s] = starts[s]
  BY DEF SameRow
<1> QED BY <1>1, <1>2 DEF ToldOfPrompt

LEMMA FilledStays ==
  ASSUME NEW s, Filled(s), SameRows, starts'[s] = starts[s]
  PROVE  Filled(s)'
<1>1. Groups!Of(s)' = Groups!Of(s) /\ RowsOf(s)' = RowsOf(s)
  BY SameCount
<1>2. \A i \in Groups!Of(s) : groupsRows'[i].at = groupsRows[i].at
  BY DEF SameRows, SameRow, Groups!Of
<1> QED BY <1>1, <1>2 DEF Filled

LEMMA CutStays ==
  ASSUME NEW c, CutFor(c), SameRows, starts'[c.start] = starts[c.start]
  PROVE  CutFor(c)'
BY SameCount DEF CutFor, SameRows, SameRow, Groups!Of

\* A command that fails or has its checkout cut.
LEMMA CommandMoves ==
  ASSUME GroupsInv, NEW s \in GroupStarts, NEW pc, GoesOn(s, starts[s].at, pc), UNCHANGED <<groupsRows, typing>>,
         \/ pc = "cut" /\ starts[s].pc = "member" /\ cut' = cut \union {Groups!Here(s)}
         \/ pc = "cut" /\ starts[s].pc = "member" /\ cut' = cut
         \/ pc = "failed" /\ starts[s].pc \in {"member", "cut", "row"} /\ cut' = cut
  PROVE  GroupsInv'
<1>1. StartsShape /\ RowsShape /\ StartShape(s) /\ Filled(s)
  BY DEF GroupsInv, StartsShape
<1>2. StartsShape'
  BY <1>1, ShapeGoesOn DEF StartShape
<1>3. SameRows
  BY DEF SameRows, SameRow
<1>4. /\ starts'[s].pc = pc /\ starts'[s].at = starts[s].at /\ starts'[s].prompt = starts[s].prompt
      /\ \A t \in GroupStarts \ {s} : starts'[t] = starts[t]
  BY DEF GoesOn
<1>5. ASSUME NEW t \in GroupStarts PROVE Filled(t)'
  <2>1. CASE t = s
    <3>1. RowsOf(s)' = RowsOf(s) /\ Groups!Of(s)' = Groups!Of(s)
      BY <1>3, SameCount
    <3>2. RowsOf(s) \in {starts[s].at, starts[s].at - 1} /\ (pc = "cut" => RowsOf(s) + 1 = starts[s].at)
      BY <1>1 DEF Filled, StartShape
    <3> QED BY <1>1, <1>4, <2>1, <3>1, <3>2 DEF Filled
  <2>2. CASE t # s
    BY <1>3, <1>4, <2>2, FilledStays DEF GroupsInv
  <2> QED BY <2>1, <2>2
<1>6. ASSUME NEW i \in DOMAIN groupsRows PROVE ToldOfPrompt(i)'
  <2>1. ToldOfPrompt(i) /\ groupsRows[i].start \in GroupStarts /\ i \in Groups!Of(groupsRows[i].start)
    BY DEF GroupsInv, RowsShape, Groups!Of
  <2>2. CASE groupsRows[i].start # s
    BY <1>3, <1>4, <2>1, <2>2, ToldStays DEF SameRows
  <2>3. CASE groupsRows[i].start = s
    <3>1. /\ InLine(i)' = InLine(i) /\ Groups!Pending(i)' = Groups!Pending(i) /\ Current(i)' = Current(i) /\ Due(s)' = Due(s)
          /\ groupsRows'[i] = groupsRows[i] /\ starts'[s].pc = pc
      BY <1>4, <2>3 DEF InLine, Groups!Pending, Current, Due
    <3>2. InLine(i) \in Nat /\ groupsRows[i].asked \in Nat /\ Groups!Pending(i) \in {0, 1} /\ Due(s) \in {0, 1}
      BY <2>1 DEF ToldOfPrompt, Groups!Pending, Due
    <3>3. starts[s].pc # "row" \/ ~Current(i) => groupsRows[i].asked + InLine(i) + Groups!Pending(i) = Due(s)
      BY <2>1, <2>3 DEF ToldOfPrompt
    <3>4. starts[s].pc = "row" /\ Current(i) => groupsRows[i].asked + InLine(i) + Groups!Pending(i) <= Due(s)
      BY <2>1, <2>3, <3>2 DEF ToldOfPrompt, Groups!Carries, Due, Groups!Pending
    <3>5. groupsRows[i].asked + InLine(i) + Groups!Pending(i) <= Due(s)
      BY <3>2, <3>3, <3>4
    <3>6. ~(Current(i) /\ starts[s].pc = "row") \/ pc = "failed"
      <4>1. pc = "cut" => starts[s].pc = "member"
        OBVIOUS
      <4> QED BY <4>1
    <3> QED BY <2>3, <3>1, <3>2, <3>3, <3>5, <3>6 DEF ToldOfPrompt
  <2> QED BY <2>2, <2>3
<1>7. ASSUME NEW c \in cut' PROVE CutFor(c)'
  <2>1. CASE c \in cut
    <3>1. CutFor(c)
      BY <2>1 DEF GroupsInv
    <3>2. CASE c.start # s
      BY <1>3, <1>4, <3>1, <3>2, CutStays DEF CutFor
    <3>3. CASE c.start = s
      BY <1>3, <1>4, <3>1, <3>3, SameCount DEF CutFor
    <3> QED BY <3>2, <3>3
  <2>2. CASE c = Groups!Here(s)
    BY <1>4, <2>2 DEF Groups!Here, CutFor
  <2> QED BY <2>1, <2>2
<1> QED BY <1>2, <1>3, <1>5, <1>6, <1>7, RowsStay DEF GroupsInv, RowsShape, RowShape

\* A command that begins has no rows and no checkouts yet.
LEMMA CommandStarts ==
  ASSUME GroupsInv, NEW s \in GroupStarts, NEW members \in Seq(AMember), NEW prompt \in BOOLEAN, NEW adds \in BOOLEAN,
         NEW pc \in {"member", "failed"}, pc = "member" => Len(members) >= 1, starts[s].pc = "free",
         starts' = [starts EXCEPT ![s] = [members |-> members, prompt |-> prompt, adds |-> adds, at |-> 1, pc |-> pc]],
         UNCHANGED <<groupsRows, cut, typing>>
  PROVE  GroupsInv'
<1>1. StartsShape /\ RowsShape /\ StartShape(s) /\ Filled(s)
  BY DEF GroupsInv, StartsShape
<1>2. /\ starts'[s] = [members |-> members, prompt |-> prompt, adds |-> adds, at |-> 1, pc |-> pc]
      /\ \A t \in GroupStarts \ {s} : starts'[t] = starts[t]
      /\ starts' = [t \in GroupStarts |-> starts'[t]]
  BY <1>1 DEF StartsShape
<1>3. SameRows
  BY DEF SameRows, SameRow
<1>4. StartsShape'
  <2>1. ASSUME NEW t \in GroupStarts PROVE StartShape(t)'
    <3>1. CASE t = s
      <4> PICK n : n = Len(members)
        OBVIOUS
      <4>1. n \in Nat
        BY LenProperties
      <4> QED BY <1>2, <3>1, <4>1 DEF StartShape
    <3>2. CASE t # s
      BY <1>1, <1>2, <3>2 DEF StartsShape, StartShape
    <3> QED BY <3>1, <3>2
  <2> QED BY <1>2, <2>1 DEF StartsShape
<1>5. RowsOf(s) = 0 /\ Groups!Of(s) = {}
  <2>1. RowsOf(s) = 0 /\ IsFiniteSet(Groups!Of(s))
    BY <1>1 DEF Filled
  <2> QED BY <2>1, FS_EmptySet DEF RowsOf
<1>6. ASSUME NEW t \in GroupStarts PROVE Filled(t)'
  <2>1. CASE t = s
    <3>1. RowsOf(s)' = 0 /\ Groups!Of(s)' = {}
      BY <1>3, <1>5, SameCount
    <3>2. starts'[s].pc = pc /\ starts'[s].at = 1
      BY <1>2
    <3> QED BY <2>1, <3>1, <3>2, FS_EmptySet DEF Filled
  <2>2. CASE t # s
    BY <1>2, <1>3, <2>2, FilledStays DEF GroupsInv
  <2> QED BY <2>1, <2>2
<1>7. ASSUME NEW i \in DOMAIN groupsRows PROVE ToldOfPrompt(i)'
  <2>1. ToldOfPrompt(i) /\ groupsRows[i].start \in GroupStarts /\ groupsRows[i].start # s
    BY <1>5 DEF GroupsInv, RowsShape, Groups!Of
  <2> QED BY <1>2, <1>3, <2>1, ToldStays DEF SameRows
<1>8. ASSUME NEW c \in cut PROVE CutFor(c)'
  <2>1. CutFor(c) /\ c.start \in GroupStarts
    BY DEF GroupsInv, CutFor
  <2>2. c.start # s
    BY <1>5, <2>1 DEF CutFor
  <2> QED BY <1>2, <1>3, <2>1, <2>2, CutStays
<1> QED BY <1>3, <1>4, <1>6, <1>7, <1>8, RowsStay DEF GroupsInv, RowsShape, RowShape

\* The row a command is at has been given the prompt as it should, and the
\* command goes on to the next member.
LEMMA RowDone ==
  ASSUME GroupsInv, NEW s \in GroupStarts, starts[s].pc = "row", NEW i \in Groups!Of(s), groupsRows[i].at = starts[s].at,
         Groups!NextMember(s), RowsShape', SameRows, UNCHANGED cut,
         groupsRows'[i].asked \in Nat, groupsRows'[i].asked + InLine(i) + Groups!Pending(i)' = Due(s),
         \A j \in DOMAIN groupsRows \ {i} : groupsRows'[j].asked = groupsRows[j].asked /\ (j \in typing' <=> j \in typing),
         typing' \subseteq DOMAIN groupsRows
  PROVE  GroupsInv'
<1>1. StartsShape /\ RowsShape /\ StartShape(s) /\ Filled(s) /\ i \in DOMAIN groupsRows /\ groupsRows[i].start = s
  BY DEF GroupsInv, StartsShape, Groups!Of
<1> PICK n : n = Len(starts[s].members)
  OBVIOUS
<1> PICK pc : pc = IF starts[s].at = n THEN "done" ELSE "member"
  OBVIOUS
<1>2. n \in Nat /\ starts[s].at \in 1..n /\ pc \in {"done", "member"} /\ GoesOn(s, starts[s].at + 1, pc)
  BY <1>1, NextTo, LenProperties DEF StartShape
<1>3. StartsShape'
  BY <1>1, <1>2, ShapeGoesOn
<1>4. /\ starts'[s].pc = pc /\ starts'[s].at = starts[s].at + 1 /\ starts'[s].prompt = starts[s].prompt
      /\ \A t \in GroupStarts \ {s} : starts'[t] = starts[t]
  BY <1>2 DEF GoesOn
<1>5. ASSUME NEW t \in GroupStarts PROVE Filled(t)'
  <2>1. CASE t = s
    <3>1. Groups!Of(s)' = Groups!Of(s) /\ RowsOf(s)' = RowsOf(s) /\ RowsOf(s) = starts[s].at
      BY <1>1, SameCount DEF Filled
    <3>2. \A j \in Groups!Of(s) : groupsRows'[j].at = groupsRows[j].at
      BY DEF SameRows, SameRow, Groups!Of
    <3> QED BY <1>1, <1>2, <1>4, <2>1, <3>1, <3>2 DEF Filled
  <2>2. CASE t # s
    BY <1>4, <2>2, FilledStays DEF GroupsInv
  <2> QED BY <2>1, <2>2
<1>6. ASSUME NEW j \in DOMAIN groupsRows PROVE ToldOfPrompt(j)'
  <2>1. ToldOfPrompt(j) /\ groupsRows[j].start \in GroupStarts /\ SameRow(j)
    BY DEF GroupsInv, RowsShape, SameRows
  <2>2. CASE groupsRows[j].start # s
    BY <1>1, <1>4, <2>1, <2>2, ToldStays
  <2>3. CASE groupsRows[j].start = s
    <3>1. groupsRows'[j].start = s /\ groupsRows'[j].at = groupsRows[j].at /\ InLine(j)' = InLine(j) /\ Due(s)' = Due(s)
      BY <1>4, <2>1, <2>3 DEF SameRow, InLine, Due
    <3>2. groupsRows[j].at \in 1..starts[s].at
      BY <1>1, <2>3 DEF Filled, Groups!Of
    <3>3. ~Current(j)'
      BY <1>2, <1>4, <3>1, <3>2 DEF Current
    <3>4. CASE j = i
      BY <2>1, <3>1, <3>3, <3>4 DEF ToldOfPrompt
    <3>5. CASE j # i
      <4>1. ~Current(j)
        BY <1>1, <2>3, <3>5 DEF GroupsInv, OneRowEach, Current
      <4>2. Groups!Pending(j)' = Groups!Pending(j) /\ groupsRows'[j].asked = groupsRows[j].asked
        BY <3>5 DEF Groups!Pending
      <4> QED BY <2>1, <2>3, <3>1, <3>3, <4>1, <4>2 DEF ToldOfPrompt
    <3> QED BY <3>4, <3>5
  <2> QED BY <2>2, <2>3
<1>7. ASSUME NEW c \in cut PROVE CutFor(c)'
  <2>1. CutFor(c) /\ c.start \in GroupStarts
    BY DEF GroupsInv, CutFor
  <2>2. CASE c.start # s
    BY <1>4, <2>1, <2>2, CutStays
  <2>3. CASE c.start = s
    <3>1. PICK j \in Groups!Of(s) : groupsRows[j].at = c.at
      BY <2>1, <2>3 DEF CutFor
    <3>2. j \in Groups!Of(s)' /\ groupsRows'[j].at = c.at
      BY <3>1, SameCount DEF SameRows, SameRow, Groups!Of
    <3> QED BY <2>1, <2>3, <3>2 DEF CutFor
  <2> QED BY <2>2, <2>3
<1> QED BY <1>3, <1>5, <1>6, <1>7, RowsStay DEF GroupsInv, SameRows

\* A row more, for the member the command is at; the command stays there until
\* the row has been given the prompt, or goes on.
LEMMA RowComes ==
  ASSUME GroupsInv, NEW s \in GroupStarts, starts[s].pc \in {"member", "cut"}, Len(groupsRows) < MaxRows,
         NEW line, NEW asked \in Nat, groupsRows' = Append(groupsRows, Groups!Row(s, line, asked)), UNCHANGED typing,
         Groups!Occurrences(line, "prompt") \in Nat, NEW a, NEW pc, GoesOn(s, a, pc), StartsShape',
         \/ /\ a = starts[s].at /\ pc = "row" /\ asked = 0
            /\ Groups!Occurrences(line, "prompt") = IF Groups!Carries(s) /\ ~Groups!Member(s).app THEN 1 ELSE 0
         \/ /\ a = starts[s].at + 1 /\ pc \in {"done", "member"}
            /\ asked + Groups!Occurrences(line, "prompt") = Due(s),
         cut' \in {cut, cut \union {Groups!Here(s)}}
  PROVE  GroupsInv'
<1>1. StartsShape /\ RowsShape /\ StartShape(s) /\ Filled(s)
  BY DEF GroupsInv, StartsShape
<1> PICK n : n = Len(groupsRows) + 1
  OBVIOUS
<1> PICK kind : kind = Groups!Member(s).tool
  OBVIOUS
<1> PICK no : no = Groups!number_for(kind)
  OBVIOUS
<1> PICK r : r = Groups!Row(s, line, asked)
  OBVIOUS
<1>2. r = [start |-> s, at |-> starts[s].at, tool |-> kind, number |-> no, line |-> line, asked |-> asked, listed |-> TRUE]
  BY DEF Groups!Row
<1>3. /\ n - 1 \in Nat /\ n \in Nat /\ DOMAIN groupsRows = 1..n - 1 /\ DOMAIN groupsRows' = 1..n /\ groupsRows'[n] = r
      /\ (\A i \in DOMAIN groupsRows : groupsRows'[i] = groupsRows[i]) /\ \E R : groupsRows' \in Seq(R)
  BY <1>1, RowAdded
<1>4. no \in 1..n /\ \A i \in Groups!Listed(kind) : groupsRows[i].number # no
  BY NumberIs
<1>5. /\ starts'[s].pc = pc /\ starts'[s].at = a /\ starts'[s].prompt = starts[s].prompt
      /\ starts'[s].members = starts[s].members /\ starts'[s].adds = starts[s].adds
      /\ \A t \in GroupStarts \ {s} : starts'[t] = starts[t]
  BY DEF GoesOn
<1>6. /\ groupsRows'[n].start = s /\ groupsRows'[n].at = starts[s].at /\ groupsRows'[n].tool = kind /\ groupsRows'[n].number = no
      /\ groupsRows'[n].line = line /\ groupsRows'[n].asked = asked
  BY <1>2, <1>3
<1>7. RowsShape'
  <2>1. RowShape(n)'
    BY <1>2, <1>3, <1>6 DEF RowShape
  <2>2. \A i \in DOMAIN groupsRows' : i = n \/ i \in DOMAIN groupsRows
    BY <1>3
  <2> QED BY <1>1, <1>3, <1>6, <2>1, <2>2 DEF RowsShape, RowShape
<1>8. Groups!Of(s)' = Groups!Of(s) \union {n} /\ n \notin Groups!Of(s) /\ \A t \in GroupStarts \ {s} : Groups!Of(t)' = Groups!Of(t) /\ RowsOf(t)' = RowsOf(t)
  <2>1. Groups!Of(s)' = Groups!Of(s) \union {n} /\ n \notin Groups!Of(s)
    BY <1>3, <1>6 DEF Groups!Of
  <2>2. \A t \in GroupStarts \ {s} : Groups!Of(t)' = Groups!Of(t)
    BY <1>3, <1>6 DEF Groups!Of
  <2> QED BY <2>1, <2>2 DEF RowsOf
<1>9. IsFiniteSet(Groups!Of(s)') /\ RowsOf(s)' = RowsOf(s) + 1 /\ RowsOf(s) \in Nat /\ RowsOf(s) + 1 = starts[s].at
  <2>1. IsFiniteSet(Groups!Of(s)) /\ RowsOf(s) \in Nat /\ RowsOf(s) + 1 = starts[s].at
    BY <1>1 DEF Filled
  <2>2. IsFiniteSet(Groups!Of(s) \union {n}) /\ Cardinality(Groups!Of(s) \union {n}) = Cardinality(Groups!Of(s)) + 1
    BY <1>8, <2>1, FS_AddElement
  <2> QED BY <1>8, <2>1, <2>2 DEF RowsOf
<1>10. ASSUME NEW t \in GroupStarts PROVE Filled(t)'
  <2>1. CASE t = s
    <3>1. \A i \in Groups!Of(s)' : groupsRows'[i].at \in 1..RowsOf(s)'
      BY <1>1, <1>3, <1>6, <1>8, <1>9 DEF Filled, Groups!Of
    <3>2. \A b \in 1..RowsOf(s)' : \E i \in Groups!Of(s)' : groupsRows'[i].at = b
      <4> SUFFICES ASSUME NEW b \in 1..RowsOf(s)' PROVE \E i \in Groups!Of(s)' : groupsRows'[i].at = b
        OBVIOUS
      <4>1. CASE b = starts[s].at
        BY <1>6, <1>8, <4>1
      <4>2. CASE b # starts[s].at
        <5>1. b \in 1..RowsOf(s)
          BY <1>9, <4>2
        <5>2. PICK i \in Groups!Of(s) : groupsRows[i].at = b
          BY <1>1, <5>1 DEF Filled
        <5> QED BY <1>3, <1>8, <5>2 DEF Groups!Of
      <4> QED BY <4>1, <4>2
    <3>3. RowsOf(s)' = starts[s].at /\ RowsOf(s)' \in Nat
      BY <1>9
    <3>4. \/ starts'[s].pc = "row" /\ RowsOf(s)' = starts'[s].at
          \/ starts'[s].pc \in {"done", "member"} /\ RowsOf(s)' + 1 = starts'[s].at
      BY <1>5, <3>3
    <3> QED BY <1>9, <2>1, <3>1, <3>2, <3>3, <3>4 DEF Filled
  <2>2. CASE t # s
    <3>1. Groups!Of(t)' = Groups!Of(t) /\ RowsOf(t)' = RowsOf(t) /\ Filled(t) /\ starts'[t] = starts[t]
      BY <1>5, <1>8, <2>2 DEF GroupsInv
    <3>2. \A i \in Groups!Of(t) : groupsRows'[i] = groupsRows[i]
      BY <1>3 DEF Groups!Of
    <3>3. \A i \in Groups!Of(t)' : groupsRows'[i].at \in 1..RowsOf(t)'
      BY <3>1, <3>2 DEF Filled
    <3>4. \A b \in 1..RowsOf(t)' : \E i \in Groups!Of(t)' : groupsRows'[i].at = b
      <4> SUFFICES ASSUME NEW b \in 1..RowsOf(t)' PROVE \E i \in Groups!Of(t)' : groupsRows'[i].at = b
        OBVIOUS
      <4>1. PICK i \in Groups!Of(t) : groupsRows[i].at = b
        BY <3>1 DEF Filled
      <4> QED BY <3>1, <3>2, <4>1
    <3> QED BY <3>1, <3>3, <3>4 DEF Filled
  <2> QED BY <2>1, <2>2
<1>11. \A i \in Groups!Of(s) : groupsRows[i].at \in 1..starts[s].at - 1
  BY <1>1, <1>9 DEF Filled
<1>12. OneRowEach'
  <2> SUFFICES ASSUME NEW i \in DOMAIN groupsRows', NEW j \in DOMAIN groupsRows', i # j, groupsRows'[i].start = groupsRows'[j].start
               PROVE  groupsRows'[i].at # groupsRows'[j].at
    BY DEF OneRowEach
  <2>1. ASSUME NEW k \in DOMAIN groupsRows, groupsRows[k].start = s PROVE groupsRows'[k].at # groupsRows'[n].at
    <3>1. groupsRows[k].at \in 1..starts[s].at - 1
      BY <1>11, <2>1 DEF Groups!Of
    <3> QED BY <1>1, <1>3, <1>6, <3>1 DEF StartShape
  <2>2. CASE i \in DOMAIN groupsRows /\ j \in DOMAIN groupsRows
    BY <1>3, <2>2 DEF GroupsInv, OneRowEach
  <2>3. CASE i = n
    BY <1>3, <1>6, <2>1, <2>3
  <2>4. CASE j = n
    BY <1>3, <1>6, <2>1, <2>4
  <2> QED BY <1>3, <2>2, <2>3, <2>4
<1>13. n \notin typing
  BY <1>3 DEF GroupsInv
<1>14. ASSUME NEW i \in DOMAIN groupsRows' PROVE ToldOfPrompt(i)'
  <2>1. CASE i = n
    <3>1. /\ InLine(n)' = Groups!Occurrences(line, "prompt") /\ Groups!Pending(n)' = 0 /\ Due(s)' = Due(s)
          /\ Current(n)' = (starts[s].at = a)
      BY <1>5, <1>6, <1>13 DEF InLine, Groups!Pending, Due, Current
    <3>2. CASE a = starts[s].at /\ pc = "row" /\ asked = 0
      <4>1. Groups!Occurrences(line, "prompt") = IF Groups!Carries(s) /\ ~Groups!Member(s).app THEN 1 ELSE 0
        BY <1>1, <3>2 DEF StartShape
      <4>2. Groups!Carries(s)' = Groups!Carries(s) /\ Groups!Member(s)' = Groups!Member(s)
        BY <1>5, <3>2 DEF Groups!Carries, Groups!OnCommandLine, Groups!Member
      <4>3. InLine(n)' = IF Groups!Carries(s)' /\ ~Groups!Member(s)'.app THEN 1 ELSE 0
        BY <3>1, <4>1, <4>2
      <4>4. groupsRows'[n].start = s /\ groupsRows'[n].asked = 0 /\ InLine(n)' \in Nat /\ n \notin typing'
        BY <1>6, <1>13, <3>1, <3>2
      <4>5. starts'[s].pc = "row" /\ Current(n)'
        BY <1>5, <3>1, <3>2
      <4> QED BY <2>1, <4>3, <4>4, <4>5 DEF ToldOfPrompt
    <3>3. CASE a = starts[s].at + 1 /\ pc \in {"done", "member"} /\ asked + Groups!Occurrences(line, "prompt") = Due(s)
      BY <1>5, <1>6, <2>1, <3>1, <3>3 DEF ToldOfPrompt
    <3> QED BY <3>2, <3>3
  <2>2. CASE i # n
    <3>1. i \in DOMAIN groupsRows /\ groupsRows'[i] = groupsRows[i]
      BY <1>3, <2>2
    <3>2. ToldOfPrompt(i) /\ groupsRows[i].start \in GroupStarts
      BY <3>1 DEF GroupsInv, RowsShape
    <3>3. SameRow(i)
      BY <3>1 DEF SameRow
    <3>4. CASE groupsRows[i].start # s
      BY <1>5, <3>1, <3>2, <3>3, <3>4, ToldStays
    <3>5. CASE groupsRows[i].start = s
      <4>1. groupsRows[i].at \in 1..starts[s].at - 1
        BY <1>11, <3>1, <3>5 DEF Groups!Of
      <4>2. ~Current(i) /\ ~Current(i)'
        BY <1>1, <1>5, <3>1, <3>5, <4>1 DEF Current, StartShape
      <4>3. InLine(i)' = InLine(i) /\ Groups!Pending(i)' = Groups!Pending(i) /\ Due(s)' = Due(s)
        BY <1>5, <3>1 DEF InLine, Groups!Pending, Due
      <4> QED BY <3>1, <3>2, <3>5, <4>2, <4>3 DEF ToldOfPrompt
    <3> QED BY <3>4, <3>5
  <2> QED BY <2>1, <2>2
<1>15. ASSUME NEW c \in cut' PROVE CutFor(c)'
  <2>1. ASSUME c.start = s, c.at = starts[s].at, c = [start |-> c.start, at |-> c.at] PROVE CutFor(c)'
    BY <1>6, <1>8, <2>1 DEF CutFor
  <2>2. CASE c \in cut
    <3>1. CutFor(c) /\ c.start \in GroupStarts
      BY <2>2 DEF GroupsInv, CutFor
    <3>2. ASSUME NEW i \in Groups!Of(c.start), groupsRows[i].at = c.at PROVE CutFor(c)'
      <4>1. i \in Groups!Of(c.start)' /\ groupsRows'[i].at = c.at
        BY <1>3, <1>8, <3>1, <3>2 DEF Groups!Of
      <4> QED BY <3>1, <4>1 DEF CutFor
    <3>3. CASE c.start # s
      <4>1. starts'[c.start] = starts[c.start]
        BY <1>5, <3>1, <3>3
      <4> QED BY <3>1, <3>2, <4>1 DEF CutFor
    <3>4. CASE c.start = s
      BY <2>1, <3>1, <3>2, <3>4 DEF CutFor
    <3> QED BY <3>3, <3>4
  <2>3. CASE c = Groups!Here(s)
    BY <2>1, <2>3 DEF Groups!Here
  <2> QED BY <2>2, <2>3
<1>16. Numbered'
  BY <1>3, <1>4, <1>6 DEF GroupsInv, Numbered
<1>17. Groups!NumbersTellApart'
  <2> SUFFICES ASSUME NEW i \in DOMAIN groupsRows', NEW j \in DOMAIN groupsRows', i # j, groupsRows'[i].listed, groupsRows'[j].listed,
                      groupsRows'[i].tool = groupsRows'[j].tool
               PROVE  groupsRows'[i].number # groupsRows'[j].number
    BY DEF Groups!NumbersTellApart
  <2>1. ASSUME NEW k \in DOMAIN groupsRows, groupsRows[k].listed, groupsRows[k].tool = kind PROVE groupsRows'[k].number # no
    BY <1>3, <1>4, <2>1 DEF Groups!Listed
  <2>2. CASE i \in DOMAIN groupsRows /\ j \in DOMAIN groupsRows
    BY <1>3, <2>2 DEF GroupsInv, Groups!NumbersTellApart
  <2>3. CASE i = n
    BY <1>3, <1>6, <2>1, <2>3
  <2>4. CASE j = n
    BY <1>3, <1>6, <2>1, <2>4
  <2> QED BY <1>3, <2>2, <2>3, <2>4
<1>18. typing' \subseteq DOMAIN groupsRows'
  BY <1>3 DEF GroupsInv
<1> QED BY <1>7, <1>10, <1>12, <1>14, <1>15, <1>16, <1>17, <1>18 DEF GroupsInv

\* What is typed, and what is forgotten: no command moves.
LEMMA OneRowSet ==
  ASSUME GroupsInv, NEW i \in DOMAIN groupsRows, NEW asked \in Nat, NEW listed, listed => groupsRows[i].listed,
         groupsRows' = [groupsRows EXCEPT ![i] =
            [start |-> groupsRows[i].start, at |-> groupsRows[i].at, tool |-> groupsRows[i].tool, number |-> groupsRows[i].number,
             line |-> groupsRows[i].line, asked |-> asked, listed |-> listed]]
  PROVE  /\ RowsShape' /\ SameRows /\ groupsRows'[i].asked = asked
         /\ \A j \in DOMAIN groupsRows \ {i} : groupsRows'[j] = groupsRows[j]
<1> PICK r : r = [start |-> groupsRows[i].start, at |-> groupsRows[i].at, tool |-> groupsRows[i].tool, number |-> groupsRows[i].number,
                  line |-> groupsRows[i].line, asked |-> asked, listed |-> listed]
  OBVIOUS
<1>1. RowsShape
  BY DEF GroupsInv
<1>2. /\ \E R : groupsRows' \in Seq(R)
      /\ DOMAIN groupsRows' = DOMAIN groupsRows /\ groupsRows'[i] = r /\ \A j \in DOMAIN groupsRows : j # i => groupsRows'[j] = groupsRows[j]
  BY <1>1, RowSet
<1>3. /\ r = [start |-> r.start, at |-> r.at, tool |-> r.tool, number |-> r.number,
              line |-> r.line, asked |-> r.asked, listed |-> r.listed]
      /\ r.start = groupsRows[i].start /\ r.at = groupsRows[i].at /\ r.tool = groupsRows[i].tool /\ r.number = groupsRows[i].number
      /\ r.line = groupsRows[i].line /\ r.asked = asked
  OBVIOUS
<1>4. r.listed = listed
  OBVIOUS
<1>5. SameRow(i)
  BY <1>2, <1>3, <1>4 DEF SameRow
<1>6. SameRows
  BY <1>2, <1>5 DEF SameRows, SameRow
<1>7. RowsShape'
  BY <1>1, <1>2, <1>3 DEF RowsShape, RowShape
<1> QED BY <1>2, <1>3, <1>6, <1>7

LEMMA RestStays ==
  ASSUME GroupsInv, SameRows, RowsShape', UNCHANGED <<starts, cut>>, typing' \subseteq DOMAIN groupsRows,
         \A i \in DOMAIN groupsRows : ToldOfPrompt(i)'
  PROVE  GroupsInv'
<1>1. StartsShape'
  BY DEF GroupsInv, StartsShape, StartShape
<1>2. \A s \in GroupStarts : Filled(s)'
  BY FilledStays DEF GroupsInv
<1>3. \A c \in cut : CutFor(c)'
  BY CutStays DEF GroupsInv
<1> QED BY <1>1, <1>2, <1>3, RowsStay DEF GroupsInv, SameRows

LEMMA PromptTyped ==
  ASSUME GroupsInv, Groups!TypePrompt
  PROVE  GroupsInv'
<1>1. PICK i \in typing : groupsRows' = [groupsRows EXCEPT ![i].asked = @ + 1] /\ typing' = typing \ {i}
  BY DEF Groups!TypePrompt
<1>2. UNCHANGED <<starts, cut>> /\ i \in DOMAIN groupsRows /\ ToldOfPrompt(i) /\ RowsShape
  BY DEF Groups!TypePrompt, GroupsInv
<1>3. groupsRows' = [groupsRows EXCEPT ![i] =
            [start |-> groupsRows[i].start, at |-> groupsRows[i].at, tool |-> groupsRows[i].tool, number |-> groupsRows[i].number,
             line |-> groupsRows[i].line, asked |-> groupsRows[i].asked + 1, listed |-> groupsRows[i].listed]]
  BY <1>1, <1>2, RowAsked
<1>4. groupsRows[i].asked + 1 \in Nat
  BY <1>2 DEF ToldOfPrompt
<1>5. /\ RowsShape' /\ SameRows /\ groupsRows'[i].asked = groupsRows[i].asked + 1
      /\ \A j \in DOMAIN groupsRows \ {i} : groupsRows'[j] = groupsRows[j]
  <2> PICK asked : asked = groupsRows[i].asked + 1
    OBVIOUS
  <2> PICK listed : listed = groupsRows[i].listed
    OBVIOUS
  <2>1. asked \in Nat /\ i \in DOMAIN groupsRows
    BY <1>2, <1>4
  <2>2. listed => groupsRows[i].listed
    OBVIOUS
  <2>3. groupsRows' = [groupsRows EXCEPT ![i] =
            [start |-> groupsRows[i].start, at |-> groupsRows[i].at, tool |-> groupsRows[i].tool, number |-> groupsRows[i].number,
             line |-> groupsRows[i].line, asked |-> asked, listed |-> listed]]
    BY <1>3
  <2>4. RowsShape' /\ SameRows /\ groupsRows'[i].asked = asked /\ \A j \in DOMAIN groupsRows \ {i} : groupsRows'[j] = groupsRows[j]
    BY ONLY GroupsInv, <2>1, <2>2, <2>3, OneRowSet
  <2> QED BY <2>4
<1>6. ASSUME NEW j \in DOMAIN groupsRows PROVE ToldOfPrompt(j)'
  <2>1. CASE j = i
    <3> PICK s : s = groupsRows[i].start
      OBVIOUS
    <3>1. /\ groupsRows'[i].start = s /\ InLine(i)' = InLine(i) /\ Groups!Pending(i) = 1 /\ Groups!Pending(i)' = 0 /\ Due(s)' = Due(s)
          /\ Current(i)' = Current(i) /\ starts'[s] = starts[s]
      BY <1>1, <1>2, <1>5 DEF InLine, Groups!Pending, Due, Current, SameRows, SameRow
    <3>2. ~(Current(i) /\ starts[s].pc = "row")
      BY <1>2 DEF ToldOfPrompt
    <3> QED BY <1>2, <1>4, <1>5, <2>1, <3>1, <3>2 DEF ToldOfPrompt
  <2>2. CASE j # i
    <3>1. ToldOfPrompt(j) /\ SameRow(j) /\ groupsRows'[j].asked = groupsRows[j].asked /\ (j \in typing' <=> j \in typing)
      BY <1>1, <1>5, <2>2 DEF GroupsInv, SameRows
    <3> QED BY <1>2, <3>1, ToldStays
  <2> QED BY <2>1, <2>2
<1>7. typing' \subseteq DOMAIN groupsRows
  BY <1>1 DEF GroupsInv
<1> QED BY <1>2, <1>5, <1>6, <1>7, RestStays

LEMMA Forgets ==
  ASSUME GroupsInv, Groups!Forget
  PROVE  GroupsInv'
<1>1. PICK i \in DOMAIN groupsRows : groupsRows' = [groupsRows EXCEPT ![i].listed = FALSE]
  BY DEF Groups!Forget
<1>2. UNCHANGED <<starts, cut, typing>> /\ ToldOfPrompt(i) /\ RowsShape
  BY DEF Groups!Forget, GroupsInv
<1>3. groupsRows' = [groupsRows EXCEPT ![i] =
            [start |-> groupsRows[i].start, at |-> groupsRows[i].at, tool |-> groupsRows[i].tool, number |-> groupsRows[i].number,
             line |-> groupsRows[i].line, asked |-> groupsRows[i].asked, listed |-> FALSE]]
  BY <1>1, <1>2, RowForgotten
<1>4. groupsRows[i].asked \in Nat
  BY <1>2 DEF ToldOfPrompt
<1>5. /\ RowsShape' /\ SameRows /\ groupsRows'[i].asked = groupsRows[i].asked
      /\ \A j \in DOMAIN groupsRows \ {i} : groupsRows'[j] = groupsRows[j]
  <2> PICK no : no = FALSE
    OBVIOUS
  <2>1. no => groupsRows[i].listed
    OBVIOUS
  <2> QED BY <1>3, <1>4, <2>1, OneRowSet
<1>6. ASSUME NEW j \in DOMAIN groupsRows PROVE ToldOfPrompt(j)'
  <2>1. ToldOfPrompt(j) /\ SameRow(j) /\ groupsRows'[j].asked = groupsRows[j].asked
    BY <1>5 DEF GroupsInv, SameRows
  <2> QED BY <1>2, <2>1, ToldStays
<1> QED BY <1>2, <1>5, <1>6, RestStays DEF GroupsInv

LEMMA GroupBegins ==
  ASSUME GroupsInv, NEW s \in GroupStarts, Groups!StartGroup(s) \/ Groups!AddToGroup(s)
  PROVE  GroupsInv'
<1>1. CASE Groups!StartGroup(s)
  <2>1. PICK q \in Requests : starts' = [starts EXCEPT ![s] =
              [members |-> q.members, prompt |-> q.prompt, adds |-> FALSE, at |-> 1,
               pc |-> IF q.members = <<>> THEN "failed" ELSE "member"]]
    BY <1>1 DEF Groups!StartGroup
  <2>2. UNCHANGED <<groupsRows, cut, typing>> /\ starts[s].pc = "free"
    BY <1>1 DEF Groups!StartGroup, Groups!At
  <2> PICK members : members = q.members
    OBVIOUS
  <2> PICK prompt : prompt = q.prompt
    OBVIOUS
  <2> PICK pc : pc = IF q.members = <<>> THEN "failed" ELSE "member"
    OBVIOUS
  <2> PICK no : no = FALSE
    OBVIOUS
  <2>3. members \in Seq(AMember) /\ prompt \in BOOLEAN
    BY GroupBounds
  <2>4. pc \in {"member", "failed"} /\ (pc = "member" => Len(members) >= 1)
    BY <2>3, EmptySeq
  <2>5. starts' = [starts EXCEPT ![s] = [members |-> members, prompt |-> prompt, adds |-> no, at |-> 1, pc |-> pc]]
    BY <2>1
  <2>6. no \in BOOLEAN
    OBVIOUS
  <2> QED BY ONLY GroupsInv, s \in GroupStarts, <2>2, <2>3, <2>4, <2>5, <2>6, CommandStarts
<1>2. CASE Groups!AddToGroup(s)
  <2>1. PICK q \in Requests : \E k \in 1..2 :
            /\ k \in DOMAIN q.members
            /\ starts' = [starts EXCEPT ![s] =
                [members |-> <<[q.members[k] EXCEPT !.chosen = {}]>>, prompt |-> q.prompt, adds |-> TRUE,
                 at |-> 1, pc |-> "member"]]
    BY <1>2 DEF Groups!AddToGroup
  <2>2. PICK k \in DOMAIN q.members : starts' = [starts EXCEPT ![s] =
                [members |-> <<[q.members[k] EXCEPT !.chosen = {}]>>, prompt |-> q.prompt, adds |-> TRUE,
                 at |-> 1, pc |-> "member"]]
    BY <2>1
  <2>3. UNCHANGED <<groupsRows, cut, typing>> /\ starts[s].pc = "free"
    BY <1>2 DEF Groups!AddToGroup, Groups!At
  <2> PICK m : m = [q.members[k] EXCEPT !.chosen = {}]
    OBVIOUS
  <2> PICK members : members = <<m>>
    OBVIOUS
  <2> PICK prompt : prompt = q.prompt
    OBVIOUS
  <2> PICK pc : pc = "member"
    OBVIOUS
  <2> PICK yes : yes = TRUE
    OBVIOUS
  <2>4. q.members[k] \in AMember /\ prompt \in BOOLEAN
    BY GroupBounds, ElementOfSeq, LenProperties
  <2>5. m \in AMember
    BY <2>4 DEF AMember
  <2>6. members \in Seq(AMember) /\ Len(members) = 1
    BY <2>5
  <2>7. starts' = [starts EXCEPT ![s] = [members |-> members, prompt |-> prompt, adds |-> yes, at |-> 1, pc |-> pc]]
    BY <2>2
  <2>8. pc \in {"member", "failed"} /\ (pc = "member" => Len(members) >= 1) /\ yes \in BOOLEAN
    BY <2>6
  <2> QED BY ONLY GroupsInv, s \in GroupStarts, <2>3, <2>4, <2>6, <2>7, <2>8, CommandStarts
<1> QED BY <1>1, <1>2

LEMMA MemberStarts ==
  ASSUME GroupsInv, NEW s \in GroupStarts, Groups!StartSession(s) \/ Groups!CutCheckout(s) \/ Groups!SpawnFails(s) \/ Groups!SpawnTool(s)
  PROVE  GroupsInv'
<1>1. StartsShape /\ StartShape(s) /\ starts[s].pc \in {"member", "cut"}
  BY DEF GroupsInv, StartsShape, Groups!StartSession, Groups!CutCheckout, Groups!SpawnFails,
     Groups!SpawnTool, Groups!At
<1> PICK n : n = Len(starts[s].members)
  OBVIOUS
<1>2. n \in Nat /\ starts[s].at \in 1..n
  BY <1>1, LenProperties DEF StartShape
<1>3. Groups!Member(s) \in AMember
  BY <1>1, <1>2, ElementOfSeq DEF Groups!Member, StartShape
<1>4. CASE Groups!CutCheckout(s) \/ Groups!SpawnFails(s) \/ (Groups!StartSession(s) /\ Groups!Fails(s) /\ UNCHANGED <<groupsRows, cut>>)
  <2>1. PICK pc : /\ Groups!Goes(s, pc) /\ UNCHANGED <<groupsRows, typing>>
                  /\ \/ pc = "cut" /\ starts[s].pc = "member" /\ cut' = cut \union {Groups!Here(s)}
                     \/ pc = "failed" /\ cut' = cut
    <3>1. CASE Groups!CutCheckout(s) /\ Groups!Goes(s, "cut") /\ cut' = cut \union {Groups!Here(s)}
      BY <3>1 DEF Groups!CutCheckout, Groups!At
    <3>2. CASE Groups!CutCheckout(s) /\ Groups!Goes(s, "failed") /\ cut' = cut
      BY <3>2 DEF Groups!CutCheckout
    <3>3. CASE Groups!SpawnFails(s)
      BY <3>3 DEF Groups!SpawnFails, Groups!Fails
    <3>4. CASE Groups!StartSession(s) /\ Groups!Fails(s) /\ UNCHANGED <<groupsRows, cut>>
      BY <3>4 DEF Groups!StartSession, Groups!Fails
    <3> QED BY <1>4, <3>1, <3>2, <3>3, <3>4 DEF Groups!CutCheckout, Groups!Fails
  <2>2. GoesOn(s, starts[s].at, pc)
    BY <1>1, <2>1, GoesTo
  <2> QED BY <1>1, <2>1, <2>2, CommandMoves
<1>5. CASE Groups!StartSession(s) /\ Groups!NextMember(s) /\ cut' = cut \union {Groups!Here(s)}
           /\ groupsRows' = Append(groupsRows, Groups!Row(s, <<>>, IF starts[s].prompt THEN 1 ELSE 0))
  <2> PICK pc : pc = IF starts[s].at = n THEN "done" ELSE "member"
    OBVIOUS
  <2> PICK asked : asked = IF starts[s].prompt THEN 1 ELSE 0
    OBVIOUS
  <2> PICK a : a = starts[s].at + 1
    OBVIOUS
  <2>1. GoesOn(s, a, pc) /\ pc \in {"done", "member"}
    BY <1>1, <1>5, NextTo
  <2>2. StartsShape'
    BY <1>1, <1>2, <2>1, ShapeGoesOn
  <2>3. Groups!Occurrences(<<>>, "prompt") = 0
    <3>1. {k \in DOMAIN <<>> : <<>>[k] = "prompt"} = {}
      OBVIOUS
    <3> QED BY <3>1, FS_EmptySet, GroupsCount DEF Groups!Occurrences
  <2>4. asked \in Nat /\ asked + Groups!Occurrences(<<>>, "prompt") = Due(s)
    BY <2>3 DEF Due
  <2>5. Len(groupsRows) < MaxRows /\ UNCHANGED typing /\ groupsRows' = Append(groupsRows, Groups!Row(s, <<>>, asked))
    BY <1>5 DEF Groups!StartSession
  <2> PICK line : line = <<>>
    OBVIOUS
  <2>6. Groups!Occurrences(line, "prompt") \in Nat /\ asked + Groups!Occurrences(line, "prompt") = Due(s)
        /\ groupsRows' = Append(groupsRows, Groups!Row(s, line, asked)) /\ cut' \in {cut, cut \union {Groups!Here(s)}} /\ a = starts[s].at + 1
    BY <1>5, <2>3, <2>4, <2>5
  <2> QED BY ONLY GroupsInv, s \in GroupStarts, <1>1, <2>1, <2>2, <2>4, <2>5, <2>6, RowComes
<1>6. CASE Groups!SpawnTool(s)
  <2>1. Groups!Goes(s, "row") /\ Len(groupsRows) < MaxRows /\ groupsRows' = Append(groupsRows, Groups!Row(s, Groups!Line(s), 0)) /\ UNCHANGED <<cut, typing>>
    BY <1>6 DEF Groups!SpawnTool
  <2>2. GoesOn(s, starts[s].at, "row")
    BY <1>1, <2>1, GoesTo
  <2>3. StartsShape'
    BY <1>1, <1>2, <2>2, ShapeGoesOn
  <2> PICK line : line = Groups!Line(s)
    OBVIOUS
  <2>4. Groups!Occurrences(line, "prompt") = IF Groups!Carries(s) /\ ~Groups!Member(s).app THEN 1 ELSE 0
    BY <1>3, LineAsks
  <2>5. Groups!Occurrences(line, "prompt") \in Nat
    BY <2>4
  <2>6. groupsRows' = Append(groupsRows, Groups!Row(s, line, 0)) /\ cut' \in {cut, cut \union {Groups!Here(s)}}
    BY <2>1
  <2> PICK a : a = starts[s].at
    OBVIOUS
  <2> PICK pc : pc = "row"
    OBVIOUS
  <2> PICK asked : asked = 0
    OBVIOUS
  <2>7. GoesOn(s, a, pc) /\ a = starts[s].at /\ pc = "row" /\ asked = 0 /\ asked \in Nat /\ groupsRows' = Append(groupsRows, Groups!Row(s, line, asked))
    BY <2>2, <2>6
  <2> QED BY ONLY GroupsInv, s \in GroupStarts, <1>1, <2>1, <2>3, <2>4, <2>5, <2>6, <2>7, RowComes
<1> QED BY <1>4, <1>5, <1>6 DEF Groups!StartSession

LEMMA MemberAsked ==
  ASSUME GroupsInv, NEW s \in GroupStarts, Groups!AskByProtocol(s) \/ Groups!HandOver(s)
  PROVE  GroupsInv'
<1>1. StartsShape /\ StartShape(s) /\ starts[s].pc = "row"
  BY DEF GroupsInv, StartsShape, Groups!AskByProtocol, Groups!HandOver, Groups!At
<1>2. CASE Groups!Fails(s) /\ UNCHANGED <<groupsRows, typing, cut>>
  <2>1. GoesOn(s, starts[s].at, "failed")
    BY <1>1, <1>2, GoesTo DEF Groups!Fails
  <2> QED BY <1>1, <1>2, <2>1, CommandMoves
<1>3. ASSUME NEW i \in Groups!Of(s), groupsRows[i].at = starts[s].at
      PROVE  /\ i \in DOMAIN groupsRows /\ groupsRows[i].start = s /\ groupsRows[i].asked = 0 /\ i \notin typing /\ InLine(i) \in Nat
             /\ InLine(i) = IF Groups!Carries(s) /\ ~Groups!Member(s).app THEN 1 ELSE 0
  <2>1. i \in DOMAIN groupsRows /\ groupsRows[i].start = s /\ ToldOfPrompt(i) /\ Current(i)
    BY <1>3 DEF Groups!Of, GroupsInv, Current
  <2> QED BY <1>1, <2>1 DEF ToldOfPrompt
<1>4. ASSUME NEW i \in Groups!Of(s), groupsRows[i].at = starts[s].at, Groups!AskByProtocol(s), Groups!NextMember(s),
             groupsRows' = [groupsRows EXCEPT ![i].asked = @ + 1]
      PROVE  GroupsInv'
  <2>1. UNCHANGED <<cut, typing>> /\ RowsShape /\ Groups!Member(s).app /\ Groups!Carries(s)
    BY <1>4 DEF Groups!AskByProtocol, GroupsInv
  <2>2. i \in DOMAIN groupsRows /\ groupsRows[i].asked = 0 /\ i \notin typing /\ InLine(i) = 0 /\ Due(s) = 1
    BY <1>3, <1>4, <2>1 DEF Due, Groups!Carries
  <2>3. groupsRows' = [groupsRows EXCEPT ![i] =
            [start |-> groupsRows[i].start, at |-> groupsRows[i].at, tool |-> groupsRows[i].tool, number |-> groupsRows[i].number,
             line |-> groupsRows[i].line, asked |-> groupsRows[i].asked + 1, listed |-> groupsRows[i].listed]]
    BY <1>4, <2>1, <2>2, RowAsked
  <2>4. /\ RowsShape' /\ SameRows /\ groupsRows'[i].asked = 1
        /\ \A j \in DOMAIN groupsRows \ {i} : groupsRows'[j] = groupsRows[j]
    <3> PICK asked : asked = groupsRows[i].asked + 1
      OBVIOUS
    <3> PICK listed : listed = groupsRows[i].listed
      OBVIOUS
    <3>1. asked = 1 /\ asked \in Nat /\ i \in DOMAIN groupsRows
      BY <2>2
    <3>2. listed => groupsRows[i].listed
      OBVIOUS
    <3>3. groupsRows' = [groupsRows EXCEPT ![i] =
            [start |-> groupsRows[i].start, at |-> groupsRows[i].at, tool |-> groupsRows[i].tool, number |-> groupsRows[i].number,
             line |-> groupsRows[i].line, asked |-> asked, listed |-> listed]]
      BY <2>3
    <3>4. RowsShape' /\ SameRows /\ groupsRows'[i].asked = asked /\ \A j \in DOMAIN groupsRows \ {i} : groupsRows'[j] = groupsRows[j]
      BY ONLY GroupsInv, <3>1, <3>2, <3>3, OneRowSet
    <3> QED BY <3>1, <3>4
  <2>5. Groups!Pending(i)' = 0 /\ typing' \subseteq DOMAIN groupsRows
    BY <2>1, <2>2 DEF Groups!Pending, GroupsInv
  <2>6. groupsRows'[i].asked \in Nat /\ groupsRows'[i].asked + InLine(i) + Groups!Pending(i)' = Due(s)
    BY <2>2, <2>4, <2>5
  <2>7. \A j \in DOMAIN groupsRows \ {i} : groupsRows'[j].asked = groupsRows[j].asked /\ (j \in typing' <=> j \in typing)
    BY <2>1, <2>4
  <2> QED BY ONLY GroupsInv, s \in GroupStarts, <1>1, <1>4, <2>1, <2>4, <2>5, <2>6, <2>7, RowDone
<1>5. ASSUME NEW i \in Groups!Of(s), groupsRows[i].at = starts[s].at, Groups!HandOver(s), Groups!NextMember(s),
             typing' = IF Groups!Types(s) /\ groupsRows[i].listed THEN typing \union {i} ELSE typing,
             ~(Groups!Types(s) /\ ~groupsRows[i].listed)
      PROVE  GroupsInv'
  <2>1. UNCHANGED <<groupsRows, cut>> /\ RowsShape /\ ~(Groups!Member(s).app /\ Groups!Carries(s))
    BY <1>5 DEF Groups!HandOver, GroupsInv
  <2>2. i \in DOMAIN groupsRows /\ groupsRows[i].asked = 0 /\ i \notin typing /\ InLine(i) \in Nat
        /\ InLine(i) = IF Groups!Carries(s) /\ ~Groups!Member(s).app THEN 1 ELSE 0
    BY <1>3, <1>5
  <2>3. RowsShape' /\ SameRows
    BY <2>1 DEF RowsShape, RowShape, SameRows, SameRow
  <2>4. typing' = IF Groups!Types(s) THEN typing \union {i} ELSE typing
    BY <1>5
  <2>5. Groups!Pending(i)' = IF Groups!Types(s) THEN 1 ELSE 0
    BY <2>2, <2>4 DEF Groups!Pending
  <2>6. InLine(i) + Groups!Pending(i)' = Due(s)
    <3>1. InLine(i) = IF Groups!Carries(s) THEN 1 ELSE 0
      BY <2>1, <2>2
    <3>2. CASE Groups!OnCommandLine(s)
      BY <2>5, <3>1, <3>2 DEF Groups!Types, Groups!Carries, Due
    <3>3. CASE ~Groups!OnCommandLine(s)
      BY <2>5, <3>1, <3>3 DEF Groups!Types, Groups!Carries, Due
    <3> QED BY <3>2, <3>3
  <2>7. groupsRows'[i].asked \in Nat /\ groupsRows'[i].asked + InLine(i) + Groups!Pending(i)' = Due(s)
    <3>1. Groups!Pending(i)' \in Nat /\ groupsRows'[i].asked = 0
      BY <2>1, <2>2, <2>5
    <3> QED BY <2>2, <2>6, <3>1
  <2>8. \A j \in DOMAIN groupsRows \ {i} : groupsRows'[j].asked = groupsRows[j].asked /\ (j \in typing' <=> j \in typing)
    BY <2>1, <2>4
  <2>9. typing' \subseteq DOMAIN groupsRows
    BY <2>2, <2>4 DEF GroupsInv
  <2> QED BY ONLY GroupsInv, s \in GroupStarts, <1>1, <1>5, <2>1, <2>3, <2>7, <2>8, <2>9, RowDone
<1>6. CASE Groups!AskByProtocol(s)
  <2>1. UNCHANGED <<cut, typing>>
    BY <1>6 DEF Groups!AskByProtocol
  <2>2. PICK i \in DOMAIN groupsRows :
           /\ groupsRows[i].start = s /\ groupsRows[i].at = starts[s].at
           /\ \/ groupsRows' = [groupsRows EXCEPT ![i].asked = @ + 1] /\ Groups!NextMember(s)
              \/ UNCHANGED groupsRows /\ Groups!Fails(s)
    BY <1>6 DEF Groups!AskByProtocol
  <2>3. i \in Groups!Of(s)
    BY <2>2 DEF Groups!Of
  <2> QED BY <1>2, <1>4, <1>6, <2>1, <2>2, <2>3
<1>7. CASE Groups!HandOver(s)
  <2>1. UNCHANGED <<groupsRows, cut>>
    BY <1>7 DEF Groups!HandOver
  <2>2. PICK i \in DOMAIN groupsRows :
           /\ groupsRows[i].start = s /\ groupsRows[i].at = starts[s].at
           /\ typing' = IF Groups!Types(s) /\ groupsRows[i].listed THEN typing \union {i} ELSE typing
           /\ IF Groups!Types(s) /\ ~groupsRows[i].listed THEN Groups!Fails(s) ELSE Groups!NextMember(s)
    BY <1>7 DEF Groups!HandOver
  <2>3. i \in Groups!Of(s)
    BY <2>2 DEF Groups!Of
  <2>4. CASE Groups!Types(s) /\ ~groupsRows[i].listed
    <3>1. Groups!Fails(s) /\ UNCHANGED typing
      BY <2>2, <2>4
    <3> QED BY <1>2, <2>1, <3>1
  <2>5. CASE ~(Groups!Types(s) /\ ~groupsRows[i].listed)
    <3>1. Groups!NextMember(s)
      BY <2>2, <2>5
    <3> QED BY <1>5, <1>7, <2>2, <2>3, <2>5, <3>1
  <2> QED BY <2>4, <2>5
<1> QED BY <1>6, <1>7

LEMMA GroupsSteps == GroupsInv /\ [Groups!Next]_(Groups!vars) => GroupsInv'
<1> SUFFICES ASSUME GroupsInv, [Groups!Next]_(Groups!vars) PROVE GroupsInv'
  OBVIOUS
<1>1. CASE UNCHANGED Groups!vars
  <2>1. SameRows /\ RowsShape'
    BY <1>1 DEF Groups!vars, SameRows, SameRow, GroupsInv, RowsShape, RowShape
  <2>2. ASSUME NEW i \in DOMAIN groupsRows PROVE ToldOfPrompt(i)'
    <3>1. ToldOfPrompt(i) /\ SameRow(i) /\ UNCHANGED <<groupsRows, typing, starts>>
      BY <1>1, <2>1 DEF Groups!vars, GroupsInv, SameRows
    <3> QED BY <3>1, ToldStays
  <2> QED BY <1>1, <2>1, <2>2, RestStays DEF Groups!vars, GroupsInv
<1>2. CASE Groups!TypePrompt
  BY <1>2, PromptTyped
<1>3. CASE Groups!Forget
  BY <1>3, Forgets
<1>4. ASSUME NEW s \in GroupStarts, Groups!StartGroup(s) \/ Groups!AddToGroup(s) PROVE GroupsInv'
  BY <1>4, GroupBegins
<1>5. ASSUME NEW s \in GroupStarts, Groups!StartSession(s) \/ Groups!CutCheckout(s) \/ Groups!SpawnFails(s) \/ Groups!SpawnTool(s) PROVE GroupsInv'
  BY <1>5, MemberStarts
<1>6. ASSUME NEW s \in GroupStarts, Groups!AskByProtocol(s) \/ Groups!HandOver(s) PROVE GroupsInv'
  BY <1>6, MemberAsked
<1> QED BY <1>1, <1>2, <1>3, <1>4, <1>5, <1>6 DEF Groups!Next

THEOREM GroupsHold == Groups!Spec => [](Groups!AskedOnce /\ Groups!NumbersTellApart /\ Groups!FailureStopsTheRest)
<1>1. GroupsInv => Groups!NumbersTellApart
  BY DEF GroupsInv
<1> QED BY <1>1, GroupsStarts, GroupsSteps, GroupsSays, PTL DEF Groups!Spec

(* ---- conversations that are read again ---- *)

\* What a tool writes of a conversation, and a window that reads it again.
Rollouts == INSTANCE Rollouts WITH
    Limit <- LongOutput, file <- rolloutsFile

\* A reading of the first n blocks, one after another.
Reads(g, f, blocks, n) ==
    g = [k \in 0..n |-> IF k = 0 THEN Rollouts!Unread ELSE Rollouts!fold(f, g[k - 1], blocks[k])]

\* There is one, for any number of them.
LEMMA ReadingIsThere ==
  ASSUME NEW f, NEW blocks, NEW N \in Nat
  PROVE  \E g : Reads(g, f, blocks, N)
<1> DEFINE Stuck == {n \in Nat : ~ \E g : Reads(g, f, blocks, n)}
<1> SUFFICES ASSUME Stuck # {} PROVE FALSE
  OBVIOUS
<1>1. PICK m \in Stuck : \A j \in Stuck : m <= j
  <2>1. Stuck \in SUBSET Nat
    OBVIOUS
  <2> HIDE DEF Stuck
  <2> QED BY <2>1, FirstOf
<1>2. CASE m = 0
  <2> DEFINE g == [k \in 0..m |-> Rollouts!Unread]
  <2>1. Reads(g, f, blocks, m)
    BY <1>2 DEF Reads
  <2> QED BY <2>1
<1>3. CASE m # 0
  <2>1. m \in Nat /\ m - 1 \in Nat /\ m - 1 \notin Stuck
    BY <1>1, <1>3
  <2>2. PICK h : Reads(h, f, blocks, m - 1)
    BY <2>1
  <2> DEFINE g == [k \in 0..m |-> IF k = m THEN Rollouts!fold(f, h[m - 1], blocks[m]) ELSE h[k]]
  <2>3. \A k \in 0..(m - 1) : g[k] = h[k]
    BY <2>1
  <2>4. ASSUME NEW k \in 0..m
        PROVE  g[k] = IF k = 0 THEN Rollouts!Unread ELSE Rollouts!fold(f, g[k - 1], blocks[k])
    <3>1. CASE k = m
      <4>1. g[k] = Rollouts!fold(f, h[m - 1], blocks[m]) /\ m - 1 \in 0..(m - 1) /\ k # 0
        BY <1>3, <2>1, <3>1
      <4>2. g[m - 1] = h[m - 1]
        BY <2>3, <4>1
      <4> HIDE DEF g
      <4> QED BY <3>1, <4>1, <4>2
    <3>2. CASE k # m
      <4>1. k \in 0..(m - 1) /\ (k # 0 => k - 1 \in 0..(m - 1))
        BY <2>1, <3>2
      <4>2. g[k] = h[k] /\ (k # 0 => g[k - 1] = h[k - 1])
        BY <2>3, <4>1
      <4>3. h[k] = IF k = 0 THEN Rollouts!Unread ELSE Rollouts!fold(f, h[k - 1], blocks[k])
        BY <2>2, <4>1 DEF Reads
      <4> HIDE DEF g
      <4> QED BY <4>2, <4>3
    <3> QED BY <3>1, <3>2
  <2>5. g = [k \in 0..m |-> g[k]]
    OBVIOUS
  <2> HIDE DEF g
  <2>6. Reads(g, f, blocks, m)
    BY <2>4, <2>5 DEF Reads
  <2> QED BY <2>6
<1> QED BY <1>2, <1>3

\* Two readings agree as far as their blocks do.
LEMMA ReadingsAgree ==
  ASSUME NEW f, NEW a, NEW b, NEW m \in Nat, NEW n \in Nat, m <= n,
         NEW g, NEW h, Reads(g, f, a, m), Reads(h, f, b, n),
         \A k \in 1..m : a[k] = b[k]
  PROVE  \A k \in 0..m : g[k] = h[k]
<1> DEFINE Parted == {k \in 0..m : g[k] # h[k]}
<1> SUFFICES ASSUME Parted # {} PROVE FALSE
  OBVIOUS
<1>1. PICK k \in Parted : \A j \in Parted : k <= j
  <2>1. Parted \in SUBSET Nat
    OBVIOUS
  <2> HIDE DEF Parted
  <2> QED BY <2>1, FirstOf
<1>2. k \in 0..m /\ k \in 0..n /\ g[k] # h[k]
  BY <1>1
<1>3. /\ g[k] = IF k = 0 THEN Rollouts!Unread ELSE Rollouts!fold(f, g[k - 1], a[k])
      /\ h[k] = IF k = 0 THEN Rollouts!Unread ELSE Rollouts!fold(f, h[k - 1], b[k])
  BY <1>2 DEF Reads
<1>4. CASE k = 0
  BY <1>2, <1>3, <1>4
<1>5. CASE k # 0
  <2>1. k - 1 \in 0..m /\ k \in 1..m /\ k - 1 \notin Parted
    BY <1>1, <1>2, <1>5
  <2>2. g[k - 1] = h[k - 1] /\ a[k] = b[k]
    BY <2>1
  <2> QED BY <1>2, <1>3, <1>5, <2>2
<1> QED BY <1>4, <1>5

\* What the model computes is the end of a reading.
LEMMA AccumulatedIs ==
  ASSUME NEW f, NEW blocks, Len(blocks) \in Nat
  PROVE  \E h : Reads(h, f, blocks, Len(blocks)) /\ Rollouts!Accumulated(f, blocks) = h[Len(blocks)]
<1>1. PICK h : h = CHOOSE x : Reads(x, f, blocks, Len(blocks))
  OBVIOUS
<1>2. Reads(h, f, blocks, Len(blocks))
  BY <1>1, ReadingIsThere, Zenon
<1>3. h = CHOOSE x : x = [k \in 0..Len(blocks) |->
                           IF k = 0 THEN Rollouts!Unread ELSE Rollouts!fold(f, x[k - 1], blocks[k])]
  BY <1>1, Zenon DEF Reads
<1>4. Rollouts!Accumulated(f, blocks) = h[Len(blocks)]
  BY <1>3, Zenon DEF Rollouts!Accumulated
<1> QED BY <1>2, <1>4

\* A block that is written is folded after the others, and only that one.
LEMMA FoldsOne ==
  ASSUME NEW f, NEW S, NEW blocks \in Seq(S), NEW b \in S
  PROVE  Rollouts!Accumulated(f, Append(blocks, b)) = Rollouts!fold(f, Rollouts!Accumulated(f, blocks), b)
<1> PICK more : more = Append(blocks, b)
  OBVIOUS
<1> PICK n : n = Len(blocks)
  OBVIOUS
<1> PICK m : m = n + 1
  OBVIOUS
<1>1. n \in Nat /\ m \in Nat /\ n <= m /\ Len(more) = m /\ m \in 0..m /\ m # 0 /\ m - 1 = n /\ n \in 0..n
  OBVIOUS
<1>2. more[m] = b /\ \A k \in 1..n : blocks[k] = more[k]
  OBVIOUS
<1>3. PICK g : Reads(g, f, blocks, n) /\ Rollouts!Accumulated(f, blocks) = g[n]
  BY <1>1, AccumulatedIs, Zenon
<1>4. PICK h : Reads(h, f, more, m) /\ Rollouts!Accumulated(f, more) = h[m]
  BY <1>1, AccumulatedIs, Zenon
<1>5. \A k \in 0..n : g[k] = h[k]
  <2>1. n \in Nat /\ m \in Nat /\ n <= m /\ Reads(g, f, blocks, n) /\ Reads(h, f, more, m)
        /\ \A k \in 1..n : blocks[k] = more[k]
    BY <1>1, <1>2, <1>3, <1>4
  <2> QED BY ONLY <2>1, ReadingsAgree
<1>6. h[m] = Rollouts!fold(f, h[n], more[m])
  BY <1>1, <1>4 DEF Reads
<1> QED BY <1>1, <1>2, <1>3, <1>4, <1>5, <1>6

LEMMA FoldsNone == ASSUME NEW f PROVE Rollouts!Accumulated(f, <<>>) = Rollouts!Unread
<1>1. Len(<<>>) = 0 /\ 0 \in 0..0
  OBVIOUS
<1>2. PICK h : Reads(h, f, <<>>, 0) /\ Rollouts!Accumulated(f, <<>>) = h[0]
  BY <1>1, AccumulatedIs
<1> QED BY <1>1, <1>2 DEF Reads

ShownShape(row) ==
    row = [kind |-> row.kind, id |-> row.id, nth |-> row.nth, output |-> row.output,
           truncated |-> row.truncated, status |-> row.status]

\* What was folded so far is some rows and a count.
FoldShape(acc) ==
    /\ acc = [rows |-> acc.rows, named |-> acc.named]
    /\ \E R : acc.rows \in Seq(R)
    /\ \A k \in DOMAIN acc.rows : ShownShape(acc.rows[k])

\* Rows that only came to others, or had an answer put to them.
RowsGoOn(old, new) ==
    \A k \in DOMAIN old :
        Rollouts!SameRow(old[k], new[k]) /\ (old[k].kind # "tool" => new[k] = old[k])
Grows(old, new) == Len(old) <= Len(new) /\ RowsGoOn(old, new)

LEMMA PushedGrows ==
  ASSUME NEW acc, FoldShape(acc), NEW kind, NEW id
  PROVE  FoldShape(Rollouts!Pushed(acc, kind, id)) /\ Grows(acc.rows, Rollouts!Pushed(acc, kind, id).rows)
<1> PICK row : row = [kind |-> kind, id |-> id, nth |-> IF id = "none" THEN acc.named + 1 ELSE 0,
                      output |-> 0, truncated |-> FALSE, status |-> "ok"]
  OBVIOUS
<1> PICK old : old = acc.rows
  OBVIOUS
<1> PICK new : new = Append(old, row)
  OBVIOUS
<1>1. Rollouts!Pushed(acc, kind, id) = [rows |-> new, named |-> Rollouts!Named(acc, id)]
  BY DEF Rollouts!Pushed
<1>2. PICK R : old \in Seq(R)
  BY DEF FoldShape
<1>3. ShownShape(row)
  BY DEF ShownShape
<1>4. new \in Seq(R \union {row})
  <2>1. old \in Seq(R \union {row})
    BY <1>2
  <2> QED BY <2>1
<1>5. /\ Len(old) <= Len(new)
      /\ \A k \in DOMAIN old : k \in DOMAIN new /\ new[k] = old[k]
      /\ \A k \in DOMAIN new : k \in DOMAIN old \/ new[k] = row
  BY <1>2
<1>6. \A k \in DOMAIN new : ShownShape(new[k])
  <2>1. \A k \in DOMAIN old : ShownShape(old[k])
    BY DEF FoldShape
  <2> QED BY ONLY <2>1, <1>3, <1>5
<1>7. FoldShape([rows |-> new, named |-> Rollouts!Named(acc, id)])
  BY <1>4, <1>6 DEF FoldShape
<1>8. RowsGoOn(old, new)
  BY <1>5 DEF RowsGoOn, Rollouts!SameRow
<1> PICK after : after = [rows |-> new, named |-> Rollouts!Named(acc, id)]
  OBVIOUS
<1>9. FoldShape(after) /\ after.rows = new /\ after = Rollouts!Pushed(acc, kind, id)
  BY <1>1, <1>7
<1>10. Grows(old, new)
  BY <1>5, <1>8 DEF Grows
<1> QED BY <1>9, <1>10, Zenon

LEMMA AnsweredGrows ==
  ASSUME NEW acc, FoldShape(acc), NEW f, NEW b, Rollouts!Call(acc.rows, b.id) # 0,
         NEW after, after = [acc EXCEPT !.rows[Rollouts!Call(acc.rows, b.id)] = Rollouts!Answered(f, @, b)]
  PROVE  FoldShape(after) /\ Grows(acc.rows, after.rows)
<1> PICK old : old = acc.rows
  OBVIOUS
<1> PICK c : c = Rollouts!Call(old, b.id)
  OBVIOUS
<1>1. c \in DOMAIN old /\ old[c].kind = "tool"
  <2> DEFINE theirs == {k \in DOMAIN old : old[k].kind = "tool" /\ old[k].id = b.id}
  <2>1. theirs # {} /\ c = CHOOSE k \in theirs : \A j \in theirs : j <= k
    BY DEF Rollouts!Call
  <2>2. \E k \in theirs : \A j \in theirs : j <= k
    <3>1. Len(old) \in Nat /\ theirs \in SUBSET (1..Len(old))
      BY DEF FoldShape
    <3> HIDE DEF theirs
    <3> QED BY <2>1, <3>1, LastOf
  <2>3. c \in theirs
    <3> HIDE DEF theirs
    <3> QED BY <2>1, <2>2, Zenon
  <2> QED BY <2>3
<1> PICK row : row = Rollouts!Answered(f, old[c], b)
  OBVIOUS
<1>2. /\ ShownShape(row)
      /\ row.kind = old[c].kind /\ row.id = old[c].id /\ row.nth = old[c].nth
  <2> PICK r : r = old[c]
    OBVIOUS
  <2>1. r = [kind |-> r.kind, id |-> r.id, nth |-> r.nth, output |-> r.output,
             truncated |-> r.truncated, status |-> r.status]
    BY <1>1 DEF FoldShape, ShownShape
  <2> PICK cutShort : cutShort = (r.truncated \/ b.size > LongOutput)
    OBVIOUS
  <2> PICK went : went = IF b.failed /\ f = "claude" THEN "failed" ELSE r.status
    OBVIOUS
  <2>2. row = [r EXCEPT !.output = Rollouts!Shown(b.size), !.truncated = cutShort, !.status = went]
    BY DEF Rollouts!Answered
  <2>3. row = [kind |-> r.kind, id |-> r.id, nth |-> r.nth, output |-> Rollouts!Shown(b.size),
               truncated |-> cutShort, status |-> went]
    BY ONLY <2>1, <2>2
  <2> QED BY <2>3 DEF ShownShape
<1> PICK new : new = [old EXCEPT ![c] = row]
  OBVIOUS
<1>3. after = [rows |-> new, named |-> acc.named]
  <2>1. acc = [rows |-> old, named |-> acc.named]
    BY DEF FoldShape
  <2> QED BY <2>1
<1>4. PICK R : old \in Seq(R)
  BY DEF FoldShape
<1>5. /\ new \in Seq(R \union {row}) /\ Len(new) = Len(old) /\ DOMAIN new = DOMAIN old
      /\ \A k \in DOMAIN old : new[k] = IF k = c THEN row ELSE old[k]
  BY <1>1, <1>4
<1>6. \A k \in DOMAIN new : ShownShape(new[k])
  <2>1. \A k \in DOMAIN old : ShownShape(old[k])
    BY DEF FoldShape
  <2> QED BY ONLY <2>1, <1>2, <1>5
<1>7. FoldShape([rows |-> new, named |-> acc.named])
  BY <1>5, <1>6 DEF FoldShape
<1>8. RowsGoOn(old, new)
  BY <1>1, <1>2, <1>5 DEF RowsGoOn, Rollouts!SameRow
<1>9. Len(old) <= Len(new)
  BY <1>4, <1>5
<1>10. Grows(old, new)
  BY <1>8, <1>9 DEF Grows
<1>11. FoldShape(after) /\ after.rows = new
  BY <1>3, <1>7
<1> QED BY <1>10, <1>11, Zenon

\* Whatever a block is, in either format, the rows go on from those there were.
LEMMA FoldGrows ==
  ASSUME NEW f, NEW acc, FoldShape(acc), NEW b
  PROVE  FoldShape(Rollouts!fold(f, acc, b)) /\ Grows(acc.rows, Rollouts!fold(f, acc, b).rows)
<1>1. Grows(acc.rows, acc.rows)
  BY DEF FoldShape, Grows, RowsGoOn, Rollouts!SameRow
<1>2. \/ Rollouts!fold(f, acc, b) = acc
      \/ \E kind, id : Rollouts!fold(f, acc, b) = Rollouts!Pushed(acc, kind, id)
      \/ /\ Rollouts!Call(acc.rows, b.id) # 0
         /\ \E g : Rollouts!fold(f, acc, b)
                     = [acc EXCEPT !.rows[Rollouts!Call(acc.rows, b.id)] = Rollouts!Answered(g, @, b)]
  BY Zenon DEF Rollouts!fold, Rollouts!fold_claude, Rollouts!fold_codex
<1>3. CASE \E kind, id : Rollouts!fold(f, acc, b) = Rollouts!Pushed(acc, kind, id)
  BY <1>3, PushedGrows
<1>4. CASE /\ Rollouts!Call(acc.rows, b.id) # 0
           /\ \E g : Rollouts!fold(f, acc, b)
                       = [acc EXCEPT !.rows[Rollouts!Call(acc.rows, b.id)] = Rollouts!Answered(g, @, b)]
  BY <1>4, AnsweredGrows
<1> QED BY <1>1, <1>2, <1>3, <1>4

LEMMA GrowsOn ==
  ASSUME NEW a, NEW b, NEW c, \E R : a \in Seq(R), \E R : b \in Seq(R), \E R : c \in Seq(R),
         Grows(a, b), Grows(b, c)
  PROVE  Grows(a, c)
<1>1. /\ DOMAIN a = 1..Len(a) /\ Len(a) \in Nat /\ DOMAIN b = 1..Len(b) /\ Len(b) \in Nat /\ Len(c) \in Nat
      /\ Len(a) <= Len(b) /\ Len(b) <= Len(c)
  BY DEF Grows
<1> PICK m : m = Len(a)
  OBVIOUS
<1> PICK n : n = Len(b)
  OBVIOUS
<1>2. Len(a) <= Len(c)
  BY <1>1
<1>3. \A k \in DOMAIN a : k \in DOMAIN b
  BY <1>1
<1>4. RowsGoOn(a, c)
  <2>1. RowsGoOn(a, b) /\ RowsGoOn(b, c)
    BY DEF Grows
  <2> QED BY ONLY <1>3, <2>1 DEF RowsGoOn, Rollouts!SameRow
<1> QED BY <1>2, <1>4 DEF Grows

\* What the file folds into has shape, and grew out of what was shown.
ViewInv ==
    /\ rolloutsFile \in Seq(Rollouts!Written)
    /\ FoldShape(Rollouts!Accumulated(format, rolloutsFile))
    /\ view = [answer |-> view.answer, rows |-> view.rows] /\ \E R : view.rows \in Seq(R)
    /\ Grows(view.rows, Rollouts!Folded(format, rolloutsFile))

LEMMA ViewStarts == Rollouts!Init => ViewInv
<1> SUFFICES ASSUME Rollouts!Init PROVE ViewInv
  OBVIOUS
<1>1. /\ Rollouts!Accumulated(format, rolloutsFile) = Rollouts!Unread
      /\ rolloutsFile = <<>> /\ view = Rollouts!NotNamed
  BY FoldsNone DEF Rollouts!Init
<1>2. rolloutsFile \in Seq(Rollouts!Written)
  BY <1>1
<1>3. /\ Rollouts!Unread.rows = <<>>
      /\ Rollouts!Unread = [rows |-> Rollouts!Unread.rows, named |-> Rollouts!Unread.named]
  BY DEF Rollouts!Unread
<1>4. <<>> \in Seq({}) /\ DOMAIN <<>> = {} /\ Len(<<>>) = 0
  OBVIOUS
<1>5. FoldShape(Rollouts!Unread)
  BY <1>3, <1>4 DEF FoldShape
<1>6. /\ Rollouts!NotNamed = [answer |-> Rollouts!NotNamed.answer, rows |-> Rollouts!NotNamed.rows]
      /\ Rollouts!NotNamed.rows = <<>>
  BY DEF Rollouts!NotNamed
<1>7. Grows(<<>>, <<>>)
  BY <1>4 DEF Grows, RowsGoOn
<1>8. \E R : <<>> \in Seq(R)
  BY <1>4
<1>9. Rollouts!Folded(format, rolloutsFile) = <<>>
  BY <1>1, <1>3 DEF Rollouts!Folded
<1>10. view.rows = <<>> /\ view = [answer |-> view.answer, rows |-> view.rows]
  BY <1>1, <1>6
<1> QED BY <1>1, <1>2, <1>5, <1>7, <1>8, <1>9, <1>10 DEF ViewInv

Keeps == Grows(view.rows, view'.rows)

LEMMA ViewSteps == ViewInv /\ [Rollouts!Next]_(Rollouts!vars) => ViewInv' /\ Keeps
<1> SUFFICES ASSUME ViewInv, [Rollouts!Next]_(Rollouts!vars) PROVE ViewInv' /\ Keeps
  OBVIOUS
<1>0. Grows(view.rows, view.rows)
  BY DEF ViewInv, Grows, RowsGoOn, Rollouts!SameRow
<1> PICK now : now = Rollouts!Accumulated(format, rolloutsFile)
  OBVIOUS
<1>1. FoldShape(now) /\ Rollouts!Folded(format, rolloutsFile) = now.rows /\ Grows(view.rows, now.rows)
  BY DEF ViewInv, Rollouts!Folded
<1>2. CASE UNCHANGED <<format, rolloutsFile, view>>
  BY <1>0, <1>2 DEF ViewInv, Keeps, Rollouts!Folded
<1>3. CASE Rollouts!WriteLine
  <2>1. PICK b \in Rollouts!Written : rolloutsFile' = Append(rolloutsFile, b)
    BY <1>3 DEF Rollouts!WriteLine
  <2>2. /\ format' = format /\ view' = view
        /\ rolloutsFile \in Seq(Rollouts!Written)
        /\ rolloutsFile' \in Seq(Rollouts!Written)
    BY <1>3, <2>1 DEF Rollouts!WriteLine, ViewInv
  <2> PICK after : after = Rollouts!fold(format, now, b)
    OBVIOUS
  <2>3. Rollouts!Accumulated(format', rolloutsFile') = after
    BY <2>1, <2>2, FoldsOne
  <2>4. FoldShape(after) /\ Grows(now.rows, after.rows)
    BY <1>1, FoldGrows
  <2>5. /\ \E R : view.rows \in Seq(R)
        /\ \E R : now.rows \in Seq(R)
        /\ \E R : after.rows \in Seq(R)
    BY <1>1, <2>4 DEF ViewInv, FoldShape
  <2>6. Grows(view.rows, after.rows)
    BY ONLY <1>1, <2>4, <2>5, GrowsOn
  <2>7. Rollouts!Folded(format', rolloutsFile') = after.rows
    BY <2>3 DEF Rollouts!Folded
  <2> QED BY <1>0, <2>2, <2>3, <2>4, <2>6, <2>7 DEF ViewInv, Keeps
<1>4. CASE Rollouts!transcript
  <2>1. format' = format /\ rolloutsFile' = rolloutsFile /\ Rollouts!Folded(format', rolloutsFile') = now.rows
    BY <1>1, <1>4 DEF Rollouts!transcript, Rollouts!Folded
  <2>2. CASE view' = [view EXCEPT !.answer = "error"]
    <3>1. view' = [answer |-> "error", rows |-> view.rows]
      BY <2>2 DEF ViewInv
    <3>2. view'.rows = view.rows
      BY <3>1
    <3> QED BY <1>0, <1>1, <2>1, <3>1, <3>2 DEF ViewInv, Keeps
  <2>3. CASE view' = [answer |-> "rows", rows |-> Rollouts!Folded(format, rolloutsFile)]
    <3>1. view' = [answer |-> "rows", rows |-> now.rows]
      BY <1>1, <2>3
    <3>2. view'.rows = now.rows /\ view' = [answer |-> view'.answer, rows |-> view'.rows]
      BY <3>1
    <3>3. Grows(now.rows, now.rows) /\ \E R : now.rows \in Seq(R)
      BY <1>1 DEF FoldShape, Grows, RowsGoOn, Rollouts!SameRow
    <3> QED BY <1>1, <2>1, <3>2, <3>3 DEF ViewInv, Keeps
  <2> QED BY <1>4, <2>2, <2>3 DEF Rollouts!transcript
<1>5. CASE Rollouts!WritesPart
  BY <1>2, <1>5 DEF Rollouts!WritesPart
<1> QED BY <1>2, <1>3, <1>4, <1>5 DEF Rollouts!Next, Rollouts!vars

\* hosted/agent.rs:157: however much is written between two readings, and whatever a
\* torn line does to them, no row goes away, and rows keep their places and names.
THEOREM NothingShownIsLost == Rollouts!Spec => Rollouts!ReadsOn
<1>1. ViewInv /\ [Rollouts!Next]_(Rollouts!vars)
      => [/\ Len(view.rows) <= Len(view'.rows)
          /\ \A k \in DOMAIN view.rows :
                /\ Rollouts!SameRow(view.rows[k], view'.rows[k])
                /\ view.rows[k].kind # "tool" => view'.rows[k] = view.rows[k]]_(Rollouts!vars)
  BY ViewSteps DEF Keeps, Grows, RowsGoOn
<1>2. ViewInv /\ [Rollouts!Next]_(Rollouts!vars) => ViewInv'
  BY ViewSteps
<1> QED BY <1>1, <1>2, ViewStarts, PTL DEF Rollouts!Spec, Rollouts!ReadsOn

(* ---- tools in a terminal ---- *)

\* Bytes that pass through a ring, to a window that asks for them.
Terminal == INSTANCE Terminal WITH
    MaxBytes <- RingBytes, alive <- terminalAlive, stream <- terminalStream,
    held <- terminalHeld, typed <- terminalTyped

\* hosted/session.rs:486: a tool somebody stopped is not made one that exited by the
\* watcher that comes second.
THEOREM StoppedIsNotUndone == Terminal!Spec => Terminal!StoppedStaysEnded
<1>1. [Terminal!Next]_(Terminal!vars) => [status = "Ended" => status' = "Ended"]_(Terminal!vars)
  <2> SUFFICES ASSUME Terminal!Next, status = "Ended" PROVE status' = "Ended"
    OBVIOUS
  <2>1. CASE Terminal!Watch
    BY <2>1 DEF Terminal!Watch, Terminal!Outcome
  <2>2. CASE Terminal!Killed
    BY <2>2 DEF Terminal!Killed
  <2>3. CASE UNCHANGED status
    BY <2>3
  <2> QED BY <2>1, <2>2, <2>3 DEF Terminal!Next, Terminal!Write, Terminal!Exit, Terminal!Pump,
     Terminal!PumpNotes, Terminal!PumpEnds, Terminal!WatchNotes, Terminal!Kill, Terminal!Relays,
     Terminal!RelaysOn, Terminal!Read, Terminal!Reload, Terminal!Submit, Terminal!Enter
<1> QED BY <1>1, PTL DEF Terminal!Spec, Terminal!StoppedStaysEnded

(* ---- the settings ---- *)

\* Files that people and the program edit, and processes that load them.
Config == INSTANCE Config WITH
    UserTexts <- PersonTexts, ProjectTexts <- RepositoryTexts

\* A key a file says something readable of: its own section parses.
SectionParses(text, k) ==
    \A j \in Config!Keys :
        Config!SectionOf[j] = Config!SectionOf[k] => \A i \in Config!Assigned(text, j) : text[i].value # "bad"
SaysKey(text, k) == Config!IsToml(text) /\ Config!Assigned(text, k) # {} /\ SectionParses(text, k)
\* A project's file may set it: it is not one of those that only loosen.
MaySet(text, k) ==
    ~ \/ k = "permissions.allow"
      \/ (k = "worktree.enabled" /\ SaysKey(text, k) /\ Config!ValueAt(text, k) = "no")

\* The strongest layer of a key, of any files, variables and flags.
StrongestOf(u, p, e, f, k) ==
    CASE k \in DOMAIN f -> <<"flag", f[k]>>
      [] k \notin DOMAIN f /\ k \in DOMAIN e /\ e[k] # "bad" -> <<"env", e[k]>>
      [] OTHER -> IF SaysKey(p, k) /\ MaySet(p, k) THEN <<"project", Config!ValueAt(p, k)>>
                  ELSE IF SaysKey(u, k) THEN <<"user", Config!ValueAt(u, k)>>
                  ELSE <<"default", Config!Defaults[k]>>

LEMMA UnbrokenIs ==
  ASSUME NEW text, NEW k \in Config!Keys
  PROVE  Config!SectionOf[k] \notin Config!Broken(text) <=> SectionParses(text, k)
BY Zenon DEF Config!Broken, SectionParses

\* What is taken of a file is what it says readably, of a project's only what restricts.
LEMMA UserSays ==
  ASSUME NEW text, NEW k \in Config!Keys
  PROVE  /\ k \in DOMAIN Config!load_file(text, FALSE) <=> SaysKey(text, k)
         /\ SaysKey(text, k) => Config!load_file(text, FALSE)[k] = Config!ValueAt(text, k)
<1>1. CASE ~Config!IsToml(text)
  BY <1>1 DEF Config!load_file, Config!NoKeys, SaysKey
<1>2. CASE Config!IsToml(text)
  <2> DEFINE kept == {j \in Config!Keys : /\ Config!Assigned(text, j) # {}
                                          /\ Config!SectionOf[j] \notin Config!Broken(text)}
  <2>1. Config!load_file(text, FALSE) = [j \in kept |-> Config!ValueAt(text, j)]
    BY <1>2 DEF Config!load_file
  <2>2. k \in kept <=> SaysKey(text, k)
    BY <1>2, UnbrokenIs DEF SaysKey
  <2> HIDE DEF kept
  <2> QED BY <2>1, <2>2
<1> QED BY <1>1, <1>2

LEMMA ProjectSays ==
  ASSUME NEW text, NEW k \in Config!Keys
  PROVE  /\ k \in DOMAIN Config!load_file(text, TRUE) <=> SaysKey(text, k) /\ MaySet(text, k)
         /\ SaysKey(text, k) /\ MaySet(text, k) => Config!load_file(text, TRUE)[k] = Config!ValueAt(text, k)
<1>1. CASE ~Config!IsToml(text)
  BY <1>1 DEF Config!load_file, Config!NoKeys, SaysKey
<1>2. CASE Config!IsToml(text)
  <2> PICK table : table = Config!load_file(text, FALSE)
    OBVIOUS
  <2>1. Config!load_file(text, TRUE) = Config!Restricted(table)
    BY <1>2 DEF Config!load_file
  <2>2. /\ k \in DOMAIN table <=> SaysKey(text, k)
        /\ SaysKey(text, k) => table[k] = Config!ValueAt(text, k)
    BY UserSays
  <2> QED BY <2>1, <2>2 DEF Config!Restricted, MaySet
<1> QED BY <1>1, <1>2

LEMMA EnvSays ==
  ASSUME NEW e, NEW k
  PROVE  /\ k \in DOMAIN Config!env_layer(e) <=> k \in DOMAIN e /\ e[k] # "bad"
         /\ k \in DOMAIN e /\ e[k] # "bad" => Config!env_layer(e)[k] = e[k]
BY DEF Config!env_layer

\* The four layers laid over the defaults leave each key to the strongest.
LEMMA ResolvedIs ==
  ASSUME NEW e, NEW given, NEW k \in Config!Keys
  PROVE  LET s == StrongestOf(user, project, e, given, k)
         IN /\ Config!resolve(e, given).provenance[k] = s[1]
            /\ Config!resolve(e, given).config[k] = (IF k = "budget.max_steps" /\ s[2] = "0" THEN "1" ELSE s[2])
<1> PICK u : u = Config!load_file(user, FALSE)
  OBVIOUS
<1> PICK p : p = Config!load_file(project, TRUE)
  OBVIOUS
<1> PICK v : v = Config!env_layer(e)
  OBVIOUS
<1> PICK g : g = given
  OBVIOUS
<1> PICK c0 : c0 = Config!Defaults
  OBVIOUS
<1> PICK c1 : c1 = Config!merge(c0, u)
  OBVIOUS
<1> PICK c2 : c2 = Config!merge(c1, p)
  OBVIOUS
<1> PICK c3 : c3 = Config!merge(c2, v)
  OBVIOUS
<1> PICK c4 : c4 = Config!merge(c3, g)
  OBVIOUS
<1> PICK r0 : r0 = [j \in Config!Keys |-> "default"]
  OBVIOUS
<1> PICK r1 : r1 = Config!record(r0, u, "user")
  OBVIOUS
<1> PICK r2 : r2 = Config!record(r1, p, "project")
  OBVIOUS
<1> PICK r3 : r3 = Config!record(r2, v, "env")
  OBVIOUS
<1> PICK r4 : r4 = Config!record(r3, g, "flag")
  OBVIOUS
<1> PICK s : s = StrongestOf(user, project, e, given, k)
  OBVIOUS
<1>1. Config!resolve(e, given) = [config |-> Config!validate(c4), provenance |-> r4]
  BY DEF Config!resolve
<1>2. k \in DOMAIN c0 /\ k \in DOMAIN r0 /\ r0[k] = "default"
  BY DEF Config!Defaults
<1>3. /\ k \in DOMAIN c1 /\ c1[k] = IF k \in DOMAIN u THEN u[k] ELSE c0[k]
      /\ k \in DOMAIN r1 /\ r1[k] = IF k \in DOMAIN u THEN "user" ELSE r0[k]
  <2>1. c1 = Config!merge(c0, u) /\ r1 = Config!record(r0, u, "user")
    OBVIOUS
  <2> QED BY ONLY <1>2, <2>1 DEF Config!merge, Config!record
<1>4. /\ k \in DOMAIN c2 /\ c2[k] = IF k \in DOMAIN p THEN p[k] ELSE c1[k]
      /\ k \in DOMAIN r2 /\ r2[k] = IF k \in DOMAIN p THEN "project" ELSE r1[k]
  <2>1. c2 = Config!merge(c1, p) /\ r2 = Config!record(r1, p, "project")
    OBVIOUS
  <2> QED BY ONLY <1>3, <2>1 DEF Config!merge, Config!record
<1>5. /\ k \in DOMAIN c3 /\ c3[k] = IF k \in DOMAIN v THEN v[k] ELSE c2[k]
      /\ k \in DOMAIN r3 /\ r3[k] = IF k \in DOMAIN v THEN "env" ELSE r2[k]
  <2>1. c3 = Config!merge(c2, v) /\ r3 = Config!record(r2, v, "env")
    OBVIOUS
  <2> QED BY ONLY <1>4, <2>1 DEF Config!merge, Config!record
<1>6. /\ k \in DOMAIN c4 /\ c4[k] = IF k \in DOMAIN g THEN g[k] ELSE c3[k]
      /\ k \in DOMAIN r4 /\ r4[k] = IF k \in DOMAIN g THEN "flag" ELSE r3[k]
  <2>1. c4 = Config!merge(c3, g) /\ r4 = Config!record(r3, g, "flag")
    OBVIOUS
  <2> QED BY ONLY <1>5, <2>1 DEF Config!merge, Config!record
<1>7. s = <<r4[k], c4[k]>>
  <2>1. s = IF k \in DOMAIN g THEN <<"flag", g[k]>>
            ELSE IF k \in DOMAIN v THEN <<"env", v[k]>>
            ELSE IF k \in DOMAIN p THEN <<"project", p[k]>>
            ELSE IF k \in DOMAIN u THEN <<"user", u[k]>>
            ELSE <<"default", c0[k]>>
    <3>1. /\ k \in DOMAIN v <=> k \in DOMAIN e /\ e[k] # "bad"
          /\ k \in DOMAIN e /\ e[k] # "bad" => v[k] = e[k]
      BY EnvSays
    <3>2. /\ k \in DOMAIN p <=> SaysKey(project, k) /\ MaySet(project, k)
          /\ SaysKey(project, k) /\ MaySet(project, k) => p[k] = Config!ValueAt(project, k)
      BY ProjectSays
    <3>3. /\ k \in DOMAIN u <=> SaysKey(user, k)
          /\ SaysKey(user, k) => u[k] = Config!ValueAt(user, k)
      BY UserSays
    <3>4. s = StrongestOf(user, project, e, g, k) /\ c0 = Config!Defaults
      OBVIOUS
    <3> QED BY ONLY <3>1, <3>2, <3>3, <3>4 DEF StrongestOf
  <2> QED BY ONLY <1>2, <1>3, <1>4, <1>5, <1>6, <2>1
<1>8. Config!validate(c4)[k] = IF k = "budget.max_steps" /\ c4[k] = "0" THEN "1" ELSE c4[k]
  BY <1>6 DEF Config!validate
<1>9. s[1] = r4[k] /\ s[2] = c4[k]
  BY <1>7
<1>10. Config!resolve(e, given).provenance = r4 /\ Config!resolve(e, given).config = Config!validate(c4)
  BY <1>1
<1> QED BY <1>8, <1>9, <1>10

\* config/mod.rs:5: a section, variable or file that cannot be read costs nothing but
\* itself, and every key has the value and the name of the strongest layer that says it.
THEOREM SalvageStaysLocal == Config!Spec => Config!SalvageIsLocal
<1>1. [Config!Next]_(Config!vars)
      => [resolved' # resolved =>
            \A k \in Config!Keys : LET s == Config!Strongest(k)' IN
               /\ resolved'.provenance[k] = s[1]
               /\ resolved'.config[k] = (IF k = "budget.max_steps" /\ s[2] = "0" THEN "1" ELSE s[2])]_(Config!vars)
  <2> SUFFICES ASSUME Config!Next, resolved' # resolved, NEW k \in Config!Keys
               PROVE  LET s == Config!Strongest(k)' IN
                        /\ resolved'.provenance[k] = s[1]
                        /\ resolved'.config[k] = (IF k = "budget.max_steps" /\ s[2] = "0" THEN "1" ELSE s[2])
    OBVIOUS
  <2>1. Config!Load
    BY DEF Config!Next, Config!PersonEdits, Config!BeginEdit, Config!Truncates, Config!EndEdit,
       Config!Killed
  <2>2. resolved' = Config!resolve(env', flags') /\ user' = user /\ project' = project
    BY <2>1 DEF Config!Load
  <2>3. Config!Strongest(k)' = StrongestOf(user, project, env', flags', k)
    BY <2>2 DEF Config!Strongest, StrongestOf, SaysKey, SectionParses, MaySet
  <2> QED BY <2>2, <2>3, ResolvedIs
<1> QED BY <1>1, PTL DEF Config!Spec, Config!SalvageIsLocal
=============================================================================
