-------------------------------- MODULE Auth --------------------------------
(***************************************************************************)
(* Credentials: the file several processes share, and the token pairs a    *)
(* provider renews.  Processes sign in through a browser, store and forget *)
(* keys, and send requests that renew an expired pair first.  A process    *)
(* may be killed between any two system calls of a save.                   *)
(***************************************************************************)
EXTENDS Naturals, Sequences, FiniteSets, SequencesExt, FiniteSetTheorems, TLAPS

CONSTANTS
    Procs,         \* the axio processes that share a home directory
    Sessions,      \* those of them that send requests
    Tasks,         \* the requests a process can have in flight
    MaxPairs,      \* bound on the token pairs the issuer hands out
    MaxFiles,      \* bound on the files there are at once
    MaxSaves       \* bound on the saves begun

VARIABLES
    disk,          \* the contents of the files, by number
    auth,          \* which of them auth.json names; 0 is none
    temp,          \* which of them auth.json.tmp names
    save,          \* per process: the save in progress
    held,          \* per process: CodexProvider::tokens, 0 when it has none
    lock,          \* per process: the task that holds the write lock
    task,          \* per process and task: where the request is
    redeemable,    \* the refresh tokens the issuer accepts
    issued,        \* pairs handed out so far
    expired,       \* pairs whose access is within SKEW of its expiry
    port,          \* who listens on REDIRECT_PORT
    saves,         \* saves begun so far
    overlapped     \* two saves were ever in progress at once

vars == <<disk, auth, temp, save, held, lock, task, redeemable, issued, expired, port, saves, overlapped>>
tokenVars == <<held, lock, task, redeemable, issued, expired>>
fileVars == <<disk, auth, temp, save, saves, overlapped>>

Nobody == "nobody"
Key == 0           \* an API key, among the pairs a credential can be
Torn == MaxPairs + 1

\* Two providers are enough to see one entry lost to the other's save.
Providers == {"ollama", "codex"}
EmptyStore == [p \in Providers |-> {}]
Unreadable == [p \in Providers |-> {Torn}]

(* ---- the file ---- *)

Content(n) == IF n = 0 THEN EmptyStore ELSE disk[n]
Readable(n) == n # 0 /\ disk[n] # Unreadable
\* A save that does not carry over what the file held.
fresh_store == EmptyStore
\* read_store, as save uses it: a file that is absent or garbled is an empty one.
read_store == IF Readable(auth) THEN disk[auth] ELSE EmptyStore

NoSave == [pc |-> "none", store |-> EmptyStore, file |-> 0, then |-> "none"]
Saving(p) == save[p].pc # "none"

Overlaps(p) == overlapped' = (overlapped \/ \E q \in Procs \ {p} : Saving(q))

\* The whole of the store is written back, whatever it has become since.
WriteBack(p, store, next) ==
    /\ ~Saving(p) /\ saves < MaxSaves
    /\ save' = [save EXCEPT ![p] = [pc |-> "open", store |-> store, file |-> 0, then |-> next]]
    /\ saves' = saves + 1
BeginSave(p, provider, credential, next) ==
    /\ WriteBack(p, [read_store EXCEPT ![provider] = {credential}], next)
    /\ Overlaps(p)

\* The file system hands out a number that no name and no open file uses.
Unused == 1..MaxFiles \ ({auth, temp} \union {save[p].file : p \in Procs})

\* write_store: the temporary file is opened truncated, written, and renamed.
OpenTemp(p) ==
    /\ save[p].pc = "open"
    /\ temp' \in IF temp # 0 THEN {temp} ELSE {n \in Unused : \A m \in Unused : n <= m}
    /\ disk' = [disk EXCEPT ![temp'] = Unreadable]
    /\ save' = [save EXCEPT ![p].pc = "write", ![p].file = temp']
    /\ UNCHANGED <<auth, saves, overlapped, port>> /\ UNCHANGED tokenVars

WriteTemp(p) ==
    /\ save[p].pc = "write"
    /\ disk' = [disk EXCEPT ![save[p].file] = save[p].store]
    /\ save' = [save EXCEPT ![p].pc = "rename"]
    /\ UNCHANGED <<auth, temp, saves, overlapped, port>> /\ UNCHANGED tokenVars

\* Renaming fails when somebody else has renamed the file already.
Rename(p) ==
    /\ save[p].pc = "rename"
    /\ auth' = IF temp = 0 THEN auth ELSE temp
    /\ temp' = 0
    /\ save' = [save EXCEPT ![p].pc = "done", ![p].file = 0]
    /\ UNCHANGED <<disk, saves, overlapped, port>> /\ UNCHANGED tokenVars

\* `auth login`, or the terminal's own form of it.
Login(p) ==
    /\ BeginSave(p, "ollama", Key, "none")
    /\ UNCHANGED <<disk, auth, temp, port>> /\ UNCHANGED tokenVars

\* forget: the file goes with its last entry; one that cannot be read stays.
Forget(p, provider) ==
    /\ ~Saving(p) /\ Readable(auth) /\ disk[auth][provider] # {}
    /\ LET left == [disk[auth] EXCEPT ![provider] = {}] IN
        IF left = EmptyStore
        THEN auth' = 0 /\ UNCHANGED <<save, saves>>
        ELSE WriteBack(p, left, "none") /\ UNCHANGED auth
    /\ Overlaps(p)
    /\ UNCHANGED <<disk, temp, port>> /\ UNCHANGED tokenVars

SaveReturns(p) ==
    /\ save[p].pc = "done" /\ save[p].then = "none"
    /\ save' = [save EXCEPT ![p] = NoSave]
    /\ UNCHANGED <<disk, auth, temp, saves, overlapped, port>> /\ UNCHANGED tokenVars

(* ---- a provider and its pair ---- *)

\* The factory resolves the stored credential; there is no variable for this one.
Build(p) ==
    /\ p \in Sessions /\ held[p] = 0 /\ Readable(auth)
    /\ \E pair \in disk[auth]["codex"] : held' = [held EXCEPT ![p] = pair]
    /\ UNCHANGED <<lock, task, redeemable, issued, expired, port>> /\ UNCHANGED fileVars

Goes(p, t, where) == task' = [task EXCEPT ![p][t] = where]

\* usable(): a look under the read lock, and a request with what it shows.
Request(p, t) ==
    /\ task[p][t] = "idle" /\ held[p] # 0 /\ lock[p] = Nobody
    /\ Goes(p, t, IF held[p] \in expired THEN "waiting" ELSE "idle")
    /\ UNCHANGED <<held, lock, redeemable, issued, expired, port>> /\ UNCHANGED fileVars

\* A write lock taken at the first look's word.
LocksBlindly(p, t) ==
    /\ task[p][t] = "waiting" /\ lock[p] = Nobody
    /\ Goes(p, t, "refreshing") /\ lock' = [lock EXCEPT ![p] = t]
    /\ UNCHANGED <<held, redeemable, issued, expired, port>> /\ UNCHANGED fileVars

\* With the write lock it looks again, and only then trades the refresh token.
Locks(p, t) ==
    /\ task[p][t] = "waiting" /\ lock[p] = Nobody
    /\ IF held[p] \in expired THEN Goes(p, t, "refreshing") /\ lock' = [lock EXCEPT ![p] = t]
       ELSE Goes(p, t, "idle") /\ UNCHANGED lock
    /\ UNCHANGED <<held, redeemable, issued, expired, port>> /\ UNCHANGED fileVars

\* The issuer trades a token once.  Its answer may be lost after it has.
Trades(p, t, lost) ==
    /\ task[p][t] = "refreshing" /\ held[p] \in redeemable /\ issued < MaxPairs
    /\ issued' = issued + 1
    /\ redeemable' = (redeemable \ {held[p]}) \union {issued'}
    /\ IF lost THEN Goes(p, t, "idle") /\ lock' = [lock EXCEPT ![p] = Nobody] /\ UNCHANGED <<save, saves, overlapped>>
       ELSE /\ BeginSave(p, "codex", issued', t)
            /\ Goes(p, t, "storing") /\ UNCHANGED lock
    /\ UNCHANGED <<held, expired, disk, auth, temp, port>>

\* A token somebody else has traded is refused, and so is the request.
RefusesTrade(p, t) ==
    /\ task[p][t] = "refreshing" /\ held[p] \notin redeemable
    /\ Goes(p, t, "idle") /\ lock' = [lock EXCEPT ![p] = Nobody]
    /\ UNCHANGED <<held, redeemable, issued, expired, port>> /\ UNCHANGED fileVars

\* Whether or not the sink could store the pair, the provider uses it.
Renewed(p, t) ==
    /\ task[p][t] = "storing" /\ save[p].pc = "done" /\ save[p].then = t
    /\ held' = [held EXCEPT ![p] = CHOOSE pair \in save[p].store["codex"] : TRUE]
    /\ save' = [save EXCEPT ![p] = NoSave]
    /\ Goes(p, t, "idle") /\ lock' = [lock EXCEPT ![p] = Nobody]
    /\ UNCHANGED <<redeemable, issued, expired, disk, auth, temp, saves, overlapped, port>>

Expires ==
    /\ \E pair \in 1..issued : pair \notin expired /\ expired' = expired \union {pair}
    /\ UNCHANGED <<held, lock, task, redeemable, issued, port>> /\ UNCHANGED fileVars

(* ---- signing in ---- *)

\* The port is fixed, and held to the end: a second attempt fails at once.
StartSignIn(p) ==
    /\ port = Nobody
    /\ port' = p
    /\ UNCHANGED fileVars /\ UNCHANGED tokenVars

\* catch(): a connection that is not the callback is answered and forgotten.  The
\* callback's complaint, a state that is not ours, no code, five minutes, or an
\* exchange that fails end the attempt with nothing.
SignInFails(p) ==
    /\ port = p
    /\ port' = Nobody
    /\ UNCHANGED fileVars /\ UNCHANGED tokenVars

\* Our code is redeemed, and the surface stores the pair.
SignedIn(p) ==
    /\ port = p /\ issued < MaxPairs
    /\ issued' = issued + 1 /\ redeemable' = redeemable \union {issued'}
    /\ BeginSave(p, "codex", issued', "none")
    /\ port' = Nobody
    /\ UNCHANGED <<held, lock, task, expired, disk, auth, temp>>

\* The process is killed: what it held is gone, what it wrote stays.
Killed(p) ==
    /\ save' = [save EXCEPT ![p] = NoSave]
    /\ held' = [held EXCEPT ![p] = 0] /\ lock' = [lock EXCEPT ![p] = Nobody]
    /\ task' = [task EXCEPT ![p] = [t \in Tasks |-> "idle"]]
    /\ port' = IF port = p THEN Nobody ELSE port
    /\ UNCHANGED <<disk, auth, temp, redeemable, issued, expired, saves, overlapped>>

Init ==
    /\ auth \in {0, 1} /\ temp = 0       \* no file yet, or one with a key
    /\ disk = [n \in 1..MaxFiles |-> [EmptyStore EXCEPT !["ollama"] = IF n = auth THEN {Key} ELSE {}]]
    /\ save = [p \in Procs |-> NoSave]
    /\ held = [p \in Procs |-> 0] /\ lock = [p \in Procs |-> Nobody]
    /\ task = [p \in Procs |-> [t \in Tasks |-> "idle"]]
    /\ redeemable = {} /\ issued = 0 /\ expired = {}
    /\ port = Nobody /\ saves = 0 /\ overlapped = FALSE

Next ==
    \/ Expires
    \/ \E p \in Procs :
        \/ OpenTemp(p) \/ WriteTemp(p) \/ Rename(p) \/ SaveReturns(p)
        \/ Login(p) \/ Build(p) \/ StartSignIn(p) \/ SignInFails(p) \/ SignedIn(p) \/ Killed(p)
        \/ \E provider \in Providers : Forget(p, provider)
        \/ \E t \in Tasks : \/ Request(p, t) \/ Locks(p, t) \/ RefusesTrade(p, t) \/ Renewed(p, t)
                            \/ \E lost \in BOOLEAN : Trades(p, t, lost)

Spec == Init /\ [][Next]_vars

(* ---- properties ---- *)

\* The file names stay within the files there are, and a lock has a holder that
\* is at work with it.
TypeOK ==
    /\ auth \in 0..MaxFiles /\ temp \in 0..MaxFiles /\ issued \in 0..MaxPairs
    /\ redeemable \subseteq 1..issued /\ expired \subseteq 1..issued
    /\ \A p \in Procs :
        /\ held[p] \in 0..issued
        /\ lock[p] # Nobody => task[p][lock[p]] \in {"refreshing", "storing"}

\* responses/mod.rs:89: requests that all saw the pair expire spend one refresh
\* between them: a token is traded only while the pair it renews is the expired
\* one, and by one request of the process at a time.
RenewsOnlyExpired ==
    \A p \in Procs : \A t \in Tasks :
        task[p][t] \in {"refreshing", "storing"} => held[p] \in expired /\ lock[p] = t

\* auth.rs:343: killing a process in the middle of a save never leaves a file
\* that cannot be read, nor one that has lost what was in it before, as long as
\* no two saves overlapped.
AloneIsAtomic ==
    ~overlapped =>
        /\ auth # 0 => Readable(auth)
        /\ \A p \in Procs : save[p].pc \in {"open", "write", "rename"} =>
              Cardinality({provider \in Providers : save[p].store[provider] # Content(auth)[provider]}) <= 1

\* auth.rs:343: an interrupted write cannot leave a truncated credential file.
NeverTruncated == auth # 0 => Readable(auth) \/ \E p \in Procs : save[p].pc = "write" /\ save[p].file = auth

(* ---- proofs, for any number of processes, requests and saves ---- *)

\* No request and no process has the name of nobody, and the bounds are numbers.
Names ==
    /\ MaxPairs \in Nat /\ MaxFiles \in Nat \ {0}
    /\ Nobody \notin Tasks /\ "none" \notin Tasks

Stores == [Providers -> SUBSET Nat]
Steps == {"none", "open", "write", "rename", "done"}
Places == {"idle", "waiting", "refreshing", "storing"}

Row == [pc : Steps, store : Stores, file : 0..MaxFiles, then : Tasks \union {"none"}]
FilesTyped ==
    /\ disk \in [1..MaxFiles -> Stores] /\ auth \in 0..MaxFiles /\ temp \in 0..MaxFiles
    /\ save \in [Procs -> Row] /\ saves \in Nat /\ overlapped \in BOOLEAN
TokensTyped ==
    /\ held \in [Procs -> Nat] /\ lock \in [Procs -> Tasks \union {Nobody}]
    /\ task \in [Procs -> [Tasks -> Places]]
    /\ issued \in 0..MaxPairs /\ redeemable \subseteq 1..issued /\ expired \subseteq 1..issued
Typed == FilesTyped /\ TokensTyped

\* What is kept anywhere is a key or a pair that was issued, or the file is torn.
Known(store, n) == \A x \in Providers : store[x] \subseteq 0..n
PairsInv ==
    /\ \A n \in 1..MaxFiles : disk[n] = Unreadable \/ Known(disk[n], issued)
    /\ \A p \in Procs : Known(save[p].store, issued) /\ held[p] \in 0..issued
    /\ \A p \in Procs : save[p].then # "none" => save[p].store["codex"] # {}

\* Who trades or stores holds the lock, and whoever holds it does.
LockInv ==
    \A p \in Procs :
        /\ \A t \in Tasks : task[p][t] \in {"refreshing", "storing"} => held[p] \in expired /\ lock[p] = t
        /\ lock[p] # Nobody => task[p][lock[p]] \in {"refreshing", "storing"}

\* While saves do not overlap, one process saves, into a file that is not
\* auth.json, something that differs from it in one provider.
NearlySame(store, provider) == \A x \in Providers \ {provider} : store[x] = Content(auth)[x]
SaveInv ==
    /\ temp = 0 \/ temp # auth
    /\ ~overlapped =>
        /\ auth # 0 => Readable(auth)
        /\ \A p, q \in Procs : Saving(p) /\ Saving(q) => p = q
        /\ \A p \in Procs : save[p].pc \in {"open", "write", "rename"} =>
              \E x \in Providers : NearlySame(save[p].store, x)
        /\ \A p \in Procs : save[p].pc \in {"write", "rename"} => temp # 0 /\ save[p].file = temp
        /\ \A p \in Procs : save[p].pc = "rename" => disk[temp] = save[p].store

Inv == Typed /\ PairsInv /\ LockInv /\ SaveInv

\* A home directory with no file, or with one that holds a key.
LEMMA InitInv == Names /\ Init => Inv
<1> SUFFICES ASSUME Names, Init PROVE Inv
  OBVIOUS
<1> USE DEF Names
<1>0. EmptyStore \in Stores /\ Known(EmptyStore, issued) /\ issued = 0
  BY DEF Init, EmptyStore, Stores, Known
<1>1. \A n \in 1..MaxFiles : disk[n] \in Stores /\ Known(disk[n], issued) /\ disk[n]["codex"] = {}
  BY DEF Init, EmptyStore, Stores, Known, Key, Providers
<1>2. disk \in [1..MaxFiles -> Stores]
  BY <1>1 DEF Init
<1>3. Typed
  <2>1. save \in [Procs -> Row]
    BY <1>0 DEF Init, NoSave, Steps, Row
  <2>2. FilesTyped
    <3>1. overlapped \in BOOLEAN
      BY Zenon DEF Init
    <3>2. auth \in 0..MaxFiles /\ temp \in 0..MaxFiles /\ saves \in Nat
      BY DEF Init
    <3> QED BY <1>2, <2>1, <3>1, <3>2 DEF FilesTyped
  <2>3. task \in [Procs -> [Tasks -> Places]]
    <3>1. [t \in Tasks |-> "idle"] \in [Tasks -> Places]
      BY DEF Places
    <3> QED BY <3>1 DEF Init
  <2>4. TokensTyped
    BY <2>3 DEF Init, TokensTyped
  <2> QED BY <2>2, <2>4 DEF Typed
<1>4. PairsInv
  BY <1>0, <1>1 DEF PairsInv, Init, NoSave
<1>5. LockInv
  BY DEF LockInv, Init
<1>6. SaveInv
  <2>1. \A p \in Procs : ~Saving(p) /\ save[p].pc = "none"
    BY DEF Init, Saving, NoSave
  <2>2. auth # 0 => Readable(auth)
    <3>1. Unreadable["codex"] # {}
      BY DEF Unreadable, Providers
    <3> QED BY <1>1, <3>1 DEF Init, Readable
  <2> QED BY <2>1, <2>2 DEF Init, SaveInv
<1> QED BY <1>3, <1>4, <1>5, <1>6 DEF Inv

-----------------------------------------------------------------------------
(* Types, and what is kept.                                                  *)

\* What a save starts from is a store of keys and issued pairs.
LEMMA ReadStore ==
  ASSUME Names, Typed, PairsInv
  PROVE  /\ EmptyStore \in Stores /\ Known(EmptyStore, issued)
         /\ read_store \in Stores /\ Known(read_store, issued)
         /\ Readable(auth) => disk[auth] \in Stores /\ Known(disk[auth], issued)
<1>1. EmptyStore \in Stores /\ Known(EmptyStore, issued)
  BY DEF EmptyStore, Stores, Known
<1>2. Readable(auth) => disk[auth] \in Stores /\ Known(disk[auth], issued)
  <2>1. auth # 0 => auth \in 1..MaxFiles
    BY DEF Typed, FilesTyped, Names
  <2>2. auth # 0 => disk[auth] \in Stores
    BY <2>1 DEF Typed, FilesTyped
  <2>3. auth # 0 => disk[auth] = Unreadable \/ Known(disk[auth], issued)
    BY <2>1 DEF PairsInv
  <2> QED BY <2>2, <2>3 DEF Readable
<1> QED BY <1>1, <1>2 DEF read_store

\* A save that begins with a store of that kind keeps the types.
LEMMA WritesTyped ==
  ASSUME Names, FilesTyped, NEW p \in Procs, NEW store \in Stores, NEW next \in Tasks \union {"none"},
         WriteBack(p, store, next)
  PROVE  save' \in [Procs -> Row] /\ saves' \in Nat
<1>1. [pc |-> "open", store |-> store, file |-> 0, then |-> next] \in Row
  BY DEF Row, Steps, Names
<1> QED BY <1>1 DEF WriteBack, FilesTyped

\* A task that moves on.
LEMMA Moves ==
  ASSUME TokensTyped, NEW p \in Procs, NEW t \in Tasks, NEW where \in Places, Goes(p, t, where)
  PROVE  /\ task' \in [Procs -> [Tasks -> Places]]
         /\ \A q \in Procs, u \in Tasks :
              task'[q][u] = IF q = p /\ u = t THEN where ELSE task[q][u]
<1>1. task \in [Procs -> [Tasks -> Places]] /\ task[p] \in [Tasks -> Places]
  BY DEF TokensTyped
<1>2. [task[p] EXCEPT ![t] = where] \in [Tasks -> Places]
  BY <1>1
<1>3. task' = [task EXCEPT ![p] = [task[p] EXCEPT ![t] = where]]
  BY DEF Goes
<1>4. task' \in [Procs -> [Tasks -> Places]]
  BY <1>1, <1>2, <1>3
<1>5. task'[p] = [task[p] EXCEPT ![t] = where] /\ \A q \in Procs \ {p} : task'[q] = task[q]
  BY <1>1, <1>3
<1> QED BY <1>1, <1>4, <1>5

\* The store of a new key or pair.
LEMMA WithEntry ==
  ASSUME NEW store \in Stores, NEW x \in Providers, NEW n \in Nat
  PROVE  [store EXCEPT ![x] = {n}] \in Stores
  BY DEF Stores

\* Every step keeps the types of the files and the saves.
LEMMA StepFiles ==
  ASSUME Names, Typed, PairsInv, [Next]_vars
  PROVE  FilesTyped'
<1> USE DEF FilesTyped
<1>0. /\ read_store \in Stores /\ EmptyStore \in Stores /\ NoSave \in Row
      /\ Readable(auth) => disk[auth] \in Stores
      /\ FilesTyped /\ MaxFiles \in Nat
  BY ReadStore DEF NoSave, Steps, Names, Row, Typed
<1>1. CASE UNCHANGED fileVars
  BY <1>0, <1>1 DEF fileVars
<1>2. ASSUME NEW p \in Procs, OpenTemp(p) PROVE FilesTyped'
  <2>1. temp' \in 1..MaxFiles
    BY <1>0, <1>2 DEF OpenTemp, Unused
  <2>2. Unreadable \in Stores
    BY DEF Unreadable, Stores, Torn, Names
  <2>3. disk' \in [1..MaxFiles -> Stores]
    BY <1>0, <1>2, <2>1, <2>2 DEF OpenTemp
  <2>4. [save[p] EXCEPT !.pc = "write", !.file = temp'] \in Row
    <3>1. save[p] \in Row
      BY <1>0
    <3>2. temp' \in 0..MaxFiles
      BY <1>0, <2>1
    <3> QED BY <3>1, <3>2 DEF Row, Steps
  <2>5. save' \in [Procs -> Row]
    BY <1>0, <1>2, <2>4 DEF OpenTemp
  <2> QED BY <1>0, <1>2, <2>1, <2>3, <2>5 DEF OpenTemp
<1>3. ASSUME NEW p \in Procs, WriteTemp(p) PROVE FilesTyped'
  <2>1. save[p] \in Row /\ save[p].store \in Stores
    BY <1>0 DEF Row
  <2>2. disk' \in [1..MaxFiles -> Stores]
    BY <1>0, <1>3, <2>1 DEF WriteTemp
  <2>3. [save[p] EXCEPT !.pc = "rename"] \in Row
    BY <2>1 DEF Row, Steps
  <2> QED BY <1>0, <1>3, <2>2, <2>3 DEF WriteTemp
<1>4. ASSUME NEW p \in Procs, Rename(p) PROVE FilesTyped'
  <2>1. [save[p] EXCEPT !.pc = "done", !.file = 0] \in Row
    <3>1. save[p] \in Row /\ 0 \in 0..MaxFiles
      BY <1>0
    <3> QED BY <3>1 DEF Row, Steps
  <2> QED BY <1>0, <1>4, <2>1 DEF Rename
<1>5. ASSUME NEW p \in Procs, SaveReturns(p) \/ Killed(p) PROVE FilesTyped'
  BY <1>0, <1>5 DEF SaveReturns, Killed
<1>6. ASSUME NEW p \in Procs, NEW x \in Providers, NEW n \in Nat, NEW next \in Tasks \union {"none"},
             BeginSave(p, x, n, next), UNCHANGED <<disk, auth, temp>>
      PROVE  FilesTyped'
  <2>1. [read_store EXCEPT ![x] = {n}] \in Stores
    BY <1>0, WithEntry
  <2>2. save' \in [Procs -> Row] /\ saves' \in Nat
    BY <1>0, <1>6, <2>1, WritesTyped DEF BeginSave
  <2> QED BY <1>0, <1>6, <2>2 DEF BeginSave, Overlaps
<1>7. ASSUME NEW p \in Procs, Login(p) PROVE FilesTyped'
  BY <1>6, <1>7 DEF Login, Providers, Key
<1>8. ASSUME NEW p \in Procs, SignedIn(p) PROVE FilesTyped'
  <2>1. issued' \in Nat
    BY <1>8 DEF SignedIn, Typed, TokensTyped, Names
  <2> QED BY <1>6, <1>8, <2>1 DEF SignedIn, Providers
<1>9. ASSUME NEW p \in Procs, NEW x \in Providers, Forget(p, x) PROVE FilesTyped'
  <2> DEFINE left == [disk[auth] EXCEPT ![x] = {}]
  <2>1. left \in Stores
    BY <1>0, <1>9 DEF Forget, Stores
  <2>2. CASE left = EmptyStore
    BY <1>0, <1>9, <2>2 DEF Forget, Overlaps
  <2>3. CASE left # EmptyStore
    <3>1. WriteBack(p, left, "none") /\ UNCHANGED auth
      BY <1>9, <2>3 DEF Forget
    <3>2. save' \in [Procs -> Row] /\ saves' \in Nat
      BY <1>0, <2>1, <3>1, WritesTyped
    <3> QED BY <1>0, <1>9, <3>1, <3>2 DEF Forget, Overlaps
  <2> QED BY <2>2, <2>3
<1>10. ASSUME NEW p \in Procs, NEW t \in Tasks, Renewed(p, t) PROVE FilesTyped'
  BY <1>0, <1>10 DEF Renewed
<1>11. ASSUME NEW p \in Procs, NEW t \in Tasks, NEW lost \in BOOLEAN, Trades(p, t, lost) PROVE FilesTyped'
  <2>1. issued' \in Nat
    BY <1>11 DEF Trades, Typed, TokensTyped, Names
  <2>2. CASE lost
    BY <1>0, <1>11, <2>2 DEF Trades
  <2>3. CASE ~lost
    BY <1>6, <1>11, <2>1, <2>3 DEF Trades, Providers
  <2> QED BY <2>2, <2>3
<1>12. UNCHANGED vars \/ Expires => UNCHANGED fileVars
  BY DEF vars, Expires, fileVars
<1>13. \A p \in Procs : Build(p) \/ StartSignIn(p) \/ SignInFails(p) => UNCHANGED fileVars
  BY DEF Build, StartSignIn, SignInFails
<1>14. \A p \in Procs, t \in Tasks : Request(p, t) \/ Locks(p, t) \/ RefusesTrade(p, t) => UNCHANGED fileVars
  BY DEF Request, Locks, RefusesTrade
<1> QED
  BY <1>1, <1>2, <1>3, <1>4, <1>5, <1>7, <1>8, <1>9, <1>10, <1>11, <1>12, <1>13, <1>14 DEF Next

\* Every step keeps the types of the pairs and of who uses them.
LEMMA StepTokens ==
  ASSUME Names, Typed, PairsInv, [Next]_vars
  PROVE  TokensTyped'
<1> USE DEF TokensTyped
<1>0. TokensTyped /\ MaxPairs \in Nat
  BY DEF Typed, Names
<1>1. CASE UNCHANGED tokenVars
  BY <1>0, <1>1 DEF tokenVars
<1>2. CASE Expires
  BY <1>0, <1>2 DEF Expires
<1>3. ASSUME NEW p \in Procs, Build(p) PROVE TokensTyped'
  <2>1. \A pair \in disk[auth]["codex"] : pair \in Nat
    BY <1>3, ReadStore DEF Build, Stores, Providers
  <2> QED BY <1>0, <1>3, <2>1 DEF Build
<1>4. ASSUME NEW p \in Procs, SignedIn(p) PROVE TokensTyped'
  <2>1. issued' = issued + 1 /\ issued' \in 0..MaxPairs
    BY <1>0, <1>4 DEF SignedIn
  <2> QED BY <1>0, <1>4, <2>1 DEF SignedIn
<1>5. ASSUME NEW p \in Procs, Killed(p) PROVE TokensTyped'
  <2>1. [t \in Tasks |-> "idle"] \in [Tasks -> Places]
    BY DEF Places
  <2> QED BY <1>0, <1>5, <2>1 DEF Killed
<1>6. ASSUME NEW p \in Procs, NEW t \in Tasks, NEW where \in Places, Goes(p, t, where),
             lock' \in [Procs -> Tasks \union {Nobody}], held' \in [Procs -> Nat],
             UNCHANGED <<issued, redeemable, expired>>
      PROVE  TokensTyped'
  BY <1>0, <1>6, Moves
<1>7. ASSUME NEW p \in Procs, NEW t \in Tasks, Request(p, t) \/ Locks(p, t) \/ RefusesTrade(p, t)
      PROVE  TokensTyped'
  <2>1. /\ lock' \in [Procs -> Tasks \union {Nobody}] /\ held' \in [Procs -> Nat]
        /\ UNCHANGED <<issued, redeemable, expired>>
    BY <1>0, <1>7 DEF Request, Locks, RefusesTrade
  <2>2. \E where \in Places : Goes(p, t, where)
    BY <1>7 DEF Request, Locks, RefusesTrade, Places
  <2> QED BY <1>6, <2>1, <2>2
<1>8. ASSUME NEW p \in Procs, NEW t \in Tasks, Renewed(p, t) PROVE TokensTyped'
  <2>1. save[p].then = t /\ t # "none" /\ save[p].store \in Stores
    BY <1>8 DEF Renewed, Names, Typed, FilesTyped, Row
  <2>2. save[p].store["codex"] # {} /\ save[p].store["codex"] \subseteq Nat
    BY <2>1 DEF PairsInv, Stores, Providers
  <2>3. held' \in [Procs -> Nat]
    BY <1>0, <1>8, <2>2 DEF Renewed
  <2> QED BY <1>0, <1>6, <1>8, <2>3 DEF Renewed, Places
<1>9. ASSUME NEW p \in Procs, NEW t \in Tasks, NEW lost \in BOOLEAN, Trades(p, t, lost) PROVE TokensTyped'
  <2>1. issued' = issued + 1 /\ issued' \in 0..MaxPairs
    BY <1>0, <1>9 DEF Trades
  <2>2. redeemable' \subseteq 1..issued' /\ expired' \subseteq 1..issued'
    <3>1. issued' \in 1..issued' /\ 1..issued \subseteq 1..issued'
      BY <1>0, <2>1
    <3>2. redeemable' = (redeemable \ {held[p]}) \union {issued'} /\ expired' = expired
      BY <1>9 DEF Trades
    <3> QED BY <1>0, <3>1, <3>2
  <2>3. lock' \in [Procs -> Tasks \union {Nobody}]
    BY <1>0, <1>9 DEF Trades
  <2>4. \E where \in Places : Goes(p, t, where)
    BY <1>9 DEF Trades, Places
  <2>5. task' \in [Procs -> [Tasks -> Places]]
    BY <1>0, <2>4, Moves
  <2> QED BY <1>0, <1>9, <2>1, <2>2, <2>3, <2>5 DEF Trades
<1>10. \A p \in Procs : OpenTemp(p) \/ WriteTemp(p) \/ Rename(p) \/ SaveReturns(p) => UNCHANGED tokenVars
  BY DEF OpenTemp, WriteTemp, Rename, SaveReturns
<1>11. \A p \in Procs : Login(p) \/ StartSignIn(p) \/ SignInFails(p) => UNCHANGED tokenVars
  BY DEF Login, StartSignIn, SignInFails
<1>12. \A p \in Procs, x \in Providers : Forget(p, x) => UNCHANGED tokenVars
  BY DEF Forget
<1>13. UNCHANGED vars => UNCHANGED tokenVars
  BY DEF vars, tokenVars
<1> QED
  BY <1>1, <1>2, <1>3, <1>4, <1>5, <1>7, <1>8, <1>9, <1>10, <1>11, <1>12, <1>13 DEF Next

\* Every step keeps what is kept a key or an issued pair.
LEMMA StepPairs ==
  ASSUME Names, Typed, PairsInv, [Next]_vars
  PROVE  PairsInv'
<1> DEFINE Fine(row, n) == Known(row.store, n) /\ (row.then # "none" => row.store["codex"] # {})
<1>0. /\ FilesTyped /\ TokensTyped /\ issued \in Nat
      /\ \A n \in 1..MaxFiles : disk[n] = Unreadable \/ Known(disk[n], issued)
      /\ \A p \in Procs : Fine(save[p], issued) /\ held[p] \in 0..issued
      /\ Known(EmptyStore, issued) /\ Known(read_store, issued) /\ read_store \in Stores
      /\ Readable(auth) => Known(disk[auth], issued) /\ disk[auth] \in Stores
  BY ReadStore DEF Typed, TokensTyped, PairsInv, Names
<1>1. Fine(NoSave, issued)
  BY <1>0 DEF NoSave
<1>2. ASSUME issued' \in Nat, issued <= issued',
             \A n \in 1..MaxFiles : disk'[n] = Unreadable \/ Known(disk'[n], issued'),
             \A p \in Procs : Fine(save'[p], issued'),
             \A p \in Procs : held'[p] \in 0..issued'
      PROVE  PairsInv'
  BY <1>2 DEF PairsInv
<1>3. ASSUME UNCHANGED issued,
             \A n \in 1..MaxFiles : disk'[n] \in {disk[n], Unreadable} \union {save[p].store : p \in Procs},
             \A p \in Procs : Fine(save'[p], issued),
             \A p \in Procs : held'[p] \in 0..issued
      PROVE  PairsInv'
  BY <1>0, <1>2, <1>3
<1>4. CASE UNCHANGED <<fileVars, held, issued>>
  BY <1>0, <1>3, <1>4 DEF fileVars
<1>5. ASSUME NEW p \in Procs, OpenTemp(p) \/ WriteTemp(p) \/ Rename(p) PROVE PairsInv'
  <2>1. UNCHANGED <<issued, held>>
    BY <1>5 DEF OpenTemp, WriteTemp, Rename, tokenVars
  <2>2. \A n \in 1..MaxFiles : disk'[n] \in {disk[n], Unreadable} \union {save[q].store : q \in Procs}
    BY <1>0, <1>5 DEF OpenTemp, WriteTemp, Rename, FilesTyped
  <2>3. \A q \in Procs : save'[q].store = save[q].store /\ save'[q].then = save[q].then
    <3>1. save[p] \in Row /\ save \in [Procs -> Row]
      BY <1>0 DEF FilesTyped
    <3> QED BY <1>5, <3>1 DEF OpenTemp, WriteTemp, Rename, Row
  <2> QED BY <1>0, <1>3, <2>1, <2>2, <2>3
<1>6. ASSUME NEW p \in Procs, SaveReturns(p) PROVE PairsInv'
  BY <1>0, <1>1, <1>3, <1>6 DEF SaveReturns, FilesTyped, tokenVars
<1>7. ASSUME NEW p \in Procs, Killed(p) PROVE PairsInv'
  <2>1. \A q \in Procs : Fine(save'[q], issued)
    BY <1>0, <1>1, <1>7 DEF Killed, FilesTyped
  <2>2. \A q \in Procs : held'[q] \in 0..issued
    BY <1>0, <1>7 DEF Killed, TokensTyped
  <2> QED BY <1>0, <1>3, <1>7, <2>1, <2>2 DEF Killed
<1>8. ASSUME NEW p \in Procs, NEW x \in Providers, NEW n \in 0..issued', NEW next,
             issued' \in Nat, issued <= issued', UNCHANGED <<disk, held>>, BeginSave(p, x, n, next),
             next # "none" => x = "codex"
      PROVE  PairsInv'
  <2> DEFINE new == [read_store EXCEPT ![x] = {n}]
  <2>1. Known(new, issued') /\ new[x] = {n}
    BY <1>0, <1>8 DEF Known, Stores
  <2>2. save' = [save EXCEPT ![p] = [pc |-> "open", store |-> new, file |-> 0, then |-> next]]
    BY <1>8 DEF BeginSave, WriteBack
  <2> HIDE DEF new
  <2>3. Fine(save'[p], issued')
    BY <1>0, <1>8, <2>1, <2>2 DEF FilesTyped
  <2>4. \A q \in Procs \ {p} : save'[q] = save[q]
    BY <1>0, <2>2 DEF FilesTyped
  <2>5. \A store : Known(store, issued) => Known(store, issued')
    BY <1>0, <1>8 DEF Known
  <2> QED BY <1>0, <1>2, <1>8, <2>3, <2>4, <2>5
<1>9. ASSUME NEW p \in Procs, Login(p) PROVE PairsInv'
  BY <1>0, <1>8, <1>9 DEF Login, tokenVars, Providers, Key
<1>10. ASSUME NEW p \in Procs, SignedIn(p) PROVE PairsInv'
  BY <1>0, <1>8, <1>10 DEF SignedIn, Providers
<1>11. ASSUME NEW p \in Procs, NEW x \in Providers, Forget(p, x) PROVE PairsInv'
  <2> DEFINE left == [disk[auth] EXCEPT ![x] = {}]
  <2>1. Known(left, issued)
    BY <1>0, <1>11 DEF Forget, Known, Stores
  <2>2. save' = save \/ save' = [save EXCEPT ![p] = [pc |-> "open", store |-> left, file |-> 0, then |-> "none"]]
    BY <1>11 DEF Forget, WriteBack
  <2> HIDE DEF left
  <2>3. \A q \in Procs : Fine(save'[q], issued)
    BY <1>0, <2>1, <2>2 DEF FilesTyped
  <2> QED BY <1>0, <1>3, <1>11, <2>3 DEF Forget, tokenVars
<1>12. ASSUME NEW p \in Procs, Build(p) PROVE PairsInv'
  <2>1. \A pair \in disk[auth]["codex"] : pair \in 0..issued
    BY <1>0, <1>12 DEF Build, Known, Providers
  <2>2. \A q \in Procs : held'[q] \in 0..issued
    BY <1>0, <1>12, <2>1 DEF Build, TokensTyped
  <2> QED BY <1>0, <1>3, <1>12, <2>2 DEF Build, fileVars
<1>13. ASSUME NEW p \in Procs, NEW t \in Tasks, Renewed(p, t) PROVE PairsInv'
  <2>1. save[p].store["codex"] # {} /\ save[p].store["codex"] \subseteq 0..issued
    BY <1>0, <1>13 DEF Renewed, Known, Providers, Names
  <2>2. \A q \in Procs : held'[q] \in 0..issued
    BY <1>0, <1>13, <2>1 DEF Renewed, TokensTyped
  <2>3. \A q \in Procs : Fine(save'[q], issued)
    BY <1>0, <1>1, <1>13 DEF Renewed, FilesTyped
  <2> QED BY <1>0, <1>3, <1>13, <2>2, <2>3 DEF Renewed
<1>14. ASSUME NEW p \in Procs, NEW t \in Tasks, NEW lost \in BOOLEAN, Trades(p, t, lost) PROVE PairsInv'
  <2>1. issued' = issued + 1 /\ UNCHANGED <<held, disk>>
    BY <1>14 DEF Trades
  <2>2. CASE lost
    <3>1. UNCHANGED save
      BY <1>14, <2>2 DEF Trades
    <3>2. \A store : Known(store, issued) => Known(store, issued')
      BY <1>0, <2>1 DEF Known
    <3> QED BY <1>0, <1>2, <2>1, <3>1, <3>2
  <2>3. CASE ~lost
    BY <1>0, <1>8, <1>14, <2>1, <2>3 DEF Trades, Providers
  <2> QED BY <2>2, <2>3
<1>15. UNCHANGED vars \/ Expires => UNCHANGED <<fileVars, held, issued>>
  BY DEF vars, Expires, fileVars
<1>16. \A p \in Procs : StartSignIn(p) \/ SignInFails(p) => UNCHANGED <<fileVars, held, issued>>
  BY DEF StartSignIn, SignInFails, tokenVars
<1>17. \A p \in Procs, t \in Tasks :
         Request(p, t) \/ Locks(p, t) \/ RefusesTrade(p, t) => UNCHANGED <<fileVars, held, issued>>
  BY DEF Request, Locks, RefusesTrade
<1> QED
  BY <1>4, <1>5, <1>6, <1>7, <1>9, <1>10, <1>11, <1>12, <1>13, <1>14, <1>15, <1>16, <1>17 DEF Next

-----------------------------------------------------------------------------
(* Renewal: one request of a process trades, and only an expired pair.       *)

\* Every step keeps the lock with the request that renews.
LEMMA StepLocks ==
  ASSUME Names, Typed, PairsInv, LockInv, [Next]_vars
  PROVE  LockInv'
<1> DEFINE Renewing(place) == place \in {"refreshing", "storing"}
<1>0. /\ TokensTyped /\ Nobody \notin Tasks /\ 0 \notin expired
      /\ \A p \in Procs, t \in Tasks : Renewing(task[p][t]) => held[p] \in expired /\ lock[p] = t
      /\ \A p \in Procs : lock[p] # Nobody => Renewing(task[p][lock[p]])
  BY DEF Typed, TokensTyped, LockInv, Names
<1>1. CASE UNCHANGED <<held, lock, task>> /\ expired \subseteq expired'
  BY <1>1 DEF LockInv
<1>2. ASSUME NEW p \in Procs,
             \A q \in Procs \ {p} : task'[q] = task[q] /\ lock'[q] = lock[q] /\ held'[q] = held[q],
             expired' = expired,
             \A t \in Tasks : Renewing(task'[p][t]) => held'[p] \in expired /\ lock'[p] = t,
             lock'[p] # Nobody => Renewing(task'[p][lock'[p]])
      PROVE  LockInv'
  BY <1>0, <1>2 DEF LockInv
<1>3. ASSUME NEW p \in Procs, Build(p) PROVE LockInv'
  <2>1. /\ \A q \in Procs \ {p} : held'[q] = held[q]
        /\ UNCHANGED <<task, lock, expired>> /\ held[p] = 0
    BY <1>0, <1>3 DEF Build, TokensTyped
  <2>2. \A t \in Tasks : ~Renewing(task[p][t])
    BY <1>0, <2>1
  <2> QED BY <1>0, <1>2, <2>1, <2>2
<1>4. ASSUME NEW p \in Procs, Killed(p) PROVE LockInv'
  <2>1. \A q \in Procs \ {p} : task'[q] = task[q] /\ lock'[q] = lock[q] /\ held'[q] = held[q]
    BY <1>0, <1>4 DEF Killed, TokensTyped
  <2>2. lock'[p] = Nobody /\ expired' = expired /\ \A t \in Tasks : task'[p][t] = "idle"
    BY <1>0, <1>4 DEF Killed, TokensTyped
  <2> QED BY <1>2, <2>1, <2>2
<1>5. ASSUME NEW p \in Procs, NEW t \in Tasks, NEW where \in Places, Goes(p, t, where), expired' = expired,
             lock' = lock \/ \E holder : lock' = [lock EXCEPT ![p] = holder],
             held' = held \/ \E pair : held' = [held EXCEPT ![p] = pair],
             \/ ~Renewing(where) /\ ~Renewing(task[p][t]) /\ UNCHANGED <<lock, held>>
             \/ ~Renewing(where) /\ Renewing(task[p][t]) /\ lock'[p] = Nobody
             \/ Renewing(where) /\ lock[p] \in {Nobody, t} /\ lock'[p] = t /\ held[p] \in expired /\ UNCHANGED held
      PROVE  LockInv'
  <2>1. /\ \A q \in Procs \ {p}, u \in Tasks : task'[q][u] = task[q][u]
        /\ task'[p][t] = where
        /\ \A u \in Tasks \ {t} : task'[p][u] = task[p][u]
    BY <1>0, <1>5, Moves
  <2>2. \A q \in Procs \ {p} : lock'[q] = lock[q] /\ held'[q] = held[q] /\ lock[q] \in Tasks \union {Nobody}
    BY <1>0, <1>5 DEF TokensTyped
  <2>3. \A u \in Tasks : Renewing(task'[p][u]) => held'[p] \in expired /\ lock'[p] = u
    <3>1. ASSUME NEW u \in Tasks \ {t}, Renewing(task[p][u])
          PROVE  held'[p] \in expired /\ lock'[p] = u
      <4>1. lock[p] = u /\ u # Nobody
        BY <1>0, <3>1
      <4> QED BY <1>0, <1>5, <3>1, <4>1
    <3> QED BY <1>5, <2>1, <3>1
  <2>4. lock'[p] # Nobody => Renewing(task'[p][lock'[p]])
    BY <1>0, <1>5, <2>1 DEF TokensTyped
  <2>5. \A q \in Procs \ {p} : lock[q] # Nobody => Renewing(task'[q][lock[q]])
    BY <1>0, <2>1, <2>2
  <2> QED BY <1>0, <1>5, <2>1, <2>2, <2>3, <2>4, <2>5 DEF LockInv
<1>6. ASSUME NEW p \in Procs, NEW t \in Tasks, Request(p, t) PROVE LockInv'
  <2>1. \E where \in {"waiting", "idle"} : Goes(p, t, where)
    BY <1>6 DEF Request
  <2> QED BY <1>5, <1>6, <2>1 DEF Request, Places
<1>7. ASSUME NEW p \in Procs, NEW t \in Tasks, Locks(p, t) PROVE LockInv'
  <2>1. CASE held[p] \in expired
    <3>1. lock' = [lock EXCEPT ![p] = t] /\ lock'[p] = t /\ Goes(p, t, "refreshing")
      BY <1>0, <1>7, <2>1 DEF Locks, TokensTyped
    <3> QED BY <1>5, <1>7, <2>1, <3>1 DEF Locks, Places
  <2>2. CASE held[p] \notin expired
    BY <1>5, <1>7, <2>2 DEF Locks, Places
  <2> QED BY <2>1, <2>2
<1>8. ASSUME NEW p \in Procs, NEW t \in Tasks, RefusesTrade(p, t) \/ Renewed(p, t) PROVE LockInv'
  <2>1. /\ lock' = [lock EXCEPT ![p] = Nobody] /\ lock'[p] = Nobody
        /\ Goes(p, t, "idle") /\ expired' = expired /\ Renewing(task[p][t])
        /\ held' = held \/ \E pair : held' = [held EXCEPT ![p] = pair]
    BY <1>0, <1>8 DEF RefusesTrade, Renewed, TokensTyped
  <2> QED BY <1>5, <2>1 DEF Places
<1>9. ASSUME NEW p \in Procs, NEW t \in Tasks, NEW lost \in BOOLEAN, Trades(p, t, lost) PROVE LockInv'
  <2>1. Renewing(task[p][t]) /\ expired' = expired /\ held' = held /\ held[p] \in expired /\ lock[p] = t
    BY <1>0, <1>9 DEF Trades
  <2>2. CASE lost
    <3>1. lock' = [lock EXCEPT ![p] = Nobody] /\ lock'[p] = Nobody /\ Goes(p, t, "idle")
      BY <1>0, <1>9, <2>2 DEF Trades, TokensTyped
    <3> QED BY <1>5, <2>1, <3>1 DEF Places
  <2>3. CASE ~lost
    BY <1>5, <1>9, <2>1, <2>3 DEF Trades, Places
  <2> QED BY <2>2, <2>3
<1>10. UNCHANGED vars \/ Expires => UNCHANGED <<held, lock, task>> /\ expired \subseteq expired'
  BY DEF vars, Expires
<1>11. \A p \in Procs : \/ OpenTemp(p) \/ WriteTemp(p) \/ Rename(p) \/ SaveReturns(p)
                       \/ Login(p) \/ StartSignIn(p) \/ SignInFails(p)
         => UNCHANGED <<held, lock, task>> /\ expired \subseteq expired'
  BY DEF OpenTemp, WriteTemp, Rename, SaveReturns, Login, StartSignIn, SignInFails, tokenVars
<1>12. \A p \in Procs, x \in Providers :
         Forget(p, x) => UNCHANGED <<held, lock, task>> /\ expired \subseteq expired'
  BY DEF Forget, tokenVars
<1>13. \A p \in Procs : SignedIn(p) => UNCHANGED <<held, lock, task>> /\ expired \subseteq expired'
  BY DEF SignedIn
<1> QED
  BY <1>1, <1>3, <1>4, <1>6, <1>7, <1>8, <1>9, <1>10, <1>11, <1>12, <1>13 DEF Next

-----------------------------------------------------------------------------
(* Saves: alone, a save changes one entry, and all of it at once.            *)

\* Every step keeps what is known of saves that do not overlap.
LEMMA StepSave ==
  ASSUME Names, Typed, PairsInv, SaveInv, [Next]_vars
  PROVE  SaveInv'
<1>0. /\ FilesTyped /\ MaxFiles \in Nat /\ (temp = 0 \/ temp # auth)
      /\ \A p \in Procs : save[p] \in Row
      /\ \A p \in Procs : save[p].store # Unreadable
  <2>1. \A p \in Procs : Known(save[p].store, issued) /\ Torn \notin 0..issued
    BY DEF PairsInv, Typed, TokensTyped, Torn, Names
  <2>2. Unreadable["codex"] = {Torn} /\ "codex" \in Providers
    BY DEF Unreadable, Providers
  <2>3. \A p \in Procs : save[p].store # Unreadable
    BY <2>1, <2>2 DEF Known
  <2> QED BY <2>3 DEF Typed, FilesTyped, SaveInv, Names
<1>1. CASE UNCHANGED fileVars
  BY <1>1 DEF SaveInv, fileVars, Saving, Readable, NearlySame, Content
<1>2. ASSUME NEW p \in Procs, ~overlapped, Saving(p)
      PROVE  /\ \A q \in Procs \ {p} : save[q].pc = "none"
             /\ auth # 0 => Readable(auth)
  BY <1>2 DEF SaveInv, Saving
<1>3. ASSUME NEW p \in Procs, OpenTemp(p) PROVE SaveInv'
  <2>1. temp' \in 1..MaxFiles /\ temp' # auth /\ auth' = auth /\ overlapped' = overlapped
    BY <1>0, <1>3 DEF OpenTemp, Unused, FilesTyped
  <2>2. /\ save'[p].pc = "write" /\ save'[p].file = temp' /\ save'[p].store = save[p].store
        /\ \A q \in Procs \ {p} : save'[q] = save[q]
    <3>1. save' = [save EXCEPT ![p] = [save[p] EXCEPT !.pc = "write", !.file = temp']]
      BY <1>3 DEF OpenTemp
    <3> QED BY <1>0, <3>1 DEF FilesTyped, Row
  <2>3. auth # 0 => disk'[auth] = disk[auth]
    BY <1>0, <1>3, <2>1 DEF OpenTemp, FilesTyped
  <2>4. CASE overlapped
    BY <2>1, <2>4 DEF SaveInv
  <2>5. CASE ~overlapped
    <3>1. Saving(p) /\ save[p].pc = "open"
      BY <1>3 DEF OpenTemp, Saving
    <3>2. \A q \in Procs \ {p} : save'[q].pc = "none"
      BY <1>2, <2>2, <2>5, <3>1
    <3>3. \E x \in Providers : \A y \in Providers \ {x} : save'[p].store[y] = Content(auth)[y]
      BY <2>2, <2>5, <3>1 DEF SaveInv, NearlySame
    <3>4. Content(auth)' = Content(auth) /\ (auth # 0 => Readable(auth)')
      BY <1>2, <2>1, <2>3, <2>5, <3>1 DEF Content, Readable
    <3> QED BY <2>1, <2>2, <3>2, <3>3, <3>4 DEF SaveInv, Saving, NearlySame
  <2> QED BY <2>4, <2>5
<1>4. ASSUME NEW p \in Procs, WriteTemp(p) PROVE SaveInv'
  <2>1. UNCHANGED <<auth, temp, overlapped>>
    BY <1>4 DEF WriteTemp
  <2>2. /\ save'[p].pc = "rename" /\ save'[p].file = save[p].file /\ save'[p].store = save[p].store
        /\ \A q \in Procs \ {p} : save'[q] = save[q]
    <3>1. save' = [save EXCEPT ![p] = [save[p] EXCEPT !.pc = "rename"]]
      BY <1>4 DEF WriteTemp
    <3> QED BY <1>0, <3>1 DEF FilesTyped, Row
  <2>3. CASE overlapped
    BY <1>0, <2>1, <2>3 DEF SaveInv
  <2>4. CASE ~overlapped
    <3>1. Saving(p) /\ save[p].pc = "write" /\ temp # 0 /\ save[p].file = temp /\ temp # auth
      BY <1>4, <2>4 DEF WriteTemp, Saving, SaveInv
    <3>2. \A q \in Procs \ {p} : save'[q].pc = "none"
      BY <1>2, <2>2, <2>4, <3>1
    <3>3. disk'[temp] = save[p].store /\ (auth # 0 => disk'[auth] = disk[auth])
      BY <1>0, <1>4, <3>1 DEF WriteTemp, FilesTyped
    <3>4. \E x \in Providers : \A y \in Providers \ {x} : save'[p].store[y] = Content(auth)[y]
      BY <2>2, <2>4, <3>1 DEF SaveInv, NearlySame
    <3>5. Content(auth)' = Content(auth) /\ (auth # 0 => Readable(auth)')
      BY <1>2, <2>1, <2>4, <3>1, <3>3 DEF Content, Readable
    <3> QED BY <2>1, <2>2, <3>1, <3>2, <3>3, <3>4, <3>5 DEF SaveInv, Saving, NearlySame
  <2> QED BY <2>3, <2>4
<1>5. ASSUME NEW p \in Procs, Rename(p) PROVE SaveInv'
  <2>1. temp' = 0 /\ overlapped' = overlapped /\ disk' = disk
    BY <1>5 DEF Rename
  <2>2. CASE overlapped
    BY <2>1, <2>2 DEF SaveInv
  <2>3. CASE ~overlapped
    <3>1. Saving(p) /\ temp # 0 /\ auth' = temp /\ disk[temp] # Unreadable
      BY <1>0, <1>5, <2>3 DEF Rename, Saving, SaveInv
    <3>2. save'[p].pc = "done" /\ \A q \in Procs \ {p} : save'[q].pc = "none"
      <4>1. save' = [save EXCEPT ![p] = [save[p] EXCEPT !.pc = "done", !.file = 0]]
        BY <1>5 DEF Rename
      <4> QED BY <1>0, <1>2, <2>3, <3>1, <4>1 DEF FilesTyped, Row
    <3> QED BY <2>1, <3>1, <3>2 DEF SaveInv, Saving, Readable
  <2> QED BY <2>2, <2>3
<1>6. ASSUME NEW p \in Procs, save' = [save EXCEPT ![p] = NoSave], UNCHANGED <<disk, auth, temp, overlapped>>
      PROVE  SaveInv'
  <2>1. save'[p].pc = "none" /\ \A q \in Procs \ {p} : save'[q] = save[q]
    BY <1>0, <1>6 DEF FilesTyped, NoSave
  <2> QED BY <1>6, <2>1 DEF SaveInv, Saving, Readable, NearlySame, Content
<1>7. ASSUME NEW p \in Procs, NEW store, NEW next, NEW x \in Providers,
             WriteBack(p, store, next), Overlaps(p), UNCHANGED <<disk, auth, temp>>,
             auth = 0 \/ Readable(auth) => \A y \in Providers \ {x} : store[y] = Content(auth)[y]
      PROVE  SaveInv'
  <2>1. /\ save'[p].pc = "open" /\ save'[p].store = store
        /\ \A q \in Procs \ {p} : save'[q] = save[q]
    BY <1>0, <1>7 DEF WriteBack, FilesTyped
  <2>2. CASE overlapped'
    BY <1>0, <1>7, <2>2 DEF SaveInv
  <2>3. CASE ~overlapped'
    <3>1. ~overlapped /\ \A q \in Procs \ {p} : save[q].pc = "none"
      BY <1>7, <2>3 DEF Overlaps, Saving
    <3>2. auth # 0 => Readable(auth)
      BY <3>1 DEF SaveInv
    <3>3. (NearlySame(store, x) /\ Content(auth)' = Content(auth))
      BY <1>7, <3>2 DEF NearlySame, Content
    <3> QED BY <1>0, <1>7, <2>1, <3>1, <3>2, <3>3 DEF SaveInv, Saving, NearlySame, Readable
  <2> QED BY <2>2, <2>3
<1>8. ASSUME NEW p \in Procs, NEW x \in Providers, NEW n, NEW next, BeginSave(p, x, n, next),
             UNCHANGED <<disk, auth, temp>>
      PROVE  SaveInv'
  <2> DEFINE new == [read_store EXCEPT ![x] = {n}]
  <2>1. auth = 0 \/ Readable(auth) => \A y \in Providers \ {x} : new[y] = Content(auth)[y]
    <3>1. read_store \in Stores /\ (auth = 0 \/ Readable(auth) => read_store = Content(auth))
      BY ReadStore DEF read_store, Content, Readable
    <3> QED BY <3>1 DEF Stores
  <2> QED BY <1>7, <1>8, <2>1 DEF BeginSave
<1>9. ASSUME NEW p \in Procs, NEW x \in Providers, Forget(p, x) PROVE SaveInv'
  <2> DEFINE left == [disk[auth] EXCEPT ![x] = {}]
  <2>1. CASE left = EmptyStore
    <3>1. auth' = 0 /\ UNCHANGED <<save, disk, temp>> /\ ~Saving(p) /\ Overlaps(p)
      BY <1>9, <2>1 DEF Forget
    <3>2. ~overlapped' => \A q \in Procs : save'[q].pc = "none"
      BY <3>1 DEF Overlaps, Saving
    <3> QED BY <3>1, <3>2 DEF SaveInv, Saving
  <2>2. CASE left # EmptyStore
    <3>1. WriteBack(p, left, "none") /\ UNCHANGED <<disk, auth, temp>> /\ Overlaps(p) /\ Readable(auth)
      BY <1>9, <2>2 DEF Forget
    <3>2. \A y \in Providers \ {x} : left[y] = Content(auth)[y]
      BY <3>1, ReadStore DEF Content, Readable, Stores
    <3> QED BY <1>7, <3>1, <3>2
  <2> QED BY <2>1, <2>2
<1>10. ASSUME NEW p \in Procs, SaveReturns(p) \/ Killed(p) PROVE SaveInv'
  BY <1>6, <1>10 DEF SaveReturns, Killed
<1>11. ASSUME NEW p \in Procs, Login(p) \/ SignedIn(p) PROVE SaveInv'
  BY <1>8, <1>11 DEF Login, SignedIn, Providers
<1>12. ASSUME NEW p \in Procs, NEW t \in Tasks, Renewed(p, t) PROVE SaveInv'
  BY <1>6, <1>12 DEF Renewed
<1>13. ASSUME NEW p \in Procs, NEW t \in Tasks, NEW lost \in BOOLEAN, Trades(p, t, lost) PROVE SaveInv'
  <2>1. CASE lost
    BY <1>1, <1>13, <2>1 DEF Trades, fileVars
  <2>2. CASE ~lost
    BY <1>8, <1>13, <2>2 DEF Trades, Providers
  <2> QED BY <2>1, <2>2
<1>14. UNCHANGED vars \/ Expires => UNCHANGED fileVars
  BY DEF vars, Expires, fileVars
<1>15. \A p \in Procs : Build(p) \/ StartSignIn(p) \/ SignInFails(p) => UNCHANGED fileVars
  BY DEF Build, StartSignIn, SignInFails
<1>16. \A p \in Procs, t \in Tasks : Request(p, t) \/ Locks(p, t) \/ RefusesTrade(p, t) => UNCHANGED fileVars
  BY DEF Request, Locks, RefusesTrade
<1> QED
  BY <1>1, <1>3, <1>4, <1>5, <1>9, <1>10, <1>11, <1>12, <1>13, <1>14, <1>15, <1>16 DEF Next

-----------------------------------------------------------------------------
(* The theorems.                                                             *)

\* The invariant holds in every reachable state.
LEMMA AlwaysInv ==
  ASSUME Names
  PROVE  Spec => []Inv
<1>1. Init => Inv
  BY InitInv
<1>2. Inv /\ [Next]_vars => Inv'
  BY StepFiles, StepTokens, StepPairs, StepLocks, StepSave DEF Inv, Typed
<1> QED BY <1>1, <1>2, PTL DEF Spec

\* responses/mod.rs usable(): whoever trades a refresh token holds the lock and
\* does it for an expired pair, so requests that all saw it expire spend one.
THEOREM OneRenewalPerPair ==
  ASSUME Names
  PROVE  Spec => []RenewsOnlyExpired
<1>1. Inv => RenewsOnlyExpired
  BY DEF Inv, LockInv, RenewsOnlyExpired
<1> QED BY <1>1, AlwaysInv, PTL

\* auth.rs write_store: a process killed anywhere in a save leaves a file that can
\* be read, and a save changes one provider's entry, unless two saves overlapped.
THEOREM SavesAloneAreAtomic ==
  ASSUME Names
  PROVE  Spec => []AloneIsAtomic
<1>1. Inv => AloneIsAtomic
  <2> SUFFICES ASSUME Inv, ~overlapped PROVE AloneIsAtomic
    BY DEF AloneIsAtomic
  <2>1. auth # 0 => Readable(auth)
    BY DEF Inv, SaveInv
  <2>2. ASSUME NEW p \in Procs, save[p].pc \in {"open", "write", "rename"}
        PROVE  Cardinality({provider \in Providers : save[p].store[provider] # Content(auth)[provider]}) <= 1
    <3>1. PICK x \in Providers : NearlySame(save[p].store, x)
      BY <2>2 DEF Inv, SaveInv
    <3>2. {provider \in Providers : save[p].store[provider] # Content(auth)[provider]} \in {{}, {x}}
      BY <3>1 DEF NearlySame
    <3>3. Cardinality({}) = 0 /\ Cardinality({x}) = 1
      BY FS_EmptySet, FS_Singleton
    <3> QED BY <3>2, <3>3
  <2> QED BY <2>1, <2>2 DEF AloneIsAtomic
<1> QED BY <1>1, AlwaysInv, PTL

\* The types of the credential files, of the pairs and of who uses them.
THEOREM AuthTypes ==
  ASSUME Names
  PROVE  Spec => []TypeOK
<1>1. Inv => TypeOK
  BY DEF Inv, Typed, FilesTyped, TokensTyped, PairsInv, LockInv, TypeOK
<1> QED BY <1>1, AlwaysInv, PTL
=============================================================================
