----------------------------- MODULE Remembered -----------------------------
(***************************************************************************)
(* What the desktop window remembers of how it was looking at things: its  *)
(* open tabs and its sizes, kept in one file.  The webview asks for it     *)
(* once, holds the tabs back until a first snapshot says what still        *)
(* exists, and sends everything a moment after any of it changes; each     *)
(* save is a command of its own, and all of them write the file through    *)
(* one temporary name.                                                     *)
(***************************************************************************)
EXTENDS Naturals, FiniteSets

CONSTANTS
    Tabs,        \* the things a tab can be of
    MaxSaves,    \* bound on the saves
    MaxWindows   \* bound on the windows opened

VARIABLES
    content,     \* the files that were made: 0 is the one that was there before
    file, tmp,   \* which of them has the name, and which the temporary name
    exists,      \* the sessions, terminals, groups and projects there are
    window,      \* whether a window is open
    restored,    \* it has read the file
    waiting,     \* the tabs it read wait for a first snapshot
    pending,     \* those tabs
    seen,        \* a snapshot has come
    tabs,        \* the tabs it has open
    timer,       \* something changed a moment ago
    saves,       \* saves under way: what each writes, how far it is, and where
    started,     \* saves started so far
    windows,     \* windows opened so far
    safe,        \* tabs some save was told it has kept, that are neither closed nor gone
    early,       \* the tabs were overtaken before they were back
    met          \* two saves were under way at once

disk == <<content, file, tmp>>
looking == <<window, restored, waiting, pending, seen, tabs>>
vars == <<content, file, tmp, exists, window, restored, waiting, pending, seen, tabs, timer,
          saves, started, windows, safe, early, met>>

None == MaxSaves + 1
Empty == [kind |-> "empty", sizes |-> "ok", tabs |-> {}]
Mixed == [kind |-> "mixed", sizes |-> "ok", tabs |-> {}]
Written(ts) == [kind |-> "whole", sizes |-> "ok", tabs |-> ts]

\* A reader for whom one bad field spoils the file.
salvageWhole(c) == IF c.sizes = "bad" THEN {} ELSE c.tabs
\* Each field that has its shape; the others are what they are in a new window.
salvage(c) == c.tabs
load == IF file = None \/ content[file].kind # "whole" THEN {} ELSE salvage(content[file])

-----------------------------------------------------------------------------
(* There may be a file of an earlier window; a field of it may be damaged. *)
Init ==
    /\ exists \in SUBSET Tabs
    /\ \/ file = 0 /\ \E ts \in SUBSET Tabs, sizes \in {"ok", "bad"} :
              content = [i \in 0..MaxSaves |-> IF i = 0 THEN [Written(ts) EXCEPT !.sizes = sizes] ELSE Empty]
       \/ file = None /\ content = [i \in 0..MaxSaves |-> Empty]
    /\ tmp = None /\ saves = {} /\ started = 0 /\ windows = 0
    /\ window = FALSE /\ restored = FALSE /\ waiting = FALSE /\ pending = {} /\ seen = FALSE
    /\ tabs = {} /\ timer = FALSE /\ early = FALSE /\ met = FALSE
    /\ safe = IF file = 0 THEN content[0].tabs \intersect exists ELSE {}

OpenWindow ==
    /\ ~window /\ windows < MaxWindows
    /\ window' = TRUE /\ windows' = windows + 1
    /\ restored' = FALSE /\ waiting' = FALSE /\ pending' = {} /\ seen' = FALSE /\ tabs' = {} /\ timer' = FALSE
    /\ UNCHANGED <<disk, exists, saves, started, safe, early, met>>

\* The window closes or is killed; its saves stop where they are.
Close ==
    /\ window /\ window' = FALSE /\ saves' = {} /\ timer' = FALSE
    /\ UNCHANGED <<disk, exists, restored, waiting, pending, seen, tabs, started, windows, safe, early, met>>

\* The remembered tabs come back, those that still exist, unless a tab is open.
Back(ts) == IF tabs = {} THEN ts \intersect exists ELSE tabs
Overtaken(ts) == tabs # {} /\ ts # {}

\* Reading it changes sizes and layouts, so a save is due a moment later.
ReadsFile ==
    /\ window /\ ~restored
    /\ restored' = TRUE /\ timer' = TRUE
    /\ IF seen
       THEN tabs' = Back(load) /\ early' = (early \/ Overtaken(load)) /\ UNCHANGED <<waiting, pending>>
       ELSE waiting' = TRUE /\ pending' = load /\ UNCHANGED <<tabs, early>>
    /\ UNCHANGED <<disk, exists, window, seen, saves, started, windows, safe, met>>

FirstSnapshot ==
    /\ window /\ ~seen /\ seen' = TRUE
    /\ IF waiting
       THEN /\ tabs' = Back(pending) /\ early' = (early \/ Overtaken(pending))
            /\ timer' = (timer \/ tabs' # tabs)
       ELSE UNCHANGED <<tabs, early, timer>>
    /\ waiting' = FALSE /\ pending' = {}
    /\ UNCHANGED <<disk, exists, window, restored, saves, started, windows, safe, met>>

\* A person opens something on the list, or starts something new, for which no
\* list is needed.
OpenTab(t) ==
    /\ window /\ t \notin tabs /\ (t \in exists => seen)
    /\ tabs' = tabs \union {t} /\ exists' = exists \union {t}
    /\ timer' = restored
    /\ UNCHANGED <<disk, window, restored, waiting, pending, seen, saves, started, windows, safe, early, met>>
CloseTab(t) ==
    /\ window /\ t \in tabs
    /\ tabs' = tabs \ {t} /\ timer' = restored /\ safe' = safe \ {t}
    /\ UNCHANGED <<disk, exists, window, restored, waiting, pending, seen, saves, started, windows, early, met>>
Gone(t) ==
    /\ t \in exists /\ exists' = exists \ {t} /\ safe' = safe \ {t}
    /\ UNCHANGED <<disk, looking, timer, saves, started, windows, early, met>>

(* ---- a save ---- *)

\* What is open now is sent; tabs that are held back are not among it.
Fire ==
    /\ window /\ timer /\ started < MaxSaves
    /\ started' = started + 1 /\ timer' = FALSE
    /\ saves' = saves \union {[id |-> started', tabs |-> tabs, at |-> "open", to |-> None]}
    /\ early' = (early \/ (waiting /\ pending # {})) /\ met' = (met \/ saves # {})
    /\ UNCHANGED <<disk, exists, looking, windows, safe>>

Goes(s, at, to) == saves' = (saves \ {s}) \union {[s EXCEPT !.at = at, !.to = to]}
\* A save that writes the file itself.
TargetInPlace(s) == IF file = None THEN s.id ELSE file
\* The file a save opens: the one with the temporary name, emptied, or a new one.
Target(s) == IF tmp = None THEN s.id ELSE tmp
OpenTmp(s) ==
    /\ s.at = "open" /\ Goes(s, "write", Target(s))
    /\ content' = [content EXCEPT ![Target(s)] = Empty] /\ tmp' = Target(s)
    /\ UNCHANGED <<file, exists, looking, timer, started, windows, safe, early, met>>

\* Two saves in one file: the longer of the two shows behind the other.
WriteTmp(s) ==
    /\ s.at = "write" /\ Goes(s, "rename", s.to)
    /\ \E c \in IF content[s.to].kind = "empty" THEN {Written(s.tabs)} ELSE {Written(s.tabs), Mixed} :
          content' = [content EXCEPT ![s.to] = c]
    /\ UNCHANGED <<file, tmp, exists, looking, timer, started, windows, safe, early, met>>

\* The rename takes whatever has the temporary name; where nothing has, the save
\* fails and the webview lets it.
Rename(s) ==
    /\ s.at = "rename" /\ saves' = saves \ {s}
    /\ IF tmp = None THEN UNCHANGED <<file, tmp, safe>>
       ELSE file' = tmp /\ tmp' = None /\ safe' = safe \union (s.tabs \intersect exists \intersect tabs)
    /\ UNCHANGED <<content, exists, looking, timer, started, windows, early, met>>

Next ==
    \/ OpenWindow \/ Close \/ ReadsFile \/ FirstSnapshot \/ Fire
    \/ \E t \in Tabs : OpenTab(t) \/ CloseTab(t) \/ Gone(t)
    \/ \E s \in saves : OpenTmp(s) \/ WriteTmp(s) \/ Rename(s)

Spec == Init /\ [][Next]_vars

-----------------------------------------------------------------------------
TypeOK ==
    /\ file \in 0..MaxSaves \union {None} /\ tmp \in 0..MaxSaves \union {None}
    /\ \A s \in saves : s.at \in {"open", "write", "rename"} /\ s.id \in 1..started
    /\ {tabs, pending, exists, safe} \subseteq SUBSET Tabs
    /\ waiting => restored /\ ~seen
    /\ saves # {} \/ timer => window

Lost(ts) == file = None \/ content[file].kind # "whole" \/ ~(ts \subseteq content[file].tabs)

\* A tab that was saved is on the disk and in the window until it is closed or its
\* thing is gone: a window that dies in the middle of a save, a damaged field and a
\* new window in between do not cost it.  Two things do: saves that meet under the
\* temporary name, and a window that sends what it shows before the tabs are back,
\* or has another tab open by then (window_state.rs:3, App.tsx:438).
TabsAreKept ==
    ~early /\ ~met =>
        /\ safe # {} => ~Lost(safe)
        /\ window /\ restored /\ seen => safe \subseteq tabs

\* What window_state.rs:3 says: they were lost on every restart, and are kept here.
TabsComeBack == ~met => (window /\ restored /\ seen => safe \subseteq tabs)

\* A file that is written whole is read whole, whoever saves beside whom.
FileIsWhole == file # None => content[file].kind = "whole"
=============================================================================
