------------------------------ MODULE Connect ------------------------------
(***************************************************************************)
(* The quota tray's credentials: one config file, and the three commands   *)
(* that load it, change it and write it back (axio-quota, src/config.rs,   *)
(* app/commands.rs save_settings, app/connect.rs capture), each on a       *)
(* thread of its own, next to a settings page that edits an older copy.    *)
(*                                                                         *)
(* An entry is the credential on file for a provider ("none", "pasted" by  *)
(* hand, or the cookies of a "session" or of an unfinished "handshake")    *)
(* and whether the fields of other CodexBar clients are still in it.       *)
(***************************************************************************)
EXTENDS Naturals, FiniteSets

CONSTANTS
    Providers,     \* the providers one signs in to through a window
    MaxSaves,      \* bound: saves of the settings page
    MaxCaptures,   \* bound: polls that reach the proof
    MaxAccidents   \* bound: damaging the file by hand or by a killed write

VARIABLES
    file,          \* the config file: [state, entries]
    page,          \* the settings page: the credentials it shows, or blank
    edited,        \* the providers whose field was typed into on that page
    window,        \* the provider whose sign-in window is open, or "none"
    jar,           \* the cookies the webview holds for each provider's origin
    saving,        \* save_settings under way: what it loaded, or Idle
    capturing,     \* capture under way: its step, provider, header and load
    saves, captures, accidents,      \* the bounds' counters
    told           \* ghost: what the user last gave, and what disturbed it

vars == <<file, page, edited, window, jar, saving, capturing,
          saves, captures, accidents, told>>

Credentials == {"none", "pasted", "session", "handshake"}
Entry(credential, extras) == [credential |-> credential, extras |-> extras]
Fresh == [p \in Providers |-> Entry("none", FALSE)]
Blank == [p \in {} |-> "none"]
Idle == [step |-> "idle", id |-> "none", header |-> "none", read |-> Fresh]

(* Config::load with the callers' unwrap_or_default: a file that does not  *)
(* parse reads as a first run.                                             *)
LoadOrDefault == IF file.state = "whole" THEN file.entries ELSE Fresh

(* What save_settings and capture do to an entry: the field is set and the *)
(* rest of the entry kept.                                                 *)
PatchedAfresh(entries, changed) ==      \* a mutant's: the entry rebuilt
    [p \in Providers |-> IF p \in DOMAIN changed THEN Entry(changed[p], FALSE)
                         ELSE entries[p]]
Patched(entries, changed) ==
    [p \in Providers |-> IF p \in DOMAIN changed
                         THEN [entries[p] EXCEPT !.credential = changed[p]]
                         ELSE entries[p]]

Disturbed(by) == told' = [told EXCEPT !.disturbed = @ \/ by]

---------------------------------------------------------------------------
(* commands::settings: the page takes its copy of the file.                *)
OpenPage ==
    /\ page = Blank
    /\ page' = [p \in Providers |-> LoadOrDefault[p].credential]
    /\ edited' = {}
    /\ UNCHANGED <<file, window, jar, saving, capturing, saves, captures, accidents, told>>

Paste(p) ==
    /\ page # Blank /\ p \notin edited
    /\ page' = [page EXCEPT ![p] = "pasted"]
    /\ edited' = edited \cup {p}
    /\ UNCHANGED <<file, window, jar, saving, capturing, saves, captures, accidents, told>>

(* save_settings: Config::load, ...                                        *)
SaveReads ==
    /\ page # Blank /\ saving = Idle /\ saves < MaxSaves
    /\ saving' = [Idle EXCEPT !.step = "loaded", !.read = LoadOrDefault]
    /\ saves' = saves + 1
    /\ UNCHANGED <<file, page, edited, window, jar, capturing, captures, accidents, told>>

(* ... every provider's field set from the page, and Config::save.         *)
SaveWrites ==
    /\ saving # Idle
    /\ file' = [state |-> "whole", entries |-> Patched(saving.read, page)]
    /\ saving' = Idle
    /\ page' = Blank
    /\ told' = [told EXCEPT
           !.given = [p \in Providers |-> IF p \in edited THEN page[p] ELSE @[p]],
           !.disturbed = @ \/ capturing.step = "loaded" \/ told.behind # {},
           !.behind = {}]
    /\ UNCHANGED <<edited, window, jar, capturing, saves, captures, accidents>>

---------------------------------------------------------------------------
(* connect::open: one window, so a second sign-in takes the first's.       *)
Open(p) ==
    /\ window # p
    /\ window' = p
    /\ UNCHANGED <<file, page, edited, jar, saving, capturing, saves, captures, accidents, told>>

(* The page sets its cookies: some named like the session's while the      *)
(* handshake is still in flight, the session's once the user signed in.    *)
SetsCookie(p) ==
    /\ window = p
    /\ jar' = [jar EXCEPT ![p] = IF @ = "none" THEN "handshake" ELSE "session"]
    /\ jar' # jar
    /\ UNCHANGED <<file, page, edited, window, saving, capturing, saves, captures, accidents, told>>

CloseWindow ==
    /\ window # "none"
    /\ window' = "none"
    /\ UNCHANGED <<file, page, edited, jar, saving, capturing, saves, captures, accidents, told>>

(* try_capture and capture: a window must be open, and the cookies must    *)
(* hold one of the provider's session names; the poll asks for the         *)
(* provider whose button was pressed.                                      *)
CaptureReads(p) ==
    /\ capturing = Idle /\ captures < MaxCaptures
    /\ window # "none"
    /\ jar[p] # "none"
    /\ capturing' = [Idle EXCEPT !.step = "proving", !.id = p, !.header = jar[p]]
    /\ captures' = captures + 1
    /\ UNCHANGED <<file, page, edited, window, jar, saving, saves, accidents, told>>

(* proves_signed_in: only Unauthorized means not yet.  An unreachable      *)
(* provider passes for a session it recognised.                            *)
AcceptedByName(header, reached) == TRUE       \* a mutant's: the name is proof
Accepted(header, reached) == ~reached \/ header = "session"

CaptureProves ==
    /\ capturing.step = "proving"
    /\ \E reached \in BOOLEAN :
           IF Accepted(capturing.header, reached)
           THEN /\ capturing' = [capturing EXCEPT !.step = "loaded", !.read = LoadOrDefault]
                /\ told' = [told EXCEPT !.unreached = @ \/ ~reached,
                                        !.disturbed = @ \/ saving # Idle]
           ELSE /\ capturing' = Idle
                /\ UNCHANGED told
    /\ UNCHANGED <<file, page, edited, window, jar, saving, saves, captures, accidents>>

(* ... Config::save; then whichever window is open is closed.              *)
CaptureWrites ==
    /\ capturing.step = "loaded"
    /\ LET p == capturing.id
       IN  /\ file' = [state |-> "whole",
                       entries |-> Patched(capturing.read, [q \in {p} |-> capturing.header])]
           /\ told' = [told EXCEPT !.given = [@ EXCEPT ![p] = capturing.header],
                                   !.behind = IF page = Blank THEN {} ELSE @ \cup {p}]
    /\ capturing' = Idle
    /\ window' = "none"
    /\ UNCHANGED <<page, edited, jar, saving, saves, captures, accidents>>

---------------------------------------------------------------------------
(* The file edited by hand into something that does not parse, or a save   *)
(* killed half-way: Config::save writes in place.                          *)
Damage ==
    /\ accidents < MaxAccidents
    /\ file.state = "whole"
    /\ file' = [file EXCEPT !.state = "damaged"]
    /\ accidents' = accidents + 1
    /\ Disturbed(TRUE)
    /\ UNCHANGED <<page, edited, window, jar, saving, capturing, saves, captures>>

Init ==
    /\ file = [state |-> "whole", entries |-> [p \in Providers |-> Entry("none", TRUE)]]
    /\ page = Blank /\ edited = {}
    /\ window = "none"
    /\ jar = [p \in Providers |-> "none"]
    /\ saving = Idle /\ capturing = Idle
    /\ saves = 0 /\ captures = 0 /\ accidents = 0
    /\ told = [given |-> [p \in Providers |-> "none"], behind |-> {},
               disturbed |-> FALSE, unreached |-> FALSE]

Next ==
    \/ OpenPage \/ SaveReads \/ SaveWrites
    \/ CloseWindow \/ CaptureProves \/ CaptureWrites \/ Damage
    \/ \E p \in Providers : Paste(p) \/ Open(p) \/ SetsCookie(p) \/ CaptureReads(p)

Spec == Init /\ [][Next]_vars

---------------------------------------------------------------------------
TypeOK ==
    /\ file.state \in {"whole", "damaged"}
    /\ \A p \in Providers : file.entries[p].credential \in Credentials
    /\ page = Blank \/ DOMAIN page = Providers
    /\ window \in Providers \cup {"none"}
    /\ saving.step \in {"idle", "loaded"}
    /\ capturing.step \in {"idle", "proving", "loaded"}

(* Commands that do not overlap, on a file nothing damaged, from a page    *)
(* that is not older than a capture, keep every credential given and every *)
(* field of another client.                                                *)
NothingIsForgotten ==
    ~told.disturbed => \A p \in Providers :
        file.entries[p].credential = told.given[p] /\ file.entries[p].extras

(* Cookies of a handshake in flight are taken for a credential only if the *)
(* provider could not be asked.                                            *)
OnlyASessionIsCaptured ==
    ~told.unreached => \A p \in Providers : file.entries[p].credential # "handshake"

(* Said of the code, and not so.  config.rs, Config::load: a malformed     *)
(* file is an error because replacing it with defaults "would throw away   *)
(* the user's API keys".                                                   *)
DamageKeepsTheKeys ==
    [][file.state = "damaged" /\ file'.state = "whole"
         => \A p \in Providers : file.entries[p].extras => file'.entries[p].extras]_vars
============================================================================
