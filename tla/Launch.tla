------------------------------- MODULE Launch -------------------------------
(***************************************************************************)
(* From a command line, or a supervisor's request, to an agent: the        *)
(* sandbox, the provider, the session opened or resumed, the model it is   *)
(* asked under, the recorder and what the user is told                     *)
(* (axio, src/lib.rs confine, src/provider.rs, src/sessions.rs,            *)
(* src/surfaces/mod.rs prepare_with_provider, src/factory.rs).             *)
(*                                                                         *)
(* One launch is one behaviour; Init is every request on every state       *)
(* directory.  The steps are the code's, in its order.                     *)
(***************************************************************************)
EXTENDS Naturals, FiniteSets

CONSTANTS
    Models,        \* models; the configured one is Configured
    Configured,
    Sessions       \* ids on file or typed

VARIABLES
    request,       \* who launches and with which flags
    disk,          \* the state directory: made, writable, the session files
    phase,
    confined,      \* what the sandbox reports, and whether it grants the state
    provider,      \* built, a placeholder that explains, or none yet
    session,       \* the session: its id, its model, whose reasoning it holds
    asked,         \* cfg.model: the model the requests go to
    recorder,      \* "file", "ephemeral" or none yet
    notices,       \* notices collected for the surface
    told,          \* notices that reach the user
    resumedOnFile  \* whether the file says it was resumed, and under what

vars == <<request, disk, phase, confined, provider, session, asked, recorder,
          notices, told, resumedOnFile>>

Surfaces == {"oneshot", "tui", "supervised"}
NoSession == [id |-> "none", model |-> "none", minted |-> "none", holed |-> FALSE]
Nothing == "none"

(* The session files: a model, and whether a part cannot be read.          *)
Stored(model, damage) == [model |-> model, damage |-> damage]
OnFile == {s \in Sessions : disk.files[s].damage # "absent"}

---------------------------------------------------------------------------
(* lib::confine with sandbox::apply.  A path that does not exist when the  *)
(* rules are made is skipped: it is granted nothing.  A partial outcome may  *)
(* have confined the process or not.  Supervised sessions are launched by  *)
(* a process that was never confined; the state directory lies outside the *)
(* workspace, which is granted.                                            *)
Grants == disk.made

Confine ==
    /\ phase = "confine"
    /\ IF request.sandbox /\ request.surface # "supervised"
       THEN \E outcome \in {"enforced", "partial", "unsupported"}, applied \in BOOLEAN :
                /\ outcome # "partial" => applied = (outcome = "enforced")
                /\ confined' = [outcome |-> outcome, grants |-> applied => Grants]
                /\ notices' = notices \cup {<<"sandbox", outcome>>}
       ELSE UNCHANGED <<confined, notices>>
    /\ phase' = "provider"
    /\ UNCHANGED <<request, disk, provider, session, asked, recorder, told, resumedOnFile>>

(* build_provider for one-shot, which fails; build_or_explain for the      *)
(* interface, which starts with a provider that only explains.             *)
Provider ==
    /\ phase = "provider"
    /\ IF request.credential
       THEN provider' = "built" /\ phase' = "open" /\ UNCHANGED <<notices, told>>
       ELSE IF request.surface = "oneshot"
            THEN /\ provider' = Nothing /\ phase' = "failed"
                 /\ told' = told \cup {<<"error", "provider">>} /\ UNCHANGED notices
            ELSE /\ provider' = "explains" /\ phase' = "open"
                 /\ notices' = IF request.surface = "tui"
                               THEN notices \cup {<<"provider", "unavailable">>} ELSE notices
                 /\ UNCHANGED told
    /\ UNCHANGED <<request, disk, confined, session, asked, recorder, resumedOnFile>>

Writable == disk.writable /\ confined.grants
Readable == confined.grants

(* SessionStore::resolve: an id that exists, or the one session its prefix *)
(* fits; `typed` stands for the sessions that what was typed fits.         *)
Fits == request.typed \cap (IF Readable THEN OnFile ELSE {})

Fails(why) ==
    /\ phase' = "failed"
    /\ told' = told \cup {<<"error", why>>}
    /\ UNCHANGED <<session, asked, recorder, notices, resumedOnFile>>

(* open_resumed and the factory's resume: record::load, then the override. *)
Adopted(s) ==
    LET kept == disk.files[s].model
    IN  IF request.override \in {Nothing, kept}
        THEN [id |-> s, model |-> kept, minted |-> kept,
              holed |-> disk.files[s].damage = "holed"]
        ELSE [id |-> s, model |-> request.override, minted |-> Nothing,
              holed |-> disk.files[s].damage = "holed"]

LoadNotices(s) ==
    (IF disk.files[s].damage = "holed" THEN {<<"history", "holed">>} ELSE {})
    \cup (IF request.override \in {Nothing, disk.files[s].model} THEN {}
          ELSE {<<"model", "overridden">>})

(* cfg.adopt_model for a resumed session: it is asked under its own model. *)
AskedForConfigured(s) == Configured       \* a mutant's: cfg keeps its model
AskedFor(s) == s.model

Open ==
    /\ phase = "open"
    /\ IF request.resume
       THEN IF Cardinality(Fits) # 1 THEN Fails("no one session")
            ELSE LET s == CHOOSE t \in Fits : TRUE
                 IN  IF disk.files[s].damage = "unreadable" THEN Fails("cannot resume")
                     ELSE /\ session' = Adopted(s)
                          /\ asked' = AskedFor(session')
                          /\ notices' = notices \cup LoadNotices(s)
                          /\ phase' = "record"
                          /\ UNCHANGED <<recorder, told, resumedOnFile>>
       ELSE /\ session' = [NoSession EXCEPT !.id = "new", !.model = Configured]
            /\ asked' = Configured
            /\ phase' = "record"
            /\ UNCHANGED <<recorder, notices, told, resumedOnFile>>
    /\ UNCHANGED <<request, disk, confined, provider>>

(* new_recorder, recorder_for, SessionFile::reopen: losing the log is no   *)
(* reason to refuse to work, and it is said.  --ephemeral is asked for     *)
(* only of a new session.                                                  *)
SaysNothing(reason) == {}      \* a mutant's: the log is lost silently
Unrecorded(reason) == {<<"unrecorded", reason>>}

Record ==
    /\ phase = "record"
    /\ IF request.ephemeral /\ (~request.resume \/ request.surface = "supervised")
       THEN recorder' = "ephemeral" /\ UNCHANGED <<disk, notices>>
       ELSE IF Writable
            THEN recorder' = "file" /\ disk' = [disk EXCEPT !.made = TRUE] /\ UNCHANGED notices
            ELSE /\ recorder' = "ephemeral"
                 /\ notices' = notices \cup Unrecorded("failed")
                 /\ UNCHANGED disk
    /\ resumedOnFile' =       \* Record::Resumed, from the terminal's surfaces
           IF request.resume /\ request.surface # "supervised" /\ recorder' = "file"
           THEN session.model ELSE resumedOnFile
    /\ phase' = "announce"
    /\ UNCHANGED <<request, confined, provider, session, asked, told>>

(* The scratch directory TMPDIR is pointed at, made without a word if it   *)
(* can be; then Agent::announce with the notices.  The factory's are       *)
(* dropped with its local variable.                                        *)
Announce ==
    /\ phase = "announce"
    /\ disk' = [disk EXCEPT !.scratch = @ \/ (request.sandbox /\ Writable)]
    /\ told' = IF request.surface = "supervised" THEN told ELSE told \cup notices
    /\ phase' = "ready"
    /\ UNCHANGED <<request, confined, provider, session, asked, recorder, notices,
                   resumedOnFile>>

---------------------------------------------------------------------------
Requests ==
    {r \in [surface : Surfaces, resume : BOOLEAN, typed : SUBSET Sessions,
            override : Models \cup {Nothing}, ephemeral : BOOLEAN,
            sandbox : BOOLEAN, credential : BOOLEAN] :
        /\ ~r.resume => r.typed = {} /\ r.override = Nothing
        /\ r.surface = "supervised" => r.override = Nothing /\ ~r.sandbox
                                       /\ (r.resume => Cardinality(r.typed) = 1)}

Disks ==
    {d \in [made : BOOLEAN, writable : BOOLEAN, scratch : {FALSE},
            files : [Sessions -> {Stored(m, h) : m \in Models,
                                  h \in {"absent", "whole", "holed", "unreadable"}}]] :
        \A s \in Sessions :
            /\ d.files[s].damage # "absent" => d.made
            /\ d.files[s].damage \in {"absent", "unreadable"} => d.files[s].model = Configured}

Init ==
    /\ request \in Requests
    /\ disk \in Disks
    /\ phase = "confine"
    /\ confined = [outcome |-> "none", grants |-> TRUE]
    /\ provider = Nothing /\ session = NoSession /\ asked = Nothing
    /\ recorder = Nothing /\ notices = {} /\ told = {} /\ resumedOnFile = Nothing

Next == Confine \/ Provider \/ Open \/ Record \/ Announce

Spec == Init /\ [][Next]_vars

---------------------------------------------------------------------------
TypeOK ==
    /\ phase \in {"confine", "provider", "open", "record", "announce", "ready", "failed"}
    /\ asked \in Models \cup {Nothing}
    /\ recorder \in {"file", "ephemeral", Nothing}
    /\ phase = "ready" => recorder # Nothing /\ provider # Nothing /\ session.id # "none"

(* Reasoning goes back only to the model that minted it: a resumed session *)
(* is asked under the model of its file, or its reasoning was stripped.    *)
(* If the file says it was resumed, it says under the model asked.         *)
ReasoningGoesHome ==
    phase = "ready" =>
        /\ session.minted \in {Nothing, asked}
        /\ resumedOnFile \in {Nothing, asked}

(* In the terminal, whoever runs without a log that was not asked for, or  *)
(* on a history with a hole, has been told.                                *)
TerminalIsTold ==
    (phase = "ready" /\ request.surface # "supervised") =>
        /\ recorder = "ephemeral" =>
               request.ephemeral \/ <<"unrecorded", "failed">> \in told
        /\ session.holed => <<"history", "holed">> \in told

(* Said of the code, and not so.  sessions.rs has the loss of the log in a *)
(* notice, for every surface; the factory drops its notices.               *)
EverySurfaceIsTold ==
    (phase = "ready" /\ recorder = "ephemeral") =>
        request.ephemeral \/ <<"unrecorded", "failed">> \in told

(* Said of the code, and not so.  sandbox.rs, scratch_dir: it lies in the  *)
(* state directory, "which is already granted, so a tool that honours      *)
(* TMPDIR keeps working".                                                  *)
ScratchIsThere ==
    (phase = "ready" /\ request.sandbox /\ disk.writable) => disk.scratch
============================================================================
