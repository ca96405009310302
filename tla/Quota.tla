------------------------------- MODULE Quota -------------------------------
(***************************************************************************)
(* The quota tray's probing (axio-quota, src/app/state.rs, schedule.rs):   *)
(* one worker at a time asks the enabled providers, four kinds of trigger  *)
(* compete to start it (the timer loop, the Refresh button, a saved        *)
(* setting, the flyout or the tray menu), and the loop paces itself on     *)
(* what the previous pass brought.                                         *)
(*                                                                         *)
(* Time is counted down in units of twenty seconds, up to the next timer   *)
(* that runs out.  What a provider answers is one of Answers.              *)
(***************************************************************************)
EXTENDS Integers, FiniteSets

CONSTANTS
    Providers,     \* ids, in ProviderId's declared order (numbers)
    Answers,       \* what a probe of one provider may return
    Cadences,      \* what the settings page may store as "refresh"
    MaxChanges     \* bound: how often the settings are saved

VARIABLES
    refreshing,    \* AppState.refreshing
    gap,           \* what is left of MIN_GAP since last_finished
    sleep,         \* what is left of the loop's sleep
    probe,         \* the worker: its step, the config it read, what it fetched
    results,       \* AppState.results: the providers answered, and how
    file,          \* the config file: the enabled providers and the cadence
    quiet,         \* ghost: what is left of MIN_GAP since a provider was asked
    changes        \* how often the settings were saved (bounded)

vars == <<refreshing, gap, sleep, probe, results, file, quiet, changes>>

(* MIN_GAP, MANUAL_POLL, FASTEST, SLOWEST and NEAR_RESET, in those units.  *)
MIN_GAP == 1
MANUAL_POLL == 3
FASTEST == 3
SLOWEST == 90
NEAR_RESET == 30
Retry == 6

NoProbe == [step |-> "none", by |-> "none", cadence |-> "none", quiet |-> 0, asks |-> {}]
(* Answers are [ok, used, reset]: reset 0 is a window that reports none.   *)
Failed(answer) == ~answer.ok
NothingYet == [p \in {} |-> CHOOSE a \in Answers : TRUE]

LeastOf(S) == CHOOSE x \in S : \A y \in S : x <= y
GreatestOf(S) == CHOOSE x \in S : \A y \in S : x >= y

---------------------------------------------------------------------------
(* schedule::adaptive: a failure is retried soon whatever the others say;  *)
(* then the nearest reset still ahead and the fullest window decide.       *)
adaptive(found, elapsed) ==
    LET answered == {found[p] : p \in DOMAIN found}
        ahead    == {a.reset - elapsed : a \in {b \in answered : b.reset > elapsed}}
        busiest  == GreatestOf({0} \cup {a.used : a \in answered})
    IN  IF \E a \in answered : Failed(a) THEN Retry
        ELSE IF (ahead # {} /\ LeastOf(ahead) <= NEAR_RESET) \/ busiest >= 90 THEN FASTEST
        ELSE IF busiest >= 75 THEN Retry
        ELSE IF ahead = {} THEN 15
        ELSE LET pace == LeastOf(ahead) \div 20
             IN  LeastOf({SLOWEST, GreatestOf({pace, FASTEST})})

(* A loop whose manual mode sleeps for good (a mutant's: the code's own    *)
(* comment says why it may not).                                           *)
intervalParked(cadence, found, elapsed) ==
    IF cadence = "manual" THEN -1
    ELSE IF cadence = "adaptive" THEN adaptive(found, elapsed) ELSE FASTEST

(* schedule::interval, with the poll of a loop that is set to manual.      *)
interval(cadence, found, elapsed) ==
    IF cadence = "manual" THEN MANUAL_POLL
    ELSE IF cadence = "adaptive" THEN adaptive(found, elapsed)
    ELSE FASTEST     \* Cadence::Every, never below FASTEST

(* lib::drop_unconfigured: a provider nobody set up is not reported.       *)
drop_unconfigured(found) ==
    [p \in {q \in DOMAIN found : found[q].configured} |-> found[p]]

(* focus::tray_focus with model::headline: the fullest usable window owns  *)
(* the icon, and the provider declared first wins a tie.                   *)
tray_focus(found) ==
    LET usable == {p \in DOMAIN found : ~Failed(found[p])}
        fullest == {p \in usable : \A q \in usable : found[q].used <= found[p].used}
    IN  IF usable = {} THEN 0 ELSE LeastOf(fullest)

---------------------------------------------------------------------------
(* refresh_inner: refused while one runs, and, unless the button asked,    *)
(* within MIN_GAP of the last one's end.                                   *)
Starts(forced) == ~refreshing /\ (forced \/ gap = 0)

Worker(by, settings) ==
    [step |-> "reading", by |-> by, cadence |-> settings.refresh, quiet |-> quiet,
     asks |-> {}]

refresh(by, forced, settings) ==
    IF Starts(forced)
    THEN /\ refreshing' = TRUE
         /\ probe' = Worker(by, settings)
    ELSE UNCHANGED <<refreshing, probe>>

(* spawn_refresh_loop: one pass.  The wait is computed from the results on *)
(* hand, the previous pass's; the clock has run by an amount the model     *)
(* leaves open since they were fetched.                                    *)
LoopPass ==
    /\ sleep = 0
    /\ refresh("timer", FALSE, file)
    /\ \E elapsed \in {0, NEAR_RESET} :
           sleep' = interval(file.refresh, results, elapsed)
    /\ UNCHANGED <<gap, results, file, quiet, changes>>

(* commands::refresh_now: the Refresh button.                              *)
Button ==
    /\ refresh("button", TRUE, file)
    /\ UNCHANGED <<gap, sleep, results, file, quiet, changes>>

(* tray: the menu's "Refresh now" and opening the flyout.                  *)
Flyout ==
    /\ refresh("flyout", FALSE, file)
    /\ UNCHANGED <<gap, sleep, results, file, quiet, changes>>

(* commands::save_settings: write the file, then refresh.                  *)
save_settings ==
    /\ changes < MaxChanges
    /\ \E chosen \in SUBSET Providers :
           /\ file' = [file EXCEPT !.enabled = chosen]
           /\ refresh("settings", FALSE, file')
    /\ changes' = changes + 1
    /\ UNCHANGED <<gap, sleep, results, quiet>>

(* commands::set_refresh_cadence: write the file, and nothing else.        *)
set_refresh_cadence ==
    /\ changes < MaxChanges
    /\ \E cadence \in Cadences : file' = [file EXCEPT !.refresh = cadence]
    /\ changes' = changes + 1
    /\ UNCHANGED <<refreshing, gap, sleep, probe, results, quiet>>

---------------------------------------------------------------------------
(* The worker thread: Config::load, ...                                    *)
ReadConfig ==
    /\ probe.step = "reading"
    /\ probe' = [probe EXCEPT !.step = "asking", !.asks = file.enabled]
    /\ UNCHANGED <<refreshing, gap, sleep, results, file, quiet, changes>>

(* ... fetch_enabled, drop_unconfigured and the results' swap, ...         *)
Publish ==
    /\ probe.step = "asking"
    /\ \E found \in [probe.asks -> Answers] :
           results' = drop_unconfigured(found)
    /\ probe' = [probe EXCEPT !.step = "published"]
    /\ quiet' = MIN_GAP
    /\ UNCHANGED <<refreshing, gap, sleep, file, changes>>

(* ... last_finished, and only then refreshing, so that the gap is in      *)
(* force before the next trigger is let in.                                *)
MayReleaseUnstamped == probe.step \in {"published", "barren", "stamped"}
MayRelease == probe.step = "stamped"

(* No runtime could be built: nothing is asked, the rest is done all the   *)
(* same.                                                                   *)
NoRuntime ==
    /\ probe.step = "reading"
    /\ probe' = [probe EXCEPT !.step = "barren"]
    /\ UNCHANGED <<refreshing, gap, sleep, results, file, quiet, changes>>

(* A fetch panics over what a provider answered: the thread is gone, and   *)
(* nothing is left that would take refreshing back.                        *)
WorkerDies ==
    /\ probe.step = "asking"
    /\ probe' = [probe EXCEPT !.step = "dead"]
    /\ quiet' = MIN_GAP
    /\ UNCHANGED <<refreshing, gap, sleep, results, file, changes>>

Stamp ==
    /\ probe.step \in {"published", "barren"}
    /\ gap' = MIN_GAP
    /\ probe' = [probe EXCEPT !.step = "stamped"]
    /\ UNCHANGED <<refreshing, sleep, results, file, quiet, changes>>

Release ==
    /\ MayRelease
    /\ refreshing' = FALSE
    /\ probe' = NoProbe
    /\ UNCHANGED <<gap, sleep, results, file, quiet, changes>>

Timers == {t \in {gap, sleep, quiet} : t > 0}
Less(timer, by) == IF timer > by THEN timer - by ELSE IF timer < 0 THEN timer ELSE 0

Tick ==
    /\ Timers # {}
    /\ LET by == LeastOf(Timers)
       IN  /\ gap' = Less(gap, by)
           /\ sleep' = Less(sleep, by)
           /\ quiet' = Less(quiet, by)
    /\ UNCHANGED <<refreshing, probe, results, file, changes>>

---------------------------------------------------------------------------
Init ==
    /\ refreshing = FALSE
    /\ gap = 0
    /\ sleep = 0
    /\ probe = NoProbe
    /\ results = NothingYet
    /\ file \in [enabled : {Providers}, refresh : Cadences]
    /\ quiet = 0
    /\ changes = 0

Next ==
    \/ LoopPass \/ Button \/ Flyout \/ save_settings \/ set_refresh_cadence
    \/ ReadConfig \/ NoRuntime \/ WorkerDies \/ Publish \/ Stamp \/ Release
    \/ Tick

(* The loop's thread and a worker that lives run, and time passes; nobody  *)
(* has to press anything.                                                  *)
Work == ReadConfig \/ Publish \/ Stamp \/ Release
Fairness == WF_vars(LoopPass) /\ WF_vars(Work) /\ WF_vars(Tick)

Spec == Init /\ [][Next]_vars /\ Fairness

---------------------------------------------------------------------------
(* Every variable keeps its shape, and refreshing says that a worker runs  *)
(* or has died.                                                            *)
TypeOK ==
    /\ gap \in 0..MIN_GAP /\ quiet \in 0..MIN_GAP /\ sleep \in -1..SLOWEST
    /\ DOMAIN results \subseteq Providers
    /\ file.enabled \subseteq Providers
    /\ probe.step \in {"none", "reading", "asking", "barren", "published", "stamped", "dead"}
    /\ refreshing = (probe.step # "none")
    /\ changes \in 0..MaxChanges

(* A burst of triggers is one probe: no trigger but the button has the     *)
(* providers asked within MIN_GAP of their last being asked.               *)
BurstsAreOneProbe == probe.by \in {"timer", "settings", "flyout"} => probe.quiet = 0

(* A provider switched off in the settings leaves the view in the end,     *)
(* whatever the cadence, although the refresh that follows the save may be *)
(* refused and a probe in flight asks by the settings it read before: only *)
(* a worker that dies keeps it there, or workers of whom ever more cannot  *)
(* ask.                                                                    *)
SwitchedOffLeaves ==
    \/ []<>(probe.step = "barren")
    \/ \A p \in Providers :
           [](p \notin file.enabled =>
                  <>(p \notin DOMAIN results \/ p \in file.enabled \/ probe.step = "dead"))

(* Said of the code, and not so: commands.rs has a save refresh the view   *)
(* for it.  A worker that has died is the last one, and what was on show   *)
(* then stays.                                                             *)
SwitchedOffAlwaysLeaves ==
    \A p \in Providers :
        [](p \notin file.enabled => <>(p \notin DOMAIN results \/ p \in file.enabled))

(* Said of the code, and not so.  state.rs, above the loop, and schedule's *)
(* Cadence: manual is "never on a timer; the Refresh button only".         *)
ManualIsByHand == ~(probe.by = "timer" /\ probe.cadence = "manual")

(* Said of the code, and not so: commands.rs has a save refresh the view   *)
(* so that it does not "keep showing one that has been switched off".      *)
ShownIsEnabled == probe.step = "none" => DOMAIN results \subseteq file.enabled
============================================================================
