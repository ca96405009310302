----------------------------- MODULE MCDesktop -----------------------------
(***************************************************************************)
(* The desktop host, side by side: the index and the landing of sessions,  *)
(* the tools it hosts in terminals or over a protocol, the groups they are *)
(* started in, what they report, the transcripts a window shows, the files *)
(* its settings go to and what it remembers between two windows.  The      *)
(* components share no state; a behaviour runs one of them.  Ten of them,  *)
(* with their constants, are in HostParts.                                 *)
(***************************************************************************)
EXTENDS HostParts

VARIABLES
    part,   \* the component this behaviour runs
    transcriptsAgent, items, transcriptsFile, transcriptsStream,
    transcriptsRows, seeded, opened,
    harness, cwd, tool, wire, printed, rollouts, reportsAgent, words,
    reportsTyped, vouched,
    output, signalsPending, found, overrun,
    historyFile, ended, now, historyAt, batch, kept, historyAcked, cuts, wiped,
    readingsAt, refreshing, cookie, workspace, payload, readingsPage, fetched,
    shown, probes

(* ---- settings files: absent, whole, broken, doubled, commented ---- *)

Line(type, of, value) == [type |-> type, of |-> of, value |-> value]
Header(section) == Line("header", section, "none")
Put(key, value) == Line("key", key, value)
Blank == Line("blank", "none", "none")
UserTexts == {
    <<>>,
    <<Header("model"), Put("model.name", "kimi"), Blank, Header("permissions"), Put("permissions.deny", "rm")>>,
    <<Header("model"), Put("model.provider", "codex"), Put("model.name", "bad"), Header("budget"), Put("budget.max_steps", "0")>>,
    <<Header("budget"), Put("budget.max_steps", "bad"), Header("model"), Blank>>,
    <<Header("permissions"), Put("permissions.allow", "all"), Put("permissions.deny", "rm"), Header("worktree"), Put("worktree.enabled", "no")>>,
    <<Line("commented", "model", "none"), Put("model.name", "kimi"), Header("budget"), Put("budget.max_steps", "10")>>,
    <<Line("noise", "none", "none"), Header("model"), Put("model.name", "kimi")>>}
ProjectTexts == {
    <<>>,
    <<Header("permissions"), Put("permissions.deny", "curl"), Put("permissions.allow", "all")>>,
    <<Header("worktree"), Put("worktree.enabled", "no"), Header("budget"), Put("budget.max_steps", "5")>>,
    <<Header("model"), Put("model.name", "bad"), Header("worktree"), Put("worktree.enabled", "yes")>>}

(* ---- groups and desks ---- *)

\* What a group may be asked for: members with and without a protocol, with
\* and without settings of their own, and with a prompt for all or for none.
Member(t, app, chosen) == [tool |-> t, app |-> app, chosen |-> chosen]
Asking(members, prompt) == [members |-> members, prompt |-> prompt]
AskedFor ==
    {Asking(<<>>, TRUE), Asking(<<Member("pi", FALSE, {}), Member("claude", TRUE, {})>>, TRUE)}
    \union {Asking(<<Member("session", FALSE, {}), Member("claude", FALSE, {"model"}), Member("claude", FALSE, {})>>, p) : p \in BOOLEAN}
    \union {Asking(<<Member("codex", TRUE, {}), Member("pi", FALSE, {"model", "effort"})>>, p) : p \in BOOLEAN}
Desks == {<<"claude", "pi">>, <<"codex", "codex">>}

(* ---- texts with figures, as opencode may write them; Claude's windows ---- *)

Char(kind, of, key) == [kind |-> kind, of |-> of, key |-> key, whole |-> TRUE]
Figure(w, key) == <<Char("key", w, key), Char("figure", w, key), Char("digits", w, key)>>
Nothing(w, key) == <<Char("key", w, key), Char("null", w, key)>>
Percentages(w) == {Figure(w, "usagePercent"), Figure(w, "percent"), Nothing(w, "usagePercent"), <<>>}
Resets(w) == {Figure(w, "resetInSec"), <<>>}
Section(w) == {<<Char("label", w, "none")>> \o p \o r : p \in Percentages(w), r \in Resets(w)}
Space == Char("plain", "none", "none")
Wide == <<Char("wide", "none", "none"), Char("rest", "none", "none")>>
Gaps == {<<>>, Wide, <<Space>> \o Wide \o Wide \o Wide}
Broken(of) == <<Char("error", of, "none")>>
Pages ==
    {<<Space>>, Broken("signed out"), Broken("broken")}
    \union {r \o g \o w : r \in Section("rolling"), w \in Section("weekly"), g \in Gaps}
    \union {w \o r : r \in Section("rolling"), w \in Section("weekly")}
Entry(form, group, scope, share) ==
    [form |-> form, group |-> group, scope |-> scope, field |-> "utilization", used |-> share]
Payloads == {
    <<Entry("known", "five_hour", "none", 1), Entry("limit", "session", "none", 2)>>,
    <<Entry("known", "five_hour", "none", 0), Entry("limit", "session", "none", 2), Entry("limit", "weekly", "opus", 3)>>,
    <<Entry("limit", "weekly", "none", 2), Entry("known", "seven_day", "none", 1),
      Entry("known", "seven_day", "opus", 3), Entry("limit", "weekly", "opus", 2)>>,
    <<Entry("tier", "seven_day", "fable", 2), Entry("limit", "weekly", "fable", 1),
      [Entry("tier", "spend", "none", 3) EXCEPT !.field = "percent"]>>,
    <<Entry("tier", "weekly", "none", 0)>>}

\* Four items and one attempt that breaks off.
Transcripts == INSTANCE Transcripts WITH
    MaxItems <- 4, MaxRetries <- 1, agent <- transcriptsAgent,
    file <- transcriptsFile, stream <- transcriptsStream,
    rows <- transcriptsRows
\* Two tools, in one directory or two, say three things.
Reports == INSTANCE Reports WITH
    Dirs <- {"x", "y"}, MaxWords <- 3, MaxLooked <- 2, agent <- reportsAgent,
    typed <- reportsTyped
\* Six bytes hold a whole sequence and the start of the next.
Signals == INSTANCE Signals WITH
    MaxOutput <- 6, MaxChunk <- 3, MaxKept <- 5, pending <- signalsPending
\* Four probes of two windows; a compaction behind a torn line, and one that is cut.
History == INSTANCE History WITH
    Windows <- {"hours", "week"}, Retention <- 2, Above <- 2, MaxProbes <- 4,
    MaxCuts <- 1, file <- historyFile, at <- historyAt, acked <- historyAcked
\* Two windows of up to seven units each within a bound of eight.
Readings == INSTANCE Readings WITH
    Near <- 8, MaxProbes <- 1, at <- readingsAt, page <- readingsPage

indexVars == <<indexFile, open, indexUp, mem, job, owner, gone, robbed, used, indexAcked, tears>>
landingVars == <<tree, branch, detached, stray, base, remote, merging, changes, turn, turns,
    landing, landed, discard>>
hostedVars == <<minted, hostedHeld, procs, journal, unwritten, ops, launch, hostedWindows,
    hostedUp, raced>>
groupsVars == <<starts, groupsRows, cut, typing>>
terminalVars == <<terminalAlive, terminalStream, pumped, ring, written, pump, watch, status,
    kill, relay, woken, news, cursor, terminalHeld, terminalTyped, input>>
appServerVars == <<appServerAlive, taken, closing, reader, lines, wrote, inbox, server,
    appServerPending, calls, sending, folded>>
transcriptsVars == <<transcriptsAgent, items, transcriptsFile, transcriptsStream,
    transcriptsRows, seeded, opened>>
rolloutsVars == <<format, rolloutsFile, torn, view>>
reportsVars == <<harness, cwd, tool, wire, printed, rollouts, reportsAgent, words,
    reportsTyped, vouched>>
configVars == <<user, project, env, flags, resolved, copies, edit, edits>>
connectVars == <<connectFile, connectPage, edited, connectWindow, jar, saving, capturing,
    connectSaves, captures, accidents, told>>
signalsVars == <<output, signalsPending, found, overrun>>
historyVars == <<historyFile, ended, now, historyAt, batch, kept, historyAcked, cuts, wiped>>
readingsVars == <<readingsAt, refreshing, cookie, workspace, payload, readingsPage, fetched,
    shown, probes>>
rememberedVars == <<content, rememberedFile, tmp, exists, rememberedWindow, restored, waiting,
    rememberedPending, seen, tabs, timer, rememberedSaves, started,
    rememberedWindows, safe, early, met>>

(* One component runs; the others rest in one of their initial states.  *)
Init ==
    /\ part \in {"Index", "Landing", "Hosted", "Groups", "Terminal", "AppServer",
        "Transcripts", "Rollouts", "Reports", "Config", "Connect", "Signals",
        "History", "Readings", "Remembered"}
    /\ Index!Init
    /\ Landing!Init
    /\ Hosted!Init
    /\ Groups!Init
    /\ Terminal!Init
    /\ AppServer!Init
    /\ Transcripts!Init
    /\ Rollouts!Init
    /\ part # "Rollouts" => format = "claude"
    /\ Reports!Init
    /\ part # "Reports" => harness[1] = "claude" /\ \A r \in 1..2 : cwd[r] = "x"
    /\ Config!Init
    /\ Connect!Init
    /\ Signals!Init
    /\ History!Init
    /\ Readings!Init
    /\ part # "Readings" => cookie /\ workspace
    /\ Remembered!Init
    /\ part # "Remembered" => exists = {} /\ rememberedFile = Remembered!None

IndexStep ==
    /\ part = "Index" /\ Index!Next
    /\ UNCHANGED <<part, landingVars, hostedVars, groupsVars, terminalVars, appServerVars,
        transcriptsVars, rolloutsVars, reportsVars, configVars, connectVars,
        signalsVars, historyVars, readingsVars, rememberedVars>>
LandingStep ==
    /\ part = "Landing" /\ Landing!Next
    /\ UNCHANGED <<part, indexVars, hostedVars, groupsVars, terminalVars, appServerVars,
        transcriptsVars, rolloutsVars, reportsVars, configVars, connectVars,
        signalsVars, historyVars, readingsVars, rememberedVars>>
HostedStep ==
    /\ part = "Hosted" /\ Hosted!Next
    /\ UNCHANGED <<part, indexVars, landingVars, groupsVars, terminalVars, appServerVars,
        transcriptsVars, rolloutsVars, reportsVars, configVars, connectVars,
        signalsVars, historyVars, readingsVars, rememberedVars>>
GroupsStep ==
    /\ part = "Groups" /\ Groups!Next
    /\ UNCHANGED <<part, indexVars, landingVars, hostedVars, terminalVars, appServerVars,
        transcriptsVars, rolloutsVars, reportsVars, configVars, connectVars,
        signalsVars, historyVars, readingsVars, rememberedVars>>
TerminalStep ==
    /\ part = "Terminal" /\ Terminal!Next
    /\ UNCHANGED <<part, indexVars, landingVars, hostedVars, groupsVars, appServerVars,
        transcriptsVars, rolloutsVars, reportsVars, configVars, connectVars,
        signalsVars, historyVars, readingsVars, rememberedVars>>
AppServerStep ==
    /\ part = "AppServer" /\ AppServer!Next
    /\ UNCHANGED <<part, indexVars, landingVars, hostedVars, groupsVars, terminalVars,
        transcriptsVars, rolloutsVars, reportsVars, configVars, connectVars,
        signalsVars, historyVars, readingsVars, rememberedVars>>
TranscriptsStep ==
    /\ part = "Transcripts" /\ Transcripts!Next
    /\ UNCHANGED <<part, indexVars, landingVars, hostedVars, groupsVars, terminalVars,
        appServerVars, rolloutsVars, reportsVars, configVars, connectVars,
        signalsVars, historyVars, readingsVars, rememberedVars>>
RolloutsStep ==
    /\ part = "Rollouts" /\ Rollouts!Next
    /\ UNCHANGED <<part, indexVars, landingVars, hostedVars, groupsVars, terminalVars,
        appServerVars, transcriptsVars, reportsVars, configVars, connectVars,
        signalsVars, historyVars, readingsVars, rememberedVars>>
ReportsStep ==
    /\ part = "Reports" /\ Reports!Next
    /\ UNCHANGED <<part, indexVars, landingVars, hostedVars, groupsVars, terminalVars,
        appServerVars, transcriptsVars, rolloutsVars, configVars, connectVars,
        signalsVars, historyVars, readingsVars, rememberedVars>>
ConfigStep ==
    /\ part = "Config" /\ Config!Next
    /\ UNCHANGED <<part, indexVars, landingVars, hostedVars, groupsVars, terminalVars,
        appServerVars, transcriptsVars, rolloutsVars, reportsVars,
        connectVars, signalsVars, historyVars, readingsVars, rememberedVars>>
ConnectStep ==
    /\ part = "Connect" /\ Connect!Next
    /\ UNCHANGED <<part, indexVars, landingVars, hostedVars, groupsVars, terminalVars,
        appServerVars, transcriptsVars, rolloutsVars, reportsVars, configVars,
        signalsVars, historyVars, readingsVars, rememberedVars>>
SignalsStep ==
    /\ part = "Signals" /\ Signals!Next
    /\ UNCHANGED <<part, indexVars, landingVars, hostedVars, groupsVars, terminalVars,
        appServerVars, transcriptsVars, rolloutsVars, reportsVars, configVars,
        connectVars, historyVars, readingsVars, rememberedVars>>
HistoryStep ==
    /\ part = "History" /\ History!Next
    /\ UNCHANGED <<part, indexVars, landingVars, hostedVars, groupsVars, terminalVars,
        appServerVars, transcriptsVars, rolloutsVars, reportsVars, configVars,
        connectVars, signalsVars, readingsVars, rememberedVars>>
ReadingsStep ==
    /\ part = "Readings" /\ Readings!Next
    /\ UNCHANGED <<part, indexVars, landingVars, hostedVars, groupsVars, terminalVars,
        appServerVars, transcriptsVars, rolloutsVars, reportsVars, configVars,
        connectVars, signalsVars, historyVars, rememberedVars>>
RememberedStep ==
    /\ part = "Remembered" /\ Remembered!Next
    /\ UNCHANGED <<part, indexVars, landingVars, hostedVars, groupsVars, terminalVars,
        appServerVars, transcriptsVars, rolloutsVars, reportsVars, configVars,
        connectVars, signalsVars, historyVars, readingsVars>>

Next ==
    \/ IndexStep  \/ LandingStep  \/ HostedStep
    \/ GroupsStep  \/ TerminalStep  \/ AppServerStep
    \/ TranscriptsStep  \/ RolloutsStep  \/ ReportsStep
    \/ ConfigStep  \/ ConnectStep  \/ SignalsStep
    \/ HistoryStep  \/ ReadingsStep  \/ RememberedStep

vars == <<part, indexVars, landingVars, hostedVars, groupsVars, terminalVars,
            appServerVars, transcriptsVars, rolloutsVars, reportsVars,
            configVars, connectVars, signalsVars, historyVars, readingsVars,
            rememberedVars>>
Spec == Init /\ [][Next]_vars

-----------------------------------------------------------------------------
(* Every component keeps the types of its own state. *)
TypeOK ==
    /\ part = "Index" => Index!TypeOK
    /\ part = "Landing" => Landing!TypeOK
    /\ part = "Hosted" => Hosted!TypeOK
    /\ part = "Groups" => Groups!TypeOK
    /\ part = "Terminal" => Terminal!TypeOK
    /\ part = "AppServer" => AppServer!TypeOK
    /\ part = "Transcripts" => Transcripts!TypeOK
    /\ part = "Rollouts" => Rollouts!TypeOK
    /\ part = "Reports" => Reports!TypeOK
    /\ part = "Config" => Config!TypeOK
    /\ part = "Connect" => Connect!TypeOK
    /\ part = "Signals" => Signals!TypeOK
    /\ part = "History" => History!TypeOK
    /\ part = "Readings" => Readings!TypeOK
    /\ part = "Remembered" => Remembered!TypeOK

(* What the host wrote down is what it has: no two sessions get one name,  *)
(* unless a discard of another took the worktree away; the journal has the *)
(* row of every tool that can be resumed, since it was last written; a     *)
(* tool nobody can stop any more was lost to a race of stop and resume;    *)
(* commits that were counted are never deleted before they are landed or   *)
(* pushed; a credential stays with its provider, and tabs a window was     *)
(* told it has kept come back in the next one.                             *)
RecordsAreKept ==
    /\ part = "Index" => Index!NeverShared
    /\ part = "Hosted" => Hosted!JournalFollows /\ Hosted!LostOnlyToARace
    /\ part = "Landing" => Landing!MergedIsLanded /\ Landing!CommittedIsKept
    /\ part = "Connect" => Connect!NothingIsForgotten /\ Connect!OnlyASessionIsCaptured
    /\ part = "Remembered" => Remembered!TabsAreKept

(* A question of a hosted tool is answered once or still shown, no command *)
(* waits for a tool that is gone, a prompt reaches each member of a group  *)
(* once, members can be told apart, and a group that fails half way has    *)
(* every member before the one that failed and none after it.              *)
NobodyIsForgotten ==
    /\ part = "AppServer" => AppServer!QuestionsAreAnswered /\ AppServer!NoneWaitsForTheGone
    /\ part = "Groups" => Groups!AskedOnce /\ Groups!NumbersTellApart /\ Groups!FailureStopsTheRest

(* What is read or shown is what is there.  Of a file, as much as was not  *)
(* damaged: a torn or foreign line of the index costs one record and a     *)
(* torn tail of the quota history one reading, and an edit of the settings *)
(* keeps every line it is not about.  In a window: bytes of a terminal     *)
(* once and in order, items as the record has them, results on their       *)
(* calls, the status a tool last reported, the notices it rang, a          *)
(* conversation it really had, and a reading of the quota once, in the     *)
(* order of time, as the figure of its own window as far as the text it is *)
(* lifted from keeps windows apart.                                        *)
ViewsAreTrue ==
    /\ part = "Index" => Index!DamageIsLocal
    /\ part = "Config" => Config!EditKeepsTheRest
    /\ part = "Terminal" => Terminal!NothingTwice
    /\ part = "Transcripts" => Transcripts!RowsAgree
    /\ part = "Rollouts" => Rollouts!ResultsOnTheirCalls
    /\ part = "Reports" => Reports!StatusIsTrue /\ Reports!ResumesWhatRanHere
    /\ part = "Signals" => Signals!BellsAreFound
    /\ part = "History" => History!TailCostsOne /\ History!DrawnOnce
    /\ part = "Readings" => Readings!FiguresAreOwn /\ Readings!OneRowPerWindow

(* A terminal that ended stays ended, whoever sets its state last; a       *)
(* rollout that is read again has every row it had; and a load takes every *)
(* setting from the strongest layer that can be read, and says which.      *)
NothingIsTakenBack ==
    /\ Terminal!StoppedStaysEnded
    /\ Rollouts!ReadsOn
    /\ Config!SalvageIsLocal

-----------------------------------------------------------------------------
(* The host seen through the variables of one of its components: a step of *)
(* the host is a step of that component or leaves it alone.                *)

LEMMA IndexRuns == Spec => Index!Spec
<1>1. Init => Index!Init
  BY DEF Init
<1>2. [Next]_vars => [Index!Next]_(Index!vars)
  BY DEF Next, vars, Index!vars, Index!trees, indexVars, IndexStep, LandingStep, HostedStep, GroupsStep, TerminalStep, AppServerStep,
         TranscriptsStep, RolloutsStep, ReportsStep, ConfigStep, ConnectStep, SignalsStep,
         HistoryStep, ReadingsStep, RememberedStep
<1> QED BY <1>1, <1>2, PTL DEF Spec, Index!Spec

LEMMA AppServerRuns == Spec => AppServer!Spec
<1>1. Init => AppServer!Init
  BY DEF Init
<1>2. [Next]_vars => [AppServer!Next]_(AppServer!vars)
  BY DEF Next, vars, AppServer!vars, appServerVars, IndexStep, LandingStep, HostedStep, GroupsStep, TerminalStep, AppServerStep,
         TranscriptsStep, RolloutsStep, ReportsStep, ConfigStep, ConnectStep, SignalsStep,
         HistoryStep, ReadingsStep, RememberedStep
<1> QED BY <1>1, <1>2, PTL DEF Spec, AppServer!Spec

LEMMA GroupsRuns == Spec => Groups!Spec
<1>1. Init => Groups!Init
  BY DEF Init
<1>2. [Next]_vars => [Groups!Next]_(Groups!vars)
  BY DEF Next, vars, Groups!vars, groupsVars, IndexStep, LandingStep, HostedStep, GroupsStep, TerminalStep, AppServerStep,
         TranscriptsStep, RolloutsStep, ReportsStep, ConfigStep, ConnectStep, SignalsStep,
         HistoryStep, ReadingsStep, RememberedStep
<1> QED BY <1>1, <1>2, PTL DEF Spec, Groups!Spec

LEMMA TerminalRuns == Spec => Terminal!Spec
<1>1. Init => Terminal!Init
  BY DEF Init
<1>2. [Next]_vars => [Terminal!Next]_(Terminal!vars)
  BY DEF Next, vars, Terminal!vars, terminalVars, IndexStep, LandingStep, HostedStep, GroupsStep, TerminalStep, AppServerStep,
         TranscriptsStep, RolloutsStep, ReportsStep, ConfigStep, ConnectStep, SignalsStep,
         HistoryStep, ReadingsStep, RememberedStep
<1> QED BY <1>1, <1>2, PTL DEF Spec, Terminal!Spec

LEMMA RolloutsRuns == Spec => Rollouts!Spec
<1>1. Init => Rollouts!Init
  BY DEF Init
<1>2. [Next]_vars => [Rollouts!Next]_(Rollouts!vars)
  BY DEF Next, vars, Rollouts!vars, rolloutsVars, IndexStep, LandingStep, HostedStep, GroupsStep, TerminalStep, AppServerStep,
         TranscriptsStep, RolloutsStep, ReportsStep, ConfigStep, ConnectStep, SignalsStep,
         HistoryStep, ReadingsStep, RememberedStep
<1> QED BY <1>1, <1>2, PTL DEF Spec, Rollouts!Spec

LEMMA ConfigRuns == Spec => Config!Spec
<1>1. Init => Config!Init
  BY DEF Init
<1>2. [Next]_vars => [Config!Next]_(Config!vars)
  BY DEF Next, vars, Config!vars, configVars, IndexStep, LandingStep, HostedStep, GroupsStep, TerminalStep, AppServerStep,
         TranscriptsStep, RolloutsStep, ReportsStep, ConfigStep, ConnectStep, SignalsStep,
         HistoryStep, ReadingsStep, RememberedStep
<1> QED BY <1>1, <1>2, PTL DEF Spec, Config!Spec

LEMMA LandingRuns == Spec => Landing!Spec
<1>1. Init => Landing!Init
  BY DEF Init
<1>2. [Next]_vars => [Landing!Next]_(Landing!vars)
  BY DEF Next, vars, Landing!vars, Landing!checkedOut, Landing!repository, Landing!lander, landingVars, IndexStep, LandingStep, HostedStep, GroupsStep, TerminalStep, AppServerStep,
         TranscriptsStep, RolloutsStep, ReportsStep, ConfigStep, ConnectStep, SignalsStep,
         HistoryStep, ReadingsStep, RememberedStep
<1> QED BY <1>1, <1>2, PTL DEF Spec, Landing!Spec

LEMMA HostedRuns == Spec => Hosted!Spec
<1>1. Init => Hosted!Init
  BY DEF Init
<1>2. [Next]_vars => [Hosted!Next]_(Hosted!vars)
  BY DEF Next, vars, Hosted!vars, hostedVars, IndexStep, LandingStep, HostedStep, GroupsStep, TerminalStep, AppServerStep,
         TranscriptsStep, RolloutsStep, ReportsStep, ConfigStep, ConnectStep, SignalsStep,
         HistoryStep, ReadingsStep, RememberedStep
<1> QED BY <1>1, <1>2, PTL DEF Spec, Hosted!Spec

LEMMA ConnectRuns == Spec => Connect!Spec
<1>1. Init => Connect!Init
  BY DEF Init
<1>2. [Next]_vars => [Connect!Next]_(Connect!vars)
  BY DEF Next, vars, Connect!vars, connectVars, IndexStep, LandingStep, HostedStep, GroupsStep, TerminalStep, AppServerStep,
         TranscriptsStep, RolloutsStep, ReportsStep, ConfigStep, ConnectStep, SignalsStep,
         HistoryStep, ReadingsStep, RememberedStep
<1> QED BY <1>1, <1>2, PTL DEF Spec, Connect!Spec

LEMMA RememberedRuns == Spec => Remembered!Spec
<1>1. Init => Remembered!Init
  BY DEF Init
<1>2. [Next]_vars => [Remembered!Next]_(Remembered!vars)
  BY DEF Next, vars, Remembered!vars, rememberedVars, IndexStep, LandingStep, HostedStep, GroupsStep, TerminalStep, AppServerStep,
         TranscriptsStep, RolloutsStep, ReportsStep, ConfigStep, ConnectStep, SignalsStep,
         HistoryStep, ReadingsStep, RememberedStep
<1> QED BY <1>1, <1>2, PTL DEF Spec, Remembered!Spec

\* supervisor.rs:153, worktree.rs: two starts of the host never work in one worktree,
\* whichever processes run them and die in them, however long lies between pick and
\* cut, and whatever is discarded meanwhile; but a discard of what an old entry names
\* may have taken the worktree of either.
THEOREM HostSharesNoWorktree == Spec => []Index!NeverShared
BY IndexRuns, IndexHolds, PTL

\* supervisor.rs, hosted/mod.rs, landing.rs, connect.rs, window_state.rs: what the host
\* wrote down of its worktrees, its tools, its branches, its credentials and its tabs is
\* what it has, whatever ran beside the writing and whichever write, count or discard
\* failed.
THEOREM TheHostKeepsItsRecords == Spec => []RecordsAreKept
<1>1. /\ Index!NeverShared /\ Hosted!JournalFollows /\ Hosted!LostOnlyToARace
      /\ Landing!MergedIsLanded /\ Landing!CommittedIsKept
      /\ Connect!NothingIsForgotten /\ Connect!OnlyASessionIsCaptured /\ Remembered!TabsAreKept
      => RecordsAreKept
  BY DEF RecordsAreKept
<1> QED BY <1>1, IndexRuns, IndexHolds, HostedRuns, HostedHolds, LandingRuns, LandingHolds,
           ConnectRuns, ConnectHolds, RememberedRuns, RememberedHolds, PTL

\* appserver.rs, groups.rs: a question of a hosted tool is answered once or still
\* shown, no command waits for a tool that is gone, and every member of a group is
\* asked the prompt once, has a number of its own, and follows those in front of it.
THEOREM NobodyIsForgottenByTheHost == Spec => []NobodyIsForgotten
<1>1. /\ AppServer!QuestionsAreAnswered /\ AppServer!NoneWaitsForTheGone
      /\ Groups!AskedOnce /\ Groups!NumbersTellApart /\ Groups!FailureStopsTheRest
      => NobodyIsForgotten
  BY DEF NobodyIsForgotten
<1> QED BY <1>1, AppServerRuns, AppServerHolds, GroupsRuns, GroupsHold, PTL

\* session.rs:486, hosted/agent.rs:157, config/mod.rs:5: the host never takes back that
\* a tool was stopped, nor a row it showed of a conversation, and every setting it loads
\* is the one of the strongest layer that can be read.
THEOREM TheHostTakesNothingBack == Spec => NothingIsTakenBack
BY TerminalRuns, StoppedIsNotUndone, RolloutsRuns, NothingShownIsLost, ConfigRuns, SalvageStaysLocal
   DEF NothingIsTakenBack
=============================================================================
