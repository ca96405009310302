-------------------------------- MODULE Tui --------------------------------
(***************************************************************************)
(* The terminal surface (tui/mod.rs): one loop that owns the agent while    *)
(* no turn runs, and selects, in this order, over the turn's questions, its *)
(* end, a sign-in, the models a provider listed, and the keyboard.  As the  *)
(* select is biased, a question or an end that is ready is handled before   *)
(* the next key is, so each is one step here with what it wakes.            *)
(***************************************************************************)
EXTENDS Naturals, Sequences, FiniteSets

CONSTANTS
    Providers,     \* the providers a person can choose
    MaxTurns,      \* bound on the turns
    MaxAsks,       \* bound on the questions of all turns
    MaxListings    \* bound on the listings asked for

VARIABLES
    mode,          \* Mode, with the question or the provider it shows
    agent,         \* "here", "away" in a turn, or "gone" with one that panicked
    pair,          \* the agent's provider, and the provider whose model it names
    turn,          \* turns begun, and the question the running one waits on
    cancelled,     \* the turns whose token was cancelled; 0 is the first token
    pending,       \* Tui::pending_provider; "" is None
    listings,      \* the listings under way, oldest first
    unproven,      \* Tui::unproven_default, <<>> when None
    offers,        \* the providers with a credential, as the surface knows them
    signin,        \* the browser sign-in under way: the turn whose token it holds
    armed,         \* a first Ctrl-C was pressed
    leaving, up,
    answers,       \* question -> how it was answered
    proofs, saved, \* pairs a turn proved, and the pair last written down
    listed         \* listings asked for so far

vars == <<mode, agent, pair, turn, cancelled, pending, listings, unproven, offers, signin,
          armed, leaving, up, answers, proofs, saved, listed>>
choice == <<pending, listings, listed>>
signing == <<offers, signin>>
history == <<proofs, saved>>

Show(kind) == [kind |-> kind, of |-> 0, list |-> ""]
Asking(kind, ask) == [kind |-> kind, of |-> ask, list |-> ""]
Listing(p) == [kind |-> "model", of |-> 0, list |-> p]
Idle == Show("idle")
OnScreen == IF mode.kind \in {"approving", "denying"} THEN mode.of ELSE 0
Turning == agent = "away"
NoSignIn == MaxTurns + 1
\* The provider the session was started with, and one of its models.
Configured == CHOOSE p \in Providers : TRUE

Init ==
    /\ mode = Idle /\ agent = "here" /\ pair = <<Configured, Configured>>
    /\ turn = [n |-> 0, waits |-> 0] /\ cancelled = {}
    /\ pending = "" /\ listings = <<>> /\ listed = 0 /\ unproven = <<>>
    /\ offers = {pair[1]} /\ signin = NoSignIn
    /\ armed = FALSE /\ leaving = FALSE /\ up = TRUE
    /\ answers = <<>> /\ proofs = {} /\ saved = <<>>

\* The mode is replaced: the reply a question carried goes with it, and the
\* approver takes that for a refusal.
ReplacedKeeps(next) == mode' = next /\ UNCHANGED <<turn, answers>>
Replaced(next) ==
    /\ mode' = next
    /\ IF OnScreen # 0 /\ turn.waits = OnScreen
       THEN turn' = [turn EXCEPT !.waits = 0] /\ answers' = [answers EXCEPT ![OnScreen] = "nobody"]
       ELSE UNCHANGED <<turn, answers>>

(* ---- what the turn does ---- *)

Ask ==
    /\ up /\ Turning /\ turn.waits = 0 /\ Len(answers) < MaxAsks
    /\ turn' = [turn EXCEPT !.waits = Len(answers) + 1]
    /\ answers' = Append(answers, "none")
    /\ mode' = Asking("approving", Len(answers) + 1)
    /\ UNCHANGED <<agent, pair, cancelled, choice, unproven, signing, armed, leaving, up, history>>

\* defaults.rs: whether an outcome shows that the endpoint took the request.
provesAnyhow(outcome) == TRUE
proves_it_works(outcome) == outcome = "answered"
remember_default(outcome) ==
    /\ unproven' = <<>>
    /\ saved' = IF unproven # <<>> /\ proves_it_works(outcome) THEN unproven ELSE saved
    /\ proofs' = IF outcome = "answered" THEN proofs \union {pair} ELSE proofs

Outcomes == {"answered", "failed"} \union IF turn.n \in cancelled THEN {"interrupted"} ELSE {}
\* A turn that waits for an answer ends only because it was cancelled.
TurnEnds ==
    /\ up /\ Turning
    /\ \E outcome \in Outcomes :
          /\ (turn.waits = 0 \/ outcome = "interrupted") /\ remember_default(outcome)
    /\ agent' = "here" /\ mode' = Idle /\ turn' = [turn EXCEPT !.waits = 0]
    /\ answers' = [q \in DOMAIN answers |-> IF q = turn.waits THEN "ended" ELSE answers[q]]
    /\ up' = ~leaving
    /\ UNCHANGED <<pair, cancelled, choice, signing, armed, leaving>>
TurnPanics ==
    /\ up /\ Turning /\ turn.waits = 0
    /\ agent' = "gone" /\ mode' = Idle /\ up' = ~leaving
    /\ UNCHANGED <<pair, turn, cancelled, choice, unproven, signing, armed, leaving, answers, history>>

(* ---- what arrives from elsewhere ---- *)

\* Shown whatever the surface is at: a key may have begun a turn since.
ModelsListed ==
    /\ up
    /\ \E i \in DOMAIN listings :
          /\ listings' = SubSeq(listings, 1, i - 1) \o SubSeq(listings, i + 1, Len(listings))
          /\ \/ Replaced(Listing(listings[i]))
             \/ UNCHANGED <<mode, turn, answers>>        \* an error, or no models
    /\ UNCHANGED <<agent, pair, cancelled, pending, unproven, signing, armed, leaving, up, history, listed>>

\* It ends with tokens unless the token it was given has been cancelled, be it
\* by the turn that was over when the sign-in began.
SignInEnds ==
    /\ up /\ signin # NoSignIn /\ signin' = NoSignIn
    /\ \/ signin \notin cancelled /\ \E p \in Providers : offers' = offers \union {p}
       \/ UNCHANGED offers
    /\ UNCHANGED <<mode, agent, pair, turn, cancelled, choice, unproven, armed, leaving, up, answers, history>>

(* ---- the keyboard ---- *)

Key(kind) == up /\ mode.kind = kind

\* The agent moves into the turn; without one the prompt goes nowhere.
Submit ==
    /\ Key("idle") /\ turn.n < MaxTurns /\ armed' = FALSE
    /\ IF agent = "here"
       THEN /\ agent' = "away" /\ mode' = Show("running")
            /\ turn' = [n |-> turn.n + 1, waits |-> 0]
       ELSE UNCHANGED <<agent, mode, turn>>
    /\ UNCHANGED <<pair, cancelled, choice, unproven, signing, leaving, up, answers, history>>

Interrupt ==
    /\ Key("running") /\ cancelled' = cancelled \union {turn.n}
    /\ UNCHANGED <<mode, agent, pair, turn, choice, unproven, signing, armed, leaving, up, answers, history>>

\* Leaving while a turn runs waits for it.
LeavesAtOnce == leaving' = TRUE /\ UNCHANGED cancelled
Leaves == leaving' = TRUE /\ cancelled' = cancelled \union {turn.n}
Quit ==
    /\ Key("idle") \/ Key("running")
    /\ IF Turning THEN Leaves /\ UNCHANGED up ELSE up' = FALSE /\ UNCHANGED <<leaving, cancelled>>
    /\ UNCHANGED <<mode, agent, pair, turn, choice, unproven, signing, armed, answers, history>>
CtrlC ==
    /\ Key("idle")
    /\ IF armed THEN IF Turning THEN Leaves /\ UNCHANGED <<up, armed>>
                     ELSE up' = FALSE /\ UNCHANGED <<leaving, cancelled, armed>>
       ELSE armed' = TRUE /\ UNCHANGED <<leaving, cancelled, up>>
    /\ UNCHANGED <<mode, agent, pair, turn, choice, unproven, signing, answers, history>>

Settle ==
    /\ Key("approving") \/ Key("denying")
    /\ \E how \in IF mode.kind = "approving" THEN {"allowed", "denied"} ELSE {"denied"} :
          answers' = [answers EXCEPT ![OnScreen] = how]
    /\ turn' = [turn EXCEPT !.waits = 0] /\ mode' = Show("running")
    /\ UNCHANGED <<agent, pair, cancelled, choice, unproven, signing, armed, leaving, up, history>>
WriteNote ==
    /\ Key("approving") /\ mode' = Asking("denying", OnScreen)
    /\ UNCHANGED <<agent, pair, turn, cancelled, choice, unproven, signing, armed, leaving, up, answers, history>>

\* One path applies a choice, typed or picked: the provider that is pending, if
\* any, together with the model.
moving == IF pending # pair[1] THEN pending ELSE ""
TargetOf(model) == <<IF moving = "" THEN pair[1] ELSE moving, model>>
change_model(model) ==
    IF agent # "here" THEN UNCHANGED <<pair, unproven, pending>>
    ELSE /\ pending' = ""
         /\ IF TargetOf(model) = pair THEN UNCHANGED <<pair, unproven>>
            ELSE \/ pair' = TargetOf(model) /\ unproven' = TargetOf(model)
                 \/ moving # "" /\ UNCHANGED <<pair, unproven>>   \* the factory refuses

TypeModel ==
    /\ Key("idle") /\ armed' = FALSE
    /\ \E model \in Providers : change_model(model)
    /\ UNCHANGED <<mode, agent, turn, cancelled, listings, listed, signing, leaving, up, answers, history>>
\* Bare /model: the first stage forgets a provider chosen before.
OpenPicker ==
    /\ Key("idle") /\ armed' = FALSE /\ agent = "here"
    /\ pending' = "" /\ mode' = Show("provider")
    /\ UNCHANGED <<agent, pair, turn, cancelled, listings, listed, unproven, signing, leaving, up, answers, history>>
list_models ==
    /\ Key("provider") /\ listed < MaxListings
    /\ \E p \in offers : pending' = p /\ listings' = Append(listings, p)
    /\ listed' = listed + 1 /\ mode' = Idle
    /\ UNCHANGED <<agent, pair, turn, cancelled, unproven, signing, armed, leaving, up, answers, history>>
PickModel ==
    /\ Key("model") /\ mode' = Idle /\ change_model(mode.list)
    /\ UNCHANGED <<agent, turn, cancelled, listings, listed, signing, armed, leaving, up, answers, history>>
\* Esc, in either stage and in the sign-in form; what is pending stays.
Back ==
    /\ Key("provider") \/ Key("model") \/ Key("login")
    /\ mode' = Idle
    /\ UNCHANGED <<agent, pair, turn, cancelled, choice, unproven, signing, armed, leaving, up, answers, history>>

Login ==
    /\ Key("idle") /\ armed' = FALSE /\ mode' = Show("login")
    /\ UNCHANGED <<agent, pair, turn, cancelled, choice, unproven, signing, leaving, up, answers, history>>
SaveKey ==
    /\ Key("login") /\ mode' = Idle
    /\ \E p \in Providers : offers' = offers \union {p}
    /\ UNCHANGED <<agent, pair, turn, cancelled, choice, unproven, signin, armed, leaving, up, answers, history>>
\* The token is that of the last turn, which may be over and cancelled.
SignIn ==
    /\ Key("login") /\ signin = NoSignIn /\ mode' = Idle /\ signin' = turn.n
    /\ UNCHANGED <<agent, pair, turn, cancelled, choice, unproven, offers, armed, leaving, up, answers, history>>

Next ==
    \/ Ask \/ TurnEnds \/ TurnPanics \/ ModelsListed \/ SignInEnds
    \/ Submit \/ Interrupt \/ Quit \/ CtrlC \/ Settle \/ WriteNote
    \/ TypeModel \/ OpenPicker \/ list_models \/ PickModel \/ Back
    \/ Login \/ SaveKey \/ SignIn

Spec == Init /\ [][Next]_vars

(* ---- properties ---- *)

Modes == {"idle", "running", "approving", "denying", "login", "provider", "model"}
TypeOK ==
    /\ mode.kind \in Modes /\ agent \in {"here", "away", "gone"}
    /\ pair \in Providers \X Providers /\ (pending = "" \/ pending \in Providers)
    /\ turn.n \in 0..MaxTurns /\ turn.waits \in 0..Len(answers) /\ cancelled \subseteq 0..MaxTurns

\* A turn that waits on a question has it on the screen: nothing else the
\* surface shows may leave a turn waiting for a key nobody is asked for
\* (approver.rs:40, events.rs:198).
QuestionIsOnScreen == turn.waits # 0 => OnScreen = turn.waits

\* What is written down as the default is a provider and model a turn came back
\* from, though the choice, the turn and the writing are three separate moments
\* (defaults.rs:3, state.rs:86).
SavedWorks == saved # <<>> => saved \in proofs

\* A person who leaves during a turn waits for a turn that was told to stop, not
\* for one begun since (mod.rs:313-317).
LeavingIsTold == leaving /\ Turning => turn.n \in cancelled

\* A model picked from a provider's list is used with that provider
\* (commands.rs:308, 323).
ModelOfItsProvider == [][mode.kind = "model" /\ pair' # pair => pair'[1] = mode.list]_vars
\* Only a key answers a question while its turn runs (input.rs:17, events.rs:198).
AnsweredByAKey == \A q \in DOMAIN answers : answers[q] # "nobody"
\* A surface that takes a prompt has the agent to run it (mod.rs:351-356).
PromptsAreRun == mode = Idle => agent = "here"
\* A sign-in is given a token nobody has cancelled (mod.rs:327).
SignInCanEnd == [][signin = NoSignIn /\ signin' # NoSignIn => signin' \notin cancelled]_vars
=============================================================================
