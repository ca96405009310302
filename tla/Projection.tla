----------------------------- MODULE Projection -----------------------------
(***************************************************************************)
(* From the transcript to the request: what compaction leaves out of it,   *)
(* how the rest becomes the messages of the Messages dialect, and how the  *)
(* other two dialects reshape those.  One session, between prompts, steps, *)
(* refused requests, model switches and resumes.                           *)
(***************************************************************************)
EXTENDS Naturals, Sequences, FiniteSets, SequencesExt

CONSTANTS
    Models,        \* the names a request can carry
    FirstModel,    \* the model the session's header names
    Window,        \* the context window, in the units of Weight
    MaxItems,      \* bound on the transcript
    MaxSwitches    \* bound on model switches and resumes together

VARIABLES
    transcript,    \* Session::transcript
    recorded,      \* the items the session file holds
    owner,         \* Session::model
    model,         \* RuntimeConfig::model, what the request names
    elisions,      \* Agent::elisions
    phase,         \* "idle", "step" (the loop's top), "sent"
    request,       \* the messages of the request in flight
    forced,        \* a compaction was forced for this request
    switches

vars == <<transcript, recorded, owner, model, elisions, phase, request, forced, switches>>

(* ---- items ---- *)

User == [kind |-> "user"]
Text == [kind |-> "text"]
Blank == [kind |-> "blank"]          \* a text block that streamed no delta
Interrupted == [kind |-> "interrupted"]
Reasoning(m) == [kind |-> "reasoning", by |-> m, signed |-> TRUE]
\* large: the output is MIN_ELIDE_BYTES long at least.  Only an Ok result is.
Call(tool, ok, large) == [kind |-> "call", tool |-> tool, ok |-> ok, large |-> ok /\ large]
IsCall(item) == item.kind = "call"
Persisted(item) == item.kind # "blank"

\* What one sampled message can hold: a read goes stale by the edit after it.
Answers == {<<Text>>, <<Blank, Call("read", FALSE, FALSE)>>,
            <<Reasoning(model), Call("read", TRUE, TRUE)>>,
            <<Call("bash", TRUE, TRUE), Call("edit", TRUE, FALSE)>>}

(* ---- compaction ---- *)

NoElisions == [replaced |-> {}, dropped |-> 0]

Large(items) == {i \in DOMAIN items : IsCall(items[i]) /\ items[i].large}

\* Large reads with a later read or edit of the same file.
StaleReads(items) ==
    {i \in Large(items) : /\ items[i].tool = "read"
                          /\ \E j \in i+1..Len(items) : IsCall(items[j]) /\ items[j].tool \in {"read", "edit"}}

Weight(item) == IF IsCall(item) /\ item.large THEN 4 ELSE 1
Estimate(items) == FoldLeft(LAMBDA n, item : n + Weight(item), 0, items)

plan(items) ==
    LET used == Estimate(items)
        stale == IF 100 * used >= 55 * Window THEN StaleReads(items) ELSE {}
        big == IF 100 * used >= 70 * Window THEN Large(items) ELSE {}
    IN [replaced |-> stale \union big, dropped |-> 0]

LastUser(items) ==
    LET users == {i \in DOMAIN items : items[i].kind = "user"}
    IN IF users = {} THEN 0 ELSE CHOOSE i \in users : \A j \in users : j <= i

\* A cut that does not stop short of the last question.
PrefixCutAnywhere(items, from) ==
    LET quarter == (Len(items) - from) \div 4
        cut == from + (IF quarter = 0 THEN 1 ELSE quarter)
    IN IF Len(items) <= 2 \/ cut >= Len(items) THEN from ELSE cut

\* dropped counts leading items; the opening prompt is put back by apply.
PrefixCut(items, from) ==
    LET n == Len(items)
        ceiling == IF LastUser(items) <= 1 THEN n ELSE LastUser(items) - 1
        quarter == (n - from) \div 4
        cut == LET c == from + (IF quarter = 0 THEN 1 ELSE quarter) IN IF c < ceiling THEN c ELSE ceiling
    IN IF n <= 2 \/ cut <= from \/ cut >= n THEN from ELSE cut

CanForce(items, previous) ==
    ~(Large(items) \subseteq previous.replaced) \/ PrefixCut(items, previous.dropped) > previous.dropped

force(items, previous) ==
    IF Large(items) \subseteq previous.replaced
    THEN [previous EXCEPT !.dropped = PrefixCut(items, previous.dropped)]
    ELSE [previous EXCEPT !.replaced = @ \union Large(items)]

\* The items the request is built from, each with its place in the transcript.
At(items, i, e) == [item |-> items[i], at |-> i, marker |-> i \in e.replaced]
Hole == [item |-> [kind |-> "elision"], at |-> 0, marker |-> TRUE]

apply(items, e) ==
    LET kept(first) == [k \in 1..(Len(items) + 1 - first) |-> At(items, first + k - 1, e)]
    IN IF e.dropped = 0 \/ items = <<>> THEN kept(1)
       ELSE <<[At(items, 1, e) EXCEPT !.marker = FALSE]>>
            \o (IF e.dropped > 1 THEN <<Hole>> ELSE <<>>)
            \o kept(e.dropped + 1)

(* ---- the Messages projection ---- *)

\* short: a result whose output the marker replaced.
Part(role, type, x) == [role |-> role, type |-> type, at |-> x.at, short |-> type = "result" /\ x.marker]

\* The run of consecutive calls that starts at i, and nothing elsewhere in it.
Run(items, i) ==
    LET stops == {j \in i..Len(items) : ~IsCall(items[j].item)}
        last == IF stops = {} THEN Len(items) ELSE (CHOOSE j \in stops : \A k \in stops : j <= k) - 1
    IN SubSeq(items, i, last)
StartsRun(items, i) == i = 1 \/ ~IsCall(items[i-1].item)

Parts(items, i) ==
    LET x == items[i] IN
    CASE x.item.kind = "call" /\ StartsRun(items, i) ->
            [k \in DOMAIN Run(items, i) |-> Part("assistant", "use", Run(items, i)[k])]
            \o [k \in DOMAIN Run(items, i) |-> Part("user", "result", Run(items, i)[k])]
      [] x.item.kind \in {"user", "interrupted", "elision"} -> <<Part("user", "text", x)>>
      [] x.item.kind = "text" -> <<Part("assistant", "text", x)>>
      [] x.item.kind = "reasoning" /\ model = owner /\ x.item.signed -> <<Part("assistant", "thinking", x)>>
      [] OTHER -> <<>>

\* A part joins the last message when the role is the same.
PushContent(out, part) ==
    LET p == [type |-> part.type, at |-> part.at, short |-> part.short] IN
    IF out # <<>> /\ Last(out).role = part.role
    THEN [out EXCEPT ![Len(out)].content = Append(@, p)]
    ELSE Append(out, [role |-> part.role, content |-> <<p>>])

wire_messages(items) ==
    FoldLeft(PushContent, <<>>, FlattenSeq([i \in DOMAIN items |-> Parts(items, i)]))

BuildRequest(items, e) == wire_messages(apply(items, e))

(* ---- the other dialects ---- *)

Typed(message, type) == SelectSeq(message.content, LAMBDA p : p.type = type)
Ats(parts) == [k \in DOMAIN parts |-> parts[k].at]

\* Chat completions: text and calls in one message, then a message a result.
wire_to_openai(messages) ==
    FlattenSeq([i \in DOMAIN messages |->
        LET m == messages[i]
            said == Typed(m, "text")
            uses == Typed(m, "use")
            answers == [k \in DOMAIN Typed(m, "result") |->
                            [role |-> "tool", answers |-> Typed(m, "result")[k].at]]
        IN (IF said = <<>> /\ uses = <<>> THEN <<>>
            ELSE <<[role |-> m.role, text |-> Ats(said), calls |-> Ats(uses)]>>) \o answers])

\* Responses: calls and outputs as items of their own, then the message's text.
input_items(messages) ==
    FlattenSeq([i \in DOMAIN messages |->
        LET m == messages[i]
            tools == SelectSeq(m.content, LAMBDA p : p.type \in {"use", "result"})
            said == Typed(m, "text")
        IN [k \in DOMAIN tools |-> [type |-> tools[k].type, at |-> tools[k].at]]
           \o (IF said = <<>> THEN <<>> ELSE <<[type |-> "message", at |-> Ats(said)[1]]>>)])

(* ---- the session ---- *)

Init ==
    /\ transcript = <<>> /\ recorded = <<>>
    /\ owner = FirstModel /\ model = FirstModel
    /\ elisions = NoElisions
    /\ phase = "idle" /\ request = <<>> /\ forced = FALSE
    /\ switches = 0

Push(items) == transcript' = transcript \o items
Record(items) == recorded' = recorded \o SelectSeq(items, Persisted)

Prompt ==
    /\ phase = "idle" /\ Len(transcript) < MaxItems
    /\ Push(<<User>>) /\ Record(<<User>>)
    /\ phase' = "step"
    /\ UNCHANGED <<owner, model, elisions, request, forced, switches>>

\* compact, then build_request, then the first attempt to sample.
BeginStep ==
    /\ phase = "step"
    /\ elisions' = plan(transcript)
    /\ request' = BuildRequest(transcript, plan(transcript))
    /\ forced' = FALSE
    /\ phase' = "sent"
    /\ UNCHANGED <<transcript, recorded, owner, model, switches>>

\* The provider refuses the request as too large: once, it is forced smaller.
Overflow ==
    /\ phase = "sent" /\ ~forced /\ CanForce(transcript, elisions)
    /\ elisions' = force(transcript, elisions)
    /\ request' = BuildRequest(transcript, force(transcript, elisions))
    /\ forced' = TRUE
    /\ UNCHANGED <<transcript, recorded, owner, model, phase, switches>>

\* An answer is appended whole, its calls with the status dispatch gave them.
Answered ==
    /\ phase = "sent"
    /\ \E blocks \in Answers :
        /\ Len(transcript) + Len(blocks) <= MaxItems
        /\ Push(blocks) /\ Record(blocks)
        /\ phase' = IF \E i \in DOMAIN blocks : IsCall(blocks[i]) THEN "step" ELSE "idle"
    /\ request' = <<>>
    /\ UNCHANGED <<owner, model, elisions, forced, switches>>

\* Cancelled while sampling, or seen cancelled after dispatch: never recorded.
Interrupt ==
    /\ phase = "sent" \/ (phase = "step" /\ IsCall(Last(transcript)))
    /\ Len(transcript) < MaxItems
    /\ Push(<<Interrupted>>)
    /\ phase' = "idle"
    /\ request' = <<>>
    /\ UNCHANGED <<recorded, owner, model, elisions, forced, switches>>

\* The step limit, the budget, a refusal, a fatal error, a second overflow.
GiveUp ==
    /\ phase = "sent" \/ (phase = "step" /\ IsCall(Last(transcript)))
    /\ phase' = "idle"
    /\ request' = <<>>
    /\ UNCHANGED <<transcript, recorded, owner, model, elisions, forced, switches>>

\* /model, which the terminal takes only between turns.
SwitchModel ==
    /\ phase = "idle" /\ switches < MaxSwitches
    /\ model' \in Models \ {model}
    /\ switches' = switches + 1
    /\ UNCHANGED <<transcript, recorded, owner, elisions, phase, request, forced>>

\* Reasoning of the items loses its signature when the session changes model.
Cleared(items) ==
    [i \in DOMAIN items |-> IF items[i].kind = "reasoning" THEN [items[i] EXCEPT !.signed = FALSE] ELSE items[i]]

\* The file is loaded again, under the header's model or under another.
Resume ==
    /\ phase = "idle" /\ recorded # <<>> /\ switches < MaxSwitches
    /\ \E m \in Models :
        /\ transcript' = IF m = FirstModel THEN recorded ELSE Cleared(recorded)
        /\ owner' = m /\ model' = m
    /\ elisions' = NoElisions
    /\ switches' = switches + 1
    /\ UNCHANGED <<recorded, phase, request, forced>>

Next == Prompt \/ BeginStep \/ Overflow \/ Answered \/ Interrupt \/ GiveUp \/ SwitchModel \/ Resume

Spec == Init /\ [][Next]_vars

(* ---- properties ---- *)

\* The transcript keeps to its bound, the file never holds more of it, and what
\* compaction drops is always a proper prefix.
TypeOK ==
    /\ Len(transcript) <= MaxItems /\ Len(recorded) <= MaxItems
    /\ owner \in Models /\ model \in Models
    /\ elisions.replaced \subseteq 1..MaxItems /\ elisions.dropped \in 0..MaxItems
    /\ phase \in {"idle", "step", "sent"} /\ forced \in BOOLEAN /\ switches \in 0..MaxSwitches

Sent == phase = "sent"

UsesOf(m) == Ats(Typed(m, "use"))
ResultsOf(m) == Ats(Typed(m, "result"))

\* Whatever was elided, dropped, interrupted or resumed: the roles of a request
\* alternate from the user's on, and the uses of an assistant message are
\* answered, all of them and in order, at the start of the next message.
ToolPairsHold ==
    Sent => \A i \in DOMAIN request :
        /\ request[i].role = (IF i % 2 = 1 THEN "user" ELSE "assistant")
        /\ request[i].role = "user" => UsesOf(request[i]) = <<>>
        /\ UsesOf(request[i]) # <<>> =>
              /\ i < Len(request)
              /\ ResultsOf(request[i+1]) = UsesOf(request[i])
              /\ \A k \in 1..Len(UsesOf(request[i])) : request[i+1].content[k].type = "result"
        /\ ResultsOf(request[i]) # <<>> => i > 1 /\ UsesOf(request[i-1]) = ResultsOf(request[i])

\* The same, of the Responses dialect: every output comes after its call, and
\* between the two stand only other calls, outputs and what the model itself said.
ResponsesPairsHold ==
    Sent => LET items == input_items(request) IN
        \A i \in DOMAIN items : items[i].type = "result" =>
            \E j \in 1..i-1 : items[j].type = "use" /\ items[j].at = items[i].at

InRequest(type, i) == \E m \in DOMAIN request : \E k \in DOMAIN request[m].content :
                            request[m].content[k].type = type /\ request[m].content[k].at = i

\* No elision, forced or not, costs the request the opening prompt, the prompt
\* being answered, or a call made since; and a hole in it is always marked.
QuestionSurvives ==
    Sent => LET asked == LastUser(transcript) IN
        /\ InRequest("text", 1) /\ InRequest("text", asked)
        /\ asked > 1 => \A i \in asked..Len(transcript) : IsCall(transcript[i]) => InRequest("result", i)
        /\ elisions.dropped > 1 => InRequest("text", 0)

\* session.rs:186: reasoning goes back only to the model that minted it.
OwnReasoningOnly ==
    Sent => \A m \in DOMAIN request : \A k \in DOMAIN request[m].content :
        LET p == request[m].content[k] IN p.type = "thinking" => transcript[p.at].by = model

\* openai/request.rs:3: a tool result is a message of its own, and one follows
\* the message that made the call before anything else does.
ResultsFollowCalls ==
    Sent => LET messages == wire_to_openai(request) IN
        \A i \in DOMAIN messages : messages[i].role = "assistant" =>
            \A k \in DOMAIN messages[i].calls :
                /\ i + k <= Len(messages)
                /\ messages[i+k] = [role |-> "tool", answers |-> messages[i].calls[k]]

\* A forced compaction leaves the provider less to read than it refused.
ForceMakesRoom == [][forced' /\ ~forced => request' # request]_vars

\* The plan is a function of what the file holds: a resumed session leaves out
\* what the one that wrote the file left out, unless a compaction was forced.
PlanIsPure == Sent /\ ~forced => elisions = plan(transcript)
=============================================================================
