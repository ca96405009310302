------------------------------ MODULE Readings ------------------------------
(***************************************************************************)
(* How the quota panel comes by its figures: a worker asks one provider    *)
(* after the other and publishes all answers together.  Claude answers in  *)
(* JSON, with one window in up to three shapes; opencode with JavaScript   *)
(* nobody documented, from which figures are lifted by looking a bounded   *)
(* way past the name of a window.                                          *)
(***************************************************************************)
EXTENDS Naturals, Sequences, FiniteSets, SequencesExt

CONSTANTS
    Near,        \* how far past a label its figures are looked for
    Pages,       \* the texts opencode may answer with
    Payloads,    \* the entries Claude may answer with
    MaxProbes    \* bound on the refreshes

VARIABLES
    at,          \* what the worker is at; "dead" when it unwound
    refreshing,  \* the flag that keeps a second worker from starting
    cookie,      \* a session cookie is set
    workspace,   \* a workspace id is set
    payload,     \* the answer Claude's figures were read from
    page,        \* the text opencode's were looked for in
    fetched,     \* the outcomes so far, in the order of the probes
    shown,       \* the outcomes that were published last
    probes       \* refreshes so far

vars == <<at, refreshing, cookie, workspace, payload, page, fetched, shown, probes>>

Rows(rows) == [ok |-> TRUE, rows |-> rows, why |-> "none"]
Failed(why) == [ok |-> FALSE, rows |-> <<>>, why |-> why]

(* ---- opencode: a text of labels, keys, figures, and what lies between ---- *)

Labels == <<"rolling", "weekly">>
PERCENT_KEYS == <<"usagePercent", "percent">>
RESET_KEYS == <<"resetInSec">>
Absent == [kind |-> "absent", of |-> "none", key |-> "none", whole |-> TRUE]

LabelAt(text, label) == SelectInSeq(text, LAMBDA c : c.kind = "label" /\ c.of = label)

\* Everything behind a label.
AroundAll(text, label) == SubSeq(text, LabelAt(text, label), Len(text))
\* A bounded way past it.
Around(text, label) == SubSeq(text, LabelAt(text, label), Min({Len(text), LabelAt(text, label) + Near - 1}))
\* The bound counts bytes, and a slice must not end inside a character.
Splits(text, label) ==
    LET end == LabelAt(text, label) + Near
    IN LabelAt(text, label) # 0 /\ end <= Len(text) /\ text[end].kind = "rest"

\* The first number behind the key, whatever stands before it; one the bound cuts
\* is read as far as it goes.
number_near(text, label, key) ==
    LET near == Around(text, label)
        keyAt == SelectInSeq(near, LAMBDA c : c.kind = "key" /\ c.key = key)
        behind == SubSeq(near, keyAt + 1, Len(near))
        figureAt == SelectInSeq(behind, LAMBDA c : c.kind = "figure")
    IN IF LabelAt(text, label) = 0 \/ keyAt = 0 \/ figureAt = 0 THEN Absent
       ELSE [behind[figureAt] EXCEPT !.whole = figureAt < Len(behind)]

\* The first of the keys that has one.
first_number(text, label, keys) ==
    LET found == {i \in DOMAIN keys : number_near(text, label, keys[i]) # Absent}
    IN IF found = {} THEN Absent ELSE number_near(text, label, keys[Min(found)])

\* An error is looked for only where no window is.
error_message(text) ==
    LET errorAt == SelectInSeq(text, LAMBDA c : c.kind = "error")
    IN IF errorAt = 0 THEN "none" ELSE text[errorAt].of
signed_out_or_broken(message) == IF message = "signed out" THEN "unauthorized" ELSE "decode"

parse_usage(text) ==
    LET Row(label) == [window |-> label, used |-> first_number(text, label, PERCENT_KEYS),
                       reset |-> first_number(text, label, RESET_KEYS)]
        rows == SelectSeq([i \in DOMAIN Labels |-> Row(Labels[i])], LAMBDA r : r.used # Absent)
    IN IF rows # <<>> THEN Rows(rows) ELSE Failed(signed_out_or_broken(error_message(text)))
Panics(text) == \E label \in ToSet(Labels) : Splits(text, label)

(* ---- Claude: flat keys, a key per tier, and a list of limits ---- *)

rawLabel(group) == group
canonical_label(group) ==
    CASE group \in {"five_hour", "session"} -> "5h"
      [] group \in {"seven_day", "weekly"} -> "Weekly"
      [] OTHER -> group

\* A tier's key is its label where it names no length.
label_from(entry) ==
    IF entry.form = "tier" /\ entry.scope = "none"
    THEN <<IF entry.group = "weekly" THEN "Weekly" ELSE entry.group, "none">>
    ELSE <<canonical_label(entry.group), entry.scope>>
minutes_of(entry) ==
    CASE entry.form = "tier" -> 0
      [] entry.group \in {"five_hour", "session"} -> 300
      [] entry.group = "weekly" \/ entry.form = "known" -> 10080
      [] OTHER -> 0

\* The first label to claim a window keeps it; a key that is none of the known
\* ones is a window only by its utilization.
Claim(rows, entry) ==
    IF entry.used = 0 \/ (entry.form = "tier" /\ entry.field # "utilization")
       \/ (entry.form # "known" /\ \E r \in ToSet(rows) : r.label = label_from(entry))
    THEN rows
    ELSE Append(rows, [label |-> label_from(entry), minutes |-> minutes_of(entry),
                       scope |-> entry.scope, used |-> entry.used])
claude(entries) ==
    LET Of(form) == SelectSeq(entries, LAMBDA e : e.form = form)
        rows == FoldLeft(Claim, <<>>, Of("known") \o Of("tier") \o Of("limit"))
    IN IF rows = <<>> THEN Failed("decode") ELSE Rows(rows)

-----------------------------------------------------------------------------
Init ==
    /\ at = "idle" /\ refreshing = FALSE /\ cookie \in BOOLEAN /\ workspace \in BOOLEAN
    /\ payload = <<>> /\ page = <<>> /\ fetched = <<>> /\ shown = <<>> /\ probes = 0

refresh ==
    /\ ~refreshing /\ probes < MaxProbes
    /\ refreshing' = TRUE /\ probes' = probes + 1 /\ at' = "claude" /\ fetched' = <<>>
    /\ UNCHANGED <<cookie, workspace, payload, page, shown>>

Ends(outcome) == fetched' = Append(fetched, outcome) /\ at' = "publish"

FetchClaude ==
    /\ at = "claude"
    /\ \/ \E why \in {"network", "unauthorized", "rate limited", "http"} :
             payload' = <<>> /\ fetched' = Append(fetched, Failed(why))
       \/ \E entries \in Payloads :
             payload' = entries /\ fetched' = Append(fetched, claude(entries))
    /\ at' = IF ~cookie THEN "refuse" ELSE IF workspace THEN "get" ELSE "discover"
    /\ UNCHANGED <<refreshing, cookie, workspace, page, shown, probes>>

\* Without a cookie nothing is asked.
NoSession ==
    /\ at = "refuse" /\ Ends(Failed("not configured"))
    /\ UNCHANGED <<refreshing, cookie, workspace, payload, page, shown, probes>>

\* Any status but a success is taken for a session that is not recognised.
discover_workspace ==
    /\ at = "discover"
    /\ \/ \E why \in {"network", "unauthorized", "not configured"} \union
              {signed_out_or_broken(m) : m \in {"signed out", "broken"}} : Ends(Failed(why))
       \/ at' = "get" /\ fetched' = fetched
    /\ UNCHANGED <<refreshing, cookie, workspace, payload, page, shown, probes>>

\* The worker is a thread of its own: what unwinds it, ends it where it is.
Dies == at' = "dead" /\ fetched' = fetched

\* A text without figures is asked for a second time, in the other way.
Get ==
    /\ at = "get"
    /\ \/ \E why \in {"network", "unauthorized", "rate limited", "http"} : Ends(Failed(why)) /\ page' = page
       \/ \E text \in Pages :
             /\ page' = text
             /\ IF Panics(text) THEN Dies
                ELSE IF parse_usage(text).ok THEN Ends(parse_usage(text))
                ELSE at' = "post" /\ fetched' = fetched
    /\ UNCHANGED <<refreshing, cookie, workspace, payload, shown, probes>>

\* The status of this answer is not looked at.
post_subscription ==
    /\ at = "post"
    /\ \/ Ends(Failed("network")) /\ page' = page
       \/ \E text \in Pages :
             page' = text /\ IF Panics(text) THEN Dies ELSE Ends(parse_usage(text))
    /\ UNCHANGED <<refreshing, cookie, workspace, payload, shown, probes>>

Publish ==
    /\ at = "publish" /\ shown' = fetched /\ refreshing' = FALSE /\ at' = "idle"
    /\ UNCHANGED <<cookie, workspace, payload, page, fetched, probes>>

Next ==
    \/ refresh \/ FetchClaude \/ NoSession \/ discover_workspace
    \/ Get \/ post_subscription \/ Publish

Spec == Init /\ [][Next]_vars

-----------------------------------------------------------------------------
TypeOK ==
    /\ at \in {"idle", "claude", "refuse", "discover", "get", "post", "publish", "dead"}
    /\ probes \in 0..MaxProbes /\ page \in Pages \union {<<>>} /\ payload \in Payloads \union {<<>>}
    /\ Len(fetched) <= 2 /\ Len(shown) \in {0, 2}
    /\ refreshing <=> at # "idle"

Lifted == IF shown # <<>> /\ shown[2].ok THEN ToSet(shown[2].rows) ELSE {}

\* No other window is named as near.
Clear(label) ==
    \A i \in DOMAIN page : page[i].kind = "label" /\ page[i].of # label =>
        i < LabelAt(page, label) \/ i >= LabelAt(page, label) + Near
\* Its figure comes first, under the only name a percentage has in this text.
Leads(label) ==
    LET i == LabelAt(page, label)
    IN i + 3 <= Len(page) /\ page[i + 2].kind = "figure" /\ page[i + 2].of = label
       /\ \A j \in DOMAIN page : page[j].kind = "key" /\ page[j].key \in ToSet(PERCENT_KEYS) =>
              page[j].key = page[i + 1].key

\* A window that is named with no other nearby shows no other's figure, and one
\* whose percentage comes first, spelt as everywhere in the text, shows that one,
\* whatever its neighbours lack (payload.rs:16, opencode/mod.rs:8).
FiguresAreOwn ==
    \A r \in Lifted :
        /\ Clear(r.window) => {r.used.of, r.reset.of} \subseteq {r.window, "none"}
        /\ Leads(r.window) => r.used = page[LabelAt(page, r.window) + 2]

\* One window that comes in several shapes is one row, with the figure of the
\* shape that has it first, and none that has a figure is left out
\* (claude/usage.rs:19, 128).
OneRowPerWindow ==
    shown # <<>> =>
        LET rows == shown[1].rows
        IN /\ \A i, j \in DOMAIN rows : i < j => rows[i].label # rows[j].label
                 /\ (rows[i].minutes # 0 =>
                        <<rows[i].minutes, rows[i].scope>> # <<rows[j].minutes, rows[j].scope>>)
           /\ \A e \in ToSet(payload) : e.form = "known" /\ e.used # 0 =>
                 \E r \in ToSet(rows) : r.minutes = minutes_of(e) /\ r.scope = e.scope /\ r.used = e.used

\* What payload.rs:16 says: a figure that is missing does not become the next
\* window's.
NoBorrowing == \A r \in Lifted : r.used.of = r.window

\* A percentage is a percentage, and all its digits.
PercentIsPercent == \A r \in Lifted : r.used.key \in ToSet(PERCENT_KEYS) /\ r.used.whole

\* Every refresh comes to its end.
WorkerSurvives == at # "dead"
=============================================================================
