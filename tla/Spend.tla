-------------------------------- MODULE Spend --------------------------------
(***************************************************************************)
(* What the messages of a scan cost and what the pattern says (axio-cost,  *)
(* pricing, totals, usage and stats; the tables of axio cost and of the    *)
(* Cost and Stats views).  The arithmetic is pure; the behaviour is a      *)
(* report read after any sequence of log entries.                          *)
(*                                                                         *)
(* Money is a whole number, a rate whole money for a token, a day a        *)
(* number.  A model id is its name and the decorations around it.          *)
(***************************************************************************)
EXTENDS Naturals, Sequences, SequencesExt, FiniteSetsExt

CONSTANTS
    Logs,       \* the log entries that may be read: agent, session, model,
                \* day, usage and the agent's own figure
    Inclusive,  \* the agents whose input contains their cached reads
    Bundle,     \* the compiled-in table: rates by name
    Feed,       \* an imported feed: offers in the document's order
    MaxLogs     \* bound: entries read

VARIABLE logs

NoPrice == [input |-> 0, output |-> 0, read |-> 0, above |-> 0, factor |-> 0,
            until |-> 0, promo |-> 0]
NoCost  == 0

Dec(m, n) == IF m > n THEN m - n ELSE 0
Total(s) == FoldLeft(LAMBDA m, n : m + n, 0, s)
Each(f(_), s) == [i \in 1..Len(s) |-> f(s[i])]

-----------------------------------------------------------------------------
(* Usage, in the buckets a bill is computed from. *)

total(t) == t.input + t.output + t.read + t.write

from_inclusive_input(input, cached, output) ==
    [input |-> Dec(input, cached), output |-> output, read |-> cached, write |-> 0]

(* A total alone is all output, the dearest bucket; otherwise the agent's  *)
(* convention says whether the input holds the cached reads.               *)
breakdown(usage, inclusive) ==
    IF usage.input = 0 /\ usage.output = 0 /\ usage.cached = 0 /\ usage.total > 0
    THEN [input |-> 0, output |-> usage.total, read |-> 0, write |-> 0]
    ELSE IF inclusive
         THEN [from_inclusive_input(usage.input, usage.cached, usage.output)
                 EXCEPT !.write = usage.write]
         ELSE [input |-> usage.input, output |-> usage.output,
               read |-> usage.cached, write |-> usage.write]

Message(log) ==
    [client |-> log.client, session |-> log.session, model |-> log.model,
     day |-> log.day, tokens |-> breakdown(log.usage, log.client \in Inclusive),
     reported |-> log.reported]

Messages == Each(Message, logs)

-----------------------------------------------------------------------------
(* Prices. *)

Strip(suffixes, s) ==
    IF suffixes # <<>> /\ Last(suffixes) = s THEN Front(suffixes) ELSE suffixes

(* Decorations come off in one fixed order: the platform in front of all,  *)
(* the vendors, the bracket with what follows, and from the end -fast,     *)
(* then -latest, then a date.  What hides behind another stays.            *)
normalize(model) ==
    [name     |-> model.name,
     platform |-> model.platform /\ model.vendors > 0,
     vendors  |-> 0,
     suffixes |-> Strip(Strip(Strip(model.suffixes, "fast"), "latest"), "date")]

Plain(name) == [name |-> name, platform |-> FALSE, vendors |-> 0, suffixes |-> <<>>]

(* The dearer of two offers for a model is kept, by its input price; one   *)
(* without both prices is not admitted.                                    *)
Offer(rates, offer) ==
    IF offer.input = 0 \/ offer.output = 0 THEN rates
    ELSE LET id == normalize(offer.model)
         IN  IF id \in DOMAIN rates /\ offer.input <= rates[id].input THEN rates
             ELSE [k \in DOMAIN rates \cup {id} |->
                      IF k = id THEN [NoPrice EXCEPT !.input = offer.input,
                                                     !.output = offer.output,
                                                     !.read = offer.input]
                      ELSE rates[k]]

parse(feed) == FoldLeft(Offer, <<>>, feed)
overlay == parse(Feed)

(* The bundle wins where both know a model; a promotion holds to its day.  *)
resolve(model, day) ==
    LET id == normalize(model)
    IN  IF id.name \in DOMAIN Bundle /\ id = Plain(id.name)
        THEN LET row == Bundle[id.name]
             IN  IF day <= row.until THEN [row EXCEPT !.input = row.promo] ELSE row
        ELSE IF id \in DOMAIN overlay THEN overlay[id] ELSE NoPrice

(* A request over the threshold is billed at the long rates, by its own    *)
(* size.                                                                   *)
cost(price, t) ==
    LET factor == IF price.above > 0 /\ t.input + t.read + t.write > price.above
                  THEN price.factor ELSE 1
    IN  factor * (t.input * price.input + t.output * price.output
                  + t.read * price.read + t.write * price.input)

-----------------------------------------------------------------------------
(* Totals. *)

NoTotals == [messages |-> 0, tokens |-> 0, dollars |-> 0,
             unpriced |-> 0, unpricedMessages |-> 0, reported |-> 0]

addAsFree(totals, m) ==
    LET price == resolve(m.model, m.day)
    IN  [totals EXCEPT !.messages = @ + 1, !.tokens = @ + total(m.tokens),
                       !.dollars = @ + cost(price, m.tokens)]

(* The agent's own figure wins; otherwise the table's, as of the message's *)
(* own day; and with neither the tokens are counted and not the money.     *)
add(totals, m) ==
    LET counted == [totals EXCEPT !.messages = @ + 1, !.tokens = @ + total(m.tokens)]
        price   == resolve(m.model, m.day)
    IN  IF m.reported # NoCost
        THEN [counted EXCEPT !.dollars = @ + m.reported, !.reported = @ + 1]
        ELSE IF price # NoPrice
        THEN [counted EXCEPT !.dollars = @ + cost(price, m.tokens)]
        ELSE [counted EXCEPT !.unpriced = @ + total(m.tokens), !.unpricedMessages = @ + 1]

merge(a, b) == [k \in DOMAIN a |-> a[k] + b[k]]

(* Complete when everything was priced; unknown under one in a hundred of  *)
(* the tokens.                                                             *)
Classified(totals) ==
    IF totals.unpricedMessages = 0 THEN "complete"
    ELSE IF totals.tokens # 0 /\ 100 * (totals.tokens - totals.unpriced) < totals.tokens
    THEN "unknown" ELSE "partial"

TotalsOf(messages) == FoldLeft(add, NoTotals, messages)

-----------------------------------------------------------------------------
(* The tables. *)

Key(by, m) ==
    CASE by = "model"   -> normalize(m.model)
      [] by = "harness" -> m.client
      [] by = "session" -> m.session
      [] OTHER          -> m.day

Keys(by, messages) == {Key(by, messages[i]) : i \in 1..Len(messages)}

group_report(by, messages) ==
    [k \in Keys(by, messages) |->
        TotalsOf(SelectSeq(messages, LAMBDA m : Key(by, m) = k))]

(* What a row sorts by: an unknown cost sorts as nothing. *)
spend(totals) == IF Classified(totals) = "unknown" THEN 0 ELSE totals.dollars

-----------------------------------------------------------------------------
(* The calendar. *)

Days == SetToSortSeq(Keys("day", Messages), LAMBDA x, y : x < y)

TokensOn(day) ==
    Total(Each(LAMBDA m : total(m.tokens), SelectSeq(Messages, LAMBDA m : m.day = day)))

LongerAcrossGaps(run, day) ==
    [run |-> run.run + 1, best |-> run.run + 1, last |-> day]

(* Fold over the days from the oldest: the run so far and the best.        *)
Longer(run, day) ==
    LET n == IF run.last > 0 /\ run.last + 1 = day THEN run.run + 1 ELSE 1
    IN  [run |-> n, best |-> IF n > run.best THEN n ELSE run.best, last |-> day]

longest_streak(days) == FoldLeft(Longer, [run |-> 0, best |-> 0, last |-> 0], days).best

(* From the newest back, as long as the day before follows.                *)
current_streak(days) ==
    IF days = <<>> THEN 0
    ELSE LET n == Len(days)
             Unbroken(k) == \A j \in 0..(k - 1) : days[n - j] = days[n] - j
         IN  CHOOSE k \in 1..n : Unbroken(k) /\ (k = n \/ ~Unbroken(k + 1))

(* The three cuts that split the active days in quarters.                  *)
thresholds(days) ==
    LET sorted == SortSeq(Each(TokensOn, days), LAMBDA x, y : x < y)
        n == Len(sorted)
        At(quarters) == sorted[1 + Min({(n * quarters) \div 4, n - 1})]
    IN  IF n = 0 THEN <<0, 0, 0>> ELSE <<At(1), At(2), At(3)>>

level(cuts, tokens) ==
    IF tokens = 0 THEN 0
    ELSE 1 + Len(SelectSeq(cuts, LAMBDA cut : tokens >= cut))

-----------------------------------------------------------------------------
Init == logs = <<>>

Read ==
    /\ Len(logs) < MaxLogs
    /\ \E log \in Logs : logs' = Append(logs, log)

Next == Read

Spec == Init /\ [][Next]_logs

-----------------------------------------------------------------------------
(* What the figures may be trusted with. *)

(* The types of the state.                                                 *)
TypeOK == logs \in Seq(Logs) /\ Len(logs) <= MaxLogs

HasPrice(m) == m.reported # NoCost \/ resolve(m.model, m.day) # NoPrice

(* A figure is called complete only when every message in it had a price,  *)
(* an unpriced model is never free, and cutting the messages in two and    *)
(* merging says the same (totals.rs:84-158).                               *)
CostIsHonest ==
    LET all == TotalsOf(Messages)
        priced == SelectSeq(Messages, HasPrice)
    IN  /\ Classified(all) = "complete" <=> priced = Messages
        /\ all.tokens - all.unpriced = Total(Each(LAMBDA m : total(m.tokens), priced))
        /\ \A n \in 0..Len(logs) :
              all = merge(TotalsOf(SubSeq(Messages, 1, n)),
                          TotalsOf(SubSeq(Messages, n + 1, Len(logs))))

(* Whatever a table is grouped by, its rows add up to the total under it.  *)
GroupsAddUp ==
    \A by \in {"model", "harness", "session", "day"} :
        LET rows == group_report(by, Messages)
            RowsSum == FoldLeft(merge, NoTotals,
                           [i \in 1..Len(SetToSeq(DOMAIN rows)) |->
                               rows[SetToSeq(DOMAIN rows)[i]]])
        IN  RowsSum = TotalsOf(Messages)

Runs(days) ==
    {r \in (1..Len(days)) \X (1..Len(days)) :
        /\ r[1] <= r[2]
        /\ days[r[2]] - days[r[1]] = r[2] - r[1]}

(* The longest streak is the longest run of consecutive active days, the   *)
(* current one the run that ends on the last, and heat levels never rank a *)
(* day above a busier one (stats.rs:78-202).                               *)
CalendarIsRead ==
    LET longest == Max({0} \cup {r[2] - r[1] + 1 : r \in Runs(Days)})
        current == Max({0} \cup {r[2] - r[1] + 1 : r \in {q \in Runs(Days) : q[2] = Len(Days)}})
    IN  /\ longest_streak(Days) = longest
        /\ current_streak(Days) = current
        /\ \A c, d \in ToSet(Days) :
              /\ TokensOn(c) <= TokensOn(d)
                    => level(thresholds(Days), TokensOn(c)) <= level(thresholds(Days), TokensOn(d))
              /\ TokensOn(c) > 0 => level(thresholds(Days), TokensOn(c)) \in 1..4

(* What stats.rs:73 says of the quarters: the four levels are guaranteed   *)
(* to be populated.                                                        *)
FourLevels ==
    Days # <<>> =>
        1..4 \subseteq {level(thresholds(Days), TokensOn(d)) : d \in ToSet(Days)}

(* What axio/src/cost/mod.rs:316 says of rows without a price: they sort   *)
(* by tokens and not as if they were free.                                 *)
UnpricedAreNotFree ==
    \A by \in {"model", "harness"} :
        \A k \in Keys(by, Messages) : spend(group_report(by, Messages)[k]) > 0

(* What pricing/table.rs:199 says of spellings: all of them name the same  *)
(* row.                                                                    *)
SpellingsAgree ==
    \A i \in 1..Len(logs) : normalize(logs[i].model) = Plain(logs[i].model.name)

(* What pricing/feed.rs:61 says of offers that disagree: the dearest is    *)
(* kept.                                                                   *)
DearestIsKept ==
    \A i \in 1..Len(Feed) :
        LET id == normalize(Feed[i].model)
        IN  id \in DOMAIN overlay /\ Feed[i].input = overlay[id].input
                => Feed[i].output <= overlay[id].output
=============================================================================
