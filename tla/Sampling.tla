------------------------------ MODULE Sampling ------------------------------
(***************************************************************************)
(* Asking the model: sample() and stream_once() (axio-core/src/agent/      *)
(* sample.rs), the part of run_turn that keeps or throws away the answer   *)
(* (agent/turn.rs), and the transcript a surface builds from the events    *)
(* they emit (axio-app/src/transcript.rs).                                 *)
(*                                                                         *)
(* The provider is the environment: it may refuse a request, stream blocks *)
(* and break off.  Its well-formedness is assumed as its decoders make it: *)
(* open blocks end in the order of their index, a text has a lower index   *)
(* than a tool call that is open with it, and a stream that ends without   *)
(* an error has ended every block it started.  Deltas only extend the text *)
(* of an entry that is there, and are left out.  What force_compact elides *)
(* is modelled in Compaction; here it finds something or does not.         *)
(***************************************************************************)
EXTENDS Naturals, Sequences, FiniteSets, SequencesExt

CONSTANTS
    Retries,      \* RuntimeConfig::backoff: how many delays it holds
    MaxBlocks,    \* bound: content blocks in one attempt
    MaxSamples,   \* bound: calls of sample() over the whole behaviour
    MaxIds        \* bound: a block starts only while ids up to this are left

ASSUME SamplingAssumption == {Retries, MaxBlocks, MaxSamples, MaxIds} \subseteq Nat

VARIABLES
    pc,          \* where sample() is, or "over" between turns
    cancelled,   \* the turn's token, which every attempt holds a child of
    samples,     \* calls of sample() so far (bound)
    attempts,    \* requests made by this call of sample()
    backoff,     \* delays left in the iterator
    forced,      \* the history was already compacted by force
    result,      \* what sample() returned
    item,        \* the id generated for this attempt
    nextId,      \* ItemId::generate never repeats
    started,     \* indices of the blocks this attempt has started
    open,        \* block index -> id and kind, for a block not ended yet
    blocks,      \* Sampled::blocks
    lost,        \* ids of blocks of attempts that failed (history)
    transcript,  \* items of the session
    surface      \* entries of the surface's transcript

streamVars == <<item, nextId, started, open, blocks>>
callVars == <<samples, attempts, backoff, forced>>
vars == <<pc, cancelled, result, lost, transcript, surface, streamVars, callVars>>

Kinds == {"text", "tool"}
Errors == {"overflow", "retryable", "fatal"}
Closed == [id |-> 0, kind |-> "none"]
Index == 1..MaxBlocks

Init ==
    /\ pc = "over" /\ cancelled = FALSE
    /\ samples = 0 /\ attempts = 0 /\ backoff = 0 /\ forced = FALSE
    /\ result = "none"
    /\ item = 0 /\ nextId = 1
    /\ started = {} /\ open = [i \in Index |-> Closed] /\ blocks = <<>>
    /\ lost = {} /\ transcript = <<>> /\ surface = <<>>

-----------------------------------------------------------------------------
(* The surface: Transcript::apply. *)

Entry(block, live) == [id |-> block.id, kind |-> block.kind, live |-> live]

\* Replace the entry with the item's id where it is, or append a new one.
Upsert(s, e) ==
    IF \E n \in 1..Len(s) : s[n].id = e.id
    THEN [n \in 1..Len(s) |-> IF s[n].id = e.id THEN e ELSE s[n]]
    ELSE Append(s, e)

\* ItemDiscarded: drop the entry with that id, if there is one.
Drop(s, id) ==
    IF \E n \in 1..Len(s) : s[n].id = id
    THEN RemoveAt(s, CHOOSE n \in 1..Len(s) : s[n].id = id) ELSE s

-----------------------------------------------------------------------------
(* sample() *)

Return(r) == pc' = "returned" /\ result' = r

\* A call of sample() starts its own backoff and may force one compaction.
Call ==
    /\ samples < MaxSamples
    /\ samples' = samples + 1
    /\ attempts' = 0 /\ backoff' = Retries /\ forced' = FALSE
    /\ result' = "none"
    /\ pc' = "attempt"

\* A new turn, with a token of its own.
Prompt ==
    /\ pc = "over"
    /\ Call
    /\ cancelled' = FALSE
    /\ UNCHANGED <<lost, transcript, surface, streamVars>>

\* Faulty: what a failed attempt buffered is still there for the next one.
KeepBuffer == UNCHANGED blocks

\* A Sampled is a local of stream_once.
EmptyBuffer == blocks' = <<>>

\* What else stream_once knew of its blocks goes when it returns.
ForgetBlocks == started' = {} /\ open' = [i \in Index |-> Closed]

\* The head of the loop: an id for the attempt, and its request.
Attempt ==
    /\ pc = "attempt"
    /\ attempts' = attempts + 1
    /\ item' = nextId /\ nextId' = nextId + 1
    /\ pc' = "connecting"
    /\ UNCHANGED <<cancelled, result, lost, transcript, surface, started, open, blocks,
                    samples, backoff, forced>>

Connected ==
    /\ pc = "connecting"
    /\ pc' = "streaming"
    /\ UNCHANGED <<cancelled, result, lost, transcript, surface, streamVars, callVars>>

Open == {i \in Index : open[i] # Closed}

\* Faulty: the token is looked at between blocks only.
SeesCancelBetweenBlocks == pc \in {"connecting", "streaming"} /\ cancelled /\ Open = {}

\* Both awaits of an attempt look at its token before anything else.
SeesCancel == pc \in {"connecting", "streaming"} /\ cancelled

AttemptCancelled ==
    /\ SeesCancel
    /\ Return("cancelled")
    /\ EmptyBuffer /\ ForgetBlocks
    /\ UNCHANGED <<cancelled, lost, transcript, surface, item, nextId, callVars>>

\* How a decoder numbers a block that starts while others are open.
Numbered(i, k) ==
    /\ i \in Index \ started
    /\ \A j \in Open : j > i <=> (k = "text" /\ open[j].kind = "tool")

\* ItemStarted shows a text block at once; a tool call has nothing to show yet.
BlockStart ==
    /\ pc = "streaming" /\ ~cancelled /\ nextId <= MaxIds
    /\ \E i \in Index, k \in Kinds : LET block == [id |-> nextId, kind |-> k] IN
         /\ Numbered(i, k)
         /\ open' = [open EXCEPT ![i] = block]
         /\ surface' = IF k = "text" THEN Upsert(surface, Entry(block, TRUE)) ELSE surface
         /\ started' = started \union {i}
    /\ nextId' = nextId + 1
    /\ UNCHANGED <<pc, cancelled, result, lost, transcript, item, blocks, callVars>>

\* Faulty: the finished block goes by the attempt's id, which nobody has seen.
Completed(block) == [block EXCEPT !.id = item]

\* Paired with the id the streaming events already used.
Buffered(block) == block

\* The block is complete: ItemCompleted, and its place in the answer.
BlockEnd ==
    /\ pc = "streaming" /\ ~cancelled
    /\ \E i \in Open :
         /\ \A j \in Open : i <= j
         /\ open' = [open EXCEPT ![i] = Closed]
         /\ surface' = Upsert(surface, Entry(open[i], FALSE))
         /\ blocks' = Append(blocks, Buffered(open[i]))
    /\ UNCHANGED <<pc, cancelled, result, lost, transcript, item, nextId, started, callVars>>

\* The stream ended without an error: the whole message is in the buffer.
StreamEnds ==
    /\ pc = "streaming" /\ ~cancelled /\ Open = {}
    /\ Return("ok")
    /\ ForgetBlocks
    /\ UNCHANGED <<cancelled, lost, transcript, surface, item, nextId, blocks, callVars>>

\* Every block this attempt announced or buffered.
OfThisAttempt == (item + 1)..(nextId - 1)

\* Faulty: an overflow may be answered by compacting again and again.
KeepForcing == UNCHANGED forced

OnlyOnce == forced' = TRUE

\* ContextOverflow: compact by force and ask again, once.
Overflowed ==
    /\ \/ ~forced /\ OnlyOnce /\ pc' = "attempt" /\ UNCHANGED result
       \/ ~forced /\ OnlyOnce /\ Return("overflow")   \* nothing left to elide
       \/ forced /\ Return("overflow") /\ UNCHANGED forced
    /\ UNCHANGED <<surface, backoff>>

\* Faulty: the schedule is asked for one delay more than it holds.
DelaysOrLast == backoff >= 0

DelaysLeft == backoff > 0

\* A retryable error: discard what was shown, then wait or give up.
Retried ==
    /\ surface' = Drop(surface, item)
    /\ IF DelaysLeft THEN backoff' = backoff - 1 /\ pc' = "backoff" /\ UNCHANGED result
       ELSE Return("fatal") /\ UNCHANGED backoff
    /\ UNCHANGED forced

\* The request is refused, the stream breaks off or a tool's input does not parse.
Failed ==
    /\ pc = "connecting" \/ (pc = "streaming" /\ ~cancelled)
    /\ lost' = lost \union OfThisAttempt
    /\ \E e \in Errors :
         \/ e = "overflow" /\ Overflowed
         \/ e = "retryable" /\ Retried
         \/ e = "fatal" /\ Return("fatal") /\ UNCHANGED <<surface, backoff, forced>>
    /\ EmptyBuffer /\ ForgetBlocks
    /\ UNCHANGED <<cancelled, transcript, item, nextId, samples, attempts>>

\* The delay is over; the select is not biased, so a cancelled token may lose.
Wake ==
    /\ pc = "backoff"
    /\ pc' = "attempt"
    /\ UNCHANGED <<cancelled, result, lost, transcript, surface, streamVars, callVars>>

WaitCancelled ==
    /\ pc = "backoff" /\ cancelled
    /\ Return("cancelled")
    /\ UNCHANGED <<cancelled, lost, transcript, surface, streamVars, callVars>>

-----------------------------------------------------------------------------
(* run_turn, with the answer *)

\* The budget is spent, or the model refused: the answer is not kept.
AnswerDropped ==
    /\ pc = "returned" /\ result = "ok"
    /\ pc' = "over"
    /\ EmptyBuffer
    /\ UNCHANGED <<cancelled, result, lost, transcript, surface, item, nextId, started, open,
                    callVars>>

\* The blocks become items of the session.  Tool calls are dispatched, and the
\* loop asks again unless the token is cancelled or its steps are spent.
AnswerKept ==
    /\ pc = "returned" /\ result = "ok"
    /\ transcript' = transcript \o blocks
    /\ \/ /\ \E n \in 1..Len(blocks) : blocks[n].kind = "tool"
          /\ ~cancelled /\ Call
       \/ pc' = "over" /\ UNCHANGED <<callVars, result>>
    /\ EmptyBuffer
    /\ UNCHANGED <<cancelled, lost, surface, item, nextId, started, open>>

TurnOver ==
    /\ pc = "returned" /\ result # "ok"
    /\ pc' = "over"
    /\ UNCHANGED <<cancelled, result, lost, transcript, surface, streamVars, callVars>>

Cancel ==
    /\ pc # "over" /\ ~cancelled
    /\ cancelled' = TRUE
    /\ UNCHANGED <<pc, result, lost, transcript, surface, streamVars, callVars>>

Asking ==
    \/ Attempt \/ Connected \/ AttemptCancelled
    \/ BlockStart \/ BlockEnd \/ StreamEnds \/ Failed
    \/ Wake \/ WaitCancelled

Next == Prompt \/ Asking \/ AnswerDropped \/ AnswerKept \/ TurnOver \/ Cancel

Spec == Init /\ [][Next]_vars

\* The endpoint answers or fails, a stream is finite, and a timer fires.
FairSpec == Spec /\ WF_vars(Asking)

-----------------------------------------------------------------------------
(* Properties *)

Block == [id : Nat, kind : Kinds]

\* Every variable has its type.
TypeOK ==
    /\ pc \in {"over", "attempt", "connecting", "streaming", "backoff", "returned"}
    /\ cancelled \in BOOLEAN /\ forced \in BOOLEAN
    /\ samples \in 0..MaxSamples /\ attempts \in Nat /\ backoff \in 0..Retries
    /\ result \in {"none", "ok", "cancelled", "overflow", "fatal"}
    /\ item \in Nat /\ nextId \in Nat /\ started \subseteq Index
    /\ open \in [Index -> Block \union {Closed}]
    /\ blocks \in Seq(Block) /\ lost \subseteq Nat
    /\ transcript \in Seq(Block)
    /\ surface \in Seq([id : Nat, kind : Kinds, live : BOOLEAN])

\* Every block is among the entries, finished, once and in the blocks' order.
ShownInOrder(items, entries) ==
    /\ \A i \in 1..Len(items) : \E n \in 1..Len(entries) : entries[n] = Entry(items[i], FALSE)
    /\ \A i, j \in 1..Len(items), n, m \in 1..Len(entries) :
         entries[n].id = items[i].id /\ entries[m].id = items[j].id => (i < j <=> n < m)

\* "One call has one identity from item_started to its terminal status": every
\* item of the session is on the surface under its own id, once, finished and
\* in the session's order, whatever failed attempts left around it.  A partial
\* answer is never kept: no item comes from an attempt that failed, so a retry
\* neither doubles a tool call nor runs half of one.
TranscriptIsShown ==
    /\ ShownInOrder(transcript, surface)
    /\ \A i \in 1..Len(transcript) : transcript[i].id \notin lost

\* Every request comes to an end, with an answer or without: there is one forced
\* compaction, and retries and compactions do not feed each other.
SampleReturns == pc = "attempt" ~> pc = "returned"

\* "The in-flight item is being abandoned before a retry.  Renderers drop by
\* id": when the loop waits to ask again, nothing of a failed attempt is shown.
PartialsDropped == pc = "backoff" => \A n \in 1..Len(surface) : surface[n].id \notin lost

=============================================================================
