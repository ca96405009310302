------------------------------- MODULE Signals -------------------------------
(***************************************************************************)
(* The scanner that finds a program's status sequences in its output: an   *)
(* escape and a prefix, a payload, and a bell or a string terminator.  The *)
(* output comes in chunks cut anywhere; what is unfinished is kept.        *)
(***************************************************************************)
EXTENDS Naturals, Sequences, FiniteSets, SequencesExt

CONSTANTS
    MaxOutput,   \* bound on the bytes printed
    MaxChunk,    \* bound on the bytes of one read
    MaxKept      \* bytes of an unfinished sequence that are kept

VARIABLES
    output,      \* everything printed so far
    pending,     \* what the scanner has kept
    found,       \* payloads it has yielded
    overrun      \* it has let go of a sequence that grew too long

vars == <<output, pending, found, overrun>>

\* "e" is the escape, "p" the rest of the prefix, "s" the rest of a string
\* terminator, "b" a bell, "x" any byte of a payload.
Bytes == {"e", "p", "s", "b", "x"}
PREFIX == <<"e", "p">>
ST == <<"e", "s">>

Starts(data, at, needle) ==
    at + Len(needle) - 1 <= Len(data) /\ SubSeq(data, at, at + Len(needle) - 1) = needle
\* The first place of a needle at or after one, 0 when there is none.
find(data, from, needle) ==
    LET at == {k \in from..Len(data) : Starts(data, k, needle)}
    IN IF at = {} THEN 0 ELSE CHOOSE k \in at : \A j \in at : k <= j

\* A payload ends at the next bell, and at a terminator when there is no bell.
End(data, body) ==
    LET bell == find(data, body, <<"b">>)
        st == find(data, body, ST)
    IN IF bell # 0 THEN [stop |-> bell, len |-> 1] ELSE [stop |-> st, len |-> 2]
Payload(data, body) == SubSeq(data, body, End(data, body).stop - 1)
\* The longest beginning of a prefix the data end with.
TailOf(data) == IF data # <<>> /\ Last(data) = "e" THEN <<"e">> ELSE <<>>

\* The payloads from one place on, and what is kept for the next chunk.
scan[data \in Seq(Bytes), from \in Nat] ==
    LET at == find(data, from, PREFIX)
        body == at + Len(PREFIX)
        end == End(data, body)
        keep == SubSeq(data, at, Len(data))
    IN IF at = 0 THEN [out |-> <<>>, keep |-> TailOf(data), lost |-> FALSE]
       ELSE IF end.stop = 0
            THEN [out |-> <<>>, keep |-> IF Len(keep) < MaxKept THEN keep ELSE <<>>, lost |-> Len(keep) >= MaxKept]
       ELSE LET rest == scan[data, end.stop + end.len]
            IN [rest EXCEPT !.out = <<Payload(data, body)>> \o @]

\* A scanner that forgets the beginning of a sequence.
feedAlone(chunk) == scan[chunk, 1]
feed(chunk) == scan[pending \o chunk, 1]

Init == output = <<>> /\ pending = <<>> /\ found = <<>> /\ overrun = FALSE

Read ==
    \E n \in 1..MaxChunk : \E chunk \in [1..n -> Bytes] :
        /\ Len(output) + n <= MaxOutput
        /\ output' = output \o chunk
        /\ LET got == feed(chunk)
           IN pending' = got.keep /\ found' = found \o got.out /\ overrun' = (overrun \/ got.lost)

Next == Read

Spec == Init /\ [][Next]_vars

(* ---- properties ---- *)

TypeOK == overrun \in BOOLEAN /\ Len(pending) <= MaxKept /\ Len(found) <= MaxOutput

\* What the output says, read once and as a whole: a payload goes from its
\* prefix to whichever of the two ends comes first.
Ends(body) == {k \in body..Len(output) : output[k] = "b" \/ Starts(output, k, ST)}
First(body) == CHOOSE k \in Ends(body) : \A j \in Ends(body) : k <= j
Said ==
    LET At(k) == Starts(output, k, PREFIX)
        Inside(k) == \E j \in 1..(k - 1) : At(j) /\ \A i \in Ends(j + 2) : i > k
    IN {k \in DOMAIN output : At(k) /\ ~Inside(k) /\ Ends(k + 2) # {}}

\* However the output is cut into chunks, a program that ends its sequences by
\* bells has each of them found, in order (osc.rs:7).
BellsAreFound ==
    (~overrun /\ find(output, 1, ST) = 0) =>
        LET at == SetToSortSeq(Said, <)
        IN found = [k \in DOMAIN at |-> SubSeq(output, at[k] + 2, First(at[k] + 2) - 1)]

\* The same of every program, whichever end it uses (osc.rs:7).
SignalsAreFound ==
    ~overrun =>
        LET at == SetToSortSeq(Said, <)
        IN found = [k \in DOMAIN at |-> SubSeq(output, at[k] + 2, First(at[k] + 2) - 1)]
=============================================================================
