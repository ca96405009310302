---------------------------- MODULE TurnContract ----------------------------
(***************************************************************************)
(* What a turn promises about tool calls, to the next request and to the   *)
(* session file: a call gets one answer, a turn ends only when every call  *)
(* it issued has one, and a process that dies abandons the calls it was    *)
(* working on without taking back an answer it gave.                       *)
(***************************************************************************)
CONSTANT Call

VARIABLES
    phase,      \* "rest" between turns, "turn" inside one, "down" when dead
    pending,    \* calls issued and not answered
    answered,   \* calls with a recorded answer
    abandoned   \* calls no process will answer: a resume reads "cancelled"

vars == <<phase, pending, answered, abandoned>>

Init == phase = "rest" /\ pending = {} /\ answered = {} /\ abandoned = {}

Begin ==
    /\ phase = "rest"
    /\ phase' = "turn"
    /\ UNCHANGED <<pending, answered, abandoned>>

Issue(k) ==
    /\ phase = "turn"
    /\ k \notin pending \union answered \union abandoned
    /\ pending' = pending \union {k}
    /\ UNCHANGED <<phase, answered, abandoned>>

Answer(k) ==
    /\ phase = "turn" /\ k \in pending
    /\ pending' = pending \ {k}
    /\ answered' = answered \union {k}
    /\ UNCHANGED <<phase, abandoned>>

End ==
    /\ phase = "turn" /\ pending = {}
    /\ phase' = "rest"
    /\ UNCHANGED <<pending, answered, abandoned>>

Fail ==
    /\ phase # "down"
    /\ phase' = "down"
    /\ abandoned' = abandoned \union pending
    /\ pending' = {}
    /\ UNCHANGED answered

Recover ==
    /\ phase = "down"
    /\ phase' = "rest"
    /\ UNCHANGED <<pending, answered, abandoned>>

Next ==
    \/ Begin \/ End \/ Fail \/ Recover
    \/ \E k \in Call : Issue(k) \/ Answer(k)

Spec == Init /\ [][Next]_vars

=============================================================================
