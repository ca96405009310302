----------------------------- MODULE MCTurnLoop -----------------------------
(* A small agent with two files.  Reads and edits of "a" meet an open policy; *)
(* edits of "env" match a deny rule and an allow rule at once.                *)
EXTENDS TurnLoop, TLC

MCMenu == {[kind |-> "read", file |-> "a"], [kind |-> "edit", file |-> "a"],
           [kind |-> "edit", file |-> "env"]}
MCDenyRules == {<<"edit", "env">>}
MCAllowRules == {<<"edit", "env">>}
=============================================================================
