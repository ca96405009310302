------------------------------- MODULE Landing -------------------------------
(***************************************************************************)
(* What happens to the work of a session in its worktree: checkpoints on   *)
(* either side of each turn, landing it by a merge, a push or a pull       *)
(* request, and discarding it.  Each is a row of git commands with an      *)
(* await between any two, while the agent and a person go on working.  The *)
(* commands that commit and count are of whatever the worktree has checked *)
(* out, those that merge, push and delete are of the session's branch.     *)
(***************************************************************************)
EXTENDS Naturals, FiniteSets

CONSTANTS
    MaxChanges,  \* bound on the changes made
    MaxTurns,    \* bound on the turns of one life of the session
    MaxLives     \* bound on the lives: a session resumed by a later process

VARIABLES
    tree,        \* changes in the worktree's files
    branch,      \* changes in its branch
    detached,    \* the worktree has something else checked out than its branch
    stray,       \* changes in what it has checked out instead
    base,        \* changes in what the repository has checked out
    remote,      \* changes in the branch at origin
    merging,     \* a merge that stopped in conflict, in the repository
    changes,     \* changes made so far
    turn,        \* the session's task: its life, turn and step, and whether the
                 \* checkpoint before this turn was taken
    turns,       \* the turns with a checkpoint after them
    landing,     \* the landing in progress
    landed,      \* what a landing that said it merged was asked to land, the worktree
                 \* being on its branch all the while
    discard      \* the discard in progress

checkedOut == <<tree, detached, stray>>
repository == <<branch, base, remote, merging>>
lander == <<landing, landed>>
vars == <<checkedOut, repository, changes, turn, turns, lander, discard>>

Actions == {"merge", "push"}
NoLanding == [pc |-> "none", action |-> "none", asked |-> {}, staged |-> {}, off |-> FALSE]
NoDiscard == [pc |-> "none", raced |-> FALSE, of |-> "nothing"]
NoTurn == [life |-> 1, number |-> 0, pc |-> "idle", before |-> FALSE]
Gone == discard.pc = "gone"
Head == IF detached THEN stray ELSE branch
\* A commit goes to what is checked out.
HeadIs(made) ==
    IF detached THEN stray' = made /\ UNCHANGED branch ELSE branch' = made /\ UNCHANGED stray

Init ==
    /\ tree = {} /\ branch = {} /\ base = {} /\ remote = {} /\ merging = FALSE /\ changes = 0
    /\ detached = FALSE /\ stray = {}
    /\ turn = NoTurn /\ turns = {} /\ landing = NoLanding /\ landed = {}
    /\ discard = NoDiscard

(* ---- the session's turns ---- *)

BeginTurn ==
    /\ turn.pc = "idle" /\ turn.number < MaxTurns /\ discard.pc = "none"
    /\ turn' = [turn EXCEPT !.number = @ + 1, !.pc = "before"]
    /\ UNCHANGED <<checkedOut, repository, changes, turns, lander, discard>>
\* A checkpoint that cannot be taken does not stop the turn.  Both are named for the
\* turn, and a later life counts its turns from the start again.
Before ==
    /\ turn.pc = "before"
    /\ \E taken \in {FALSE, ~Gone} : turn' = [turn EXCEPT !.pc = "works", !.before = taken]
    /\ UNCHANGED <<checkedOut, repository, changes, turns, lander, discard>>
EndTurn ==
    /\ turn.pc = "works" /\ turn' = [turn EXCEPT !.pc = "after"]
    /\ UNCHANGED <<checkedOut, repository, changes, turns, lander, discard>>
After ==
    /\ turn.pc = "after" /\ turn' = [turn EXCEPT !.pc = "idle", !.before = FALSE]
    /\ (turns' = turns \union {turn.number} /\ ~Gone) \/ UNCHANGED turns
    /\ UNCHANGED <<checkedOut, repository, changes, lander, discard>>
AgentEdits ==
    /\ turn.pc = "works" /\ ~Gone /\ changes < MaxChanges
    /\ changes' = changes + 1 /\ tree' = tree \union {changes + 1}
    /\ UNCHANGED <<detached, stray, repository, turn, turns, lander, discard>>
AgentCommits ==
    /\ turn.pc = "works" /\ ~Gone /\ HeadIs(tree)
    /\ UNCHANGED <<tree, detached, base, remote, merging, changes, turn, turns, lander, discard>>
\* The agent checks out something else, at its branch's commit or at the repository's,
\* or its branch again; git carries along what is not committed.
AgentSwitches ==
    /\ turn.pc = "works" /\ ~Gone
    /\ \/ ~detached /\ stray' \in {branch, base} /\ tree' = (tree \ branch) \union stray'
       \/ detached /\ stray' = {} /\ tree' = (tree \ stray) \union branch
    /\ detached' = ~detached
    /\ landing' = [landing EXCEPT !.off = landing.action = "merge"]
    /\ UNCHANGED <<repository, changes, turn, turns, landed, discard>>
\* A later process counts its turns from the start again.
Resume ==
    /\ turn.life < MaxLives /\ ~Gone /\ turn' = [NoTurn EXCEPT !.life = turn.life + 1]
    /\ landing' = NoLanding /\ discard' = NoDiscard
    /\ UNCHANGED <<checkedOut, repository, changes, turns, landed>>

(* ---- landing ---- *)

Land ==
    /\ landing.pc = "none" /\ ~Gone
    /\ \E action \in Actions :
          landing' = [NoLanding EXCEPT !.pc = "status", !.action = action,
                        !.asked = IF action = "merge" THEN tree ELSE {},
                        !.off = detached /\ action = "merge"]
    /\ UNCHANGED <<checkedOut, repository, changes, turn, turns, landed, discard>>
\* Looks only at what is committed already.
DirtyTracked == Head # {} /\ tree # Head
Dirty == tree # Head
Status ==
    /\ landing.pc = "status" /\ ~Gone
    /\ landing' = [landing EXCEPT !.pc = IF Dirty THEN "add" ELSE "land"]
    /\ UNCHANGED <<checkedOut, repository, changes, turn, turns, landed, discard>>
Add ==
    /\ landing.pc = "add" /\ ~Gone
    /\ landing' = [landing EXCEPT !.pc = "commit", !.staged = tree \ Head]
    /\ UNCHANGED <<checkedOut, repository, changes, turn, turns, landed, discard>>
\* With nothing left to commit, git fails and so does the landing.
Commit ==
    /\ landing.pc = "commit" /\ ~Gone
    /\ LET left == (landing.staged \intersect tree) \ Head
       IN IF left = {} THEN landing' = NoLanding /\ UNCHANGED <<branch, stray>>
          ELSE landing' = [landing EXCEPT !.pc = "land", !.staged = {}] /\ HeadIs(Head \union left)
    /\ discard' = [discard EXCEPT !.raced = @ \/ discard.pc = "counted"]
    /\ UNCHANGED <<tree, detached, base, remote, merging, changes, turn, turns, landed>>
\* It merges the branch and says so, wherever the work was committed.
Merges ==
    /\ ~merging /\ base' = base \union branch /\ UNCHANGED merging
    /\ landed' = IF landing.off THEN landed ELSE landed \union landing.asked
Merge ==
    /\ landing.pc = "land" /\ landing.action = "merge" /\ ~Gone
    /\ landing' = NoLanding
    /\ Merges \/ (merging' = TRUE /\ UNCHANGED <<base, landed>>)
    /\ UNCHANGED <<checkedOut, branch, remote, changes, turn, turns, discard>>
\* A pull request is a push and what is opened after it, which may fail.
Push ==
    /\ landing.pc = "land" /\ landing.action = "push" /\ ~Gone
    /\ landing' = NoLanding /\ remote' = branch
    /\ UNCHANGED <<checkedOut, branch, base, merging, changes, turn, turns, landed, discard>>
LandFails ==
    /\ landing.pc # "none" /\ landing' = NoLanding
    /\ UNCHANGED <<checkedOut, repository, changes, turn, turns, landed, discard>>
PersonResolves ==
    /\ merging /\ merging' = FALSE
    /\ UNCHANGED <<checkedOut, branch, base, remote, changes, turn, turns, lander, discard>>

(* ---- discarding ---- *)

\* A branch that was pushed once, taken to be at origin for good.
UnmergedToOrigin == IF remote # {} THEN {} ELSE Head \ base
\* What is nowhere else: against origin where the branch was pushed, else the repository.
Unmerged == IF remote # {} THEN Head \ remote ELSE Head \ base
\* The task has been joined by now; a landing has not.  Only what is checked out is
\* counted, and a count that fails reads as none.
Count ==
    /\ turn.pc = "idle" /\ discard.pc = "none"
    /\ \E of \in {"head", "nothing"} :
          /\ of = "head" => Unmerged = {}
          /\ discard' = [discard EXCEPT !.pc = "counted",
                !.of = IF of = "nothing" THEN "nothing" ELSE IF detached THEN "stray" ELSE "branch"]
    /\ UNCHANGED <<checkedOut, repository, changes, turn, turns, lander>>
\* The worktree goes with its files, and the branch with it; or neither.
Remove ==
    /\ discard.pc = "counted"
    /\ \/ discard' = [discard EXCEPT !.pc = "gone"] /\ tree' = {}
       \/ discard' = NoDiscard /\ UNCHANGED tree
    /\ UNCHANGED <<detached, stray, repository, changes, turn, turns, lander>>

Next ==
    \/ BeginTurn \/ Before \/ EndTurn \/ After \/ AgentEdits \/ AgentCommits
    \/ AgentSwitches \/ Resume
    \/ Land \/ Status \/ Add \/ Commit \/ Merge \/ Push \/ LandFails \/ PersonResolves
    \/ Count \/ Remove

Spec == Init /\ [][Next]_vars

(* ---- properties ---- *)

TypeOK ==
    /\ tree \union branch \union stray \union base \union remote \union landed \subseteq 1..changes
    /\ detached \in BOOLEAN /\ turn.number \in 0..MaxTurns /\ turns \subseteq 1..MaxTurns /\ turn.life \in 1..MaxLives
    /\ landing.asked \union landing.staged \subseteq 1..changes
    /\ discard.of \in {"branch", "stray", "nothing"}

\* A merge that said it landed the session's work landed what was in the
\* worktree when it was asked to, committed or not, as long as the worktree was on
\* its branch (landing.rs:10).
MergedIsLanded == landed \subseteq base

\* Stated, and not kept by the code: a merge that said it landed the work did, whatever
\* the worktree had checked out.  Work that is off the branch is committed where it is,
\* and the branch is merged without it.
SaidIsLanded == [][Merge /\ Merges => landing.asked \subseteq base']_vars

\* A worktree that was discarded took no commit with it that was counted: not those
\* of the branch, where the branch was checked out, nor those of what was checked out
\* instead, unless a landing committed after the count (worktree.rs:295).
CommittedIsKept ==
    Gone /\ ~discard.raced =>
        /\ discard.of = "branch" => branch \subseteq base \union remote
        /\ discard.of = "stray" => stray \subseteq base \union remote

\* Stated, and not kept by the code: no discard takes a commit with it.  Nobody counts
\* the branch while something else is checked out, nor anything when git fails, and a
\* landing may commit behind the count.
DiscardLosesNothing == Gone => branch \union stray \subseteq base \union remote

\* Stated, and not kept by the code: a turn that is offered has its two checkpoints, of
\* the same turn (worktree.rs:205, 226).
ListedTurnsAreWhole == [][turn.pc = "after" /\ turn'.pc = "idle" /\ turn.number \in turns' => turn.before]_vars
=============================================================================
