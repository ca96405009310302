----------------------------- MODULE Permission -----------------------------
(***************************************************************************)
(* What a call is known by and who may allow it: how a shell command gets  *)
(* its subject and the paths it names, the glob matcher step by step, the  *)
(* order of the policy over rules, grants and protected paths, and how a   *)
(* path is confined to the workspace.  A name is a sequence of tokens.     *)
(***************************************************************************)
EXTENDS Naturals, Sequences, FiniteSets, SequencesExt

CONSTANTS
    Commands,      \* shell commands, as words, "meta" and "quote" marks
    Patterns,      \* what a person may write as a rule
    Strings,       \* what the matcher is run on, beside subjects
    Trees, Paths,  \* file trees, and the paths a model may name
    MaxCalls

VARIABLES
    deny, allow, grants, unattended,   \* the policy
    plan, verdict, asked,              \* the last call, what was decided, and whether a person was asked
    glob,                              \* the matcher's run: its input and its two pointers
    opened,                            \* the last path that was resolved
    calls

vars == <<deny, allow, grants, unattended, plan, verdict, asked, glob, opened, calls>>

(* ---- the matcher ---- *)

NoGlob == [p |-> <<>>, s |-> <<>>, pi |-> 1, si |-> 1, star |-> 0, resume |-> 0, done |-> TRUE, result |-> FALSE]
Started(p, s) == [NoGlob EXCEPT !.p = p, !.s = s, !.done = FALSE]
OneMatches(g) == g.pi <= Len(g.p) /\ g.p[g.pi] \in {"?", g.s[g.si]}

\* One turn of the loop: a token is matched, a star remembered, or the last
\* star is made to stand for one token more.
ResumedHere(g) == [g EXCEPT !.pi = g.star + 1, !.resume = g.si, !.si = @ + 1]
Resumed(g) == [g EXCEPT !.pi = g.star + 1, !.resume = @ + 1, !.si = g.resume + 1]
RestIsStars(g) == \A i \in g.pi..Len(g.p) : g.p[i] = "*"
MatchStep(g) ==
    IF g.si > Len(g.s) THEN [g EXCEPT !.done = TRUE, !.result = RestIsStars(g)]
    ELSE IF OneMatches(g) THEN [g EXCEPT !.pi = @ + 1, !.si = @ + 1]
    ELSE IF g.pi <= Len(g.p) /\ g.p[g.pi] = "*" THEN [g EXCEPT !.star = g.pi, !.resume = g.si, !.pi = @ + 1]
    ELSE IF g.star # 0 THEN Resumed(g)
    ELSE [g EXCEPT !.done = TRUE]

\* A star stands for any run of tokens, a question mark for one: the places of
\* the subject from which the rest of the pattern matches the rest of it.
Covers(p, s) ==
    LET from[i \in 1..(Len(p) + 1)] ==
            IF i > Len(p) THEN {Len(s) + 1}
            ELSE LET rest == from[i + 1] IN
                 IF p[i] = "*" THEN {j \in 1..(Len(s) + 1) : \E k \in rest : j <= k}
                 ELSE {j \in 1..Len(s) : p[i] \in {"?", s[j]} /\ j + 1 \in rest}
    IN  1 \in from[1]

(* ---- a command ---- *)

COMPOUND == <<"bash", "!compound">>
Marks == {"meta", "quote"}
Balanced(cmd) == Cardinality({i \in DOMAIN cmd : cmd[i] = "quote"}) % 2 = 0
Words(cmd) == {i \in DOMAIN cmd : cmd[i] # "quote"}
Foremost(cmd) == {i \in Words(cmd) : \A j \in Words(cmd) : i <= j}
StartsSimple(cmd) == cmd # <<>> /\ cmd[1] # "meta"
IsSimple(cmd) == \A i \in DOMAIN cmd : cmd[i] # "meta"
subject_for(cmd) ==
    IF IsSimple(cmd) /\ Balanced(cmd) /\ \E i \in Foremost(cmd) : cmd[i] # "A=b"
    THEN <<"bash", cmd[CHOOSE i \in Foremost(cmd) : TRUE]>> ELSE COMPOUND

\* Every word that could name a file, whatever stands around it.
declared_paths(cmd) == Range(cmd) \ (Marks \union {"-x", "A=b"})

Effects(tool) == CASE tool = "read" -> {"reads"} [] tool = "write" -> {"reads", "writes"}
                   [] tool = "bash" -> {"reads", "writes", "executes", "network"}
NoPlan == [tool |-> "none", subject |-> <<>>, paths |-> {}, command |-> <<>>]
BashPlan(cmd) == [tool |-> "bash", subject |-> subject_for(cmd), paths |-> declared_paths(cmd), command |-> cmd]
FilePlan(tool, name) == [tool |-> tool, subject |-> <<tool, name>>, paths |-> {}, command |-> <<>>]

(* ---- the policy ---- *)

\* ".env" and ".ENV" are one file to a system that folds case, and to the
\* built-in lists; a rule a person wrote keeps its case.
Folded(name) == IF name = ".ENV" THEN ".env" ELSE name
Protected == {".env", "home"}
builtin_path_denial(name, effects) == effects \intersect {"reads", "writes"} # {} /\ Folded(name) \in Protected
builtin_denial(p) == builtin_path_denial(Last(p.subject), Effects(p.tool))
ReadOnly(p) == Effects(p.tool) \intersect {"writes", "executes", "network"} = {}

evaluateBySubject(p) ==
    IF builtin_denial(p) THEN "deny"
    ELSE IF \E r \in deny : Covers(r, p.subject) THEN "deny"
    ELSE IF ReadOnly(p) \/ \E r \in allow : Covers(r, p.subject) \/ p.subject \in grants THEN "allow"
    ELSE unattended
evaluate(p) ==
    IF builtin_denial(p) \/ \E name \in p.paths : builtin_path_denial(name, Effects(p.tool)) THEN "deny"
    ELSE IF \E r \in deny : Covers(r, p.subject) THEN "deny"
    ELSE IF ReadOnly(p) THEN "allow"
    ELSE IF \E r \in allow : Covers(r, p.subject) THEN "allow"
    ELSE IF p.subject \in grants THEN "allow"
    ELSE unattended
(* ---- the workspace ---- *)

\* A tree maps a path to "dir", "file" or the path a link names.
IsLink(tree, path) == tree[path].type = "link"
Root == <<"r">>
Inside(path) == IsPrefix(Root, path)

\* Where the system ends up: every link followed; "last" is a name that can be made.
Real(tree, start, path, most) ==
    LET real[at \in Seq(STRING), rest \in Seq(STRING), links \in 0..most] ==
            IF rest = <<>> THEN [at |-> at, is |-> "there"]
            ELSE IF Head(rest) = ".." THEN real[IF at = <<>> THEN at ELSE Front(at), Tail(rest), links]
            ELSE LET next == Append(at, Head(rest)) IN
                 IF next \notin DOMAIN tree THEN [at |-> next, is |-> IF Len(rest) = 1 THEN "last" ELSE "missing"]
                 ELSE IF ~IsLink(tree, next) THEN real[next, Tail(rest), links]
                 ELSE IF links = 0 THEN [at |-> next, is |-> "missing"]
                 ELSE real[<<>>, tree[next].to \o Tail(rest), links - 1]
    IN  real[start, path, most]
Whole(tree, path) == Real(tree, <<>>, path, 3)

deepest_existing(tree, path) ==
    LET real == {k \in 0..Len(path) : Whole(tree, SubSeq(path, 1, k)).is = "there"}
    IN Whole(tree, SubSeq(path, 1, CHOOSE k \in real : \A j \in real : j <= k)).at

\* The entry a prefix of the path names, its own link not followed.
EntryAt(tree, path) == Append(Whole(tree, Front(path)).at, Last(path))
LeavesAt(tree, path, k) ==
    LET here == Root \o SubSeq(path, 1, k) IN
    /\ Whole(tree, Front(here)).is = "there" /\ EntryAt(tree, here) \in DOMAIN tree
    /\ IsLink(tree, EntryAt(tree, here))
    /\ ~Inside(deepest_existing(tree, tree[EntryAt(tree, here)].to))
WalksNowhere(tree, path) == TRUE
WalksInside(tree, path) == \A k \in DOMAIN path : ~LeavesAt(tree, path, k)
EndsInside(tree, path) == WalksInside(tree, path) /\ Inside(deepest_existing(tree, Root \o path))
resolve(tree, path) == path # <<>> /\ (\A i \in DOMAIN path : path[i] # "..") /\ EndsInside(tree, path)

(* ---- the session ---- *)

Init ==
    /\ deny = {} /\ allow = {} /\ grants = {} /\ unattended = "ask"
    /\ plan = NoPlan /\ verdict = "none" /\ asked = FALSE
    /\ glob = NoGlob /\ opened = [path |-> <<>>, at |-> Root] /\ calls = 0

Fresh == calls = 0 /\ deny = {} /\ allow = {} /\ unattended = "ask" /\ glob = NoGlob /\ opened.path = <<>>

\* What the configuration says, once, before the first call.
Configure ==
    /\ Fresh
    /\ \E d, a \in {{}} \union {{p} : p \in Patterns}, u \in {"ask", "allow", "deny"} :
        /\ d = {} \/ a = {} \/ d # a
        /\ deny' = d /\ allow' = a /\ unattended' = u
    /\ UNCHANGED <<grants, plan, verdict, asked, glob, opened, calls>>

Called(p) ==
    /\ calls < MaxCalls /\ verdict # "ask" /\ glob = NoGlob /\ opened.path = <<>>
    /\ calls' = calls + 1
    /\ plan' = p /\ verdict' = evaluate(p) /\ asked' = FALSE
    /\ UNCHANGED <<deny, allow, grants, unattended, glob, opened>>

CallBash == \E cmd \in Commands : Called(BashPlan(cmd))

\* A file tool is planned only where its path resolves.
CallFile ==
    /\ \E tool \in {"read", "write"}, name \in {"src", ".env", ".ENV"} : Called(FilePlan(tool, name))

\* A person answers: once, for the session, or no.
Decide(yes, session) ==
    /\ verdict = "ask" /\ asked' = TRUE
    /\ verdict' = IF yes THEN "allow" ELSE "deny"
    /\ grants' = IF session THEN grants \union {plan.subject} ELSE grants
    /\ UNCHANGED <<deny, allow, unattended, plan, glob, opened, calls>>
Allow == Decide(TRUE, FALSE)
AllowSession == Decide(TRUE, TRUE)
Deny == Decide(FALSE, FALSE)

Resolve ==
    /\ Fresh
    /\ \E tree \in Trees, path \in Paths :
        /\ resolve(tree, path)
        /\ Whole(tree, Root \o path).is # "missing"
        /\ opened' = [path |-> path, at |-> Whole(tree, Root \o path).at]
    /\ UNCHANGED <<deny, allow, grants, unattended, plan, verdict, asked, glob, calls>>

StartMatch ==
    /\ Fresh
    /\ \E p \in Strings, s \in Strings : glob' = Started(p, s)
    /\ UNCHANGED <<deny, allow, grants, unattended, plan, verdict, asked, opened, calls>>
Match ==
    /\ ~glob.done /\ glob' = MatchStep(glob)
    /\ UNCHANGED <<deny, allow, grants, unattended, plan, verdict, asked, opened, calls>>

Next == Configure \/ CallBash \/ CallFile \/ Allow \/ AllowSession \/ Deny \/ Resolve \/ StartMatch \/ Match

Spec == Init /\ [][Next]_vars

(* ---- properties ---- *)

\* The pointers stay within what they point into, and a decision has a plan.
TypeOK ==
    /\ glob.pi \in 1..(Len(glob.p) + 1) /\ glob.si \in 1..(Len(glob.s) + 1)
    /\ verdict \in {"none", "ask", "allow", "deny"} /\ (verdict = "none" <=> plan = NoPlan)
    /\ calls \in 0..MaxCalls

\* The programs a shell would start for a command it can read.
Programs(cmd) ==
    LET before(i) == {j \in Words(cmd) : j < i}
        first == {i \in Words(cmd) : /\ cmd[i] # "meta"
                                    /\ \A j \in before(i) : (\A k \in before(i) : k <= j) => cmd[j] = "meta"}
    IN {cmd[i] : i \in first}

\* bash.rs:3-8, 63-69 and policy.rs:208: what runs unasked by a rule for one
\* program is that program and no other; a file that is plainly named and
\* protected is not read or written by anything, whatever the rules, the grants
\* and --yes; and where the name has no star of its own, what the matcher finds is
\* what the pattern covers.
OnlyWhatIsCovered ==
    /\ verdict = "allow" /\ ~asked /\ plan.tool = "bash" /\ unattended # "allow"
       /\ plan.subject # COMPOUND => Programs(plan.command) = {plan.subject[2]}
    /\ verdict = "allow" /\ plan.tool = "bash" => Protected \intersect {Folded(w) : w \in Range(plan.command)} = {}
    /\ verdict = "allow" /\ plan.tool \in {"read", "write"} => Folded(plan.subject[2]) \notin Protected
    /\ verdict = "allow" => \A r \in deny : ~Covers(r, plan.subject)
    /\ glob.done /\ glob # NoGlob /\ "*" \notin Range(glob.s) => (glob.result <=> Covers(glob.p, glob.s))

\* workspace.rs:74: a path that resolves is opened, or made, inside the workspace.
\* A link is judged by as much of its target as exists, so this is said of trees
\* in which no link leads to another link that names nothing.
StaysInside == Inside(opened.at)

\* policy.rs:55: a star of the pattern matches any run of characters, also one
\* that begins with a star, as the subject of a glob does.
StarsCoverStars == glob.done /\ glob # NoGlob => (glob.result <=> Covers(glob.p, glob.s))

\* bash.rs:26, gotchas.md:135: a compound command always goes to a person.
CompoundIsAsked == plan.tool = "bash" /\ plan.subject = COMPOUND /\ verdict = "allow" /\ unattended = "ask" => asked
=============================================================================
