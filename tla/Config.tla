------------------------------- MODULE Config -------------------------------
(***************************************************************************)
(* The configuration: two files, the environment and the command line      *)
(* resolved into one, what is salvaged of a file that is partly broken,    *)
(* and the line edit that remembers a model in the user's file.  A file is *)
(* a sequence of lines; a person may rewrite it at any time.               *)
(***************************************************************************)
EXTENDS Naturals, Sequences, FiniteSets, SequencesExt

CONSTANTS
    UserTexts,     \* what a person writes into the user's file
    ProjectTexts,  \* what a repository's file says
    MaxEdits       \* bound on the edits of a person and of the program

VARIABLES
    user,          \* the lines of the user's file
    project,       \* the lines of the project's
    env,           \* the variables that are set, by the key they name
    flags,         \* the keys given on the command line
    resolved,      \* the last resolution: [config, provenance]
    copies,        \* the texts kept aside as .corrupt files
    edit,          \* the edit being made: who makes it, and what it read
    edits

vars == <<user, project, env, flags, resolved, copies, edit, edits>>

(* ---- lines ---- *)

Line(type, of, value) == [type |-> type, of |-> of, value |-> value]
Header(section) == Line("header", section, "none")
\* A header with a comment after it: the same table, to a TOML parser.
Commented(section) == Line("commented", section, "none")
Set(key, value) == Line("key", key, value)
BlankLine == Line("blank", "none", "none")

Keys == {"model.name", "model.provider", "budget.max_steps", "permissions.deny", "permissions.allow", "worktree.enabled"}
SectionOf == [k \in Keys |-> CASE k \in {"model.name", "model.provider"} -> "model"
                               [] k = "budget.max_steps" -> "budget"
                               [] k \in {"permissions.deny", "permissions.allow"} -> "permissions"
                               [] k = "worktree.enabled" -> "worktree"]
Known == {SectionOf[k] : k \in Keys}
IsHeader(line) == line.type \in {"header", "commented"}

\* The section a line is in, to a TOML parser.
Inside(text, i) ==
    LET above == {j \in 1..i : IsHeader(text[j])}
    IN IF above = {} THEN "none" ELSE text[CHOOSE j \in above : \A k \in above : k <= j].of
Twice(text, same(_, _)) == \E i, j \in DOMAIN text : i < j /\ same(text[i], text[j])
IsToml(text) ==
    /\ \A i \in DOMAIN text : text[i].type # "noise"
    /\ ~Twice(text, LAMBDA a, b : IsHeader(a) /\ IsHeader(b) /\ a.of = b.of)
    /\ ~Twice(text, LAMBDA a, b : a.type = "key" /\ b.type = "key" /\ a.of = b.of)

(* ---- a layer ---- *)

\* A layer is a partial function from keys to values.
NoKeys == [k \in {} |-> "none"]
merge(base, over) ==
    [k \in DOMAIN base \union DOMAIN over |-> IF k \in DOMAIN over THEN over[k] ELSE base[k]]
record(into, table, layer) ==
    [k \in DOMAIN into \union DOMAIN table |-> IF k \in DOMAIN table THEN layer ELSE into[k]]

Assigned(text, k) == {i \in DOMAIN text : text[i].type = "key" /\ text[i].of = k /\ Inside(text, i) = SectionOf[k]}
ValueAt(text, k) == text[CHOOSE i \in Assigned(text, k) : TRUE].value
\* A value its key cannot have makes the section one that does not parse.
Broken(text) == {SectionOf[k] : k \in {k \in Keys : \E i \in Assigned(text, k) : text[i].value = "bad"}}

\* Only what a project's file adds to the restrictions is taken from it.
Restricted(table) ==
    LET loosens == {k \in DOMAIN table : k = "permissions.allow" \/ (k = "worktree.enabled" /\ table[k] = "no")}
    IN [k \in DOMAIN table \ loosens |-> table[k]]

load_file(text, isProject) ==
    IF ~IsToml(text) THEN NoKeys
    ELSE LET kept == {k \in Keys : Assigned(text, k) # {} /\ SectionOf[k] \notin Broken(text)}
             table == [k \in kept |-> ValueAt(text, k)]
         IN IF isProject THEN Restricted(table) ELSE table
Lost(text) == ~IsToml(text) \/ Broken(text) # {}

Defaults == [k \in Keys |-> CASE k = "model.name" -> "opus" [] k = "model.provider" -> "anthropic"
                              [] k = "budget.max_steps" -> "50" [] k = "worktree.enabled" -> "yes" [] OTHER -> "empty"]

\* Variables that are taken as they come.
env_layer_raw(e) == e
\* A variable is checked against the section it would land in before it counts.
env_layer(e) == [k \in {k \in DOMAIN e : e[k] # "bad"} |-> e[k]]

validate(config) == [config EXCEPT !["budget.max_steps"] = IF @ = "0" THEN "1" ELSE @]

resolve(e, given) ==
    LET u == load_file(user, FALSE)
        p == load_file(project, TRUE)
        merged == merge(merge(merge(merge(Defaults, u), p), env_layer(e)), given)
        from == record(record(record(record([k \in Keys |-> "default"], u, "user"), p, "project"),
                              env_layer(e), "env"), given, "flag")
    IN [config |-> validate(merged), provenance |-> from]

(* ---- the line edit ---- *)

\* Without a note of where the section ends.
EditLineOnly(s, line) ==
    IF line.type = "header"
    THEN [s EXCEPT !.out = Append(@, line), !.inModel = (line.of = "model"), !.seen = @ \/ line.of = "model"]
    ELSE IF s.inModel /\ line.type = "key" /\ line.of \in DOMAIN s.missing
    THEN [s EXCEPT !.out = Append(@, Set(line.of, s.wanted[line.of])),
                   !.missing = [k \in DOMAIN @ \ {line.of} |-> @[k]]]
    ELSE [s EXCEPT !.out = Append(@, line)]

\* One line of the file, read by the edit: only a bare header opens a section.
EditLine(s, line) ==
    IF line.type = "header"
    THEN [s EXCEPT !.out = Append(@, line), !.inModel = (line.of = "model"), !.seen = @ \/ line.of = "model",
                   !.endsAt = IF s.inModel THEN Len(s.out) ELSE @]
    ELSE IF s.inModel /\ line.type = "key" /\ line.of \in DOMAIN s.missing
    THEN [s EXCEPT !.out = Append(@, Set(line.of, s.wanted[line.of])),
                   !.missing = [k \in DOMAIN @ \ {line.of} |-> @[k]]]
    ELSE [s EXCEPT !.out = Append(@, line)]

\* Back over the blank lines that separate the section from the next one.
TrimBack(out, at) == LET solid == {0} \union {i \in 1..at : out[i].type # "blank"} IN CHOOSE i \in solid : \A j \in solid : j <= i

set_model(text, provider, name) ==
    LET wanted == [k \in {"model.provider", "model.name"} |-> IF k = "model.name" THEN name ELSE provider]
        read == FoldLeft(EditLine, [out |-> <<>>, inModel |-> FALSE, seen |-> FALSE, endsAt |-> 0,
                                    wanted |-> wanted, missing |-> wanted], text)
        missing == (IF "model.provider" \in DOMAIN read.missing THEN <<Set("model.provider", provider)>> ELSE <<>>)
                   \o (IF "model.name" \in DOMAIN read.missing THEN <<Set("model.name", name)>> ELSE <<>>)
        at == TrimBack(read.out, IF read.inModel THEN Len(read.out) ELSE read.endsAt)
    IN IF missing = <<>> THEN read.out
       ELSE IF read.seen THEN SubSeq(read.out, 1, at) \o missing \o SubSeq(read.out, at + 1, Len(read.out))
       ELSE read.out \o (IF read.out = <<>> THEN <<>> ELSE <<BlankLine>>) \o <<Header("model")>> \o missing

(* ---- the system ---- *)

NoEdit == [by |-> "nobody", before |-> <<>>, after |-> <<>>]
Models == {"opus", "kimi"}

Init ==
    /\ user = <<>> /\ project = <<>>
    /\ env = NoKeys /\ flags = NoKeys
    /\ resolved = [config |-> Defaults, provenance |-> [k \in Keys |-> "default"]]
    /\ copies = {} /\ edit = NoEdit /\ edits = 0

\* A process starts: it resolves once, and what a file lost is kept aside once.
Load ==
    /\ env' \in {NoKeys, [k \in {"model.name"} |-> "env"], [k \in {"model.name", "budget.max_steps"} |-> "bad"]}
    /\ flags' \in {NoKeys, [k \in {"model.name"} |-> "flag"]}
    /\ resolved' = resolve(env', flags')
    /\ copies' = copies \union {text \in {user, project} : Lost(text)}
    /\ UNCHANGED <<user, project, edit, edits>>

PersonEdits ==
    /\ edits < MaxEdits
    /\ user' \in UserTexts /\ project' \in ProjectTexts
    /\ edits' = edits + 1
    /\ UNCHANGED <<env, flags, resolved, copies, edit>>

\* A model that answered becomes the default: the terminal writes a sibling and
\* renames it, the window writes the file in place.
BeginEdit ==
    /\ edit.by = "nobody" /\ edits < MaxEdits
    /\ \E who \in {"terminal", "window"}, name \in Models :
        edit' = [by |-> who, before |-> user, after |-> set_model(user, "ollama", name)]
    /\ edits' = edits + 1
    /\ UNCHANGED <<user, project, env, flags, resolved, copies>>

\* Writing in place empties the file first.
Truncates ==
    /\ edit.by = "window" /\ user # <<>>
    /\ user' = <<>>
    /\ UNCHANGED <<project, env, flags, resolved, copies, edit, edits>>

EndEdit ==
    /\ edit.by = "terminal" \/ (edit.by = "window" /\ user = <<>>)
    /\ user' = edit.after
    /\ edit' = NoEdit
    /\ UNCHANGED <<project, env, flags, resolved, copies, edits>>

\* The process that was editing is killed.
Killed ==
    /\ edit.by # "nobody" /\ edit' = NoEdit
    /\ UNCHANGED <<user, project, env, flags, resolved, copies, edits>>

Next == Load \/ PersonEdits \/ BeginEdit \/ Truncates \/ EndEdit \/ Killed

Spec == Init /\ [][Next]_vars

(* ---- properties ---- *)

\* Every key has a value and a layer it came from, and an edit has an author.
TypeOK ==
    /\ DOMAIN resolved.config = Keys /\ DOMAIN resolved.provenance = Keys
    /\ edit.by \in {"nobody", "terminal", "window"} /\ edits \in 0..MaxEdits
    /\ \A text \in copies : Lost(text)

\* What a key is, told key by key: the strongest layer that may set it and does.
Strongest(k) ==
    LET says(text) == IsToml(text) /\ Assigned(text, k) # {}
                      /\ \A j \in Keys : SectionOf[j] = SectionOf[k] => \A i \in Assigned(text, j) : text[i].value # "bad"
        mayLoosen == ~(k = "permissions.allow" \/ (k = "worktree.enabled" /\ says(project) /\ ValueAt(project, k) = "no"))
    IN CASE k \in DOMAIN flags -> <<"flag", flags[k]>>
         [] k \notin DOMAIN flags /\ k \in DOMAIN env /\ env[k] # "bad" -> <<"env", env[k]>>
         [] OTHER -> IF says(project) /\ mayLoosen THEN <<"project", ValueAt(project, k)>>
                     ELSE IF says(user) THEN <<"user", ValueAt(user, k)>>
                     ELSE <<"default", Defaults[k]>>

\* config/mod.rs:5: one unreadable section, variable or file costs nothing but
\* itself, and what --explain says of a key is where its value came from.
SalvageIsLocal ==
    [][resolved' # resolved =>
          \A k \in Keys : LET s == Strongest(k)' IN
             /\ resolved'.provenance[k] = s[1]
             /\ resolved'.config[k] = (IF k = "budget.max_steps" /\ s[2] = "0" THEN "1" ELSE s[2])]_vars

Says(text, k, value) == \E i \in Assigned(text, k) : text[i].value = value
Others(text) == SelectSeq(text, LAMBDA line : line.of \notin {"model.name", "model.provider", "model"} /\ line.type # "blank")

\* edit.rs:11: an edit of a file that parses, with headers of their own lines,
\* makes the two keys what was asked, keeps every other line in its order, and
\* leaves a file that parses.
EditKeepsTheRest ==
    edit.by # "nobody" /\ IsToml(edit.before) /\ (\A i \in DOMAIN edit.before : edit.before[i].type # "commented") =>
        /\ IsToml(edit.after)
        /\ Others(edit.after) = Others(edit.before)
        /\ Says(edit.after, "model.provider", "ollama") /\ \E m \in Models : Says(edit.after, "model.name", m)

\* edit.rs:11: the same, however the file spells its headers.
EditStillParses == edit.by # "nobody" /\ IsToml(edit.before) => IsToml(edit.after)

\* load.rs:98: a project's file may only make axio ask more, never less.
ProjectOnlyRestricts ==
    LET u == load_file(user, FALSE)
        alone == merge(Defaults, u)
        with == merge(alone, load_file(project, TRUE))
    IN /\ with["permissions.allow"] = alone["permissions.allow"]
       /\ alone["permissions.deny"] # "empty" => with["permissions.deny"] = alone["permissions.deny"]
       /\ alone["worktree.enabled"] = "yes" => with["worktree.enabled"] = "yes"
=============================================================================
