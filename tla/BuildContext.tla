---------------------------- MODULE BuildContext ----------------------------
(***************************************************************************)
(* The build context (crates/mcr-build/src/context.rs) and the words and   *)
(* paths of a Dockerfile's arguments (planner.rs): which files of the host *)
(* directory the ignore rules leave, what a COPY source names, and how an  *)
(* argument is cut into words.                                             *)
(*                                                                         *)
(* A text is a sequence of characters; the glob and the tokenizer are the  *)
(* only operators that look inside one.  A path is the sequence of its     *)
(* components; a path argument also says whether it is absolute.           *)
(***************************************************************************)
EXTENDS Integers, Sequences, FiniteSets, FiniteSetsExt, SequencesExt, Functions

Empty == <<>>
Dot == <<".">>
DotDot == <<".", ".">>

\* trim_start_matches, trim_end_matches
TrimStart(c, s) ==
    LET keep == {i \in DOMAIN s : s[i] # c}
    IN IF keep = {} THEN Empty ELSE SubSeq(s, Min(keep), Len(s))
TrimEnd(c, s) == Reverse(TrimStart(c, Reverse(s)))

\* str::split, with its empty pieces
Split(c, s) ==
    FoldLeft(LAMBDA pieces, x : IF x = c THEN Append(pieces, Empty)
                                ELSE [pieces EXCEPT ![Len(pieces)] = Append(@, x)],
             <<Empty>>, s)

Join(c, pieces) ==
    FoldLeft(LAMBDA text, p : text \o <<c>> \o p, Head(pieces), Tail(pieces))
-----------------------------------------------------------------------------
(***************************************************************************)
(* Globs.                                                                  *)
(***************************************************************************)
Found(part, s) ==
    {i \in 0 .. Len(s) - Len(part) : SubSeq(s, i + 1, i + Len(part)) = part}

\* One part of the pattern, found where it first occurs in what remains; the
\* remainder is a set of at most one text, empty once a part is missing.
Consume(remaining, part) ==
    {SubSeq(s, Min(Found(part, s)) + Len(part) + 1, Len(s)) :
        s \in {r \in remaining : Found(part, r) # {}}}

PartsMatch(parts, value) ==
    /\ IsPrefix(Head(parts), value)
    /\ \E remaining \in FoldLeft(Consume,
                                 {SubSeq(value, Len(Head(parts)) + 1, Len(value))},
                                 SelectSeq(Tail(parts), LAMBDA p : p # Empty)) :
          \/ Last(parts) = Empty
          \/ remaining = Empty
          \/ IsSuffix(Last(parts), remaining)

WildcardMatches(pattern, value) ==
    IF "*" \notin Range(pattern) THEN pattern = value
    ELSE PartsMatch(Split("*", pattern), value)

\* The meaning of a glob: a star stands for any text.
Glob(pattern, value) ==
    LET G[i \in 0 .. Len(pattern), j \in 0 .. Len(value)] ==
          IF i = 0 THEN j = 0
          ELSE IF pattern[i] = "*" THEN \E k \in 0 .. j : G[i - 1, k]
          ELSE j > 0 /\ pattern[i] = value[j] /\ G[i - 1, j - 1]
    IN G[Len(pattern), Len(value)]

\* The last part of the pattern can overlap itself in a longer text.
OverlapsItself(s) == \E n \in 1 .. Len(s) - 1 : IsSuffix(SubSeq(s, 1, n), s)
-----------------------------------------------------------------------------
(***************************************************************************)
(* DockerIgnore.                                                           *)
(***************************************************************************)
NoRule == {}
Unslashed(text) == TrimEnd("/", TrimStart("/", text))
RuleOf(text, negated) ==
    IF Unslashed(text) = Empty THEN NoRule
    ELSE {[pattern |-> Unslashed(text), negated |-> negated,
           directory_only |-> Last(text) = "/", anchored |-> Head(text) = "/"]}

\* DockerIgnoreRule::parse: no rule for a blank line and a comment
ParseRule(line) ==
    IF line = Empty \/ Head(line) = "#" THEN NoRule
    ELSE IF Head(line) = "!" THEN RuleOf(TrimStart(" ", Tail(line)), TRUE)
    ELSE RuleOf(line, FALSE)

Text(path) == Join("/", path)
Below(pattern, text) == IsPrefix(Append(pattern, "/"), text)
PatternMatchesPath(pattern, text) == WildcardMatches(pattern, text) \/ Below(pattern, text)

RuleMatches(rule, path, is_dir) ==
    /\ rule.directory_only => is_dir \/ Below(rule.pattern, Text(path))
    /\ IF rule.anchored \/ "/" \in Range(rule.pattern)
       THEN PatternMatchesPath(rule.pattern, Text(path))
       ELSE \E c \in Range(path) : WildcardMatches(rule.pattern, c)

\* The last rule that matches decides.
IsIgnored(rules, path, is_dir) ==
    LET matching == {i \in DOMAIN rules : RuleMatches(rules[i], path, is_dir)}
    IN matching # {} /\ ~rules[Max(matching)].negated
-----------------------------------------------------------------------------
(***************************************************************************)
(* load_build_context.  The host directory is the sequence of its entries  *)
(* in the order of their path texts: a path, a kind (Directory, Regular,   *)
(* Symlink or Other), the size or target, the modification time, and       *)
(* whether the host resolves it outside the root.                          *)
(***************************************************************************)
IsDirectory(tree, path) ==
    \E i \in DOMAIN tree : tree[i].path = path /\ tree[i].kind = "Directory"

\* walk_context does not enter a directory it ignores.
Walked(tree, rules, path) ==
    \A p \in Prefixes(path) \ {<<>>} : ~IsIgnored(rules, p, IsDirectory(tree, p))

Escapes(entry) == entry.outside /\ entry.kind # "Symlink"

ContextEntry(entry) ==
    [path |-> entry.path, kind |-> entry.kind, data |-> entry.data,
     meta |-> [kind |-> entry.kind, data |-> entry.data, uid |-> 0,
               mode |-> CASE entry.kind = "Symlink" -> 511
                          [] entry.kind = "Directory" -> 493
                          [] OTHER -> 420,
               mtime |-> entry.mtime]]

LoadContext(tree, lines) ==
    LET rules == FoldLeft(LAMBDA rs, l : rs \o SetToSeq(ParseRule(l)), <<>>, lines)
        walked == SelectSeq(tree, LAMBDA e : Walked(tree, rules, e.path))
    IN IF \E e \in Range(walked) : Escapes(e)
       THEN [err |-> "ContextEscape", entries |-> <<>>]
       ELSE [err |-> "", entries |->
                FoldLeft(LAMBDA es, e : IF e.kind = "Other" THEN es
                                        ELSE Append(es, ContextEntry(e)),
                         <<>>, walked)]

\* BuildContext::entry
EntryAt(context, path) == {e \in Range(context) : e.path = path}

\* ContextPath::normalize and parse_context_source: a source never leaves the
\* context; the empty path is its root.
SourcePath(raw) ==
    IF raw.absolute \/ DotDot \in Range(raw.comps)
    THEN [err |-> "ContextSourceEscape", path |-> <<>>]
    ELSE [err |-> "", path |-> SelectSeq(raw.comps, LAMBDA c : c \notin {Empty, Dot})]

\* BuildContext::source_entries: the entries a source names, each with its
\* destination below the copy's.
Resolved(entry, relative) == [entry |-> entry, relative |-> relative]
SourceEntries(context, path) ==
    LET inside == SelectSeq(context, LAMBDA e : IsStrictPrefix(path, e.path))
    IN IF EntryAt(context, path) # {} /\ \A e \in EntryAt(context, path) : e.kind # "Directory"
       THEN <<Resolved(CHOOSE e \in EntryAt(context, path) : TRUE, <<Last(path)>>)>>
       ELSE [i \in DOMAIN inside |->
                Resolved(inside[i], SubSeq(inside[i].path, Len(path) + 1,
                                           Len(inside[i].path)))]
-----------------------------------------------------------------------------
(***************************************************************************)
(* tokenize_instruction_arguments.                                         *)
(***************************************************************************)
NoQuote == "none"
Push(t, c) == [t EXCEPT !.token = Append(@, c)]
Flush(t) == IF t.token = Empty THEN t
            ELSE [t EXCEPT !.tokens = Append(@, t.token), !.token = Empty]
TokenStepEscapeEndsQuote(t, c) ==
    IF t.escaped THEN [Push(t, c) EXCEPT !.escaped = FALSE, !.quote = NoQuote]
    ELSE IF c = "\\" THEN [t EXCEPT !.escaped = TRUE]
    ELSE IF t.quote = c THEN [t EXCEPT !.quote = NoQuote]
    ELSE IF t.quote # NoQuote THEN Push(t, c)
    ELSE IF c \in {"'", "\""} THEN [t EXCEPT !.quote = c]
    ELSE IF c = " " THEN Flush(t) ELSE Push(t, c)

TokenStep(t, c) ==
    IF t.escaped THEN [Push(t, c) EXCEPT !.escaped = FALSE]
    ELSE IF c = "\\" THEN [t EXCEPT !.escaped = TRUE]
    ELSE IF t.quote = c THEN [t EXCEPT !.quote = NoQuote]
    ELSE IF t.quote # NoQuote THEN Push(t, c)
    ELSE IF c \in {"'", "\""} THEN [t EXCEPT !.quote = c]
    ELSE IF c = " " THEN Flush(t) ELSE Push(t, c)

Tokenize(raw) ==
    LET read == FoldLeft(TokenStep, [tokens |-> <<>>, token |-> Empty,
                                     quote |-> NoQuote, escaped |-> FALSE], raw)
    IN Flush(IF read.escaped THEN Push(read, "\\") ELSE read).tokens
=============================================================================
