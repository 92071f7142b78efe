---------------------------- MODULE BuildPlanner ----------------------------
(***************************************************************************)
(* From a Dockerfile to the operations of a snapshot: the line parser      *)
(* (crates/mcr-build/src/dockerfile.rs) and the planner of ARG, ENV,       *)
(* WORKDIR, COPY and ADD (planner.rs).                                     *)
(*                                                                         *)
(* A line of the file is blank, a comment or text; a text line has its     *)
(* words and may end in a backslash.  A planned instruction has a keyword  *)
(* and its raw argument text.                                              *)
(***************************************************************************)
EXTENDS BuildContext

Keywords == {"FROM", "ARG", "ENV", "WORKDIR", "COPY", "ADD", "RUN", "CMD", "ENTRYPOINT"}

Extend(f, k, x) == [y \in DOMAIN f \cup {k} |-> IF y = k THEN x ELSE f[y]]
-----------------------------------------------------------------------------
(***************************************************************************)
(* parse_dockerfile.                                                       *)
(***************************************************************************)
BlankLine == [kind |-> "blank", words |-> <<>>, continues |-> FALSE]
CommentLine == [kind |-> "comment", words |-> <<>>, continues |-> FALSE]
TextLine(words, continues) == [kind |-> "text", words |-> words, continues |-> continues]

NothingParsed == [instructions |-> <<>>, continuation |-> <<>>, start |-> 0, err |-> ""]

\* parse_instruction, on the words gathered since the line start
ParseInstruction(p) ==
    CASE Len(p.continuation) < 2 -> [p EXCEPT !.err = "MissingArgument"]
      [] Len(p.continuation) >= 2 /\ Head(p.continuation) \notin Keywords ->
            [p EXCEPT !.err = "UnsupportedInstruction"]
      [] OTHER -> [p EXCEPT !.continuation = <<>>, !.instructions =
                      Append(@, [line |-> p.start, keyword |-> Head(p.continuation),
                                 words |-> Tail(p.continuation)])]

\* Blank lines and comments are skipped, also inside a continued instruction.
ParseLine(p, number, line) ==
    IF p.err # "" \/ line.kind # "text" THEN p
    ELSE LET q == [p EXCEPT !.start = IF p.continuation = <<>> THEN number ELSE @,
                            !.continuation = @ \o line.words]
         IN IF line.continues THEN q ELSE ParseInstruction(q)

ParseDockerfile(lines) ==
    LET read == FoldLeft(LAMBDA p, i : ParseLine(p, i, lines[i]), NothingParsed,
                         [i \in DOMAIN lines |-> i])
    IN IF read.err = "" /\ read.continuation # <<>> THEN ParseInstruction(read) ELSE read
-----------------------------------------------------------------------------
(***************************************************************************)
(* Arguments of ARG and ENV.                                               *)
(***************************************************************************)
Trimmed(s) == TrimEnd(" ", TrimStart(" ", s))
Equals(s) == {i \in DOMAIN s : s[i] = "="}
Before(s) == SubSeq(s, 1, Min(Equals(s)) - 1)
After(s) == SubSeq(s, Min(Equals(s)) + 1, Len(s))

\* A value is a set of at most one text.
ParseArg(raw) ==
    LET arg == IF Equals(raw) = {} THEN [name |-> Trimmed(raw), value |-> {}]
               ELSE [name |-> Trimmed(Before(raw)), value |-> {After(raw)}]
    IN [arg |-> arg, err |-> IF arg.name = Empty THEN "InvalidMetadataInstruction" ELSE ""]

Pairs(tokens) == [i \in DOMAIN tokens |-> <<Before(tokens[i]), After(tokens[i])>>]
ParseEnv(raw) ==
    LET tokens == Tokenize(raw)
        paired == \A i \in DOMAIN tokens : Equals(tokens[i]) # {}
        pairs == IF paired THEN Pairs(tokens)
                 ELSE <<<<Head(tokens), IF Len(tokens) > 1 THEN Join(" ", Tail(tokens)) ELSE Empty>>>>
    IN [pairs |-> pairs,
        err |-> IF \/ tokens = <<>>
                   \/ ~paired /\ Len(tokens) < 2
                   \/ paired /\ \E i \in DOMAIN pairs : pairs[i][1] = Empty
                THEN "InvalidMetadataInstruction" ELSE ""]
-----------------------------------------------------------------------------
(***************************************************************************)
(* The plan: build arguments, environment, working directory and           *)
(* operations; done is history, the instructions planned so far.           *)
(***************************************************************************)
DefaultDirectory == [kind |-> "Directory", data |-> <<>>, uid |-> 0, mode |-> 493, mtime |-> 0]

EmptyPlan == [build_args |-> <<>>, env |-> <<>>, workdir |-> <<>>, operations |-> <<>>,
              err |-> "", done |-> <<>>]

\* a path argument, with its backslashes read as slashes
Slashed(text) == [i \in DOMAIN text |-> IF text[i] = "\\" THEN "/" ELSE text[i]]
PathArg(text) == [absolute |-> text # Empty /\ Slashed(text)[1] = "/", comps |-> Split("/", Slashed(text))]

\* resolve_guest_path
ResolveGuestPath(current, raw) ==
    FoldLeft(LAMBDA path, c : CASE c \in {Empty, Dot} -> path
                                [] c = DotDot -> IF path = <<>> THEN path ELSE Front(path)
                                [] OTHER -> Append(path, c),
             IF raw.absolute THEN <<>> ELSE current, raw.comps)

Operation(op, dest, source, meta) == [op |-> op, dest |-> dest, source |-> source, meta |-> meta]
DirectoryOperations(plan, dest) ==
    {i \in DOMAIN plan.operations : /\ plan.operations[i].op = "EnsureDirectory"
                                    /\ plan.operations[i].dest = dest}

UpsertDirectoryOnce(plan, dest, meta) ==
    [plan EXCEPT !.operations =
        IF DirectoryOperations(plan, dest) # {} THEN @
        ELSE Append(@, Operation("EnsureDirectory", dest, <<>>, meta))]

\* upsert_directory_operation: a directory already planned keeps its place and
\* takes the new metadata.
UpsertDirectory(plan, dest, meta) ==
    [plan EXCEPT !.operations =
        IF DirectoryOperations(plan, dest) # {}
        THEN [@ EXCEPT ![Min(DirectoryOperations(plan, dest))].meta = meta]
        ELSE Append(@, Operation("EnsureDirectory", dest, <<>>, meta))]

\* push_parent_directories
PushParents(plan, path) ==
    FoldLeft(LAMBDA p, n : UpsertDirectory(p, SubSeq(path, 1, n), DefaultDirectory),
             plan, [n \in 1 .. Len(path) - 1 |-> n])

CopyOperation(plan, entry, dest) ==
    [plan EXCEPT !.operations =
        Append(@, Operation(IF entry.kind = "Symlink" THEN "CopySymlink" ELSE "CopyFile",
                            dest, entry.path, entry.meta))]

PlanEntry(plan, entry, dest) ==
    IF entry.kind = "Directory" THEN UpsertDirectory(PushParents(plan, dest), dest, entry.meta)
    ELSE CopyOperation(PushParents(plan, dest), entry, dest)

PlanResolved(plan, resolved, base, to_directory) ==
    FoldLeft(LAMBDA p, r : PlanEntry(p, r.entry, IF to_directory THEN base \o r.relative ELSE base),
             IF to_directory THEN UpsertDirectory(PushParents(plan, base), base, DefaultDirectory)
             ELSE plan,
             resolved)

RemoteScheme == <<"h", ":", "/", "/">>  \* http:// and https://

PlanSource(plan, keyword, token, source, context, base, to_directory) ==
    CASE plan.err # "" -> plan
      [] keyword = "ADD" /\ IsPrefix(RemoteScheme, token) ->
            [plan EXCEPT !.err = "UnsupportedRemoteAdd"]
      [] source.err # "" -> [plan EXCEPT !.err = source.err]
      [] source.path # <<>> /\ EntryAt(context, source.path) = {} ->
            [plan EXCEPT !.err = "MissingContextSource"]
      [] OTHER -> PlanResolved(plan, SourceEntries(context, source.path), base,
                    \/ to_directory
                    \/ source.path = <<>>
                    \/ \E e \in EntryAt(context, source.path) : e.kind = "Directory")

\* plan_copy_like_instruction
PlanCopy(plan, keyword, tokens, context) ==
    CASE Len(tokens) < 2 -> [plan EXCEPT !.err = "InvalidCopyArguments"]
      [] \E i \in DOMAIN tokens : IsPrefix(<<"-", "-">>, tokens[i]) ->
            [plan EXCEPT !.err = "UnsupportedCopyFlag"]
      [] OTHER -> FoldLeft(LAMBDA p, token :
                             PlanSource(p, keyword, token, SourcePath(PathArg(token)), context,
                                        ResolveGuestPath(plan.workdir, PathArg(Last(tokens))),
                                        \/ Len(tokens) > 2
                                        \/ Last(tokens) = Dot
                                        \/ Last(Last(tokens)) \in {"/", "\\"}),
                           plan, Front(tokens))

InsertPairs(plan, env) ==
    IF env.err # "" THEN [plan EXCEPT !.err = env.err]
    ELSE [plan EXCEPT !.env = FoldLeft(LAMBDA e, kv : Extend(e, kv[1], kv[2]), @, env.pairs)]

InsertArg(plan, parsed) ==
    IF parsed.err # "" THEN [plan EXCEPT !.err = parsed.err]
    ELSE [plan EXCEPT !.build_args = Extend(@, parsed.arg.name, parsed.arg.value)]

EnterWorkdir(plan, path) ==
    UpsertDirectory([plan EXCEPT !.workdir = path], path, DefaultDirectory)

\* plan_context_application, for one instruction
PlanInstruction(plan, instruction, context) ==
    CASE instruction.keyword = "ARG" -> InsertArg(plan, ParseArg(Trimmed(instruction.raw)))
      [] instruction.keyword = "ENV" -> InsertPairs(plan, ParseEnv(instruction.raw))
      [] instruction.keyword = "WORKDIR" ->
            EnterWorkdir(plan, ResolveGuestPath(plan.workdir, PathArg(instruction.raw)))
      [] instruction.keyword \in {"COPY", "ADD"} ->
            PlanCopy(plan, instruction.keyword, Tokenize(instruction.raw), context)
      [] OTHER -> plan

\* apply_metadata_to
ApplyMetadata(operations, sidecars) ==
    FoldLeft(LAMBDA s, o : Extend(s, o.dest, o.meta), sidecars, operations)
=============================================================================
