----------------------------- MODULE ImageBuild -----------------------------
(***************************************************************************)
(* A build from its context to a layer and back: the context is loaded,    *)
(* the instructions are planned one by one, the plan is applied to a       *)
(* snapshot, other steps change the snapshot, its layer is exported, and   *)
(* the archive is read as the base layer of the next build.                *)
(*                                                                         *)
(* The files of the upper root are written by the caller (external): as    *)
(* the plan says, or with another size when the host file has changed      *)
(* since the context was loaded.                                           *)
(***************************************************************************)
EXTENDS SnapshotLayers

CONSTANTS
    HostTree,        \* entries of the context directory, in path order
    IgnoreFiles,     \* lines of .dockerignore
    Instructions,    \* planned instructions
    Records,         \* paths and metadata a step may record
    LowerPaths,      \* paths of the lower layers
    Jobs             \* what a behaviour builds, or the input it looks at

VARIABLES
    job,       \* the member of Jobs
    phase,     \* "load", "plan", "snapshot", "exported", "unpacked", or "input"
    context,   \* BuildContext
    plan,      \* BuildApplicationPlan
    spec,      \* SnapshotSpec: sidecars, deleted and opaque
    upper,     \* contents of the upper root
    archive,   \* the exported layer
    base       \* BaseLayerSnapshot
buildVars == <<job, phase, context, plan, spec, upper, archive, base>>

NewSnapshot == [sidecars |-> <<>>, deleted |-> {}, opaque |-> {}, changes |-> 0]

BuildInit ==
    /\ job \in Jobs
    /\ phase = job.start
    /\ context = [err |-> "", entries |-> <<>>]
    /\ plan = EmptyPlan
    /\ spec = NewSnapshot
    /\ upper = <<>>
    /\ archive = NoArchive("")
    /\ base = FromUncompressedTar(<<>>)

\* load_build_context
Load ==
    /\ phase = "load"
    /\ \E lines \in IgnoreFiles : context' = LoadContext(HostTree, lines)
    /\ phase' = IF context'.err = "" THEN "plan" ELSE "failed"
    /\ UNCHANGED <<job, plan, spec, upper, archive, base>>

\* plan_context_application: an error abandons the plan
Instruct ==
    /\ phase = "plan"
    /\ Len(plan.done) < job.steps
    /\ \E i \in Instructions :
          plan' = [PlanInstruction(plan, i, context.entries) EXCEPT !.done = Append(@, i)]
    /\ phase' = IF plan'.err = "" THEN "plan" ELSE "failed"
    /\ UNCHANGED <<job, context, spec, upper, archive, base>>

\* apply_metadata_to, and the caller's copies
Regulars(sidecars) == {p \in DOMAIN sidecars : sidecars[p].kind = "Regular"}
Apply ==
    /\ phase = "plan"
    /\ spec' = [spec EXCEPT !.sidecars = ApplyMetadata(plan.operations, @)]
    /\ \E grown \in SUBSET Regulars(spec'.sidecars) :
          /\ Cardinality(grown) <= 1
          /\ upper' = [p \in Regulars(spec'.sidecars) |->
                          spec'.sidecars[p].data \o (IF p \in grown THEN <<0>> ELSE <<>>)]
    /\ phase' = "snapshot"
    /\ UNCHANGED <<job, context, plan, archive, base>>

Change(s) == [s EXCEPT !.changes = @ + 1]
MayChange == phase = "snapshot" /\ spec.changes < job.changes

UpsertSidecar ==
    /\ MayChange
    /\ \E r \in Records : spec' = Change([spec EXCEPT !.sidecars = Extend(@, r[1], r[2])])
    /\ UNCHANGED <<job, phase, context, plan, upper, archive, base>>

WriteUpper ==
    /\ MayChange
    /\ \E p \in Regulars(spec.sidecars), n \in {0, 1, TAR_BLOCK_SIZE + 1} : upper' = Extend(upper, p, Sized(n))
    /\ spec' = Change(spec)
    /\ UNCHANGED <<job, phase, context, plan, archive, base>>

\* delete_lower_path refuses the root
DeleteLowerPath ==
    /\ MayChange
    /\ \E p \in LowerPaths \ {<<>>} : spec' = Change([spec EXCEPT !.deleted = @ \cup {p}])
    /\ UNCHANGED <<job, phase, context, plan, upper, archive, base>>

MarkOpaqueDirectory ==
    /\ MayChange
    /\ \E p \in LowerPaths : spec' = Change([spec EXCEPT !.opaque = @ \cup {p}])
    /\ UNCHANGED <<job, phase, context, plan, upper, archive, base>>

Export ==
    /\ phase = "snapshot"
    /\ archive' = ExportUpperLayer(spec, upper)
    /\ phase' = "exported"
    /\ UNCHANGED <<job, context, plan, spec, upper, base>>

Unpack ==
    /\ phase = "exported" /\ archive.err = ""
    /\ base' = FromUncompressedTar(archive.blocks)
    /\ phase' = "unpacked"
    /\ UNCHANGED <<job, context, plan, spec, upper, archive>>

BuildNext ==
    \/ Load \/ Instruct \/ Apply
    \/ UpsertSidecar \/ WriteUpper \/ DeleteLowerPath \/ MarkOpaqueDirectory
    \/ Export \/ Unpack
-----------------------------------------------------------------------------
(***************************************************************************)
(* Properties of the build.                                                *)
(***************************************************************************)
\* The snapshot and the archive are what the phase says: nothing is exported
\* from a failed plan, and an archive with an error has no blocks.
BuildTypeOK ==
    /\ phase \in {"load", "plan", "snapshot", "exported", "unpacked", "failed", "input"}
    /\ phase = "failed" => spec = NewSnapshot /\ archive = NoArchive("")
    /\ archive.err # "" => archive.blocks = <<>>
    /\ \A i \in DOMAIN plan.operations :
          plan.operations[i].op = "EnsureDirectory" <=> plan.operations[i].meta.kind = "Directory"

\* Every entry of a loaded context has its directory in the context, whatever
\* the ignore rules take out and put back, so a COPY of the directory names it.
ContextIsClosed ==
    \A e \in Range(context.entries) :
        Len(e.path) > 1 => \E d \in EntryAt(context.entries, Front(e.path)) : d.kind = "Directory"

(***************************************************************************)
(* What the instructions done so far say, without a plan: where each COPY  *)
(* puts each entry of the context, told apart by the instruction, the      *)
(* source and the entry, which also gives their order.                     *)
(***************************************************************************)
Workdirs ==
    LET dir[i \in 0 .. Len(plan.done)] ==
            IF i = 0 THEN <<>>
            ELSE IF plan.done[i].keyword = "WORKDIR"
                 THEN ResolveGuestPath(dir[i - 1], PathArg(plan.done[i].raw))
                 ELSE dir[i - 1]
    IN dir
Copying == {i \in DOMAIN plan.done : plan.done[i].keyword \in {"COPY", "ADD"}}
\* one source of one instruction: what it names, and where that goes
CopySources ==
    UNION {LET words == Tokenize(plan.done[i].raw)
               target == Last(words)
           IN {[at |-> <<i, j>>, from |-> SourcePath(PathArg(words[j])).path,
                base |-> ResolveGuestPath(Workdirs[i - 1], PathArg(target)),
                into |-> Len(words) > 2 \/ target = Dot \/ Last(target) \in {"/", "\\"}] :
                   j \in 1 .. Len(words) - 1} : i \in Copying}
IsTree(from) == from = <<>> \/ \E d \in EntryAt(context.entries, from) : d.kind = "Directory"
IntoDirectory(s) == s.into \/ IsTree(s.from)
Dest(s, path) ==
    IF IsTree(s.from) THEN s.base \o SubSeq(path, Len(s.from) + 1, Len(path))
    ELSE IF s.into THEN Append(s.base, Last(path)) ELSE s.base
Taken(s) == {k \in DOMAIN context.entries :
                LET path == context.entries[k].path
                IN IF IsTree(s.from) THEN IsStrictPrefix(s.from, path) ELSE path = s.from}
Copies ==
    UNION {{[at |-> Append(s.at, k), entry |-> context.entries[k],
             dest |-> Dest(s, context.entries[k].path)] : k \in Taken(s)} : s \in CopySources}
Earlier(x, y) == \E n \in DOMAIN x \cap DOMAIN y : SubSeq(x, 1, n - 1) = SubSeq(y, 1, n - 1) /\ x[n] < y[n]
Latest(copies) == CHOOSE c \in copies : \A o \in copies \ {c} : Earlier(o.at, c.at)

Enclosing(path) == Prefixes(path) \ {<<>>, path}
TargetDirectories == {s.base : s \in {t \in CopySources : IntoDirectory(t)}}
WorkingDirectories == {Workdirs[i] : i \in {j \in DOMAIN plan.done : plan.done[j].keyword = "WORKDIR"}}
ToldPaths ==
    WorkingDirectories \cup TargetDirectories \cup {c.dest : c \in Copies}
    \cup UNION {Enclosing(p) : p \in TargetDirectories \cup {c.dest : c \in Copies}}

\* A later instruction, source or entry that needs the directory p
NeededAgain(p, at) ==
    \/ \E c \in Copies : Earlier(at, c.at) /\ IsStrictPrefix(p, c.dest)
    \/ \E s \in CopySources : Earlier(at, s.at) /\ IntoDirectory(s) /\ IsPrefix(p, s.base)
    \/ \E i \in at[1] + 1 .. Len(plan.done) : plan.done[i].keyword = "WORKDIR" /\ Workdirs[i] = p

\* The planned operations, applied in order, leave exactly what the
\* instructions say: the last file or directory copied to a path, with its
\* metadata and its source, and plain directories around them and at the
\* working directories.  Two exceptions.  A copied directory that is needed
\* again, if only for its own files, gets back plain metadata: its time is
\* lost (push_parent_directories), where build.md promises that COPY preserves
\* metadata.  And a path planned as a directory and as a file is what came
\* last in the plan, in which a directory keeps its first place.
PlannedAs(p) == {plan.operations[i].op = "EnsureDirectory" :
                    i \in {j \in DOMAIN plan.operations : plan.operations[j].dest = p}}
LastOperation(p) ==
    plan.operations[Max({i \in DOMAIN plan.operations : plan.operations[i].dest = p})]
PlanReplaysInstructions ==
    LET made == ApplyMetadata(plan.operations, <<>>)
        CopiedTo(p) == {c \in Copies : c.dest = p}
    IN plan.err = "" =>
        /\ DOMAIN made = ToldPaths
        /\ \A p \in ToldPaths :
              \/ Cardinality(PlannedAs(p)) > 1
              \/ CopiedTo(p) = {} /\ made[p] = DefaultDirectory
              \/ /\ CopiedTo(p) # {}
                 /\ LET last == Latest(CopiedTo(p))
                    IN IF last.entry.kind = "Directory"
                       THEN \/ made[p] = last.entry.meta
                            \/ made[p] = DefaultDirectory /\ NeededAgain(p, last.at)
                       ELSE made[p] = last.entry.meta /\ LastOperation(p).source = last.entry.path

\* An export fails only for a layer that the archive cannot hold or the upper
\* root does not back: every other one is written, long paths included.
Backed(p) == p \in DOMAIN upper /\ Len(upper[p]) = Len(spec.sidecars[p].data)
TarHolds(p, meta) ==
    /\ p # <<>>
    /\ \/ Len(Text(p)) <= NameField
       \/ \E n \in 1 .. Len(p) - 1 : /\ Len(Text(SubSeq(p, 1, n))) <= PrefixField
                                     /\ Len(Text(SubSeq(p, n + 1, Len(p)))) <= NameField
    /\ meta.uid <= OctalMax /\ meta.mtime \div Second \in 0 .. LongOctalMax
    /\ \A n \in Range(DeviceOf(meta)) : n <= OctalMax
    /\ meta.kind = "Hardlink" => meta.data # <<>>
    /\ Len(LinkText(meta)) <= NameField
ExportRefusesOnlyTheUnfit ==
    phase = "exported" /\ archive.err # "" =>
        \/ \E p \in Regulars(spec.sidecars) : ~Backed(p)
        \/ \E p \in DOMAIN LayerPlan(spec) : ~TarHolds(p, LayerPlan(spec)[p])
        \/ Cardinality(DOMAIN LayerPlan(spec)) <
              Cardinality(DOMAIN spec.sidecars) + Cardinality(spec.deleted) + Cardinality(spec.opaque)

\* The reader of layers finds in an exported archive the entries of the plan,
\* with whole seconds, whatever their contents and however long their paths.
\* Excepted are names and link targets that end in a space, which the reader
\* takes for padding, and the layers the export writes and the reader refuses:
\* those with a name or a link target that is not ASCII, or with a backslash in
\* a name or in the target of a hard link.
EndsInSpace(text) == text # Empty /\ Last(text) = " "
PadsAway(p, meta) ==
    \/ EndsInSpace(Last(p)) \/ EndsInSpace(LinkText(meta))
    \/ \E n \in DOMAIN p : EndsInSpace(p[n]) /\ Len(Text(p)) > NameField
RefusedByReader(p, meta) ==
    \/ ~IsAscii(Text(p)) \/ "\\" \in Range(Text(p))
    \/ ~IsAscii(LinkText(meta))
    \/ meta.kind = "Hardlink" /\ "\\" \in Range(LinkText(meta))
WholeSeconds(meta) == [meta EXCEPT !.mtime = (@ \div Second) * Second]
LayerReadsBack ==
    phase = "unpacked" /\ (\A p \in DOMAIN LayerPlan(spec) : ~PadsAway(p, LayerPlan(spec)[p])) =>
        \/ /\ base.err # ""
           /\ \E p \in DOMAIN LayerPlan(spec) : RefusedByReader(p, LayerPlan(spec)[p])
        \/ /\ base.err = ""
           /\ Len(base.entries) = Cardinality(DOMAIN LayerPlan(spec))
           /\ Range(base.entries) = {[path |-> p, meta |-> WholeSeconds(LayerPlan(spec)[p])] :
                                        p \in DOMAIN LayerPlan(spec)}

\* The markers of the layer say which lower paths are gone: reading the names
\* as OCI does gives back the deleted paths and the opaque directories, also
\* when a deleted path was made anew.  Excepted are upper or lower names that
\* themselves begin with the whiteout prefix.
Whiteouts == {e.path : e \in {x \in Range(base.entries) : IsPrefix(WhiteoutPrefix, Last(x.path))}}
OpaqueMarks == {p \in Whiteouts : Last(p) = OpaqueName}
Unmarked(p) == Append(Front(p), SubSeq(Last(p), Len(WhiteoutPrefix) + 1, Len(Last(p))))
DeletionsReadBack ==
    /\ phase = "unpacked" /\ base.err = ""
    /\ \A p \in DOMAIN LayerPlan(spec) : ~PadsAway(p, LayerPlan(spec)[p])
    /\ \A p \in (DOMAIN spec.sidecars \cup spec.deleted) \ {<<>>} : ~IsPrefix(WhiteoutPrefix, Last(p))
    => /\ {Unmarked(p) : p \in Whiteouts \ OpaqueMarks} = spec.deleted
       /\ {Front(p) : p \in OpaqueMarks} = spec.opaque

\* A snapshot survives its export: a layer the archive can hold is written, and
\* its entries and its deletions are read back (ExportUpperLayer,
\* FromUncompressedTar).
LayersReadBack == BuildTypeOK /\ ExportRefusesOnlyTheUnfit /\ LayerReadsBack /\ DeletionsReadBack

\* What a COPY plans is what the instructions say, for every context that the
\* ignore rules leave.
PlanFollowsInstructions == ContextIsClosed /\ PlanReplaysInstructions
-----------------------------------------------------------------------------
(***************************************************************************)
(* Properties of the text operators, on the inputs of Jobs.                *)
(***************************************************************************)
\* A glob of the ignore file matches only texts its stars can stand for, and
\* all of them unless the part after the last star overlaps itself.
GlobsMatch ==
    job.input = "glob" =>
        /\ WildcardMatches(job.a, job.b) => Glob(job.a, job.b)
        /\ Glob(job.a, job.b) /\ ~OverlapsItself(Last(Split("*", job.a))) => WildcardMatches(job.a, job.b)

\* Words put in quotes, with their quotes and backslashes escaped, come out of
\* the tokenizer as they were, with one exception: an empty word in quotes is
\* dropped, as if it had not been written.
Quoted(word) ==
    <<"\"">> \o FlattenSeq([i \in DOMAIN word |->
                   IF word[i] \in {"\"", "\\"} THEN <<"\\", word[i]>> ELSE <<word[i]>>]) \o <<"\"">>
QuotedWordsSurvive ==
    job.input = "words" => Tokenize(Quoted(job.a) \o <<" ">> \o Quoted(job.b)) = SelectSeq(<<job.a, job.b>>, LAMBDA w : w # Empty)

\* Comments and blank lines change nothing of the instructions, not even in the
\* middle of a continued one, and an instruction is reported at its first line.
Said(parsed) == <<parsed.err, [i \in DOMAIN parsed.instructions |->
                     <<parsed.instructions[i].keyword, parsed.instructions[i].words>>]>>
CommentsChangeNothing ==
    job.input = "lines" =>
        /\ Said(ParseDockerfile(job.lines)) = Said(ParseDockerfile(SelectSeq(job.lines, LAMBDA l : l.kind = "text")))
        /\ \A i \in DOMAIN ParseDockerfile(job.lines).instructions :
              LET said == ParseDockerfile(job.lines).instructions[i]
              IN job.lines[said.line].kind = "text" /\ Head(job.lines[said.line].words) = said.keyword
=============================================================================
