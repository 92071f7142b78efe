------------------------------ MODULE MCImages ------------------------------
(* Small builds: a context of five entries, short Dockerfiles, a snapshot     *)
(* changed a few times, and the texts the operators are checked on.           *)
EXTENDS ImageBuild, ContentStore

a == <<"a">>
b == <<"b">>
d == <<"d">>
e == <<"e">>
padded == <<"a", " ">>
foreign == <<"U">>
slashed == <<"a", "\\">>

HostEntry(path, kind, data, mtime, outside) ==
  [path |-> path, kind |-> kind, data |-> data, mtime |-> mtime, outside |-> outside]
MCHostTree == <<
  HostEntry(<<a>>, "Regular", <<0>>, 15, FALSE),
  HostEntry(<<b>>, "Symlink", <<"d", "/", "a">>, 0, TRUE),
  HostEntry(<<d>>, "Directory", <<>>, 25, FALSE),
  HostEntry(<<d, a>>, "Regular", <<0, 0, 0>>, 5, FALSE),
  HostEntry(<<d, e>>, "Directory", <<>>, 35, FALSE),
  HostEntry(<<e>>, "Directory", <<>>, 0, FALSE),
  HostEntry(<<e, b>>, "Other", <<>>, 0, TRUE) >>

Instr(keyword, raw) == [keyword |-> keyword, raw |-> raw]
MCInstructions == {
  Instr("ARG", <<"a", "=", "b">>), Instr("ARG", <<"=">>),
  Instr("ENV", <<"a", "=", "b">>), Instr("ENV", <<"a", " ", "b">>), Instr("ENV", a),
  Instr("RUN", a),
  Instr("WORKDIR", <<"/", "d">>), Instr("WORKDIR", <<".", ".", "/", "a">>),
  Instr("COPY", <<"a", " ", "d", "/">>), Instr("COPY", <<"a", " ", "d", "\\">>), Instr("COPY", <<"a", " ", "/", "d">>),
  Instr("COPY", <<"a", " ", "b", " ", "d">>), Instr("COPY", <<".", " ", "/">>),
  Instr("COPY", <<"d", " ", "/", "d", "/", "e">>), Instr("COPY", <<"d", " ", "/", "d">>),
  Instr("COPY", a), Instr("COPY", <<"-", "-", " ", "a">>), Instr("COPY", <<"q", " ", "a">>),
  Instr("ADD", <<"h", ":", "/", "/", " ", "a">>), Instr("ADD", <<"/", "a", " ", "a">>) }

\* No ignore file; a directory out and one of its files back in; a glob.
MCIgnore == { <<>>, <<<<"e">>, <<"d">>, <<"!", "d", "/", "a">>>>, <<<<"e">>, <<"a", "*">>>>, <<<<"#">>, <<>>, <<"/", "e", "/">>>>,
              <<<<"*">>, <<"!", "d">>>>, <<<<"e">>, <<"/">>>> }

Meta(kind, data, uid, mtime) == [kind |-> kind, data |-> data, uid |-> uid, mode |-> 0, mtime |-> mtime]
deep == <<d, e, a, b, d, e, a>>
deeper == deep \o <<a, b, d>>
MCRecords == {
  <<<<a>>, Meta("Regular", <<0>>, 0, 15)>>, <<<<a>>, Meta("Directory", <<>>, 0, 0)>>,
  <<<<padded>>, Meta("Regular", <<>>, OctalMax, 0)>>,
  <<<<d>>, Meta("Directory", <<>>, 0, 25)>>, <<<<d, a>>, Meta("Regular", <<0, 0, 0>>, 0, 0)>>,
  <<<<e>>, Meta("Symlink", <<"d", "/", "a">>, 0, 0)>>, <<<<e>>, Meta("Symlink", <<"a", " ">>, 0, 0)>>,
  <<<<e>>, Meta("Hardlink", <<d, a>>, 0, 0)>>, <<<<e>>, Meta("Hardlink", <<>>, 0, 0)>>,
  <<<<e>>, Meta("Hardlink", deep, 0, 0)>>,
  <<<<b>>, Meta("CharacterDevice", <<1, 3>>, 0, 0)>>, <<<<b>>, Meta("Fifo", <<>>, 0, -1)>>,
  <<<<b>>, Meta("Regular", <<>>, OctalMax + 1, 0)>>,
  <<deep, Meta("Regular", <<>>, 0, 9)>>, <<deeper, Meta("Regular", <<>>, 0, 0)>>,
  <<<<WhiteoutPrefix \o a>>, Meta("Regular", <<>>, 0, 0)>>,
  <<<<foreign>>, Meta("Directory", <<>>, 0, 0)>>, <<<<slashed>>, Meta("Directory", <<>>, 0, 0)>>,
  <<<<e>>, Meta("Symlink", foreign, 0, 0)>>, <<<<e>>, Meta("Symlink", slashed, 0, 0)>>,
  <<<<e>>, Meta("Hardlink", <<d, slashed>>, 0, 0)>>,
  <<<<b>>, Meta("BlockDevice", <<1, OctalMax + 1>>, 0, 0)>>,
  <<<<b>>, Meta("Fifo", <<>>, 0, (LongOctalMax + 1) * Second)>> }
MCLower == {<<>>, <<a>>, <<d>>, <<d, a>>, <<d, e, a>>, deep}

Job(start, steps, changes) == [start |-> start, steps |-> steps, changes |-> changes, input |-> "", a |-> <<>>, b |-> <<>>, lines |-> <<>>]
TextInput(input, x, y) == [Job("input", 0, 0) EXCEPT !.input = input, !.a = x, !.b = y]
LineInput(lines) == [Job("input", 0, 0) EXCEPT !.input = "lines", !.lines = lines]

Texts(S, n) == UNION {[1 .. k -> S] : k \in 0 .. n}
Lines == {BlankLine, CommentLine, TextLine(<<"RUN">>, TRUE), TextLine(<<"RUN", "x">>, FALSE),
          TextLine(<<"x">>, TRUE), TextLine(<<"x">>, FALSE), TextLine(<<>>, TRUE)}

References ==
  Texts({"a", ":", "/", "@", "s", "R", "L", " "}, 4)
  \cup {r \o n \o g \o x : r \in {<<>>, <<"R", "/">>, <<"L", "/">>, <<"L", ":", "a", "/">>, <<"a", "/">>, <<"l", "/">>},
                           n \in {a, <<"a", "/", "a">>}, g \in {<<>>, <<":", "t">>, <<":", "R">>, <<":", ".">>},
                           x \in {<<>>, <<"@", "s", ":", "a">>, <<"@", "a">>}}

Words1 == {<<>>, <<"a">>, <<"\"">>, <<"\\">>, <<"a", "\"", ",", "\"", "a">>, <<"\\", "n">>, <<"\n">>}
Config(cmd, entry, env, dir, history) ==
  [arch |-> a, os |-> b, variant |-> {}, command |-> cmd, entrypoint |-> entry, env |-> env,
   workdir |-> dir, history |-> history, diffs |-> <<>>]
Configs ==
  {Config(c, <<>>, <<>>, {}, <<>>) : c \in Texts(Words1, 2)}
  \cup {Config(<<>>, <<>>, v, {}, <<>>) : v \in Texts(Words1, 1)}
  \cup {Config(<<>>, <<>>, <<>>, {w}, <<>>) : w \in Words1}
  \cup {Config(<<>>, <<>>, <<>>, {}, <<[by |-> w, comment |-> k, empty |-> z]>>) :
           w \in {a, <<"\"">>}, k \in {{}, {a}}, z \in BOOLEAN}

Builds ==
  {Job("load", 3, 0), Job("snapshot", 0, 3)}
MCJobs ==
  Builds \cup {TextInput("store", <<>>, <<>>)}
  \cup {TextInput("glob", p, v) : p \in Texts({"a", "b", "*"}, 4), v \in Texts({"a", "b"}, 4)}
  \cup {TextInput("words", v, w) : v, w \in Texts({"a", " ", "\"", "'", "\\"}, 2)}
  \cup {LineInput(l) : l \in Texts(Lines, 4)}
  \cup {TextInput("reference", r, <<>>) : r \in References}
  \cup {TextInput("config", <<>>, <<>>)}

\* One image with a shared layer twice, one with a layer of its own, one that
\* is compressed and one of an unknown media type.
Blob(media, digest) == [media |-> media, digest |-> digest]
MCImageSet ==
  "m1" :> [config |-> Blob("config", "c1"), layers |-> <<Blob("layer", "b1"), Blob("layer", "b1")>>]
  @@ "m2" :> [config |-> Blob("config", "c2"), layers |-> <<Blob("layer+gzip", "b1")>>]
  @@ "m3" :> [config |-> Blob("config", "c1"), layers |-> <<Blob("other", "b1")>>]
On(digest, media, arch, variant) ==
  [digest |-> digest, media |-> media, platform |-> [os |-> "linux", arch |-> arch, variant |-> variant]]
MCIndex == <<On("m2", "manifest", "arm", {}), On("m3", "index", "amd", {}), On("m1", "manifest", "amd", {"v1"}),
             On("m2", "manifest", "amd", {})>>
MCPlatform == [os |-> "linux", arch |-> "amd", variant |-> {}]

Init == BuildInit /\ StoreInit
Next ==
  \/ job.input # "store" /\ BuildNext /\ UNCHANGED storeVars
  \/ job.input = "store" /\ StoreNext /\ UNCHANGED buildVars

\* A reference that is accepted is accepted again as it is displayed, and means
\* the same registry, repository, tag and digest.
ReferencesRoundTrip ==
  job.input = "reference" /\ ParseReference(job.a).err = "" =>
    ParseReference(DisplayReference(ParseReference(job.a))) = ParseReference(job.a)

\* Different image configurations are written as different bytes, whatever
\* quotes and backslashes their words contain, so a digest names one of them.
ConfigsAreDistinguished ==
  job.input = "config" => Cardinality({ImageConfigJson(c) : c \in Configs}) = Cardinality(Configs)

\* Texts are read as they were meant: globs, quoted words, comments, references
\* and configurations.
TextsAreReadRight ==
  /\ GlobsMatch /\ QuotedWordsSurvive /\ CommentsChangeNothing
  /\ ReferencesRoundTrip /\ ConfigsAreDistinguished
=============================================================================
