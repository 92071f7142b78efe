----------------------------- MODULE OciImages ------------------------------
(***************************************************************************)
(* Image references, descriptors and the JSON of an image's configuration  *)
(* (crates/mcr-image/src/oci.rs), what a pull accepts and what a push      *)
(* uploads (registry.rs), and the names inside a docker archive (store.rs).*)
(*                                                                         *)
(* Texts are sequences of characters.  In a reference "R" stands for the   *)
(* default registry's name, which contains a dot, "L" for "localhost", "l" *)
(* for "library", "t" for the default tag, and a digest is written         *)
(* <<"s", ":", "a">>: the algorithm, a colon and its hexadecimal digits.   *)
(***************************************************************************)
EXTENDS SnapshotLayers

NoReference(err) == [registry |-> Empty, repository |-> Empty, tag |-> {}, digest |-> {}, err |-> err]

Places(c, s) == {i \in DOMAIN s : s[i] = c}
UpTo(s, i) == SubSeq(s, 1, i - 1)
Past(s, i) == SubSeq(s, i + 1, Len(s))

\* OciDigest::parse
IsDigest(s) == s = <<"s", ":", "a">>

\* split_tag: the last colon after the last slash
TagPlaces(s) == {i \in Places(":", s) : \A j \in Places("/", s) : j < i}
SplitTag(s) ==
    IF TagPlaces(s) = {} THEN [name |-> s, tag |-> {}, err |-> ""]
    ELSE LET at == Max(TagPlaces(s))
         IN [name |-> UpTo(s, at), tag |-> {Past(s, at)},
             err |-> IF UpTo(s, at) = Empty \/ Past(s, at) = Empty THEN "InvalidReference" ELSE ""]

DefaultRegistry == <<"R">>
DefaultTag == <<"t">>
NamesRegistry(first) == Range(first) \cap {".", ":", "R"} # {} \/ first = <<"L">>

\* An unqualified name of the default registry is one of its library.
InLibrary(registry, repository) ==
    IF registry = DefaultRegistry /\ Places("/", repository) = {}
    THEN <<"l", "/">> \o repository ELSE repository

\* split_registry_repository
SplitRegistry(name) ==
    IF name = Empty THEN NoReference("InvalidReference")
    ELSE IF Places("/", name) # {} /\ NamesRegistry(UpTo(name, Min(Places("/", name))))
    THEN LET at == Min(Places("/", name))
         IN IF Past(name, at) = Empty THEN NoReference("InvalidReference")
            ELSE [NoReference("") EXCEPT !.registry = UpTo(name, at),
                                         !.repository = InLibrary(UpTo(name, at), Past(name, at))]
    ELSE [NoReference("") EXCEPT !.registry = DefaultRegistry,
                                 !.repository = InLibrary(DefaultRegistry, name)]

ValidRepository(repository) ==
    /\ \A piece \in Range(Split("/", repository)) : piece # Empty
    /\ Range(repository) \cap {":", "@", " "} = {}

ValidTag(tag) == tag # Empty /\ tag[1] # "." /\ Range(tag) \cap {":", "/", "@", " "} = {}

\* OciReference::parse, once the digest is split off
Assembled(named, parts, digest) ==
    IF named.err # "" THEN NoReference(named.err)
    ELSE IF parts.err # "" THEN parts
    ELSE IF ~ValidRepository(parts.repository) THEN NoReference("InvalidRepository")
    ELSE IF \E t \in named.tag : ~ValidTag(t) THEN NoReference("InvalidTag")
    ELSE [parts EXCEPT !.tag = IF named.tag = {} /\ digest = {} THEN {DefaultTag} ELSE named.tag,
                       !.digest = digest]
ParseName(text, digest) == Assembled(SplitTag(text), SplitRegistry(SplitTag(text).name), digest)

ParseReference(text) ==
    LET value == TrimStart(" ", TrimEnd(" ", text))
        ats == Places("@", value)
    IN IF value = Empty \/ " " \in Range(value) THEN NoReference("InvalidReference")
       ELSE IF ats = {} THEN ParseName(value, {})
       ELSE IF UpTo(value, Min(ats)) = Empty \/ Past(value, Min(ats)) = Empty \/ Cardinality(ats) > 1
       THEN NoReference("InvalidReference")
       ELSE IF ~IsDigest(Past(value, Min(ats))) THEN NoReference("InvalidDigest")
       ELSE ParseName(UpTo(value, Min(ats)), {Past(value, Min(ats))})

\* Display for OciReference
Optional(mark, texts) == IF texts = {} THEN Empty ELSE <<mark>> \o (CHOOSE t \in texts : TRUE)
DisplayReference(r) ==
    r.registry \o <<"/">> \o r.repository \o Optional(":", r.tag) \o Optional("@", r.digest)
-----------------------------------------------------------------------------
(***************************************************************************)
(* The JSON of an image configuration, from which its digest is taken.     *)
(***************************************************************************)
\* push_json_string: quotes, backslashes and control characters are escaped
Escaped(c) ==
    IF c \in {"\"", "\\"} THEN <<"\\", c>>
    ELSE IF c = "\n" THEN <<"\\", "n">>
    ELSE IF c = "\t" THEN <<"\\", "t">>
    ELSE IF c = "ESC" THEN <<"\\", "u", "0", "0", "1", "b">>
    ELSE <<c>>
JsonString(value) == <<"\"">> \o FlattenSeq([i \in DOMAIN value |-> Escaped(value[i])]) \o <<"\"">>

CommaSeparated(pieces) ==
    FlattenSeq([i \in DOMAIN pieces |-> IF i = 1 THEN pieces[i] ELSE <<",">> \o pieces[i]])
JsonStrings(values) ==
    <<"[">> \o CommaSeparated([i \in DOMAIN values |-> JsonString(values[i])]) \o <<"]">>
JsonIf(key, values) == IF values = {} THEN Empty ELSE <<key>> \o JsonString(CHOOSE v \in values : TRUE)

\* push_container_config_json
ContainerConfigJson(c) ==
    <<"{", "Cmd">> \o JsonStrings(c.command) \o <<"Entrypoint">> \o JsonStrings(c.entrypoint)
    \o <<"Env">> \o JsonStrings(c.env) \o JsonIf("WorkingDir", c.workdir) \o <<"}">>

\* push_history_entry_json
HistoryJson(h) ==
    <<"{", "created_by">> \o JsonString(h.by) \o JsonIf("comment", h.comment)
    \o (IF h.empty THEN <<"empty_layer">> ELSE Empty) \o <<"}">>

\* OciImageConfig::to_json_bytes
ImageConfigJson(c) ==
    <<"{", "architecture">> \o JsonString(c.arch) \o <<"config">> \o ContainerConfigJson(c)
    \o <<"history", "[">> \o CommaSeparated([i \in DOMAIN c.history |-> HistoryJson(c.history[i])])
    \o <<"]", "os">> \o JsonString(c.os) \o JsonIf("variant", c.variant)
    \o <<"rootfs">> \o JsonStrings(c.diffs) \o <<"}">>
-----------------------------------------------------------------------------
(***************************************************************************)
(* Descriptors, manifests and plans.  Bytes are known by their digest; a   *)
(* descriptor is a media type and a digest.                                *)
(***************************************************************************)
\* validate_layer_media_type
LayerMedia(descriptor) == descriptor.media \in {"layer", "layer+gzip"}

\* OciPlatform::matches
PlatformMatches(wanted, candidate) ==
    /\ wanted.os = candidate.os /\ wanted.arch = candidate.arch
    /\ wanted.variant \subseteq candidate.variant

\* select_manifest: the first that fits
Compatible(index, platform) ==
    {i \in DOMAIN index : index[i].media = "manifest" /\ PlatformMatches(platform, index[i].platform)}
SelectManifest(index, platform) ==
    {index[i] : i \in {j \in Compatible(index, platform) : j = Min(Compatible(index, platform))}}

\* The checks of RegistryPullPlan::from_manifest and RegistryPushPlan::from_manifest
ManifestAccepted(manifest) ==
    manifest.config.media = "config" /\ \A i \in DOMAIN manifest.layers : LayerMedia(manifest.layers[i])

\* The config and the layers, in the order a push goes through them.
Described(manifest) == <<manifest.config>> \o manifest.layers

\* The uploads of RegistryPushPlan::from_manifest: what the registry lacks,
\* once each, in order.
Uploads(manifest, remote) ==
    FoldLeft(LAMBDA planned, d :
                 IF d.digest \in remote \/ d.digest \in Range(planned) THEN planned
                 ELSE Append(planned, d.digest),
             <<>>, Described(manifest))
=============================================================================
