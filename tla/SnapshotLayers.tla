--------------------------- MODULE SnapshotLayers ---------------------------
(***************************************************************************)
(* The layer of a snapshot (crates/mcr-snapshot): the plan made of its     *)
(* sidecar records, deleted paths and opaque directories (core.rs), its    *)
(* tar archive (export.rs) and the reader of such an archive (unpack.rs).  *)
(*                                                                         *)
(* An archive is a sequence of blocks: a header with its fields, a block   *)
(* of file content, or the zero block that ends it.  Block size, field     *)
(* widths and the clock's unit are scaled down.  The data of a regular     *)
(* file is as long as its size says; of a link it is the target, of a      *)
(* device its numbers.                                                     *)
(***************************************************************************)
EXTENDS BuildPlanner

CONSTANTS
    TAR_BLOCK_SIZE,  \* bytes of a block
    NameField,       \* bytes of the name, and of the link name
    PrefixField,     \* bytes of the prefix
    OctalMax,        \* largest value of a mode, owner or device number field
    LongOctalMax,    \* largest value of a size or time field
    Second           \* nanoseconds of a second

WhiteoutPrefix == <<".", "w", "h", ".">>
OpaqueName == <<".", "w", "h", ".", ".", "w", "h", ".", ".", "o", "p", "q">>
-----------------------------------------------------------------------------
(***************************************************************************)
(* SnapshotLayerPlan::from_parts.                                          *)
(***************************************************************************)
WhiteoutPath(path) == Append(Front(path), WhiteoutPrefix \o Last(path))
OpaquePath(path) == Append(path, OpaqueName)

Marker == [kind |-> "Regular", data |-> <<>>, uid |-> 0, mode |-> 0, mtime |-> 0]

MarkerPaths(spec) ==
    {WhiteoutPath(p) : p \in spec.deleted} \cup {OpaquePath(p) : p \in spec.opaque}
Conflicts(spec) ==
    \/ DOMAIN spec.sidecars \cap MarkerPaths(spec) # {}
    \/ {WhiteoutPath(p) : p \in spec.deleted} \cap {OpaquePath(p) : p \in spec.opaque} # {}
LayerPlan(spec) ==
    [p \in DOMAIN spec.sidecars \cup MarkerPaths(spec) |->
        IF p \in DOMAIN spec.sidecars THEN spec.sidecars[p] ELSE Marker]
-----------------------------------------------------------------------------
(***************************************************************************)
(* Tar headers.  A header that cannot be written has an error.             *)
(***************************************************************************)
SplitPoints(text) == {i \in DOMAIN text : text[i] = "/"}
SplitFits(text, i) ==
    i - 1 \in 1 .. PrefixField /\ Len(text) - i \in 1 .. NameField

SplitAt(text, i) == [prefix |-> SubSeq(text, 1, i - 1), name |-> SubSeq(text, i + 1, Len(text)), err |-> ""]
PathTooLong == [prefix |-> Empty, name |-> Empty, err |-> "PathTooLong"]

\* split_tar_path: the last slash that leaves both parts short enough
SplitTarPath(text) ==
    LET fits == {i \in SplitPoints(text) : SplitFits(text, i)}
    IN IF Len(text) <= NameField THEN [prefix |-> Empty, name |-> text, err |-> ""]
       ELSE IF fits # {} THEN SplitAt(text, Max(fits))
       ELSE PathTooLong

\* layer_tar_path
TarPath(path) == IF path = <<>> THEN Empty ELSE Text(path)

LinkText(meta) ==
    CASE meta.kind = "Symlink" -> meta.data
      [] meta.kind = "Hardlink" -> TarPath(meta.data)
      [] OTHER -> Empty

TarSize(meta) == IF meta.kind = "Regular" THEN Len(meta.data) ELSE 0
DeviceOf(meta) == IF meta.kind \in {"CharacterDevice", "BlockDevice"} THEN meta.data ELSE <<>>

HeaderError(path, meta, parts) ==
    IF path = <<>> THEN "CannotExportRootEntry"
    ELSE IF parts.err # "" THEN parts.err
    ELSE IF meta.uid > OctalMax \/ meta.mode > OctalMax \/ TarSize(meta) > LongOctalMax
         THEN "HeaderFieldTooLarge"
    ELSE IF meta.mtime < 0 THEN "NegativeMtime"
    ELSE IF meta.mtime \div Second > LongOctalMax THEN "HeaderFieldTooLarge"
    ELSE IF meta.kind = "Hardlink" /\ meta.data = <<>> THEN "CannotExportRootEntry"
    ELSE IF Len(LinkText(meta)) > NameField THEN "LinkNameTooLong"
    ELSE IF \E n \in Range(DeviceOf(meta)) : n > OctalMax THEN "HeaderFieldTooLarge"
    ELSE ""

\* append_tar_header: the modification time is cut to whole seconds
TarHeader(path, meta, parts) ==
    [block |-> "header", prefix |-> parts.prefix, name |-> parts.name,
     mode |-> meta.mode, uid |-> meta.uid,
     size |-> TarSize(meta),
     mtime |-> meta.mtime \div Second, type |-> meta.kind,
     link |-> LinkText(meta),
     device |-> DeviceOf(meta)]
-----------------------------------------------------------------------------
(***************************************************************************)
(* SnapshotSpec::export_upper_layer_tar.  upper is what the host's upper   *)
(* root holds: the content of every file there.                            *)
(***************************************************************************)
CharOrder == <<" ", ".", "/", "\\", "a", "b", "d", "e", "h", "o", "p", "q", "w", "U">>
Rank(c) == CHOOSE i \in DOMAIN CharOrder : CharOrder[i] = c
TextLess(s, t) ==
    \/ IsStrictPrefix(s, t)
    \/ \E i \in DOMAIN s \cap DOMAIN t : /\ SubSeq(s, 1, i - 1) = SubSeq(t, 1, i - 1)
                                         /\ Rank(s[i]) < Rank(t[i])
\* The order of a BTreeMap of paths.
InPathOrder(paths) ==
    [i \in 1 .. Cardinality(paths) |->
        CHOOSE p \in paths :
            Cardinality({q \in paths : TextLess(TarPath(q), TarPath(p))}) = i - 1]

Blocks(n) == (n + TAR_BLOCK_SIZE - 1) \div TAR_BLOCK_SIZE
DataBlock == [block |-> "data"]
ZeroBlock == [block |-> "zero"]
WholeBlocksOnly(content) == [i \in 1 .. Len(content) \div TAR_BLOCK_SIZE |-> DataBlock]

\* append_tar_content
TarContent(content) == [i \in 1 .. Blocks(Len(content)) |-> DataBlock]

\* append_layer_tar_entry, regular_content_for
EntryError(path, meta, upper) ==
    IF meta.kind = "Regular" /\ path \in DOMAIN upper /\ Len(upper[path]) # Len(meta.data)
    THEN "RegularContentSizeMismatch"
    ELSE HeaderError(path, meta, SplitTarPath(TarPath(path)))

AppendEntry(archive, path, meta, upper) ==
    IF archive.err # "" THEN archive
    ELSE IF EntryError(path, meta, upper) # "" THEN [archive EXCEPT !.err = EntryError(path, meta, upper)]
    ELSE [archive EXCEPT !.blocks =
            @ \o <<TarHeader(path, meta, SplitTarPath(TarPath(path)))>>
              \o (IF meta.kind = "Regular" /\ path \in DOMAIN upper THEN TarContent(upper[path]) ELSE <<>>)]

\* read_upper_regular_contents
Unreadable(spec, upper) ==
    \E p \in DOMAIN spec.sidecars : spec.sidecars[p].kind = "Regular" /\ p \notin DOMAIN upper

NoArchive(err) == [blocks |-> <<>>, err |-> err]
ToTar(plan, upper) ==
    FoldLeft(LAMBDA a, p : AppendEntry(a, p, plan[p], upper), NoArchive(""), InPathOrder(DOMAIN plan))

ExportUpperLayer(spec, upper) ==
    IF Conflicts(spec) THEN NoArchive("ConflictingLayerEntry")
    ELSE IF Unreadable(spec, upper) THEN NoArchive("Io")
    ELSE LET tar == ToTar(LayerPlan(spec), Restrict(upper, DOMAIN upper \cap DOMAIN spec.sidecars))
         IN IF tar.err # "" THEN NoArchive(tar.err)
            ELSE [tar EXCEPT !.blocks = @ \o <<ZeroBlock, ZeroBlock>>]
-----------------------------------------------------------------------------
(***************************************************************************)
(* BaseLayerSnapshot::from_uncompressed_tar.                               *)
(***************************************************************************)
Sized(n) == [i \in 1 .. n |-> 0]

\* tar_string: trailing spaces are taken for padding; "U" stands for the bytes
\* of a character that is not ASCII, and a field with one is refused
TarString(text) == TrimEnd(" ", text)
IsAscii(text) == "U" \notin Range(text)

EntryText(header) ==
    TrimEnd("/", IF TarString(header.prefix) = Empty THEN TarString(header.name)
                 ELSE TarString(header.prefix) \o <<"/">> \o TarString(header.name))
HardlinkText(header) == TrimEnd("/", TarString(header.link))

\* relative_tar_path_to_snapshot_path and SnapshotPath::new
ValidEntry(text) ==
    /\ text # Empty /\ "\\" \notin Range(text)
    /\ \A c \in Range(Split("/", text)) : c \notin {Empty, Dot, DotDot}

EntryData(header) ==
    CASE header.type = "Regular" -> Sized(header.size)
      [] header.type = "Symlink" -> TarString(header.link)
      [] header.type = "Hardlink" -> Split("/", HardlinkText(header))
      [] OTHER -> header.device

\* tar_entry_path, then tar_entry_kind
ReadError(header) ==
    IF ~IsAscii(header.name) \/ ~IsAscii(header.prefix) THEN "InvalidStringField"
    ELSE IF ~ValidEntry(EntryText(header)) THEN "InvalidEntryPath"
    ELSE IF ~IsAscii(header.link) THEN "InvalidStringField"
    ELSE IF header.type = "Hardlink" /\ ~ValidEntry(HardlinkText(header)) THEN "InvalidEntryPath"
    ELSE ""

ReadHeader(r, header) ==
    IF ReadError(header) # "" THEN [r EXCEPT !.err = ReadError(header)]
    ELSE [r EXCEPT
            !.entries = Append(@, [path |-> Split("/", EntryText(header)),
                                   meta |-> [kind |-> header.type, data |-> EntryData(header),
                                             uid |-> header.uid, mode |-> header.mode,
                                             mtime |-> header.mtime * Second]]),
            !.skip = Blocks(header.size)]

ReadBlock(r, b) ==
    IF r.err # "" \/ r.done THEN r
    ELSE IF r.skip > 0 THEN [r EXCEPT !.skip = @ - 1]
    ELSE IF b.block = "zero" THEN [r EXCEPT !.done = TRUE]
    ELSE IF b.block = "data" THEN [r EXCEPT !.err = "InvalidOctalField"]
    ELSE ReadHeader(r, b)

FromUncompressedTar(blocks) ==
    LET read == FoldLeft(ReadBlock, [entries |-> <<>>, skip |-> 0, done |-> FALSE, err |-> ""], blocks)
    IN IF read.err = "" /\ read.skip > 0 THEN [read EXCEPT !.err = "TruncatedEntryData"]
       ELSE [read EXCEPT !.entries = SortSeq(@, LAMBDA x, y : TextLess(Text(x.path), Text(y.path)))]
=============================================================================
