---------------------------- MODULE ContentStore ----------------------------
(***************************************************************************)
(* The local content store and the registry (crates/mcr-image/src/store.rs)*)
(* under several builders that share them, each running one operation of   *)
(* the store after another, any of which may crash.                        *)
(*                                                                         *)
(* A file is written by fs::write, which empties it first and then fills   *)
(* it: other builders may read or write it in between, and a crash leaves  *)
(* it torn.  Equal contents have equal digests, so that a blob's name says *)
(* what it should hold.  The registry and the transport are external: an   *)
(* upload may fail with or without having been stored, and pulled bytes may*)
(* be damaged.                                                             *)
(***************************************************************************)
EXTENDS OciImages

CONSTANTS
    Builders,     \* processes on one store
    Images,       \* digest of a manifest -> [config, layers]
    Index,        \* the registry's index a pull selects from
    Platform,     \* the platform a pull asks for
    Operations,   \* subset of {"build", "push", "docker", "pull"}
    MaxAttempts,  \* bound: operations started
    MaxFaults     \* bound: crashes, failed requests and damaged pulls

VARIABLES
    files,     \* name -> [content, whole, by]: by last emptied it
    builder,   \* what each builder is doing
    registry,  \* [blobs, manifests]
    started,   \* operations started so far
    faults,    \* faults so far
    hurt       \* files a crash left torn, or two writers mixed
storeVars == <<files, builder, registry, started, faults, hurt>>

IdleBuilder == [op |-> "", image |-> "", todo |-> <<>>, writing |-> FALSE, torn |-> {}, remote |-> {},
                layers |-> <<>>,
                alone |-> TRUE, outcome |-> "Idle"]

StoreInit ==
    /\ files = <<>>
    /\ builder = [p \in Builders |-> IdleBuilder]
    /\ registry = [blobs |-> {}, manifests |-> {}]
    /\ started = 0 /\ faults = 0
    /\ hurt = {}

Busy(p) == builder[p].outcome = "Running"
Todo(step, file, content) == [step |-> step, file |-> file, content |-> content]
Each(step, descriptors) ==
    [i \in DOMAIN descriptors |-> Todo(step, descriptors[i].digest, descriptors[i].digest)]

\* write_blob for the config and the layers, by the build that made them
WriteBlobs(image) == Each("write", Described(Images[image]))

\* The reads write_oci_layout, push_to_registry and docker_tar_bytes begin
\* with; a layer of another media type ends the operation where it is met.
Accepted(descriptor, config, media) ==
    IF config THEN descriptor.media = "config" ELSE descriptor.media \in media
ReadBlobs(image, media, then) ==
    FlattenSeq([i \in DOMAIN Described(Images[image]) |->
        IF Accepted(Described(Images[image])[i], i = 1, media)
        THEN Each("read", <<Described(Images[image])[i]>>) \o Each(then, <<Described(Images[image])[i]>>)
        ELSE <<Todo("refuse", "", "")>>])

\* What write_oci_layout writes, and in which order
LayoutFiles(image) ==
    <<Todo("write", image, image), Todo("write", "oci-layout", "1"), Todo("write", "index.json", image)>>

\* unpack_uncompressed_base_layer takes uncompressed layers only
PullSteps(image) ==
    IF ~ManifestAccepted(Images[image]) THEN <<Todo("refuse", "", "")>>
    ELSE [i \in DOMAIN Images[image].layers |->
             IF Images[image].layers[i].media = "layer" THEN Each("pull", <<Images[image].layers[i]>>)[1]
             ELSE Todo("refuse", "", "")]

Steps(op, image) ==
    CASE op = "build" -> WriteBlobs(image) \o SelectSeq(ReadBlobs(image, {"layer", "layer+gzip"}, "keep"), LAMBDA t : t.step # "keep")
                         \o LayoutFiles(image)
      [] op = "push" -> ReadBlobs(image, {"layer", "layer+gzip"}, "exists") \o <<Todo("plan", "", "")>>
      [] op = "docker" -> SelectSeq(ReadBlobs(image, {"layer"}, "keep"), LAMBDA t : t.step # "keep")
                          \o <<Todo("write", "docker.tar", image)>>
      [] op = "pull" -> PullSteps(image)

\* A pull starts from the manifest the index has for the platform.
StartImages(op) ==
    IF op = "pull" THEN {d.digest : d \in SelectManifest(Index, Platform)} ELSE DOMAIN Images

\* Every other builder's running operation is from now on not alone.
Disturb(p, b) == [q \in Builders |-> IF q # p THEN [b[q] EXCEPT !.alone = FALSE] ELSE b[q]]

Start(p) ==
    /\ ~Busy(p) /\ started < MaxAttempts
    /\ \E op \in Operations : \E image \in StartImages(op) :
          builder' = Disturb(p, [builder EXCEPT ![p] =
                        [IdleBuilder EXCEPT !.op = op, !.image = image, !.todo = Steps(op, image),
                                            !.alone = \A q \in Builders \ {p} : ~Busy(q),
                                            !.outcome = "Running"]])
    /\ started' = started + 1
    /\ UNCHANGED <<files, registry, faults, hurt>>

\* The last step of an operation ends it.
Done(b) == IF Len(b.todo) = 1 THEN [b EXCEPT !.todo = <<>>, !.outcome = "Ok"]
           ELSE [b EXCEPT !.todo = Tail(@)]
Failed(b) == [b EXCEPT !.todo = <<>>, !.outcome = "Failed"]

Doing(p, step) == Busy(p) /\ Head(builder[p].todo).step = step
Target(p) == Head(builder[p].todo)

WriteSkipsExisting(p) ==
    /\ Doing(p, "write") /\ ~builder[p].writing
    /\ files' = IF Target(p).file \in DOMAIN files THEN files
                ELSE Extend(files, Target(p).file, [content |-> Target(p).content, whole |-> FALSE, by |-> p])
    /\ builder' = [builder EXCEPT ![p] = IF Target(p).file \in DOMAIN files THEN Done(@)
                                         ELSE [@ EXCEPT !.writing = TRUE]]
    /\ UNCHANGED <<registry, started, faults, hurt>>

\* fs::write creates or empties the file
BeginWrite(p) ==
    /\ Doing(p, "write") /\ ~builder[p].writing
    /\ files' = Extend(files, Target(p).file, [content |-> Target(p).content, whole |-> FALSE, by |-> p])
    /\ builder' = [builder EXCEPT ![p].writing = TRUE]
    /\ UNCHANGED <<registry, started, faults, hurt>>

\* What the file holds when a writer has written its last byte.  The writer
\* that emptied it last leaves its content whole, unless another one with
\* other content is still at it; an earlier writer's bytes before the file
\* was emptied are lost.
Writers(file) == {q \in Builders : Doing(q, "write") /\ builder[q].writing /\ Target(q).file = file}
Contents(p, file) ==
    LET mine == [content |-> Target(p).content, whole |-> TRUE, by |-> p]
        mixed == [mine EXCEPT !.whole = FALSE]
        rivals == {q \in Writers(file) \ {p} : Target(q).content # Target(p).content}
    IN IF files[file].by = p THEN {mine} \cup (IF rivals # {} THEN {mixed} ELSE {})
       ELSE {files[file], mine} \cup (IF files[file].content # Target(p).content THEN {mixed} ELSE {})

EndWrite(p) ==
    /\ Doing(p, "write") /\ builder[p].writing
    /\ \E after \in Contents(p, Target(p).file) :
          /\ files' = [files EXCEPT ![Target(p).file] = after]
          /\ hurt' = IF after.whole THEN hurt \ {Target(p).file}
                     ELSE IF Writers(Target(p).file) = {p} THEN hurt \cup {Target(p).file} ELSE hurt
    /\ builder' = [builder EXCEPT ![p] = Done([@ EXCEPT !.writing = FALSE])]
    /\ UNCHANGED <<registry, started, faults>>

\* read_blob: the file is there, with the size and the digest it should have
Readable(file) == file \in DOMAIN files /\ files[file].whole
Bytes(b, file) == [b EXCEPT !.torn = @ \cup (IF files[file].whole THEN {} ELSE {file})]
ReadUnverified(p) ==
    /\ Doing(p, "read")
    /\ builder' = [builder EXCEPT ![p] =
                      IF Target(p).file \in DOMAIN files THEN Done(Bytes(@, Target(p).file)) ELSE Failed(@)]
    /\ UNCHANGED <<files, registry, started, faults, hurt>>
ReadBlob(p) ==
    /\ Doing(p, "read")
    /\ builder' = [builder EXCEPT ![p] =
                      IF Readable(Target(p).file) THEN Done(Bytes(@, Target(p).file)) ELSE Failed(@)]
    /\ UNCHANGED <<files, registry, started, faults, hurt>>

\* A layer or a config of another media type
Refuse(p) ==
    /\ Doing(p, "refuse")
    /\ builder' = [builder EXCEPT ![p] = Failed(@)]
    /\ UNCHANGED <<files, registry, started, faults, hurt>>

\* blob_exists, whose failure ends the push
AskExists(p) ==
    /\ Doing(p, "exists")
    /\ \/ /\ builder' = [builder EXCEPT ![p] = Done([@ EXCEPT !.remote = @ \cup (registry.blobs \cap {Target(p).file})])]
          /\ UNCHANGED faults
       \/ /\ faults < MaxFaults /\ faults' = faults + 1
          /\ builder' = [builder EXCEPT ![p] = [Failed(@) EXCEPT !.alone = FALSE]]
    /\ UNCHANGED <<files, registry, started, hurt>>

\* RegistryPushPlan::from_manifest: the blobs, then the manifest
Plan(p) ==
    /\ Doing(p, "plan")
    /\ LET planned == Uploads(Images[builder[p].image], builder[p].remote)
       IN builder' = [builder EXCEPT ![p].todo =
                         [i \in DOMAIN planned |-> Todo("upload", planned[i], planned[i])]
                         \o <<Todo("manifest", builder[p].image, builder[p].image)>>]
    /\ UNCHANGED <<files, registry, started, faults, hurt>>

\* An upload that succeeds, or fails before or after the registry has it;
\* a failure ends the push.
Send(p, stored) ==
    \/ /\ registry' = stored
       /\ builder' = [builder EXCEPT ![p] = Done(@)]
       /\ UNCHANGED faults
    \/ /\ faults < MaxFaults /\ faults' = faults + 1
       /\ registry' \in {registry, stored}
       /\ builder' = [builder EXCEPT ![p] = [Failed(@) EXCEPT !.alone = FALSE]]
UploadBlob(p) ==
    /\ Doing(p, "upload")
    /\ Send(p, [registry EXCEPT !.blobs = @ \cup
               {IF Target(p).content \in builder[p].torn THEN "damaged" ELSE Target(p).content}])
    /\ UNCHANGED <<files, started, hurt>>
UploadManifest(p) ==
    /\ Doing(p, "manifest")
    /\ Send(p, [registry EXCEPT !.manifests = @ \cup {Target(p).content}])
    /\ UNCHANGED <<files, started, hurt>>

\* VerifiedLayerBlob::new and its unpacking: the bytes that arrive may be
\* damaged, and are taken only when they have the digest of the descriptor
VerifyDescriptorBytes(digest, bytes) == bytes = digest
PullLayer(p) ==
    /\ Doing(p, "pull")
    /\ \E bytes \in {Target(p).content, "damaged"} :
          /\ IF bytes = "damaged" THEN faults < MaxFaults /\ faults' = faults + 1 ELSE UNCHANGED faults
          /\ builder' = [builder EXCEPT ![p] =
                            IF VerifyDescriptorBytes(Target(p).content, bytes)
                            THEN Done([@ EXCEPT !.layers = Append(@, bytes)])
                            ELSE [Failed(@) EXCEPT !.alone = FALSE]]
    /\ UNCHANGED <<files, registry, started, hurt>>

Crash(p) ==
    /\ Busy(p) /\ faults < MaxFaults
    /\ faults' = faults + 1
    /\ hurt' = IF builder[p].writing /\ ~files[Target(p).file].whole /\ Writers(Target(p).file) = {p}
               THEN hurt \cup {Target(p).file} ELSE hurt
    /\ builder' = [builder EXCEPT ![p] = [IdleBuilder EXCEPT !.outcome = "Crashed"]]
    /\ UNCHANGED <<files, registry, started>>

Step(p) ==
    \/ BeginWrite(p) \/ EndWrite(p) \/ ReadBlob(p) \/ Refuse(p) \/ AskExists(p)
    \/ Plan(p) \/ UploadBlob(p) \/ UploadManifest(p) \/ PullLayer(p)
StoreNext == \E p \in Builders : Start(p) \/ Step(p) \/ Crash(p)
-----------------------------------------------------------------------------
(***************************************************************************)
(* Properties.                                                             *)
(***************************************************************************)
ImageFiles(image) == {image} \cup {d.digest : d \in Range(Described(Images[image]))}

\* A file holds what its name says, a running operation has something to do,
\* and whoever writes a file has created it.
StoreTypeOK ==
    /\ \A f \in DOMAIN files \ {"index.json", "oci-layout", "docker.tar"} : files[f].content = f
    /\ \A p \in Builders : /\ Busy(p) <=> builder[p].todo # <<>>
                           /\ builder[p].writing => Target(p).file \in DOMAIN files

\* A manifest the registry has refers only to blobs the registry has, whichever
\* pushes, failed or interrupted ones included, put them there.
PushedImagesAreComplete ==
    \A image \in registry.manifests : \A d \in Range(Described(Images[image])) : d.digest \in registry.blobs

\* Whatever the registry has was whole when it was read: a store left torn by a
\* crash, or caught in the middle of a write, never reaches the registry.
RegistryHoldsWholeBlobs == "damaged" \notin registry.blobs

\* The index of the layout names an image all of whose files are on disk; one
\* that is not whole is being written again, or a crash left it torn.
IndexIsBacked ==
    Readable("index.json") =>
        \A f \in ImageFiles(files["index.json"].content) :
            f \in DOMAIN files /\ (Readable(f) \/ Writers(f) # {} \/ f \in hurt)

\* Running the build of an image again repairs what crashes left: with no other
\* builder about and no new fault it succeeds, and the layout is whole.
Supported(p) == ManifestAccepted(Images[builder[p].image])
RerunRepairsTheLayout ==
    \A p \in Builders :
        builder[p].op = "build" /\ builder[p].alone /\ Supported(p) =>
            /\ builder[p].outcome # "Failed"
            /\ builder[p].outcome = "Ok" =>
                  /\ files["index.json"] = [content |-> builder[p].image, whole |-> TRUE, by |-> p]
                  /\ \A f \in ImageFiles(builder[p].image) : Readable(f)

\* A finished pull has the layers of a manifest for the asked platform, all of
\* them, in order and undamaged.
PulledLayersAreTheManifests ==
    \A p \in Builders :
        builder[p].op = "pull" /\ builder[p].outcome = "Ok" =>
            /\ builder[p].layers = [i \in DOMAIN Images[builder[p].image].layers |->
                                       Images[builder[p].image].layers[i].digest]
            /\ \E i \in DOMAIN Index : /\ Index[i].digest = builder[p].image
                                       /\ Index[i].platform.os = Platform.os
                                       /\ Index[i].platform.arch = Platform.arch

\* Images travel whole, to the registry and back: the three statements above on
\* pushed manifests, pushed blobs and pulled layers.
ImagesTravelWhole == PushedImagesAreComplete /\ RegistryHoldsWholeBlobs /\ PulledLayersAreTheManifests

\* Crashes and concurrent builders leave a layout that a build can mend.
LayoutRecovers == StoreTypeOK /\ IndexIsBacked /\ RerunRepairsTheLayout
=============================================================================
