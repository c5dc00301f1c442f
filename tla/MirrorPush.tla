---------------------------- MODULE MirrorPush -----------------------------
(***************************************************************************)
(* `fornax push` and `fornax verify` on one mirror prefix: Pull, Push,     *)
(* writeManifest and Verify of internal/mirror/mirror.go over the Store of *)
(* internal/mirror/store.go.                                               *)
(*                                                                         *)
(* Several operators push the same pinned revision, each from a scratch    *)
(* directory of its own, fail and crash at any step and run the command    *)
(* again; a verifier reads the prefix at the same time.  Contents are told *)
(* apart as the code does, by presence, size and hash: the hub's bytes     *)
(* ("good"), other bytes of the same size ("wrong"), fewer bytes           *)
(* ("short"), none ("absent").  The hub publishes a hash for the LFS files *)
(* only.                                                                   *)
(***************************************************************************)
EXTENDS Naturals

CONSTANTS
    Pushers,     \* runs of `fornax push` of one pinned revision
    NFiles,      \* number of files of the hub tree, in its order
    LFS,         \* the files the hub publishes a hash for
    Leftovers,   \* what may lie in a scratch directory before the first run
    Objects,     \* what may lie under an unpublished prefix
    Downloads,   \* the contents a failing `hf download` may leave in a file
    MaxFaults,   \* bound on failures and crashes of one behaviour
    MaxRot,      \* bound on the objects the store damages
    NoManifest   \* the prefix has no _manifest.json

Files    == 1 .. NFiles
Content  == {"good", "wrong", "short", "absent"}
FullSize == {"good", "wrong"}

ASSUME FilesAssumption   == NFiles \in Nat \ {0} /\ LFS \subseteq Files
ASSUME ContentAssumption == /\ Leftovers \subseteq Content
                            /\ Objects \subseteq Content
                            /\ Downloads \subseteq Content
ASSUME BoundAssumption   == MaxFaults \in Nat /\ MaxRot \in Nat
ASSUME ManifestAssumption == NoManifest \notin [Files -> FullSize]

VARIABLES
    pc,        \* where each pusher is
    idx,       \* idx[p]: the file of the pusher's current loop
    scratch,   \* scratch[p][f]: the file in the pusher's --dir
    entry,     \* entry[p][f]: the hash verifyLocal recorded for f
    store,     \* store[f]: the object under the prefix
    manifest,  \* the hashes _manifest.json lists, or NoManifest
    reader,    \* the verifier: its manifest, its file and its last verdict
    faults,    \* failures and crashes so far
    rot        \* damaged objects so far

pushVars  == <<pc, idx, scratch, entry>>
storeVars == <<store, manifest>>
vars == <<pc, idx, scratch, entry, store, manifest, reader, faults, rot>>

Locations == {"idle", "verify", "download", "reverify", "size", "hash", "put", "manifest"}
Verdicts  == {"none", "reading", "ok", "bad"}
Manifests == [Files -> FullSize] \union {NoManifest}

TypeOK ==
    /\ pc \in [Pushers -> Locations]
    /\ idx \in [Pushers -> Files]
    /\ scratch \in [Pushers -> [Files -> Content]]
    /\ entry \in [Pushers -> [Files -> FullSize]]
    /\ store \in [Files -> Content]
    /\ manifest \in Manifests
    /\ reader \in [read : Manifests, file : Files, verdict : Verdicts]
    /\ faults \in 0 .. MaxFaults
    /\ rot \in 0 .. MaxRot

Init ==
    /\ pc = [p \in Pushers |-> "idle"]
    /\ idx = [p \in Pushers |-> 1]
    /\ scratch \in [Pushers -> [Files -> Leftovers]]
    /\ entry = [p \in Pushers |-> [f \in Files |-> "good"]]
    /\ store \in [Files -> Objects]
    /\ manifest = NoManifest
    /\ reader = [read |-> NoManifest, file |-> 1, verdict |-> "none"]
    /\ faults = 0
    /\ rot = 0

-----------------------------------------------------------------------------
Goto(p, l) == pc' = [pc EXCEPT ![p] = l]

Fault == faults < MaxFaults /\ faults' = faults + 1

\* Mutant of Accepts: the tree's hash is not compared.
AcceptsSize(f, c) == c \in FullSize

\* What verifyLocal requires of a local file: the tree's size, and the
\* tree's hash where there is one.
Accepts(f, c) == c \in FullSize /\ (f \in LFS => c = "good")

\* Mutant of NextFile: the loop does not end.
NextFileUnbounded(p, at, after) == /\ idx' = [idx EXCEPT ![p] = @ + 1]
                                   /\ Goto(p, at)

\* To the next file of a loop at `at`, or on to `after` with the loop done.
NextFile(p, at, after) ==
    \/ /\ idx[p] < NFiles
       /\ idx' = [idx EXCEPT ![p] = @ + 1]
       /\ Goto(p, at)
    \/ /\ idx[p] = NFiles
       /\ idx' = [idx EXCEPT ![p] = 1]
       /\ Goto(p, after)

-----------------------------------------------------------------------------
\* The command is run (again): Resolve, Tree and CheckPolicy succeed.
StartPush(p) ==
    /\ pc[p] = "idle"
    /\ idx' = [idx EXCEPT ![p] = 1]
    /\ Goto(p, "verify")
    /\ UNCHANGED <<scratch, entry, storeVars, reader, faults, rot>>

\* verifyLocal, one file: accepted, its local hash becomes the entry's.
LocalMatches(p) ==
    /\ pc[p] \in {"verify", "reverify"}
    /\ Accepts(idx[p], scratch[p][idx[p]])
    /\ entry' = [entry EXCEPT ![p][idx[p]] = scratch[p][idx[p]]]
    /\ NextFile(p, pc[p], "size")
    /\ UNCHANGED <<scratch, storeVars, reader, faults, rot>>

\* verifyLocal refuses the file: Pull downloads, or gives up after having
\* downloaded ("post-download verification").
LocalDiffers(p) ==
    /\ pc[p] \in {"verify", "reverify"}
    /\ ~ Accepts(idx[p], scratch[p][idx[p]])
    /\ Goto(p, IF pc[p] = "verify" THEN "download" ELSE "idle")
    /\ UNCHANGED <<idx, scratch, entry, storeVars, reader, faults, rot>>

\* `hf download` replaces a file that is not the revision's.
HfFetches(p, f) ==
    /\ pc[p] = "download"
    /\ scratch[p][f] # "good"
    /\ scratch' = [scratch EXCEPT ![p][f] = "good"]
    /\ UNCHANGED <<pc, idx, entry, storeVars, reader, faults, rot>>

\* ... or leaves something else in its place.
HfDamages(p, f) ==
    /\ pc[p] = "download"
    /\ scratch[p][f] # "good"
    /\ Fault
    /\ \E c \in Downloads : scratch' = [scratch EXCEPT ![p][f] = c]
    /\ UNCHANGED <<pc, idx, entry, storeVars, reader, rot>>

\* Mutant of HfExits: the downloader's exit status is trusted.
HfExitsTrusted(p) ==
    /\ pc[p] = "download"
    /\ \/ (\A f \in Files : Accepts(f, scratch[p][f])) /\ UNCHANGED faults
       \/ Fault
    /\ idx' = [idx EXCEPT ![p] = 1]
    /\ Goto(p, "size")
    /\ UNCHANGED <<scratch, entry, storeVars, reader, rot>>

\* It exits 0: with every file in place, or wrongly with some missing.
HfExits(p) ==
    /\ pc[p] = "download"
    /\ \/ (\A f \in Files : Accepts(f, scratch[p][f])) /\ UNCHANGED faults
       \/ Fault
    /\ idx' = [idx EXCEPT ![p] = 1]
    /\ Goto(p, "reverify")
    /\ UNCHANGED <<scratch, entry, storeVars, reader, rot>>

\* Mutant of SizeMatches: an object of the right size counts as present.
SizeSuffices(p) ==
    /\ pc[p] = "size"
    /\ store[idx[p]] \in FullSize
    /\ NextFile(p, "size", "manifest")
    /\ UNCHANGED <<scratch, entry, storeVars, reader, faults, rot>>

\* store.Size: an object of another size, or none, is uploaded unhashed.
SizeMatches(p) ==
    /\ pc[p] = "size"
    /\ store[idx[p]] \in FullSize
    /\ Goto(p, "hash")
    /\ UNCHANGED <<idx, scratch, entry, storeVars, reader, faults, rot>>

SizeDiffers(p) ==
    /\ pc[p] = "size"
    /\ store[idx[p]] \notin FullSize
    /\ Goto(p, "put")
    /\ UNCHANGED <<idx, scratch, entry, storeVars, reader, faults, rot>>

\* store.SHA256: "already present, skipping", or "content differs, replacing".
HashMatches(p) ==
    /\ pc[p] = "hash"
    /\ store[idx[p]] = entry[p][idx[p]]
    /\ NextFile(p, "size", "manifest")
    /\ UNCHANGED <<scratch, entry, storeVars, reader, faults, rot>>

\* Mutant of HashDiffers: a divergent object is left as it is.
HashIgnored(p) ==
    /\ pc[p] = "hash"
    /\ store[idx[p]] # entry[p][idx[p]]
    /\ NextFile(p, "size", "manifest")
    /\ UNCHANGED <<scratch, entry, storeVars, reader, faults, rot>>

HashDiffers(p) ==
    /\ pc[p] = "hash"
    /\ store[idx[p]] # entry[p][idx[p]]
    /\ Goto(p, "put")
    /\ UNCHANGED <<idx, scratch, entry, storeVars, reader, faults, rot>>

\* store.Put: a temporary file and a rename, or one S3 object.
Put(p) ==
    /\ pc[p] = "put"
    /\ store' = [store EXCEPT ![idx[p]] = scratch[p][idx[p]]]
    /\ NextFile(p, "size", "manifest")
    /\ UNCHANGED <<scratch, entry, manifest, reader, faults, rot>>

\* writeManifest, after the last file.
WriteManifest(p) ==
    /\ pc[p] = "manifest"
    /\ manifest' = entry[p]
    /\ Goto(p, "idle")
    /\ UNCHANGED <<idx, scratch, entry, store, reader, faults, rot>>

\* An error return of any call, or the process dies.
Abort(p) ==
    /\ pc[p] # "idle"
    /\ Fault
    /\ Goto(p, "idle")
    /\ UNCHANGED <<idx, scratch, entry, storeVars, reader, rot>>

-----------------------------------------------------------------------------
\* `fornax verify` reads the manifest.
ReadManifest ==
    /\ reader.verdict # "reading"
    /\ manifest # NoManifest
    /\ reader' = [read |-> manifest, file |-> 1, verdict |-> "reading"]
    /\ UNCHANGED <<pushVars, storeVars, faults, rot>>

\* Verify hashes one object against the manifest it has read.
VerifyFile ==
    /\ reader.verdict = "reading"
    /\ LET f == reader.file IN
         \/ /\ store[f] # reader.read[f]
            /\ reader' = [reader EXCEPT !.verdict = "bad"]
         \/ /\ store[f] = reader.read[f]
            /\ f < NFiles
            /\ reader' = [reader EXCEPT !.file = f + 1]
         \/ /\ store[f] = reader.read[f]
            /\ f = NFiles
            /\ reader' = [reader EXCEPT !.verdict = "ok"]
    /\ UNCHANGED <<pushVars, storeVars, faults, rot>>

\* The store damages an object.
Rot(f) ==
    /\ rot < MaxRot
    /\ rot' = rot + 1
    /\ store[f] = "good"
    /\ store' = [store EXCEPT ![f] = "wrong"]
    /\ UNCHANGED <<pushVars, manifest, reader, faults>>

\* The steps of a push that has its tree.
Work(p) ==
    \/ LocalMatches(p) \/ LocalDiffers(p)
    \/ \E f \in Files : HfFetches(p, f)
    \/ HfExits(p) \/ SizeMatches(p) \/ SizeDiffers(p) \/ HashMatches(p)
    \/ HashDiffers(p) \/ Put(p) \/ WriteManifest(p)

Run(p) == StartPush(p) \/ Work(p)

Next ==
    \/ \E p \in Pushers : \/ StartPush(p)
                          \/ LocalMatches(p)
                          \/ LocalDiffers(p)
                          \/ \E f \in Files : HfFetches(p, f) \/ HfDamages(p, f)
                          \/ HfExits(p)
                          \/ SizeMatches(p)
                          \/ SizeDiffers(p)
                          \/ HashMatches(p)
                          \/ HashDiffers(p)
                          \/ Put(p)
                          \/ WriteManifest(p)
                          \/ Abort(p)
    \/ ReadManifest
    \/ VerifyFile
    \/ \E f \in Files : Rot(f)

Spec == Init /\ [][Next]_vars

\* A command that runs keeps going, and operators keep running it: a mirror
\* is repaired by repeating the push, not by itself.
FairSpec == Spec /\ \A p \in Pushers : WF_vars(Run(p))

-----------------------------------------------------------------------------
Published == manifest # NoManifest

\* A published mirror holds the hub's bytes of every file the hub has a hash
\* for, however many pushes run, fail, crash and are repeated around it, until
\* the store damages one (Push "writes _manifest.json last"; verifyLocal
\* compares the LFS hashes).
HashedFilesMirrored ==
    rot = 0 /\ Published => \A f \in LFS : manifest[f] = "good" /\ store[f] = "good"

\* A push that succeeds leaves a prefix that its own manifest describes, what-
\* ever the prefix and the scratch directory held and however often it failed
\* before, as long as no other push interferes and the store damages nothing:
\* skipping and replacing (Push) go by the same hashes writeManifest publishes.
PushLeavesItsManifest ==
    [][rot' = 0 /\ manifest' # manifest => \A f \in Files : store'[f] = manifest'[f]]_vars

\* A verifier that reads a prefix while pushes of the same revision run never
\* reports damage unless the store has damaged an object (Verify).
NoFalseAlarm == reader.verdict = "bad" => rot > 0

\* The object is the one the manifest lists, and the hub's where it has a hash.
Described(f) == store[f] = manifest[f] /\ (f \in LFS => store[f] = "good")

\* Push is the repair path: an object the store damaged, the size unchanged,
\* is replaced by the pushes that follow ("Content is the identity, not
\* size"), and so is whatever an interrupted mirror left behind; in the end the
\* manifest describes the prefix, with the hub's bytes where it has a hash.
Repaired == <>[](Published /\ \A f \in Files : Described(f))

\* The prefix implements FrozenStore: its objects do until the store damages
\* one, and what its manifest vouches for does for good.
Frozen == INSTANCE FrozenStore WITH
    Revision    <- [f \in Files |-> "good"],
    Unpublished <- NoManifest,
    mirror      <- IF Published /\ rot = 0 THEN store ELSE manifest

ImplementsFrozenStore == Frozen!Spec

-----------------------------------------------------------------------------
\* The inductive invariant behind HashedFilesMirrored.  Recorded: the entries
\* stand for the scratch directory as it still is, and were accepted.  Uploaded:
\* the hashed files a push has passed are in the store, as long as the store
\* damages nothing.
Recorded ==
    \A p \in Pushers, f \in Files :
        \/ pc[p] \in {"verify", "reverify"} /\ f < idx[p]
        \/ pc[p] \in {"size", "hash", "put", "manifest"}
        => entry[p][f] = scratch[p][f] /\ Accepts(f, entry[p][f])

Uploaded ==
    rot = 0 => \A p \in Pushers, f \in LFS :
        \/ pc[p] \in {"size", "hash", "put"} /\ f < idx[p]
        \/ pc[p] = "manifest"
        => store[f] = "good"

\* What the verifier read was published.
ReadPublished ==
    rot = 0 /\ reader.verdict # "none" =>
        /\ reader.read \in [Files -> FullSize]
        /\ Published
        /\ \A f \in LFS : reader.read[f] = "good"

PushInv == TypeOK /\ Recorded /\ Uploaded /\ HashedFilesMirrored /\ ReadPublished
=============================================================================
