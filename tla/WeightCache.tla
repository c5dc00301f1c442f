---------------------------- MODULE WeightCache ----------------------------
(***************************************************************************)
(* The nvme-cache of one host: pods that start on it stage the artifacts   *)
(* they need (PrepareWeights, then PrepareDraft) into a shared directory   *)
(* per artifact, under an flock on that directory, and hand the verified   *)
(* directory to an engine.  internal/runtime/prep.go, with Get of          *)
(* internal/mirror/store.go and ReadManifest of internal/mirror/mirror.go. *)
(*                                                                         *)
(* A file's content is told apart only as far as fileMatches does: the     *)
(* bytes the manifest names ("good"), other bytes of the same size         *)
(* ("wrong"), fewer bytes ("short"), no file ("absent").  Engines read     *)
(* the files of the directory they were handed for as long as they run.    *)
(***************************************************************************)
EXTENDS Naturals, Sequences

CONSTANTS
    Pods,        \* the serving processes of one host
    Artifacts,   \* artifact directories: <cacheRoot>/<repo>/<revision>
    NFiles,      \* number of files a manifest lists, in its order 1..NFiles
    Needs,       \* Needs[p]: the artifacts pod p stages, in order
    Leftovers,   \* what earlier runs may have left on the host's disk
    Objects,     \* what the store may hold under a manifest's paths
    FlakyReads,  \* whether stat, open or read of a present file may fail
    MaxFaults,   \* bound on the faults and stops of one behaviour
    Nobody       \* the holder of a free lock

Files   == 1 .. NFiles
Content == {"good", "wrong", "short", "absent"}

ASSUME NFilesAssumption   == NFiles \in Nat \ {0}
ASSUME NeedsAssumption    == Needs \in [Pods -> Seq(Artifacts)]
ASSUME ContentAssumption  == Leftovers \subseteq Content /\ Objects \subseteq Content
ASSUME FaultAssumption    == FlakyReads \in BOOLEAN /\ MaxFaults \in Nat
ASSUME NobodyAssumption   == Nobody \notin Pods

VARIABLES
    pc,         \* where each pod is in Serve
    stage,      \* stage[p]: which entry of Needs[p] is being staged
    idx,        \* idx[p]: the file of the loop over sm.Files
    holder,     \* holder[a]: the pod holding the flock of a, or Nobody
    cache,      \* cache[a][f]: the content of the file in the cache
    object,     \* object[a][f]: the content of the store's object
    published,  \* the artifacts whose _manifest.json is in the store
    faults      \* faults and stops so far

vars == <<pc, stage, idx, holder, cache, object, published, faults>>

Locations == {"down", "lock", "manifest", "check", "get", "copy", "recheck", "serving"}

\* The part of prepareArtifact that runs between lockDir and unlock.
Locked == {"manifest", "check", "get", "copy", "recheck"}

TypeOK ==
    /\ pc \in [Pods -> Locations]
    /\ stage \in [Pods -> Nat \ {0}]
    /\ idx \in [Pods -> Files]
    /\ holder \in [Artifacts -> Pods \union {Nobody}]
    /\ cache \in [Artifacts -> [Files -> Content]]
    /\ object \in [Artifacts -> [Files -> Content]]
    /\ published \in SUBSET Artifacts
    /\ faults \in 0 .. MaxFaults

Init ==
    /\ pc = [p \in Pods |-> "down"]
    /\ stage = [p \in Pods |-> 1]
    /\ idx = [p \in Pods |-> 1]
    /\ holder = [a \in Artifacts |-> Nobody]
    /\ cache \in [Artifacts -> [Files -> Leftovers]]
    /\ object \in [Artifacts -> [Files -> Objects]]
    /\ published \in SUBSET Artifacts
    /\ faults = 0

-----------------------------------------------------------------------------
\* The directory pod p is staging, its current file there and in the store.
Dir(p)    == Needs[p][stage[p]]
Local(p)  == cache[Dir(p)][idx[p]]
Remote(p) == object[Dir(p)][idx[p]]

Goto(p, l) == pc' = [pc EXCEPT ![p] = l]

Write(p, c) == cache' = [cache EXCEPT ![Dir(p)][idx[p]] = c]

Fault == faults < MaxFaults /\ faults' = faults + 1

\* Every exit from prepareArtifact after lockDir runs the deferred unlock.
Unlock(p) == holder' = [holder EXCEPT ![Dir(p)] = Nobody]

\* Mutant of Fail: the error returns run no deferred unlock.
FailKeepsLock(p) == /\ Goto(p, "down")
                    /\ UNCHANGED <<stage, idx, holder>>

\* An error from PrepareWeights or PrepareDraft ends Serve and the process.
Fail(p) == /\ Goto(p, "down")
           /\ Unlock(p)
           /\ UNCHANGED <<stage, idx>>

\* Serve's next step once s - 1 artifacts are staged: the next artifact, or
\* the engine.  A pod that streams its weights and has no separate draft
\* head needs no artifact and goes straight to its engine.
Prepare(p, s) ==
    /\ stage' = [stage EXCEPT ![p] = s]
    /\ Goto(p, IF s <= Len(Needs[p]) THEN "lock" ELSE "serving")

\* Mutant of FileReady: the loop over sm.Files does not end.
FileReadyUnbounded(p) ==
    /\ idx' = [idx EXCEPT ![p] = @ + 1]
    /\ Goto(p, "check")
    /\ UNCHANGED <<stage, holder>>

\* ensureFile returned nil: the next file of the loop, or the end of it.
FileReady(p) ==
    \/ /\ idx[p] < NFiles
       /\ idx' = [idx EXCEPT ![p] = @ + 1]
       /\ Goto(p, "check")
       /\ UNCHANGED <<stage, holder>>
    \/ /\ idx[p] = NFiles
       /\ Unlock(p)
       /\ Prepare(p, stage[p] + 1)
       /\ UNCHANGED idx

-----------------------------------------------------------------------------
\* A process starts, or is started again by systemd or the kubelet.
Start(p) ==
    /\ pc[p] = "down"
    /\ Prepare(p, 1)
    /\ UNCHANGED <<idx, holder, cache, object, published, faults>>

\* Mutant of AcquireLock: the flock is taken shared.
AcquireShared(p) ==
    /\ pc[p] = "lock"
    /\ holder' = [holder EXCEPT ![Dir(p)] = p]
    /\ Goto(p, "manifest")
    /\ UNCHANGED <<stage, idx, cache, object, published, faults>>

\* MkdirAll and the flock succeed; the wait for a held flock is the guard.
AcquireLock(p) ==
    /\ pc[p] = "lock"
    /\ holder[Dir(p)] = Nobody
    /\ holder' = [holder EXCEPT ![Dir(p)] = p]
    /\ Goto(p, "manifest")
    /\ UNCHANGED <<stage, idx, cache, object, published, faults>>

\* MkdirAll, the open of .lock or the flock fails: nothing is held yet.
LockFails(p) ==
    /\ pc[p] = "lock"
    /\ Fault
    /\ Goto(p, "down")
    /\ UNCHANGED <<stage, idx, holder, cache, object, published>>

\* mirror.ReadManifest, and the loop starts at the first file.
ReadManifest(p) ==
    /\ pc[p] = "manifest"
    /\ Dir(p) \in published
    /\ idx' = [idx EXCEPT ![p] = 1]
    /\ Goto(p, "check")
    /\ UNCHANGED <<stage, holder, cache, object, published, faults>>

\* "mirror incomplete or absent": no manifest yet, or its Get failed.
ReadManifestFails(p) ==
    /\ pc[p] = "manifest"
    /\ \/ Dir(p) \notin published /\ UNCHANGED faults
       \/ Fault
    /\ Fail(p)
    /\ UNCHANGED <<cache, object, published>>

\* Mutant of CheckHit: a cached file of the right size is not hashed.
CheckHitBySize(p) ==
    /\ pc[p] = "check"
    /\ Local(p) \in {"good", "wrong"}
    /\ FileReady(p)
    /\ UNCHANGED <<cache, object, published, faults>>

\* The first fileMatches of ensureFile: size, then hash.
CheckHit(p) ==
    /\ pc[p] = "check"
    /\ Local(p) = "good"
    /\ FileReady(p)
    /\ UNCHANGED <<cache, object, published, faults>>

CheckMiss(p) ==
    /\ pc[p] = "check"
    /\ Local(p) # "good"
    /\ Goto(p, "get")
    /\ UNCHANGED <<stage, idx, holder, cache, object, published, faults>>

\* `if ok, _ := fileMatches(...)`: an error of the check reads as a miss.
CheckError(p) ==
    /\ pc[p] = "check"
    /\ FlakyReads
    /\ Local(p) # "absent"
    /\ Fault
    /\ Goto(p, "get")
    /\ UNCHANGED <<stage, idx, holder, cache, object, published>>

\* store.Get opens the object, then creates the local file: an existing
\* file is truncated in place.
GetCreates(p) ==
    /\ pc[p] = "get"
    /\ Remote(p) # "absent"
    /\ Write(p, "short")
    /\ Goto(p, "copy")
    /\ UNCHANGED <<stage, idx, holder, object, published, faults>>

\* The object is absent or cannot be opened: the local file is untouched.
GetOpenFails(p) ==
    /\ pc[p] = "get"
    /\ \/ Remote(p) = "absent" /\ UNCHANGED faults
       \/ Fault
    /\ Fail(p)
    /\ UNCHANGED <<cache, object, published>>

\* io.Copy and Close succeed: the local file is the object.
GetCopies(p) ==
    /\ pc[p] = "copy"
    /\ Write(p, Remote(p))
    /\ Goto(p, "recheck")
    /\ UNCHANGED <<stage, idx, holder, object, published, faults>>

\* io.Copy or Close reports an error: what was written stays.
GetCopyFails(p) ==
    /\ pc[p] = "copy"
    /\ Fault
    /\ \E c \in {"short", Remote(p)} : Write(p, c)
    /\ Fail(p)
    /\ UNCHANGED <<object, published>>

\* Mutant of RecheckHit: a completed download is trusted.
RecheckTrusted(p) ==
    /\ pc[p] = "recheck"
    /\ FileReady(p)
    /\ UNCHANGED <<cache, object, published, faults>>

\* The second fileMatches of ensureFile.
RecheckHit(p) ==
    /\ pc[p] = "recheck"
    /\ Local(p) = "good"
    /\ FileReady(p)
    /\ UNCHANGED <<cache, object, published, faults>>

\* "hash mismatch after download", or an error of the check itself.
RecheckFails(p) ==
    /\ pc[p] = "recheck"
    /\ \/ Local(p) # "good" /\ UNCHANGED faults
       \/ FlakyReads /\ Fault
    /\ Fail(p)
    /\ UNCHANGED <<cache, object, published>>

\* The process dies, or a serving one is stopped: the kernel closes its
\* descriptors and with them the flock; the files stay as they are.
Crash(p) ==
    /\ pc[p] # "down"
    /\ Fault
    /\ Goto(p, "down")
    /\ holder' = [a \in Artifacts |-> IF holder[a] = p THEN Nobody ELSE holder[a]]
    /\ UNCHANGED <<stage, idx, cache, object, published>>

\* A push completes elsewhere: _manifest.json appears, its objects in place.
Publish(a) ==
    /\ a \notin published
    /\ published' = published \union {a}
    /\ UNCHANGED <<pc, stage, idx, holder, cache, object, faults>>

\* Serve blocks in its select while the engine runs.
Running ==
    /\ \A p \in Pods : pc[p] = "serving"
    /\ UNCHANGED vars

Step(p) ==
    \/ Start(p) \/ AcquireLock(p) \/ ReadManifest(p) \/ ReadManifestFails(p)
    \/ CheckHit(p) \/ CheckMiss(p) \/ GetCreates(p) \/ GetOpenFails(p)
    \/ GetCopies(p) \/ RecheckHit(p) \/ RecheckFails(p)

Next ==
    \/ \E p \in Pods : \/ Start(p)
                       \/ AcquireLock(p)
                       \/ LockFails(p)
                       \/ ReadManifest(p)
                       \/ ReadManifestFails(p)
                       \/ CheckHit(p)
                       \/ CheckMiss(p)
                       \/ CheckError(p)
                       \/ GetCreates(p)
                       \/ GetOpenFails(p)
                       \/ GetCopies(p)
                       \/ GetCopyFails(p)
                       \/ RecheckHit(p)
                       \/ RecheckFails(p)
                       \/ Crash(p)
    \/ \E a \in Artifacts : Publish(a)
    \/ Running

Spec == Init /\ [][Next]_vars

\* A running process keeps executing and a dead one is restarted; a push
\* that is under way completes.
Fairness == /\ \A p \in Pods : WF_vars(Step(p))
            /\ \A a \in Artifacts : WF_vars(Publish(a))

FairSpec == Spec /\ Fairness

-----------------------------------------------------------------------------
Complete(a) == \A f \in Files : cache[a][f] = "good"

\* An engine only ever reads verified weights: as long as a pod serves, every
\* file of every artifact it was launched on has the manifest's bytes, however
\* many other pods stage, fail and crash in the same directories
\* (PrepareWeights, PrepareDraft).
ServedIntact ==
    \A p \in Pods : pc[p] = "serving" =>
        \A i \in 1 .. Len(Needs[p]) : Complete(Needs[p][i])

\* The flock serializes staging: two pods are never inside prepareArtifact on
\* the same directory (lockDir: "concurrent pods on one node share the cache
\* without racing").
Serialized ==
    \A p, q \in Pods :
        p # q /\ pc[p] \in Locked /\ pc[q] \in Locked => Dir(p) # Dir(q)

\* "Idempotent - verified files are not re-fetched" (PrepareWeights): a file
\* that has the manifest's bytes is never written again, not even truncated
\* on the way to being replaced by the same bytes.
VerifiedNotRefetched ==
    [][\A a \in Artifacts, f \in Files :
            cache[a][f] = "good" => cache'[a][f] = "good"]_vars

\* Whatever earlier runs left on disk, and after finitely many faults, every
\* pod serves, once the store holds what its manifests say (ensureFile is the
\* repair of a damaged cache; a dead pod's lock does not wedge the others).
EveryPodServes == \A p \in Pods : <>[](pc[p] = "serving")

\* The cache implements the shared artifacts its engines rely on.
Frozen == INSTANCE SharedArtifact WITH
    Uses     <- [p \in Pods |-> {Needs[p][i] : i \in 1 .. Len(Needs[p])}],
    complete <- {a \in Artifacts : Complete(a)},
    engines  <- {p \in Pods : pc[p] = "serving"}

\* Every step of the cache is a step of SharedArtifact or leaves it alone.
ImplementsSharedArtifact == Frozen!Spec
-----------------------------------------------------------------------------
\* The inductive invariant behind ServedIntact, Serialized and
\* VerifiedNotRefetched, in two layers.  The first says where a pod is and
\* that being inside prepareArtifact means holding the flock.
InBounds ==
    \A p \in Pods :
        /\ pc[p] \in Locked \union {"lock"} => stage[p] \in 1 .. Len(Needs[p])
        /\ pc[p] = "serving" => stage[p] = Len(Needs[p]) + 1

Holding == \A p \in Pods : pc[p] \in Locked => holder[Dir(p)] = p

LockInv == TypeOK /\ InBounds /\ Holding

\* The second, which needs reliable reads, says what a pod knows about the
\* files: those before its loop index are good, the one it is about to
\* overwrite is not, and the artifacts it staged before are complete.
Prefix ==
    \A p \in Pods : pc[p] \in {"check", "get", "copy", "recheck"} =>
        \A f \in 1 .. idx[p] - 1 : cache[Dir(p)][f] = "good"

Missed == \A p \in Pods : pc[p] \in {"get", "copy"} => Local(p) # "good"

Staged ==
    \A p \in Pods : pc[p] # "down" =>
        \A i \in 1 .. stage[p] - 1 : Complete(Needs[p][i])

DataInv == Prefix /\ Missed /\ Staged
=============================================================================
