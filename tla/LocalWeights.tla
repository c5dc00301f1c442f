--------------------------- MODULE LocalWeights ----------------------------
(***************************************************************************)
(* A weight directory served in place (`load: local`): serving processes   *)
(* that verify it against its own _manifest.json under its flock           *)
(* (verifyInPlace, internal/runtime/prep.go), and operators that run       *)
(* `fornax pull` and `fornax freeze` on it (Pull and Freeze,               *)
(* internal/mirror/mirror.go), which take no lock.                         *)
(*                                                                         *)
(* Contents as in MirrorPush: the hub's bytes ("good"), other bytes of the *)
(* same size ("wrong"), fewer bytes ("short"), none ("absent"); the hub    *)
(* publishes a hash for the LFS files only.                                *)
(***************************************************************************)
EXTENDS Naturals

CONSTANTS
    Servers,     \* the processes that serve the directory
    Operators,   \* shells in which pull and freeze are run
    NFiles,      \* number of files, in the order of the tree
    LFS,         \* the files the hub publishes a hash for
    OnDisk,      \* what the directory may hold at first
    MaxFaults,   \* bound on failures, crashes and stops
    NoManifest,  \* the directory has no _manifest.json
    Nobody       \* the holder of a free lock

Files    == 1 .. NFiles
Content  == {"good", "wrong", "short", "absent"}
FullSize == {"good", "wrong"}

\* Manifests freeze can have written: the hub's hash where there is one.
Frozen == {m \in [Files -> FullSize] : \A f \in LFS : m[f] = "good"}

ASSUME FilesAssumption == NFiles \in Nat \ {0} /\ LFS \subseteq Files
ASSUME OtherAssumption == /\ OnDisk \subseteq Content
                          /\ MaxFaults \in Nat
                          /\ NoManifest \notin Frozen
                          /\ Nobody \notin Servers
                          /\ Servers \intersect Operators = {}

VARIABLES
    pc,        \* where each server and each operator is
    idx,       \* the file of its current loop
    known,     \* the manifest a server has read, the entries a freeze collects
    holder,    \* the server that holds the flock, or Nobody
    dir,       \* dir[f]: the file in the directory
    manifest,  \* what _manifest.json in the directory lists, or NoManifest
    faults     \* failures, crashes and stops so far

vars == <<pc, idx, known, holder, dir, manifest, faults>>

ServerAt   == {"down", "lock", "manifest", "check", "serving"}
OperatorAt == {"idle", "verify", "download", "reverify", "collect", "write"}
Procs      == Servers \union Operators

TypeOK ==
    /\ pc \in [Procs -> ServerAt \union OperatorAt]
    /\ idx \in [Procs -> Files]
    /\ known \in [Procs -> [Files -> FullSize]]
    /\ holder \in Servers \union {Nobody}
    /\ dir \in [Files -> Content]
    /\ manifest \in Frozen \union {NoManifest}
    /\ faults \in 0 .. MaxFaults

Init ==
    /\ pc = [s \in Procs |-> IF s \in Servers THEN "down" ELSE "idle"]
    /\ idx = [s \in Procs |-> 1]
    /\ known = [s \in Procs |-> [f \in Files |-> "good"]]
    /\ holder = Nobody
    /\ dir \in [Files -> OnDisk]
    /\ manifest \in Frozen \union {NoManifest}
    /\ faults = 0

-----------------------------------------------------------------------------
Goto(s, l) == pc' = [pc EXCEPT ![s] = l]

Fault == faults < MaxFaults /\ faults' = faults + 1

FirstFile(s) == idx' = [idx EXCEPT ![s] = 1]

\* Mutant of NextFile: the loop does not end.
NextFileUnbounded(s, at, after) == /\ idx' = [idx EXCEPT ![s] = @ + 1]
                                   /\ Goto(s, at)

\* To the next file of a loop at `at`, or on to `after` with the loop done.
NextFile(s, at, after) ==
    \/ /\ idx[s] < NFiles
       /\ idx' = [idx EXCEPT ![s] = @ + 1]
       /\ Goto(s, at)
    \/ /\ idx[s] = NFiles
       /\ FirstFile(s)
       /\ Goto(s, after)

\* What verifyLocal requires of a file.
Accepts(f, c) == c \in FullSize /\ (f \in LFS => c = "good")

-----------------------------------------------------------------------------
\* Servers.  The directory exists; a process starts or is started again.
Start(s) ==
    /\ pc[s] = "down"
    /\ Goto(s, "lock")
    /\ UNCHANGED <<idx, known, holder, dir, manifest, faults>>

AcquireLock(s) ==
    /\ pc[s] = "lock"
    /\ holder = Nobody
    /\ holder' = s
    /\ Goto(s, "manifest")
    /\ UNCHANGED <<idx, known, dir, manifest, faults>>

ReadManifest(s) ==
    /\ pc[s] = "manifest"
    /\ manifest # NoManifest
    /\ known' = [known EXCEPT ![s] = manifest]
    /\ FirstFile(s)
    /\ Goto(s, "check")
    /\ UNCHANGED <<holder, dir, manifest, faults>>

\* Mutant of Fail: the error returns run no deferred unlock.
FailKeepsLock(s) == Goto(s, "down") /\ UNCHANGED holder

\* The launch fails, and the deferred unlock runs.
Fail(s) == Goto(s, "down") /\ holder' = Nobody

ReadManifestFails(s) ==
    /\ pc[s] = "manifest"
    /\ \/ manifest = NoManifest /\ UNCHANGED faults
       \/ Fault
    /\ Fail(s)
    /\ UNCHANGED <<idx, known, dir, manifest>>

\* Mutant of CheckHit: a file of the right size is not hashed.
CheckHitBySize(s) ==
    /\ pc[s] = "check"
    /\ dir[idx[s]] \in FullSize
    /\ NextFile(s, "check", "serving")
    /\ holder' = IF idx[s] = NFiles THEN Nobody ELSE holder
    /\ UNCHANGED <<known, dir, manifest, faults>>

\* fileMatches of one file; after the last the engine is launched.
CheckHit(s) ==
    /\ pc[s] = "check"
    /\ dir[idx[s]] = known[s][idx[s]]
    /\ NextFile(s, "check", "serving")
    /\ holder' = IF idx[s] = NFiles THEN Nobody ELSE holder
    /\ UNCHANGED <<known, dir, manifest, faults>>

\* A mismatch, or an error of the check, fails the launch: no repair.
CheckFails(s) ==
    /\ pc[s] = "check"
    /\ \/ dir[idx[s]] # known[s][idx[s]] /\ UNCHANGED faults
       \/ Fault
    /\ Fail(s)
    /\ UNCHANGED <<idx, known, dir, manifest>>

\* The process dies or is stopped, its lock with it.
Crash(s) ==
    /\ pc[s] # "down"
    /\ Fault
    /\ Goto(s, "down")
    /\ holder' = IF holder = s THEN Nobody ELSE holder
    /\ UNCHANGED <<idx, known, dir, manifest>>

-----------------------------------------------------------------------------
\* Operators.  `fornax pull <repo>@<sha> --dir <dir>`.
StartPull(o) ==
    /\ pc[o] = "idle"
    /\ FirstFile(o)
    /\ Goto(o, "verify")
    /\ UNCHANGED <<known, holder, dir, manifest, faults>>

\* verifyLocal within Pull: "already verified locally, skipping download".
PullMatches(o) ==
    /\ pc[o] \in {"verify", "reverify"}
    /\ Accepts(idx[o], dir[idx[o]])
    /\ NextFile(o, pc[o], "idle")
    /\ UNCHANGED <<known, holder, dir, manifest, faults>>

PullDiffers(o) ==
    /\ pc[o] \in {"verify", "reverify"}
    /\ ~ Accepts(idx[o], dir[idx[o]])
    /\ Goto(o, IF pc[o] = "verify" THEN "download" ELSE "idle")
    /\ UNCHANGED <<idx, known, holder, dir, manifest, faults>>

\* `hf download --local-dir` replaces a file that is not the revision's.
HfFetches(o, f) ==
    /\ pc[o] = "download"
    /\ dir[f] # "good"
    /\ \/ dir' = [dir EXCEPT ![f] = "good"] /\ UNCHANGED faults
       \/ dir' = [dir EXCEPT ![f] = "wrong"] /\ Fault
    /\ UNCHANGED <<pc, idx, known, holder, manifest>>

HfExits(o) ==
    /\ pc[o] = "download"
    /\ \/ (\A f \in Files : Accepts(f, dir[f])) /\ UNCHANGED faults
       \/ Fault
    /\ FirstFile(o)
    /\ Goto(o, "reverify")
    /\ UNCHANGED <<known, holder, dir, manifest>>

\* `fornax freeze <repo>@<sha> --dir <dir>`.
StartFreeze(o) ==
    /\ pc[o] = "idle"
    /\ FirstFile(o)
    /\ Goto(o, "collect")
    /\ UNCHANGED <<known, holder, dir, manifest, faults>>

\* Mutant of FreezeMatches: the entry is copied from the tree, unhashed.
FreezeUnhashed(o) ==
    /\ pc[o] = "collect"
    /\ Accepts(idx[o], dir[idx[o]])
    /\ known' = [known EXCEPT ![o][idx[o]] = "good"]
    /\ NextFile(o, "collect", "write")
    /\ UNCHANGED <<holder, dir, manifest, faults>>

\* verifyLocal within Freeze: the local hash becomes the entry's.
FreezeMatches(o) ==
    /\ pc[o] = "collect"
    /\ Accepts(idx[o], dir[idx[o]])
    /\ known' = [known EXCEPT ![o][idx[o]] = dir[idx[o]]]
    /\ NextFile(o, "collect", "write")
    /\ UNCHANGED <<holder, dir, manifest, faults>>

FreezeDiffers(o) ==
    /\ pc[o] = "collect"
    /\ ~ Accepts(idx[o], dir[idx[o]])
    /\ Goto(o, "idle")
    /\ UNCHANGED <<idx, known, holder, dir, manifest, faults>>

\* writeManifest: a temporary file renamed into the directory.
WriteManifest(o) ==
    /\ pc[o] = "write"
    /\ manifest' = known[o]
    /\ Goto(o, "idle")
    /\ UNCHANGED <<idx, known, holder, dir, faults>>

\* An error return, or the operator's process dies.
Abort(o) ==
    /\ pc[o] # "idle"
    /\ Fault
    /\ Goto(o, "idle")
    /\ UNCHANGED <<idx, known, holder, dir, manifest>>

-----------------------------------------------------------------------------
Launch(s) == \/ Start(s) \/ AcquireLock(s) \/ ReadManifest(s) \/ ReadManifestFails(s)
             \/ CheckHit(s) \/ CheckFails(s)

Pull(o) == \/ StartPull(o) \/ PullMatches(o) \/ PullDiffers(o) \/ HfExits(o)
           \/ \E f \in Files : HfFetches(o, f)

Freeze(o) == \/ StartFreeze(o) \/ FreezeMatches(o) \/ FreezeDiffers(o) \/ WriteManifest(o)

Next ==
    \/ \E s \in Servers : \/ Start(s)
                          \/ AcquireLock(s)
                          \/ ReadManifest(s)
                          \/ ReadManifestFails(s)
                          \/ CheckHit(s)
                          \/ CheckFails(s)
                          \/ Crash(s)
    \/ \E o \in Operators : \/ StartPull(o)
                            \/ PullMatches(o)
                            \/ PullDiffers(o)
                            \/ \E f \in Files : HfFetches(o, f)
                            \/ HfExits(o)
                            \/ StartFreeze(o)
                            \/ FreezeMatches(o)
                            \/ FreezeDiffers(o)
                            \/ WriteManifest(o)
                            \/ Abort(o)

Spec == Init /\ [][Next]_vars

\* Servers are restarted until they serve; a command that was started runs on.
ServersFair == /\ \A s \in Servers : WF_vars(Launch(s))
               /\ \A o \in Operators : /\ WF_vars(pc[o] # "idle" /\ Pull(o))
                                       /\ WF_vars(pc[o] # "idle" /\ Freeze(o))

FairSpec == Spec /\ ServersFair

-----------------------------------------------------------------------------
\* An engine is launched on, and keeps reading, the hub's bytes of every file
\* the hub has a hash for, although pull and freeze take no lock: the hashes
\* verifyInPlace compares with can only be the hub's, and a pull writes no
\* file that has them.
ServedHashed ==
    \A s \in Servers : pc[s] = "serving" => \A f \in LFS : dir[f] = "good"

\* A freeze that succeeds leaves a directory that can be served: the manifest
\* describes the files, those without a hub hash included (Freeze: "making it
\* a store that can be served directly"), if no other command interferes.
FreezeServable == [][manifest' # manifest => dir' = manifest']_vars

\* A directory that is and stays as frozen is served by every process, whatever
\* failed before: no failed or crashed launch keeps the lock (verifyInPlace).
ServesOnceFrozen ==
    <>[](dir = manifest) => \A s \in Servers : <>[](pc[s] = "serving")

-----------------------------------------------------------------------------
\* The inductive invariant behind ServedHashed.  Collected: a freeze that is
\* about to write has the hub's hashes, and so has what a server verifies
\* against.  Verified: the hashed files a server has passed have these bytes.
Collected ==
    /\ \A o \in Operators, f \in LFS :
          (pc[o] = "collect" /\ f < idx[o]) \/ pc[o] = "write" => known[o][f] = "good"
    /\ \A s \in Servers, f \in LFS : pc[s] = "check" => known[s][f] = "good"

Verified ==
    \A s \in Servers, f \in LFS :
        (pc[s] = "check" /\ f < idx[s]) \/ pc[s] = "serving" => dir[f] = "good"

DirInv == TypeOK /\ Collected /\ Verified

-----------------------------------------------------------------------------
\* "A serving process must not verify a directory that a `mirror` run is
\* writing" (specs/021-local-weight-loading.md), and "Serialize against a
\* mirror run writing this same directory" (verifyInPlace).
NotVerifiedWhileWritten ==
    ~ \E s \in Servers, o \in Operators : pc[s] = "check" /\ pc[o] = "download"
=============================================================================
