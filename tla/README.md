# A TLA+ model of Fornax

Fornax freezes model weights, puts them on a GPU host, starts an inference
engine on them and fronts it with a health and API surface.  What it promises
is mostly about *weights*: an engine only ever runs on the bytes a manifest
pins, whatever crashed, failed or ran at the same time.  This directory states
that promise, and what the program promises around it, as TLA+ specifications
of the code, checks them on small instances
with TLC, and proves the main ones for every instance with TLAPS.

File names below are relative to the repository's root.

## 1. The system

| Component | Code | State | Operations | Talks to | Hard part |
|---|---|---|---|---|---|
| weight cache | `internal/runtime/prep.go`, `internal/mirror/store.go` | files and `.lock` of `<cache-root>/<repo>/<revision>` | `PrepareWeights`, `PrepareDraft`, `prepareArtifact`, `ensureFile`, `fileMatches`, `lockDir` | store (reads manifest and objects), engine (hands it a directory) | several pods of one host, crash in the middle of a fetch, a store that changes or fails |
| local weight directory | `prep.go` `verifyInPlace`, `mirror.go` `Freeze` | a directory and its `_manifest.json` | verify in place, `fornax pull`, `fornax freeze` | engine, hub | pull and freeze write it while a server verifies or reads it |
| weight mirror | `internal/mirror/mirror.go`, `store.go`, `cmd/fornax/weights.go` | scratch directory, store prefix, `_manifest.json` | `Pull`, `Push`, `Verify`, `List` | hub client, `hf download`, store | interrupted, repeated and concurrent pushes; files the hub has no hash for |
| hub client | `internal/mirror/hf.go` | none | `Resolve`, `Tree`, `CheckPolicy` | Hugging Face Hub | paging: a tree cut short makes an incomplete mirror verify |
| serve entrypoint | `internal/runtime/serve.go` | context, listener, engine child, weights-loaded gauge | `Serve` | cache, preflight, shim, engine | cancellation, engine exit and listener failure race in one `select`; an engine may outlive its parent |
| health and API surface | `internal/runtime/shim.go` | dialect table, loss counters | `/readyz`, `/metrics`, proxying, translation | engine, callers | answers composed of state read at different moments |
| memory preflight | `internal/runtime/preflight.go` | none | `CheckMemoryBudget` | manifest, host | integer budget, rounding of the suggestion, flags a speculator overrides |
| manifest schema | `internal/manifest/manifest.go` | none | `Validate`, `flagValue`, `HasArg`, `ResolveSpeculator` | everything | repeated flags: the last one wins in the engine |
| bare-metal install | `internal/install/install.go` | unit and manifest on disk, systemd's loaded unit | `Run`, `writeIfChanged`, `daemonReload` | systemd | the reload is tied to the run that changed the unit |
| harness discovery | `internal/harness/discover.go`, `cmd/fornax/harness.go` | none of its own | `Discover`, `probe`, `awaitReady` | shim over HTTP, units | several requests to a server that changes between them; timeouts |
| benchmark | `internal/bench/bench.go` | sample array | `Run` | endpoint | worker pool, an endpoint that restarts in the middle |
| harness configuration, deploy check, command line, e2e script | `internal/harness/harness.go`, `internal/deploycheck`, `cmd/fornax/main.go`, `e2e/` | none | rendering and comparison | - | none for a model checker |

How they interact: an operator *pulls*, *pushes* and *verifies* a revision into
a store prefix (or *freezes* it in place).  `fornax serve` reads the manifest of
the prefix, stages the files into the cache under an flock (or verifies a local
directory in place under the same flock), releases the lock, and starts the
engine on the directory.  From then on nothing holds a lock: that the files an
engine has mapped stay intact is a property of what everybody else may do to
the directory, and it is the central property here.

What makes each modelled component correct:

- *cache*: an engine's files are, and stay, the manifest's bytes; verified files
  are never written again; staging a directory is serialized; nothing that
  fails or dies keeps the others from serving.
- *mirror*: a prefix is either unpublished or the pinned revision, for good;
  `verify` reports no damage that is not there; repeating a push repairs.
- *local directory*: what is served has the hub's bytes wherever the hub
  publishes a hash; a freeze leaves a directory that can be served.
- *hub client*: nothing is mirrored but a tree that was read whole and approved;
  a hub that lists the revision is enough for the mirror to be complete in the end.
- *serve*: no exit leaves an engine behind; a cancelled `Serve` ends; a ready
  answer rests on an engine that a `Serve` waits for; a host comes up again.
- *manifest and preflight*: no choice of speculator gets an engine past the
  memory ceiling or to two sources of draft weights; an admitted engine fits; the
  advice of a refusal is not refused; a valid manifest starts.
- *install*: what an install accepted is what systemd starts, once the install has
  come through on what it validated and systemd has read it.
- *surfaces*: the prompt policy reaches the engine on every path; losses are
  counted once each.
- *benchmark*: every request is run once; the run ends; its aggregate speaks of
  one draft head and of whole answers.
- *harness*: it is launched on the engine of the model asked for; waiting ends,
  and for a cause.

## 2. Modules

| Module | What it is |
|---|---|
| `SharedArtifact` | abstract: artifacts become complete once and for good, engines are launched on complete artifacts only |
| `WeightCache` | the cache of one host, pods staging, failing, dying and serving; implements `SharedArtifact` |
| `WeightCacheProofs` | its theorems |
| `FrozenStore` | abstract: a prefix is unpublished, then one revision for good |
| `MirrorPush` | push and verify of one revision on one prefix; implements `FrozenStore` where every file has a hub hash |
| `MirrorPushProofs` | its theorems |
| `HubMirror` | extends `MirrorPush`: each push first resolves, pages and approves the hub's tree |
| `HubMirrorProofs` | `HubMirror` implements `MirrorPush`, whose theorems carry over |
| `LocalWeights` | servers verifying a local directory while operators pull and freeze it |
| `LocalWeightsProofs` | its theorems |
| `ServeLifecycle` | the `fornax serve` processes of one host: context, listener, engine child, `select`, `/readyz` |
| `ServeLifecycleProofs` | its theorems |
| `HarnessRun` | extends `ServeLifecycle`: a `fornax run` session probing the host while it goes on |
| `HarnessRunProofs` | its theorems |
| `ServePlan` | from a manifest to an engine command: validation, speculators, budget, `EngineCommand`, in `Serve`'s order |
| `BareMetal` | extends `ServePlan`: installs, torn files, reloads and the starts of the unit |
| `ServePlanProofs` | theorems about both |
| `ChatSurface` | requests of any dialect through `ServeHTTP` to an engine and back |
| `BenchRun` | extends `ChatSurface`: a benchmark run among other clients |
| `BenchRunProofs` | theorems about both |
| `MC*` | the small instances the configurations check |

### State and actions against the code

Contents of a file are told apart exactly as far as the code can: `absent`,
`short` (another size), `wrong` (the right size, another hash) and `good`
(size and hash match).

**WeightCache.**  `pc[p]` is where pod `p` is in `Serve`: `lock` (waiting in
`lockDir`), `manifest` (`mirror.ReadManifest`), and then per file of
`sm.Files` the steps of `ensureFile`: `check` (first `fileMatches`), `get` and
`copy` (the two halves of `LocalStore.Get`: create, which truncates in place,
then the copy), `recheck` (second `fileMatches`).  `stage[p]` counts the
artifacts done: the target, then a separate draft head.  A pod that streams its
target needs the draft head only, and one without draft the target only.  Every
error return of `prepareArtifact` is `Fail`, which runs the deferred unlock and
ends the process.  `Crash` is the process dying, or a serving one being stopped,
at any step; the kernel then drops its flock.  `CheckError` is the dropped
error of `if ok, _ := fileMatches(...)`: it reads as a miss.  The store is the
environment: objects may be absent or not what the manifest says, and a
manifest appears when a push completes.

**MirrorPush.**  `pc[p]` is where a `fornax push` is: `verify` (first
`verifyLocal` of `Pull`), `download` (`hf download`, external, any file at a
time), `reverify`, then per file of `Push` `size`, `hash`, `put`, and finally
`manifest` (`writeManifest`).  `entry[p]` is the list of `FileEntry` that
`verifyLocal` returned, `scratch[p]` the operator's own directory, `store` and
`manifest` the prefix.  `reader` is a `fornax verify` in progress.  `Abort` is
any error return or death of a push.  `Rot` is the store damaging an object
without changing its size.

**LocalWeights.**  `pc` is, for a server, where `verifyInPlace` is, and for an
operator, where a pull or a freeze is.  `known` is what a process holds in
memory: the manifest a server read, the entries a freeze collects.  Pull and
freeze never touch `holder`, because the code never locks there.

**ServeLifecycle.**  `pc[m]` is where the `Serve` of model `m` is: `prepare`
(weights, draft head, preflight, up to `SetWeightsLoaded`), `launch`, `select`,
and `reap` (the `<-engineErr` of the cancelled case).  `shim` says who listens on
a port, `child` which engine `Serve` waits for, `of` which model an engine was
launched for.  `Stop` cancels the context at any moment; `KillEngine` is the
watcher of `exec.CommandContext`; the three `Select` actions are the three cases
of the `select`, each enabled whenever its channel is ready.  The listener's
error is seen in the `select` only, so `LoseListener` may happen long before.  A
return on that error, or a kill, leaves the engine running as an orphan that
holds the engine port until `Sweep`.  A second engine on an occupied port exits.
`Ready` is the probe handler's answer: weights first, then whoever answers
`/health` on the engine port.

**HubMirror.**  `hub` is how the hub behaves (how many pages it has, whether it
links to another host, has no such revision, lists a subtree or a file the policy
refuses); `listing[p]` is what a push has read so far.  A page carries a sequence of `Link`
header lines, of which what matters is where they lead and whether the URL has a
comma in it; `NextLink` is what `nextPageURL` makes of them: it sees the first line
only and splits it at every comma, so a next page that is named otherwise is none.
`ReadPage` is one turn of `getJSONArrayPaged`: get, decode, append, and `NextLink`;
`TooManyPages` its limit (1000 in the code, `MaxPages` here); `HubFails` any error of
`get`.  `Listed` is the return of `Tree` and `CheckPolicy` to `Pull`, and
the same step as `StartPush`; from there on it is `MirrorPush`.

**ServePlan.**  An argument list is a sequence of tokens `--flag=value`, `--flag`
and bare words, since that is what `flagValue` and `HasArg` tell apart; a fraction
is in thousandths.  `Validate` is a conjunction with one operator per `validate*`
function.  The actions are `Load`, `ResolveSpeculator`, staging,
`CheckMemoryBudget` and `EngineCommand` in the order of `Serve`.  `EngineReads`, how
an engine reads its own command line, is external.  `FollowAdvice` is an operator
who appends the advised fraction and starts again.

**BareMetal.**  `disk` holds the placed manifest and the unit, each absent, torn
or whole; `unit` is what systemd has loaded.  An install goes through `Accepts`
(`runInstall`'s checks), `ReadSource` (`Run` reads the manifest's file a second time,
and somebody may have saved another one), `Unchanged` or `Truncate` and `Written`
for each file (`writeIfChanged`), and `Reload`; it may be `CutShort` at any step.
`StartUnit` is systemd starting the unit it has loaded, `LoadPlaced` the read of the
manifest that is placed by then.  Three variables note the past for the properties:
`spoilt` (an install stopped between the two files, or placed what it had not
validated), `stale` (the reload of a written unit was missed) and `clean` (the start
began between installs with neither, and its manifest was left alone since).

**ChatSurface.**  `st[c]` is how far the request of a client is; of a body only
its system prompts, where the engine's dialect keeps them, and the fields a
translation loses remain.  `Route` is `ServeHTTP` and the head of
`dialectSurface`; one turn of `recordLoss`'s loop is two
steps, `FindCounter` (the `LoadOrStore` of the table) and `AddLoss`, and handlers
interleave in between, each with the counter it found (`held`), which need not be
the one the table keeps (`stored`); `CutEnd` is what each way back makes of an answer that breaks
off.  `Restart` is another serving process behind the same address.

**BenchRun.**  Workers are clients.  `Hand` is `jobs <- i`, `Ask` and `Score` the
two halves of `oneRequest`, `Timeout` the client's timeout anywhere in between,
`Finish` is `close(jobs)`, `wg.Wait` and the fold (`Aggregate`, a recursive function
over the samples in order).

**HarnessRun.**  `Port` is the port that is asked: the `--port` of the unit, or the
default where no unit states one.  `AskReadyz` and `AskModels` are the two requests of a probe; the
host of `ServeLifecycle` takes any steps between them.  `found` is the probe's
answer, `Decide` what `awaitReady` does with it.  `lost`, `slow` and `installs` note
what happened around the session, for the properties to refer to.

## 3. Runs

| Run | Instance | Checks | Shows |
|---|---|---|---|
| `CacheStaging` | 2 pods, 2 artifacts of 2 files, all leftovers, reads may fail, 2 faults, fair | `TypeOK`, `Serialized`, `EveryPodServes` | the flock serializes staging, and after finitely many faults both pods serve whatever was on disk |
| `CacheBadStore` | 3 pods with overlapping needs, a store that may lack or damage objects, 1 fault | `ServedIntact`, `VerifiedNotRefetched`, `ImplementsSharedArtifact` | no engine is launched on, or left with, a damaged artifact |
| `PushHashed` | 2 pushers, all files hashed, 2 faults, 1 damaged object, a verifier | `TypeOK`, `NoFalseAlarm`, `ImplementsFrozenStore` | the prefix, and after damage what its manifest vouches for, is frozen from its publication on; no alarm without damage |
| `PushHub` | 1 pusher, 9 kinds of hub, 1 file with and 1 without hub hash, every prefix and scratch, failures of the hub, the downloader and the store, 1 damaged object, fair | `ListedWhole`, `HashedFilesMirrored`, `PushLeavesItsManifest`, `MirroredInTheEnd` | only a tree read whole is worked on; every manifest describes its prefix; repeating a push repairs what the size alone would hide and completes the mirror |
| `LocalServe` | 2 servers, 1 operator, one file without hub hash, 2 faults, fair | `TypeOK`, `ServedHashed`, `FreezeServable`, `ServesOnceFrozen` | verification in place is enough for the hashed files, although pull and freeze take no lock |
| `LocalLock` | 1 server, 1 operator | `NotVerifiedWhileWritten` is **violated** | specs/021 and `verifyInPlace` say a server does not verify a directory that is being written; pull takes no lock, so it does |
| `HostShared` | 2 models on the default ports and a third with a `--port` of its own, 3 engines, 1 failure, 1 kill or lost listener, fair | `HostInv`, `NoOrphans`, `ReadyIsWaitedFor`, `StopEnds`, `ComesUp` | whatever order cancellation, engine exit and listener failure arrive in, `Serve` ends, waits for its engine, and the host serves again; a ready answer rests on an engine that some `Serve` waits for |
| `PlanAdmit` | about 90 manifests (every rule broken once, speculators of every form), 6 hosts, reinstalls with 2 failures | `Ceiling`, `OneDraftSource`, `ValidManifestStarts`, `AdmittedFits`, `FollowingAdvice`, `UnitStarts`, `InstalledStarts` | validation and budget together keep what the engine is started with in bounds, by hand and from an installed unit |
| `PlanMemory` | as `PlanAdmit` | `BudgetHolds` is **violated** | a speculator's own fraction is not in the budget |
| `ApiBench` | 2 workers, 2 requests, 2 other clients, 2 draft heads, 1 failed or broken answer, all policies, fair | `PromptEnforced`, `LossesCounted`, `SuccessIsWhole`, `EveryRequestOnce`, `AggregateOneHead`, `RunEnds` | handlers and workers that interleave lose and repeat nothing, and a run that spans a restart gives no mixed aggregate |
| `SurfaceDialect` | as `ApiBench`, an engine that speaks `anthropic-messages` | `PromptEnforced` is **violated** | the policy is put where such an engine does not look |
| `HostSession` | 2 models on the default ports, 2 engines, 1 kill, 1 timeout, 1 install, fair session | `LaunchedOnOwnEngine`, `GivesUpForCause`, `SessionEnds` | whatever the host does between two requests of a probe, a harness meets its own model, and a session ends |

Bounds.  Two files make a loop that is left in the middle, at its first and at
its last file; two artifacts make a pod that holds one while it stages
another; two pods (three where a streaming pod matters) make every race the
flock is for, and two pushers every race there is no lock for.  `MaxFaults`
bounds failures, crashes and stops together: two allow one failure while another is
repaired; `MaxMisses` does so for the hub.  `MaxRot` bounds the objects the store damages.  In `HostShared`
two of the three models share a listener, and one kill leaves one orphan, so three
engine processes are enough for a launch never to wait for one.  Whatever a
file can hold initially is enumerated in at least one run.  The theorems below
lift the safety properties from these bounds to all values.  `PlanAdmit` varies one
part of a manifest at a time and the parts that meet (base arguments,
speculator arguments, default, way of loading) together; the checkpoint sizes put
the advice between, below and above the fractions in use.  In `ApiBench` two
requests and two workers let one worker do both, each one, and both be cut by a
restart; two other clients find and bump the same counter at once, for the first time or
later.  One lost field is enough for that: the counters of two fields have nothing
in common (a second one makes the run more than twice as long), and the theorem has
any number.
`HostSession` has two
engines because a third would need a second kill.  Deadlock is not checked in the
two `MCBenchRun` runs: a benchmark ends.

Fairness.  `WF(Step(p))` for a pod: a running process keeps executing, and a
failed one is restarted (`Restart=on-failure` in the unit `install` renders,
`RecreateGroupOnPodRestart` in the Kubernetes sets).  `WF(Publish(a))`: a push
under way completes.  `Crash` and the failing steps are never fair.  Weak
fairness of `AcquireLock` is enough because `flock` queues no one out for ever
in a run with finitely many faults: a pod releases the lock and does not come
back for it once it serves.  `MirrorPush.FairSpec` says that operators repeat
the command, which is how the repository documents repair.  `LocalWeights`:
servers are restarted and a started command runs on; operators need not freeze
at all (`ServesOnceFrozen` is conditional on the directory staying frozen).
`ServeLifecycle`: a running process and the context's watcher run on; an engine
that loads gets there; a `Serve` that did not return without error is started
again (`Restart=on-failure`); what a dead one left behind is ended by systemd
(`KillMode` is its default, the control group) or the container runtime.
Engine exits, stops, kills and lost listeners are never fair.
`HubMirror.FairHubSpec`: as `MirrorPush`, a command that runs goes on and operators
repeat it; hub failures are bounded and not fair, and `MirroredInTheEnd` speaks only
of hubs that list the revision.  `BenchRun.FairSpec`: goroutines run and the
client's timeout fires; nothing is assumed of the server.
`HarnessRun.FairSessionSpec`: the session runs, every request of it ends, its
deadline comes; nothing is assumed of the host.

## 4. Theorems

All are proved for any number of pods, pushers, servers, operators, artifacts,
files, pages, clients, workers and requests, any manifests and sizes, and any bound
on faults.  Every safety property that a passing run checks is stated by a
theorem.

`WeightCacheProofs`.  `LockInvariant`: `LockInv` is inductive; types, the index
of the artifact being staged, and that being between `lockDir` and the unlock
means holding the flock.  It needs no assumption about reads.  `Serialized`
follows from it at once.  `DataInvariant`: `DataInv` is inductive relative to
`LockInv`, given reads that do not fail.  It is needed because `ServedIntact`
speaks only of serving pods: `Prefix` says that the files before the loop index
are good, `Missed` that the file about to be overwritten is not, `Staged` that
the artifacts of earlier stages are complete.  A step of another pod keeps these
because it writes only a file that `Missed` says is not good.  From it:
`ServedIntactTheorem`, `VerifiedNotRefetchedTheorem` and `Refinement` (every step
is a step of `SharedArtifact` or stutters).  They assume `~FlakyReads`: see
section 5 for what a read error does.

`MirrorPushProofs`.  `PushInvariant`: `PushInv` is inductive, its parts about the
store as long as that has damaged nothing (`rot = 0`): `Recorded` (the entries stand
for the scratch directory as it still is), `Uploaded` (the hashed files a push has
passed are in the store), `HashedFilesMirrored`, `ReadPublished`.  Then
`HashedFilesMirroredTheorem`, and, where the hub hashes every file (`LFS = Files`),
`NoFalseAlarmTheorem` and `Refinement` to `FrozenStore`; the latter needs `Vouched`
besides, that a manifest only ever names the hub's bytes of a hashed file.
`PushLeavesItsManifestTheorem` rests on `Passed`, that the files a push has passed
are in the store as its entries say, unhashed ones included; it is stated of a
single pusher, because with two of them and an unhashed file it is false (TLC
finds the counterexample; section 5).

`HubMirrorProofs`.  `HubRefinement`: every step of `HubMirror` is a step of
`MirrorPush` or leaves its variables alone, so `HubMirroredTheorem` and
`HubPushLeavesItsManifest` follow from the above for every set of hubs.
`ListedWholeTheorem`: `ListingInv` is inductive.  `Reads(h, k, at, raw)` says which
pages a chain of `k` links reads and what they add up to; a listing under way has
followed such a chain, whichever page it is at and whatever loops the links make.
Two things are relied on.  `Honest`: the pages up to one without a next link list
the revision, unless they list nothing or a file the policy refuses; a hub whose
last page ends early without saying so is out of a client's sight.  `Legible`: every
next page is named in the first `Link` line of its page, by a URL without a comma;
of other hubs the property is false (section 5).

`LocalWeightsProofs`.  `DirInvariant`: `Collected` and `Verified` with the types
are inductive: hashes in a freeze's and in a server's memory can only be the
hub's, and a pull writes no file that has the hub's bytes.  Then
`ServedHashedTheorem`.  `FreezeServableTheorem`, for one operator: `CollectedDir`
adds that what a freeze has collected is what the directory holds, which a second
operator's pull can undo for a file the hub has no hash of.

`ServeLifecycleProofs`.  `HostInvariant`: `HostInv` is inductive, because of
`Ownership` (a listener is a living `Serve`'s, a `Serve` has an engine exactly in
`select` and `reap`, and it is one launched for its model) and `Listening` (without
kills a running `Serve` listens, so the listener's case of the `select` cannot be
the one that leaves an engine).  Then `NoOrphansTheorem`, and
`ReadyIsWaitedForTheorem`, which assumes nothing of the ports: while nothing was
killed, an engine that answers is one a `Serve` waits for (`NoOrphans`), so a ready
answer rests on the model's own engine, or on that of a model with the same engine
port, which can listen beside it only on another port.  Units that name no port
therefore only ever report their own.

`HarnessRunProofs`.  `SessionRefinement`: a session only reads the host, so `HostInv`
holds beside it.  `LaunchedOnOwnEngineTheorem`: `ProbeInv` is inductive relative to
`HostInv`: after the first request an engine answers behind the port, after the
second it is the target's, both until the host loses a listener or an answering
engine.  It rests on `UpEngineKeepsModel`: only an unused engine process is
launched, and only one that is gone is forgotten.  `GivesUpForCauseTheorem`:
`WaitInv` adds, for a probe that saw no listener and for a wait that saw the
endpoint load, that the cause is already there; `CauseStays` that a step of the
host takes none away.  That the host serves another model
is a cause only while an engine of that model is up behind the port, so the theorem
does not excuse every session on a shared port.

`BenchRunProofs`.  `EveryRequestOnceTheorem`: `IInv` adds to the property the types
and that done indexes are below the next one; a step moves one index from the
channel to a worker, or from a worker to the samples, and the cardinalities follow.
`RankInRange`: the rank of a percentile lies within the samples.
`SurfaceInvariant` gives the types of the request tables.  `PromptEnforcedTheorem`,
where the engine speaks Chat (with another it is false, see `SurfaceDialect`): what
`injectSystemPrompt` makes of any body satisfies every policy, and no body reaches
the engine unedited while there is one.  `LossesCountedTheorem`: per dialect and
field, what the counter in the table says and the handlers that still have it to
count add up to the requests that lost it, however lookups and additions of
different handlers interleave.  It needs `Cells`: the table keeps at most one counter
for a field (`OneStored`), a handler that is about to add holds that very one
(`HeldStored`), and a counter that is not in the table yet is zero (`FreshZero`); so
no addition goes to a counter nobody reads.  The handlers have to be finitely many
(`ClientAssumption`).  `SuccessIsWholeTheorem`:
`WholeInv` says that the requests of workers are proxied and that the proxy ends a
broken answer as broken.  `AggregateOneHeadTheorem`: the fold that the report is made
by is a recursive function over the samples; `LeastNatural` and `UpTo` (from the
well-foundedness of the naturals) do for it what induction over the naturals would:
`AggregateSteps` shows that the function exists and satisfies its equation,
`AggregateHeads` that a fold without error has met one head only.

`ServePlanProofs`.  `PlanInvariant`: `PlanInv` is inductive for the host with its
installs: past `Load` the manifest is a valid one, past `ResolveSpeculator` the
speculation is one it offers, and a running engine's command is composed of both.
`CombinationChecked` says that this composition is one that `Validate` looked at.
What an argument list says of a flag is settled by four lemmas, in any of the forms
flags are written in: `OtherFlagLast` and `OwnFlagLast` for a flag that is appended,
`ValueOfSecond` and `ValueOfFirst` for two lists that are concatenated.

- `CeilingTheorem`, `OneDraftSourceTheorem`, `ValidManifestStartsTheorem` from
  `PlanInv`: the combination that was checked is the one that runs, and what
  validation demands of speculators leaves staging and resolution no reason to fail.
- `AdmittedFitsTheorem` from `PlanInv` and `BudgetInv` (past the budget check nothing
  is over it): a speculator without a fraction of its own leaves the value that the
  budget was computed for.  Its one trap is a base list that ends in the bare flag,
  whose value the speculator's first word would become; validation refuses such a
  list, because an empty value is no fraction.
- `FollowingAdviceTheorem` from `FollowInv`.  `AdviceFits`: the advised fraction, rounded
  down, fits for all sizes (the code computes it in floating point, the model in
  integers).  `AdviceCapped`: a refused fraction is within the cap and the advice is
  below what was refused.  `LowerFractionValid`: no check of any one combination of
  arguments is undone by a fraction within the cap at the end of the base arguments.
- `InstalledStartsTheorem`: `InstallInv` says how much of an install is in place at
  each of its steps, that without `spoilt` what is placed is what was validated, and
  that without `stale` systemd has the unit on disk loaded.  It holds of an install
  whose reload failed as well, and of the no-op install after it: their files are
  those of one accepted install, only the loaded unit may be an older one.
- `UnitStartsTheorem` from `InstallInv`, `ValidManifestStarts` and `StartInv`: from its
  first step to its last, a `clean` start has a manifest and a choice that were
  accepted together, whatever installs do meanwhile; so it loads, resolves and
  stages.

The theorems about `ServePlan` are for manifests as decoding yields them (`Decoded`:
a record with all its fields and lists of tokens).  `FollowingAdviceTheorem` also
takes `Closed`: no speculator's arguments begin with the bare value of a flag that the
base arguments leave open.  That is owed to the modelled edit: a fraction appended to
such base arguments would come between the two, where an operator who edits the
fraction in place changes nothing else.  `PlanAdmit`'s manifests satisfy both.

`TypeCorrect` in the first, second and fourth proof modules states the type invariants.

Assumptions they rest on are the named `ASSUME`s on the constants, and what the
modules say of code outside the repository: `hf download` does not rewrite a
file that already has the hub's bytes, each push has a scratch directory of its
own, a process's flock and listener go with the process, and an engine that
finds its port in use exits.

Only model-checked: liveness (`EveryPodServes`, `MirroredInTheEnd`,
`ServesOnceFrozen`, `StopEnds`, `ComesUp`, `RunEnds`, `SessionEnds`), which the
prover does not reach: it has neither `ENABLED` nor fairness.  The library's
induction theorems take an operator as a parameter, which no installed prover
instantiates; where the model recurses (`Aggregate`), the least-number argument above
takes their place.

## 5. Findings and observations

Runs that find the code to differ from what it says:

- `LocalLock`: pull and freeze take no lock (`internal/runtime/prep.go:105`).
- `PlanMemory`: the budget reads the fraction of the base arguments only
  (`internal/runtime/preflight.go:95`); a speculator may raise it to the ceiling.
- `SurfaceDialect`: the prompt policy edits `messages` whatever the engine speaks
  (`internal/runtime/shim.go:452`).

Observations made while modelling, without a run of their own:

- `ensureFile` drops the error of `fileMatches` (`prep.go:134`): an I/O error on a
  good file reads as a miss, and the file is truncated and fetched again in place
  under another pod's engine.  `WeightCache` has the step (`CheckError`).  With
  `FlakyReads = TRUE` in `CacheBadStore`, TLC finds `VerifiedNotRefetched` and
  `ServedIntact` violated; the theorems about content assume that reads do not fail.
- `nextPageURL` (`hf.go:121`) passes over a next page that is not in the first `Link`
  header, or whose URL has a comma, and `getJSONArrayPaged` takes the page for the
  last.  The hubs of `PushHub` that do so have nothing on the page that is cut off, or
  everything; with a hub that has one of the two files there, TLC finds `ListedWhole`
  violated: a partial tree is pushed without an error, which the comment at
  `hf.go:174` means to rule out.
- The manifest does not mark completion while a second push of a revision with an
  unhashed file is under way (`mirror.go:145`): it replaces objects under the
  manifest of the first.
- Readiness is asked of the engine port, not of the engine that was launched
  (`shim.go:299`): two serves that share only their engine port report each
  other's readiness, and a serve may report that of an orphan.  `ReadyIsWaitedFor`
  allows the first and excludes the second (`kills = 0`).
- `verifyLocal` accepts a file the hub has no hash for by its size, so a push can
  publish other bytes of such a file although `cmd/fornax/weights.go` promises
  "exactly what HF advertises"; that is why the mirror properties speak of hashed
  files.  And the advice of `verifyInPlace`, "re-run `mirror freeze`", cannot help
  where an LFS file is damaged: freeze verifies against the hub first and refuses.
- `checkFraction` compares and so lets a fraction of `nan` through, and the budget
  admits it; `Ceiling` and `AdmittedFits` name the exception.
- The advised fraction may be 0.00 (`preflight.go:160`), which validation refuses:
  `FollowAdvice` needs a positive one.
- A model that streams from S3 has no directory to size, so its start is never
  refused; `Measured` says so.
- `HasArg` is satisfied by any use of a flag, `FlagValue` by the last: a required
  argument may be overridden later in the list.
- A `custom` runtime is valid and fails only in `EngineCommand`, after staging.
- `install` reloads only in the run that changed the unit (`install.go:179`): after a
  failed reload the next install reports nothing to do, and systemd goes on starting
  the old unit, with the old choice and the new manifest, which need not go together.
  `stale` says so: `InstalledStarts` still speaks of the files then, not of the loaded
  unit, and `UnitStarts` of no start until systemd has read its units.
- Manifest and unit are written one after the other and in place, so a start in
  between meets those of two installs, or a torn one; `UnitStarts` allows just that.
- What `install` places is not what it validated but what it reads a second time
  (`install.go:161`).  A file saved in between is placed unchecked; `spoilt` marks it
  until an install has come through on what it validated.
- `forward` and the translator's `Stream` end an answer that broke off as if it were
  whole, and `bench` counts a stream that ends without `[DONE]` as a success;
  `SuccessIsWhole` is therefore about the proxied path.
- A loading endpoint is not asked whose it is, so `--wait` may wait for another
  model's endpoint and give up when it turns out to be one (`GivesUpForCause`, whose
  `Cause` asks for an engine of another model behind the port).
- One probe that times out makes a model that is loading look down, and ends the wait
  (`cmd/fornax/harness.go:242`); `Cause` counts a timed-out request.

## 6. What is left

Composition of `MirrorPush` with `WeightCache`: a pod that stages from a prefix
while it is pushed.  `WeightCache` takes a store that only ever publishes, which
is what `FrozenStore` promises where the hub hashes every file.

## 7. Not modelled, and why

Harness configuration files and environment, deploy checks, the command line, the
end-to-end script: they render or compare text, without state or order.  Dialect
translation (a dependency's code), rendering of units and reports (layout), YAML
decoding, telemetry, the S3 wire protocol (`s5cmd` is external; its store differs
from the local one only in that an object appears at once).  Of modelled
components: the `FORNAX_ENGINE_CMD` override, the text of `/metrics`, sums of tokens
and durations in a benchmark, the probes of the other models of a listing, and
whether a store's manifest belongs to the repository and revision that were asked
for, which the code never looks at (`prep.go:75`).
