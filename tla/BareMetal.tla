----------------------------- MODULE BareMetal -----------------------------
(***************************************************************************)
(* `fornax install` of one model and the starts of its unit: runInstall,   *)
(* Run and writeIfChanged of internal/install, with systemd around them.   *)
(*                                                                         *)
(* An install accepts a manifest and a --speculator, reads the manifest    *)
(* file once more, places what it reads, writes the unit that pins the     *)
(* choice, and reloads systemd when the unit changed.  A file is written   *)
(* in place: while that lasts, and when it is cut short, it is torn.       *)
(* systemd starts the unit it has loaded, and each start goes through      *)
(* ServePlan with the manifest that is placed when it is read.             *)
(*                                                                         *)
(* Or the operator starts `fornax serve` by hand, with any manifest.       *)
(***************************************************************************)
EXTENDS ServePlan

CONSTANTS
    Wishes,      \* what an operator installs: [manifest, pin]
    MaxFailures, \* bound on failed writes and reloads, on installs that die
                 \* and on edits of a manifest that is being installed
    NoFile,      \* a file, or a loaded unit, that is not there
    Torn         \* a file that is written in part

ASSUME FailureAssumption == MaxFailures \in Nat
ASSUME FileAssumption    == \A w \in Wishes : NoFile # w.manifest /\ Torn # w.manifest
                                              /\ NoFile # w.pin /\ Torn # w.pin

VARIABLES
    byHand,    \* the model is started by hand
    ipc,       \* where the install is
    wish,      \* what it accepted
    data,      \* the manifest it read to place it
    disk,      \* disk[k]: the contents of the placed manifest and of the unit,
               \* of which only the pinned choice can differ
    unit,      \* the unit systemd has loaded
    failures   \* failures so far

\* What came before, for the properties to speak of.
VARIABLES
    spoilt,    \* an install was cut short on its way from the manifest to the
               \* unit, or placed what it had not validated, and none has come
               \* through since
    stale,     \* the reload of a unit that was written was missed, and systemd
               \* has not read its units since
    clean      \* the start began between installs, neither spoilt nor stale, and
               \* none has touched the manifest since

ghosts      == <<spoilt, stale, clean>>
installVars == <<byHand, ipc, wish, data, disk, unit, failures, ghosts>>
hostVars    == <<vars, installVars>>

Files == {"manifest", "unit"}

HostInit ==
    /\ Init
    /\ byHand \in BOOLEAN
    /\ ipc = "idle"
    /\ wish \in Wishes
    /\ data = wish.manifest
    /\ byHand \/ file = wish.manifest
    /\ disk = [k \in Files |-> NoFile]
    /\ unit = NoFile
    /\ failures = 0
    /\ spoilt = FALSE /\ stale = FALSE /\ clean = FALSE

Wanted(k) == IF k = "manifest" THEN data ELSE wish.pin

During(k) == IF k = "manifest" THEN "writing manifest" ELSE "writing unit"

\* runInstall: the manifest is valid, the choice resolves, and the model is
\* deployed on bare metal, or nothing is written.
\* BUG: the choice is left to the first start.
AcceptsUnresolved(w) == Validate(w.manifest) /\ w.manifest.deploy = "bare-metal"

Accepts(w) ==
    Validate(w.manifest) /\ w.manifest.deploy = "bare-metal" /\ Resolves(w.manifest, w.pin)

Install(w) ==
    /\ ipc = "idle"
    /\ Accepts(w)
    /\ wish' = w
    /\ ipc' = "read"
    /\ UNCHANGED <<vars, byHand, data, disk, unit, failures, ghosts>>

\* Run reads the manifest's file again to copy it, and validates it no more:
\* somebody may have saved another one there.
ReadSource ==
    /\ ipc = "read"
    /\ \/ data' = wish.manifest /\ UNCHANGED failures
       \/ /\ failures < MaxFailures /\ failures' = failures + 1
          /\ data' \in {w.manifest : w \in Wishes} \ {wish.manifest}
    /\ ipc' = "manifest"
    /\ UNCHANGED <<vars, byHand, wish, disk, unit, ghosts>>

\* writeIfChanged: equal contents are left alone; os.WriteFile truncates.
\* After the unit, what the install wrote is whole.
Unchanged(k) ==
    /\ ipc = k /\ disk[k] = Wanted(k)
    /\ ipc' = IF k = "manifest" THEN "unit" ELSE "idle"
    /\ spoilt' = IF k = "manifest" THEN spoilt ELSE data # wish.manifest
    /\ UNCHANGED <<vars, byHand, wish, data, disk, unit, failures, stale, clean>>

Truncate(k) ==
    /\ ipc = k /\ disk[k] # Wanted(k)
    /\ disk' = [disk EXCEPT ![k] = Torn]
    /\ ipc' = During(k)
    /\ clean' = (clean /\ ~(k = "manifest" /\ pc = "started"))
    /\ UNCHANGED <<vars, byHand, wish, data, unit, failures, spoilt, stale>>

Written(k) ==
    /\ ipc = During(k)
    /\ disk' = [disk EXCEPT ![k] = Wanted(k)]
    /\ ipc' = IF k = "manifest" THEN "unit" ELSE "reload"
    /\ spoilt' = IF k = "manifest" THEN spoilt ELSE data # wish.manifest
    /\ UNCHANGED <<vars, byHand, wish, data, unit, failures, stale, clean>>

\* The unit changed: daemon-reload, and the report.
\* BUG: a unit that is there already is not reloaded.
ReloadNew ==
    /\ ipc = "reload"
    /\ unit' = IF unit = NoFile THEN disk["unit"] ELSE unit
    /\ stale' = FALSE
    /\ ipc' = "idle"
    /\ UNCHANGED <<vars, byHand, wish, data, disk, failures, spoilt, clean>>

Reload ==
    /\ ipc = "reload"
    /\ unit' = disk["unit"]
    /\ stale' = FALSE
    /\ ipc' = "idle"
    /\ UNCHANGED <<vars, byHand, wish, data, disk, failures, spoilt, clean>>

\* A read or a write that fails, an install that is killed; a reload that fails
\* or is switched off, which is reported, and the install ends well.
CutShort ==
    /\ ipc # "idle"
    /\ failures < MaxFailures /\ failures' = failures + 1
    /\ ipc' = "idle"
    /\ spoilt' = (spoilt \/ ipc \in {"writing manifest", "unit", "writing unit"})
    /\ stale' = (stale \/ ipc \in {"writing unit", "reload"})
    /\ UNCHANGED <<vars, byHand, wish, data, disk, unit, clean>>

\* systemd reads its units for a reason of its own: a boot, another install.
Reboot ==
    /\ unit' = disk["unit"]
    /\ stale' = FALSE
    /\ UNCHANGED <<vars, byHand, ipc, wish, data, disk, failures, spoilt, clean>>

\* systemd starts the unit it knows: `fornax serve` with the choice pinned
\* there.
StartUnit ==
    /\ Over \/ pc = "file"
    /\ unit \notin {NoFile, Torn}
    /\ choice' = unit
    /\ pc' = "started"
    /\ clean' = (ipc = "idle" /\ ~spoilt /\ ~stale)
    /\ spec' = NoSpeculator /\ command' = <<>> /\ advice' = 0 /\ followed' = 0
    /\ UNCHANGED <<file, host, byHand, ipc, wish, data, disk, unit, failures, spoilt, stale>>

\* Load of the manifest that is placed by then.
LoadPlaced ==
    /\ pc = "started"
    /\ file' = disk["manifest"]
    /\ pc' = IF file' \notin {NoFile, Torn} /\ Validate(file') THEN "loaded" ELSE "invalid"
    /\ UNCHANGED <<host, choice, spec, command, advice, followed, installVars>>

ServeUnit ==
    /\ ResolveSpeculator(choice) \/ Stage \/ CheckMemoryBudget \/ Launch
    /\ UNCHANGED installVars

InstallSteps ==
    \/ \E w \in Wishes : Install(w)
    \/ \E k \in Files : Unchanged(k) \/ Truncate(k) \/ Written(k)
    \/ ReadSource \/ Reload \/ CutShort \/ Reboot

HostNext ==
    \/ byHand /\ Next /\ UNCHANGED installVars
    \/ ~byHand /\ (InstallSteps \/ StartUnit \/ LoadPlaced \/ ServeUnit)

HostSpec == HostInit /\ [][HostNext]_hostVars

-----------------------------------------------------------------------------
(* Properties.                                                             *)

Accepted(m, c) == \E w \in Wishes : w.manifest = m /\ w.pin = c /\ Accepts(w)

\* "Resolve here so an unknown name fails before anything is written, rather
\* than at the first start of a unit that looks installed": once an install
\* has come through on what it validated, and no reload is missing, no start
\* of the unit ends over its manifest, its speculator or a draft head, however
\* earlier installs ended, and whatever a later one does but rewrite the
\* manifest before the start has read it.
UnitStarts == ~byHand /\ clean => pc \notin {"invalid", "unresolved", "failed"}

\* Once an install has come through on what it validated, the two files are
\* what it accepted as a whole, whatever comes of its reload; and systemd has
\* that unit loaded unless a reload is missing, which another install of the
\* same unit, finding "nothing to do", does not make up for.
InstalledStarts ==
    ipc = "idle" /\ ~spoilt /\ disk["unit"] # NoFile =>
        /\ Accepted(disk["manifest"], disk["unit"])
        /\ ~stale => unit = disk["unit"]
=============================================================================
