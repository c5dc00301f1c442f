---------------------------- MODULE HarnessRun -----------------------------
(***************************************************************************)
(* `fornax run`: which model of the host a harness is launched against,    *)
(* while the host of ServeLifecycle goes on.  Discover and probe of        *)
(* internal/harness, resolveModel, runHarness and awaitReady of            *)
(* cmd/fornax.                                                             *)
(*                                                                         *)
(* A probe asks the port of the model's unit first whether it is ready and *)
(* then which model it serves; the host may change between the two, and    *)
(* again before the harness is launched.  A request that gets no answer in *)
(* time counts like one that gets none.  `ps` and `endpoint` probe alike   *)
(* and end with what they found.                                           *)
(***************************************************************************)
EXTENDS ServeLifecycle

CONSTANTS
    Target,       \* the model asked for
    UnitPort,     \* UnitPort[m]: the --port in the ExecStart of m's unit, or
                  \* None where the unit, or the flag, is not there
    DefaultPort,  \* the port of a serve that is given none
    MaxSlow,      \* bound on probes that time out
    MaxInstalls   \* bound on manifests written while the session runs

ASSUME UnitAssumption   == UnitPort \in [Models -> Ports \union {None}] /\ DefaultPort \in Ports
ASSUME TargetAssumption == Target \in Models /\ MaxSlow \in Nat /\ MaxInstalls \in Nat

VARIABLES
    hpc,       \* where the session is
    found,     \* the state the last probe gave the target
    patient,   \* --wait is given
    waiting,   \* the session is in awaitReady's loop
    expired,   \* and its deadline has passed
    lost,      \* listeners or answering engines lost: "no", "before" or
               \* "since" the last probe began
    slow,      \* probes timed out so far
    torn,      \* a manifest of the host is being written
    installs   \* manifests written so far

sessionVars == <<hpc, found, patient, waiting, expired, lost, slow, torn, installs>>
allVars     == <<vars, sessionVars>>

SessionInit ==
    /\ Init
    /\ hpc = "off"
    /\ found = "none"
    /\ patient \in BOOLEAN
    /\ waiting = FALSE /\ expired = FALSE
    /\ lost = "no"
    /\ slow = 0
    /\ torn = FALSE
    /\ installs = 0

\* portFromUnit: where the model is looked for, which need not be where a serve
\* of it that was started by hand listens.
Port   == IF UnitPort[Target] = None THEN DefaultPort ELSE UnitPort[Target]
Ended  == hpc \in {"launched", "refused", "gave up"}
Served == shim[Port]   \* the model whose Serve has that port

-----------------------------------------------------------------------------
StartRun ==
    /\ hpc = "off"
    /\ hpc' = "list"
    /\ UNCHANGED <<vars, found, patient, waiting, expired, lost, slow, torn, installs>>

\* LoadDir: one manifest that cannot be read fails them all.
ListModels ==
    /\ hpc = "list"
    /\ hpc' = IF torn THEN "gave up" ELSE "readyz"
    /\ UNCHANGED <<vars, found, patient, waiting, expired, lost, slow, torn, installs>>

\* The probe's first request.  A Serve that loads answers 503, and it is not
\* asked whose it is.
AskReadyz ==
    /\ hpc = "readyz"
    /\ lost' = IF lost = "no" THEN "no" ELSE "before"
    /\ IF ~expired /\ Served # None /\ Ready(Served)
       THEN hpc' = "models" /\ UNCHANGED found
       ELSE /\ hpc' = "decide"
            /\ found' = IF expired \/ Served = None THEN "down" ELSE "loading"
    /\ UNCHANGED <<vars, patient, waiting, expired, slow, torn, installs>>

ReadyzTimesOut ==
    /\ hpc = "readyz"
    /\ slow < MaxSlow /\ slow' = slow + 1
    /\ hpc' = "decide"
    /\ found' = "down"
    /\ UNCHANGED <<vars, patient, waiting, expired, lost, torn, installs>>

\* serves: /v1/models is proxied to the engine; only an answer that names
\* another model counts against it.
Identified(e) == engine[e] = "up" /\ EnginePort[of[e]] = EnginePort[Served]

\* BUG: whatever is ready on the port is the target.
AskModelsTrusting ==
    /\ hpc = "models"
    /\ found' = "ready"
    /\ hpc' = "decide"
    /\ UNCHANGED <<vars, patient, waiting, expired, lost, slow, torn, installs>>

AskModels ==
    /\ hpc = "models"
    /\ found' = IF ~expired /\ Served # None
                   /\ \E e \in Engines : Identified(e) /\ of[e] # Target
                THEN "down" ELSE "ready"
    /\ hpc' = "decide"
    /\ UNCHANGED <<vars, patient, waiting, expired, lost, slow, torn, installs>>

ModelsTimesOut ==
    /\ hpc = "models"
    /\ slow < MaxSlow /\ slow' = slow + 1
    /\ hpc' = "decide"
    /\ found' = "ready"
    /\ UNCHANGED <<vars, patient, waiting, expired, lost, torn, installs>>

\* awaitReady, before the loop and in it.
\* BUG: anything but a ready model ends the loop.
DecideImpatient ==
    /\ hpc = "decide"
    /\ hpc' = CASE found = "ready" -> "launched"
                [] found # "ready" /\ waiting -> "gave up"
                [] found # "ready" /\ ~waiting /\ patient -> "asleep"
                [] OTHER -> "refused"
    /\ waiting' = (waiting \/ hpc' = "asleep")
    /\ UNCHANGED <<vars, found, patient, expired, lost, slow, torn, installs>>

Decide ==
    /\ hpc = "decide"
    /\ hpc' = CASE found = "ready" -> "launched"
                [] found = "down" /\ waiting -> "gave up"
                [] found = "loading" /\ (waiting \/ patient) -> "asleep"
                [] OTHER -> "refused"
    /\ waiting' = (waiting \/ hpc' = "asleep")
    /\ UNCHANGED <<vars, found, patient, expired, lost, slow, torn, installs>>

\* wait.Until: the next poll, or the deadline; when both are due, either.
Poll ==
    /\ hpc = "asleep"
    /\ hpc' = "list"
    /\ UNCHANGED <<vars, found, patient, waiting, expired, lost, slow, torn, installs>>

\* BUG: the loop runs on a context without a deadline.
NoDeadline == FALSE /\ UNCHANGED allVars

Expire ==
    /\ waiting /\ ~Ended /\ ~expired
    /\ expired' = TRUE
    /\ UNCHANGED <<vars, hpc, found, patient, waiting, lost, slow, torn, installs>>

GiveUp ==
    /\ hpc = "asleep" /\ expired
    /\ hpc' = "gave up"
    /\ UNCHANGED <<vars, found, patient, waiting, expired, lost, slow, torn, installs>>

-----------------------------------------------------------------------------
\* The host takes a step; what it loses is noted.
Loss ==
    \/ \E p \in Ports : shim[p] # None /\ shim'[p] # shim[p]
    \/ \E e \in Engines : engine[e] = "up" /\ engine'[e] # "up"

HostStep ==
    /\ Next
    /\ lost' = IF hpc # "off" /\ Loss THEN "since" ELSE lost
    /\ UNCHANGED <<hpc, found, patient, waiting, expired, slow, torn, installs>>

\* An install writes a manifest of this host; it may never finish.
WriteManifest ==
    /\ ~torn
    /\ installs < MaxInstalls /\ installs' = installs + 1
    /\ torn' = TRUE
    /\ UNCHANGED <<vars, hpc, found, patient, waiting, expired, lost, slow>>

ManifestWritten ==
    /\ torn
    /\ torn' = FALSE
    /\ UNCHANGED <<vars, hpc, found, patient, waiting, expired, lost, slow, installs>>

Session ==
    \/ ListModels \/ AskReadyz \/ ReadyzTimesOut \/ AskModels \/ ModelsTimesOut
    \/ Decide \/ Poll \/ GiveUp

SessionNext ==
    StartRun \/ Session \/ Expire \/ HostStep \/ WriteManifest \/ ManifestWritten

SessionSpec == SessionInit /\ [][SessionNext]_allVars

\* A session that is started runs, every request of it ends, and its deadline
\* comes.  The host may do what it likes.
FairSessionSpec == SessionSpec /\ WF_allVars(Session) /\ WF_allVars(Expire)

-----------------------------------------------------------------------------
(* Properties.                                                             *)

\* A harness is launched against the model that was asked for: an engine of
\* it answers behind the port it is pointed at, however many models share
\* that port and whatever earlier processes left behind; unless a request
\* timed out or a listener or an engine went away while the probe ran.
AnswersFor(m) ==
    Served # None /\ \E e \in Engines : Identified(e) /\ of[e] = m

LaunchedOnOwnEngine ==
    [][hpc' = "launched" /\ hpc # "launched" /\ lost # "since" /\ slow = 0 /\ ~expired
           => AnswersFor(Target)]_allVars

\* Why a session may stop waiting for its model: its deadline, a request that
\* timed out, a manifest that was written meanwhile, a listener or an engine
\* that the host lost since the session began, or a Serve on the port it waits
\* on behind which an engine of another model answers.
Cause ==
    \/ expired \/ slow > 0 \/ installs > 0 \/ lost # "no"
    \/ Served # None /\ \E e \in Engines : Identified(e) /\ of[e] # Target

\* A session that waits for a model gives up for such a reason only: not when
\* the model is merely still loading, and not when its port is not yet open.
GivesUpForCause == hpc = "gave up" => Cause

\* A session ends: with a harness, a refusal, or the news that it gave up.
SessionEnds == hpc = "list" ~> Ended
=============================================================================
