--------------------------- MODULE ServeLifecycle ---------------------------
(***************************************************************************)
(* `fornax serve` on one host: Serve (internal/runtime/serve.go) with its  *)
(* context, its listener and its engine child, and what /readyz answers    *)
(* meanwhile (internal/runtime/shim.go).                                   *)
(*                                                                         *)
(* Every model of the host is served by a process that is started again    *)
(* after it failed.  It listens first, prepares the weights, launches the  *)
(* engine, and then waits in one select for its context, its engine and    *)
(* its listener.  A process may be killed, and an engine outlives a parent *)
(* that does not wait for it.  How weights are prepared is WeightCache's   *)
(* and LocalWeights' subject; here it is one step that succeeds or fails.  *)
(***************************************************************************)
EXTENDS Naturals

CONSTANTS
    Models,       \* the models of the host, each with its `fornax serve`
    Ports,        \* TCP ports
    ShimPort,     \* ShimPort[m]: --port of the model's serve
    EnginePort,   \* EnginePort[m]: --engine-port of the model's serve
    Engines,      \* engine processes
    MaxFaults,    \* bound on the failures a process reports or sees
    MaxKills,     \* bound on killed processes and lost listeners
    None          \* no process

ASSUME PortAssumption  == /\ ShimPort \in [Models -> Ports]
                          /\ EnginePort \in [Models -> Ports]
ASSUME BoundAssumption == MaxFaults \in Nat /\ MaxKills \in Nat
ASSUME NoneAssumption  == None \notin Models \union Engines

VARIABLES
    pc,       \* where each model's Serve is, or "down"
    stopped,  \* the models whose context is cancelled
    loaded,   \* the models whose SetWeightsLoaded was called
    exit,     \* how the last Serve of each model returned
    shim,     \* shim[p]: the model whose Serve listens on port p, or None
    child,    \* child[m]: the engine Serve has started and not reaped, or None
    engine,   \* the state of each engine process
    of,       \* of[e]: the model engine e was launched for, or None
    faults,   \* failures so far
    kills     \* killed processes and lost listeners so far

vars == <<pc, stopped, loaded, exit, shim, child, engine, of, faults, kills>>

Locations    == {"down", "prepare", "launch", "select", "reap"}
EngineStates == {"unused", "loading", "up", "exited"}
Exits        == {"none", "ok", "error"}

TypeOK ==
    /\ pc \in [Models -> Locations]
    /\ stopped \in SUBSET Models
    /\ loaded \in SUBSET Models
    /\ exit \in [Models -> Exits]
    /\ shim \in [Ports -> Models \union {None}]
    /\ child \in [Models -> Engines \union {None}]
    /\ engine \in [Engines -> EngineStates]
    /\ of \in [Engines -> Models \union {None}]
    /\ faults \in 0 .. MaxFaults
    /\ kills \in 0 .. MaxKills

Init ==
    /\ pc = [m \in Models |-> "down"]
    /\ stopped = {}
    /\ loaded = {}
    /\ exit = [m \in Models |-> "none"]
    /\ shim = [p \in Ports |-> None]
    /\ child = [m \in Models |-> None]
    /\ engine = [e \in Engines |-> "unused"]
    /\ of = [e \in Engines |-> None]
    /\ faults = 0
    /\ kills = 0

-----------------------------------------------------------------------------
Goto(m, l) == pc' = [pc EXCEPT ![m] = l]

Fault == faults < MaxFaults /\ faults' = faults + 1

Kill == kills < MaxKills /\ kills' = kills + 1

Listens(m) == shim[ShimPort[m]] = m

Alive(e) == engine[e] \in {"loading", "up"}

\* The process of model m ends: its listener is closed, nothing else is.
Exit(m, status) ==
    /\ Goto(m, "down")
    /\ exit' = [exit EXCEPT ![m] = status]
    /\ shim' = [shim EXCEPT ![ShimPort[m]] = IF Listens(m) THEN None ELSE @]
    /\ stopped' = stopped \ {m}
    /\ loaded' = loaded \ {m}

\* The process table forgets engine e.
Reaped(e) ==
    /\ engine' = [engine EXCEPT ![e] = "unused"]
    /\ of' = [of EXCEPT ![e] = None]

\* Model m waits for its engine no more: a dead one is reaped by init, a
\* living one runs on.
Abandon(m) ==
    /\ child' = [child EXCEPT ![m] = None]
    /\ IF child[m] # None /\ engine[child[m]] = "exited"
       THEN Reaped(child[m])
       ELSE UNCHANGED <<engine, of>>

-----------------------------------------------------------------------------
\* Mutant of Listen: the port is taken with SO_REUSEPORT.
ListenShares(m) ==
    /\ pc[m] = "down"
    /\ shim' = [shim EXCEPT ![ShimPort[m]] = m]
    /\ exit' = [exit EXCEPT ![m] = "none"]
    /\ Goto(m, "prepare")
    /\ UNCHANGED <<stopped, loaded, child, engine, of, faults, kills>>

\* Serve up to the listener, started by systemd, the kubelet or by hand.
Listen(m) ==
    /\ pc[m] = "down"
    /\ shim[ShimPort[m]] = None
    /\ shim' = [shim EXCEPT ![ShimPort[m]] = m]
    /\ exit' = [exit EXCEPT ![m] = "none"]
    /\ Goto(m, "prepare")
    /\ UNCHANGED <<stopped, loaded, child, engine, of, faults, kills>>

\* The port is in use.
ListenFails(m) ==
    /\ pc[m] = "down"
    /\ shim[ShimPort[m]] # None
    /\ exit' = [exit EXCEPT ![m] = "error"]
    /\ UNCHANGED <<pc, stopped, loaded, shim, child, engine, of, faults, kills>>

\* The weights are verified and the preflight passes: SetWeightsLoaded.  A
\* context cancelled meanwhile is not looked at.
Prepared(m) ==
    /\ pc[m] = "prepare"
    /\ loaded' = loaded \union {m}
    /\ Goto(m, "launch")
    /\ UNCHANGED <<stopped, exit, shim, child, engine, of, faults, kills>>

PrepareFails(m) ==
    /\ pc[m] = "prepare"
    /\ Fault
    /\ Exit(m, "error")
    /\ UNCHANGED <<child, engine, of, kills>>

\* exec.CommandContext and Start.
Launch(m) ==
    /\ pc[m] = "launch"
    /\ m \notin stopped
    /\ \E e \in Engines :
          /\ engine[e] = "unused"
          /\ engine' = [engine EXCEPT ![e] = "loading"]
          /\ of' = [of EXCEPT ![e] = m]
          /\ child' = [child EXCEPT ![m] = e]
    /\ Goto(m, "select")
    /\ UNCHANGED <<stopped, loaded, exit, shim, faults, kills>>

\* Start refuses a cancelled context, or the command cannot be started.
LaunchFails(m) ==
    /\ pc[m] = "launch"
    /\ \/ m \in stopped /\ UNCHANGED faults
       \/ Fault
    /\ Exit(m, "error")
    /\ UNCHANGED <<child, engine, of, kills>>

\* SIGTERM or SIGINT cancels the context.
Stop(m) ==
    /\ pc[m] # "down"
    /\ m \notin stopped
    /\ stopped' = stopped \union {m}
    /\ UNCHANGED <<pc, loaded, exit, shim, child, engine, of, faults, kills>>

\* Mutant of KillEngine: exec.Command in place of exec.CommandContext.
KillsNothing(m) == FALSE /\ UNCHANGED vars

\* CommandContext kills the engine of a cancelled context.
KillEngine(m) ==
    /\ m \in stopped
    /\ child[m] # None
    /\ Alive(child[m])
    /\ engine' = [engine EXCEPT ![child[m]] = "exited"]
    /\ UNCHANGED <<pc, stopped, loaded, exit, shim, child, of, faults, kills>>

\* Mutant of SelectStopped: Serve returns without <-engineErr.
ReturnsAtOnce(m) ==
    /\ pc[m] = "select"
    /\ m \in stopped
    /\ Exit(m, "ok")
    /\ Abandon(m)
    /\ UNCHANGED <<faults, kills>>

\* `case <-ctx.Done()`.
SelectStopped(m) ==
    /\ pc[m] = "select"
    /\ m \in stopped
    /\ Goto(m, "reap")
    /\ UNCHANGED <<stopped, loaded, exit, shim, child, engine, of, faults, kills>>

\* `<-engineErr`, and Serve returns nil.
Reap(m) ==
    /\ pc[m] = "reap"
    /\ engine[child[m]] = "exited"
    /\ Exit(m, "ok")
    /\ Abandon(m)
    /\ UNCHANGED <<faults, kills>>

\* `case err := <-engineErr`: the engine is reaped already.
SelectExited(m) ==
    /\ pc[m] = "select"
    /\ engine[child[m]] = "exited"
    /\ Exit(m, "error")
    /\ Abandon(m)
    /\ UNCHANGED <<faults, kills>>

\* Mutant of SelectServeErr: the listener's error is not waited for.
IgnoresServeErr(m) == FALSE /\ UNCHANGED vars

\* `case err := <-serveErr`: Serve returns, and the engine runs on.
SelectServeErr(m) ==
    /\ pc[m] = "select"
    /\ ~ Listens(m)
    /\ Exit(m, "error")
    /\ Abandon(m)
    /\ UNCHANGED <<faults, kills>>

\* The accept loop of the listener fails; Serve notices in its select only.
LoseListener(m) ==
    /\ pc[m] # "down"
    /\ Listens(m)
    /\ Kill
    /\ shim' = [shim EXCEPT ![ShimPort[m]] = None]
    /\ UNCHANGED <<pc, stopped, loaded, exit, child, engine, of, faults>>

\* The process is killed.
Die(m) ==
    /\ pc[m] # "down"
    /\ Kill
    /\ Exit(m, "error")
    /\ Abandon(m)
    /\ UNCHANGED faults

-----------------------------------------------------------------------------
\* Engines, external to the repository.
Orphan(e) == engine[e] # "unused" /\ \A m \in Models : child[m] # e

\* An engine answers on the port.
Answers(p) == \E e \in Engines : engine[e] = "up" /\ EnginePort[of[e]] = p

EngineExits(e) ==
    \/ /\ ~ Orphan(e)
       /\ engine' = [engine EXCEPT ![e] = "exited"]
       /\ UNCHANGED of
    \/ /\ Orphan(e)
       /\ Reaped(e)

\* The model is in memory: the engine binds its port, or finds it in use.
EngineUp(e) ==
    /\ engine[e] = "loading"
    /\ \/ /\ ~ Answers(EnginePort[of[e]])
          /\ engine' = [engine EXCEPT ![e] = "up"]
          /\ UNCHANGED of
       \/ /\ Answers(EnginePort[of[e]])
          /\ EngineExits(e)
    /\ UNCHANGED <<pc, stopped, loaded, exit, shim, child, faults, kills>>

EngineFails(e) ==
    /\ Alive(e)
    /\ Fault
    /\ EngineExits(e)
    /\ UNCHANGED <<pc, stopped, loaded, exit, shim, child, kills>>

\* systemd or the container runtime ends what a dead serve left behind.
Sweep(e) ==
    /\ Alive(e)
    /\ Orphan(e)
    /\ Reaped(e)
    /\ UNCHANGED <<pc, stopped, loaded, exit, shim, child, faults, kills>>

Step(m) ==
    \/ Prepared(m) \/ Launch(m) \/ LaunchFails(m)
    \/ SelectStopped(m) \/ Reap(m) \/ SelectExited(m) \/ SelectServeErr(m)

Next ==
    \/ \E m \in Models : \/ Listen(m)
                         \/ ListenFails(m)
                         \/ Prepared(m)
                         \/ PrepareFails(m)
                         \/ Launch(m)
                         \/ LaunchFails(m)
                         \/ Stop(m)
                         \/ KillEngine(m)
                         \/ SelectStopped(m)
                         \/ Reap(m)
                         \/ SelectExited(m)
                         \/ SelectServeErr(m)
                         \/ LoseListener(m)
                         \/ Die(m)
    \/ \E e \in Engines : EngineUp(e) \/ EngineFails(e) \/ Sweep(e)

Spec == Init /\ [][Next]_vars

\* A process runs on, the context's watcher kills, an engine that loads gets
\* there; what failed is started again, what was stopped need not be; what a
\* dead process left behind is ended.
Fairness ==
    /\ \A m \in Models : /\ WF_vars(Step(m))
                         /\ WF_vars(KillEngine(m))
                         /\ WF_vars(exit[m] # "ok" /\ Listen(m))
    /\ \A e \in Engines : WF_vars(EngineUp(e)) /\ WF_vars(Sweep(e))

FairSpec == Spec /\ Fairness

-----------------------------------------------------------------------------
\* Whose a port, an engine and a process are.  A listener is a living Serve's;
\* Serve has an engine exactly while it selects or reaps; engines are of the
\* model that launched them, and dead ones do not outlast their parent.
Ownership ==
    /\ \A p \in Ports : shim[p] # None => pc[shim[p]] # "down" /\ ShimPort[shim[p]] = p
    /\ \A m \in Models : /\ child[m] # None <=> pc[m] \in {"select", "reap"}
                         /\ child[m] # None => of[child[m]] = m
    /\ \A e \in Engines : /\ engine[e] = "unused" <=> of[e] = None
                          /\ engine[e] = "exited" => ~ Orphan(e)

\* Without kills a Serve that runs also listens.
Listening == kills = 0 => \A m \in Models : pc[m] # "down" => Listens(m)

-----------------------------------------------------------------------------
\* /readyz on the port of model m answers 200: Ready of probeHandler, weights
\* first, then the engine's health.
Ready(m) == Listens(m) /\ m \in loaded /\ Answers(EnginePort[m])

\* The engine that Serve has launched for m answers.
OwnEngineUp(m) == child[m] # None /\ engine[child[m]] = "up"

\* No exit of Serve leaves an engine behind, neither a stop at any moment nor
\* any failure: unless a process was killed or a listener lost, every engine
\* still has the Serve that will wait for it.
NoOrphans == kills = 0 => \A e \in Engines : ~ Orphan(e)

\* The inductive invariant behind NoOrphans and ReadyIsWaitedFor.
HostInv == TypeOK /\ Ownership /\ Listening /\ NoOrphans

\* "GET /readyz - 200 when weights are loaded AND the engine is healthy": what
\* is asked for its health is whatever answers on --engine-port (EngineHealthy),
\* and nothing keeps two serves with different --port from being given the same
\* one.  Unless a process was killed or a listener lost, a ready answer of m
\* rests on an engine that a Serve has launched and waits for: m's own, or that
\* of a model which has m's engine port and a port other than m's.
ReadyIsWaitedFor ==
    kills = 0 => \A m \in Models : Ready(m) =>
        \E n \in Models : /\ EnginePort[n] = EnginePort[m] /\ OwnEngineUp(n)
                          /\ n = m \/ ShimPort[n] # ShimPort[m]

\* A cancelled context ends Serve, whenever it is cancelled and whatever the
\* engine does (Serve: "returns when ctx is cancelled or the engine exits").
StopEnds == \A m \in Models : m \in stopped ~> pc[m] = "down"

\* Whatever was killed, lost or failed before, a host whose models are not
\* stopped any more gets one to answer ready and keeps it.
ComesUp ==
    <>[](\A m \in Models : m \notin stopped /\ exit[m] # "ok")
        => <>[](\E m \in Models : Ready(m) /\ OwnEngineUp(m))
=============================================================================
