----------------------- MODULE ServeLifecycleProofs -----------------------
(***************************************************************************)
(* What holds of `fornax serve` for any number of models, engines, faults  *)
(* and kills: HostInv is inductive, so no engine is orphaned and no ready  *)
(* answer rests on an engine nobody waits for unless a process was killed  *)
(* or a listener lost.                                                     *)
(***************************************************************************)
EXTENDS ServeLifecycle, TLAPS

\* Every exit of Serve, whatever its reason (the error returns of Serve, its
\* three select cases, a kill), keeps the invariant, as long as it leaves a
\* living engine behind after a kill only.
LEMMA ExitKeepsHostInv ==
    ASSUME HostInv,
           NEW m \in Models, pc[m] # "down",
           NEW status \in Exits, Exit(m, status), Abandon(m),
           faults' \in 0 .. MaxFaults, kills' \in 0 .. MaxKills,
           kills' = 0 => kills = 0,
           kills' = 0 => child[m] = None \/ engine[child[m]] = "exited"
    PROVE  HostInv'
<1> USE PortAssumption, NoneAssumption
<1>1. /\ pc' = [pc EXCEPT ![m] = "down"]
      /\ exit' = [exit EXCEPT ![m] = status]
      /\ shim' = [shim EXCEPT ![ShimPort[m]] = IF Listens(m) THEN None ELSE @]
      /\ stopped' = stopped \ {m}
      /\ loaded' = loaded \ {m}
      /\ child' = [child EXCEPT ![m] = None]
  BY DEF Exit, Goto, Abandon
<1>2. \/ /\ child[m] # None /\ engine[child[m]] = "exited"
         /\ engine' = [engine EXCEPT ![child[m]] = "unused"]
         /\ of' = [of EXCEPT ![child[m]] = None]
      \/ /\ child[m] = None \/ engine[child[m]] # "exited"
         /\ engine' = engine
         /\ of' = of
  BY DEF Abandon, Reaped
<1>3. TypeOK'
  BY <1>1, <1>2 DEF HostInv, TypeOK, Locations, EngineStates
<1>4. Ownership'
  <2>1. \A p \in Ports : shim'[p] # None => pc'[shim'[p]] # "down" /\ ShimPort[shim'[p]] = p
    BY <1>1 DEF HostInv, TypeOK, Ownership, Listens
  <2>2. \A n \in Models : /\ child'[n] # None <=> pc'[n] \in {"select", "reap"}
                          /\ child'[n] # None => of'[child'[n]] = n
    BY <1>1, <1>2 DEF HostInv, TypeOK, Ownership
  <2>3. \A e \in Engines : engine'[e] = "unused" <=> of'[e] = None
    BY <1>1, <1>2 DEF HostInv, TypeOK, Ownership
  <2>4. ASSUME NEW e \in Engines, engine'[e] = "exited"
        PROVE  \E n \in Models : child'[n] = e
    <3>1. engine[e] = "exited" /\ child[m] # e
      BY <1>2, <2>4 DEF HostInv, TypeOK
    <3>2. PICK n \in Models : child[n] = e
      BY <3>1 DEF HostInv, Ownership, Orphan
    <3> QED  BY <1>1, <3>1, <3>2 DEF HostInv, TypeOK
  <2> QED  BY <2>1, <2>2, <2>3, <2>4 DEF Ownership, Orphan
<1>5. Listening'
  BY <1>1 DEF HostInv, TypeOK, Listening, Listens, Ownership
<1>6. NoOrphans'
  <2>1. SUFFICES ASSUME kills' = 0, NEW e \in Engines, engine'[e] # "unused"
                 PROVE  \E n \in Models : child'[n] = e
    BY DEF NoOrphans, Orphan
  <2>2. engine[e] # "unused" /\ child[m] # e
    BY <1>2, <2>1 DEF HostInv, TypeOK
  <2>3. PICK n \in Models : child[n] = e
    BY <2>1, <2>2 DEF HostInv, NoOrphans, Orphan
  <2> QED  BY <1>1, <2>2, <2>3 DEF HostInv, TypeOK
<1> QED  BY <1>3, <1>4, <1>5, <1>6 DEF HostInv

\* An engine that ends becomes a child to be reaped, or is gone.
LEMMA EngineExitKeepsHostInv ==
    ASSUME HostInv,
           NEW e \in Engines, Alive(e), EngineExits(e),
           UNCHANGED <<pc, stopped, loaded, exit, shim, child, kills>>,
           faults' \in 0 .. MaxFaults
    PROVE  HostInv'
<1> USE PortAssumption, NoneAssumption
<1>1. CASE ~ Orphan(e) /\ engine' = [engine EXCEPT ![e] = "exited"] /\ of' = of
  <2>1. TypeOK'
    BY <1>1 DEF HostInv, TypeOK, EngineStates
  <2>2. engine[e] # "unused"
    BY DEF Alive
  <2>3. Ownership'
    BY <1>1, <2>2 DEF HostInv, TypeOK, Ownership, Orphan
  <2>4. Listening'
    BY DEF HostInv, Listening, Listens
  <2>5. NoOrphans'
    BY <1>1, <2>2 DEF HostInv, TypeOK, NoOrphans, Orphan
  <2> QED  BY <2>1, <2>3, <2>4, <2>5 DEF HostInv
<1>2. CASE Orphan(e) /\ Reaped(e)
  <2>1. /\ engine' = [engine EXCEPT ![e] = "unused"]
        /\ of' = [of EXCEPT ![e] = None]
        /\ \A n \in Models : child[n] # e
    BY <1>2 DEF Reaped, Orphan
  <2>2. TypeOK'
    BY <2>1 DEF HostInv, TypeOK, EngineStates
  <2>3. Ownership'
    BY <2>1 DEF HostInv, TypeOK, Ownership, Orphan
  <2>4. Listening' /\ NoOrphans'
    BY <2>1 DEF HostInv, TypeOK, Listening, Listens, NoOrphans, Orphan
  <2> QED  BY <2>2, <2>3, <2>4 DEF HostInv
<1> QED  BY <1>1, <1>2 DEF EngineExits

\* HostInv is an invariant of Serve: who listens, who has an engine and who
\* waits for it, with any failures, stops, kills and restarts.
THEOREM HostInvariant == Spec => []HostInv
<1> USE PortAssumption, BoundAssumption, NoneAssumption
<1>1. Init => HostInv
  BY DEF Init, HostInv, TypeOK, Locations, EngineStates, Exits, Ownership, Listening,
         NoOrphans, Orphan
<1>2. HostInv /\ [Next]_vars => HostInv'
  <2> SUFFICES ASSUME HostInv, [Next]_vars PROVE HostInv'
    OBVIOUS
  <2>1. CASE UNCHANGED vars
    BY <2>1 DEF vars, HostInv, TypeOK, Ownership, Listening, Listens, NoOrphans, Orphan
  <2>2. ASSUME NEW m \in Models, Listen(m) PROVE HostInv'
    <3>1. TypeOK'
      BY <2>2 DEF Listen, Goto, HostInv, TypeOK, Locations, Exits
    <3>2. Ownership' /\ Listening'
      BY <2>2 DEF Listen, Goto, HostInv, TypeOK, Ownership, Orphan, Listening, Listens
    <3>3. NoOrphans'
      BY <2>2 DEF Listen, HostInv, NoOrphans, Orphan
    <3> QED  BY <3>1, <3>2, <3>3 DEF HostInv
  <2>3. ASSUME NEW m \in Models, ListenFails(m) PROVE HostInv'
    BY <2>3 DEF ListenFails, HostInv, TypeOK, Exits, Ownership, Orphan, Listening, Listens,
                NoOrphans
  <2>4. ASSUME NEW m \in Models, Prepared(m) PROVE HostInv'
    BY <2>4 DEF Prepared, Goto, HostInv, TypeOK, Locations, Ownership, Orphan, Listening,
                Listens, NoOrphans
  <2>5. ASSUME NEW m \in Models, PrepareFails(m) PROVE HostInv'
    <3>1. child[m] = None /\ pc[m] # "down"
      BY <2>5 DEF PrepareFails, HostInv, Ownership
    <3>2. Abandon(m)
      BY <2>5, <3>1 DEF PrepareFails, Abandon, HostInv, TypeOK
    <3> QED
      BY <2>5, <3>1, <3>2, ExitKeepsHostInv DEF PrepareFails, Fault, HostInv, TypeOK, Exits
  <2>6. ASSUME NEW m \in Models, Launch(m) PROVE HostInv'
    <3>1. PICK e \in Engines : /\ engine[e] = "unused"
                               /\ engine' = [engine EXCEPT ![e] = "loading"]
                               /\ of' = [of EXCEPT ![e] = m]
                               /\ child' = [child EXCEPT ![m] = e]
      BY <2>6 DEF Launch
    <3>2. /\ pc[m] = "launch" /\ pc' = [pc EXCEPT ![m] = "select"]
          /\ UNCHANGED <<stopped, loaded, exit, shim, faults, kills>>
      BY <2>6 DEF Launch, Goto
    <3>3. \A n \in Models : child[n] # e
      BY <3>1 DEF HostInv, TypeOK, Ownership
    <3>4. child[m] = None
      BY <3>2 DEF HostInv, Ownership
    <3>5. TypeOK'
      BY <3>1, <3>2 DEF HostInv, TypeOK, Locations, EngineStates
    <3>6. Ownership'
      BY <3>1, <3>2, <3>3, <3>4 DEF HostInv, TypeOK, Ownership, Orphan
    <3>7. Listening'
      BY <3>2 DEF HostInv, TypeOK, Listening, Listens
    <3>8. NoOrphans'
      BY <3>1, <3>2, <3>4 DEF HostInv, TypeOK, NoOrphans, Orphan
    <3> QED  BY <3>5, <3>6, <3>7, <3>8 DEF HostInv
  <2>7. ASSUME NEW m \in Models, LaunchFails(m) PROVE HostInv'
    <3>1. child[m] = None /\ pc[m] # "down"
      BY <2>7 DEF LaunchFails, HostInv, Ownership
    <3>2. Abandon(m)
      BY <2>7, <3>1 DEF LaunchFails, Abandon, HostInv, TypeOK
    <3> QED
      BY <2>7, <3>1, <3>2, ExitKeepsHostInv DEF LaunchFails, Fault, HostInv, TypeOK, Exits
  <2>8. ASSUME NEW m \in Models, Stop(m) PROVE HostInv'
    BY <2>8 DEF Stop, HostInv, TypeOK, Ownership, Orphan, Listening, Listens, NoOrphans
  <2>9. ASSUME NEW m \in Models, KillEngine(m) PROVE HostInv'
    <3>1. /\ child[m] \in Engines
          /\ engine[child[m]] \in {"loading", "up"}
          /\ engine' = [engine EXCEPT ![child[m]] = "exited"]
          /\ UNCHANGED <<pc, stopped, loaded, exit, shim, child, of, faults, kills>>
      BY <2>9 DEF KillEngine, Alive, HostInv, TypeOK
    <3>2. TypeOK' /\ Listening'
      BY <3>1 DEF HostInv, TypeOK, EngineStates, Listening, Listens
    <3>3. Ownership' /\ NoOrphans'
      BY <3>1 DEF HostInv, TypeOK, Ownership, Orphan, NoOrphans
    <3> QED  BY <3>2, <3>3 DEF HostInv
  <2>10. ASSUME NEW m \in Models, SelectStopped(m) PROVE HostInv'
    BY <2>10 DEF SelectStopped, Goto, HostInv, TypeOK, Locations, Ownership, Orphan,
                 Listening, Listens, NoOrphans
  <2>11. ASSUME NEW m \in Models, Reap(m) PROVE HostInv'
    BY <2>11, ExitKeepsHostInv DEF Reap, HostInv, TypeOK, Exits
  <2>12. ASSUME NEW m \in Models, SelectExited(m) PROVE HostInv'
    BY <2>12, ExitKeepsHostInv DEF SelectExited, HostInv, TypeOK, Exits
  <2>13. ASSUME NEW m \in Models, SelectServeErr(m) PROVE HostInv'
    <3>1. kills' # 0
      BY <2>13 DEF SelectServeErr, HostInv, Listening
    <3> QED
      BY <2>13, <3>1, ExitKeepsHostInv DEF SelectServeErr, HostInv, TypeOK, Exits
  <2>14. ASSUME NEW m \in Models, LoseListener(m) PROVE HostInv'
    <3>1. kills' \in 0 .. MaxKills /\ kills' # 0
      BY <2>14 DEF LoseListener, Kill, HostInv, TypeOK
    <3>2. TypeOK'
      BY <2>14, <3>1 DEF LoseListener, HostInv, TypeOK
    <3>3. Ownership'
      BY <2>14 DEF LoseListener, HostInv, TypeOK, Ownership, Orphan
    <3> QED  BY <3>1, <3>2, <3>3 DEF HostInv, Listening, NoOrphans
  <2>15. ASSUME NEW m \in Models, Die(m) PROVE HostInv'
    <3>1. kills' \in 0 .. MaxKills /\ kills' # 0
      BY <2>15 DEF Die, Kill, HostInv, TypeOK
    <3> QED
      BY <2>15, <3>1, ExitKeepsHostInv DEF Die, HostInv, TypeOK, Exits
  <2>16. ASSUME NEW e \in Engines, EngineUp(e) PROVE HostInv'
    <3>1. CASE engine' = [engine EXCEPT ![e] = "up"] /\ UNCHANGED of
      <4>1. engine[e] = "loading" /\ UNCHANGED <<pc, stopped, loaded, exit, shim, child, faults, kills>>
        BY <2>16 DEF EngineUp
      <4>2. TypeOK' /\ Listening'
        BY <3>1, <4>1 DEF HostInv, TypeOK, EngineStates, Listening, Listens
      <4>3. Ownership' /\ NoOrphans'
        BY <3>1, <4>1 DEF HostInv, TypeOK, Ownership, Orphan, NoOrphans
      <4> QED  BY <4>2, <4>3 DEF HostInv
    <3>2. CASE EngineExits(e)
      BY <2>16, <3>2, EngineExitKeepsHostInv DEF EngineUp, Alive, HostInv, TypeOK
    <3> QED  BY <2>16, <3>1, <3>2 DEF EngineUp
  <2>17. ASSUME NEW e \in Engines, EngineFails(e) PROVE HostInv'
    BY <2>17, EngineExitKeepsHostInv DEF EngineFails, Fault, HostInv, TypeOK
  <2>18. ASSUME NEW e \in Engines, Sweep(e) PROVE HostInv'
    BY <2>18, EngineExitKeepsHostInv DEF Sweep, EngineExits, HostInv, TypeOK
  <2> QED
    BY <2>1, <2>2, <2>3, <2>4, <2>5, <2>6, <2>7, <2>8, <2>9, <2>10, <2>11, <2>12, <2>13,
       <2>14, <2>15, <2>16, <2>17, <2>18 DEF Next
<1> QED  BY <1>1, <1>2, PTL DEF Spec

\* No exit of Serve leaves an engine behind unless something was killed.
THEOREM NoOrphansTheorem == Spec => []NoOrphans
<1>1. HostInv => NoOrphans
  BY DEF HostInv
<1> QED  BY <1>1, HostInvariant, PTL

\* However ports are given to the models, a ready answer rests on an engine that
\* a Serve waits for, and on another model's only if that model has a listener
\* on a port of its own: no two that run have the same port.
THEOREM ReadyIsWaitedForTheorem == Spec => []ReadyIsWaitedFor
<1>1. HostInv => ReadyIsWaitedFor
  <2> SUFFICES ASSUME HostInv, kills = 0, NEW m \in Models, Ready(m)
               PROVE  \E n \in Models : /\ EnginePort[n] = EnginePort[m] /\ OwnEngineUp(n)
                                        /\ n = m \/ ShimPort[n] # ShimPort[m]
    BY DEF ReadyIsWaitedFor
  <2>1. PICK e \in Engines : engine[e] = "up" /\ EnginePort[of[e]] = EnginePort[m]
    BY DEF Ready, Answers
  <2>2. PICK n \in Models : child[n] = e
    BY <2>1 DEF HostInv, NoOrphans, Orphan
  <2>3. of[e] = n /\ pc[n] # "down"
    BY <2>2, NoneAssumption DEF HostInv, Ownership
  <2>4. shim[ShimPort[n]] = n /\ shim[ShimPort[m]] = m
    BY <2>3 DEF HostInv, Listening, Listens, Ready
  <2>5. OwnEngineUp(n)
    BY <2>1, <2>2, NoneAssumption DEF OwnEngineUp
  <2> QED  BY <2>1, <2>3, <2>4, <2>5
<1> QED  BY <1>1, HostInvariant, PTL
=============================================================================
