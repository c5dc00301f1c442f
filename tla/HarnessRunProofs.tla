-------------------------- MODULE HarnessRunProofs --------------------------
(***************************************************************************)
(* What holds of a `fornax run` session on any host: the session leaves    *)
(* the host to itself, and a harness is launched on the engine of the      *)
(* model that was asked for unless something timed out or went away.       *)
(***************************************************************************)
EXTENDS HarnessRun, ServeLifecycleProofs

\* The probes only ask: every step of a session is a step of the host or none.
LEMMA SessionStepIsHostStep == [SessionNext]_allVars => [Next]_vars
<1> SUFFICES ASSUME [SessionNext]_allVars PROVE [Next]_vars
  OBVIOUS
<1>1. CASE HostStep
  BY <1>1 DEF HostStep
<1>2. CASE UNCHANGED vars
  BY <1>2
<1> QED
  BY <1>1, <1>2 DEF SessionNext, StartRun, Session, ListModels, AskReadyz, ReadyzTimesOut,
     AskModels, ModelsTimesOut, Decide, Poll, GiveUp, Expire, WriteManifest, ManifestWritten,
     allVars

\* A session is a reader of the host: Discover, probe and awaitReady change
\* nothing that Serve depends on.
THEOREM SessionRefinement == SessionSpec => Spec
<1>1. SessionInit => Init
  BY DEF SessionInit
<1> QED  BY <1>1, SessionStepIsHostStep, PTL DEF SessionSpec, Spec

\* An engine that stays up is the engine of the same model: Launch takes an
\* unused one, and only one that is gone is forgotten.
LEMMA UpEngineKeepsModel ==
    ASSUME TypeOK, [Next]_vars, NEW e \in Engines, engine[e] = "up", engine'[e] = "up"
    PROVE  of'[e] = of[e]
<1> USE DEF TypeOK
<1>1. CASE UNCHANGED of
  BY <1>1
<1>2. ASSUME NEW m \in Models, Launch(m) PROVE of'[e] = of[e]
  BY <1>2 DEF Launch
<1>3. ASSUME NEW d \in Engines, Reaped(d) PROVE of'[e] = of[e]
  BY <1>3 DEF Reaped
<1>4. ASSUME NEW m \in Models, Abandon(m) PROVE of'[e] = of[e]
  BY <1>1, <1>3, <1>4 DEF Abandon
<1>5. ASSUME NEW m \in Models, Reap(m) \/ SelectExited(m) \/ SelectServeErr(m) \/ Die(m)
      PROVE  of'[e] = of[e]
  BY <1>4, <1>5 DEF Reap, SelectExited, SelectServeErr, Die
<1>6. ASSUME NEW d \in Engines, EngineUp(d) \/ EngineFails(d) \/ Sweep(d)
      PROVE  of'[e] = of[e]
  BY <1>1, <1>3, <1>6 DEF EngineUp, EngineFails, Sweep, EngineExits
<1>7. ASSUME NEW m \in Models,
             \/ Listen(m) \/ ListenFails(m) \/ Prepared(m) \/ PrepareFails(m) \/ LaunchFails(m)
             \/ Stop(m) \/ KillEngine(m) \/ SelectStopped(m) \/ LoseListener(m)
      PROVE  of'[e] = of[e]
  BY <1>7 DEF Listen, ListenFails, Prepared, PrepareFails, LaunchFails, Stop, KillEngine,
              SelectStopped, LoseListener
<1> QED  BY <1>1, <1>2, <1>5, <1>6, <1>7 DEF Next, vars

\* What a probe has seen stays so until the host loses something: the Serve on
\* the port is the same, and its engine is up and of the same model.
LEMMA SeenStaysSo ==
    ASSUME TypeOK, [Next]_vars, ~Loss, Served # None,
           NEW e \in Engines, Identified(e)
    PROVE  Served' = Served /\ Identified(e)' /\ of'[e] = of[e]
<1>1. Port \in Ports
  BY UnitAssumption, TargetAssumption DEF Port
<1>2. Served' = Served
  BY <1>1 DEF Loss, Served, Port
<1>3. engine[e] = "up" /\ engine'[e] = "up"
  BY DEF Loss, Identified
<1>4. of'[e] = of[e]
  BY <1>3, UpEngineKeepsModel
<1> QED  BY <1>2, <1>3, <1>4 DEF Identified

-----------------------------------------------------------------------------
(* What a probe knows after its first request, and after its second.       *)

\* The probe's answers hold until the host loses something.
Fresh == lost # "since" /\ slow = 0 /\ ~expired

ProbeInv ==
    /\ slow \in Nat
    /\ hpc = "models" /\ Fresh => Served # None /\ \E e \in Engines : Identified(e)
    /\ hpc = "decide" /\ found = "ready" /\ Fresh => AnswersFor(Target)

\* A step of the host keeps what the probe knows, or is a loss.
LEMMA HostStepKeepsProbeInv == HostInv /\ ProbeInv /\ HostStep => ProbeInv'
<1> SUFFICES ASSUME HostInv, ProbeInv, HostStep PROVE ProbeInv'
  OBVIOUS
<1>1. /\ hpc' = hpc /\ found' = found /\ slow' = slow /\ expired' = expired
      /\ lost' = IF hpc # "off" /\ Loss THEN "since" ELSE lost
      /\ [Next]_vars
  BY DEF HostStep
<1>2. TypeOK
  BY DEF HostInv
<1>3. CASE hpc = "off" \/ Loss
  BY <1>1, <1>3 DEF ProbeInv, Fresh
<1>4. CASE hpc # "off" /\ ~Loss
  <2>1. hpc' = "models" /\ Fresh' => Served' # None /\ \E e \in Engines : Identified(e)'
    <3> SUFFICES ASSUME hpc' = "models", Fresh'
                 PROVE  Served' # None /\ \E e \in Engines : Identified(e)'
      OBVIOUS
    <3>1. Served # None
      BY <1>1, <1>4 DEF ProbeInv, Fresh
    <3>2. PICK e \in Engines : Identified(e)
      BY <1>1, <1>4 DEF ProbeInv, Fresh
    <3>3. Served' = Served /\ Identified(e)'
      BY <1>1, <1>2, <1>4, <3>1, <3>2, SeenStaysSo
    <3> QED  BY <3>1, <3>3
  <2>2. hpc' = "decide" /\ found' = "ready" /\ Fresh' => AnswersFor(Target)'
    <3> SUFFICES ASSUME hpc' = "decide", found' = "ready", Fresh' PROVE AnswersFor(Target)'
      OBVIOUS
    <3>1. AnswersFor(Target)
      BY <1>1, <1>4 DEF ProbeInv, Fresh
    <3>2. PICK e \in Engines : Identified(e) /\ of[e] = Target
      BY <3>1 DEF AnswersFor
    <3>3. Served # None
      BY <3>1 DEF AnswersFor
    <3>4. Served' = Served /\ Identified(e)' /\ of'[e] = of[e]
      BY <1>1, <1>2, <1>4, <3>2, <3>3, SeenStaysSo
    <3> QED  BY <3>2, <3>3, <3>4 DEF AnswersFor
  <2> QED  BY <1>1, <2>1, <2>2 DEF ProbeInv
<1> QED  BY <1>3, <1>4

\* The first request learns that an engine answers behind the port, whose it
\* is not; the second rules out every model but the target.
LEMMA ProbeKeepsProbeInv ==
    ASSUME ProbeInv, UNCHANGED vars, StartRun \/ Session
    PROVE  ProbeInv'
<1>1. Served' = Served /\ (\A e \in Engines : Identified(e)' = Identified(e))
      /\ AnswersFor(Target)' = AnswersFor(Target)
  BY DEF vars, Served, Port, Identified, AnswersFor
<1>2. CASE AskReadyz
  <2>1. hpc' = "models" => Served # None /\ Ready(Served)
    BY <1>2 DEF AskReadyz
  <2>2. hpc' = "models" => \E e \in Engines : Identified(e)
    BY <2>1 DEF Ready, Answers, Identified
  <2>3. hpc' = "decide" => found' # "ready"
    BY <1>2 DEF AskReadyz
  <2>4. slow' = slow
    BY <1>2 DEF AskReadyz
  <2> QED  BY <1>1, <2>1, <2>2, <2>3, <2>4 DEF ProbeInv
<1>3. CASE AskModels
  <2>1. hpc = "models" /\ hpc' = "decide" /\ slow' = slow /\ expired' = expired /\ lost' = lost
        /\ found' = IF ~expired /\ Served # None
                       /\ \E e \in Engines : Identified(e) /\ of[e] # Target
                    THEN "down" ELSE "ready"
    BY <1>3 DEF AskModels
  <2>2. found' = "ready" /\ Fresh' => AnswersFor(Target)
    BY <2>1 DEF ProbeInv, Fresh, AnswersFor
  <2> QED  BY <1>1, <2>1, <2>2 DEF ProbeInv
<1>4. CASE ReadyzTimesOut \/ ModelsTimesOut
  BY <1>4 DEF ReadyzTimesOut, ModelsTimesOut, ProbeInv, Fresh
<1>5. CASE StartRun \/ ListModels \/ Decide \/ Poll \/ GiveUp
  BY <1>5 DEF StartRun, ListModels, Decide, Poll, GiveUp, ProbeInv
<1> QED  BY <1>2, <1>3, <1>4, <1>5 DEF Session

LEMMA ProbeInvariant == SessionSpec => [](HostInv /\ ProbeInv)
<1>1. SessionInit => ProbeInv
  BY DEF SessionInit, ProbeInv
<1>2. HostInv /\ ProbeInv /\ [SessionNext]_allVars => ProbeInv'
  <2> SUFFICES ASSUME HostInv, ProbeInv, [SessionNext]_allVars PROVE ProbeInv'
    OBVIOUS
  <2>1. CASE HostStep
    BY <2>1, HostStepKeepsProbeInv
  <2>2. CASE StartRun \/ Session
    <3>1. UNCHANGED vars
      BY <2>2 DEF StartRun, Session, ListModels, AskReadyz, ReadyzTimesOut, AskModels,
                  ModelsTimesOut, Decide, Poll, GiveUp
    <3> QED  BY <2>2, <3>1, ProbeKeepsProbeInv
  <2>3. CASE Expire \/ WriteManifest \/ ManifestWritten \/ UNCHANGED allVars
    <3>1. UNCHANGED <<vars, hpc, found, lost, slow>> /\ (expired' = expired \/ expired' = TRUE)
      BY <2>3 DEF Expire, WriteManifest, ManifestWritten, allVars, sessionVars
    <3>2. Served' = Served /\ (\A e \in Engines : Identified(e)' = Identified(e))
          /\ AnswersFor(Target)' = AnswersFor(Target)
      BY <3>1 DEF vars, Served, Port, Identified, AnswersFor
    <3> QED  BY <3>1, <3>2 DEF ProbeInv, Fresh
  <2> QED  BY <2>1, <2>2, <2>3 DEF SessionNext
<1>3. SessionSpec => []HostInv
  BY SessionRefinement, HostInvariant, PTL
<1> QED  BY <1>1, <1>2, <1>3, PTL DEF SessionSpec

\* A harness is launched on an engine of the model that was asked for (probe
\* and serves, then awaitReady's return), for any number of models, engines,
\* kills, restarts and installs, unless a request timed out, the deadline
\* passed, or a listener or an engine went away while the probe ran.
THEOREM LaunchedOnOwnEngineTheorem == SessionSpec => LaunchedOnOwnEngine
<1>1. ProbeInv /\ [SessionNext]_allVars
        => [hpc' = "launched" /\ hpc # "launched" /\ lost # "since" /\ slow = 0 /\ ~expired
                => AnswersFor(Target)]_allVars
  <2> SUFFICES ASSUME ProbeInv, [SessionNext]_allVars, hpc' = "launched", hpc # "launched", Fresh
               PROVE  AnswersFor(Target)
    BY DEF Fresh
  <2>1. hpc = "decide" /\ found = "ready"
    BY DEF SessionNext, StartRun, Session, ListModels, AskReadyz, ReadyzTimesOut, AskModels,
           ModelsTimesOut, Decide, Poll, GiveUp, Expire, HostStep, WriteManifest,
           ManifestWritten, allVars, sessionVars
  <2> QED  BY <2>1 DEF ProbeInv
<1> QED  BY <1>1, ProbeInvariant, PTL DEF SessionSpec, LaunchedOnOwnEngine
-----------------------------------------------------------------------------
(* What a session that waits has seen.                                     *)

WaitInv ==
    /\ installs \in Nat
    /\ torn => installs > 0
    /\ hpc = "off" => ~waiting
    /\ waiting \/ (hpc = "decide" /\ found = "loading") => Served # None \/ lost # "no"
    /\ hpc = "decide" /\ found = "down" /\ waiting => Cause
    /\ GivesUpForCause

\* A cause stays one: what it saw on the host stays so, or is lost.
LEMMA CauseStays ==
    ASSUME HostInv, HostStep, hpc # "off", Cause
    PROVE  Cause'
<1>1. /\ slow' = slow /\ expired' = expired /\ installs' = installs
      /\ lost' = IF Loss THEN "since" ELSE lost
      /\ [Next]_vars
  BY DEF HostStep
<1>2. CASE expired \/ slow > 0 \/ installs > 0 \/ lost # "no" \/ Loss
  BY <1>1, <1>2 DEF Cause
<1>3. CASE ~Loss /\ Served # None /\ \E e \in Engines : Identified(e) /\ of[e] # Target
  <2>1. PICK e \in Engines : Identified(e) /\ of[e] # Target
    BY <1>3
  <2>2. Served' = Served /\ Identified(e)' /\ of'[e] = of[e]
    BY <1>1, <1>3, <2>1, SeenStaysSo DEF HostInv
  <2> QED  BY <1>3, <2>1, <2>2 DEF Cause
<1> QED  BY <1>2, <1>3 DEF Cause

LEMMA HostStepKeepsWaitInv ==
    ASSUME HostInv, WaitInv, HostStep
    PROVE  WaitInv'
<1>1. /\ hpc' = hpc /\ found' = found /\ waiting' = waiting /\ torn' = torn
      /\ installs' = installs
      /\ lost' = IF hpc # "off" /\ Loss THEN "since" ELSE lost
  BY DEF HostStep
<1>2. hpc # "off" /\ Cause => Cause'
  BY CauseStays
<1>3. hpc # "off" /\ (Served # None \/ lost # "no") => Served' # None \/ lost' # "no"
  <2>1. Port \in Ports
    BY UnitAssumption, TargetAssumption DEF Port
  <2>2. ~Loss /\ Served # None => Served' = Served
    BY <2>1 DEF Loss, Served, Port
  <2> QED  BY <1>1, <2>2
<1> QED  BY <1>1, <1>2, <1>3 DEF WaitInv, GivesUpForCause

\* A probe that finds the model down while the session waits has a cause.
LEMMA SessionKeepsWaitInv ==
    ASSUME ProbeInv, WaitInv, UNCHANGED vars, StartRun \/ Session
    PROVE  WaitInv'
<1>1. Served' = Served /\ (\A e \in Engines : Identified(e)' = Identified(e) /\ of'[e] = of[e])
  BY DEF vars, Served, Port, Identified
<1>2. ASSUME lost' # "no" <=> lost # "no", expired' = expired, installs' = installs,
             slow' = slow
      PROVE  Cause' = Cause
  BY <1>1, <1>2 DEF Cause
<1>3. CASE StartRun \/ ListModels \/ Poll \/ GiveUp
  <2>1. CASE ListModels
    BY <1>1, <1>2, <2>1 DEF ListModels, WaitInv, GivesUpForCause, Cause
  <2>2. CASE GiveUp
    BY <1>1, <1>2, <2>2 DEF GiveUp, WaitInv, GivesUpForCause, Cause
  <2>3. CASE StartRun \/ Poll
    <3>1. hpc' = "list" /\ UNCHANGED <<waiting, lost, torn, installs>>
      BY <2>3 DEF StartRun, Poll
    <3>2. waiting => Served # None \/ lost # "no"
      BY DEF WaitInv
    <3>3. waiting' => Served' # None \/ lost' # "no"
      BY <1>1, <3>1, <3>2
    <3>4. hpc' # "off" /\ hpc' # "decide" /\ hpc' # "gave up"
      BY <3>1
    <3> QED  BY <3>1, <3>3, <3>4 DEF WaitInv, GivesUpForCause
  <2> QED  BY <1>3, <2>1, <2>2, <2>3
<1>4. CASE AskReadyz
  <2>1. /\ hpc = "readyz" /\ UNCHANGED <<waiting, expired, slow, torn, installs>>
        /\ lost' = IF lost = "no" THEN "no" ELSE "before"
        /\ hpc' \in {"models", "decide"}
        /\ hpc' = "decide" => found' = IF expired \/ Served = None THEN "down" ELSE "loading"
    BY <1>4 DEF AskReadyz
  <2>2. waiting /\ (expired \/ Served = None) => Cause'
    BY <2>1 DEF WaitInv, Cause
  <2>3. waiting' \/ (hpc' = "decide" /\ found' = "loading") => Served' # None \/ lost' # "no"
    <3>1. waiting => Served # None \/ lost # "no"
      BY DEF WaitInv
    <3>2. hpc' = "decide" /\ found' = "loading" => Served # None
      BY <2>1
    <3>3. lost # "no" => lost' # "no"
      BY <2>1
    <3> QED  BY <1>1, <2>1, <3>1, <3>2, <3>3
  <2>4. hpc' = "decide" /\ found' = "down" /\ waiting' => Cause'
    BY <2>1, <2>2
  <2>5. hpc' # "off" /\ hpc' # "gave up"
    BY <2>1
  <2> QED  BY <2>1, <2>3, <2>4, <2>5 DEF WaitInv, GivesUpForCause
<1>5. CASE ReadyzTimesOut \/ ModelsTimesOut
  <2>1. Cause'
    BY <1>5 DEF ReadyzTimesOut, ModelsTimesOut, ProbeInv, Cause
  <2>2. /\ hpc' = "decide" /\ UNCHANGED <<waiting, lost, torn, installs>>
        /\ found' \in {"down", "ready"}
    BY <1>5 DEF ReadyzTimesOut, ModelsTimesOut
  <2>3. waiting => Served # None \/ lost # "no"
    BY DEF WaitInv
  <2>4. (hpc' = "off" => ~waiting') /\ found' # "loading" /\ hpc' # "gave up"
    BY <2>2
  <2> QED  BY <1>1, <2>1, <2>2, <2>3, <2>4 DEF WaitInv, GivesUpForCause
<1>6. CASE AskModels
  <2>1. /\ hpc' = "decide" /\ UNCHANGED <<waiting, expired, lost, slow, torn, installs>>
        /\ found' \in {"down", "ready"}
        /\ found' = "down" =>
               Served # None /\ \E e \in Engines : Identified(e) /\ of[e] # Target
    BY <1>6 DEF AskModels
  <2>2. found' = "down" => Cause'
    BY <1>1, <2>1 DEF Cause
  <2>3. waiting => Served # None \/ lost # "no"
    BY DEF WaitInv
  <2>4. (hpc' = "off" => ~waiting') /\ found' # "loading" /\ hpc' # "gave up"
    BY <2>1
  <2> QED  BY <1>1, <2>1, <2>2, <2>3, <2>4 DEF WaitInv, GivesUpForCause
<1>7. CASE Decide
  <2>1. /\ hpc = "decide" /\ UNCHANGED <<found, expired, lost, slow, torn, installs>>
        /\ hpc' \in {"launched", "gave up", "asleep", "refused"}
        /\ hpc' = "gave up" => found = "down" /\ waiting
        /\ hpc' = "asleep" => found = "loading"
        /\ waiting' = (waiting \/ hpc' = "asleep")
    BY <1>7 DEF Decide
  <2>2. Cause' = Cause
    BY <1>2, <2>1
  <2>3. waiting' => Served' # None \/ lost' # "no"
    BY <1>1, <2>1 DEF WaitInv
  <2>4. hpc' = "gave up" => Cause'
    BY <2>1, <2>2 DEF WaitInv
  <2>5. hpc' # "off" /\ hpc' # "decide"
    BY <2>1
  <2> QED  BY <2>1, <2>3, <2>4, <2>5 DEF WaitInv, GivesUpForCause
<1> QED  BY <1>3, <1>4, <1>5, <1>6, <1>7 DEF Session

\* Waiting for a model ends in "gave up" for one of the causes only
\* (awaitReady: StateDown in the loop, wait.Until's deadline, Discover's
\* error): once the target was seen to load, its port does not close by itself.
THEOREM GivesUpForCauseTheorem == SessionSpec => []GivesUpForCause
<1>1. SessionInit => WaitInv
  BY DEF SessionInit, WaitInv, GivesUpForCause
<1>2. HostInv /\ ProbeInv /\ WaitInv /\ [SessionNext]_allVars => WaitInv'
  <2> SUFFICES ASSUME HostInv, ProbeInv, WaitInv, [SessionNext]_allVars PROVE WaitInv'
    OBVIOUS
  <2>1. CASE HostStep
    BY <2>1, HostStepKeepsWaitInv
  <2>2. CASE StartRun \/ Session
    <3>1. UNCHANGED vars
      BY <2>2 DEF StartRun, Session, ListModels, AskReadyz, ReadyzTimesOut, AskModels,
                  ModelsTimesOut, Decide, Poll, GiveUp
    <3> QED  BY <2>2, <3>1, SessionKeepsWaitInv
  <2>3. CASE Expire \/ WriteManifest \/ ManifestWritten \/ UNCHANGED allVars
    <3>1. /\ UNCHANGED <<vars, hpc, found, waiting, lost, slow>>
          /\ expired' = expired \/ expired' = TRUE
          /\ installs' \in Nat /\ installs' >= installs
          /\ torn' => installs' > 0
      BY <2>3 DEF Expire, WriteManifest, ManifestWritten, allVars, sessionVars, WaitInv
    <3>2. Served' = Served /\ (\A e \in Engines : Identified(e)' = Identified(e) /\ of'[e] = of[e])
      BY <3>1 DEF vars, Served, Port, Identified
    <3>3. Cause => Cause'
      BY <3>1, <3>2 DEF Cause, WaitInv
    <3> QED  BY <3>1, <3>2, <3>3 DEF WaitInv, GivesUpForCause
  <2> QED  BY <2>1, <2>2, <2>3 DEF SessionNext
<1>3. WaitInv => GivesUpForCause
  BY DEF WaitInv
<1> QED  BY <1>1, <1>2, <1>3, ProbeInvariant, PTL DEF SessionSpec
=============================================================================
