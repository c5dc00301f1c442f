------------------------- MODULE LocalWeightsProofs ------------------------
(***************************************************************************)
(* Proofs about LocalWeights, for any number of servers, operators, files. *)
(***************************************************************************)
EXTENDS LocalWeights, TLAPS

USE FilesAssumption, OtherAssumption

\* Going to the next file of a loop, or out of it, keeps the types.
LEMMA NextFileTypes ==
    ASSUME TypeOK, NEW s \in Procs, NEW at \in ServerAt \union OperatorAt,
           NEW after \in ServerAt \union OperatorAt, NextFile(s, at, after)
    PROVE  pc' \in [Procs -> ServerAt \union OperatorAt] /\ idx' \in [Procs -> Files]
<1>1. pc \in [Procs -> ServerAt \union OperatorAt] /\ idx \in [Procs -> Files]
  BY DEF TypeOK
<1>2. CASE idx[s] < NFiles
  BY <1>1, <1>2 DEF NextFile, Goto, Files
<1>3. CASE idx[s] = NFiles
  BY <1>1, <1>3 DEF NextFile, FirstFile, Goto, Files
<1> QED  BY <1>2, <1>3 DEF NextFile

\* Every step keeps the types; a freeze writes a manifest with the hub's hashes.
LEMMA TypeStep == DirInv /\ [Next]_vars => TypeOK'
<1> SUFFICES ASSUME DirInv, [Next]_vars PROVE TypeOK'  OBVIOUS
<1>a. \A s \in Procs : \A at, after \in {"check", "serving", "verify", "reverify", "idle", "collect", "write"} :
        NextFile(s, at, after) =>
            pc' \in [Procs -> ServerAt \union OperatorAt] /\ idx' \in [Procs -> Files]
  BY NextFileTypes DEF ServerAt, OperatorAt, DirInv
<1>b. \A o \in Operators : pc[o] = "write" => known[o] \in Frozen
  BY DEF DirInv, TypeOK, Collected, Frozen, Procs
<1>c. manifest # NoManifest => manifest \in [Files -> FullSize]
  BY DEF DirInv, TypeOK, Frozen
<1> USE DEF DirInv, TypeOK, Goto, Procs, ServerAt, OperatorAt, Files, Content, FullSize
<1>1. ASSUME NEW s \in Servers, Start(s) PROVE TypeOK'
  BY <1>1 DEF Start
<1>2. ASSUME NEW s \in Servers, AcquireLock(s) PROVE TypeOK'
  BY <1>2 DEF AcquireLock
<1>3. ASSUME NEW s \in Servers, ReadManifest(s) PROVE TypeOK'
  BY <1>3, <1>c DEF ReadManifest, FirstFile
<1>4. ASSUME NEW s \in Servers, ReadManifestFails(s) PROVE TypeOK'
  BY <1>4 DEF ReadManifestFails, Fail, Fault
<1>5. ASSUME NEW s \in Servers, CheckHit(s) PROVE TypeOK'
  BY <1>5, <1>a DEF CheckHit
<1>6. ASSUME NEW s \in Servers, CheckFails(s) PROVE TypeOK'
  BY <1>6 DEF CheckFails, Fail, Fault
<1>7. ASSUME NEW s \in Servers, Crash(s) PROVE TypeOK'
  BY <1>7 DEF Crash, Fault
<1>8. ASSUME NEW o \in Operators, StartPull(o) PROVE TypeOK'
  BY <1>8 DEF StartPull, FirstFile
<1>9. ASSUME NEW o \in Operators, PullMatches(o) PROVE TypeOK'
  BY <1>9, <1>a DEF PullMatches
<1>10. ASSUME NEW o \in Operators, PullDiffers(o) PROVE TypeOK'
  BY <1>10 DEF PullDiffers
<1>11. ASSUME NEW o \in Operators, NEW f \in Files, HfFetches(o, f) PROVE TypeOK'
  BY <1>11 DEF HfFetches, Fault
<1>12. ASSUME NEW o \in Operators, HfExits(o) PROVE TypeOK'
  BY <1>12 DEF HfExits, FirstFile, Fault
<1>13. ASSUME NEW o \in Operators, StartFreeze(o) PROVE TypeOK'
  BY <1>13 DEF StartFreeze, FirstFile
<1>14. ASSUME NEW o \in Operators, FreezeMatches(o) PROVE TypeOK'
  BY <1>14, <1>a DEF FreezeMatches, Accepts
<1>15. ASSUME NEW o \in Operators, FreezeDiffers(o) PROVE TypeOK'
  BY <1>15 DEF FreezeDiffers
<1>16. ASSUME NEW o \in Operators, WriteManifest(o) PROVE TypeOK'
  BY <1>16, <1>b DEF WriteManifest
<1>17. ASSUME NEW o \in Operators, Abort(o) PROVE TypeOK'
  BY <1>17 DEF Abort, Fault
<1>18. CASE UNCHANGED vars
  BY <1>18 DEF vars
<1> QED  BY <1>1, <1>2, <1>3, <1>4, <1>5, <1>6, <1>7, <1>8, <1>9, <1>10, <1>11, <1>12, <1>13, <1>14, <1>15, <1>16, <1>17, <1>18 DEF Next

\* What a freeze has collected and what a server verifies against are the hub's
\* hashes.
LEMMA CollectedStep == DirInv /\ [Next]_vars => Collected'
<1> SUFFICES ASSUME DirInv, [Next]_vars PROVE Collected'  OBVIOUS
<1> USE DEF DirInv, TypeOK, Collected, Goto, Procs, Files
<1>1. ASSUME NEW s \in Servers, Start(s) PROVE Collected'
  BY <1>1 DEF Start
<1>2. ASSUME NEW s \in Servers, AcquireLock(s) PROVE Collected'
  BY <1>2 DEF AcquireLock
<1>3. ASSUME NEW s \in Servers, ReadManifest(s) PROVE Collected'
  BY <1>3 DEF ReadManifest, FirstFile, Frozen
<1>4. ASSUME NEW s \in Servers, ReadManifestFails(s) PROVE Collected'
  BY <1>4 DEF ReadManifestFails, Fail, Fault
<1>5. ASSUME NEW s \in Servers, CheckHit(s) PROVE Collected'
  BY <1>5 DEF CheckHit, NextFile, FirstFile
<1>6. ASSUME NEW s \in Servers, CheckFails(s) PROVE Collected'
  BY <1>6 DEF CheckFails, Fail, Fault
<1>7. ASSUME NEW s \in Servers, Crash(s) PROVE Collected'
  BY <1>7 DEF Crash, Fault
<1>8. ASSUME NEW o \in Operators, StartPull(o) PROVE Collected'
  BY <1>8 DEF StartPull, FirstFile
<1>9. ASSUME NEW o \in Operators, PullMatches(o) PROVE Collected'
  BY <1>9 DEF PullMatches, NextFile, FirstFile
<1>10. ASSUME NEW o \in Operators, PullDiffers(o) PROVE Collected'
  BY <1>10 DEF PullDiffers
<1>11. ASSUME NEW o \in Operators, NEW f \in Files, HfFetches(o, f) PROVE Collected'
  BY <1>11 DEF HfFetches, Fault
<1>12. ASSUME NEW o \in Operators, HfExits(o) PROVE Collected'
  BY <1>12 DEF HfExits, FirstFile, Fault
<1>13. ASSUME NEW o \in Operators, StartFreeze(o) PROVE Collected'
  BY <1>13 DEF StartFreeze, FirstFile
<1>14. ASSUME NEW o \in Operators, FreezeMatches(o) PROVE Collected'
  BY <1>14 DEF FreezeMatches, NextFile, FirstFile, Accepts
<1>15. ASSUME NEW o \in Operators, FreezeDiffers(o) PROVE Collected'
  BY <1>15 DEF FreezeDiffers
<1>16. ASSUME NEW o \in Operators, WriteManifest(o) PROVE Collected'
  BY <1>16 DEF WriteManifest
<1>17. ASSUME NEW o \in Operators, Abort(o) PROVE Collected'
  BY <1>17 DEF Abort, Fault
<1>18. CASE UNCHANGED vars
  BY <1>18 DEF vars
<1> QED  BY <1>1, <1>2, <1>3, <1>4, <1>5, <1>6, <1>7, <1>8, <1>9, <1>10, <1>11, <1>12, <1>13, <1>14, <1>15, <1>16, <1>17, <1>18 DEF Next

\* The hashed files a server has verified keep their bytes.
LEMMA VerifiedStep == DirInv /\ [Next]_vars => Verified'
<1> SUFFICES ASSUME DirInv, [Next]_vars PROVE Verified'  OBVIOUS
<1> USE DEF DirInv, TypeOK, Collected, Verified, Goto, Procs, Files
<1>1. ASSUME NEW s \in Servers, Start(s) PROVE Verified'
  BY <1>1 DEF Start
<1>2. ASSUME NEW s \in Servers, AcquireLock(s) PROVE Verified'
  BY <1>2 DEF AcquireLock
<1>3. ASSUME NEW s \in Servers, ReadManifest(s) PROVE Verified'
  BY <1>3 DEF ReadManifest, FirstFile
<1>4. ASSUME NEW s \in Servers, ReadManifestFails(s) PROVE Verified'
  BY <1>4 DEF ReadManifestFails, Fail, Fault
<1>5. ASSUME NEW s \in Servers, CheckHit(s) PROVE Verified'
  BY <1>5 DEF CheckHit, NextFile, FirstFile
<1>6. ASSUME NEW s \in Servers, CheckFails(s) PROVE Verified'
  BY <1>6 DEF CheckFails, Fail, Fault
<1>7. ASSUME NEW s \in Servers, Crash(s) PROVE Verified'
  BY <1>7 DEF Crash, Fault
<1>8. ASSUME NEW o \in Operators, StartPull(o) PROVE Verified'
  BY <1>8 DEF StartPull, FirstFile
<1>9. ASSUME NEW o \in Operators, PullMatches(o) PROVE Verified'
  BY <1>9 DEF PullMatches, NextFile, FirstFile
<1>10. ASSUME NEW o \in Operators, PullDiffers(o) PROVE Verified'
  BY <1>10 DEF PullDiffers
<1>11. ASSUME NEW o \in Operators, NEW f \in Files, HfFetches(o, f) PROVE Verified'
  BY <1>11 DEF HfFetches, Fault
<1>12. ASSUME NEW o \in Operators, HfExits(o) PROVE Verified'
  BY <1>12 DEF HfExits, FirstFile, Fault
<1>13. ASSUME NEW o \in Operators, StartFreeze(o) PROVE Verified'
  BY <1>13 DEF StartFreeze, FirstFile
<1>14. ASSUME NEW o \in Operators, FreezeMatches(o) PROVE Verified'
  BY <1>14 DEF FreezeMatches, NextFile, FirstFile, Accepts
<1>15. ASSUME NEW o \in Operators, FreezeDiffers(o) PROVE Verified'
  BY <1>15 DEF FreezeDiffers
<1>16. ASSUME NEW o \in Operators, WriteManifest(o) PROVE Verified'
  BY <1>16 DEF WriteManifest
<1>17. ASSUME NEW o \in Operators, Abort(o) PROVE Verified'
  BY <1>17 DEF Abort, Fault
<1>18. CASE UNCHANGED vars
  BY <1>18 DEF vars
<1> QED  BY <1>1, <1>2, <1>3, <1>4, <1>5, <1>6, <1>7, <1>8, <1>9, <1>10, <1>11, <1>12, <1>13, <1>14, <1>15, <1>16, <1>17, <1>18 DEF Next

\* The invariant holds of every reachable state.
THEOREM DirInvariant == Spec => []DirInv
<1>1. Init => DirInv
  BY DEF Init, DirInv, TypeOK, Collected, Verified, Procs, ServerAt, OperatorAt, Files, FullSize
<1>2. DirInv /\ [Next]_vars => DirInv'
  BY TypeStep, CollectedStep, VerifiedStep DEF DirInv
<1> QED  BY <1>1, <1>2, PTL DEF Spec

\* Every index stays within the tree and every frozen manifest names whole
\* files (the loops of verifyInPlace and Freeze).
THEOREM TypeCorrect == Spec => []TypeOK
<1>1. DirInv => TypeOK
  BY DEF DirInv
<1> QED  BY <1>1, DirInvariant, PTL

\* An engine launched from a local directory reads the hub's bytes of every
\* hashed file, with pulls and freezes running beside it (verifyInPlace).
THEOREM ServedHashedTheorem == Spec => []ServedHashed
<1>1. DirInv => ServedHashed
  BY DEF DirInv, Verified, ServedHashed
<1> QED  BY <1>1, DirInvariant, PTL
-----------------------------------------------------------------------------
(* What a freeze writes.                                                   *)

\* What a freeze has collected is what the directory holds.
CollectedDir ==
    \A o \in Operators :
        /\ pc[o] = "collect" => \A f \in Files : f < idx[o] => known[o][f] = dir[f]
        /\ pc[o] = "write" => known[o] = dir

\* A server changes neither the files nor what a freeze has collected.
LEMMA ServerKeepsCollectedDir ==
    ASSUME TypeOK, CollectedDir, NEW s \in Servers,
           \/ Start(s) \/ AcquireLock(s) \/ ReadManifest(s) \/ ReadManifestFails(s)
           \/ CheckHit(s) \/ CheckFails(s) \/ Crash(s)
    PROVE  CollectedDir' /\ manifest' = manifest
<1>1. dir' = dir /\ manifest' = manifest
  BY DEF Start, AcquireLock, ReadManifest, ReadManifestFails, CheckHit, CheckFails, Crash
<1>2. ASSUME NEW o \in Operators
      PROVE  pc'[o] = pc[o] /\ idx'[o] = idx[o] /\ known'[o] = known[o]
  <2>1. o # s /\ o \in Procs /\ s \in Procs
    BY DEF Procs
  <2>2. pc'[o] = pc[o]
    BY <2>1 DEF TypeOK, Goto, Start, AcquireLock, ReadManifest, ReadManifestFails, Fail, CheckHit,
                NextFile, CheckFails, Crash
  <2>3. idx'[o] = idx[o]
    BY <2>1 DEF TypeOK, Start, AcquireLock, ReadManifest, ReadManifestFails, CheckHit, NextFile,
                FirstFile, CheckFails, Crash
  <2>4. known'[o] = known[o]
    BY <2>1 DEF TypeOK, Start, AcquireLock, ReadManifest, ReadManifestFails, CheckHit, CheckFails,
                Crash
  <2> QED  BY <2>2, <2>3, <2>4
<1> QED  BY <1>1, <1>2 DEF CollectedDir

\* One operator at a time: nobody fetches a file while a freeze collects.
LEMMA OperatorKeepsCollectedDir ==
    ASSUME TypeOK, CollectedDir, NEW o \in Operators, \A p \in Operators : p = o,
           \/ StartPull(o) \/ PullMatches(o) \/ PullDiffers(o) \/ HfExits(o)
           \/ \E f \in Files : HfFetches(o, f)
           \/ StartFreeze(o) \/ FreezeMatches(o) \/ FreezeDiffers(o) \/ WriteManifest(o)
           \/ Abort(o)
    PROVE  /\ CollectedDir'
           /\ manifest' # manifest => dir' = manifest'
<1> SUFFICES /\ pc'[o] = "collect" => \A f \in Files : f < idx'[o] => known'[o][f] = dir'[f]
             /\ pc'[o] = "write" => known'[o] = dir'
             /\ manifest' # manifest => dir' = manifest'
  BY DEF CollectedDir
<1>1. /\ pc \in [Procs -> ServerAt \union OperatorAt] /\ o \in Procs
      /\ idx \in [Procs -> Files] /\ known \in [Procs -> [Files -> FullSize]]
      /\ dir \in [Files -> Content]
  BY DEF TypeOK, Procs
<1>2. CASE StartPull(o) \/ PullDiffers(o) \/ HfExits(o) \/ FreezeDiffers(o) \/ Abort(o)
  <2>1. pc'[o] \in {"verify", "download", "idle", "reverify"} /\ manifest' = manifest
    BY <1>1, <1>2 DEF StartPull, PullDiffers, HfExits, FreezeDiffers, Abort, Goto
  <2> QED  BY <2>1
<1>3. CASE PullMatches(o)
  <2>1. pc'[o] \in {"verify", "idle", "reverify"} /\ manifest' = manifest
    BY <1>1, <1>3 DEF PullMatches, NextFile, Goto
  <2> QED  BY <2>1
<1>4. CASE \E f \in Files : HfFetches(o, f)
  BY <1>4 DEF HfFetches
<1>5. CASE StartFreeze(o)
  <2>1. pc'[o] = "collect" /\ idx'[o] = 1 /\ manifest' = manifest
    BY <1>1, <1>5 DEF StartFreeze, Goto, FirstFile
  <2> QED  BY <2>1 DEF Files
<1>6. CASE FreezeMatches(o)
  <2>1. /\ pc[o] = "collect" /\ dir' = dir /\ manifest' = manifest
        /\ known'[o] = [known[o] EXCEPT ![idx[o]] = dir[idx[o]]]
    BY <1>1, <1>6 DEF FreezeMatches
  <2>2. \A f \in Files : f < idx[o] => known[o][f] = dir[f]
    BY <2>1 DEF CollectedDir
  <2>3. known[o] \in [Files -> FullSize] /\ idx[o] \in Files
    BY <1>1
  <2>4. \A f \in Files : f <= idx[o] => known'[o][f] = dir[f]
    BY <2>1, <2>2, <2>3 DEF Files
  <2>5. CASE idx[o] < NFiles /\ pc'[o] = "collect" /\ idx'[o] = idx[o] + 1
    BY <2>1, <2>3, <2>4, <2>5 DEF Files
  <2>6. CASE idx[o] = NFiles /\ pc'[o] = "write"
    <3>1. \A f \in Files : known'[o][f] = dir[f]
      BY <2>4, <2>6 DEF Files
    <3>2. DOMAIN known'[o] = Files /\ DOMAIN dir = Files
      BY <1>1, <2>1, <2>3
    <3>3. known'[o] = [f \in Files |-> known'[o][f]] /\ dir = [f \in Files |-> dir[f]]
      BY <1>1, <2>1, <2>3
    <3>4. known'[o] = dir
      BY <3>1, <3>3
    <3> QED  BY <2>1, <2>6, <3>4
  <2> QED  BY <1>1, <1>6, <2>5, <2>6 DEF FreezeMatches, NextFile, Goto, FirstFile
<1>7. CASE WriteManifest(o)
  <2>1. /\ pc[o] = "write" /\ pc'[o] = "idle" /\ dir' = dir /\ manifest' = known[o]
    BY <1>1, <1>7 DEF WriteManifest, Goto
  <2> QED  BY <2>1 DEF CollectedDir
<1> QED  BY <1>2, <1>3, <1>4, <1>5, <1>6, <1>7

\* The manifest that a freeze writes lists what the directory holds at that
\* moment, for any number of servers beside it and wherever earlier commands
\* failed (Freeze, writeManifest).  For one operator: a pull that runs beside a
\* freeze may replace a file the hub has no hash of after it was collected.
THEOREM FreezeServableTheorem ==
    ASSUME \A o, p \in Operators : o = p
    PROVE  Spec => FreezeServable
<1>1. Init => CollectedDir
  BY DEF Init, CollectedDir, Procs
<1>2. TypeOK /\ CollectedDir /\ [Next]_vars
          => CollectedDir' /\ (manifest' # manifest => dir' = manifest')
  <2> SUFFICES ASSUME TypeOK, CollectedDir, [Next]_vars
               PROVE  CollectedDir' /\ (manifest' # manifest => dir' = manifest')
    OBVIOUS
  <2>1. CASE UNCHANGED vars
    BY <2>1 DEF vars, CollectedDir
  <2>2. ASSUME NEW s \in Servers,
               \/ Start(s) \/ AcquireLock(s) \/ ReadManifest(s) \/ ReadManifestFails(s)
               \/ CheckHit(s) \/ CheckFails(s) \/ Crash(s)
        PROVE  CollectedDir' /\ manifest' = manifest
    BY <2>2, ServerKeepsCollectedDir
  <2>3. ASSUME NEW o \in Operators,
               \/ StartPull(o) \/ PullMatches(o) \/ PullDiffers(o) \/ HfExits(o)
               \/ \E f \in Files : HfFetches(o, f)
               \/ StartFreeze(o) \/ FreezeMatches(o) \/ FreezeDiffers(o) \/ WriteManifest(o)
               \/ Abort(o)
        PROVE  CollectedDir' /\ (manifest' # manifest => dir' = manifest')
    <3>1. \A p \in Operators : p = o
      OBVIOUS
    <3> QED  BY <2>3, <3>1, OperatorKeepsCollectedDir
  <2> QED  BY <2>1, <2>2, <2>3 DEF Next
<1>3. [](TypeOK /\ CollectedDir) /\ [][Next]_vars => FreezeServable
  <2>1. TypeOK /\ CollectedDir /\ [Next]_vars => [manifest' # manifest => dir' = manifest']_vars
    BY <1>2
  <2> QED  BY <2>1, PTL DEF FreezeServable
<1> QED  BY <1>1, <1>2, <1>3, TypeCorrect, PTL DEF Spec
=============================================================================
