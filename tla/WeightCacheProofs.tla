------------------------- MODULE WeightCacheProofs -------------------------
(***************************************************************************)
(* Proofs about WeightCache, for any number of pods, artifacts and files.  *)
(***************************************************************************)
EXTENDS WeightCache, TLAPS

USE NFilesAssumption, NeedsAssumption, ContentAssumption, FaultAssumption,
    NobodyAssumption

\* The directory of a pod that is past Start and not yet serving is one of
\* the artifacts (Dir).
LEMMA DirIsArtifact ==
    ASSUME TypeOK, InBounds, NEW p \in Pods, pc[p] \in Locked \union {"lock"}
    PROVE  Dir(p) \in Artifacts
<1>1. stage[p] \in 1 .. Len(Needs[p])  BY DEF InBounds
<1>2. Needs[p] \in Seq(Artifacts)      OBVIOUS
<1> QED  BY <1>1, <1>2 DEF Dir

\* The number of artifacts a pod needs is a natural number.
LEMMA LenNeeds == \A p \in Pods : Len(Needs[p]) \in Nat
OBVIOUS

\* The initial states have the right types and no pod inside a directory.
LEMMA LockInvInit == Init => LockInv
<1> SUFFICES ASSUME Init PROVE LockInv  OBVIOUS
<1>1. TypeOK
  BY DEF Init, TypeOK, Locations, Files
<1>2. InBounds /\ Holding
  BY DEF Init, InBounds, Holding, Locked
<1> QED  BY <1>1, <1>2 DEF LockInv

\* Writing one cache entry (Write) leaves the cache well-typed and every
\* other entry as it was.
LEMMA WriteEffect ==
    ASSUME TypeOK, NEW p \in Pods, Dir(p) \in Artifacts, NEW c \in Content, Write(p, c)
    PROVE  /\ cache' \in [Artifacts -> [Files -> Content]]
           /\ cache'[Dir(p)][idx[p]] = c
           /\ \A a \in Artifacts, f \in Files :
                 a # Dir(p) \/ f # idx[p] => cache'[a][f] = cache[a][f]
<1> DEFINE d == Dir(p)
           row == [cache[d] EXCEPT ![idx[p]] = c]
<1>1. d \in Artifacts /\ idx[p] \in Files /\ cache \in [Artifacts -> [Files -> Content]]
  BY DEF TypeOK
<1>2. cache' = [cache EXCEPT ![d] = row]
  BY DEF Write
<1>3. row \in [Files -> Content]
  BY <1>1
<1> HIDE DEF d
<1>4. cache' \in [Artifacts -> [Files -> Content]]
  BY <1>1, <1>2, <1>3
<1>5. cache'[d][idx[p]] = c
  BY <1>1, <1>2
<1>6. \A a \in Artifacts, f \in Files : a # d \/ f # idx[p] => cache'[a][f] = cache[a][f]
  BY <1>1, <1>2
<1> QED  BY <1>4, <1>5, <1>6 DEF d

\* Going on to the next file, or out of the loop (FileReady), keeps the types
\* of what it changes.
LEMMA FileReadyTypes ==
    ASSUME TypeOK, NEW p \in Pods, Dir(p) \in Artifacts, FileReady(p)
    PROVE  /\ pc' \in [Pods -> Locations]
           /\ stage' \in [Pods -> Nat \ {0}]
           /\ idx' \in [Pods -> Files]
           /\ holder' \in [Artifacts -> Pods \union {Nobody}]
<1> USE DEF TypeOK, FileReady, Goto, Files, Locations
<1>1. CASE idx[p] < NFiles
  BY <1>1
<1>2. CASE idx[p] = NFiles
  <2>1. Prepare(p, stage[p] + 1) /\ Unlock(p) /\ UNCHANGED idx
    BY <1>2
  <2>2. stage' \in [Pods -> Nat \ {0}]
    BY <2>1 DEF Prepare
  <2>3. pc' \in [Pods -> Locations]
    BY <2>1 DEF Prepare
  <2>4. holder' \in [Artifacts -> Pods \union {Nobody}]
    BY <2>1 DEF Unlock
  <2> QED  BY <2>1, <2>2, <2>3, <2>4
<1> QED  BY <1>1, <1>2

\* Every step keeps the types.
LEMMA TypeStep == LockInv /\ [Next]_vars => TypeOK'
<1> SUFFICES ASSUME LockInv, [Next]_vars PROVE TypeOK'  OBVIOUS
<1>0. \A p \in Pods : pc[p] \in Locked \union {"lock"} => Dir(p) \in Artifacts
  BY DirIsArtifact DEF LockInv
<1>a. \A p \in Pods, c \in Content :
        Dir(p) \in Artifacts /\ Write(p, c) => cache' \in [Artifacts -> [Files -> Content]]
  BY WriteEffect DEF LockInv
<1> USE <1>0, LenNeeds DEF LockInv, TypeOK, Locked, Locations, Goto, Files, Content
<1>1. ASSUME NEW p \in Pods, Start(p) PROVE TypeOK'
  BY <1>1 DEF Start, Prepare
<1>2. ASSUME NEW p \in Pods, AcquireLock(p) PROVE TypeOK'
  BY <1>2 DEF AcquireLock
<1>3. ASSUME NEW p \in Pods, LockFails(p) PROVE TypeOK'
  BY <1>3 DEF LockFails, Fault
<1>4. ASSUME NEW p \in Pods, ReadManifest(p) PROVE TypeOK'
  BY <1>4 DEF ReadManifest
<1>5. ASSUME NEW p \in Pods, ReadManifestFails(p) PROVE TypeOK'
  BY <1>5 DEF ReadManifestFails, Fail, Fault, Unlock
<1>6. ASSUME NEW p \in Pods, CheckHit(p) PROVE TypeOK'
  BY <1>6, FileReadyTypes DEF CheckHit
<1>7. ASSUME NEW p \in Pods, CheckMiss(p) PROVE TypeOK'
  BY <1>7 DEF CheckMiss
<1>8. ASSUME NEW p \in Pods, CheckError(p) PROVE TypeOK'
  BY <1>8 DEF CheckError, Fault
<1>9. ASSUME NEW p \in Pods, GetCreates(p) PROVE TypeOK'
  BY <1>9, <1>a DEF GetCreates
<1>10. ASSUME NEW p \in Pods, GetOpenFails(p) PROVE TypeOK'
  BY <1>10 DEF GetOpenFails, Fail, Fault, Unlock
<1>11. ASSUME NEW p \in Pods, GetCopies(p) PROVE TypeOK'
  <2>1. Dir(p) \in Artifacts /\ Remote(p) \in Content  BY <1>11 DEF GetCopies, Remote
  <2>2. Write(p, Remote(p))  BY <1>11 DEF GetCopies
  <2> QED  BY <1>11, <2>1, <2>2, <1>a DEF GetCopies
<1>12. ASSUME NEW p \in Pods, GetCopyFails(p) PROVE TypeOK'
  <2>1. Dir(p) \in Artifacts /\ Remote(p) \in Content  BY <1>12 DEF GetCopyFails, Remote
  <2>2. PICK c \in {"short", Remote(p)} : Write(p, c)
    BY <1>12 DEF GetCopyFails
  <2>3. cache' \in [Artifacts -> [Files -> Content]]
    BY <2>1, <2>2, <1>a
  <2>4. Fail(p) /\ Fault /\ UNCHANGED <<object, published>>
    BY <1>12 DEF GetCopyFails
  <2> QED  BY <2>1, <2>3, <2>4 DEF Fail, Fault, Unlock
<1>13. ASSUME NEW p \in Pods, RecheckHit(p) PROVE TypeOK'
  BY <1>13, FileReadyTypes DEF RecheckHit
<1>14. ASSUME NEW p \in Pods, RecheckFails(p) PROVE TypeOK'
  BY <1>14 DEF RecheckFails, Fail, Fault, Unlock
<1>15. ASSUME NEW p \in Pods, Crash(p) PROVE TypeOK'
  BY <1>15 DEF Crash, Fault
<1>16. ASSUME NEW a \in Artifacts, Publish(a) PROVE TypeOK'
  BY <1>16 DEF Publish
<1>17. CASE UNCHANGED vars
  BY <1>17 DEF vars
<1> QED  BY <1>1, <1>2, <1>3, <1>4, <1>5, <1>6, <1>7, <1>8, <1>9, <1>10, <1>11, <1>12, <1>13, <1>14, <1>15, <1>16, <1>17 DEF Next, Running

\* Every step keeps the staging index of a pod within what it needs.
LEMMA BoundsStep == LockInv /\ [Next]_vars => InBounds'
<1> SUFFICES ASSUME LockInv, [Next]_vars PROVE InBounds'  OBVIOUS
<1> USE LenNeeds DEF LockInv, TypeOK, InBounds, Locked, Goto
<1>1. ASSUME NEW p \in Pods, Start(p) PROVE InBounds'
  BY <1>1 DEF Start, Prepare
<1>2. ASSUME NEW p \in Pods, AcquireLock(p) PROVE InBounds'
  BY <1>2 DEF AcquireLock
<1>3. ASSUME NEW p \in Pods, LockFails(p) PROVE InBounds'
  BY <1>3 DEF LockFails, Fault
<1>4. ASSUME NEW p \in Pods, ReadManifest(p) PROVE InBounds'
  BY <1>4 DEF ReadManifest
<1>5. ASSUME NEW p \in Pods, ReadManifestFails(p) PROVE InBounds'
  BY <1>5 DEF ReadManifestFails, Fail, Fault, Unlock
<1>6. ASSUME NEW p \in Pods, CheckHit(p) PROVE InBounds'
  BY <1>6 DEF CheckHit, FileReady, Prepare, Unlock
<1>7. ASSUME NEW p \in Pods, CheckMiss(p) PROVE InBounds'
  BY <1>7 DEF CheckMiss
<1>8. ASSUME NEW p \in Pods, CheckError(p) PROVE InBounds'
  BY <1>8 DEF CheckError, Fault
<1>9. ASSUME NEW p \in Pods, GetCreates(p) PROVE InBounds'
  BY <1>9 DEF GetCreates, Write
<1>10. ASSUME NEW p \in Pods, GetOpenFails(p) PROVE InBounds'
  BY <1>10 DEF GetOpenFails, Fail, Fault, Unlock
<1>11. ASSUME NEW p \in Pods, GetCopies(p) PROVE InBounds'
  BY <1>11 DEF GetCopies, Write, Remote
<1>12. ASSUME NEW p \in Pods, GetCopyFails(p) PROVE InBounds'
  BY <1>12 DEF GetCopyFails, Fail, Fault, Unlock, Write, Remote
<1>13. ASSUME NEW p \in Pods, RecheckHit(p) PROVE InBounds'
  BY <1>13 DEF RecheckHit, FileReady, Prepare, Unlock
<1>14. ASSUME NEW p \in Pods, RecheckFails(p) PROVE InBounds'
  BY <1>14 DEF RecheckFails, Fail, Fault, Unlock
<1>15. ASSUME NEW p \in Pods, Crash(p) PROVE InBounds'
  BY <1>15 DEF Crash, Fault
<1>16. ASSUME NEW a \in Artifacts, Publish(a) PROVE InBounds'
  BY <1>16 DEF Publish
<1>17. CASE UNCHANGED vars
  BY <1>17 DEF vars
<1> QED  BY <1>1, <1>2, <1>3, <1>4, <1>5, <1>6, <1>7, <1>8, <1>9, <1>10, <1>11, <1>12, <1>13, <1>14, <1>15, <1>16, <1>17 DEF Next, Running

\* Every step keeps the flock with the pod inside the directory.
LEMMA HoldingStep == LockInv /\ [Next]_vars => Holding'
<1> SUFFICES ASSUME LockInv, [Next]_vars PROVE Holding'  OBVIOUS
<1>0. \A p \in Pods : pc[p] \in Locked \union {"lock"} => Dir(p) \in Artifacts
  BY DirIsArtifact DEF LockInv
<1> USE <1>0, LenNeeds DEF LockInv, TypeOK, Holding, Locked, Goto, Dir
<1>1. ASSUME NEW p \in Pods, Start(p) PROVE Holding'
  BY <1>1 DEF Start, Prepare
<1>2. ASSUME NEW p \in Pods, AcquireLock(p) PROVE Holding'
  BY <1>2 DEF AcquireLock
<1>3. ASSUME NEW p \in Pods, LockFails(p) PROVE Holding'
  BY <1>3 DEF LockFails, Fault
<1>4. ASSUME NEW p \in Pods, ReadManifest(p) PROVE Holding'
  BY <1>4 DEF ReadManifest
<1>5. ASSUME NEW p \in Pods, ReadManifestFails(p) PROVE Holding'
  BY <1>5 DEF ReadManifestFails, Fail, Fault, Unlock
<1>6. ASSUME NEW p \in Pods, CheckHit(p) PROVE Holding'
  BY <1>6 DEF CheckHit, FileReady, Prepare, Unlock
<1>7. ASSUME NEW p \in Pods, CheckMiss(p) PROVE Holding'
  BY <1>7 DEF CheckMiss
<1>8. ASSUME NEW p \in Pods, CheckError(p) PROVE Holding'
  BY <1>8 DEF CheckError, Fault
<1>9. ASSUME NEW p \in Pods, GetCreates(p) PROVE Holding'
  BY <1>9 DEF GetCreates, Write
<1>10. ASSUME NEW p \in Pods, GetOpenFails(p) PROVE Holding'
  BY <1>10 DEF GetOpenFails, Fail, Fault, Unlock
<1>11. ASSUME NEW p \in Pods, GetCopies(p) PROVE Holding'
  BY <1>11 DEF GetCopies, Write, Remote
<1>12. ASSUME NEW p \in Pods, GetCopyFails(p) PROVE Holding'
  BY <1>12 DEF GetCopyFails, Fail, Fault, Unlock, Write, Remote
<1>13. ASSUME NEW p \in Pods, RecheckHit(p) PROVE Holding'
  BY <1>13 DEF RecheckHit, FileReady, Prepare, Unlock
<1>14. ASSUME NEW p \in Pods, RecheckFails(p) PROVE Holding'
  BY <1>14 DEF RecheckFails, Fail, Fault, Unlock
<1>15. ASSUME NEW p \in Pods, Crash(p) PROVE Holding'
  BY <1>15 DEF Crash, Fault
<1>16. ASSUME NEW a \in Artifacts, Publish(a) PROVE Holding'
  BY <1>16 DEF Publish
<1>17. CASE UNCHANGED vars
  BY <1>17 DEF vars
<1> QED  BY <1>1, <1>2, <1>3, <1>4, <1>5, <1>6, <1>7, <1>8, <1>9, <1>10, <1>11, <1>12, <1>13, <1>14, <1>15, <1>16, <1>17 DEF Next, Running
\* Type correctness, the bounds of the staging index and the possession of
\* the flock hold in every reachable state.
THEOREM LockInvariant == Spec => []LockInv
<1>1. Init => LockInv
  BY LockInvInit
<1>2. LockInv /\ [Next]_vars => LockInv'
  BY TypeStep, BoundsStep, HoldingStep DEF LockInv
<1> QED  BY <1>1, <1>2, PTL DEF Spec

\* Every staging index stays within its artifact and every lock names a pod
\* (the loop of prepareArtifact, lockDir).
THEOREM TypeCorrect == Spec => []TypeOK
<1>1. LockInv => TypeOK
  BY DEF LockInv
<1> QED  BY <1>1, LockInvariant, PTL

\* Two pods are never inside prepareArtifact on one directory (lockDir), even
\* when reads of the cache fail.
THEOREM SerializedTheorem == Spec => []Serialized
<1>1. LockInv => Serialized
  BY DEF LockInv, Holding, Serialized
<1> QED  BY <1>1, LockInvariant, PTL

-----------------------------------------------------------------------------
\* Only a file that was found not to match is written (ensureFile), so no
\* step takes the manifest's bytes away.
LEMMA CacheGrows ==
    ASSUME LockInv, Missed, ~FlakyReads, [Next]_vars
    PROVE  \A a \in Artifacts, f \in Files : cache[a][f] = "good" => cache'[a][f] = "good"
<1>1. ASSUME NEW p \in Pods, pc[p] \in {"get", "copy"}, NEW c \in Content, Write(p, c)
      PROVE  \A a \in Artifacts, f \in Files : cache[a][f] = "good" => cache'[a][f] = "good"
  <2>1. Dir(p) \in Artifacts
    BY <1>1, DirIsArtifact DEF LockInv, Locked
  <2>2. Local(p) # "good"
    BY <1>1 DEF Missed
  <2> QED  BY <1>1, <2>1, <2>2, WriteEffect DEF LockInv, Local
<1>2. ASSUME NEW p \in Pods, pc[p] = "copy" PROVE Remote(p) \in Content
  BY <1>2, DirIsArtifact DEF LockInv, TypeOK, Locked, Remote
<1>3. ASSUME NEW p \in Pods, GetCreates(p)
      PROVE  \A a \in Artifacts, f \in Files : cache[a][f] = "good" => cache'[a][f] = "good"
  BY <1>1, <1>3 DEF GetCreates, Content
<1>4. ASSUME NEW p \in Pods, GetCopies(p)
      PROVE  \A a \in Artifacts, f \in Files : cache[a][f] = "good" => cache'[a][f] = "good"
  BY <1>1, <1>2, <1>4 DEF GetCopies
<1>5. ASSUME NEW p \in Pods, GetCopyFails(p)
      PROVE  \A a \in Artifacts, f \in Files : cache[a][f] = "good" => cache'[a][f] = "good"
  <2>1. PICK c \in {"short", Remote(p)} : Write(p, c)
    BY <1>5 DEF GetCopyFails
  <2>2. c \in Content /\ pc[p] = "copy"
    BY <1>2, <1>5 DEF GetCopyFails, Content
  <2> QED  BY <1>1, <2>1, <2>2
<1>6. CASE UNCHANGED cache
  BY <1>6
<1> QED
  BY <1>3, <1>4, <1>5, <1>6
  DEF Next, Start, AcquireLock, LockFails, ReadManifest, ReadManifestFails, CheckHit,
      CheckMiss, CheckError, GetOpenFails, RecheckHit, RecheckFails, Crash, Publish,
      Running, vars

\* Going on after a good file (FileReady): one more file is known to be good,
\* and after the last one the whole artifact is.
LEMMA FileReadyKnows ==
    ASSUME LockInv, DataInv, NEW p \in Pods, pc[p] \in {"check", "recheck"},
           Local(p) = "good", FileReady(p), UNCHANGED cache
    PROVE  Prefix' /\ Staged'
<1> USE DEF LockInv, TypeOK, DataInv, Files
<1>1. \A f \in 1 .. idx[p] : cache[Dir(p)][f] = "good"
  BY DEF Prefix, Local
<1>2. CASE idx[p] < NFiles /\ idx' = [idx EXCEPT ![p] = @ + 1] /\ Goto(p, "check")
           /\ UNCHANGED <<stage, holder>>
  <2>1. ASSUME NEW q \in Pods, pc'[q] \in {"check", "get", "copy", "recheck"}
        PROVE  \A f \in 1 .. idx'[q] - 1 : cache'[Dir(q)'][f] = "good"
    <3>1. Dir(q)' = Dir(q)  BY <1>2 DEF Dir
    <3>2. CASE q = p
      BY <1>1, <1>2, <3>1, <3>2
    <3>3. CASE q # p
      BY <1>2, <2>1, <3>1, <3>3 DEF Prefix, Goto
    <3> QED  BY <3>2, <3>3
  <2>2. Staged'
    <3>1. \A q \in Pods : pc'[q] # "down" => pc[q] # "down"  BY <1>2 DEF Goto
    <3> QED  BY <1>2, <3>1 DEF Staged, Complete
  <2> QED  BY <2>1, <2>2 DEF Prefix, Dir
<1>3. CASE idx[p] = NFiles /\ Prepare(p, stage[p] + 1) /\ UNCHANGED idx
  <2>1. Prefix'
    <3>1. ASSUME NEW q \in Pods, pc'[q] \in {"check", "get", "copy", "recheck"}
          PROVE  q # p /\ pc'[q] = pc[q] /\ Dir(q)' = Dir(q) /\ idx'[q] = idx[q]
      BY <1>3, <3>1 DEF Prepare, Goto, Dir
    <3> QED  BY <3>1 DEF Prefix
  <2>2. ASSUME NEW q \in Pods, pc'[q] # "down", NEW i \in 1 .. stage'[q] - 1
        PROVE  Complete(Needs[q][i])'
    <3>1. CASE q # p
      BY <1>3, <2>2, <3>1 DEF Prepare, Goto, Staged, Complete
    <3>2. CASE q = p
      <4>1. i \in 1 .. stage[p]
        BY <1>3, <3>2 DEF Prepare
      <4>2. CASE i = stage[p]
        BY <1>1, <1>3, <3>2, <4>2 DEF Complete, Dir
      <4>3. CASE i # stage[p]
        <5>1. i \in 1 .. stage[p] - 1  BY <4>1, <4>3
        <5>2. Complete(Needs[p][i])  BY <5>1 DEF Staged
        <5> QED  BY <3>2, <5>2 DEF Complete
      <4> QED  BY <4>2, <4>3
    <3> QED  BY <3>1, <3>2
  <2> QED  BY <2>1, <2>2 DEF Staged
<1> QED  BY <1>2, <1>3 DEF FileReady

\* What a pod knows of the files it has passed survives every step.
LEMMA PrefixStep ==
    ASSUME LockInv, DataInv, ~FlakyReads, [Next]_vars
    PROVE  Prefix'
<1>0. \A a \in Artifacts, f \in Files : cache[a][f] = "good" => cache'[a][f] = "good"
  BY CacheGrows DEF DataInv
<1>a. \A p \in Pods : pc[p] \in Locked \union {"lock"} => Dir(p) \in Artifacts
  BY DirIsArtifact DEF LockInv
<1>b. \A p \in Pods :
        pc[p] \in {"check", "recheck"} /\ Local(p) = "good" /\ FileReady(p) /\ UNCHANGED cache
            => Prefix' /\ Staged'
  BY FileReadyKnows
<1> USE <1>0, <1>a DEF LockInv, TypeOK, Locked, DataInv, Prefix, Goto, Dir, Local, Files
<1>1. ASSUME NEW p \in Pods, Start(p) PROVE Prefix'
  BY <1>1 DEF Start, Prepare
<1>2. ASSUME NEW p \in Pods, AcquireLock(p) PROVE Prefix'
  BY <1>2 DEF AcquireLock
<1>3. ASSUME NEW p \in Pods, LockFails(p) PROVE Prefix'
  BY <1>3 DEF LockFails, Fault
<1>4. ASSUME NEW p \in Pods, ReadManifest(p) PROVE Prefix'
  BY <1>4 DEF ReadManifest
<1>5. ASSUME NEW p \in Pods, ReadManifestFails(p) PROVE Prefix'
  BY <1>5 DEF ReadManifestFails, Fail, Fault, Unlock
<1>6. ASSUME NEW p \in Pods, CheckHit(p) PROVE Prefix'
  BY <1>6, <1>b DEF CheckHit
<1>7. ASSUME NEW p \in Pods, CheckMiss(p) PROVE Prefix'
  BY <1>7 DEF CheckMiss
<1>8. ASSUME NEW p \in Pods, CheckError(p) PROVE Prefix'
  BY <1>8 DEF CheckError, Fault
<1>9. ASSUME NEW p \in Pods, GetCreates(p) PROVE Prefix'
  BY <1>9 DEF GetCreates, Write
<1>10. ASSUME NEW p \in Pods, GetOpenFails(p) PROVE Prefix'
  BY <1>10 DEF GetOpenFails, Fail, Fault, Unlock
<1>11. ASSUME NEW p \in Pods, GetCopies(p) PROVE Prefix'
  BY <1>11 DEF GetCopies, Write, Remote
<1>12. ASSUME NEW p \in Pods, GetCopyFails(p) PROVE Prefix'
  BY <1>12 DEF GetCopyFails, Fail, Fault, Unlock, Write, Remote
<1>13. ASSUME NEW p \in Pods, RecheckHit(p) PROVE Prefix'
  BY <1>13, <1>b DEF RecheckHit
<1>14. ASSUME NEW p \in Pods, RecheckFails(p) PROVE Prefix'
  BY <1>14 DEF RecheckFails, Fail, Fault, Unlock
<1>15. ASSUME NEW p \in Pods, Crash(p) PROVE Prefix'
  BY <1>15 DEF Crash, Fault
<1>16. ASSUME NEW a \in Artifacts, Publish(a) PROVE Prefix'
  BY <1>16 DEF Publish
<1>17. CASE UNCHANGED vars
  BY <1>17 DEF vars
<1> QED  BY <1>1, <1>2, <1>3, <1>4, <1>5, <1>6, <1>7, <1>8, <1>9, <1>10, <1>11, <1>12, <1>13, <1>14, <1>15, <1>16, <1>17 DEF Next, Running

\* A file about to be overwritten stays a mismatch: nobody else writes in the
\* directory of a pod that holds its lock.
LEMMA MissedStep ==
    ASSUME LockInv, DataInv, ~FlakyReads, [Next]_vars
    PROVE  Missed'
<1>a. \A p \in Pods : pc[p] \in Locked \union {"lock"} => Dir(p) \in Artifacts
  BY DirIsArtifact DEF LockInv
<1> USE <1>a DEF LockInv, TypeOK, Locked, Holding, DataInv, Missed, Goto, Dir, Local, Files
<1>1. ASSUME NEW p \in Pods, Start(p) PROVE Missed'
  BY <1>1 DEF Start, Prepare
<1>2. ASSUME NEW p \in Pods, AcquireLock(p) PROVE Missed'
  BY <1>2 DEF AcquireLock
<1>3. ASSUME NEW p \in Pods, LockFails(p) PROVE Missed'
  BY <1>3 DEF LockFails, Fault
<1>4. ASSUME NEW p \in Pods, ReadManifest(p) PROVE Missed'
  BY <1>4 DEF ReadManifest
<1>5. ASSUME NEW p \in Pods, ReadManifestFails(p) PROVE Missed'
  BY <1>5 DEF ReadManifestFails, Fail, Fault, Unlock
<1>6. ASSUME NEW p \in Pods, CheckHit(p) PROVE Missed'
  BY <1>6 DEF CheckHit, FileReady, Prepare, Unlock
<1>7. ASSUME NEW p \in Pods, CheckMiss(p) PROVE Missed'
  BY <1>7 DEF CheckMiss
<1>8. ASSUME NEW p \in Pods, CheckError(p) PROVE Missed'
  BY <1>8 DEF CheckError, Fault
<1>9. ASSUME NEW p \in Pods, GetCreates(p) PROVE Missed'
  BY <1>9 DEF GetCreates, Write
<1>10. ASSUME NEW p \in Pods, GetOpenFails(p) PROVE Missed'
  BY <1>10 DEF GetOpenFails, Fail, Fault, Unlock
<1>11. ASSUME NEW p \in Pods, GetCopies(p) PROVE Missed'
  BY <1>11 DEF GetCopies, Write, Remote
<1>12. ASSUME NEW p \in Pods, GetCopyFails(p) PROVE Missed'
  BY <1>12 DEF GetCopyFails, Fail, Fault, Unlock, Write, Remote
<1>13. ASSUME NEW p \in Pods, RecheckHit(p) PROVE Missed'
  BY <1>13 DEF RecheckHit, FileReady, Prepare, Unlock
<1>14. ASSUME NEW p \in Pods, RecheckFails(p) PROVE Missed'
  BY <1>14 DEF RecheckFails, Fail, Fault, Unlock
<1>15. ASSUME NEW p \in Pods, Crash(p) PROVE Missed'
  BY <1>15 DEF Crash, Fault
<1>16. ASSUME NEW a \in Artifacts, Publish(a) PROVE Missed'
  BY <1>16 DEF Publish
<1>17. CASE UNCHANGED vars
  BY <1>17 DEF vars
<1> QED  BY <1>1, <1>2, <1>3, <1>4, <1>5, <1>6, <1>7, <1>8, <1>9, <1>10, <1>11, <1>12, <1>13, <1>14, <1>15, <1>16, <1>17 DEF Next, Running

\* The artifacts a pod staged stay complete until it stops.
LEMMA StagedStep ==
    ASSUME LockInv, DataInv, ~FlakyReads, [Next]_vars
    PROVE  Staged'
<1>0. \A a \in Artifacts, f \in Files : cache[a][f] = "good" => cache'[a][f] = "good"
  BY CacheGrows DEF DataInv
<1>a. \A p \in Pods : pc[p] \in Locked \union {"lock"} => Dir(p) \in Artifacts
  BY DirIsArtifact DEF LockInv
<1>b. \A p \in Pods :
        pc[p] \in {"check", "recheck"} /\ Local(p) = "good" /\ FileReady(p) /\ UNCHANGED cache
            => Prefix' /\ Staged'
  BY FileReadyKnows
<1> USE <1>0, <1>a, LenNeeds DEF LockInv, TypeOK, InBounds, Locked, DataInv, Staged, Complete, Goto, Dir, Local, Files
<1>1. ASSUME NEW p \in Pods, Start(p) PROVE Staged'
  BY <1>1 DEF Start, Prepare
<1>2. ASSUME NEW p \in Pods, AcquireLock(p) PROVE Staged'
  <2>1. \A q \in Pods : pc'[q] # "down" => pc[q] # "down"
    BY <1>2 DEF AcquireLock
  <2> QED  BY <1>2, <2>1 DEF AcquireLock
<1>3. ASSUME NEW p \in Pods, LockFails(p) PROVE Staged'
  BY <1>3 DEF LockFails, Fault
<1>4. ASSUME NEW p \in Pods, ReadManifest(p) PROVE Staged'
  BY <1>4 DEF ReadManifest
<1>5. ASSUME NEW p \in Pods, ReadManifestFails(p) PROVE Staged'
  BY <1>5 DEF ReadManifestFails, Fail, Fault, Unlock
<1>6. ASSUME NEW p \in Pods, CheckHit(p) PROVE Staged'
  BY <1>6, <1>b DEF CheckHit
<1>7. ASSUME NEW p \in Pods, CheckMiss(p) PROVE Staged'
  BY <1>7 DEF CheckMiss
<1>8. ASSUME NEW p \in Pods, CheckError(p) PROVE Staged'
  BY <1>8 DEF CheckError, Fault
<1>9. ASSUME NEW p \in Pods, GetCreates(p) PROVE Staged'
  BY <1>9 DEF GetCreates, Write
<1>10. ASSUME NEW p \in Pods, GetOpenFails(p) PROVE Staged'
  BY <1>10 DEF GetOpenFails, Fail, Fault, Unlock
<1>11. ASSUME NEW p \in Pods, GetCopies(p) PROVE Staged'
  BY <1>11 DEF GetCopies, Write, Remote
<1>12. ASSUME NEW p \in Pods, GetCopyFails(p) PROVE Staged'
  BY <1>12 DEF GetCopyFails, Fail, Fault, Unlock, Write, Remote
<1>13. ASSUME NEW p \in Pods, RecheckHit(p) PROVE Staged'
  BY <1>13, <1>b DEF RecheckHit
<1>14. ASSUME NEW p \in Pods, RecheckFails(p) PROVE Staged'
  BY <1>14 DEF RecheckFails, Fail, Fault, Unlock
<1>15. ASSUME NEW p \in Pods, Crash(p) PROVE Staged'
  BY <1>15 DEF Crash, Fault
<1>16. ASSUME NEW a \in Artifacts, Publish(a) PROVE Staged'
  BY <1>16 DEF Publish
<1>17. CASE UNCHANGED vars
  BY <1>17 DEF vars
<1> QED  BY <1>1, <1>2, <1>3, <1>4, <1>5, <1>6, <1>7, <1>8, <1>9, <1>10, <1>11, <1>12, <1>13, <1>14, <1>15, <1>16, <1>17 DEF Next, Running
\* With reads that do not fail, what pods know of the files they have passed,
\* of the file they overwrite and of the artifacts they staged is always true.
THEOREM DataInvariant ==
    ASSUME ~FlakyReads
    PROVE  Spec => []DataInv
<1>1. Init => DataInv
  BY DEF Init, DataInv, Prefix, Missed, Staged
<1>2. LockInv /\ DataInv /\ [Next]_vars => DataInv'
  BY PrefixStep, MissedStep, StagedStep DEF DataInv
<1> QED  BY <1>1, <1>2, LockInvariant, PTL DEF Spec

\* An engine only ever reads verified weights (PrepareWeights, PrepareDraft).
THEOREM ServedIntactTheorem ==
    ASSUME ~FlakyReads
    PROVE  Spec => []ServedIntact
<1>1. LockInv /\ DataInv => ServedIntact
  <2> SUFFICES ASSUME LockInv, DataInv, NEW p \in Pods, pc[p] = "serving",
                      NEW i \in 1 .. Len(Needs[p])
               PROVE  Complete(Needs[p][i])
    BY DEF ServedIntact
  <2>1. i \in 1 .. stage[p] - 1
    BY LenNeeds DEF LockInv, InBounds
  <2> QED  BY <2>1 DEF DataInv, Staged
<1> QED  BY <1>1, LockInvariant, DataInvariant, PTL

\* A verified file is never written again (ensureFile).
THEOREM VerifiedNotRefetchedTheorem ==
    ASSUME ~FlakyReads
    PROVE  Spec => VerifiedNotRefetched
<1>1. LockInv /\ DataInv /\ [Next]_vars =>
        [\A a \in Artifacts, f \in Files :
            cache[a][f] = "good" => cache'[a][f] = "good"]_vars
  BY CacheGrows DEF DataInv
<1> QED  BY <1>1, LockInvariant, DataInvariant, PTL DEF Spec, VerifiedNotRefetched

-----------------------------------------------------------------------------
\* A step that moves one pod and leaves the cache alone launches an engine,
\* ends one, or is invisible to SharedArtifact.
LEMMA MoveRefines ==
    ASSUME TypeOK, ServedIntact', UNCHANGED cache,
           NEW p \in Pods, NEW l \in Locations, Goto(p, l)
    PROVE  [Frozen!Next]_Frozen!vars
<1> DEFINE run == {q \in Pods : pc[q] = "serving"}
           all == {a \in Artifacts : Complete(a)}
<1>1. all' = all
  BY DEF Complete
<1>2. \A q \in Pods : pc'[q] = IF q = p THEN l ELSE pc[q]
  BY DEF Goto, TypeOK
<1>3. CASE l = "serving" /\ pc[p] # "serving"
  <2>1. run' = run \union {p} /\ p \notin run
    BY <1>2, <1>3
  <2>2. {Needs[p][i] : i \in 1 .. Len(Needs[p])} \subseteq all
    <3>1. pc'[p] = "serving"
      BY <1>2, <1>3
    <3>2. \A i \in 1 .. Len(Needs[p]) : Needs[p][i] \in Artifacts /\ Complete(Needs[p][i])
      BY <3>1 DEF ServedIntact, Complete
    <3> QED  BY <3>2
  <2> QED  BY <1>1, <2>1, <2>2 DEF Frozen!Next, Frozen!Launch, Frozen!vars
<1>4. CASE l # "serving" /\ pc[p] = "serving"
  <2>1. run' = run \ {p} /\ p \in run
    BY <1>2, <1>4
  <2> QED  BY <1>1, <2>1 DEF Frozen!Next, Frozen!Exit, Frozen!vars
<1>5. CASE (l = "serving") <=> (pc[p] = "serving")
  <2>1. run' = run
    BY <1>2, <1>5
  <2> QED  BY <1>1, <2>1 DEF Frozen!vars
<1> QED  BY <1>3, <1>4, <1>5

\* A step that writes one entry of a file that did not match completes at most
\* that artifact, and launches and ends no engine.
LEMMA WriteRefines ==
    ASSUME LockInv, Missed, NEW p \in Pods, pc[p] \in {"get", "copy"},
           NEW c \in Content, Write(p, c),
           \A q \in Pods : (pc'[q] = "serving") <=> (pc[q] = "serving")
    PROVE  [Frozen!Next]_Frozen!vars
<1> DEFINE run == {q \in Pods : pc[q] = "serving"}
           all == {a \in Artifacts : Complete(a)}
<1>1. run' = run
  OBVIOUS
<1>2. Dir(p) \in Artifacts /\ Dir(p) \notin all
  <2>1. Dir(p) \in Artifacts
    BY DirIsArtifact DEF LockInv, Locked
  <2>2. ~Complete(Dir(p))
    BY DEF LockInv, TypeOK, Missed, Local, Complete
  <2> QED  BY <2>1, <2>2
<1>3. \A a \in Artifacts : a # Dir(p) => (Complete(a)' <=> Complete(a))
  BY <1>2, WriteEffect DEF LockInv, Complete
<1>4. all' = all \/ all' = all \union {Dir(p)}
  BY <1>2, <1>3
<1> QED  BY <1>1, <1>2, <1>4 DEF Frozen!Next, Frozen!Complete, Frozen!vars

\* The cache implements SharedArtifact: what engines rely on is all that the
\* staging, failing, crashing and restarting of pods lets them see.
THEOREM Refinement ==
    ASSUME ~FlakyReads
    PROVE  Spec => ImplementsSharedArtifact
<1>1. Init => Frozen!Init
  BY DEF Init, Frozen!Init
<1>2. LockInv /\ DataInv /\ ServedIntact' /\ [Next]_vars => [Frozen!Next]_Frozen!vars
  <2> SUFFICES ASSUME LockInv, DataInv, ServedIntact', [Next]_vars
               PROVE  [Frozen!Next]_Frozen!vars
    OBVIOUS
  <2>1. TypeOK /\ Missed
    BY DEF LockInv, DataInv
  <2>2. ASSUME NEW p \in Pods, GetCreates(p) PROVE [Frozen!Next]_Frozen!vars
    <3>1. \A q \in Pods : (pc'[q] = "serving") <=> (pc[q] = "serving")
      BY <2>1, <2>2 DEF GetCreates, Goto, TypeOK
    <3> QED  BY <2>1, <2>2, <3>1, WriteRefines DEF GetCreates, Content
  <2>3. ASSUME NEW p \in Pods, GetCopies(p) PROVE [Frozen!Next]_Frozen!vars
    <3>1. \A q \in Pods : (pc'[q] = "serving") <=> (pc[q] = "serving")
      BY <2>1, <2>3 DEF GetCopies, Goto, TypeOK
    <3>2. Remote(p) \in Content
      BY <2>3, DirIsArtifact DEF GetCopies, LockInv, TypeOK, Locked, Remote
    <3> QED  BY <2>1, <2>3, <3>1, <3>2, WriteRefines DEF GetCopies
  <2>4. ASSUME NEW p \in Pods, GetCopyFails(p) PROVE [Frozen!Next]_Frozen!vars
    <3>1. \A q \in Pods : (pc'[q] = "serving") <=> (pc[q] = "serving")
      BY <2>1, <2>4 DEF GetCopyFails, Fail, Goto, TypeOK
    <3>2. Remote(p) \in Content
      BY <2>4, DirIsArtifact DEF GetCopyFails, LockInv, TypeOK, Locked, Remote
    <3>3. PICK c \in {"short", Remote(p)} : Write(p, c)
      BY <2>4 DEF GetCopyFails
    <3>4. c \in Content /\ pc[p] = "copy"
      BY <2>4, <3>2 DEF GetCopyFails, Content
    <3> QED  BY <2>1, <3>1, <3>3, <3>4, WriteRefines
  <2>5. CASE UNCHANGED <<pc, cache>>
    BY <2>5 DEF Frozen!vars, Complete
  <2>6. CASE UNCHANGED cache /\ \E p \in Pods, l \in Locations : Goto(p, l)
    BY <2>1, <2>6, MoveRefines
  <2>7. \/ UNCHANGED cache /\ \E p \in Pods, l \in Locations : Goto(p, l)
        \/ UNCHANGED <<pc, cache>>
        \/ \E p \in Pods : GetCreates(p) \/ GetCopies(p) \/ GetCopyFails(p)
    BY DEF Next, Start, AcquireLock, LockFails, ReadManifest, ReadManifestFails, CheckHit,
           CheckMiss, CheckError, GetOpenFails, RecheckHit, RecheckFails, Crash, Publish,
           Running, vars, Fail, FileReady, Prepare, Locations
  <2> QED  BY <2>2, <2>3, <2>4, <2>5, <2>6, <2>7
<1> QED
  BY <1>1, <1>2, LockInvariant, DataInvariant, ServedIntactTheorem, PTL
  DEF Spec, ImplementsSharedArtifact, Frozen!Spec
=============================================================================
