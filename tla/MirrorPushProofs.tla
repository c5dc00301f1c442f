-------------------------- MODULE MirrorPushProofs -------------------------
(***************************************************************************)
(* Proofs about MirrorPush, for any number of pushers, files and failures. *)
(***************************************************************************)
EXTENDS MirrorPush, TLAPS

USE FilesAssumption, ContentAssumption, BoundAssumption, ManifestAssumption

\* Going to the next file of a loop, or out of it, keeps the types.
LEMMA NextFileTypes ==
    ASSUME TypeOK, NEW p \in Pushers, NEW at \in Locations, NEW after \in Locations,
           NextFile(p, at, after)
    PROVE  pc' \in [Pushers -> Locations] /\ idx' \in [Pushers -> Files]
<1>1. pc \in [Pushers -> Locations] /\ idx \in [Pushers -> Files]
  BY DEF TypeOK
<1>2. CASE idx[p] < NFiles
  BY <1>1, <1>2 DEF NextFile, Goto, Files
<1>3. CASE idx[p] = NFiles
  BY <1>1, <1>3 DEF NextFile, Goto, Files
<1> QED  BY <1>2, <1>3 DEF NextFile

\* Passing a file of the upload loop with its bytes in the store: one more
\* hashed file, or all of them, are there.
LEMMA NextUpload ==
    ASSUME TypeOK, Uploaded, NEW p \in Pushers, NextFile(p, "size", "manifest"), rot' = rot,
           \A f \in LFS : store[f] = "good" => store'[f] = "good",
           idx[p] \in LFS => store'[idx[p]] = "good",
           pc[p] \in {"hash", "put"}
    PROVE  Uploaded'
<1> SUFFICES ASSUME NEW q \in Pushers, NEW f \in LFS,
                    \/ pc'[q] \in {"size", "hash", "put"} /\ f < idx'[q]
                    \/ pc'[q] = "manifest",
                    rot = 0
             PROVE  store'[f] = "good"
  BY DEF Uploaded
<1> USE DEF TypeOK, Files
<1>1. CASE q # p
  <2>1. pc'[q] = pc[q] /\ idx'[q] = idx[q]
    BY <1>1 DEF NextFile, Goto
  <2> QED  BY <2>1 DEF Uploaded
<1>2. CASE q = p
  <2>1. f < idx[p] \/ f = idx[p]
    BY <1>2 DEF NextFile, Goto
  <2> QED  BY <2>1 DEF Uploaded
<1> QED  BY <1>1, <1>2

\* Every step keeps the types.
LEMMA TypeStep == TypeOK /\ Recorded /\ [Next]_vars => TypeOK'
<1> SUFFICES ASSUME TypeOK, Recorded, [Next]_vars PROVE TypeOK'  OBVIOUS
<1>a. \A p \in Pushers, at, after \in Locations :
        NextFile(p, at, after) => pc' \in [Pushers -> Locations] /\ idx' \in [Pushers -> Files]
  BY NextFileTypes
<1>b. \A p \in Pushers : NextFile(p, pc[p], "size") =>
        pc' \in [Pushers -> Locations] /\ idx' \in [Pushers -> Files]
  <2> SUFFICES ASSUME NEW p \in Pushers, NextFile(p, pc[p], "size")
               PROVE  pc' \in [Pushers -> Locations] /\ idx' \in [Pushers -> Files]
    OBVIOUS
  <2>1. pc[p] \in Locations /\ "size" \in Locations
    BY DEF TypeOK, Locations
  <2> QED  BY <2>1, NextFileTypes
<1> USE DEF TypeOK, Locations, Verdicts, Manifests, Goto, Files, Content, FullSize
<1>1. ASSUME NEW p \in Pushers, StartPush(p) PROVE TypeOK'
  BY <1>1 DEF StartPush, storeVars
<1>2. ASSUME NEW p \in Pushers, LocalMatches(p) PROVE TypeOK'
  <2>1. entry' \in [Pushers -> [Files -> FullSize]]
    BY <1>2 DEF LocalMatches, Accepts
  <2>2. pc' \in [Pushers -> Locations] /\ idx' \in [Pushers -> Files]
    BY <1>2, <1>b DEF LocalMatches
  <2> QED  BY <1>2, <2>1, <2>2 DEF LocalMatches, storeVars
<1>3. ASSUME NEW p \in Pushers, LocalDiffers(p) PROVE TypeOK'
  BY <1>3 DEF LocalDiffers, storeVars
<1>4. ASSUME NEW p \in Pushers, NEW f \in Files, HfFetches(p, f) PROVE TypeOK'
  BY <1>4 DEF HfFetches, storeVars
<1>5. ASSUME NEW p \in Pushers, NEW f \in Files, HfDamages(p, f) PROVE TypeOK'
  BY <1>5 DEF HfDamages, storeVars, Fault
<1>6. ASSUME NEW p \in Pushers, HfExits(p) PROVE TypeOK'
  BY <1>6 DEF HfExits, storeVars, Fault
<1>7. ASSUME NEW p \in Pushers, SizeMatches(p) PROVE TypeOK'
  BY <1>7 DEF SizeMatches, storeVars
<1>8. ASSUME NEW p \in Pushers, SizeDiffers(p) PROVE TypeOK'
  BY <1>8 DEF SizeDiffers, storeVars
<1>9. ASSUME NEW p \in Pushers, HashMatches(p) PROVE TypeOK'
  BY <1>9, <1>a DEF HashMatches, storeVars
<1>10. ASSUME NEW p \in Pushers, HashDiffers(p) PROVE TypeOK'
  BY <1>10 DEF HashDiffers, storeVars
<1>11. ASSUME NEW p \in Pushers, Put(p) PROVE TypeOK'
  <2>1. pc' \in [Pushers -> Locations] /\ idx' \in [Pushers -> Files]
    BY <1>11, <1>a DEF Put
  <2> QED  BY <1>11, <2>1 DEF Put
<1>12. ASSUME NEW p \in Pushers, WriteManifest(p) PROVE TypeOK'
  BY <1>12 DEF WriteManifest
<1>13. ASSUME NEW p \in Pushers, Abort(p) PROVE TypeOK'
  BY <1>13 DEF Abort, storeVars, Fault
<1>14. CASE ReadManifest
  BY <1>14 DEF ReadManifest, pushVars, storeVars
<1>15. CASE VerifyFile
  BY <1>15 DEF VerifyFile, pushVars, storeVars
<1>16. ASSUME NEW f \in Files, Rot(f) PROVE TypeOK'
  BY <1>16 DEF Rot, pushVars
<1>17. CASE UNCHANGED vars
  BY <1>17 DEF vars
<1> QED  BY <1>1, <1>2, <1>3, <1>4, <1>5, <1>6, <1>7, <1>8, <1>9, <1>10, <1>11, <1>12, <1>13, <1>14, <1>15, <1>16, <1>17 DEF Next

\* Entries stand for the accepted files of the scratch directory: a push owns
\* its scratch directory and only `hf download` writes there.
LEMMA RecordedStep == TypeOK /\ Recorded /\ [Next]_vars => Recorded'
<1> SUFFICES ASSUME TypeOK, Recorded, [Next]_vars PROVE Recorded'  OBVIOUS
<1> USE DEF TypeOK, Recorded, Goto, Files
<1>1. ASSUME NEW p \in Pushers, StartPush(p) PROVE Recorded'
  BY <1>1 DEF StartPush, storeVars
<1>2. ASSUME NEW p \in Pushers, LocalMatches(p) PROVE Recorded'
  BY <1>2 DEF LocalMatches, storeVars, NextFile
<1>3. ASSUME NEW p \in Pushers, LocalDiffers(p) PROVE Recorded'
  BY <1>3 DEF LocalDiffers, storeVars
<1>4. ASSUME NEW p \in Pushers, NEW f \in Files, HfFetches(p, f) PROVE Recorded'
  BY <1>4 DEF HfFetches, storeVars
<1>5. ASSUME NEW p \in Pushers, NEW f \in Files, HfDamages(p, f) PROVE Recorded'
  BY <1>5 DEF HfDamages, storeVars, Fault
<1>6. ASSUME NEW p \in Pushers, HfExits(p) PROVE Recorded'
  BY <1>6 DEF HfExits, storeVars, Fault
<1>7. ASSUME NEW p \in Pushers, SizeMatches(p) PROVE Recorded'
  BY <1>7 DEF SizeMatches, storeVars
<1>8. ASSUME NEW p \in Pushers, SizeDiffers(p) PROVE Recorded'
  BY <1>8 DEF SizeDiffers, storeVars
<1>9. ASSUME NEW p \in Pushers, HashMatches(p) PROVE Recorded'
  BY <1>9 DEF HashMatches, storeVars, NextFile
<1>10. ASSUME NEW p \in Pushers, HashDiffers(p) PROVE Recorded'
  BY <1>10 DEF HashDiffers, storeVars
<1>11. ASSUME NEW p \in Pushers, Put(p) PROVE Recorded'
  BY <1>11 DEF Put, NextFile
<1>12. ASSUME NEW p \in Pushers, WriteManifest(p) PROVE Recorded'
  BY <1>12 DEF WriteManifest
<1>13. ASSUME NEW p \in Pushers, Abort(p) PROVE Recorded'
  BY <1>13 DEF Abort, storeVars, Fault
<1>14. CASE ReadManifest
  BY <1>14 DEF ReadManifest, pushVars, storeVars
<1>15. CASE VerifyFile
  BY <1>15 DEF VerifyFile, pushVars, storeVars
<1>16. ASSUME NEW f \in Files, Rot(f) PROVE Recorded'
  BY <1>16 DEF Rot, pushVars
<1>17. CASE UNCHANGED vars
  BY <1>17 DEF vars
<1> QED  BY <1>1, <1>2, <1>3, <1>4, <1>5, <1>6, <1>7, <1>8, <1>9, <1>10, <1>11, <1>12, <1>13, <1>14, <1>15, <1>16, <1>17 DEF Next

\* No push takes a hashed file out of the store: all of them put the same bytes.
LEMMA UploadedStep == TypeOK /\ Recorded /\ Uploaded /\ [Next]_vars => Uploaded'
<1> SUFFICES ASSUME TypeOK, Recorded, Uploaded, [Next]_vars PROVE Uploaded'  OBVIOUS
<1>a. ASSUME NEW p \in Pushers, pc[p] \in {"hash", "put"}, NextFile(p, "size", "manifest"), rot' = rot,
             \A f \in LFS : store[f] = "good" => store'[f] = "good",
             idx[p] \in LFS => store'[idx[p]] = "good"
      PROVE  Uploaded'
  BY <1>a, NextUpload
<1>b. \A p \in Pushers : pc[p] \in {"hash", "put"} =>
        /\ entry[p][idx[p]] = scratch[p][idx[p]]
        /\ idx[p] \in LFS => entry[p][idx[p]] = "good"
  BY DEF TypeOK, Recorded, Accepts
<1> USE DEF TypeOK, Uploaded, Goto, Files
<1>1. ASSUME NEW p \in Pushers, StartPush(p) PROVE Uploaded'
  BY <1>1 DEF StartPush, storeVars
<1>2. ASSUME NEW p \in Pushers, LocalMatches(p) PROVE Uploaded'
  BY <1>2 DEF LocalMatches, storeVars, NextFile
<1>3. ASSUME NEW p \in Pushers, LocalDiffers(p) PROVE Uploaded'
  BY <1>3 DEF LocalDiffers, storeVars
<1>4. ASSUME NEW p \in Pushers, NEW f \in Files, HfFetches(p, f) PROVE Uploaded'
  BY <1>4 DEF HfFetches, storeVars
<1>5. ASSUME NEW p \in Pushers, NEW f \in Files, HfDamages(p, f) PROVE Uploaded'
  BY <1>5 DEF HfDamages, storeVars, Fault
<1>6. ASSUME NEW p \in Pushers, HfExits(p) PROVE Uploaded'
  BY <1>6 DEF HfExits, storeVars, Fault
<1>7. ASSUME NEW p \in Pushers, SizeMatches(p) PROVE Uploaded'
  BY <1>7 DEF SizeMatches, storeVars
<1>8. ASSUME NEW p \in Pushers, SizeDiffers(p) PROVE Uploaded'
  BY <1>8 DEF SizeDiffers, storeVars
<1>9. ASSUME NEW p \in Pushers, HashMatches(p) PROVE Uploaded'
  BY <1>9, <1>a, <1>b DEF HashMatches, storeVars
<1>10. ASSUME NEW p \in Pushers, HashDiffers(p) PROVE Uploaded'
  BY <1>10 DEF HashDiffers, storeVars
<1>11. ASSUME NEW p \in Pushers, Put(p) PROVE Uploaded'
  BY <1>11, <1>a, <1>b DEF Put
<1>12. ASSUME NEW p \in Pushers, WriteManifest(p) PROVE Uploaded'
  BY <1>12 DEF WriteManifest
<1>13. ASSUME NEW p \in Pushers, Abort(p) PROVE Uploaded'
  BY <1>13 DEF Abort, storeVars, Fault
<1>14. CASE ReadManifest
  BY <1>14 DEF ReadManifest, pushVars, storeVars
<1>15. CASE VerifyFile
  BY <1>15 DEF VerifyFile, pushVars, storeVars
<1>16. ASSUME NEW f \in Files, Rot(f) PROVE Uploaded'
  BY <1>16 DEF Rot, pushVars
<1>17. CASE UNCHANGED vars
  BY <1>17 DEF vars
<1> QED  BY <1>1, <1>2, <1>3, <1>4, <1>5, <1>6, <1>7, <1>8, <1>9, <1>10, <1>11, <1>12, <1>13, <1>14, <1>15, <1>16, <1>17 DEF Next
\* A published mirror holds the hub's bytes of every hashed file.
LEMMA MirroredStep ==
    ASSUME TypeOK, Recorded, Uploaded, HashedFilesMirrored, [Next]_vars
    PROVE  HashedFilesMirrored'
<1> USE DEF TypeOK, HashedFilesMirrored, Published, Files
<1>1. ASSUME NEW p \in Pushers, Put(p) PROVE HashedFilesMirrored'
  <2>1. idx[p] \in LFS => scratch[p][idx[p]] = "good"
    BY <1>1 DEF Put, Recorded, Accepts
  <2> QED  BY <1>1, <2>1 DEF Put
<1>2. ASSUME NEW p \in Pushers, WriteManifest(p) PROVE HashedFilesMirrored'
  <2>1. rot = 0 => \A f \in LFS : entry[p][f] = "good" /\ store[f] = "good"
    BY <1>2 DEF WriteManifest, Recorded, Uploaded, Accepts
  <2> QED  BY <1>2, <2>1 DEF WriteManifest
<1>3. ASSUME NEW f \in Files, Rot(f) PROVE HashedFilesMirrored'
  BY <1>3 DEF Rot
<1>4. CASE UNCHANGED <<storeVars, rot>>
  BY <1>4 DEF storeVars
<1> QED
  BY <1>1, <1>2, <1>3, <1>4
  DEF Next, StartPush, LocalMatches, LocalDiffers, HfFetches, HfDamages, HfExits, SizeMatches,
      SizeDiffers, HashMatches, HashDiffers, Abort, ReadManifest, VerifyFile, vars, storeVars

\* What the verifier holds was published, and the prefix stays published.
LEMMA ReadPublishedStep ==
    ASSUME TypeOK, HashedFilesMirrored, ReadPublished, [Next]_vars
    PROVE  ReadPublished'
<1> USE DEF TypeOK, ReadPublished, Published, Manifests, Verdicts
<1>1. CASE ReadManifest
  BY <1>1 DEF ReadManifest, HashedFilesMirrored, storeVars
<1>2. CASE VerifyFile
  BY <1>2 DEF VerifyFile, storeVars
<1>3. ASSUME NEW p \in Pushers, WriteManifest(p) PROVE ReadPublished'
  BY <1>3, ManifestAssumption DEF WriteManifest
<1>4. CASE UNCHANGED <<manifest, reader, rot>>
  BY <1>4
<1>5. ASSUME NEW f \in Files, Rot(f) PROVE ReadPublished'
  BY <1>5 DEF Rot
<1> QED
  BY <1>1, <1>2, <1>3, <1>4, <1>5
  DEF Next, StartPush, LocalMatches, LocalDiffers, HfFetches, HfDamages, HfExits, SizeMatches,
      SizeDiffers, HashMatches, HashDiffers, Put, Abort, vars, storeVars

\* The initial states satisfy the invariant: nothing is published.
LEMMA PushInvInit == Init => PushInv
<1> SUFFICES ASSUME Init PROVE PushInv  OBVIOUS
<1>1. TypeOK
  BY DEF Init, TypeOK, Locations, Verdicts, Manifests, Files, FullSize
<1>2. Recorded /\ Uploaded
  BY DEF Init, Recorded, Uploaded
<1>3. HashedFilesMirrored /\ ReadPublished
  BY DEF Init, HashedFilesMirrored, ReadPublished, Published
<1> QED  BY <1>1, <1>2, <1>3 DEF PushInv

\* The invariant of every push.
THEOREM PushInvariant == Spec => []PushInv
<1>1. PushInv /\ [Next]_vars => PushInv'
  BY TypeStep, RecordedStep, UploadedStep, MirroredStep, ReadPublishedStep DEF PushInv
<1> QED  BY <1>1, PushInvInit, PTL DEF Spec

\* Every index stays within the tree and every manifest names whole files (the
\* loops of Push, verifyLocal and Verify).
THEOREM TypeCorrect == Spec => []TypeOK
<1>1. PushInv => TypeOK
  BY DEF PushInv
<1> QED  BY <1>1, PushInvariant, PTL

\* What the manifest vouches for is there: for every hashed file, whatever the
\* pushes that run at the same time, fail or are repeated (Push, verifyLocal).
THEOREM HashedFilesMirroredTheorem == Spec => []HashedFilesMirrored
<1>1. PushInv => HashedFilesMirrored
  BY DEF PushInv
<1> QED  BY <1>1, PushInvariant, PTL

\* Where the hub has a hash for every file, verifying never reports damage
\* unless the store has done some (Verify).
THEOREM NoFalseAlarmTheorem ==
    ASSUME LFS = Files
    PROVE  Spec => []NoFalseAlarm
<1>1. Init => NoFalseAlarm
  BY DEF Init, NoFalseAlarm
<1>2. PushInv /\ NoFalseAlarm /\ [Next]_vars => NoFalseAlarm'
  <2> SUFFICES ASSUME PushInv, NoFalseAlarm, [Next]_vars PROVE NoFalseAlarm'
    OBVIOUS
  <2>a. rot \in Nat
    BY BoundAssumption DEF PushInv, TypeOK
  <2>1. CASE VerifyFile
    <3>1. reader.file \in Files /\ reader.verdict = "reading" /\ rot' = rot
      BY <2>1 DEF VerifyFile, PushInv, TypeOK
    <3>2. CASE rot = 0
      <4>1. store[reader.file] = reader.read[reader.file]
        BY <3>1, <3>2 DEF PushInv, ReadPublished, HashedFilesMirrored
      <4> QED
        BY <2>1, <3>1, <4>1 DEF VerifyFile, NoFalseAlarm, PushInv, TypeOK, Verdicts
    <3>3. CASE rot # 0
      BY <2>a, <3>1, <3>3 DEF NoFalseAlarm
    <3> QED  BY <3>2, <3>3
  <2>2. CASE ReadManifest
    BY <2>2 DEF ReadManifest, NoFalseAlarm
  <2>3. ASSUME NEW f \in Files, Rot(f) PROVE NoFalseAlarm'
    BY <2>a, <2>3 DEF Rot, NoFalseAlarm
  <2>4. CASE UNCHANGED <<reader, rot>>
    BY <2>4 DEF NoFalseAlarm
  <2> QED
    BY <2>1, <2>2, <2>3, <2>4
    DEF Next, StartPush, LocalMatches, LocalDiffers, HfFetches, HfDamages, HfExits, SizeMatches,
        SizeDiffers, HashMatches, HashDiffers, Put, WriteManifest, Abort, vars
<1> QED  BY <1>1, <1>2, PushInvariant, PTL DEF Spec

\* Only the hub's bytes of a hashed file get into a manifest, whatever the
\* store does to the objects.
Vouched == Published => \A f \in LFS : manifest[f] = "good"

LEMMA VouchedStep == PushInv /\ Vouched /\ [Next]_vars => Vouched'
<1> SUFFICES ASSUME PushInv, Vouched, [Next]_vars PROVE Vouched'
  OBVIOUS
<1>1. ASSUME NEW p \in Pushers, WriteManifest(p) PROVE Vouched'
  <2>1. manifest' = entry[p] /\ pc[p] = "manifest"
    BY <1>1 DEF WriteManifest
  <2>2. \A f \in LFS : f \in Files /\ Accepts(f, entry[p][f])
    BY <2>1, FilesAssumption DEF PushInv, Recorded
  <2> QED  BY <2>1, <2>2 DEF Vouched, Accepts
<1>2. CASE UNCHANGED manifest
  BY <1>2 DEF Vouched, Published
<1> QED
  BY <1>1, <1>2
  DEF Next, StartPush, LocalMatches, LocalDiffers, HfFetches, HfDamages, HfExits, SizeMatches,
      SizeDiffers, HashMatches, HashDiffers, Put, Abort, ReadManifest, VerifyFile, Rot, vars,
      storeVars

\* Where the hub has a hash for every file, the prefix implements FrozenStore:
\* unpublished, and then the pinned revision for good.
THEOREM Refinement ==
    ASSUME LFS = Files
    PROVE  Spec => ImplementsFrozenStore
<1> DEFINE revision == [f \in Files |-> "good"]
           mirror == IF Published /\ rot = 0 THEN store ELSE manifest
           inv == PushInv /\ Vouched
<1>1. Init => Frozen!Init /\ Vouched
  BY DEF Init, Frozen!Init, Published, Vouched
<1>2. inv /\ Published => mirror = revision
  <2> SUFFICES ASSUME inv, Published PROVE mirror = revision
    OBVIOUS
  <2>1. manifest \in [Files -> FullSize] /\ \A f \in Files : manifest[f] = "good"
    BY DEF PushInv, TypeOK, Manifests, Vouched, Published
  <2>2. rot = 0 => store \in [Files -> Content] /\ \A f \in Files : store[f] = "good"
    BY DEF PushInv, TypeOK, HashedFilesMirrored
  <2> QED  BY <2>1, <2>2
<1>3. ~Published => mirror = NoManifest
  BY DEF Published
<1>4. inv /\ inv' /\ [Next]_vars => [Frozen!Next]_mirror
  <2> SUFFICES ASSUME inv, inv', [Next]_vars PROVE [Frozen!Next]_mirror
    OBVIOUS
  <2>1. Published => Published'
    <3>1. ASSUME NEW p \in Pushers, WriteManifest(p) PROVE Published'
      BY <3>1, ManifestAssumption DEF WriteManifest, PushInv, TypeOK, Published
    <3>2. CASE UNCHANGED manifest
      BY <3>2 DEF Published
    <3> QED
      BY <3>1, <3>2
      DEF Next, StartPush, LocalMatches, LocalDiffers, HfFetches, HfDamages, HfExits,
          SizeMatches, SizeDiffers, HashMatches, HashDiffers, Put, Abort, ReadManifest,
          VerifyFile, Rot, vars, storeVars
  <2>2. Published' => mirror' = revision
    <3> SUFFICES ASSUME Published' PROVE mirror' = revision
      OBVIOUS
    <3>1. manifest' \in [Files -> FullSize] /\ \A f \in Files : manifest'[f] = "good"
      BY DEF PushInv, TypeOK, Manifests, Vouched, Published
    <3>2. rot' = 0 => store' \in [Files -> Content] /\ \A f \in Files : store'[f] = "good"
      BY DEF PushInv, TypeOK, HashedFilesMirrored
    <3> QED  BY <3>1, <3>2
  <2>3. ~Published' => mirror' = NoManifest
    BY DEF Published
  <2>4. CASE Published
    BY <1>2, <2>1, <2>2, <2>4
  <2>5. CASE ~Published
    <3>1. mirror = NoManifest
      BY <1>3, <2>5
    <3> QED  BY <2>2, <2>3, <3>1 DEF Frozen!Next, Frozen!Publish
  <2> QED  BY <2>4, <2>5
<1>5. inv /\ [Next]_vars => Vouched'
  BY VouchedStep
<1> QED
  BY <1>1, <1>4, <1>5, PushInvariant, PTL DEF Spec, ImplementsFrozenStore, Frozen!Spec
-----------------------------------------------------------------------------
(* One push alone.                                                         *)

\* The files a push has passed are in the store as its entries have them.
Passed ==
    rot = 0 => \A p \in Pushers, f \in Files :
        \/ pc[p] \in {"size", "hash", "put"} /\ f < idx[p]
        \/ pc[p] = "manifest"
        => store[f] = entry[p][f]

\* Passing one more file, found in the store or put there.
LEMMA NextPassed ==
    ASSUME TypeOK, Passed, \A p, q \in Pushers : p = q,
           NEW p \in Pushers, NextFile(p, "size", "manifest"), pc[p] \in {"hash", "put"},
           rot' = rot, entry' = entry, store'[idx[p]] = entry[p][idx[p]],
           \A f \in Files \ {idx[p]} : store'[f] = store[f]
    PROVE  Passed'
<1> SUFFICES ASSUME NEW f \in Files, rot = 0,
                    \/ pc'[p] \in {"size", "hash", "put"} /\ f < idx'[p]
                    \/ pc'[p] = "manifest"
             PROVE  store'[f] = entry[p][f]
  BY DEF Passed
<1> USE DEF TypeOK, Files
<1>1. f < idx[p] \/ f = idx[p]
  BY DEF NextFile, Goto
<1>2. CASE f = idx[p]
  BY <1>2
<1>3. CASE f < idx[p]
  <2>1. store'[f] = store[f]
    BY <1>3
  <2>2. store[f] = entry[p][f]
    BY <1>3 DEF Passed
  <2> QED  BY <2>1, <2>2
<1> QED  BY <1>1, <1>2, <1>3

LEMMA PassedStep ==
    ASSUME TypeOK, Recorded, Passed, \A p, q \in Pushers : p = q, [Next]_vars
    PROVE  Passed'
<1>1. ASSUME NEW p \in Pushers, HashMatches(p) PROVE Passed'
  BY <1>1, NextPassed DEF HashMatches, storeVars
<1>2. ASSUME NEW p \in Pushers, Put(p) PROVE Passed'
  <2>1. entry[p][idx[p]] = scratch[p][idx[p]] /\ idx[p] \in Files
    BY <1>2 DEF Put, Recorded, TypeOK
  <2>2. store'[idx[p]] = entry[p][idx[p]] /\ \A f \in Files \ {idx[p]} : store'[f] = store[f]
    BY <1>2, <2>1 DEF Put, TypeOK
  <2> QED  BY <1>2, <2>2, NextPassed DEF Put
<1>3. ASSUME NEW p \in Pushers, SizeMatches(p) \/ SizeDiffers(p) \/ HashDiffers(p) PROVE Passed'
  BY <1>3 DEF SizeMatches, SizeDiffers, HashDiffers, Goto, Passed, TypeOK, storeVars
<1>4. ASSUME NEW p \in Pushers,
             \/ StartPush(p) \/ LocalDiffers(p) \/ WriteManifest(p) \/ Abort(p)
             \/ \E f \in Files : HfFetches(p, f) \/ HfDamages(p, f)
      PROVE  Passed'
  <2>1. pc'[p] \in {"verify", "download", "idle"} /\ rot' = rot
    BY <1>4 DEF StartPush, LocalDiffers, WriteManifest, Abort, HfFetches, HfDamages, Goto, TypeOK
  <2> QED  BY <2>1 DEF Passed
<1>5. ASSUME NEW p \in Pushers, LocalMatches(p) \/ HfExits(p) PROVE Passed'
  <2>1. pc'[p] \in {"verify", "reverify"} \/ (pc'[p] = "size" /\ idx'[p] = 1)
    BY <1>5 DEF LocalMatches, HfExits, NextFile, Goto, TypeOK
  <2>2. \A f \in Files : ~(f < 1)
    BY DEF Files
  <2> QED  BY <2>1, <2>2 DEF Passed
<1>6. ASSUME NEW f \in Files, Rot(f) PROVE Passed'
  BY <1>6 DEF Rot, Passed, TypeOK
<1>7. CASE UNCHANGED <<pushVars, storeVars, rot>>
  BY <1>7 DEF Passed, pushVars, storeVars
<1> QED
  BY <1>1, <1>2, <1>3, <1>4, <1>5, <1>6, <1>7
  DEF Next, ReadManifest, VerifyFile, vars, pushVars, storeVars

\* A push that is not interfered with leaves a prefix that its manifest
\* describes, whatever it found there and in its scratch directory, and however
\* often it was interrupted (Push skips and replaces by the hashes that
\* writeManifest publishes).  With two pushes it does not hold: the files the
\* hub has no hash for may be either one's.
THEOREM PushLeavesItsManifestTheorem ==
    ASSUME \A p, q \in Pushers : p = q
    PROVE  Spec => PushLeavesItsManifest
<1>1. Init => Passed
  BY DEF Init, Passed
<1>2. PushInv /\ Passed /\ [Next]_vars => Passed'
  BY PassedStep DEF PushInv
<1>3. PushInv /\ Passed /\ [Next]_vars
        => [rot' = 0 /\ manifest' # manifest => \A f \in Files : store'[f] = manifest'[f]]_vars
  <2> SUFFICES ASSUME PushInv, Passed, [Next]_vars, rot' = 0, manifest' # manifest
               PROVE  \A f \in Files : store'[f] = manifest'[f]
    OBVIOUS
  <2>1. PICK p \in Pushers : WriteManifest(p)
    BY DEF Next, StartPush, LocalMatches, LocalDiffers, HfFetches, HfDamages, HfExits,
           SizeMatches, SizeDiffers, HashMatches, HashDiffers, Put, Abort, ReadManifest,
           VerifyFile, Rot, vars, storeVars
  <2>2. pc[p] = "manifest" /\ rot = 0 /\ manifest' = entry[p] /\ store' = store
    BY <2>1 DEF WriteManifest
  <2> QED  BY <2>2 DEF Passed
<1> QED  BY <1>1, <1>2, <1>3, PushInvariant, PTL DEF Spec, PushLeavesItsManifest
=============================================================================
