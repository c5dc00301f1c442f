---------------------------- MODULE FrozenStore ----------------------------
(***************************************************************************)
(* What a mirror prefix promises its readers: nothing until it is          *)
(* published, and from then on the pinned revision, unchanged.             *)
(***************************************************************************)
CONSTANTS Revision,   \* the content of the pinned revision
          Unpublished \* the prefix before its manifest is written

VARIABLE mirror

TypeOK == mirror \in {Unpublished, Revision}

Init == mirror = Unpublished

Publish == mirror = Unpublished /\ mirror' = Revision

Next == Publish

Spec == Init /\ [][Next]_mirror
=============================================================================
