--------------------------- MODULE SharedArtifact ---------------------------
(***************************************************************************)
(* What the weight cache of one host promises its engines, with nothing of *)
(* how: an artifact becomes complete once and stays so, and an engine is   *)
(* launched on complete artifacts only.                                    *)
(***************************************************************************)
CONSTANTS Pods,       \* the serving processes of the host
          Artifacts,  \* the weight directories they may need
          Uses        \* Uses[p]: the artifacts pod p is launched on

VARIABLES complete,   \* the artifacts whose every file is the frozen one
          engines     \* the pods whose engine runs

vars == <<complete, engines>>

TypeOK == /\ complete \in SUBSET Artifacts
          /\ engines \in SUBSET Pods

Init == /\ complete \in SUBSET Artifacts
        /\ engines = {}

Complete(a) == /\ a \notin complete
               /\ complete' = complete \union {a}
               /\ UNCHANGED engines

Launch(p) == /\ p \notin engines
             /\ Uses[p] \subseteq complete
             /\ engines' = engines \union {p}
             /\ UNCHANGED complete

Exit(p) == /\ p \in engines
           /\ engines' = engines \ {p}
           /\ UNCHANGED complete

Next == \/ \E a \in Artifacts : Complete(a)
        \/ \E p \in Pods : Launch(p) \/ Exit(p)

Spec == Init /\ [][Next]_vars
=============================================================================
