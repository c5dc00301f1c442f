--------------------------- MODULE MCHarnessRun ----------------------------
(***************************************************************************)
(* A host on which two models were installed with the default ports.       *)
(***************************************************************************)
EXTENDS HarnessRun

CONSTANTS a, b, e1, e2

DefaultShim   == [m \in Models |-> 8000]
DefaultEngine == [m \in Models |-> 30000]

\* `install` renders no --port.
NoneStated == [m \in Models |-> None]
=============================================================================
