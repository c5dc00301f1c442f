------------------------- MODULE MCServeLifecycle -------------------------
(***************************************************************************)
(* Small hosts for ServeLifecycle.                                         *)
(***************************************************************************)
EXTENDS ServeLifecycle, TLC

CONSTANTS a, b, c, e1, e2, e3

\* Two installed units that name no port and so take the defaults, and a third
\* model that was given a --port of its own beside the default --engine-port.
OneByHand     == [m \in Models |-> IF m = c THEN 8001 ELSE 8000]
DefaultEngine == [m \in Models |-> 30000]
=============================================================================
