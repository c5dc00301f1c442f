---------------------------- MODULE MCBenchRun -----------------------------
(***************************************************************************)
(* A benchmark of a small endpoint that others use, too.                   *)
(***************************************************************************)
EXTENDS BenchRun

CONSTANTS w1, w2, x, y

Chat == [Question EXCEPT !.prompt = TRUE]

\* What the other clients send: chat requests on each kind of surface, with
\* and without a prompt and with fields that are lost, a body that does not
\* decode, and a path that is no surface.
SomeVisits ==
    {Chat, [Chat EXCEPT !.to = "anthropic-messages", !.loses = Fields],
     [Question EXCEPT !.to = "openai-responses", !.stream = FALSE],
     [Question EXCEPT !.to = "openai-responses", !.wellFormed = FALSE],
     [Chat EXCEPT !.wellFormed = FALSE],
     [Question EXCEPT !.to = "probe"]}

TwoHeads == <<"dspark", "dflash">>
=============================================================================
