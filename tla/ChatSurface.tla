---------------------------- MODULE ChatSurface ----------------------------
(***************************************************************************)
(* The HTTP face of `fornax serve` while it serves: ServeHTTP, the dialect *)
(* surfaces, the proxy and the loss counters of internal/runtime/shim.go,  *)
(* with the engine behind them and the clients in front.                   *)
(*                                                                         *)
(* A request names the caller dialect whose path it is sent to, or a path  *)
(* that is none.  Of a body only its system prompts matter, in the place   *)
(* where the engine's dialect has them, and the fields that the engine's   *)
(* dialect cannot carry.  A serving process may be replaced by one that    *)
(* runs with another draft head.                                           *)
(***************************************************************************)
EXTENDS Naturals, Sequences, FiniteSets

CONSTANTS
    Clients,        \* requests that may be in flight together
    EngineDialect,  \* engine_dialect of the manifest
    Policies,       \* system_prompt modes a manifest has, "absent" for none
    Visits,         \* the requests that clients send
    Fields,         \* request fields a translation may lose
    Heads,          \* Heads[i]: the Speculator of the i-th serving process
    MaxCuts         \* bound on answers that fail or break off

Dialects == {"openai-chat", "anthropic-messages", "openai-responses"}

ASSUME ClientAssumption  == IsFiniteSet(Clients)
ASSUME DialectAssumption == EngineDialect \in Dialects
ASSUME PolicyAssumption  == Policies \subseteq {"absent", "default", "prepend", "override"}
ASSUME HeadAssumption    == Len(Heads) \in Nat \ {0} /\ MaxCuts \in Nat

VARIABLES
    policy,    \* the system prompt policy
    life,      \* which serving process runs
    cuts,      \* failed and broken answers so far
    st,        \* st[c]: how far the request of client c is
    req,       \* req[c]: the request
    todo,      \* todo[c]: lost fields its handler has still to count
    seen,      \* seen[c]: the system prompts the engine reads in it
    answer,    \* answer[c]: what the client got
    stored,    \* stored[<<d, f>>]: the counter the process keeps for a lost
               \* field, named by the client whose handler made it; none or one
    held,      \* held[c]: the field, and its counter, that a handler is about
               \* to add to; none or one
    count,     \* count[<<d, f, c>>]: the value of the counter that c made
    lost       \* the losses its handlers have come upon, to compare

lossVars    == <<stored, held, count, lost>>
surfaceVars == <<policy, life, cuts, st, req, todo, seen, answer, lossVars>>

NoRequest == [to |-> "nothing", post |-> FALSE, prompt |-> FALSE, loses |-> {},
              stream |-> FALSE, wellFormed |-> TRUE]
NoAnswer  == [end |-> "none", head |-> "", whole |-> FALSE]
NoneStored == [k \in Dialects \X Fields |-> {}]
NoneHeld   == [c \in Clients |-> {}]
Zero       == [k \in Dialects \X Fields \X Clients |-> 0]
NoneLost   == [k \in Dialects \X Fields |-> 0]

SurfaceInit ==
    /\ policy \in Policies
    /\ life = 1 /\ cuts = 0
    /\ st = [c \in Clients |-> "idle"]
    /\ req = [c \in Clients |-> NoRequest]
    /\ todo = [c \in Clients |-> {}]
    /\ seen = [c \in Clients |-> <<>>]
    /\ answer = [c \in Clients |-> NoAnswer]
    /\ stored = NoneStored /\ held = NoneHeld /\ count = Zero /\ lost = NoneLost

-----------------------------------------------------------------------------
(* System prompts.                                                         *)

\* A body the engine can read has the caller's prompt among the messages
\* when the engine speaks Chat, and in a field of its own (system,
\* instructions) in the two other dialects.
Body(r) ==
    LET prompts == IF r.prompt THEN <<"caller">> ELSE <<>> IN
    IF EngineDialect = "openai-chat" THEN [messages |-> prompts, field |-> <<>>]
                                     ELSE [messages |-> <<>>, field |-> prompts]

\* injectSystemPrompt: it knows the message list only.
Inject(body) ==
    CASE policy = "default" /\ body.messages = <<>> -> [body EXCEPT !.messages = <<"ours">>]
      [] policy = "prepend"  -> [body EXCEPT !.messages = <<"ours">> \o @]
      [] policy = "override" -> [body EXCEPT !.messages = <<"ours">>]
      [] OTHER -> body

\* Where an engine of each dialect takes its system prompts from.
EngineSees(body) == IF EngineDialect = "openai-chat" THEN body.messages ELSE body.field

-----------------------------------------------------------------------------
(* Requests.                                                               *)

Surface(r) == r.to \in Dialects
Native(r)  == r.to = EngineDialect

\* What becomes of a request that arrives; a body that cannot be decoded is
\* refused like a method that a translated surface lacks.
\* BUG: what the engine speaks is proxied, prompt or not.
RouteNativeProxied(r) ==
    CASE r.to = "probe" -> "probed"
      [] r.to # "probe" /\ (~Surface(r) \/ Native(r)) -> "proxied"
      [] Surface(r) /\ ~Native(r) /\ r.post /\ r.wellFormed -> "read"
      [] OTHER -> "refused"

\* The engine owns its own paths, but not the bodies that a policy edits.
Proxied(r) == ~Surface(r) \/ (Native(r) /\ (~r.post \/ policy = "absent"))

Route(r) ==
    CASE r.to = "probe" -> "probed"
      [] r.to # "probe" /\ Proxied(r) -> "proxied"
      [] r.to # "probe" /\ ~Proxied(r) /\ r.post /\ r.wellFormed -> "read"
      [] OTHER -> "refused"

Upstream == {"proxied", "forwarded", "translated"}

\* The response ends, and with it the request.
Reply(c, end, whole) ==
    /\ st' = [st EXCEPT ![c] = "over"]
    /\ answer' = [answer EXCEPT ![c] = [end |-> end, head |-> Heads[life], whole |-> whole]]
    /\ req' = [req EXCEPT ![c] = NoRequest]
    /\ seen' = [seen EXCEPT ![c] = <<>>]

\* ServeHTTP and dialectSurface: a request is answered here, or proxied as it
\* is, or its body is read and decoded, so that it is known what the engine's
\* dialect cannot carry.  The handler shares nothing until it counts that.
Arrive(c, r) ==
    /\ st[c] = "idle"
    /\ CASE Route(r) = "probed" -> Reply(c, "ok", TRUE) /\ UNCHANGED <<todo, lost>>
         [] Route(r) = "refused" -> Reply(c, "error", TRUE) /\ UNCHANGED <<todo, lost>>
         [] Route(r) = "proxied" ->
                /\ st' = [st EXCEPT ![c] = "proxied"]
                /\ req' = [req EXCEPT ![c] = r]
                /\ seen' = [seen EXCEPT ![c] = EngineSees(Body(r))]
                /\ UNCHANGED <<todo, lost, answer>>
         [] Route(r) = "read" ->
                LET losses == IF Native(r) THEN {} ELSE r.loses IN
                /\ st' = [st EXCEPT ![c] = "counting"]
                /\ req' = [req EXCEPT ![c] = r]
                /\ todo' = [todo EXCEPT ![c] = losses]
                /\ lost' = [k \in DOMAIN lost |->
                               IF k[1] = r.to /\ k[2] \in losses THEN lost[k] + 1 ELSE lost[k]]
                /\ UNCHANGED <<seen, answer>>
    /\ UNCHANGED <<policy, life, cuts, stored, held, count>>

\* LoadOrStore: the counter that the first request to need it has stored, or
\* one that is stored now.
\* BUG: a Load and a Store of its own; the new counter replaces that of a
\* first use which has not added to it yet.
LoadThenStore(c, f) ==
    IF \A p \in stored[<<req[c].to, f>>] : count[<<req[c].to, f, p>>] = 0
    THEN {c} ELSE stored[<<req[c].to, f>>]

LoadOrStore(c, f) == IF stored[<<req[c].to, f>>] = {} THEN {c} ELSE stored[<<req[c].to, f>>]

\* recordLoss, for one field after the other: its counter is looked up,
FindCounter(c) ==
    /\ st[c] = "counting" /\ held[c] = {}
    /\ \E f \in todo[c] : \E o \in LoadOrStore(c, f) :
        /\ stored' = [stored EXCEPT ![<<req[c].to, f>>] = {o}]
        /\ held' = [held EXCEPT ![c] = {<<f, o>>}]
    /\ UNCHANGED <<policy, life, cuts, st, req, todo, seen, answer, count, lost>>

\* and then added to.
AddLoss(c) ==
    /\ \E h \in held[c] :
        /\ count' = [count EXCEPT ![<<req[c].to, h[1], h[2]>>] = @ + 1]
        /\ todo' = [todo EXCEPT ![c] = @ \ {h[1]}]
    /\ held' = [held EXCEPT ![c] = {}]
    /\ UNCHANGED <<policy, life, cuts, st, req, seen, answer, stored, lost>>

\* The rest of dialectSurface and translated: the prompt is put in and the
\* engine is asked.
Forward(c) ==
    /\ st[c] = "counting" /\ todo[c] = {}
    /\ st' = [st EXCEPT ![c] = IF Native(req[c]) THEN "forwarded" ELSE "translated"]
    /\ seen' = [seen EXCEPT ![c] = EngineSees(Inject(Body(req[c])))]
    /\ UNCHANGED <<policy, life, cuts, req, todo, answer, lossVars>>

-----------------------------------------------------------------------------
(* The engine's answer.                                                    *)

EngineAnswers(c) ==
    /\ st[c] \in Upstream
    /\ Reply(c, "ok", TRUE)
    /\ UNCHANGED <<policy, life, cuts, todo, lossVars>>

\* No connection (502), or a status of the engine's own.
EngineFails(c) ==
    /\ st[c] \in Upstream
    /\ cuts < MaxCuts /\ cuts' = cuts + 1
    /\ Reply(c, "error", TRUE)
    /\ UNCHANGED <<policy, life, todo, lossVars>>

\* The engine's answer breaks off: the reverse proxy aborts the client's
\* connection; forward and the translator's Stream return as if it were over;
\* an answer that is translated as a whole is not sent at all.
\* BUG: the proxy returns, too.
CutEndQuiet(c) == IF st[c] = "translated" /\ ~req[c].stream THEN "error" ELSE "ok"

CutEnd(c) ==
    CASE st[c] = "proxied" -> "aborted"
      [] st[c] = "translated" /\ ~req[c].stream -> "error"
      [] OTHER -> "ok"

EngineCuts(c) ==
    /\ st[c] \in Upstream
    /\ cuts < MaxCuts /\ cuts' = cuts + 1
    /\ Reply(c, CutEnd(c), FALSE)
    /\ UNCHANGED <<policy, life, todo, lossVars>>

\* Another serving process takes over, with the draft head it was started
\* with and counters at zero; open connections are gone.
Restart ==
    /\ life < Len(Heads) /\ life' = life + 1
    /\ st' = [c \in Clients |-> IF st[c] = "idle" THEN "idle" ELSE "over"]
    /\ answer' = [c \in Clients |-> IF st[c] \in {"idle", "over"} THEN answer[c]
                                    ELSE [end |-> "aborted", head |-> Heads[life], whole |-> FALSE]]
    /\ req' = [c \in Clients |-> NoRequest]
    /\ seen' = [c \in Clients |-> <<>>]
    /\ todo' = [c \in Clients |-> {}]
    /\ stored' = NoneStored /\ held' = NoneHeld /\ count' = Zero /\ lost' = NoneLost
    /\ UNCHANGED <<policy, cuts>>

Handle(c) ==
    \/ FindCounter(c) \/ AddLoss(c) \/ Forward(c)
    \/ EngineAnswers(c) \/ EngineFails(c) \/ EngineCuts(c)

-----------------------------------------------------------------------------
(* Properties.                                                             *)

\* On every surface the engine reads a chat request with the manifest's
\* prompt put first, alone under override, and under default only where the
\* caller has none; without a policy it reads what the caller wrote.
Enforced(r, prompts) ==
    LET callers == IF r.prompt THEN <<"caller">> ELSE <<>> IN
    prompts = CASE policy = "absent" -> callers
                [] policy = "default" -> IF r.prompt THEN callers ELSE <<"ours">>
                [] policy = "prepend" -> <<"ours">> \o callers
                [] policy = "override" -> <<"ours">>

PromptEnforced ==
    \A c \in Clients :
        Surface(req[c]) /\ req[c].post /\ st[c] \in Upstream => Enforced(req[c], seen[c])

\* No loss is forgotten and none is counted twice, though handlers that meet a
\* field for the first time look its counter up together, before either adds:
\* what /metrics says of a field is behind by the requests whose handlers have
\* still to add to it.
Behind(d, f) == {c \in Clients : st[c] = "counting" /\ req[c].to = d /\ f \in todo[c]}

Reported(d, f) ==
    IF stored[<<d, f>>] = {} THEN {0} ELSE {count[<<d, f, o>>] : o \in stored[<<d, f>>]}

LossesCounted ==
    \A d \in Dialects, f \in Fields :
        \A n \in Reported(d, f) : n + Cardinality(Behind(d, f)) = lost[<<d, f>>]
=============================================================================
