----------------------------- MODULE ServePlan -----------------------------
(***************************************************************************)
(* From a manifest file to an engine command: Load and Validate            *)
(* (internal/manifest), ResolveSpeculator, CheckMemoryBudget and           *)
(* EngineCommand (internal/runtime), in the order Serve calls them.        *)
(*                                                                         *)
(* An argument list is a sequence of tokens, each the text one of three    *)
(* ways: "--flag=value", "--flag" (anything that starts with a dash), and  *)
(* a bare word.  A memory fraction is in thousandths, memory in units of   *)
(* the model.                                                              *)
(* What a regular expression or an emptiness test says of a name, a        *)
(* revision, a license or a prompt's text is a BOOLEAN of the record.      *)
(***************************************************************************)
EXTENDS Naturals, Sequences

CONSTANTS
    Manifests,    \* the manifest files an operator may write
    Hosts,        \* machines: [total, ckpt], each a size or Unknown
    HostFloor,    \* hostFloorBytes
    Unknown,      \* a size that cannot be read
    Empty,        \* the value of a flag that has none
    NaN,          \* "nan", which ParseFloat accepts
    DSPARK,       \* a value of --speculative-algorithm
    DraftPath     \* <cache-root>/<hf_repo>/<revision> of the draft head

ASSUME FloorAssumption == HostFloor \in Nat
ASSUME HostAssumption  ==
    \A h \in Hosts : h.total \in (Nat \ {0}) \union {Unknown} /\ h.ckpt \in Nat \union {Unknown}
ASSUME ValueAssumption == Empty \notin Nat \union {NaN} /\ NaN \notin Nat /\ Unknown \notin Nat

VARIABLES
    file,     \* the manifest
    host,     \* the machine
    pc,       \* how far Serve has come, or how it ended
    choice,   \* the operator's --speculator, "" when not given
    spec,     \* the resolved Speculation
    command,  \* the engine's argument list after its own prefix
    advice,   \* the fraction the refusal names
    followed  \* the advice this file was edited to, 0 for none

vars == <<file, host, pc, choice, spec, command, advice, followed>>

-----------------------------------------------------------------------------
(* Argument lists.                                                         *)

Eq(flag, value) == [form |-> "eq", flag |-> flag, val |-> value]
Key(flag)       == [form |-> "key", flag |-> flag, val |-> Empty]
Word(value)     == [form |-> "word", flag |-> "", val |-> value]

\* The positions at which flag is written.
Uses(args, flag) == {i \in DOMAIN args : args[i].form # "word" /\ args[i].flag = flag}

\* What the use of a flag at position i says.
ValueAt(args, i) ==
    IF args[i].form = "key" /\ i + 1 \in DOMAIN args /\ args[i + 1].form = "word"
    THEN args[i + 1].val
    ELSE args[i].val

LastUse(args, flag) == {i \in Uses(args, flag) : \A j \in Uses(args, flag) : j <= i}

FirstUse(args, flag) == {i \in Uses(args, flag) : \A j \in Uses(args, flag) : i <= j}

\* BUG: the first occurrence counts.
FlagValueFirst(args, flag) == {ValueAt(args, i) : i \in FirstUse(args, flag)}

\* The value of flag, as a set: empty when the flag is absent.
FlagValue(args, flag) == {ValueAt(args, i) : i \in LastUse(args, flag)}

HasArg(args, req) ==
    \E i \in Uses(args, req.flag) :
        IF req.val = Empty THEN args[i].form = "key" ELSE ValueAt(args, i) = req.val

-----------------------------------------------------------------------------
(* Validation.                                                             *)

MaxFraction == 800

MemFractionFlag(runtime) ==
    IF runtime = "sglang" THEN "--mem-fraction-static" ELSE "--gpu-memory-utilization"

ContextFlag(runtime) == IF runtime = "sglang" THEN "--context-length" ELSE "--max-model-len"

RequiredArgs(repo) ==
    CASE repo = "MiniMax-M3" -> {Eq("--block-size", 128)}
      [] repo \in {"Kimi-K3", "DeepSeek-V4"} -> {Key("--trust-remote-code")}
      [] OTHER -> {}

SeparateHead(sp) == sp.repo # ""

\* An argument list as each way to start the model composes it.
NoSpeculator ==
    [named |-> TRUE, repo |-> "", pinned |-> FALSE, licensed |-> FALSE, s3 |-> "none", args |-> <<>>]
SpeculatorNames(m) == DOMAIN m.speculators
WithArgs(m, name) == m.args \o m.speculators[name].args

\* Every comparison with a NaN is false, so it passes both bounds.
CheckFraction(args, flag) ==
    /\ FlagValue(args, flag) # {}
    /\ \A v \in FlagValue(args, flag) : v = NaN \/ (v \in Nat /\ 0 < v /\ v <= MaxFraction)

\* BUG: the cap is checked on the base arguments only.
ValidGB10BaseOnly(m) ==
    m.gpu.type = "gb10" =>
        /\ m.gpu.count = 1 /\ m.gpu.nodes = 1
        /\ m.runtime \in {"sglang", "vllm"} =>
            /\ CheckFraction(m.args, MemFractionFlag(m.runtime))
            /\ FlagValue(m.args, ContextFlag(m.runtime)) # {}

ValidGB10(m) ==
    m.gpu.type = "gb10" =>
        /\ m.gpu.count = 1 /\ m.gpu.nodes = 1
        /\ m.runtime \in {"sglang", "vllm"} =>
            /\ CheckFraction(m.args, MemFractionFlag(m.runtime))
            /\ \A n \in SpeculatorNames(m) :
                   CheckFraction(WithArgs(m, n), MemFractionFlag(m.runtime))
            /\ FlagValue(m.args, ContextFlag(m.runtime)) # {}

ValidWeightSource(load, s3) == IF load = "local" THEN s3 = "none" ELSE s3 = "own"

DraftFlag == "--speculative-draft-model-path"

UsesDSpark(args) == FlagValue(args, "--speculative-algorithm") = {DSPARK}

ValidDSpark(args) ==
    UsesDSpark(args) =>
        /\ FlagValue(args, DraftFlag) = {}
        /\ FlagValue(args, "--pp-size") \subseteq {1}
        /\ FlagValue(args, "--enable-dp-attention") = {}

\* BUG: only the default speculator's combination is checked.
ValidSpeculationDefault(m) ==
    ValidDSpark(m.args)
        /\ \A n \in SpeculatorNames(m) \intersect {m.default} : ValidDSpark(WithArgs(m, n))

ValidSpeculation(m) ==
    ValidDSpark(m.args) /\ \A n \in SpeculatorNames(m) : ValidDSpark(WithArgs(m, n))

\* BUG: a default is only required, and not looked up in the set.
StatedDefault(m) == m.default # "" \/ SpeculatorNames(m) = {}

DeclaredDefault(m) ==
    \/ m.default \in SpeculatorNames(m) \union {"none"}
    \/ SpeculatorNames(m) = {} /\ m.default = ""

ValidSpeculators(m) ==
    /\ DeclaredDefault(m)
    /\ "none" \notin SpeculatorNames(m)
    /\ \A n \in SpeculatorNames(m) : LET sp == m.speculators[n] IN
        /\ sp.named /\ sp.args # <<>>
        /\ IF SeparateHead(sp)
           THEN /\ sp.pinned /\ sp.licensed
                /\ m.load # "s3-stream" /\ ValidWeightSource(m.load, sp.s3)
           ELSE ~sp.pinned /\ ~sp.licensed /\ sp.s3 = "none"

ValidRuntime(m) ==
    \/ m.runtime \in {"sglang", "vllm"} /\ ~m.image /\ m.args # <<>>
    \/ m.runtime = "custom" /\ m.image

Validate(m) ==
    /\ m.pinned /\ m.licensed
    /\ ValidWeightSource(m.load, m.s3)
    /\ ValidRuntime(m)
    /\ m.deploy \in {"", "k8s"} \/ (m.deploy = "bare-metal" /\ ~m.image)
    /\ m.load \in {"nvme-cache", "local"} \/ (m.load = "s3-stream" /\ m.runtime = "vllm")
    /\ m.dialect \in {"", "openai-chat", "anthropic-messages", "openai-responses"}
    /\ m.prompt = "absent" \/ (m.prompt \in {"default", "prepend", "override"} /\ m.worded)
    /\ m.gpu.type # "" /\ m.gpu.count > 0 /\ m.gpu.nodes > 0 /\ m.context_max > 0
    /\ \A req \in RequiredArgs(m.repo) : HasArg(m.args, req)
    /\ ValidGB10(m)
    /\ ValidSpeculators(m)
    /\ ValidSpeculation(m)

-----------------------------------------------------------------------------
(* The memory budget.                                                      *)

\* The fraction the manifest states: ParseFloat fails on anything else.
EngineFraction(m) ==
    {v \in FlagValue(m.args, MemFractionFlag(m.runtime)) : v \in Nat /\ v > 0}

Engine(fraction, total) == (fraction * total) \div 1000

\* total and the size of the weight directory, when both can be read; what
\* streams from s3 has no directory to size.  A NaN converts to an integer
\* below every budget and is admitted like a fraction that is not stated.
Measured == host.total # Unknown /\ host.ckpt # Unknown /\ file.load # "s3-stream"

\* BUG: the checkpoint in the page cache counts as free.
OverBudgetNoCheckpoint ==
    /\ file.gpu.type = "gb10"
    /\ Measured
    /\ \E f \in EngineFraction(file) : Engine(f, host.total) + HostFloor > host.total

OverBudget ==
    /\ file.gpu.type = "gb10"
    /\ Measured
    /\ \E f \in EngineFraction(file) :
           Engine(f, host.total) + host.ckpt + HostFloor > host.total

\* BUG: rounded to the nearest.
AdviceRounded ==
    IF host.ckpt + HostFloor > host.total THEN 0
    ELSE 10 * (((host.total - host.ckpt - HostFloor) * 100 + host.total \div 2) \div host.total)

\* safe, rounded down to two decimals; nothing when it is negative.
Advice ==
    IF host.ckpt + HostFloor > host.total THEN 0
    ELSE 10 * (((host.total - host.ckpt - HostFloor) * 100) \div host.total)

\* How an engine reads its command line: the last use of a flag counts.
EngineReads(args, flag) == {ValueAt(args, i) : i \in LastUse(args, flag)}

Effective(flag)   == EngineReads(command, flag)
EffectiveFraction == Effective(MemFractionFlag(file.runtime))

-----------------------------------------------------------------------------
(* Serve's steps.                                                          *)

Init ==
    /\ file \in Manifests
    /\ host \in Hosts
    /\ pc = "file"
    /\ choice = "" /\ spec = NoSpeculator
    /\ command = <<>>
    /\ advice = 0 /\ followed = 0

\* Load: the command ends before anything is started when the file is invalid.
LoadManifest ==
    /\ pc = "file"
    /\ pc' = IF Validate(file) THEN "loaded" ELSE "invalid"
    /\ UNCHANGED <<file, host, choice, spec, command, advice, followed>>

\* ResolveSpeculator: no choice takes the default, and no default is none.
SpeculatorFor(m, c) == IF c # "" THEN c ELSE IF m.default = "" THEN "none" ELSE m.default
Resolves(m, c)      == SpeculatorFor(m, c) \in SpeculatorNames(m) \union {"none"}

ResolveSpeculator(c) ==
    /\ pc = "loaded"
    /\ choice' = c
    /\ IF Resolves(file, c)
       THEN /\ pc' = "resolved"
            /\ spec' = IF SpeculatorFor(file, c) = "none" THEN NoSpeculator
                       ELSE file.speculators[SpeculatorFor(file, c)]
       ELSE pc' = "unresolved" /\ UNCHANGED spec
    /\ UNCHANGED <<file, host, command, advice, followed>>

Choices == SpeculatorNames(file) \union {"", "none", "unheard-of"}

\* PrepareWeights and PrepareDraft: a head that must be copied and has no
\* store to come from ends the start here.
Stage ==
    /\ pc = "resolved"
    /\ pc' = IF SeparateHead(spec) /\ file.load # "local" /\ spec.s3 # "own"
             THEN "failed" ELSE "staged"
    /\ UNCHANGED <<file, host, choice, spec, command, advice, followed>>

\* CheckMemoryBudget: the last moment before the engine allocates.
CheckMemoryBudget ==
    /\ pc = "staged"
    /\ IF OverBudget THEN pc' = "refused" /\ advice' = Advice
       ELSE pc' = "admitted" /\ UNCHANGED advice
    /\ UNCHANGED <<file, host, choice, spec, command, followed>>

\* BUG: the draft path is written for every speculator.
LaunchAlwaysDraft ==
    /\ pc = "admitted"
    /\ pc' = "running"
    /\ command' = file.args \o spec.args \o <<Eq(DraftFlag, DraftPath)>>
    /\ UNCHANGED <<file, host, choice, spec, advice, followed>>

\* EngineCommand and the start of the engine.
Launch ==
    /\ pc = "admitted"
    /\ IF file.runtime = "custom" THEN pc' = "failed" /\ UNCHANGED command
       ELSE /\ pc' = "running"
            /\ command' = file.args \o spec.args
                              \o (IF SeparateHead(spec) THEN <<Eq(DraftFlag, DraftPath)>> ELSE <<>>)
    /\ UNCHANGED <<file, host, choice, spec, advice, followed>>

\* The operator lowers the fraction to the value of the refusal: the last
\* occurrence of the flag is the one that counts.  Once: there is no second
\* refusal to follow.
FollowAdvice ==
    /\ pc = "refused" /\ advice > 0 /\ followed = 0
    /\ file' = [file EXCEPT !.args = Append(@, Eq(MemFractionFlag(file.runtime), advice))]
    /\ followed' = advice
    /\ pc' = "file" /\ choice' = "" /\ spec' = NoSpeculator
    /\ UNCHANGED <<host, command, advice>>

\* The next start, of the same file or of another one.
Over == pc \in {"invalid", "unresolved", "failed", "refused", "running"}

StartAgain ==
    /\ Over
    /\ \/ UNCHANGED <<file, followed>>
       \/ file' \in Manifests /\ followed' = 0
    /\ pc' = "file" /\ choice' = "" /\ spec' = NoSpeculator
    /\ command' = <<>> /\ advice' = 0
    /\ UNCHANGED host

Next ==
    \/ LoadManifest \/ Stage \/ CheckMemoryBudget \/ Launch \/ FollowAdvice \/ StartAgain
    \/ \E c \in Choices : ResolveSpeculator(c)

Spec == Init /\ [][Next]_vars

-----------------------------------------------------------------------------
(* Properties.                                                             *)

\* On a unified-memory host no choice of speculator gets an engine past the
\* ceiling, and none leaves the fraction to the engine's default: Validate
\* looks at combinations, EngineCommand composes one of them (or a NaN).
Ceiling ==
    pc = "running" /\ file.gpu.type = "gb10" =>
        \E v \in EffectiveFraction : v = NaN \/ (v \in Nat /\ 0 < v /\ v <= MaxFraction)

\* An engine that speculates with DSpark has data-parallel attention off and
\* one pipeline stage, and takes its draft from one place: the directory
\* staged for it when the head is a repository of its own, and the
\* checkpoint, with no path at all, when it is not.
OneDraftSource ==
    pc = "running" /\ Effective("--speculative-algorithm") = {DSPARK} =>
        /\ Effective("--enable-dp-attention") = {}
        /\ Effective("--pp-size") \subseteq {1}
        /\ Effective(DraftFlag) = IF SeparateHead(spec) THEN {DraftPath} ELSE {}

\* Whoever lowers the fraction to the value a refusal names is refused
\* neither by the validation nor by the budget of the same host.
FollowingAdvice == followed > 0 => pc \notin {"refused", "invalid"}

\* What a valid manifest offers can be started: a start that names no
\* speculator or an offered one never ends for the manifest's sake, but for
\* a custom image, which has no engine command.
ValidManifestStarts ==
    /\ pc = "unresolved" => choice \notin SpeculatorNames(file) \union {"", "none"}
    /\ pc = "failed" => file.runtime = "custom"

\* The memory the running engine, the checkpoint it was loaded from and the
\* host take fit in the pool they share, where both sizes could be read.
Fits ==
    \A f \in EffectiveFraction \intersect Nat :
        Engine(f, host.total) + host.ckpt + HostFloor <= host.total

\* An admitted start fits, when its speculator states no fraction of its own.
AdmittedFits ==
    /\ pc = "running" /\ file.gpu.type = "gb10" /\ Measured
    /\ Uses(spec.args, MemFractionFlag(file.runtime)) = {}
    => Fits

\* The documented promise, for every speculator.
BudgetHolds == pc = "running" /\ file.gpu.type = "gb10" /\ Measured => Fits
=============================================================================
