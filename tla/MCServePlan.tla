---------------------------- MODULE MCServePlan ----------------------------
(***************************************************************************)
(* Manifests for ServePlan and BareMetal: a valid one for each way weights are loaded,   *)
(* each with argument lists and speculator sets of every form, and one     *)
(* that is spoiled in each field validation looks at.                      *)
(***************************************************************************)
EXTENDS BareMetal

CONSTANTS DFLASH, NotANumber

FracV == "--gpu-memory-utilization"
Base(f) == <<Eq("--max-model-len", 1), Eq(FracV, f)>>

Dspark == <<Key("--speculative-algorithm"), Word(DSPARK)>>
Own    == [NoSpeculator EXCEPT !.args = Dspark]
Apart  == [named |-> TRUE, repo |-> "org/head", pinned |-> TRUE, licensed |-> TRUE, s3 |-> "own", args |-> Dspark]

Plain ==
    [pinned |-> TRUE, licensed |-> TRUE, repo |-> "plain", load |-> "nvme-cache", s3 |-> "own",
     runtime |-> "vllm", image |-> FALSE, args |-> Base(500), deploy |-> "", dialect |-> "",
     prompt |-> "absent", worded |-> FALSE,
     gpu |-> [type |-> "gb10", count |-> 1, nodes |-> 1], context_max |-> 1,
     speculators |-> [n \in {} |-> NoSpeculator], default |-> ""]

Offers(set, d) == [Plain EXCEPT !.speculators = set, !.default = d]
One(sp) == [n \in {"s"} |-> sp]

Arguments ==
    {Base(f) : f \in {0, 650, 750, 800, 810, NaN, Empty, NotANumber}}
        \union {Base(500) \o t : t \in {<<Key(FracV), Word(700)>>, <<Key(FracV), Key("--other")>>,
                                        Dspark, <<Eq(FracV, 900)>>}}
        \union {<<Eq(FracV, 500)>>, <<Eq("--max-model-len", 1)>>}

\* Which fraction, which algorithm, and what else a speculator adds.
SpeculatorArgs ==
    {Dspark, Dspark \o <<Eq("--pp-size", 2)>>, Dspark \o <<Eq("--pp-size", 1)>>,
     Dspark \o <<Key("--enable-dp-attention")>>, Dspark \o <<Eq(DraftFlag, DraftPath)>>,
     <<Eq("--speculative-algorithm", DFLASH)>>,
     Dspark \o <<Eq(FracV, 800)>>, Dspark \o <<Key(FracV), Word(850)>>, <<Key(FracV)>>, <<>>}

Speculating ==
    {Offers(One([sp EXCEPT !.args = x]), d) :
        sp \in {Own, Apart}, x \in SpeculatorArgs, d \in {"s", "none"}}
    \union {Offers(One(sp), d) : d \in {"", "s", "t"},
        sp \in {Own, Apart, [Apart EXCEPT !.pinned = FALSE], [Apart EXCEPT !.licensed = FALSE],
                [Apart EXCEPT !.s3 = "none"], [Own EXCEPT !.s3 = "own"],
                [Own EXCEPT !.named = FALSE]}}
    \union {Offers([n \in {"none"} |-> Own], "none"), [Plain EXCEPT !.default = "t"]}
    \union {[Offers(One(sp), "s") EXCEPT !.load = l, !.s3 = IF l = "local" THEN "none" ELSE "own"] :
        l \in {"local", "s3-stream"}, sp \in {Own, Apart, [Apart EXCEPT !.s3 = "none"]}}

Others ==
    {[Plain EXCEPT !.args = x] : x \in Arguments}
    \union {[Plain EXCEPT !.args = Base(500) \o t, !.repo = r] :
        r \in {"MiniMax-M3", "Kimi-K3"},
        t \in {<<>>, <<Key("--block-size"), Word(128)>>, <<Eq("--block-size", 64)>>, <<Key("--trust-remote-code")>>}}
    \union {[Plain EXCEPT !.runtime = "custom", !.image = TRUE, !.args = <<>>],
            [Plain EXCEPT !.runtime = "sglang"], [Plain EXCEPT !.gpu.count = 2],
            [Plain EXCEPT !.gpu.type = "h200", !.gpu.count = 8, !.args = <<Key("--other")>>],
            [Plain EXCEPT !.load = "local"], [Plain EXCEPT !.load = "s3-stream"],
            [Plain EXCEPT !.deploy = "bare-metal"], [Plain EXCEPT !.dialect = "gemini"],
            [Plain EXCEPT !.prompt = "append", !.worded = TRUE], [Plain EXCEPT !.prompt = "prepend"],
            [Plain EXCEPT !.prompt = "default", !.worded = TRUE],
            [Plain EXCEPT !.runtime = "sglang",
                          !.args = <<Eq("--context-length", 1), Eq("--mem-fraction-static", 750)>>]}

\* A model deployed on bare metal, before and after it offers a speculator.
Metal == [Plain EXCEPT !.deploy = "bare-metal"]
MetalSpeculating == [Offers(One(Own), "none") EXCEPT !.deploy = "bare-metal"]

Installs ==
    [manifest : {Metal, MetalSpeculating}, pin : {"", "s"}]
        \union {[manifest |-> Plain, pin |-> ""], [manifest |-> [Metal EXCEPT !.pinned = FALSE], pin |-> ""]}

AllManifests == Speculating \union Others \union {w.manifest : w \in Installs}

\* In tenths of GiB.  Of the 128 GiB pool a checkpoint of 23 leaves 97 (0.75
\* and not 0.80), one of 30 leaves 90 (0.70), one of 119 leaves a single one
\* and one of 125 less than nothing.
GB10Hosts ==
    [total : {1280}, ckpt : {230, 300, 1190, 1250, Unknown}] \union {[total |-> Unknown, ckpt |-> 230]}
=============================================================================
