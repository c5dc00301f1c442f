-------------------------- MODULE ServePlanProofs ---------------------------
(***************************************************************************)
(* What holds of every manifest: whatever flags it and its speculators     *)
(* write, how often and in which order, an engine that was launched obeys  *)
(* the rules that validation checked, and the fraction that a refusal      *)
(* advises fits.                                                           *)
(***************************************************************************)
EXTENDS BareMetal, TLAPS

-----------------------------------------------------------------------------
(* Argument lists.                                                         *)

\* A flag written at the end of an argument list leaves the value of every
\* other flag as it was (flagValue).
LEMMA OtherFlagLast ==
    ASSUME NEW T, NEW args \in Seq(T), NEW last, last.form = "eq", NEW flag, last.flag # flag
    PROVE  FlagValue(args \o <<last>>, flag) = FlagValue(args, flag)
<1> DEFINE all == args \o <<last>>
<1>1. /\ all \in Seq(T \union {last})
      /\ DOMAIN all = 1..(Len(args) + 1) /\ DOMAIN args = 1..Len(args)
      /\ \A i \in 1..Len(args) : all[i] = args[i]
      /\ all[Len(args) + 1] = last
      /\ Len(args) \in Nat
  OBVIOUS
<1> HIDE DEF all
<1>2. Uses(all, flag) = Uses(args, flag) /\ Uses(args, flag) \subseteq 1..Len(args)
  BY <1>1 DEF Uses
<1>3. LastUse(all, flag) = LastUse(args, flag) /\ LastUse(args, flag) \subseteq 1..Len(args)
  BY <1>2 DEF LastUse
<1>4. ASSUME NEW i \in 1..Len(args) PROVE ValueAt(all, i) = ValueAt(args, i)
  <2>1. CASE i = Len(args)
    <3>1. /\ i + 1 \notin DOMAIN args /\ i + 1 \in DOMAIN all
          /\ all[i + 1] = last /\ all[i] = args[i]
      BY <1>1, <2>1
    <3>2. ValueAt(args, i) = args[i].val
      BY <3>1 DEF ValueAt
    <3>3. ValueAt(all, i) = args[i].val
      BY <3>1 DEF ValueAt
    <3> QED  BY <3>2, <3>3
  <2>2. CASE i # Len(args)
    <3>1. i + 1 \in DOMAIN args /\ i + 1 \in DOMAIN all
          /\ all[i + 1] = args[i + 1] /\ all[i] = args[i]
      BY <1>1, <2>2
    <3> QED  BY <3>1 DEF ValueAt
  <2> QED  BY <2>1, <2>2
<1>5. FlagValue(all, flag) = FlagValue(args, flag)
  BY <1>3, <1>4 DEF FlagValue
<1> QED  BY <1>5 DEF all

\* A flag written at the end of an argument list has the value written there.
LEMMA OwnFlagLast ==
    ASSUME NEW T, NEW args \in Seq(T), NEW flag, NEW value
    PROVE  FlagValue(args \o <<Eq(flag, value)>>, flag) = {value}
<1> DEFINE last == Eq(flag, value)
           all == args \o <<last>>
           n == Len(args) + 1
<1>1. last.form = "eq" /\ last.flag = flag /\ last.val = value
  BY DEF Eq
<1> HIDE DEF last
<1>2. DOMAIN all = 1..n /\ all[n] = last /\ n \in Nat \ {0}
  OBVIOUS
<1> HIDE DEF all, n
<1>3. n \in Uses(all, flag) /\ \A j \in Uses(all, flag) : j \in 1..n
  BY <1>1, <1>2 DEF Uses
<1>4. LastUse(all, flag) = {n}
  <2>1. n \in LastUse(all, flag)
    BY <1>2, <1>3 DEF LastUse
  <2>2. ASSUME NEW i \in LastUse(all, flag) PROVE i = n
    BY <1>2, <1>3 DEF LastUse
  <2> QED  BY <2>1, <2>2
<1>5. ValueAt(all, n) = value
  BY <1>1, <1>2 DEF ValueAt
<1> QED  BY <1>4, <1>5 DEF FlagValue, all, last

\* When a speculator's arguments use a flag, they say what it is.
LEMMA ValueOfSecond ==
    ASSUME NEW T, NEW a \in Seq(T), NEW b \in Seq(T), NEW flag, Uses(b, flag) # {}
    PROVE  FlagValue(a \o b, flag) = FlagValue(b, flag)
<1> DEFINE all == a \o b
           n == Len(a)
<1>1. /\ n \in Nat /\ Len(b) \in Nat
      /\ DOMAIN all = 1..(n + Len(b)) /\ DOMAIN b = 1..Len(b)
      /\ \A j \in 1..Len(b) : all[n + j] = b[j]
  OBVIOUS
<1> HIDE DEF all, n
<1>2. /\ Uses(b, flag) \subseteq 1..Len(b)
      /\ Uses(all, flag) \subseteq 1..(n + Len(b))
      /\ \A j \in 1..Len(b) : n + j \in Uses(all, flag) <=> j \in Uses(b, flag)
  BY <1>1 DEF Uses
<1>3. ASSUME NEW j \in LastUse(b, flag) PROVE n + j \in LastUse(all, flag)
  <2>1. j \in Uses(b, flag) /\ \A k \in Uses(b, flag) : k <= j
    BY DEF LastUse
  <2>2. j \in 1..Len(b) /\ n + j \in Uses(all, flag)
    BY <1>2, <2>1
  <2>3. ASSUME NEW i \in Uses(all, flag), i > n PROVE i <= n + j
    <3>1. i - n \in 1..Len(b) /\ i = n + (i - n)
      BY <1>1, <1>2, <2>3
    <3>2. i - n \in Uses(b, flag)
      BY <1>2, <3>1
    <3> QED  BY <1>1, <2>1, <2>2, <3>1, <3>2
  <2>4. \A i \in Uses(all, flag) : i <= n + j
    BY <1>1, <1>2, <2>2, <2>3
  <2> QED  BY <2>2, <2>4 DEF LastUse
<1>4. ASSUME NEW i \in LastUse(all, flag) PROVE \E j \in LastUse(b, flag) : i = n + j
  <2>1. i \in Uses(all, flag) /\ \A k \in Uses(all, flag) : k <= i
    BY DEF LastUse
  <2>2. PICK u : u \in Uses(b, flag)
    OBVIOUS
  <2>3. n + u <= i
    BY <1>2, <2>1, <2>2
  <2>4. i - n \in 1..Len(b) /\ i = n + (i - n)
    BY <1>1, <1>2, <2>1, <2>2, <2>3
  <2>5. i - n \in Uses(b, flag)
    BY <1>2, <2>1, <2>4
  <2>6. ASSUME NEW k \in Uses(b, flag) PROVE k <= i - n
    <3>1. k \in 1..Len(b) /\ n + k <= i
      BY <1>2, <2>1
    <3> QED  BY <1>1, <2>4, <3>1
  <2> QED  BY <2>4, <2>5, <2>6 DEF LastUse
<1>5. ASSUME NEW j \in 1..Len(b) PROVE ValueAt(all, n + j) = ValueAt(b, j)
  <2>1. (n + j) + 1 \in DOMAIN all <=> j + 1 \in DOMAIN b
    BY <1>1
  <2>2. j + 1 \in DOMAIN b => all[(n + j) + 1] = b[j + 1]
    <3>1. (n + j) + 1 = n + (j + 1)
      BY <1>1
    <3> QED  BY <1>1, <3>1
  <2>3. all[n + j] = b[j]
    BY <1>1
  <2> QED  BY <2>1, <2>2, <2>3 DEF ValueAt
<1>6. LastUse(b, flag) \subseteq 1..Len(b)
  BY <1>2 DEF LastUse
<1>7. FlagValue(all, flag) = FlagValue(b, flag)
  BY <1>3, <1>4, <1>5, <1>6 DEF FlagValue
<1> QED  BY <1>7 DEF all

\* When they do not, the base arguments say it, unless these end in the flag and
\* the first of the others is a bare word.
LEMMA ValueOfFirst ==
    ASSUME NEW T, NEW a \in Seq(T), NEW b \in Seq(T), NEW flag, Uses(b, flag) = {},
           Len(a) \in LastUse(a, flag) /\ b # <<>> => a[Len(a)].form # "key" \/ b[1].form # "word"
    PROVE  FlagValue(a \o b, flag) = FlagValue(a, flag)
<1> DEFINE all == a \o b
           n == Len(a)
<1>1. /\ n \in Nat /\ Len(b) \in Nat /\ (b # <<>> => Len(b) > 0) /\ (b = <<>> => Len(b) = 0)
      /\ DOMAIN all = 1..(n + Len(b)) /\ DOMAIN a = 1..n /\ DOMAIN b = 1..Len(b)
      /\ \A i \in 1..n : all[i] = a[i]
      /\ \A j \in 1..Len(b) : all[n + j] = b[j]
  OBVIOUS
<1>2. n \in LastUse(a, flag) /\ b # <<>> => a[n].form # "key" \/ b[1].form # "word"
  OBVIOUS
<1> HIDE DEF all, n
<1>3. Uses(all, flag) = Uses(a, flag) /\ Uses(a, flag) \subseteq 1..n
  <2>1. ASSUME NEW i \in Uses(all, flag), i > n PROVE FALSE
    <3>1. i \in 1..(n + Len(b)) /\ all[i].form # "word" /\ all[i].flag = flag
      BY <1>1 DEF Uses
    <3>2. i - n \in 1..Len(b) /\ i = n + (i - n)
      BY <1>1, <2>1, <3>1
    <3>3. i - n \in Uses(b, flag)
      BY <1>1, <3>1, <3>2 DEF Uses
    <3> QED  BY <3>3
  <2> QED  BY <1>1, <2>1 DEF Uses
<1>4. LastUse(all, flag) = LastUse(a, flag) /\ LastUse(a, flag) \subseteq 1..n
  BY <1>3 DEF LastUse
<1>5. ASSUME NEW i \in LastUse(a, flag) PROVE ValueAt(all, i) = ValueAt(a, i)
  <2>0. i \in 1..n /\ all[i] = a[i]
    BY <1>1, <1>4
  <2>1. CASE i = n
    <3>1. ValueAt(a, i) = a[i].val
      BY <1>1, <2>1 DEF ValueAt
    <3>2. i + 1 \in DOMAIN all => b # <<>> /\ all[i + 1] = b[1]
      BY <1>1, <2>1
    <3>3. ValueAt(all, i) = a[i].val
      BY <1>2, <2>0, <2>1, <3>2 DEF ValueAt
    <3> QED  BY <3>1, <3>3
  <2>2. CASE i # n
    <3>1. i + 1 \in DOMAIN a /\ i + 1 \in DOMAIN all /\ all[i + 1] = a[i + 1]
      BY <1>1, <2>0, <2>2
    <3> QED  BY <2>0, <3>1 DEF ValueAt
  <2> QED  BY <2>1, <2>2
<1>6. FlagValue(all, flag) = FlagValue(a, flag)
  BY <1>4, <1>5 DEF FlagValue
<1> QED  BY <1>6 DEF all

\* What a required argument is written as stays written when a flag follows.
LEMMA ArgStays ==
    ASSUME NEW T, NEW args \in Seq(T), NEW last, last.form = "eq", NEW req, HasArg(args, req)
    PROVE  HasArg(args \o <<last>>, req)
<1> DEFINE all == args \o <<last>>
           n == Len(args)
<1>1. /\ n \in Nat /\ DOMAIN all = 1..(n + 1) /\ DOMAIN args = 1..n
      /\ \A i \in 1..n : all[i] = args[i]
      /\ all[n + 1] = last
  OBVIOUS
<1> HIDE DEF all, n
<1>2. PICK i \in Uses(args, req.flag) :
          IF req.val = Empty THEN args[i].form = "key" ELSE ValueAt(args, i) = req.val
  BY DEF HasArg
<1>3. i \in 1..n /\ all[i] = args[i] /\ i \in Uses(all, req.flag)
  BY <1>1 DEF Uses
<1>4. ValueAt(all, i) = ValueAt(args, i)
  <2>1. CASE i = n
    <3>1. i + 1 \notin DOMAIN args /\ all[i + 1] = last
      BY <1>1, <2>1
    <3>2. ValueAt(args, i) = args[i].val
      BY <3>1 DEF ValueAt
    <3>3. ValueAt(all, i) = args[i].val
      BY <1>3, <3>1 DEF ValueAt
    <3> QED  BY <3>2, <3>3
  <2>2. CASE i # n
    <3>1. i + 1 \in DOMAIN args /\ i + 1 \in DOMAIN all /\ all[i + 1] = args[i + 1]
      BY <1>1, <1>3, <2>2
    <3> QED  BY <1>3, <3>1 DEF ValueAt
  <2> QED  BY <2>1, <2>2
<1>5. HasArg(all, req)
  BY <1>2, <1>3, <1>4 DEF HasArg
<1> QED  BY <1>5 DEF all

-----------------------------------------------------------------------------
(* From validation to the engine's command line.                           *)

\* What decoding a manifest yields: a record of all its fields, whose arguments
\* are a list of tokens, the base ones and those of every speculator.
IsToken(t) == t.form = "key" => t.val = Empty
IsArgs(s)  == \E T : s \in Seq(T) /\ \A t \in T : IsToken(t)
Fields     == {"pinned", "licensed", "repo", "load", "s3", "runtime", "image", "args", "deploy",
               "dialect", "prompt", "worded", "gpu", "context_max", "speculators", "default"}
Decoded(m) ==
    /\ Fields \subseteq DOMAIN m
    /\ IsArgs(m.args)
    /\ \A n \in SpeculatorNames(m) : IsArgs(m.speculators[n].args)

Resolved == {"resolved", "staged", "admitted", "running"}

\* Speculation: none, or one of the manifest's.
Offered == spec = NoSpeculator \/ \E n \in SpeculatorNames(file) : spec = file.speculators[n]

PlanInv ==
    /\ wish \in Wishes /\ data \in {w.manifest : w \in Wishes}
    /\ DOMAIN disk = Files
    /\ disk["manifest"] \in {NoFile, Torn} \/ Decoded(disk["manifest"])
    /\ byHand \/ pc \notin {"started", "invalid"} => Decoded(file)
    /\ pc \in Resolved \union {"loaded"} => Validate(file)
    /\ pc \in Resolved => Offered
    /\ pc = "running" =>
           /\ file.runtime # "custom"
           /\ command = file.args \o spec.args
                            \o (IF SeparateHead(spec) THEN <<Eq(DraftFlag, DraftPath)>> ELSE <<>>)

\* The combination that validation looked at: without a speculator the base
\* arguments, else the base arguments with that speculator's.
LEMMA CombinationChecked ==
    ASSUME PlanInv, pc \in Resolved
    PROVE  /\ IsArgs(file.args \o spec.args)
           /\ ValidDSpark(file.args \o spec.args)
           /\ file.gpu.type = "gb10" /\ file.runtime # "custom" =>
                  CheckFraction(file.args \o spec.args, MemFractionFlag(file.runtime))
<1>1. Decoded(file) /\ Validate(file) /\ Offered
  BY DEF PlanInv, Resolved
<1>2. ValidSpeculation(file) /\ ValidGB10(file) /\ ValidRuntime(file)
  BY <1>1 DEF Validate
<1>3. file.runtime # "custom" => file.runtime \in {"sglang", "vllm"}
  BY <1>2 DEF ValidRuntime
<1>4. PICK S : file.args \in Seq(S) /\ \A t \in S : IsToken(t)
  BY <1>1 DEF Decoded, IsArgs
<1>5. CASE spec = NoSpeculator
  <2>1. file.args \o spec.args = file.args
    <3>1. spec.args = <<>>
      BY <1>5 DEF NoSpeculator
    <3>2. \A s \in Seq(S) : s \o <<>> = s
      OBVIOUS
    <3> QED  BY <1>4, <3>1, <3>2
  <2>2. ValidDSpark(file.args)
    BY <1>2 DEF ValidSpeculation
  <2>3. file.gpu.type = "gb10" /\ file.runtime # "custom" =>
            CheckFraction(file.args, MemFractionFlag(file.runtime))
    BY <1>2, <1>3 DEF ValidGB10
  <2>4. IsArgs(file.args)
    BY <1>4 DEF IsArgs
  <2> QED  BY <2>1, <2>2, <2>3, <2>4
<1>6. ASSUME NEW n \in SpeculatorNames(file), spec = file.speculators[n]
      PROVE  /\ IsArgs(file.args \o spec.args)
             /\ ValidDSpark(file.args \o spec.args)
             /\ file.gpu.type = "gb10" /\ file.runtime # "custom" =>
                    CheckFraction(file.args \o spec.args, MemFractionFlag(file.runtime))
  <2>1. file.args \o spec.args = WithArgs(file, n)
    BY <1>6 DEF WithArgs
  <2>2. ValidDSpark(WithArgs(file, n))
    BY <1>2, <1>6 DEF ValidSpeculation
  <2>3. file.gpu.type = "gb10" /\ file.runtime # "custom" =>
            CheckFraction(WithArgs(file, n), MemFractionFlag(file.runtime))
    BY <1>2, <1>3, <1>6 DEF ValidGB10
  <2>4. IsArgs(file.args \o spec.args)
    <3>1. PICK T : spec.args \in Seq(T) /\ \A t \in T : IsToken(t)
      BY <1>1, <1>6 DEF Decoded, IsArgs
    <3>2. file.args \in Seq(S \union T) /\ spec.args \in Seq(S \union T)
      BY <1>4, <3>1
    <3>3. file.args \o spec.args \in Seq(S \union T)
      BY <3>2
    <3> QED  BY <1>4, <3>1, <3>3 DEF IsArgs
  <2> QED  BY <2>1, <2>2, <2>3, <2>4
<1> QED  BY <1>1, <1>5, <1>6 DEF Offered

\* What EngineCommand adds to that combination: the draft path of a head of its
\* own, which no other flag is affected by.
LEMMA CommandComposed ==
    ASSUME PlanInv, pc = "running"
    PROVE  /\ \A flag : flag # DraftFlag =>
                  Effective(flag) = FlagValue(file.args \o spec.args, flag)
           /\ Effective(DraftFlag) = IF SeparateHead(spec) THEN {DraftPath}
                                     ELSE FlagValue(file.args \o spec.args, DraftFlag)
<1> DEFINE plain == file.args \o spec.args
           draft == Eq(DraftFlag, DraftPath)
<1>1. PICK T : plain \in Seq(T)
  BY CombinationChecked DEF IsArgs, Resolved
<1>2. \A flag : Effective(flag) = FlagValue(command, flag)
  BY DEF Effective, EngineReads, FlagValue
<1>3. command = plain \o (IF SeparateHead(spec) THEN <<draft>> ELSE <<>>)
  BY DEF PlanInv
<1> HIDE DEF plain
<1>4. CASE SeparateHead(spec)
  <2>1. command = plain \o <<draft>>
    BY <1>3, <1>4
  <2>2. draft.form = "eq" /\ draft.flag = DraftFlag
    BY DEF Eq
  <2>3. ASSUME NEW flag, flag # DraftFlag PROVE FlagValue(command, flag) = FlagValue(plain, flag)
    BY <1>1, <2>1, <2>2, <2>3, OtherFlagLast
  <2>4. FlagValue(command, DraftFlag) = {DraftPath}
    BY <1>1, <2>1, OwnFlagLast
  <2> QED  BY <1>2, <1>4, <2>3, <2>4 DEF plain
<1>5. CASE ~ SeparateHead(spec)
  <2>1. command = plain
    BY <1>1, <1>3, <1>5
  <2> QED  BY <1>2, <1>5, <2>1 DEF plain
<1> QED  BY <1>4, <1>5

LEMMA PlanInvCeiling == PlanInv => Ceiling
<1> SUFFICES ASSUME PlanInv, pc = "running", file.gpu.type = "gb10"
             PROVE  \E v \in EffectiveFraction : v = NaN \/ (v \in Nat /\ 0 < v /\ v <= MaxFraction)
  BY DEF Ceiling
<1>1. CheckFraction(file.args \o spec.args, MemFractionFlag(file.runtime))
  BY CombinationChecked DEF PlanInv, Resolved
<1>2. MemFractionFlag(file.runtime) # DraftFlag
  BY DEF MemFractionFlag, DraftFlag
<1>3. EffectiveFraction = FlagValue(file.args \o spec.args, MemFractionFlag(file.runtime))
  BY <1>2, CommandComposed DEF EffectiveFraction
<1> QED  BY <1>1, <1>3 DEF CheckFraction

LEMMA PlanInvOneDraftSource == PlanInv => OneDraftSource
<1> SUFFICES ASSUME PlanInv, pc = "running", Effective("--speculative-algorithm") = {DSPARK}
             PROVE  /\ Effective("--enable-dp-attention") = {}
                    /\ Effective("--pp-size") \subseteq {1}
                    /\ Effective(DraftFlag) = IF SeparateHead(spec) THEN {DraftPath} ELSE {}
  BY DEF OneDraftSource
<1> DEFINE plain == file.args \o spec.args
<1>1. ValidDSpark(plain)
  BY CombinationChecked DEF Resolved
<1>2. \A flag \in {"--speculative-algorithm", "--enable-dp-attention", "--pp-size"} :
          Effective(flag) = FlagValue(plain, flag)
  BY CommandComposed DEF DraftFlag
<1>3. UsesDSpark(plain)
  BY <1>2 DEF UsesDSpark
<1>4. /\ FlagValue(plain, DraftFlag) = {}
      /\ FlagValue(plain, "--pp-size") \subseteq {1}
      /\ FlagValue(plain, "--enable-dp-attention") = {}
  BY <1>1, <1>3 DEF ValidDSpark
<1>5. Effective(DraftFlag) = IF SeparateHead(spec) THEN {DraftPath} ELSE {}
  BY <1>4, CommandComposed
<1> QED  BY <1>2, <1>4, <1>5


-----------------------------------------------------------------------------
(* The invariant.                                                          *)

Placed == Manifests \union {w.manifest : w \in Wishes}

\* The steps of Serve, whoever started it.
LEMMA ServeKeepsPlanInv ==
    ASSUME PlanInv, UNCHANGED installVars, pc \notin {"started", "invalid"},
           \/ LoadManifest \/ Stage \/ CheckMemoryBudget \/ Launch
           \/ \E c \in {choice} \union Choices : ResolveSpeculator(c)
    PROVE  PlanInv'
<1>a. Decoded(file)
  BY DEF PlanInv
<1>b. wish' = wish /\ data' = data /\ disk' = disk /\ byHand' = byHand
  BY DEF installVars
<1>1. CASE LoadManifest
  BY <1>a, <1>b, <1>1 DEF PlanInv, LoadManifest, Resolved, Decoded, SpeculatorNames
<1>2. ASSUME NEW c, ResolveSpeculator(c) PROVE PlanInv'
  <2>1. file' = file /\ pc = "loaded" /\ pc' \in {"resolved", "unresolved"}
    BY <1>2 DEF ResolveSpeculator
  <2>2. pc' = "resolved" => Offered'
    BY <1>2, <2>1 DEF ResolveSpeculator, Resolves, Offered, SpeculatorNames
  <2> QED
    BY <1>a, <1>b, <2>1, <2>2 DEF PlanInv, Resolved, Decoded, SpeculatorNames
<1>3. CASE Stage
  BY <1>a, <1>b, <1>3 DEF PlanInv, Stage, Resolved, Offered, Decoded, SpeculatorNames
<1>4. CASE CheckMemoryBudget
  BY <1>a, <1>b, <1>4 DEF PlanInv, CheckMemoryBudget, Resolved, Offered, Decoded, SpeculatorNames
<1>5. CASE Launch
  BY <1>a, <1>b, <1>5 DEF PlanInv, Launch, Resolved, Offered, Decoded, SpeculatorNames
<1> QED  BY <1>1, <1>2, <1>3, <1>4, <1>5

\* An operator's next start, of a manifest as it is or with another fraction.
LEMMA OperatorKeepsPlanInv ==
    ASSUME \A m \in Placed : Decoded(m),
           PlanInv, byHand, UNCHANGED installVars, FollowAdvice \/ StartAgain
    PROVE  PlanInv'
<1>a. Decoded(file)
  BY DEF PlanInv
<1>b. wish' = wish /\ data' = data /\ disk' = disk /\ byHand' = byHand
  BY DEF installVars
<1>1. CASE FollowAdvice
  <2>1. file' = [file EXCEPT !.args = Append(@, Eq(MemFractionFlag(file.runtime), advice))]
    BY <1>1 DEF FollowAdvice
  <2>2. /\ DOMAIN file' = DOMAIN file /\ file'.speculators = file.speculators
        /\ file'.args = Append(file.args, Eq(MemFractionFlag(file.runtime), advice))
    BY <1>a, <2>1 DEF Decoded, Fields
  <2>3. IsArgs(file'.args)
    <3>1. PICK T : file.args \in Seq(T) /\ \A t \in T : IsToken(t)
      BY <1>a DEF Decoded, IsArgs
    <3> DEFINE x == Eq(MemFractionFlag(file.runtime), advice)
               U == T \union {x}
    <3>2. Append(file.args, x) \in Seq(U)
      BY <3>1
    <3>3. IsToken(x)
      BY DEF IsToken, Eq
    <3>4. file'.args \in Seq(U) /\ \A t \in U : IsToken(t)
      BY <2>2, <3>1, <3>2, <3>3
    <3> HIDE DEF U
    <3> QED  BY <3>4 DEF IsArgs
  <2>4. Decoded(file')
    BY <1>a, <2>2, <2>3 DEF Decoded, SpeculatorNames
  <2> QED  BY <1>b, <1>1, <2>4 DEF FollowAdvice, PlanInv, Resolved
<1>2. CASE StartAgain
  <2>1. Decoded(file')
    BY <1>a, <1>2 DEF StartAgain, Placed
  <2> QED  BY <1>b, <1>2, <2>1 DEF StartAgain, PlanInv, Resolved
<1> QED  BY <1>1, <1>2

\* The placed manifest is absent, torn, or one an operator wished for.
LEMMA InstallKeepsPlanInv ==
    ASSUME \A m \in Placed : Decoded(m),
           PlanInv, UNCHANGED <<vars, byHand>>,
           InstallSteps
    PROVE  PlanInv'
<1>1. DOMAIN disk' = DOMAIN disk
  BY DEF InstallSteps, Install, ReadSource, Unchanged, Truncate, Written, Reload, CutShort, Reboot
<1>2. wish' \in Wishes /\ data' \in {w.manifest : w \in Wishes}
  BY DEF PlanInv, InstallSteps, Install, ReadSource, Unchanged, Truncate, Written, Reload, CutShort,
         Reboot
<1>3. disk'["manifest"] \in {NoFile, Torn} \/ Decoded(disk'["manifest"])
  <2>1. CASE disk' = disk
    BY <2>1 DEF PlanInv
  <2>2. ASSUME NEW k \in Files, Truncate(k) PROVE disk'["manifest"] \in {disk["manifest"], Torn}
    BY <2>2 DEF PlanInv, Truncate, Files
  <2>3. ASSUME NEW k \in Files, Written(k) PROVE disk'["manifest"] \in {disk["manifest"], data}
    BY <2>3 DEF PlanInv, Written, Wanted, Files
  <2>4. Decoded(data)
    BY DEF PlanInv, Placed
  <2> QED
    BY <2>1, <2>2, <2>3, <2>4
       DEF PlanInv, InstallSteps, Install, ReadSource, Unchanged, Reload, CutShort, Reboot
<1> QED  BY <1>1, <1>2, <1>3 DEF PlanInv, vars, Offered, SpeculatorNames

\* systemd starts what is placed at that moment.
LEMMA UnitKeepsPlanInv == PlanInv /\ ~byHand /\ (StartUnit \/ LoadPlaced) => PlanInv'
<1> SUFFICES ASSUME PlanInv, ~byHand, StartUnit \/ LoadPlaced PROVE PlanInv'
  OBVIOUS
<1>1. wish' = wish /\ data' = data /\ disk' = disk /\ byHand' = byHand
  BY DEF StartUnit, LoadPlaced, installVars
<1>2. CASE StartUnit
  BY <1>1, <1>2 DEF StartUnit, PlanInv, Resolved
<1>3. CASE LoadPlaced
  <2>1. pc' = "loaded" => Decoded(file') /\ Validate(file')
    BY <1>3 DEF LoadPlaced, PlanInv
  <2>2. pc' \in {"loaded", "invalid"}
    BY <1>3 DEF LoadPlaced
  <2> QED  BY <1>1, <2>1, <2>2 DEF PlanInv, Resolved
<1> QED  BY <1>2, <1>3

\* The invariant of every start, by hand or from a unit.
LEMMA PlanInvariant ==
    ASSUME \A m \in Placed : Decoded(m)
    PROVE  HostSpec => []PlanInv
<1>1. HostInit => PlanInv
  BY DEF HostInit, Init, PlanInv, Placed, Resolved, Files
<1>2. PlanInv /\ [HostNext]_hostVars => PlanInv'
  <2> SUFFICES ASSUME PlanInv, [HostNext]_hostVars PROVE PlanInv'
    OBVIOUS
  <2>1. CASE byHand /\ Next /\ UNCHANGED installVars
    <3>1. CASE FollowAdvice \/ StartAgain
      BY <2>1, <3>1, OperatorKeepsPlanInv
    <3>2. CASE \/ LoadManifest \/ Stage \/ CheckMemoryBudget \/ Launch
               \/ \E c \in Choices : ResolveSpeculator(c)
      <4>1. pc \notin {"started", "invalid"}
        BY <3>2 DEF LoadManifest, Stage, CheckMemoryBudget, Launch, ResolveSpeculator
      <4> QED  BY <2>1, <3>2, <4>1, ServeKeepsPlanInv
    <3> QED  BY <2>1, <3>1, <3>2 DEF Next
  <2>2. CASE InstallSteps
    <3>1. UNCHANGED <<vars, byHand>>
      BY <2>2 DEF InstallSteps, Install, ReadSource, Unchanged, Truncate, Written, Reload, CutShort,
                  Reboot
    <3> QED  BY <2>2, <3>1, InstallKeepsPlanInv
  <2>3. CASE ~byHand /\ (StartUnit \/ LoadPlaced)
    BY <2>3, UnitKeepsPlanInv
  <2>4. CASE ServeUnit
    <3>1. pc \notin {"started", "invalid"}
      BY <2>4 DEF ServeUnit, Stage, CheckMemoryBudget, Launch, ResolveSpeculator
    <3> QED  BY <2>4, <3>1, ServeKeepsPlanInv DEF ServeUnit
  <2>5. CASE UNCHANGED hostVars
    BY <2>5 DEF hostVars, vars, installVars, PlanInv, Offered, SpeculatorNames
  <2> QED  BY <2>1, <2>2, <2>3, <2>4, <2>5 DEF HostNext
<1> QED  BY <1>1, <1>2, PTL DEF HostSpec

\* On a unified-memory host no engine is started past the ceiling or without a
\* fraction, whatever flags the manifest and its speculators write, how often
\* and in which form (validateGB10, checkFraction, EngineCommand).
THEOREM CeilingTheorem ==
    ASSUME \A m \in Placed : Decoded(m)
    PROVE  HostSpec => []Ceiling
<1> QED  BY PlanInvariant, PlanInvCeiling, PTL

\* An engine that speculates with DSpark takes its draft from one place and
\* runs without the modes it conflicts with, for every way base arguments and
\* speculator arguments combine (validateDSpark, EngineCommand).
THEOREM OneDraftSourceTheorem ==
    ASSUME \A m \in Placed : Decoded(m)
    PROVE  HostSpec => []OneDraftSource
<1> QED  BY PlanInvariant, PlanInvOneDraftSource, PTL

-----------------------------------------------------------------------------
(* What an operator installs, and what a manifest offers, starts.          *)

\* How far an install has come, and what of it is already in place.
Whole == ~spoilt /\ disk["unit"] # NoFile => Accepted(disk["manifest"], disk["unit"])

InstallInv ==
    /\ DOMAIN disk = Files
    /\ ipc # "idle" => wish \in Wishes /\ Accepts(wish)
    /\ ipc = "writing manifest" => disk["manifest"] = Torn
    /\ ipc \in {"unit", "writing unit", "reload"} => disk["manifest"] = data
    /\ ipc = "reload" => disk["unit"] = wish.pin /\ (~spoilt => data = wish.manifest)
    /\ ipc \notin {"writing manifest", "unit", "writing unit", "reload"} => Whole
    /\ ~stale /\ ipc \notin {"writing unit", "reload"} => unit = disk["unit"]

LEMMA InstallKeepsInstallInv == InstallInv /\ InstallSteps => InstallInv'
<1> SUFFICES ASSUME InstallInv, InstallSteps PROVE InstallInv'
  OBVIOUS
<1>1. ASSUME NEW w \in Wishes, Install(w) PROVE InstallInv'
  BY <1>1 DEF InstallInv, Install, ghosts, Whole, Accepted
<1>2. CASE ReadSource
  BY <1>2 DEF InstallInv, ReadSource, ghosts, Whole, Accepted
<1>3. ASSUME NEW k \in Files, Unchanged(k) PROVE InstallInv'
  <2>1. CASE k = "manifest"
    BY <1>3, <2>1 DEF InstallInv, Unchanged, Wanted
  <2>2. CASE k = "unit"
    <3>1. /\ ipc' = "idle" /\ UNCHANGED <<wish, data, disk, unit, stale>>
          /\ disk["manifest"] = data /\ disk["unit"] = wish.pin
          /\ wish \in Wishes /\ Accepts(wish)
          /\ ~spoilt' => data = wish.manifest
      BY <1>3, <2>2 DEF InstallInv, Unchanged, Wanted
    <3>2. Accepted(wish.manifest, wish.pin)
      BY <3>1 DEF Accepted
    <3>3. Whole'
      BY <3>1, <3>2 DEF Whole, Accepted
    <3>4. ~stale => unit = disk["unit"]
      BY <1>3, <2>2 DEF InstallInv, Unchanged
    <3> QED  BY <3>1, <3>3, <3>4 DEF InstallInv
  <2> QED  BY <1>3, <2>1, <2>2 DEF Files
<1>4. ASSUME NEW k \in Files, Truncate(k) PROVE InstallInv'
  BY <1>4 DEF InstallInv, Truncate, During, Files
<1>5. ASSUME NEW k \in Files, Written(k) PROVE InstallInv'
  BY <1>5 DEF InstallInv, Written, During, Files, Wanted
<1>6. CASE Reload
  <2>1. /\ ipc' = "idle" /\ UNCHANGED <<wish, data, disk, spoilt>> /\ unit' = disk["unit"]
        /\ disk["manifest"] = data /\ disk["unit"] = wish.pin
        /\ wish \in Wishes /\ Accepts(wish)
        /\ ~spoilt => data = wish.manifest
    BY <1>6 DEF InstallInv, Reload
  <2>2. Accepted(wish.manifest, wish.pin)
    BY <2>1 DEF Accepted
  <2>3. Whole'
    BY <2>1, <2>2 DEF Whole, Accepted
  <2> QED  BY <2>1, <2>3 DEF InstallInv
<1>7. CASE CutShort
  <2>1. /\ ipc' = "idle" /\ UNCHANGED <<wish, data, disk, unit>>
    BY <1>7 DEF CutShort
  <2>2. ~stale' => unit = disk["unit"]
    BY <1>7 DEF InstallInv, CutShort
  <2>3. Whole'
    <3>1. CASE ipc \notin {"writing manifest", "unit", "writing unit", "reload"}
      BY <1>7, <2>1, <3>1 DEF InstallInv, CutShort, Whole, Accepted
    <3>2. CASE ipc = "reload"
      <4>1. ~spoilt' => disk["manifest"] = wish.manifest /\ disk["unit"] = wish.pin
        BY <1>7, <3>2 DEF InstallInv, CutShort
      <4>2. Accepted(wish.manifest, wish.pin)
        BY <3>2 DEF InstallInv, Accepted
      <4> QED  BY <2>1, <4>1, <4>2 DEF Whole, Accepted
    <3>3. CASE ipc \in {"writing manifest", "unit", "writing unit"}
      BY <1>7, <3>3 DEF CutShort, Whole
    <3> QED  BY <3>1, <3>2, <3>3
  <2> QED  BY <2>1, <2>2, <2>3 DEF InstallInv
<1>8. CASE Reboot
  BY <1>8 DEF InstallInv, Reboot, Whole, Accepted
<1> QED  BY <1>1, <1>2, <1>3, <1>4, <1>5, <1>6, <1>7, <1>8 DEF InstallSteps

LEMMA InstallInvariant == HostSpec => []InstallInv
<1>1. HostInit => InstallInv
  BY DEF HostInit, InstallInv, Whole, Files
<1>2. InstallInv /\ [HostNext]_hostVars => InstallInv'
  <2> SUFFICES ASSUME InstallInv, [HostNext]_hostVars PROVE InstallInv'
    OBVIOUS
  <2>1. CASE UNCHANGED <<ipc, wish, data, disk, unit, spoilt, stale>>
    BY <2>1 DEF InstallInv, Whole, Accepted
  <2>2. CASE InstallSteps
    BY <2>2, InstallKeepsInstallInv
  <2>3. CASE StartUnit \/ LoadPlaced \/ ServeUnit
    BY <2>1, <2>3 DEF StartUnit, LoadPlaced, ServeUnit, installVars, ghosts
  <2> QED  BY <2>1, <2>2, <2>3 DEF HostNext, hostVars, installVars, ghosts
<1> QED  BY <1>1, <1>2, PTL DEF HostSpec

\* Whatever writes and reloads fail, whenever an install is killed and whoever
\* edits its source: once an install has come through on what it validated the
\* two files are of one accepted install, and the loaded unit is that unit
\* unless a reload is missing (runInstall, Run, writeIfChanged, reload).
THEOREM InstalledStartsTheorem == HostSpec => []InstalledStarts
<1>1. InstallInv => InstalledStarts
  BY DEF InstallInv, InstalledStarts, Whole
<1> QED  BY <1>1, InstallInvariant, PTL

\* A valid manifest resolves every choice it offers, and none but those.
LEMMA OfferedResolves ==
    ASSUME NEW m, Validate(m), NEW c, ~Resolves(m, c)
    PROVE  c \notin SpeculatorNames(m) \union {"", "none"}
<1>1. DeclaredDefault(m)
  BY DEF Validate, ValidSpeculators
<1> QED  BY <1>1 DEF Resolves, SpeculatorFor, DeclaredDefault

\* What is offered by a valid manifest has a store to be staged from.
LEMMA OfferedStages ==
    ASSUME PlanInv, pc \in Resolved, SeparateHead(spec), file.load # "local"
    PROVE  spec.s3 = "own"
<1>1. ValidSpeculators(file) /\ Offered
  BY DEF PlanInv, Validate
<1>2. spec # NoSpeculator
  <2>1. NoSpeculator.repo = ""
    BY DEF NoSpeculator
  <2>2. spec.repo # ""
    BY DEF SeparateHead
  <2> QED  BY <2>1, <2>2
<1>3. PICK n \in SpeculatorNames(file) : spec = file.speculators[n]
  BY <1>1, <1>2 DEF Offered
<1>4. ValidWeightSource(file.load, spec.s3)
  BY <1>1, <1>3 DEF ValidSpeculators
<1> QED  BY <1>4 DEF ValidWeightSource

LEMMA ServeKeepsValidManifestStarts ==
    ASSUME PlanInv, ValidManifestStarts,
           \/ LoadManifest \/ Stage \/ CheckMemoryBudget \/ Launch \/ FollowAdvice \/ StartAgain
           \/ StartUnit \/ LoadPlaced
           \/ \E c : ResolveSpeculator(c)
    PROVE  ValidManifestStarts'
<1>1. CASE LoadManifest \/ CheckMemoryBudget \/ FollowAdvice \/ StartAgain
  BY <1>1 DEF LoadManifest, CheckMemoryBudget, FollowAdvice, StartAgain, ValidManifestStarts
<1>2. CASE StartUnit \/ LoadPlaced
  BY <1>2 DEF StartUnit, LoadPlaced, ValidManifestStarts
<1>3. CASE Stage
  <2>1. pc' = "staged"
    BY <1>3, OfferedStages DEF Stage, Resolved
  <2> QED  BY <2>1 DEF ValidManifestStarts
<1>4. CASE Launch
  BY <1>4 DEF Launch, ValidManifestStarts
<1>5. ASSUME NEW c, ResolveSpeculator(c) PROVE ValidManifestStarts'
  <2>1. Validate(file) /\ file' = file /\ choice' = c /\ pc' \in {"resolved", "unresolved"}
    BY <1>5 DEF PlanInv, ResolveSpeculator
  <2>2. pc' = "unresolved" => ~Resolves(file, c)
    BY <1>5 DEF ResolveSpeculator
  <2> QED  BY <2>1, <2>2, OfferedResolves DEF ValidManifestStarts, SpeculatorNames
<1> QED  BY <1>1, <1>2, <1>3, <1>4, <1>5

\* No start of a valid manifest ends for a speculator it offers, for the want
\* of one, or for a draft head without a store (validateSpeculators,
\* ResolveSpeculator, PrepareDraft).
THEOREM ValidManifestStartsTheorem ==
    ASSUME \A m \in Placed : Decoded(m)
    PROVE  HostSpec => []ValidManifestStarts
<1>1. HostInit => ValidManifestStarts
  BY DEF HostInit, Init, ValidManifestStarts
<1>2. PlanInv /\ ValidManifestStarts /\ [HostNext]_hostVars => ValidManifestStarts'
  <2> SUFFICES ASSUME PlanInv, ValidManifestStarts, [HostNext]_hostVars PROVE ValidManifestStarts'
    OBVIOUS
  <2>1. CASE UNCHANGED vars
    BY <2>1 DEF vars, ValidManifestStarts, SpeculatorNames
  <2>2. CASE Next \/ StartUnit \/ LoadPlaced \/ ServeUnit
    BY <2>2, ServeKeepsValidManifestStarts DEF Next, ServeUnit
  <2>3. CASE InstallSteps
    BY <2>1, <2>3 DEF InstallSteps, Install, ReadSource, Unchanged, Truncate, Written, Reload,
                      CutShort, Reboot
  <2> QED  BY <2>1, <2>2, <2>3 DEF HostNext, hostVars
<1> QED  BY <1>1, <1>2, PlanInvariant, PTL DEF HostSpec

\* A start that began on a host whose files and loaded unit agree, and how what
\* it goes by is still what one install accepted.
StartInv ==
    /\ byHand => ~clean
    /\ clean => Accepted(IF pc = "started" THEN disk["manifest"] ELSE file, choice)
    /\ UnitStarts

LEMMA InstallKeepsStartInv == InstallInv /\ StartInv /\ InstallSteps => StartInv'
<1> SUFFICES ASSUME InstallInv, StartInv, InstallSteps PROVE StartInv'
  OBVIOUS
<1>1. UNCHANGED <<vars, byHand>>
  BY DEF InstallSteps, Install, ReadSource, Unchanged, Truncate, Written, Reload, CutShort, Reboot
<1>2. clean' => clean
  BY DEF InstallSteps, Install, ReadSource, Unchanged, Truncate, Written, Reload, CutShort, Reboot,
         ghosts
<1>3. clean' /\ pc = "started" => disk'["manifest"] = disk["manifest"]
  <2>1. CASE disk' = disk
    BY <2>1
  <2>2. ASSUME NEW k \in Files, Truncate(k), clean', pc = "started"
        PROVE  disk'["manifest"] = disk["manifest"]
    BY <2>2 DEF Truncate, InstallInv, Files
  <2>3. ASSUME NEW k \in Files, Written(k), clean', pc = "started"
        PROVE  disk'["manifest"] = disk["manifest"]
    <3>1. CASE k = "manifest"
      <4>1. disk["manifest"] = Torn
        BY <2>3, <3>1 DEF Written, During, InstallInv
      <4>2. Accepted(Torn, choice)
        BY <1>2, <2>3, <4>1 DEF StartInv
      <4> QED  BY <4>2, FileAssumption DEF Accepted
    <3>2. CASE k = "unit"
      BY <2>3, <3>2 DEF Written, InstallInv, Files
    <3> QED  BY <2>3, <3>1, <3>2 DEF Files
  <2> QED
    BY <2>1, <2>2, <2>3 DEF InstallSteps, Install, ReadSource, Unchanged, Reload, CutShort, Reboot
<1>4. clean' => Accepted(IF pc = "started" THEN disk'["manifest"] ELSE file, choice)
  BY <1>2, <1>3 DEF StartInv
<1> QED  BY <1>1, <1>2, <1>4 DEF vars, StartInv, UnitStarts, Accepted

LEMMA ServeKeepsStartInv ==
    ASSUME PlanInv, ValidManifestStarts', StartInv, ~byHand, ServeUnit
    PROVE  StartInv'
<1>1. UNCHANGED <<byHand, clean, disk, file>> /\ choice' = choice /\ pc # "started"
  BY DEF ServeUnit, ResolveSpeculator, Stage, CheckMemoryBudget, Launch, installVars, ghosts
<1>2. pc' \notin {"started", "invalid"}
  BY DEF ServeUnit, ResolveSpeculator, Stage, CheckMemoryBudget, Launch
<1>3. clean => Accepted(file, choice)
  BY <1>1 DEF StartInv
<1>4. clean /\ ResolveSpeculator(choice) => pc' # "unresolved"
  BY <1>3 DEF Accepted, Accepts, ResolveSpeculator
<1>5. pc' = "unresolved" => ResolveSpeculator(choice)
  BY DEF ServeUnit, Stage, CheckMemoryBudget, Launch
<1>6. clean /\ pc' = "failed" => FALSE
  <2> SUFFICES ASSUME clean, pc' = "failed" PROVE FALSE
    OBVIOUS
  <2>1. file.runtime = "custom"
    BY <1>1 DEF ValidManifestStarts
  <2>2. file.deploy = "bare-metal" /\ Validate(file)
    BY <1>3 DEF Accepted, Accepts
  <2> QED  BY <2>1, <2>2 DEF Validate, ValidRuntime
<1> QED  BY <1>1, <1>2, <1>3, <1>4, <1>5, <1>6 DEF StartInv, UnitStarts, Accepted

LEMMA UnitKeepsStartInv ==
    ASSUME InstallInv, StartInv, ~byHand, StartUnit \/ LoadPlaced
    PROVE  StartInv'
<1>1. CASE StartUnit
  <2>1. /\ UNCHANGED <<byHand, disk, unit>> /\ pc' = "started" /\ choice' = unit
        /\ unit # NoFile
        /\ clean' => ipc = "idle" /\ ~spoilt /\ ~stale
    BY <1>1 DEF StartUnit
  <2>2. clean' => unit = disk["unit"] /\ Accepted(disk["manifest"], unit)
    BY <2>1 DEF InstallInv, Whole
  <2> QED  BY <2>1, <2>2 DEF StartInv, UnitStarts, Accepted
<1>2. CASE LoadPlaced
  <2>1. /\ UNCHANGED <<byHand, clean, disk>> /\ choice' = choice
        /\ pc = "started" /\ file' = disk["manifest"] /\ pc' \in {"loaded", "invalid"}
        /\ disk["manifest"] \notin {NoFile, Torn} /\ Validate(disk["manifest"]) => pc' = "loaded"
    BY <1>2 DEF LoadPlaced, installVars, ghosts
  <2>2. clean => Accepted(disk["manifest"], choice)
    BY <2>1 DEF StartInv
  <2>3. clean => pc' = "loaded"
    BY <2>1, <2>2, FileAssumption DEF Accepted, Accepts
  <2> QED  BY <2>1, <2>2, <2>3 DEF StartInv, UnitStarts, Accepted
<1> QED  BY <1>1, <1>2

\* What an install accepts starts: on a host where the last install came
\* through on what it validated and was reloaded, no start of the unit ends
\* over its manifest, its speculator or a draft head, whatever installs failed
\* or were killed before and whatever the next one is doing meanwhile, for all
\* manifests and choices (runInstall, Run, ReadManifest, ResolveSpeculator,
\* PrepareDraft, EngineCommand).
THEOREM UnitStartsTheorem ==
    ASSUME \A m \in Placed : Decoded(m)
    PROVE  HostSpec => []UnitStarts
<1>1. HostInit => StartInv
  BY DEF HostInit, StartInv, UnitStarts
<1>2. PlanInv /\ InstallInv /\ ValidManifestStarts' /\ StartInv /\ [HostNext]_hostVars => StartInv'
  <2> SUFFICES ASSUME PlanInv, InstallInv, ValidManifestStarts', StartInv, [HostNext]_hostVars
               PROVE  StartInv'
    OBVIOUS
  <2>1. CASE byHand /\ UNCHANGED installVars
    BY <2>1 DEF installVars, ghosts, StartInv, UnitStarts
  <2>2. CASE InstallSteps
    BY <2>2, InstallKeepsStartInv
  <2>3. CASE ~byHand /\ (StartUnit \/ LoadPlaced)
    BY <2>3, UnitKeepsStartInv
  <2>4. CASE ~byHand /\ ServeUnit
    BY <2>4, ServeKeepsStartInv
  <2>5. CASE UNCHANGED hostVars
    BY <2>5 DEF hostVars, vars, installVars, ghosts, StartInv, UnitStarts, Accepted
  <2> QED  BY <2>1, <2>2, <2>3, <2>4, <2>5 DEF HostNext
<1>3. StartInv => UnitStarts
  BY DEF StartInv
<1> QED
  BY <1>1, <1>2, <1>3, PlanInvariant, InstallInvariant, ValidManifestStartsTheorem, PTL DEF HostSpec

-----------------------------------------------------------------------------
(* The advice of a refusal.                                                *)

\* "floorTo2dp rounds down, so the suggestion is never a value that would
\* itself be refused": an engine of the advised fraction, the checkpoint and
\* the host's floor fit in the pool, for all sizes that leave any room.
THEOREM AdviceFits ==
    ASSUME host \in Hosts, Measured, host.ckpt + HostFloor <= host.total
    PROVE  Engine(Advice, host.total) + host.ckpt + HostFloor <= host.total
<1> DEFINE t == host.total
           room == host.total - host.ckpt - HostFloor
           q == (room * 100) \div t
<1>1. t \in Nat \ {0} /\ room \in Nat
  BY HostAssumption, FloorAssumption DEF Measured
<1>2. Advice = 10 * q
  <2>1. ~ (host.ckpt + HostFloor > host.total)
    BY HostAssumption, FloorAssumption DEF Measured
  <2> QED  BY <2>1 DEF Advice
<1>3. t = host.total /\ host.ckpt \in Nat /\ room + host.ckpt + HostFloor = t
  BY HostAssumption, FloorAssumption DEF Measured
<1> HIDE DEF t, room
<1>4. q \in Nat /\ q * t <= room * 100
  BY <1>1
<1> HIDE DEF q
<1>5. (10 * q * t) \div 1000 <= room
  <2>1. ASSUME NEW x \in Nat, x <= room * 100 PROVE (10 * x) \div 1000 <= room
    BY <1>1, <2>1
  <2>2. 10 * q * t = 10 * (q * t) /\ q * t \in Nat
    BY <1>1, <1>4
  <2> QED  BY <1>4, <2>1, <2>2
<1>6. Engine(Advice, host.total) = (10 * q * t) \div 1000
  BY <1>2, <1>3 DEF Engine
<1>7. (10 * q * t) \div 1000 \in Nat
  <2>1. 10 * q * t \in Nat
    BY <1>1, <1>4
  <2> QED  BY <2>1
<1>8. Engine(Advice, host.total) \in Nat /\ Engine(Advice, host.total) <= room
  BY <1>5, <1>6, <1>7
<1> QED  BY <1>1, <1>3, <1>8, FloorAssumption

-----------------------------------------------------------------------------
(* The memory budget of a start.                                           *)

\* A speculator's arguments begin with a flag: none of them completes a flag
\* that the base arguments leave open.
Closed(m) ==
    \A n \in SpeculatorNames(m) :
        LET more == m.speculators[n].args IN more = <<>> \/ more[1].form # "word"

\* No check that validation makes of one combination of arguments is undone by a
\* fraction within the cap at the end of the base arguments.
LEMMA LowerFractionValid ==
    ASSUME NEW m, Decoded(m), Closed(m), Validate(m),
           NEW f \in Nat, f > 0, m.runtime # "custom" => f <= MaxFraction,
           NEW m2, m2 = [m EXCEPT !.args = Append(@, Eq(MemFractionFlag(m.runtime), f))]
    PROVE  Validate(m2)
<1> DEFINE flag == MemFractionFlag(m.runtime)
           last == Eq(flag, f)
           args == m.args \o <<last>>
<1>1. PICK S : m.args \in Seq(S)
  BY DEF Decoded, IsArgs
<1>2. /\ m2.args = args
      /\ \A k \in Fields \ {"args"} : m2[k] = m[k]
  <2>1. Append(m.args, last) = args
    BY <1>1
  <2> QED  BY <2>1 DEF Decoded, Fields
<1>3. last.form = "eq" /\ last.flag = flag
  BY DEF Eq
<1>4. /\ flag \in {"--mem-fraction-static", "--gpu-memory-utilization"}
      /\ flag # ContextFlag(m.runtime) /\ flag # DraftFlag
  BY DEF MemFractionFlag, ContextFlag, DraftFlag
<1>5. args \in Seq(S \union {last})
  BY <1>1
<1>6. FlagValue(args, flag) = {f}
  BY <1>1, OwnFlagLast
<1>7. ASSUME NEW other, other # flag PROVE FlagValue(args, other) = FlagValue(m.args, other)
  BY <1>1, <1>3, <1>7, OtherFlagLast
<1> HIDE DEF flag, last
<1>8. \A req : HasArg(m.args, req) => HasArg(args, req)
  BY <1>1, <1>3, ArgStays
<1>9. /\ m2.pinned = m.pinned /\ m2.licensed = m.licensed /\ m2.repo = m.repo
      /\ m2.load = m.load /\ m2.s3 = m.s3 /\ m2.runtime = m.runtime /\ m2.image = m.image
      /\ m2.deploy = m.deploy /\ m2.dialect = m.dialect /\ m2.prompt = m.prompt
      /\ m2.worded = m.worded /\ m2.gpu = m.gpu
      /\ m2.context_max = m.context_max /\ m2.speculators = m.speculators
      /\ m2.default = m.default
  BY <1>2 DEF Fields
<1>10. SpeculatorNames(m2) = SpeculatorNames(m)
  BY <1>9 DEF SpeculatorNames
\* A speculator's arguments after the new ones.
<1>11. ASSUME NEW n \in SpeculatorNames(m)
       PROVE  /\ \A other : other # flag =>
                     FlagValue(WithArgs(m2, n), other) = FlagValue(WithArgs(m, n), other)
              /\ FlagValue(WithArgs(m2, n), flag) \in {FlagValue(WithArgs(m, n), flag), {f}}
  <2> DEFINE more == m.speculators[n].args
  <2>1. PICK T : more \in Seq(T)
    BY DEF Decoded, IsArgs
  <2>2. WithArgs(m, n) = m.args \o more /\ WithArgs(m2, n) = args \o more
    BY <1>2, <1>9 DEF WithArgs
  <2>3. more = <<>> \/ more[1].form # "word"
    BY DEF Closed
  <2> DEFINE U == (S \union {last}) \union T
  <2>4. m.args \in Seq(U) /\ args \in Seq(U) /\ more \in Seq(U)
    BY <1>1, <1>5, <2>1
  <2> HIDE DEF U, more, args
  <2>5. ASSUME NEW any, Uses(more, any) # {}
        PROVE  FlagValue(args \o more, any) = FlagValue(m.args \o more, any)
    <3>1. FlagValue(args \o more, any) = FlagValue(more, any)
      BY <2>4, <2>5, ValueOfSecond
    <3>2. FlagValue(m.args \o more, any) = FlagValue(more, any)
      BY <2>4, <2>5, ValueOfSecond
    <3> QED  BY <3>1, <3>2
  <2>6. ASSUME NEW any, Uses(more, any) = {}
        PROVE  /\ FlagValue(args \o more, any) = FlagValue(args, any)
               /\ FlagValue(m.args \o more, any) = FlagValue(m.args, any)
    <3>1. FlagValue(args \o more, any) = FlagValue(args, any)
      BY <2>3, <2>4, <2>6, ValueOfFirst
    <3>2. FlagValue(m.args \o more, any) = FlagValue(m.args, any)
      BY <2>3, <2>4, <2>6, ValueOfFirst
    <3> QED  BY <3>1, <3>2
  <2>7. ASSUME NEW other, other # flag
        PROVE  FlagValue(args \o more, other) = FlagValue(m.args \o more, other)
    BY <1>7, <2>5, <2>6, <2>7
  <2>8. FlagValue(args \o more, flag) \in {FlagValue(m.args \o more, flag), {f}}
    BY <1>6, <2>5, <2>6
  <2> QED  BY <2>2, <2>7, <2>8
<1> HIDE DEF args
<1>12. ValidRuntime(m2)
  <2>1. args # <<>>
    BY <1>1 DEF args
  <2>2. ValidRuntime(m)
    BY DEF Validate
  <2>3. CASE m.runtime \in {"sglang", "vllm"} /\ ~m.image
    BY <1>2, <1>9, <2>1, <2>3 DEF ValidRuntime
  <2>4. CASE m.runtime = "custom" /\ m.image
    BY <1>9, <2>4 DEF ValidRuntime
  <2> QED  BY <2>2, <2>3, <2>4 DEF ValidRuntime
<1>13. ValidGB10(m2)
  <2> SUFFICES ASSUME m.gpu.type = "gb10", m.runtime \in {"sglang", "vllm"}
               PROVE  /\ CheckFraction(args, flag)
                      /\ \A n \in SpeculatorNames(m) : CheckFraction(WithArgs(m2, n), flag)
                      /\ FlagValue(args, ContextFlag(m.runtime)) # {}
    BY <1>2, <1>9, <1>10 DEF Validate, ValidGB10, flag
  <2>1. /\ \A n \in SpeculatorNames(m) : CheckFraction(WithArgs(m, n), flag)
        /\ FlagValue(m.args, ContextFlag(m.runtime)) # {}
    BY DEF Validate, ValidGB10, flag
  <2>2. \A list : FlagValue(list, flag) = {f} => CheckFraction(list, flag)
    BY DEF CheckFraction
  <2>3. \A n \in SpeculatorNames(m) : CheckFraction(WithArgs(m2, n), flag)
    BY <1>11, <2>1, <2>2 DEF CheckFraction
  <2> QED  BY <1>4, <1>6, <1>7, <2>1, <2>2, <2>3
<1>14. ValidSpeculation(m2)
  <2>1. /\ flag # "--speculative-algorithm" /\ flag # DraftFlag
        /\ flag # "--pp-size" /\ flag # "--enable-dp-attention"
    BY <1>4
  <2>2. ValidDSpark(m.args) /\ \A n \in SpeculatorNames(m) : ValidDSpark(WithArgs(m, n))
    BY DEF Validate, ValidSpeculation
  <2>3. ValidDSpark(args)
    BY <1>7, <2>1, <2>2 DEF ValidDSpark, UsesDSpark
  <2>4. \A n \in SpeculatorNames(m) : ValidDSpark(WithArgs(m2, n))
    BY <1>11, <2>1, <2>2 DEF ValidDSpark, UsesDSpark
  <2> QED  BY <1>2, <1>10, <2>3, <2>4 DEF ValidSpeculation
<1>15. ValidSpeculators(m2)
  <2>1. ValidSpeculators(m)
    BY DEF Validate
  <2>2. DeclaredDefault(m2)
    <3>1. DeclaredDefault(m)
      BY <2>1 DEF ValidSpeculators
    <3>2. m2.default = m.default
      BY <1>9
    <3> QED  BY <1>10, <3>1, <3>2 DEF DeclaredDefault
  <2>3. m2.load = m.load /\ m2.speculators = m.speculators
    BY <1>9
  <2> QED  BY <1>10, <2>1, <2>2, <2>3, Zenon DEF ValidSpeculators
<1>16. \A req \in RequiredArgs(m2.repo) : HasArg(m2.args, req)
  <2>1. \A req \in RequiredArgs(m.repo) : HasArg(m.args, req)
    BY DEF Validate
  <2>2. m2.repo = m.repo /\ m2.args = args
    BY <1>2, <1>9
  <2> QED  BY <1>8, <2>1, <2>2
<1>17. ValidWeightSource(m2.load, m2.s3)
  BY <1>9 DEF Validate
<1>18. /\ m2.pinned /\ m2.licensed
       /\ m2.deploy \in {"", "k8s"} \/ (m2.deploy = "bare-metal" /\ ~m2.image)
  BY <1>9 DEF Validate
<1>19. /\ m2.load \in {"nvme-cache", "local"} \/ (m2.load = "s3-stream" /\ m2.runtime = "vllm")
       /\ m2.dialect \in {"", "openai-chat", "anthropic-messages", "openai-responses"}
       /\ m2.prompt = "absent" \/ (m2.prompt \in {"default", "prepend", "override"} /\ m2.worded)
       /\ m2.gpu.type # "" /\ m2.gpu.count > 0 /\ m2.gpu.nodes > 0 /\ m2.context_max > 0
  BY <1>9 DEF Validate
<1> QED
  BY <1>12, <1>13, <1>14, <1>15, <1>16, <1>17, <1>18, <1>19 DEF Validate

\* Past the budget check, the fraction of the manifest is one that fits.
BudgetInv == host \in Hosts /\ (pc \in {"admitted", "running"} => ~OverBudget)

\* The fraction of an engine whose speculator states none is the manifest's:
\* one that the budget was computed for.
LEMMA BudgetInvAdmittedFits == PlanInv /\ BudgetInv => AdmittedFits
<1> SUFFICES ASSUME PlanInv, BudgetInv, pc = "running", file.gpu.type = "gb10", Measured,
                    Uses(spec.args, MemFractionFlag(file.runtime)) = {},
                    NEW f \in EffectiveFraction \intersect Nat
             PROVE  Engine(f, host.total) + host.ckpt + HostFloor <= host.total
  BY DEF AdmittedFits, Fits
<1> DEFINE flag == MemFractionFlag(file.runtime)
<1>1. Decoded(file) /\ Validate(file) /\ Offered /\ file.runtime # "custom"
  BY DEF PlanInv, Resolved
<1>2. CheckFraction(file.args, flag)
  BY <1>1 DEF Validate, ValidRuntime, ValidGB10
<1>3. PICK S : file.args \in Seq(S) /\ \A t \in S : IsToken(t)
  BY <1>1 DEF Decoded, IsArgs
<1>4. PICK T : spec.args \in Seq(T)
  <2>1. CASE spec = NoSpeculator
    <3>1. spec.args = <<>>
      BY <2>1 DEF NoSpeculator
    <3>2. spec.args \in Seq({})
      BY <3>1
    <3> QED  BY <3>2
  <2>2. CASE spec # NoSpeculator
    BY <1>1, <2>2 DEF Offered, Decoded, IsArgs
  <2> QED  BY <2>1, <2>2
\* A flag that ends the base arguments has no value, which is no fraction.
<1>5. Len(file.args) \in LastUse(file.args, flag) => file.args[Len(file.args)].form # "key"
  <2> SUFFICES ASSUME Len(file.args) \in LastUse(file.args, flag),
                      file.args[Len(file.args)].form = "key"
               PROVE  FALSE
    OBVIOUS
  <2> DEFINE n == Len(file.args)
  <2>1. n \in Nat /\ n \in DOMAIN file.args /\ n + 1 \notin DOMAIN file.args
    BY <1>3 DEF LastUse, Uses
  <2>2. ValueAt(file.args, n) = file.args[n].val
    BY <2>1 DEF ValueAt
  <2>3. file.args[n].val = Empty
    <3>1. file.args[n] \in S
      BY <1>3, <2>1
    <3> QED  BY <1>3, <3>1 DEF IsToken
  <2>4. Empty \in FlagValue(file.args, flag)
    BY <2>2, <2>3 DEF FlagValue
  <2> QED  BY <1>2, <2>4, ValueAssumption DEF CheckFraction
<1>6. FlagValue(file.args \o spec.args, flag) = FlagValue(file.args, flag)
  <2> DEFINE U == S \union T
  <2>1. file.args \in Seq(U) /\ spec.args \in Seq(U)
    BY <1>3, <1>4
  <2> HIDE DEF U
  <2> QED  BY <1>5, <2>1, ValueOfFirst
<1>7. flag # DraftFlag
  BY DEF MemFractionFlag, DraftFlag
<1>8. f \in FlagValue(file.args, flag) /\ f \in Nat
  BY <1>6, <1>7, CommandComposed DEF EffectiveFraction
<1>9. f > 0
  BY <1>2, <1>8, ValueAssumption DEF CheckFraction
<1>10. ~(Engine(f, host.total) + host.ckpt + HostFloor > host.total)
  BY <1>8, <1>9 DEF BudgetInv, OverBudget, EngineFraction
<1>11. host.total \in Nat \ {0} /\ host.ckpt \in Nat
  BY HostAssumption DEF BudgetInv, Measured
<1>12. Engine(f, host.total) \in Nat
  <2>1. f * host.total \in Nat
    BY <1>8, <1>11
  <2> QED  BY <2>1 DEF Engine
<1> QED  BY <1>10, <1>11, <1>12, FloorAssumption

LEMMA NextKeepsBudgetInv == BudgetInv /\ [HostNext]_hostVars => BudgetInv'
<1> SUFFICES ASSUME BudgetInv, [HostNext]_hostVars PROVE BudgetInv'
  OBVIOUS
<1>1. CASE UNCHANGED vars
  BY <1>1 DEF vars, BudgetInv, OverBudget, Measured
<1>2. CASE InstallSteps
  BY <1>1, <1>2 DEF InstallSteps, Install, ReadSource, Unchanged, Truncate, Written, Reload, CutShort,
                   Reboot
<1>3. CASE LoadManifest \/ Stage \/ FollowAdvice \/ StartAgain \/ StartUnit \/ LoadPlaced
           \/ \E c : ResolveSpeculator(c)
  BY <1>3 DEF LoadManifest, Stage, FollowAdvice, StartAgain, StartUnit, LoadPlaced,
              ResolveSpeculator, BudgetInv
<1>4. CASE CheckMemoryBudget \/ Launch
  BY <1>4 DEF CheckMemoryBudget, Launch, BudgetInv, OverBudget, Measured
<1> QED  BY <1>1, <1>2, <1>3, <1>4 DEF HostNext, Next, ServeUnit, hostVars

\* An admitted engine, its checkpoint and the host fit in the pool they share,
\* whatever the sizes and whatever else the arguments say, when the speculator
\* states no fraction of its own (CheckMemoryBudget, EngineCommand).
THEOREM AdmittedFitsTheorem ==
    ASSUME \A m \in Placed : Decoded(m)
    PROVE  HostSpec => []AdmittedFits
<1>1. HostInit => BudgetInv
  BY DEF HostInit, Init, BudgetInv
<1> QED  BY <1>1, NextKeepsBudgetInv, BudgetInvAdmittedFits, PlanInvariant, PTL DEF HostSpec

-----------------------------------------------------------------------------
(* Following a refusal.                                                    *)

\* A refused fraction is within the cap, so what the refusal advises is below it.
LEMMA AdviceCapped ==
    ASSUME host \in Hosts, OverBudget, Validate(file), file.runtime # "custom"
    PROVE  Advice <= MaxFraction
<1> DEFINE t == host.total
           room == host.total - host.ckpt - HostFloor
           q == (room * 100) \div t
<1>1. t \in Nat \ {0} /\ host.ckpt \in Nat
  BY HostAssumption DEF OverBudget, Measured
<1>2. PICK f \in EngineFraction(file) : Engine(f, t) + host.ckpt + HostFloor > t
  BY DEF OverBudget
<1>3. f \in Nat /\ f <= 800
  <2>1. CheckFraction(file.args, MemFractionFlag(file.runtime))
    BY DEF OverBudget, Validate, ValidRuntime, ValidGB10
  <2> QED  BY <2>1, ValueAssumption DEF EngineFraction, CheckFraction, MaxFraction
<1>4. CASE host.ckpt + HostFloor > t
  BY <1>4 DEF Advice, MaxFraction
<1>5. CASE ~(host.ckpt + HostFloor > t)
  <2>1. Advice = 10 * q
    BY <1>5 DEF Advice
  <2>2. room \in Nat
    BY <1>1, <1>5, FloorAssumption
  <2>3. Engine(f, t) * 1000 <= f * t /\ Engine(f, t) \in Nat
    <3> DEFINE p == f * t
    <3>1. p \in Nat
      BY <1>1, <1>3
    <3> HIDE DEF p
    <3>2. (p \div 1000) * 1000 <= p /\ p \div 1000 \in Nat
      BY <3>1
    <3> QED  BY <3>2 DEF Engine, p
  <2>4. f * t <= 800 * t
    BY <1>1, <1>3
  <2>5. Engine(f, t) > room
    BY <1>1, <1>2, <2>3, FloorAssumption
  <2> HIDE DEF t, room
  <2>6. f * t \in Nat
    BY <1>1, <1>3
  <2>7. room * 100 < 80 * t
    BY <1>1, <2>2, <2>3, <2>4, <2>5, <2>6
  <2>8. q \in Nat /\ q * t <= room * 100
    BY <1>1, <2>2
  <2> HIDE DEF q
  <2>9. q <= 80
    BY <1>1, <2>2, <2>7, <2>8
  <2> QED  BY <2>1, <2>8, <2>9 DEF MaxFraction
<1> QED  BY <1>4, <1>5

\* A refusal stands for a valid manifest that does not fit, and a file edited to
\* its advice is a valid one that does.
FollowInv ==
    /\ host \in Hosts
    /\ byHand => Closed(file)
    /\ pc = "refused" => Validate(file) /\ OverBudget /\ advice = Advice
    /\ followed > 0 => byHand /\ Validate(file) /\ ~OverBudget
    /\ FollowingAdvice

\* The edit that the refusal asks for.
LEMMA FollowAdviceKeepsFollowInv ==
    ASSUME PlanInv, FollowInv, byHand, UNCHANGED installVars, FollowAdvice
    PROVE  FollowInv'
<1> DEFINE flag == MemFractionFlag(file.runtime)
           t == host.total
<1>1. /\ pc = "refused" /\ advice > 0 /\ pc' = "file" /\ host' = host /\ byHand' = byHand
      /\ file' = [file EXCEPT !.args = Append(@, Eq(flag, advice))]
  BY DEF FollowAdvice, installVars
<1>2. Decoded(file) /\ Closed(file) /\ Validate(file) /\ OverBudget /\ advice = Advice
  BY <1>1 DEF PlanInv, FollowInv
<1>3. t \in Nat \ {0} /\ host.ckpt \in Nat /\ host \in Hosts /\ Measured
  BY <1>2, HostAssumption DEF FollowInv, OverBudget, Measured
<1>4. host.ckpt + HostFloor <= t
  <2>1. ~(host.ckpt + HostFloor > t)
    BY <1>1, <1>2 DEF Advice
  <2> QED  BY <1>3, <2>1, FloorAssumption
<1>5. advice \in Nat
  <2> DEFINE room == t - host.ckpt - HostFloor
             q == (room * 100) \div t
  <2>1. room \in Nat
    BY <1>3, <1>4, FloorAssumption
  <2>2. Advice = 10 * q
    BY <1>3, <1>4, FloorAssumption DEF Advice
  <2> HIDE DEF room, t
  <2>3. q \in Nat
    BY <1>3, <2>1
  <2> HIDE DEF q
  <2> QED  BY <1>2, <2>2, <2>3
<1>6. Engine(advice, t) + host.ckpt + HostFloor <= t
  BY <1>2, <1>3, <1>4, AdviceFits
<1>7. file.runtime # "custom" => advice <= MaxFraction
  BY <1>2, <1>3, AdviceCapped
<1>8. Validate(file')
  BY <1>1, <1>2, <1>5, <1>7, LowerFractionValid
<1>9. PICK S : file.args \in Seq(S)
  BY <1>2 DEF Decoded, IsArgs
<1>10. /\ file'.args = file.args \o <<Eq(flag, advice)>>
       /\ file'.runtime = file.runtime /\ file'.speculators = file.speculators
  BY <1>1, <1>2, <1>9 DEF Decoded, Fields
<1>11. Closed(file')
  BY <1>2, <1>10 DEF Closed, SpeculatorNames
<1>12. EngineFraction(file') \subseteq {advice}
  BY <1>9, <1>10, OwnFlagLast DEF EngineFraction
<1>13. (~OverBudget)'
  <2>1. Engine(advice, t) \in Nat
    <3>1. advice * t \in Nat
      BY <1>3, <1>5
    <3> QED  BY <3>1 DEF Engine
  <2>2. ~(Engine(advice, t) + host.ckpt + HostFloor > t)
    BY <1>3, <1>6, <2>1, FloorAssumption
  <2> QED  BY <1>1, <1>12, <2>2 DEF OverBudget
<1> QED
  BY <1>1, <1>3, <1>8, <1>11, <1>13 DEF FollowInv, FollowingAdvice

\* What FollowInv says is of the file and the host.
LEMMA SameFileAndHost ==
    ASSUME UNCHANGED <<file, host>>
    PROVE  /\ Closed(file)' <=> Closed(file)
           /\ OverBudget' <=> OverBudget
           /\ Validate(file)' <=> Validate(file)
           /\ Advice' = Advice
BY DEF Closed, SpeculatorNames, OverBudget, Measured, Advice

\* A start of one file by hand.
LEMMA ServeKeepsFollowInv ==
    ASSUME PlanInv, FollowInv, UNCHANGED installVars,
           \/ byHand /\ LoadManifest
           \/ Stage \/ CheckMemoryBudget \/ Launch
           \/ \E c : ResolveSpeculator(c)
    PROVE  FollowInv'
<1>1. UNCHANGED <<file, host, followed, byHand>>
  BY DEF installVars, LoadManifest, Stage, CheckMemoryBudget, Launch, ResolveSpeculator
<1>2. /\ Closed(file)' <=> Closed(file)
      /\ OverBudget' <=> OverBudget
      /\ Validate(file)' <=> Validate(file)
      /\ Advice' = Advice
  BY <1>1, SameFileAndHost
<1>3. CASE byHand /\ LoadManifest
  BY <1>1, <1>2, <1>3 DEF LoadManifest, FollowInv, FollowingAdvice
<1>4. CASE CheckMemoryBudget
  <2>1. Validate(file) /\ pc = "staged"
    BY <1>4 DEF CheckMemoryBudget, PlanInv, Resolved
  <2>2. CASE OverBudget
    BY <1>1, <1>2, <1>4, <2>1, <2>2 DEF CheckMemoryBudget, FollowInv, FollowingAdvice
  <2>3. CASE ~OverBudget
    BY <1>1, <1>2, <1>4, <2>1, <2>3 DEF CheckMemoryBudget, FollowInv, FollowingAdvice
  <2> QED  BY <2>2, <2>3
<1>5. CASE Stage \/ Launch \/ \E c : ResolveSpeculator(c)
  <2>1. pc' \notin {"refused", "invalid"} /\ pc # "invalid"
    BY <1>5 DEF Stage, Launch, ResolveSpeculator
  <2> QED  BY <1>1, <1>2, <2>1 DEF FollowInv, FollowingAdvice
<1> QED  BY <1>3, <1>4, <1>5

\* The next start, by hand or of a unit.
LEMMA StartKeepsFollowInv ==
    ASSUME \A m \in Placed : Closed(m),
           FollowInv,
           \/ byHand /\ StartAgain
           \/ ~byHand /\ (StartUnit \/ LoadPlaced),
           UNCHANGED byHand
    PROVE  FollowInv'
<1>1. byHand' = byHand
  OBVIOUS
<1>2. CASE byHand /\ StartAgain
  <2>1. CASE UNCHANGED <<file, followed>>
    <3>1. host' = host /\ pc' = "file"
      BY <1>2 DEF StartAgain
    <3> QED
      BY <1>1, <2>1, <3>1, SameFileAndHost DEF FollowInv, FollowingAdvice
  <2>2. CASE file' \in Manifests /\ followed' = 0
    <3>1. Closed(file')
      BY <2>2 DEF Placed
    <3>2. host' = host /\ pc' = "file" /\ followed' = 0
      BY <1>2, <2>2 DEF StartAgain
    <3> QED  BY <1>1, <3>1, <3>2 DEF FollowInv, FollowingAdvice
  <2> QED  BY <1>2, <2>1, <2>2 DEF StartAgain
<1>3. CASE ~byHand /\ StartUnit
  BY <1>1, <1>3 DEF StartUnit, FollowInv, FollowingAdvice
<1>4. CASE ~byHand /\ LoadPlaced
  <2>1. UNCHANGED <<host, followed>> /\ pc' \in {"loaded", "invalid"}
    BY <1>4 DEF LoadPlaced
  <2>2. ~(followed > 0)
    BY <1>4 DEF FollowInv
  <2> QED  BY <1>1, <1>4, <2>1, <2>2 DEF FollowInv, FollowingAdvice
<1> QED  BY <1>2, <1>3, <1>4

\* The advice of a refusal can be followed: lowered to it, the fraction passes
\* both the validation, alone and with every speculator, and the budget of that
\* host (checkFraction, CheckMemoryBudget, floorTo2dp).
THEOREM FollowingAdviceTheorem ==
    ASSUME \A m \in Placed : Decoded(m) /\ Closed(m)
    PROVE  HostSpec => []FollowingAdvice
<1>1. HostInit => FollowInv
  <2> SUFFICES ASSUME HostInit PROVE FollowInv
    OBVIOUS
  <2>1. byHand => Closed(file)
    BY DEF HostInit, Init, Placed
  <2>2. host \in Hosts /\ pc = "file" /\ followed = 0
    BY DEF HostInit, Init
  <2> QED  BY <2>1, <2>2 DEF FollowInv, FollowingAdvice
<1>2. PlanInv /\ FollowInv /\ [HostNext]_hostVars => FollowInv'
  <2> SUFFICES ASSUME PlanInv, FollowInv, [HostNext]_hostVars PROVE FollowInv'
    OBVIOUS
  <2>1. CASE UNCHANGED <<vars, byHand>>
    BY <2>1, SameFileAndHost DEF vars, FollowInv, FollowingAdvice
  <2>2. CASE InstallSteps
    BY <2>1, <2>2 DEF InstallSteps, Install, ReadSource, Unchanged, Truncate, Written, Reload,
                      CutShort, Reboot
  <2>3. CASE byHand /\ Next /\ UNCHANGED installVars
    <3>1. CASE FollowAdvice
      BY <2>3, <3>1, FollowAdviceKeepsFollowInv
    <3>2. CASE StartAgain
      BY <2>3, <3>2, StartKeepsFollowInv DEF installVars
    <3>3. CASE \/ LoadManifest \/ Stage \/ CheckMemoryBudget \/ Launch
               \/ \E c \in Choices : ResolveSpeculator(c)
      BY <2>3, <3>3, ServeKeepsFollowInv
    <3> QED  BY <2>3, <3>1, <3>2, <3>3 DEF Next
  <2>4. CASE ~byHand /\ (StartUnit \/ LoadPlaced)
    BY <2>4, StartKeepsFollowInv DEF StartUnit, LoadPlaced, installVars
  <2>5. CASE ServeUnit
    BY <2>5, ServeKeepsFollowInv DEF ServeUnit
  <2> QED  BY <2>1, <2>2, <2>3, <2>4, <2>5 DEF HostNext, hostVars, installVars
<1>3. FollowInv => FollowingAdvice
  BY DEF FollowInv
<1>4. HostSpec => []PlanInv
  BY PlanInvariant
<1> QED  BY <1>1, <1>2, <1>3, <1>4, PTL DEF HostSpec
=============================================================================
