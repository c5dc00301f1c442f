--------------------------- MODULE BenchRunProofs ---------------------------
(***************************************************************************)
(* What holds of a benchmark run and of the surface it talks to, for any   *)
(* number of workers, requests and other clients: no request is lost or    *)
(* repeated, a report speaks of whole answers of one draft head, losses    *)
(* are counted exactly, prompts are enforced, and the percentiles are read *)
(* inside the sorted samples.                                              *)
(***************************************************************************)
EXTENDS BenchRun, FiniteSetTheorems, WellFoundedInduction, TLAPS

\* percentile never reads past its samples: for every percentage and every
\* number of samples but none, the rank counts from 1 to that number.
THEOREM RankInRange ==
    ASSUME NEW n \in Nat \ {0}, NEW p \in 1..100
    PROVE  Rank(n, p) \in 1..n
<1> DEFINE k == p * n
<1>1. k \in Nat /\ 1 <= k /\ k <= 100 * n
  <2>1. \A a, b, c \in Nat : a <= b => a * c <= b * c
    BY SMT
  <2> QED  BY <2>1
<1> HIDE DEF k
<1>2. (k + 99) \div 100 \in 1..n
  BY <1>1
<1> QED  BY <1>2 DEF Rank, k
-----------------------------------------------------------------------------
(* Every request once.                                                     *)

JobsOK ==
    /\ next \in 1..(Requests + 1)
    /\ job \in [Workers -> Nat \union {None}]
    /\ DOMAIN sample = Indexes
    /\ Done \subseteq 1..(next - 1)

IInv == JobsOK /\ EveryRequestOnce

\* The sets that are counted are finite.
LEMMA CountedSets == IsFiniteSet(Held) /\ IsFiniteSet(Done)
<1>1. IsFiniteSet(Held)
  BY WorkerAssumption, FS_Subset DEF Held
<1>2. IsFiniteSet(Done)
  <2>1. IsFiniteSet(1..Requests)
    BY RequestAssumption, FS_Interval
  <2> QED  BY <2>1, FS_Subset DEF Done, Indexes
<1> QED  BY <1>1, <1>2

\* A worker that writes its sample lets go of its index, which is done then:
\* samples[i] = oneRequest(...), and the next round of the worker's loop.
LEMMA SampledKeepsIInv ==
    ASSUME IInv, NEW w \in Workers, job[w] # None, NEW s, s # NoSample, Sampled(w, s)
    PROVE  IInv'
<1>1. w \in Held /\ job[w] \in 1..(next - 1) /\ job[w] \notin Done
  BY DEF IInv, EveryRequestOnce, Held
<1>2. job[w] \in Indexes
  BY <1>1, RequestAssumption DEF IInv, JobsOK, Indexes
<1>3. /\ sample' = [sample EXCEPT ![job[w]] = s]
      /\ job' = [job EXCEPT ![w] = None]
      /\ next' = next /\ report' = report
  BY DEF Sampled
<1>4. Held' = Held \ {w}
  BY <1>3 DEF IInv, JobsOK, Held
<1>5. Done' = Done \union {job[w]}
  BY <1>2, <1>3 DEF IInv, JobsOK, Done, Indexes
<1>6. JobsOK'
  BY <1>1, <1>3, <1>5 DEF IInv, JobsOK, Indexes
<1>7. \A v \in Held' : job'[v] = job[v] /\ job[v] # job[w] /\ v \in Held
  BY <1>1, <1>3, <1>4 DEF IInv, JobsOK, EveryRequestOnce, Held
<1>8. Cardinality(Held') + Cardinality(Done') = next' - 1
  <2>1. Cardinality(Held') = Cardinality(Held) - 1
    BY <1>1, <1>4, CountedSets, FS_RemoveElement
  <2>2. Cardinality(Done') = Cardinality(Done) + 1
    BY <1>1, <1>5, CountedSets, FS_AddElement
  <2>3. Cardinality(Held) \in Nat /\ Cardinality(Done) \in Nat
    BY CountedSets, FS_CardinalityType
  <2> QED  BY <1>3, <2>1, <2>2, <2>3 DEF IInv, JobsOK, EveryRequestOnce
<1>9. EveryRequestOnce'
  <2>1. \A v \in Held' : job'[v] \in 1..(next' - 1) /\ job'[v] \notin Done'
    BY <1>3, <1>5, <1>7 DEF IInv, EveryRequestOnce
  <2>2. \A v, u \in Held' : job'[v] = job'[u] => v = u
    BY <1>7 DEF IInv, EveryRequestOnce
  <2>3. report' # NoReport => Done' = Indexes'
    BY <1>2, <1>3, <1>5 DEF IInv, EveryRequestOnce, Indexes
  <2> QED  BY <1>8, <2>1, <2>2, <2>3 DEF EveryRequestOnce
<1> QED  BY <1>6, <1>9 DEF IInv

\* An index that is handed out is a new one: jobs <- i.
LEMMA HandKeepsIInv ==
    ASSUME IInv, NEW w \in Workers, Hand(w)
    PROVE  IInv'
<1>1. /\ job[w] = None /\ next <= Requests
      /\ job' = [job EXCEPT ![w] = next]
      /\ next' = next + 1
      /\ sample' = sample /\ report' = report
  BY DEF Hand
<1>2. next \in Nat /\ next # None /\ next \in Indexes
  BY <1>1, RequestAssumption DEF IInv, JobsOK, Indexes
<1>3. w \notin Held /\ Held' = Held \union {w} /\ Done' = Done
  BY <1>1, <1>2 DEF IInv, JobsOK, Held, Done, Indexes
<1>4. JobsOK'
  BY <1>1, <1>2, <1>3, RequestAssumption DEF IInv, JobsOK, Indexes
<1>5. next \notin Done /\ \A v \in Held : job[v] # next /\ job'[v] = job[v]
  BY <1>1, <1>2, <1>3 DEF IInv, JobsOK, EveryRequestOnce, Held
<1>6. Cardinality(Held') + Cardinality(Done') = next' - 1
  <2>1. Cardinality(Held') = Cardinality(Held) + 1
    BY <1>3, CountedSets, FS_AddElement
  <2>2. Cardinality(Held) \in Nat /\ Cardinality(Done) \in Nat
    BY CountedSets, FS_CardinalityType
  <2> QED  BY <1>1, <1>2, <1>3, <2>1, <2>2 DEF IInv, EveryRequestOnce
<1>7. job'[w] = next
  BY <1>1 DEF IInv, JobsOK
<1>8. EveryRequestOnce'
  <2>1. \A v \in Held' : job'[v] \in 1..(next' - 1) /\ job'[v] \notin Done'
    <3>1. next' - 1 = next
      BY <1>1, <1>2
    <3>2. \A v \in Held : job[v] \in 1..next /\ job[v] \notin Done
      BY <1>2 DEF IInv, EveryRequestOnce
    <3>3. next \in 1..next
      BY <1>2, RequestAssumption DEF IInv, JobsOK
    <3> QED  BY <1>3, <1>5, <1>7, <3>1, <3>2, <3>3
  <2>2. \A v, u \in Held' : job'[v] = job'[u] => v = u
    BY <1>3, <1>5, <1>7 DEF IInv, EveryRequestOnce
  <2>3. report' # NoReport => Done' = Indexes'
    BY <1>1, <1>3 DEF IInv, EveryRequestOnce, Indexes
  <2> QED  BY <1>6, <2>1, <2>2, <2>3 DEF EveryRequestOnce
<1> QED  BY <1>4, <1>8 DEF IInv

\* wg.Wait: when every index is handed out and no worker holds one, every
\* request has its sample.
LEMMA FinishKeepsIInv == IInv /\ Finish => IInv'
<1> SUFFICES ASSUME IInv, Finish PROVE IInv'
  OBVIOUS
<1>1. next' = next /\ job' = job /\ sample' = sample
  BY DEF Finish
<1>2. Held' = Held /\ Done' = Done /\ Indexes' = Indexes
  BY <1>1 DEF Held, Done, Indexes
<1>3. JobsOK'
  BY <1>1, <1>2 DEF IInv, JobsOK
<1>4. Done = Indexes
  <2>1. Held = {} /\ next = Requests + 1
    BY RequestAssumption DEF Finish, Held, IInv, JobsOK
  <2>2. Cardinality(Done) = Requests
    <3>1. Cardinality(Held) = 0
      BY <2>1, FS_EmptySet
    <3>2. Cardinality(Done) \in Nat
      BY CountedSets, FS_CardinalityType
    <3> QED  BY <2>1, <3>1, <3>2, RequestAssumption DEF IInv, EveryRequestOnce
  <2>3. IsFiniteSet(1..Requests) /\ Cardinality(1..Requests) = Requests
    BY RequestAssumption, FS_Interval
  <2>4. Done \in SUBSET (1..Requests)
    BY DEF Done, Indexes
  <2> QED  BY <2>2, <2>3, <2>4, FS_Subset DEF Indexes
<1>5. EveryRequestOnce'
  BY <1>1, <1>2, <1>4 DEF IInv, EveryRequestOnce
<1> QED  BY <1>3, <1>5 DEF IInv

\* What clients, handlers, the engine and a restart do leaves the run alone.
LEMMA OthersKeepIInv == IInv /\ UNCHANGED benchVars => IInv'
<1> SUFFICES ASSUME IInv, UNCHANGED benchVars PROVE IInv'
  OBVIOUS
<1>1. next' = next /\ job' = job /\ sample' = sample /\ report' = report
  BY DEF benchVars
<1>2. Held' = Held /\ Done' = Done /\ Indexes' = Indexes
  BY <1>1 DEF Held, Done, Indexes
<1> QED  BY <1>1, <1>2 DEF IInv, JobsOK, EveryRequestOnce

LEMMA JobsInvariant == Spec => []IInv
<1>1. Init => IInv
  <2> SUFFICES ASSUME Init PROVE IInv
    OBVIOUS
  <2>1. next = 1 /\ job = [w \in Workers |-> None] /\ report = NoReport
        /\ sample = [i \in Indexes |-> NoSample]
    BY DEF Init
  <2>2. Held = {} /\ Done = {}
    BY <2>1 DEF Held, Done
  <2>3. Cardinality(Held) = 0 /\ Cardinality(Done) = 0
    BY <2>2, FS_EmptySet
  <2> QED  BY <2>1, <2>2, <2>3, RequestAssumption DEF IInv, JobsOK, EveryRequestOnce
<1>2. IInv /\ [Next]_vars => IInv'
  <2> SUFFICES ASSUME IInv, [Next]_vars PROVE IInv'
    OBVIOUS
  <2>1. ASSUME NEW w \in Workers, Hand(w) PROVE IInv'
    BY <2>1, HandKeepsIInv
  <2>2. ASSUME NEW w \in Workers, Ask(w) PROVE IInv'
    BY <2>2, OthersKeepIInv DEF Ask
  <2>3. ASSUME NEW w \in Workers, Score(w) PROVE IInv'
    <3>1. job[w] # None
      BY <2>3 DEF Score
    <3>2. CASE answer[w].end = "ok" /\ Sampled(w, answer[w])
      <4>1. answer[w] # NoSample
        <5>1. NoSample.end = "none"
          BY DEF NoSample
        <5> QED  BY <3>2, <5>1
      <4> QED  BY <3>1, <3>2, <4>1, SampledKeepsIInv
    <3>3. CASE Sampled(w, Failed)
      <4>1. Failed # NoSample
        BY DEF Failed, NoSample
      <4> QED  BY <3>1, <3>3, <4>1, SampledKeepsIInv
    <3> QED  BY <2>3, <3>2, <3>3 DEF Score
  <2>4. ASSUME NEW w \in Workers, Timeout(w) PROVE IInv'
    <3>1. job[w] # None /\ Sampled(w, Failed)
      BY <2>4 DEF Timeout
    <3>2. Failed # NoSample
      BY DEF Failed, NoSample
    <3> QED  BY <3>1, <3>2, SampledKeepsIInv
  <2>5. CASE Finish
    BY <2>5, FinishKeepsIInv
  <2>6. CASE UNCHANGED benchVars
    BY <2>6, OthersKeepIInv
  <2> QED  BY <2>1, <2>2, <2>3, <2>4, <2>5, <2>6 DEF Next, Visit, vars
<1> QED  BY <1>1, <1>2, PTL DEF Spec

\* Run hands every index to one worker, each request gets one sample, and the
\* report is folded from all of them (Run, jobs, samples and wg).
THEOREM EveryRequestOnceTheorem == Spec => []EveryRequestOnce
<1>1. IInv => EveryRequestOnce
  BY DEF IInv
<1> QED  BY <1>1, JobsInvariant, PTL
-----------------------------------------------------------------------------
(* The surface.                                                            *)

States == {"idle", "counting", "over"} \union Upstream

\* What is where: the policy is one of the manifest's, and every client has a
\* place in each table.
SurfaceOK ==
    /\ policy \in Policies
    /\ st \in [Clients -> States]
    /\ DOMAIN req = Clients /\ DOMAIN todo = Clients
    /\ DOMAIN seen = Clients /\ DOMAIN answer = Clients
    /\ stored \in [Dialects \X Fields -> SUBSET Clients]
    /\ DOMAIN held = Clients
    /\ count \in [Dialects \X Fields \X Clients -> Nat]
    /\ lost \in [Dialects \X Fields -> Nat]

\* A request that is over is forgotten by the surface.
LEMMA ReplyKeepsTables ==
    ASSUME SurfaceOK, NEW c \in Clients, NEW end, NEW whole, Reply(c, end, whole)
    PROVE  /\ st' \in [Clients -> States] /\ st' = [st EXCEPT ![c] = "over"]
           /\ DOMAIN req' = Clients /\ DOMAIN seen' = Clients /\ DOMAIN answer' = Clients
           /\ \A d \in Clients \ {c} : req'[d] = req[d] /\ seen'[d] = seen[d] /\ st'[d] = st[d]
           /\ st'[c] = "over"
  BY DEF SurfaceOK, Reply, States

LEMMA ArriveKeepsSurfaceOK ==
    ASSUME SurfaceOK, NEW c \in Clients, NEW r, Arrive(c, r)
    PROVE  SurfaceOK'
<1>1. policy' = policy /\ UNCHANGED <<stored, held, count>>
  BY DEF Arrive
<1>2. CASE Route(r) = "probed"
  BY <1>1, <1>2, ReplyKeepsTables DEF Arrive, SurfaceOK
<1>3. CASE Route(r) = "refused"
  BY <1>1, <1>3, ReplyKeepsTables DEF Arrive, SurfaceOK
<1>4. CASE Route(r) = "proxied"
  BY <1>1, <1>4 DEF Arrive, SurfaceOK, States, Upstream
<1>5. CASE Route(r) = "read"
  <2> DEFINE losses == IF Native(r) THEN {} ELSE r.loses
  <2>1. /\ st' = [st EXCEPT ![c] = "counting"]
        /\ req' = [req EXCEPT ![c] = r]
        /\ todo' = [todo EXCEPT ![c] = losses]
        /\ lost' = [k \in DOMAIN lost |->
                       IF k[1] = r.to /\ k[2] \in losses THEN lost[k] + 1 ELSE lost[k]]
        /\ seen' = seen /\ answer' = answer
    BY <1>5 DEF Arrive
  <2> QED  BY <1>1, <2>1 DEF SurfaceOK, States
<1> QED  BY <1>2, <1>3, <1>4, <1>5 DEF Route

LEMMA HandleKeepsSurfaceOK ==
    ASSUME SurfaceOK, NEW c \in Clients, Handle(c)
    PROVE  SurfaceOK'
<1>0. CASE FindCounter(c)
  <2>0. PICK f \in todo[c] : \E o \in LoadOrStore(c, f) :
            /\ stored' = [stored EXCEPT ![<<req[c].to, f>>] = {o}]
            /\ held' = [held EXCEPT ![c] = {<<f, o>>}]
    BY <1>0 DEF FindCounter
  <2>1. PICK o \in LoadOrStore(c, f) :
            /\ stored' = [stored EXCEPT ![<<req[c].to, f>>] = {o}]
            /\ held' = [held EXCEPT ![c] = {<<f, o>>}]
    BY <2>0
  <2>2. stored' \in [Dialects \X Fields -> SUBSET Clients]
    <3> DEFINE k == <<req[c].to, f>>
               D == Dialects \X Fields
    <3>1. /\ stored \in [D -> SUBSET Clients] /\ stored' = [stored EXCEPT ![k] = {o}]
          /\ o \in IF stored[k] = {} THEN {c} ELSE stored[k]
      BY <2>1 DEF SurfaceOK, LoadOrStore
    <3> HIDE DEF k, D
    <3>2. stored' \in [D -> SUBSET Clients]
      <4>1. CASE k \in D
        <5>1. o \in Clients
          BY <3>1, <4>1
        <5> QED  BY <3>1, <4>1, <5>1
      <4>2. CASE k \notin D
        BY <3>1, <4>2
      <4> QED  BY <4>1, <4>2
    <3> QED  BY <3>2 DEF D
  <2>3. DOMAIN held' = Clients /\ UNCHANGED <<policy, st, req, todo, seen, answer, count, lost>>
    BY <1>0, <2>1 DEF FindCounter, SurfaceOK
  <2> QED  BY <2>2, <2>3 DEF SurfaceOK
<1>1. CASE AddLoss(c)
  <2>1. PICK h \in held[c] : /\ count' = [count EXCEPT ![<<req[c].to, h[1], h[2]>>] = @ + 1]
                             /\ todo' = [todo EXCEPT ![c] = @ \ {h[1]}]
    BY <1>1 DEF AddLoss
  <2>2. count' \in [Dialects \X Fields \X Clients -> Nat]
    <3> DEFINE k == <<req[c].to, h[1], h[2]>>
               D == Dialects \X Fields \X Clients
    <3>1. count \in [D -> Nat] /\ count' = [count EXCEPT ![k] = @ + 1]
      BY <2>1 DEF SurfaceOK
    <3> HIDE DEF k, D
    <3>2. count' \in [D -> Nat]
      <4>1. CASE k \in D
        BY <3>1, <4>1
      <4>2. CASE k \notin D
        BY <3>1, <4>2
      <4> QED  BY <4>1, <4>2
    <3> QED  BY <3>2 DEF D
  <2>3. DOMAIN todo' = Clients /\ DOMAIN held' = Clients
        /\ UNCHANGED <<policy, st, req, seen, answer, stored, lost>>
    BY <1>1, <2>1 DEF AddLoss, SurfaceOK
  <2> QED  BY <2>2, <2>3 DEF SurfaceOK
<1>2. CASE Forward(c)
  BY <1>2 DEF Forward, lossVars, SurfaceOK, States, Upstream
<1>3. CASE EngineAnswers(c)
  BY <1>3, ReplyKeepsTables DEF EngineAnswers, lossVars, SurfaceOK
<1>4. CASE EngineFails(c)
  BY <1>4, ReplyKeepsTables DEF EngineFails, lossVars, SurfaceOK
<1>5. CASE EngineCuts(c)
  BY <1>5, ReplyKeepsTables DEF EngineCuts, lossVars, SurfaceOK
<1> QED  BY <1>0, <1>1, <1>2, <1>3, <1>4, <1>5 DEF Handle

LEMMA RestartKeepsSurfaceOK == SurfaceOK /\ Restart => SurfaceOK'
  BY DEF Restart, SurfaceOK, States, NoneStored, NoneHeld, Zero, NoneLost

\* What a worker does to the surface: it asks its question, and clears away
\* what is left of its request once it has a sample of it.
LEMMA WorkerSteps ==
    ASSUME NEW w \in Workers, Hand(w) \/ Ask(w) \/ Score(w) \/ Timeout(w)
    PROVE  \/ UNCHANGED surfaceVars
           \/ Arrive(w, Question)
           \/ /\ \E s : Sampled(w, s)
              /\ todo' = todo \/ todo' = [todo EXCEPT ![w] = {}]
  BY DEF Hand, Ask, Score, Timeout

LEMMA SampledKeepsSurfaceOK ==
    ASSUME SurfaceOK, NEW w \in Workers, NEW s, Sampled(w, s),
           todo' = todo \/ todo' = [todo EXCEPT ![w] = {}]
    PROVE  SurfaceOK'
  BY DEF SurfaceOK, Sampled, lossVars, States

\* Every step of the system, as the surface sees it.
LEMMA SurfaceSteps ==
    ASSUME [Next]_vars
    PROVE  \/ UNCHANGED surfaceVars
           \/ Restart
           \/ \E c \in Clients : Handle(c)
           \/ \E c \in Clients \ Workers, r \in Visits : Arrive(c, r)
           \/ \E w \in Workers : Arrive(w, Question)
           \/ \E w \in Workers : /\ \E s : Sampled(w, s)
                                 /\ todo' = todo \/ todo' = [todo EXCEPT ![w] = {}]
<1>1. ASSUME NEW w \in Workers, Hand(w) \/ Ask(w) \/ Score(w) \/ Timeout(w)
      PROVE  \/ UNCHANGED surfaceVars
             \/ Arrive(w, Question)
             \/ /\ \E s : Sampled(w, s)
                /\ todo' = todo \/ todo' = [todo EXCEPT ![w] = {}]
  BY <1>1, WorkerSteps
<1>2. ASSUME NEW c \in Clients, Visit(c)
      PROVE  \E d \in Clients \ Workers, r \in Visits : Arrive(d, r)
  BY <1>2 DEF Visit
<1>3. CASE Finish
  BY <1>3 DEF Finish
<1>4. CASE UNCHANGED vars
  BY <1>4 DEF vars
<1> QED  BY <1>1, <1>2, <1>3, <1>4 DEF Next

LEMMA SurfaceInvariant == Spec => []SurfaceOK
<1>1. Init => SurfaceOK
  BY DEF Init, SurfaceInit, SurfaceOK, States, NoneStored, NoneHeld, Zero, NoneLost
<1>2. SurfaceOK /\ [Next]_vars => SurfaceOK'
  <2> SUFFICES ASSUME SurfaceOK, [Next]_vars PROVE SurfaceOK'
    OBVIOUS
  <2>1. CASE UNCHANGED surfaceVars
    BY <2>1 DEF surfaceVars, lossVars, SurfaceOK
  <2>2. ASSUME NEW c \in Clients, NEW r, Arrive(c, r) PROVE SurfaceOK'
    BY <2>2, ArriveKeepsSurfaceOK
  <2>3. \A w \in Workers : w \in Clients
    BY WorkerAssumption
  <2> QED
    BY <2>1, <2>2, <2>3, SurfaceSteps, RestartKeepsSurfaceOK, HandleKeepsSurfaceOK,
       SampledKeepsSurfaceOK
<1> QED  BY <1>1, <1>2, PTL DEF Spec
-----------------------------------------------------------------------------
(* Prompts.                                                                *)

\* On an engine that speaks Chat, injectSystemPrompt puts the policy's prompt
\* where the engine reads it, for every policy and every request.
LEMMA InjectEnforces ==
    ASSUME EngineDialect = "openai-chat", policy \in Policies, NEW r
    PROVE  Enforced(r, EngineSees(Inject(Body(r))))
<1> DEFINE callers == IF r.prompt THEN <<"caller">> ELSE <<>>
           body == [messages |-> callers, field |-> <<>>]
<1>1. Body(r) = body
  BY DEF Body
<1>2. \A b : EngineSees(b) = b.messages
  BY DEF EngineSees
<1>3. callers = <<>> <=> ~r.prompt
  BY SMT
<1>4. policy \in {"absent", "default", "prepend", "override"}
  BY PolicyAssumption
<1>5. Inject(body).messages =
          CASE policy = "absent" -> callers
            [] policy = "default" -> IF r.prompt THEN callers ELSE <<"ours">>
            [] policy = "prepend" -> <<"ours">> \o callers
            [] policy = "override" -> <<"ours">>
  <2> HIDE DEF callers
  <2>1. CASE policy = "absent"
    BY <2>1 DEF Inject
  <2>2. CASE policy = "default" /\ r.prompt
    BY <1>3, <2>2 DEF Inject
  <2>3. CASE policy = "default" /\ ~r.prompt
    BY <1>3, <2>3 DEF Inject
  <2>4. CASE policy = "prepend"
    BY <2>4 DEF Inject
  <2>5. CASE policy = "override"
    BY <2>5 DEF Inject
  <2> QED  BY <1>4, <2>1, <2>2, <2>3, <2>4, <2>5
<1> QED  BY <1>1, <1>2, <1>5 DEF Enforced

\* A request that is proxied untouched is one that no policy applies to.
LEMMA ProxiedEnforces ==
    ASSUME EngineDialect = "openai-chat", NEW r,
           Route(r) = "proxied", Surface(r), r.post
    PROVE  Enforced(r, EngineSees(Body(r)))
<1>1. r.to # "probe"
  BY DEF Surface, Dialects
<1>2. policy = "absent"
  BY <1>1 DEF Route, Proxied
<1>3. EngineSees(Body(r)) = IF r.prompt THEN <<"caller">> ELSE <<>>
  BY DEF EngineSees, Body
<1> QED  BY <1>2, <1>3 DEF Enforced

\* The requests of the other clients are not touched.
LEMMA OneClientEnforced ==
    ASSUME PromptEnforced, policy' = policy, NEW c \in Clients,
           \A d \in Clients \ {c} : req'[d] = req[d] /\ seen'[d] = seen[d] /\ st'[d] = st[d],
           Surface(req'[c]) /\ req'[c].post /\ st'[c] \in Upstream => Enforced(req[c], seen[c])'
    PROVE  PromptEnforced'
  BY DEF PromptEnforced, Enforced, Surface, Dialects, Upstream

\* With an engine that speaks Chat, the manifest's prompt policy holds on every
\* surface, for all requests that are in flight together (dialectSurface,
\* translated, injectSystemPrompt).  An engine of another dialect is
\* SurfaceDialect's subject.
THEOREM PromptEnforcedTheorem ==
    ASSUME EngineDialect = "openai-chat"
    PROVE  Spec => []PromptEnforced
<1>1. Init => PromptEnforced
  BY DEF Init, SurfaceInit, PromptEnforced, Upstream
<1>2. SurfaceOK /\ PromptEnforced /\ [Next]_vars => PromptEnforced'
  <2> SUFFICES ASSUME SurfaceOK, PromptEnforced, [Next]_vars PROVE PromptEnforced'
    OBVIOUS
  <2>1. CASE UNCHANGED surfaceVars
    BY <2>1 DEF surfaceVars, PromptEnforced, Enforced, Surface
  <2>2. CASE Restart
    BY <2>2 DEF Restart, PromptEnforced, Upstream
  <2>3. ASSUME NEW c \in Clients, Handle(c) PROVE PromptEnforced'
    <3>1. CASE FindCounter(c) \/ AddLoss(c)
      BY <3>1 DEF FindCounter, AddLoss, PromptEnforced, Enforced, Surface
    <3>2. CASE Forward(c)
      <4>1. /\ policy' = policy /\ req' = req
            /\ st' = [st EXCEPT ![c] = IF Native(req[c]) THEN "forwarded" ELSE "translated"]
            /\ seen' = [seen EXCEPT ![c] = EngineSees(Inject(Body(req[c])))]
        BY <3>2 DEF Forward
      <4>2. Enforced(req[c], EngineSees(Inject(Body(req[c]))))
        BY InjectEnforces DEF SurfaceOK
      <4>3. Enforced(req[c], seen[c])'
        BY <4>1, <4>2 DEF SurfaceOK, Enforced
      <4> QED  BY <4>1, <4>3, OneClientEnforced DEF SurfaceOK
    <3>3. CASE EngineAnswers(c) \/ EngineFails(c) \/ EngineCuts(c)
      <4>1. policy' = policy /\ \E end, whole : Reply(c, end, whole)
        BY <3>3 DEF EngineAnswers, EngineFails, EngineCuts
      <4> QED  BY <4>1, ReplyKeepsTables, OneClientEnforced DEF Upstream
    <3> QED  BY <2>3, <3>1, <3>2, <3>3 DEF Handle
  <2>4. ASSUME NEW c \in Clients, NEW r, Arrive(c, r) PROVE PromptEnforced'
    <3>1. policy' = policy
      BY <2>4 DEF Arrive
    <3>2. CASE Route(r) = "probed" \/ Route(r) = "refused"
      <4>1. \E end, whole : Reply(c, end, whole)
        BY <2>4, <3>2 DEF Arrive
      <4> QED  BY <3>1, <4>1, ReplyKeepsTables, OneClientEnforced DEF Upstream
    <3>3. CASE Route(r) = "proxied"
      <4>1. /\ st' = [st EXCEPT ![c] = "proxied"]
            /\ req' = [req EXCEPT ![c] = r]
            /\ seen' = [seen EXCEPT ![c] = EngineSees(Body(r))]
        BY <2>4, <3>3 DEF Arrive
      <4>2. req'[c] = r /\ seen'[c] = EngineSees(Body(r))
        BY <4>1 DEF SurfaceOK
      <4>3. Surface(r) /\ r.post => Enforced(r, EngineSees(Body(r)))
        BY <3>3, ProxiedEnforces
      <4>4. Surface(req'[c]) /\ req'[c].post => Enforced(req[c], seen[c])'
        BY <3>1, <4>2, <4>3 DEF Enforced
      <4> QED  BY <3>1, <4>1, <4>4, OneClientEnforced DEF SurfaceOK
    <3>4. CASE Route(r) = "read"
      <4>1. st' = [st EXCEPT ![c] = "counting"] /\ req' = [req EXCEPT ![c] = r] /\ seen' = seen
        BY <2>4, <3>4 DEF Arrive
      <4> QED  BY <3>1, <4>1, OneClientEnforced DEF SurfaceOK, Upstream
    <3> QED  BY <3>2, <3>3, <3>4 DEF Route
  <2>5. ASSUME NEW w \in Workers, NEW s, Sampled(w, s) PROVE PromptEnforced'
    <3>1. w \in Clients
      BY WorkerAssumption
    <3> QED  BY <2>5, <3>1, OneClientEnforced DEF Sampled, SurfaceOK, Upstream
  <2>6. \A w \in Workers : w \in Clients
    BY WorkerAssumption
  <2> QED  BY <2>1, <2>2, <2>3, <2>4, <2>5, <2>6, SurfaceSteps
<1> QED  BY <1>1, <1>2, SurfaceInvariant, PTL DEF Spec
-----------------------------------------------------------------------------
(* Losses.                                                                 *)

\* A benchmark's question loses nothing, so that its timeout, which ends the
\* handler, leaves nothing uncounted.
WorkersLoseNothing == \A w \in Workers : todo[w] = {}

\* At most one counter is kept for a field, and it is the one that every handler
\* which is about to add to that field holds; one that is not kept yet is zero.
OneStored == \A k \in Dialects \X Fields : \A o, p \in stored[k] : o = p

HeldStored ==
    \A c \in Clients : \A h \in held[c] :
        /\ st[c] = "counting" /\ h[1] \in todo[c]
        /\ req[c].to \in Dialects /\ h[1] \in Fields => stored[<<req[c].to, h[1]>>] = {h[2]}

FreshZero ==
    \A d \in Dialects, f \in Fields :
        stored[<<d, f>>] = {} => \A o \in Clients : count[<<d, f, o>>] = 0

Cells   == OneStored /\ HeldStored /\ FreshZero
LossInv == WorkersLoseNothing /\ Cells /\ LossesCounted

LEMMA BehindFinite == ASSUME NEW d, NEW f PROVE IsFiniteSet(Behind(d, f))
  BY ClientAssumption, FS_Subset DEF Behind

\* What neither counts nor comes upon a loss keeps the balance.
LEMMA SameBehindCounted ==
    ASSUME LossesCounted, UNCHANGED <<stored, count, lost>>,
           \A d \in Dialects, f \in Fields : Behind(d, f)' = Behind(d, f)
    PROVE  LossesCounted'
  BY DEF LossesCounted, Reported

\* What a client that holds no counter does leaves the counters as they are.
LEMMA SameCells ==
    ASSUME Cells, NEW c, c \in Clients => held[c] = {}, UNCHANGED <<stored, held, count>>,
           \A d \in Clients \ {c} : req'[d] = req[d] /\ todo'[d] = todo[d] /\ st'[d] = st[d]
    PROVE  Cells'
<1>1. OneStored' /\ FreshZero'
  BY DEF Cells, OneStored, FreshZero
<1>2. HeldStored'
  <2> SUFFICES ASSUME NEW d \in Clients, NEW h \in held[d]
               PROVE  /\ st'[d] = "counting" /\ h[1] \in todo'[d]
                      /\ req'[d].to \in Dialects /\ h[1] \in Fields
                            => stored[<<req'[d].to, h[1]>>] = {h[2]}
    BY DEF HeldStored
  <2>1. d # c
    OBVIOUS
  <2> QED  BY <2>1 DEF Cells, HeldStored
<1> QED  BY <1>1, <1>2 DEF Cells

\* A client that is in no state of counting, before and after, is behind with
\* nothing, and the others are what they were.
LEMMA NotCounting ==
    ASSUME NEW c, st[c] # "counting" \/ todo[c] = {}, st'[c] # "counting" \/ todo'[c] = {},
           \A d \in Clients \ {c} : req'[d] = req[d] /\ todo'[d] = todo[d] /\ st'[d] = st[d],
           NEW d, NEW f
    PROVE  Behind(d, f)' = Behind(d, f)
  BY DEF Behind

LEMMA ReportedNatural ==
    ASSUME SurfaceOK, NEW d \in Dialects, NEW f \in Fields
    PROVE  Reported(d, f) \subseteq Nat
<1>1. stored[<<d, f>>] \subseteq Clients
  BY DEF SurfaceOK
<1>2. ASSUME NEW o \in Clients PROVE count[<<d, f, o>>] \in Nat
  BY DEF SurfaceOK
<1>3. CASE stored[<<d, f>>] = {}
  BY <1>3 DEF Reported
<1>4. CASE stored[<<d, f>>] # {}
  <2> SUFFICES ASSUME NEW n \in Reported(d, f)
               PROVE  n \in Nat
    OBVIOUS
  <2>1. PICK o \in stored[<<d, f>>] : n = count[<<d, f, o>>]
    BY <1>4 DEF Reported
  <2> QED  BY <1>1, <1>2, <2>1
<1> QED  BY <1>3, <1>4

\* A request whose losses are known is behind with each of them.
LEMMA ReadKeepsCounted ==
    ASSUME SurfaceOK, LossesCounted, NEW c \in Clients, NEW r,
           Arrive(c, r), Route(r) = "read"
    PROVE  LossesCounted'
<1> DEFINE losses == IF Native(r) THEN {} ELSE r.loses
<1>1. /\ st' = [st EXCEPT ![c] = "counting"]
      /\ req' = [req EXCEPT ![c] = r]
      /\ todo' = [todo EXCEPT ![c] = losses]
      /\ lost' = [k \in DOMAIN lost |->
                     IF k[1] = r.to /\ k[2] \in losses THEN lost[k] + 1 ELSE lost[k]]
      /\ UNCHANGED <<stored, count>> /\ st[c] = "idle"
  BY DEF Arrive
<1> HIDE DEF losses
<1>2. SUFFICES ASSUME NEW d \in Dialects, NEW f \in Fields, NEW n \in Reported(d, f)'
               PROVE  n + Cardinality(Behind(d, f)') = lost'[<<d, f>>]
  BY DEF LossesCounted
<1>0. n \in Reported(d, f)
  <2>1. stored' = stored /\ count' = count
    BY <1>1
  <2> QED  BY <1>2, <2>1 DEF Reported
<1>3. n \in Nat /\ lost[<<d, f>>] \in Nat /\ <<d, f>> \in DOMAIN lost
  BY <1>0, ReportedNatural DEF SurfaceOK
<1>4. n + Cardinality(Behind(d, f)) = lost[<<d, f>>]
  BY <1>0 DEF LossesCounted
<1>5. c \notin Behind(d, f) /\ IsFiniteSet(Behind(d, f)) /\ Cardinality(Behind(d, f)) \in Nat
  BY <1>1, BehindFinite, FS_CardinalityType DEF Behind
<1>6. lost'[<<d, f>>] = IF d = r.to /\ f \in losses THEN lost[<<d, f>>] + 1 ELSE lost[<<d, f>>]
  BY <1>1, <1>3
<1>7. CASE d = r.to /\ f \in losses
  <2>1. Behind(d, f)' = Behind(d, f) \union {c}
    BY <1>1, <1>7 DEF Behind, SurfaceOK
  <2>2. Cardinality(Behind(d, f)') = Cardinality(Behind(d, f)) + 1
    BY <1>5, <2>1, FS_AddElement
  <2> QED  BY <1>1, <1>3, <1>4, <1>5, <1>6, <1>7, <2>2
<1>8. CASE ~(d = r.to /\ f \in losses)
  <2>1. Behind(d, f)' = Behind(d, f)
    BY <1>1, <1>8 DEF Behind, SurfaceOK
  <2> QED  BY <1>1, <1>4, <1>6, <1>8, <2>1
<1> QED  BY <1>7, <1>8

\* A handler that looks a counter up gets the one that is kept, or the one that
\* is kept from now on, in one step: a second first use finds the first's
\* counter (recordLoss, LoadOrStore).
LEMMA FindKeepsCells ==
    ASSUME SurfaceOK, Cells, LossesCounted, NEW c \in Clients, FindCounter(c)
    PROVE  Cells' /\ LossesCounted'
<1> DEFINE to == req[c].to
<1>0. PICK g \in todo[c] : \E o \in LoadOrStore(c, g) :
          /\ stored' = [stored EXCEPT ![<<to, g>>] = {o}]
          /\ held' = [held EXCEPT ![c] = {<<g, o>>}]
  BY DEF FindCounter
<1>1. PICK o \in IF stored[<<to, g>>] = {} THEN {c} ELSE stored[<<to, g>>] :
          /\ stored' = [stored EXCEPT ![<<to, g>>] = {o}]
          /\ held' = [held EXCEPT ![c] = {<<g, o>>}]
  BY <1>0 DEF LoadOrStore
<1>2. st[c] = "counting" /\ UNCHANGED <<st, req, todo, count, lost>>
  BY DEF FindCounter
<1>3. DOMAIN stored = Dialects \X Fields /\ DOMAIN held = Clients
      /\ \A k \in Dialects \X Fields : stored[k] \subseteq Clients
  BY DEF SurfaceOK
<1>4. stored[<<to, g>>] # {} /\ to \in Dialects /\ g \in Fields => stored[<<to, g>>] = {o}
  <2> SUFFICES ASSUME stored[<<to, g>>] # {}, to \in Dialects, g \in Fields
               PROVE  stored[<<to, g>>] = {o}
    OBVIOUS
  <2>1. \A p, q \in stored[<<to, g>>] : p = q
    BY DEF Cells, OneStored
  <2> QED  BY <1>1, <2>1
<1>5. ASSUME NEW d \in Dialects, NEW f \in Fields
      PROVE  \/ stored'[<<d, f>>] = stored[<<d, f>>]
             \/ d = to /\ f = g /\ stored[<<d, f>>] = {} /\ o = c /\ stored'[<<d, f>>] = {c}
  <2>1. CASE d = to /\ f = g
    <3>1. stored'[<<d, f>>] = {o}
      BY <1>1, <1>3, <2>1
    <3>2. CASE stored[<<d, f>>] = {}
      BY <1>1, <2>1, <3>1, <3>2
    <3>3. CASE stored[<<d, f>>] # {}
      BY <1>4, <2>1, <3>1, <3>3
    <3> QED  BY <3>2, <3>3
  <2>2. CASE ~(d = to /\ f = g)
    <3>1. <<d, f>> # <<to, g>>
      BY <2>2
    <3> QED  BY <1>1, <1>3, <3>1
  <2> QED  BY <2>1, <2>2
<1>6. OneStored'
  BY <1>5 DEF Cells, OneStored
<1>7. FreshZero'
  BY <1>2, <1>5 DEF Cells, FreshZero
<1>8. HeldStored'
  <2> SUFFICES ASSUME NEW d \in Clients, NEW h \in held'[d]
               PROVE  /\ st[d] = "counting" /\ h[1] \in todo[d]
                      /\ req[d].to \in Dialects /\ h[1] \in Fields
                            => stored'[<<req[d].to, h[1]>>] = {h[2]}
    BY <1>2 DEF HeldStored
  <2>1. CASE d = c
    <3>1. h = <<g, o>>
      BY <1>1, <1>3, <2>1
    <3>2. h[1] = g /\ h[2] = o
      BY <3>1
    <3>3. to \in Dialects /\ g \in Fields => stored'[<<to, g>>] = {o}
      BY <1>1, <1>3
    <3> QED  BY <1>1, <1>2, <2>1, <3>2, <3>3
  <2>2. CASE d # c
    <3>1. h \in held[d]
      BY <1>1, <2>2
    <3>2. /\ st[d] = "counting" /\ h[1] \in todo[d]
          /\ req[d].to \in Dialects /\ h[1] \in Fields => stored[<<req[d].to, h[1]>>] = {h[2]}
      BY <3>1 DEF Cells, HeldStored
    <3> QED  BY <1>5, <3>2
  <2> QED  BY <2>1, <2>2
<1>9. ASSUME NEW d \in Dialects, NEW f \in Fields
      PROVE  Reported(d, f)' = Reported(d, f) /\ Behind(d, f)' = Behind(d, f)
  <2>1. Behind(d, f)' = Behind(d, f)
    BY <1>2 DEF Behind
  <2>2. CASE stored'[<<d, f>>] = stored[<<d, f>>]
    BY <1>2, <2>1, <2>2 DEF Reported
  <2>3. CASE stored[<<d, f>>] = {} /\ stored'[<<d, f>>] = {c}
    <3>1. count'[<<d, f, c>>] = 0
      BY <1>2, <2>3 DEF Cells, FreshZero
    <3>2. Reported(d, f)' = {0}
      BY <2>3, <3>1 DEF Reported
    <3> QED  BY <2>1, <2>3, <3>2 DEF Reported
  <2> QED  BY <1>5, <2>2, <2>3
<1>10. LossesCounted'
  BY <1>2, <1>9 DEF LossesCounted
<1> QED  BY <1>6, <1>7, <1>8, <1>10 DEF Cells

\* The counter that is moved is the one that is kept, and has one request less
\* behind it: an atomic add loses no other handler's (recordLoss, Add).
LEMMA AddKeepsCells ==
    ASSUME SurfaceOK, Cells, LossesCounted, NEW c \in Clients, AddLoss(c)
    PROVE  Cells' /\ LossesCounted'
<1> DEFINE to == req[c].to
<1>1. PICK h \in held[c] : /\ count' = [count EXCEPT ![<<to, h[1], h[2]>>] = @ + 1]
                           /\ todo' = [todo EXCEPT ![c] = @ \ {h[1]}]
  BY DEF AddLoss
<1>2. held' = [held EXCEPT ![c] = {}] /\ UNCHANGED <<st, req, stored, lost>>
  BY DEF AddLoss
<1>3. /\ st[c] = "counting" /\ h[1] \in todo[c]
      /\ to \in Dialects /\ h[1] \in Fields => stored[<<to, h[1]>>] = {h[2]}
  BY <1>1 DEF Cells, HeldStored
<1> DEFINE g == h[1]
           o == h[2]
<1>4. /\ count' = [count EXCEPT ![<<to, g, o>>] = @ + 1]
      /\ todo' = [todo EXCEPT ![c] = @ \ {g}]
      /\ g \in todo[c]
      /\ to \in Dialects /\ g \in Fields => stored[<<to, g>>] = {o}
  BY <1>1, <1>3
<1> HIDE DEF g, o
<1>5. ASSUME NEW d \in Dialects, NEW f \in Fields, NEW p \in Clients, ~(d = to /\ f = g /\ p = o)
      PROVE  count'[<<d, f, p>>] = count[<<d, f, p>>]
  <2>1. <<d, f, p>> # <<to, g, o>> /\ <<d, f, p>> \in DOMAIN count
    BY <1>5 DEF SurfaceOK
  <2> QED  BY <1>4, <2>1
<1>6. OneStored'
  BY <1>2 DEF Cells, OneStored
<1>7. FreshZero'
  <2> SUFFICES ASSUME NEW d \in Dialects, NEW f \in Fields, stored[<<d, f>>] = {}, NEW p \in Clients
               PROVE  count'[<<d, f, p>>] = 0
    BY <1>2 DEF FreshZero
  <2>1. ~(d = to /\ f = g)
    BY <1>4
  <2> QED  BY <1>5, <2>1 DEF Cells, FreshZero
<1>8. HeldStored'
  <2> SUFFICES ASSUME NEW d \in Clients, NEW i \in held'[d]
               PROVE  /\ st[d] = "counting" /\ i[1] \in todo'[d]
                      /\ req[d].to \in Dialects /\ i[1] \in Fields
                            => stored[<<req[d].to, i[1]>>] = {i[2]}
    BY <1>2 DEF HeldStored
  <2>1. d # c /\ i \in held[d]
    BY <1>2 DEF SurfaceOK
  <2>2. todo'[d] = todo[d]
    BY <1>4, <2>1
  <2> QED  BY <2>1, <2>2 DEF Cells, HeldStored
<1>9. SUFFICES ASSUME NEW d \in Dialects, NEW f \in Fields, NEW n \in Reported(d, f)'
               PROVE  n + Cardinality(Behind(d, f)') = lost[<<d, f>>]
  BY <1>2, <1>6, <1>7, <1>8 DEF LossesCounted, Cells
<1>10. IsFiniteSet(Behind(d, f)) /\ Cardinality(Behind(d, f)) \in Nat
  BY BehindFinite, FS_CardinalityType
<1>11. stored[<<d, f>>] \subseteq Clients
  BY DEF SurfaceOK
<1>12. CASE d = to /\ f = g
  <2>1. c \in Behind(d, f)
    BY <1>3, <1>4, <1>12 DEF Behind
  <2>2. Behind(d, f)' = Behind(d, f) \ {c}
    BY <1>2, <1>4, <1>12 DEF Behind, SurfaceOK
  <2>3. Cardinality(Behind(d, f)') = Cardinality(Behind(d, f)) - 1
    BY <1>10, <2>1, <2>2, FS_RemoveElement
  <2>4. stored[<<d, f>>] = {o} /\ o \in Clients
    BY <1>4, <1>11, <1>12
  <2>5. <<d, f, o>> \in DOMAIN count /\ count[<<d, f, o>>] \in Nat
    BY <2>4 DEF SurfaceOK
  <2>6. count'[<<d, f, o>>] = count[<<d, f, o>>] + 1
    BY <1>4, <1>12, <2>5
  <2>7. n = count[<<d, f, o>>] + 1
    BY <1>2, <2>4, <2>6 DEF Reported
  <2>8. count[<<d, f, o>>] + Cardinality(Behind(d, f)) = lost[<<d, f>>]
    BY <2>4 DEF LossesCounted, Reported
  <2> QED  BY <1>10, <2>3, <2>5, <2>7, <2>8
<1>13. CASE ~(d = to /\ f = g)
  <2>1. Behind(d, f)' = Behind(d, f)
    BY <1>2, <1>4, <1>13 DEF Behind, SurfaceOK
  <2>2. \A p \in stored[<<d, f>>] : count'[<<d, f, p>>] = count[<<d, f, p>>]
    BY <1>5, <1>11, <1>13
  <2>3. n \in Reported(d, f)
    BY <1>2, <2>2 DEF Reported
  <2> QED  BY <2>1, <2>3 DEF LossesCounted
<1> QED  BY <1>12, <1>13

\* No loss is forgotten and none is counted twice, for any number of handlers,
\* however their lookups and adds interleave, first uses of a field included,
\* with restarts between them, and clients that hang up before their request is
\* read (translated, recordLoss).
THEOREM LossesCountedTheorem == Spec => []LossesCounted
<1>1. Init => LossInv
  <2> SUFFICES ASSUME Init PROVE LossInv
    OBVIOUS
  <2>1. \A d \in Dialects, f \in Fields :
            Behind(d, f) = {} /\ Reported(d, f) = {0} /\ lost[<<d, f>>] = 0
    BY DEF Init, SurfaceInit, NoneStored, NoneLost, Behind, Reported
  <2>2. Cardinality({}) = 0
    BY FS_EmptySet
  <2>3. WorkersLoseNothing
    BY WorkerAssumption DEF Init, SurfaceInit, WorkersLoseNothing
  <2>4. Cells
    BY DEF Init, SurfaceInit, NoneStored, NoneHeld, Zero, Cells, OneStored, HeldStored, FreshZero
  <2> QED  BY <2>1, <2>2, <2>3, <2>4 DEF LossInv, LossesCounted
<1>2. SurfaceOK /\ LossInv /\ [Next]_vars => LossInv'
  <2> SUFFICES ASSUME SurfaceOK, LossInv, [Next]_vars PROVE LossInv'
    OBVIOUS
  <2>a. WorkersLoseNothing /\ Cells /\ LossesCounted
    BY DEF LossInv
  <2>h. \A c \in Clients : st[c] # "counting" \/ todo[c] = {} => held[c] = {}
    BY <2>a DEF Cells, HeldStored
  <2>b. \A w \in Workers : w \in Clients
    BY WorkerAssumption
  <2>1. CASE UNCHANGED surfaceVars
    <3>1. UNCHANGED <<stored, held, count, lost, todo, st, req>>
      BY <2>1 DEF surfaceVars, lossVars
    <3>2. \A d \in Dialects, f \in Fields : Behind(d, f)' = Behind(d, f)
      BY <3>1 DEF Behind
    <3>3. Cells'
      BY <2>a, <3>1 DEF Cells, OneStored, HeldStored, FreshZero
    <3> QED  BY <2>a, <3>1, <3>2, <3>3, SameBehindCounted DEF LossInv, WorkersLoseNothing
  <2>2. CASE Restart
    <3>1. \A d \in Dialects, f \in Fields :
              Behind(d, f)' = {} /\ Reported(d, f)' = {0} /\ lost'[<<d, f>>] = 0
      BY <2>2 DEF Restart, NoneStored, NoneLost, Behind, Reported
    <3>2. Cardinality({}) = 0
      BY FS_EmptySet
    <3>3. WorkersLoseNothing'
      BY <2>2, <2>b DEF Restart, WorkersLoseNothing
    <3>4. Cells'
      BY <2>2 DEF Restart, NoneStored, NoneHeld, Zero, Cells, OneStored, HeldStored, FreshZero
    <3> QED  BY <3>1, <3>2, <3>3, <3>4 DEF LossInv, LossesCounted
  <2>3. ASSUME NEW c \in Clients, Handle(c) PROVE LossInv'
    <3>0. CASE FindCounter(c)
      <4>1. WorkersLoseNothing'
        BY <2>a, <3>0 DEF FindCounter, WorkersLoseNothing
      <4> QED  BY <2>a, <2>3, <3>0, <4>1, FindKeepsCells DEF LossInv
    <3>1. CASE AddLoss(c)
      <4>1. WorkersLoseNothing'
        <5>1. \A w \in Workers : todo'[w] \subseteq todo[w]
          BY <3>1, <2>b DEF AddLoss, SurfaceOK
        <5> QED  BY <2>a, <5>1 DEF WorkersLoseNothing
      <4> QED  BY <2>a, <2>3, <3>1, <4>1, AddKeepsCells DEF LossInv
    <3>2. CASE Forward(c)
      <4>1. /\ UNCHANGED <<stored, held, count, lost, todo, req>>
            /\ todo[c] = {}
            /\ \A d \in Clients \ {c} : st'[d] = st[d]
        BY <3>2 DEF Forward, lossVars, SurfaceOK
      <4>2. \A d \in Dialects, f \in Fields : Behind(d, f)' = Behind(d, f)
        BY <4>1, NotCounting
      <4>3. Cells'
        BY <2>a, <2>h, <4>1, SameCells
      <4> QED  BY <2>a, <4>1, <4>2, <4>3, SameBehindCounted DEF LossInv, WorkersLoseNothing
    <3>3. CASE EngineAnswers(c) \/ EngineFails(c) \/ EngineCuts(c)
      <4>1. /\ UNCHANGED <<stored, held, count, lost, todo>>
            /\ st[c] \in Upstream /\ \E end, whole : Reply(c, end, whole)
        BY <3>3 DEF EngineAnswers, EngineFails, EngineCuts, lossVars
      <4>2. /\ st[c] # "counting" /\ st'[c] # "counting"
            /\ \A d \in Clients \ {c} : req'[d] = req[d] /\ st'[d] = st[d]
        BY <2>3, <4>1, ReplyKeepsTables DEF Upstream
      <4>3. \A d \in Dialects, f \in Fields : Behind(d, f)' = Behind(d, f)
        BY <4>1, <4>2, NotCounting
      <4>4. Cells'
        BY <2>a, <2>h, <4>1, <4>2, SameCells
      <4> QED  BY <2>a, <4>1, <4>3, <4>4, SameBehindCounted DEF LossInv, WorkersLoseNothing
    <3> QED  BY <2>3, <3>0, <3>1, <3>2, <3>3 DEF Handle
  <2>4. ASSUME NEW c \in Clients, NEW r, Arrive(c, r), Route(r) # "read"
        PROVE  LossInv'
    <3>1. UNCHANGED <<stored, held, count, lost, todo>> /\ st[c] = "idle"
      BY <2>4 DEF Arrive, Route
    <3>2. /\ st'[c] # "counting"
          /\ \A d \in Clients \ {c} : req'[d] = req[d] /\ st'[d] = st[d]
      <4>1. CASE Route(r) = "proxied"
        BY <2>4, <4>1 DEF Arrive, SurfaceOK
      <4>2. CASE Route(r) = "probed" \/ Route(r) = "refused"
        <5>1. \E end, whole : Reply(c, end, whole)
          BY <2>4, <4>2 DEF Arrive
        <5> QED  BY <5>1, ReplyKeepsTables
      <4> QED  BY <2>4, <4>1, <4>2 DEF Route
    <3>3. \A d \in Dialects, f \in Fields : Behind(d, f)' = Behind(d, f)
      BY <3>1, <3>2, NotCounting
    <3>4. Cells'
      BY <2>a, <2>h, <3>1, <3>2, SameCells
    <3> QED  BY <2>a, <3>1, <3>3, <3>4, SameBehindCounted DEF LossInv, WorkersLoseNothing
  <2>5. ASSUME NEW c \in Clients, NEW r, Arrive(c, r), Route(r) = "read",
               c \notin Workers \/ r = Question
        PROVE  LossInv'
    <3>1. todo' = [todo EXCEPT ![c] = IF Native(r) THEN {} ELSE r.loses]
      BY <2>5 DEF Arrive
    <3>2. Question.loses = {}
      BY DEF Question
    <3>3. WorkersLoseNothing'
      BY <2>a, <2>5, <3>1, <3>2 DEF WorkersLoseNothing, SurfaceOK
    <3>4. /\ UNCHANGED <<stored, held, count>> /\ st[c] = "idle"
          /\ \A d \in Clients \ {c} : req'[d] = req[d] /\ todo'[d] = todo[d] /\ st'[d] = st[d]
      BY <2>5 DEF Arrive, SurfaceOK
    <3>5. Cells'
      BY <2>a, <2>h, <3>4, SameCells
    <3> QED  BY <2>a, <2>5, <3>3, <3>5, ReadKeepsCounted DEF LossInv
  <2>6. ASSUME NEW w \in Workers, NEW s, Sampled(w, s),
               todo' = todo \/ todo' = [todo EXCEPT ![w] = {}]
        PROVE  LossInv'
    <3>1. w \in Clients /\ \A d \in Clients : todo'[d] = todo[d]
      BY <2>a, <2>b, <2>6 DEF WorkersLoseNothing, SurfaceOK
    <3>2. /\ UNCHANGED <<stored, held, count, lost>> /\ st'[w] = "idle"
          /\ \A d \in Clients \ {w} : req'[d] = req[d] /\ st'[d] = st[d]
      BY <2>6, <3>1 DEF Sampled, lossVars, SurfaceOK
    <3>3. \A d \in Dialects, f \in Fields : Behind(d, f)' = Behind(d, f)
      BY <2>a, <3>1, <3>2, NotCounting DEF WorkersLoseNothing
    <3>4. WorkersLoseNothing'
      BY <2>a, <2>b, <3>1 DEF WorkersLoseNothing
    <3>5. held[w] = {}
      BY <2>a, <2>h, <3>1 DEF WorkersLoseNothing
    <3>6. Cells'
      BY <2>a, <3>1, <3>2, <3>5, SameCells
    <3> QED  BY <2>a, <3>2, <3>3, <3>4, <3>6, SameBehindCounted DEF LossInv
  <2> QED
    BY <2>b, <2>1, <2>2, <2>3, <2>4, <2>5, <2>6, SurfaceSteps
<1>3. LossInv => LossesCounted
  BY DEF LossInv
<1> QED  BY <1>1, <1>2, <1>3, SurfaceInvariant, PTL DEF Spec
-----------------------------------------------------------------------------
(* Whole answers.                                                          *)

\* Without a policy the engine answers the workers through the proxy alone,
\* and what it passes on as a success was answered to the end.
WorkersProxied ==
    \A w \in Workers :
        /\ st[w] \in {"idle", "proxied", "over"}
        /\ answer[w].end = "ok" => answer[w].whole

WholeInv ==
    policy = "absent" /\ EngineDialect = "openai-chat" =>
        WorkersProxied /\ \A i \in Indexes : Good(i) => sample[i].whole

\* One worker's place in the tables changes at most.
LEMMA OneWorkerProxied ==
    ASSUME WorkersProxied, NEW c,
           \A d \in Clients \ {c} : st'[d] = st[d] /\ answer'[d] = answer[d],
           c \in Workers => /\ st'[c] \in {"idle", "proxied", "over"}
                            /\ answer'[c].end = "ok" => answer'[c].whole
    PROVE  WorkersProxied'
  BY WorkerAssumption DEF WorkersProxied

\* A request that counts as a success was answered to the end
\* (dialectSurface's path to the proxy, and the proxy's abort of a response
\* that breaks off, against oneRequest's idea of success).
THEOREM SuccessIsWholeTheorem == Spec => []SuccessIsWhole
<1>1. Init => WholeInv
  <2>1. NoSample.end # "ok" /\ NoAnswer.end # "ok"
    BY DEF NoSample, NoAnswer
  <2> QED
    BY <2>1, WorkerAssumption DEF Init, SurfaceInit, WholeInv, WorkersProxied, Good
<1>2. SurfaceOK /\ IInv /\ WholeInv /\ [Next]_vars => WholeInv'
  <2> SUFFICES ASSUME SurfaceOK, IInv, WholeInv, [Next]_vars,
                      policy' = "absent", EngineDialect = "openai-chat"
               PROVE  WorkersProxied' /\ \A i \in Indexes : Good(i)' => sample'[i].whole
    BY DEF WholeInv, Indexes
  <2>a. policy' = policy
    BY DEF Next, Hand, Ask, Score, Timeout, Sampled, Visit, Handle, Arrive, FindCounter, AddLoss,
           Forward, EngineAnswers, EngineFails, EngineCuts, Restart, Finish, vars, surfaceVars
  <2>b. WorkersProxied /\ \A i \in Indexes : Good(i) => sample[i].whole
    BY <2>a DEF WholeInv
  <2>c. \A w \in Workers : w \in Clients
    BY WorkerAssumption
  <2>1. ASSUME UNCHANGED <<st, answer, sample>>
        PROVE  WorkersProxied' /\ \A i \in Indexes : Good(i)' => sample'[i].whole
    BY <2>1, <2>b DEF WorkersProxied, Good
  <2>2. ASSUME NEW c \in Clients, NEW r, Arrive(c, r), c \in Workers => r = Question
        PROVE  WorkersProxied'
    <3>1. CASE Route(r) = "proxied"
      <4>1. st' = [st EXCEPT ![c] = "proxied"] /\ answer' = answer
        BY <2>2, <3>1 DEF Arrive
      <4>2. c \in Workers /\ answer[c].end = "ok" => answer[c].whole
        BY <2>b DEF WorkersProxied
      <4> QED  BY <2>b, <4>1, <4>2, OneWorkerProxied DEF SurfaceOK
    <3>2. CASE Route(r) # "proxied"
      <4>1. Route(Question) = "proxied"
        BY <2>a DEF Question, Route, Proxied, Surface, Native, Dialects
      <4>2. c \notin Workers
        BY <2>2, <3>2, <4>1
      <4>3. \A d \in Clients \ {c} : st'[d] = st[d] /\ answer'[d] = answer[d]
        <5>1. CASE Route(r) = "read"
          BY <2>2, <5>1 DEF Arrive, SurfaceOK
        <5>2. CASE Route(r) = "probed" \/ Route(r) = "refused"
          BY <2>2, <5>2 DEF Arrive, Reply, SurfaceOK
        <5> QED  BY <3>2, <5>1, <5>2 DEF Route
      <4> QED  BY <2>b, <4>2, <4>3, OneWorkerProxied
    <3> QED  BY <3>1, <3>2
  <2>3. ASSUME NEW c \in Clients, Handle(c)
        PROVE  WorkersProxied'
    <3>1. CASE FindCounter(c) \/ AddLoss(c)
      BY <2>b, <3>1 DEF FindCounter, AddLoss, WorkersProxied
    <3>2. CASE Forward(c)
      <4>1. c \notin Workers
        BY <2>b, <3>2 DEF Forward, WorkersProxied
      <4> QED  BY <2>b, <3>2, <4>1, OneWorkerProxied DEF Forward, SurfaceOK
    <3>3. ASSUME NEW end, NEW whole, Reply(c, end, whole), end = "ok" /\ c \in Workers => whole
          PROVE  WorkersProxied'
      <4>1. answer' = [answer EXCEPT ![c] = [end |-> end, head |-> Heads[life], whole |-> whole]]
            /\ st' = [st EXCEPT ![c] = "over"]
        BY <3>3 DEF Reply
      <4> QED  BY <2>b, <3>3, <4>1, OneWorkerProxied DEF SurfaceOK
    <3>4. CASE EngineCuts(c)
      <4>1. c \in Workers => st[c] = "proxied"
        BY <2>b, <3>4 DEF EngineCuts, WorkersProxied, Upstream
      <4>2. c \in Workers => CutEnd(c) = "aborted"
        BY <4>1 DEF CutEnd
      <4> QED  BY <3>3, <3>4, <4>2 DEF EngineCuts
    <3> QED  BY <2>3, <3>1, <3>2, <3>3, <3>4 DEF Handle, EngineAnswers, EngineFails
  <2>4. ASSUME NEW w \in Workers, NEW s, Sampled(w, s), s.end = "ok" => s.whole
        PROVE  WorkersProxied' /\ \A i \in Indexes : Good(i)' => sample'[i].whole
    <3>1. /\ sample' = [sample EXCEPT ![job[w]] = s]
          /\ st' = [st EXCEPT ![w] = "idle"]
          /\ answer' = [answer EXCEPT ![w] = NoAnswer]
      BY <2>4 DEF Sampled
    <3>2. NoAnswer.end # "ok"
      BY DEF NoAnswer
    <3>3. WorkersProxied'
      BY <2>b, <2>c, <3>1, <3>2, OneWorkerProxied DEF SurfaceOK
    <3>4. \A i \in Indexes : sample'[i] = sample[i] \/ sample'[i] = s
      BY <3>1 DEF IInv, JobsOK
    <3> QED  BY <2>4, <2>b, <3>3, <3>4 DEF Good
  <2>5. ASSUME NEW w \in Workers, Score(w)
        PROVE  WorkersProxied' /\ \A i \in Indexes : Good(i)' => sample'[i].whole
    <3>1. Failed.end # "ok"
      BY DEF Failed
    <3>2. answer[w].end = "ok" => answer[w].whole
      BY <2>b DEF WorkersProxied
    <3> QED  BY <2>4, <2>5, <3>1, <3>2 DEF Score
  <2>6. ASSUME NEW w \in Workers, Timeout(w)
        PROVE  WorkersProxied' /\ \A i \in Indexes : Good(i)' => sample'[i].whole
    <3>1. Failed.end # "ok"
      BY DEF Failed
    <3> QED  BY <2>4, <2>6, <3>1 DEF Timeout
  <2>7. ASSUME UNCHANGED benchVars
        PROVE  \A i \in Indexes : Good(i)' => sample'[i].whole
    BY <2>7, <2>b DEF benchVars, Good
  <2>8. CASE Finish \/ UNCHANGED vars \/ \E w \in Workers : Hand(w)
    BY <2>1, <2>8 DEF Finish, Hand, vars, benchVars, surfaceVars
  <2>9. ASSUME NEW w \in Workers, Ask(w)
         PROVE  WorkersProxied' /\ \A i \in Indexes : Good(i)' => sample'[i].whole
    BY <2>9, <2>2, <2>7, <2>c DEF Ask
  <2>10. ASSUME NEW c \in Clients, Visit(c)
         PROVE  WorkersProxied' /\ \A i \in Indexes : Good(i)' => sample'[i].whole
    BY <2>10, <2>2, <2>7 DEF Visit
  <2>11. CASE Restart /\ UNCHANGED benchVars
    <3>1. WorkersProxied'
      BY <2>11, <2>b, <2>c DEF Restart, WorkersProxied
    <3> QED  BY <2>7, <2>11, <3>1
  <2> QED
    BY <2>3, <2>5, <2>6, <2>7, <2>8, <2>9, <2>10, <2>11 DEF Next
<1>3. WholeInv => SuccessIsWhole
  BY DEF WholeInv, SuccessIsWhole
<1> QED  BY <1>1, <1>2, <1>3, SurfaceInvariant, JobsInvariant, PTL DEF Spec
-----------------------------------------------------------------------------
(* One head.  The fold is defined by recursion over the samples, and what it *)
(* yields is shown by induction: a set of naturals has a least element.      *)

LEMMA LeastNatural ==
    ASSUME NEW T, T \subseteq Nat, T # {}
    PROVE  \E x \in T : \A y \in T : x <= y
<1> DEFINE R == OpToRel(<, Nat)
<1>1. IsWellFoundedOn(R, Nat)
  BY NatLessThanWellFounded
<1>2. \A x, y \in Nat : x < y => <<x, y>> \in R
  BY DEF OpToRel
<1> HIDE DEF R
<1>3. PICK x \in T : \A y \in T : ~(<<y, x>> \in R)
  BY <1>1, WFMin
<1>4. \A y \in T : x \in Nat /\ y \in Nat /\ ~(y < x)
  BY <1>2, <1>3
<1>5. \A y \in T : x <= y
  BY <1>4, SMT
<1> QED  BY <1>5

\* Induction up to n, for a property given as the set of numbers that have it.
LEMMA UpTo ==
    ASSUME NEW n \in Nat, NEW Q, 0 \in Q, \A m \in 1..n : m - 1 \in Q => m \in Q
    PROVE  0..n \subseteq Q
<1> DEFINE T == (0..n) \ Q
<1>1. SUFFICES ASSUME T # {} PROVE FALSE
  OBVIOUS
<1>2. T \subseteq Nat
  OBVIOUS
<1> HIDE DEF T
<1>3. PICK m \in T : \A k \in T : m <= k
  BY <1>1, <1>2, LeastNatural
<1>4. m \in 1..n /\ m - 1 \in 0..n
  BY DEF T
<1>5. m - 1 \notin T
  BY <1>2, <1>3, <1>4
<1> QED  BY <1>4, <1>5 DEF T

\* The fold, sample by sample: the function that the recursion defines exists,
\* step by step, and so Aggregate is one.
LEMMA AggregateSteps ==
    /\ Aggregate[0] = [NoReport EXCEPT !.end = "published"]
    /\ \A n \in 1..Requests : Aggregate[n] = Merge(Aggregate[n - 1], sample[n])
<1> DEFINE start == [NoReport EXCEPT !.end = "published"]
           step(n, agg) == Merge(agg, sample[n])
           Goes(g, k) == g = [n \in 0..k |-> IF n = 0 THEN start ELSE step(n, g[n - 1])]
           Q == {k \in Nat : \E g : Goes(g, k)}
<1>1. Aggregate = CHOOSE g : Goes(g, Requests)
  BY DEF Aggregate
<1>2. Requests \in Nat
  BY RequestAssumption
<1> HIDE DEF start, step
<1>3. 0 \in Q
  <2> DEFINE g == [m \in 0..0 |-> start]
  <2>1. Goes(g, 0)
    OBVIOUS
  <2> QED  BY <2>1
<1>4. ASSUME NEW k \in 1..Requests, k - 1 \in Q PROVE k \in Q
  <2>1. PICK g : g = [m \in 0..(k - 1) |-> IF m = 0 THEN start ELSE step(m, g[m - 1])]
    BY <1>4
  <2> DEFINE h == [m \in 0..k |-> IF m = k THEN step(k, g[k - 1]) ELSE g[m]]
  <2>2. \A m \in 0..k : h[m] = IF m = 0 THEN start ELSE step(m, h[m - 1])
    <3> SUFFICES ASSUME NEW m \in 0..k
                 PROVE  h[m] = IF m = 0 THEN start ELSE step(m, h[m - 1])
      OBVIOUS
    <3>1. CASE m = k
      <4>1. k - 1 \in 0..k /\ k - 1 # k /\ k # 0
        OBVIOUS
      <4>2. h[k - 1] = g[k - 1]
        BY <4>1
      <4>3. h[k] = step(k, g[k - 1])
        OBVIOUS
      <4> HIDE DEF h
      <4> QED  BY <3>1, <4>1, <4>2, <4>3
    <3>2. CASE m # k
      <4>1. m \in 0..(k - 1)
        BY <3>2
      <4>2. h[m] = g[m]
        BY <3>2
      <4>3. g[m] = IF m = 0 THEN start ELSE step(m, g[m - 1])
        BY <2>1, <4>1
      <4>4. m # 0 => h[m - 1] = g[m - 1]
        <5>1. m # 0 => m - 1 \in 0..k /\ m - 1 # k
          BY <4>1
        <5> QED  BY <5>1
      <4> HIDE DEF h
      <4> QED  BY <4>2, <4>3, <4>4
    <3> QED  BY <3>1, <3>2
  <2>3. h = [m \in 0..k |-> h[m]]
    OBVIOUS
  <2>4. Goes(h, k)
    <3> HIDE DEF h
    <3> QED  BY <2>2, <2>3
  <2>5. k \in Nat
    OBVIOUS
  <2> QED  BY <2>4, <2>5
<1>5. 0..Requests \subseteq Q
  <2> HIDE DEF Q
  <2> QED  BY <1>2, <1>3, <1>4, UpTo
<1>6. \E g : Goes(g, Requests)
  BY <1>2, <1>5
<1>7. Goes(Aggregate, Requests)
  <2> HIDE DEF Goes
  <2> QED  BY <1>1, <1>6
<1>8. Aggregate[0] = start
  BY <1>2, <1>7
<1>9. \A n \in 1..Requests : Aggregate[n] = step(n, Aggregate[n - 1])
  <2> SUFFICES ASSUME NEW n \in 1..Requests PROVE Aggregate[n] = step(n, Aggregate[n - 1])
    OBVIOUS
  <2>1. n \in 0..Requests /\ n # 0
    BY <1>2
  <2> QED  BY <1>7, <2>1
<1> QED  BY <1>8, <1>9 DEF start, step

\* The shape of an aggregate.
IsFold(agg) ==
    \E end, errors, counted, head :
        agg = [end |-> end, errors |-> errors, counted |-> counted, head |-> head]

\* The heads of the first n samples that count are the aggregate's, or none.
HeadsNamed(n) ==
    Aggregate[n].end = "published" =>
        \A i \in 1..n : Good(i) => sample[i].head \in {"", Aggregate[n].head}

LEMMA MergeOneHead ==
    ASSUME NEW n, NEW agg, IsFold(agg)
    PROVE  /\ IsFold(Merge(agg, sample[n]))
           /\ Merge(agg, sample[n]).end = "published" =>
                 /\ agg.end = "published"
                 /\ agg.head \in {"", Merge(agg, sample[n]).head}
                 /\ Good(n) => sample[n].head \in {"", Merge(agg, sample[n]).head}
<1> DEFINE s == sample[n]
           merged == Merge(agg, s)
<1> HIDE DEF s, merged
<1>1. PICK e, r, k, h : agg = [end |-> e, errors |-> r, counted |-> k, head |-> h]
  BY DEF IsFold
<1>2. SUFFICES /\ IsFold(merged)
               /\ merged.end = "published" =>
                     /\ e = "published"
                     /\ h \in {"", merged.head}
                     /\ s.end = "ok" => s.head \in {"", merged.head}
  BY <1>1 DEF Good, s, merged
<1>3. CASE e = "mixed"
  <2>1. merged = agg
    BY <1>1, <1>3 DEF Merge, merged
  <2> QED  BY <1>1, <1>3, <2>1 DEF IsFold
<1>4. CASE e # "mixed" /\ s.end # "ok"
  <2>1. merged = [end |-> e, errors |-> r + 1, counted |-> k, head |-> h]
    BY <1>1, <1>4 DEF Merge, merged
  <2> QED  BY <1>4, <2>1 DEF IsFold
<1>5. CASE e # "mixed" /\ s.end = "ok" /\ h = ""
  <2>1. merged = [end |-> e, errors |-> r, counted |-> k + 1, head |-> s.head]
    BY <1>1, <1>5 DEF Merge, merged
  <2> QED  BY <1>5, <2>1 DEF IsFold
<1>6. CASE e # "mixed" /\ s.end = "ok" /\ h # ""
  <2>1. merged = [end |-> IF s.head \in {"", h} THEN e ELSE "mixed",
                    errors |-> r, counted |-> k + 1, head |-> h]
    BY <1>1, <1>6 DEF Merge, merged
  <2> QED  BY <1>6, <2>1 DEF IsFold
<1> QED  BY <1>3, <1>4, <1>5, <1>6

\* A published aggregate speaks of one head, however many samples there are.
LEMMA AggregateHeads == HeadsNamed(Requests)
<1> DEFINE Q == {n \in 0..Requests : IsFold(Aggregate[n]) /\ HeadsNamed(n)}
<1>1. 0 \in Q
  <2>1. Aggregate[0] = [end |-> "published", errors |-> 0, counted |-> 0, head |-> ""]
    BY AggregateSteps DEF NoReport
  <2>2. IsFold(Aggregate[0])
    BY <2>1 DEF IsFold
  <2>3. 0 \in 0..Requests /\ 1..0 = {}
    BY RequestAssumption
  <2> QED  BY <2>2, <2>3 DEF HeadsNamed
<1>2. ASSUME NEW n \in 1..Requests, n - 1 \in Q PROVE n \in Q
  <2>1. IsFold(Aggregate[n - 1]) /\ HeadsNamed(n - 1)
    BY <1>2
  <2>2. Aggregate[n] = Merge(Aggregate[n - 1], sample[n])
    BY AggregateSteps
  <2>3. /\ IsFold(Aggregate[n])
        /\ Aggregate[n].end = "published" =>
              /\ Aggregate[n - 1].end = "published"
              /\ Aggregate[n - 1].head \in {"", Aggregate[n].head}
              /\ Good(n) => sample[n].head \in {"", Aggregate[n].head}
    <3> DEFINE before == Aggregate[n - 1]
    <3>1. IsFold(before)
      BY <2>1
    <3> HIDE DEF before
    <3>2. /\ IsFold(Merge(before, sample[n]))
          /\ Merge(before, sample[n]).end = "published" =>
                /\ before.end = "published"
                /\ before.head \in {"", Merge(before, sample[n]).head}
                /\ Good(n) => sample[n].head \in {"", Merge(before, sample[n]).head}
      BY <3>1, MergeOneHead
    <3>3. Aggregate[n] = Merge(before, sample[n])
      BY <2>2 DEF before
    <3> QED  BY <3>2, <3>3 DEF before
  <2>4. ASSUME Aggregate[n].end = "published", NEW i \in 1..n, Good(i)
        PROVE  sample[i].head \in {"", Aggregate[n].head}
    <3>1. /\ Aggregate[n - 1].end = "published"
          /\ Aggregate[n - 1].head \in {"", Aggregate[n].head}
          /\ Good(n) => sample[n].head \in {"", Aggregate[n].head}
      BY <2>3, <2>4
    <3>2. i = n \/ i \in 1..(n - 1)
      OBVIOUS
    <3> QED  BY <2>1, <2>4, <3>1, <3>2 DEF HeadsNamed
  <2>5. n \in 0..Requests
    BY RequestAssumption
  <2> QED  BY <2>3, <2>4, <2>5 DEF HeadsNamed
<1> HIDE DEF Q
<1>3. 0..Requests \subseteq Q
  BY <1>1, <1>2, UpTo, RequestAssumption
<1>4. Requests \in 0..Requests
  BY RequestAssumption
<1> QED  BY <1>3, <1>4 DEF Q

\* A report is of one draft head, whatever processes answered the requests
\* (Run's fold and its mixed-heads error): it is folded when the last sample
\* is written, and no sample changes after that.
THEOREM AggregateOneHeadTheorem == Spec => []AggregateOneHead
<1>1. Init => AggregateOneHead
  <2>1. NoReport.end # "published"
    BY DEF NoReport
  <2> QED  BY <2>1 DEF Init, AggregateOneHead
<1>2. IInv /\ AggregateOneHead /\ [Next]_vars => AggregateOneHead'
  <2> SUFFICES ASSUME IInv, AggregateOneHead, [Next]_vars PROVE AggregateOneHead'
    OBVIOUS
  <2>1. CASE Finish
    <3>1. report' = Aggregate[Requests] /\ sample' = sample
      BY <2>1 DEF Finish
    <3> QED  BY <3>1, AggregateHeads DEF AggregateOneHead, HeadsNamed, Indexes, Good
  <2>2. CASE report' = report /\ sample' = sample
    BY <2>2 DEF AggregateOneHead, Good
  <2>3. ASSUME NEW w \in Workers, Score(w) \/ Timeout(w) PROVE AggregateOneHead'
    <3>1. w \in Held /\ report' = report
      BY <2>3 DEF Score, Timeout, Sampled, Held
    <3>2. job[w] \in Indexes /\ job[w] \notin Done
      BY <3>1, RequestAssumption DEF IInv, JobsOK, EveryRequestOnce, Indexes
    <3>3. report = NoReport
      BY <3>2 DEF IInv, EveryRequestOnce
    <3> QED  BY <3>1, <3>3 DEF AggregateOneHead, NoReport
  <2> QED
    BY <2>1, <2>2, <2>3 DEF Next, Hand, Ask, Visit, vars, benchVars
<1> QED  BY <1>1, <1>2, JobsInvariant, PTL DEF Spec
=============================================================================
