------------------------------ MODULE BenchRun -----------------------------
(***************************************************************************)
(* `fornax bench` against a serving process: Run and oneRequest of         *)
(* internal/bench.  The main goroutine hands the indexes of the requests   *)
(* to workers through an unbuffered channel, the workers write the samples *)
(* they own, and after the last one the samples are folded in order.       *)
(*                                                                         *)
(* The workers are clients of ChatSurface; other clients send requests of  *)
(* their own meanwhile.                                                    *)
(***************************************************************************)
EXTENDS ChatSurface

CONSTANTS
    Workers,    \* the worker goroutines, cfg.Concurrency of them
    Requests,   \* cfg.Requests
    None        \* no index

ASSUME WorkerAssumption  == Workers \subseteq Clients /\ Workers # {} /\ IsFiniteSet(Workers)
ASSUME RequestAssumption == Requests \in Nat \ {0} /\ None \notin Nat

VARIABLES
    next,    \* the next index to hand out
    job,     \* job[w]: the index worker w works on, or None
    sample,  \* sample[i]: what became of request i
    report   \* the aggregate, once there is one

benchVars == <<next, job, sample, report>>
vars      == <<surfaceVars, benchVars>>

Indexes   == 1..Requests
NoSample  == [end |-> "none", head |-> "", whole |-> FALSE]
Failed    == [end |-> "error", head |-> "", whole |-> FALSE]
NoReport  == [end |-> "none", errors |-> 0, counted |-> 0, head |-> ""]

\* The one request a benchmark sends.
Question == [to |-> "openai-chat", post |-> TRUE, prompt |-> FALSE, loses |-> {},
             stream |-> TRUE, wellFormed |-> TRUE]

Init ==
    /\ SurfaceInit
    /\ next = 1
    /\ job = [w \in Workers |-> None]
    /\ sample = [i \in Indexes |-> NoSample]
    /\ report = NoReport

\* jobs <- i: a worker that waits takes the next index.
\* BUG: the main goroutine may send an index again.
HandKeepsIndex(w) ==
    /\ job[w] = None /\ next <= Requests
    /\ job' = [job EXCEPT ![w] = next]
    /\ next' \in {next, next + 1}
    /\ UNCHANGED <<surfaceVars, sample, report>>

Hand(w) ==
    /\ job[w] = None /\ next <= Requests
    /\ job' = [job EXCEPT ![w] = next]
    /\ next' = next + 1
    /\ UNCHANGED <<surfaceVars, sample, report>>

\* oneRequest's call reaches the serving process.
Ask(w) ==
    /\ job[w] # None
    /\ Arrive(w, Question)
    /\ UNCHANGED benchVars

\* The sample is written and the worker waits for another index.
Sampled(w, s) ==
    /\ sample' = [sample EXCEPT ![job[w]] = s]
    /\ job' = [job EXCEPT ![w] = None]
    /\ st' = [st EXCEPT ![w] = "idle"]
    /\ req' = [req EXCEPT ![w] = NoRequest]
    /\ seen' = [seen EXCEPT ![w] = <<>>]
    /\ answer' = [answer EXCEPT ![w] = NoAnswer]
    /\ UNCHANGED <<policy, life, cuts, lossVars, next, report>>

\* The answer is over: a stream that ended is a success whether or not its
\* last event was [DONE], if it had any event; one that broke is an error, and
\* so is any status but 200.
Score(w) ==
    /\ job[w] # None /\ st[w] = "over"
    /\ \/ answer[w].end = "ok" /\ Sampled(w, answer[w])
       \/ ~(answer[w].end = "ok" /\ answer[w].whole) /\ Sampled(w, Failed)
    /\ UNCHANGED todo

\* BUG: only making the connection is timed.
TimeoutDial(w) ==
    /\ job[w] # None /\ st[w] = "idle"
    /\ Sampled(w, Failed)
    /\ todo' = [todo EXCEPT ![w] = {}]

\* The client's timeout, wherever the request is; also a connection that
\* cannot be made.  The handler's context is cancelled with it.
Timeout(w) ==
    /\ job[w] # None /\ st[w] # "over"
    /\ Sampled(w, Failed)
    /\ todo' = [todo EXCEPT ![w] = {}]

Good(i) == sample[i].end = "ok"

\* One step of the fold: an error counts, a success adds up, and the first
\* head that one names is the head of the run; another ends it unreported.
\* BUG: the last head that is named is the one reported.
MergeLast(agg, s) ==
    IF s.end # "ok" THEN [agg EXCEPT !.errors = @ + 1]
    ELSE [agg EXCEPT !.counted = @ + 1, !.head = IF s.head = "" THEN @ ELSE s.head]

Merge(agg, s) ==
    CASE agg.end = "mixed" -> agg
      [] agg.end # "mixed" /\ s.end # "ok" -> [agg EXCEPT !.errors = @ + 1]
      [] agg.end # "mixed" /\ s.end = "ok" /\ agg.head = "" ->
             [agg EXCEPT !.counted = @ + 1, !.head = s.head]
      [] OTHER -> [agg EXCEPT !.counted = @ + 1,
                              !.end = IF s.head \in {"", agg.head} THEN @ ELSE "mixed"]

\* The fold over the first n samples, in the order of their indexes.
Aggregate[n \in 0..Requests] ==
    IF n = 0 THEN [NoReport EXCEPT !.end = "published"] ELSE Merge(Aggregate[n - 1], sample[n])

\* close(jobs), wg.Wait and the fold.
Finish ==
    /\ report = NoReport
    /\ next > Requests /\ \A w \in Workers : job[w] = None
    /\ report' = Aggregate[Requests]
    /\ UNCHANGED <<surfaceVars, next, job, sample>>

\* nearest-rank, counted from 1: the 0 that n = 0 would give is never asked for.
Rank(n, p) == (p * n + 99) \div 100

\* Other clients: one request each.
Visit(c) == c \notin Workers /\ (\E r \in Visits : Arrive(c, r)) /\ UNCHANGED benchVars

Next ==
    \/ \E w \in Workers : Hand(w) \/ Ask(w) \/ Score(w) \/ Timeout(w)
    \/ \E c \in Clients : Visit(c) \/ (Handle(c) /\ UNCHANGED benchVars)
    \/ Restart /\ UNCHANGED benchVars
    \/ Finish

Spec == Init /\ [][Next]_vars

\* Goroutines run, and a call ends at the latest when its client's timeout
\* fires.  Nothing is assumed of the serving process or of its engine.
FairSpec ==
    /\ Spec
    /\ WF_vars(Finish)
    /\ \A w \in Workers : WF_vars(Hand(w)) /\ WF_vars(Score(w)) /\ WF_vars(Timeout(w))

-----------------------------------------------------------------------------
(* Properties.                                                             *)

\* Between the indexes handed out, those in work and those sampled nothing is
\* lost and nothing is done twice, and the report is folded from a sample of
\* every request, as `samples[i] = ...` and wg.Wait promise.
Held == {w \in Workers : job[w] # None}
Done == {i \in Indexes : sample[i] # NoSample}

EveryRequestOnce ==
    /\ \A w \in Held : job[w] \in 1..(next - 1) /\ job[w] \notin Done
    /\ \A v, w \in Held : job[v] = job[w] => v = w
    /\ Cardinality(Held) + Cardinality(Done) = next - 1
    /\ report # NoReport => Done = Indexes

\* A report speaks of one draft head: no two requests it counts were answered
\* by processes that named different ones, and it names theirs.
AggregateOneHead ==
    report.end = "published" =>
        \A i \in Indexes : Good(i) => sample[i].head \in {"", report.head}

\* Without a system prompt policy the benchmark's requests are proxied, and a
\* request that counts as a success was answered to the end: the proxy breaks
\* the connection of an answer that breaks off.
SuccessIsWhole ==
    policy = "absent" /\ EngineDialect = "openai-chat" =>
        \A i \in Indexes : Good(i) => sample[i].whole

\* The run ends, with a report or with the news of a second head.
RunEnds == <>(report # NoReport)
=============================================================================
