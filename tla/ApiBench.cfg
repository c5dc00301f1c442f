CONSTANTS
    w1 = w1
    w2 = w2
    x = x
    y = y
    Clients = {w1, w2, x, y}
    Workers = {w1, w2}
    EngineDialect = "openai-chat"
    Policies = {"absent", "default", "prepend", "override"}
    Visits <- SomeVisits
    Fields = {"thinking"}
    Heads <- TwoHeads
    MaxCuts = 1
    Requests = 2
    None = None
SPECIFICATION FairSpec
INVARIANTS PromptEnforced LossesCounted EveryRequestOnce AggregateOneHead SuccessIsWhole
PROPERTIES RunEnds
CHECK_DEADLOCK FALSE
