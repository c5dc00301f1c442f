CONSTANTS
    w1 = w1
    w2 = w2
    x = x
    y = y
    Clients = {w1, w2, x, y}
    Workers = {w1, w2}
    EngineDialect = "anthropic-messages"
    Policies = {"absent", "default", "prepend", "override"}
    Visits <- SomeVisits
    Fields = {"thinking", "top_k"}
    Heads <- TwoHeads
    MaxCuts = 1
    Requests = 2
    None = None
SPECIFICATION Spec
INVARIANTS PromptEnforced
CHECK_DEADLOCK FALSE
