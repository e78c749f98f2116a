SPECIFICATION Spec
CONSTANTS
    r1 = r1
    r2 = r2
    r3 = r3
    w1 = w1
    w2 = w2
    Workers = {w1, w2}
    Requests = {r1, r2}
    Home <- MCHome
    Wants <- MCWants
    Asks <- MCAsks
    TypeOf <- MCTypeOf
    SemanticTypes = {"mentoring", "domain_classification"}
    LlmTtl <- MCLlmTtl
    Near <- MCNear
    MaxTime = 1
    FreeTasks = {"learning_path"}
    HostedTasks = {"company_summary"}
    Ttl = 1
    MaxAway = 1
INVARIANT FallbackOnlyWhenUnreachable
CHECK_DEADLOCK FALSE
