SPECIFICATION FairSpec
CONSTANTS
    Invokes = {i1, i2}
    Streams = {s1}
    Threshold = 2
    Window = 1
    Reset = 2
    MaxRetries = 3
INVARIANTS
    StateMatchesRecord
    AtMostOneRequestWhileOpen
PROPERTIES
    KeepsPromise
    InvokesEnd
    OpenIsTemporary
