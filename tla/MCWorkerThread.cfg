\* Two callers race for the object and pthread_cond_wait may wake up by itself.
CONSTANTS
    Callers = {c1, c2}
    Workers = {w1, w2, w3}
    None = None
    SpuriousWakeups = TRUE
SPECIFICATION FairSpec
INVARIANTS
    TypeOK
    TargetsExclude
    RunningIsOwned
    NoLostWakeup
PROPERTIES
    CallsReturn
