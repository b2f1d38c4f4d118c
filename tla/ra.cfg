\* Two runs, which may overlap, and a server that mixes keys, quotes and contexts.
CONSTANTS
    good = good
    older = older
    other = other
    Run = {r1, r2}
    Context = {c1, c2}
    Enclave = {good, older, other}
    Identity <- MCIdentity
    Required <- MCRequired
    SkipMrenclave = TRUE
    HostKey = HostKey
    Forged = Forged
    None = None
SPECIFICATION FairSpec
CHECK_DEADLOCK FALSE
INVARIANTS
    TypeOK
    SecretsReachTheEnclave
    ResultComesFirst
PROPERTY
    ContextsAreDestroyed
