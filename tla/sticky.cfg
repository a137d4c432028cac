\* Two replicas and one Session; the cluster lock is neither lost nor waived.
SPECIFICATION Spec
CONSTANTS
    c1 = c1  c2 = c2  c3 = c3
    r1 = r1  r2 = r2
    k1 = k1
    Calls = {c1, c2, c3}
    Replicas = {r1, r2}
    Keys = {k1}
    Sandboxes = {s1, s2, s3}
    ReplicaOf <- MCReplicaOf
    KeyOf <- MCKeyOf
    DistributedLock = TRUE
    Faults = {"arm", "vanish", "expiry", "timeout", "cancel", "crash"}
    NoCall = NoCall
    NoKey = NoKey
    NoSandbox = NoSandbox
SYMMETRY CallSymmetry
INVARIANTS
    TypeOK
    LocalMutex
    ClusterMutex
    LocksLeft
    OneSandboxPerSession
PROPERTIES
    NeverRebind
    KeepsPromise
