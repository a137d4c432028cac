\* One replica; a client cancels its call.
SPECIFICATION Spec
CONSTANTS
    c1 = c1  c2 = c2  c3 = c3
    r1 = r1  r2 = r2
    k1 = k1
    Calls = {c1, c2}
    Replicas = {r1}
    Keys = {k1}
    Sandboxes = {s1, s2}
    ReplicaOf <- MCOneReplicaOf
    KeyOf <- MCKeyOf
    DistributedLock = FALSE
    Faults = {"cancel"}
    NoCall = NoCall
    NoKey = NoKey
    NoSandbox = NoSandbox
INVARIANTS
    ReturnsBootstrapped
