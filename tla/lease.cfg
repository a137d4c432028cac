\* Two replicas that may reap at once, their passes outlasting the lease, beside calls
\* that are cancelled or die with their replica, over windows that lapse.
SPECIFICATION LifeSpec
CONSTANTS
    c1 = c1  c2 = c2
    r1 = r1  r2 = r2
    k1 = k1
    g1 = g1
    Calls = {c1, c2}
    Replicas = {r1, r2}
    Keys = {k1}
    Sandboxes = {s1, s2}
    Groups = {g1}
    ReplicaOf <- MCReplicaOf
    KeyOf <- MCKeyOf
    GroupOf <- MCGroupOf
    DistributedLock = TRUE
    Faults = {"leaseTTL", "expiry", "cancel", "crash"}
    NoCall = NoCall
    NoKey = NoKey
    NoSandbox = NoSandbox
    NoReplica = NoReplica
SYMMETRY TwinSymmetry
INVARIANTS
    LifeTypeOK
    OneLeaderUntilLapse
PROPERTIES
    SparesLiveSessions
