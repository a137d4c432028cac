\* A create that outlives create_timeout.
SPECIFICATION FallbackSpec
CONSTANTS
    c1 = c1  c2 = c2
    r1 = r1  r2 = r2
    k1 = k1
    g1 = g1
    Calls = {c1, c2}
    Replicas = {r1}
    Keys = {k1}
    Sandboxes = {s1, s2}
    Groups = {g1}
    ReplicaOf <- MCOneReplicaOf
    KeyOf <- MCKeyOf
    GroupOf <- MCGroupOf
    DistributedLock = TRUE
    Faults = {"timeout"}
    NoCall = NoCall
    NoKey = NoKey
    NoSandbox = NoSandbox
    NoReplica = NoReplica
PROPERTIES
    OrphansReclaimed
