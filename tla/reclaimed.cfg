\* Two replicas, one Session: the cluster lock lapses under its holder, a window
\* under its calls; a sandbox whose Session ended is deleted.
SPECIFICATION LifeFairSpec
CONSTANTS
    c1 = c1  c2 = c2
    r1 = r1  r2 = r2
    k1 = k1
    g1 = g1
    Calls = {c1, c2}
    Replicas = {r1, r2}
    Keys = {k1}
    Sandboxes = {s1, s2}
    Groups = {g1}
    ReplicaOf <- MCReplicaOf
    KeyOf <- MCKeyOf
    GroupOf <- MCGroupOf
    DistributedLock = TRUE
    Faults = {"lateExpiry", "dlockTTL"}
    NoCall = NoCall
    NoKey = NoKey
    NoSandbox = NoSandbox
    NoReplica = NoReplica
INVARIANTS
    OneLeader
PROPERTIES
    OrphansReclaimed
    IndexKeptUntilDelete
