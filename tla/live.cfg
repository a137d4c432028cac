\* Two Sessions of a group on one replica, one of them on another, too: dead
\* holders of every lock, cancelled calls, creates and builds ARM never finishes.
SPECIFICATION ProvisioningFairSpec
CONSTANTS
    c1 = c1  c2 = c2  c3 = c3
    r1 = r1  r2 = r2
    k1 = k1  k2 = k2
    g1 = g1
    Calls = {c1, c2, c3}
    Replicas = {r1, r2}
    Keys = {k1, k2}
    Sandboxes = {s1}
    Groups = {g1}
    Images = {i1}
    ReplicaOf <- MCTwoReplicas
    KeyOf <- MCKeyOf
    GroupOf <- MCGroupOf
    ImageOf <- MCImageOf
    DistributedLock = TRUE
    FromImage = TRUE
    BlobEnabled = TRUE
    Faults = {"timeout", "cancel", "crash"}
    NoCall = NoCall
    NoKey = NoKey
    NoSandbox = NoSandbox
    NoImage = NoImage
PROPERTIES
    EveryCallEnds
