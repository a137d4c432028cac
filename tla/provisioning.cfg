\* One replica without a cluster lock, the deployed default: two Sessions of a
\* group need the same image and volume.
SPECIFICATION ProvisioningSpec
CONSTANTS
    c1 = c1  c2 = c2  c3 = c3
    r1 = r1  r2 = r2
    k1 = k1  k2 = k2
    g1 = g1
    Calls = {c1, c2, c3}
    Replicas = {r1}
    Keys = {k1, k2}
    Sandboxes = {s1, s2, s3}
    Groups = {g1}
    Images = {i1, i2}
    ReplicaOf <- MCReplicaOf
    KeyOf <- MCKeyOf
    GroupOf <- MCGroupOf
    ImageOf <- MCImageOf
    DistributedLock = FALSE
    FromImage = TRUE
    BlobEnabled = TRUE
    Faults = {"arm", "vanish", "expiry", "timeout"}
    NoCall = NoCall
    NoKey = NoKey
    NoSandbox = NoSandbox
    NoImage = NoImage
SYMMETRY IdSymmetry
INVARIANTS
    ProvisioningTypeOK
    Isolation
    Reclaimable
    OneSandboxPerSession
    ReturnsBootstrapped
    CreatesOnReadyGround
    BuildsOnce
    GroupLocksLeft
PROPERTIES
    Spec
