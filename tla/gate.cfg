\* Cached decisions against a membership that changes at any moment.
SPECIFICATION Spec
CONSTANTS
    c1 = c1  c2 = c2  c3 = c3
    r1 = r1
    u1 = u1
    g1 = g1
    Checks = {c1, c2, c3}
    Replicas = {r1}
    Users = {u1}
    Groups = {g1}
    ReplicaOf <- MCReplicaOf
    UserOf <- MCUserOf
    GroupOf <- MCGroupOf
    HasOid = {u1}
    TTL = 3
    MaxLag = 1
    MaxTime = 6
    NoCheck = NoCheck
SYMMETRY CheckSymmetry
INVARIANTS
    TypeOK
PROPERTIES
    AllowIsFresh
    DenyIsFresh
