------------------------- MODULE MCSandboxLifecycle -------------------------
(***************************************************************************)
(* Instances of SandboxLifecycle for TLC: one Session, a call on each of   *)
(* two replicas or both on one.                                            *)
(***************************************************************************)
EXTENDS SandboxLifecycle, TLC

CONSTANTS c1, c2, r1, r2, k1, g1

MCReplicaOf == [c \in Calls |-> IF c = c2 THEN r2 ELSE r1]
MCOneReplicaOf == [c \in Calls |-> r1]
MCKeyOf == [c \in Calls |-> k1]
MCGroupOf == [k \in Keys |-> g1]

\* Sandbox ids are interchangeable, and so are the replicas with their calls.
SameRole(q, r) == \A c \in Calls : ReplicaOf[q[c]] = r[ReplicaOf[c]]
TwinSymmetry ==
    {p @@ q[1] @@ q[2] : p \in Permutations(Sandboxes),
                         q \in {f \in Permutations(Calls) \X Permutations(Replicas) :
                                  SameRole(f[1], f[2])}}
=============================================================================
