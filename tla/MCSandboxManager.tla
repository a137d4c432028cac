-------------------------- MODULE MCSandboxManager --------------------------
(***************************************************************************)
(* Instances of SandboxManager and its refinement of StickySession for TLC.*)
(***************************************************************************)
EXTENDS StickyRefinement, TLC

CONSTANTS c1, c2, c3, r1, r2, k1

\* Where the ingress sends the calls: two to the same replica, one elsewhere.
MCReplicaOf == [c \in Calls |-> IF c = c2 THEN r2 ELSE r1]
\* A single replica, the deployed default.
MCOneReplicaOf == [c \in Calls |-> r1]
\* One Session.
MCKeyOf == [c \in Calls |-> k1]

\* Sandbox ids are interchangeable, and so are the calls that one replica
\* serves (used in runs without liveness only).
SameRole(q) == \A c \in Calls : ReplicaOf[q[c]] = ReplicaOf[c]
CallSymmetry == {p @@ q : p \in Permutations(Sandboxes),
                          q \in {f \in Permutations(Calls) : SameRole(f)}}
=============================================================================
