--------------------------- MODULE MCProvisioning ---------------------------
(***************************************************************************)
(* Instances of Provisioning for TLC: two Sessions of one sandbox group,   *)
(* one of them with two calls.                                             *)
(***************************************************************************)
EXTENDS Provisioning, TLC

CONSTANTS c1, c2, c3, r1, r2, k1, k2, g1

\* The Session with two calls is served by two replicas, or all by one.
MCTwoReplicas == [c \in Calls |-> IF c = c3 THEN r2 ELSE r1]
MCReplicaOf == [c \in Calls |-> r1]
MCKeyOf == [c \in Calls |-> IF c = c2 THEN k2 ELSE k1]
MCGroupOf == [k \in Keys |-> g1]
MCImageOf == [i \in Images |-> g1]

\* Sandbox and image ids are interchangeable, and so are the two calls of one
\* Session.
SameKey(q) == \A c \in Calls : KeyOf[q[c]] = KeyOf[c]
IdSymmetry == {p @@ q @@ i : p \in Permutations(Sandboxes), i \in Permutations(Images),
                             q \in {f \in Permutations(Calls) : SameKey(f)}}
=============================================================================
