--------------------------- MODULE MCLockTakeover ---------------------------
(***************************************************************************)
(* An instance of LockTakeover for TLC: one Session, two calls on one      *)
(* replica and one on another, so that a late call, the one that took over *)
(* and a third one can meet.                                               *)
(***************************************************************************)
EXTENDS LockTakeover, TLC

CONSTANTS c1, c2, c3, r1, r2, k1

MCReplicaOf == [c \in Calls |-> IF c = c2 THEN r2 ELSE r1]
MCKeyOf == [c \in Calls |-> k1]

\* Sandbox ids are interchangeable, and so are the two calls of one replica.
SameRole(q) == \A c \in Calls : ReplicaOf[q[c]] = ReplicaOf[c]
CallSymmetry == {p @@ q : p \in Permutations(Sandboxes),
                          q \in {f \in Permutations(Calls) : SameRole(f)}}
=============================================================================
