---------------------------- MODULE MCGroupGate ----------------------------
(***************************************************************************)
(* An instance of GroupGate for TLC: three checks of one user on one       *)
(* replica, for one group.  Users, groups and replicas share nothing, so   *)
(* more of them multiply the states without adding an interaction.         *)
(***************************************************************************)
EXTENDS GroupGate, TLC

CONSTANTS c1, c2, c3, r1, u1, g1

MCReplicaOf == [c \in Checks |-> r1]
MCUserOf    == [c \in Checks |-> u1]
MCGroupOf   == [c \in Checks |-> g1]

\* The checks are interchangeable (no liveness is checked).
CheckSymmetry == Permutations(Checks)
=============================================================================
