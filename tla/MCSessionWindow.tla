--------------------------- MODULE MCSessionWindow ---------------------------
(***************************************************************************)
(* An instance of SessionWindow for TLC: a user with two clients (two      *)
(* transport sessions) and two tools.                                      *)
(***************************************************************************)
EXTENDS SessionWindow, TLC

CONSTANTS c1, c2, c3, u1, anon, g1, g2, b1, b2

MCUserOf  == [c \in Calls |-> u1]
MCGroupOf == [c \in Calls |-> IF c = c1 THEN g2 ELSE g1]
MCBaseOf  == [c \in Calls |-> IF c = c1 THEN b1 ELSE b2]

\* Two calls of one client with the same tool are alike.
Alike == Permutations({c2, c3})
=============================================================================
