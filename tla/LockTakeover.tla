---------------------------- MODULE LockTakeover ----------------------------
(***************************************************************************)
(* SandboxManager with a history variable: which calls have outlasted the  *)
(* TTL of their cluster lock or gone on without it (_dlock).  Another call *)
(* may then be inside with them; what they do to its lock on their way out *)
(* is the question.                                                        *)
(***************************************************************************)
EXTENDS SandboxManager

VARIABLE unlocked    \* calls that have run inside without the cluster lock

\* The holder of a lock that lapses in this step, and a call that gives up on it.
Overtaken == {dlock[k] : k \in {j \in Keys : ExpireDlock(j)}}
Waiving   == {c \in Calls : DlockTimesOut(c) \/ DlockErrs(c)}

LockTakeoverInit == Init /\ unlocked = {}
LockTakeoverNext == Next /\ unlocked' = unlocked \cup Overtaken \cup Waiving
LockTakeoverSpec == LockTakeoverInit /\ [][LockTakeoverNext]_<<vars, unlocked>>

-----------------------------------------------------------------------------
\* Only the TTL and a degraded acquire() end the exclusion of the cluster lock:
\* no two calls of a Session that have it are inside together, although calls
\* that have lost it or do without it run and release around them.
MutexUntilLapse ==
    \A c, d \in Calls \ unlocked :
        KeyOf[c] = KeyOf[d] /\ pc[c] \in Inside /\ pc[d] \in Inside => c = d
=============================================================================
