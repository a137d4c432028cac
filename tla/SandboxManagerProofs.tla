------------------------ MODULE SandboxManagerProofs ------------------------
(***************************************************************************)
(* What holds of SandboxManager for every number of calls, replicas, keys  *)
(* and sandboxes, and for every set of faults unless a theorem says        *)
(* otherwise.                                                              *)
(***************************************************************************)
EXTENDS SandboxManager, TLAPS

-----------------------------------------------------------------------------
\* Types, and the fact they rest on: a call past the lookup holds an id.
TypeInv == TypeOK /\ HoldsSandbox

\* The initial state is well typed.
LEMMA TypeInit == Init => TypeInv
BY RoutingAssumption, SentinelAssumption
   DEF Init, TypeInv, TypeOK, SandboxStates, HoldsSandbox, Holding, Setup, PCs

\* Every step, and every fault, keeps it well typed.
LEMMA TypeStep == TypeInv /\ [Next]_vars => TypeInv'
<1> SUFFICES ASSUME TypeInv, [Next]_vars PROVE TypeInv'
  OBVIOUS
<1> USE RoutingAssumption, SentinelAssumption
    DEF TypeInv, TypeOK, HoldsSandbox, Holding, callVars, redisVars, cloudVars, PCs, Active,
        Critical, Inside, Creating, Setup, Ended, Goto
<1>1. ASSUME NEW c \in Calls, Arrive(c) PROVE TypeInv'
  BY <1>1 DEF Arrive
<1>2. ASSUME NEW c \in Calls, TakeLock(c) PROVE TypeInv'
  BY <1>2 DEF TakeLock, AfterLocalLock, LocalLock, SetLocalLock
<1>3. ASSUME NEW c \in Calls, TakeDlock(c) PROVE TypeInv'
  BY <1>3 DEF TakeDlock
<1>4. ASSUME NEW c \in Calls, DlockTimesOut(c) PROVE TypeInv'
  BY <1>4 DEF DlockTimesOut
<1>5. ASSUME NEW c \in Calls, DlockErrs(c) PROVE TypeInv'
  BY <1>5 DEF DlockErrs
<1>6. ASSUME NEW c \in Calls, Leave(c) PROVE TypeInv'
  <2>1. dlock' \in [Keys -> Calls \cup {NoCall}]
    BY <1>6 DEF Leave, Released
  <2>2. locks' \in [Replicas -> [Keys -> Calls \cup {NoCall}]]
    BY <1>6 DEF Leave, SetLocalLock
  <2>3. CASE Goto(c, "return", "exec")
    BY <1>6, <2>1, <2>2, <2>3 DEF Leave
  <2>4. CASE Goto(c, "raise", "failed")
    BY <1>6, <2>1, <2>2, <2>4 DEF Leave
  <2>5. QED
    BY <1>6, <2>3, <2>4 DEF Leave
<1>7. ASSUME NEW c \in Calls, LookUp(c) PROVE TypeInv'
  <2>1. CASE Goto(c, "lookup", "slide")
    BY <1>7, <2>1 DEF LookUp, SessionKey
  <2>2. CASE Goto(c, "lookup", "prepare")
    BY <1>7, <2>2 DEF LookUp, SessionKey
  <2>3. QED
    BY <1>7, <2>1, <2>2 DEF LookUp
<1>8. ASSUME NEW c \in Calls, Slide(c) PROVE TypeInv'
  <2>1. fwd' \in [Keys -> Sandboxes \cup {NoSandbox}]
    BY <1>8 DEF Slide, SessionKey, KeySet, Written
  <2>2. CASE Goto(c, "slide", "ensure") /\ UNCHANGED cur
    BY <1>8, <2>1, <2>2 DEF Slide
  <2>3. CASE /\ Goto(c, "slide", "prepare")
             /\ cur' = [cur EXCEPT ![c] = NoSandbox]
    BY <1>8, <2>1, <2>3 DEF Slide
  <2>4. QED
    BY <1>8, <2>2, <2>3 DEF Slide
<1>9. ASSUME NEW c \in Calls, Ensure(c) PROVE TypeInv'
  BY <1>9 DEF Ensure
<1>10. ASSUME NEW c \in Calls, Purge(c) PROVE TypeInv'
  BY <1>10 DEF Purge, SessionKey, KeyCleared, Written
<1>11. ASSUME NEW c \in Calls, Prepare(c) PROVE TypeInv'
  <2>1. ASSUME NEW s \in Sandboxes, Goto(c, "prepare", "provision"),
               sbx' = [sbx EXCEPT ![s] = "creating"],
               label' = [label EXCEPT ![s] = KeyOf[c]],
               cur' = [cur EXCEPT ![c] = s]
        PROVE  TypeInv'
    BY <1>11, <2>1 DEF Prepare, SandboxStates
  <2>2. ASSUME NEW s \in Sandboxes, Goto(c, "prepare", "raise"),
               sbx' = [sbx EXCEPT ![s] = "creating"],
               label' = [label EXCEPT ![s] = KeyOf[c]],
               UNCHANGED cur
        PROVE  TypeInv'
    BY <1>11, <2>2 DEF Prepare, SandboxStates
  <2>3. CASE Goto(c, "prepare", "raise") /\ UNCHANGED <<cur, sbx, label>>
    BY <1>11, <2>3 DEF Prepare
  <2>4. QED
    BY <1>11, <2>1, <2>2, <2>3 DEF Prepare
<1>12. ASSUME NEW c \in Calls, Provision(c) PROVE TypeInv'
  <2>1. CASE Goto(c, "provision", "policy") /\ UNCHANGED <<cur, sbx>>
    BY <1>12, <2>1 DEF Provision
  <2>2. CASE Goto(c, "provision", "raise") /\ Unobtained(c) /\ UNCHANGED sbx
    BY <1>12, <2>2 DEF Provision, Unobtained
  <2>3. CASE /\ Goto(c, "provision", "raise") /\ Unobtained(c)
             /\ sbx' = [sbx EXCEPT ![cur[c]] = "deleted"]
    BY <1>12, <2>3 DEF Provision, Unobtained, SandboxStates
  <2>4. QED
    BY <1>12, <2>1, <2>2, <2>3 DEF Provision, Unobtained
<1>13. ASSUME NEW c \in Calls, SetPolicy(c) PROVE TypeInv'
  BY <1>13 DEF SetPolicy
<1>14. ASSUME NEW c \in Calls, CreateTimesOut(c) PROVE TypeInv'
  BY <1>14 DEF CreateTimesOut, Unobtained
<1>15. ASSUME NEW c \in Calls, Bind(c) PROVE TypeInv'
  BY <1>15 DEF Bind, SessionKey, KeySet, Written
<1>16. ASSUME NEW c \in Calls, Index(c) PROVE TypeInv'
  BY <1>16 DEF Index, Written, IndexMeta
<1>17. ASSUME NEW c \in Calls, Check(c) PROVE TypeInv'
  BY <1>17 DEF Check
<1>18. ASSUME NEW c \in Calls, Bootstrap(c) PROVE TypeInv'
  BY <1>18 DEF Bootstrap
<1>19. ASSUME NEW c \in Calls, Mark(c) PROVE TypeInv'
  BY <1>19 DEF Mark, Written
<1>20. ASSUME NEW c \in Calls, Rollback(c) PROVE TypeInv'
  BY <1>20 DEF Rollback, SessionKey, KeyCleared, Written
<1>21. ASSUME NEW c \in Calls, Exec(c) PROVE TypeInv'
  BY <1>21 DEF Exec
<1>22. ASSUME NEW c \in Calls, Cancel(c) PROVE TypeInv'
  <2>1. dlock' \in [Keys -> Calls \cup {NoCall}]
    BY <1>22 DEF Cancel
  <2>2. CASE pc' = [pc EXCEPT ![c] = "raise"]
    BY <1>22, <2>1, <2>2 DEF Cancel
  <2>3. CASE pc' = [pc EXCEPT ![c] = "failed"]
    BY <1>22, <2>1, <2>3 DEF Cancel
  <2>4. QED
    BY <1>22, <2>2, <2>3 DEF Cancel
<1>23. ASSUME NEW r \in Replicas, Crash(r) PROVE TypeInv'
  BY <1>23 DEF Crash, ServedBy, Killed
<1>24. ASSUME NEW s \in Sandboxes, CloudCreates(s) PROVE TypeInv'
  BY <1>24 DEF CloudCreates, SandboxStates
<1>25. ASSUME NEW s \in Sandboxes, Vanish(s) PROVE TypeInv'
  BY <1>25 DEF Vanish, SandboxStates
<1>26. ASSUME NEW k \in Keys, ExpireKey(k) PROVE TypeInv'
  BY <1>26 DEF ExpireKey
<1>27. ASSUME NEW k \in Keys, ExpireDlock(k) PROVE TypeInv'
  BY <1>27 DEF ExpireDlock
<1>28. CASE UNCHANGED vars
  BY <1>28 DEF vars
<1>29. QED
  BY <1>1, <1>2, <1>3, <1>4, <1>5, <1>6, <1>7, <1>8, <1>9, <1>10, <1>11, <1>12, <1>13, <1>14, <1>15, <1>16, <1>17, <1>18, <1>19, <1>20, <1>21, <1>22, <1>23, <1>24, <1>25, <1>26, <1>27, <1>28
     DEF Next, Serve, Locking, AwaitDlock, Reusing, CreatingStep, SettingUp, Environment, AllEnded


\* Every variable stays in its range, whatever fails.
THEOREM TypeCorrect == Spec => []TypeOK
<1>1. TypeInv => TypeOK
  BY DEF TypeInv
<1>2. QED
  BY TypeInit, TypeStep, <1>1, PTL DEF Spec

-----------------------------------------------------------------------------
\* A call in the critical section holds the asyncio lock of its key.
HoldsLocalLock == \A c \in Calls : pc[c] \in Critical => LocalLock(c) = c

\* Every call starts outside the local lock.
LEMMA LocalLockInit == Init => HoldsLocalLock
BY DEF Init, HoldsLocalLock, Critical, Inside, Creating, Setup

\* Every way into and out of the critical section, a crash included, takes
\* or gives up the lock with it.
LEMMA LocalLockStep == TypeInv /\ HoldsLocalLock /\ [Next]_vars => HoldsLocalLock'
<1> SUFFICES ASSUME TypeInv, HoldsLocalLock, [Next]_vars PROVE HoldsLocalLock'
  OBVIOUS
<1> USE RoutingAssumption, SentinelAssumption
    DEF TypeInv, TypeOK, HoldsLocalLock, LocalLock, callVars, redisVars, cloudVars,
        Critical, Inside, Creating, Setup, Goto
<1>1. ASSUME NEW c \in Calls, Arrive(c) PROVE HoldsLocalLock'
  BY <1>1 DEF Arrive
<1>2. ASSUME NEW c \in Calls, TakeLock(c) PROVE HoldsLocalLock'
  BY <1>2 DEF TakeLock, AfterLocalLock, SetLocalLock
<1>3. ASSUME NEW c \in Calls, TakeDlock(c) PROVE HoldsLocalLock'
  BY <1>3 DEF TakeDlock
<1>4. ASSUME NEW c \in Calls, DlockTimesOut(c) PROVE HoldsLocalLock'
  BY <1>4 DEF DlockTimesOut
<1>5. ASSUME NEW c \in Calls, DlockErrs(c) PROVE HoldsLocalLock'
  BY <1>5 DEF DlockErrs
<1>6. ASSUME NEW c \in Calls, Leave(c) PROVE HoldsLocalLock'
  BY <1>6 DEF Leave, SetLocalLock
<1>7. ASSUME NEW c \in Calls, LookUp(c) PROVE HoldsLocalLock'
  BY <1>7 DEF LookUp
<1>8. ASSUME NEW c \in Calls, Slide(c) PROVE HoldsLocalLock'
  BY <1>8 DEF Slide
<1>9. ASSUME NEW c \in Calls, Ensure(c) PROVE HoldsLocalLock'
  BY <1>9 DEF Ensure
<1>10. ASSUME NEW c \in Calls, Purge(c) PROVE HoldsLocalLock'
  BY <1>10 DEF Purge
<1>11. ASSUME NEW c \in Calls, Prepare(c) PROVE HoldsLocalLock'
  BY <1>11 DEF Prepare
<1>12. ASSUME NEW c \in Calls, Provision(c) PROVE HoldsLocalLock'
  BY <1>12 DEF Provision, Unobtained
<1>13. ASSUME NEW c \in Calls, SetPolicy(c) PROVE HoldsLocalLock'
  BY <1>13 DEF SetPolicy
<1>14. ASSUME NEW c \in Calls, CreateTimesOut(c) PROVE HoldsLocalLock'
  BY <1>14 DEF CreateTimesOut, Unobtained
<1>15. ASSUME NEW c \in Calls, Bind(c) PROVE HoldsLocalLock'
  BY <1>15 DEF Bind
<1>16. ASSUME NEW c \in Calls, Index(c) PROVE HoldsLocalLock'
  BY <1>16 DEF Index
<1>17. ASSUME NEW c \in Calls, Check(c) PROVE HoldsLocalLock'
  BY <1>17 DEF Check
<1>18. ASSUME NEW c \in Calls, Bootstrap(c) PROVE HoldsLocalLock'
  BY <1>18 DEF Bootstrap
<1>19. ASSUME NEW c \in Calls, Mark(c) PROVE HoldsLocalLock'
  BY <1>19 DEF Mark
<1>20. ASSUME NEW c \in Calls, Rollback(c) PROVE HoldsLocalLock'
  BY <1>20 DEF Rollback
<1>21. ASSUME NEW c \in Calls, Exec(c) PROVE HoldsLocalLock'
  BY <1>21 DEF Exec
<1>22. ASSUME NEW c \in Calls, Cancel(c) PROVE HoldsLocalLock'
  BY <1>22 DEF Cancel
<1>23. ASSUME NEW r \in Replicas, Crash(r) PROVE HoldsLocalLock'
  <2> SUFFICES ASSUME NEW c \in Calls, pc'[c] \in Critical
               PROVE  locks'[ReplicaOf[c]][KeyOf[c]] = c
    OBVIOUS
  <2>1. c \notin ServedBy(r) /\ pc[c] \in Critical
    BY <1>23 DEF Crash, Killed
  <2>2. ReplicaOf[c] # r
    BY <2>1 DEF ServedBy, Active
  <2>3. QED
    BY <1>23, <2>1, <2>2 DEF Crash, Killed
<1>24. ASSUME NEW s \in Sandboxes, CloudCreates(s) PROVE HoldsLocalLock'
  BY <1>24 DEF CloudCreates
<1>25. ASSUME NEW s \in Sandboxes, Vanish(s) PROVE HoldsLocalLock'
  BY <1>25 DEF Vanish
<1>26. ASSUME NEW k \in Keys, ExpireKey(k) PROVE HoldsLocalLock'
  BY <1>26 DEF ExpireKey
<1>27. ASSUME NEW k \in Keys, ExpireDlock(k) PROVE HoldsLocalLock'
  BY <1>27 DEF ExpireDlock
<1>28. CASE UNCHANGED vars
  BY <1>28 DEF vars
<1>29. QED
  BY <1>1, <1>2, <1>3, <1>4, <1>5, <1>6, <1>7, <1>8, <1>9, <1>10, <1>11,
     <1>12, <1>13, <1>14, <1>15, <1>16, <1>17, <1>18, <1>19, <1>20, <1>21,
     <1>22, <1>23, <1>24, <1>25, <1>26, <1>27, <1>28
     DEF Next, Serve, Locking, AwaitDlock, Reusing, CreatingStep, SettingUp, Environment, AllEnded

\* Two calls of one Session never both pass the asyncio lock of a replica.
THEOREM LocalMutexHolds == Spec => []LocalMutex
<1>1. HoldsLocalLock => LocalMutex
  BY DEF HoldsLocalLock, LocalLock, LocalMutex
<1>2. QED
  BY TypeInit, TypeStep, LocalLockInit, LocalLockStep, <1>1, PTL DEF Spec

-----------------------------------------------------------------------------
\* No lock is held at first.
LEMMA LocksLeftInit == Init => LocksLeft
BY SentinelAssumption DEF Init, LocksLeft, LocalLocksLeft, DlocksLeft

\* A call leaves the local lock on every way out, and nobody else takes it from it.
LEMMA LocalLocksLeftStep == TypeInv /\ LocalLocksLeft /\ [Next]_vars => LocalLocksLeft'
<1> SUFFICES ASSUME TypeInv, LocalLocksLeft, [Next]_vars PROVE LocalLocksLeft'
  OBVIOUS
<1> USE RoutingAssumption, SentinelAssumption
    DEF TypeInv, TypeOK, LocalLocksLeft, callVars, redisVars, cloudVars, Critical, Inside,
        Creating, Setup, Goto, Fault
<1>1. ASSUME NEW c \in Calls, Arrive(c) PROVE LocalLocksLeft'
  BY <1>1 DEF Arrive
<1>2. ASSUME NEW c \in Calls, TakeLock(c) PROVE LocalLocksLeft'
  BY <1>2 DEF TakeLock, AfterLocalLock, LocalLock, SetLocalLock
<1>3. ASSUME NEW c \in Calls, TakeDlock(c) PROVE LocalLocksLeft'
  BY <1>3 DEF TakeDlock
<1>4. ASSUME NEW c \in Calls, DlockTimesOut(c) PROVE LocalLocksLeft'
  BY <1>4 DEF DlockTimesOut
<1>5. ASSUME NEW c \in Calls, DlockErrs(c) PROVE LocalLocksLeft'
  BY <1>5 DEF DlockErrs
<1>6. ASSUME NEW c \in Calls, Leave(c) PROVE LocalLocksLeft'
  BY <1>6 DEF Leave, SetLocalLock
<1>7. ASSUME NEW c \in Calls, LookUp(c) PROVE LocalLocksLeft'
  <2>1. \A d \in Calls : pc[d] \in Critical => pc'[d] \in Critical
    BY <1>7 DEF LookUp
  <2>2. QED
    BY <1>7, <2>1 DEF LookUp
<1>8. ASSUME NEW c \in Calls, Slide(c) PROVE LocalLocksLeft'
  BY <1>8 DEF Slide
<1>9. ASSUME NEW c \in Calls, Ensure(c) PROVE LocalLocksLeft'
  BY <1>9 DEF Ensure
<1>10. ASSUME NEW c \in Calls, Purge(c) PROVE LocalLocksLeft'
  BY <1>10 DEF Purge
<1>11. ASSUME NEW c \in Calls, Prepare(c) PROVE LocalLocksLeft'
  <2>1. \A d \in Calls : pc[d] \in Critical => pc'[d] \in Critical
    BY <1>11 DEF Prepare
  <2>2. QED
    BY <1>11, <2>1 DEF Prepare
<1>12. ASSUME NEW c \in Calls, Provision(c) PROVE LocalLocksLeft'
  BY <1>12 DEF Provision, Unobtained
<1>13. ASSUME NEW c \in Calls, SetPolicy(c) PROVE LocalLocksLeft'
  BY <1>13 DEF SetPolicy
<1>14. ASSUME NEW c \in Calls, CreateTimesOut(c) PROVE LocalLocksLeft'
  BY <1>14 DEF CreateTimesOut, Unobtained
<1>15. ASSUME NEW c \in Calls, Bind(c) PROVE LocalLocksLeft'
  BY <1>15 DEF Bind
<1>16. ASSUME NEW c \in Calls, Index(c) PROVE LocalLocksLeft'
  BY <1>16 DEF Index
<1>17. ASSUME NEW c \in Calls, Check(c) PROVE LocalLocksLeft'
  BY <1>17 DEF Check
<1>18. ASSUME NEW c \in Calls, Bootstrap(c) PROVE LocalLocksLeft'
  <2>1. \A d \in Calls : pc[d] \in Critical => pc'[d] \in Critical
    BY <1>18 DEF Bootstrap
  <2>2. QED
    BY <1>18, <2>1 DEF Bootstrap
<1>19. ASSUME NEW c \in Calls, Mark(c) PROVE LocalLocksLeft'
  BY <1>19 DEF Mark
<1>20. ASSUME NEW c \in Calls, Rollback(c) PROVE LocalLocksLeft'
  BY <1>20 DEF Rollback
<1>21. ASSUME NEW c \in Calls, Exec(c) PROVE LocalLocksLeft'
  BY <1>21 DEF Exec
<1>22. ASSUME NEW c \in Calls, Cancel(c) PROVE LocalLocksLeft'
  BY <1>22 DEF Cancel
<1>23. ASSUME NEW r \in Replicas, Crash(r) PROVE LocalLocksLeft'
  BY <1>23 DEF Crash, Killed, ServedBy
<1>24. ASSUME NEW s \in Sandboxes, CloudCreates(s) PROVE LocalLocksLeft'
  BY <1>24 DEF CloudCreates
<1>25. ASSUME NEW s \in Sandboxes, Vanish(s) PROVE LocalLocksLeft'
  BY <1>25 DEF Vanish
<1>26. ASSUME NEW k \in Keys, ExpireKey(k) PROVE LocalLocksLeft'
  BY <1>26 DEF ExpireKey
<1>27. ASSUME NEW k \in Keys, ExpireDlock(k) PROVE LocalLocksLeft'
  BY <1>27 DEF ExpireDlock
<1>28. CASE UNCHANGED vars
  BY <1>28 DEF vars
<1>29. QED
  BY <1>1, <1>2, <1>3, <1>4, <1>5, <1>6, <1>7, <1>8, <1>9, <1>10, <1>11,
     <1>12, <1>13, <1>14, <1>15, <1>16, <1>17, <1>18, <1>19, <1>20, <1>21,
     <1>22, <1>23, <1>24, <1>25, <1>26, <1>27, <1>28
     DEF Next, Serve, Locking, AwaitDlock, Reusing, CreatingStep, SettingUp, Environment, AllEnded

\* A call releases the cluster lock it was told it has, unless Redis fails it or it
\* is torn out of the release.
LEMMA DlocksLeftStep == TypeInv /\ DlocksLeft /\ [Next]_vars => DlocksLeft'
<1> SUFFICES ASSUME TypeInv, DlocksLeft, [Next]_vars PROVE DlocksLeft'
  OBVIOUS
<1> USE RoutingAssumption, SentinelAssumption
    DEF TypeInv, TypeOK, DlocksLeft, callVars, redisVars, cloudVars, Critical, Inside,
        Creating, Setup, Goto, Fault
<1>1. ASSUME NEW c \in Calls, Arrive(c) PROVE DlocksLeft'
  BY <1>1 DEF Arrive
<1>2. ASSUME NEW c \in Calls, TakeLock(c) PROVE DlocksLeft'
  BY <1>2 DEF TakeLock, AfterLocalLock, LocalLock
<1>3. ASSUME NEW c \in Calls, TakeDlock(c) PROVE DlocksLeft'
  BY <1>3 DEF TakeDlock
<1>4. ASSUME NEW c \in Calls, DlockTimesOut(c) PROVE DlocksLeft'
  BY <1>4 DEF DlockTimesOut
<1>5. ASSUME NEW c \in Calls, DlockErrs(c) PROVE DlocksLeft'
  BY <1>5 DEF DlockErrs
<1>6. ASSUME NEW c \in Calls, Leave(c) PROVE DlocksLeft'
  BY <1>6 DEF Leave, Released
<1>7. ASSUME NEW c \in Calls, LookUp(c) PROVE DlocksLeft'
  BY <1>7 DEF LookUp
<1>8. ASSUME NEW c \in Calls, Slide(c) PROVE DlocksLeft'
  BY <1>8 DEF Slide
<1>9. ASSUME NEW c \in Calls, Ensure(c) PROVE DlocksLeft'
  BY <1>9 DEF Ensure
<1>10. ASSUME NEW c \in Calls, Purge(c) PROVE DlocksLeft'
  BY <1>10 DEF Purge
<1>11. ASSUME NEW c \in Calls, Prepare(c) PROVE DlocksLeft'
  BY <1>11 DEF Prepare
<1>12. ASSUME NEW c \in Calls, Provision(c) PROVE DlocksLeft'
  BY <1>12 DEF Provision, Unobtained
<1>13. ASSUME NEW c \in Calls, SetPolicy(c) PROVE DlocksLeft'
  BY <1>13 DEF SetPolicy
<1>14. ASSUME NEW c \in Calls, CreateTimesOut(c) PROVE DlocksLeft'
  BY <1>14 DEF CreateTimesOut, Unobtained
<1>15. ASSUME NEW c \in Calls, Bind(c) PROVE DlocksLeft'
  BY <1>15 DEF Bind
<1>16. ASSUME NEW c \in Calls, Index(c) PROVE DlocksLeft'
  BY <1>16 DEF Index
<1>17. ASSUME NEW c \in Calls, Check(c) PROVE DlocksLeft'
  BY <1>17 DEF Check
<1>18. ASSUME NEW c \in Calls, Bootstrap(c) PROVE DlocksLeft'
  BY <1>18 DEF Bootstrap
<1>19. ASSUME NEW c \in Calls, Mark(c) PROVE DlocksLeft'
  BY <1>19 DEF Mark
<1>20. ASSUME NEW c \in Calls, Rollback(c) PROVE DlocksLeft'
  BY <1>20 DEF Rollback
<1>21. ASSUME NEW c \in Calls, Exec(c) PROVE DlocksLeft'
  BY <1>21 DEF Exec
<1>22. ASSUME NEW c \in Calls, Cancel(c) PROVE DlocksLeft'
  BY <1>22 DEF Cancel
<1>23. ASSUME NEW r \in Replicas, Crash(r) PROVE DlocksLeft'
  BY <1>23 DEF Crash, Killed, ServedBy
<1>24. ASSUME NEW s \in Sandboxes, CloudCreates(s) PROVE DlocksLeft'
  BY <1>24 DEF CloudCreates
<1>25. ASSUME NEW s \in Sandboxes, Vanish(s) PROVE DlocksLeft'
  BY <1>25 DEF Vanish
<1>26. ASSUME NEW k \in Keys, ExpireKey(k) PROVE DlocksLeft'
  BY <1>26 DEF ExpireKey
<1>27. ASSUME NEW k \in Keys, ExpireDlock(k) PROVE DlocksLeft'
  BY <1>27 DEF ExpireDlock
<1>28. CASE UNCHANGED vars
  BY <1>28 DEF vars
<1>29. QED
  BY <1>1, <1>2, <1>3, <1>4, <1>5, <1>6, <1>7, <1>8, <1>9, <1>10, <1>11,
     <1>12, <1>13, <1>14, <1>15, <1>16, <1>17, <1>18, <1>19, <1>20, <1>21,
     <1>22, <1>23, <1>24, <1>25, <1>26, <1>27, <1>28
     DEF Next, Serve, Locking, AwaitDlock, Reusing, CreatingStep, SettingUp, Environment, AllEnded

\* Whatever ends a call, no other call of its Session waits for a lock that only
\* the call that is gone could free; the cluster lock has its TTL for the rest.
THEOREM LocksLeftHolds == Spec => []LocksLeft
<1>1. TypeInv /\ LocksLeft /\ [Next]_vars => LocksLeft'
  BY LocalLocksLeftStep, DlocksLeftStep DEF LocksLeft
<1>2. QED
  BY TypeInit, TypeStep, LocksLeftInit, <1>1, PTL DEF Spec

-----------------------------------------------------------------------------
\* What a call works on, and what a routing key names, was created for it:
\* the strengthening of Isolation that the steps preserve.
OwnSandbox ==
    /\ \A c \in Calls : cur[c] # NoSandbox =>
          sbx[cur[c]] # "none" /\ label[cur[c]] = KeyOf[c]
    /\ \A k \in Keys : fwd[k] # NoSandbox =>
          sbx[fwd[k]] # "none" /\ label[fwd[k]] = k

\* No call holds and no key names a sandbox before the first call.
LEMMA OwnInit == Init => OwnSandbox
BY RoutingAssumption DEF Init, OwnSandbox

\* Only Prepare labels a sandbox, and only one nobody holds yet.
LEMMA OwnStep == TypeInv /\ OwnSandbox /\ [Next]_vars => OwnSandbox'
<1> SUFFICES ASSUME TypeInv, OwnSandbox, [Next]_vars PROVE OwnSandbox'
  OBVIOUS
<1> USE RoutingAssumption, SentinelAssumption
    DEF TypeInv, TypeOK, OwnSandbox, callVars, redisVars, cloudVars, Goto
<1>1. ASSUME NEW c \in Calls, Arrive(c) PROVE OwnSandbox'
  BY <1>1 DEF Arrive
<1>2. ASSUME NEW c \in Calls, TakeLock(c) PROVE OwnSandbox'
  BY <1>2 DEF TakeLock
<1>3. ASSUME NEW c \in Calls, TakeDlock(c) PROVE OwnSandbox'
  BY <1>3 DEF TakeDlock
<1>4. ASSUME NEW c \in Calls, DlockTimesOut(c) PROVE OwnSandbox'
  BY <1>4 DEF DlockTimesOut
<1>5. ASSUME NEW c \in Calls, DlockErrs(c) PROVE OwnSandbox'
  BY <1>5 DEF DlockErrs
<1>6. ASSUME NEW c \in Calls, Leave(c) PROVE OwnSandbox'
  BY <1>6 DEF Leave
<1>7. ASSUME NEW c \in Calls, LookUp(c) PROVE OwnSandbox'
  <2>1. CASE cur' = [cur EXCEPT ![c] = fwd[KeyOf[c]]]
    BY <1>7, <2>1 DEF LookUp
  <2>2. CASE UNCHANGED cur
    BY <1>7, <2>2 DEF LookUp
  <2>3. QED
    BY <1>7, <2>1, <2>2 DEF LookUp, SessionKey
<1>8. ASSUME NEW c \in Calls, Slide(c) PROVE OwnSandbox'
  <2>1. cur[c] \in Sandboxes /\ cur[c] # NoSandbox
    BY <1>8 DEF Slide, HoldsSandbox, Holding
  <2>2. \A k \in Keys : fwd'[k] = fwd[k] \/ (k = KeyOf[c] /\ fwd'[k] = cur[c])
    BY <1>8 DEF Slide, Written, SessionKey, KeySet
  <2>3. \A d \in Calls : cur'[d] = cur[d] \/ cur'[d] = NoSandbox
    BY <1>8 DEF Slide
  <2>4. UNCHANGED <<sbx, label>>
    BY <1>8 DEF Slide
  <2>5. QED
    BY <2>1, <2>2, <2>3, <2>4
<1>9. ASSUME NEW c \in Calls, Ensure(c) PROVE OwnSandbox'
  BY <1>9 DEF Ensure
<1>10. ASSUME NEW c \in Calls, Purge(c) PROVE OwnSandbox'
  BY <1>10 DEF Purge, Written, SessionKey, KeyCleared
<1>11. ASSUME NEW c \in Calls, Prepare(c) PROVE OwnSandbox'
  <2>1. ASSUME NEW s \in Sandboxes, sbx[s] = "none",
               sbx' = [sbx EXCEPT ![s] = "creating"],
               label' = [label EXCEPT ![s] = KeyOf[c]],
               cur' = [cur EXCEPT ![c] = s],
               UNCHANGED fwd
        PROVE  OwnSandbox'
    <3>1. ASSUME NEW d \in Calls, cur'[d] # NoSandbox
          PROVE  sbx'[cur'[d]] # "none" /\ label'[cur'[d]] = KeyOf[d]
      <4>1. CASE d = c
        BY <2>1, <4>1
      <4>2. CASE d # c
        BY <2>1, <3>1, <4>2
      <4>3. QED
        BY <4>1, <4>2
    <3>2. ASSUME NEW k \in Keys, fwd'[k] # NoSandbox
          PROVE  sbx'[fwd'[k]] # "none" /\ label'[fwd'[k]] = k
      BY <2>1, <3>2
    <3>3. QED
      BY <3>1, <3>2
  <2>2. ASSUME NEW s \in Sandboxes, sbx[s] = "none",
               sbx' = [sbx EXCEPT ![s] = "creating"],
               label' = [label EXCEPT ![s] = KeyOf[c]],
               UNCHANGED <<cur, fwd>>
        PROVE  OwnSandbox'
    BY <2>2
  <2>3. CASE UNCHANGED <<cur, sbx, label, fwd>>
    BY <2>3
  <2>4. QED
    BY <1>11, <2>1, <2>2, <2>3 DEF Prepare
<1>12. ASSUME NEW c \in Calls, Provision(c) PROVE OwnSandbox'
  BY <1>12 DEF Provision, Unobtained, HoldsSandbox, Holding
<1>13. ASSUME NEW c \in Calls, SetPolicy(c) PROVE OwnSandbox'
  BY <1>13 DEF SetPolicy
<1>14. ASSUME NEW c \in Calls, CreateTimesOut(c) PROVE OwnSandbox'
  BY <1>14 DEF CreateTimesOut, Unobtained
<1>15. ASSUME NEW c \in Calls, Bind(c) PROVE OwnSandbox'
  <2>1. cur[c] \in Sandboxes /\ cur[c] # NoSandbox
    BY <1>15 DEF Bind, HoldsSandbox, Holding, Setup
  <2>2. \A k \in Keys : fwd'[k] = fwd[k] \/ (k = KeyOf[c] /\ fwd'[k] = cur[c])
    BY <1>15 DEF Bind, Written, SessionKey, KeySet
  <2>3. UNCHANGED <<cur, sbx, label>>
    BY <1>15 DEF Bind
  <2>4. QED
    BY <2>1, <2>2, <2>3
<1>16. ASSUME NEW c \in Calls, Index(c) PROVE OwnSandbox'
  BY <1>16 DEF Index
<1>17. ASSUME NEW c \in Calls, Check(c) PROVE OwnSandbox'
  BY <1>17 DEF Check
<1>18. ASSUME NEW c \in Calls, Bootstrap(c) PROVE OwnSandbox'
  BY <1>18 DEF Bootstrap
<1>19. ASSUME NEW c \in Calls, Mark(c) PROVE OwnSandbox'
  BY <1>19 DEF Mark
<1>20. ASSUME NEW c \in Calls, Rollback(c) PROVE OwnSandbox'
  BY <1>20 DEF Rollback, Written, SessionKey, KeyCleared
<1>21. ASSUME NEW c \in Calls, Exec(c) PROVE OwnSandbox'
  BY <1>21 DEF Exec
<1>22. ASSUME NEW c \in Calls, Cancel(c) PROVE OwnSandbox'
  BY <1>22 DEF Cancel
<1>23. ASSUME NEW r \in Replicas, Crash(r) PROVE OwnSandbox'
  BY <1>23 DEF Crash, Killed
<1>24. ASSUME NEW s \in Sandboxes, CloudCreates(s) PROVE OwnSandbox'
  BY <1>24 DEF CloudCreates
<1>25. ASSUME NEW s \in Sandboxes, Vanish(s) PROVE OwnSandbox'
  BY <1>25 DEF Vanish
<1>26. ASSUME NEW k \in Keys, ExpireKey(k) PROVE OwnSandbox'
  BY <1>26 DEF ExpireKey
<1>27. ASSUME NEW k \in Keys, ExpireDlock(k) PROVE OwnSandbox'
  BY <1>27 DEF ExpireDlock
<1>28. CASE UNCHANGED vars
  BY <1>28 DEF vars
<1>29. QED
  BY <1>1, <1>2, <1>3, <1>4, <1>5, <1>6, <1>7, <1>8, <1>9, <1>10, <1>11,
     <1>12, <1>13, <1>14, <1>15, <1>16, <1>17, <1>18, <1>19, <1>20, <1>21,
     <1>22, <1>23, <1>24, <1>25, <1>26, <1>27, <1>28
     DEF Next, Serve, Locking, AwaitDlock, Reusing, CreatingStep, SettingUp, Environment, AllEnded

\* A command never runs in, and a lookup never returns, a sandbox of another
\* user, Session or group.
THEOREM IsolationHolds == Spec => []Isolation
<1>1. OwnSandbox => Isolation
  BY DEF OwnSandbox, Isolation
<1>2. QED
  BY TypeInit, TypeStep, OwnInit, OwnStep, <1>1, PTL DEF Spec

-----------------------------------------------------------------------------
\* The cluster lock is enabled, and neither lost nor waived.
ClusterLock == /\ DistributedLock
               /\ "redis" \notin Faults
               /\ "dlockWait" \notin Faults
               /\ "dlockTTL" \notin Faults

\* All calls of a Session are served by one replica: the deployed default, which
\* has no cluster lock, is a single replica.
OneReplica == \A c, d \in Calls : KeyOf[c] = KeyOf[d] => ReplicaOf[c] = ReplicaOf[d]

\* A call has no sandbox before its lookup.
NoneYet ==
    \A c \in Calls : pc[c] \in {"idle", "lock", "dlock", "lookup", "prepare"} =>
                        cur[c] = NoSandbox

\* Call c is where its lock protects it: past the lookup, or on its way out with
\* a sandbox in its hands.
InLock(c) == pc[c] \in Inside \/ (pc[c] = "raise" /\ cur[c] # NoSandbox)

\* No call has a sandbox at first.
LEMMA NoneYetInit == Init => NoneYet
BY DEF Init, NoneYet

\* A call gives its sandbox up before it looks up or creates another.
LEMMA NoneYetStep == TypeInv /\ NoneYet /\ [Next]_vars => NoneYet'
<1> SUFFICES ASSUME TypeInv, NoneYet, [Next]_vars PROVE NoneYet'
  OBVIOUS
<1> USE RoutingAssumption, SentinelAssumption
    DEF TypeInv, TypeOK, NoneYet, callVars, redisVars, cloudVars,
        Critical, Inside, Creating, Setup, Goto, Fault
<1>1. ASSUME NEW c \in Calls, Arrive(c) PROVE NoneYet'
  BY <1>1 DEF Arrive
<1>2. ASSUME NEW c \in Calls, TakeLock(c) PROVE NoneYet'
  BY <1>2 DEF TakeLock, AfterLocalLock
<1>3. ASSUME NEW c \in Calls, TakeDlock(c) PROVE NoneYet'
  BY <1>3 DEF TakeDlock
<1>4. ASSUME NEW c \in Calls, DlockTimesOut(c) PROVE NoneYet'
  BY <1>4 DEF DlockTimesOut
<1>5. ASSUME NEW c \in Calls, DlockErrs(c) PROVE NoneYet'
  BY <1>5 DEF DlockErrs
<1>6. ASSUME NEW c \in Calls, Leave(c) PROVE NoneYet'
  BY <1>6 DEF Leave, Released
<1>7. ASSUME NEW c \in Calls, LookUp(c) PROVE NoneYet'
  BY <1>7 DEF LookUp, SessionKey
<1>8. ASSUME NEW c \in Calls, Slide(c) PROVE NoneYet'
  BY <1>8 DEF Slide
<1>9. ASSUME NEW c \in Calls, Ensure(c) PROVE NoneYet'
  BY <1>9 DEF Ensure
<1>10. ASSUME NEW c \in Calls, Purge(c) PROVE NoneYet'
  BY <1>10 DEF Purge
<1>11. ASSUME NEW c \in Calls, Prepare(c) PROVE NoneYet'
  BY <1>11 DEF Prepare
<1>12. ASSUME NEW c \in Calls, Provision(c) PROVE NoneYet'
  BY <1>12 DEF Provision, Unobtained
<1>13. ASSUME NEW c \in Calls, SetPolicy(c) PROVE NoneYet'
  BY <1>13 DEF SetPolicy
<1>14. ASSUME NEW c \in Calls, CreateTimesOut(c) PROVE NoneYet'
  BY <1>14 DEF CreateTimesOut, Unobtained
<1>15. ASSUME NEW c \in Calls, Bind(c) PROVE NoneYet'
  BY <1>15 DEF Bind
<1>16. ASSUME NEW c \in Calls, Index(c) PROVE NoneYet'
  BY <1>16 DEF Index
<1>17. ASSUME NEW c \in Calls, Check(c) PROVE NoneYet'
  BY <1>17 DEF Check
<1>18. ASSUME NEW c \in Calls, Bootstrap(c) PROVE NoneYet'
  BY <1>18 DEF Bootstrap
<1>19. ASSUME NEW c \in Calls, Mark(c) PROVE NoneYet'
  BY <1>19 DEF Mark
<1>20. ASSUME NEW c \in Calls, Rollback(c) PROVE NoneYet'
  BY <1>20 DEF Rollback
<1>21. ASSUME NEW c \in Calls, Exec(c) PROVE NoneYet'
  BY <1>21 DEF Exec
<1>22. ASSUME NEW c \in Calls, Cancel(c) PROVE NoneYet'
  BY <1>22 DEF Cancel
<1>23. ASSUME NEW r \in Replicas, Crash(r) PROVE NoneYet'
  BY <1>23 DEF Crash, Killed, ServedBy, Active
<1>24. ASSUME NEW s \in Sandboxes, CloudCreates(s) PROVE NoneYet'
  BY <1>24 DEF CloudCreates
<1>25. ASSUME NEW s \in Sandboxes, Vanish(s) PROVE NoneYet'
  BY <1>25 DEF Vanish
<1>26. ASSUME NEW k \in Keys, ExpireKey(k) PROVE NoneYet'
  BY <1>26 DEF ExpireKey
<1>27. ASSUME NEW k \in Keys, ExpireDlock(k) PROVE NoneYet'
  BY <1>27 DEF ExpireDlock
<1>28. CASE UNCHANGED vars
  BY <1>28 DEF vars
<1>29. QED
  BY <1>1, <1>2, <1>3, <1>4, <1>5, <1>6, <1>7, <1>8, <1>9, <1>10, <1>11,
     <1>12, <1>13, <1>14, <1>15, <1>16, <1>17, <1>18, <1>19, <1>20, <1>21,
     <1>22, <1>23, <1>24, <1>25, <1>26, <1>27, <1>28
     DEF Next, Serve, Locking, AwaitDlock, Reusing, CreatingStep, SettingUp, Environment, AllEnded

\* A call inside the cluster lock holds its token: the strengthening of
\* ClusterMutex that the steps preserve.
HoldsDlock == \A c \in Calls : InLock(c) => dlock[KeyOf[c]] = c /\ c \in got

\* Every call starts outside the lock.
LEMMA DlockInit == Init => HoldsDlock
BY DEF Init, HoldsDlock, InLock, Inside, Creating, Setup

\* The lock is entered by TakeDlock only, left before it is released, and
\* expires only when nobody inside holds it.
LEMMA DlockStep ==
    ClusterLock /\ TypeInv /\ NoneYet /\ HoldsDlock /\ [Next]_vars => HoldsDlock'
<1> SUFFICES ASSUME ClusterLock, TypeInv, NoneYet, HoldsDlock, [Next]_vars
             PROVE  HoldsDlock'
  OBVIOUS
<1> USE RoutingAssumption, SentinelAssumption
    DEF ClusterLock, TypeInv, TypeOK, NoneYet, HoldsDlock, InLock, callVars, redisVars,
        cloudVars, Critical, Inside, Creating, Setup, Goto, Fault
<1>1. ASSUME NEW c \in Calls, Arrive(c) PROVE HoldsDlock'
  BY <1>1 DEF Arrive
<1>2. ASSUME NEW c \in Calls, TakeLock(c) PROVE HoldsDlock'
  BY <1>2 DEF TakeLock, AfterLocalLock
<1>3. ASSUME NEW c \in Calls, TakeDlock(c) PROVE HoldsDlock'
  BY <1>3 DEF TakeDlock
<1>4. ASSUME NEW c \in Calls, DlockTimesOut(c) PROVE HoldsDlock'
  BY <1>4 DEF DlockTimesOut
<1>5. ASSUME NEW c \in Calls, DlockErrs(c) PROVE HoldsDlock'
  BY <1>5 DEF DlockErrs
<1>6. ASSUME NEW c \in Calls, Leave(c) PROVE HoldsDlock'
  BY <1>6 DEF Leave, Released
<1>7. ASSUME NEW c \in Calls, LookUp(c) PROVE HoldsDlock'
  BY <1>7 DEF LookUp
<1>8. ASSUME NEW c \in Calls, Slide(c) PROVE HoldsDlock'
  BY <1>8 DEF Slide
<1>9. ASSUME NEW c \in Calls, Ensure(c) PROVE HoldsDlock'
  BY <1>9 DEF Ensure
<1>10. ASSUME NEW c \in Calls, Purge(c) PROVE HoldsDlock'
  BY <1>10 DEF Purge
<1>11. ASSUME NEW c \in Calls, Prepare(c) PROVE HoldsDlock'
  BY <1>11 DEF Prepare
<1>12. ASSUME NEW c \in Calls, Provision(c) PROVE HoldsDlock'
  BY <1>12 DEF Provision, Unobtained
<1>13. ASSUME NEW c \in Calls, SetPolicy(c) PROVE HoldsDlock'
  BY <1>13 DEF SetPolicy
<1>14. ASSUME NEW c \in Calls, CreateTimesOut(c) PROVE HoldsDlock'
  BY <1>14 DEF CreateTimesOut, Unobtained
<1>15. ASSUME NEW c \in Calls, Bind(c) PROVE HoldsDlock'
  BY <1>15 DEF Bind
<1>16. ASSUME NEW c \in Calls, Index(c) PROVE HoldsDlock'
  BY <1>16 DEF Index
<1>17. ASSUME NEW c \in Calls, Check(c) PROVE HoldsDlock'
  BY <1>17 DEF Check
<1>18. ASSUME NEW c \in Calls, Bootstrap(c) PROVE HoldsDlock'
  BY <1>18 DEF Bootstrap
<1>19. ASSUME NEW c \in Calls, Mark(c) PROVE HoldsDlock'
  BY <1>19 DEF Mark
<1>20. ASSUME NEW c \in Calls, Rollback(c) PROVE HoldsDlock'
  BY <1>20 DEF Rollback
<1>21. ASSUME NEW c \in Calls, Exec(c) PROVE HoldsDlock'
  BY <1>21 DEF Exec
<1>22. ASSUME NEW c \in Calls, Cancel(c) PROVE HoldsDlock'
  BY <1>22 DEF Cancel
<1>23. ASSUME NEW r \in Replicas, Crash(r) PROVE HoldsDlock'
  BY <1>23 DEF Crash, Killed, ServedBy, Active
<1>24. ASSUME NEW s \in Sandboxes, CloudCreates(s) PROVE HoldsDlock'
  BY <1>24 DEF CloudCreates
<1>25. ASSUME NEW s \in Sandboxes, Vanish(s) PROVE HoldsDlock'
  BY <1>25 DEF Vanish
<1>26. ASSUME NEW k \in Keys, ExpireKey(k) PROVE HoldsDlock'
  BY <1>26 DEF ExpireKey
<1>27. ASSUME NEW k \in Keys, ExpireDlock(k) PROVE HoldsDlock'
  BY <1>27 DEF ExpireDlock
<1>28. CASE UNCHANGED vars
  BY <1>28 DEF vars
<1>29. QED
  BY <1>1, <1>2, <1>3, <1>4, <1>5, <1>6, <1>7, <1>8, <1>9, <1>10, <1>11,
     <1>12, <1>13, <1>14, <1>15, <1>16, <1>17, <1>18, <1>19, <1>20, <1>21,
     <1>22, <1>23, <1>24, <1>25, <1>26, <1>27, <1>28
     DEF Next, Serve, Locking, AwaitDlock, Reusing, CreatingStep, SettingUp, Environment, AllEnded

\* What the locks are worth, on every replica and, if there is one that can be
\* relied on, in the cluster.
Locked == NoneYet /\ HoldsLocalLock /\ (ClusterLock => HoldsDlock)

\* No call is inside a lock at first.
LEMMA LockedInit == Init => Locked
BY NoneYetInit, LocalLockInit, DlockInit DEF Locked

\* No step takes a lock away from a call that is inside.
LEMMA LockedStep == TypeInv /\ Locked /\ [Next]_vars => Locked'
<1>1. TypeInv /\ Locked /\ [Next]_vars => NoneYet' /\ HoldsLocalLock'
  BY NoneYetStep, LocalLockStep DEF Locked
<1>2. TypeInv /\ Locked /\ [Next]_vars /\ ClusterLock => HoldsDlock'
  BY DlockStep DEF Locked
<1>3. QED
  BY <1>1, <1>2 DEF Locked

\* Two calls of one Session are never both inside.
Alone == \A c, d \in Calls : KeyOf[c] = KeyOf[d] /\ InLock(c) /\ InLock(d) => c = d

\* The cluster lock sees to that if it can be relied on, the asyncio lock if all
\* calls of a Session meet in it.
LEMMA AloneHolds == ClusterLock \/ OneReplica => (Locked => Alone)
<1>1. HoldsDlock => Alone
  BY DEF HoldsDlock, Alone
<1>2. HoldsLocalLock /\ OneReplica => Alone
  BY DEF HoldsLocalLock, LocalLock, OneReplica, Alone, InLock, Critical
<1>3. QED
  BY <1>1, <1>2 DEF Locked

\* With a reliable cluster lock, or on a single replica, one call of a Session is
\* inside at a time.
THEOREM ClusterMutexHolds == ClusterLock \/ OneReplica => (Spec => []ClusterMutex)
<1>1. SUFFICES ASSUME ClusterLock \/ OneReplica PROVE Spec => []ClusterMutex
  OBVIOUS
<1>2. Locked => ClusterMutex
  BY <1>1, AloneHolds DEF Alone, InLock, ClusterMutex
<1>3. QED
  BY TypeInit, TypeStep, LockedInit, LockedStep, <1>2, PTL DEF Spec

-----------------------------------------------------------------------------
\* Calls of a Session exclude each other, and Redis does what it is told.
ReliableLock == (ClusterLock \/ OneReplica) /\ "redis" \notin Faults

\* What the lock protects: between the lookup and the binding of a key, the
\* key names what the call read there, or nothing.
KeyAsRead ==
    \A c \in Calls :
        /\ pc[c] = "slide" => fwd[KeyOf[c]] \in {cur[c], NoSandbox}
        /\ pc[c] \in Creating \cup {"bind"} => fwd[KeyOf[c]] = NoSandbox

\* No call has read a key yet.
LEMMA KeyAsReadInit == Init => KeyAsRead
BY DEF Init, KeyAsRead, Creating

\* Only a call inside the lock of a key writes it; besides, it may expire.
LEMMA KeyAsReadStep ==
    ReliableLock /\ TypeInv /\ Locked /\ KeyAsRead /\ [Next]_vars => KeyAsRead'
<1> SUFFICES ASSUME ReliableLock, TypeInv, Alone, KeyAsRead, [Next]_vars
             PROVE  KeyAsRead'
  BY AloneHolds DEF ReliableLock
<1> USE RoutingAssumption, SentinelAssumption
    DEF ReliableLock, TypeInv, TypeOK, Alone, InLock, KeyAsRead, callVars, redisVars,
        cloudVars, Inside, Creating, Setup, Goto, Fault
<1>1. ASSUME NEW c \in Calls, Arrive(c) PROVE KeyAsRead'
  BY <1>1 DEF Arrive
<1>2. ASSUME NEW c \in Calls, TakeLock(c) PROVE KeyAsRead'
  BY <1>2 DEF TakeLock, AfterLocalLock
<1>3. ASSUME NEW c \in Calls, TakeDlock(c) PROVE KeyAsRead'
  BY <1>3 DEF TakeDlock
<1>4. ASSUME NEW c \in Calls, DlockTimesOut(c) PROVE KeyAsRead'
  BY <1>4 DEF DlockTimesOut
<1>5. ASSUME NEW c \in Calls, DlockErrs(c) PROVE KeyAsRead'
  BY <1>5 DEF DlockErrs
<1>6. ASSUME NEW c \in Calls, Leave(c) PROVE KeyAsRead'
  BY <1>6 DEF Leave
<1>7. ASSUME NEW c \in Calls, LookUp(c) PROVE KeyAsRead'
  BY <1>7 DEF LookUp, SessionKey
<1>8. ASSUME NEW c \in Calls, Slide(c) PROVE KeyAsRead'
  BY <1>8 DEF Slide, Written, SessionKey, KeySet
<1>9. ASSUME NEW c \in Calls, Ensure(c) PROVE KeyAsRead'
  BY <1>9 DEF Ensure
<1>10. ASSUME NEW c \in Calls, Purge(c) PROVE KeyAsRead'
  BY <1>10 DEF Purge, Written, SessionKey, KeyCleared
<1>11. ASSUME NEW c \in Calls, Prepare(c) PROVE KeyAsRead'
  BY <1>11 DEF Prepare
<1>12. ASSUME NEW c \in Calls, Provision(c) PROVE KeyAsRead'
  BY <1>12 DEF Provision, Unobtained
<1>13. ASSUME NEW c \in Calls, SetPolicy(c) PROVE KeyAsRead'
  BY <1>13 DEF SetPolicy
<1>14. ASSUME NEW c \in Calls, CreateTimesOut(c) PROVE KeyAsRead'
  BY <1>14 DEF CreateTimesOut, Unobtained
<1>15. ASSUME NEW c \in Calls, Bind(c) PROVE KeyAsRead'
  BY <1>15 DEF Bind, Written, SessionKey, KeySet
<1>16. ASSUME NEW c \in Calls, Index(c) PROVE KeyAsRead'
  BY <1>16 DEF Index
<1>17. ASSUME NEW c \in Calls, Check(c) PROVE KeyAsRead'
  BY <1>17 DEF Check
<1>18. ASSUME NEW c \in Calls, Bootstrap(c) PROVE KeyAsRead'
  BY <1>18 DEF Bootstrap
<1>19. ASSUME NEW c \in Calls, Mark(c) PROVE KeyAsRead'
  BY <1>19 DEF Mark
<1>20. ASSUME NEW c \in Calls, Rollback(c) PROVE KeyAsRead'
  BY <1>20 DEF Rollback, Written, SessionKey, KeyCleared
<1>21. ASSUME NEW c \in Calls, Exec(c) PROVE KeyAsRead'
  BY <1>21 DEF Exec
<1>22. ASSUME NEW c \in Calls, Cancel(c) PROVE KeyAsRead'
  BY <1>22 DEF Cancel
<1>23. ASSUME NEW r \in Replicas, Crash(r) PROVE KeyAsRead'
  BY <1>23 DEF Crash, Killed, ServedBy, Active
<1>24. ASSUME NEW s \in Sandboxes, CloudCreates(s) PROVE KeyAsRead'
  BY <1>24 DEF CloudCreates
<1>25. ASSUME NEW s \in Sandboxes, Vanish(s) PROVE KeyAsRead'
  BY <1>25 DEF Vanish
<1>26. ASSUME NEW k \in Keys, ExpireKey(k) PROVE KeyAsRead'
  BY <1>26 DEF ExpireKey
<1>27. ASSUME NEW k \in Keys, ExpireDlock(k) PROVE KeyAsRead'
  BY <1>27 DEF ExpireDlock
<1>28. CASE UNCHANGED vars
  BY <1>28 DEF vars
<1>29. QED
  BY <1>1, <1>2, <1>3, <1>4, <1>5, <1>6, <1>7, <1>8, <1>9, <1>10, <1>11,
     <1>12, <1>13, <1>14, <1>15, <1>16, <1>17, <1>18, <1>19, <1>20, <1>21,
     <1>22, <1>23, <1>24, <1>25, <1>26, <1>27, <1>28
     DEF Next, Serve, Locking, AwaitDlock, Reusing, CreatingStep, SettingUp, Environment, AllEnded

\* A write to a key leaves it as the writing call read it, or clears it.
LEMMA RebindStep ==
    ReliableLock /\ TypeInv /\ KeyAsRead /\ [Next]_vars
      => [\A k \in Keys : fwd[k] # NoSandbox => fwd'[k] \in {fwd[k], NoSandbox}]_vars
<1> SUFFICES ASSUME ReliableLock, TypeInv, KeyAsRead, [Next]_vars, NEW k \in Keys
             PROVE  fwd'[k] \in {fwd[k], NoSandbox} \/ fwd[k] = NoSandbox
  OBVIOUS
<1> USE RoutingAssumption
    DEF ReliableLock, TypeInv, TypeOK, KeyAsRead, redisVars, Goto, Fault, Written,
        SessionKey, KeySet, KeyCleared, Creating
<1>1. ASSUME NEW c \in Calls, Slide(c) PROVE fwd'[k] \in {fwd[k], NoSandbox} \/ fwd[k] = NoSandbox
  BY <1>1 DEF Slide
<1>2. ASSUME NEW c \in Calls, Bind(c) PROVE fwd'[k] \in {fwd[k], NoSandbox} \/ fwd[k] = NoSandbox
  BY <1>2 DEF Bind
<1>3. ASSUME NEW c \in Calls, Purge(c) \/ Rollback(c)
      PROVE  fwd'[k] \in {fwd[k], NoSandbox}
  BY <1>3 DEF Purge, Rollback
<1>4. ASSUME NEW e \in Keys, ExpireKey(e) PROVE fwd'[k] \in {fwd[k], NoSandbox}
  BY <1>4 DEF ExpireKey
<1>5. ASSUME fwd' = fwd PROVE fwd'[k] \in {fwd[k], NoSandbox}
  BY <1>5
<1>6. QED
  BY <1>1, <1>2, <1>3, <1>4, <1>5
     DEF Next, Serve, Locking, AwaitDlock, Reusing, CreatingStep, SettingUp, Environment,
         AllEnded, vars, callVars, cloudVars, Arrive, TakeLock, TakeDlock, DlockTimesOut, DlockErrs,
         Leave, LookUp, Ensure, Prepare, Provision, SetPolicy, CreateTimesOut, Index,
         Check, Bootstrap, Mark, Exec, Cancel, Crash, Killed, CloudCreates, Vanish,
         ExpireDlock

\* With a reliable lock, a Session that has a sandbox keeps it until its key is
\* cleared or expires, whatever ARM, the sandboxes and the replicas do.
THEOREM NeverRebindHolds == ReliableLock => (Spec => NeverRebind)
<1>1. SUFFICES ASSUME ReliableLock PROVE Spec => NeverRebind
  OBVIOUS
<1>2. TypeInv /\ Locked /\ KeyAsRead /\ [Next]_vars => KeyAsRead'
  BY <1>1, KeyAsReadStep
<1>3. TypeInv /\ KeyAsRead /\ [Next]_vars
        => [\A k \in Keys : fwd[k] # NoSandbox => fwd'[k] \in {fwd[k], NoSandbox}]_vars
  BY <1>1, RebindStep
<1>4. QED
  BY TypeInit, TypeStep, LockedInit, LockedStep, KeyAsReadInit, <1>2, <1>3, PTL
     DEF Spec, NeverRebind

-----------------------------------------------------------------------------
\* No call is torn out before its sandbox is indexed, and not both ways back to a
\* sandbox fail (see the run "abandoned" for creates that are given up).
NothingAbandoned ==
    /\ "cancel" \notin Faults /\ "crash" \notin Faults
    /\ "arm" \notin Faults \/ "redis" \notin Faults

\* A sandbox that is being created is known to the call that creates it only.
Unshared ==
    \A c \in Calls : pc[c] \in {"provision", "policy"} =>
        /\ \A d \in Calls : cur[d] = cur[c] => d = c
        /\ \A k \in Keys : fwd[k] # cur[c]

\* Nothing is being created at first.
LEMMA UnsharedInit == Init => Unshared
BY DEF Init, Unshared

\* A call reads an id from a routing key only, and keys name bound sandboxes.
LEMMA UnsharedStep ==
    TypeInv /\ NoneYet /\ OwnSandbox /\ Unshared /\ [Next]_vars => Unshared'
<1> SUFFICES ASSUME TypeInv, NoneYet, OwnSandbox, Unshared, [Next]_vars PROVE Unshared'
  OBVIOUS
<1> USE RoutingAssumption, SentinelAssumption
    DEF TypeInv, TypeOK, HoldsSandbox, Holding, Setup, NoneYet, Unshared, callVars,
        redisVars, cloudVars, Goto
<1>1. ASSUME NEW c \in Calls, Arrive(c) PROVE Unshared'
  BY <1>1 DEF Arrive
<1>2. ASSUME NEW c \in Calls, TakeLock(c) PROVE Unshared'
  BY <1>2 DEF TakeLock, AfterLocalLock
<1>3. ASSUME NEW c \in Calls, TakeDlock(c) PROVE Unshared'
  BY <1>3 DEF TakeDlock
<1>4. ASSUME NEW c \in Calls, DlockTimesOut(c) PROVE Unshared'
  BY <1>4 DEF DlockTimesOut
<1>5. ASSUME NEW c \in Calls, DlockErrs(c) PROVE Unshared'
  BY <1>5 DEF DlockErrs
<1>6. ASSUME NEW c \in Calls, Leave(c) PROVE Unshared'
  BY <1>6 DEF Leave
<1>7. ASSUME NEW c \in Calls, LookUp(c) PROVE Unshared'
  <2>1. CASE Goto(c, "lookup", "slide")
    BY <1>7, <2>1 DEF LookUp, SessionKey
  <2>2. CASE Goto(c, "lookup", "prepare") /\ UNCHANGED cur
    BY <1>7, <2>2 DEF LookUp
  <2>3. QED
    BY <1>7, <2>1, <2>2 DEF LookUp
<1>8. ASSUME NEW c \in Calls, Slide(c) PROVE Unshared'
  BY <1>8 DEF Slide, Written, SessionKey, KeySet
<1>9. ASSUME NEW c \in Calls, Ensure(c) PROVE Unshared'
  BY <1>9 DEF Ensure
<1>10. ASSUME NEW c \in Calls, Purge(c) PROVE Unshared'
  BY <1>10 DEF Purge, Written, SessionKey, KeyCleared
<1>11. ASSUME NEW c \in Calls, Prepare(c) PROVE Unshared'
  <2>1. ASSUME NEW s \in Sandboxes, sbx[s] = "none", Goto(c, "prepare", "provision"),
               cur' = [cur EXCEPT ![c] = s], UNCHANGED fwd
        PROVE  Unshared'
    <3>1. \A d \in Calls : cur[d] # s
      BY <2>1 DEF OwnSandbox
    <3>2. \A k \in Keys : fwd[k] # s
      BY <2>1 DEF OwnSandbox
    <3>3. QED
      BY <2>1, <3>1, <3>2
  <2>2. CASE Goto(c, "prepare", "raise") /\ UNCHANGED <<cur, fwd>>
    BY <2>2
  <2>3. QED
    BY <1>11, <2>1, <2>2 DEF Prepare
<1>12. ASSUME NEW c \in Calls, Provision(c) PROVE Unshared'
  BY <1>12 DEF Provision, Unobtained
<1>13. ASSUME NEW c \in Calls, SetPolicy(c) PROVE Unshared'
  BY <1>13 DEF SetPolicy
<1>14. ASSUME NEW c \in Calls, CreateTimesOut(c) PROVE Unshared'
  BY <1>14 DEF CreateTimesOut, Unobtained
<1>15. ASSUME NEW c \in Calls, Bind(c) PROVE Unshared'
  BY <1>15 DEF Bind, Written, SessionKey, KeySet
<1>16. ASSUME NEW c \in Calls, Index(c) PROVE Unshared'
  BY <1>16 DEF Index
<1>17. ASSUME NEW c \in Calls, Check(c) PROVE Unshared'
  BY <1>17 DEF Check
<1>18. ASSUME NEW c \in Calls, Bootstrap(c) PROVE Unshared'
  BY <1>18 DEF Bootstrap
<1>19. ASSUME NEW c \in Calls, Mark(c) PROVE Unshared'
  BY <1>19 DEF Mark
<1>20. ASSUME NEW c \in Calls, Rollback(c) PROVE Unshared'
  BY <1>20 DEF Rollback, Written, SessionKey, KeyCleared
<1>21. ASSUME NEW c \in Calls, Exec(c) PROVE Unshared'
  BY <1>21 DEF Exec
<1>22. ASSUME NEW c \in Calls, Cancel(c) PROVE Unshared'
  BY <1>22 DEF Cancel, Critical, Active
<1>23. ASSUME NEW r \in Replicas, Crash(r) PROVE Unshared'
  BY <1>23 DEF Crash, Killed, ServedBy
<1>24. ASSUME NEW s \in Sandboxes, CloudCreates(s) PROVE Unshared'
  BY <1>24 DEF CloudCreates
<1>25. ASSUME NEW s \in Sandboxes, Vanish(s) PROVE Unshared'
  BY <1>25 DEF Vanish
<1>26. ASSUME NEW k \in Keys, ExpireKey(k) PROVE Unshared'
  BY <1>26 DEF ExpireKey
<1>27. ASSUME NEW k \in Keys, ExpireDlock(k) PROVE Unshared'
  BY <1>27 DEF ExpireDlock
<1>28. CASE UNCHANGED vars
  BY <1>28 DEF vars
<1>29. QED
  BY <1>1, <1>2, <1>3, <1>4, <1>5, <1>6, <1>7, <1>8, <1>9, <1>10, <1>11, <1>12, <1>13, <1>14,
     <1>15, <1>16, <1>17, <1>18, <1>19, <1>20, <1>21, <1>22, <1>23, <1>24, <1>25, <1>26, <1>27, <1>28
     DEF Next, Serve, Locking, AwaitDlock, Reusing, CreatingStep, SettingUp, Environment, AllEnded

\* The call that creates sandbox s still has it, or the reaper or the platform
\* can find it.
Traced(s) ==
    \/ \E c \in Calls : cur[c] = s /\ pc[c] \in {"provision", "policy", "bind", "index"}
    \/ idx[s] # NoKey
    \/ s \in policy

\* A sandbox that a call has, or could read from a routing key, leaves a trace;
\* while ARM does not err, it will be auto-deleted as soon as it can be bound.
Accounted ==
    /\ \A c \in Calls : cur[c] # NoSandbox => Traced(cur[c])
    /\ \A k \in Keys : fwd[k] # NoSandbox => Traced(fwd[k])
    /\ "arm" \notin Faults =>
         \A c \in Calls : pc[c] \in {"bind", "index"} => cur[c] \in policy

\* There is no sandbox at first.
LEMMA AccountedInit == Init => Accounted
BY SentinelAssumption DEF Init, Accounted

\* The index entry is written before the call lets go, or the policy is there; a
\* create that fails or is given up leaves nobody who has its sandbox.
LEMMA AccountedStep ==
    NothingAbandoned /\ TypeInv /\ NoneYet /\ Unshared /\ Accounted /\ [Next]_vars => Accounted'
<1> SUFFICES ASSUME NothingAbandoned, TypeInv, NoneYet, Unshared, Accounted, [Next]_vars
             PROVE  Accounted'
  OBVIOUS
<1> USE RoutingAssumption, SentinelAssumption
    DEF NothingAbandoned, TypeInv, TypeOK, HoldsSandbox, Holding, Setup, Accounted, callVars,
        redisVars, cloudVars, Goto, Fault
<1>1. ASSUME NEW c \in Calls, Arrive(c) PROVE Accounted'
  BY <1>1 DEF Traced, Arrive
<1>2. ASSUME NEW c \in Calls, TakeLock(c) PROVE Accounted'
  BY <1>2 DEF Traced, TakeLock, AfterLocalLock
<1>3. ASSUME NEW c \in Calls, TakeDlock(c) PROVE Accounted'
  BY <1>3 DEF Traced, TakeDlock
<1>4. ASSUME NEW c \in Calls, DlockTimesOut(c) PROVE Accounted'
  BY <1>4 DEF Traced, DlockTimesOut
<1>5. ASSUME NEW c \in Calls, DlockErrs(c) PROVE Accounted'
  BY <1>5 DEF Traced, DlockErrs
<1>6. ASSUME NEW c \in Calls, Leave(c) PROVE Accounted'
  BY <1>6 DEF Traced, Leave
<1>7. ASSUME NEW c \in Calls, LookUp(c) PROVE Accounted'
  <2>1. \A s \in Sandboxes : Traced(s) => Traced(s)'
    BY <1>7 DEF LookUp, Traced
  <2>2. \A d \in Calls : cur'[d] = cur[d] \/ cur'[d] = fwd[KeyOf[d]]
    BY <1>7 DEF LookUp, SessionKey
  <2>3. \A d \in Calls : pc'[d] \in {"bind", "index"} => pc'[d] = pc[d] /\ cur'[d] = cur[d]
    BY <1>7 DEF LookUp
  <2>4. UNCHANGED <<fwd, policy>>
    BY <1>7 DEF LookUp
  <2>5. QED
    BY <2>1, <2>2, <2>3, <2>4
<1>8. ASSUME NEW c \in Calls, Slide(c) PROVE Accounted'
  <2>1. \A s \in Sandboxes : Traced(s) => Traced(s)'
    BY <1>8 DEF Slide, Traced
  <2>2. \A d \in Calls : cur'[d] = cur[d] \/ cur'[d] = NoSandbox
    BY <1>8 DEF Slide
  <2>3. \A k \in Keys : fwd'[k] = fwd[k] \/ fwd'[k] = cur[c]
    BY <1>8 DEF Slide, Written, SessionKey, KeySet
  <2>4. \A d \in Calls : pc'[d] \in {"bind", "index"} => pc'[d] = pc[d] /\ cur'[d] = cur[d]
    BY <1>8 DEF Slide
  <2>5. UNCHANGED policy
    BY <1>8 DEF Slide
  <2>6. QED
    BY <2>1, <2>2, <2>3, <2>4, <2>5
<1>9. ASSUME NEW c \in Calls, Ensure(c) PROVE Accounted'
  BY <1>9 DEF Traced, Ensure
<1>10. ASSUME NEW c \in Calls, Purge(c) PROVE Accounted'
  BY <1>10 DEF Traced, Purge, Written, SessionKey, KeyCleared
<1>11. ASSUME NEW c \in Calls, Prepare(c) PROVE Accounted'
  <2>1. ASSUME NEW s \in Sandboxes, Goto(c, "prepare", "provision"),
               cur' = [cur EXCEPT ![c] = s], UNCHANGED <<fwd, idx, policy>>
        PROVE  Accounted'
    <3>1. Traced(s)'
      BY <2>1 DEF Traced
    <3>2. \A t \in Sandboxes : Traced(t) => Traced(t)'
      BY <2>1 DEF Traced
    <3>3. QED
      BY <2>1, <3>1, <3>2
  <2>2. ASSUME Goto(c, "prepare", "raise"), UNCHANGED <<cur, fwd, idx, policy>>
        PROVE  Accounted'
    BY <2>2 DEF Traced
  <2>3. QED
    BY <1>11, <2>1, <2>2 DEF Prepare
<1>12. ASSUME NEW c \in Calls, Provision(c) PROVE Accounted'
  <2>1. CASE Goto(c, "provision", "policy") /\ UNCHANGED cur
    BY <1>12, <2>1 DEF Provision, Traced
  <2>2. CASE Goto(c, "provision", "raise") /\ Unobtained(c)
    <3>1. \A s \in Sandboxes \ {cur[c]} : Traced(s) => Traced(s)'
      BY <1>12, <2>2 DEF Provision, Unobtained, Traced
    <3>2. \A d \in Calls : cur'[d] = NoSandbox \/ (cur'[d] = cur[d] /\ cur[d] # cur[c])
      BY <2>2 DEF Unobtained, Unshared
    <3>3. \A k \in Keys : fwd'[k] = fwd[k] /\ fwd[k] # cur[c]
      BY <1>12, <2>2 DEF Provision, Unshared
    <3>4. \A d \in Calls : pc'[d] \in {"bind", "index"} => pc'[d] = pc[d] /\ cur'[d] = cur[d]
      BY <2>2 DEF Unobtained
    <3>5. UNCHANGED policy
      BY <1>12 DEF Provision
    <3>6. QED
      BY <3>1, <3>2, <3>3, <3>4, <3>5
  <2>3. QED
    BY <1>12, <2>1, <2>2 DEF Provision
<1>13. ASSUME NEW c \in Calls, SetPolicy(c) PROVE Accounted'
  BY <1>13 DEF Traced, SetPolicy
<1>14. ASSUME NEW c \in Calls, CreateTimesOut(c) PROVE Accounted'
  <2>1. \A s \in Sandboxes \ {cur[c]} : Traced(s) => Traced(s)'
    BY <1>14 DEF CreateTimesOut, Unobtained, Traced
  <2>2. \A d \in Calls : cur'[d] = NoSandbox \/ (cur'[d] = cur[d] /\ cur[d] # cur[c])
    BY <1>14 DEF CreateTimesOut, Creating, Unobtained, Unshared, NoneYet
  <2>3. \A k \in Keys : fwd'[k] = fwd[k] /\ (fwd[k] # NoSandbox => fwd[k] # cur[c])
    BY <1>14 DEF CreateTimesOut, Creating, Unshared, NoneYet
  <2>4. \A d \in Calls : pc'[d] \in {"bind", "index"} => pc'[d] = pc[d] /\ cur'[d] = cur[d]
    BY <1>14 DEF CreateTimesOut, Unobtained
  <2>5. UNCHANGED policy
    BY <1>14 DEF CreateTimesOut
  <2>6. QED
    BY <2>1, <2>2, <2>3, <2>4, <2>5
<1>15. ASSUME NEW c \in Calls, Bind(c) PROVE Accounted'
  <2>1. \A s \in Sandboxes : Traced(s) => Traced(s)'
    BY <1>15 DEF Bind, Traced
  <2>2. \A k \in Keys : fwd'[k] = fwd[k] \/ fwd'[k] = cur[c]
    BY <1>15 DEF Bind, Written, SessionKey, KeySet
  <2>3. \A d \in Calls : pc'[d] \in {"bind", "index"} => pc[d] \in {"bind", "index"}
    BY <1>15 DEF Bind
  <2>4. UNCHANGED <<cur, policy>>
    BY <1>15 DEF Bind
  <2>5. QED
    BY <2>1, <2>2, <2>3, <2>4
<1>16. ASSUME NEW c \in Calls, Index(c) PROVE Accounted'
  <2>1. UNCHANGED <<cur, fwd, policy>>
    BY <1>16 DEF Index
  <2>2. \A d \in Calls : pc'[d] \in {"bind", "index"} => pc[d] \in {"bind", "index"}
    BY <1>16 DEF Index
  <2>3. Traced(cur[c])'
    <3>1. CASE Fault("redis")
      BY <1>16, <2>1, <3>1 DEF Index, Traced
    <3>2. CASE ~Fault("redis")
      BY <1>16, <3>2 DEF Index, Written, IndexMeta, Traced
    <3>3. QED
      BY <3>1, <3>2
  <2>4. \A s \in Sandboxes : Traced(s) /\ s # cur[c] => Traced(s)'
    BY <1>16 DEF Index, Written, IndexMeta, Traced
  <2>5. QED
    BY <2>1, <2>2, <2>3, <2>4
<1>17. ASSUME NEW c \in Calls, Check(c) PROVE Accounted'
  <2>1. \A s \in Sandboxes : Traced(s) => Traced(s)'
    BY <1>17 DEF Check, Traced
  <2>2. \A d \in Calls : pc'[d] \in {"bind", "index"} => pc[d] \in {"bind", "index"}
    BY <1>17 DEF Check
  <2>3. UNCHANGED <<cur, fwd, policy>>
    BY <1>17 DEF Check
  <2>4. QED
    BY <2>1, <2>2, <2>3
<1>18. ASSUME NEW c \in Calls, Bootstrap(c) PROVE Accounted'
  BY <1>18 DEF Traced, Bootstrap
<1>19. ASSUME NEW c \in Calls, Mark(c) PROVE Accounted'
  BY <1>19 DEF Traced, Mark
<1>20. ASSUME NEW c \in Calls, Rollback(c) PROVE Accounted'
  BY <1>20 DEF Traced, Rollback, Written, SessionKey, KeyCleared
<1>21. ASSUME NEW c \in Calls, Exec(c) PROVE Accounted'
  BY <1>21 DEF Traced, Exec
<1>22. ASSUME NEW c \in Calls, Cancel(c) PROVE Accounted'
  BY <1>22 DEF Traced, Cancel
<1>23. ASSUME NEW r \in Replicas, Crash(r) PROVE Accounted'
  BY <1>23 DEF Traced, Crash
<1>24. ASSUME NEW s \in Sandboxes, CloudCreates(s) PROVE Accounted'
  BY <1>24 DEF Traced, CloudCreates
<1>25. ASSUME NEW s \in Sandboxes, Vanish(s) PROVE Accounted'
  BY <1>25 DEF Traced, Vanish
<1>26. ASSUME NEW k \in Keys, ExpireKey(k) PROVE Accounted'
  BY <1>26 DEF Traced, ExpireKey
<1>27. ASSUME NEW k \in Keys, ExpireDlock(k) PROVE Accounted'
  BY <1>27 DEF Traced, ExpireDlock
<1>28. CASE UNCHANGED vars
  BY <1>28 DEF vars, Traced
<1>29. QED
  BY <1>1, <1>2, <1>3, <1>4, <1>5, <1>6, <1>7, <1>8, <1>9, <1>10, <1>11, <1>12, <1>13, <1>14,
     <1>15, <1>16, <1>17, <1>18, <1>19, <1>20, <1>21, <1>22, <1>23, <1>24, <1>25, <1>26, <1>27, <1>28
     DEF Next, Serve, Locking, AwaitDlock, Reusing, CreatingStep, SettingUp, Environment, AllEnded

\* However many calls create sandboxes for one Session at once, whoever binds and
\* rolls back over whom, and whatever ARM and create_timeout cut short: a running
\* sandbox that a call has obtained can be found and deleted.
THEOREM ReclaimableHolds == NothingAbandoned => (Spec => []Reclaimable)
<1>1. SUFFICES ASSUME NothingAbandoned PROVE Spec => []Reclaimable
  OBVIOUS
<1>2. TypeInv /\ NoneYet /\ Unshared /\ Accounted /\ [Next]_vars => Accounted'
  BY <1>1, AccountedStep
<1>3. Accounted => Reclaimable
  BY SentinelAssumption
     DEF Accounted, Traced, Reclaimable, InUse, Active, Critical, Inside, Creating, Setup
<1>4. QED
  BY TypeInit, TypeStep, NoneYetInit, NoneYetStep, OwnInit, OwnStep, UnsharedInit,
     UnsharedStep, AccountedInit, <1>2, <1>3, PTL DEF Spec
=============================================================================
