----------------------- MODULE SandboxLifecycleProofs -----------------------
(***************************************************************************)
(* The reaper beside the routing, for every number of calls, replicas,     *)
(* Sessions, groups and sandboxes: what it may not do to the calls it runs *)
(* beside, what it may not lose, and that all that is proved of the        *)
(* routing alone (SandboxManagerProofs, StickySessionProofs) still holds.  *)
(***************************************************************************)
EXTENDS LockTakeover, SandboxLifecycle, StickySessionProofs, FiniteSetTheorems

-----------------------------------------------------------------------------
\* A step of a call or of the services: the reapers keep still, but for the one
\* that the first call on a replica starts.
Served ==
    /\ [Next]_vars
    /\ \A r \in Replicas : rpc[r] # "off" => rpc'[r] = rpc[r]
    /\ \A r \in Replicas : rpc[r] = "off" => rpc'[r] \in {"off", "sleep"}
    /\ rpc' \in [Replicas -> ReaperPCs]
    /\ UNCHANGED <<lease, leads, overdue, groups, todo, rcur, rmeta>>

\* All that the reapers, ARM and the end of an idle replica do to the routing:
\* sandboxes are deleted, at once, in time or not after all, and index entries
\* removed.
Reaps ==
    /\ UNCHANGED <<pc, cur, got, dlock, fwd, flag, label, ready, policy>>
    /\ \A c \in Calls : pc[c] \in Critical => LocalLock(c)' = LocalLock(c)
    /\ locks' \in [Replicas -> [Keys -> Calls \cup {NoCall}]]
    /\ \A r \in Replicas, k \in Keys : locks'[r][k] \in {locks[r][k], NoCall}
    /\ sbx' \in [Sandboxes -> SandboxStates]
    /\ \A s \in Sandboxes : \/ sbx'[s] = sbx[s]
                            \/ sbx[s] \in {"creating", "running"} /\ sbx'[s] \in {"deleting", "deleted"}
                            \/ sbx[s] = "deleting" /\ sbx'[s] \in {"running", "deleted"}
    /\ idx' \in [Sandboxes -> Keys \cup {NoKey}]
    /\ \A s \in Sandboxes : idx'[s] \in {idx[s], NoKey}

\* The part of LifeTypeOK that is about the reapers.
ReaperTypeOK ==
    /\ rpc \in [Replicas -> ReaperPCs]
    /\ lease \in Replicas \cup {NoReplica}
    /\ leads \subseteq Replicas
    /\ overdue \subseteq leads
    /\ groups \in [Replicas -> SUBSET Groups]
    /\ todo \in [Replicas -> SUBSET Sandboxes]
    /\ rcur \in [Replicas -> Sandboxes \cup {NoSandbox}]
    /\ rmeta \in [Replicas -> Keys \cup {NoKey}]

LifeTypeInv == TypeInv /\ ReaperTypeOK

\* Every step is one of the routing, one of a reaper, or a replica's or a timer's.
LEMMA LifeCases ==
    ASSUME LifeTypeInv, [LifeNext]_lifeVars
    PROVE  \/ Served
           \/ \E r \in Replicas : ReaperStep(r) \/ CrashAll(r)
           \/ (\E s \in Sandboxes : CloudDeletes(s) \/ AutoDelete(s)) \/ LeaseExpires
<1> USE DEF Served, LifeTypeInv, ReaperTypeOK
<1>1. ASSUME NEW c \in Calls, ArriveAndReap(c) PROVE Served
  <2>1. [Next]_vars
    BY <1>1 DEF ArriveAndReap, Next
  <2>2. QED
    BY <1>1, <2>1, RoutingAssumption DEF ArriveAndReap, ReaperPCs
<1>2. ASSUME NEW c \in Calls, Serve(c), UNCHANGED reaperVars PROVE Served
  BY <1>2 DEF Next, reaperVars
<1>3. ASSUME NEW c \in Calls, Cancel(c), UNCHANGED reaperVars PROVE Served
  BY <1>3 DEF Next, Environment, reaperVars
<1>4. ASSUME NEW s \in Sandboxes, CloudCreates(s) \/ Vanish(s), UNCHANGED reaperVars PROVE Served
  BY <1>4 DEF Next, Environment, reaperVars
<1>5. ASSUME NEW k \in Keys, ExpireKey(k) \/ ExpireDlock(k), UNCHANGED reaperVars PROVE Served
  BY <1>5 DEF Next, Environment, reaperVars
<1>6. CASE AllEnded /\ UNCHANGED reaperVars
  BY <1>6 DEF AllEnded, Next, reaperVars
<1>7. CASE UNCHANGED lifeVars
  BY <1>7 DEF lifeVars, reaperVars
<1>8. QED
  BY <1>1, <1>2, <1>3, <1>4, <1>5, <1>6, <1>7 DEF LifeNext, Services

\* What the steps that are none of the routing do to it.
LEMMA ReapsStep ==
    ASSUME LifeTypeInv,
           \/ \E r \in Replicas : ReaperStep(r) \/ CrashAll(r)
           \/ (\E s \in Sandboxes : CloudDeletes(s) \/ AutoDelete(s)) \/ LeaseExpires
    PROVE  [Next]_vars \/ Reaps
<1> USE RoutingAssumption DEF LifeTypeInv, TypeInv, TypeOK, SandboxStates, Reaps, LocalLock
<1>1. ASSUME UNCHANGED vars PROVE [Next]_vars
  BY <1>1
<1>2. ASSUME NEW r \in Replicas, Elect(r) \/ List(r) \/ Inspect(r) \/ Peek(r) \/ Resign(r)
      PROVE  UNCHANGED vars
  BY <1>2 DEF Elect, List, Inspect, Peek, Resign
<1>3. ASSUME NEW r \in Replicas, Delete(r) PROVE Reaps
  BY <1>3 DEF Delete, callVars, redisVars
<1>4. ASSUME NEW r \in Replicas, Unindex(r) PROVE Reaps
  BY <1>4 DEF Unindex, callVars, cloudVars, ReaperWrites
<1>5. ASSUME NEW r \in Replicas, CrashAll(r) PROVE [Next]_vars \/ Reaps
  <2>1. CASE ServedBy(r) # {}
    BY <1>5, <2>1 DEF CrashAll, Crash, Next, Environment
  <2>2. CASE ServedBy(r) = {}
    <3>1. pc' = pc /\ got' = got
      BY <1>5, <2>2 DEF CrashAll, Killed
    <3>2. \A c \in Calls : pc[c] \in Critical => ReplicaOf[c] # r
      BY <2>2 DEF ServedBy, Active
    <3>3. QED
      BY <1>5, <3>1, <3>2 DEF CrashAll, Killed, redisVars, cloudVars
  <2>3. QED
    BY <2>1, <2>2
<1>6. ASSUME NEW s \in Sandboxes, CloudDeletes(s) \/ AutoDelete(s) PROVE Reaps
  BY <1>6 DEF CloudDeletes, AutoDelete, callVars, redisVars
<1>7. CASE LeaseExpires
  BY <1>7 DEF LeaseExpires
<1>8. QED
  BY <1>1, <1>2, <1>3, <1>4, <1>5, <1>6, <1>7 DEF ReaperStep

\* What any step does to the routing.
LEMMA LifeStep == LifeTypeInv /\ [LifeNext]_lifeVars => [Next]_vars \/ Reaps
BY LifeCases, ReapsStep DEF Served

-----------------------------------------------------------------------------
\* No reaper runs before the first call.
LEMMA LifeTypeInit == LifeInit => LifeTypeInv
BY TypeInit, GroupAssumption DEF LifeInit, LifeTypeInv, ReaperTypeOK, ReaperPCs

\* Deletions keep the routing well typed.
LEMMA TypeReaps == TypeInv /\ Reaps => TypeInv'
BY DEF Reaps, TypeInv, TypeOK, HoldsSandbox

\* The reapers keep what they hold in range.
LEMMA ReaperTypeStep ==
    LifeTypeInv /\ [LifeNext]_lifeVars => ReaperTypeOK'
<1> SUFFICES ASSUME LifeTypeInv, [LifeNext]_lifeVars PROVE ReaperTypeOK'
  OBVIOUS
<1> USE GroupAssumption DEF LifeTypeInv, ReaperTypeOK, ReaperPCs, Pass, Move
<1>0. idx \in [Sandboxes -> Keys \cup {NoKey}]
  BY DEF TypeInv, TypeOK
<1>1. CASE Served
  BY <1>1 DEF Served
<1>2. ASSUME NEW r \in Replicas, Elect(r) PROVE ReaperTypeOK'
  BY <1>2 DEF Elect, LeaseFree
<1>3. ASSUME NEW r \in Replicas, List(r) PROVE ReaperTypeOK'
  <2>1. todo' \in [Replicas -> SUBSET Sandboxes] /\ groups' \in [Replicas -> SUBSET Groups]
    BY <1>3 DEF List, Listed, InGroup, Abandon
  <2>2. QED
    BY <1>3, <2>1 DEF List
<1>4. ASSUME NEW r \in Replicas, Inspect(r) PROVE ReaperTypeOK'
  <2>1. ASSUME NEW s \in todo[r], todo' = [todo EXCEPT ![r] = @ \ {s}],
               UNCHANGED <<lease, leads, overdue, groups>>,
               \/ /\ rpc' = [rpc EXCEPT ![r] = "peek"]
                  /\ rcur' = [rcur EXCEPT ![r] = s]
                  /\ rmeta' = [rmeta EXCEPT ![r] = idx[s]]
               \/ UNCHANGED <<rpc, rcur, rmeta>>
        PROVE  ReaperTypeOK'
    <3>1. s \in Sandboxes /\ idx[s] \in Keys \cup {NoKey}
      BY <1>0
    <3>2. todo' \in [Replicas -> SUBSET Sandboxes]
      BY <2>1
    <3>3. QED
      BY <2>1, <3>1, <3>2
  <2>2. ASSUME UNCHANGED <<rcur, rmeta, lease, leads, overdue, groups>>,
               \E p \in ReaperPCs : rpc' = [rpc EXCEPT ![r] = p] \/ rpc' = rpc,
               todo' = todo \/ Abandon(r)
        PROVE  ReaperTypeOK'
    BY <2>2 DEF Abandon
  <2>3. QED
    BY <1>4, <2>1, <2>2 DEF Inspect
<1>5. ASSUME NEW r \in Replicas, Peek(r) PROVE ReaperTypeOK'
  <2>1. rpc' \in [Replicas -> ReaperPCs]
    BY <1>5 DEF Peek, Verdict
  <2>2. todo' \in [Replicas -> SUBSET Sandboxes]
    BY <1>5 DEF Peek, Abandon
  <2>3. QED
    BY <1>5, <2>1, <2>2 DEF Peek, Onward
<1>6. ASSUME NEW r \in Replicas, Delete(r) PROVE ReaperTypeOK'
  <2>1. rpc' \in [Replicas -> ReaperPCs]
    BY <1>6 DEF Delete
  <2>2. todo' \in [Replicas -> SUBSET Sandboxes]
    BY <1>6 DEF Delete, Abandon
  <2>3. QED
    BY <1>6, <2>1, <2>2 DEF Delete, Onward
<1>7. ASSUME NEW r \in Replicas, Unindex(r) PROVE ReaperTypeOK'
  BY <1>7 DEF Unindex, Abandon, Onward
<1>8. ASSUME NEW r \in Replicas, Resign(r) PROVE ReaperTypeOK'
  BY <1>8 DEF Resign, ReaperWrites, Resigned
<1>9. ASSUME NEW r \in Replicas, CrashAll(r) PROVE ReaperTypeOK'
  BY <1>9 DEF CrashAll, Onward
<1>10. ASSUME NEW s \in Sandboxes, CloudDeletes(s) \/ AutoDelete(s) PROVE ReaperTypeOK'
  BY <1>10 DEF CloudDeletes, AutoDelete, reaperVars
<1>11. CASE LeaseExpires
  BY <1>11 DEF LeaseExpires
<1>12. QED
  BY LifeCases, <1>1, <1>2, <1>3, <1>4, <1>5, <1>6, <1>7, <1>8, <1>9, <1>10, <1>11 DEF ReaperStep

\* Every step keeps everything in range.
LEMMA LifeTypeStep == LifeTypeInv /\ [LifeNext]_lifeVars => LifeTypeInv'
BY LifeStep, TypeStep, TypeReaps, ReaperTypeStep DEF LifeTypeInv

\* Every variable of the calls, the services and the reapers stays in its range,
\* whatever fails.
THEOREM LifeTypeCorrect == LifeSpec => []LifeTypeOK
<1>1. LifeTypeInv => LifeTypeOK
  BY DEF LifeTypeInv, TypeInv, ReaperTypeOK, LifeTypeOK
<1>2. QED
  BY LifeTypeInit, LifeTypeStep, <1>1, PTL DEF LifeSpec
-----------------------------------------------------------------------------
\* What a step of a call or a service does to ARM's sandboxes and to the two
\* Redis views a reaper reads: the index and the keys.
Footprint ==
    /\ \A s \in Sandboxes : sbx[s] # "none" => sbx'[s] # "none" /\ label'[s] = label[s]
    /\ \A s \in Sandboxes : Gone(s) => Gone(s)'
    /\ \A s \in Sandboxes :
         \/ idx'[s] = idx[s]
         \/ \E c \in Calls : pc[c] = "index" /\ cur[c] = s /\ idx'[s] = KeyOf[c]
    /\ \A c \in Calls : pc'[c] \in {"provision", "policy", "bind"} =>
         \/ pc[c] \in {"provision", "policy", "bind"} /\ cur'[c] = cur[c]
         \/ cur'[c] \in Sandboxes /\ sbx[cur'[c]] = "none"
    /\ \A k \in Keys :
         \/ fwd'[k] \in {fwd[k], NoSandbox}
         \/ \E c \in Calls : pc[c] \in {"slide", "bind"} /\ KeyOf[c] = k /\ fwd'[k] = cur[c]

\* Every action stays within that footprint.
LEMMA FootprintStep == TypeInv /\ [Next]_vars => Footprint
<1> SUFFICES ASSUME TypeInv, [Next]_vars PROVE Footprint
  OBVIOUS
<1> USE RoutingAssumption, SentinelAssumption
    DEF TypeInv, TypeOK, HoldsSandbox, Holding, Setup, Gone, Footprint, callVars, redisVars,
        cloudVars, Goto
<1>1. ASSUME NEW c \in Calls, Arrive(c) PROVE Footprint
  BY <1>1 DEF Arrive
<1>2. ASSUME NEW c \in Calls, TakeLock(c) PROVE Footprint
  BY <1>2 DEF TakeLock, AfterLocalLock
<1>3. ASSUME NEW c \in Calls, TakeDlock(c) PROVE Footprint
  BY <1>3 DEF TakeDlock
<1>4. ASSUME NEW c \in Calls, DlockTimesOut(c) PROVE Footprint
  BY <1>4 DEF DlockTimesOut
<1>5. ASSUME NEW c \in Calls, DlockErrs(c) PROVE Footprint
  BY <1>5 DEF DlockErrs
<1>6. ASSUME NEW c \in Calls, Leave(c) PROVE Footprint
  BY <1>6 DEF Leave
<1>7. ASSUME NEW c \in Calls, LookUp(c) PROVE Footprint
  BY <1>7 DEF LookUp
<1>8. ASSUME NEW c \in Calls, Slide(c) PROVE Footprint
  BY <1>8 DEF Slide, SessionKey, KeySet, Written
<1>9. ASSUME NEW c \in Calls, Ensure(c) PROVE Footprint
  BY <1>9 DEF Ensure
<1>10. ASSUME NEW c \in Calls, Purge(c) PROVE Footprint
  BY <1>10 DEF Purge, SessionKey, KeyCleared, Written
<1>11. ASSUME NEW c \in Calls, Prepare(c) PROVE Footprint
  BY <1>11 DEF Prepare
<1>12. ASSUME NEW c \in Calls, Provision(c) PROVE Footprint
  BY <1>12 DEF Provision, Unobtained
<1>13. ASSUME NEW c \in Calls, SetPolicy(c) PROVE Footprint
  BY <1>13 DEF SetPolicy
<1>14. ASSUME NEW c \in Calls, CreateTimesOut(c) PROVE Footprint
  BY <1>14 DEF CreateTimesOut, Unobtained
<1>15. ASSUME NEW c \in Calls, Bind(c) PROVE Footprint
  BY <1>15 DEF Bind, SessionKey, KeySet, Written
<1>16. ASSUME NEW c \in Calls, Index(c) PROVE Footprint
  BY <1>16 DEF Index, IndexMeta, Written
<1>17. ASSUME NEW c \in Calls, Check(c) PROVE Footprint
  BY <1>17 DEF Check
<1>18. ASSUME NEW c \in Calls, Bootstrap(c) PROVE Footprint
  BY <1>18 DEF Bootstrap
<1>19. ASSUME NEW c \in Calls, Mark(c) PROVE Footprint
  BY <1>19 DEF Mark
<1>20. ASSUME NEW c \in Calls, Rollback(c) PROVE Footprint
  BY <1>20 DEF Rollback, SessionKey, KeyCleared, Written
<1>21. ASSUME NEW c \in Calls, Exec(c) PROVE Footprint
  BY <1>21 DEF Exec
<1>22. ASSUME NEW c \in Calls, Cancel(c) PROVE Footprint
  BY <1>22 DEF Cancel
<1>23. ASSUME NEW r \in Replicas, Crash(r) PROVE Footprint
  BY <1>23 DEF Crash, Killed, ServedBy
<1>24. ASSUME NEW s \in Sandboxes, CloudCreates(s) PROVE Footprint
  BY <1>24 DEF CloudCreates
<1>25. ASSUME NEW s \in Sandboxes, Vanish(s) PROVE Footprint
  BY <1>25 DEF Vanish
<1>26. ASSUME NEW k \in Keys, ExpireKey(k) PROVE Footprint
  BY <1>26 DEF ExpireKey
<1>27. ASSUME NEW k \in Keys, ExpireDlock(k) PROVE Footprint
  BY <1>27 DEF ExpireDlock
<1>28. CASE UNCHANGED vars
  BY <1>28 DEF vars
<1>29. QED
  BY <1>1, <1>2, <1>3, <1>4, <1>5, <1>6, <1>7, <1>8, <1>9, <1>10, <1>11,
     <1>12, <1>13, <1>14, <1>15, <1>16, <1>17, <1>18, <1>19, <1>20, <1>21,
     <1>22, <1>23, <1>24, <1>25, <1>26, <1>27, <1>28
     DEF Next, Serve, Locking, AwaitDlock, Reusing, CreatingStep, SettingUp, Environment, AllEnded

-----------------------------------------------------------------------------
\* What a reaper has under inspection exists and was created for the Session
\* that the index named; so does everything the index still names.
Inspected ==
    /\ \A r \in Replicas : rpc[r] \in {"peek", "delete", "unindex"} =>
          rcur[r] \in Sandboxes /\ rmeta[r] \in Keys
    /\ \A r \in Replicas : rcur[r] # NoSandbox =>
          sbx[rcur[r]] # "none" /\ label[rcur[r]] = rmeta[r]
    /\ \A s \in Sandboxes : idx[s] # NoKey => sbx[s] # "none" /\ label[s] = idx[s]

\* Nothing is indexed and nothing inspected at first.
LEMMA InspectedInit == LifeInit => Inspected
BY DEF LifeInit, Init, Inspected

\* A sandbox is indexed by the call it was created for, and never forgotten by
\* ARM, whatever becomes of it.
LEMMA InspectedStep ==
    LifeTypeInv /\ OwnSandbox /\ Inspected /\ [LifeNext]_lifeVars => Inspected'
<1> SUFFICES ASSUME LifeTypeInv, OwnSandbox, Inspected, [LifeNext]_lifeVars PROVE Inspected'
  OBVIOUS
<1> USE SentinelAssumption DEF LifeTypeInv, TypeInv, TypeOK, ReaperTypeOK, Inspected
<1>1. CASE Served
  <2>1. Footprint
    BY <1>1, FootprintStep DEF Served
  <2>2. \A s \in Sandboxes : idx'[s] # NoKey => sbx'[s] # "none" /\ label'[s] = idx'[s]
    BY <2>1 DEF Footprint, OwnSandbox
  <2>3. \A r \in Replicas : rpc'[r] \in {"peek", "delete", "unindex"} => rpc[r] = rpc'[r]
    BY <1>1 DEF Served
  <2>4. QED
    BY <1>1, <2>1, <2>2, <2>3 DEF Served, Footprint
<1>2. ASSUME UNCHANGED vars, NEW r \in Replicas,
             \A q \in Replicas : q # r => rpc'[q] = rpc[q] /\ rcur'[q] = rcur[q] /\ rmeta'[q] = rmeta[q],
             \/ rcur'[r] = rcur[r] /\ rmeta'[r] = rmeta[r]
             \/ rcur'[r] = NoSandbox
             \/ \E s \in Sandboxes : idx[s] # NoKey /\ rcur'[r] = s /\ rmeta'[r] = idx[s],
             rpc'[r] \in {"peek", "delete", "unindex"} =>
                 rcur'[r] \in Sandboxes /\ rmeta'[r] \in Keys
      PROVE  Inspected'
  <2>1. UNCHANGED <<idx, sbx, label>>
    BY <1>2 DEF vars, redisVars, cloudVars
  <2>2. ASSUME NEW q \in Replicas
        PROVE  /\ rpc'[q] \in {"peek", "delete", "unindex"} =>
                      rcur'[q] \in Sandboxes /\ rmeta'[q] \in Keys
               /\ rcur'[q] # NoSandbox => sbx[rcur'[q]] # "none" /\ label[rcur'[q]] = rmeta'[q]
    <3>1. CASE q = r
      BY <1>2, <3>1
    <3>2. CASE q # r
      BY <1>2, <3>2
    <3>3. QED
      BY <3>1, <3>2
  <2>3. QED
    BY <2>1, <2>2
<1>3. ASSUME NEW r \in Replicas, Elect(r) \/ List(r) \/ Resign(r) PROVE Inspected'
  BY <1>2, <1>3 DEF Elect, List, Resign, Move
<1>4. ASSUME NEW r \in Replicas, Inspect(r) PROVE Inspected'
  <2>1. CASE \E s \in todo[r] : /\ idx[s] # NoKey
                                /\ Move(r, "inspect", "peek")
                                /\ rcur' = [rcur EXCEPT ![r] = s]
                                /\ rmeta' = [rmeta EXCEPT ![r] = idx[s]]
    <3>1. PICK s \in Sandboxes : /\ idx[s] # NoKey
                                 /\ Move(r, "inspect", "peek")
                                 /\ rcur' = [rcur EXCEPT ![r] = s]
                                 /\ rmeta' = [rmeta EXCEPT ![r] = idx[s]]
      BY <2>1
    <3>2. QED
      BY <1>2, <1>4, <3>1 DEF Inspect, Move
  <2>2. CASE UNCHANGED <<rpc, rcur, rmeta>>
    BY <1>2, <1>4, <2>2 DEF Inspect
  <2>3. CASE /\ Move(r, "inspect", IF groups[r] = {} THEN "resign" ELSE "list")
             /\ UNCHANGED <<rcur, rmeta>>
    BY <1>2, <1>4, <2>3 DEF Inspect, Move
  <2>4. QED
    BY <1>4, <2>1, <2>2, <2>3 DEF Inspect
<1>5. ASSUME NEW r \in Replicas, Peek(r) PROVE Inspected'
  <2>1. CASE rpc'[r] = "inspect"
    BY <1>2, <1>5, <2>1 DEF Peek, Move, Onward
  <2>2. CASE rpc'[r] # "inspect"
    <3>1. Move(r, "peek", "delete") /\ UNCHANGED <<rcur, rmeta, vars>>
      BY <1>5, <2>2 DEF Peek, Move, Verdict
    <3>2. QED
      BY <1>2, <3>1 DEF Move
  <2>3. QED
    BY <2>1, <2>2
<1>6. ASSUME NEW r \in Replicas, Delete(r) PROVE Inspected'
  <2>1. \A s \in Sandboxes : sbx[s] # "none" => sbx'[s] # "none"
    <3>1. sbx' = sbx \/ sbx' = [sbx EXCEPT ![rcur[r]] = "deleting"]
      BY <1>6 DEF Delete
    <3>2. QED
      BY <3>1
  <2>2. UNCHANGED <<idx, label>>
    BY <1>6 DEF Delete, redisVars
  <2>3. \A q \in Replicas :
          /\ rcur'[q] = NoSandbox \/ (rcur'[q] = rcur[q] /\ rmeta'[q] = rmeta[q])
          /\ rpc'[q] \in {"peek", "delete", "unindex"} =>
                rpc[q] \in {"peek", "delete", "unindex"} /\ rcur'[q] = rcur[q] /\ rmeta'[q] = rmeta[q]
    BY <1>6 DEF Delete, Move, Onward
  <2>4. QED
    BY <2>1, <2>2, <2>3
<1>7. ASSUME NEW r \in Replicas, Unindex(r) PROVE Inspected'
  <2>1. \A s \in Sandboxes : idx'[s] \in {idx[s], NoKey}
    BY <1>7 DEF Unindex, ReaperWrites
  <2>2. QED
    BY <1>7, <2>1 DEF Unindex, Move, Onward, cloudVars
<1>8. ASSUME NEW r \in Replicas, CrashAll(r) PROVE Inspected'
  BY <1>8 DEF CrashAll, Killed, Onward, redisVars, cloudVars
<1>9. ASSUME NEW s \in Sandboxes, CloudDeletes(s) \/ AutoDelete(s) PROVE Inspected'
  BY <1>9 DEF CloudDeletes, AutoDelete, reaperVars, redisVars
<1>10. CASE LeaseExpires
  BY <1>10 DEF LeaseExpires, vars, redisVars, cloudVars
<1>11. QED
  BY LifeCases, <1>1, <1>3, <1>4, <1>5, <1>6, <1>7, <1>8, <1>9, <1>10 DEF ReaperStep

-----------------------------------------------------------------------------
\* What is proved of the routing alone survives the reapers: no deletion
\* disturbs it.
LEMMA RoutingReaps ==
    ASSUME LifeTypeInv, Reaps
    PROVE  /\ HoldsLocalLock => HoldsLocalLock'
           /\ OwnSandbox => OwnSandbox'
           /\ LocksLeft => LocksLeft'
           /\ Locked => Locked'
           /\ Alone => Alone'
           /\ KeyAsRead => KeyAsRead'
           /\ NewIsOwn => NewIsOwn'
           /\ KeyNamesIt => KeyNamesIt'
           /\ Unflagged => Unflagged'
<1> USE SentinelAssumption DEF Reaps, LifeTypeInv, TypeInv, TypeOK
<1>1. HoldsLocalLock => HoldsLocalLock'
  BY DEF HoldsLocalLock
<1>2. OwnSandbox => OwnSandbox'
  BY DEF OwnSandbox
<1>3. Locked => Locked'
  <2>1. NoneYet => NoneYet'
    BY DEF NoneYet
  <2>2. HoldsDlock => HoldsDlock'
    BY DEF HoldsDlock, InLock
  <2>3. QED
    BY <1>1, <2>1, <2>2 DEF Locked
<1>4. Alone => Alone'
  BY DEF Alone, InLock
<1>5. KeyAsRead => KeyAsRead'
  BY DEF KeyAsRead
<1>6. NewIsOwn => NewIsOwn'
  BY DEF NewIsOwn, Active
<1>7. KeyNamesIt => KeyNamesIt'
  BY DEF KeyNamesIt, Live, HoldsSandbox, Holding
<1>8. Unflagged => Unflagged'
  BY DEF Unflagged
<1>9. LocksLeft => LocksLeft'
  BY DEF LocksLeft, LocalLocksLeft, DlocksLeft
<1>10. QED
  BY <1>1, <1>2, <1>3, <1>4, <1>5, <1>6, <1>7, <1>8, <1>9

\* The types, the owners of the sandboxes and what the reapers hold: kept by
\* every step, whatever fails.
LifeBase == LifeTypeInv /\ OwnSandbox /\ Inspected

\* It holds throughout.
LEMMA LifeBaseHolds ==
    /\ LifeInit => LifeBase
    /\ LifeBase /\ [LifeNext]_lifeVars => LifeBase'
<1>1. LifeInit => LifeBase
  BY LifeTypeInit, OwnInit, InspectedInit DEF LifeBase, LifeInit
<1>2. ASSUME LifeBase, [LifeNext]_lifeVars PROVE OwnSandbox'
  BY <1>2, LifeStep, OwnStep, RoutingReaps DEF LifeBase, LifeTypeInv
<1>3. ASSUME LifeBase, [LifeNext]_lifeVars PROVE LifeBase'
  BY <1>2, <1>3, LifeTypeStep, InspectedStep DEF LifeBase
<1>4. QED
  BY <1>1, <1>3

\* A command never runs in a sandbox of another user, Session or group, with the
\* reapers deleting beside the calls.
THEOREM LifeIsolation == LifeSpec => []Isolation
<1>1. LifeBase => Isolation
  BY DEF LifeBase, OwnSandbox, Isolation
<1>2. QED
  BY LifeBaseHolds, <1>1, PTL DEF LifeSpec

\* Two calls of one Session never both pass the asyncio lock of a replica, with a
\* reaper task on the same event loop.
THEOREM LifeLocalMutex == LifeSpec => []LocalMutex
<1>1. LifeTypeInv /\ HoldsLocalLock /\ [LifeNext]_lifeVars => HoldsLocalLock'
  BY LifeStep, LocalLockStep, RoutingReaps DEF LifeTypeInv
<1>2. LifeInit => HoldsLocalLock
  BY LocalLockInit DEF LifeInit
<1>3. HoldsLocalLock => LocalMutex
  BY DEF HoldsLocalLock, LocalLock, LocalMutex
<1>4. QED
  BY LifeTypeInit, LifeTypeStep, <1>1, <1>2, <1>3, PTL DEF LifeSpec

\* No call waits for one that is gone, with reaper tasks coming and going.
THEOREM LifeLocksLeft == LifeSpec => []LocksLeft
<1>1. LifeTypeInv /\ LocksLeft /\ [LifeNext]_lifeVars => LocksLeft'
  BY LifeStep, LocalLocksLeftStep, DlocksLeftStep, RoutingReaps DEF LifeTypeInv, LocksLeft
<1>2. LifeInit => LocksLeft
  BY LocksLeftInit DEF LifeInit
<1>3. QED
  BY LifeTypeInit, LifeTypeStep, <1>1, <1>2, PTL DEF LifeSpec

\* With a reliable cluster lock, or on a single replica, one call of a Session is
\* inside at a time, with the reapers beside them.
THEOREM LifeClusterMutex == ClusterLock \/ OneReplica => (LifeSpec => []ClusterMutex)
<1>1. SUFFICES ASSUME ClusterLock \/ OneReplica PROVE LifeSpec => []ClusterMutex
  OBVIOUS
<1>2. LifeTypeInv /\ Locked /\ [LifeNext]_lifeVars => Locked'
  BY LifeStep, LockedStep, RoutingReaps DEF LifeTypeInv
<1>3. LifeInit => Locked
  BY LockedInit DEF LifeInit
<1>4. Locked => ClusterMutex
  BY <1>1, AloneHolds DEF Alone, InLock, ClusterMutex
<1>5. QED
  BY LifeTypeInit, LifeTypeStep, <1>2, <1>3, <1>4, PTL DEF LifeSpec

\* What the routing rests on when calls of a Session exclude each other.
LEMMA LifeRoutingHolds ==
    /\ LifeInit => LifeBase /\ Base
    /\ ReliableLock /\ LifeBase /\ Base /\ [LifeNext]_lifeVars => LifeBase' /\ Base'
<1>1. LifeInit => LifeBase /\ Base
  BY LifeBaseHolds, BaseHolds DEF LifeInit
<1>2. ASSUME ReliableLock, LifeBase, Base, [LifeNext]_lifeVars PROVE LifeBase' /\ Base'
  <2>1. LifeBase'
    BY <1>2, LifeBaseHolds
  <2>2. CASE [Next]_vars
    BY <1>2, <2>1, <2>2, BaseHolds
  <2>3. CASE Reaps
    BY <1>2, <2>1, <2>3, RoutingReaps DEF Base, LifeBase, LifeTypeInv
  <2>4. QED
    BY <1>2, <2>1, <2>2, <2>3, LifeStep DEF LifeBase
<1>3. QED
  BY <1>1, <1>2

\* A client is handed over only once bootstrap.sh has succeeded in its sandbox,
\* with the reapers deleting beside the calls.
THEOREM LifeReturnsBootstrapped ==
    ReliableLock /\ NothingTornOut => (LifeSpec => []ReturnsBootstrapped)
<1> DEFINE Ready == LifeBase /\ Base /\ CallsReady /\ KeysReady
<1>1. SUFFICES ASSUME ReliableLock, NothingTornOut PROVE LifeSpec => []ReturnsBootstrapped
  OBVIOUS
<1>2. LifeInit => Ready
  BY LifeRoutingHolds, ReadyInit DEF LifeInit
<1>3. ASSUME Ready, [LifeNext]_lifeVars PROVE Ready'
  <2>1. LifeBase' /\ Base'
    BY <1>1, <1>3, LifeRoutingHolds
  <2>2. CASE [Next]_vars
    BY <1>1, <1>3, <2>1, <2>2, CallsReadyStep, KeysReadyStep
  <2>3. CASE Reaps
    <3>1. (CallsReady /\ KeysReady)'
      BY <1>3, <2>3 DEF CallsReady, KeysReady, InSetup, Reaps
    <3>2. QED
      BY <2>1, <3>1
  <2>4. QED
    BY <1>3, <2>2, <2>3, LifeStep DEF LifeBase
<1>4. Ready => ReturnsBootstrapped
  BY DEF CallsReady, ReturnsBootstrapped
<1>5. QED
  BY <1>2, <1>3, <1>4, PTL DEF LifeSpec

-----------------------------------------------------------------------------
\* A sandbox that is not bound yet is neither indexed nor under inspection.
Placed ==
    \A c \in Calls : pc[c] \in {"provision", "policy", "bind"} =>
        idx[cur[c]] = NoKey /\ \A r \in Replicas : rcur[r] # cur[c]

\* The sandbox a reaper is about to delete is not the one its Session routes to.
Deserted == \A r \in Replicas : rpc[r] = "delete" => fwd[rmeta[r]] # rcur[r]

\* No reaper inspects anything at first.
LEMMA PlacedInit == LifeInit => Placed
BY DEF LifeInit, Init, Placed

\* A reaper finds a sandbox through the index only, where it is put once bound.
LEMMA PlacedStep ==
    LifeBase /\ NewIsOwn /\ Placed /\ [LifeNext]_lifeVars => Placed'
<1> SUFFICES ASSUME LifeBase, NewIsOwn, Placed, [LifeNext]_lifeVars PROVE Placed'
  OBVIOUS
<1> USE SentinelAssumption
    DEF LifeBase, LifeTypeInv, TypeInv, TypeOK, ReaperTypeOK, Placed
<1>1. CASE Served
  <2>1. SUFFICES ASSUME NEW c \in Calls, pc'[c] \in {"provision", "policy", "bind"}
                 PROVE  idx'[cur'[c]] = NoKey /\ \A r \in Replicas : rcur[r] # cur'[c]
    BY <1>1 DEF Served
  <2>2. Footprint
    BY <1>1, FootprintStep DEF Served
  <2>3. CASE pc[c] \in {"provision", "policy", "bind"} /\ cur'[c] = cur[c]
    <3>1. cur[c] \in Sandboxes /\ idx[cur[c]] = NoKey
      BY <2>3 DEF HoldsSandbox, Holding, Setup
    <3>2. ASSUME NEW d \in Calls, pc[d] = "index", cur[d] = cur[c] PROVE FALSE
      BY <2>3, <3>2 DEF NewIsOwn, Active, Critical, Inside, Creating, Setup
    <3>3. QED
      BY <2>2, <2>3, <3>1, <3>2 DEF Footprint
  <2>4. CASE cur'[c] \in Sandboxes /\ sbx[cur'[c]] = "none"
    <3>1. idx[cur'[c]] = NoKey /\ \A r \in Replicas : rcur[r] # cur'[c]
      BY <2>4 DEF Inspected
    <3>2. ASSUME NEW d \in Calls, pc[d] = "index", cur[d] = cur'[c] PROVE FALSE
      BY <2>4, <3>2 DEF OwnSandbox
    <3>3. QED
      BY <2>2, <2>4, <3>1, <3>2 DEF Footprint
  <2>5. QED
    BY <2>1, <2>2, <2>3, <2>4 DEF Footprint
<1>2. ASSUME pc' = pc \/ \A c \in Calls : pc'[c] = pc[c] \/ pc'[c] = "failed", cur' = cur,
             \A s \in Sandboxes : idx'[s] \in {idx[s], NoKey},
             \A r \in Replicas : \/ rcur'[r] \in {rcur[r], NoSandbox}
                                 \/ rcur'[r] \in Sandboxes /\ idx[rcur'[r]] # NoKey
      PROVE  Placed'
  <2>1. \A c \in Calls : pc[c] \in {"provision", "policy", "bind"} => cur[c] \in Sandboxes
    BY DEF HoldsSandbox, Holding, Setup
  <2>2. QED
    BY <1>2, <2>1
<1>3. ASSUME NEW r \in Replicas, Elect(r) \/ List(r) \/ Resign(r) PROVE Placed'
  BY <1>2, <1>3 DEF Elect, List, Resign, vars, callVars, redisVars
<1>4. ASSUME NEW r \in Replicas, Inspect(r) PROVE Placed'
  <2>1. \/ UNCHANGED rcur
        \/ \E s \in Sandboxes : idx[s] # NoKey /\ rcur' = [rcur EXCEPT ![r] = s]
    BY <1>4 DEF Inspect
  <2>2. QED
    BY <1>2, <1>4, <2>1 DEF Inspect, vars, callVars, redisVars
<1>5. ASSUME NEW r \in Replicas, Peek(r) PROVE Placed'
  BY <1>2, <1>5 DEF Peek, Onward, vars, callVars, redisVars
<1>6. ASSUME NEW r \in Replicas, Delete(r) PROVE Placed'
  BY <1>2, <1>6 DEF Delete, Onward, callVars, redisVars
<1>7. ASSUME NEW r \in Replicas, Unindex(r) PROVE Placed'
  BY <1>2, <1>7 DEF Unindex, ReaperWrites, Onward, callVars
<1>8. ASSUME NEW r \in Replicas, CrashAll(r) PROVE Placed'
  BY <1>2, <1>8 DEF CrashAll, Killed, Onward, redisVars
<1>9. ASSUME NEW s \in Sandboxes, CloudDeletes(s) \/ AutoDelete(s) PROVE Placed'
  BY <1>2, <1>9 DEF CloudDeletes, AutoDelete, reaperVars, callVars, redisVars
<1>10. CASE LeaseExpires
  BY <1>2, <1>10 DEF LeaseExpires, vars, callVars, redisVars
<1>11. QED
  BY LifeCases, <1>1, <1>3, <1>4, <1>5, <1>6, <1>7, <1>8, <1>9, <1>10 DEF ReaperStep

\* No reaper deletes anything at first.
LEMMA DesertedInit == LifeInit => Deserted
BY DEF LifeInit, Deserted

\* Between the peek and the delete no call routes its Session back to the sandbox:
\* a lookup would have had to find the key naming it, a create to be its first.
LEMMA DesertedStep ==
    LifeBase /\ KeyNamesIt /\ Placed /\ Deserted /\ [LifeNext]_lifeVars => Deserted'
<1> SUFFICES ASSUME LifeBase, KeyNamesIt, Placed, Deserted, [LifeNext]_lifeVars PROVE Deserted'
  OBVIOUS
<1> USE SentinelAssumption
    DEF LifeBase, LifeTypeInv, TypeInv, TypeOK, ReaperTypeOK, Deserted
<1>1. CASE Served
  <2>1. SUFFICES ASSUME NEW r \in Replicas, rpc[r] = "delete" PROVE fwd'[rmeta[r]] # rcur[r]
    BY <1>1 DEF Served
  <2>2. rmeta[r] \in Keys /\ rcur[r] \in Sandboxes /\ fwd[rmeta[r]] # rcur[r]
    BY <2>1 DEF Inspected
  <2>3. Footprint
    BY <1>1, FootprintStep DEF Served
  <2>4. ASSUME NEW c \in Calls, pc[c] \in {"slide", "bind"}, KeyOf[c] = rmeta[r],
               cur[c] = rcur[r]
        PROVE  FALSE
    BY <2>2, <2>4 DEF KeyNamesIt, Bound, Placed
  <2>5. QED
    BY <2>2, <2>3, <2>4 DEF Footprint
<1>2. ASSUME fwd' = fwd, NEW r \in Replicas,
             \A q \in Replicas : q # r => rpc'[q] = rpc[q] /\ rcur'[q] = rcur[q] /\ rmeta'[q] = rmeta[q],
             rpc'[r] # "delete"
      PROVE  Deserted'
  BY <1>2
<1>3. ASSUME NEW r \in Replicas, Elect(r) \/ List(r) \/ Resign(r) PROVE Deserted'
  BY <1>2, <1>3 DEF Elect, List, Resign, Move, vars, redisVars
<1>4. ASSUME NEW r \in Replicas, Inspect(r) PROVE Deserted'
  BY <1>2, <1>4 DEF Inspect, Move, vars, redisVars
<1>5. ASSUME NEW r \in Replicas, Peek(r) PROVE Deserted'
  <2>1. CASE rpc'[r] = "delete"
    <3>1. fwd[rmeta[r]] # rcur[r] /\ UNCHANGED <<rcur, rmeta, vars>>
      BY <1>5, <2>1 DEF Peek, Move, Verdict
    <3>2. rpc' = [rpc EXCEPT ![r] = "delete"]
      BY <1>5, <2>1 DEF Peek, Move
    <3>3. QED
      BY <3>1, <3>2 DEF vars, redisVars
  <2>2. CASE rpc'[r] # "delete"
    BY <1>2, <1>5, <2>2 DEF Peek, Move, Verdict, Onward, vars, redisVars
  <2>3. QED
    BY <2>1, <2>2
<1>6. ASSUME NEW r \in Replicas, Delete(r) PROVE Deserted'
  BY <1>2, <1>6 DEF Delete, Move, Onward, redisVars
<1>7. ASSUME NEW r \in Replicas, Unindex(r) PROVE Deserted'
  BY <1>2, <1>7 DEF Unindex, Move, Onward
<1>8. ASSUME NEW r \in Replicas, CrashAll(r) PROVE Deserted'
  BY <1>2, <1>8 DEF CrashAll, Killed, Onward, redisVars
<1>9. ASSUME NEW s \in Sandboxes, CloudDeletes(s) \/ AutoDelete(s) PROVE Deserted'
  BY <1>9 DEF CloudDeletes, AutoDelete, reaperVars, redisVars
<1>10. CASE LeaseExpires
  BY <1>10 DEF LeaseExpires, vars, redisVars
<1>11. QED
  BY LifeCases, <1>1, <1>3, <1>4, <1>5, <1>6, <1>7, <1>8, <1>9, <1>10 DEF ReaperStep

-----------------------------------------------------------------------------
\* With calls that exclude each other and windows that outlast them, the routing is
\* sticky with the reapers running beside it.
LifeSticky == LifeBase /\ Sticky /\ Placed /\ Deserted

\* What a reaper asks ARM to delete is out of the hands of the calls.
LEMMA DeletesDeserted ==
    ASSUME LifeSticky, NEW r \in Replicas, Delete(r), sbx' # sbx
    PROVE  /\ \A k \in Keys : fwd[k] # rcur[r]
           /\ \A c \in Calls : cur[c] = rcur[r] => pc[c] \notin Using
<1> USE SentinelAssumption DEF LifeSticky, LifeBase, LifeTypeInv, TypeInv, TypeOK
<1>1. rpc[r] = "delete" /\ rcur[r] \in Sandboxes /\ rmeta[r] \in Keys
  BY DEF Delete, Move, Inspected
<1>2. label[rcur[r]] = rmeta[r] /\ fwd[rmeta[r]] # rcur[r]
  BY <1>1 DEF Inspected, Deserted
<1>3. Live(rcur[r])
  BY DEF Delete, Live
<1>4. \A k \in Keys : fwd[k] # rcur[r]
  BY <1>1, <1>2 DEF OwnSandbox
<1>5. ASSUME NEW c \in Calls, cur[c] = rcur[r], pc[c] \in Using PROVE FALSE
  <2>1. KeyOf[c] = rmeta[r]
    BY <1>1, <1>2, <1>5 DEF OwnSandbox
  <2>2. CASE pc[c] \in {"provision", "policy", "bind"}
    BY <1>1, <1>5, <2>2 DEF Placed
  <2>3. CASE pc[c] \notin {"provision", "policy", "bind"}
    BY <1>2, <1>3, <1>5, <2>1, <2>3 DEF Using, Sticky, KeyNamesIt, Bound, Setup
  <2>4. QED
    BY <2>2, <2>3
<1>6. QED
  BY <1>4, <1>5

\* Only a reaper has a sandbox deleted in the background.
LEMMA DeletingStep ==
    ASSUME TypeInv
    PROVE  /\ \A r \in Replicas : Delete(r) =>
                \A s \in Sandboxes : sbx'[s] = "deleting" => sbx[s] = "deleting" \/ s = rcur[r]
           /\ \A t \in Sandboxes : CloudDeletes(t) \/ AutoDelete(t) =>
                \A s \in Sandboxes : sbx'[s] = "deleting" => sbx[s] = "deleting"
<1> USE DEF TypeInv, TypeOK
<1>1. ASSUME NEW r \in Replicas, Delete(r), NEW s \in Sandboxes, sbx'[s] = "deleting"
      PROVE  sbx[s] = "deleting" \/ s = rcur[r]
  <2>1. sbx' = sbx \/ sbx' = [sbx EXCEPT ![rcur[r]] = "deleting"]
    BY <1>1 DEF Delete
  <2>2. QED
    BY <1>1, <2>1
<1>2. ASSUME NEW t \in Sandboxes, CloudDeletes(t), NEW s \in Sandboxes, sbx'[s] = "deleting"
      PROVE  sbx[s] = "deleting"
  BY <1>2 DEF CloudDeletes
<1>3. ASSUME NEW t \in Sandboxes, AutoDelete(t), NEW s \in Sandboxes, sbx'[s] = "deleting"
      PROVE  sbx[s] = "deleting"
  BY <1>3 DEF AutoDelete
<1>4. QED
  BY <1>1, <1>2, <1>3

\* It holds throughout.
LEMMA LifeStickyHolds ==
    /\ LifeInit => LifeSticky
    /\ ReliableLock /\ CallsFitWindow /\ LifeSticky /\ [LifeNext]_lifeVars => LifeSticky'
<1>1. LifeInit => LifeSticky
  BY LifeBaseHolds, StickyHolds, PlacedInit, DesertedInit DEF LifeSticky, LifeInit
<1>2. ASSUME LifeSticky, [LifeNext]_lifeVars, Reaps PROVE Undisturbed'
  <2> USE DEF LifeSticky, LifeBase, LifeTypeInv, Reaps, Undisturbed
  <2>1. UNCHANGED <<pc, cur, fwd>>
    BY <1>2
  <2>2. CASE \A s \in Sandboxes : sbx'[s] = "deleting" => sbx[s] = "deleting"
    BY <1>2, <2>1, <2>2 DEF Sticky
  <2>3. ASSUME NEW r \in Replicas, Delete(r), sbx' # sbx PROVE Undisturbed'
    <3>1. \A s \in Sandboxes : sbx'[s] = "deleting" => sbx[s] = "deleting" \/ s = rcur[r]
      BY <1>2, <2>3, DeletingStep
    <3>2. QED
      BY <1>2, <2>1, <2>3, <3>1, DeletesDeserted DEF Sticky
  <2>4. ASSUME NEW s \in Sandboxes, CloudDeletes(s) \/ AutoDelete(s)
        PROVE  \A t \in Sandboxes : sbx'[t] = "deleting" => sbx[t] = "deleting"
    BY <1>2, <2>4, DeletingStep
  <2>5. CASE Served
    BY <1>2, <2>5, UndisturbedStep DEF Served, Sticky
  <2>6. QED
    BY <1>2, LifeCases, <2>2, <2>3, <2>4, <2>5
       DEF ReaperStep, Elect, List, Inspect, Peek, Unindex, Resign, CrashAll, Killed,
           LeaseExpires, vars, cloudVars
<1>3. ASSUME ReliableLock, CallsFitWindow, LifeSticky, [LifeNext]_lifeVars PROVE LifeSticky'
  <2>1. LifeBase /\ LifeBase' /\ Sticky
    BY <1>3, LifeBaseHolds DEF LifeSticky
  <2>2. Placed' /\ Deserted'
    BY <1>3, PlacedStep, DesertedStep DEF LifeSticky, Sticky
  <2>3. CASE [Next]_vars
    BY <1>3, <2>1, <2>2, <2>3, StickyHolds DEF LifeSticky
  <2>4. CASE Reaps
    <3>1. Undisturbed'
      BY <1>2, <1>3, <2>4
    <3>2. Sticky'
      BY <2>1, <2>4, <3>1, RoutingReaps DEF LifeBase, LifeTypeInv, Sticky, Base
    <3>3. QED
      BY <2>1, <2>2, <3>2 DEF LifeSticky
  <2>5. QED
    BY <1>3, <2>1, <2>3, <2>4, LifeStep DEF LifeBase
<1>4. QED
  BY <1>1, <1>3

\* Session stickiness, with the reapers deleting beside the calls.
THEOREM LifeOneSandbox ==
    ReliableLock /\ CallsFitWindow => (LifeSpec => []OneSandboxPerSession)
<1>1. SUFFICES ASSUME ReliableLock, CallsFitWindow PROVE LifeSpec => []OneSandboxPerSession
  OBVIOUS
<1>2. LifeSticky /\ [LifeNext]_lifeVars => LifeSticky'
  BY <1>1, LifeStickyHolds
<1>3. LifeSticky => OneSandboxPerSession
  BY OneSandbox DEF LifeSticky, Sticky
<1>4. QED
  BY LifeStickyHolds, <1>2, <1>3, PTL DEF LifeSpec

\* The promise of StickySession is kept with the reapers deleting beside the
\* calls: what they delete is at most a home that is lost.
THEOREM LifeKeepsPromise == ReliableLock /\ CallsFitWindow => (LifeSpec => KeepsPromise)
<1>1. SUFFICES ASSUME ReliableLock, CallsFitWindow PROVE LifeSpec => Promise!Spec
  BY DEF KeepsPromise
<1>2. LifeSticky /\ [LifeNext]_lifeVars => LifeSticky'
  BY <1>1, LifeStickyHolds
<1>3. LifeInit => Promise!Init
  BY DEF LifeInit, Init, Promise!Init, HomeOf, HandedTo, Serving
<1>4. ASSUME Sticky, Sticky', Reaps PROVE Promise!Next
  <2>1. NoneNew /\ SameUsed
    BY <1>4 DEF NoneNew, SameUsed, Serving, InUse, Reaps
  <2>2. NoneHanded
    BY <1>4 DEF NoneHanded, HandedTo, Reaps
  <2>3. QED
    BY <1>4, <2>1, <2>2, LosesIsLose DEF Loses
<1>5. LifeSticky /\ LifeSticky' /\ [LifeNext]_lifeVars => [Promise!Next]_(Promise!promiseVars)
  <2>1. SUFFICES ASSUME LifeSticky, LifeSticky', [LifeNext]_lifeVars
                 PROVE  [Promise!Next]_(Promise!promiseVars)
    OBVIOUS
  <2>2. CASE [Next]_vars
    BY <1>1, <2>1, <2>2, PromiseStep DEF LifeSticky
  <2>3. CASE Reaps
    BY <1>4, <2>1, <2>3 DEF LifeSticky
  <2>4. QED
    BY <2>1, <2>2, <2>3, LifeStep DEF LifeSticky, LifeBase
<1>6. QED
  BY LifeStickyHolds, <1>2, <1>3, <1>5, PTL DEF LifeSpec, Promise!Spec

\* A reaper deletes on what it listed, read and peeked at some time before; even so
\* it deletes no sandbox a live Session routes to or a call relies on, with any
\* number of reapers, lease or no lease.
THEOREM SparesLiveSessionsHolds ==
    ReliableLock /\ CallsFitWindow => (LifeSpec => SparesLiveSessions)
<1>1. SUFFICES ASSUME ReliableLock, CallsFitWindow PROVE LifeSpec => SparesLiveSessions
  OBVIOUS
<1>2. LifeSticky /\ [LifeNext]_lifeVars => LifeSticky'
  BY <1>1, LifeStickyHolds
<1>3. LifeSticky /\ [LifeNext]_lifeVars =>
        [\A r \in Replicas : Delete(r) /\ sbx' # sbx =>
           /\ \A k \in Keys : fwd[k] # rcur[r]
           /\ \A c \in Calls : ~ReliesOn(c, rcur[r])]_lifeVars
  BY DeletesDeserted DEF ReliesOn, Using
<1>4. QED
  BY LifeStickyHolds, <1>2, <1>3, PTL DEF LifeSpec, SparesLiveSessions

\* A Session that has a sandbox keeps it until its key is cleared or expires,
\* with the reapers deleting beside the calls; for this no window need outlast
\* its calls.
THEOREM LifeNeverRebind == ReliableLock => (LifeSpec => NeverRebind)
<1> DEFINE Inv == LifeBase /\ Base
<1>1. SUFFICES ASSUME ReliableLock PROVE LifeSpec => NeverRebind
  OBVIOUS
<1>2. LifeInit => Inv
  BY LifeRoutingHolds
<1>3. Inv /\ [LifeNext]_lifeVars => Inv'
  BY <1>1, LifeRoutingHolds
<1>4. Inv /\ [LifeNext]_lifeVars
        => [\A k \in Keys : fwd[k] # NoSandbox => fwd'[k] \in {fwd[k], NoSandbox}]_vars
  BY <1>1, LifeStep, RebindStep DEF Base, LifeBase, LifeTypeInv, Reaps
<1>5. QED
  BY <1>2, <1>3, <1>4, PTL DEF LifeSpec, NeverRebind

-----------------------------------------------------------------------------
\* While ARM does what it has accepted, a sandbox is unindexed only once its delete
\* is under way.
DeletedFirst == \A r \in Replicas : rpc[r] = "unindex" => Gone(rcur[r])

\* No reaper unindexes anything at first.
LEMMA DeletedFirstInit == LifeInit => DeletedFirst
BY DEF LifeInit, DeletedFirst

\* A reaper goes on to the index only after an accepted delete.
LEMMA DeletedFirstStep ==
    "arm" \notin Faults /\ LifeBase /\ DeletedFirst /\ [LifeNext]_lifeVars => DeletedFirst'
<1> SUFFICES ASSUME "arm" \notin Faults, LifeBase, DeletedFirst, [LifeNext]_lifeVars
             PROVE  DeletedFirst'
  OBVIOUS
<1> USE DEF LifeBase, LifeTypeInv, TypeInv, TypeOK, ReaperTypeOK, DeletedFirst, Gone
<1>1. CASE Served
  <2>1. SUFFICES ASSUME NEW r \in Replicas, rpc[r] = "unindex" PROVE Gone(rcur[r])'
    BY <1>1 DEF Served
  <2>2. rcur[r] \in Sandboxes
    BY <2>1 DEF Inspected
  <2>3. \A s \in Sandboxes : Gone(s) => Gone(s)'
    BY <1>1, FootprintStep DEF Served, Footprint
  <2>4. QED
    BY <1>1, <2>1, <2>2, <2>3 DEF Served, Gone
<1>2. ASSUME \A s \in Sandboxes : Gone(s) => Gone(s)', NEW r \in Replicas,
             \A q \in Replicas : q # r => rpc'[q] = rpc[q] /\ rcur'[q] = rcur[q],
             rpc'[r] # "unindex"
      PROVE  DeletedFirst'
  <2>1. SUFFICES ASSUME NEW q \in Replicas, rpc'[q] = "unindex" PROVE Gone(rcur[q])'
    OBVIOUS
  <2>2. rpc[q] = "unindex" /\ rcur'[q] = rcur[q]
    BY <1>2, <2>1
  <2>3. rcur[q] \in Sandboxes
    BY <2>2 DEF Inspected
  <2>4. QED
    BY <1>2, <2>2, <2>3
<1>3. ASSUME NEW r \in Replicas, Elect(r) \/ List(r) \/ Resign(r) PROVE DeletedFirst'
  BY <1>2, <1>3 DEF Elect, List, Resign, Move, vars, cloudVars
<1>4. ASSUME NEW r \in Replicas, Inspect(r) PROVE DeletedFirst'
  BY <1>2, <1>4 DEF Inspect, Move, vars, cloudVars
<1>5. ASSUME NEW r \in Replicas, Peek(r) PROVE DeletedFirst'
  BY <1>2, <1>5 DEF Peek, Move, Verdict, Onward, vars, cloudVars
<1>6. ASSUME NEW r \in Replicas, Delete(r) PROVE DeletedFirst'
  <2>1. rcur[r] \in Sandboxes
    BY <1>6 DEF Delete, Move, Inspected
  <2>2. /\ rcur' = rcur
        /\ rpc' = [rpc EXCEPT ![r] = "unindex"]
        /\ sbx' = IF sbx[rcur[r]] \in {"creating", "running"}
                  THEN [sbx EXCEPT ![rcur[r]] = "deleting"] ELSE sbx
    BY <1>6 DEF Delete, Move, Fault
  <2>3. \A q \in Replicas : rpc[q] = "unindex" => rcur[q] \in Sandboxes
    BY DEF Inspected
  <2>4. sbx[rcur[r]] \in {"creating", "running", "deleting", "deleted"}
    BY <2>1, SentinelAssumption DEF Inspected, SandboxStates
  <2>5. QED
    BY <2>1, <2>2, <2>3, <2>4
<1>7. ASSUME NEW r \in Replicas, Unindex(r) PROVE DeletedFirst'
  BY <1>2, <1>7 DEF Unindex, Move, Onward, cloudVars
<1>8. ASSUME NEW r \in Replicas, CrashAll(r) PROVE DeletedFirst'
  BY <1>2, <1>8 DEF CrashAll, Killed, Onward, cloudVars
<1>9. ASSUME NEW s \in Sandboxes, CloudDeletes(s) \/ AutoDelete(s) PROVE DeletedFirst'
  <2>1. \A q \in Replicas : rpc[q] = "unindex" => rcur[q] \in Sandboxes
    BY DEF Inspected
  <2>2. sbx' = [sbx EXCEPT ![s] = "deleted"] /\ UNCHANGED <<rpc, rcur>>
    BY <1>9 DEF CloudDeletes, AutoDelete, Fault, reaperVars
  <2>3. QED
    BY <2>1, <2>2
<1>10. CASE LeaseExpires
  BY <1>10 DEF LeaseExpires, vars, cloudVars
<1>11. QED
  BY LifeCases, <1>1, <1>3, <1>4, <1>5, <1>6, <1>7, <1>8, <1>9, <1>10 DEF ReaperStep

\* Only Unindex takes an entry out of the index.
LEMMA UnindexStep ==
    ASSUME LifeBase, [LifeNext]_lifeVars,
           NEW s \in Sandboxes, idx[s] # NoKey, idx'[s] = NoKey
    PROVE  \E r \in Replicas : Unindex(r) /\ rcur[r] = s
<1> USE RoutingAssumption, SentinelAssumption DEF LifeBase, LifeTypeInv, TypeInv, TypeOK
<1>1. CASE Served
  BY <1>1, FootprintStep DEF Served, Footprint
<1>2. ASSUME NEW r \in Replicas, Unindex(r) PROVE rcur[r] = s
  BY <1>2 DEF Unindex, ReaperWrites
<1>3. QED
  BY LifeCases, <1>1, <1>2
     DEF ReaperStep, Elect, List, Inspect, Peek, Delete, Resign, CrashAll, Killed,
         CloudDeletes, AutoDelete, LeaseExpires, vars, redisVars

\* The index entry, the reaper's only way back to a sandbox, is kept until ARM has
\* accepted its delete, as long as ARM then does what it has accepted.
THEOREM IndexKeptUntilDeleteHolds ==
    "arm" \notin Faults => (LifeSpec => IndexKeptUntilDelete)
<1>1. SUFFICES ASSUME "arm" \notin Faults PROVE LifeSpec => IndexKeptUntilDelete
  OBVIOUS
<1>2. LifeBase /\ DeletedFirst /\ [LifeNext]_lifeVars => DeletedFirst'
  BY <1>1, DeletedFirstStep
<1>3. LifeBase /\ DeletedFirst /\ [LifeNext]_lifeVars =>
        [\A s \in Sandboxes : idx[s] # NoKey /\ idx'[s] = NoKey => sbx[s] \in {"deleting", "deleted"}]_lifeVars
  <2>1. SUFFICES ASSUME LifeBase, DeletedFirst, [LifeNext]_lifeVars, NEW s \in Sandboxes,
                        idx[s] # NoKey, idx'[s] = NoKey
                 PROVE  sbx[s] \in {"deleting", "deleted"}
    OBVIOUS
  <2>2. PICK r \in Replicas : Unindex(r) /\ rcur[r] = s
    BY <2>1, UnindexStep
  <2>3. QED
    BY <2>1, <2>2 DEF DeletedFirst, Gone, Unindex, Move
<1>4. QED
  BY LifeBaseHolds, DeletedFirstInit, <1>2, <1>3, PTL DEF LifeSpec, IndexKeptUntilDelete

-----------------------------------------------------------------------------
\* The leader lease is on, cannot be bypassed and outlasts a pass.
ReliableLease ==
    DistributedLock /\ "reapRedis" \notin Faults /\ "leaseTTL" \notin Faults

\* A reaper in its pass holds the lease: the strengthening of OneLeader that the
\* steps preserve.
Leading == \A r \in Replicas : rpc[r] \in Pass => lease = r /\ r \in leads

\* No reaper runs at first.
LEMMA LeadingInit == LifeInit => Leading
BY DEF LifeInit, Leading, Pass

\* The lease is taken when free, given back by its holder, and expires only once
\* nobody leads on it.
LEMMA LeadingStep ==
    ReliableLease /\ LifeTypeInv /\ Leading /\ [LifeNext]_lifeVars => Leading'
<1> SUFFICES ASSUME ReliableLease, LifeTypeInv, Leading, [LifeNext]_lifeVars PROVE Leading'
  OBVIOUS
<1> USE GroupAssumption DEF ReliableLease, Fault, LifeTypeInv, ReaperTypeOK, Leading, Pass
<1>1. CASE Served
  BY <1>1 DEF Served
<1>2. ASSUME UNCHANGED <<lease, leads>>, NEW r \in Replicas, rpc[r] \in Pass,
             \A q \in Replicas : q # r => rpc'[q] = rpc[q]
      PROVE  Leading'
  BY <1>2
<1>3. ASSUME NEW r \in Replicas, Elect(r) PROVE Leading'
  BY <1>3 DEF Elect, Move, LeaseFree
<1>4. ASSUME NEW r \in Replicas, List(r) \/ Inspect(r) \/ Peek(r) \/ Delete(r) \/ Unindex(r)
      PROVE  Leading'
  BY <1>2, <1>4 DEF List, Inspect, Peek, Delete, Unindex, Move
<1>5. ASSUME NEW r \in Replicas, Resign(r) PROVE Leading'
  BY <1>5 DEF Resign, Move, ReaperWrites, Resigned
<1>6. ASSUME NEW r \in Replicas, CrashAll(r) PROVE Leading'
  BY <1>6 DEF CrashAll
<1>7. ASSUME NEW s \in Sandboxes, CloudDeletes(s) \/ AutoDelete(s) PROVE Leading'
  BY <1>7 DEF CloudDeletes, AutoDelete, reaperVars
<1>8. CASE LeaseExpires
  BY <1>8 DEF LeaseExpires
<1>9. QED
  BY LifeCases, <1>1, <1>3, <1>4, <1>5, <1>6, <1>7, <1>8 DEF ReaperStep

\* At most one replica reaps at a time, whatever crashes, while Redis answers and
\* no pass outlasts its lease.
THEOREM OneLeaderHolds == ReliableLease => (LifeSpec => []OneLeader)
<1>1. SUFFICES ASSUME ReliableLease PROVE LifeSpec => []OneLeader
  OBVIOUS
<1>2. LifeTypeInv /\ Leading /\ [LifeNext]_lifeVars => Leading'
  BY <1>1, LeadingStep
<1>3. ASSUME Leading PROVE OneLeader
  <2> DEFINE L == {r \in Replicas : rpc[r] \in Pass}
  <2>1. \A q, r \in L : q = r
    BY <1>3 DEF Leading
  <2>2. CASE L = {}
    BY <2>2, FS_EmptySet DEF OneLeader
  <2>3. CASE L # {}
    <3>1. PICK r \in L : TRUE
      BY <2>3
    <3>2. L = {r}
      BY <2>1, <3>1
    <3>3. Cardinality({r}) = 1
      BY FS_Singleton
    <3>4. Cardinality(L) = 1
      BY <3>2, <3>3
    <3>5. QED
      BY <3>4 DEF OneLeader
  <2>4. QED
    BY <2>2, <2>3
<1>4. QED
  BY LifeTypeInit, LifeTypeStep, LeadingInit, <1>2, <1>3, PTL DEF LifeSpec

-----------------------------------------------------------------------------
\* A call inside holds the cluster lock, unless it has outlasted the TTL or gone
\* on without it.
HeldUntilLapse ==
    \A c \in Calls \ unlocked : pc[c] \in Inside => dlock[KeyOf[c]] = c /\ c \in got

\* No call is inside at first.
LEMMA HeldInit == LockTakeoverInit => HeldUntilLapse
BY DEF LockTakeoverInit, Init, HeldUntilLapse, Inside, Creating, Setup

\* Only the TTL takes the lock from a call inside: whoever else releases, late or
\* not, releases its own.
LEMMA HeldStep ==
    DistributedLock /\ TypeInv /\ HeldUntilLapse /\ [LockTakeoverNext]_<<vars, unlocked>>
      => HeldUntilLapse'
<1> SUFFICES ASSUME DistributedLock, TypeInv, HeldUntilLapse,
                    [LockTakeoverNext]_<<vars, unlocked>>
             PROVE  HeldUntilLapse'
  OBVIOUS
<1> USE RoutingAssumption, SentinelAssumption
    DEF TypeInv, TypeOK, HeldUntilLapse, callVars, redisVars, cloudVars,
        Inside, Creating, Setup, Goto, Fault
<1>0. \A c \in Calls \ unlocked' : c \in Calls \ unlocked
  BY DEF LockTakeoverNext
<1>1. ASSUME NEW c \in Calls, Arrive(c) PROVE HeldUntilLapse'
  BY <1>0, <1>1 DEF Arrive
<1>2. ASSUME NEW c \in Calls, TakeLock(c) PROVE HeldUntilLapse'
  BY <1>0, <1>2 DEF TakeLock, AfterLocalLock
<1>3. ASSUME NEW c \in Calls, TakeDlock(c) PROVE HeldUntilLapse'
  BY <1>0, <1>3 DEF TakeDlock
<1>4. ASSUME NEW c \in Calls, DlockTimesOut(c) PROVE HeldUntilLapse'
  <2>1. CASE LockTakeoverNext
    BY <1>0, <1>4, <2>1 DEF LockTakeoverNext, Waiving, DlockTimesOut
  <2>2. CASE UNCHANGED <<vars, unlocked>>
    BY <2>2 DEF vars
  <2>3. QED
    BY <2>1, <2>2
<1>5. ASSUME NEW c \in Calls, DlockErrs(c) PROVE HeldUntilLapse'
  <2>1. CASE LockTakeoverNext
    <3>1. c \in unlocked'
      BY <1>5, <2>1 DEF LockTakeoverNext, Waiving
    <3>2. QED
      BY <1>0, <1>5, <3>1 DEF DlockErrs
  <2>2. CASE UNCHANGED <<vars, unlocked>>
    BY <2>2 DEF vars
  <2>3. QED
    BY <2>1, <2>2
<1>6. ASSUME NEW c \in Calls, Leave(c) PROVE HeldUntilLapse'
  BY <1>0, <1>6 DEF Leave, Released
<1>7. ASSUME NEW c \in Calls, LookUp(c) PROVE HeldUntilLapse'
  BY <1>0, <1>7 DEF LookUp
<1>8. ASSUME NEW c \in Calls, Slide(c) PROVE HeldUntilLapse'
  BY <1>0, <1>8 DEF Slide
<1>9. ASSUME NEW c \in Calls, Ensure(c) PROVE HeldUntilLapse'
  BY <1>0, <1>9 DEF Ensure
<1>10. ASSUME NEW c \in Calls, Purge(c) PROVE HeldUntilLapse'
  BY <1>0, <1>10 DEF Purge
<1>11. ASSUME NEW c \in Calls, Prepare(c) PROVE HeldUntilLapse'
  BY <1>0, <1>11 DEF Prepare
<1>12. ASSUME NEW c \in Calls, Provision(c) PROVE HeldUntilLapse'
  BY <1>0, <1>12 DEF Provision, Unobtained
<1>13. ASSUME NEW c \in Calls, SetPolicy(c) PROVE HeldUntilLapse'
  BY <1>0, <1>13 DEF SetPolicy
<1>14. ASSUME NEW c \in Calls, CreateTimesOut(c) PROVE HeldUntilLapse'
  BY <1>0, <1>14 DEF CreateTimesOut, Unobtained
<1>15. ASSUME NEW c \in Calls, Bind(c) PROVE HeldUntilLapse'
  BY <1>0, <1>15 DEF Bind
<1>16. ASSUME NEW c \in Calls, Index(c) PROVE HeldUntilLapse'
  BY <1>0, <1>16 DEF Index
<1>17. ASSUME NEW c \in Calls, Check(c) PROVE HeldUntilLapse'
  BY <1>0, <1>17 DEF Check
<1>18. ASSUME NEW c \in Calls, Bootstrap(c) PROVE HeldUntilLapse'
  BY <1>0, <1>18 DEF Bootstrap
<1>19. ASSUME NEW c \in Calls, Mark(c) PROVE HeldUntilLapse'
  BY <1>0, <1>19 DEF Mark
<1>20. ASSUME NEW c \in Calls, Rollback(c) PROVE HeldUntilLapse'
  BY <1>0, <1>20 DEF Rollback
<1>21. ASSUME NEW c \in Calls, Exec(c) PROVE HeldUntilLapse'
  BY <1>0, <1>21 DEF Exec
<1>22. ASSUME NEW c \in Calls, Cancel(c) PROVE HeldUntilLapse'
  BY <1>0, <1>22 DEF Cancel
<1>23. ASSUME NEW r \in Replicas, Crash(r) PROVE HeldUntilLapse'
  BY <1>0, <1>23 DEF Crash, Killed, ServedBy
<1>24. ASSUME NEW s \in Sandboxes, CloudCreates(s) PROVE HeldUntilLapse'
  BY <1>0, <1>24 DEF CloudCreates
<1>25. ASSUME NEW s \in Sandboxes, Vanish(s) PROVE HeldUntilLapse'
  BY <1>0, <1>25 DEF Vanish
<1>26. ASSUME NEW k \in Keys, ExpireKey(k) PROVE HeldUntilLapse'
  BY <1>0, <1>26 DEF ExpireKey
<1>27. ASSUME NEW k \in Keys, ExpireDlock(k) PROVE HeldUntilLapse'
  <2>1. CASE LockTakeoverNext
    <3>1. dlock[k] \in unlocked'
      BY <1>27, <2>1 DEF LockTakeoverNext, Overtaken
    <3>2. QED
      BY <1>0, <1>27, <3>1 DEF ExpireDlock
  <2>2. CASE UNCHANGED <<vars, unlocked>>
    BY <2>2 DEF vars
  <2>3. QED
    BY <2>1, <2>2
<1>28. CASE UNCHANGED vars
  BY <1>0, <1>28 DEF vars
<1>29. QED
  BY <1>1, <1>2, <1>3, <1>4, <1>5, <1>6, <1>7, <1>8, <1>9, <1>10, <1>11,
     <1>12, <1>13, <1>14, <1>15, <1>16, <1>17, <1>18, <1>19, <1>20, <1>21,
     <1>22, <1>23, <1>24, <1>25, <1>26, <1>27, <1>28
     DEF LockTakeoverNext, Next, Serve, Locking, AwaitDlock, Reusing, CreatingStep, SettingUp,
         Environment, AllEnded

\* Nothing but the TTL and a degraded acquire() ends the exclusion of the cluster
\* lock: calls that have lost it or do without it run on and release, and the
\* calls that have it still exclude each other, whatever fails.
THEOREM MutexUntilLapseHolds == DistributedLock => (LockTakeoverSpec => []MutexUntilLapse)
<1>1. SUFFICES ASSUME DistributedLock PROVE LockTakeoverSpec => []MutexUntilLapse
  OBVIOUS
<1>2. LockTakeoverInit => TypeInv
  BY TypeInit DEF LockTakeoverInit
<1>3. TypeInv /\ [LockTakeoverNext]_<<vars, unlocked>> => TypeInv'
  BY TypeStep DEF LockTakeoverNext
<1>4. TypeInv /\ HeldUntilLapse /\ [LockTakeoverNext]_<<vars, unlocked>> => HeldUntilLapse'
  BY <1>1, HeldStep
<1>5. HeldUntilLapse => MutexUntilLapse
  BY DEF HeldUntilLapse, MutexUntilLapse
<1>6. QED
  BY <1>2, <1>3, <1>4, <1>5, HeldInit, PTL DEF LockTakeoverSpec

-----------------------------------------------------------------------------
\* A pass that was elected holds the lease, unless it has outlasted it; no replica
\* leads between its passes.
LeadsUntilLapse ==
    /\ \A r \in leads \ overdue : lease = r
    /\ \A r \in leads : rpc[r] \in Pass

\* No reaper runs at first.
LEMMA LeadsInit == LifeInit => LeadsUntilLapse
BY DEF LifeInit, LeadsUntilLapse, Pass

\* Only the TTL takes the lease from a reaper in its pass: one that ends a pass it
\* outlasted, or dies in it, leaves the lease of another alone.
LEMMA LeadsStep ==
    ASSUME LifeTypeInv, LeadsUntilLapse, [LifeNext]_lifeVars
    PROVE  LeadsUntilLapse'
<1> USE GroupAssumption
    DEF LifeTypeInv, ReaperTypeOK, LeadsUntilLapse, Pass, Move
<1>1. ASSUME NEW r \in Replicas, Elect(r) PROVE LeadsUntilLapse'
  <2>1. /\ overdue' = overdue
        /\ rpc[r] = "sleep" /\ rpc' = [rpc EXCEPT ![r] = "list"]
        /\ \/ lease = NoReplica /\ lease' = r /\ leads' = leads \cup {r}
           \/ leads' = leads /\ (lease' = lease \/ lease = NoReplica)
    BY <1>1 DEF Elect, LeaseFree
  <2>2. \A q \in leads : lease = NoReplica => q \in overdue
    BY <2>1
  <2>3. QED
    BY <2>1, <2>2
<1>2. CASE Served
  BY <1>2 DEF Served
<1>3. ASSUME UNCHANGED <<lease, leads, overdue>>, NEW r \in Replicas, rpc'[r] \in Pass,
             \A q \in Replicas : q # r => rpc'[q] = rpc[q]
      PROVE  LeadsUntilLapse'
  BY <1>3
<1>4. ASSUME NEW r \in Replicas, List(r) \/ Inspect(r) \/ Peek(r) \/ Delete(r) \/ Unindex(r)
      PROVE  LeadsUntilLapse'
  BY <1>3, <1>4 DEF List, Inspect, Peek, Verdict, Delete, Unindex
<1>5. ASSUME NEW r \in Replicas, Resign(r) PROVE LeadsUntilLapse'
  BY <1>5 DEF Resign, ReaperWrites, Resigned
<1>6. ASSUME NEW r \in Replicas, CrashAll(r) PROVE LeadsUntilLapse'
  BY <1>6 DEF CrashAll
<1>7. ASSUME NEW s \in Sandboxes, CloudDeletes(s) \/ AutoDelete(s) PROVE LeadsUntilLapse'
  BY <1>7 DEF CloudDeletes, AutoDelete, reaperVars
<1>8. CASE LeaseExpires
  BY <1>8 DEF LeaseExpires
<1>9. QED
  BY LifeCases, <1>1, <1>2, <1>4, <1>5, <1>6, <1>7, <1>8 DEF ReaperStep

\* Nothing but the TTL makes two leaders: reapers that have outlasted their lease
\* or go without one run on, resign or die, and at most one of the others is in its
\* pass, whatever fails.
THEOREM OneLeaderUntilLapseHolds == LifeSpec => []OneLeaderUntilLapse
<1>1. LeadsUntilLapse => OneLeaderUntilLapse
  BY DEF LeadsUntilLapse, OneLeaderUntilLapse
<1>2. QED
  BY LifeTypeInit, LifeTypeStep, LeadsInit, LeadsStep, <1>1, PTL DEF LifeSpec
=============================================================================
