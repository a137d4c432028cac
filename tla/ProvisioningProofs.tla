------------------------- MODULE ProvisioningProofs -------------------------
(***************************************************************************)
(* Provisioning implements SandboxManager, so everything proved in         *)
(* SandboxManagerProofs and StickySessionProofs holds of it too; and what  *)
(* its second layer of locks and its memory of images and volumes are for, *)
(* for every number of calls, replicas, groups and images and for every    *)
(* set of faults.                                                          *)
(***************************************************************************)
EXTENDS Provisioning, StickySessionProofs

-----------------------------------------------------------------------------
\* A create that breaks is Prepare failing.
LEMMA BreaksIsPrepare == ASSUME NEW c \in Calls, Breaks(c) PROVE Prepare(c)
<1>1. Fault("arm") \/ Fault("redis")
  BY DEF Breaks, BreakingStages
<1>2. Goto(c, "prepare", "raise") /\ UNCHANGED <<cur, got, locks, redisVars, cloudVars>>
  BY DEF Breaks
<1>3. QED
  BY <1>1, <1>2 DEF Prepare, cloudVars

\* Resolving image, subscription and volume is no step of SandboxManager.
LEMMA ResolvingRefines ==
    ASSUME NEW c \in Calls, Resolving(c) PROVE Prepare(c) \/ UNCHANGED vars
BY BreaksIsPrepare
   DEF Resolving, EnterImage, FindImage, Build, Built, ReadSubscription, EnterVolume,
       EnsureVolume, BeginCreate

\* Every step of Provisioning is a step of SandboxManager or none.
LEMMA RefinesStep == [ProvisioningNext]_allVars => [Next]_vars
<1> SUFFICES ASSUME [ProvisioningNext]_allVars PROVE Next \/ UNCHANGED vars
  OBVIOUS
<1>1. ASSUME NEW c \in Calls, ServeInFull(c) PROVE Next \/ UNCHANGED vars
  <2>1. CASE Resolving(c)
    BY <2>1, ResolvingRefines DEF Next, Serve, CreatingStep
  <2>2. CASE GivesUp(c)
    BY <2>2 DEF GivesUp, Next, Serve, CreatingStep
  <2>3. CASE Beyond(c)
    BY <2>3 DEF Beyond, Next, Serve, CreatingStep
  <2>4. QED
    BY <1>1, <2>1, <2>2, <2>3 DEF ServeInFull
<1>2. ASSUME NEW c \in Calls, Cancelled(c) PROVE Next
  BY <1>2 DEF Cancelled, Next, Environment
<1>3. ASSUME NEW r \in Replicas, Restart(r) PROVE Next \/ UNCHANGED vars
  BY <1>3 DEF Restart, Next, Environment
<1>4. ASSUME NEW i \in Images, CloudBuilds(i) PROVE UNCHANGED vars
  BY <1>4 DEF CloudBuilds
<1>5. CASE Elsewhere
  BY <1>5 DEF Elsewhere, Next, Environment
<1>6. CASE UNCHANGED allVars
  BY <1>6 DEF allVars
<1>7. QED
  BY <1>1, <1>2, <1>3, <1>4, <1>5, <1>6 DEF ProvisioningNext

\* _create_sandbox, with its group locks, its caches and its image builds that
\* outlive the call, implements the one step Prepare: no behaviour of it is one
\* that SandboxManager does not have.
THEOREM Refines == ProvisioningSpec => Spec
<1>1. ProvisioningInit => Init
  BY DEF ProvisioningInit
<1>2. QED
  BY <1>1, RefinesStep, PTL DEF ProvisioningSpec, Spec

\* A call works only in a sandbox of its own Session, whatever happens while
\* image and volume are resolved.
COROLLARY IsolationRefined == ProvisioningSpec => []Isolation
BY Refines, IsolationHolds, PTL

\* No call waits for one that is gone on its Session's locks either; for those of
\* its group see GroupLocksLeft.
COROLLARY LocksLeftRefined == ProvisioningSpec => []LocksLeft
BY Refines, LocksLeftHolds, PTL

\* A Session never has two sandboxes, though creating one takes many awaits in
\* which the locks of its group are taken and given up as well.
COROLLARY OneSandboxRefined ==
    ReliableLock /\ CallsFitWindow => (ProvisioningSpec => []OneSandboxPerSession)
<1>1. SUFFICES ASSUME ReliableLock, CallsFitWindow
               PROVE  ProvisioningSpec => []OneSandboxPerSession
  OBVIOUS
<1>2. Spec => []OneSandboxPerSession
  BY <1>1, OneSandboxHolds
<1>3. QED
  BY <1>2, Refines, PTL

\* The three levels joined: with image, volume and group locks spelled out, calls
\* still see StickySession.
COROLLARY KeepsPromiseRefined ==
    ReliableLock /\ CallsFitWindow => (ProvisioningSpec => KeepsPromise)
<1>1. SUFFICES ASSUME ReliableLock, CallsFitWindow PROVE ProvisioningSpec => KeepsPromise
  OBVIOUS
<1>2. Spec => KeepsPromise
  BY <1>1, KeepsPromiseHolds
<1>3. QED
  BY <1>2, Refines, PTL

\* A client is handed over only once bootstrap.sh has succeeded in its sandbox.
COROLLARY ReturnsBootstrappedRefined ==
    ReliableLock /\ NothingTornOut => (ProvisioningSpec => []ReturnsBootstrapped)
<1>1. SUFFICES ASSUME ReliableLock, NothingTornOut
               PROVE  ProvisioningSpec => []ReturnsBootstrapped
  OBVIOUS
<1>2. Spec => []ReturnsBootstrapped
  BY <1>1, ReturnsBootstrappedHolds
<1>3. QED
  BY <1>2, Refines, PTL

-----------------------------------------------------------------------------
\* The types of what Provisioning adds.
ProvisionTypes ==
    /\ stage \in [Calls -> Stages]
    /\ disk \in [Calls -> Images \cup {NoImage}]
    /\ imageLock \in [Replicas -> [Groups -> Calls \cup {NoCall}]]
    /\ volumeLock \in [Replicas -> [Groups -> Calls \cup {NoCall}]]
    /\ built \in [Replicas -> [Groups -> Images \cup {NoImage}]]
    /\ ensured \in [Replicas -> SUBSET Groups]
    /\ images \in [Images -> {"none", "building", "ready", "failed"}]
    /\ volumes \subseteq Groups

\* A call outside _create_sandbox keeps nothing of it.
Parked == \A c \in Calls : pc[c] # "prepare" => stage[c] = Entry /\ disk[c] = NoImage

\* A call is in one of the stages that need a lock of its group exactly when it
\* holds it.
LockMatches(lock, at, stages) ==
    /\ \A c \in Calls : at[c] \in stages => lock[ReplicaOf[c]][Group(c)] = c
    /\ \A r \in Replicas, g \in Groups : lock[r][g] # NoCall =>
         LET c == lock[r][g] IN at[c] \in stages /\ ReplicaOf[c] = r /\ Group(c) = g
GroupLocksMatch == /\ LockMatches(imageLock, stage, ImageStages)
                   /\ LockMatches(volumeLock, stage, VolumeStages)

\* What a call or a process remembers of ARM is still so: an id once ready
\* stays ready, a volume once there stays there.
ImagesKnown ==
    /\ \A c \in Calls : stage[c] \in ImageStages => Cached(c) = NoImage
    /\ \A c \in Calls : stage[c] = "await" => disk[c] \in Images /\ ImageOf[disk[c]] = Group(c)
    /\ FromImage => \A c \in Calls : stage[c] \in {"subscription", "volume", "mount", "create"} =>
         disk[c] \in OnGroup(Group(c), {"ready"})
    /\ \A r \in Replicas, g \in Groups : built[r][g] # NoImage =>
         built[r][g] \in OnGroup(g, {"ready"})
VolumesKnown ==
    /\ \A r \in Replicas : ensured[r] \subseteq volumes
    /\ BlobEnabled => \A c \in Calls : stage[c] = "create" => Group(c) \in volumes

Ground == ProvisionTypes /\ Parked /\ GroupLocksMatch /\ ImagesKnown /\ VolumesKnown

\* Nothing is held, remembered or known before the first call.
LEMMA GroundInit == ProvisioningInit => Ground
BY ProvisioningAssumption
   DEF ProvisioningInit, Init, Ground, ProvisionTypes, Parked, GroupLocksMatch, ImagesKnown,
       VolumesKnown, Stages, ImageStages, VolumeStages, Entry, Cached, LockMatches

\* A call has a replica and a group.
LEMMA Placed == ASSUME NEW c \in Calls PROVE ReplicaOf[c] \in Replicas /\ Group(c) \in Groups
BY ProvisioningAssumption, RoutingAssumption DEF Group

\* A disk id that is resolved is remembered where it should be.
LEMMA ResolvedTypes ==
    ASSUME ProvisionTypes, NEW c \in Calls, NEW i \in Images, Resolved(c, i)
    PROVE  /\ stage' \in [Calls -> Stages]
           /\ disk' \in [Calls -> Images \cup {NoImage}]
           /\ imageLock' \in [Replicas -> [Groups -> Calls \cup {NoCall}]]
           /\ built' \in [Replicas -> [Groups -> Images \cup {NoImage}]]
BY Placed DEF ProvisionTypes, Resolved, Proceed, SetImageLock, Stages

\* Every step keeps what Provisioning adds well typed.
LEMMA ProvisionTypesStep ==
    TypeInv /\ ProvisionTypes /\ [ProvisioningNext]_allVars => ProvisionTypes'
<1> SUFFICES ASSUME TypeInv, ProvisionTypes, [ProvisioningNext]_allVars
             PROVE  ProvisionTypes'
  OBVIOUS
<1> USE ProvisioningAssumption, RoutingAssumption, SentinelAssumption
    DEF ProvisionTypes, stageVars, groupVars, processVars, armVars, Proceed, SetImageLock,
        SetVolumeLock, Group, Cached, Stages, ImageStages, VolumeStages
<1>1. ASSUME NEW c \in Calls, EnterImage(c) PROVE ProvisionTypes'
  <2>1. CASE Cached(c) # NoImage /\ Resolved(c, Cached(c))
    BY <1>1, <2>1, Placed, ResolvedTypes DEF EnterImage
  <2>2. CASE Proceed(c, "list") /\ SetImageLock(c, c) /\ UNCHANGED <<disk, built>>
    BY <1>1, <2>2, Placed DEF EnterImage
  <2>3. QED
    BY <1>1, <2>1, <2>2 DEF EnterImage
<1>2. ASSUME NEW c \in Calls, FindImage(c) PROVE ProvisionTypes'
  <2>1. ASSUME NEW i \in OnGroup(Group(c), {"ready"}), Resolved(c, i) PROVE ProvisionTypes'
    BY <1>2, <2>1, ResolvedTypes DEF FindImage, OnGroup
  <2>2. CASE Proceed(c, "build") /\ UNCHANGED <<disk, imageLock, built>>
    BY <1>2, <2>2 DEF FindImage
  <2>3. QED
    BY <1>2, <2>1, <2>2 DEF FindImage
<1>3. ASSUME NEW c \in Calls, Build(c) PROVE ProvisionTypes'
  BY <1>3 DEF Build, OnGroup
<1>4. ASSUME NEW c \in Calls, Built(c) PROVE ProvisionTypes'
  BY <1>4 DEF Built, At, Resolved
<1>5. ASSUME NEW c \in Calls, ReadSubscription(c) PROVE ProvisionTypes'
  BY <1>5 DEF ReadSubscription
<1>6. ASSUME NEW c \in Calls, EnterVolume(c) PROVE ProvisionTypes'
  <2>1. CASE Proceed(c, "create") /\ UNCHANGED volumeLock
    BY <1>6, <2>1 DEF EnterVolume
  <2>2. CASE Proceed(c, "mount") /\ SetVolumeLock(c, c)
    BY <1>6, <2>2, Placed DEF EnterVolume
  <2>3. QED
    BY <1>6, <2>1, <2>2 DEF EnterVolume
<1>7. ASSUME NEW c \in Calls, EnsureVolume(c) PROVE ProvisionTypes'
  <2>1. ensured' \in [Replicas -> SUBSET Groups]
    BY <1>7, Placed DEF EnsureVolume
  <2>2. QED
    BY <1>7, <2>1, Placed DEF EnsureVolume, VolumeMade
<1>8. ASSUME NEW c \in Calls, BeginCreate(c) PROVE ProvisionTypes'
  BY <1>8 DEF BeginCreate, Unwind, HeldBy, Entry
<1>9. ASSUME NEW c \in Calls, Breaks(c) PROVE ProvisionTypes'
  BY <1>9 DEF Breaks, Unwind, HeldBy, Entry, VolumeMade
<1>10. ASSUME NEW c \in Calls, GivesUp(c) PROVE ProvisionTypes'
  BY <1>10 DEF GivesUp, Unwind, HeldBy, Entry
<1>11. ASSUME NEW c \in Calls, Cancelled(c) PROVE ProvisionTypes'
  BY <1>11 DEF Cancelled, Unwind, HeldBy, Entry
<1>12. ASSUME NEW r \in Replicas, Restart(r) PROVE ProvisionTypes'
  BY <1>12 DEF Restart, Unwind, HeldBy, Entry
<1>13. ASSUME NEW i \in Images, CloudBuilds(i) PROVE ProvisionTypes'
  BY <1>13 DEF CloudBuilds
<1>14. ASSUME NEW c \in Calls, Beyond(c), UNCHANGED provisionVars PROVE ProvisionTypes'
  BY <1>14 DEF provisionVars
<1>15. CASE Elsewhere /\ UNCHANGED provisionVars
  BY <1>15 DEF provisionVars
<1>16. CASE UNCHANGED allVars
  BY <1>16 DEF allVars, vars, provisionVars
<1>17. QED
  BY <1>1, <1>2, <1>3, <1>4, <1>5, <1>6, <1>7, <1>8, <1>9, <1>10, <1>11, <1>12,
     <1>13, <1>14, <1>15, <1>16
     DEF ProvisioningNext, ServeInFull, Resolving

\* Outside Provisioning's own actions no call leaves "prepare".
LEMMA PrepareKept ==
    ASSUME TypeInv, NEW d \in Calls, pc[d] = "prepare",
           Elsewhere \/ \E c \in Calls : Beyond(c)
    PROVE  pc'[d] = "prepare"
<1> USE DEF Goto
<1>1. pc \in [Calls -> PCs]
  BY DEF TypeInv, TypeOK
<1>2. ASSUME NEW c \in Calls, Beyond(c) PROVE pc'[d] = "prepare"
  <2>1. CASE Locking(c)
    BY <1>1, <2>1 DEF Locking, AwaitDlock, TakeLock, TakeDlock, DlockTimesOut, DlockErrs, Leave
  <2>2. CASE Reusing(c)
    BY <1>1, <2>2 DEF Reusing, LookUp, Slide, Ensure, Purge
  <2>3. CASE Provision(c) \/ SetPolicy(c) \/ Exec(c)
    BY <1>1, <2>3 DEF Provision, SetPolicy, Exec
  <2>4. CASE SettingUp(c)
    BY <1>1, <2>4 DEF SettingUp, Bind, Index, Check, Bootstrap, Mark, Rollback
  <2>5. QED
    BY <1>2, <2>1, <2>2, <2>3, <2>4 DEF Beyond
<1>3. ASSUME Elsewhere PROVE pc'[d] = "prepare"
  BY <1>1, <1>3 DEF Elsewhere, Arrive, CloudCreates, Vanish, ExpireKey, ExpireDlock, AllEnded,
                    vars, callVars
<1>4. QED
  BY <1>2, <1>3

\* A call that leaves "prepare", by whatever way, unwinds.
LEMMA ParkedStep ==
    TypeInv /\ ProvisionTypes /\ Parked /\ [ProvisioningNext]_allVars => Parked'
<1> SUFFICES ASSUME TypeInv, ProvisionTypes, Parked, [ProvisioningNext]_allVars
             PROVE  Parked'
  OBVIOUS
<1> USE ProvisioningAssumption, RoutingAssumption, SentinelAssumption
    DEF TypeInv, TypeOK, ProvisionTypes, Parked, stageVars, groupVars, processVars, armVars,
        vars, callVars, At, Proceed
<1>1. ASSUME NEW c \in Calls, EnterImage(c) PROVE Parked'
  BY <1>1 DEF EnterImage, Resolved
<1>2. ASSUME NEW c \in Calls, FindImage(c) PROVE Parked'
  BY <1>2 DEF FindImage, Resolved
<1>3. ASSUME NEW c \in Calls, Build(c) PROVE Parked'
  BY <1>3 DEF Build
<1>4. ASSUME NEW c \in Calls, Built(c) PROVE Parked'
  BY <1>4 DEF Built, Resolved
<1>5. ASSUME NEW c \in Calls, ReadSubscription(c) PROVE Parked'
  BY <1>5 DEF ReadSubscription
<1>6. ASSUME NEW c \in Calls, EnterVolume(c) PROVE Parked'
  BY <1>6 DEF EnterVolume
<1>7. ASSUME NEW c \in Calls, EnsureVolume(c) PROVE Parked'
  BY <1>7 DEF EnsureVolume
<1>8. ASSUME NEW c \in Calls, BeginCreate(c) PROVE Parked'
  BY <1>8 DEF BeginCreate, Prepare, Goto, Unwind
<1>9. ASSUME NEW c \in Calls, Breaks(c) PROVE Parked'
  BY <1>9 DEF Breaks, Goto, Unwind
<1>10. ASSUME NEW c \in Calls, GivesUp(c) PROVE Parked'
  BY <1>10 DEF GivesUp, CreateTimesOut, Unwind, Creating
<1>11. ASSUME NEW c \in Calls, Cancelled(c) PROVE Parked'
  BY <1>11 DEF Cancelled, Cancel, Unwind
<1>12. ASSUME NEW r \in Replicas, Restart(r) PROVE Parked'
  BY <1>12 DEF Restart, Crash, Killed, ServedBy, Active, Critical, Inside, Creating, Unwind
<1>13. ASSUME NEW i \in Images, CloudBuilds(i) PROVE Parked'
  BY <1>13 DEF CloudBuilds
<1>14. ASSUME NEW c \in Calls, Beyond(c), UNCHANGED provisionVars PROVE Parked'
  BY <1>14, PrepareKept DEF provisionVars, Entry
<1>15. CASE Elsewhere /\ UNCHANGED provisionVars
  BY <1>15, PrepareKept DEF provisionVars, Entry
<1>16. CASE UNCHANGED allVars
  BY <1>16 DEF allVars, vars, provisionVars, Entry
<1>17. QED
  BY <1>1, <1>2, <1>3, <1>4, <1>5, <1>6, <1>7, <1>8, <1>9, <1>10, <1>11, <1>12,
     <1>13, <1>14, <1>15, <1>16
     DEF ProvisioningNext, ServeInFull, Resolving

\* What becomes of a group lock that matches the stages of its calls: a call
\* takes it, ...
LEMMA LockTaken ==
    ASSUME NEW lock \in [Replicas -> [Groups -> Calls \cup {NoCall}]],
           NEW at \in [Calls -> Stages], NEW stages, LockMatches(lock, at, stages),
           NEW c \in Calls, lock[ReplicaOf[c]][Group(c)] = NoCall, NEW s \in stages
    PROVE  LockMatches([lock EXCEPT ![ReplicaOf[c]][Group(c)] = c],
                       [at EXCEPT ![c] = s], stages)
BY Placed, SentinelAssumption DEF LockMatches

\* ... leaves it, ...
LEMMA LockLeft ==
    ASSUME NEW lock \in [Replicas -> [Groups -> Calls \cup {NoCall}]],
           NEW at \in [Calls -> Stages], NEW stages, LockMatches(lock, at, stages),
           NEW c \in Calls, lock[ReplicaOf[c]][Group(c)] \in {c, NoCall}, NEW s, s \notin stages
    PROVE  LockMatches([lock EXCEPT ![ReplicaOf[c]][Group(c)] = NoCall],
                       [at EXCEPT ![c] = s], stages)
BY Placed, SentinelAssumption DEF LockMatches

\* ... goes on holding it, or without it, ...
LEMMA LockKept ==
    ASSUME NEW lock \in [Replicas -> [Groups -> Calls \cup {NoCall}]],
           NEW at \in [Calls -> Stages], NEW stages, LockMatches(lock, at, stages),
           NEW c \in Calls, NEW s, s \in stages <=> at[c] \in stages
    PROVE  LockMatches(lock, [at EXCEPT ![c] = s], stages)
BY Placed, SentinelAssumption DEF LockMatches

\* ... or is gone.
LEMMA LockUnwound ==
    ASSUME NEW lock \in [Replicas -> [Groups -> Calls \cup {NoCall}]],
           NEW at \in [Calls -> Stages], NEW stages, LockMatches(lock, at, stages),
           NEW gone, Entry \notin stages
    PROVE  LockMatches(HeldBy(lock, gone),
                       [c \in Calls |-> IF c \in gone THEN Entry ELSE at[c]], stages)
BY Placed, SentinelAssumption DEF LockMatches, HeldBy

\* Whatever ends a create leaves both locks.
LEMMA UnwindLeaves ==
    ASSUME ProvisionTypes, GroupLocksMatch, NEW gone, Unwind(gone) PROVE GroupLocksMatch'
<1>1. Entry \notin ImageStages /\ Entry \notin VolumeStages
  BY DEF Entry, ImageStages, VolumeStages
<1>2. LockMatches(imageLock', stage', ImageStages)
  BY <1>1, LockUnwound DEF ProvisionTypes, GroupLocksMatch, Unwind
<1>3. LockMatches(volumeLock', stage', VolumeStages)
  BY <1>1, LockUnwound DEF ProvisionTypes, GroupLocksMatch, Unwind
<1>4. QED
  BY <1>2, <1>3 DEF GroupLocksMatch, ImageStages, VolumeStages

\* A lock is taken with the stage that needs it and left with it.
LEMMA GroupLocksStep ==
    ProvisionTypes /\ GroupLocksMatch /\ [ProvisioningNext]_allVars => GroupLocksMatch'
<1> SUFFICES ASSUME ProvisionTypes, GroupLocksMatch, [ProvisioningNext]_allVars
             PROVE  GroupLocksMatch'
  OBVIOUS
<1> USE ProvisioningAssumption, RoutingAssumption, SentinelAssumption
    DEF ProvisionTypes, GroupLocksMatch, stageVars, groupVars, processVars, armVars, At, Proceed,
        SetImageLock, SetVolumeLock, ImageLock, VolumeLock, ImageStages, VolumeStages
<1>1. ASSUME NEW c \in Calls, EnterImage(c) PROVE GroupLocksMatch'
  <2>1. CASE Resolved(c, Cached(c))
    <3>1. LockMatches(volumeLock', stage', VolumeStages)
      BY <1>1, <2>1, LockKept DEF EnterImage, Resolved
    <3>2. LockMatches(imageLock', stage', ImageStages)
      BY <1>1, <2>1, LockLeft DEF EnterImage, Resolved
    <3>3. QED
      BY <3>1, <3>2
  <2>2. CASE Proceed(c, "list") /\ SetImageLock(c, c)
    <3>1. LockMatches(volumeLock', stage', VolumeStages)
      BY <1>1, <2>2, LockKept DEF EnterImage
    <3>2. LockMatches(imageLock', stage', ImageStages)
      BY <1>1, <2>2, LockTaken DEF EnterImage
    <3>3. QED
      BY <3>1, <3>2
  <2>3. QED
    BY <1>1, <2>1, <2>2 DEF EnterImage
<1>2. ASSUME NEW c \in Calls, FindImage(c) PROVE GroupLocksMatch'
  <2>1. ASSUME NEW i \in OnGroup(Group(c), {"ready"}), Resolved(c, i) PROVE GroupLocksMatch'
    <3>1. LockMatches(volumeLock', stage', VolumeStages)
      BY <1>2, <2>1, LockKept DEF FindImage, Resolved
    <3>2. imageLock[ReplicaOf[c]][Group(c)] = c
      BY <1>2 DEF FindImage, LockMatches
    <3>3. LockMatches(imageLock', stage', ImageStages)
      BY <3>2, <2>1, LockLeft DEF Resolved
    <3>4. QED
      BY <3>1, <3>3
  <2>2. CASE Proceed(c, "build") /\ UNCHANGED imageLock
    BY <1>2, <2>2, LockKept DEF FindImage
  <2>3. QED
    BY <1>2, <2>1, <2>2 DEF FindImage
<1>3. ASSUME NEW c \in Calls, Build(c) PROVE GroupLocksMatch'
  BY <1>3, LockKept DEF Build
<1>4. ASSUME NEW c \in Calls, Built(c) PROVE GroupLocksMatch'
  <2>1. LockMatches(volumeLock', stage', VolumeStages)
    BY <1>4, LockKept DEF Built, Resolved
  <2>2. imageLock[ReplicaOf[c]][Group(c)] = c
    BY <1>4 DEF Built, LockMatches
  <2>3. LockMatches(imageLock', stage', ImageStages)
    BY <1>4, <2>2, LockLeft DEF Built, Resolved
  <2>4. QED
    BY <2>1, <2>3
<1>5. ASSUME NEW c \in Calls, ReadSubscription(c) PROVE GroupLocksMatch'
  BY <1>5, LockKept DEF ReadSubscription
<1>6. ASSUME NEW c \in Calls, EnterVolume(c) PROVE GroupLocksMatch'
  <2>1. CASE Proceed(c, "create") /\ UNCHANGED volumeLock
    BY <1>6, <2>1, LockKept DEF EnterVolume
  <2>2. CASE VolumeLock(c) = NoCall /\ Proceed(c, "mount") /\ SetVolumeLock(c, c)
    <3>1. LockMatches(imageLock', stage', ImageStages)
      BY <1>6, <2>2, LockKept DEF EnterVolume
    <3>2. LockMatches(volumeLock', stage', VolumeStages)
      BY <1>6, <2>2, LockTaken DEF EnterVolume
    <3>3. QED
      BY <3>1, <3>2
  <2>3. QED
    BY <1>6, <2>1, <2>2 DEF EnterVolume
<1>7. ASSUME NEW c \in Calls, EnsureVolume(c) PROVE GroupLocksMatch'
  <2>1. LockMatches(imageLock', stage', ImageStages)
    BY <1>7, LockKept DEF EnsureVolume
  <2>2. volumeLock[ReplicaOf[c]][Group(c)] = c
    BY <1>7 DEF EnsureVolume, LockMatches
  <2>3. LockMatches(volumeLock', stage', VolumeStages)
    BY <1>7, <2>2, LockLeft DEF EnsureVolume
  <2>4. QED
    BY <2>1, <2>3
<1>8. ASSUME NEW c \in Calls, BeginCreate(c) PROVE GroupLocksMatch'
  BY <1>8, UnwindLeaves DEF BeginCreate
<1>9. ASSUME NEW c \in Calls, Breaks(c) PROVE GroupLocksMatch'
  BY <1>9, UnwindLeaves DEF Breaks
<1>10. ASSUME NEW c \in Calls, GivesUp(c) PROVE GroupLocksMatch'
  BY <1>10, UnwindLeaves DEF GivesUp
<1>11. ASSUME NEW c \in Calls, Cancelled(c) PROVE GroupLocksMatch'
  BY <1>11, UnwindLeaves DEF Cancelled
<1>12. ASSUME NEW r \in Replicas, Restart(r) PROVE GroupLocksMatch'
  BY <1>12, UnwindLeaves DEF Restart
<1>13. ASSUME NEW i \in Images, CloudBuilds(i) PROVE GroupLocksMatch'
  BY <1>13 DEF CloudBuilds
<1>14. ASSUME NEW c \in Calls, Beyond(c), UNCHANGED provisionVars PROVE GroupLocksMatch'
  BY <1>14 DEF provisionVars
<1>15. CASE Elsewhere /\ UNCHANGED provisionVars
  BY <1>15 DEF provisionVars
<1>16. CASE UNCHANGED allVars
  BY <1>16 DEF allVars, vars, provisionVars
<1>17. QED
  BY <1>1, <1>2, <1>3, <1>4, <1>5, <1>6, <1>7, <1>8, <1>9, <1>10, <1>11, <1>12,
     <1>13, <1>14, <1>15, <1>16
     DEF ProvisioningNext, ServeInFull, Resolving

\* A call that resolves its image under the lock of its group is the only one
\* there, so what it remembers surprises nobody.
LEMMA ResolvedKnown ==
    ASSUME ProvisionTypes, GroupLocksMatch, ImagesKnown, UNCHANGED images,
           NEW c \in Calls, ImageLock(c) \in {c, NoCall},
           NEW i \in OnGroup(Group(c), {"ready"}), Resolved(c, i)
    PROVE  ImagesKnown'
<1> USE Placed, ProvisioningAssumption, SentinelAssumption
    DEF ProvisionTypes, ImagesKnown, Resolved, Proceed, Cached, OnGroup
<1>1. ASSUME NEW d \in Calls, stage'[d] \in ImageStages PROVE Cached(d)' = NoImage
  <2>1. d # c /\ stage[d] \in ImageStages
    BY <1>1 DEF ImageStages
  <2>2. ReplicaOf[d] # ReplicaOf[c] \/ Group(d) # Group(c)
    BY <2>1 DEF GroupLocksMatch, LockMatches, ImageLock
  <2>3. Cached(d) = NoImage
    BY <2>1
  <2>4. QED
    BY <2>2, <2>3
<1>2. ASSUME NEW d \in Calls, stage'[d] = "await"
      PROVE  disk'[d] \in Images /\ ImageOf[disk'[d]] = Group(d)
  BY <1>2
<1>3. ASSUME FromImage, NEW d \in Calls,
             stage'[d] \in {"subscription", "volume", "mount", "create"}
      PROVE  disk'[d] \in OnGroup(Group(d), {"ready"})'
  BY <1>3
<1>4. ASSUME NEW r \in Replicas, NEW g \in Groups, built'[r][g] # NoImage
      PROVE  built'[r][g] \in OnGroup(g, {"ready"})'
  BY <1>4
<1>5. QED
  BY <1>1, <1>2, <1>3, <1>4 DEF Group

\* Ending a create forgets what it knew.
LEMMA UnwindKnown ==
    ASSUME ImagesKnown, NEW gone, Unwind(gone), UNCHANGED <<built, images>>
    PROVE  ImagesKnown'
BY DEF ImagesKnown, Unwind, Entry, ImageStages, Cached, OnGroup, Group

\* What is remembered of images stays so.
LEMMA ImagesKnownStep ==
    ProvisionTypes /\ GroupLocksMatch /\ ImagesKnown /\ [ProvisioningNext]_allVars
      => ImagesKnown'
<1> SUFFICES ASSUME ProvisionTypes, GroupLocksMatch, ImagesKnown, [ProvisioningNext]_allVars
             PROVE  ImagesKnown'
  OBVIOUS
<1> USE ProvisioningAssumption, RoutingAssumption, SentinelAssumption
    DEF ProvisionTypes, ImagesKnown, stageVars, groupVars, processVars, armVars, At, Proceed,
        Cached, OnGroup, ImageStages, Group
<1>1. ASSUME NEW c \in Calls, EnterImage(c) PROVE ImagesKnown'
  <2>1. CASE Cached(c) # NoImage /\ Resolved(c, Cached(c))
    <3>1. Cached(c) \in OnGroup(Group(c), {"ready"})
      BY <2>1, Placed
    <3>2. QED
      BY <1>1, <2>1, <3>1, ResolvedKnown DEF EnterImage
  <2>2. CASE Cached(c) = NoImage /\ Proceed(c, "list") /\ UNCHANGED <<disk, built>>
    BY <1>1, <2>2 DEF EnterImage
  <2>3. QED
    BY <1>1, <2>1, <2>2 DEF EnterImage
<1>2. ASSUME NEW c \in Calls, FindImage(c) PROVE ImagesKnown'
  <2>1. ASSUME NEW i \in OnGroup(Group(c), {"ready"}), Resolved(c, i) PROVE ImagesKnown'
    <3>1. ImageLock(c) = c
      BY <1>2 DEF FindImage, GroupLocksMatch, LockMatches, ImageLock
    <3>2. QED
      BY <1>2, <2>1, <3>1, ResolvedKnown DEF FindImage
  <2>2. CASE Proceed(c, "build") /\ UNCHANGED <<disk, imageLock, built>>
    BY <1>2, <2>2 DEF FindImage
  <2>3. QED
    BY <1>2, <2>1, <2>2 DEF FindImage
<1>3. ASSUME NEW c \in Calls, Build(c) PROVE ImagesKnown'
  BY <1>3 DEF Build
<1>4. ASSUME NEW c \in Calls, Built(c) PROVE ImagesKnown'
  <2>1. ImageLock(c) = c
    BY <1>4 DEF Built, GroupLocksMatch, LockMatches, ImageLock
  <2>2. disk[c] \in OnGroup(Group(c), {"ready"})
    BY <1>4 DEF Built
  <2>3. QED
    BY <1>4, <2>1, <2>2, ResolvedKnown DEF Built
<1>5. ASSUME NEW c \in Calls, ReadSubscription(c) PROVE ImagesKnown'
  BY <1>5 DEF ReadSubscription
<1>6. ASSUME NEW c \in Calls, EnterVolume(c) PROVE ImagesKnown'
  BY <1>6 DEF EnterVolume
<1>7. ASSUME NEW c \in Calls, EnsureVolume(c) PROVE ImagesKnown'
  BY <1>7 DEF EnsureVolume
<1>8. ASSUME NEW c \in Calls, BeginCreate(c) PROVE ImagesKnown'
  BY <1>8, UnwindKnown DEF BeginCreate
<1>9. ASSUME NEW c \in Calls, Breaks(c) PROVE ImagesKnown'
  BY <1>9, UnwindKnown DEF Breaks
<1>10. ASSUME NEW c \in Calls, GivesUp(c) PROVE ImagesKnown'
  BY <1>10, UnwindKnown DEF GivesUp
<1>11. ASSUME NEW c \in Calls, Cancelled(c) PROVE ImagesKnown'
  BY <1>11, UnwindKnown DEF Cancelled
<1>12. ASSUME NEW r \in Replicas, Restart(r) PROVE ImagesKnown'
  BY <1>12 DEF Restart, Unwind, Entry
<1>13. ASSUME NEW i \in Images, CloudBuilds(i) PROVE ImagesKnown'
  BY <1>13 DEF CloudBuilds
<1>14. ASSUME NEW c \in Calls, Beyond(c), UNCHANGED provisionVars PROVE ImagesKnown'
  BY <1>14 DEF provisionVars
<1>15. CASE Elsewhere /\ UNCHANGED provisionVars
  BY <1>15 DEF provisionVars
<1>16. CASE UNCHANGED allVars
  BY <1>16 DEF allVars, vars, provisionVars
<1>17. QED
  BY <1>1, <1>2, <1>3, <1>4, <1>5, <1>6, <1>7, <1>8, <1>9, <1>10, <1>11, <1>12,
     <1>13, <1>14, <1>15, <1>16
     DEF ProvisioningNext, ServeInFull, Resolving

\* A volume once made stays, and a call creates only after it looked or made it.
LEMMA VolumesKnownStep ==
    ProvisionTypes /\ VolumesKnown /\ [ProvisioningNext]_allVars => VolumesKnown'
<1> SUFFICES ASSUME ProvisionTypes, VolumesKnown, [ProvisioningNext]_allVars
             PROVE  VolumesKnown'
  OBVIOUS
<1> USE ProvisioningAssumption, RoutingAssumption, SentinelAssumption
    DEF ProvisionTypes, VolumesKnown, stageVars, groupVars, processVars, armVars, At, Proceed,
        Group, Stages
<1>1. ASSUME NEW c \in Calls, EnterImage(c) PROVE VolumesKnown'
  BY <1>1 DEF EnterImage, Resolved
<1>2. ASSUME NEW c \in Calls, FindImage(c) PROVE VolumesKnown'
  BY <1>2 DEF FindImage, Resolved
<1>3. ASSUME NEW c \in Calls, Build(c) PROVE VolumesKnown'
  BY <1>3 DEF Build
<1>4. ASSUME NEW c \in Calls, Built(c) PROVE VolumesKnown'
  BY <1>4 DEF Built, Resolved
<1>5. ASSUME NEW c \in Calls, ReadSubscription(c) PROVE VolumesKnown'
  BY <1>5 DEF ReadSubscription
<1>6. ASSUME NEW c \in Calls, EnterVolume(c) PROVE VolumesKnown'
  BY <1>6, Placed DEF EnterVolume, NeedsVolume
<1>7. ASSUME NEW c \in Calls, EnsureVolume(c) PROVE VolumesKnown'
  BY <1>7, Placed DEF EnsureVolume, VolumeMade
<1>8. ASSUME NEW c \in Calls, BeginCreate(c) PROVE VolumesKnown'
  BY <1>8 DEF BeginCreate, Unwind, Entry
<1>9. ASSUME NEW c \in Calls, Breaks(c) PROVE VolumesKnown'
  BY <1>9 DEF Breaks, Unwind, Entry, VolumeMade
<1>10. ASSUME NEW c \in Calls, GivesUp(c) PROVE VolumesKnown'
  BY <1>10 DEF GivesUp, Unwind, Entry
<1>11. ASSUME NEW c \in Calls, Cancelled(c) PROVE VolumesKnown'
  BY <1>11 DEF Cancelled, Unwind, Entry
<1>12. ASSUME NEW r \in Replicas, Restart(r) PROVE VolumesKnown'
  BY <1>12 DEF Restart, Unwind, Entry
<1>13. ASSUME NEW i \in Images, CloudBuilds(i) PROVE VolumesKnown'
  BY <1>13 DEF CloudBuilds
<1>14. ASSUME NEW c \in Calls, Beyond(c), UNCHANGED provisionVars PROVE VolumesKnown'
  BY <1>14 DEF provisionVars
<1>15. CASE Elsewhere /\ UNCHANGED provisionVars
  BY <1>15 DEF provisionVars
<1>16. CASE UNCHANGED allVars
  BY <1>16 DEF allVars, vars, provisionVars
<1>17. QED
  BY <1>1, <1>2, <1>3, <1>4, <1>5, <1>6, <1>7, <1>8, <1>9, <1>10, <1>11, <1>12,
     <1>13, <1>14, <1>15, <1>16
     DEF ProvisioningNext, ServeInFull, Resolving

\* The inductive invariant of Provisioning holds throughout.
LEMMA GroundHolds == ProvisioningSpec => [](TypeInv /\ Ground)
<1>1. ProvisioningInit => TypeInv /\ Ground
  BY TypeInit, GroundInit DEF ProvisioningInit
<1>2. TypeInv /\ Ground /\ [ProvisioningNext]_allVars => (TypeInv /\ Ground)'
  BY RefinesStep, TypeStep, ProvisionTypesStep, ParkedStep, GroupLocksStep, ImagesKnownStep,
     VolumesKnownStep DEF Ground
<1>3. QED
  BY <1>1, <1>2, PTL DEF ProvisioningSpec

\* Every variable stays in its range, whatever fails while a sandbox is created.
THEOREM ProvisioningTypeCorrect == ProvisioningSpec => []ProvisioningTypeOK
<1>1. TypeInv /\ Ground => ProvisioningTypeOK
  BY DEF Ground, ProvisionTypes, TypeInv, ProvisioningTypeOK
<1>2. QED
  BY GroundHolds, <1>1, PTL

\* ARM is asked for a sandbox only with an image of its group that is ready, if
\* one was to be built, and with the volume of its group made: neither the
\* caches nor what a call carried across the locks can be stale.
THEOREM CreatesOnReadyGroundHolds == ProvisioningSpec => []CreatesOnReadyGround
<1>1. Ground => CreatesOnReadyGround
  BY DEF Ground, ImagesKnown, VolumesKnown, CreatesOnReadyGround, At
<1>2. QED
  BY GroundHolds, <1>1, PTL

\* Two calls of one process never build the image of a group side by side.
THEOREM BuildsOnceHolds == ProvisioningSpec => []BuildsOnce
<1>1. Ground => BuildsOnce
  BY DEF Ground, GroupLocksMatch, LockMatches, ImagesKnown, BuildsOnce, ImageStages, ImageLock
<1>2. QED
  BY GroundHolds, <1>1, PTL

\* No call leaves a lock of its group behind, however it ends.
THEOREM GroupLocksLeftHolds == ProvisioningSpec => []GroupLocksLeft
<1>1. ASSUME Ground PROVE GroupLocksLeft
  <2>1. ASSUME NEW c \in Calls, stage[c] \in ImageStages \cup VolumeStages
        PROVE  pc[c] = "prepare"
    BY <1>1, <2>1 DEF Ground, Parked, Entry, ImageStages, VolumeStages
  <2>2. ASSUME NEW r \in Replicas, NEW g \in Groups
        PROVE  /\ imageLock[r][g] \in Calls \cup {NoCall}
               /\ volumeLock[r][g] \in Calls \cup {NoCall}
    BY <1>1 DEF Ground, ProvisionTypes
  <2>3. QED
    BY <1>1, <2>1, <2>2 DEF Ground, GroupLocksMatch, LockMatches, GroupLocksLeft
<1>2. QED
  BY GroundHolds, <1>1, PTL
=============================================================================
