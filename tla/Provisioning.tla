---------------------------- MODULE Provisioning ----------------------------
(***************************************************************************)
(* SandboxManager with what its step Prepare stands for spelled out: how a *)
(* create resolves its disk image, the user's subscription and the         *)
(* workspace volume before ARM accepts it (_resolve_disk,                  *)
(* _ensure_disk_image, _user_subscription, _ensure_volume).                *)
(*                                                                         *)
(* Image and volume are made once per sandbox group, under a second layer  *)
(* of per-process locks, and remembered in the process; a build that       *)
(* create_timeout gave up on goes on in ARM.  A call stays in "prepare"    *)
(* throughout, so every step below is a Prepare, or no step, of            *)
(* SandboxManager: ProvisioningSpec implies Spec.                          *)
(***************************************************************************)
EXTENDS SandboxManager

CONSTANTS
    Groups,      \* sandbox groups: diagnose, action
    GroupOf,     \* [Keys -> Groups], the group part of a routing key
    Images,      \* disk image ids ARM hands out (a bound on builds)
    ImageOf,     \* [Images -> Groups], the group an image is built on
    FromImage,   \* SANDBOX_DISK_IMAGE is set, SANDBOX_DISK_ID is not
    BlobEnabled, \* a workspace container is configured
    NoImage

ASSUME ProvisioningAssumption == /\ GroupOf \in [Keys -> Groups]
                                 /\ ImageOf \in [Images -> Groups]
                                 /\ FromImage \in BOOLEAN /\ BlobEnabled \in BOOLEAN
                                 /\ NoImage \notin Images

VARIABLES
    stage,      \* where a call in "prepare" stands inside _create_sandbox
    disk,       \* the image a call builds or has resolved (disk_id)
    imageLock,  \* the asyncio.Lock "diskimage:<group>" of each process
    volumeLock, \* the asyncio.Lock "volume:<group>" of each process
    built,      \* _built_disk_ids of each process
    ensured,    \* _ensured_volumes of each process
    images,     \* ARM: the state of each disk image
    volumes     \* ARM: groups whose workspace volume exists

stageVars     == <<stage, disk>>
groupVars     == <<imageLock, volumeLock>>
processVars   == <<built, ensured>>
armVars       == <<images, volumes>>
provisionVars == <<stageVars, groupVars, processVars, armVars>>
allVars       == <<vars, provisionVars>>

ImageStages  == {"list", "build", "await"}          \* holding imageLock
VolumeStages == {"mount"}                           \* holding volumeLock
Stages == ImageStages \cup VolumeStages
            \cup {"image", "subscription", "volume", "create"}

\* _resolve_disk: a configured disk id and the public disk need no image.
Entry == IF FromImage THEN "image" ELSE "subscription"

ProvisioningInit ==
    /\ Init
    /\ stage = [c \in Calls |-> Entry]
    /\ disk = [c \in Calls |-> NoImage]
    /\ imageLock = [r \in Replicas |-> [g \in Groups |-> NoCall]]
    /\ volumeLock = [r \in Replicas |-> [g \in Groups |-> NoCall]]
    /\ built = [r \in Replicas |-> [g \in Groups |-> NoImage]]
    /\ ensured = [r \in Replicas |-> {}]
    /\ images = [i \in Images |-> "none"]
    /\ volumes = {}

-----------------------------------------------------------------------------
Group(c) == GroupOf[KeyOf[c]]
Cached(c) == built[ReplicaOf[c]][Group(c)]
ImageLock(c) == imageLock[ReplicaOf[c]][Group(c)]
VolumeLock(c) == volumeLock[ReplicaOf[c]][Group(c)]

At(c, s) == pc[c] = "prepare" /\ stage[c] = s
Proceed(c, s) == stage' = [stage EXCEPT ![c] = s]

SetImageLock(c, holder) ==
    imageLock' = [imageLock EXCEPT ![ReplicaOf[c]][Group(c)] = holder]
SetVolumeLock(c, holder) ==
    volumeLock' = [volumeLock EXCEPT ![ReplicaOf[c]][Group(c)] = holder]

\* The disk id is known: remember it in the process and leave the lock.
Resolved(c, i) ==
    /\ Proceed(c, "subscription")
    /\ disk' = [disk EXCEPT ![c] = i]
    /\ built' = [built EXCEPT ![ReplicaOf[c]][Group(c)] = i]
    /\ SetImageLock(c, NoCall)

\* ----------------------------------------------------- _ensure_disk_image
\* Seeded bug: the lock is a new object for every call.
EnterImageUnlocked(c) ==
    /\ At(c, "image")
    /\ Cached(c) = NoImage
    /\ Proceed(c, "list")
    /\ UNCHANGED <<vars, disk, imageLock, volumeLock, processVars, armVars>>

\* async with self._lock("diskimage:..."): a cached id is returned at once.
EnterImage(c) ==
    /\ At(c, "image") /\ ImageLock(c) = NoCall
    /\ \/ Cached(c) # NoImage /\ Resolved(c, Cached(c))
       \/ /\ Cached(c) = NoImage
          /\ Proceed(c, "list")
          /\ SetImageLock(c, c)
          /\ UNCHANGED <<disk, built>>
    /\ UNCHANGED <<vars, volumeLock, ensured, armVars>>

OnGroup(g, states) == {i \in Images : ImageOf[i] = g /\ images[i] \in states}
\* list_disk_images: reuse the first usable image; none, or an error, builds.
FindImage(c) ==
    LET found == OnGroup(Group(c), {"ready"}) IN
    /\ At(c, "list")
    /\ \/ \E i \in found : Resolved(c, i)
       \/ /\ found = {} \/ Fault("arm")
          /\ Proceed(c, "build")
          /\ UNCHANGED <<disk, imageLock, built>>
    /\ UNCHANGED <<vars, volumeLock, ensured, armVars>>

\* Seeded bug: the id is remembered when the build starts.
BuildRemembered(c) ==
    /\ At(c, "build")
    /\ \E i \in OnGroup(Group(c), {"none"}) :
         /\ images' = [images EXCEPT ![i] = "building"]
         /\ disk' = [disk EXCEPT ![c] = i]
         /\ built' = [built EXCEPT ![ReplicaOf[c]][Group(c)] = i]
    /\ Proceed(c, "await")
    /\ UNCHANGED <<vars, groupVars, ensured, volumes>>

\* begin_create_disk_image ...
Build(c) ==
    /\ At(c, "build")
    /\ \E i \in OnGroup(Group(c), {"none"}) :
         /\ images' = [images EXCEPT ![i] = "building"]
         /\ disk' = [disk EXCEPT ![c] = i]
    /\ Proceed(c, "await")
    /\ UNCHANGED <<vars, groupVars, processVars, volumes>>

\* ... and poller.result().
Built(c) ==
    /\ At(c, "await") /\ images[disk[c]] = "ready"
    /\ Resolved(c, disk[c])
    /\ UNCHANGED <<vars, volumeLock, ensured, armVars>>

\* --------------------------------- _user_subscription, _workspace_volumes
ReadSubscription(c) ==
    /\ At(c, "subscription")
    /\ Proceed(c, "volume")
    /\ UNCHANGED <<vars, disk, groupVars, processVars, armVars>>

\* Without a container there is no volume; _ensured_volumes is looked at before
\* and again under the lock.
NeedsVolume(c) == BlobEnabled /\ Group(c) \notin ensured[ReplicaOf[c]]
EnterVolume(c) ==
    /\ At(c, "volume")
    /\ \/ /\ ~NeedsVolume(c)
          /\ Proceed(c, "create")
          /\ UNCHANGED volumeLock
       \/ /\ NeedsVolume(c) /\ VolumeLock(c) = NoCall
          /\ Proceed(c, "mount")
          /\ SetVolumeLock(c, c)
    /\ UNCHANGED <<vars, disk, imageLock, processVars, armVars>>

VolumePerKey(c) == volumes \cup {KeyOf[c]}    \* seeded bug: one per Session
VolumeMade(c) == volumes \cup {Group(c)}

\* create_volume: created now, or 409, it was there already.
EnsureVolume(c) ==
    /\ At(c, "mount")
    /\ Proceed(c, "create")
    /\ volumes' = VolumeMade(c)
    /\ ensured' = [ensured EXCEPT ![ReplicaOf[c]] = @ \cup {Group(c)}]
    /\ SetVolumeLock(c, NoCall)
    /\ UNCHANGED <<vars, disk, imageLock, built, images>>

\* ----------------------------------------------- leaving _create_sandbox
\* `async with` and the frames of _create_sandbox unwind with whatever ends
\* the create: the locks of the calls in gone are free, their locals are lost.
HeldForGood(lock, gone) == lock    \* seeded bug: not left
HeldBy(lock, gone) ==
    [r \in Replicas |-> [g \in Groups |->
        IF lock[r][g] \in gone THEN NoCall ELSE lock[r][g]]]
Unwind(gone) ==
    /\ stage' = [c \in Calls |-> IF c \in gone THEN Entry ELSE stage[c]]
    /\ disk' = [c \in Calls |-> IF c \in gone THEN NoImage ELSE disk[c]]
    /\ imageLock' = HeldBy(imageLock, gone)
    /\ volumeLock' = HeldBy(volumeLock, gone)

\* begin_create_sandbox, with the disk and the volume resolved.
BeginCreate(c) ==
    /\ At(c, "create")
    /\ Prepare(c)
    /\ Fault("arm") \/ pc'[c] = "provision"
    /\ Unwind({c})
    /\ UNCHANGED <<processVars, armVars>>

\* Awaits that may raise: ARM's, and the one Redis read that _redis_safe does
\* not guard.
BreakingStages == (IF Fault("arm") THEN {"build", "await", "mount"} ELSE {})
                    \cup (IF Fault("redis") THEN {"subscription"} ELSE {})

\* Seeded bug: an error skips the exit of the key's locks.
BreaksOut(c) ==
    /\ stage[c] \in BreakingStages
    /\ Goto(c, "prepare", "failed")
    /\ Unwind({c})
    /\ UNCHANGED <<cur, got, locks, redisVars, cloudVars, processVars, armVars>>

\* A failed create_volume may have been applied.
Breaks(c) ==
    /\ stage[c] \in BreakingStages
    /\ Goto(c, "prepare", "raise")
    /\ Unwind({c})
    /\ volumes' \in {volumes} \cup (IF stage[c] = "mount" THEN {VolumeMade(c)} ELSE {})
    /\ UNCHANGED <<cur, got, locks, redisVars, cloudVars, processVars, images>>

\* create_timeout fires, or the client cancels the call.
GivesUp(c) ==
    /\ CreateTimesOut(c)
    /\ Unwind({c})
    /\ UNCHANGED <<processVars, armVars>>

Cancelled(c) ==
    /\ Cancel(c)
    /\ Unwind({c})
    /\ UNCHANGED <<processVars, armVars>>

\* A process that restarts, busy or idle, has forgotten image and volume.
Restart(r) ==
    /\ Fault("crash")
    /\ Crash(r) \/ (ServedBy(r) = {} /\ UNCHANGED vars)
    /\ Unwind(ServedBy(r))
    /\ built' = [built EXCEPT ![r] = [g \in Groups |-> NoImage]]
    /\ ensured' = [ensured EXCEPT ![r] = {}]
    /\ UNCHANGED armVars

\* ARM finishes an image build, whoever still waits for it.
CloudBuilds(i) ==
    /\ images[i] = "building"
    /\ \E s \in {"ready"} \cup (IF Fault("arm") THEN {"failed"} ELSE {}) :
         images' = [images EXCEPT ![i] = s]
    /\ UNCHANGED <<vars, stageVars, groupVars, processVars, volumes>>

-----------------------------------------------------------------------------
Resolving(c) == EnterImage(c) \/ FindImage(c) \/ Build(c) \/ Built(c)
                  \/ ReadSubscription(c) \/ EnterVolume(c) \/ EnsureVolume(c)
                  \/ BeginCreate(c) \/ Breaks(c)

\* The rest of the call, as in SandboxManager.
Beyond(c) == Locking(c) \/ Reusing(c) \/ Provision(c) \/ SetPolicy(c)
               \/ SettingUp(c) \/ Exec(c)

\* One step of the code serving call c, once it has arrived.
ServeInFull(c) == Resolving(c) \/ GivesUp(c) \/ (Beyond(c) /\ UNCHANGED provisionVars)

Elsewhere ==
    \/ \E c \in Calls : Arrive(c)
    \/ \E s \in Sandboxes : CloudCreates(s) \/ Vanish(s)
    \/ \E k \in Keys : ExpireKey(k) \/ ExpireDlock(k)
    \/ AllEnded

ProvisioningNext ==
    \/ \E c \in Calls : ServeInFull(c) \/ Cancelled(c)
    \/ \E r \in Replicas : Restart(r)
    \/ \E i \in Images : CloudBuilds(i)
    \/ Elsewhere /\ UNCHANGED provisionVars

ProvisioningSpec == ProvisioningInit /\ [][ProvisioningNext]_allVars

\* The event loop keeps running every call and Redis expires abandoned locks.
\* ARM owes an answer only where create_timeout does not stand in for it.
\* Arrivals, faults and expiry of Session keys are never owed.
ProvisioningFairness ==
    /\ \A c \in Calls : WF_allVars(ServeInFull(c))
    /\ \A k \in Keys : WF_allVars(ExpireDlock(k) /\ UNCHANGED provisionVars)
    /\ \/ Fault("timeout")
       \/ /\ \A s \in Sandboxes : WF_allVars(CloudCreates(s) /\ UNCHANGED provisionVars)
          /\ \A i \in Images : WF_allVars(CloudBuilds(i))

ProvisioningFairSpec == ProvisioningSpec /\ ProvisioningFairness

-----------------------------------------------------------------------------
\* Every variable of provisioning stays in its range.
ProvisioningTypeOK ==
    /\ TypeOK
    /\ stage \in [Calls -> Stages]
    /\ disk \in [Calls -> Images \cup {NoImage}]
    /\ imageLock \in [Replicas -> [Groups -> Calls \cup {NoCall}]]
    /\ volumeLock \in [Replicas -> [Groups -> Calls \cup {NoCall}]]
    /\ built \in [Replicas -> [Groups -> Images \cup {NoImage}]]
    /\ ensured \in [Replicas -> SUBSET Groups]
    /\ images \in [Images -> {"none", "building", "ready", "failed"}]
    /\ volumes \subseteq Groups

\* ARM is asked for a sandbox only with an image that is ready and belongs to
\* its group, and only once the group's volume, if it needs one, exists: the
\* cached ids and the ids a call carried across two locks and three awaits are
\* still good.
CreatesOnReadyGround ==
    \A c \in Calls : At(c, "create") =>
        /\ FromImage => disk[c] \in OnGroup(Group(c), {"ready"})
        /\ BlobEnabled => Group(c) \in volumes

\* One process never has two image builds of a group under way that a call of
\* it still waits for, and never builds what it has already resolved.
BuildsOnce ==
    \A c, d \in Calls :
        /\ ReplicaOf[c] = ReplicaOf[d] /\ Group(c) = Group(d)
        /\ pc[c] = "prepare" /\ stage[c] \in {"build", "await"}
        => /\ Cached(c) = NoImage
           /\ pc[d] = "prepare" /\ stage[d] \in {"build", "await"} => c = d

\* Whatever ends a create, the locks of its group are left: only a call still
\* inside holds one, so no Session of the group waits for a call that is gone.
GroupLocksLeft ==
    \A r \in Replicas, g \in Groups :
        /\ imageLock[r][g] # NoCall =>
               pc[imageLock[r][g]] = "prepare" /\ stage[imageLock[r][g]] \in ImageStages
        /\ volumeLock[r][g] # NoCall =>
               pc[volumeLock[r][g]] = "prepare" /\ stage[volumeLock[r][g]] \in VolumeStages
=============================================================================
