--------------------------- MODULE SandboxManager ---------------------------
(***************************************************************************)
(* Session-sticky routing of tool calls to ACA sandboxes:                  *)
(* SandboxManager.exec / get_or_create / _dlock / _create_sandbox and the  *)
(* Redis views it uses (src/mcp-server/sandbox_manager.py, cache.py).      *)
(*                                                                         *)
(* Every tool call is a process.  One action is the code between two       *)
(* awaits on a shared service (Redis, ARM, the sandbox), so every          *)
(* interleaving of concurrent calls on one or several replicas is a        *)
(* behaviour.  What the environment may do wrong is the constant Faults.   *)
(***************************************************************************)
EXTENDS Naturals, FiniteSets

CONSTANTS
    Calls,            \* tool calls, each served once
    Replicas,         \* server processes sharing one Redis
    Keys,             \* routing keys "oid:session:group"
    Sandboxes,        \* sandbox ids ARM hands out (a bound on creations)
    ReplicaOf,        \* [Calls -> Replicas], where the ingress sent a call
    KeyOf,            \* [Calls -> Keys], the routing key of its SessionCtx
    DistributedLock,  \* SANDBOX_DISTRIBUTED_LOCK = 1
    Faults,           \* the faults this instance admits
    NoCall, NoKey, NoSandbox

\* redis       a Redis command of a call fails; a write may still have been applied
\* reapRedis   ... and so may one of a reaper (SandboxLifecycle)
\* dlockWait   a waiter gives up after blocking_timeout while the lock is held
\* dlockTTL    the lock's TTL lapses inside the critical section
\* timeout     create_timeout fires before _create_sandbox returned
\* arm         an ARM or sandbox request fails, bootstrap.sh exits non-zero
\* vanish      a running sandbox is deleted behind the server's back
\* expiry      a Session key lapses while no call for it is in progress
\* lateExpiry  ... also while a call for it is in progress
\* cancel      the client cancels a call (asyncio.CancelledError)
\* crash       a replica dies and restarts
\* leaseTTL    a reaper pass outlasts its lease (SandboxLifecycle)
FaultKinds == {"redis", "reapRedis", "dlockWait", "dlockTTL", "timeout", "arm", "vanish",
               "expiry", "lateExpiry", "cancel", "crash", "leaseTTL"}

ASSUME RoutingAssumption == /\ ReplicaOf \in [Calls -> Replicas]
                            /\ KeyOf \in [Calls -> Keys]
ASSUME ConfigAssumption == /\ DistributedLock \in BOOLEAN
                           /\ Faults \subseteq FaultKinds
ASSUME SentinelAssumption == /\ NoCall \notin Calls
                             /\ NoKey \notin Keys
                             /\ NoSandbox \notin Sandboxes

VARIABLES
    pc,       \* where each call stands in exec / get_or_create
    cur,      \* the sandbox a call is working on (sandbox_id / client)
    got,      \* calls whose lock.acquire() returned True
    locks,    \* the per-process asyncio.Lock of each routing key
    dlock,    \* Redis lock:<key>, holding the owner's token
    fwd,      \* Redis session:<key> -> sandbox id
    idx,      \* Redis reverse index mcp:sbxidx:<sandbox id> -> key
    flag,     \* Redis bootstrapped:<sandbox id>
    sbx,      \* ARM: the state of each sandbox
    label,    \* ARM: the routing key a sandbox was created for
    ready,    \* sandboxes in which bootstrap.sh has succeeded
    policy    \* sandboxes with the idle auto-delete policy set

callVars  == <<pc, cur, got, locks>>
redisVars == <<dlock, fwd, idx, flag>>
cloudVars == <<sbx, label, ready, policy>>
vars      == <<callVars, redisVars, cloudVars>>

\* The body of `async with self._lock(key), self._dlock(key)`, up to the
\* statement that leaves it: "return" hands the client over, "raise" does not.
Creating == {"prepare", "provision", "policy"}
Setup    == {"bind", "index", "check", "bootstrap", "mark", "rollback"}
Inside   == {"lookup", "slide", "ensure", "purge", "return"}
              \cup Creating \cup Setup
Critical == Inside \cup {"dlock", "raise"}
Active   == Critical \cup {"lock", "exec"}
Ended    == {"done", "failed"}
PCs      == Active \cup Ended \cup {"idle"}

\* "deleting" is a delete that ARM has accepted and not finished.
SandboxStates == {"none", "creating", "running", "deleting", "deleted"}

Init ==
    /\ pc = [c \in Calls |-> "idle"]
    /\ cur = [c \in Calls |-> NoSandbox]
    /\ got = {}
    /\ locks = [r \in Replicas |-> [k \in Keys |-> NoCall]]
    /\ dlock = [k \in Keys |-> NoCall]
    /\ fwd = [k \in Keys |-> NoSandbox]
    /\ idx = [s \in Sandboxes |-> NoKey]
    /\ flag = {}
    /\ sbx = [s \in Sandboxes |-> "none"]
    /\ label = [s \in Sandboxes |-> NoKey]
    /\ ready = {}
    /\ policy = {}

-----------------------------------------------------------------------------
Fault(f) == f \in Faults

Goto(c, from, to) == pc[c] = from /\ pc' = [pc EXCEPT ![c] = to]

\* What a Redis write leaves behind when its outcome is not looked at
\* (_redis_safe): the new value, or on a failed command either one.
Written(old, new) == IF Fault("redis") THEN {old, new} ELSE {new}

\* The Session key of a call: user, Session and group.
OneKeyForAll(c) == CHOOSE k \in Keys : TRUE     \* seeded bug: parts left out
SessionKey(c)   == KeyOf[c]

\* session:<key> naming the call's sandbox, and deleted.
KeySet(c)     == [fwd EXCEPT ![SessionKey(c)] = cur[c]]
KeyKept(c)    == fwd                             \* seeded bug: not deleted
KeyCleared(c) == [fwd EXCEPT ![SessionKey(c)] = NoSandbox]

\* What a request to a sandbox may find: a delete that ARM has accepted and not
\* finished can show either.
Up(s)   == sbx[s] \in {"running", "deleting"}
Gone(s) == sbx[s] \in {"deleting", "deleted"}

\* A call has sandbox s in its hands and has not finished with it.
InUse(s) == \E c \in Calls : cur[c] = s /\ pc[c] \in Active

\* ----------------------------------------------------------- entry, locks
Arrive(c) ==
    /\ Goto(c, "idle", "lock")
    /\ UNCHANGED <<cur, got, locks, redisVars, cloudVars>>

FreshLock(c) == NoCall             \* seeded bug: a new lock object per call
LocalLock(c) == locks[ReplicaOf[c]][KeyOf[c]]
SetLocalLock(c, holder) ==
    locks' = [locks EXCEPT ![ReplicaOf[c]][KeyOf[c]] = holder]

FlagInverted == IF DistributedLock THEN "lookup" ELSE "dlock"     \* seeded bug
AfterLocalLock == IF DistributedLock THEN "dlock" ELSE "lookup"

\* async with self._lock(key): then on to the cluster lock, if enabled.
TakeLock(c) ==
    /\ LocalLock(c) = NoCall
    /\ Goto(c, "lock", AfterLocalLock)
    /\ SetLocalLock(c, c)
    /\ UNCHANGED <<cur, got, redisVars, cloudVars>>

\* acquire() took it.
TakeDlock(c) ==
    /\ dlock[KeyOf[c]] = NoCall
    /\ Goto(c, "dlock", "lookup")
    /\ dlock' = [dlock EXCEPT ![KeyOf[c]] = c]
    /\ got' = got \cup {c}
    /\ UNCHANGED <<cur, locks, fwd, idx, flag, cloudVars>>

\* acquire() returned False after blocking_timeout: proceed degraded.
DlockTimesOut(c) ==
    /\ Fault("dlockWait")
    /\ dlock[KeyOf[c]] # NoCall
    /\ Goto(c, "dlock", "lookup")
    /\ UNCHANGED <<cur, got, locks, redisVars, cloudVars>>

\* acquire() raised: proceed degraded.  The SET NX may have been applied and
\* only its reply lost; nobody releases the lock then, its TTL does.
DlockErrs(c) ==
    /\ Fault("redis")
    /\ Goto(c, "dlock", "lookup")
    /\ \/ UNCHANGED dlock
       \/ dlock[KeyOf[c]] = NoCall /\ dlock' = [dlock EXCEPT ![KeyOf[c]] = c]
    /\ UNCHANGED <<cur, got, locks, fwd, idx, flag, cloudVars>>

\* lock.acquire(), whatever comes of it.
AwaitDlock(c) ==
    /\ pc[c] = "dlock"
    /\ TakeDlock(c) \/ DlockTimesOut(c) \/ DlockErrs(c)

\* Seeded bug: DEL without looking at the token.
ReleasedBlindly(k, c) == {IF c \in got THEN [dlock EXCEPT ![k] = NoCall] ELSE dlock}

\* Leaving both locks.  release() deletes the key only if it still holds our
\* token; a failed or cancelled release leaves it to the TTL.
Released(k, c) ==
    IF c \in got /\ dlock[k] = c
    THEN LET freed == [dlock EXCEPT ![k] = NoCall]
         IN  IF Fault("redis") \/ Fault("cancel") THEN {dlock, freed} ELSE {freed}
    ELSE {dlock}

Leave(c) ==
    /\ \/ Goto(c, "return", "exec")
       \/ Goto(c, "raise", "failed")
    /\ dlock' \in Released(KeyOf[c], c)
    /\ got' = got \ {c}
    /\ SetLocalLock(c, NoCall)
    /\ UNCHANGED <<cur, fwd, idx, flag, cloudVars>>

\* --------------------------------------------------- hit: reuse a sandbox
\* SessionSandboxCache.get reads the key ...
LookUp(c) ==
    LET s == fwd[SessionKey(c)] IN
    /\ \/ s # NoSandbox /\ Goto(c, "lookup", "slide") /\ cur' = [cur EXCEPT ![c] = s]
       \/ /\ s = NoSandbox \/ Fault("redis")
          /\ Goto(c, "lookup", "prepare")
          /\ UNCHANGED cur
    /\ UNCHANGED <<got, locks, redisVars, cloudVars>>

\* ... and then writes what it read back, to slide the window.  If that write
\* raises, _redis_safe turns the whole lookup into a miss.
Slide(c) ==
    /\ \/ /\ Goto(c, "slide", "ensure")
          /\ fwd' = KeySet(c)
          /\ UNCHANGED cur
       \/ /\ Fault("redis")
          /\ Goto(c, "slide", "prepare")
          /\ fwd' \in Written(fwd, KeySet(c))
          /\ cur' = [cur EXCEPT ![c] = NoSandbox]
    /\ UNCHANGED <<got, locks, dlock, idx, flag, cloudVars>>

\* Seeded bug: any error is taken for a sandbox that is gone.
EnsureCatchesAll(c) ==
    /\ \/ Goto(c, "ensure", "return") /\ Up(cur[c])
       \/ Goto(c, "ensure", "purge") /\ (Gone(cur[c]) \/ Fault("arm"))
    /\ UNCHANGED <<cur, got, locks, redisVars, cloudVars>>

\* ensure_running: the sandbox is up, or gone, or the request fails.
Ensure(c) ==
    /\ \/ Goto(c, "ensure", "return") /\ Up(cur[c])
       \/ Goto(c, "ensure", "purge") /\ Gone(cur[c])
       \/ Goto(c, "ensure", "raise") /\ Fault("arm")
    /\ UNCHANGED <<cur, got, locks, redisVars, cloudVars>>

\* The key named a sandbox that is gone: forget it and create another.
Purge(c) ==
    /\ Goto(c, "purge", "prepare")
    /\ fwd' \in Written(fwd, KeyCleared(c))
    /\ cur' = [cur EXCEPT ![c] = NoSandbox]
    /\ UNCHANGED <<got, locks, dlock, idx, flag, cloudVars>>

\* --------------------------------------------------- miss: _create_sandbox
\* Disk, subscription and volume are resolved, then ARM accepts the create; the
\* answer may be lost, and the call never learns the id.  The subscription
\* lookup is the one Redis read not behind _redis_safe.
Prepare(c) ==
    /\ \/ \E s \in Sandboxes :
            /\ sbx[s] = "none"
            /\ sbx' = [sbx EXCEPT ![s] = "creating"]
            /\ label' = [label EXCEPT ![s] = KeyOf[c]]
            /\ \/ Goto(c, "prepare", "provision") /\ cur' = [cur EXCEPT ![c] = s]
               \/ Fault("arm") /\ Goto(c, "prepare", "raise") /\ UNCHANGED cur
       \/ /\ Fault("arm") \/ Fault("redis")
          /\ Goto(c, "prepare", "raise")
          /\ UNCHANGED <<cur, sbx, label>>
    /\ UNCHANGED <<got, locks, redisVars, ready, policy>>

\* No client comes out of _create_sandbox: nobody here knows the sandbox.
Unobtained(c) == cur' = [cur EXCEPT ![c] = NoSandbox]

\* poller.result(): the microVM is up, or ARM reports that the create failed, or
\* a poll fails while ARM goes on.
Provision(c) ==
    /\ \/ Goto(c, "provision", "policy") /\ sbx[cur[c]] = "running" /\ UNCHANGED <<cur, sbx>>
       \/ /\ Goto(c, "provision", "raise") /\ Unobtained(c)
          /\ sbx[cur[c]] = "deleted" \/ Fault("arm")
          /\ UNCHANGED sbx
       \/ /\ Goto(c, "provision", "raise") /\ Unobtained(c)
          /\ Fault("arm") /\ sbx[cur[c]] = "creating"
          /\ sbx' = [sbx EXCEPT ![cur[c]] = "deleted"]
    /\ UNCHANGED <<got, locks, redisVars, label, ready, policy>>

\* _apply_idle_autodelete swallows every error.
SetPolicy(c) ==
    /\ Goto(c, "policy", "bind")
    /\ \/ policy' = policy \cup {cur[c]}
       \/ Fault("arm") /\ UNCHANGED policy
    /\ UNCHANGED <<cur, got, locks, redisVars, sbx, label, ready>>

\* asyncio.wait_for gives up on the create, not on what ARM has accepted.
CreateTimesOut(c) ==
    /\ Fault("timeout")
    /\ pc[c] \in Creating
    /\ pc' = [pc EXCEPT ![c] = "raise"]
    /\ Unobtained(c)
    /\ UNCHANGED <<got, locks, redisVars, cloudVars>>

\* ------------------------------------------- setup: bind, index, bootstrap
Bind(c) ==
    /\ Goto(c, "bind", "index")
    /\ fwd' \in Written(fwd, KeySet(c))
    /\ UNCHANGED <<cur, got, locks, dlock, idx, flag, cloudVars>>

IndexIdTwice(c) == cur[c]          \* seeded bug: the id indexed to itself
IndexMeta(c) == KeyOf[c]

Index(c) ==
    /\ Goto(c, "index", "check")
    /\ idx' \in Written(idx, [idx EXCEPT ![cur[c]] = IndexMeta(c)])
    /\ UNCHANGED <<cur, got, locks, dlock, fwd, flag, cloudVars>>

\* is_bootstrapped, False when Redis fails.
Check(c) ==
    /\ \E known \in {cur[c] \in flag} \cup (IF Fault("redis") THEN {FALSE} ELSE {}) :
         Goto(c, "check", IF known THEN "return" ELSE "bootstrap")
    /\ UNCHANGED <<cur, got, locks, redisVars, cloudVars>>

Bootstrap(c) ==
    /\ \/ /\ Goto(c, "bootstrap", "mark")
          /\ Up(cur[c])
          /\ ready' = ready \cup {cur[c]}
       \/ /\ Goto(c, "bootstrap", "rollback")
          /\ Gone(cur[c]) \/ Fault("arm")
          /\ UNCHANGED ready
    /\ UNCHANGED <<cur, got, locks, redisVars, sbx, label, policy>>

Mark(c) ==
    /\ Goto(c, "mark", "return")
    /\ flag' \in Written(flag, flag \cup {cur[c]})
    /\ UNCHANGED <<cur, got, locks, dlock, fwd, idx, cloudVars>>

\* Seeded bug: the reverse index is forgotten, too.
RollsBackIndex(c) ==
    /\ Goto(c, "rollback", "raise")
    /\ fwd' \in Written(fwd, KeyCleared(c))
    /\ idx' = [idx EXCEPT ![cur[c]] = NoKey]
    /\ UNCHANGED <<cur, got, locks, dlock, flag, cloudVars>>

\* except Exception: forget the key (whatever it names by now), keep the
\* reverse index, re-raise.
Rollback(c) ==
    /\ Goto(c, "rollback", "raise")
    /\ fwd' \in Written(fwd, KeyCleared(c))
    /\ UNCHANGED <<cur, got, locks, dlock, idx, flag, cloudVars>>

\* client.exec runs the command, outside both locks.
Exec(c) ==
    /\ \/ Goto(c, "exec", "done") /\ Up(cur[c])
       \/ Goto(c, "exec", "failed") /\ (Gone(cur[c]) \/ Fault("arm"))
    /\ UNCHANGED <<cur, got, locks, redisVars, cloudVars>>

\* -------------------------------------------------------- faults, services
\* Seeded bug: waiting for the cluster lock is not inside `async with` of the
\* local one.
CancelsOut(c) ==
    /\ Fault("cancel")
    /\ pc[c] \in Active \ {"raise"}
    /\ pc' = [pc EXCEPT ![c] = IF pc[c] \in Inside THEN "raise" ELSE "failed"]
    /\ UNCHANGED <<cur, got, locks, redisVars, cloudVars>>

\* CancelledError is no Exception: no rollback, but both locks are left.  A
\* cancelled acquire() may have set the cluster lock; only the TTL frees it.
Cancel(c) ==
    /\ Fault("cancel")
    /\ \/ pc[c] \in Critical \ {"raise"} /\ pc' = [pc EXCEPT ![c] = "raise"]
       \/ pc[c] \in {"lock", "exec"} /\ pc' = [pc EXCEPT ![c] = "failed"]
    /\ \/ UNCHANGED dlock
       \/ /\ pc[c] = "dlock" /\ dlock[KeyOf[c]] = NoCall
          /\ dlock' = [dlock EXCEPT ![KeyOf[c]] = c]
    /\ UNCHANGED <<cur, got, locks, fwd, idx, flag, cloudVars>>

\* The process and its asyncio locks are gone; Redis and ARM keep theirs.
ServedBy(r) == {c \in Calls : ReplicaOf[c] = r /\ pc[c] \in Active}

Killed(r) ==
    /\ pc' = [c \in Calls |-> IF c \in ServedBy(r) THEN "failed" ELSE pc[c]]
    /\ got' = got \ ServedBy(r)
    /\ locks' = [locks EXCEPT ![r] = [k \in Keys |-> NoCall]]
    /\ UNCHANGED <<cur, redisVars, cloudVars>>

Crash(r) == Fault("crash") /\ ServedBy(r) # {} /\ Killed(r)

CloudCreates(s) ==
    /\ sbx[s] = "creating"
    /\ sbx' = [sbx EXCEPT ![s] = "running"]
    /\ UNCHANGED <<callVars, redisVars, label, ready, policy>>

Vanish(s) ==
    /\ Fault("vanish")
    /\ sbx[s] = "running"
    /\ sbx' = [sbx EXCEPT ![s] = "deleted"]
    /\ UNCHANGED <<callVars, redisVars, label, ready, policy>>

\* The Session window of key k runs out.
ExpireKey(k) ==
    /\ fwd[k] # NoSandbox
    /\ \/ Fault("expiry") /\ \A c \in Calls : KeyOf[c] = k => pc[c] \notin Active
       \/ Fault("lateExpiry")
    /\ fwd' = [fwd EXCEPT ![k] = NoSandbox]
    /\ UNCHANGED <<callVars, dlock, idx, flag, cloudVars>>

DlockForever(k) == FALSE           \* seeded bug: no TTL
\* The lock TTL runs out: on a lock nobody will release any more, or, when
\* the critical section outlasts it, under its holder.
ExpireDlock(k) ==
    /\ dlock[k] # NoCall
    /\ Fault("dlockTTL") \/ pc[dlock[k]] \notin Critical \/ dlock[k] \notin got
    /\ dlock' = [dlock EXCEPT ![k] = NoCall]
    /\ UNCHANGED <<callVars, fwd, idx, flag, cloudVars>>

-----------------------------------------------------------------------------
Locking(c) == TakeLock(c) \/ AwaitDlock(c) \/ Leave(c)
Reusing(c) == LookUp(c) \/ Slide(c) \/ Ensure(c) \/ Purge(c)
CreatingStep(c) == Prepare(c) \/ Provision(c) \/ SetPolicy(c) \/ CreateTimesOut(c)
SettingUp(c) == Bind(c) \/ Index(c) \/ Check(c) \/ Bootstrap(c) \/ Mark(c) \/ Rollback(c)

\* One step of the code serving call c, once it has arrived.
Serve(c) == Locking(c) \/ Reusing(c) \/ CreatingStep(c) \/ SettingUp(c) \/ Exec(c)

\* Everything the server does not decide.
Environment ==
    \/ \E c \in Calls : Cancel(c)
    \/ \E r \in Replicas : Crash(r)
    \/ \E s \in Sandboxes : CloudCreates(s) \/ Vanish(s)
    \/ \E k \in Keys : ExpireKey(k) \/ ExpireDlock(k)

\* All calls answered: the instance is over, not deadlocked.
AllEnded == (\A c \in Calls : pc[c] \in Ended) /\ UNCHANGED vars

Next == (\E c \in Calls : Arrive(c) \/ Serve(c)) \/ Environment \/ AllEnded

Spec == Init /\ [][Next]_vars
-----------------------------------------------------------------------------
\* Every variable stays in its range.
TypeOK ==
    /\ pc \in [Calls -> PCs]
    /\ cur \in [Calls -> Sandboxes \cup {NoSandbox}]
    /\ got \subseteq Calls
    /\ locks \in [Replicas -> [Keys -> Calls \cup {NoCall}]]
    /\ dlock \in [Keys -> Calls \cup {NoCall}]
    /\ fwd \in [Keys -> Sandboxes \cup {NoSandbox}]
    /\ idx \in [Sandboxes -> Keys \cup {NoKey}]
    /\ flag \subseteq Sandboxes
    /\ sbx \in [Sandboxes -> SandboxStates]
    /\ label \in [Sandboxes -> Keys \cup {NoKey}]
    /\ ready \subseteq Sandboxes
    /\ policy \subseteq Sandboxes

\* A call past the lookup or the create has a sandbox id to work with; part of
\* the inductive invariant behind TypeOK.
Holding == {"slide", "ensure", "purge", "provision", "policy", "return", "exec"}
             \cup Setup
HoldsSandbox == \A c \in Calls : pc[c] \in Holding => cur[c] \in Sandboxes

\* The local lock: one call per routing key inside get_or_create on a replica,
\* whatever fails, is cancelled or crashes around it.
LocalMutex ==
    \A c, d \in Calls :
        /\ ReplicaOf[c] = ReplicaOf[d] /\ KeyOf[c] = KeyOf[d]
        /\ pc[c] \in Critical /\ pc[d] \in Critical
        => c = d

\* The cluster lock: one call per routing key looks up, creates or bootstraps,
\* on whichever replica, as long as the lock is neither lost nor waived.
ClusterMutex ==
    \A c, d \in Calls :
        KeyOf[c] = KeyOf[d] /\ pc[c] \in Inside /\ pc[d] \in Inside => c = d

\* No call waits for one that is gone: a local lock is held by a call of its
\* Session still inside, and so is the cluster lock, unless a lost release, a
\* cancelled acquire or a crash has left it to its TTL.
LocalLocksLeft ==
    \A c \in Calls, r \in Replicas, k \in Keys : locks[r][k] = c =>
        ReplicaOf[c] = r /\ KeyOf[c] = k /\ pc[c] \in Critical
DlocksLeft ==
    \A c \in Calls, k \in Keys : dlock[k] = c =>
        /\ KeyOf[c] = k
        /\ \/ c \in got /\ pc[c] \in Inside \cup {"raise"}
           \/ Faults \cap {"redis", "cancel", "crash"} # {}
LocksLeft == LocalLocksLeft /\ DlocksLeft

\* A sandbox that calls are using or that the next call would be routed to; one
\* that ARM has not finished deleting may still run their commands.
Serving(s) == /\ sbx[s] \in {"creating", "running", "deleting"}
              /\ InUse(s) \/ \E k \in Keys : fwd[k] = s

\* Session stickiness: a Session never has two sandboxes to run commands in.
OneSandboxPerSession ==
    \A s, t \in Sandboxes :
        Serving(s) /\ Serving(t) /\ label[s] = label[t] => s = t

\* A routing key is cleared before it names another sandbox; no call binds
\* over a binding it has not seen.
NeverRebind ==
    [][\A k \in Keys : fwd[k] # NoSandbox => fwd'[k] \in {fwd[k], NoSandbox}]_vars

\* get_or_create hands over a client only after bootstrap.sh succeeded in its
\* sandbox, in this call or in the one that created it.
ReturnsBootstrapped ==
    \A c \in Calls : pc[c] \in {"return", "exec"} => cur[c] \in ready

\* A call never works on a sandbox created for another user, Session or group.
Isolation ==
    \A c \in Calls :
        pc[c] \in Active /\ cur[c] # NoSandbox => label[cur[c]] = KeyOf[c]

\* No sandbox a call has obtained is left running to nobody: a call holds it,
\* the reaper can find it through the reverse index, or the platform will
\* auto-delete it, although either trace may fail to be left.
Reclaimable ==
    \A s \in Sandboxes :
        sbx[s] = "running" /\ (\E c \in Calls : cur[c] = s) =>
            InUse(s) \/ idx[s] # NoKey \/ s \in policy

\* Every call that reaches get_or_create is answered.
EveryCallEnds == \A c \in Calls : pc[c] = "lock" ~> pc[c] \in Ended
=============================================================================
