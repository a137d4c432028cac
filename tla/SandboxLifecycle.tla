-------------------------- MODULE SandboxLifecycle --------------------------
(***************************************************************************)
(* The routing of SandboxManager composed with the other half of the       *)
(* sandbox manager: one background reaper per replica, its leader lease    *)
(* (_ensure_reaper, _reaper_loop, _try_become_reaper, _resign_reaper,      *)
(* reap_orphans), and ARM's idle auto-delete.                              *)
(***************************************************************************)
EXTENDS SandboxManager

CONSTANTS
    Groups,     \* sandbox groups: diagnose, action
    GroupOf,    \* [Keys -> Groups], the group part of a routing key
    NoReplica

ASSUME GroupAssumption == /\ GroupOf \in [Keys -> Groups]
                          /\ NoReplica \notin Replicas

VARIABLES
    rpc,     \* where each replica's reaper task stands; "off" = not started
    lease,   \* Redis mcp:reaper:leader, holding the leader's token
    leads,   \* replicas whose current pass holds a token (not _NO_LEASE)
    overdue, \* history: those of them whose lease has run out during the pass
    groups,  \* groups the current pass has yet to list
    todo,    \* sandboxes of the current listing yet to inspect
    rcur,    \* the sandbox under inspection (sbx.id), if any
    rmeta    \* the routing key its reverse-index entry names (meta)

reaperVars == <<rpc, lease, leads, overdue, groups, todo, rcur, rmeta>>
lifeVars   == <<vars, reaperVars>>

Pass       == {"list", "inspect", "peek", "delete", "unindex", "resign"}
ReaperPCs  == Pass \cup {"off", "sleep"}

LifeInit ==
    /\ Init
    /\ rpc = [r \in Replicas |-> "off"]
    /\ lease = NoReplica
    /\ leads = {}
    /\ overdue = {}
    /\ groups = [r \in Replicas |-> {}]
    /\ todo = [r \in Replicas |-> {}]
    /\ rcur = [r \in Replicas |-> NoSandbox]
    /\ rmeta = [r \in Replicas |-> NoKey]

-----------------------------------------------------------------------------
\* As Written, for a reaper's writes.
ReaperWrites(old, new) == IF Fault("reapRedis") THEN {old, new} ELSE {new}

Move(r, from, to) == rpc[r] = from /\ rpc' = [rpc EXCEPT ![r] = to]

\* exec() starts the reaper task of its replica before anything else.
ArriveAndReap(c) ==
    LET r == ReplicaOf[c] IN
    /\ Arrive(c)
    /\ rpc' = [rpc EXCEPT ![r] = IF @ = "off" THEN "sleep" ELSE @]
    /\ UNCHANGED <<lease, leads, overdue, groups, todo, rcur, rmeta>>

\* The loop body is over: sbx.id and meta are dead.
Onward(r) ==
    /\ rcur' = [rcur EXCEPT ![r] = NoSandbox]
    /\ rmeta' = [rmeta EXCEPT ![r] = NoKey]

TakenOver == TRUE                  \* seeded bug: SET without NX
LeaseFree == lease = NoReplica

\* One leader per round by SET NX EX; with the cluster lock off, or when the
\* election errs, a replica reaps without a lease.  Losing is sleeping on.
Elect(r) ==
    /\ Move(r, "sleep", "list")
    /\ groups' = [groups EXCEPT ![r] = Groups]
    /\ \/ /\ DistributedLock /\ LeaseFree
          /\ lease' = r
          /\ leads' = leads \cup {r}
       \/ /\ ~DistributedLock \/ Fault("reapRedis")
          /\ lease' \in {lease, IF DistributedLock /\ LeaseFree THEN r ELSE lease}
          /\ UNCHANGED leads
    /\ UNCHANGED <<overdue, todo, rcur, rmeta, vars>>

\* The except clause around a group's loop: any error ends the whole listing.
Abandon(r) == todo' = [todo EXCEPT ![r] = {}]

InGroup(g) == {s \in Sandboxes : /\ sbx[s] \in {"creating", "running", "deleting"}
                                 /\ GroupOf[label[s]] = g}
\* list_sandboxes of the next group.
ListsLabels(g) == {label[s] : s \in InGroup(g)}    \* seeded bug: labels for ids
Listed(g) == InGroup(g)

List(r) ==
    /\ Move(r, "list", "inspect")
    /\ \E g \in groups[r] :
         /\ groups' = [groups EXCEPT ![r] = @ \ {g}]
         /\ \/ todo' = [todo EXCEPT ![r] = Listed(g)]
            \/ Fault("arm") /\ Abandon(r)
    /\ UNCHANGED <<lease, leads, overdue, rcur, rmeta, vars>>

\* index.get(sbx.id): no entry means not ours, leave it to the platform.
Inspect(r) ==
    /\ \/ \E s \in todo[r] :
            /\ todo' = [todo EXCEPT ![r] = @ \ {s}]
            /\ \/ /\ idx[s] # NoKey
                  /\ Move(r, "inspect", "peek")
                  /\ rcur' = [rcur EXCEPT ![r] = s]
                  /\ rmeta' = [rmeta EXCEPT ![r] = idx[s]]
               \/ idx[s] = NoKey /\ rpc[r] = "inspect" /\ UNCHANGED <<rpc, rcur, rmeta>>
       \/ /\ todo[r] = {}
          /\ Move(r, "inspect", IF groups[r] = {} THEN "resign" ELSE "list")
          /\ UNCHANGED <<todo, rcur, rmeta>>
       \/ /\ Fault("reapRedis") /\ todo[r] # {} /\ rpc[r] = "inspect"
          /\ Abandon(r)
          /\ UNCHANGED <<rpc, rcur, rmeta>>
    /\ UNCHANGED <<lease, leads, overdue, groups, vars>>

\* What reap_orphans does next: spare a sandbox its Session still routes to.
MissingKeyIsLive(r) ==             \* seeded bug: no key taken for a live one
    IF fwd[rmeta[r]] \in {rcur[r], NoSandbox} THEN "inspect" ELSE "delete"
ContinueForgotten(r) == "delete"   \* seeded bug: a live one is deleted, too
UnindexedFirst(r) ==               \* seeded bug: unindexed, not deleted
    IF fwd[rmeta[r]] = rcur[r] THEN "inspect" ELSE "unindex"
Verdict(r) == IF fwd[rmeta[r]] = rcur[r] THEN "inspect" ELSE "delete"

\* sessions.peek, which does not slide the window.
Peek(r) ==
    /\ \/ /\ Move(r, "peek", Verdict(r))
          /\ UNCHANGED todo
       \/ Fault("reapRedis") /\ Move(r, "peek", "inspect") /\ Abandon(r)
    /\ IF rpc'[r] = "inspect" THEN Onward(r) ELSE UNCHANGED <<rcur, rmeta>>
    /\ UNCHANGED <<lease, leads, overdue, groups, vars>>

\* begin_delete_sandbox, not awaited to its end: ARM accepts the delete, or
\* answers NotFound; or the request fails, having been accepted or not.
Delete(r) ==
    LET s == rcur[r]
        accepted == IF sbx[s] \in {"creating", "running"}
                    THEN [sbx EXCEPT ![s] = "deleting"] ELSE sbx
    IN
    /\ \/ Move(r, "delete", "unindex") /\ sbx' = accepted /\ UNCHANGED <<todo, rcur, rmeta>>
       \/ /\ Fault("arm")
          /\ Move(r, "delete", "inspect") /\ Abandon(r) /\ Onward(r)
          /\ sbx' \in {sbx, accepted}
    /\ UNCHANGED <<lease, leads, overdue, groups>>
    /\ UNCHANGED <<callVars, redisVars, label, ready, policy>>

Unindex(r) ==
    LET removed == [idx EXCEPT ![rcur[r]] = NoKey] IN
    /\ Move(r, "unindex", "inspect")
    /\ \/ idx' = removed /\ UNCHANGED todo
       \/ Fault("reapRedis") /\ idx' \in ReaperWrites(idx, removed) /\ Abandon(r)
    /\ Onward(r)
    /\ UNCHANGED <<lease, leads, overdue, groups>>
    /\ UNCHANGED <<callVars, dlock, fwd, flag, cloudVars>>

ResignedBlindly(r) == IF r \in leads THEN NoReplica ELSE lease   \* seeded bug
\* The lease key is deleted only while it still holds our token.
Resigned(r) == IF r \in leads /\ lease = r THEN NoReplica ELSE lease

Resign(r) ==
    /\ Move(r, "resign", "sleep")
    /\ lease' \in ReaperWrites(lease, Resigned(r))
    /\ leads' = leads \ {r}
    /\ overdue' = overdue \ {r}
    /\ UNCHANGED <<groups, todo, rcur, rmeta, vars>>

ReaperStep(r) == Elect(r) \/ List(r) \/ Inspect(r) \/ Peek(r) \/ Delete(r)
                   \/ Unindex(r) \/ Resign(r)

\* A killed replica loses its reaper task with its calls.
CrashAll(r) ==
    /\ Fault("crash")
    /\ rpc[r] # "off"
    /\ Killed(r)
    /\ rpc' = [rpc EXCEPT ![r] = "off"]
    /\ leads' = leads \ {r}
    /\ overdue' = overdue \ {r}
    /\ groups' = [groups EXCEPT ![r] = {}]
    /\ todo' = [todo EXCEPT ![r] = {}]
    /\ Onward(r)
    /\ UNCHANGED lease

LeaseExpires ==
    /\ lease # NoReplica
    /\ Fault("leaseTTL") \/ lease \notin leads
    /\ lease' = NoReplica
    /\ overdue' = overdue \cup (leads \cap {lease})
    /\ UNCHANGED <<rpc, leads, groups, todo, rcur, rmeta, vars>>

\* ARM finishes a delete it has accepted; with an ARM fault it may fail.
CloudDeletes(s) ==
    /\ sbx[s] = "deleting"
    /\ \E end \in {"deleted"} \cup (IF Fault("arm") THEN {"running"} ELSE {}) :
         sbx' = [sbx EXCEPT ![s] = end]
    /\ UNCHANGED <<callVars, redisVars, label, ready, policy, reaperVars>>

\* ARM deletes a sandbox with the policy set that has been idle for an hour,
\* twice the Session window.
AutoDelete(s) ==
    /\ s \in policy /\ sbx[s] = "running"
    /\ ~InUse(s) /\ \A k \in Keys : fwd[k] # s
    /\ sbx' = [sbx EXCEPT ![s] = "deleted"]
    /\ UNCHANGED <<callVars, redisVars, label, ready, policy, reaperVars>>

-----------------------------------------------------------------------------
Services ==
    \/ \E c \in Calls : Cancel(c) /\ UNCHANGED reaperVars
    \/ \E s \in Sandboxes : (CloudCreates(s) \/ Vanish(s)) /\ UNCHANGED reaperVars
    \/ \E k \in Keys : (ExpireKey(k) \/ ExpireDlock(k)) /\ UNCHANGED reaperVars
    \/ \E s \in Sandboxes : CloudDeletes(s) \/ AutoDelete(s)
    \/ LeaseExpires

LifeNext ==
    \/ \E c \in Calls : ArriveAndReap(c) \/ (Serve(c) /\ UNCHANGED reaperVars)
    \/ \E r \in Replicas : ReaperStep(r) \/ CrashAll(r)
    \/ Services
    \/ AllEnded /\ (\A r \in Replicas : rpc[r] = "off") /\ UNCHANGED reaperVars

LifeSpec == LifeInit /\ [][LifeNext]_lifeVars

\* The event loop keeps running every call and reaper task, Redis expires an
\* abandoned lock or lease, and ARM finishes every create and delete it accepted.
LifeFairness ==
    /\ \A c \in Calls : WF_lifeVars(Serve(c) /\ UNCHANGED reaperVars)
    /\ \A k \in Keys : WF_lifeVars(ExpireDlock(k) /\ UNCHANGED reaperVars)
    /\ \A s \in Sandboxes : WF_lifeVars(CloudCreates(s) /\ UNCHANGED reaperVars)
    /\ \A s \in Sandboxes : WF_lifeVars(CloudDeletes(s))
    /\ \A r \in Replicas : WF_lifeVars(ReaperStep(r))
    /\ WF_lifeVars(LeaseExpires)

LifeFairSpec == LifeSpec /\ LifeFairness

\* ... and ARM's idle timer fires, the fallback behind the reaper.
FallbackSpec == LifeFairSpec /\ \A s \in Sandboxes : WF_lifeVars(AutoDelete(s))

-----------------------------------------------------------------------------
\* Every variable of the reapers stays in its range.
LifeTypeOK ==
    /\ TypeOK
    /\ rpc \in [Replicas -> ReaperPCs]
    /\ lease \in Replicas \cup {NoReplica}
    /\ leads \subseteq Replicas
    /\ overdue \subseteq leads
    /\ groups \in [Replicas -> SUBSET Groups]
    /\ todo \in [Replicas -> SUBSET Sandboxes]
    /\ rcur \in [Replicas -> Sandboxes \cup {NoSandbox}]
    /\ rmeta \in [Replicas -> Keys \cup {NoKey}]

\* A call relies on sandbox s, from reading or binding it until the command
\* has run.
ReliesOn(c, s) ==
    /\ cur[c] = s
    /\ pc[c] \in {"slide", "ensure", "bind", "index", "check", "bootstrap",
                  "mark", "return", "exec"}

\* The reaper deletes no sandbox a live Session routes to or a call relies on,
\* although it decides on a listing, an index entry and a peek that are all
\* older than the delete.
SparesLiveSessions ==
    [][\A r \in Replicas : Delete(r) /\ sbx' # sbx =>
           /\ \A k \in Keys : fwd[k] # rcur[r]
           /\ \A c \in Calls : ~ReliesOn(c, rcur[r])]_lifeVars

\* At most one replica leads a reaper round.
OneLeader == Cardinality({r \in Replicas : rpc[r] \in Pass}) <= 1

\* The TTL is the only way to lose the lease: two replicas lead at once only if
\* one of them has outlasted its lease, although passes that did, or that go
\* without a lease, still run, resign or die around the leader's.
OneLeaderUntilLapse ==
    \A q, r \in leads \ overdue : rpc[q] \in Pass /\ rpc[r] \in Pass => q = r

\* The reverse index is the reaper's only way to a sandbox: an entry goes only
\* once ARM has been asked to delete the sandbox, by whichever reaper and however
\* many passes ago.
IndexKeptUntilDelete ==
    [][\A s \in Sandboxes :
           idx[s] # NoKey /\ idx'[s] = NoKey => sbx[s] \in {"deleting", "deleted"}]_lifeVars

\* A running sandbox that serves no Session and no call.
Orphan(s) == sbx[s] \in {"running", "deleting"} /\ ~Serving(s)

\* A sandbox whose Session has ended is deleted.
OrphansReclaimed == \A s \in Sandboxes : Orphan(s) ~> ~Orphan(s)
=============================================================================
