------------------------------ MODULE GroupGate ------------------------------
(***************************************************************************)
(* Group gating of the tools: main._require_group / _user_groups, the OBO  *)
(* exchange, Graph's checkMemberGroups and the in-process group cache      *)
(* (src/mcp-server/main.py, cache.py), with a clock.                       *)
(*                                                                         *)
(* Every authorization check is a process; tools/list runs one per tool,   *)
(* tools/call one more.  The OBO exchange is a blocking call made on the   *)
(* event loop: while it runs, no other check of that replica proceeds.     *)
(***************************************************************************)
EXTENDS Naturals

CONSTANTS
    Checks,       \* authorization checks, each run once
    Replicas,     \* server processes; each has a cache of its own
    Users, Groups,
    ReplicaOf,    \* [Checks -> Replicas]
    UserOf,       \* [Checks -> Users]
    GroupOf,      \* [Checks -> Groups], the group the tool requires
    HasOid,       \* users whose token carries an oid claim
    TTL,          \* GROUP_CACHE_TTL
    MaxLag,       \* from Graph's evaluation to the resumption of the check
    MaxTime,      \* the bound of the clock
    NoCheck

ASSUME ChecksAssumption == /\ ReplicaOf \in [Checks -> Replicas]
                           /\ UserOf \in [Checks -> Users]
                           /\ GroupOf \in [Checks -> Groups]
                           /\ HasOid \subseteq Users
                           /\ NoCheck \notin Checks
ASSUME TimesAssumption == TTL \in Nat /\ MaxLag \in Nat /\ MaxTime \in Nat

VARIABLES
    now,       \* the clock
    member,    \* Entra: the groups each user is a member of
    lastIn,    \* the last moment each user was a member of each group
    lastOut,   \* ... and was not
    cache,     \* each replica's group_cache: groups and the end of the entry
    loop,      \* the check that blocks a replica's event loop
    pc, reply, readAt,   \* per check: progress, Graph's answer, its moment
    verdict    \* what the check returned

entraVars == <<member, lastIn, lastOut>>
checkVars == <<pc, reply, readAt, verdict>>
vars      == <<now, entraVars, cache, loop, checkVars>>

Init ==
    /\ now = 0
    /\ member \in [Users -> SUBSET Groups]
    /\ lastIn = [u \in Users |-> [g \in Groups |-> 0]]
    /\ lastOut = [u \in Users |-> [g \in Groups |-> 0]]
    /\ cache = [r \in Replicas |-> [u \in Users |-> [groups |-> {}, until |-> 0]]]
    /\ loop = [r \in Replicas |-> NoCheck]
    /\ pc = [c \in Checks |-> "look"]
    /\ reply = [c \in Checks |-> {}]
    /\ readAt = [c \in Checks |-> 0]
    /\ verdict = [c \in Checks |-> "none"]

-----------------------------------------------------------------------------
Goto(c, from, to) == pc[c] = from /\ pc' = [pc EXCEPT ![c] = to]

\* The event loop of the check's replica can resume it.
Scheduled(c) == loop[ReplicaOf[c]] = NoCheck

\* group_id in groups
Decide(c, groups) ==
    verdict' = [verdict EXCEPT ![c] = IF GroupOf[c] \in groups THEN "allow" ELSE "deny"]

Entry(c) == cache[ReplicaOf[c]][UserOf[c]]
Hit(c)   == UserOf[c] \in HasOid /\ now < Entry(c).until

Immortal == now + TTL + MaxTime + 1      \* seeded bug: an entry without a TTL
Lifetime == now + TTL

Cached(c, groups) ==
    [cache EXCEPT ![ReplicaOf[c]][UserOf[c]] = [groups |-> groups, until |-> Lifetime]]

\* Seeded bug: a hit renews the entry, as the Session views do.
LookSliding(c) ==
    /\ Scheduled(c)
    /\ \/ /\ Hit(c)
          /\ Goto(c, "look", "end")
          /\ Decide(c, Entry(c).groups)
          /\ cache' = Cached(c, Entry(c).groups)
          /\ UNCHANGED loop
       \/ /\ ~Hit(c)
          /\ Goto(c, "look", "obo")
          /\ loop' = [loop EXCEPT ![ReplicaOf[c]] = c]
          /\ UNCHANGED <<cache, verdict>>
    /\ UNCHANGED <<now, entraVars, reply, readAt>>

\* group_cache.get does not suspend: a hit decides, a miss blocks the loop.
Look(c) ==
    /\ Scheduled(c)
    /\ \/ /\ Hit(c)
          /\ Goto(c, "look", "end")
          /\ Decide(c, Entry(c).groups)
          /\ UNCHANGED loop
       \/ /\ ~Hit(c)
          /\ Goto(c, "look", "obo")
          /\ loop' = [loop EXCEPT ![ReplicaOf[c]] = c]
          /\ UNCHANGED verdict
    /\ UNCHANGED <<now, entraVars, cache, reply, readAt>>

\* Seeded bug: the empty set of a failed exchange is cached.
OboCachesFailure(c) ==
    /\ \/ Goto(c, "obo", "graph") /\ UNCHANGED <<cache, verdict>>
       \/ Goto(c, "obo", "end") /\ Decide(c, {}) /\ cache' = Cached(c, {})
    /\ loop' = [loop EXCEPT ![ReplicaOf[c]] = NoCheck]
    /\ UNCHANGED <<now, entraVars, reply, readAt>>

\* acquire_token_on_behalf_of returns or raises: a failed exchange counts as "in
\* no group" and is not cached.
Obo(c) ==
    /\ \/ Goto(c, "obo", "graph") /\ UNCHANGED verdict
       \/ Goto(c, "obo", "end") /\ Decide(c, {})
       \/ Goto(c, "obo", "end") /\ verdict' = [verdict EXCEPT ![c] = "raised"]
    /\ loop' = [loop EXCEPT ![ReplicaOf[c]] = NoCheck]
    /\ UNCHANGED <<now, entraVars, cache, reply, readAt>>

\* Graph evaluates the memberships, whatever the replica is doing.
Graph(c) ==
    /\ Goto(c, "graph", "fill")
    /\ reply' = [reply EXCEPT ![c] = member[UserOf[c]]]
    /\ readAt' = [readAt EXCEPT ![c] = now]
    /\ UNCHANGED <<now, entraVars, cache, loop, verdict>>

\* The POST fails or raise_for_status raises: so does the check.
GraphFails(c) ==
    /\ Scheduled(c)
    /\ Goto(c, "graph", "end")
    /\ verdict' = [verdict EXCEPT ![c] = "raised"]
    /\ UNCHANGED <<now, entraVars, cache, loop, reply, readAt>>

\* The answer is cached, over whatever another check has cached meanwhile.
Fill(c) ==
    /\ Scheduled(c)
    /\ Goto(c, "fill", "end")
    /\ cache' = IF UserOf[c] \in HasOid THEN Cached(c, reply[c]) ELSE cache
    /\ Decide(c, reply[c])
    /\ UNCHANGED <<now, entraVars, loop, reply, readAt>>

\* TTLCache drops an entry when it is full.
Evict(r, u) ==
    /\ cache' = [cache EXCEPT ![r][u] = [groups |-> {}, until |-> 0]]
    /\ UNCHANGED <<now, entraVars, loop, checkVars>>

\* An administrator adds the user to the group or removes him from it.
Change(u, g) ==
    /\ member' = [member EXCEPT ![u] = IF g \in @ THEN @ \ {g} ELSE @ \cup {g}]
    /\ lastIn' = [lastIn EXCEPT ![u][g] = now]
    /\ lastOut' = [lastOut EXCEPT ![u][g] = now]
    /\ UNCHANGED <<now, cache, loop, checkVars>>

Tick ==
    /\ now < MaxTime
    /\ \A c \in Checks : pc[c] = "fill" => now < readAt[c] + MaxLag
    /\ now' = now + 1
    /\ lastIn' = [u \in Users |-> [g \in Groups |->
                    IF g \in member[u] THEN now + 1 ELSE lastIn[u][g]]]
    /\ lastOut' = [u \in Users |-> [g \in Groups |->
                    IF g \in member[u] THEN lastOut[u][g] ELSE now + 1]]
    /\ UNCHANGED <<member, cache, loop, checkVars>>

Step(c) == Look(c) \/ Obo(c) \/ Graph(c) \/ GraphFails(c) \/ Fill(c)

Next ==
    \/ \E c \in Checks : Step(c)
    \/ \E r \in Replicas, u \in Users : Evict(r, u)
    \/ \E u \in Users, g \in Groups : Change(u, g)
    \/ Tick

Spec == Init /\ [][Next]_vars
-----------------------------------------------------------------------------
\* Every variable stays in its range; an entry ends within a TTL from now.
TypeOK ==
    /\ now \in 0 .. MaxTime
    /\ member \in [Users -> SUBSET Groups]
    /\ lastIn \in [Users -> [Groups -> 0 .. now]]
    /\ lastOut \in [Users -> [Groups -> 0 .. now]]
    /\ cache \in [Replicas -> [Users -> [groups : SUBSET Groups, until : 0 .. now + TTL]]]
    /\ loop \in [Replicas -> Checks \cup {NoCheck}]
    /\ pc \in [Checks -> {"look", "obo", "graph", "fill", "end"}]
    /\ reply \in [Checks -> SUBSET Groups]
    /\ readAt \in [Checks -> 0 .. now]
    /\ verdict \in [Checks -> {"none", "allow", "deny", "raised"}]

Returns(c, v) == verdict[c] = "none" /\ verdict'[c] = v

\* A tool is allowed only to a user who was a member of its group at some
\* moment of the last TTL plus one answer's lag, although checks overwrite
\* each other's cache entries with answers of different age.
AllowIsFresh ==
    [][\A c \in Checks : Returns(c, "allow") =>
           now <= lastIn[UserOf[c]][GroupOf[c]] + TTL + MaxLag]_vars

\* Except when the OBO exchange itself fails, a tool is denied only to a user
\* who was not a member at some moment of the same window: neither a failed
\* exchange nor an old answer shuts a member out for longer.
DenyIsFresh ==
    [][\A c \in Checks : Returns(c, "deny") /\ pc[c] # "obo" =>
           now <= lastOut[UserOf[c]][GroupOf[c]] + TTL + MaxLag]_vars
=============================================================================
