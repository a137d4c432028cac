# Verification of the identity-aware MCP server

TLA+ models of the server in this repository (`src/mcp-server`, `src/worker`,
`src/sandbox-image`) and of the OAuth client that comes with its documentation
(`docs/en/multi-client-implementation/oauth-mcp-flow-demo`), the TLC instances that
check them and TLAPS proofs about them. Paths and line numbers below are those of the
repository.

## 1. The system

The server exposes two tools, `diagnose_bash` and `action_bash`. A call is
authenticated, gated on group membership, given a Session, run in a sandbox of
that Session and audited.

| Component | State it keeps | Operations |
|---|---|---|
| **Session-sticky routing** (`sandbox_manager.py`: `exec`, `get_or_create`, `_dlock`, `_create_sandbox`, `_bootstrap`) | per process: one `asyncio.Lock` per routing key. In Redis: `lock:<key>`, `session:<key>`, reverse index `mcp:sbxidx:<sandbox>`, `bootstrapped:<sandbox>`. In ARM: the sandboxes | reuse the Session's sandbox, or create, bind, index and bootstrap one; run the command |
| **Reaper** (`_ensure_reaper`, `_reaper_loop`, `_try_become_reaper`, `_resign_reaper`, `reap_orphans`) | one task per process; `mcp:reaper:leader` in Redis | elect a leader, list, look up, peek, delete, unindex, resign |
| **Provisioning** (`_resolve_disk`, `_ensure_disk_image`, `_user_subscription`, `_ensure_volume`) | per process: built disk ids, ensured volumes, one `asyncio.Lock` per group for each. In ARM: disk images, volumes | find or build the disk image, create the volume once |
| **Session end** (`end_session`, `aclose`) | the keys above | delete a Session's sandboxes (no caller in the repository) |
| **Redis views** (`cache.py`) | keys with or without TTL | get (sliding for Session keys), peek, set, delete |
| **Session derivation** (`session.py`, `main._derive_ids`) | `usersession:<oid>` in Redis, sliding TTL | reuse or mint a Session id |
| **Group gating** (`main._user_groups`, `_require_group`) | per process: TTL cache oid -> groups | OBO exchange, Graph query, cache fill |
| **Tool pipeline** (`main._exec`, `UserAuthMiddleware`, `audit.py`, `redact.py`) | per call | derive ids, run, redact (action only), audit, answer |
| **Local backend** (`executor.LocalDockerExecutor`, `worker.py`) | one subprocess per request | post, run under a timeout, kill, cap output |
| **OAuth proxy** (`mcpproxy.py`) | none | rewrite two requests, serve two documents and `/mcp` under a second path |
| **OAuth demo client** (`server.py`, `public/app.js`) | the dict `RUN` under `LOCK`; in the page `state.live` and a poll timer | discover, authorize, callback, status; click, poll, start over |
| **Blob workspaces** (`blob.py`) | none | path layout, pass-through I/O |

They interact as follows. Calls are coroutines of one event loop per replica;
they meet in the per-key `asyncio.Lock`s. Replicas meet only in Redis and ARM.
The reaper runs beside the calls of its replica, takes no lock of theirs, and
decides from the reverse index and the Session keys that the calls write. ARM
acts on its own: creates complete after the caller has given up, the idle
policy deletes sandboxes, sandboxes disappear. A create waits for the image and
the volume of its group under locks that the Sessions of the group share, inside
its own Session's locks. The demo client runs beside all this: it meets the
server only in the endpoints of `/mcpproxy` and `/mcp`, and Entra in the login.

### What is hard here, and what makes each component correct

* *Routing*: interleaved calls of one Session on one or several replicas; a
  lock that is best effort by design (a waiter proceeds without it, its TTL
  lapses); half-finished setup after an error, a cancellation or a crash.
  Correct means: one sandbox per Session, only bootstrapped sandboxes handed
  over, never another Session's sandbox, every call answered, nothing leaked.
* *Reaper*: it acts on three readings of different age. Correct means: it never
  deletes what a Session or a call still needs, it eventually deletes
  everything else, forgets no sandbox it has not asked ARM to delete, and leads a
  round alone unless its lease has run out.
* *Provisioning*: slow builds against a short `create_timeout`; replicas that race.
  Correct means: no sandbox is created from an image that is not ready or without its
  volume; a process never waits for two builds of one image; no Session waits for a lock
  of its group that a call which is gone has left behind.
* *Session derivation*: read-then-write on a sliding key, one window per user
  beside one per group. Correct means: a user who keeps calling keeps one
  Session, a lapsed one does not return.
* *Group gating*: a cached decision against a membership that changes. Correct
  means: a decision reflects the membership at some moment of the last TTL plus
  one Graph round trip, and failures deny.
* *Tool pipeline, local backend*: two timeouts in two processes. Correct means:
  a command that runs too long is answered by the worker's structured result
  and not by a transport error, and what ran is audited.

* *OAuth proxy and demo client*: a thread per request over one shared `RUN`,
  read in part without its lock; logins that come back in another tab, late,
  twice or never. Correct means: `resource` never reaches Entra; a token belongs
  to one login; a page shows one conversation, and learns how its login ended.

`PROJECT.json` lists the hazards one by one with the line at which each bites.

## 2. Modules

| Module | Models | How state and actions correspond |
|---|---|---|
| `SandboxManager` | the routing | `pc[c]` is where call `c` is suspended; one action is the code between two awaits on Redis, ARM or the sandbox. `locks` are the `asyncio.Lock`s, `dlock`/`fwd`/`idx`/`flag` the four kinds of Redis keys, `sbx`/`label`/`ready`/`policy` ARM's and the sandbox's state |
| `SandboxLifecycle` | the reaper, its election, ARM's auto-delete, composed with `SandboxManager` | `rpc[r]` is where replica `r`'s reaper task is, `lease` the leader key, `leads` the replicas whose pass holds a token, `overdue` (history) those whose lease ran out meanwhile, `todo` the listing, `rcur`/`rmeta` the loop variables |
| `LockTakeover` | the routing with one history variable | `unlocked` are the calls that lost the cluster lock to its TTL or went on without it; nothing else is added |
| `SessionWindow` | the derivation of Session ids, with a clock | `window` is `usersession:<oid>`, `route` the expiry of the routing keys, `pc[c]`/`sid[c]` the call between the commands of `_derive_ids` and `get_or_create` |
| `GroupGate` | the group check and its cache, with a clock | `cache` is each replica's `group_cache`, `loop` the check whose OBO exchange blocks the event loop, `member` Entra's memberships |
| `ToolCall` | `_exec` on the local backend, the worker's `/exec`, the audit sink, with a clock | `pc[c]` is where `_exec` is suspended, down to the phase of the HTTP request, and `phaseAt[c]` since when; `job[c]` is the worker's side of the call |
| `Provisioning` | what `Prepare` of `SandboxManager` stands for | extends it: `stage[c]` is where call `c` is suspended inside `_create_sandbox`, `disk[c]` its image, `imageLock`/`volumeLock` the groups' `asyncio.Lock`s, `built`/`ensured` `_built_disk_ids` and `_ensured_volumes` of each process, `images`/`volumes` ARM's |
| `StickySession` | what `get_or_create` promises, abstractly | `home` is the sandbox of each Session, `used` what has been one, `handed` where a call's command runs; the steps are *open*, *waste* (a sandbox is made that nobody learns of), *hand* and *lose* |
| `StickyRefinement` | the mapping from `SandboxManager` to `StickySession` | a Session's home is the live sandbox, created for it, that its calls use or its key names |
| `McpProxy` | the proxy | operators from a login's request to the one that reaches Entra |
| `FlowDemo` | the demo's server, its page, the login tabs and Entra's redemption of codes, with `McpProxy` | `pc[t]` is where the thread of request `t` is, `RUN` the shared dict (each step with the thread that captured it), `page` the page's `state.live`, `poll` the status request under way, `tabs` the open logins |
| `SandboxManagerProofs`, `StickySessionProofs` (with the refinement), `SandboxLifecycleProofs`, `ProvisioningProofs`, `SessionWindowProofs`, `FlowDemoProofs`, `GroupGateProofs`, `ToolCallProofs` | theorems | section 5 |
| `MCSandboxManager`, `MCLockTakeover`, `MCSandboxLifecycle`, `MCProvisioning`, `MCFlowDemo`, `MCSessionWindow`, `MCGroupGate`, `MCToolCall` | instances and symmetry sets for TLC | section 3 |

The routing is described at three levels, each shown to implement the next:
`Provisioning` (its property `Spec`) implements `SandboxManager`, which, as long as
calls of a Session exclude each other (`KeepsPromise`), implements `StickySession`.
Whatever is proved of `SandboxManager` thus holds with provisioning spelled out; that
it also holds with the reapers beside it is proved separately (section 5).

`SandboxManager`, its companions and `FlowDemo` have no clock: a TTL that lapses, a
timeout that fires and a client that gives up are actions that may happen at any
moment, which is stronger than any choice of durations. The other three stateful
components are correct only because of their durations, so they have one.

Conventions. A routing key is an opaque value of `Keys`: the triple
(user, Session, group) matters only through equality. A Redis command is
atomic; a failed one (`_redis_safe`) may or may not have been applied
(`Written`). Tokens of `redis.lock` and of the leader lease are the identity of
their owner, which is what the Lua comparison distinguishes. Sandbox ids are
never reused. Bodies named `...Blindly`, `...Kept`, `Fresh...` and the like,
marked "seeded bug", are used nowhere in the specifications: `PROJECT.json`
substitutes them one at a time to show that a property can fail.

### Faults

What may go wrong is a constant set `Faults`, so that each run states exactly
what it assumes:

| Fault | Meaning |
|---|---|
| `redis` | any Redis command of a call may fail, applied or not |
| `reapRedis` | the same of a reaper's commands |
| `dlockWait` | a waiter gives up on the cluster lock (`blocking_timeout`) |
| `dlockTTL` | the lock's TTL lapses inside the critical section |
| `timeout` | `create_timeout` fires; ARM still finishes what it accepted |
| `arm` | ARM or sandbox requests fail, applied or not: an accepted create may raise, and a poll may fail while ARM goes on; `bootstrap.sh` fails; an accepted delete comes to nothing |
| `vanish` | a running sandbox disappears |
| `expiry`, `lateExpiry` | a Session key lapses between calls; also during a call |
| `cancel` | the client cancels a call (`CancelledError`) |
| `crash` | a replica dies and restarts |
| `leaseTTL` | a reaper pass outlasts its lease |

Which properties survive which single fault (found with TLC on two calls, two
replicas and two sandboxes):

| Property | holds under | fails under |
|---|---|---|
| `LocalMutex`, `LocksLeft`, `Isolation`; `CreatesOnReadyGround`, `BuildsOnce`, `GroupLocksLeft` | all (proved) | - |
| `OneSandboxPerSession`, `KeepsPromise` | arm, vanish, expiry, timeout, cancel, crash (proved) | lateExpiry, redis, dlockWait, dlockTTL |
| `NeverRebind` | the same and lateExpiry (proved) | redis, dlockWait, dlockTTL |
| `MutexUntilLapse` | all (proved) | - |
| `ReturnsBootstrapped` | arm, vanish, expiry, lateExpiry, timeout (proved) | cancel, crash, redis, dlockWait, dlockTTL |
| `Reclaimable` | all but cancel and crash (proved) | cancel, crash; arm together with redis |
| `SparesLiveSessions` | arm, vanish, expiry, timeout, cancel, crash, leaseTTL, reapRedis (proved) | lateExpiry, redis, dlockWait, dlockTTL |
| `IndexKeptUntilDelete` | all but arm (proved) | arm (an accepted delete comes to nothing before the entry goes) |
| `OneLeader` | all but reapRedis and leaseTTL (proved) | reapRedis, leaseTTL |
| `OneLeaderUntilLapse` | all (proved) | - |
| `EveryCallEnds` | all | - |

On a single replica, the deployed default, `dlockWait` and `dlockTTL` are harmless to
all of these, and so is having no cluster lock at all: the `asyncio.Lock` does its work
(proved). `MutexUntilLapse` and `OneLeaderUntilLapse` hold under every fault because
they except those who have lost lock or lease, or never got one: what they say is that
nobody else is disturbed by them.

A delete is asynchronous: `begin_delete_sandbox` is not awaited to its end, so a
sandbox whose delete ARM has accepted is `deleting`, may still run commands
(`Serving`), and is `deleted` only by a step of ARM's (`CloudDeletes`), which under
`arm` may put it back to `running`. The code drops the index entry in between.
`IndexKeptUntilDelete` therefore speaks of the accepted delete.

`Reclaimable` speaks of the sandboxes a call has obtained. One that ARM makes
although the create raised, or was given up, is known to no call, is in no index
and has no policy: under `arm` and `timeout` it is the platform's alone (finding 2).
`Reclaimable` is listed for the routing alone; a reaper that unindexes a sandbox
whose accepted delete comes to nothing breaks it under `arm`.

### Provisioning

A call stays in `prepare` while `stage` moves: the image lock, the listing, the build
and its end; the profile lookup; the volume lock and `create_volume`; then ARM accepts
the create. A build goes on in ARM (`CloudBuilds`) whoever still waits for it. Whatever
ends the create - an error (`Breaks`), `create_timeout` (`GivesUp`), a cancellation, a
crash - unwinds both `async with` (`Unwind`) and loses the call's locals, while what the
process remembers stays, except over a restart. `FromImage` is the configuration with
`SANDBOX_DISK_IMAGE`; the other two need no image and go straight to the subscription.
`BlobEnabled` is the configuration with a workspace container; without one there is no
volume to create. A listing that fails counts as empty and starts a build although an
image may be ready (457-460): the process then has two images, which harms nothing, and
a build that was given up goes on in ARM beside the next one: `BuildsOnce` speaks of the
builds a process waits for and of what it has resolved, not of ARM.

### The demo client

One action is the code of a thread between two accesses to `RUN` or two requests
to other servers; under `LOCK` an access is one step, and the two reads outside
it (495, 500) are steps of their own. PKCE pair, state and authorization URL are
named by the thread that minted them, a code by the callback that first brought
it; a reloaded tab brings the same code again, and Entra redeems a code once, for
the verifier it was issued for. The page applies every answer to whatever flow it
shows by then (`Hear`, `HearStatus`), as `app.js` does; told `done` by an answer it had
asked for before it started over, it has a login button without a URL (`OpenLogin`).
The result page is written inside the `try` (501): a browser that is gone by then
turns a run that is done into one that failed (`Finish`).

`careful` distinguishes two users: one who starts over only when nothing is under way,
and one who does so at any moment. Faults: `network`, a request of the demo raises and
its answer may be lost, or the browser is gone; `refused`, Entra refuses what it could
have granted; `declined`, the user declines.

### The components with a clock

`now` is a natural number that `Tick` advances, up to `MaxTime`. A thing that is
due holds the clock back until it has happened: `Tick` waits for messages that
have been under way for `MaxLag` and for timers that have run out (in `ToolCall`
the worker's timer may be `MaxLag` late). Everything else takes as long as it
likes.

**`SessionWindow`.** `UserSessionCache.get` is two commands, a read (`Get`) and a write
of what was read (`Slide`); a miss is a read and the write of a minted id (`Set`), and
other calls run in between. The id carries the time of the miss, taken before the write.
Where Redis errs, or the token has no oid, the call goes on with the transport id.
`Route` is what `get_or_create` does to the routing key, one per Session and tool group
with the same window: it is bound or slid; or, its command having failed and
`_redis_safe` having swallowed the error, it is not, and the call succeeds all the same;
or the call fails, having slid it, purged it or rolled it back. What else happens to a
call belongs to `SandboxManager`. `writer`, `behind` and `lapsed` record history for the
properties and influence nothing. A call takes at most `MaxLag` from its lookup to its
last write. The run has `MaxLag < Window`; the theorems ask only for a window that is
not zero, which Redis would refuse.

**`GroupGate`.** `msal`'s exchange is a synchronous call in a coroutine: from a
miss (`Look`) until it returns or raises (`Obo`), no other check of the replica is resumed
(`Scheduled`). Graph's evaluation and the check's resumption are two steps, so
that answers can overtake each other. The in-memory TTL cache may evict any
entry when full (`Evict`). `lastIn` and `lastOut`, the last moments a user was
and was not a member, are history variables of the properties.

**`ToolCall`.** The server's `pc` and the worker's `job` advance separately;
`exited` and `killed` are answers under way. httpx's timeout is not one deadline: it is
granted anew to connecting, to writing the request and to reading the answer
(`HttpPhases`), and `HttpTimeout` fires on the phase that outlasts it; a connection is
opened for every call, so there is no pool to wait for. Redaction of an action's
output is the same step as the answer's arrival. An exception or a cancellation in
`executor.exec` leaves `_exec` without an audit row, and the worker is not told.
The command is the shell that the worker starts: what the shell starts in turn
is not modelled.

## 3. Runs

| Run | Instance | Checks | Shows |
|---|---|---|---|
| `sticky` | 3 calls of one Session, 2 replicas, 3 sandboxes; arm, vanish, expiry, timeout, cancel, crash | `TypeOK`, `LocalMutex`, `ClusterMutex`, `LocksLeft`, `OneSandboxPerSession`, `NeverRebind`, `KeepsPromise` | no call waits for one that is gone; with a cluster lock that holds, a Session keeps to one sandbox whatever else fails, and the routing implements `StickySession` |
| `provisioning` | 3 calls of 2 Sessions of one group, 1 replica, lock disabled (the deployed default), 3 sandboxes, 2 images; arm, vanish, expiry, timeout | `ProvisioningTypeOK`, `Isolation`, `Reclaimable`, `OneSandboxPerSession`, `ReturnsBootstrapped`, `CreatesOnReadyGround`, `BuildsOnce`, `GroupLocksLeft`, `Spec` | creates rest on an image and a volume that are there, a process never waits for two builds of one image (one that was given up goes on in ARM beside the next), what a call obtained stays reclaimable, Sessions never meet in a sandbox, and the local lock is enough on one replica |
| `takeover` | 3 calls of one Session, 2 replicas, 3 sandboxes; dlockTTL, dlockWait, redis | `MutexUntilLapse` | a call that outlasts its lock's TTL, or does without the lock, may be inside beside the next one, but on its way out it takes nobody's lock: of those who have one, a single call is inside |
| `live` | 3 calls of 2 Sessions of one group, 2 replicas, 1 sandbox and 1 image id; timeout, cancel, crash; fair | `EveryCallEnds` | nobody waits forever for a dead lock of Session, cluster or group: without `redis` and `dlockWait`, a waiter has no way but getting it |
| `lease` | 2 calls of one Session, 2 replicas with reapers, 2 sandboxes; leaseTTL, expiry, cancel, crash | `LifeTypeOK`, `OneLeaderUntilLapse`, `SparesLiveSessions` | two replicas lead at once only where a lease has run out, whose late resignation is harmless; reapers, also two at once, spare what live Sessions and calls need, although each decides on three readings of different age |
| `reclaimed` | 2 calls, 2 replicas; lateExpiry, dlockTTL; fair | `OneLeader`, `OrphansReclaimed`, `IndexKeptUntilDelete` | the reapers alone delete every orphan, also those of a double create, and forget none before ARM has accepted its delete |
| `cancelled` (violated) | 2 calls, 1 replica; cancel | `ReturnsBootstrapped` | finding 1 |
| `abandoned` (violated) | 2 calls, 1 replica; timeout; fair, auto-delete included | `OrphansReclaimed` | finding 2 |
| `flowdemo` | 6 requests (5 of a hasty user), 2 at a time, 2 callbacks, 1 start over; network, refused, declined for the careful user; fair | `TypeOK`, `TokenOfOneLogin`, `RefusedOnlyWhenOvertaken`, `OneConversation`, `LoginAnswered` | overlapping flows and late, repeated or refused logins never yield a token of two logins; what Entra refuses, the user's own steps explain; a careful user sees one conversation; a page that polls is told |
| `window` | 3 calls of one user from 2 clients, each of its own tool group; window 2, lag 1, clock to 4; Redis may fail | `TypeOK`, `ReplacedOnlyByRace`, `FreshAfterQuiet`, `RouteOutlivesSession` | only calls that had already looked up can split a Session; a lapsed one does not return; a Session's last route lives as long as it, unless the write of its key was lost |
| `gate` | 3 checks of one user on 1 replica; TTL 3, lag 1, clock to 6 | `TypeOK`, `AllowIsFresh`, `DenyIsFresh` | every decision was right at some moment of the last TTL plus one lag |
| `toolcall` | 1 call; timeouts 12 - 5 and 3, lag 1, clock to 20 | `TypeOK`, `NoLateRun`, `TimeoutIsStructured` | the worker's timer wins over httpx's, whichever phase it measures |

Bounds. Every call is served once, so the number of calls bounds the creations: with as
many sandboxes as calls, as in all runs but `live`, ARM never runs out of them. Two
calls on two replicas give every race of two parties on the shared keys; the third call
of `sticky`, `provisioning` and `live` is a waiter behind a holder and a later call that
finds what both left; in `takeover` it is the one that a late release would let in
beside the holder that took over. Two keys are enough for `Isolation` (`provisioning`),
which relates a call to one foreign Session at a time, and one group with two Sessions
for what Sessions of a group share. Neither election nor deletes look at what a group
is, so the reapers have one; two replicas are enough for a leader that outlasts its
lease, the next one, and the first again. The reapers' own failing requests (`arm`,
`reapRedis`) are not in `lease`, whose state space each of them multiplies: the instance
without `expiry` passes with either, and the theorems of section 5 admit them. In `live`
there is a single sandbox id and a single image id: a second create or build finds ARM
without one and hangs until `create_timeout` cuts it off, which is the stuck ARM call
that the timeout is there for, and the run shows that the waiters behind it are answered
all the same. In `flowdemo` six requests are a whole flow (discover, authorize,
callback) twice, or once and a half for the hasty user; two threads at a time and two
callbacks give every pair of overlapping requests, a late login into another flow and a
code brought twice. The faults are left to the careful user there to keep the instance
small: a refused, failed or declined login changes `RUN` in the same two ways (`error`,
or steps without a token) that a hasty user's mismatch and repetition do, and the
theorems of section 5 admit every fault for both. No counter is unbounded; the state
spaces are explored completely.

The clocked runs bound `now` by `MaxTime`. In `window` it lets a Session lapse
and be followed by another for its whole window; three calls are a first one, a
second that races it and a third that finds what they left. One call has its own
client and tool group, so that keys of two groups meet under one Session; the
other two are interchangeable. In `gate`, users, groups and replicas share
nothing, so one of each suffices; three checks allow a hit between two
overlapping misses, and the clock reaches past an entry that a sliding hit would
have prolonged. In `toolcall` calls share nothing; the times are scaled (12, 5
and 3 for the defaults 120, 10 and 5) and keep what `TimersAssumption` demands,
and `MaxTime` is past the last moment at which a call posted at once may be
over. The theorems of section 5 hold for all values.

Symmetry (sandbox ids, calls of the same role, replicas together
with their calls) is used in runs without liveness properties only.

Deadlock checking is on everywhere. A finished instance stutters in `AllEnded` (`Rest`
in `FlowDemo`), which requires that all calls have ended, so a call stuck half way would
be reported. (`GroupGate` never stops: memberships change and entries are evicted for
ever.)

Fairness. Weak fairness of `Serve(c)`: the event loop runs every ready
coroutine, and every awaited request ends (client timeouts in `cache.py:77-93`,
ARM's and httpx's in their clients). `ExpireDlock` and `LeaseExpires` are fair
because both keys are set with an expiry. ARM owes the completion of a create
only where `create_timeout` is not there to stand in for it. `ReaperStep` is
fair because `_reaper_loop` catches everything. Arrivals, faults, expiry of
Session keys and, outside `FallbackSpec`, the auto-delete are never owed.
`Provisioning` adds nothing but the completion of image builds, on the same
condition as creates. In `FlowDemo` threads run and their requests end (timeouts
of 20 and 30 s, `server.py:113-158`) and the page's timer fires every 1.5 s
(`app.js:460-474`); the user owes nothing, not even closing a tab.

## 4. Findings

1. `cancelled`. `get_or_create` rolls back under `except Exception`
   (`sandbox_manager.py:331`). A call cancelled between binding the key (316)
   and marking the sandbox (329) leaves the key bound; the next call takes the
   hit path, which only asks `ensure_running`, and returns a sandbox in which
   `bootstrap.sh` never succeeded, against the docstring at 279.
2. `abandoned`. A create that outlives `create_timeout` leaves a sandbox that is
   not indexed, so the reaper skips it (627-629), against the comment at
   308-310. When the timeout cuts off `_apply_idle_autodelete` as well, the
   platform does not delete it either.

Not listed as findings, but visible in the models:

* After a degraded double create the reaper deletes the losing sandbox under
  its own call (225-228 call the lock an efficiency lock; `SparesLiveSessions`
  fails with `dlockWait`).
* With Redis down a call that has to create a sandbox fails in the unguarded
  profile lookup (502) although `_redis_safe` (345-346) promises to run without
  stickiness instead.
* A Session of one user has a routing key per tool group. Using one group slides
  the Session and that group's key; the other key lapses after a window and its
  sandbox is reaped in a live Session, although `cache.py:115-116` takes the
  key's expiry for the Session's end. `RouteOutlivesSession` therefore speaks of
  the group used last.
* `README.md:49` says that every tool call writes one audit row, and the comment at
  `main.py:216` likewise. A call whose `executor.exec` is cancelled or raises leaves
  `_exec` before the record (`main.py:211-219`), while the worker runs its command to the
  end; a row whose upload fails is lost as well, by design (`audit.py:131-140`).
* `main.py:105` calls `GROUP_CACHE_TTL` the longest time a revoked user stays
  allowed. It is the TTL plus the age of Graph's answer when it is cached.
* `server.py:508-511`: the demo's result page says that token and `tools/list`
  were captured whenever no exception was raised; a token request that Entra
  refuses is an answer like any other, is published as `done`, and shows the
  error only in the step itself (`Exchange`, `outcome`).
* A login of an abandoned flow that comes back late, or a tab that is reloaded
  after another authorize, marks the current run as failed (`server.py:495-497`)
  and its page stops polling; the login itself may still complete afterwards.
  `LoginAnswered` therefore says that a page is told *an* end, not which.
* A user who switches flows while a request is under way can see steps of both
  flows on one page: `app.js` does not ask which flow an answer belongs to.
  `OneConversation` is therefore limited to a careful user.
* With `MCP_EXEC_TIMEOUT` at 10 or below the worker's limit is not positive and
  every command is killed at once; nothing rejects the value.

## 5. Proofs

The theorems hold for every number of calls, replicas, keys and sandboxes, and
for every set of faults unless a hypothesis excludes some; those of the clocked
components hold for all durations and every bound of the clock, those of
`FlowDemo` for every number of requests, threads, logins and restarts. They rest on the
`ASSUME`s of the component's module only: maps like `ReplicaOf`, `KeyOf` and
`UserOf` are functions on the calls, sentinels are not elements of the sets they
extend, durations are natural numbers, and in `ToolCall`
`3 * MaxLag < Margin < ExecTimeout` (`TimersAssumption`): the margin of ten
seconds covers the way to the worker, a late timer and the way back.

| Theorem | Hypothesis | Inductive invariant |
|---|---|---|
| `TypeCorrect`: `Spec => []TypeOK` | - | `TypeInv`: `TypeOK` and `HoldsSandbox`, a call past the lookup holds an id (else `Bind` could store the sentinel) |
| `LocalMutexHolds`: `Spec => []LocalMutex` | - | `HoldsLocalLock`: a call in the critical section is the holder of its lock. `LocalMutex` alone is not inductive: nothing would stop `TakeLock` |
| `IsolationHolds`: `Spec => []Isolation` | - | `OwnSandbox`: what a call holds *and what a key names* was created for that key; no lock is needed |
| `LocksLeftHolds`: `Spec => []LocksLeft` | - | itself with `TypeInv`: a lock names its holder, who is still inside, or, for the cluster lock, has left it to its TTL |
| `ClusterMutexHolds` | `ClusterLock \/ OneReplica` | `Locked`: a call inside holds the `asyncio.Lock` (`HoldsLocalLock`) and, with a cluster lock, its token, and knows it (`HoldsDlock`); before its lookup it has no sandbox (`NoneYet`). Either way `Alone`: one call of a Session inside |
| `NeverRebindHolds` | `ReliableLock` | and `KeyAsRead`: between lookup and bind the key names what was read, or nothing |
| `OneSandboxHolds` | `ReliableLock`, `CallsFitWindow` | and `KeyNamesIt`, `NewIsOwn`: see below |
| `ReturnsBootstrappedHolds` | `ReliableLock`, `NothingTornOut` | and `CallsReady`, `KeysReady`, `InSetup`: what a key names is ready, unless the call that holds its lock is still setting it up |
| `ReclaimableHolds`: `Spec => []Reclaimable` | `NothingAbandoned` | and `Unshared`, a sandbox that is being created is known to its creator only; `Accounted`, a sandbox that a call has or a key names is with the call that creates it, in the index, or under the policy (`Traced`) |
| `KeepsPromiseHolds`: `Spec => KeepsPromise` | `ReliableLock`, `CallsFitWindow` | `Sticky`: the invariants above and `Unflagged`, a new sandbox is not marked; every step is an *open*, a *waste*, a *hand*, a *lose* or a stutter |
| `Refines`: `ProvisioningSpec => Spec` | - | none: each step of `Provisioning` is `Prepare`, another step of `SandboxManager`, or leaves its variables alone |
| `IsolationRefined`, `LocksLeftRefined`, `OneSandboxRefined`, `KeepsPromiseRefined`, `ReturnsBootstrappedRefined` | as the theorem on `SandboxManager` | from `Refines` and that theorem |
| `ProvisioningTypeCorrect`, `CreatesOnReadyGroundHolds`, `BuildsOnceHolds`, `GroupLocksLeftHolds` | - | `Ground`: a lock of a group is held exactly by the call whose stage is inside it (`GroupLocksMatch`); what a process remembers, and what a call has resolved, is a ready image of the group (`ImagesKnown`) and a volume that exists (`VolumesKnown`) |
| `LifeTypeCorrect` | - | `LifeTypeInv` |
| `LifeIsolation`, `LifeLocalMutex`, `LifeLocksLeft`, `LifeClusterMutex`, `LifeNeverRebind`, `LifeReturnsBootstrapped`, `LifeOneSandbox`, `LifeKeepsPromise` | as the theorem on `SandboxManager` | the invariant of that theorem: each step of `LifeSpec` is one of the routing (`Served`) or deletes sandboxes and index entries (`Reaps`), which disturbs none of its parts (`RoutingReaps`) |
| `SparesLiveSessionsHolds` | `ReliableLock`, `CallsFitWindow` | `LifeSticky` (`Sticky` and `Inspected`), `Placed`, `Deserted`: see below |
| `IndexKeptUntilDeleteHolds` | `arm` excluded | `DeletedFirst`: a reaper is about to unindex only what ARM has been asked to delete |
| `MutexUntilLapseHolds`: `LockTakeoverSpec => []MutexUntilLapse` | `DistributedLock` | `HeldUntilLapse`: a call inside holds the cluster lock and knows it, unless it is one of `unlocked`; kept by `Leave` because a release compares tokens |
| `OneLeaderUntilLapseHolds`: `LifeSpec => []OneLeaderUntilLapse` | - | `LeadsUntilLapse`: the same of reapers and their lease |
| `OneLeaderHolds` | `ReliableLease` | `Leading`: a replica in its pass holds the lease, and knows it |
| `SessionWindow`: `TypeCorrect`, `FreshAfterQuietHolds`, `ReplacedOnlyByRaceHolds`, `RouteOutlivesSessionHolds` | - | `Timed`, `OnlyMinted`, `InStep`: see below |
| `FlowDemo`: `OneConversationHolds` | - | `Coherent` and `OneFlowAtATime`: see below |
| `FlowDemo`: `TypeCorrect`, `TokenOfOneLoginHolds` | - | `Coherent`: see below |
| `FlowDemo`: `RefusedOnlyWhenOvertakenHolds` | - | `Coherent` with `Spent`, a spent code was brought by a callback that has used it, and `Explained`: see below |
| `GroupGate`: `TypeCorrect`, `AllowIsFreshHolds`, `DenyIsFreshHolds` | - | `Fresh`: `HistoryNow`, the history variables tell the present membership; `AnswerFresh`, what a check carries was Graph's answer at `readAt`, at most `MaxLag` ago; `EntryFresh`, every live entry was true at a moment within `TTL + MaxLag` of its end |
| `ToolCall`: `TypeCorrect`, `NoLateRunHolds`, `TimeoutIsStructuredHolds` | - | `Timed`: `OnTime`, each stage of a job began within the lags before it, counted from the phase in which the server waits for its answer |

`NothingTornOut` excludes `cancel` and `crash`: the two faults that leave
`get_or_create` without its rollback (finding 1). `NothingAbandoned` excludes
these two, which tear a call out before its sandbox is indexed, and `arm` together
with `redis`: a policy that ARM refuses and an index entry that Redis loses leave
nobody a way back to the sandbox. A create that is given up does not matter to it,
since no call has obtained that sandbox (section 2). Neither lock is needed: two
replicas that create for one Session at once still account for both sandboxes.
`ClusterLock` requires the cluster lock to be
enabled and excludes `redis`, `dlockWait` and `dlockTTL`; `OneReplica` says that all
calls of a Session are served by one replica. `ReliableLock` is either of the two
without `redis`, so that writes to the keys take effect; `CallsFitWindow` excludes
`lateExpiry`. TLC shows that each is needed (fault table above). `ReliableLease`
requires the election to be enabled and excludes `reapRedis` and `leaseTTL`.

The argument for stickiness. A sandbox that serves Session `k` is named by the
key of `k`, or some call works on it. Inside the lock, from the lookup on, the
key names exactly the sandbox of the call (`KeyNamesIt`), or nothing yet
(`KeyAsRead`); a call whose command is running left the lock while the key named
its sandbox, and only a call inside the lock clears it, for a sandbox that is
gone or that no other call has (`NewIsOwn`). So two serving sandboxes of one
Session would need two calls inside one lock.

The refinement needs more than that there is one home at a time: that a home, once lost,
never comes back. A sandbox becomes a home only when it is created, its id being new
(`used`); the rollback and the expiry of a key can only take a home away, and a stale
slide cannot restore one, because inside the lock the key names what the call read or
nothing (`KeyAsRead`). A create that was accepted and given up is a *waste*: its sandbox
is no home and never becomes one, for no call knows its id. A delete that ARM has
accepted and may fail to carry out could bring a sandbox back, but none that still
matters: it is out of the hands of calls and keys (`Undisturbed`).

The argument for the reaper. It reads a listing, then the index entry of a sandbox,
then the key of that entry's Session, and deletes when the key does not name the
sandbox; calls go on in between. Nothing the reaper inspects can still be on its way
to being bound: the index, through which alone it finds a sandbox, is written after
the binding (`Placed`). And a key that does not name an indexed sandbox will never
name it again (`Deserted`): a call would have to write it there, a bind writes
sandboxes that are not indexed yet, and a slide writes what the key names already
(`KeyAsRead`). What a call relies on, finally, is named by its key while it lives
(`KeyNamesIt`). That the reaper's readings are of different age thus does not matter;
nor does the lease, with which two reapers would decide alike. The proof treats the
routing as a black box: `Footprint` says what any of its steps does to what a reaper
reads.

The argument for lock and lease. The holder's token is in Redis from the acquisition
to the release, and only its TTL takes it away, in the very step that makes the holder
one of `unlocked`; a call that enters without the lock is one of them from the start.
The release of such a call finds a foreign token, or none, and leaves it alone;
released without comparing, the lock of the next holder would go and a third call
enter, which is what the run `takeover` sees of such a bug. The lease is the same, except
that a pass whose SET failed does not lead at all.

The argument for the Session window. A minted id is stamped with the time of the
miss, no later than the lookup it follows (`Timed`); once a user has been quiet past
the window, every id before is stamped with an earlier second and the window is
closed, so the next lookup misses and mints a later one. A slide writes what the call
has read; where the window names something else by then, another call has replaced
the id meanwhile and the slow one was on its way (`InStep`). The routing key lives as
long as the window because both are written for one window's length and the key last;
a write of the key that fails is swallowed (`sandbox_manager.py:290-292`, `316-318`),
which is why the property excepts the keys that lost one (`KeyLost`).

The argument for one conversation. A careful user's page has one request under way
until it has its login (`BeforeLogin`), so discovery and authorization of one flow
follow each other in `RUN`; from then on there are only callbacks of this one login
(`AfterLogin`), however often it comes back, and they publish only what belongs to
its flow.

The argument for the demo client. A callback reads state, flow and verifier from
`RUN` at three moments. `Awaiting` sets the three together and `Cleared` resets
state and verifier together, so `RUN` is always of one login, or of none
(`RunOfOneLogin`); Entra redeems a code only for the verifier of its login, and a
login has one flow for ever (`LoginsSettled`), so a token implies that the last
read was of the code's login. The earlier check of the state proved that this
login was current then, and since a PKCE pair is minted once, it was current in
between: the flow read in the middle is its flow, too (`CopiesOfOneLogin`).

What Entra refuses follows from the same invariant: neither flow lets `resource`
through (the direct one never sends it, `Token` drops it), so a refusal means that the
verifier is not the login's, which `Coherent` ties to a state that is not the login's
either, or that the code is spent, which another callback has brought (`Spent`).

The argument of `GroupGate`: answers of different age overwrite each other, so
an entry does not say *now* who is a member; but whichever answer fills it is at
most `MaxLag` old, so the entry's end is within `TTL + MaxLag` of a moment at
which it was true, and membership history never gets older. The argument of
`ToolCall` adds up: once the request is written httpx waits `ExecTimeout` for the
answer; the command starts within `MaxLag`, is killed `(ExecTimeout - Margin) + MaxLag`
later and answered another `MaxLag` later, before that. A worker that is up accepts the
connection and the request within a lag each, so the two earlier phases end in time, too.

Every safety property that a passing run checks is stated by a theorem. Only
model-checked: liveness (`EveryCallEnds`, `OrphansReclaimed`, `LoginAnswered`), which is
out of the prover's reach together with `ENABLED`. `LocksLeft` and `GroupLocksLeft` are
the safety half of `EveryCallEnds`: a wait can only be for a call that is still there.

## 6. Not modelled

* Output: truncation, redaction patterns, log lines, timing records. The
  reasons are that they are pure functions of one result and keep no state.
* `end_session` and `aclose`: nothing in the repository calls them
  (`docs/en/ACA-Redis-Implementation/sandbox-lifecycle.md:12` and `:123`:
  implemented but not wired). A model would have to invent their callers.
* Disk images and volumes that somebody removes from ARM behind the server's back:
  what a process remembers of them would be wrong until it restarts.
* Of the demo: rendering, animation and the recorded mode of the page; the
  headers and bodies of what is captured; a callback that comes from no login tab, which
  passes the check without a `state` while `RUN` has none (495); status requests beside
  the one that is outstanding (`app.js:460`), which read the same phase.
* Of the proxy: its two metadata documents and the `scope` parameter, which are the
  same on every request. `docs/zh` holds the same program with
  its texts translated.
* `blob.py`: path formatting and pass-through storage calls; `BlobWorkspace`
  has no caller.
* Token verification, OBO, Graph, ARM, Redis and FastMCP themselves: external;
  ARM and Redis are modelled by what the code sees of them.
* Suspension of idle sandboxes: `ensure_running` resumes them, which the model
  treats as running.
* Bicep templates, azd hooks.

## 7. Plan

Done: the components of section 2, their runs, the theorems above. What is left,
in this order:

1. `end_session` as an action of `SandboxLifecycle` once something calls it: it
   deletes without a lock, beside calls and a reaper.
2. Reclaiming beside reapers under `arm`: a delete that ARM accepts and does not carry
   out, or refuses every time, has no remedy in the code; once there is one, `Reclaimable`
   and `OrphansReclaimed` should be stated with it.
