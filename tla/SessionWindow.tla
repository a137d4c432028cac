---------------------------- MODULE SessionWindow ----------------------------
(***************************************************************************)
(* Derivation of Session ids: main._derive_ids, SessionResolver.resolve    *)
(* and UserSessionCache (src/mcp-server/main.py, session.py, cache.py),    *)
(* with a clock, followed by the routing key that get_or_create binds or   *)
(* slides for the Session (one per tool group, same window).               *)
(***************************************************************************)
EXTENDS Naturals

CONSTANTS
    Calls,          \* tool calls, each served once
    Users, Groups,
    UserOf,         \* [Calls -> Users]
    GroupOf,        \* [Calls -> Groups], the tool called
    BaseOf,         \* transport session id, or the oid where there is none
    Bases,
    Anonymous,      \* the user of a call whose token has no oid
    Window,         \* MCP_SESSION_TTL, of both keys
    MaxLag,         \* from a call's lookup to its last write
    MaxTime,        \* the bound of the clock
    RedisFails,     \* Redis commands may fail
    NoSession, NoCall

ASSUME CallsAssumption == /\ UserOf \in [Calls -> Users]
                          /\ GroupOf \in [Calls -> Groups]
                          /\ BaseOf \in [Calls -> Bases]
                          /\ NoCall \notin Calls
ASSUME TimesAssumption == /\ Window \in Nat \ {0} /\ MaxLag \in Nat /\ MaxTime \in Nat
                          /\ RedisFails \in BOOLEAN

\* f"{base}_{int(time.time())}" of a minted Session; a transport id without a
\* time stamp where the window cannot be used.
Unstamped(base, at) == <<base, 0>>         \* seeded bug: no time stamp
Minted(base, at) == <<base, at>>
Transport(base)  == <<base>>
SessionIds == {Minted(b, t) : b \in Bases, t \in 0 .. MaxTime}
                \cup {Transport(b) : b \in Bases}

ASSUME SessionAssumption == NoSession \notin SessionIds

VARIABLES
    now,       \* the clock
    window,    \* Redis usersession:<oid>: Session id and expiry
    route,     \* Redis session:<oid>:<id>:<group>: the expiry of each
    pc, sid,   \* per call: progress, its Session id
    since,     \* per call: when it looked the Session up
    writer,    \* the call that wrote window[u] last
    behind,    \* calls that looked up before the present Session began
               \* or, its window having run out, was revived
    lapsed     \* per call: the ids of Sessions over when it looked up

callVars  == <<pc, sid, since>>
ghostVars == <<writer, behind, lapsed>>
vars      == <<now, window, route, callVars, ghostVars>>

Resolving == {"slide", "set"}
Open      == Resolving \cup {"route"}
\* "done": the call wrote its routing key; "lost": it failed, or Redis did.
Ended     == {"done", "lost"}

Init ==
    /\ now = 0
    /\ window = [u \in Users |-> [id |-> NoSession, until |-> 0]]
    /\ route = [u \in Users |-> [i \in SessionIds |-> [g \in Groups |-> 0]]]
    /\ pc = [c \in Calls |-> "get"]
    /\ sid = [c \in Calls |-> NoSession]
    /\ since = [c \in Calls |-> 0]
    /\ writer = [u \in Users |-> NoCall]
    /\ behind = {}
    /\ lapsed = [c \in Calls |-> {}]

-----------------------------------------------------------------------------
Goto(c, from, to) == pc[c] = from /\ pc' = [pc EXCEPT ![c] = to]

Others(c) == {d \in Calls \ {c} : UserOf[d] = UserOf[c]}

\* All calls of the user that looked up so long ago that the window has run out
\* since: the Sessions they were given are over.
Quiet(c) == \A d \in Others(c) :
              pc[d] # "get" => pc[d] \notin Open /\ since[d] + MaxLag + Window <= now
Over(c)  == IF Quiet(c)
            THEN {sid[d] : d \in Others(c)} \ {Transport(b) : b \in Bases}
            ELSE {}

Opened(c, id) ==
    /\ sid' = [sid EXCEPT ![c] = id]
    /\ since' = [since EXCEPT ![c] = now]
    /\ lapsed' = [lapsed EXCEPT ![c] = Over(c)]

AnyKey(c)  == FALSE                \* seeded bug: what was read is not used
Present(c) == now < window[UserOf[c]].until

\* UserSessionCache.get: a hit is written back next; on a miss the new id is
\* formed from the time of the miss.  Without an oid the transport id is used
\* as it is.  When Redis errs _derive_ids falls back to the transport id.
Get(c) ==
    /\ \/ /\ UserOf[c] # Anonymous
          /\ \/ /\ Present(c)
                /\ Goto(c, "get", "slide")
                /\ Opened(c, window[UserOf[c]].id)
             \/ /\ ~Present(c)
                /\ Goto(c, "get", "set")
                /\ Opened(c, Minted(BaseOf[c], now))
       \/ /\ UserOf[c] = Anonymous \/ RedisFails
          /\ Goto(c, "get", "route")
          /\ Opened(c, Transport(BaseOf[c]))
    /\ UNCHANGED <<now, window, route, writer, behind>>

Forever == now + Window + MaxTime + 1    \* seeded bug: SET without EX
Expiry  == now + Window

\* SET usersession:<oid> EX Window.
Write(c) ==
    LET u == UserOf[c] IN
    /\ window' = [window EXCEPT ![u] = [id |-> sid[c], until |-> Expiry]]
    /\ writer' = [writer EXCEPT ![u] = c]
    /\ behind' = IF Present(c) /\ window[u].id = sid[c] THEN behind
                 ELSE behind \cup {d \in Others(c) : pc[d] \in Resolving}

\* The slide of a hit or the SET of a new Session; an error falls back to the
\* transport id, whether or not the write was applied.
Store(c, from) ==
    /\ Goto(c, from, "route")
    /\ \/ Write(c) /\ UNCHANGED sid
       \/ /\ RedisFails
          /\ sid' = [sid EXCEPT ![c] = Transport(BaseOf[c])]
          /\ Write(c) \/ UNCHANGED <<window, writer, behind>>
    /\ UNCHANGED <<now, route, since, lapsed>>

Slide(c) == Store(c, "slide")
Set(c)   == Store(c, "set")

\* Seeded bug: the routing key is written once and not renewed on a hit.
BoundOnce(c) ==
    LET old == route[UserOf[c]][sid[c]][GroupOf[c]] IN
    IF now < old THEN old ELSE now + Window
Renewed(c) == now + Window

RouteUntil(c, t) == [route EXCEPT ![UserOf[c]][sid[c]][GroupOf[c]] = t]

\* get_or_create binds the routing key or slides it.  A call that fails may have
\* slid the key before, purged it or rolled it back; and a command on the key that
\* fails is swallowed (_redis_safe), and the call succeeds all the same.
Route(c) ==
    /\ \/ Goto(c, "route", "done") /\ route' = RouteUntil(c, Renewed(c))
       \/ /\ Goto(c, "route", "lost")
          /\ route' \in {route, RouteUntil(c, Renewed(c)), RouteUntil(c, 0)}
    /\ UNCHANGED <<now, window, sid, since, ghostVars>>

Tick ==
    /\ now < MaxTime
    /\ \A c \in Calls : pc[c] \in Open => now < since[c] + MaxLag
    /\ now' = now + 1
    /\ UNCHANGED <<window, route, callVars, ghostVars>>

AllEnded == (\A c \in Calls : pc[c] \in Ended) /\ UNCHANGED vars

Next == (\E c \in Calls : Get(c) \/ Slide(c) \/ Set(c) \/ Route(c)) \/ Tick \/ AllEnded

Spec == Init /\ [][Next]_vars
-----------------------------------------------------------------------------
\* Every variable stays in its range; no expiry is further off than a window.
TypeOK ==
    /\ now \in 0 .. MaxTime
    /\ window \in [Users -> [id : SessionIds \cup {NoSession}, until : 0 .. now + Window]]
    /\ route \in [Users -> [SessionIds -> [Groups -> 0 .. now + Window]]]
    /\ pc \in [Calls -> Open \cup Ended \cup {"get"}]
    /\ sid \in [Calls -> SessionIds \cup {NoSession}]
    /\ since \in [Calls -> 0 .. now]
    /\ writer \in [Users -> Calls \cup {NoCall}]
    /\ behind \subseteq Calls
    /\ lapsed \in [Calls -> SUBSET (SessionIds \cup {NoSession})]

\* A user's live Session is replaced by another only by a call that had looked
\* up before that Session began or was revived (two first calls, or a slide
\* that came too late): a call that starts later never splits the Session.
ReplacedOnlyByRace ==
    [][\A u \in Users :
           now < window[u].until /\ window'[u].id # window[u].id =>
             \E c \in behind : UserOf[c] = u /\ pc[c] \in Resolving /\ pc'[c] = "route"]_vars

\* A user who goes quiet past the window never comes back to an earlier
\* Session, its sandboxes and its directory.
FreshAfterQuiet == \A c \in Calls : pc[c] # "get" => sid[c] \notin lapsed[c]

\* A call to the same routing key failed, or lost a write of it.
KeyLost(c) == \E d \in Calls : /\ pc[d] = "lost"
                              /\ UserOf[d] = UserOf[c] /\ sid[d] = sid[c]
                              /\ GroupOf[d] = GroupOf[c]

\* As long as a Session lives, the routing key of the tool group that was used
\* last in it has not expired, however the calls of the user's other Sessions and
\* groups interleave, unless a call to that key failed or lost its write.
RouteOutlivesSession ==
    \A u \in Users, c \in Calls :
        /\ writer[u] = c
        /\ pc[c] = "done"
        /\ sid[c] = window[u].id
        => KeyLost(c) \/ window[u].until <= route[u][sid[c]][GroupOf[c]]
=============================================================================
