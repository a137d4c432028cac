------------------------- MODULE SessionWindowProofs -------------------------
(***************************************************************************)
(* Sessions and their windows, for every number of users, calls, bases and *)
(* tool groups, every window, lag and bound of the clock, whether Redis    *)
(* answers or not.                                                         *)
(***************************************************************************)
EXTENDS SessionWindow, TLAPS

-----------------------------------------------------------------------------
\* Minted ids are equal only if their bases and stamps are, and no transport id.
LEMMA IdsDiffer ==
    /\ \A b, d \in Bases, t, w \in Nat : Minted(b, t) = Minted(d, w) => b = d /\ t = w
    /\ \A b, d \in Bases, t \in Nat : Minted(b, t) # Transport(d)
<1>1. ASSUME NEW b \in Bases, NEW d \in Bases, NEW t \in Nat, NEW w \in Nat,
             Minted(b, t) = Minted(d, w)
      PROVE  b = d /\ t = w
  <2>1. <<b, t>> = <<d, w>>
    BY <1>1 DEF Minted
  <2>2. <<b, t>>[1] = <<d, w>>[1] /\ <<b, t>>[2] = <<d, w>>[2]
    BY <2>1
  <2>3. QED
    BY <2>2
<1>2. ASSUME NEW b \in Bases, NEW d \in Bases, NEW t \in Nat PROVE Minted(b, t) # Transport(d)
  BY DEF Minted, Transport
<1>3. QED
  BY <1>1, <1>2

\* The ids a Session can have.
LEMMA IdsAre ==
    /\ \A b \in Bases, t \in 0 .. MaxTime : Minted(b, t) \in SessionIds
    /\ \A b \in Bases : Transport(b) \in SessionIds
    /\ \A i \in SessionIds : \/ \E b \in Bases, t \in 0 .. MaxTime : i = Minted(b, t)
                             \/ \E b \in Bases : i = Transport(b)
BY DEF SessionIds

-----------------------------------------------------------------------------
\* A call has an id once it has looked its Session up, and not before.
HasId ==
    \A c \in Calls : IF pc[c] = "get" THEN sid[c] = NoSession ELSE sid[c] \in SessionIds

\* A window that may be open names a Session.
NamesSession == \A u \in Users : window[u].until > 0 => window[u].id \in SessionIds

TypeInv == TypeOK /\ HasId /\ NamesSession

\* No call has looked anything up yet.
LEMMA TypeInit == Init => TypeInv
BY CallsAssumption, TimesAssumption
   DEF Init, TypeInv, TypeOK, HasId, NamesSession, Open, Resolving

\* The steps of the calls and the clock, without the stutter of a finished run.
LEMMA Steps ==
    [Next]_vars => \/ \E c \in Calls : Get(c) \/ Store(c, "slide") \/ Store(c, "set") \/ Route(c)
                   \/ Tick
                   \/ UNCHANGED vars
BY DEF Next, Slide, Set, AllEnded

\* Looking up, writing, binding and the clock keep everything in range.
LEMMA TypeStep == TypeInv /\ [Next]_vars => TypeInv'
<1> SUFFICES ASSUME TypeInv, [Next]_vars PROVE TypeInv'
  OBVIOUS
<1> USE CallsAssumption, TimesAssumption, SessionAssumption
    DEF TypeInv, TypeOK, HasId, NamesSession, Open, Resolving, Goto, callVars, ghostVars
<1>1. ASSUME NEW c \in Calls, Get(c) PROVE TypeInv'
  <2>1. PICK id \in SessionIds, p \in {"slide", "set", "route"} :
          pc[c] = "get" /\ pc' = [pc EXCEPT ![c] = p] /\ Opened(c, id)
    <3>1. Present(c) => window[UserOf[c]].id \in SessionIds
      BY DEF Present
    <3>2. QED
      BY <1>1, <3>1, IdsAre DEF Get
  <2>2. Over(c) \subseteq SessionIds \cup {NoSession}
    BY DEF Over, Others
  <2>3. lapsed' \in [Calls -> SUBSET (SessionIds \cup {NoSession})]
    BY <2>1, <2>2 DEF Opened
  <2>4. sid' = [sid EXCEPT ![c] = id] /\ since' = [since EXCEPT ![c] = now]
    BY <2>1 DEF Opened
  <2>5. UNCHANGED <<now, window, route, writer, behind>>
    BY <1>1 DEF Get
  <2>6. QED
    BY <2>1, <2>3, <2>4, <2>5
<1>2. ASSUME NEW c \in Calls, NEW from \in Resolving, Store(c, from) PROVE TypeInv'
  <2>1. sid[c] \in SessionIds
    BY <1>2 DEF Store
  <2>2. /\ window' \in [Users -> [id : SessionIds \cup {NoSession}, until : 0 .. now + Window]]
        /\ \A u \in Users : window'[u].until > 0 => window'[u].id \in SessionIds
        /\ writer' \in [Users -> Calls \cup {NoCall}] /\ behind' \subseteq Calls
    <3>1. CASE Write(c)
      <4>1. UserOf[c] \in Users /\ now + Window \in 0 .. now + Window
        OBVIOUS
      <4>2. window' = [window EXCEPT ![UserOf[c]] = [id |-> sid[c], until |-> now + Window]]
        BY <3>1 DEF Write, Expiry
      <4>3. window' \in [Users -> [id : SessionIds \cup {NoSession}, until : 0 .. now + Window]]
        BY <2>1, <4>1, <4>2
      <4>4. \A u \in Users : window'[u] = IF u = UserOf[c]
                                          THEN [id |-> sid[c], until |-> now + Window]
                                          ELSE window[u]
        BY <4>2
      <4>5. \A u \in Users : window'[u].until > 0 => window'[u].id \in SessionIds
        <5>1. SUFFICES ASSUME NEW u \in Users, window'[u].until > 0 PROVE window'[u].id \in SessionIds
          OBVIOUS
        <5>2. CASE u = UserOf[c]
          BY <2>1, <4>4, <5>2
        <5>3. CASE u # UserOf[c]
          BY <4>4, <5>1, <5>3
        <5>4. QED
          BY <5>2, <5>3
      <4>6. writer' \in [Users -> Calls \cup {NoCall}] /\ behind' \subseteq Calls
        BY <3>1 DEF Write, Others
      <4>7. QED
        BY <4>3, <4>5, <4>6
    <3>2. CASE UNCHANGED <<window, writer, behind>>
      BY <3>2
    <3>3. QED
      BY <1>2, <3>1, <3>2 DEF Store
  <2>3. /\ sid' \in [Calls -> SessionIds \cup {NoSession}]
        /\ sid'[c] \in SessionIds /\ \A d \in Calls \ {c} : sid'[d] = sid[d]
    <3>1. Transport(BaseOf[c]) \in SessionIds
      BY IdsAre
    <3>2. sid' = sid \/ sid' = [sid EXCEPT ![c] = Transport(BaseOf[c])]
      BY <1>2 DEF Store
    <3>3. CASE sid' = sid
      BY <2>1, <3>3
    <3>4. CASE sid' = [sid EXCEPT ![c] = Transport(BaseOf[c])]
      BY <3>1, <3>4
    <3>5. QED
      BY <3>2, <3>3, <3>4
  <2>4. QED
    BY <1>2, <2>2, <2>3 DEF Store
<1>3. ASSUME NEW c \in Calls, Route(c) PROVE TypeInv'
  <2>1. route' \in [Users -> [SessionIds -> [Groups -> 0 .. now + Window]]]
    <3> DEFINE u == UserOf[c]
               i == sid[c]
               row(t) == [route[u][i] EXCEPT ![GroupOf[c]] = t]
               rows(t) == [route[u] EXCEPT ![i] = row(t)]
    <3>1. i \in SessionIds /\ u \in Users
      BY <1>3 DEF Route
    <3>2. \A t \in {0, now + Window} : row(t) \in [Groups -> 0 .. now + Window]
      <4>1. route[u][i] \in [Groups -> 0 .. now + Window]
        BY <3>1
      <4>2. now + Window \in 0 .. now + Window /\ 0 \in 0 .. now + Window
        OBVIOUS
      <4>3. QED
        BY <4>1, <4>2
    <3>3. \A t \in {0, now + Window} : rows(t) \in [SessionIds -> [Groups -> 0 .. now + Window]]
      <4>1. route[u] \in [SessionIds -> [Groups -> 0 .. now + Window]]
        BY <3>1
      <4>2. QED
        BY <3>2, <4>1
    <3>4. \/ route' = route
          \/ route' = [route EXCEPT ![u] = rows(0)]
          \/ route' = [route EXCEPT ![u] = rows(now + Window)]
      BY <1>3 DEF Route, RouteUntil, Renewed
    <3>5. rows(0) \in [SessionIds -> [Groups -> 0 .. now + Window]]
      BY <3>3
    <3>6. rows(now + Window) \in [SessionIds -> [Groups -> 0 .. now + Window]]
      BY <3>3
    <3> HIDE DEF rows
    <3>7. QED
      BY <3>4, <3>5, <3>6
  <2>2. /\ pc[c] = "route" /\ \E p \in {"done", "lost"} : pc' = [pc EXCEPT ![c] = p]
        /\ UNCHANGED <<now, window, sid, since, writer, behind, lapsed>>
    BY <1>3 DEF Route
  <2>3. pc' \in [Calls -> Open \cup Ended \cup {"get"}]
    BY <2>2 DEF Ended
  <2>4. QED
    BY <2>1, <2>2, <2>3
<1>4. CASE Tick
  BY <1>4 DEF Tick
<1>5. CASE UNCHANGED vars
  BY <1>5 DEF vars
<1>6. QED
  BY Steps, <1>1, <1>2, <1>3, <1>4, <1>5

\* Every variable stays in its range, and no expiry is further off than a window.
THEOREM TypeCorrect == Spec => []TypeOK
<1>1. TypeInv => TypeOK
  BY DEF TypeInv
<1>2. QED
  BY TypeInit, TypeStep, <1>1, PTL DEF Spec

-----------------------------------------------------------------------------
\* Looking a Session up, split from the choice of the id it gives the call.
LEMMA GetIs ==
    ASSUME TypeInv, NEW c \in Calls, Get(c)
    PROVE  \E id \in SessionIds, p \in {"slide", "set", "route"} :
             /\ pc[c] = "get" /\ pc' = [pc EXCEPT ![c] = p]
             /\ sid' = [sid EXCEPT ![c] = id]
             /\ since' = [since EXCEPT ![c] = now]
             /\ lapsed' = [lapsed EXCEPT ![c] = Over(c)]
             /\ \/ p = "slide" /\ Present(c) /\ id = window[UserOf[c]].id
                \/ p = "set" /\ ~Present(c) /\ id = Minted(BaseOf[c], now)
                \/ p = "route" /\ id = Transport(BaseOf[c])
             /\ UNCHANGED <<now, window, route, writer, behind>>
<1> USE CallsAssumption DEF TypeInv, TypeOK, NamesSession, Get, Goto, Opened
<1>1. Present(c) => window[UserOf[c]].id \in SessionIds
  BY DEF Present
<1>2. Minted(BaseOf[c], now) \in SessionIds /\ Transport(BaseOf[c]) \in SessionIds
  BY IdsAre
<1>3. QED
  BY <1>1, <1>2

\* Storing a Session id: the window as a whole is written, or nothing of it.
LEMMA StoreIs ==
    ASSUME TypeInv, NEW c \in Calls, NEW from \in Resolving, Store(c, from)
    PROVE  /\ pc[c] = from /\ pc' = [pc EXCEPT ![c] = "route"]
           /\ sid[c] \in SessionIds
           /\ sid' = sid \/ sid' = [sid EXCEPT ![c] = Transport(BaseOf[c])]
           /\ UNCHANGED <<now, route, since, lapsed>>
           /\ \/ UNCHANGED <<window, writer, behind>>
              \/ /\ window' = [window EXCEPT ![UserOf[c]] = [id |-> sid[c], until |-> now + Window]]
                 /\ writer' = [writer EXCEPT ![UserOf[c]] = c]
                 /\ \/ behind' = behind /\ Present(c) /\ window[UserOf[c]].id = sid[c]
                    \/ behind' = behind \cup {d \in Others(c) : pc[d] \in Resolving}
BY DEF TypeInv, HasId, Store, Goto, Write, Expiry, Resolving

-----------------------------------------------------------------------------
\* No call is open longer than MaxLag, no id is stamped later than its lookup,
\* and a window was written by a call that had got past its lookup, at most
\* MaxLag after it.
Timed ==
    /\ \A c \in Calls : pc[c] \in Open => now <= since[c] + MaxLag
    /\ \A c \in Calls, b \in Bases, t \in 0 .. MaxTime : sid[c] = Minted(b, t) => t <= since[c]
    /\ \A u \in Users, b \in Bases, t \in 0 .. MaxTime :
         window[u].id = Minted(b, t) => t <= now
    /\ \A u \in Users : writer[u] \in Calls =>
         UserOf[writer[u]] = u /\ pc[writer[u]] \in {"route", "done", "lost"}
    /\ \A u \in Users : window[u].until > 0 =>
         writer[u] \in Calls /\ window[u].until <= since[writer[u]] + MaxLag + Window

\* No window has been written and no id minted.
LEMMA TimedInit == Init => Timed
<1> SUFFICES ASSUME Init PROVE Timed
  OBVIOUS
<1>1. \A b \in Bases, t \in 0 .. MaxTime : NoSession # Minted(b, t)
  BY IdsAre, SessionAssumption
<1>2. QED
  BY <1>1, CallsAssumption DEF Init, Timed, Open, Resolving

\* A write comes at most MaxLag after the lookup, and stamps are of the lookup.
LEMMA TimedStep == TypeInv /\ Timed /\ [Next]_vars => Timed'
<1> SUFFICES ASSUME TypeInv, Timed, [Next]_vars PROVE Timed'
  OBVIOUS
<1>0. /\ UserOf \in [Calls -> Users] /\ BaseOf \in [Calls -> Bases] /\ NoCall \notin Calls
      /\ now \in Nat /\ Window \in Nat /\ MaxLag \in Nat /\ MaxTime \in Nat /\ now <= MaxTime
      /\ \A u \in Users : window[u].until \in Nat
      /\ \A c \in Calls : since[c] \in Nat /\ since[c] <= now
      /\ since \in [Calls -> Nat]
      /\ DOMAIN pc = Calls /\ DOMAIN sid = Calls /\ DOMAIN window = Users
      /\ DOMAIN writer = Users
  BY CallsAssumption, TimesAssumption DEF TypeInv, TypeOK
<1>1. ASSUME NEW c \in Calls, Get(c) PROVE Timed'
  <2>1. PICK id \in SessionIds, p \in {"slide", "set", "route"} :
             /\ pc[c] = "get" /\ pc' = [pc EXCEPT ![c] = p]
             /\ sid' = [sid EXCEPT ![c] = id]
             /\ since' = [since EXCEPT ![c] = now]
             /\ \/ p = "slide" /\ Present(c) /\ id = window[UserOf[c]].id
                \/ p = "set" /\ ~Present(c) /\ id = Minted(BaseOf[c], now)
                \/ p = "route" /\ id = Transport(BaseOf[c])
             /\ UNCHANGED <<now, window, route, writer, behind>>
    BY <1>1, GetIs
  <2>2. \A b \in Bases, t \in 0 .. MaxTime : id = Minted(b, t) => t <= now
    <3>1. CASE id = window[UserOf[c]].id
      BY <1>0, <3>1 DEF Timed
    <3>2. CASE id = Minted(BaseOf[c], now)
      <4>1. SUFFICES ASSUME NEW b \in Bases, NEW t \in 0 .. MaxTime,
                            Minted(BaseOf[c], now) = Minted(b, t)
                     PROVE  t <= now
        BY <3>2
      <4>2. BaseOf[c] \in Bases /\ t \in Nat /\ now \in Nat
        BY <1>0
      <4>3. QED
        BY <4>1, <4>2, IdsDiffer
    <3>3. CASE id = Transport(BaseOf[c])
      <4>1. BaseOf[c] \in Bases /\ \A t \in 0 .. MaxTime : t \in Nat
        BY <1>0
      <4>2. QED
        BY <3>3, <4>1, IdsDiffer
    <3>4. QED
      BY <2>1, <3>1, <3>2, <3>3
  <2>3. \A d \in Calls : pc'[d] \in Open => now' <= since'[d] + MaxLag
    BY <1>0, <2>1 DEF Timed
  <2>4. \A d \in Calls, b \in Bases, t \in 0 .. MaxTime : sid'[d] = Minted(b, t) => t <= since'[d]
    BY <1>0, <2>1, <2>2 DEF Timed
  <2>5. \A u \in Users : writer[u] \in Calls =>
          writer[u] # c /\ pc'[writer[u]] = pc[writer[u]] /\ since'[writer[u]] = since[writer[u]]
    BY <1>0, <2>1 DEF Timed
  <2>6. QED
    BY <2>1, <2>3, <2>4, <2>5 DEF Timed
<1>2. ASSUME NEW c \in Calls, NEW from \in Resolving, Store(c, from) PROVE Timed'
  <2>1. /\ pc[c] = from /\ pc' = [pc EXCEPT ![c] = "route"]
        /\ sid' = sid \/ sid' = [sid EXCEPT ![c] = Transport(BaseOf[c])]
        /\ UNCHANGED <<now, since>>
        /\ \/ UNCHANGED <<window, writer>>
           \/ /\ window' = [window EXCEPT ![UserOf[c]] = [id |-> sid[c], until |-> now + Window]]
              /\ writer' = [writer EXCEPT ![UserOf[c]] = c]
    BY <1>2, StoreIs
  <2>2. pc[c] \in Open /\ now <= since[c] + MaxLag
    BY <2>1 DEF Timed, Open
  <2>3. \A d \in Calls : pc'[d] \in Open => now' <= since'[d] + MaxLag
    BY <1>0, <2>1, <2>2 DEF Timed
  <2>4. \A d \in Calls, b \in Bases, t \in 0 .. MaxTime : sid'[d] = Minted(b, t) => t <= since'[d]
    BY <1>0, <2>1, IdsDiffer DEF Timed
  <2>5. \A u \in Users : writer[u] \in Calls => pc'[writer[u]] \in {"route", "done", "lost"}
    BY <1>0, <2>1 DEF Timed
  <2>6. ASSUME NEW u \in Users
        PROVE  /\ \A b \in Bases, t \in 0 .. MaxTime : window'[u].id = Minted(b, t) => t <= now'
               /\ writer'[u] \in Calls =>
                    UserOf[writer'[u]] = u /\ pc'[writer'[u]] \in {"route", "done", "lost"}
               /\ window'[u].until > 0 =>
                    /\ writer'[u] \in Calls
                    /\ window'[u].until <= since'[writer'[u]] + MaxLag + Window
    <3>1. CASE window'[u] = window[u] /\ writer'[u] = writer[u]
      BY <2>1, <2>5, <3>1 DEF Timed
    <3>2. CASE /\ u = UserOf[c] /\ window'[u] = [id |-> sid[c], until |-> now + Window]
               /\ writer'[u] = c
      <4>1. window'[u].id = sid[c] /\ window'[u].until = now + Window
        BY <3>2
      <4>2. \A b \in Bases, t \in 0 .. MaxTime : sid[c] = Minted(b, t) => t <= now
        BY <1>0 DEF Timed
      <4>3. pc'[c] = "route" /\ now + Window <= since'[c] + MaxLag + Window
        BY <1>0, <2>1, <2>2
      <4>4. QED
        BY <2>1, <3>2, <4>1, <4>2, <4>3
    <3>3. QED
      BY <1>0, <2>1, <3>1, <3>2
  <2>7. QED
    BY <2>3, <2>4, <2>6 DEF Timed
<1>3. ASSUME NEW c \in Calls, Route(c) PROVE Timed'
  <2>1. /\ pc[c] = "route" /\ \E p \in {"done", "lost"} : pc' = [pc EXCEPT ![c] = p]
        /\ UNCHANGED <<now, window, sid, since, writer>>
    BY <1>3 DEF Route, Goto, ghostVars
  <2>2. \A d \in Calls : /\ pc'[d] \in Open => pc[d] \in Open
                         /\ pc[d] \in {"route", "done", "lost"} =>
                              pc'[d] \in {"route", "done", "lost"}
    BY <1>0, <2>1 DEF Open, Resolving
  <2>3. QED
    BY <2>1, <2>2 DEF Timed
<1>4. CASE Tick
  <2>1. /\ \A c \in Calls : pc[c] \in Open => now < since[c] + MaxLag
        /\ now' = now + 1
        /\ UNCHANGED <<window, pc, sid, since, writer>>
    BY <1>4 DEF Tick, callVars, ghostVars
  <2>2. \A c \in Calls : pc'[c] \in Open => now' <= since'[c] + MaxLag
    BY <1>0, <2>1
  <2>3. \A u \in Users, b \in Bases, t \in 0 .. MaxTime : window'[u].id = Minted(b, t) => t <= now'
    BY <1>0, <2>1 DEF Timed
  <2>4. QED
    BY <2>1, <2>2, <2>3 DEF Timed
<1>5. CASE UNCHANGED vars
  BY <1>5 DEF Timed, vars, callVars, ghostVars
<1>6. QED
  BY Steps, <1>1, <1>2, <1>3, <1>4, <1>5 DEF Resolving

-----------------------------------------------------------------------------
\* No transport id counts as a Session that is over.
OnlyMinted == \A c \in Calls, b \in Bases : Transport(b) \notin lapsed[c]

\* No call has looked anything up.
LEMMA FreshInit == Init => OnlyMinted /\ FreshAfterQuiet
BY DEF Init, OnlyMinted, FreshAfterQuiet

\* Once a user has been quiet past the window, the window is closed, and a new id
\* is stamped later than all that went before.
LEMMA FreshStep ==
    TypeInv /\ Timed /\ OnlyMinted /\ FreshAfterQuiet /\ [Next]_vars
      => OnlyMinted' /\ FreshAfterQuiet'
<1> SUFFICES ASSUME TypeInv, Timed, OnlyMinted, FreshAfterQuiet, [Next]_vars
             PROVE  OnlyMinted' /\ FreshAfterQuiet'
  OBVIOUS
<1>0. /\ UserOf \in [Calls -> Users] /\ BaseOf \in [Calls -> Bases]
      /\ now \in Nat /\ Window \in Nat \ {0} /\ MaxLag \in Nat /\ MaxTime \in Nat /\ now <= MaxTime
      /\ \A u \in Users : window[u].until \in Nat
      /\ \A d \in Calls : since[d] \in Nat
      /\ DOMAIN pc = Calls /\ DOMAIN sid = Calls /\ DOMAIN lapsed = Calls
  BY CallsAssumption, TimesAssumption DEF TypeInv, TypeOK
<1>1. ASSUME NEW c \in Calls, Get(c) PROVE OnlyMinted' /\ FreshAfterQuiet'
  <2>1. PICK id \in SessionIds, p \in {"slide", "set", "route"} :
             /\ pc[c] = "get" /\ pc' = [pc EXCEPT ![c] = p]
             /\ sid' = [sid EXCEPT ![c] = id]
             /\ lapsed' = [lapsed EXCEPT ![c] = Over(c)]
             /\ \/ p = "slide" /\ Present(c) /\ id = window[UserOf[c]].id
                \/ p = "set" /\ ~Present(c) /\ id = Minted(BaseOf[c], now)
                \/ p = "route" /\ id = Transport(BaseOf[c])
    BY <1>1, GetIs
  <2>2. \A b \in Bases : Transport(b) \notin Over(c)
    BY DEF Over
  <2>3. id \notin Over(c)
    <3>1. CASE ~Quiet(c)
      BY <3>1 DEF Over
    <3>2. CASE Quiet(c) /\ Present(c)
      <4> DEFINE w == writer[UserOf[c]]
      <4>1. window[UserOf[c]].until > now
        BY <1>0, <3>2 DEF Present
      <4>2. /\ w \in Calls /\ window[UserOf[c]].until <= since[w] + MaxLag + Window
            /\ UserOf[w] = UserOf[c] /\ pc[w] \in {"route", "done", "lost"}
        BY <1>0, <4>1 DEF Timed
      <4>3. w \in Others(c) /\ pc[w] # "get"
        BY <2>1, <4>2 DEF Others
      <4>4. since[w] + MaxLag + Window <= now
        BY <3>2, <4>3 DEF Quiet
      <4>5. QED
        BY <1>0, <4>1, <4>2, <4>4
    <3>3. CASE Quiet(c) /\ id = Minted(BaseOf[c], now)
      <4>1. SUFFICES ASSUME NEW d \in Others(c), sid[d] = Minted(BaseOf[c], now) PROVE FALSE
        BY <3>3 DEF Over
      <4>2. d \in Calls /\ now \in 0 .. MaxTime /\ BaseOf[c] \in Bases
        BY <1>0 DEF Others
      <4>3. now <= since[d]
        BY <4>1, <4>2 DEF Timed
      <4>4. pc[d] # "get"
        BY <4>1, <4>2, IdsAre, SessionAssumption DEF TypeInv, HasId
      <4>5. since[d] + MaxLag + Window <= now
        BY <3>3, <4>4 DEF Quiet
      <4>6. QED
        BY <1>0, <4>2, <4>3, <4>5
    <3>4. CASE id = Transport(BaseOf[c])
      BY <1>0, <2>2, <3>4
    <3>5. QED
      BY <2>1, <3>1, <3>2, <3>3, <3>4
  <2>4. QED
    BY <1>0, <2>1, <2>2, <2>3 DEF OnlyMinted, FreshAfterQuiet
<1>2. ASSUME NEW c \in Calls, NEW from \in Resolving, Store(c, from)
      PROVE  OnlyMinted' /\ FreshAfterQuiet'
  <2>1. /\ pc[c] = from /\ pc' = [pc EXCEPT ![c] = "route"]
        /\ sid' = sid \/ sid' = [sid EXCEPT ![c] = Transport(BaseOf[c])]
        /\ UNCHANGED lapsed
    BY <1>2, StoreIs
  <2>2. Transport(BaseOf[c]) \notin lapsed[c] /\ pc[c] # "get"
    BY <1>0, <2>1 DEF OnlyMinted, Resolving
  <2>3. QED
    BY <1>0, <2>1, <2>2 DEF OnlyMinted, FreshAfterQuiet
<1>3. ASSUME NEW c \in Calls, Route(c) PROVE OnlyMinted' /\ FreshAfterQuiet'
  BY <1>0, <1>3 DEF Route, Goto, ghostVars, OnlyMinted, FreshAfterQuiet
<1>4. CASE Tick
  BY <1>4 DEF Tick, callVars, ghostVars, OnlyMinted, FreshAfterQuiet
<1>5. CASE UNCHANGED vars
  BY <1>5 DEF vars, callVars, ghostVars, OnlyMinted, FreshAfterQuiet
<1>6. QED
  BY Steps, <1>1, <1>2, <1>3, <1>4, <1>5 DEF Resolving

\* A user who goes quiet past the window never comes back to an earlier Session,
\* its sandboxes and its directory: not through a slow slide, not through a stamp
\* of the same second, not through an error of Redis.
THEOREM FreshAfterQuietHolds == Spec => []FreshAfterQuiet
BY TypeInit, TypeStep, TimedInit, TimedStep, FreshInit, FreshStep, PTL DEF Spec

-----------------------------------------------------------------------------
\* No window has been written.
LEMMA RouteInit == Init => RouteOutlivesSession
BY CallsAssumption DEF Init, RouteOutlivesSession

\* A call that lost its key stays so.
LEMMA LostStays ==
    ASSUME TypeInv, NEW d \in Calls, KeyLost(d), pc[d] = "done",
           \A e \in Calls : pc[e] \in {"done", "lost"} => pc'[e] = pc[e] /\ sid'[e] = sid[e]
    PROVE  KeyLost(d)'
BY DEF KeyLost

\* The routing key is written after the window and for as long.
LEMMA RouteStep ==
    TypeInv /\ Timed /\ RouteOutlivesSession /\ [Next]_vars => RouteOutlivesSession'
<1> SUFFICES ASSUME TypeInv, Timed, RouteOutlivesSession, [Next]_vars
             PROVE  RouteOutlivesSession'
  OBVIOUS
<1>0. /\ UserOf \in [Calls -> Users] /\ GroupOf \in [Calls -> Groups]
      /\ now \in Nat /\ Window \in Nat
      /\ \A u \in Users : window[u].until \in Nat /\ window[u].until <= now + Window
      /\ route \in [Users -> [SessionIds -> [Groups -> Nat]]]
      /\ \A u \in Users, i \in SessionIds, g \in Groups : route[u][i][g] <= now + Window
      /\ \A d \in Calls : pc[d] # "get" => sid[d] \in SessionIds
      /\ DOMAIN pc = Calls /\ DOMAIN sid = Calls
      /\ DOMAIN window = Users /\ DOMAIN writer = Users
  BY CallsAssumption, TimesAssumption DEF TypeInv, TypeOK, HasId
\* What is kept when no call gets to its end, or none but c.
<1>10. ASSUME \A e \in Calls : pc[e] \in {"done", "lost"} => pc'[e] = pc[e] /\ sid'[e] = sid[e],
             NEW u \in Users, NEW d \in Calls,
             writer'[u] = d, pc[d] = "done", sid'[d] = window'[u].id,
             writer'[u] = writer[u], window'[u] = window[u],
             route'[u][sid[d]][GroupOf[d]] = route[u][sid[d]][GroupOf[d]]
      PROVE  KeyLost(d)' \/ window'[u].until <= route'[u][sid'[d]][GroupOf[d]]
  BY <1>10, LostStays DEF RouteOutlivesSession
<1>1. ASSUME NEW c \in Calls, Get(c) PROVE RouteOutlivesSession'
  <2>1. PICK id \in SessionIds, p \in {"slide", "set", "route"} :
             /\ pc[c] = "get" /\ pc' = [pc EXCEPT ![c] = p]
             /\ sid' = [sid EXCEPT ![c] = id]
             /\ UNCHANGED <<window, route, writer>>
    BY <1>1, GetIs
  <2>2. /\ \A d \in Calls : pc'[d] = "done" => pc[d] = "done"
        /\ \A d \in Calls : pc[d] \in {"done", "lost"} => pc'[d] = pc[d] /\ sid'[d] = sid[d]
    BY <1>0, <2>1
  <2>3. QED
    BY <1>10, <2>1, <2>2 DEF RouteOutlivesSession
<1>2. ASSUME NEW c \in Calls, NEW from \in Resolving, Store(c, from) PROVE RouteOutlivesSession'
  <2>1. /\ pc[c] = from /\ pc' = [pc EXCEPT ![c] = "route"]
        /\ sid' = sid \/ sid' = [sid EXCEPT ![c] = Transport(BaseOf[c])]
        /\ UNCHANGED route
        /\ \/ UNCHANGED <<window, writer>>
           \/ /\ window' = [window EXCEPT ![UserOf[c]] = [id |-> sid[c], until |-> now + Window]]
              /\ writer' = [writer EXCEPT ![UserOf[c]] = c]
    BY <1>2, StoreIs
  <2>2. /\ \A d \in Calls : pc'[d] = "done" => d # c /\ pc[d] = "done"
        /\ \A d \in Calls : pc[d] \in {"done", "lost"} => pc'[d] = pc[d] /\ sid'[d] = sid[d]
    BY <1>0, <2>1 DEF Resolving
  <2>3. \A u \in Users : writer'[u] = c \/ (writer'[u] = writer[u] /\ window'[u] = window[u])
    BY <1>0, <2>1
  <2>4. QED
    BY <1>10, <2>1, <2>2, <2>3 DEF RouteOutlivesSession
<1>3. ASSUME NEW c \in Calls, Route(c) PROVE RouteOutlivesSession'
  <2>1. /\ pc[c] = "route" /\ UNCHANGED <<window, sid, writer>>
        /\ sid[c] \in SessionIds
        /\ \E p \in {"done", "lost"} : pc' = [pc EXCEPT ![c] = p]
        /\ route' = route \/ \E t \in {0, now + Window} :
                                route' = [route EXCEPT ![UserOf[c]][sid[c]][GroupOf[c]] = t]
        /\ pc'[c] = "done" => route' = [route EXCEPT ![UserOf[c]][sid[c]][GroupOf[c]] = now + Window]
    BY <1>0, <1>3 DEF Route, RouteUntil, Renewed, Goto, ghostVars
  <2>2. \A d \in Calls : pc[d] \in {"done", "lost"} => pc'[d] = pc[d] /\ sid'[d] = sid[d]
    BY <1>0, <2>1
  <2>3. ASSUME NEW u \in Users, NEW i \in SessionIds, NEW g \in Groups,
               ~(u = UserOf[c] /\ i = sid[c] /\ g = GroupOf[c])
        PROVE  route'[u][i][g] = route[u][i][g]
    <3>1. PICK t \in {0, now + Window} :
            \/ route' = route
            \/ route' = [route EXCEPT ![UserOf[c]][sid[c]][GroupOf[c]] = t]
      BY <2>1
    <3>2. route \in [Users -> [SessionIds -> [Groups -> Nat]]]
      BY <1>0
    <3>3. QED
      BY <2>3, <3>1, <3>2
  <2>4. SUFFICES ASSUME NEW u \in Users, NEW d \in Calls,
                        writer[u] = d, pc'[d] = "done", sid[d] = window[u].id
                 PROVE  KeyLost(d)' \/ window[u].until <= route'[u][sid[d]][GroupOf[d]]
    BY <2>1 DEF RouteOutlivesSession
  <2>5. UserOf[d] = u /\ GroupOf[d] \in Groups
    BY <1>0, <2>4 DEF Timed
  <2>6. CASE d = c
    <3>1. route' = [route EXCEPT ![u][sid[c]][GroupOf[c]] = now + Window]
      BY <2>1, <2>4, <2>5, <2>6
    <3>2. route'[u][sid[c]][GroupOf[c]] = now + Window
      BY <1>0, <2>1, <2>5, <2>6, <3>1
    <3>3. QED
      BY <1>0, <2>6, <3>2
  <2>7. CASE d # c
    <3>1. pc[d] = "done" /\ sid[d] \in SessionIds
      BY <1>0, <2>1, <2>4, <2>7
    <3>2. CASE sid[d] = sid[c] /\ u = UserOf[c] /\ GroupOf[d] = GroupOf[c]
      <4>1. CASE pc'[c] = "lost"
        BY <2>1, <2>5, <3>2, <4>1 DEF KeyLost
      <4>2. CASE pc'[c] = "done"
        <5>1. route'[u][sid[c]][GroupOf[c]] = now + Window
          BY <1>0, <2>1, <2>5, <3>2, <4>2
        <5>2. QED
          BY <1>0, <3>2, <5>1
      <4>3. QED
        BY <1>0, <2>1, <4>1, <4>2
    <3>3. CASE ~(u = UserOf[c] /\ sid[d] = sid[c] /\ GroupOf[d] = GroupOf[c])
      BY <1>10, <2>1, <2>2, <2>3, <2>4, <2>5, <3>1, <3>3
    <3>4. QED
      BY <3>2, <3>3
  <2>8. QED
    BY <2>6, <2>7
<1>4. CASE Tick
  BY <1>4 DEF Tick, callVars, ghostVars, RouteOutlivesSession, KeyLost
<1>5. CASE UNCHANGED vars
  BY <1>5 DEF vars, callVars, ghostVars, RouteOutlivesSession, KeyLost
<1>6. QED
  BY Steps, <1>1, <1>2, <1>3, <1>4, <1>5 DEF Resolving

\* As long as a Session lives, the routing key of the tool group used last in it
\* lives, for every lag between the two writes, unless a call to that key failed or
\* lost its write to a failing Redis.
THEOREM RouteOutlivesSessionHolds == Spec => []RouteOutlivesSession
BY TypeInit, TypeStep, TimedInit, TimedStep, RouteInit, RouteStep, PTL DEF Spec

-----------------------------------------------------------------------------
\* A call on its way to write the window, and not behind, would write what is there.
InStep ==
    \A c \in Calls :
        /\ pc[c] \in Resolving /\ c \notin behind
        /\ now < window[UserOf[c]].until
        => window[UserOf[c]].id = sid[c]

\* No call is on its way.
LEMMA InStepInit == Init => InStep
BY DEF Init, InStep, Resolving

\* Whoever replaces a Session leaves behind all calls then on their way.
LEMMA InStepStep == TypeInv /\ InStep /\ [Next]_vars => InStep'
<1> SUFFICES ASSUME TypeInv, InStep, [Next]_vars PROVE InStep'
  OBVIOUS
<1>0. /\ UserOf \in [Calls -> Users] /\ now \in Nat
      /\ \A u \in Users : window[u].until \in Nat
      /\ DOMAIN pc = Calls /\ DOMAIN sid = Calls /\ DOMAIN window = Users
  BY CallsAssumption, TimesAssumption DEF TypeInv, TypeOK
<1>1. ASSUME NEW c \in Calls, Get(c) PROVE InStep'
  <2>1. PICK id \in SessionIds, p \in {"slide", "set", "route"} :
             /\ pc[c] = "get" /\ pc' = [pc EXCEPT ![c] = p]
             /\ sid' = [sid EXCEPT ![c] = id]
             /\ \/ p = "slide" /\ Present(c) /\ id = window[UserOf[c]].id
                \/ p = "set" /\ ~Present(c) /\ id = Minted(BaseOf[c], now)
                \/ p = "route" /\ id = Transport(BaseOf[c])
             /\ UNCHANGED <<now, window, behind>>
    BY <1>1, GetIs
  <2>2. QED
    BY <1>0, <2>1 DEF InStep, Resolving, Present
<1>2. ASSUME NEW c \in Calls, NEW from \in Resolving, Store(c, from) PROVE InStep'
  <2>1. /\ pc[c] = from /\ pc' = [pc EXCEPT ![c] = "route"]
        /\ sid' = sid \/ sid' = [sid EXCEPT ![c] = Transport(BaseOf[c])]
        /\ UNCHANGED now
        /\ \/ UNCHANGED <<window, behind>>
           \/ /\ window' = [window EXCEPT ![UserOf[c]] = [id |-> sid[c], until |-> now + Window]]
              /\ \/ behind' = behind /\ Present(c) /\ window[UserOf[c]].id = sid[c]
                 \/ behind' = behind \cup {d \in Others(c) : pc[d] \in Resolving}
    BY <1>2, StoreIs
  <2>2. SUFFICES ASSUME NEW d \in Calls, pc'[d] \in Resolving, d \notin behind',
                        now' < window'[UserOf[d]].until
                 PROVE  window'[UserOf[d]].id = sid'[d]
    BY DEF InStep
  <2>3. d # c /\ pc[d] \in Resolving /\ d \notin behind /\ sid'[d] = sid[d] /\ UserOf[d] \in Users
    BY <1>0, <2>1, <2>2 DEF Resolving
  <2>4. CASE window'[UserOf[d]] = window[UserOf[d]]
    BY <2>1, <2>2, <2>3, <2>4 DEF InStep
  <2>5. CASE /\ UserOf[d] = UserOf[c]
             /\ window'[UserOf[d]] = [id |-> sid[c], until |-> now + Window]
             /\ \/ behind' = behind /\ Present(c) /\ window[UserOf[c]].id = sid[c]
                \/ behind' = behind \cup {e \in Others(c) : pc[e] \in Resolving}
    <3>1. Present(c) /\ window[UserOf[c]].id = sid[c]
      BY <2>2, <2>3, <2>5 DEF Others
    <3>2. window[UserOf[d]].id = sid[d]
      BY <2>3, <2>5, <3>1 DEF InStep, Present
    <3>3. QED
      BY <2>3, <2>5, <3>1, <3>2
  <2>6. QED
    BY <1>0, <2>1, <2>3, <2>4, <2>5
<1>3. ASSUME NEW c \in Calls, Route(c) PROVE InStep'
  BY <1>0, <1>3 DEF Route, Goto, ghostVars, InStep, Resolving
<1>4. CASE Tick
  BY <1>0, <1>4 DEF Tick, callVars, ghostVars, InStep
<1>5. CASE UNCHANGED vars
  BY <1>5 DEF vars, callVars, ghostVars, InStep
<1>6. QED
  BY Steps, <1>1, <1>2, <1>3, <1>4, <1>5 DEF Resolving

\* So a write that changes a live Session is of a call that was left behind.
LEMMA ReplacingStep ==
    ASSUME TypeInv, InStep, [Next]_vars,
           NEW u \in Users, now < window[u].until, window'[u].id # window[u].id
    PROVE  \E c \in behind : UserOf[c] = u /\ pc[c] \in Resolving /\ pc'[c] = "route"
<1>0. UserOf \in [Calls -> Users] /\ DOMAIN window = Users /\ DOMAIN pc = Calls
  BY CallsAssumption DEF TypeInv, TypeOK
<1>1. ASSUME UNCHANGED window PROVE FALSE
  BY <1>1
<1>2. PICK c \in Calls, from \in Resolving : Store(c, from)
  BY <1>1, Steps DEF Get, Route, Tick, vars, Resolving
<1>3. /\ pc[c] = from /\ pc' = [pc EXCEPT ![c] = "route"]
      /\ window' = [window EXCEPT ![UserOf[c]] = [id |-> sid[c], until |-> now + Window]]
  BY <1>1, <1>2, StoreIs
<1>4. UserOf[c] = u /\ window'[u].id = sid[c]
  BY <1>0, <1>3
<1>5. c \in behind
  BY <1>3, <1>4 DEF InStep
<1>6. QED
  BY <1>0, <1>3, <1>4, <1>5

\* A user's live Session is replaced only by a call that had looked up before it
\* began or was revived: a call that starts later never splits the Session.
THEOREM ReplacedOnlyByRaceHolds == Spec => ReplacedOnlyByRace
<1>1. TypeInv /\ InStep /\ [Next]_vars =>
        [\A u \in Users :
           now < window[u].until /\ window'[u].id # window[u].id =>
             \E c \in behind : UserOf[c] = u /\ pc[c] \in Resolving /\ pc'[c] = "route"]_vars
  BY ReplacingStep
<1>2. QED
  BY TypeInit, TypeStep, InStepInit, InStepStep, <1>1, PTL DEF Spec, ReplacedOnlyByRace
=============================================================================
