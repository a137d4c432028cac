--------------------------- MODULE GroupGateProofs ---------------------------
(***************************************************************************)
(* Every decision of the group gate is fresh, for every number of checks,  *)
(* replicas, users and groups and every TTL and lag.                       *)
(***************************************************************************)
EXTENDS GroupGate, TLAPS

\* The two histories of membership are up to date.
HistoryNow ==
    \A u \in Users, g \in Groups :
        IF g \in member[u] THEN lastIn[u][g] = now ELSE lastOut[u][g] = now

\* What a set of groups known at time t says of user u was the case then or
\* later.
Witnessed(u, groups, t) ==
    \A g \in Groups : IF g \in groups THEN t <= lastIn[u][g] ELSE t <= lastOut[u][g]

\* An answer on its way back is at most MaxLag old.
AnswerFresh ==
    \A c \in Checks : pc[c] = "fill" =>
        now <= readAt[c] + MaxLag /\ Witnessed(UserOf[c], reply[c], readAt[c])

\* An entry ends within TTL + MaxLag of a moment at which it was right.
EntryFresh ==
    \A r \in Replicas, u \in Users, g \in Groups :
        IF g \in cache[r][u].groups
        THEN cache[r][u].until <= lastIn[u][g] + TTL + MaxLag
        ELSE cache[r][u].until <= lastOut[u][g] + TTL + MaxLag

Fresh == HistoryNow /\ AnswerFresh /\ EntryFresh

-----------------------------------------------------------------------------
\* The initial state is well typed.
LEMMA TypeInit == Init => TypeOK
  BY ChecksAssumption, TimesAssumption, SMT DEF Init, TypeOK

\* Every step keeps the variables in their ranges.
LEMMA TypeStep == TypeOK /\ [Next]_vars => TypeOK'
<1> SUFFICES ASSUME TypeOK, [Next]_vars PROVE TypeOK'
  OBVIOUS
<1> USE ChecksAssumption, TimesAssumption
<1>1. ASSUME NEW c \in Checks, Look(c) PROVE TypeOK'
  <2>1. verdict' \in [Checks -> {"none", "allow", "deny", "raised"}]
    BY <1>1 DEF TypeOK, Look, Decide
  <2>2. pc' \in [Checks -> {"look", "obo", "graph", "fill", "end"}]
    BY <1>1 DEF TypeOK, Look, Goto
  <2>3. loop' \in [Replicas -> Checks \cup {NoCheck}]
    BY <1>1 DEF TypeOK, Look
  <2> QED
    BY <1>1, <2>1, <2>2, <2>3 DEF TypeOK, Look, entraVars
<1>2. ASSUME NEW c \in Checks, Obo(c) PROVE TypeOK'
  <2>1. verdict' \in [Checks -> {"none", "allow", "deny", "raised"}]
    BY <1>2 DEF TypeOK, Obo, Decide
  <2>2. pc' \in [Checks -> {"look", "obo", "graph", "fill", "end"}]
    BY <1>2 DEF TypeOK, Obo, Goto
  <2>3. loop' \in [Replicas -> Checks \cup {NoCheck}]
    BY <1>2 DEF TypeOK, Obo
  <2> QED
    BY <1>2, <2>1, <2>2, <2>3 DEF TypeOK, Obo, entraVars
<1>3. ASSUME NEW c \in Checks, Graph(c) PROVE TypeOK'
  BY <1>3, SMT DEF TypeOK, Graph, Goto, entraVars
<1>4. ASSUME NEW c \in Checks, GraphFails(c) PROVE TypeOK'
  BY <1>4, SMT DEF TypeOK, GraphFails, Goto, entraVars
<1>5. ASSUME NEW c \in Checks, Fill(c) PROVE TypeOK'
  BY <1>5, SMT DEF TypeOK, Fill, Goto, Decide, Cached, Lifetime, entraVars
<1>6. ASSUME NEW r \in Replicas, NEW u \in Users, Evict(r, u) PROVE TypeOK'
  BY <1>6, SMT DEF TypeOK, Evict, entraVars, checkVars
<1>7. ASSUME NEW u \in Users, NEW g \in Groups, Change(u, g) PROVE TypeOK'
  BY <1>7, SMT DEF TypeOK, Change, checkVars
<1>8. CASE Tick
  BY <1>8, SMT DEF TypeOK, Tick, checkVars
<1>9. CASE UNCHANGED vars
  BY <1>9, SMT DEF TypeOK, vars, entraVars, checkVars
<1> QED
  BY <1>1, <1>2, <1>3, <1>4, <1>5, <1>6, <1>7, <1>8, <1>9 DEF Next, Step

\* Type correctness of the gate.
THEOREM TypeCorrect == Spec => []TypeOK
  BY TypeInit, TypeStep, PTL DEF Spec

-----------------------------------------------------------------------------
\* The histories never go back.
LEMMA HistoryGrows ==
    TypeOK /\ [Next]_vars =>
        \A u \in Users, g \in Groups :
            /\ lastIn[u][g] \in Nat /\ lastIn'[u][g] \in Nat
            /\ lastOut[u][g] \in Nat /\ lastOut'[u][g] \in Nat
            /\ lastIn[u][g] <= lastIn'[u][g]
            /\ lastOut[u][g] <= lastOut'[u][g]
<1> SUFFICES ASSUME TypeOK, [Next]_vars, NEW u \in Users, NEW g \in Groups
             PROVE  /\ lastIn[u][g] \in Nat /\ lastIn'[u][g] \in Nat
                    /\ lastOut[u][g] \in Nat /\ lastOut'[u][g] \in Nat
                    /\ lastIn[u][g] <= lastIn'[u][g]
                    /\ lastOut[u][g] <= lastOut'[u][g]
  OBVIOUS
<1>1. TypeOK'
  BY TypeStep
<1>2. /\ lastIn[u][g] \in 0 .. now /\ lastIn'[u][g] \in 0 .. now'
      /\ lastOut[u][g] \in 0 .. now /\ lastOut'[u][g] \in 0 .. now'
      /\ now \in Nat /\ now' \in Nat
  BY <1>1, TimesAssumption, SMT DEF TypeOK
<1>3. CASE Tick
  BY <1>2, <1>3, SMT DEF Tick
<1>4. ASSUME NEW v \in Users, NEW h \in Groups, Change(v, h)
      PROVE  lastIn[u][g] <= lastIn'[u][g] /\ lastOut[u][g] <= lastOut'[u][g]
  BY <1>2, <1>4, SMT DEF Change, TypeOK
<1>5. CASE UNCHANGED entraVars
  BY <1>2, <1>5, SMT DEF entraVars
<1>6. \/ Tick \/ UNCHANGED entraVars
      \/ \E v \in Users, h \in Groups : Change(v, h)
  BY DEF Next, Step, vars, Look, Obo, Graph, GraphFails, Fill, Evict
<1> QED
  BY <1>2, <1>3, <1>4, <1>5, <1>6

\* Membership histories are right initially and stay so.
LEMMA HistoryStep == TypeOK /\ HistoryNow /\ [Next]_vars => HistoryNow'
<1> SUFFICES ASSUME TypeOK, HistoryNow, [Next]_vars, NEW u \in Users, NEW g \in Groups
             PROVE  IF g \in member'[u] THEN lastIn'[u][g] = now' ELSE lastOut'[u][g] = now'
  BY DEF HistoryNow
<1>1. CASE Tick
  BY <1>1, SMT DEF Tick, HistoryNow
<1>2. ASSUME NEW v \in Users, NEW h \in Groups, Change(v, h)
      PROVE  IF g \in member'[u] THEN lastIn'[u][g] = now' ELSE lastOut'[u][g] = now'
  <2>1. CASE u = v /\ g = h
    BY <1>2, <2>1 DEF Change, TypeOK
  <2>2. CASE ~(u = v /\ g = h)
    <3>1. /\ lastIn'[u][g] = lastIn[u][g] /\ lastOut'[u][g] = lastOut[u][g]
          /\ now' = now
      BY <1>2, <2>2 DEF Change, TypeOK
    <3>2. g \in member'[u] <=> g \in member[u]
      BY <1>2, <2>2 DEF Change, TypeOK
    <3> QED
      BY <3>1, <3>2 DEF HistoryNow
  <2> QED
    BY <2>1, <2>2
<1>3. CASE UNCHANGED <<now, entraVars>>
  BY <1>3 DEF HistoryNow, entraVars
<1>4. \/ Tick \/ UNCHANGED <<now, entraVars>>
      \/ \E v \in Users, h \in Groups : Change(v, h)
  BY DEF Next, Step, vars, Look, Obo, Graph, GraphFails, Fill, Evict
<1> QED
  BY <1>1, <1>2, <1>3, <1>4

\* Answers under way stay fresh: Graph gives a right one, and the clock waits
\* for it to arrive.
LEMMA AnswerStep == TypeOK /\ HistoryNow /\ AnswerFresh /\ [Next]_vars => AnswerFresh'
<1> SUFFICES ASSUME TypeOK, HistoryNow, AnswerFresh, [Next]_vars,
                    NEW c \in Checks, pc'[c] = "fill"
             PROVE  /\ now' <= readAt'[c] + MaxLag
                    /\ Witnessed(UserOf[c], reply[c], readAt[c])'
  BY DEF AnswerFresh
<1> DEFINE u == UserOf[c]
<1>0. /\ u \in Users /\ now \in Nat /\ MaxLag \in Nat /\ readAt[c] \in Nat
      /\ \A g \in Groups : /\ lastIn[u][g] \in Nat /\ lastIn'[u][g] \in Nat
                           /\ lastOut[u][g] \in Nat /\ lastOut'[u][g] \in Nat
                           /\ lastIn[u][g] <= lastIn'[u][g]
                           /\ lastOut[u][g] <= lastOut'[u][g]
  BY HistoryGrows, ChecksAssumption, TimesAssumption DEF TypeOK
<1>1. CASE Graph(c)
  <2>1. /\ now' = now /\ readAt'[c] = now /\ reply'[c] = member[u]
        /\ lastIn' = lastIn /\ lastOut' = lastOut
    BY <1>1 DEF Graph, entraVars, TypeOK
  <2> QED
    BY <1>0, <2>1, SMT DEF Witnessed, HistoryNow
<1>2. CASE ~Graph(c)
  <2>1. pc[c] = "fill" /\ readAt'[c] = readAt[c] /\ reply'[c] = reply[c]
    BY <1>2 DEF Next, Step, vars, checkVars, Look, Obo, Graph, GraphFails, Fill,
                Evict, Change, Tick, Goto, TypeOK
  <2>2. now' = now \/ (now' = now + 1 /\ now < readAt[c] + MaxLag)
    BY <2>1 DEF Next, Step, vars, Look, Obo, Graph, GraphFails, Fill, Evict, Change, Tick
  <2>3. now' <= readAt'[c] + MaxLag
    BY <1>0, <2>1, <2>2, SMT DEF AnswerFresh
  <2>4. Witnessed(UserOf[c], reply[c], readAt[c])
    BY <2>1 DEF AnswerFresh
  <2> QED
    BY <1>0, <2>1, <2>3, <2>4, SMT DEF Witnessed
<1> QED
  BY <1>1, <1>2

\* Entries stay fresh: only Fill makes one, from a fresh answer.
LEMMA EntryStep == TypeOK /\ AnswerFresh /\ EntryFresh /\ [Next]_vars => EntryFresh'
<1> SUFFICES ASSUME TypeOK, AnswerFresh, EntryFresh, [Next]_vars,
                    NEW r \in Replicas, NEW u \in Users, NEW g \in Groups
             PROVE  IF g \in cache'[r][u].groups
                    THEN cache'[r][u].until <= lastIn'[u][g] + TTL + MaxLag
                    ELSE cache'[r][u].until <= lastOut'[u][g] + TTL + MaxLag
  BY DEF EntryFresh
<1>0. /\ now \in Nat /\ TTL \in Nat /\ MaxLag \in Nat /\ cache[r][u].until \in Nat
      /\ lastIn[u][g] \in Nat /\ lastIn'[u][g] \in Nat
      /\ lastOut[u][g] \in Nat /\ lastOut'[u][g] \in Nat
      /\ lastIn[u][g] <= lastIn'[u][g] /\ lastOut[u][g] <= lastOut'[u][g]
  <2>1. cache[r][u].until \in 0 .. now + TTL
    BY DEF TypeOK
  <2> QED
    BY <2>1, HistoryGrows, TimesAssumption, SMT DEF TypeOK
<1>1. CASE cache'[r][u] = cache[r][u]
  BY <1>0, <1>1, SMT DEF EntryFresh
<1>2. CASE cache'[r][u] = [groups |-> {}, until |-> 0]
  BY <1>0, <1>2, SMT
<1>3. ASSUME NEW c \in Checks, Fill(c), ReplicaOf[c] = r, UserOf[c] = u,
             cache'[r][u] = [groups |-> reply[c], until |-> now + TTL]
      PROVE  IF g \in cache'[r][u].groups
             THEN cache'[r][u].until <= lastIn'[u][g] + TTL + MaxLag
             ELSE cache'[r][u].until <= lastOut'[u][g] + TTL + MaxLag
  <2>1. pc[c] = "fill" /\ readAt[c] \in Nat
    BY <1>3, TimesAssumption, SMT DEF Fill, Goto, TypeOK
  <2>2. /\ now <= readAt[c] + MaxLag
        /\ IF g \in reply[c] THEN readAt[c] <= lastIn[u][g] ELSE readAt[c] <= lastOut[u][g]
    BY <1>3, <2>1 DEF AnswerFresh, Witnessed
  <2> QED
    BY <1>0, <1>3, <2>1, <2>2, SMT
<1>4. ASSUME NEW c \in Checks, Fill(c)
      PROVE  \/ cache'[r][u] = cache[r][u]
             \/ /\ ReplicaOf[c] = r /\ UserOf[c] = u
                /\ cache'[r][u] = [groups |-> reply[c], until |-> now + TTL]
  BY <1>4 DEF Fill, Cached, Lifetime, TypeOK
<1>5. ASSUME NEW s \in Replicas, NEW v \in Users, Evict(s, v)
      PROVE  cache'[r][u] = cache[r][u] \/ cache'[r][u] = [groups |-> {}, until |-> 0]
  BY <1>5 DEF Evict, TypeOK
<1>6. \/ cache' = cache
      \/ \E c \in Checks : Fill(c)
      \/ \E s \in Replicas, v \in Users : Evict(s, v)
  BY DEF Next, Step, vars, Look, Obo, Graph, GraphFails, Change, Tick
<1> QED
  BY <1>1, <1>2, <1>3, <1>4, <1>5, <1>6

\* Initially nothing is known, and the histories are right.
LEMMA FreshInit == Init => Fresh
<1> SUFFICES ASSUME Init PROVE Fresh
  OBVIOUS
<1>1. HistoryNow
  BY DEF Init, HistoryNow
<1>2. AnswerFresh
  BY DEF Init, AnswerFresh
<1>3. EntryFresh
  BY TimesAssumption, SMT DEF Init, EntryFresh
<1> QED
  BY <1>1, <1>2, <1>3 DEF Fresh

\* A step that returns a verdict returns one that its source bears out.
LEMMA VerdictStep ==
    ASSUME TypeOK, Fresh, [Next]_vars, NEW c \in Checks,
           NEW u \in Users, u = UserOf[c],
           NEW g \in Groups, g = GroupOf[c]
    PROVE  /\ Returns(c, "allow") => now <= lastIn[u][g] + TTL + MaxLag
           /\ Returns(c, "deny") /\ pc[c] # "obo" => now <= lastOut[u][g] + TTL + MaxLag
<1>0. /\ now \in Nat /\ TTL \in Nat /\ MaxLag \in Nat
      /\ lastIn[u][g] \in Nat /\ lastOut[u][g] \in Nat
  BY HistoryGrows, TimesAssumption, SMT DEF TypeOK
<1>1. CASE Look(c)
  <2>1. CASE Hit(c) /\ Decide(c, Entry(c).groups)
    <3> DEFINE r == ReplicaOf[c]
    <3>0. r \in Replicas
      BY ChecksAssumption
    <3>1. now < cache[r][u].until /\ cache[r][u].until \in Nat
      BY <1>0, <2>1, <3>0, SMT DEF Hit, Entry, TypeOK
    <3>2. IF g \in cache[r][u].groups
          THEN cache[r][u].until <= lastIn[u][g] + TTL + MaxLag
          ELSE cache[r][u].until <= lastOut[u][g] + TTL + MaxLag
      BY <3>0 DEF Fresh, EntryFresh
    <3>3. verdict'[c] = IF g \in cache[r][u].groups THEN "allow" ELSE "deny"
      BY <2>1 DEF Decide, Entry, TypeOK
    <3> HIDE DEF r
    <3> QED
      BY <1>0, <3>1, <3>2, <3>3, SMT DEF Returns
  <2>2. CASE verdict' = verdict
    BY <2>2 DEF Returns
  <2> QED
    BY <1>1, <2>1, <2>2 DEF Look
<1>2. CASE Obo(c)
  <2>1. (pc[c] = "obo" /\ verdict'[c] # "allow") \/ verdict' = verdict
    BY <1>2 DEF Obo, Goto, Decide, TypeOK
  <2> QED
    BY <1>2, <2>1 DEF Returns, Obo, Goto
<1>3. CASE GraphFails(c)
  BY <1>3 DEF GraphFails, Returns, TypeOK
<1>4. CASE Fill(c)
  <2>1. pc[c] = "fill" /\ readAt[c] \in Nat
    BY <1>4, SMT DEF Fill, Goto, TypeOK
  <2>2. /\ now <= readAt[c] + MaxLag
        /\ IF g \in reply[c] THEN readAt[c] <= lastIn[u][g] ELSE readAt[c] <= lastOut[u][g]
    BY <1>0, <2>1 DEF Fresh, AnswerFresh, Witnessed
  <2>3. verdict'[c] = IF g \in reply[c] THEN "allow" ELSE "deny"
    BY <1>4 DEF Fill, Decide, TypeOK
  <2> QED
    BY <1>0, <2>1, <2>2, <2>3, SMT DEF Returns
<1>5. CASE ~(Look(c) \/ Obo(c) \/ GraphFails(c) \/ Fill(c))
  <2>1. verdict'[c] = verdict[c]
    BY <1>5 DEF Next, Step, vars, checkVars, Look, Obo, Graph, GraphFails, Fill,
                Evict, Change, Tick, Decide, TypeOK
  <2> QED
    BY <2>1 DEF Returns
<1> QED
  BY <1>1, <1>2, <1>3, <1>4, <1>5

\* Fresh is an invariant of the gate.
LEMMA FreshHolds == Spec => [](TypeOK /\ Fresh)
<1>1. TypeOK /\ Fresh /\ [Next]_vars => (TypeOK /\ Fresh)'
  BY TypeStep, HistoryStep, AnswerStep, EntryStep DEF Fresh
<1> QED
  BY <1>1, TypeInit, FreshInit, PTL DEF Spec

\* A tool is allowed only on a membership that held within the last TTL plus
\* one answer's lag, for every TTL and lag.
THEOREM AllowIsFreshHolds == Spec => AllowIsFresh
<1>1. TypeOK /\ Fresh /\ [Next]_vars =>
        [\A c \in Checks : Returns(c, "allow") =>
            now <= lastIn[UserOf[c]][GroupOf[c]] + TTL + MaxLag]_vars
  BY VerdictStep, ChecksAssumption
<1> QED
  BY <1>1, FreshHolds, PTL DEF Spec, AllowIsFresh

\* A tool is denied, unless the exchange failed, only on a non-membership that
\* held within the same window.
THEOREM DenyIsFreshHolds == Spec => DenyIsFresh
<1>1. TypeOK /\ Fresh /\ [Next]_vars =>
        [\A c \in Checks : Returns(c, "deny") /\ pc[c] # "obo" =>
            now <= lastOut[UserOf[c]][GroupOf[c]] + TTL + MaxLag]_vars
  BY VerdictStep, ChecksAssumption
<1> QED
  BY <1>1, FreshHolds, PTL DEF Spec, DenyIsFresh
=============================================================================
