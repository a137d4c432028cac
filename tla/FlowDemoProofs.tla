--------------------------- MODULE FlowDemoProofs ---------------------------
(***************************************************************************)
(* The demo client for every number of requests, logins, threads and       *)
(* restarts, for a careful and a hasty user and for every set of faults.   *)
(***************************************************************************)
EXTENDS FlowDemo, TLAPS

-----------------------------------------------------------------------------
\* A callback that goes for a token has a code to redeem.
HoldsCode == \A t \in Threads :
    pc[t] \in {"check", "pick", "secrets", "exchange"} => code[t] \in Threads

TypeInv == TypeOK /\ HoldsCode

\* The page is loaded, nothing was asked.
LEMMA TypeInit == Init => TypeInv
BY BoundAssumption, NoneAssumption
   DEF Init, TypeInv, HoldsCode, TypeOK, NewRun, NewPage, NoCaptures, Captures, Flows, Paths,
       Phases, PCs

\* Every step keeps what the threads and the page hold in range.
LEMMA TypeOKStep == TypeInv /\ [Next]_vars => TypeOK'
<1> SUFFICES ASSUME TypeInv, [Next]_vars PROVE TypeOK'
  OBVIOUS
<1> USE BoundAssumption, NoneAssumption
    DEF TypeInv, TypeOK, threadVars, browserVars, Go, Flows, Paths
<1>1. ASSUME NEW t \in Threads, ClickDiscover(t) PROVE TypeOK'
  BY <1>1 DEF ClickDiscover, Send, PCs, Discovering, Authorizing, CallingBack
<1>2. ASSUME NEW t \in Threads, ClickAuthorize(t) PROVE TypeOK'
  BY <1>2 DEF ClickAuthorize, Send, PCs, Discovering, Authorizing, CallingBack
<1>3. CASE OpenLogin
  BY <1>3 DEF OpenLogin
<1>4. CASE Restart
  BY <1>4 DEF Restart, NewPage, Phases
<1>5. ASSUME NEW a \in Threads, NEW t \in Threads, TabReturns(a, t) PROVE TypeOK'
  BY <1>5 DEF TabReturns, Redirect, Send, PCs, Discovering, Authorizing, CallingBack
<1>6. ASSUME NEW u \in Threads, NEW t \in Threads, Reload(u, t) PROVE TypeOK'
  BY <1>6 DEF Reload, Redirect, Send, PCs, Discovering, Authorizing, CallingBack
<1>7. ASSUME NEW a \in Threads, CloseTab(a) PROVE TypeOK'
  BY <1>7 DEF CloseTab
<1>8. CASE Ask
  BY <1>8 DEF Ask
<1>9. CASE Status
  BY <1>9 DEF Status
<1>10. CASE HearStatus
  BY <1>10 DEF HearStatus, Told, Phases
<1>11. ASSUME NEW t \in Threads, Reset(t) PROVE TypeOK'
  BY <1>11 DEF Reset, Cleared, NewRun, NoCaptures, Captures, Phases, PCs, Discovering
<1>12. ASSUME NEW t \in Threads, Publish(t) PROVE TypeOK'
  BY <1>12 DEF Publish, Captured, Captures, PCs, Discovering
<1>13. ASSUME NEW t \in Threads, Mint(t) PROVE TypeOK'
  <2>1. pc' \in [Threads -> PCs]
    BY <1>13 DEF Mint, PCs, Authorizing
  <2>2. RUN' \in [phase : Phases, flow : Flows, verifier : Threads \cup {None},
                  state : Threads \cup {None}, steps : Captures]
    BY <1>13 DEF Mint, Awaiting, Phases
  <2>3. QED
    BY <1>13, <2>1, <2>2 DEF Mint
<1>14. ASSUME NEW t \in Threads, Hear(t) PROVE TypeOK'
  <2>1. pc' \in [Threads -> PCs]
    BY <1>14 DEF Hear, PCs
  <2>2. CASE page' = [page EXCEPT !.phase = "awaiting_login", !.url = t]
    <3>1. "awaiting_login" \in Phases
      BY DEF Phases
    <3>2. page' \in [flow : Flows, url : Threads \cup {None}, polling : BOOLEAN,
                     restarts : 0 .. MaxRestarts,
                     phase : Phases \cup {"authorizing", "discovered"}]
      BY <2>2, <3>1
    <3>3. QED
      BY <1>14, <2>1, <3>2 DEF Hear
  <2>3. CASE \/ page' = [page EXCEPT !.phase = "discovered"]
             \/ page' = [page EXCEPT !.phase = "error"]
    BY <1>14, <2>1, <2>3 DEF Hear, Phases
  <2>4. QED
    BY <1>14, <2>2, <2>3 DEF Hear
<1>15. ASSUME NEW t \in Threads, Declined(t) PROVE TypeOK'
  BY <1>15 DEF Declined, PCs, Failing, Phases
<1>16. ASSUME NEW t \in Threads, Check(t) PROVE TypeOK'
  BY <1>16 DEF Check, PCs, CallingBack
<1>17. ASSUME NEW t \in Threads, Reject(t) PROVE TypeOK'
  BY <1>17 DEF Reject, PCs, Failing, Phases
<1>18. ASSUME NEW t \in Threads, PickFlow(t) PROVE TypeOK'
  BY <1>18 DEF PickFlow, PCs, CallingBack
<1>19. ASSUME NEW t \in Threads, ReadSecrets(t) PROVE TypeOK'
  BY <1>19 DEF ReadSecrets, PCs, CallingBack
<1>20. ASSUME NEW t \in Threads, Exchange(t) PROVE TypeOK'
  <2>1. pc' \in [Threads -> PCs] /\ outcome' \in [Threads -> {"none", "refused", "token"}]
    BY <1>20 DEF Exchange, PCs, CallingBack
  <2>2. redeemed' \subseteq Threads
    BY <1>20 DEF Exchange, HoldsCode
  <2>3. QED
    BY <1>20, <2>1, <2>2 DEF Exchange
<1>21. ASSUME NEW t \in Threads, Finish(t) PROVE TypeOK'
  <2>1. pc' \in [Threads -> PCs]
    BY <1>21 DEF Finish, PCs, CallingBack
  <2>2. RUN' \in [phase : Phases, flow : Flows, verifier : Threads \cup {None},
                  state : Threads \cup {None}, steps : Captures]
    <3>1. Captured(RUN.steps, LoginSteps(flow[t]), t) \in Captures
      BY DEF Captured, Captures
    <3>2. "done" \in Phases
      BY DEF Phases
    <3>3. QED
      BY <1>21, <3>1, <3>2 DEF Finish, Done
  <2>3. QED
    BY <1>21, <2>1, <2>2 DEF Finish
<1>22. CASE UNCHANGED vars
  BY <1>22 DEF vars
<1>23. QED
  BY <1>1, <1>2, <1>3, <1>4, <1>5, <1>6, <1>7, <1>8, <1>9, <1>10, <1>11, <1>12,
     <1>13, <1>14, <1>15, <1>16, <1>17, <1>18, <1>19, <1>20, <1>21, <1>22
     DEF Next, User, Polling, Serve, Callback, Rest

\* A code comes with the request that brings it.
LEMMA HoldsCodeStep == TypeInv /\ [Next]_vars => HoldsCode'
<1> SUFFICES ASSUME TypeInv, [Next]_vars PROVE HoldsCode'
  OBVIOUS
<1> USE BoundAssumption, NoneAssumption
    DEF TypeInv, TypeOK, HoldsCode, threadVars, browserVars, Go
<1>1. ASSUME NEW t \in Threads, ClickDiscover(t) PROVE HoldsCode'
  BY <1>1 DEF ClickDiscover, Send
<1>2. ASSUME NEW t \in Threads, ClickAuthorize(t) PROVE HoldsCode'
  BY <1>2 DEF ClickAuthorize, Send
<1>3. CASE OpenLogin
  BY <1>3 DEF OpenLogin
<1>4. CASE Restart
  BY <1>4 DEF Restart
<1>5. ASSUME NEW a \in Threads, NEW t \in Threads, TabReturns(a, t) PROVE HoldsCode'
  BY <1>5 DEF TabReturns, Redirect, Send
<1>6. ASSUME NEW u \in Threads, NEW t \in Threads, Reload(u, t) PROVE HoldsCode'
  BY <1>6 DEF Reload, Redirect, Send
<1>7. ASSUME NEW a \in Threads, CloseTab(a) PROVE HoldsCode'
  BY <1>7 DEF CloseTab
<1>8. CASE Ask
  BY <1>8 DEF Ask
<1>9. CASE Status
  BY <1>9 DEF Status
<1>10. CASE HearStatus
  BY <1>10 DEF HearStatus
<1>11. ASSUME NEW t \in Threads, Reset(t) PROVE HoldsCode'
  BY <1>11 DEF Reset
<1>12. ASSUME NEW t \in Threads, Publish(t) PROVE HoldsCode'
  BY <1>12 DEF Publish
<1>13. ASSUME NEW t \in Threads, Mint(t) PROVE HoldsCode'
  BY <1>13 DEF Mint
<1>14. ASSUME NEW t \in Threads, Hear(t) PROVE HoldsCode'
  BY <1>14 DEF Hear
<1>15. ASSUME NEW t \in Threads, Declined(t) PROVE HoldsCode'
  BY <1>15 DEF Declined
<1>16. ASSUME NEW t \in Threads, Check(t) PROVE HoldsCode'
  BY <1>16 DEF Check
<1>17. ASSUME NEW t \in Threads, Reject(t) PROVE HoldsCode'
  BY <1>17 DEF Reject
<1>18. ASSUME NEW t \in Threads, PickFlow(t) PROVE HoldsCode'
  BY <1>18 DEF PickFlow
<1>19. ASSUME NEW t \in Threads, ReadSecrets(t) PROVE HoldsCode'
  BY <1>19 DEF ReadSecrets
<1>20. ASSUME NEW t \in Threads, Exchange(t) PROVE HoldsCode'
  BY <1>20 DEF Exchange
<1>21. ASSUME NEW t \in Threads, Finish(t) PROVE HoldsCode'
  BY <1>21 DEF Finish
<1>22. CASE UNCHANGED vars
  BY <1>22 DEF vars
<1>23. QED
  BY <1>1, <1>2, <1>3, <1>4, <1>5, <1>6, <1>7, <1>8, <1>9, <1>10, <1>11, <1>12,
     <1>13, <1>14, <1>15, <1>16, <1>17, <1>18, <1>19, <1>20, <1>21, <1>22
     DEF Next, User, Polling, Serve, Callback, Rest

\* Every variable stays in its range.
THEOREM TypeCorrect == Spec => []TypeOK
<1>1. TypeInv /\ [Next]_vars => TypeInv'
  BY TypeOKStep, HoldsCodeStep DEF TypeInv
<1>2. TypeInv => TypeOK
  BY DEF TypeInv
<1>3. QED
  BY TypeInit, <1>1, <1>2, PTL DEF Spec

-----------------------------------------------------------------------------
\* Thread a has served its request, so its flow is settled.
Settled(a) == pc[a] \in {"authorized", "failed", "ended"}

\* A login that is known anywhere was minted by a thread that is settled.
LoginsSettled ==
    /\ RUN.verifier # None => Settled(RUN.verifier)
    /\ page.url # None => Settled(page.url)
    /\ \A a \in tabs : Settled(a)
    /\ \A t \in Threads : issuedFor[t] # None => Settled(issuedFor[t])
    /\ \A t \in Threads : pc[t] \in CallingBack \/ code[t] # None => issuedFor[t] # None

\* RUN holds verifier, state and flow of one login.
RunOfOneLogin ==
    /\ RUN.verifier = RUN.state
    /\ RUN.verifier # None => RUN.flow = flow[RUN.verifier]

\* What a callback has copied from RUN so far goes together, if it goes with the
\* login of its code at all: a login that RUN has forgotten never comes back.
CopiesOfOneLogin ==
    \A t \in Threads :
        /\ pc[t] = "secrets" /\ RUN.verifier = issuedFor[t] => flow[t] = flow[issuedFor[t]]
        /\ pc[t] = "exchange" =>
             /\ verifier[t] = state[t]
             /\ verifier[t] = issuedFor[t] => flow[t] = flow[issuedFor[t]]
        /\ outcome[t] = "token" =>
             /\ pc[t] = "finish"
             /\ verifier[t] = issuedFor[t] /\ state[t] = issuedFor[t]
             /\ flow[t] = flow[issuedFor[t]]

Coherent == LoginsSettled /\ RunOfOneLogin /\ CopiesOfOneLogin

\* No login is known before the first request.
LEMMA CoherentInit == Init => Coherent
BY NoneAssumption DEF Init, Coherent, LoginsSettled, RunOfOneLogin, CopiesOfOneLogin, NewRun,
   NewPage, CallingBack

\* A thread that is settled stays so, and only such threads are written down.
LEMMA LoginsSettledStep == TypeInv /\ LoginsSettled /\ [Next]_vars => LoginsSettled'
<1> SUFFICES ASSUME TypeInv, LoginsSettled, [Next]_vars PROVE LoginsSettled'
  OBVIOUS
<1> USE BoundAssumption, NoneAssumption
    DEF TypeInv, TypeOK, LoginsSettled, Settled, threadVars, browserVars, Go
<1>1. ASSUME NEW t \in Threads, ClickDiscover(t) PROVE LoginsSettled'
  BY <1>1 DEF ClickDiscover, Send, CallingBack
<1>2. ASSUME NEW t \in Threads, ClickAuthorize(t) PROVE LoginsSettled'
  BY <1>2 DEF ClickAuthorize, Send, CallingBack
<1>3. CASE OpenLogin
  BY <1>3 DEF OpenLogin
<1>4. CASE Restart
  BY <1>4 DEF Restart, NewPage
<1>5. ASSUME NEW a \in Threads, NEW t \in Threads, TabReturns(a, t) PROVE LoginsSettled'
  BY <1>5 DEF TabReturns, Redirect, Send
<1>6. ASSUME NEW u \in Threads, NEW t \in Threads, Reload(u, t) PROVE LoginsSettled'
  BY <1>6 DEF Reload, Redirect, Send, CallingBack
<1>7. ASSUME NEW a \in Threads, CloseTab(a) PROVE LoginsSettled'
  BY <1>7 DEF CloseTab
<1>8. CASE Ask
  BY <1>8 DEF Ask
<1>9. CASE Status
  BY <1>9 DEF Status
<1>10. CASE HearStatus
  BY <1>10 DEF HearStatus, Told
<1>11. ASSUME NEW t \in Threads, Reset(t) PROVE LoginsSettled'
  BY <1>11 DEF Reset, Cleared, NewRun, CallingBack
<1>12. ASSUME NEW t \in Threads, Publish(t) PROVE LoginsSettled'
  BY <1>12 DEF Publish, CallingBack
<1>13. ASSUME NEW t \in Threads, Mint(t) PROVE LoginsSettled'
  BY <1>13 DEF Mint, Awaiting, CallingBack
<1>14. ASSUME NEW t \in Threads, Hear(t) PROVE LoginsSettled'
  <2> DEFINE Still(u) == pc'[u] \in {"authorized", "failed", "ended"}
  <2>1. \A u \in Threads : Settled(u) => Still(u)
    BY <1>14 DEF Hear
  <2>2. Still(t)
    BY <1>14 DEF Hear
  <2>3. page'.url \in {page.url, t}
    BY <1>14 DEF Hear
  <2>4. \A u \in Threads : pc'[u] \in CallingBack => pc[u] \in CallingBack
    BY <1>14 DEF Hear, CallingBack
  <2>5. UNCHANGED <<RUN, tabs, issuedFor, code>>
    BY <1>14 DEF Hear
  <2>6. page'.url # None => Still(page'.url)
    BY <2>1, <2>2, <2>3
  <2>7. RUN'.verifier # None => Still(RUN'.verifier)
    BY <2>1, <2>5
  <2>8. /\ \A a \in tabs' : Still(a)
        /\ \A u \in Threads : issuedFor'[u] # None => Still(issuedFor'[u])
    BY <2>1, <2>5
  <2>9. QED
    BY <2>4, <2>5, <2>6, <2>7, <2>8
<1>15. ASSUME NEW t \in Threads, Declined(t) PROVE LoginsSettled'
  BY <1>15 DEF Declined, Failing, CallingBack
<1>16. ASSUME NEW t \in Threads, Check(t) PROVE LoginsSettled'
  BY <1>16 DEF Check, CallingBack
<1>17. ASSUME NEW t \in Threads, Reject(t) PROVE LoginsSettled'
  BY <1>17 DEF Reject, Failing, CallingBack
<1>18. ASSUME NEW t \in Threads, PickFlow(t) PROVE LoginsSettled'
  BY <1>18 DEF PickFlow, CallingBack
<1>19. ASSUME NEW t \in Threads, ReadSecrets(t) PROVE LoginsSettled'
  BY <1>19 DEF ReadSecrets, CallingBack
<1>20. ASSUME NEW t \in Threads, Exchange(t) PROVE LoginsSettled'
  BY <1>20 DEF Exchange, CallingBack
<1>21. ASSUME NEW t \in Threads, Finish(t) PROVE LoginsSettled'
  BY <1>21 DEF Finish, Done, CallingBack
<1>22. CASE UNCHANGED vars
  BY <1>22 DEF vars
<1>23. QED
  BY <1>1, <1>2, <1>3, <1>4, <1>5, <1>6, <1>7, <1>8, <1>9, <1>10, <1>11, <1>12,
     <1>13, <1>14, <1>15, <1>16, <1>17, <1>18, <1>19, <1>20, <1>21, <1>22
     DEF Next, User, Polling, Serve, Callback, Rest

\* RUN is written in one piece, and the flow of its login is settled.
LEMMA RunStep == TypeInv /\ LoginsSettled /\ RunOfOneLogin /\ [Next]_vars => RunOfOneLogin'
<1> SUFFICES ASSUME TypeInv, LoginsSettled, RunOfOneLogin, [Next]_vars PROVE RunOfOneLogin'
  OBVIOUS
<1> USE BoundAssumption, NoneAssumption
    DEF TypeInv, TypeOK, LoginsSettled, RunOfOneLogin, Settled, threadVars, browserVars, Go
<1>1. ASSUME NEW t \in Threads, ClickDiscover(t) PROVE RunOfOneLogin'
  BY <1>1 DEF ClickDiscover, Send
<1>2. ASSUME NEW t \in Threads, ClickAuthorize(t) PROVE RunOfOneLogin'
  BY <1>2 DEF ClickAuthorize, Send
<1>3. CASE OpenLogin
  BY <1>3 DEF OpenLogin
<1>4. CASE Restart
  BY <1>4 DEF Restart
<1>5. ASSUME NEW a \in Threads, NEW t \in Threads, TabReturns(a, t) PROVE RunOfOneLogin'
  BY <1>5 DEF TabReturns
<1>6. ASSUME NEW u \in Threads, NEW t \in Threads, Reload(u, t) PROVE RunOfOneLogin'
  BY <1>6 DEF Reload
<1>7. ASSUME NEW a \in Threads, CloseTab(a) PROVE RunOfOneLogin'
  BY <1>7 DEF CloseTab
<1>8. CASE Ask
  BY <1>8 DEF Ask
<1>9. CASE Status
  BY <1>9 DEF Status
<1>10. CASE HearStatus
  BY <1>10 DEF HearStatus
<1>11. ASSUME NEW t \in Threads, Reset(t) PROVE RunOfOneLogin'
  BY <1>11 DEF Reset, Cleared, NewRun
<1>12. ASSUME NEW t \in Threads, Publish(t) PROVE RunOfOneLogin'
  BY <1>12 DEF Publish
<1>13. ASSUME NEW t \in Threads, Mint(t) PROVE RunOfOneLogin'
  BY <1>13 DEF Mint, Awaiting
<1>14. ASSUME NEW t \in Threads, Hear(t) PROVE RunOfOneLogin'
  BY <1>14 DEF Hear
<1>15. ASSUME NEW t \in Threads, Declined(t) PROVE RunOfOneLogin'
  BY <1>15 DEF Declined, Failing
<1>16. ASSUME NEW t \in Threads, Check(t) PROVE RunOfOneLogin'
  BY <1>16 DEF Check
<1>17. ASSUME NEW t \in Threads, Reject(t) PROVE RunOfOneLogin'
  BY <1>17 DEF Reject, Failing
<1>18. ASSUME NEW t \in Threads, PickFlow(t) PROVE RunOfOneLogin'
  BY <1>18 DEF PickFlow
<1>19. ASSUME NEW t \in Threads, ReadSecrets(t) PROVE RunOfOneLogin'
  BY <1>19 DEF ReadSecrets
<1>20. ASSUME NEW t \in Threads, Exchange(t) PROVE RunOfOneLogin'
  BY <1>20 DEF Exchange
<1>21. ASSUME NEW t \in Threads, Finish(t) PROVE RunOfOneLogin'
  BY <1>21 DEF Finish, Done
<1>22. CASE UNCHANGED vars
  BY <1>22 DEF vars
<1>23. QED
  BY <1>1, <1>2, <1>3, <1>4, <1>5, <1>6, <1>7, <1>8, <1>9, <1>10, <1>11, <1>12,
     <1>13, <1>14, <1>15, <1>16, <1>17, <1>18, <1>19, <1>20, <1>21, <1>22
     DEF Next, User, Polling, Serve, Callback, Rest

\* Between two reads of a callback RUN may change, but not back.
LEMMA CopiesStep ==
    TypeInv /\ LoginsSettled /\ RunOfOneLogin /\ CopiesOfOneLogin /\ [Next]_vars
      => CopiesOfOneLogin'
<1> SUFFICES ASSUME TypeInv, LoginsSettled, RunOfOneLogin, CopiesOfOneLogin, [Next]_vars
             PROVE  CopiesOfOneLogin'
  OBVIOUS
<1> USE BoundAssumption, NoneAssumption
    DEF TypeInv, TypeOK, LoginsSettled, RunOfOneLogin, CopiesOfOneLogin, Settled, threadVars,
        browserVars, Go
<1>1. ASSUME NEW t \in Threads, ClickDiscover(t) PROVE CopiesOfOneLogin'
  BY <1>1 DEF ClickDiscover, Send, CallingBack
<1>2. ASSUME NEW t \in Threads, ClickAuthorize(t) PROVE CopiesOfOneLogin'
  BY <1>2 DEF ClickAuthorize, Send, CallingBack
<1>3. CASE OpenLogin
  BY <1>3 DEF OpenLogin
<1>4. CASE Restart
  BY <1>4 DEF Restart, NewPage
<1>5. ASSUME NEW a \in Threads, NEW t \in Threads, TabReturns(a, t) PROVE CopiesOfOneLogin'
  BY <1>5 DEF TabReturns, Redirect, Send
<1>6. ASSUME NEW u \in Threads, NEW t \in Threads, Reload(u, t) PROVE CopiesOfOneLogin'
  BY <1>6 DEF Reload, Redirect, Send, CallingBack
<1>7. ASSUME NEW a \in Threads, CloseTab(a) PROVE CopiesOfOneLogin'
  BY <1>7 DEF CloseTab
<1>8. CASE Ask
  BY <1>8 DEF Ask
<1>9. CASE Status
  BY <1>9 DEF Status
<1>10. CASE HearStatus
  BY <1>10 DEF HearStatus
<1>11. ASSUME NEW t \in Threads, Reset(t) PROVE CopiesOfOneLogin'
  BY <1>11 DEF Reset, Cleared, NewRun, CallingBack
<1>12. ASSUME NEW t \in Threads, Publish(t) PROVE CopiesOfOneLogin'
  BY <1>12 DEF Publish, CallingBack
<1>13. ASSUME NEW t \in Threads, Mint(t) PROVE CopiesOfOneLogin'
  BY <1>13 DEF Mint, Awaiting, CallingBack
<1>14. ASSUME NEW t \in Threads, Hear(t) PROVE CopiesOfOneLogin'
  BY <1>14 DEF Hear, CallingBack
<1>15. ASSUME NEW t \in Threads, Declined(t) PROVE CopiesOfOneLogin'
  BY <1>15 DEF Declined, Failing, CallingBack
<1>16. ASSUME NEW t \in Threads, Check(t) PROVE CopiesOfOneLogin'
  BY <1>16 DEF Check, CallingBack
<1>17. ASSUME NEW t \in Threads, Reject(t) PROVE CopiesOfOneLogin'
  BY <1>17 DEF Reject, Failing, CallingBack
<1>18. ASSUME NEW t \in Threads, PickFlow(t) PROVE CopiesOfOneLogin'
  BY <1>18 DEF PickFlow, CallingBack
<1>19. ASSUME NEW t \in Threads, ReadSecrets(t) PROVE CopiesOfOneLogin'
  BY <1>19 DEF ReadSecrets, CallingBack
<1>20. ASSUME NEW t \in Threads, Exchange(t) PROVE CopiesOfOneLogin'
  BY <1>20 DEF Exchange, CallingBack, Grantable, Redeemable
<1>21. ASSUME NEW t \in Threads, Finish(t) PROVE CopiesOfOneLogin'
  BY <1>21 DEF Finish, Done, CallingBack
<1>22. CASE UNCHANGED vars
  BY <1>22 DEF vars
<1>23. QED
  BY <1>1, <1>2, <1>3, <1>4, <1>5, <1>6, <1>7, <1>8, <1>9, <1>10, <1>11, <1>12,
     <1>13, <1>14, <1>15, <1>16, <1>17, <1>18, <1>19, <1>20, <1>21, <1>22
     DEF Next, User, Polling, Serve, Callback, Rest

\* However logins, restarts and reloads overlap, a token is obtained only with
\* the verifier, the state and the flow of the login that its code belongs to.
THEOREM TokenOfOneLoginHolds == Spec => []TokenOfOneLogin
<1>1. TypeInv /\ Coherent /\ [Next]_vars => (TypeInv /\ Coherent)'
  BY TypeOKStep, HoldsCodeStep, LoginsSettledStep, RunStep, CopiesStep DEF Coherent, TypeInv
<1>2. Coherent => TokenOfOneLogin
  BY DEF Coherent, CopiesOfOneLogin, TokenOfOneLogin
<1>3. QED
  BY TypeInit, CoherentInit, <1>1, <1>2, PTL DEF Spec

-----------------------------------------------------------------------------
\* A request that has not been sent has brought no code, and a code that is spent
\* was brought by a callback that has used it.
Spent ==
    /\ \A t \in Threads : pc[t] = "free" => code[t] = None
    /\ \A d \in redeemed : \E u \in Threads :
         code[u] = d /\ pc[u] \in {"finish", "reject", "ended"}

\* A refusal stays explained for as long as it is remembered.
Explained ==
    \A t \in Threads : outcome[t] = "refused" =>
        /\ pc[t] = "finish"
        /\ \/ Fault("refused")
           \/ state[t] # issuedFor[t]
           \/ \E u \in Threads \ {t} : code[u] = code[t] /\ pc[u] # "free"

\* Whether the user is careful does not change.
LEMMA UserStays == [Next]_vars => UNCHANGED careful
BY DEF Next, vars, browserVars, User, ClickDiscover, ClickAuthorize, OpenLogin, Restart,
   TabReturns, Reload, CloseTab, Polling, Ask, Status, HearStatus, Serve, Reset, Publish,
   Mint, Callback, Declined, Check, Reject, PickFlow, ReadSecrets, Exchange, Finish, Hear,
   Rest

\* `resource` is not what Entra refuses: the proxy has dropped it, or the client
\* that goes to Entra directly never sent it.
LEMMA ExchangeIsClean ==
    ASSUME TypeInv, NEW t \in Threads
    PROVE  ~Refuses(ExchangeAtEntra(t))
<1>1. CASE flow[t] = "mcpproxy"
  BY <1>1 DEF Refuses, ExchangeAtEntra, Forwarded, Server, TokenRequest, Token
<1>2. CASE flow[t] = "mcp"
  BY <1>2 DEF Refuses, ExchangeAtEntra, Forwarded, Server, TokenRequest
<1>3. QED
  BY <1>1, <1>2 DEF TypeInv, TypeOK, Flows, Paths

\* Nothing was asked, nothing was refused.
LEMMA ExplainedInit == Init => Spent /\ Explained
BY DEF Init, Spent, Explained

\* A callback's own thread stays with its code, and only an exchange spends one.
LEMMA ExplainedStep ==
    TypeInv /\ CopiesOfOneLogin /\ Spent /\ Explained /\ [Next]_vars => Spent' /\ Explained'
<1> SUFFICES ASSUME TypeInv, CopiesOfOneLogin, Spent, Explained, [Next]_vars
             PROVE  Spent' /\ Explained'
  OBVIOUS
<1>0. Fault("refused") => Fault("refused")'
  BY UserStays DEF Fault
<1> USE <1>0, BoundAssumption, NoneAssumption
    DEF TypeInv, TypeOK, Spent, Explained, threadVars, browserVars, Go
<1>1. ASSUME NEW t \in Threads, NEW e, e # "free", Send(t, e), UNCHANGED <<outcome, state, redeemed>>,
             \A u \in Threads \ {t} : issuedFor'[u] = issuedFor[u] /\ code'[u] = code[u]
      PROVE  Spent' /\ Explained'
  <2>1. pc[t] = "free" /\ pc'[t] # "free" /\ \A u \in Threads \ {t} : pc'[u] = pc[u]
    BY <1>1 DEF Send
  <2>2. Spent'
    BY <1>1, <2>1
  <2>3. Explained'
    BY <1>1, <2>1
  <2>4. QED
    BY <2>2, <2>3
<1>2. ASSUME NEW t \in Threads, ClickDiscover(t) \/ ClickAuthorize(t) PROVE Spent' /\ Explained'
  <2>1. PICK e \in {"reset", "mint"} : Send(t, e)
    BY <1>2 DEF ClickDiscover, ClickAuthorize
  <2>2. UNCHANGED <<outcome, state, redeemed, issuedFor, code>>
    BY <1>2 DEF ClickDiscover, ClickAuthorize
  <2>3. QED
    BY <1>1, <2>1, <2>2
<1>3. ASSUME NEW a \in Threads, NEW t \in Threads, TabReturns(a, t) \/ Reload(a, t)
      PROVE  Spent' /\ Explained'
  <2>1. PICK e \in {"check", "declined"} : Send(t, e)
    BY <1>3 DEF TabReturns, Reload, Redirect
  <2>2. /\ UNCHANGED <<outcome, state, redeemed>>
        /\ \A u \in Threads \ {t} : issuedFor'[u] = issuedFor[u] /\ code'[u] = code[u]
    BY <1>3 DEF TabReturns, Reload
  <2>3. QED
    BY <1>1, <2>1, <2>2
<1>4. CASE OpenLogin \/ Restart \/ Polling \/ \E a \in Threads : CloseTab(a)
  BY <1>4 DEF OpenLogin, Restart, CloseTab, Polling, Ask, Status, HearStatus
<1>5. ASSUME NEW t \in Threads,
             Reset(t) \/ Publish(t) \/ Mint(t) \/ Hear(t) \/ Declined(t) \/ Check(t)
               \/ Reject(t) \/ PickFlow(t)
      PROVE  Spent' /\ Explained'
  <2>1. /\ pc[t] \notin {"free", "finish", "ended"} /\ pc'[t] # "free"
        /\ pc[t] = "reject" => pc'[t] = "ended"
        /\ \A u \in Threads \ {t} : pc'[u] = pc[u]
        /\ UNCHANGED <<outcome, state, redeemed, issuedFor, code>>
    BY <1>5 DEF Reset, Publish, Mint, Hear, Declined, Check, Reject, PickFlow
  <2>2. QED
    BY <2>1
<1>6. ASSUME NEW t \in Threads, ReadSecrets(t) PROVE Spent' /\ Explained'
  BY <1>6 DEF ReadSecrets
<1>7. ASSUME NEW t \in Threads, Exchange(t) PROVE Spent' /\ Explained'
  <2>1. /\ pc[t] = "exchange" /\ pc'[t] \in {"finish", "reject"}
        /\ \A u \in Threads \ {t} : pc'[u] = pc[u] /\ outcome'[u] = outcome[u]
        /\ redeemed' \in {redeemed, redeemed \cup {code[t]}}
        /\ UNCHANGED <<state, issuedFor, code>>
    BY <1>7 DEF Exchange
  <2>2. Spent'
    BY <2>1
  <2>3. ASSUME outcome'[t] = "refused"
        PROVE  /\ pc'[t] = "finish"
               /\ \/ Fault("refused")
                  \/ state[t] # issuedFor[t]
                  \/ \E u \in Threads \ {t} : code[u] = code[t] /\ pc[u] # "free"
    <3>1. outcome[t] # "refused"
      BY <2>1
    <3>2. pc'[t] = "finish" /\ (Fault("refused") \/ ~Redeemable(t))
      BY <1>7, <2>3, <3>1, ExchangeIsClean DEF Exchange, Grantable
    <3>3. CASE verifier[t] # issuedFor[t]
      BY <2>1, <3>2, <3>3 DEF CopiesOfOneLogin
    <3>4. CASE code[t] \in redeemed
      <4>1. PICK u \in Threads : code[u] = code[t] /\ pc[u] \in {"finish", "reject", "ended"}
        BY <3>4
      <4>2. QED
        BY <2>1, <3>2, <4>1
    <3>5. QED
      BY <3>2, <3>3, <3>4 DEF Redeemable
  <2>4. Explained'
    <3>1. ASSUME NEW u \in Threads, outcome'[u] = "refused"
          PROVE  /\ pc'[u] = "finish"
                 /\ \/ Fault("refused")
                    \/ state[u] # issuedFor[u]
                    \/ \E w \in Threads \ {u} : code[w] = code[u] /\ pc[w] # "free"
      <4>1. CASE u = t
        BY <2>3, <3>1, <4>1
      <4>2. CASE u # t
        BY <2>1, <3>1, <4>2
      <4>3. QED
        BY <4>1, <4>2
    <3>2. \A w \in Threads : pc[w] # "free" => pc'[w] # "free"
      BY <2>1
    <3>3. QED
      BY <2>1, <3>1, <3>2
  <2>5. QED
    BY <2>2, <2>4
<1>8. ASSUME NEW t \in Threads, Finish(t) PROVE Spent' /\ Explained'
  BY <1>8 DEF Finish
<1>9. CASE UNCHANGED vars
  BY <1>9 DEF vars, Fault
<1>10. QED
  BY <1>2, <1>3, <1>4, <1>5, <1>6, <1>7, <1>8, <1>9 DEF Next, User, Serve, Callback, Rest

\* However logins, restarts and reloads overlap: without the fault, a refusal means
\* that another flow overtook the login or that its tab was reloaded.
THEOREM RefusedOnlyWhenOvertakenHolds == Spec => []RefusedOnlyWhenOvertaken
<1> DEFINE Inv == TypeInv /\ Coherent /\ Spent /\ Explained
<1>1. Init => Inv
  BY TypeInit, CoherentInit, ExplainedInit
<1>2. Inv /\ [Next]_vars => Inv'
  BY TypeOKStep, HoldsCodeStep, LoginsSettledStep, RunStep, CopiesStep, ExplainedStep
     DEF Coherent, TypeInv
<1>3. Inv => RefusedOnlyWhenOvertaken
  BY DEF Explained, RefusedOnlyWhenOvertaken
<1>4. QED
  BY <1>1, <1>2, <1>3, PTL DEF Spec

-----------------------------------------------------------------------------
\* Thread t serves a request, or its answer is still to be heard.
Working(t) == pc[t] \notin {"free", "ended"}

\* The discovery steps that RUN shows were captured for flow f.
FoundFor(f) == \A n \in DiscoverySteps : LET t == RUN.steps[n] IN
    t # None /\ flow[t] = f /\ pc[t] \in {"discovered", "ended"}

\* The login steps that RUN shows were captured for flow f and login a.
LoggedInFor(f, a) == \A n \in LoginSteps(f) : LET t == RUN.steps[n] IN
    t # None /\ flow[t] = f /\ issuedFor[t] = a /\ pc[t] \in {"reject", "ended"}

\* Steps outside this set show nothing.
OnlyShows(steps) == \A n \in Steps \ steps : RUN.steps[n] = None

\* The page has no login yet: at most one request is under way, the page waits
\* for it, and RUN holds what the page was told.
BeforeLogin ==
    /\ tabs = {} /\ poll = "off" /\ ~page.polling
    /\ page.phase \notin {"awaiting_login", "done"}
    /\ \A t \in Threads : Working(t) =>
         /\ pc[t] \in Discovering \cup Authorizing \cup {"failed"}
         /\ flow[t] = page.flow
         /\ page.phase = "authorizing"
         /\ pc[t] = "publish" => OnlyShows({})
         /\ pc[t] \in {"discovered", "mint", "authorized"} =>
              FoundFor(page.flow) /\ OnlyShows(DiscoverySteps)
         /\ pc[t] = "authorized" => RUN.flow = page.flow /\ RUN.phase = "awaiting_login"
    /\ \A t, u \in Threads : Working(t) /\ Working(u) => t = u
    /\ page.phase = "discovered" => FoundFor(page.flow) /\ OnlyShows(DiscoverySteps)

\* The page has its login: nothing but its callbacks is under way, RUN still
\* holds its flow, and shows its login steps once it or the page says "done".
AfterLogin ==
    /\ page.phase \in {"awaiting_login", "done", "error"}
    /\ RUN.flow = page.flow /\ flow[page.url] = page.flow
    /\ tabs \subseteq {page.url}
    /\ \A t \in Threads : Working(t) =>
         /\ pc[t] \in CallingBack /\ issuedFor[t] = page.url
         /\ pc[t] \in {"secrets", "exchange", "finish"} => flow[t] = page.flow
    /\ FoundFor(page.flow)
    /\ OnlyShows(DiscoverySteps \cup LoginSteps(page.flow))
    /\ "done" \in {RUN.phase, poll, page.phase} => LoggedInFor(page.flow, page.url)

OneFlowAtATime == careful => IF page.url = None THEN BeforeLogin ELSE AfterLogin

\* The page of a user who did nothing yet.
LEMMA OneFlowInit == Init => OneFlowAtATime
BY DEF Init, OneFlowAtATime, BeforeLogin, Working, NewPage

\* Until the page has its login it has one request under way, and acts on its
\* answer alone.
LEMMA BeforeLoginStep ==
    TypeInv /\ LoginsSettled /\ careful /\ page.url = None /\ BeforeLogin /\ [Next]_vars
      => OneFlowAtATime'
<1> SUFFICES ASSUME TypeInv, LoginsSettled, careful, page.url = None, BeforeLogin, [Next]_vars
             PROVE  OneFlowAtATime'
  OBVIOUS
<1> USE BoundAssumption, NoneAssumption
    DEF TypeInv, TypeOK, threadVars, browserVars, Go, OneFlowAtATime, BeforeLogin, Working,
        Discovering, Authorizing
<1>1. ASSUME NEW t \in Threads, ClickDiscover(t) PROVE OneFlowAtATime'
  BY <1>1 DEF ClickDiscover, Send
<1>2. ASSUME NEW t \in Threads, ClickAuthorize(t) PROVE OneFlowAtATime'
  BY <1>2 DEF ClickAuthorize, Send, FoundFor, OnlyShows, Captures, DiscoverySteps, Steps
<1>3. CASE Restart
  BY <1>3 DEF Restart, Quiet, NewPage
<1>4. ASSUME NEW t \in Threads, Reset(t) PROVE OneFlowAtATime'
  BY <1>4 DEF Reset, Cleared, NewRun, NoCaptures, OnlyShows, Steps
<1>5. ASSUME NEW t \in Threads, Publish(t) PROVE OneFlowAtATime'
  BY <1>5 DEF Publish, Captured, FoundFor, OnlyShows, Captures, DiscoverySteps, Steps
<1>6. ASSUME NEW t \in Threads, Mint(t) PROVE OneFlowAtATime'
  BY <1>6 DEF Mint, Awaiting, FoundFor, OnlyShows, Captures, DiscoverySteps, Steps, Phases
<1>7. ASSUME NEW t \in Threads, Hear(t) PROVE OneFlowAtATime'
  <2> USE DEF FoundFor, OnlyShows, Captures, DiscoverySteps, Steps
  <2>1. \A u \in Threads : ~Working(u)'
    BY <1>7 DEF Hear
  <2>2. CASE pc[t] = "discovered"
    BY <1>7, <2>1, <2>2 DEF Hear
  <2>3. CASE pc[t] = "failed"
    BY <1>7, <2>1, <2>3 DEF Hear
  <2>4. CASE pc[t] = "authorized"
    <3>1. page.phase = "authorizing" /\ flow[t] = page.flow /\ FoundFor(page.flow)
      BY <2>4
    <3>2. page' = [page EXCEPT !.phase = "awaiting_login", !.url = t]
      BY <1>7, <2>4 DEF Hear
    <3>3. UNCHANGED <<RUN, flow, tabs, poll, careful>>
      BY <1>7 DEF Hear
    <3>4. FoundFor(page.flow)'
      BY <1>7, <2>4, <3>1, <3>2, <3>3 DEF Hear
    <3>5. OnlyShows(DiscoverySteps)'
      BY <2>4, <3>3
    <3>6. AfterLogin'
      BY <2>1, <2>4, <3>1, <3>2, <3>3, <3>4, <3>5 DEF AfterLogin
    <3>7. QED
      BY <3>2, <3>6
  <2>5. QED
    BY <1>7, <2>2, <2>3, <2>4 DEF Hear
<1>8. ASSUME NEW u \in Threads, NEW t \in Threads, Reload(u, t) PROVE FALSE
  BY <1>8 DEF Reload, LoginsSettled
<1>9. ASSUME NEW t \in Threads, Callback(t) PROVE FALSE
  BY <1>9 DEF Callback, Declined, Check, Reject, PickFlow, ReadSecrets, Exchange, Finish
<1>10. CASE OpenLogin \/ Polling
  BY <1>10 DEF OpenLogin, Polling, Ask, Status, HearStatus, Phases
<1>11. ASSUME NEW a \in Threads, CloseTab(a) \/ \E t \in Threads : TabReturns(a, t)
       PROVE  FALSE
  BY <1>11 DEF CloseTab, TabReturns
<1>12. CASE UNCHANGED vars
  BY <1>12 DEF vars, FoundFor, OnlyShows
<1>13. QED
  BY <1>1, <1>2, <1>3, <1>4, <1>5, <1>6, <1>7, <1>8, <1>9, <1>10, <1>11, <1>12
     DEF Next, User, Serve, Rest

\* Once the page has its login only that login comes back, and only to the flow
\* it was made for, until the user starts over with nothing left under way.
LEMMA AfterLoginStep ==
    TypeInv /\ LoginsSettled /\ careful /\ page.url # None /\ AfterLogin /\ [Next]_vars
      => OneFlowAtATime'
<1> SUFFICES ASSUME TypeInv, LoginsSettled, careful, page.url # None, AfterLogin, [Next]_vars
             PROVE  OneFlowAtATime'
  OBVIOUS
<1> USE BoundAssumption, NoneAssumption
    DEF TypeInv, TypeOK, threadVars, browserVars, Go, OneFlowAtATime, AfterLogin, Working,
        CallingBack
<1>1. ASSUME NEW t \in Threads, ClickDiscover(t) \/ ClickAuthorize(t) PROVE FALSE
  BY <1>1 DEF ClickDiscover, ClickAuthorize
<1>2. ASSUME NEW t \in Threads, Reset(t) \/ Publish(t) \/ Mint(t) \/ Hear(t) PROVE FALSE
  BY <1>2 DEF Reset, Publish, Mint, Hear
<1>3. CASE Restart
  BY <1>3 DEF Restart, Quiet, NewPage, BeforeLogin
<1>4. CASE OpenLogin
  BY <1>4 DEF OpenLogin, FoundFor, LoggedInFor, OnlyShows
<1>5. ASSUME NEW u \in Threads, CloseTab(u) PROVE OneFlowAtATime'
  BY <1>5 DEF CloseTab, FoundFor, LoggedInFor, OnlyShows
<1>6. CASE Polling
  <2>1. UNCHANGED <<RUN, threadVars, tabs, careful>>
    BY <1>6 DEF Polling, Ask, Status, HearStatus
  <2>2. page' \in {page, [page EXCEPT !.polling = FALSE, !.phase = poll]}
    BY <1>6 DEF Polling, Ask, Status, HearStatus, Told
  <2>3. page'.url = page.url /\ page'.flow = page.flow
    BY <2>2
  <2>4. page'.phase \in {"awaiting_login", "done", "error"}
    BY <1>6 DEF Polling, Ask, Status, HearStatus, Told
  <2>5. "done" \in {RUN'.phase, poll', page'.phase} => "done" \in {RUN.phase, poll, page.phase}
    BY <1>6 DEF Polling, Ask, Status, HearStatus, Told
  <2>6. QED
    BY <2>1, <2>3, <2>4, <2>5 DEF FoundFor, LoggedInFor, OnlyShows
<1>7. ASSUME NEW u \in Threads, NEW t \in Threads, TabReturns(u, t) PROVE OneFlowAtATime'
  BY <1>7 DEF TabReturns, Redirect, Send, FoundFor, LoggedInFor, OnlyShows, Captures,
       DiscoverySteps, LoginSteps, Steps
<1>8. ASSUME NEW u \in Threads, NEW t \in Threads, Reload(u, t) PROVE OneFlowAtATime'
  BY <1>8 DEF Reload, Redirect, Send, FoundFor, LoggedInFor, OnlyShows, Captures,
       DiscoverySteps, LoginSteps, Steps
<1>9. ASSUME NEW t \in Threads, Callback(t) PROVE OneFlowAtATime'
  <2> USE DEF FoundFor, LoggedInFor, OnlyShows, Captures, DiscoverySteps, LoginSteps, Steps
  <2>1. CASE Declined(t)
    BY <2>1 DEF Declined, Failing, Phases
  <2>2. CASE Check(t)
    BY <2>2 DEF Check
  <2>3. CASE Reject(t)
    BY <2>3 DEF Reject, Failing, Phases
  <2>4. CASE PickFlow(t)
    BY <2>4 DEF PickFlow, LoginsSettled, Settled
  <2>5. CASE ReadSecrets(t)
    BY <2>5 DEF ReadSecrets
  <2>6. CASE Exchange(t)
    BY <2>6 DEF Exchange
  <2>7. CASE Finish(t)
    BY <2>7, SMTT(30) DEF Finish, Done, Captured
  <2>8. QED
    BY <1>9, <2>1, <2>2, <2>3, <2>4, <2>5, <2>6, <2>7 DEF Callback
<1>10. CASE UNCHANGED vars
  BY <1>10 DEF vars, FoundFor, LoggedInFor, OnlyShows
<1>11. QED
  BY <1>1, <1>2, <1>3, <1>4, <1>5, <1>6, <1>7, <1>8, <1>9, <1>10
     DEF Next, User, Serve, Rest

\* A page that is done shows one conversation to a careful user, whatever fails
\* on the way and however often the login comes back.
THEOREM OneConversationHolds == Spec => []OneConversation
<1> DEFINE Inv == TypeInv /\ Coherent /\ OneFlowAtATime
<1>1. Init => Inv
  BY TypeInit, CoherentInit, OneFlowInit
<1>2. Inv /\ [Next]_vars => Inv'
  <2> SUFFICES ASSUME Inv, [Next]_vars PROVE Inv'
    OBVIOUS
  <2>1. (TypeInv /\ Coherent)'
    BY TypeOKStep, HoldsCodeStep, LoginsSettledStep, RunStep, CopiesStep DEF Coherent, TypeInv
  <2>2. OneFlowAtATime'
    <3>1. careful' = careful
      BY UserStays
    <3>2. CASE careful
      BY <3>2, BeforeLoginStep, AfterLoginStep DEF Coherent, OneFlowAtATime
    <3>3. QED
      BY <3>1, <3>2 DEF OneFlowAtATime
  <2>3. QED
    BY <2>1, <2>2
<1>3. Inv => OneConversation
  <2> SUFFICES ASSUME Inv, careful, page.phase = "done" PROVE OneConversation
    BY DEF OneConversation
  <2> DEFINE f == page.flow
             a == page.url
  <2>1. AfterLogin
    BY DEF OneFlowAtATime, BeforeLogin
  <2>2. /\ flow[a] = f /\ FoundFor(f) /\ LoggedInFor(f, a)
        /\ OnlyShows(DiscoverySteps \cup LoginSteps(f))
    BY <2>1 DEF AfterLogin
  <2>3. f \in Flows
    BY DEF TypeInv, TypeOK
  <2>4. ASSUME NEW n \in Steps
        PROVE  LET t == RUN.steps[n] IN
               CASE n \in DiscoverySteps -> t # None /\ flow[t] = f
                 [] n \in LoginSteps(f) -> t # None /\ flow[t] = f /\ issuedFor[t] = a
                 [] OTHER -> t = None
    BY <2>2, <2>4 DEF FoundFor, LoggedInFor, OnlyShows, DiscoverySteps, LoginSteps, Steps
  <2>5. QED
    BY <2>2, <2>4 DEF OneConversation
<1>4. QED
  BY <1>1, <1>2, <1>3, PTL DEF Spec
=============================================================================
