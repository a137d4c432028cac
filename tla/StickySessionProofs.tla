------------------------- MODULE StickySessionProofs -------------------------
(***************************************************************************)
(* Session stickiness of SandboxManager.  If calls of a Session exclude     *)
(* each other (a cluster lock that can be relied on, or a single replica)  *)
(* and Session windows outlast the calls made in them, a Session never has *)
(* two sandboxes, for every number of calls, replicas and Sessions.        *)
(***************************************************************************)
EXTENDS StickyRefinement, SandboxManagerProofs

\* No Session window (30 minutes) runs out under a call in progress.  Nothing in
\* the code bounds a bootstrap or a command, so this is an assumption; without
\* it a second sandbox beside a command still running is possible.
CallsFitWindow == "lateExpiry" \notin Faults

Live(s) == sbx[s] \in {"creating", "running", "deleting"}

\* The calls that read or wrote the routing key under the lock.
Bound == {"slide", "ensure", "purge", "return"} \cup (Setup \ {"bind"})

\* The routing key names the sandbox its calls work on: inside the lock
\* exactly, outside it (the command running) as long as the sandbox lives.
KeyNamesIt ==
    \A c \in Calls :
        /\ pc[c] \in Bound => fwd[KeyOf[c]] = cur[c]
        /\ pc[c] = "purge" => sbx[cur[c]] = "deleted"
        /\ pc[c] = "raise" /\ cur[c] # NoSandbox => fwd[KeyOf[c]] \in {cur[c], NoSandbox}
        /\ pc[c] = "exec" /\ Live(cur[c]) => fwd[KeyOf[c]] = cur[c]

\* The sandbox a call is creating or setting up is in no other call's hands.
NewIsOwn ==
    \A c, d \in Calls :
        /\ pc[c] \in (Creating \ {"prepare"}) \cup Setup
        /\ pc[d] \in Active
        /\ c # d
        => cur[c] # cur[d]

\* What a call works on when it will use the sandbox, or route calls to it.
Using == {"slide", "ensure", "provision", "policy", "bind", "index", "check",
          "bootstrap", "mark", "return", "exec"}

\* A sandbox that ARM was asked to delete is out of the hands of the calls.
Undisturbed ==
    \A s \in Sandboxes : sbx[s] = "deleting" =>
        /\ \A k \in Keys : fwd[k] # s
        /\ \A c \in Calls : cur[c] = s => pc[c] \notin Using

\* There is no sandbox at first.
LEMMA UndisturbedInit == Init => Undisturbed
BY DEF Init, Undisturbed

\* No call gets back to such a sandbox: only its key could have led there.
LEMMA UndisturbedStep == TypeInv /\ Undisturbed /\ [Next]_vars => Undisturbed'
<1> SUFFICES ASSUME TypeInv, Undisturbed, [Next]_vars PROVE Undisturbed'
  OBVIOUS
<1> USE RoutingAssumption, SentinelAssumption
    DEF TypeInv, TypeOK, HoldsSandbox, Holding, Setup, Using, Undisturbed, callVars, redisVars,
        cloudVars, Goto
<1>1. ASSUME NEW c \in Calls, Arrive(c) PROVE Undisturbed'
  BY <1>1 DEF Arrive
<1>2. ASSUME NEW c \in Calls, TakeLock(c) PROVE Undisturbed'
  BY <1>2 DEF TakeLock, AfterLocalLock
<1>3. ASSUME NEW c \in Calls, TakeDlock(c) PROVE Undisturbed'
  BY <1>3 DEF TakeDlock
<1>4. ASSUME NEW c \in Calls, DlockTimesOut(c) PROVE Undisturbed'
  BY <1>4 DEF DlockTimesOut
<1>5. ASSUME NEW c \in Calls, DlockErrs(c) PROVE Undisturbed'
  BY <1>5 DEF DlockErrs
<1>6. ASSUME NEW c \in Calls, Leave(c) PROVE Undisturbed'
  BY <1>6 DEF Leave
<1>7. ASSUME NEW c \in Calls, LookUp(c) PROVE Undisturbed'
  BY <1>7 DEF LookUp, SessionKey
<1>8. ASSUME NEW c \in Calls, Slide(c) PROVE Undisturbed'
  BY <1>8 DEF Slide, SessionKey, KeySet, Written
<1>9. ASSUME NEW c \in Calls, Ensure(c) PROVE Undisturbed'
  BY <1>9 DEF Ensure
<1>10. ASSUME NEW c \in Calls, Purge(c) PROVE Undisturbed'
  BY <1>10 DEF Purge, SessionKey, KeyCleared, Written
<1>11. ASSUME NEW c \in Calls, Prepare(c) PROVE Undisturbed'
  BY <1>11 DEF Prepare
<1>12. ASSUME NEW c \in Calls, Provision(c) PROVE Undisturbed'
  BY <1>12 DEF Provision, Unobtained
<1>13. ASSUME NEW c \in Calls, SetPolicy(c) PROVE Undisturbed'
  BY <1>13 DEF SetPolicy
<1>14. ASSUME NEW c \in Calls, CreateTimesOut(c) PROVE Undisturbed'
  BY <1>14 DEF CreateTimesOut, Unobtained
<1>15. ASSUME NEW c \in Calls, Bind(c) PROVE Undisturbed'
  BY <1>15 DEF Bind, SessionKey, KeySet, Written
<1>16. ASSUME NEW c \in Calls, Index(c) PROVE Undisturbed'
  BY <1>16 DEF Index
<1>17. ASSUME NEW c \in Calls, Check(c) PROVE Undisturbed'
  BY <1>17 DEF Check
<1>18. ASSUME NEW c \in Calls, Bootstrap(c) PROVE Undisturbed'
  BY <1>18 DEF Bootstrap
<1>19. ASSUME NEW c \in Calls, Mark(c) PROVE Undisturbed'
  BY <1>19 DEF Mark
<1>20. ASSUME NEW c \in Calls, Rollback(c) PROVE Undisturbed'
  BY <1>20 DEF Rollback, SessionKey, KeyCleared, Written
<1>21. ASSUME NEW c \in Calls, Exec(c) PROVE Undisturbed'
  BY <1>21 DEF Exec
<1>22. ASSUME NEW c \in Calls, Cancel(c) PROVE Undisturbed'
  BY <1>22 DEF Cancel
<1>23. ASSUME NEW r \in Replicas, Crash(r) PROVE Undisturbed'
  BY <1>23 DEF Crash, Killed, ServedBy
<1>24. ASSUME NEW s \in Sandboxes, CloudCreates(s) PROVE Undisturbed'
  BY <1>24 DEF CloudCreates
<1>25. ASSUME NEW s \in Sandboxes, Vanish(s) PROVE Undisturbed'
  BY <1>25 DEF Vanish
<1>26. ASSUME NEW k \in Keys, ExpireKey(k) PROVE Undisturbed'
  BY <1>26 DEF ExpireKey
<1>27. ASSUME NEW k \in Keys, ExpireDlock(k) PROVE Undisturbed'
  BY <1>27 DEF ExpireDlock
<1>28. CASE UNCHANGED vars
  BY <1>28 DEF vars
<1>29. QED
  BY <1>1, <1>2, <1>3, <1>4, <1>5, <1>6, <1>7, <1>8, <1>9, <1>10, <1>11,
     <1>12, <1>13, <1>14, <1>15, <1>16, <1>17, <1>18, <1>19, <1>20, <1>21,
     <1>22, <1>23, <1>24, <1>25, <1>26, <1>27, <1>28
     DEF Next, Serve, Locking, AwaitDlock, Reusing, CreatingStep, SettingUp, Environment, AllEnded

\* Everything proved so far that the steps below rest on.
Base == TypeInv /\ OwnSandbox /\ Locked /\ Alone /\ KeyAsRead

\* It holds throughout, with calls of a Session that exclude each other.
LEMMA BaseHolds ==
    /\ Init => Base
    /\ ReliableLock /\ Base /\ [Next]_vars => Base'
<1>1. Init => Base
  BY TypeInit, OwnInit, LockedInit, KeyAsReadInit
     DEF Base, Alone, InLock, Init, Inside, Creating, Setup
<1>2. ASSUME ReliableLock, Base, [Next]_vars PROVE Base'
  <2>1. TypeInv' /\ OwnSandbox' /\ Locked' /\ KeyAsRead'
    BY <1>2, TypeStep, OwnStep, LockedStep, KeyAsReadStep DEF Base
  <2>2. ClusterLock /\ HoldsDlock' => Alone'
    BY DEF HoldsDlock, Alone
  <2>3. OneReplica /\ HoldsLocalLock' => Alone'
    BY DEF OneReplica, HoldsLocalLock, LocalLock, Alone, InLock, Critical
  <2>4. QED
    BY <1>2, <2>1, <2>2, <2>3 DEF ReliableLock, Base, Locked
<1>3. QED
  BY <1>1, <1>2

\* No key names anything yet.
LEMMA KeyNamesItInit == Init => KeyNamesIt
BY DEF Init, KeyNamesIt, Bound, Setup

\* A key is written, and cleared, only by the call inside its lock, and
\* expires only when no call of the Session is in progress.
LEMMA KeyNamesItStep ==
    /\ ReliableLock /\ CallsFitWindow
    /\ Base /\ NewIsOwn /\ Undisturbed /\ KeyNamesIt /\ [Next]_vars
    => KeyNamesIt'
<1> SUFFICES ASSUME ReliableLock, CallsFitWindow, Base, NewIsOwn, Undisturbed, KeyNamesIt,
                    [Next]_vars
             PROVE  KeyNamesIt'
  OBVIOUS
<1> USE RoutingAssumption, SentinelAssumption
    DEF ReliableLock, CallsFitWindow, TypeInv, TypeOK, Base, Locked, NoneYet, Alone, InLock,
        KeyNamesIt, Live, Bound, callVars, redisVars, cloudVars, Critical, Inside, Creating, Setup, Goto, Fault
<1>1. ASSUME NEW c \in Calls, Arrive(c) PROVE KeyNamesIt'
  BY <1>1 DEF Arrive
<1>2. ASSUME NEW c \in Calls, TakeLock(c) PROVE KeyNamesIt'
  BY <1>2 DEF TakeLock, AfterLocalLock
<1>3. ASSUME NEW c \in Calls, TakeDlock(c) PROVE KeyNamesIt'
  BY <1>3 DEF TakeDlock
<1>4. ASSUME NEW c \in Calls, DlockTimesOut(c) PROVE KeyNamesIt'
  BY <1>4 DEF DlockTimesOut
<1>5. ASSUME NEW c \in Calls, DlockErrs(c) PROVE KeyNamesIt'
  BY <1>5 DEF DlockErrs
<1>6. ASSUME NEW c \in Calls, Leave(c) PROVE KeyNamesIt'
  BY <1>6 DEF Leave
<1>7. ASSUME NEW c \in Calls, LookUp(c) PROVE KeyNamesIt'
  <2>1. CASE Goto(c, "lookup", "slide") /\ cur' = [cur EXCEPT ![c] = fwd[KeyOf[c]]]
    BY <1>7, <2>1 DEF LookUp
  <2>2. CASE Goto(c, "lookup", "prepare") /\ UNCHANGED cur
    BY <1>7, <2>2 DEF LookUp
  <2>3. QED
    BY <1>7, <2>1, <2>2 DEF LookUp, SessionKey
<1>8. ASSUME NEW c \in Calls, Slide(c) PROVE KeyNamesIt'
  BY <1>8 DEF Slide, Written, SessionKey, KeySet
<1>9. ASSUME NEW c \in Calls, Ensure(c) PROVE KeyNamesIt'
  BY <1>9 DEF Ensure, Gone, HoldsSandbox, Holding, Undisturbed, Using
<1>10. ASSUME NEW c \in Calls, Purge(c) PROVE KeyNamesIt'
  BY <1>10 DEF Purge, Written, SessionKey, KeyCleared
<1>11. ASSUME NEW c \in Calls, Prepare(c) PROVE KeyNamesIt'
  BY <1>11 DEF Prepare, KeyAsRead, OwnSandbox, HoldsSandbox, Holding
<1>12. ASSUME NEW c \in Calls, Provision(c) PROVE KeyNamesIt'
  BY <1>12 DEF Provision, Unobtained, KeyAsRead, HoldsSandbox, Holding
<1>13. ASSUME NEW c \in Calls, SetPolicy(c) PROVE KeyNamesIt'
  BY <1>13 DEF SetPolicy
<1>14. ASSUME NEW c \in Calls, CreateTimesOut(c) PROVE KeyNamesIt'
  BY <1>14 DEF CreateTimesOut, Unobtained, KeyAsRead
<1>15. ASSUME NEW c \in Calls, Bind(c) PROVE KeyNamesIt'
  BY <1>15 DEF Bind, Written, SessionKey, KeySet, KeyAsRead, HoldsSandbox, Holding
<1>16. ASSUME NEW c \in Calls, Index(c) PROVE KeyNamesIt'
  BY <1>16 DEF Index, Written
<1>17. ASSUME NEW c \in Calls, Check(c) PROVE KeyNamesIt'
  BY <1>17 DEF Check
<1>18. ASSUME NEW c \in Calls, Bootstrap(c) PROVE KeyNamesIt'
  BY <1>18 DEF Bootstrap
<1>19. ASSUME NEW c \in Calls, Mark(c) PROVE KeyNamesIt'
  BY <1>19 DEF Mark, Written
<1>20. ASSUME NEW c \in Calls, Rollback(c) PROVE KeyNamesIt'
  BY <1>20 DEF Rollback, Written, SessionKey, KeyCleared, NewIsOwn, Active
<1>21. ASSUME NEW c \in Calls, Exec(c) PROVE KeyNamesIt'
  BY <1>21 DEF Exec
<1>22. ASSUME NEW c \in Calls, Cancel(c) PROVE KeyNamesIt'
  BY <1>22 DEF Cancel, KeyAsRead
<1>23. ASSUME NEW r \in Replicas, Crash(r) PROVE KeyNamesIt'
  BY <1>23 DEF Crash, Killed, ServedBy, Active
<1>24. ASSUME NEW s \in Sandboxes, CloudCreates(s) PROVE KeyNamesIt'
  BY <1>24 DEF CloudCreates
<1>25. ASSUME NEW s \in Sandboxes, Vanish(s) PROVE KeyNamesIt'
  BY <1>25 DEF Vanish
<1>26. ASSUME NEW k \in Keys, ExpireKey(k) PROVE KeyNamesIt'
  BY <1>26 DEF ExpireKey, Active
<1>27. ASSUME NEW k \in Keys, ExpireDlock(k) PROVE KeyNamesIt'
  BY <1>27 DEF ExpireDlock
<1>28. CASE UNCHANGED vars
  BY <1>28 DEF vars
<1>29. QED
  BY <1>1, <1>2, <1>3, <1>4, <1>5, <1>6, <1>7, <1>8, <1>9, <1>10, <1>11,
     <1>12, <1>13, <1>14, <1>15, <1>16, <1>17, <1>18, <1>19, <1>20, <1>21,
     <1>22, <1>23, <1>24, <1>25, <1>26, <1>27, <1>28
     DEF Next, Serve, Locking, AwaitDlock, Reusing, CreatingStep, SettingUp, Environment, AllEnded

\* No call is creating anything yet.
LEMMA NewIsOwnInit == Init => NewIsOwn
BY DEF Init, NewIsOwn, Creating, Setup

\* A call gets a sandbox from ARM, which hands out none twice, or from its key,
\* which no call inside the lock has bound.
LEMMA NewIsOwnStep ==
    ReliableLock /\ Base /\ NewIsOwn /\ [Next]_vars => NewIsOwn'
<1> SUFFICES ASSUME ReliableLock, Base, NewIsOwn, [Next]_vars PROVE NewIsOwn'
  OBVIOUS
<1> USE RoutingAssumption, SentinelAssumption
    DEF ReliableLock, TypeInv, TypeOK, Base, Locked, NoneYet, Alone, InLock, NewIsOwn, Active,
        callVars, redisVars, cloudVars, Critical, Inside, Creating, Setup, Goto, Fault
<1>1. ASSUME NEW c \in Calls, Arrive(c) PROVE NewIsOwn'
  BY <1>1 DEF Arrive, HoldsSandbox, Holding
<1>2. ASSUME NEW c \in Calls, TakeLock(c) PROVE NewIsOwn'
  BY <1>2 DEF TakeLock, AfterLocalLock
<1>3. ASSUME NEW c \in Calls, TakeDlock(c) PROVE NewIsOwn'
  BY <1>3 DEF TakeDlock
<1>4. ASSUME NEW c \in Calls, DlockTimesOut(c) PROVE NewIsOwn'
  BY <1>4 DEF DlockTimesOut
<1>5. ASSUME NEW c \in Calls, DlockErrs(c) PROVE NewIsOwn'
  BY <1>5 DEF DlockErrs
<1>6. ASSUME NEW c \in Calls, Leave(c) PROVE NewIsOwn'
  BY <1>6 DEF Leave
<1>7. ASSUME NEW c \in Calls, LookUp(c) PROVE NewIsOwn'
  BY <1>7, SMTT(30) DEF LookUp, SessionKey, OwnSandbox
<1>8. ASSUME NEW c \in Calls, Slide(c) PROVE NewIsOwn'
  BY <1>8 DEF Slide, HoldsSandbox, Holding
<1>9. ASSUME NEW c \in Calls, Ensure(c) PROVE NewIsOwn'
  BY <1>9 DEF Ensure
<1>10. ASSUME NEW c \in Calls, Purge(c) PROVE NewIsOwn'
  BY <1>10 DEF Purge, HoldsSandbox, Holding
<1>11. ASSUME NEW c \in Calls, Prepare(c) PROVE NewIsOwn'
  <2>1. ASSUME NEW s \in Sandboxes, sbx[s] = "none", Goto(c, "prepare", "provision"),
               cur' = [cur EXCEPT ![c] = s]
        PROVE  NewIsOwn'
    <3>1. \A d \in Calls : cur[d] # s
      BY <2>1 DEF OwnSandbox
    <3>2. QED
      BY <2>1, <3>1
  <2>2. CASE Goto(c, "prepare", "raise") /\ UNCHANGED cur
    BY <2>2
  <2>3. QED
    BY <1>11, <2>1, <2>2 DEF Prepare
<1>12. ASSUME NEW c \in Calls, Provision(c) PROVE NewIsOwn'
  BY <1>12 DEF Provision, Unobtained, HoldsSandbox, Holding
<1>13. ASSUME NEW c \in Calls, SetPolicy(c) PROVE NewIsOwn'
  BY <1>13 DEF SetPolicy
<1>14. ASSUME NEW c \in Calls, CreateTimesOut(c) PROVE NewIsOwn'
  BY <1>14 DEF CreateTimesOut, Unobtained, HoldsSandbox, Holding
<1>15. ASSUME NEW c \in Calls, Bind(c) PROVE NewIsOwn'
  BY <1>15 DEF Bind
<1>16. ASSUME NEW c \in Calls, Index(c) PROVE NewIsOwn'
  BY <1>16 DEF Index
<1>17. ASSUME NEW c \in Calls, Check(c) PROVE NewIsOwn'
  BY <1>17 DEF Check
<1>18. ASSUME NEW c \in Calls, Bootstrap(c) PROVE NewIsOwn'
  BY <1>18 DEF Bootstrap
<1>19. ASSUME NEW c \in Calls, Mark(c) PROVE NewIsOwn'
  BY <1>19 DEF Mark
<1>20. ASSUME NEW c \in Calls, Rollback(c) PROVE NewIsOwn'
  BY <1>20 DEF Rollback
<1>21. ASSUME NEW c \in Calls, Exec(c) PROVE NewIsOwn'
  BY <1>21 DEF Exec
<1>22. ASSUME NEW c \in Calls, Cancel(c) PROVE NewIsOwn'
  BY <1>22 DEF Cancel
<1>23. ASSUME NEW r \in Replicas, Crash(r) PROVE NewIsOwn'
  BY <1>23 DEF Crash, Killed, ServedBy
<1>24. ASSUME NEW s \in Sandboxes, CloudCreates(s) PROVE NewIsOwn'
  BY <1>24 DEF CloudCreates
<1>25. ASSUME NEW s \in Sandboxes, Vanish(s) PROVE NewIsOwn'
  BY <1>25 DEF Vanish
<1>26. ASSUME NEW k \in Keys, ExpireKey(k) PROVE NewIsOwn'
  BY <1>26 DEF ExpireKey
<1>27. ASSUME NEW k \in Keys, ExpireDlock(k) PROVE NewIsOwn'
  BY <1>27 DEF ExpireDlock
<1>28. CASE UNCHANGED vars
  BY <1>28 DEF vars
<1>29. QED
  BY <1>1, <1>2, <1>3, <1>4, <1>5, <1>6, <1>7, <1>8, <1>9, <1>10, <1>11,
     <1>12, <1>13, <1>14, <1>15, <1>16, <1>17, <1>18, <1>19, <1>20, <1>21,
     <1>22, <1>23, <1>24, <1>25, <1>26, <1>27, <1>28
     DEF Next, Serve, Locking, AwaitDlock, Reusing, CreatingStep, SettingUp, Environment, AllEnded

\* What is bound, used and locked fits together in one sandbox per Session.
LEMMA OneSandbox == Base /\ KeyNamesIt => OneSandboxPerSession
<1> SUFFICES ASSUME Base, KeyNamesIt,
                    NEW s \in Sandboxes, NEW t \in Sandboxes,
                    Serving(s), Serving(t), label[s] = label[t]
             PROVE  s = t
  BY DEF OneSandboxPerSession
<1> DEFINE k == label[s]
<1> USE RoutingAssumption, SentinelAssumption DEF Base, TypeInv, TypeOK
\* A serving sandbox is named by its key, or its key names nothing and a call
\* that holds the lock works on it.
<1>1. ASSUME NEW u \in Sandboxes, Serving(u)
      PROVE  \/ fwd[label[u]] = u
             \/ /\ fwd[label[u]] = NoSandbox
                /\ \E c \in Calls : cur[c] = u /\ KeyOf[c] = label[u] /\ InLock(c)
  <2>1. CASE \E l \in Keys : fwd[l] = u
    BY <2>1 DEF OwnSandbox
  <2>2. CASE InUse(u)
    <3>1. PICK c \in Calls : cur[c] = u /\ pc[c] \in Active
      BY <2>2 DEF InUse
    <3>2. KeyOf[c] = label[u] /\ Live(u)
      BY <1>1, <3>1 DEF OwnSandbox, Serving, Live
    <3>3. CASE pc[c] \in Bound \cup {"exec"}
      BY <3>1, <3>2, <3>3 DEF KeyNamesIt
    <3>4. CASE pc[c] \in (Creating \ {"prepare"}) \cup {"bind"}
      BY <3>1, <3>2, <3>4 DEF KeyAsRead, InLock, Inside, Setup
    <3>5. CASE pc[c] = "raise"
      BY <3>1, <3>2, <3>5 DEF KeyNamesIt, InLock
    <3>6. CASE pc[c] \in {"lock", "dlock", "lookup", "prepare"}
      BY <3>1, <3>6 DEF Locked, NoneYet
    <3>7. QED
      BY <3>1, <3>3, <3>4, <3>5, <3>6 DEF Active, Critical, Inside, Bound, Creating, Setup
  <2>3. QED
    BY <1>1, <2>1, <2>2 DEF Serving
<1>2. QED
  BY <1>1 DEF Alone

\* Session stickiness: a Session never has two sandboxes to run commands in.
THEOREM OneSandboxHolds ==
    ReliableLock /\ CallsFitWindow => (Spec => []OneSandboxPerSession)
<1>1. SUFFICES ASSUME ReliableLock, CallsFitWindow PROVE Spec => []OneSandboxPerSession
  OBVIOUS
<1>2. Init => Base /\ NewIsOwn /\ Undisturbed /\ KeyNamesIt
  BY BaseHolds, NewIsOwnInit, UndisturbedInit, KeyNamesItInit
<1>3. Base /\ [Next]_vars => Base'
  BY <1>1, BaseHolds
<1>4. Base /\ NewIsOwn /\ [Next]_vars => NewIsOwn'
  BY <1>1, NewIsOwnStep
<1>5. Base /\ NewIsOwn /\ Undisturbed /\ KeyNamesIt /\ [Next]_vars => (Undisturbed /\ KeyNamesIt)'
  BY <1>1, UndisturbedStep, KeyNamesItStep DEF Base
<1>6. Base /\ KeyNamesIt => OneSandboxPerSession
  BY OneSandbox
<1>7. QED
  BY <1>2, <1>3, <1>4, <1>5, <1>6, PTL DEF Spec

-----------------------------------------------------------------------------
\* No call is torn out of get_or_create between binding its sandbox and setting
\* it up: then nothing rolls the binding back (see the run "cancelled").
NothingTornOut == "cancel" \notin Faults /\ "crash" \notin Faults

\* Calls return, and flags mark, only sandboxes in which bootstrap.sh succeeded.
CallsReady ==
    /\ flag \subseteq ready
    /\ \A c \in Calls :
         pc[c] \in {"slide", "ensure", "mark", "return", "exec"} => cur[c] \in ready

\* A call has bound its sandbox to k and not finished setting it up.
InSetup(k) == \E c \in Calls :
    /\ KeyOf[c] = k /\ cur[c] = fwd[k]
    /\ pc[c] \in {"index", "check", "bootstrap", "rollback"}

\* A key names a sandbox that is ready or still being set up.
KeysReady == \A k \in Keys : fwd[k] = NoSandbox \/ fwd[k] \in ready \/ InSetup(k)

\* Nothing is bound at first.
LEMMA ReadyInit == Init => CallsReady /\ KeysReady
BY DEF Init, CallsReady, KeysReady

\* The lookup of a key waits for the call that bound it, so it finds a sandbox
\* that is ready.
LEMMA CallsReadyStep ==
    ReliableLock /\ NothingTornOut /\ Base /\ CallsReady /\ KeysReady /\ [Next]_vars
      => CallsReady'
<1> SUFFICES ASSUME ReliableLock, NothingTornOut, Base, CallsReady, KeysReady,
                    [Next]_vars
             PROVE  CallsReady'
  OBVIOUS
<1> USE RoutingAssumption, SentinelAssumption
    DEF ReliableLock, NothingTornOut, TypeInv, TypeOK, Alone, InLock, Base, CallsReady,
        callVars, redisVars, cloudVars, Inside, Creating, Setup, Goto, Fault
<1>1. ASSUME NEW c \in Calls, Arrive(c) PROVE CallsReady'
  BY <1>1 DEF Arrive
<1>2. ASSUME NEW c \in Calls, TakeLock(c) PROVE CallsReady'
  BY <1>2 DEF TakeLock, AfterLocalLock
<1>3. ASSUME NEW c \in Calls, TakeDlock(c) PROVE CallsReady'
  BY <1>3 DEF TakeDlock
<1>4. ASSUME NEW c \in Calls, DlockTimesOut(c) PROVE CallsReady'
  BY <1>4 DEF DlockTimesOut
<1>5. ASSUME NEW c \in Calls, DlockErrs(c) PROVE CallsReady'
  BY <1>5 DEF DlockErrs
<1>6. ASSUME NEW c \in Calls, Leave(c) PROVE CallsReady'
  BY <1>6 DEF Leave
<1>7. ASSUME NEW c \in Calls, LookUp(c) PROVE CallsReady'
  <2>1. CASE fwd[KeyOf[c]] # NoSandbox /\ cur' = [cur EXCEPT ![c] = fwd[KeyOf[c]]]
    <3>1. ~InSetup(KeyOf[c])
      BY <1>7 DEF LookUp, InSetup
    <3>2. fwd[KeyOf[c]] \in ready
      BY <2>1, <3>1 DEF KeysReady
    <3>3. QED
      BY <1>7, <2>1, <3>2 DEF LookUp
  <2>2. CASE Goto(c, "lookup", "prepare") /\ UNCHANGED cur
    BY <1>7, <2>2 DEF LookUp
  <2>3. QED
    BY <1>7, <2>1, <2>2 DEF LookUp, SessionKey
<1>8. ASSUME NEW c \in Calls, Slide(c) PROVE CallsReady'
  BY <1>8 DEF Slide
<1>9. ASSUME NEW c \in Calls, Ensure(c) PROVE CallsReady'
  BY <1>9 DEF Ensure
<1>10. ASSUME NEW c \in Calls, Purge(c) PROVE CallsReady'
  BY <1>10 DEF Purge
<1>11. ASSUME NEW c \in Calls, Prepare(c) PROVE CallsReady'
  BY <1>11 DEF Prepare
<1>12. ASSUME NEW c \in Calls, Provision(c) PROVE CallsReady'
  BY <1>12 DEF Provision, Unobtained
<1>13. ASSUME NEW c \in Calls, SetPolicy(c) PROVE CallsReady'
  BY <1>13 DEF SetPolicy
<1>14. ASSUME NEW c \in Calls, CreateTimesOut(c) PROVE CallsReady'
  BY <1>14 DEF CreateTimesOut, Unobtained
<1>15. ASSUME NEW c \in Calls, Bind(c) PROVE CallsReady'
  BY <1>15 DEF Bind
<1>16. ASSUME NEW c \in Calls, Index(c) PROVE CallsReady'
  BY <1>16 DEF Index
<1>17. ASSUME NEW c \in Calls, Check(c) PROVE CallsReady'
  BY <1>17 DEF Check
<1>18. ASSUME NEW c \in Calls, Bootstrap(c) PROVE CallsReady'
  BY <1>18 DEF Bootstrap
<1>19. ASSUME NEW c \in Calls, Mark(c) PROVE CallsReady'
  BY <1>19 DEF Mark, Written
<1>20. ASSUME NEW c \in Calls, Rollback(c) PROVE CallsReady'
  BY <1>20 DEF Rollback
<1>21. ASSUME NEW c \in Calls, Exec(c) PROVE CallsReady'
  BY <1>21 DEF Exec
<1>22. ASSUME NEW c \in Calls, Cancel(c) PROVE CallsReady'
  BY <1>22 DEF Cancel
<1>23. ASSUME NEW r \in Replicas, Crash(r) PROVE CallsReady'
  BY <1>23 DEF Crash
<1>24. ASSUME NEW s \in Sandboxes, CloudCreates(s) PROVE CallsReady'
  BY <1>24 DEF CloudCreates
<1>25. ASSUME NEW s \in Sandboxes, Vanish(s) PROVE CallsReady'
  BY <1>25 DEF Vanish
<1>26. ASSUME NEW k \in Keys, ExpireKey(k) PROVE CallsReady'
  BY <1>26 DEF ExpireKey
<1>27. ASSUME NEW k \in Keys, ExpireDlock(k) PROVE CallsReady'
  BY <1>27 DEF ExpireDlock
<1>28. CASE UNCHANGED vars
  BY <1>28 DEF vars
<1>29. QED
  BY <1>1, <1>2, <1>3, <1>4, <1>5, <1>6, <1>7, <1>8, <1>9, <1>10, <1>11,
     <1>12, <1>13, <1>14, <1>15, <1>16, <1>17, <1>18, <1>19, <1>20, <1>21,
     <1>22, <1>23, <1>24, <1>25, <1>26, <1>27, <1>28
     DEF Next, Serve, Locking, AwaitDlock, Reusing, CreatingStep, SettingUp, Environment, AllEnded

\* What another call does, to its own key, changes nothing of InSetup(k).
LEMMA OthersKeepReady ==
    ASSUME TypeInv, KeysReady, NEW c \in Calls, ready \subseteq ready',
           \A d \in Calls \ {c} : pc'[d] = pc[d] /\ cur'[d] = cur[d],
           \A k \in Keys \ {KeyOf[c]} : fwd'[k] = fwd[k],
           \/ fwd'[KeyOf[c]] = NoSandbox \/ fwd'[KeyOf[c]] \in ready' \/ InSetup(KeyOf[c])'
    PROVE  KeysReady'
<1>1. SUFFICES ASSUME NEW k \in Keys
               PROVE  fwd'[k] = NoSandbox \/ fwd'[k] \in ready' \/ InSetup(k)'
  BY DEF KeysReady
<1>2. CASE k = KeyOf[c]
  BY <1>2
<1>3. CASE k # KeyOf[c]
  BY <1>3 DEF KeysReady, InSetup
<1>4. QED
  BY <1>2, <1>3

\* A call bootstraps its sandbox or rolls back before it leaves the lock.
LEMMA KeysReadyStep ==
    ReliableLock /\ NothingTornOut /\ Base /\ CallsReady /\ KeysReady /\ [Next]_vars
      => KeysReady'
<1> SUFFICES ASSUME ReliableLock, NothingTornOut, Base, CallsReady, KeysReady,
                    [Next]_vars
             PROVE  KeysReady'
  OBVIOUS
<1> USE RoutingAssumption, SentinelAssumption
    DEF ReliableLock, NothingTornOut, TypeInv, TypeOK, Alone, InLock, Base,
        callVars, redisVars, cloudVars, Inside, Creating, Setup, Goto, Fault
<1>1. ASSUME NEW c \in Calls, Arrive(c) PROVE KeysReady'
  BY <1>1, OthersKeepReady DEF Arrive, KeysReady, InSetup
<1>2. ASSUME NEW c \in Calls, TakeLock(c) PROVE KeysReady'
  BY <1>2, OthersKeepReady DEF TakeLock, KeysReady, InSetup, AfterLocalLock
<1>3. ASSUME NEW c \in Calls, TakeDlock(c) PROVE KeysReady'
  BY <1>3 DEF TakeDlock, KeysReady, InSetup
<1>4. ASSUME NEW c \in Calls, DlockTimesOut(c) PROVE KeysReady'
  BY <1>4 DEF DlockTimesOut, KeysReady, InSetup
<1>5. ASSUME NEW c \in Calls, DlockErrs(c) PROVE KeysReady'
  BY <1>5 DEF DlockErrs, KeysReady, InSetup
<1>6. ASSUME NEW c \in Calls, Leave(c) PROVE KeysReady'
  <2>1. ASSUME NEW k \in Keys, InSetup(k) PROVE InSetup(k)'
    BY <1>6, <2>1 DEF Leave, InSetup
  <2>2. QED
    BY <1>6, <2>1 DEF Leave, KeysReady
<1>7. ASSUME NEW c \in Calls, LookUp(c) PROVE KeysReady'
  BY <1>7, OthersKeepReady DEF LookUp, KeysReady, InSetup, SessionKey
<1>8. ASSUME NEW c \in Calls, Slide(c) PROVE KeysReady'
  BY <1>8, OthersKeepReady DEF Slide, KeysReady, InSetup, SessionKey, KeySet, Written, CallsReady
<1>9. ASSUME NEW c \in Calls, Ensure(c) PROVE KeysReady'
  <2>1. ~InSetup(KeyOf[c])
    BY <1>9 DEF Ensure, InSetup
  <2>2. fwd'[KeyOf[c]] = NoSandbox \/ fwd'[KeyOf[c]] \in ready' \/ InSetup(KeyOf[c])'
    BY <1>9, <2>1 DEF Ensure, KeysReady, InSetup, CallsReady
  <2>3. QED
    BY <1>9, <2>2, OthersKeepReady DEF Ensure
<1>10. ASSUME NEW c \in Calls, Purge(c) PROVE KeysReady'
  BY <1>10, OthersKeepReady DEF Purge, KeysReady, InSetup, SessionKey, KeyCleared, Written
<1>11. ASSUME NEW c \in Calls, Prepare(c) PROVE KeysReady'
  BY <1>11, OthersKeepReady DEF Prepare, KeysReady, InSetup
<1>12. ASSUME NEW c \in Calls, Provision(c) PROVE KeysReady'
  BY <1>12, OthersKeepReady DEF Provision, Unobtained, KeyAsRead
<1>13. ASSUME NEW c \in Calls, SetPolicy(c) PROVE KeysReady'
  BY <1>13, OthersKeepReady DEF SetPolicy, KeysReady, InSetup
<1>14. ASSUME NEW c \in Calls, CreateTimesOut(c) PROVE KeysReady'
  BY <1>14, OthersKeepReady DEF CreateTimesOut, Unobtained, KeysReady, InSetup
<1>15. ASSUME NEW c \in Calls, Bind(c) PROVE KeysReady'
  <2>1. KeyOf[c] \in Keys /\ fwd' = [fwd EXCEPT ![KeyOf[c]] = cur[c]]
    BY <1>15 DEF Bind, SessionKey, KeySet, Written
  <2>2. InSetup(KeyOf[c])'
    BY <1>15, <2>1 DEF Bind, InSetup
  <2>3. QED
    BY <1>15, <2>1, <2>2, OthersKeepReady DEF Bind
<1>16. ASSUME NEW c \in Calls, Index(c) PROVE KeysReady'
  BY <1>16, OthersKeepReady DEF Index, KeysReady, InSetup
<1>17. ASSUME NEW c \in Calls, Check(c) PROVE KeysReady'
  <2>1. KeyOf[c] \in Keys /\ InLock(c)
    BY <1>17 DEF Check
  <2>2. fwd[KeyOf[c]] \in {NoSandbox, cur[c]} \/ fwd[KeyOf[c]] \in ready
    BY <2>1 DEF KeysReady, InSetup
  <2>3. CASE pc' = [pc EXCEPT ![c] = "bootstrap"]
    <3>1. fwd'[KeyOf[c]] = cur[c] => InSetup(KeyOf[c])'
      BY <1>17, <2>1, <2>3 DEF Check, InSetup
    <3>2. QED
      BY <1>17, <2>2, <2>3, <3>1, OthersKeepReady DEF Check
  <2>4. CASE cur[c] \in flag /\ pc' = [pc EXCEPT ![c] = "return"]
    BY <1>17, <2>2, <2>4, OthersKeepReady DEF Check, CallsReady
  <2>5. QED
    BY <1>17, <2>3, <2>4 DEF Check
<1>18. ASSUME NEW c \in Calls, Bootstrap(c) PROVE KeysReady'
  <2>1. InSetup(KeyOf[c]) => cur[c] = fwd[KeyOf[c]]
    BY <1>18 DEF Bootstrap, InSetup
  <2>2. fwd'[KeyOf[c]] = NoSandbox \/ fwd'[KeyOf[c]] \in ready' \/ InSetup(KeyOf[c])'
    BY <1>18, <2>1 DEF Bootstrap, KeysReady, InSetup, CallsReady
  <2>3. QED
    BY <1>18, <2>2, OthersKeepReady DEF Bootstrap
<1>19. ASSUME NEW c \in Calls, Mark(c) PROVE KeysReady'
  BY <1>19, OthersKeepReady DEF Mark, KeysReady, InSetup, CallsReady
<1>20. ASSUME NEW c \in Calls, Rollback(c) PROVE KeysReady'
  BY <1>20, OthersKeepReady DEF Rollback, KeysReady, InSetup, SessionKey, KeyCleared, Written
<1>21. ASSUME NEW c \in Calls, Exec(c) PROVE KeysReady'
  BY <1>21, OthersKeepReady DEF Exec, KeysReady, InSetup
<1>22. ASSUME NEW c \in Calls, Cancel(c) PROVE KeysReady'
  BY <1>22 DEF Cancel, KeysReady, InSetup
<1>23. ASSUME NEW r \in Replicas, Crash(r) PROVE KeysReady'
  BY <1>23 DEF Crash, KeysReady, InSetup
<1>24. ASSUME NEW s \in Sandboxes, CloudCreates(s) PROVE KeysReady'
  BY <1>24 DEF CloudCreates, KeysReady, InSetup
<1>25. ASSUME NEW s \in Sandboxes, Vanish(s) PROVE KeysReady'
  BY <1>25 DEF Vanish, KeysReady, InSetup
<1>26. ASSUME NEW k \in Keys, ExpireKey(k) PROVE KeysReady'
  BY <1>26 DEF ExpireKey, KeysReady, InSetup
<1>27. ASSUME NEW k \in Keys, ExpireDlock(k) PROVE KeysReady'
  BY <1>27 DEF ExpireDlock, KeysReady, InSetup, Critical
<1>28. CASE UNCHANGED vars
  BY <1>28 DEF vars, KeysReady, InSetup
<1>29. QED
  BY <1>1, <1>2, <1>3, <1>4, <1>5, <1>6, <1>7, <1>8, <1>9, <1>10, <1>11,
     <1>12, <1>13, <1>14, <1>15, <1>16, <1>17, <1>18, <1>19, <1>20, <1>21,
     <1>22, <1>23, <1>24, <1>25, <1>26, <1>27, <1>28
     DEF Next, Serve, Locking, AwaitDlock, Reusing, CreatingStep, SettingUp, Environment, AllEnded

\* A client is handed over only once bootstrap.sh has succeeded in its sandbox, as
\* long as the lock is reliable and no call is cancelled or killed in between.
THEOREM ReturnsBootstrappedHolds ==
    ReliableLock /\ NothingTornOut => (Spec => []ReturnsBootstrapped)
<1>1. SUFFICES ASSUME ReliableLock, NothingTornOut PROVE Spec => []ReturnsBootstrapped
  OBVIOUS
<1>2. Init => Base /\ CallsReady /\ KeysReady
  BY BaseHolds, ReadyInit
<1>3. Base /\ CallsReady /\ KeysReady /\ [Next]_vars => (Base /\ CallsReady /\ KeysReady)'
  BY <1>1, BaseHolds, CallsReadyStep, KeysReadyStep
<1>4. CallsReady => ReturnsBootstrapped
  BY DEF CallsReady, ReturnsBootstrapped
<1>5. QED
  BY <1>2, <1>3, <1>4, PTL DEF Spec

-----------------------------------------------------------------------------
\* A sandbox is not marked as bootstrapped before a call has bootstrapped it.
Unflagged ==
    /\ \A s \in flag : sbx[s] # "none"
    /\ \A c \in Calls :
         pc[c] \in (Creating \ {"prepare"}) \cup {"bind", "index", "check", "bootstrap", "mark"}
           => cur[c] \notin flag

\* Nothing is marked at first.
LEMMA UnflaggedInit == Init => Unflagged
BY DEF Init, Unflagged, Creating

\* Mark marks the sandbox of the call that set it up, which no other call has.
LEMMA UnflaggedStep ==
    ReliableLock /\ Base /\ NewIsOwn /\ Unflagged /\ [Next]_vars => Unflagged'
<1> SUFFICES ASSUME ReliableLock, Base, NewIsOwn, Unflagged, [Next]_vars PROVE Unflagged'
  OBVIOUS
<1> USE RoutingAssumption, SentinelAssumption
    DEF ReliableLock, Base, TypeInv, TypeOK, Unflagged, callVars, redisVars, cloudVars,
        Creating, Goto, Fault
<1>1. ASSUME NEW c \in Calls, Arrive(c) PROVE Unflagged'
  BY <1>1 DEF Arrive
<1>2. ASSUME NEW c \in Calls, TakeLock(c) PROVE Unflagged'
  BY <1>2 DEF TakeLock, AfterLocalLock
<1>3. ASSUME NEW c \in Calls, TakeDlock(c) PROVE Unflagged'
  BY <1>3 DEF TakeDlock
<1>4. ASSUME NEW c \in Calls, DlockTimesOut(c) PROVE Unflagged'
  BY <1>4 DEF DlockTimesOut
<1>5. ASSUME NEW c \in Calls, DlockErrs(c) PROVE Unflagged'
  BY <1>5 DEF DlockErrs
<1>6. ASSUME NEW c \in Calls, Leave(c) PROVE Unflagged'
  BY <1>6 DEF Leave
<1>7. ASSUME NEW c \in Calls, LookUp(c) PROVE Unflagged'
  BY <1>7 DEF LookUp
<1>8. ASSUME NEW c \in Calls, Slide(c) PROVE Unflagged'
  BY <1>8 DEF Slide
<1>9. ASSUME NEW c \in Calls, Ensure(c) PROVE Unflagged'
  BY <1>9 DEF Ensure
<1>10. ASSUME NEW c \in Calls, Purge(c) PROVE Unflagged'
  BY <1>10 DEF Purge
<1>11. ASSUME NEW c \in Calls, Prepare(c) PROVE Unflagged'
  <2>1. ASSUME NEW s \in Sandboxes, sbx[s] = "none", Goto(c, "prepare", "provision"),
               sbx' = [sbx EXCEPT ![s] = "creating"], cur' = [cur EXCEPT ![c] = s],
               UNCHANGED flag
        PROVE  Unflagged'
    <3>1. s \notin flag
      BY <2>1
    <3>2. ASSUME NEW d \in Calls,
                 pc'[d] \in (Creating \ {"prepare"})
                              \cup {"bind", "index", "check", "bootstrap", "mark"}
          PROVE  cur'[d] \notin flag'
      <4>1. CASE d = c
        BY <2>1, <3>1, <4>1
      <4>2. CASE d # c
        BY <2>1, <3>2, <4>2
      <4>3. QED
        BY <4>1, <4>2
    <3>3. QED
      BY <2>1, <3>2
  <2>2. ASSUME NEW s \in Sandboxes, sbx[s] = "none", Goto(c, "prepare", "raise"),
               sbx' = [sbx EXCEPT ![s] = "creating"], UNCHANGED <<cur, flag>>
        PROVE  Unflagged'
    BY <2>2
  <2>3. CASE Goto(c, "prepare", "raise") /\ UNCHANGED <<cur, sbx, flag>>
    BY <2>3
  <2>4. QED
    BY <1>11, <2>1, <2>2, <2>3 DEF Prepare
<1>12. ASSUME NEW c \in Calls, Provision(c) PROVE Unflagged'
  <2>1. CASE sbx' = [sbx EXCEPT ![cur[c]] = "deleted"]
    <3>1. \A s \in flag : sbx'[s] # "none"
      BY <2>1 DEF HoldsSandbox, Holding
    <3>2. QED
      BY <1>12, <3>1 DEF Provision, Unobtained
  <2>2. CASE UNCHANGED sbx
    BY <1>12, <2>2 DEF Provision, Unobtained
  <2>3. QED
    BY <1>12, <2>1, <2>2 DEF Provision, Unobtained
<1>13. ASSUME NEW c \in Calls, SetPolicy(c) PROVE Unflagged'
  BY <1>13 DEF SetPolicy
<1>14. ASSUME NEW c \in Calls, CreateTimesOut(c) PROVE Unflagged'
  BY <1>14 DEF CreateTimesOut, Unobtained
<1>15. ASSUME NEW c \in Calls, Bind(c) PROVE Unflagged'
  BY <1>15 DEF Bind
<1>16. ASSUME NEW c \in Calls, Index(c) PROVE Unflagged'
  BY <1>16 DEF Index
<1>17. ASSUME NEW c \in Calls, Check(c) PROVE Unflagged'
  BY <1>17 DEF Check
<1>18. ASSUME NEW c \in Calls, Bootstrap(c) PROVE Unflagged'
  BY <1>18 DEF Bootstrap
<1>19. ASSUME NEW c \in Calls, Mark(c) PROVE Unflagged'
  BY <1>19 DEF Mark, Written, NewIsOwn, Setup, Active, Critical, Inside, HoldsSandbox,
              Holding, OwnSandbox
<1>20. ASSUME NEW c \in Calls, Rollback(c) PROVE Unflagged'
  BY <1>20 DEF Rollback
<1>21. ASSUME NEW c \in Calls, Exec(c) PROVE Unflagged'
  BY <1>21 DEF Exec
<1>22. ASSUME NEW c \in Calls, Cancel(c) PROVE Unflagged'
  BY <1>22 DEF Cancel
<1>23. ASSUME NEW r \in Replicas, Crash(r) PROVE Unflagged'
  BY <1>23 DEF Crash, Killed
<1>24. ASSUME NEW s \in Sandboxes, CloudCreates(s) PROVE Unflagged'
  BY <1>24 DEF CloudCreates
<1>25. ASSUME NEW s \in Sandboxes, Vanish(s) PROVE Unflagged'
  BY <1>25 DEF Vanish
<1>26. ASSUME NEW k \in Keys, ExpireKey(k) PROVE Unflagged'
  BY <1>26 DEF ExpireKey
<1>27. ASSUME NEW k \in Keys, ExpireDlock(k) PROVE Unflagged'
  BY <1>27 DEF ExpireDlock
<1>28. CASE UNCHANGED vars
  BY <1>28 DEF vars
<1>29. QED
  BY <1>1, <1>2, <1>3, <1>4, <1>5, <1>6, <1>7, <1>8, <1>9, <1>10, <1>11,
     <1>12, <1>13, <1>14, <1>15, <1>16, <1>17, <1>18, <1>19, <1>20, <1>21,
     <1>22, <1>23, <1>24, <1>25, <1>26, <1>27, <1>28
     DEF Next, Serve, Locking, AwaitDlock, Reusing, CreatingStep, SettingUp, Environment, AllEnded

-----------------------------------------------------------------------------
\* Everything the steps below rest on.
Sticky == Base /\ NewIsOwn /\ Undisturbed /\ KeyNamesIt /\ Unflagged

\* It holds throughout.
LEMMA StickyHolds ==
    /\ Init => Sticky
    /\ ReliableLock /\ CallsFitWindow /\ Sticky /\ [Next]_vars => Sticky'
<1>1. Init => Sticky
  BY BaseHolds, NewIsOwnInit, UndisturbedInit, KeyNamesItInit, UnflaggedInit DEF Sticky
<1>2. ASSUME ReliableLock, CallsFitWindow, Sticky, [Next]_vars PROVE Sticky'
  <2>1. Base'
    BY <1>2, BaseHolds DEF Sticky
  <2>2. NewIsOwn' /\ Undisturbed' /\ KeyNamesIt' /\ Unflagged'
    BY <1>2, NewIsOwnStep, UndisturbedStep, KeyNamesItStep, UnflaggedStep DEF Sticky, Base
  <2>3. QED
    BY <2>1, <2>2 DEF Sticky
<1>3. QED
  BY <1>1, <1>2

\* The home of a Session is its one serving sandbox.
LEMMA HomeIs ==
    Sticky => /\ OneSandboxPerSession
              /\ \A k \in Keys, s \in Sandboxes : label[s] = k /\ Serving(s) => HomeOf(k) = s
<1>1. Sticky => OneSandboxPerSession
  BY OneSandbox DEF Sticky
<1>2. ASSUME OneSandboxPerSession, NEW k \in Keys, NEW s \in Sandboxes,
             label[s] = k, Serving(s)
      PROVE  HomeOf(k) = s
  <2> DEFINE P(t) == label[t] = k /\ Serving(t)
  <2>1. \E t \in Sandboxes : P(t)
    BY <1>2
  <2>2. HomeOf(k) = CHOOSE t \in Sandboxes : P(t)
    BY <2>1 DEF HomeOf
  <2>3. HomeOf(k) \in Sandboxes /\ P(HomeOf(k))
    BY <2>1, <2>2
  <2>4. QED
    BY <1>2, <2>3 DEF OneSandboxPerSession
<1>3. QED
  BY <1>1, <1>2

\* A Session has no home exactly when no sandbox serves it.
LEMMA HomelessIs ==
    \A k \in Keys : (\A s \in Sandboxes : ~(label[s] = k /\ Serving(s))) => HomeOf(k) = NoSandbox
BY DEF HomeOf

\* The same in the next state.
LEMMA NextHomes ==
    ASSUME Sticky'
    PROVE  /\ \A k \in Keys, s \in Sandboxes : label'[s] = k /\ Serving(s)' => HomeOf(k)' = s
           /\ \A k \in Keys :
                (\A s \in Sandboxes : ~(label'[s] = k /\ Serving(s)')) => HomeOf(k)' = NoSandbox
<1>1. Sticky' => (\A k \in Keys, s \in Sandboxes :
                    label[s] = k /\ Serving(s) => HomeOf(k) = s)'
  BY HomeIs, PTL
<1>2. (\A k \in Keys :
         (\A s \in Sandboxes : ~(label[s] = k /\ Serving(s))) => HomeOf(k) = NoSandbox)'
  BY HomelessIs, PTL
<1>3. QED
  BY <1>1, <1>2

\* No sandbox starts serving: what most steps do to the homes.
NoneNew == \A s \in Sandboxes : Serving(s)' => Serving(s) /\ label'[s] = label[s]

\* Homes are lost, not changed, when no sandbox starts serving, ...
LEMMA HomesLost ==
    ASSUME Sticky, Sticky', NoneNew
    PROVE  \A k \in Keys : HomeOf(k)' \in {HomeOf(k), NoSandbox}
<1>1. SUFFICES ASSUME NEW k \in Keys PROVE HomeOf(k)' \in {HomeOf(k), NoSandbox}
  OBVIOUS
<1>2. ASSUME NEW s \in Sandboxes, label'[s] = k, Serving(s)' PROVE HomeOf(k)' = HomeOf(k)
  BY <1>2, HomeIs, NextHomes DEF NoneNew
<1>3. CASE \A s \in Sandboxes : ~(label'[s] = k /\ Serving(s)')
  BY <1>3, NextHomes
<1>4. QED
  BY <1>2, <1>3

\* ... and stay when none stops serving either.
LEMMA HomesStay ==
    ASSUME Sticky, Sticky', \A s \in Sandboxes : Serving(s)' = Serving(s),
           \A s \in Sandboxes : Serving(s) => label'[s] = label[s]
    PROVE  \A k \in Keys : HomeOf(k)' = HomeOf(k)
<1>1. SUFFICES ASSUME NEW k \in Keys PROVE HomeOf(k)' = HomeOf(k)
  OBVIOUS
<1>2. ASSUME NEW s \in Sandboxes, label[s] = k, Serving(s) PROVE HomeOf(k)' = HomeOf(k)
  BY <1>2, HomeIs, NextHomes
<1>3. CASE \A s \in Sandboxes : ~(label[s] = k /\ Serving(s))
  BY <1>3, HomelessIs, NextHomes
<1>4. QED
  BY <1>2, <1>3

\* No call is handed anything it did not have.
NoneHanded == \A c \in Calls : HandedTo(c)' \in {HandedTo(c), NoSandbox}
SameUsed == \A s \in Sandboxes : sbx'[s] # "none" <=> sbx[s] # "none"

Loses == NoneNew /\ NoneHanded /\ SameUsed

\* Such a step is a Lose of the promise.
LEMMA LosesIsLose ==
    ASSUME Sticky, Sticky', Loses PROVE Promise!Next
<1> DEFINE ended == {k \in Keys : HomeOf(k)' = NoSandbox}
           failed == {c \in Calls : HandedTo(c)' = NoSandbox}
<1>1. [k \in Keys |-> HomeOf(k)]'
        = [k \in Keys |-> IF k \in ended THEN NoSandbox ELSE [l \in Keys |-> HomeOf(l)][k]]
  BY HomesLost DEF Loses
<1>2. [c \in Calls |-> HandedTo(c)]'
        = [c \in Calls |-> IF c \in failed THEN NoSandbox ELSE [d \in Calls |-> HandedTo(d)][c]]
  BY DEF Loses, NoneHanded
<1>3. {s \in Sandboxes : sbx[s] # "none"}' = {s \in Sandboxes : sbx[s] # "none"}
  BY DEF Loses, SameUsed
<1>4. Promise!Lose(ended, failed)
  BY <1>1, <1>2, <1>3 DEF Promise!Lose
<1>5. ended \in SUBSET Keys /\ failed \in SUBSET Calls
  OBVIOUS
<1>6. QED
  BY <1>4, <1>5 DEF Promise!Next
-----------------------------------------------------------------------------
\* The branches on which a Session gets its home and a call its sandbox.
Opens(c) == Prepare(c) /\ pc'[c] = "provision"
Wastes(c) == Prepare(c) /\ pc'[c] = "raise" /\ sbx' # sbx
Hands(c) == (Ensure(c) \/ Bootstrap(c)) /\ HandedTo(c)' # NoSandbox

\* Every other step may lose homes and calls, no more.
LEMMA LosesStep ==
    ASSUME ReliableLock, Sticky, [Next]_vars,
           \A c \in Calls : ~Opens(c) /\ ~Wastes(c) /\ ~Hands(c)
    PROVE  Loses
<1> USE RoutingAssumption, SentinelAssumption
    DEF ReliableLock, Sticky, Base, TypeInv, TypeOK, Loses, NoneNew, NoneHanded, SameUsed,
        Serving, InUse, HandedTo, Active, Critical, Inside, Creating, Setup, callVars,
        redisVars, cloudVars, Goto, Fault
<1>1. ASSUME NEW c \in Calls, Arrive(c) PROVE Loses
  BY <1>1 DEF Arrive, Locked, NoneYet
<1>2. ASSUME NEW c \in Calls, TakeLock(c) PROVE Loses
  BY <1>2 DEF TakeLock, AfterLocalLock
<1>3. ASSUME NEW c \in Calls, TakeDlock(c) PROVE Loses
  BY <1>3 DEF TakeDlock
<1>4. ASSUME NEW c \in Calls, DlockTimesOut(c) PROVE Loses
  BY <1>4 DEF DlockTimesOut
<1>5. ASSUME NEW c \in Calls, DlockErrs(c) PROVE Loses
  BY <1>5 DEF DlockErrs
<1>6. ASSUME NEW c \in Calls, Leave(c) PROVE Loses
  BY <1>6 DEF Leave
<1>7. ASSUME NEW c \in Calls, LookUp(c) PROVE Loses
  BY <1>7 DEF LookUp, SessionKey
<1>8. ASSUME NEW c \in Calls, Slide(c) PROVE Loses
  BY <1>8 DEF Slide, SessionKey, KeySet, Written
<1>9. ASSUME NEW c \in Calls, Ensure(c) PROVE Loses
  BY <1>9 DEF Ensure, Hands, HoldsSandbox, Holding
<1>10. ASSUME NEW c \in Calls, Purge(c) PROVE Loses
  BY <1>10 DEF Purge, SessionKey, KeyCleared, Written
<1>11. ASSUME NEW c \in Calls, Prepare(c) PROVE Loses
  <2>1. Goto(c, "prepare", "raise") /\ UNCHANGED <<sbx, cur, fwd>>
    BY <1>11 DEF Prepare, Opens, Wastes
  <2>2. UNCHANGED label
    BY <1>11, <2>1 DEF Prepare
  <2>3. QED
    BY <2>1, <2>2
<1>12. ASSUME NEW c \in Calls, Provision(c) PROVE Loses
  BY <1>12 DEF Provision, Unobtained, HoldsSandbox, Holding
<1>13. ASSUME NEW c \in Calls, SetPolicy(c) PROVE Loses
  BY <1>13 DEF SetPolicy
<1>14. ASSUME NEW c \in Calls, CreateTimesOut(c) PROVE Loses
  BY <1>14 DEF CreateTimesOut, Unobtained
<1>15. ASSUME NEW c \in Calls, Bind(c) PROVE Loses
  BY <1>15 DEF Bind, SessionKey, KeySet, Written
<1>16. ASSUME NEW c \in Calls, Index(c) PROVE Loses
  BY <1>16 DEF Index
<1>17. ASSUME NEW c \in Calls, Check(c) PROVE Loses
  BY <1>17 DEF Check, Unflagged
<1>18. ASSUME NEW c \in Calls, Bootstrap(c) PROVE Loses
  BY <1>18 DEF Bootstrap, Hands, HoldsSandbox, Holding
<1>19. ASSUME NEW c \in Calls, Mark(c) PROVE Loses
  BY <1>19 DEF Mark
<1>20. ASSUME NEW c \in Calls, Rollback(c) PROVE Loses
  BY <1>20 DEF Rollback, SessionKey, KeyCleared, Written
<1>21. ASSUME NEW c \in Calls, Exec(c) PROVE Loses
  BY <1>21 DEF Exec
<1>22. ASSUME NEW c \in Calls, Cancel(c) PROVE Loses
  BY <1>22 DEF Cancel
<1>23. ASSUME NEW r \in Replicas, Crash(r) PROVE Loses
  BY <1>23 DEF Crash, Killed, ServedBy
<1>24. ASSUME NEW s \in Sandboxes, CloudCreates(s) PROVE Loses
  BY <1>24 DEF CloudCreates
<1>25. ASSUME NEW s \in Sandboxes, Vanish(s) PROVE Loses
  BY <1>25 DEF Vanish
<1>26. ASSUME NEW k \in Keys, ExpireKey(k) PROVE Loses
  BY <1>26 DEF ExpireKey
<1>27. ASSUME NEW k \in Keys, ExpireDlock(k) PROVE Loses
  BY <1>27 DEF ExpireDlock
<1>28. CASE UNCHANGED vars
  BY <1>28 DEF vars
<1>29. QED
  BY <1>1, <1>2, <1>3, <1>4, <1>5, <1>6, <1>7, <1>8, <1>9, <1>10, <1>11,
     <1>12, <1>13, <1>14, <1>15, <1>16, <1>17, <1>18, <1>19, <1>20, <1>21,
     <1>22, <1>23, <1>24, <1>25, <1>26, <1>27, <1>28
     DEF Next, Serve, Locking, AwaitDlock, Reusing, CreatingStep, SettingUp, Environment, AllEnded

\* A create gives a Session without a home a sandbox that never was one.
LEMMA OpensStep ==
    ASSUME Sticky, Sticky', NEW c \in Calls, Opens(c) PROVE Promise!Next
<1> USE RoutingAssumption, SentinelAssumption
<1> DEFINE k == KeyOf[c]
<1>1. PICK s \in Sandboxes :
        /\ sbx[s] = "none" /\ pc[c] = "prepare"
        /\ pc' = [pc EXCEPT ![c] = "provision"]
        /\ sbx' = [sbx EXCEPT ![s] = "creating"]
        /\ label' = [label EXCEPT ![s] = k]
        /\ cur' = [cur EXCEPT ![c] = s]
        /\ UNCHANGED fwd
  BY DEF Opens, Prepare, Goto, redisVars, Sticky, Base, TypeInv, TypeOK
<1>2. k \in Keys /\ cur[c] = NoSandbox
  BY <1>1 DEF Sticky, Base, Locked, NoneYet
<1>3. ASSUME NEW t \in Sandboxes, t # s
      PROVE  Serving(t)' = Serving(t) /\ label'[t] = label[t]
  BY <1>1, <1>2, <1>3
     DEF Sticky, Base, TypeInv, TypeOK, Serving, InUse, Active, Critical, Inside, Creating
<1>4. ~Serving(s) /\ Serving(s)' /\ label'[s] = k
  BY <1>1 DEF Sticky, Base, TypeInv, TypeOK, Serving, InUse, Active, Critical, Inside, Creating
<1>5. HomeOf(k)' = s
  BY <1>2, <1>4, NextHomes
<1>6. HomeOf(k) = NoSandbox
  <2>1. ASSUME NEW t \in Sandboxes, label[t] = k, Serving(t) PROVE FALSE
    <3>1. t # s
      BY <1>4, <2>1
    <3>2. HomeOf(k)' = t
      BY <1>2, <1>3, <2>1, <3>1, NextHomes
    <3>3. QED
      BY <1>5, <3>1, <3>2
  <2>2. QED
    BY <1>2, <2>1, HomelessIs
<1>7. ASSUME NEW l \in Keys, l # k PROVE HomeOf(l)' = HomeOf(l)
  <2>1. ASSUME NEW t \in Sandboxes, label[t] = l, Serving(t) PROVE HomeOf(l)' = HomeOf(l)
    BY <1>3, <1>4, <2>1, HomeIs, NextHomes
  <2>2. CASE \A t \in Sandboxes : ~(label[t] = l /\ Serving(t))
    <3>1. \A t \in Sandboxes : ~(label'[t] = l /\ Serving(t)')
      BY <1>3, <1>4, <1>7, <2>2
    <3>2. QED
      BY <2>2, <3>1, HomelessIs, NextHomes
  <2>3. QED
    BY <2>1, <2>2
<1>8. \A d \in Calls : HandedTo(d)' = HandedTo(d)
  BY <1>1 DEF Sticky, Base, TypeInv, TypeOK, HandedTo
<1>9. [l \in Keys |-> HomeOf(l)]' = [[l \in Keys |-> HomeOf(l)] EXCEPT ![k] = s]
  BY <1>2, <1>5, <1>7
<1>10. {t \in Sandboxes : sbx[t] # "none"}' = {t \in Sandboxes : sbx[t] # "none"} \cup {s}
  BY <1>1 DEF Sticky, Base, TypeInv, TypeOK
<1>11. [d \in Calls |-> HandedTo(d)]' = [d \in Calls |-> HandedTo(d)]
  BY <1>8
<1>12. Promise!Open(k, s)
  BY <1>1, <1>2, <1>6, <1>9, <1>10, <1>11 DEF Promise!Open
<1>13. QED
  BY <1>2, <1>12 DEF Promise!Next

\* A create whose answer is lost leaves a sandbox that serves no Session.
LEMMA WastesStep ==
    ASSUME Sticky, Sticky', NEW c \in Calls, Wastes(c) PROVE Promise!Next
<1> USE RoutingAssumption, SentinelAssumption DEF Sticky, Base, TypeInv, TypeOK
<1>1. PICK s \in Sandboxes :
        /\ sbx[s] = "none" /\ pc[c] = "prepare"
        /\ pc' = [pc EXCEPT ![c] = "raise"]
        /\ sbx' = [sbx EXCEPT ![s] = "creating"]
        /\ label' = [label EXCEPT ![s] = KeyOf[c]]
        /\ UNCHANGED <<cur, fwd>>
  BY DEF Wastes, Prepare, Goto, redisVars
<1>2. ~Serving(s)'
  BY <1>1 DEF OwnSandbox, Serving, InUse
<1>3. ASSUME NEW t \in Sandboxes, t # s PROVE Serving(t)' = Serving(t) /\ label'[t] = label[t]
  BY <1>1, <1>3 DEF Serving, InUse, Active, Critical, Inside, Creating
<1>4. ~Serving(s)
  BY <1>1 DEF Serving
<1>5. \A k \in Keys : HomeOf(k)' = HomeOf(k)
  <2>1. Serving(s)' = Serving(s)
    BY <1>2, <1>4 DEF Serving
  <2>2. \A t \in Sandboxes : Serving(t)' = Serving(t)
    BY <1>3, <2>1
  <2>3. \A t \in Sandboxes : Serving(t) => label'[t] = label[t]
    BY <1>3, <1>4
  <2>4. QED
    BY <2>2, <2>3, HomesStay
<1>6. \A d \in Calls : HandedTo(d)' = HandedTo(d)
  BY <1>1 DEF HandedTo
<1>7. [k \in Keys |-> HomeOf(k)]' = [k \in Keys |-> HomeOf(k)]
  BY <1>5
<1>8. [d \in Calls |-> HandedTo(d)]' = [d \in Calls |-> HandedTo(d)]
  BY <1>6
<1>9. {t \in Sandboxes : sbx[t] # "none"}' = {t \in Sandboxes : sbx[t] # "none"} \cup {s}
  BY <1>1
<1>10. Promise!Waste(s)
  BY <1>7, <1>8, <1>9 DEF Promise!Waste
<1>11. QED
  BY <1>10 DEF Promise!Next

\* A call that found its sandbox up, or set it up, is handed its Session's home.
LEMMA HandsStep ==
    ASSUME Sticky, Sticky', NEW c \in Calls, Hands(c) PROVE Promise!Next
<1> USE RoutingAssumption, SentinelAssumption
<1>1. /\ pc[c] \in {"ensure", "bootstrap"}
      /\ \E p \in {"return", "mark"} : pc' = [pc EXCEPT ![c] = p]
      /\ Up(cur[c])
      /\ UNCHANGED <<cur, fwd, sbx, label>>
  BY DEF Hands, Ensure, Bootstrap, HandedTo, Goto, Sticky, Base, TypeInv, TypeOK, callVars,
         redisVars, cloudVars
<1>2. cur[c] \in Sandboxes /\ label[cur[c]] = KeyOf[c] /\ KeyOf[c] \in Keys
  BY <1>1 DEF Sticky, Base, TypeInv, OwnSandbox, HoldsSandbox, Holding, Setup
<1>3. \A s \in Sandboxes : Serving(s)' = Serving(s)
  BY <1>1 DEF Sticky, Base, TypeInv, TypeOK, Serving, InUse, Active, Critical, Inside, Setup
<1>4. Serving(cur[c])
  BY <1>1 DEF Up, Serving, InUse, Active, Critical, Inside, Setup
<1>5. HomeOf(KeyOf[c]) = cur[c]
  BY <1>2, <1>4, HomeIs
<1>6. \A k \in Keys : HomeOf(k)' = HomeOf(k)
  BY <1>1, <1>3, HomesStay
<1>7. HandedTo(c) = NoSandbox /\ HandedTo(c)' = cur[c]
  BY <1>1 DEF HandedTo, Sticky, Base, TypeInv, TypeOK
<1>8. ASSUME NEW d \in Calls, d # c PROVE HandedTo(d)' = HandedTo(d)
  BY <1>1, <1>8 DEF HandedTo, Sticky, Base, TypeInv, TypeOK
<1>9. [d \in Calls |-> HandedTo(d)]' = [[d \in Calls |-> HandedTo(d)] EXCEPT ![c] = cur[c]]
  BY <1>7, <1>8
<1>10. [k \in Keys |-> HomeOf(k)]' = [k \in Keys |-> HomeOf(k)]
  BY <1>6
<1>11. {s \in Sandboxes : sbx[s] # "none"}' = {s \in Sandboxes : sbx[s] # "none"}
  BY <1>1
<1>12. Promise!Hand(c)
  BY <1>2, <1>5, <1>7, <1>9, <1>10, <1>11 DEF Promise!Hand
<1>13. QED
  BY <1>12 DEF Promise!Next

\* Every step of the routing is a step of the promise, or a stutter.
LEMMA PromiseStep ==
    ReliableLock /\ Sticky /\ Sticky' /\ [Next]_vars => [Promise!Next]_(Promise!promiseVars)
<1>1. SUFFICES ASSUME ReliableLock, Sticky, Sticky', [Next]_vars PROVE Promise!Next
  OBVIOUS
<1>2. CASE \E c \in Calls : Opens(c)
  BY <1>1, <1>2, OpensStep
<1>3. CASE \E c \in Calls : Hands(c)
  BY <1>1, <1>3, HandsStep
<1>4. CASE \E c \in Calls : Wastes(c)
  BY <1>1, <1>4, WastesStep
<1>5. CASE \A c \in Calls : ~Opens(c) /\ ~Wastes(c) /\ ~Hands(c)
  BY <1>1, <1>5, LosesStep, LosesIsLose
<1>6. QED
  BY <1>2, <1>3, <1>4, <1>5

\* SandboxManager keeps the promise of StickySession: whatever fails, is
\* cancelled or dies around it, a Session has one home at a time, never goes back
\* to an old one, and every call is handed its Session's home of that moment.
THEOREM KeepsPromiseHolds == ReliableLock /\ CallsFitWindow => (Spec => KeepsPromise)
<1>1. SUFFICES ASSUME ReliableLock, CallsFitWindow PROVE Spec => Promise!Spec
  BY DEF KeepsPromise
<1>2. Init => Sticky
  BY StickyHolds
<1>3. Sticky /\ [Next]_vars => Sticky'
  BY <1>1, StickyHolds
<1>4. Init => Promise!Init
  BY DEF Init, Promise!Init, HomeOf, HandedTo, Serving
<1>5. Sticky /\ Sticky' /\ [Next]_vars => [Promise!Next]_(Promise!promiseVars)
  BY <1>1, PromiseStep
<1>6. QED
  BY <1>2, <1>3, <1>4, <1>5, PTL DEF Spec, Promise!Spec
=============================================================================
