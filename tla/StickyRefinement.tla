-------------------------- MODULE StickyRefinement --------------------------
(***************************************************************************)
(* SandboxManager implements StickySession, as long as calls of a Session  *)
(* exclude each other (on one replica, or by a cluster lock neither lost   *)
(* nor waived) and a window outlasts the calls made in it.                 *)
(***************************************************************************)
EXTENDS SandboxManager

\* The sandbox a Session is served from: a live one, created for it, that calls
\* are using or that the next call would be routed to.
HomeOf(k) ==
    IF \E s \in Sandboxes : label[s] = k /\ Serving(s)
    THEN CHOOSE s \in Sandboxes : label[s] = k /\ Serving(s)
    ELSE NoSandbox

\* A call has its sandbox once ensure_running or bootstrap.sh has succeeded.
HandedTo(c) == IF pc[c] \in {"mark", "return", "exec", "done"} THEN cur[c] ELSE NoSandbox

Promise == INSTANCE StickySession
    WITH home   <- [k \in Keys |-> HomeOf(k)],
         used   <- {s \in Sandboxes : sbx[s] # "none"},
         handed <- [c \in Calls |-> HandedTo(c)]

\* Whatever two replicas do at once, and whatever fails, is cancelled or dies
\* around it: a Session moves from one home to the next, never to an old one,
\* and no call is handed any sandbox but its Session's home.
KeepsPromise == Promise!Spec
=============================================================================
