---------------------------- MODULE StickySession ----------------------------
(***************************************************************************)
(* What SandboxManager.get_or_create promises its callers, and nothing of  *)
(* how: a Session has at most one sandbox at a time, its home; every call  *)
(* is handed the home its Session has at that moment; a sandbox that is no *)
(* home any more never becomes one again, for any Session.                 *)
(***************************************************************************)
CONSTANTS Calls, Keys, Sandboxes, KeyOf, NoSandbox

VARIABLES
    home,    \* [Keys -> Sandboxes \cup {NoSandbox}]
    used,    \* sandboxes that are, have been or will never be a home
    handed   \* [Calls -> Sandboxes \cup {NoSandbox}], where a call's command runs

promiseVars == <<home, used, handed>>

Init ==
    /\ home = [k \in Keys |-> NoSandbox]
    /\ used = {}
    /\ handed = [c \in Calls |-> NoSandbox]

\* A Session without a home gets a new one.
Open(k, s) ==
    /\ home[k] = NoSandbox /\ s \notin used
    /\ home' = [home EXCEPT ![k] = s]
    /\ used' = used \cup {s}
    /\ UNCHANGED handed

\* A sandbox is made that nobody learns of.
Waste(s) ==
    /\ used' = used \cup {s}
    /\ UNCHANGED <<home, handed>>

\* A call is sent to its Session's home.
Hand(c) ==
    /\ handed[c] = NoSandbox /\ home[KeyOf[c]] # NoSandbox
    /\ handed' = [handed EXCEPT ![c] = home[KeyOf[c]]]
    /\ UNCHANGED <<home, used>>

\* Sessions end, sandboxes are lost, calls fail; many at once when a replica
\* dies.
Lose(ended, failed) ==
    /\ home' = [k \in Keys |-> IF k \in ended THEN NoSandbox ELSE home[k]]
    /\ handed' = [c \in Calls |-> IF c \in failed THEN NoSandbox ELSE handed[c]]
    /\ UNCHANGED used

Next ==
    \/ \E k \in Keys, s \in Sandboxes : Open(k, s)
    \/ \E s \in Sandboxes : Waste(s)
    \/ \E c \in Calls : Hand(c)
    \/ \E ended \in SUBSET Keys, failed \in SUBSET Calls : Lose(ended, failed)

Spec == Init /\ [][Next]_promiseVars
=============================================================================
