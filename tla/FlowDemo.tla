------------------------------ MODULE FlowDemo ------------------------------
(***************************************************************************)
(* The OAuth client that goes with the documentation                       *)
(* (docs/en/multi-client-implementation/oauth-mcp-flow-demo/server.py and  *)
(* public/app.js), against the endpoints of McpProxy and Entra.            *)
(*                                                                         *)
(* A page starts requests; ThreadingHTTPServer serves each in a thread of  *)
(* its own; a login is finished in another browser tab, which comes back   *)
(* as one more request.  The threads share RUN, written under LOCK but     *)
(* read in part without it.  One action is the code of a thread between    *)
(* two accesses to RUN or two requests to other servers.                   *)
(***************************************************************************)
EXTENDS McpProxy, Naturals, FiniteSets

CONSTANTS
    MaxRequests,   \* requests that reach the demo server (a bound)
    HastyRequests, \* ... if the user is hasty (a bound)
    MaxThreads,    \* requests served at one time (a bound)
    MaxLogins,     \* requests that are callbacks (a bound)
    MaxRestarts,   \* times the user starts over (a bound)
    Faults,        \* the faults this instance admits for a careful user
    HastyFaults,   \* ... and for one who starts over at any moment
    None

\* network   a request of the demo server raises, its answer may be lost
\* refused   Entra refuses a token request it could have granted
\* declined  the user declines, and Entra redirects with an error
FaultKinds == {"network", "refused", "declined"}

ASSUME BoundAssumption == /\ MaxRequests \in Nat
                          /\ HastyRequests \in 0 .. MaxRequests
                          /\ MaxThreads \in Nat
                          /\ MaxLogins \in Nat
                          /\ MaxRestarts \in Nat
ASSUME FaultAssumption == Faults \cup HastyFaults \subseteq FaultKinds

\* Requests, and the threads that serve them, in the order they are sent.  The
\* thread that serves an authorize request stands for the PKCE pair and the
\* state it minted, a callback's thread for the code it first brought.
Threads == 1 .. MaxRequests
ASSUME NoneAssumption == None \notin Threads

Flows    == Paths
Steps    == 1 .. 14
Captures == [Steps -> Threads \cup {None}]

VARIABLES
    RUN,        \* the shared state: phase, flow, verifier, state, steps
    pc,         \* where the thread of each request stands
    flow,       \* the flow a thread works for
    verifier,   \* callbacks: the verifier read from RUN
    state,      \* callbacks: the state read from RUN, shown as step 8 (7)
    code,       \* callbacks: the code in the query
    issuedFor,  \* callbacks: the login whose state is in the query
    outcome,    \* callbacks: what the exchange gave
    page,       \* state.flow and state.live of the page
    poll,       \* the status request under way
    tabs,       \* logins open in a browser tab
    redeemed,   \* codes Entra has redeemed
    careful     \* the user finishes one flow before starting another

threadVars  == <<pc, flow, verifier, state, code, issuedFor, outcome>>
browserVars == <<page, poll, tabs, careful>>
vars        == <<RUN, threadVars, browserVars, redeemed>>

Discovering == {"reset", "publish", "discovered"}
Authorizing == {"mint", "authorized"}
CallingBack == {"declined", "check", "reject", "pick", "secrets", "exchange", "finish"}
PCs == Discovering \cup Authorizing \cup CallingBack \cup {"free", "failed", "ended"}

NoCaptures == [n \in Steps |-> None]
NewPage(f, n) == [flow |-> f, phase |-> "idle", url |-> None, polling |-> FALSE,
                  restarts |-> n]
Phases == {"idle", "awaiting_login", "done", "error"}
NewRun(f) == [phase |-> "idle", flow |-> f, verifier |-> None, state |-> None,
              steps |-> NoCaptures]

Fault(f) == f \in IF careful THEN Faults ELSE HastyFaults

Init ==
    /\ RUN = NewRun("mcpproxy")
    /\ pc = [t \in Threads |-> "free"]
    /\ flow = [t \in Threads |-> "mcpproxy"]
    /\ verifier = [t \in Threads |-> None]
    /\ state = [t \in Threads |-> None]
    /\ code = [t \in Threads |-> None]
    /\ issuedFor = [t \in Threads |-> None]
    /\ outcome = [t \in Threads |-> "none"]
    /\ page = NewPage("mcpproxy", 0)
    /\ poll = "off"
    /\ tabs = {}
    /\ redeemed = {}
    /\ careful \in BOOLEAN

-----------------------------------------------------------------------------
Go(t, from, to) == pc[t] = from /\ pc' = [pc EXCEPT ![t] = to]

\* The next request is sent, to be served by thread t from `entry` on.
Send(t, entry) ==
    /\ careful \/ t <= HastyRequests
    /\ \A u \in Threads : u < t => pc[u] # "free"
    /\ Cardinality({u \in Threads : pc[u] \notin {"free", "ended"}}) < MaxThreads
    /\ Go(t, "free", entry)

CapturedOnly(captures, steps, t) == [n \in steps |-> t]   \* seeded bug
\* dict.update with what thread t captured for these steps.
Captured(captures, steps, t) ==
    [n \in Steps |-> IF n \in steps THEN t ELSE captures[n]]

\* ... one that comes from a login tab.
Redirect(t, entry) ==
    /\ Cardinality({u \in Threads : issuedFor[u] # None}) < MaxLogins
    /\ Send(t, entry)

DiscoverySteps == 1 .. 4
LoginSteps(f)  == IF f = "mcpproxy" THEN 8 .. 14 ELSE 7 .. 11

\* The requests of the demo's two flows, and the server each is sent to.
Server(f) == IF f = "mcpproxy" THEN "mcpproxy" ELSE "entra"
AuthorizeRequest(f) == [leg |-> "authorize", resource |-> f = "mcpproxy"]
TokenRequest(f)     == [leg |-> "token", resource |-> f = "mcpproxy"]

\* What Entra receives when tab a is opened, and of the exchange of thread t.
LoginAtEntra(a)    == Forwarded(Server(flow[a]), AuthorizeRequest(flow[a]))
ExchangeAtEntra(t) == Forwarded(Server(flow[t]), TokenRequest(flow[t]))

\* ----------------------------------------------------- the page (app.js)
ClickDiscover(t) ==
    /\ page.phase = "idle"
    /\ Send(t, "reset")
    /\ flow' = [flow EXCEPT ![t] = page.flow]
    /\ page' = [page EXCEPT !.phase = "authorizing"]
    /\ UNCHANGED <<RUN, verifier, state, code, issuedFor, outcome>>
    /\ UNCHANGED <<poll, tabs, careful, redeemed>>

ClickAuthorize(t) ==
    /\ page.phase = "discovered"
    /\ Send(t, "mint")
    /\ flow' = [flow EXCEPT ![t] = page.flow]
    /\ page' = [page EXCEPT !.phase = "authorizing"]
    /\ UNCHANGED <<RUN, verifier, state, code, issuedFor, outcome>>
    /\ UNCHANGED <<poll, tabs, careful, redeemed>>

\* The answer arrives, at whatever flow the page shows by then.
Hear(t) ==
    /\ \/ /\ Go(t, "discovered", "ended")
          /\ page' = [page EXCEPT !.phase = "discovered"]
       \/ /\ Go(t, "authorized", "ended")
          /\ page' = [page EXCEPT !.phase = "awaiting_login", !.url = t]
       \/ /\ Go(t, "failed", "ended")
          /\ page' = [page EXCEPT !.phase = "error"]
    /\ UNCHANGED <<RUN, flow, verifier, state, code, issuedFor, outcome>>
    /\ UNCHANGED <<poll, tabs, careful, redeemed>>

\* liveLogin opens a tab and starts asking for the status.  A page that was told
\* "done" by a status it had asked for before it started over opens a blank one.
OpenLogin ==
    /\ page.phase \in {"awaiting_login", "done"}
    /\ tabs' = tabs \cup ({page.url} \ {None})
    /\ page' = [page EXCEPT !.polling = TRUE]
    /\ UNCHANGED <<RUN, threadVars, poll, careful, redeemed>>

Ask ==
    /\ page.polling /\ poll = "off"
    /\ poll' = "asked"
    /\ UNCHANGED <<RUN, threadVars, page, tabs, careful, redeemed>>

\* GET /api/live/status, under LOCK.
Status ==
    /\ poll = "asked"
    /\ poll' = RUN.phase
    /\ UNCHANGED <<RUN, threadVars, page, tabs, careful, redeemed>>

\* Seeded bug: "error" taken for "not yet".
OnlyDone == IF poll = "done" THEN [page EXCEPT !.polling = FALSE, !.phase = "done"] ELSE page
\* What the page makes of a status.
Told == IF poll \in {"done", "error"}
        THEN [page EXCEPT !.polling = FALSE, !.phase = poll] ELSE page

HearStatus ==
    /\ poll \in Phases
    /\ page' = Told
    /\ poll' = "off"
    /\ UNCHANGED <<RUN, threadVars, tabs, careful, redeemed>>

\* Nothing of an earlier flow is under way.
Quiet ==
    /\ \A t \in Threads : pc[t] \in {"free", "ended"}
    /\ tabs = {}
    /\ poll = "off"

\* setFlow, setMode: the page starts over, the server is not told.
Restart ==
    /\ careful => Quiet
    /\ page.restarts < MaxRestarts
    /\ \E f \in Flows : page' = NewPage(f, page.restarts + 1)
    /\ UNCHANGED <<RUN, threadVars, poll, tabs, careful, redeemed>>

\* --------------------------------------------------------- the login tab
\* The user signs in and Entra redirects to /callback, with a code or an error.
TabReturns(a, t) ==
    /\ a \in tabs
    /\ ~Refuses(LoginAtEntra(a))
    /\ \/ Redirect(t, "check") /\ code' = [code EXCEPT ![t] = t]
       \/ Fault("declined") /\ Redirect(t, "declined") /\ UNCHANGED code
    /\ issuedFor' = [issuedFor EXCEPT ![t] = a]
    /\ tabs' = tabs \ {a}
    /\ UNCHANGED <<RUN, flow, verifier, state, outcome, page, poll, careful, redeemed>>

\* The tab that shows the result is reloaded: the same code and state again.
Reload(u, t) ==
    /\ pc[u] = "ended" /\ code[u] # None
    /\ careful => issuedFor[u] = page.url
    /\ Redirect(t, "check")
    /\ code' = [code EXCEPT ![t] = code[u]]
    /\ issuedFor' = [issuedFor EXCEPT ![t] = issuedFor[u]]
    /\ UNCHANGED <<RUN, flow, verifier, state, outcome, browserVars, redeemed>>

CloseTab(a) ==
    /\ a \in tabs
    /\ tabs' = tabs \ {a}
    /\ UNCHANGED <<RUN, threadVars, page, poll, careful, redeemed>>

\* ------------------------------------------- POST /api/live/discover
KeepSteps(f) == [NewRun(f) EXCEPT !.steps = RUN.steps]   \* seeded bug
Cleared(f) == NewRun(f)

\* RUN is cleared; then capture_discovery asks for the 401 and two metadata
\* documents, which touches nothing shared and may raise.
Reset(t) ==
    /\ \/ Go(t, "reset", "publish")
       \/ Fault("network") /\ Go(t, "reset", "failed")
    /\ RUN' = Cleared(flow[t])
    /\ UNCHANGED <<flow, verifier, state, code, issuedFor, outcome, browserVars, redeemed>>

Publish(t) ==
    /\ Go(t, "publish", "discovered")
    /\ RUN' = [RUN EXCEPT !.steps = Captured(@, DiscoverySteps, t)]
    /\ UNCHANGED <<flow, verifier, state, code, issuedFor, outcome, browserVars, redeemed>>

\* ------------------------------------------- GET /api/live/authorize
\* capture_authorize: a new PKCE pair and state, named by the thread.
FlowLeftOut(t) ==                  \* seeded bug: the flow is not set
    [RUN EXCEPT !.verifier = t, !.state = t, !.phase = "awaiting_login"]
Awaiting(t) == [RUN EXCEPT !.flow = flow[t], !.verifier = t, !.state = t,
                           !.phase = "awaiting_login"]

\* Then the proxy's 302 is captured, not followed; the direct flow asks nobody.
Mint(t) ==
    /\ \/ Go(t, "mint", "authorized")
       \/ Fault("network") /\ flow[t] = "mcpproxy" /\ Go(t, "mint", "failed")
    /\ RUN' = Awaiting(t)
    /\ UNCHANGED <<flow, verifier, state, code, issuedFor, outcome, browserVars, redeemed>>

\* ------------------------------------------- GET /callback
Failing == [RUN EXCEPT !.phase = "error"]

Declined(t) ==
    /\ Go(t, "declined", "ended")
    /\ RUN' = Failing
    /\ UNCHANGED <<flow, verifier, state, code, issuedFor, outcome, browserVars, redeemed>>

\* `state != RUN.get("state")`, read without LOCK.
Check(t) ==
    /\ Go(t, "check", IF issuedFor[t] = RUN.state THEN "pick" ELSE "reject")
    /\ UNCHANGED <<RUN, flow, verifier, state, code, issuedFor, outcome>>
    /\ UNCHANGED <<browserVars, redeemed>>

Reject(t) ==
    /\ Go(t, "reject", "ended")
    /\ RUN' = Failing
    /\ UNCHANGED <<flow, verifier, state, code, issuedFor, outcome, browserVars, redeemed>>

\* RUN.get("flow"), without LOCK ...
PickFlow(t) ==
    /\ Go(t, "pick", "secrets")
    /\ flow' = [flow EXCEPT ![t] = RUN.flow]
    /\ UNCHANGED <<RUN, verifier, state, code, issuedFor, outcome, browserVars, redeemed>>

\* ... and the verifier and the state, under LOCK, in capture_after_login.
ReadSecrets(t) ==
    /\ Go(t, "secrets", "exchange")
    /\ verifier' = [verifier EXCEPT ![t] = RUN.verifier]
    /\ state' = [state EXCEPT ![t] = RUN.state]
    /\ UNCHANGED <<RUN, flow, code, issuedFor, outcome, browserVars, redeemed>>

\* Entra redeems a code once, for the verifier of the login it was issued for.
Redeemable(t) == code[t] \notin redeemed /\ verifier[t] = issuedFor[t]
Grantable(t) == ~Refuses(ExchangeAtEntra(t)) /\ Redeemable(t)

\* The token request.  Refusals are answers like any other; only an exception
\* ends in the except clause of _callback.
Exchange(t) ==
    LET granted == redeemed \cup {code[t]} IN
    /\ \/ /\ Grantable(t)
          /\ Go(t, "exchange", "finish")
          /\ outcome' = [outcome EXCEPT ![t] = "token"]
          /\ redeemed' = granted
       \/ /\ Fault("refused") \/ ~Grantable(t)
          /\ Go(t, "exchange", "finish")
          /\ outcome' = [outcome EXCEPT ![t] = "refused"]
          /\ UNCHANGED redeemed
       \/ /\ Fault("network")
          /\ Go(t, "exchange", "reject")
          /\ redeemed' \in {redeemed} \cup (IF Grantable(t) THEN {granted} ELSE {})
          /\ UNCHANGED outcome
    /\ UNCHANGED <<RUN, flow, verifier, state, code, issuedFor, browserVars>>

Done(t) == [RUN EXCEPT !.steps = Captured(@, LoginSteps(flow[t]), t), !.phase = "done"]

\* initialize and tools/list, every error of which is caught and recorded as a
\* 500; then all steps are published at once, and the result page is written to
\* a browser that may be gone.  The thread's locals go with it.
Finish(t) ==
    /\ \/ Go(t, "finish", "ended")
       \/ Fault("network") /\ Go(t, "finish", "reject")
    /\ RUN' = Done(t)
    /\ verifier' = [verifier EXCEPT ![t] = None]
    /\ state' = [state EXCEPT ![t] = None]
    /\ outcome' = [outcome EXCEPT ![t] = "none"]
    /\ UNCHANGED <<flow, code, issuedFor, browserVars, redeemed>>

-----------------------------------------------------------------------------
Callback(t) == Declined(t) \/ Check(t) \/ Reject(t) \/ PickFlow(t) \/ ReadSecrets(t)
                 \/ Exchange(t) \/ Finish(t)

\* One step of the thread that serves request t, or of the page on its answer.
Serve(t) == Reset(t) \/ Publish(t) \/ Mint(t) \/ Callback(t) \/ Hear(t)

Polling == Ask \/ Status \/ HearStatus

User ==
    \/ \E t \in Threads : ClickDiscover(t) \/ ClickAuthorize(t)
    \/ OpenLogin \/ Restart
    \/ \E a, t \in Threads : TabReturns(a, t) \/ Reload(a, t)
    \/ \E a \in Threads : CloseTab(a)

\* Nothing is under way: the instance may rest, it is not deadlocked.
Rest == Quiet /\ UNCHANGED vars

Next == User \/ Polling \/ (\E t \in Threads : Serve(t)) \/ Rest

Spec == Init /\ [][Next]_vars

\* Threads run, their requests end (timeouts of 20 and 30 s), the page's timer
\* fires every 1.5 s.  The user owes nothing.
FairSpec == Spec /\ WF_vars(Polling) /\ \A t \in Threads : WF_vars(Serve(t))

-----------------------------------------------------------------------------
\* Every variable stays in its range.
TypeOK ==
    /\ RUN \in [phase : Phases, flow : Flows,
                verifier : Threads \cup {None}, state : Threads \cup {None},
                steps : Captures]
    /\ pc \in [Threads -> PCs]
    /\ flow \in [Threads -> Flows]
    /\ verifier \in [Threads -> Threads \cup {None}]
    /\ state \in [Threads -> Threads \cup {None}]
    /\ code \in [Threads -> Threads \cup {None}]
    /\ issuedFor \in [Threads -> Threads \cup {None}]
    /\ outcome \in [Threads -> {"none", "refused", "token"}]
    /\ page \in [flow : Flows, url : Threads \cup {None}, polling : BOOLEAN,
                 restarts : 0 .. MaxRestarts,
                 phase : Phases \cup {"authorizing", "discovered"}]
    /\ poll \in Phases \cup {"off", "asked"}
    /\ tabs \subseteq Threads
    /\ redeemed \subseteq Threads
    /\ careful \in BOOLEAN

\* The user may start over at any moment and logins may come back late or
\* twice: a token is obtained only with the verifier, the state and the flow of
\* the login that its code was issued for, although the callback reads them at
\* three moments, two of them without the lock.
TokenOfOneLogin ==
    \A t \in Threads : outcome[t] = "token" =>
        LET a == issuedFor[t] IN verifier[t] = a /\ state[t] = a /\ flow[t] = flow[a]

\* Entra refuses a code only where the user's own steps explain it: the login was
\* overtaken by another flow between the callback's reads of RUN, or its tab was
\* reloaded and the code is spent.  The proxy adds no refusal of its own.
RefusedOnlyWhenOvertaken ==
    \A t \in Threads : outcome[t] = "refused" =>
        \/ Fault("refused")
        \/ state[t] # issuedFor[t]
        \/ \E u \in Threads \ {t} : code[u] = code[t]

\* What a finished page shows to a user who finishes one flow before starting
\* the next is one conversation: discovery, authorization and login of the same
\* flow, and the login of the authorization that the page was given.
OneConversation ==
    careful /\ page.phase = "done" =>
        LET a == page.url  f == page.flow IN
        /\ flow[a] = f
        /\ \A n \in Steps : LET t == RUN.steps[n] IN
             CASE n \in DiscoverySteps -> t # None /\ flow[t] = f
               [] n \in LoginSteps(f) -> t # None /\ flow[t] = f /\ issuedFor[t] = a
               [] OTHER -> t = None

\* A page that waits for its login learns the end of whichever login comes
\* back, unless an earlier request of it is still to be served.
LoginAnswered ==
    /\ page.polling /\ page.phase \in {"awaiting_login", "done"}
    /\ \A t \in Threads : pc[t] \notin Discovering \cup Authorizing
    /\ \E t \in Threads : pc[t] \in CallingBack
    ~> ~page.polling
=============================================================================
