------------------------------ MODULE ToolCall ------------------------------
(***************************************************************************)
(* A tool call on the local backend: main._exec, LocalDockerExecutor.exec, *)
(* the worker's /exec endpoint and the audit sink (src/mcp-server/main.py, *)
(* executor.py, audit.py, src/worker/worker.py), with a clock.             *)
(*                                                                         *)
(* Server and worker run timers of their own.  httpx grants ExecTimeout to *)
(* each phase of the request by itself: connecting, writing the request,   *)
(* waiting for the answer.  The worker kills the command Margin earlier,   *)
(* and the audit upload is given AuditTimeout.                             *)
(***************************************************************************)
EXTENDS Naturals

CONSTANTS
    Calls,          \* authorized tool calls, each served once
    ExecTimeout,    \* MCP_EXEC_TIMEOUT
    Margin,         \* the seconds LocalDockerExecutor takes off for the worker
    AuditTimeout,   \* AUDIT_TIMEOUT
    MaxLag,         \* delay of a message, and of a timer that is due
    MaxTime         \* the bound of the clock

\* The worker's limit is positive, and the margin covers the way to the
\* worker, a late timer and the way back.
ASSUME TimersAssumption ==
    /\ ExecTimeout \in Nat /\ Margin \in Nat /\ AuditTimeout \in Nat
    /\ MaxLag \in Nat /\ MaxTime \in Nat
    /\ MaxLag + MaxLag + MaxLag < Margin /\ Margin < ExecTimeout

VARIABLES
    now,      \* the clock
    pc,       \* per call: where _exec is suspended
    phaseAt,  \* per call: when it got there
    job,      \* per call: the worker's side
    jobAt     \* per call: when the job got there

callVars == <<pc, phaseAt>>
jobVars  == <<job, jobAt>>
vars     == <<now, callVars, jobVars>>

\* executor.exec is in one of httpx's phases, "exec" the one that reads.
HttpPhases == {"connect", "write", "exec"}
Ended      == {"answered", "raised", "cancelled"}

\* "sent" and the replies "exited" and "killed" are messages under way; a
\* "gone" job answers no more (worker or connection lost).
Jobs == {"none", "sent", "running", "exited", "killed", "gone"}

Init ==
    /\ now = 0
    /\ pc = [c \in Calls |-> "start"]
    /\ phaseAt = [c \in Calls |-> 0]
    /\ job = [c \in Calls |-> "none"]
    /\ jobAt = [c \in Calls |-> 0]

-----------------------------------------------------------------------------
Goto(c, from, to) ==
    /\ pc[c] = from
    /\ pc' = [pc EXCEPT ![c] = to]
    /\ phaseAt' = [phaseAt EXCEPT ![c] = now]
JobTo(c, from, to) ==
    /\ job[c] \in from
    /\ job' = [job EXCEPT ![c] = to]
    /\ jobAt' = [jobAt EXCEPT ![c] = now]

\* The call leaves _exec; the time stamp of its last phase stays.
End(c, from, to) ==
    /\ pc[c] \in from
    /\ pc' = [pc EXCEPT ![c] = to]
    /\ UNCHANGED <<now, phaseAt, jobVars>>

FullTimeout == ExecTimeout         \* seeded bug: the same limit on both sides
JobTimeout  == ExecTimeout - Margin

\* client.post(f"{worker_url}/exec"): a connection of its own for each call ...
Post(c)    == Goto(c, "start", "connect") /\ UNCHANGED <<now, jobVars>>
Connect(c) == /\ Goto(c, "connect", "write") /\ job[c] = "none"
              /\ UNCHANGED <<now, jobVars>>

\* Seeded bug: the deadline is kept in the place of the start.
WriteDeadline(c) ==
    /\ pc[c] = "write" /\ pc' = [pc EXCEPT ![c] = "exec"]
    /\ phaseAt' = [phaseAt EXCEPT ![c] = now + ExecTimeout]
    /\ JobTo(c, {"none"}, "sent")
    /\ UNCHANGED now

\* ... on which the request is written as a whole.
Write(c) ==
    /\ Goto(c, "write", "exec")
    /\ JobTo(c, {"none"}, "sent")
    /\ UNCHANGED now

\* The worker: create_subprocess_shell, then communicate() under wait_for.
StartJob(c) == JobTo(c, {"sent"}, "running") /\ UNCHANGED <<now, callVars>>
Finish(c)   == JobTo(c, {"running"}, "exited") /\ UNCHANGED <<now, callVars>>

Kill(c) ==
    /\ jobAt[c] + JobTimeout <= now
    /\ JobTo(c, {"running"}, "killed")
    /\ UNCHANGED <<now, callVars>>

\* The worker is down or dies, or stops answering.
Lose(c) == JobTo(c, Jobs \ {"gone"}, "gone") /\ UNCHANGED <<now, callVars>>

\* The worker's JSON arrives, an exit code or the structured timeout.  An
\* action's output is redacted in the same step.
Reply(c) ==
    /\ Goto(c, "exec", "audit")
    /\ job[c] \in {"exited", "killed"}
    /\ UNCHANGED <<now, jobVars>>

\* An exception leaves _exec at once and without an audit row: a connection
\* refused or lost, an error status ...
PostFails(c) == End(c, HttpPhases, "raised") /\ job[c] = "gone"

\* ... or the timeout of the phase (ConnectTimeout, WriteTimeout, ReadTimeout).
PhaseOver(c)   == phaseAt[c] + ExecTimeout <= now
HttpTimeout(c) == End(c, HttpPhases, "raised") /\ PhaseOver(c)

\* record() ships the row within AuditTimeout or swallows the error; either
\* way the call is answered.
Record(c) == End(c, {"audit"}, "answered")

\* The client disconnects: _exec is cancelled, the worker is not told.
Cancel(c) == End(c, HttpPhases \cup {"audit"}, "cancelled")

-----------------------------------------------------------------------------
\* Timers fire and messages arrive before the clock leaves them behind; a worker
\* that is up accepts a connection and takes in the request.
WorkerDue(c) ==
    \/ pc[c] \in {"connect", "write"} /\ job[c] = "none" /\ phaseAt[c] + MaxLag <= now
    \/ job[c] = "sent" /\ jobAt[c] + MaxLag <= now
    \/ job[c] = "running" /\ jobAt[c] + JobTimeout + MaxLag <= now
    \/ job[c] \in {"exited", "killed"} /\ pc[c] = "exec" /\ jobAt[c] + MaxLag <= now
HttpDue(c)  == pc[c] \in HttpPhases /\ PhaseOver(c)
AuditDue(c) == pc[c] = "audit" /\ phaseAt[c] + AuditTimeout <= now

Tick ==
    /\ now < MaxTime
    /\ \A c \in Calls : ~WorkerDue(c) /\ ~HttpDue(c) /\ ~AuditDue(c)
    /\ now' = now + 1
    /\ UNCHANGED <<callVars, jobVars>>

AllEnded == (\A c \in Calls : pc[c] \in Ended) /\ UNCHANGED vars

Server(c) == Post(c) \/ Connect(c) \/ Write(c) \/ Reply(c) \/ PostFails(c)
               \/ HttpTimeout(c) \/ Record(c) \/ Cancel(c)
Worker(c) == StartJob(c) \/ Finish(c) \/ Kill(c) \/ Lose(c)

Next == (\E c \in Calls : Server(c) \/ Worker(c)) \/ Tick \/ AllEnded

Spec == Init /\ [][Next]_vars
-----------------------------------------------------------------------------
\* Every variable stays in its range, and no time stamp is in the future.
TypeOK ==
    /\ now \in 0 .. MaxTime
    /\ pc \in [Calls -> HttpPhases \cup {"start", "audit"} \cup Ended]
    /\ phaseAt \in [Calls -> 0 .. now]
    /\ job \in [Calls -> Jobs]
    /\ jobAt \in [Calls -> 0 .. now]

\* A command that runs too long comes back as the worker's structured result:
\* no timeout of httpx fires while the worker and its answer are there.
TimeoutIsStructured ==
    [][\A c \in Calls : pc[c] \in HttpPhases /\ pc'[c] = "raised" => job[c] = "gone"]_vars

\* The shell of no command still runs on a worker that answers when the server's
\* wait for it is over: not after a disconnect, and none outlives a ReadTimeout
\* (what the shell has started is another matter: proc.kill reaches the shell
\* only).
NoLateRun == \A c \in Calls : job[c] = "running" => ~PhaseOver(c)
=============================================================================
