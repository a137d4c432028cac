--------------------------- MODULE ToolCallProofs ---------------------------
(***************************************************************************)
(* The timers of a tool call agree, for every timeout, margin and lag that *)
(* satisfies TimersAssumption.                                             *)
(***************************************************************************)
EXTENDS ToolCall, TLAPS

\* The worker's limit is a number of its own, three lags below httpx's.
LEMMA JobTimeoutType ==
    JobTimeout \in Nat /\ JobTimeout + MaxLag + MaxLag + MaxLag < ExecTimeout
  BY TimersAssumption, SMT DEF JobTimeout

-----------------------------------------------------------------------------
\* The initial state is well typed.
LEMMA TypeInit == Init => TypeOK
  BY TimersAssumption, SMT DEF Init, TypeOK, Jobs, Ended, HttpPhases

\* Every step keeps the variables in their ranges.
LEMMA TypeStep == TypeOK /\ [Next]_vars => TypeOK'
<1> SUFFICES ASSUME TypeOK, [Next]_vars PROVE TypeOK'
  OBVIOUS
<1> USE TimersAssumption
    DEF TypeOK, Goto, JobTo, End, Jobs, Ended, HttpPhases, callVars, jobVars
<1>1. ASSUME NEW c \in Calls, Server(c) PROVE TypeOK'
  <2>1. CASE Post(c)
    BY <2>1, SMT DEF Post
  <2>2. CASE Connect(c)
    BY <2>2, SMT DEF Connect
  <2>3. CASE Write(c)
    BY <2>3, SMT DEF Write
  <2>4. CASE Reply(c)
    BY <2>4, SMT DEF Reply
  <2>5. CASE PostFails(c)
    BY <2>5, SMT DEF PostFails
  <2>6. CASE HttpTimeout(c)
    BY <2>6, SMT DEF HttpTimeout
  <2>7. CASE Record(c)
    BY <2>7, SMT DEF Record
  <2>8. CASE Cancel(c)
    BY <2>8, SMT DEF Cancel
  <2> QED
    BY <1>1, <2>1, <2>2, <2>3, <2>4, <2>5, <2>6, <2>7, <2>8 DEF Server
<1>2. ASSUME NEW c \in Calls, Worker(c) PROVE TypeOK'
  <2>1. CASE StartJob(c)
    BY <2>1, SMT DEF StartJob
  <2>2. CASE Finish(c)
    BY <2>2, SMT DEF Finish
  <2>3. CASE Kill(c)
    BY <2>3, SMT DEF Kill
  <2>4. CASE Lose(c)
    BY <2>4, SMT DEF Lose
  <2> QED
    BY <1>2, <2>1, <2>2, <2>3, <2>4 DEF Worker
<1>3. CASE Tick
  BY <1>3, SMT DEF Tick
<1>4. CASE UNCHANGED vars
  BY <1>4, SMT DEF vars
<1> QED
  BY <1>1, <1>2, <1>3, <1>4 DEF Next, AllEnded

\* Type correctness of the pipeline.
THEOREM TypeCorrect == Spec => []TypeOK
  BY TypeInit, TypeStep, PTL DEF Spec

-----------------------------------------------------------------------------
\* How far the worker's side of a call has got by now, measured from the end of
\* the write: a message takes MaxLag at most, and so does a timer to fire.
OnTime(c) ==
    /\ pc[c] \in {"start", "connect", "write"} => job[c] \in {"none", "gone"}
    /\ pc[c] \in {"connect", "write"} /\ job[c] = "none" => now <= phaseAt[c] + MaxLag
    /\ pc[c] = "exec" => job[c] # "none"
    /\ job[c] = "sent" => jobAt[c] = phaseAt[c] /\ now <= jobAt[c] + MaxLag
    /\ job[c] = "running" =>
         jobAt[c] <= phaseAt[c] + MaxLag /\ now <= jobAt[c] + JobTimeout + MaxLag
    /\ job[c] \in {"exited", "killed"} /\ pc[c] = "exec" =>
         /\ jobAt[c] <= phaseAt[c] + MaxLag + JobTimeout + MaxLag
         /\ now <= jobAt[c] + MaxLag
    /\ pc[c] = "audit" => job[c] \in {"exited", "killed", "gone"}

Timed == \A c \in Calls : OnTime(c)

\* Nothing has been posted initially.
LEMMA TimedInit == Init => Timed
<1> SUFFICES ASSUME Init, NEW c \in Calls PROVE OnTime(c)
  BY DEF Timed
<1>1. pc[c] = "start" /\ job[c] = "none"
  BY DEF Init
<1> QED
  BY <1>1 DEF OnTime

\* Every step keeps every call on time: the clock waits for what is due.
LEMMA TimedStep == TypeOK /\ Timed /\ [Next]_vars => Timed'
<1> SUFFICES ASSUME TypeOK, Timed, [Next]_vars, NEW c \in Calls PROVE OnTime(c)'
  BY DEF Timed
<1>0. /\ OnTime(c)
      /\ now \in Nat /\ phaseAt[c] \in Nat /\ jobAt[c] \in Nat
      /\ MaxLag \in Nat /\ ExecTimeout \in Nat /\ JobTimeout \in Nat
      /\ pc[c] \in HttpPhases \cup {"start", "audit"} \cup Ended /\ job[c] \in Jobs
  BY TimersAssumption, JobTimeoutType, SMT DEF TypeOK, Timed
<1>1. CASE Server(c) \/ Worker(c)
  <2>1. /\ now' = now
        /\ \/ /\ \/ pc[c] = "start" /\ pc'[c] = "connect"
                 \/ pc[c] = "connect" /\ pc'[c] = "write" /\ job[c] = "none"
              /\ phaseAt'[c] = now
              /\ UNCHANGED <<job[c], jobAt[c]>>
           \/ /\ pc[c] = "write" /\ job[c] = "none"
              /\ pc'[c] = "exec" /\ job'[c] = "sent"
              /\ phaseAt'[c] = now /\ jobAt'[c] = now
           \/ /\ pc[c] = "exec" /\ job[c] \in {"exited", "killed"}
              /\ pc'[c] = "audit" /\ phaseAt'[c] = now
              /\ UNCHANGED <<job[c], jobAt[c]>>
           \/ /\ pc'[c] \in {"raised", "answered", "cancelled"}
              /\ UNCHANGED <<phaseAt[c], job[c], jobAt[c]>>
           \/ /\ \/ job[c] = "sent" /\ job'[c] = "running"
                 \/ job[c] = "running" /\ job'[c] \in {"exited", "killed"}
                 \/ job'[c] = "gone"
              /\ jobAt'[c] = now
              /\ UNCHANGED <<pc[c], phaseAt[c]>>
    <3> USE DEF TypeOK, Goto, JobTo, End, callVars, jobVars
    <3>1. CASE Post(c)
      BY <3>1 DEF Post
    <3>2. CASE Connect(c)
      BY <3>2 DEF Connect
    <3>3. CASE Write(c)
      BY <3>3 DEF Write
    <3>4. CASE Reply(c)
      BY <3>4 DEF Reply
    <3>5. CASE PostFails(c)
      BY <3>5 DEF PostFails
    <3>6. CASE HttpTimeout(c)
      BY <3>6 DEF HttpTimeout
    <3>7. CASE Record(c)
      BY <3>7 DEF Record
    <3>8. CASE Cancel(c)
      BY <3>8 DEF Cancel
    <3>9. CASE StartJob(c)
      BY <3>9 DEF StartJob
    <3>10. CASE Finish(c)
      BY <3>10 DEF Finish
    <3>11. CASE Kill(c)
      BY <3>11 DEF Kill
    <3>12. CASE Lose(c)
      BY <3>12 DEF Lose
    <3> QED
      BY <1>1, <3>1, <3>2, <3>3, <3>4, <3>5, <3>6, <3>7, <3>8, <3>9, <3>10, <3>11, <3>12
         DEF Server, Worker
  <2> QED
    BY <1>0, <2>1, SMT DEF OnTime, HttpPhases, Ended, Jobs
<1>2. CASE Tick
  <2>1. /\ now' = now + 1 /\ ~WorkerDue(c)
        /\ UNCHANGED <<pc[c], phaseAt[c], job[c], jobAt[c]>>
    BY <1>2 DEF Tick, callVars, jobVars
  <2> QED
    BY <1>0, <2>1, SMT DEF OnTime, WorkerDue
<1>3. CASE ~Tick /\ ~(Server(c) \/ Worker(c))
  <2>1. UNCHANGED <<now, pc[c], phaseAt[c], job[c], jobAt[c]>>
    BY <1>3 DEF Next, AllEnded, vars, callVars, jobVars, Server, Worker, Post, Connect,
                Write, Reply, PostFails, HttpTimeout, Record, Cancel, StartJob, Finish,
                Kill, Lose, Goto, JobTo, End, TypeOK
  <2> QED
    BY <1>0, <2>1 DEF OnTime
<1> QED
  BY <1>1, <1>2, <1>3

\* The timers hold throughout.
LEMMA TimedHolds == Spec => [](TypeOK /\ Timed)
<1>1. TypeOK /\ Timed /\ [Next]_vars => (TypeOK /\ Timed)'
  BY TypeStep, TimedStep
<1> QED
  BY <1>1, TypeInit, TimedInit, PTL DEF Spec

-----------------------------------------------------------------------------
\* A worker that answers has ended the command before httpx gives up reading.
THEOREM NoLateRunHolds == Spec => []NoLateRun
<1>1. TypeOK /\ Timed => NoLateRun
  <2> SUFFICES ASSUME TypeOK, Timed, NEW c \in Calls, job[c] = "running"
               PROVE  ~PhaseOver(c)
    BY DEF NoLateRun
  <2>1. /\ now \in Nat /\ phaseAt[c] \in Nat /\ jobAt[c] \in Nat
        /\ MaxLag \in Nat /\ ExecTimeout \in Nat
    BY TimersAssumption, SMT DEF TypeOK
  <2> QED
    BY <2>1, JobTimeoutType, SMT DEF Timed, OnTime, PhaseOver
<1> QED
  BY <1>1, TimedHolds, PTL

\* A timeout of httpx fires only for a worker that is gone.
THEOREM TimeoutIsStructuredHolds == Spec => TimeoutIsStructured
<1>1. TypeOK /\ Timed /\ [Next]_vars =>
        [\A c \in Calls :
           pc[c] \in HttpPhases /\ pc'[c] = "raised" => job[c] = "gone"]_vars
  <2> SUFFICES ASSUME TypeOK, Timed, [Next]_vars, NEW c \in Calls,
                      pc[c] \in HttpPhases, pc'[c] = "raised"
               PROVE  job[c] = "gone"
    OBVIOUS
  <2>1. PostFails(c) \/ HttpTimeout(c)
    BY DEF Next, AllEnded, vars, callVars, jobVars, Server, Worker, Post, Connect, Write,
           Reply, PostFails, HttpTimeout, Record, Cancel, StartJob, Finish, Kill, Lose,
           Tick, Goto, JobTo, End, HttpPhases, TypeOK
  <2>2. CASE PostFails(c)
    BY <2>2 DEF PostFails
  <2>3. CASE HttpTimeout(c)
    <3>1. /\ now \in Nat /\ phaseAt[c] \in Nat /\ jobAt[c] \in Nat /\ job[c] \in Jobs
          /\ MaxLag \in Nat /\ ExecTimeout \in Nat
      BY TimersAssumption, SMT DEF TypeOK
    <3>2. phaseAt[c] + ExecTimeout <= now
      BY <2>3 DEF HttpTimeout, PhaseOver
    <3>3. MaxLag < ExecTimeout
      BY <3>1, JobTimeoutType, SMT
    <3> QED
      BY <3>1, <3>2, <3>3, JobTimeoutType, SMT DEF Timed, OnTime, Jobs, HttpPhases
  <2> QED
    BY <2>1, <2>2, <2>3
<1> QED
  BY <1>1, TimedHolds, PTL DEF Spec, TimeoutIsStructured
=============================================================================
