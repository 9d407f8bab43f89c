-------------------------- MODULE LifecycleProofs ---------------------------
(* Proofs for Lifecycle: the order in which main drains its goroutines keeps *)
(* the database open for every user of it and makes exit status 0 honest.    *)
EXTENDS Lifecycle, TLAPS

\* A process that has just been started satisfies the invariant (main has done nothing).
LEMMA InitInv == Init => LifecycleInv
<1> SUFFICES ASSUME Init PROVE LifecycleInv
  OBVIOUS
<1>1. enabled \in SUBSET Jobs
  BY DEF Init
<1>2. TypeOK
  <2>1. job \in [Jobs -> Alive \cup {"off", "done"}] /\ tick \in [Jobs -> 0..1]
    BY DEF Init
  <2>2. inShutdown \in BOOLEAN /\ cancelled \in BOOLEAN
    BY DEF Init
  <2> QED
    BY <1>1, <2>1, <2>2 DEF Init, TypeOK
<1>3. Progress
  BY DEF Init, Progress
<1> QED
  BY <1>2, <1>3 DEF Init, LifecycleInv

\* os.Exit from any place but the end of main leaves the invariant true.
LEMMA ExitError == ASSUME LifecycleInv, Exit("error") PROVE LifecycleInv'
  BY DEF LifecycleInv, TypeOK, Progress, Drained, Exit, mainVars, serverVars, jobVars, sigVars

\* main's steps up to the select begin nothing that must have ended by then.
LEMMA BootStep ==
  ASSUME LifecycleInv,
         \/ Configure \/ OpenDb \/ Initialise \/ BootFails
         \/ Serve \/ StartJobs \/ Notify
  PROVE  LifecycleInv'
<1>1. CASE BootFails
  BY <1>1, ExitError DEF BootFails
<1>2. CASE Configure \/ OpenDb \/ Initialise \/ Serve \/ Notify
  BY <1>2 DEF LifecycleInv, TypeOK, Progress, Drained, Configure, OpenDb, Initialise, Serve,
              Notify, mainVars, serverVars, jobVars, sigVars
<1>3. CASE StartJobs
  BY <1>3 DEF LifecycleInv, TypeOK, Progress, Drained, Alive, StartJobs, serverVars, sigVars
<1> QED
  BY <1>1, <1>2, <1>3

\* main's steps from the select on: Wait drains the jobs, Shutdown the requests, and only
\* then is the database closed.
LEMMA StopStep ==
  ASSUME LifecycleInv,
         \/ \E failed \in {"no", "yes"} : Select(failed)
         \/ Wait \/ ShutdownDone \/ ShutdownTimeout
         \/ Stopped \/ StoppedFailed \/ Return
  PROVE  LifecycleInv'
<1>1. CASE ShutdownTimeout \/ StoppedFailed
  BY <1>1, ExitError DEF ShutdownTimeout, StoppedFailed
<1>2. ASSUME NEW failed \in {"no", "yes"}, Select(failed) PROVE LifecycleInv'
  BY <1>2 DEF LifecycleInv, TypeOK, Progress, Drained, Select, serverVars, jobVars, sigVars
<1>3. CASE Wait
  BY <1>3 DEF LifecycleInv, TypeOK, Progress, Drained, Wait, serverVars, jobVars, sigVars
<1>4. CASE ShutdownDone
  BY <1>4 DEF LifecycleInv, TypeOK, Progress, Drained, ShutdownDone, serverVars, jobVars, sigVars
<1>5. CASE Stopped
  BY <1>5 DEF LifecycleInv, TypeOK, Progress, Drained, Stopped, serverVars, jobVars, sigVars
<1>6. CASE Return
  BY <1>6 DEF LifecycleInv, TypeOK, Progress, Drained, Return, Exit, serverVars, jobVars, sigVars
<1> QED
  BY <1>1, <1>2, <1>3, <1>4, <1>5, <1>6

\* The server's goroutines leave no connection and no request behind: what begins once
\* Shutdown has begun, begins before it returns.
LEMMA ServerStep == ASSUME LifecycleInv, ListenAndServe PROVE LifecycleInv'
<1>1. CASE Listen \/ ListenFails \/ ListenReturns
  BY <1>1 DEF LifecycleInv, TypeOK, Progress, Drained, Listen, ListenFails, ListenReturns,
              mainVars, jobVars, sigVars
<1>2. ASSUME NEW r \in Requests,
             Accept(r) \/ Request(r) \/ Respond(r) \/ CloseConn(r)
      PROVE  LifecycleInv'
  BY <1>2 DEF LifecycleInv, TypeOK, Progress, Drained, Accept, Request, Respond, CloseConn,
              mainVars, jobVars, sigVars
<1> QED
  BY <1>1, <1>2 DEF ListenAndServe

\* A job that has ended, or was never started, does not come back (runPeriodic).
LEMMA JobStep ==
  ASSUME LifecycleInv, NEW j \in Jobs, runPeriodic(j) \/ Tick(j)
  PROVE  LifecycleInv'
<1>1. TypeOK' /\ Progress'
  BY DEF LifecycleInv, TypeOK, Progress, Alive, runPeriodic, JobReturns, JobRuns, JobDone, Tick,
         mainVars, serverVars, sigVars
<1>2. Drained => Drained'
  BY DEF LifecycleInv, TypeOK, Drained, Alive, runPeriodic, JobReturns, JobRuns, JobDone, Tick
<1>3. pc' = pc /\ conns' = conns /\ active' = active /\ server' = server
  BY DEF runPeriodic, JobReturns, JobRuns, JobDone, Tick, mainVars, serverVars
<1> QED
  BY <1>1, <1>2, <1>3 DEF LifecycleInv

\* Every step of main, the server, the jobs and the environment preserves the invariant.
LEMMA NextInv == LifecycleInv /\ [Next]_vars => LifecycleInv'
<1> SUFFICES ASSUME LifecycleInv, [Next]_vars
             PROVE  LifecycleInv'
  OBVIOUS
<1>1. CASE UNCHANGED vars
  BY <1>1 DEF LifecycleInv, TypeOK, Progress, Drained, vars, mainVars, serverVars, jobVars,
              sigVars
<1>2. CASE Running
  <2>1. CASE Signal
    BY <1>2, <2>1 DEF LifecycleInv, TypeOK, Progress, Drained, Running, Signal, mainVars,
                      serverVars, jobVars
  <2> QED
    BY <1>2, <2>1, BootStep, StopStep, ServerStep, JobStep DEF Running, Step, Main
<1> QED
  BY <1>1, <1>2 DEF Next, Ended

\* The invariant of main's start and stop holds in every behaviour, for any jobs, requests
\* and number of signals.
THEOREM Invariance == Spec => []LifecycleInv
  BY InitInv, NextInv, PTL DEF Spec

\* DbOutlivesUsers holds in every behaviour: neither a late tick, a late request nor a
\* timeout of Shutdown closes the database under a job or a request.
THEOREM DbOutlives == Spec => []DbOutlivesUsers
<1>1. LifecycleInv => DbOutlivesUsers
  BY DEF LifecycleInv, Progress, DbOutlivesUsers
<1> QED
  BY <1>1, Invariance, PTL

\* CleanExit holds in every behaviour: main reports success only after a signal and a
\* complete drain.
THEOREM ExitsClean == Spec => []CleanExit
<1>1. LifecycleInv => CleanExit
  BY DEF LifecycleInv, Progress, CleanExit
<1> QED
  BY <1>1, Invariance, PTL
=============================================================================
