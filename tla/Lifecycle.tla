----------------------------- MODULE Lifecycle ------------------------------
(***************************************************************************)
(* The life of one provider process: main boots, serves HTTP in one        *)
(* goroutine and runs the periodic jobs in one goroutine each, waits for a  *)
(* signal or for the server to fail, drains the jobs, then the requests,   *)
(* and returns.  What a job or a request does is in the other modules;     *)
(* here it holds the database for a while.                                 *)
(***************************************************************************)
EXTENDS Naturals

CONSTANTS
  Jobs,          \* the periodic jobs: rescan, announce sweep, cleanup
  Requests,      \* HTTP requests that can be in progress at once
  MaxSignals     \* bound: signals sent to the process

ASSUME LifecycleAssumption == MaxSignals \in Nat

VARIABLES
  pc,            \* where main is
  enabled,       \* the jobs the configuration starts: all or none
  db,            \* "none", "open" or "closed"
  server,        \* the goroutine in ListenAndServe
  errCh,         \* errors in errCh, a buffered channel
  inShutdown,    \* srv.Shutdown has begun
  job, tick,     \* of each job: its goroutine; values in its ticker's channel
  cancelled,     \* jobsCancel has been called
  conns, active, \* connections accepted and not in a request; requests being handled
  signals, sigCh,    \* signals sent; values in sigCh
  serverFailed,  \* the local variable of main, with "unset" before the select
  exit           \* "no" while the process runs, else how it ended

mainVars == <<pc, enabled, db, inShutdown, cancelled, serverFailed, exit>>
serverVars == <<server, errCh, conns, active>>
jobVars == <<job, tick>>
sigVars == <<signals, sigCh>>
vars == <<mainVars, serverVars, jobVars, sigVars>>

Alive == {"first", "run", "wait"}

TypeOK ==
  /\ pc \in {"config", "open", "init", "serve", "jobs", "notify", "select", "drain",
             "shutdown", "stopped", "returned"}
  /\ enabled \in SUBSET Jobs
  /\ db \in {"none", "open", "closed"}
  /\ server \in {"off", "starting", "listening", "failed", "closed"}
  /\ errCh \in 0..1
  /\ inShutdown \in BOOLEAN
  /\ job \in [Jobs -> Alive \cup {"off", "done"}]
  /\ tick \in [Jobs -> 0..1]
  /\ cancelled \in BOOLEAN
  /\ conns \subseteq Requests /\ active \subseteq Requests
  /\ signals \in Nat
  /\ sigCh \in 0..1
  /\ serverFailed \in {"unset", "no", "yes"}
  /\ exit \in {"no", "ok", "error", "killed"}

Init ==
  /\ pc = "config"
  /\ enabled \in {{}, Jobs}
  /\ db = "none"
  /\ server = "off"
  /\ errCh = 0
  /\ inShutdown = FALSE
  /\ job = [j \in Jobs |-> "off"]
  /\ tick = [j \in Jobs |-> 0]
  /\ cancelled = FALSE
  /\ conns = {}
  /\ active = {}
  /\ signals = 0
  /\ sigCh = 0
  /\ serverFailed = "unset"
  /\ exit = "no"

-----------------------------------------------------------------------------
(* main, up to the select *)

\* os.Exit ends every goroutine and runs no deferred call.
Exit(code) ==
  /\ exit' = code
  /\ UNCHANGED <<pc, enabled, db, inShutdown, cancelled, serverFailed, serverVars,
                 jobVars, sigVars>>

\* configuration, directories, identity; a symlink found by the audit or a bad secret
\* of the origin is only logged
Configure ==
  /\ pc = "config"
  /\ pc' = "open"
  /\ UNCHANGED <<enabled, db, inShutdown, cancelled, serverFailed, exit, serverVars,
                 jobVars, sigVars>>

OpenDb ==
  /\ pc = "open"
  /\ db' = "open"
  /\ pc' = "init"
  /\ UNCHANGED <<enabled, inShutdown, cancelled, serverFailed, exit, serverVars, jobVars,
                 sigVars>>

\* migration, startup scan, catalog client; an error of the catalog is only recorded
Initialise ==
  /\ pc = "init"
  /\ pc' = "serve"
  /\ UNCHANGED <<enabled, db, inShutdown, cancelled, serverFailed, exit, serverVars,
                 jobVars, sigVars>>

\* any error up to here that is not just logged ends the process
BootFails ==
  /\ pc \in {"config", "open", "init"}
  /\ Exit("error")

Serve ==
  /\ pc = "serve"
  /\ server' = "starting"
  /\ pc' = "jobs"
  /\ UNCHANGED <<enabled, db, errCh, inShutdown, cancelled, conns, active, serverFailed,
                 exit, jobVars, sigVars>>

StartJobs ==
  /\ pc = "jobs"
  /\ job' = [j \in Jobs |-> IF j \in enabled THEN "first" ELSE "off"]
  /\ pc' = "notify"
  /\ UNCHANGED <<enabled, db, inShutdown, tick, cancelled, serverFailed, exit,
                 serverVars, sigVars>>

\* from here on a signal goes to sigCh
Notify ==
  /\ pc = "notify"
  /\ pc' = "select"
  /\ UNCHANGED <<enabled, db, inShutdown, cancelled, serverFailed, exit, serverVars,
                 jobVars, sigVars>>

-----------------------------------------------------------------------------
(* main, from the select on *)

\* mutant: the jobs are waited for before they are told to stop
SelectNotCancelling(failed) ==
  /\ pc = "select"
  /\ IF failed = "yes" THEN errCh > 0 ELSE sigCh > 0
  /\ errCh' = IF failed = "yes" THEN errCh - 1 ELSE errCh
  /\ sigCh' = IF failed = "yes" THEN sigCh ELSE sigCh - 1
  /\ serverFailed' = failed
  /\ pc' = "drain"
  /\ UNCHANGED <<enabled, db, server, inShutdown, cancelled, conns, active, signals, exit,
                 jobVars>>

\* a signal or an error, whichever is there, and jobsCancel
Select(failed) ==
  /\ pc = "select"
  /\ IF failed = "yes" THEN errCh > 0 ELSE sigCh > 0
  /\ errCh' = IF failed = "yes" THEN errCh - 1 ELSE errCh
  /\ sigCh' = IF failed = "yes" THEN sigCh ELSE sigCh - 1
  /\ serverFailed' = failed
  /\ cancelled' = TRUE
  /\ pc' = "drain"
  /\ UNCHANGED <<enabled, db, server, inShutdown, conns, active, signals, exit, jobVars>>

\* mutant: Shutdown begins without waiting for the jobs
WaitForNone ==
  /\ pc = "drain"
  /\ inShutdown' = TRUE
  /\ pc' = "shutdown"
  /\ UNCHANGED <<enabled, db, cancelled, serverFailed, exit, serverVars, jobVars,
                 sigVars>>

\* jobRunner.Wait has returned, and Shutdown closes the listener
Wait ==
  /\ pc = "drain"
  /\ \A j \in Jobs : job[j] \notin Alive
  /\ inShutdown' = TRUE
  /\ pc' = "shutdown"
  /\ UNCHANGED <<enabled, db, cancelled, serverFailed, exit, serverVars, jobVars,
                 sigVars>>

\* Serve has returned, no request is being handled and no connection is left
ShutdownDone ==
  /\ pc = "shutdown"
  /\ server # "listening"
  /\ conns = {} /\ active = {}
  /\ pc' = "stopped"
  /\ UNCHANGED <<enabled, db, inShutdown, cancelled, serverFailed, exit, serverVars,
                 jobVars, sigVars>>

\* mutant: after the timeout main goes on as if the requests had ended
ShutdownTimeoutIgnored ==
  /\ pc = "shutdown"
  /\ pc' = "stopped"
  /\ UNCHANGED <<enabled, db, inShutdown, cancelled, serverFailed, exit, serverVars,
                 jobVars, sigVars>>

\* the timeout may strike while the last request ends; srv.Close and os.Exit
ShutdownTimeout ==
  /\ pc = "shutdown"
  /\ Exit("error")

\* mutant: the failure of the server is not remembered
StoppedClean ==
  /\ pc = "stopped"
  /\ db' = "closed"
  /\ pc' = "returned"
  /\ UNCHANGED <<enabled, inShutdown, cancelled, serverFailed, exit, serverVars, jobVars,
                 sigVars>>

\* main returns: the deferred sqlDB.Close, while other goroutines still run
Stopped ==
  /\ pc = "stopped"
  /\ serverFailed = "no"
  /\ db' = "closed"
  /\ pc' = "returned"
  /\ UNCHANGED <<enabled, inShutdown, cancelled, serverFailed, exit, serverVars, jobVars,
                 sigVars>>

StoppedFailed ==
  /\ pc = "stopped"
  /\ serverFailed = "yes"
  /\ Exit("error")

Return ==
  /\ pc = "returned"
  /\ Exit("ok")

-----------------------------------------------------------------------------
(* the goroutine of the server *)

Listen ==
  /\ server = "starting"
  /\ ~inShutdown
  /\ server' = "listening"
  /\ UNCHANGED <<errCh, conns, active, mainVars, jobVars, sigVars>>

\* mutant: the error is dropped
ListenFailsSilently ==
  /\ server \in {"starting", "listening"}
  /\ ~inShutdown
  /\ server' = "failed"
  /\ UNCHANGED <<errCh, conns, active, mainVars, jobVars, sigVars>>

\* the address cannot be bound, or Accept fails later on
ListenFails ==
  /\ server \in {"starting", "listening"}
  /\ ~inShutdown
  /\ server' = "failed"
  /\ errCh' = 1
  /\ UNCHANGED <<conns, active, mainVars, jobVars, sigVars>>

\* ErrServerClosed, also when ListenAndServe is only called after Shutdown
ListenReturns ==
  /\ server \in {"starting", "listening"}
  /\ inShutdown
  /\ server' = "closed"
  /\ UNCHANGED <<errCh, conns, active, mainVars, jobVars, sigVars>>

\* the listener may be closed before Serve has dealt with what it accepted
Accept(r) ==
  /\ server = "listening"
  /\ r \notin conns \cup active
  /\ conns' = conns \cup {r}
  /\ UNCHANGED <<server, errCh, active, mainVars, jobVars, sigVars>>

\* a request comes on its connection, also when nothing more is accepted
Request(r) ==
  /\ r \in conns
  /\ conns' = conns \ {r}
  /\ active' = active \cup {r}
  /\ UNCHANGED <<server, errCh, mainVars, jobVars, sigVars>>

\* the connection is kept for another request, but not during Shutdown
Respond(r) ==
  /\ r \in active
  /\ active' = active \ {r}
  /\ conns' = conns \/ (~inShutdown /\ conns' = conns \cup {r})
  /\ UNCHANGED <<server, errCh, mainVars, jobVars, sigVars>>

\* by the client, by a timeout, or by Shutdown as an idle one
CloseConn(r) ==
  /\ r \in conns
  /\ conns' = conns \ {r}
  /\ UNCHANGED <<server, errCh, active, mainVars, jobVars, sigVars>>

-----------------------------------------------------------------------------
(* the goroutine of a job: runPeriodic *)

\* mutant: an error of the job ends its loop
JobReturnsForGood(j) ==
  /\ job[j] \in {"first", "run"}
  /\ job' = [job EXCEPT ![j] = "done"]
  /\ UNCHANGED <<tick, mainVars, serverVars, sigVars>>

\* fn returns, with or without an error; after the first time the ticker starts
JobReturns(j) ==
  /\ job[j] \in {"first", "run"}
  /\ job' = [job EXCEPT ![j] = "wait"]
  /\ UNCHANGED <<tick, mainVars, serverVars, sigVars>>

\* a tick that finds the channel full is dropped
Tick(j) ==
  /\ job[j] \in {"wait", "run"}
  /\ tick[j] = 0
  /\ tick' = [tick EXCEPT ![j] = 1]
  /\ UNCHANGED <<job, mainVars, serverVars, sigVars>>

\* select may take a tick although the context is done
JobRuns(j) ==
  /\ job[j] = "wait"
  /\ tick[j] = 1
  /\ tick' = [tick EXCEPT ![j] = 0]
  /\ job' = [job EXCEPT ![j] = "run"]
  /\ UNCHANGED <<mainVars, serverVars, sigVars>>

JobDone(j) ==
  /\ job[j] = "wait"
  /\ cancelled
  /\ job' = [job EXCEPT ![j] = "done"]
  /\ UNCHANGED <<tick, mainVars, serverVars, sigVars>>

-----------------------------------------------------------------------------
\* SIGINT or SIGTERM: before Notify it kills the process, after it a full sigCh drops it
Signal ==
  /\ signals < MaxSignals
  /\ signals' = signals + 1
  /\ LET notified == pc \notin {"config", "open", "init", "serve", "jobs", "notify"}
     IN  /\ exit' = IF notified THEN exit ELSE "killed"
         /\ sigCh' = IF notified THEN 1 ELSE sigCh
  /\ UNCHANGED <<pc, enabled, db, inShutdown, cancelled, serverFailed, serverVars,
                 jobVars>>

Main ==
  \/ Configure \/ OpenDb \/ Initialise \/ BootFails
  \/ Serve \/ StartJobs \/ Notify
  \/ \E failed \in {"no", "yes"} : Select(failed)
  \/ Wait \/ ShutdownDone \/ ShutdownTimeout
  \/ Stopped \/ StoppedFailed \/ Return

ListenAndServe ==
  \/ Listen \/ ListenFails \/ ListenReturns
  \/ \E r \in Requests : Accept(r) \/ Request(r) \/ Respond(r) \/ CloseConn(r)

runPeriodic(j) == JobReturns(j) \/ JobRuns(j) \/ JobDone(j)

Step ==
  \/ Main
  \/ ListenAndServe
  \/ \E j \in Jobs : runPeriodic(j) \/ Tick(j)
  \/ Signal

Running == exit = "no" /\ Step

\* a process that has ended takes no step
Ended == exit # "no" /\ UNCHANGED vars

Next == Running \/ Ended

Spec == Init /\ [][Next]_vars

\* Every goroutine that can run does run.  A job's function returns: its queries and
\* calls take a context or a timeout.  Its select picks at random, so it does not
\* take a tick every time the context is done as well.  The ticker ticks, and the
\* timeout of Shutdown strikes.  No request owes an end.
FairSpec ==
  /\ Spec
  /\ WF_vars(exit = "no" /\ Main)
  /\ \A j \in Jobs :
       /\ WF_vars(exit = "no" /\ runPeriodic(j))
       /\ SF_vars(exit = "no" /\ JobDone(j))
       /\ WF_vars(exit = "no" /\ Tick(j))

-----------------------------------------------------------------------------
Drained == \A j \in Jobs : job[j] \notin Alive

\* DbOutlivesUsers.  The database is closed only when no job and no request that could
\* use it is left, and none can begin (main: Wait, then Shutdown, then the
\* deferred Close).
DbOutlivesUsers ==
  db = "closed" => conns = {} /\ active = {} /\ Drained

\* CleanExit.  Exit status 0 says that a signal stopped the provider, that the database was
\* closed, that every job ended and that no request was cut off (main's exits).
CleanExit ==
  exit = "ok" =>
    /\ db = "closed"
    /\ signals > 0 /\ serverFailed = "no"
    /\ active = {} /\ Drained

\* ShutdownEnds.  A signal that reaches sigCh ends the process, however long the requests
\* in progress take and whatever the jobs are doing (main's select, jobsCancel,
\* Wait and the timeout of Shutdown).
ShutdownEnds == sigCh = 1 ~> exit # "no"

\* FailureEnds.  A server that cannot listen or accept any more ends the process: it never
\* stays up with nothing but its jobs (the goroutine of ListenAndServe, errCh).
FailureEnds == server = "failed" ~> exit # "no"

\* JobsKeepRunning.  Each job runs again and again until the jobs are cancelled, whatever
\* errors its runs end with (runPeriodic).
JobsKeepRunning ==
  \A j \in Jobs :
    []<>(j \notin enabled \/ job[j] \in {"first", "run"} \/ cancelled \/ exit # "no")

-----------------------------------------------------------------------------
(* The parts of the inductive invariant behind the properties above. *)

\* where main must be for what it has done
Progress ==
  /\ db = "closed" <=> pc = "returned"
  /\ inShutdown <=> pc \in {"shutdown", "stopped", "returned"}
  /\ exit = "ok" => pc = "returned"
  /\ pc = "returned" => serverFailed = "no"
  /\ serverFailed = "no" \/ sigCh > 0 => signals > 0

\* LifecycleInv.  The inductive invariant: the jobs are drained before Shutdown begins and
\* the requests before it returns, and neither comes back (main).
LifecycleInv ==
  /\ TypeOK
  /\ Progress
  /\ pc \in {"shutdown", "stopped", "returned"} => Drained
  /\ pc \in {"stopped", "returned"} => conns = {} /\ active = {} /\ server # "listening"
=============================================================================
