------------------------------- MODULE Server -------------------------------
(***************************************************************************)
(* One server process from boot to exit (server.go, env/, the Configure    *)
(* functions it calls), with the reset emails (ResetEmail) and the welcome *)
(* flows (WelcomeFlow) it works while it runs, and launched again after a  *)
(* stop or a crash.  River's tables, Inngest and the accounts outlive it.  *)
(***************************************************************************)
EXTENDS ResetEmail

CONSTANTS
    Clis, Retries,  \* of WelcomeFlow
    Deployments,    \* environments: whether APP_ENV is production, APP_URL and MAIL_FROM set
    MaxLaunches     \* bound: how often the process is launched

ASSUME ServerParameters ==
    /\ MaxLaunches \in Nat
    /\ Retries \in Nat
    /\ Deployments \subseteq [production: BOOLEAN, url: BOOLEAN, mailFrom: BOOLEAN]

VARIABLES
    conf,       \* the environment it is launched in
    step,       \* where run() is: the next step of the boot, or later
    deferred,   \* what its deferred functions are to flush or close
    outbox,     \* mailer.Outbox
    launches,
    misled,     \* history: mail that stayed in the log or carried a dead link
    torn        \* history: a crash or an early return under running workers

VARIABLES cli, address, flow, tries, made, welcomed    \* of WelcomeFlow

\* createuser makes the accounts that the reset form looks up.
Welcome == INSTANCE WelcomeFlow WITH
              users <- accounts, Addresses <- Emails, NoAddress <- NoEmail

process  == <<conf, step, deferred, outbox, launches, misled, torn>>
flowVars == <<cli, address, made, flow, tries, welcomed>>
vars     == <<jobVars, flowVars, process>>

\* run, step by step, each named for what it configures or starts.
StartFirst == [env |-> "telemetry", telemetry |-> "db", db |-> "jobs", jobs |-> "mailer",
               mailer |-> "flows", flows |-> "listen", listen |-> "serving"]  \* (fault)

Following == [env |-> "telemetry", telemetry |-> "db", db |-> "mailer", mailer |-> "jobs",
              jobs |-> "flows", flows |-> "listen", listen |-> "serving"]

Init ==
    /\ JobInit
    /\ Welcome!FlowInit
    /\ conf \in Deployments
    /\ step = "down"
    /\ deferred = {}
    /\ outbox = "log"
    /\ launches = 0
    /\ misled = FALSE
    /\ torn = FALSE

Running == step /= "down"
Pool == "pool" \in deferred

-----------------------------------------------------------------------------
(* Boot: each step succeeds, or run returns its error.                     *)

Launch ==
    /\ step = "down"
    /\ launches < MaxLaunches
    /\ launches' = launches + 1
    /\ step' = "env"
    /\ deferred' = {}
    /\ outbox' = "log"
    /\ UNCHANGED <<jobVars, flowVars, conf, misled, torn>>

\* env.Load: production has to say its origin and its sender.
Loads == conf.production => conf.url /\ conf.mailFrom

Load ==
    /\ step = "env"
    /\ Loads
    /\ step' = Following[step]
    /\ UNCHANGED <<jobVars, flowVars, conf, deferred, outbox, launches, misled, torn>>

SwappedLeaves == [telemetry |-> "pool", db |-> "reports"]  \* (fault)

\* The steps that leave something to a deferred function: telemetry.Configure
\* with ConfigureSentry, and db.Configure (whose ping has to be answered).
Leaves == [telemetry |-> "reports", db |-> "pool"]

Open(s) ==
    /\ step = s
    /\ s \in DOMAIN Leaves
    /\ deferred' = deferred \cup {Leaves[s]}
    /\ step' = Following[s]
    /\ UNCHANGED <<jobVars, flowVars, conf, outbox, launches, misled, torn>>

\* The swap of the Outbox for SES, where MAIL_FROM says so.
SwapOutbox ==
    /\ step = "mailer"
    /\ outbox' = IF conf.mailFrom THEN "ses" ELSE "log"
    /\ step' = Following[step]
    /\ UNCHANGED <<jobVars, flowVars, conf, deferred, launches, misled, torn>>

\* flows.Configure (with web.Router before it), the bind of ListenAndServe.
Proceed ==
    /\ step \in {"flows", "listen"}
    /\ step' = Following[step]
    /\ UNCHANGED <<jobVars, flowVars, conf, deferred, outbox, launches, misled, torn>>

\* jobs.Configure and jobs.Start.
JobsStart ==
    /\ step = "jobs"
    /\ StartWorkers
    /\ step' = Following[step]
    /\ UNCHANGED <<flowVars, conf, deferred, outbox, launches, misled, torn>>

\* Any of them may fail.  Past jobs.Start the return leaves the workers
\* running while the deferred functions close the pool under them.
BootFails ==
    /\ step \in DOMAIN Following
    /\ step' = "closing"
    /\ torn' = (torn \/ workers = "on")
    /\ UNCHANGED <<jobVars, flowVars, conf, deferred, outbox, launches, misled>>

-----------------------------------------------------------------------------
(* Shutdown: a signal, srv.Shutdown, <-drained, jobs.Stop, the deferred    *)
(* functions.                                                              *)

Signal ==
    /\ step = "serving"
    /\ step' = "draining"
    /\ UNCHANGED <<jobVars, flowVars, conf, deferred, outbox, launches, misled, torn>>

InHandler == {r \in Requests : pc[r] \in {"asked", "counted", "found"}}

\* Shutdown returns when the handlers have, or after 15 s; drained is closed
\* either way, and jobs.Stop begins.
DrainedOnly ==  \* (fault)
    /\ step = "draining"
    /\ step' = "closing"
    /\ UNCHANGED <<jobVars, flowVars, conf, deferred, outbox, launches, misled, torn>>

DrainedWhenIdle ==  \* (fault)
    /\ step = "draining"
    /\ InHandler = {}
    /\ step' = "stopping"
    /\ SoftStop
    /\ UNCHANGED <<flowVars, conf, deferred, outbox, launches, misled, torn>>

Drained ==
    /\ step = "draining"
    /\ step' = "stopping"
    /\ SoftStop
    /\ UNCHANGED <<flowVars, conf, deferred, outbox, launches, misled, torn>>

\* The 15 s for the jobs expire: StopAndCancel.
StopExpires ==
    /\ step = "stopping"
    /\ CancelJobs
    /\ UNCHANGED <<flowVars, process>>

JobsStopped ==
    /\ step = "stopping"
    /\ Stopped
    /\ step' = "closing"
    /\ UNCHANGED <<flowVars, conf, deferred, outbox, launches, misled, torn>>

\* The pool, then the events and the traces; each flush has 5 s.
Close ==
    /\ step = "closing"
    /\ deferred /= {}
    /\ deferred' = IF Pool THEN deferred \ {"pool"} ELSE {}
    /\ UNCHANGED <<jobVars, flowVars, conf, step, outbox, launches, misled, torn>>

Exit ==
    /\ step = "closing"
    /\ deferred = {}
    /\ step' = "down"
    /\ Die
    /\ UNCHANGED <<flowVars, conf, deferred, outbox, launches, misled, torn>>

Crash ==
    /\ Running
    /\ step' = "down"
    /\ torn' = TRUE
    /\ Die
    /\ UNCHANGED <<flowVars, conf, deferred, outbox, launches, misled>>

-----------------------------------------------------------------------------
(* What the process does meanwhile.                                        *)

\* The router takes requests while the server serves.
Serve(r) ==
    /\ step = "serving"
    /\ \E e \in Emails : Ask(r, e)
    /\ UNCHANGED <<flowVars, process>>

\* Handlers and workers need the pool; without it their queries fail.
Query(r) ==
    /\ Pool
    /\ Querying(r) \/ Recording(r)
    /\ UNCHANGED <<flowVars, process>>

Trouble(r) ==
    /\ Running
    /\ Unanswered(r) \/ WorkFails(r) \/ WorkPanics(r)
    /\ UNCHANGED <<flowVars, process>>

\* Production mail is to leave, with a link to the production origin.
Misled == conf.production /\ (outbox = "log" \/ ~conf.url)

Mail(r) ==
    /\ Deliver(r)
    /\ misled' = (misled \/ Misled)
    /\ UNCHANGED <<flowVars, conf, step, deferred, outbox, launches, torn>>

\* createuser is a process of its own.
Cli(c) ==
    /\ \/ \E a \in Emails : Welcome!Hash(c, a)
       \/ Welcome!Insert(c)
       \/ Welcome!InsertFails(c)
       \/ Welcome!Send(c)
    /\ UNCHANGED <<request, job, workers, history, process>>

\* Inngest calls the server, or waits.
Flow(c) ==
    /\ \/ step = "serving" /\ Welcome!Called(c)
       \/ Welcome!StepFails(c)
       \/ Welcome!Sleep(c)
    /\ misled' = (misled \/ (welcomed' /= welcomed /\ conf.production /\ outbox = "log"))
    /\ UNCHANGED <<request, job, workers, history, conf, step, deferred, outbox, launches, torn>>

\* Some operator deletes an account.
Delete(e) ==
    /\ DeleteAccount(e)
    /\ UNCHANGED <<flowVars, process>>

Terminating ==
    /\ step = "down" /\ launches = MaxLaunches
    /\ UNCHANGED vars

Boot == Load \/ (\E s \in DOMAIN Leaves : Open(s)) \/ SwapOutbox \/ Proceed \/ JobsStart
Shutdown == Drained \/ StopExpires \/ JobsStopped \/ Close \/ Exit
Handle(r) == Serve(r) \/ Query(r) \/ Trouble(r) \/ Mail(r)

Next ==
    \/ Launch \/ Boot \/ BootFails \/ Signal \/ Shutdown \/ Crash
    \/ \E r \in Requests : Handle(r)
    \/ \E c \in Clis : Cli(c) \/ Flow(c)
    \/ \E e \in Emails : Delete(e)
    \/ Terminating

\* Once begun, boot and shutdown go on.  Queries and provider calls end, by
\* their own timeouts if not otherwise, and River works what it finds.  No
\* handler has to end in time for the drain, nothing has to fail or crash.
Works(r) == Query(r) \/ Mail(r) \/ (WorkFails(r) /\ UNCHANGED <<flowVars, process>>)

Fairness ==
    /\ WF_vars(Boot \/ BootFails)
    /\ WF_vars(Shutdown)
    /\ \A r \in Requests :
          WF_vars(work[r] /= "none" /\ Works(r)) /\ WF_vars(row[r] /= "none" /\ Works(r))

Spec == Init /\ [][Next]_vars /\ Fairness

-----------------------------------------------------------------------------

TypeOK ==
    /\ JobTypeOK
    /\ Welcome!FlowTypeOK
    /\ conf \in Deployments
    /\ step \in DOMAIN Following \cup {"serving", "draining", "stopping", "closing", "down"}
    /\ deferred \in {{}, {"reports"}, {"pool", "reports"}}
    /\ outbox \in {"log", "ses"}
    /\ launches \in 0..MaxLaunches
    /\ misled \in BOOLEAN /\ torn \in BOOLEAN

\* "production email silently goes nowhere but the logs", "dead links in
\* production email" (env/env.go:25-31), and "before any worker that sends
\* mail starts" (server.go:77): neither happens to a job left over from an
\* earlier life of the server that River fetches the moment it starts.
ProductionMailLeaves == ~misled

\* A signalled shutdown hands every job back, on the soft path and on the
\* cancelled one: a row that runs without a worker, to be found by the rescuer
\* an hour later, takes a crash or a boot that failed after jobs.Start.
OrphansNeedACrash == \A r \in Requests : Orphaned(r) => torn

\* The pool outlives the workers it serves: closed under them only where a
\* boot failed after jobs.Start (server.go:98-140).
PoolOutlivesWork == ~Pool /\ Running /\ ~Idle => torn

\* Nobody is welcomed to an account that was never committed, however the
\* createuser runs for one address race (cmd/createuser/main.go:47-67).
WelcomeFollowsAccount == Welcome!WelcomeFollowsAccount

\* Shutdown ends, though handlers may outlast the drain and jobs their soft
\* stop: the queries that hold the connections db.Close waits for do end.
ShutdownEnds == step = "draining" ~> step = "down"

Ended(r) == row[r] \in {"completed", "discarded"}

\* An enqueued mail is worked to its end if the server stays up, whatever
\* crashes and shutdowns came first.
EveryJobEnds ==
    <>[](workers = "on" /\ step = "serving") =>
        \A r \in Requests : row[r] /= "none" ~> Ended(r)
=============================================================================
