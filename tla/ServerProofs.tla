---------------------------- MODULE ServerProofs ----------------------------
(***************************************************************************)
(* The server from boot to exit, for any number of requests, accounts,     *)
(* createuser runs and launches: what it does to the reset mails is what   *)
(* ResetEmail allows; no orphan without a crash; the pool outlives the     *)
(* work; production mail leaves; welcomes follow accounts.  First the      *)
(* reset mails on their own, last the loggers that boot configures.        *)
(***************************************************************************)
EXTENDS Server, LoggerManager, TLAPS

-----------------------------------------------------------------------------
(* The reset mails (ResetEmail), for any number of requests, accounts and  *)
(* attempts.  A report is made when Work returns and the row is updated    *)
(* later, or never if the process dies in between; Failing joins the two.  *)

\* The attempt that fails last has been reported, with an error or a panic.
Heard(r) == \E how \in {"error", "panic"} : <<MaxAttempts, how>> \in reported[r]

Failing ==
    \A r \in Requests :
        /\ pc[r] = "found" => row[r] = "none"
        /\ row[r] \in {"none", "available"} => attempt[r] < MaxAttempts
        /\ row[r] = "running" => attempt[r] > 0
        /\ work[r] /= "none" => row[r] = "running"
        /\ work[r] = "failed" /\ attempt[r] = MaxAttempts => Heard(r)
        /\ \A a \in 1..MaxAttempts : <<a, "error">> \in reported[r] =>
              /\ a = MaxAttempts /\ attempt[r] = MaxAttempts
              /\ work[r] \in {"none", "failed"} /\ row[r] /= "completed"

IndInv == JobTypeOK /\ MailCounted /\ ReportsMatchDiscards /\ Failing

LEMMA InitInv == JobInit => IndInv
BY JobParameters DEF JobInit, IndInv, JobTypeOK, MailCounted, ReportsMatchDiscards, Failing, Heard

\* A step of one request, in its handler or in its job.
LEMMA RequestStep ==
  ASSUME IndInv, NEW r \in Requests,
         (\E e \in Emails : Ask(r, e)) \/ Querying(r) \/ Unanswered(r)
            \/ Recording(r) \/ Deliver(r) \/ WorkFails(r) \/ WorkPanics(r)
  PROVE  IndInv'
<1> USE JobParameters
<1>1. ASSUME NEW e \in Emails, Ask(r, e) PROVE IndInv'
  BY <1>1 DEF IndInv, JobTypeOK, MailCounted, ReportsMatchDiscards, Failing, Heard, Ask, At, request, job, history
<1>2. CASE Throttled(r) \/ Count(r) \/ LookUp(r)
  <2> USE <1>2 DEF IndInv, job, history
  <2>1. JobTypeOK'
    BY DEF JobTypeOK, Throttled, Count, LookUp, At
  <2>2. MailCounted'
    <3>1. CASE Throttled(r) \/ Count(r)
      BY <3>1 DEF JobTypeOK, MailCounted, Throttled, Count, At
    <3>2. CASE LookUp(r)
      BY <3>2 DEF JobTypeOK, MailCounted, LookUp, At
    <3> QED
      BY <3>1, <3>2
  <2>3. UNCHANGED <<row, attempt, work, reported, lost>>
    BY DEF Throttled, Count, LookUp
  <2>4. ReportsMatchDiscards'
    BY <2>3 DEF ReportsMatchDiscards
  <2>5. \A q \in Requests : pc'[q] = "found" => row[q] = "none"
    <3>1. CASE Throttled(r) \/ Count(r)
      BY <3>1 DEF JobTypeOK, Failing, Throttled, Count, At
    <3>2. CASE LookUp(r)
      BY <3>2 DEF JobTypeOK, MailCounted, Failing, LookUp, At
    <3> QED
      BY <3>1, <3>2
  <2>6. Failing'
    BY <2>3, <2>5 DEF Failing, Heard
  <2> QED
    BY <2>1, <2>2, <2>4, <2>6
<1>5. CASE Enqueue(r) \/ Unanswered(r)
  <2> USE <1>5 DEF IndInv, history
  <2>1. UNCHANGED <<attempt, work, reported, lost>>
    BY DEF Enqueue, Unanswered
  <2>2. /\ pc[r] \in {"asked", "counted", "found"}
        /\ \E to \in {"answered", "failed"} : pc' = [pc EXCEPT ![r] = to]
        /\ row' = row \/ (row[r] = "none" /\ row' = [row EXCEPT ![r] = "available"])
    BY DEF Enqueue, Unanswered, At, Failing
  <2>3. JobTypeOK'
    BY <2>2 DEF JobTypeOK, Enqueue, Unanswered
  <2>4. MailCounted'
    BY <2>2 DEF JobTypeOK, MailCounted
  <2>5. ReportsMatchDiscards'
    BY <2>1, <2>2 DEF JobTypeOK, ReportsMatchDiscards
  <2>6. \A q \in Requests : pc'[q] = "found" => row'[q] = "none"
    BY <2>2 DEF JobTypeOK, Failing
  <2>7. Failing'
    BY <2>1, <2>2, <2>6 DEF JobTypeOK, Failing, Heard
  <2> QED
    BY <2>3, <2>4, <2>5, <2>7
<1>7. CASE Fetch(r)
  <2> USE <1>7 DEF IndInv, Fetch, Working, request, history
  <2>1. JobTypeOK'
    BY DEF JobTypeOK, Failing
  <2>2. MailCounted'
    BY DEF JobTypeOK, MailCounted
  <2>3. ReportsMatchDiscards'
    BY DEF JobTypeOK, ReportsMatchDiscards
  <2>4. Failing'
    BY DEF JobTypeOK, Failing, Heard
  <2> QED
    BY <2>1, <2>2, <2>3, <2>4
<1>8. CASE Mint(r)
  <2> USE <1>8 DEF IndInv, Mint, Working, request, history
  <2>1. JobTypeOK'
    BY DEF JobTypeOK
  <2>2. MailCounted'
    BY DEF JobTypeOK, MailCounted, Failing
  <2>3. ReportsMatchDiscards'
    BY DEF JobTypeOK, ReportsMatchDiscards, Failing
  <2>4. Failing'
    BY DEF JobTypeOK, MailCounted, Failing, Heard
  <2> QED
    BY <2>1, <2>2, <2>3, <2>4
<1>9. CASE Deliver(r)
  <2> USE <1>9 DEF IndInv, Deliver, Working, HandleError, Reports, request
  <2>1. JobTypeOK'
    BY DEF JobTypeOK, Failing
  <2>2. MailCounted' /\ ReportsMatchDiscards'
    BY DEF JobTypeOK, MailCounted, ReportsMatchDiscards, Failing
  <2>3. Failing'
    BY DEF JobTypeOK, Failing, Heard
  <2> QED
    BY <2>1, <2>2, <2>3
<1>10. CASE WorkFails(r)
  <2> USE <1>10 DEF IndInv, WorkFails, Working, HandleError, Reports, request
  <2>1. JobTypeOK'
    BY DEF JobTypeOK, Failing
  <2>2. MailCounted' /\ ReportsMatchDiscards'
    BY DEF JobTypeOK, MailCounted, ReportsMatchDiscards, Failing
  <2>3. Failing'
    BY DEF JobTypeOK, Failing, Heard
  <2> QED
    BY <2>1, <2>2, <2>3
<1>11. CASE WorkPanics(r)
  <2> USE <1>11 DEF IndInv, WorkPanics, Working, HandlePanic, request
  <2>1. JobTypeOK'
    BY DEF JobTypeOK, Failing
  <2>2. MailCounted' /\ ReportsMatchDiscards'
    BY DEF JobTypeOK, MailCounted, ReportsMatchDiscards, Failing
  <2>3. Failing'
    <3>1. <<attempt[r], "panic">> \in reported'[r]
      BY DEF JobTypeOK
    <3>2. \A q \in Requests, a \in 1..MaxAttempts :
             <<a, "error">> \in reported'[q] => <<a, "error">> \in reported[q]
      BY DEF JobTypeOK
    <3>3. \A q \in Requests : reported[q] \subseteq reported'[q]
      BY DEF JobTypeOK
    <3>4. \A q \in Requests : work'[q] = "failed" /\ attempt'[q] = MaxAttempts => Heard(q)'
      BY <3>1, <3>3 DEF JobTypeOK, Failing, Heard
    <3> QED
      BY <3>2, <3>4 DEF JobTypeOK, Failing
  <2> QED
    BY <2>1, <2>2, <2>3
<1>12. CASE Complete(r)
  <2> USE <1>12 DEF IndInv, Complete, Working, Again, request, history
  <2>1. JobTypeOK'
    BY DEF JobTypeOK
  <2>2. MailCounted'
    BY DEF JobTypeOK, MailCounted, Failing
  <2>3. ReportsMatchDiscards'
    <3>1. row'[r] = "discarded" => Heard(r)
      BY DEF JobTypeOK, Failing
    <3>2. row'[r] = "completed" => \A a \in 1..MaxAttempts : <<a, "error">> \notin reported[r]
      BY DEF JobTypeOK, Failing
    <3>3. \A q \in Requests \ {r} : row'[q] = row[q]
      BY DEF JobTypeOK
    <3> QED
      BY <3>1, <3>2, <3>3 DEF ReportsMatchDiscards, Heard
  <2>4. Failing'
    BY DEF JobTypeOK, Failing, Heard
  <2> QED
    BY <2>1, <2>2, <2>3, <2>4
<1>13. CASE Rescue(r)
  <2> USE <1>13 DEF IndInv, Rescue, Orphaned, Again, request
  <2>1. JobTypeOK'
    BY DEF JobTypeOK
  <2>2. MailCounted' /\ ReportsMatchDiscards'
    BY DEF JobTypeOK, MailCounted, ReportsMatchDiscards, Failing
  <2>3. Failing'
    BY DEF JobTypeOK, Failing, Heard
  <2> QED
    BY <2>1, <2>2, <2>3
<1> QED
  BY <1>1, <1>2, <1>5, <1>7, <1>8, <1>9, <1>10, <1>11, <1>12, <1>13 DEF Querying, Recording

\* A step of the river client or of the accounts touches no job's record.
LEMMA OtherStep ==
  ASSUME IndInv,
         \/ \E e \in Emails : CreateAccount(e) \/ DeleteAccount(e)
         \/ StartWorkers \/ SoftStop \/ CancelJobs \/ Stopped \/ Die
         \/ UNCHANGED jobVars
  PROVE  IndInv'
<1>1. ASSUME NEW e \in Emails, CreateAccount(e) \/ DeleteAccount(e) PROVE IndInv'
  <2>1. accounts' \subseteq Emails
    BY <1>1 DEF IndInv, JobTypeOK, CreateAccount, DeleteAccount
  <2>2. UNCHANGED <<pc, email, row, attempt, work, workers, reported, lost>>
    BY <1>1 DEF CreateAccount, DeleteAccount, request, job, history
  <2>3. JobTypeOK'
    BY <2>1, <2>2 DEF IndInv, JobTypeOK
  <2>4. MailCounted' /\ ReportsMatchDiscards' /\ Failing'
    BY <2>2 DEF IndInv, MailCounted, ReportsMatchDiscards, Failing, Heard
  <2> QED
    BY <2>3, <2>4 DEF IndInv
<1>2. CASE StartWorkers \/ SoftStop \/ CancelJobs \/ Stopped
  <2>1. /\ workers' \in {"off", "on", "stopping", "cancelled"}
        /\ UNCHANGED <<accounts, request, job, history>>
    BY <1>2 DEF StartWorkers, SoftStop, CancelJobs, Stopped, Client
  <2> QED
    BY <2>1 DEF IndInv, JobTypeOK, MailCounted, ReportsMatchDiscards, Failing, Heard, request, job, history
<1>3. CASE Die
  <2> USE <1>3 DEF IndInv, Die, history
  <2>1. JobTypeOK'
    BY DEF JobTypeOK
  <2>2. MailCounted' /\ ReportsMatchDiscards'
    BY DEF JobTypeOK, MailCounted, ReportsMatchDiscards
  <2>3. Failing'
    BY DEF JobTypeOK, Failing, Heard
  <2> QED
    BY <2>1, <2>2, <2>3
<1>4. CASE UNCHANGED jobVars
  BY <1>4 DEF IndInv, JobTypeOK, MailCounted, ReportsMatchDiscards, Failing, Heard, jobVars, request, job, history
<1> QED
  BY <1>1, <1>2, <1>3, <1>4

THEOREM Invariance == JobSpec => []IndInv
<1>1. JobInit => IndInv
  BY InitInv
<1>2. IndInv /\ [JobNext]_jobVars => IndInv'
  BY RequestStep, OtherStep DEF JobNext
<1> QED
  BY <1>1, <1>2, PTL DEF JobSpec

\* Every variable of the reset mail has its type; no attempt is beyond the last.
THEOREM JobTypeCorrect == JobSpec => []JobTypeOK
<1>1. IndInv => JobTypeOK
  BY DEF IndInv
<1> QED
  BY <1>1, Invariance, PTL

\* A request that was refused, or is not yet counted, has no job.
THEOREM Counted == JobSpec => []MailCounted
<1>1. IndInv => MailCounted
  BY DEF IndInv
<1> QED
  BY <1>1, Invariance, PTL

\* A job discarded under a living worker was reported, and a job that ended
\* well was reported for its panics only.
THEOREM DiscardsHeard == JobSpec => []ReportsMatchDiscards
<1>1. IndInv => ReportsMatchDiscards
  BY DEF IndInv
<1> QED
  BY <1>1, Invariance, PTL

-----------------------------------------------------------------------------
(* The server (Server).                                                    *)

\* What boot has done by the time run() is at a step, and shutdown undone.
Early == {"down", "env", "telemetry", "db", "mailer", "jobs"}
Late  == {"flows", "listen", "serving", "draining"}

Phases ==
    /\ step \in DOMAIN Following \cup {"serving", "draining", "stopping", "closing", "down"}
    /\ step \in Early => workers = "off"
    /\ step \in Late => workers = "on"
    /\ step = "stopping" => workers \in {"stopping", "cancelled"}
    /\ step = "closing" => workers = "off" \/ torn
    /\ step \in {"mailer", "jobs", "stopping"} \cup Late => Pool

\* No work without a client, no row in work without a worker but for a crash.
Worked ==
    /\ workers = "off" => Idle
    /\ OrphansNeedACrash

\* Whoever mails does so in an environment that loads, on the swapped Outbox.
Equipped ==
    /\ step \in {"telemetry", "db", "mailer", "jobs"} => Loads
    /\ step = "jobs" => (conf.mailFrom => outbox = "ses")
    /\ workers /= "off" => Loads /\ (conf.mailFrom => outbox = "ses")
    /\ ~misled

\* createuser inserts an address it was given.
Addressed == \A c \in Clis : cli[c] = "hashed" => address[c] \in Emails

Types ==
    /\ row \in [Requests -> {"none", "available", "running", "completed", "discarded"}]
    /\ work \in [Requests -> {"none", "started", "minted", "done", "failed"}]
    /\ conf \in [production: BOOLEAN, url: BOOLEAN, mailFrom: BOOLEAN]
    /\ cli \in [Clis -> {"idle", "hashed", "created", "refused", "done"}]
    /\ address \in [Clis -> Emails \cup {NoEmail}]

Inv == Types /\ Phases /\ Worked /\ Equipped /\ Addressed

LEMMA ServerInit == Init => Inv
BY ServerParameters DEF Init, JobInit, Welcome!FlowInit, Inv, Types, Phases, Early, Late, Worked,
   Idle, OrphansNeedACrash, Orphaned, Equipped, Addressed, Following

\* The process moves: boot, shutdown, crash.
LEMMA ProcessStep ==
  ASSUME Inv, Launch \/ Boot \/ BootFails \/ Signal \/ Shutdown \/ Crash
  PROVE  Inv'
<1> USE DEF Inv, Types, Phases, Early, Late, Worked, Idle, OrphansNeedACrash, Orphaned, Equipped,
            Addressed, Following, jobVars, flowVars, request, job, history, Loads, Pool
<1>1. CASE Launch
  BY <1>1 DEF Launch
<1>2. CASE Load
  BY <1>2 DEF Load
<1>3. ASSUME NEW s \in DOMAIN Leaves, Open(s) PROVE Inv'
  <2>1. CASE s = "telemetry"
    BY <1>3, <2>1 DEF Open, Leaves
  <2>2. CASE s = "db"
    BY <1>3, <2>2 DEF Open, Leaves
  <2> QED
    BY <2>1, <2>2 DEF Leaves
<1>4. CASE SwapOutbox
  BY <1>4 DEF SwapOutbox
<1>5. CASE Proceed
  BY <1>5 DEF Proceed
<1>6. CASE JobsStart
  BY <1>6 DEF JobsStart, StartWorkers, Client
<1>7. CASE BootFails
  BY <1>7 DEF BootFails
<1>8. CASE Signal
  BY <1>8 DEF Signal
<1>9. CASE Drained
  BY <1>9 DEF Drained, SoftStop, Client
<1>10. CASE StopExpires
  BY <1>10 DEF StopExpires, CancelJobs, Client, process
<1>11. CASE JobsStopped
  BY <1>11 DEF JobsStopped, Stopped, Client
<1>12. CASE Close
  BY <1>12 DEF Close
<1>13. CASE Exit
  BY <1>13 DEF Exit, Die
<1>14. CASE Crash
  BY <1>14 DEF Crash, Die, Running
<1> QED
  BY <1>1, <1>2, <1>3, <1>4, <1>5, <1>6, <1>7, <1>8, <1>9, <1>10, <1>11, <1>12, <1>13, <1>14
     DEF Boot, Shutdown

\* A request, a job or the client moves within the process.
LEMMA WorkStep ==
  ASSUME Inv, NEW r \in Requests, Handle(r)
  PROVE  Inv'
<1> USE DEF Inv, Types, Phases, Early, Late, Worked, Idle, OrphansNeedACrash, Orphaned, Equipped,
            Addressed, Following, flowVars, process, request, job, history, Loads, Pool
<1>1. CASE Serve(r)
  BY <1>1 DEF Serve, Ask, At
<1>2. CASE Query(r)
  <2>1. CASE Querying(r)
    BY <1>2, <2>1 DEF Query, Querying, Count, Throttled, LookUp, Enqueue, At
  <2>2. CASE Fetch(r)
    BY <1>2, <2>2 DEF Query, Fetch, Working
  <2>3. CASE Mint(r)
    BY <1>2, <2>3 DEF Query, Mint, Working
  <2>4. CASE Complete(r)
    BY <1>2, <2>4 DEF Query, Complete, Working, Again
  <2>5. CASE Rescue(r)
    BY <1>2, <2>5 DEF Query, Rescue, Again
  <2> QED
    BY <1>2, <2>1, <2>2, <2>3, <2>4, <2>5 DEF Query, Recording
<1>3. CASE Trouble(r)
  <2>1. CASE Unanswered(r)
    BY <1>3, <2>1 DEF Trouble, Unanswered, At
  <2>2. CASE WorkFails(r) \/ WorkPanics(r)
    BY <1>3, <2>2 DEF Trouble, WorkFails, WorkPanics, Working
  <2> QED
    BY <1>3, <2>1, <2>2 DEF Trouble
<1>4. CASE Mail(r)
  <2>1. workers /= "off"
    BY <1>4 DEF Mail, Deliver, Working
  <2>2. ~Misled
    BY <2>1 DEF Misled
  <2> QED
    BY <1>4, <2>2 DEF Mail, Deliver, Working
<1> QED
  BY <1>1, <1>2, <1>3, <1>4 DEF Handle

\* createuser, Inngest and whoever deletes accounts.
LEMMA OutsideStep ==
  ASSUME Inv,
         \/ \E c \in Clis : Cli(c) \/ Flow(c)
         \/ \E e \in Emails : Delete(e)
         \/ Terminating
         \/ UNCHANGED vars
  PROVE  Inv'
<1> USE DEF Inv, Types, Phases, Early, Late, Worked, Idle, OrphansNeedACrash, Orphaned, Equipped,
            Addressed, Following, flowVars, jobVars, process, request, job, history, Loads, Pool
<1>1. ASSUME NEW c \in Clis, Cli(c) PROVE Inv'
  BY <1>1 DEF Cli, Welcome!Hash, Welcome!Insert, Welcome!InsertFails, Welcome!Send, Welcome!Exits,
     Welcome!flowRuns
<1>2. ASSUME NEW c \in Clis, Flow(c) PROVE Inv'
  <2>1. UNCHANGED <<cli, address>>
    BY <1>2 DEF Flow, Welcome!Called, Welcome!SendWelcome, Welcome!StepFails, Welcome!FollowUp,
       Welcome!Sleep, Welcome!cliVars
  <2>2. welcomed' /= welcomed => step = "serving"
    BY <1>2 DEF Flow, Welcome!Called, Welcome!SendWelcome, Welcome!StepFails, Welcome!FollowUp,
       Welcome!Sleep
  <2> QED
    BY <1>2, <2>1, <2>2 DEF Flow
<1>3. ASSUME NEW e \in Emails, Delete(e) PROVE Inv'
  BY <1>3 DEF Delete, DeleteAccount
<1>4. CASE Terminating \/ UNCHANGED vars
  BY <1>4 DEF Terminating, vars
<1> QED
  BY <1>1, <1>2, <1>3, <1>4

THEOREM Always == Spec => []Inv
<1>1. Init => Inv
  BY ServerInit
<1>2. Inv /\ [Next]_vars => Inv'
  BY ProcessStep, WorkStep, OutsideStep DEF Next
<1> QED
  BY <1>1, <1>2, PTL DEF Spec

\* No row runs without a worker unless the process crashed or a boot failed
\* with its workers started.
THEOREM NoOrphans == Spec => []OrphansNeedACrash
<1>1. Inv => OrphansNeedACrash
  BY DEF Inv, Worked
<1> QED
  BY <1>1, Always, PTL

\* The pool is closed under work in progress only by a boot that failed.
THEOREM PoolLast == Spec => []PoolOutlivesWork
<1>1. Inv => PoolOutlivesWork
  BY DEF PoolOutlivesWork, Inv, Phases, Early, Late, Following, Worked, Running
<1> QED
  BY <1>1, Always, PTL

\* No mail of a production server stays in its log or carries a link to
\* nowhere.
THEOREM MailLeaves == Spec => []ProductionMailLeaves
<1>1. Inv => ProductionMailLeaves
  BY DEF Inv, Equipped, ProductionMailLeaves
<1> QED
  BY <1>1, Always, PTL

\* Every step of the server is one that ResetEmail allows, or none of its.
LEMMA JobStep ==
  ASSUME Inv, [Next]_vars
  PROVE  [JobNext]_jobVars
<1> USE DEF JobNext, jobVars, flowVars, process, request, job, history
<1>1. CASE Launch \/ Boot \/ BootFails \/ Signal
  BY <1>1 DEF Launch, Boot, Load, Open, SwapOutbox, Proceed, JobsStart, BootFails, Signal
<1>2. CASE Shutdown \/ Crash
  BY <1>2 DEF Shutdown, Drained, StopExpires, JobsStopped, Close, Exit, Crash
<1>3. ASSUME NEW r \in Requests, Handle(r) PROVE [JobNext]_jobVars
  BY <1>3 DEF Handle, Serve, Query, Trouble, Mail
<1>4. ASSUME NEW c \in Clis, Cli(c) PROVE [JobNext]_jobVars
  <2>1. accounts' = accounts \/ (cli[c] = "hashed" /\ accounts' = accounts \cup {address[c]})
    BY <1>4 DEF Cli, Welcome!Hash, Welcome!Insert, Welcome!InsertFails, Welcome!Send,
       Welcome!Exits, Welcome!flowRuns
  <2>2. UNCHANGED <<request, job, workers, history>>
    BY <1>4 DEF Cli
  <2>3. CASE accounts' = accounts
    BY <2>2, <2>3
  <2>4. CASE cli[c] = "hashed" /\ accounts' = accounts \cup {address[c]} /\ address[c] \notin accounts
    <3>1. CreateAccount(address[c]) /\ address[c] \in Emails
      BY <2>2, <2>4 DEF CreateAccount, Inv, Addressed
    <3> QED
      BY <3>1
  <2> QED
    BY <2>1, <2>3, <2>4
<1>5. ASSUME NEW c \in Clis, Flow(c) PROVE [JobNext]_jobVars
  BY <1>5 DEF Flow, Welcome!Called, Welcome!SendWelcome, Welcome!StepFails, Welcome!FollowUp,
     Welcome!Sleep
<1>6. ASSUME NEW e \in Emails, Delete(e) PROVE [JobNext]_jobVars
  BY <1>6 DEF Delete
<1>7. CASE Terminating \/ UNCHANGED vars
  BY <1>7 DEF Terminating, vars
<1> QED
  BY <1>1, <1>2, <1>3, <1>4, <1>5, <1>6, <1>7 DEF Next

\* The server implements ResetEmail: with it hold the theorems on its jobs.
THEOREM ServesJobs == Spec => JobSpec
<1>1. Init => JobInit
  BY DEF Init
<1>2. Inv /\ [Next]_vars => [JobNext]_jobVars
  BY JobStep
<1> QED
  BY <1>1, <1>2, Always, PTL DEF Spec, JobSpec

\* In every life of the server, what is said of counts and reports holds.
THEOREM JobsAtWork == Spec => [](MailCounted /\ ReportsMatchDiscards)
BY ServesJobs, Counted, DiscardsHeard, PTL

-----------------------------------------------------------------------------
(* The welcome flows, and the types.                                       *)

\* An event comes of an account that was committed, and a flow that is past
\* its first step has sent the mail.
Welcomed ==
    /\ Welcome!FlowTypeOK
    /\ \A c \in Clis : cli[c] = "created" \/ flow[c] /= "none" => c \in made
    /\ \A c \in Clis : flow[c] \in {"asleep", "followup", "done"} => c \in welcomed
    /\ welcomed \subseteq made

LEMMA CliStep ==
  ASSUME Welcomed, NEW c \in Clis, Cli(c)
  PROVE  Welcomed'
<1> USE DEF Welcomed, Welcome!FlowTypeOK, Welcome!flowRuns, Welcome!Exits
<1>1. CASE \E a \in Emails : Welcome!Hash(c, a)
  BY <1>1 DEF Welcome!Hash
<1>2. CASE Welcome!Insert(c)
  BY <1>2 DEF Welcome!Insert
<1>3. CASE Welcome!InsertFails(c)
  BY <1>3 DEF Welcome!InsertFails
<1>4. CASE Welcome!Send(c)
  BY <1>4 DEF Welcome!Send
<1> QED
  BY <1>1, <1>2, <1>3, <1>4 DEF Cli

LEMMA FlowStep ==
  ASSUME Welcomed, NEW c \in Clis, Flow(c)
  PROVE  Welcomed'
<1> USE ServerParameters
    DEF Welcomed, Welcome!FlowTypeOK, Welcome!cliVars, Welcome!Recorded, Welcome!Retried
<1>1. CASE Welcome!SendWelcome(c)
  BY <1>1 DEF Welcome!SendWelcome
<1>2. CASE Welcome!StepFails(c)
  BY <1>2 DEF Welcome!StepFails
<1>3. CASE Welcome!FollowUp(c)
  BY <1>3 DEF Welcome!FollowUp
<1>4. CASE Welcome!Sleep(c)
  BY <1>4 DEF Welcome!Sleep
<1> QED
  BY <1>1, <1>2, <1>3, <1>4 DEF Flow, Welcome!Called

THEOREM FlowsFollow == Spec => []Welcomed
<1>1. Init => Welcomed
  BY ServerParameters DEF Init, Welcome!FlowInit, Welcomed, Welcome!FlowTypeOK
<1>2. ASSUME Welcomed, [Next]_vars PROVE Welcomed'
  <2>1. CASE UNCHANGED flowVars
    BY <1>2, <2>1 DEF flowVars, Welcomed, Welcome!FlowTypeOK
  <2>2. ASSUME NEW c \in Clis, Cli(c) \/ Flow(c) PROVE Welcomed'
    BY <1>2, <2>2, CliStep, FlowStep
  <2>3. CASE Launch \/ Boot \/ BootFails \/ Signal \/ Shutdown \/ Crash
    <3> UNCHANGED flowVars
      BY <2>3 DEF Launch, Boot, Load, Open, SwapOutbox, Proceed, JobsStart, BootFails, Signal,
         Shutdown, Drained, StopExpires, JobsStopped, Close, Exit, Crash
    <3> QED
      BY <2>1
  <2>4. CASE \/ \E r \in Requests : Handle(r)
             \/ \E e \in Emails : Delete(e)
             \/ Terminating \/ UNCHANGED vars
    <3> UNCHANGED flowVars
      BY <2>4 DEF Handle, Serve, Query, Trouble, Mail, Delete, Terminating, vars
    <3> QED
      BY <2>1
  <2> QED
    BY <1>2, <2>2, <2>3, <2>4 DEF Next
<1> QED
  BY <1>1, <1>2, PTL DEF Spec

\* Whatever calls Inngest loses and repeats: no welcome without an account,
\* no follow-up without a welcome.
THEOREM WelcomeAfterAccount == Spec => []WelcomeFollowsAccount
<1>1. Welcomed => WelcomeFollowsAccount
  BY DEF Welcomed, WelcomeFollowsAccount, Welcome!WelcomeFollowsAccount
<1> QED
  BY <1>1, FlowsFollow, PTL

\* What run() has deferred by the time it is at a step.
ProcessOK ==
    /\ conf \in Deployments
    /\ step \in DOMAIN Following \cup {"serving", "draining", "stopping", "closing", "down"}
    /\ deferred \in {{}, {"reports"}, {"pool", "reports"}}
    /\ step \in {"env", "telemetry"} => deferred = {}
    /\ step = "db" => deferred = {"reports"}
    /\ outbox \in {"log", "ses"}
    /\ launches \in 0..MaxLaunches
    /\ misled \in BOOLEAN /\ torn \in BOOLEAN

THEOREM ProcessTyped == Spec => []ProcessOK
<1>1. ASSUME Init PROVE ProcessOK
  <2>1. launches \in 0..MaxLaunches
    BY <1>1, ServerParameters, SMT DEF Init
  <2>2. misled \in BOOLEAN /\ torn \in BOOLEAN
    BY <1>1, Zenon DEF Init
  <2>3. step = "down" /\ deferred = {} /\ outbox = "log" /\ conf \in Deployments
    BY <1>1 DEF Init
  <2> QED
    BY <2>1, <2>2, <2>3 DEF ProcessOK, Following
<1>2. ASSUME ProcessOK, [Next]_vars PROVE ProcessOK'
  <2> USE <1>2 DEF ProcessOK, Following, Pool
  <2>1. CASE Launch
    BY <2>1, ServerParameters DEF Launch
  <2>2. CASE Boot
    <3>1. ASSUME NEW s \in DOMAIN Leaves, Open(s) PROVE ProcessOK'
      <4>1. CASE s = "telemetry"
        BY <3>1, <4>1 DEF Open, Leaves
      <4>2. CASE s = "db"
        BY <3>1, <4>2 DEF Open, Leaves
      <4> QED
        BY <4>1, <4>2 DEF Leaves
    <3>2. CASE Load
      BY <3>2 DEF Load
    <3>3. CASE SwapOutbox \/ Proceed \/ JobsStart
      BY <3>3 DEF SwapOutbox, Proceed, JobsStart
    <3> QED
      BY <2>2, <3>1, <3>2, <3>3 DEF Boot
  <2>3. CASE BootFails \/ Signal \/ Crash
    BY <2>3 DEF BootFails, Signal, Crash
  <2>4. CASE Shutdown
    <3>1. CASE Close
      BY <3>1 DEF Close
    <3>2. CASE Drained \/ StopExpires \/ JobsStopped \/ Exit
      BY <3>2 DEF Drained, StopExpires, JobsStopped, Exit, process
    <3> QED
      BY <2>4, <3>1, <3>2 DEF Shutdown
  <2>5. ASSUME NEW r \in Requests, Handle(r) PROVE ProcessOK'
    BY <2>5 DEF Handle, Serve, Query, Trouble, Mail, Misled, process
  <2>6. ASSUME NEW c \in Clis, Cli(c) \/ Flow(c) PROVE ProcessOK'
    BY <2>6 DEF Cli, Flow, process
  <2>7. CASE \/ \E e \in Emails : Delete(e)
             \/ Terminating \/ UNCHANGED vars
    BY <2>7 DEF Delete, Terminating, vars, process
  <2> QED
    BY <2>1, <2>2, <2>3, <2>4, <2>5, <2>6, <2>7 DEF Next
<1> QED
  BY <1>1, <1>2, PTL DEF Spec

\* The whole state of the composition keeps its types, the jobs' through the
\* refinement.
THEOREM TypeCorrect == Spec => []TypeOK
<1>1. JobTypeOK /\ Welcomed /\ ProcessOK => TypeOK
  BY DEF TypeOK, Welcomed, ProcessOK
<1> QED
  BY <1>1, ServesJobs, JobTypeCorrect, FlowsFollow, ProcessTyped, PTL

-----------------------------------------------------------------------------
(* The loggers (LoggerManager) follow the settings of the moment, for any  *)
(* number of goroutines and names and any settings strings.  LogInv: of a  *)
(* name whose first uses did not overlap there is one handler, both maps   *)
(* hold it once its maker is through, and it is as Configure would set it. *)

\* The goroutine made a handler that it or another may have been given.
Maker(g) == g \in Inside \/ (at[g] = "done" /\ got[g] = g)

LogTypes ==
    /\ loggers \in [Names -> Goroutines \cup {Nobody}]
    /\ handlers \in [Names -> Goroutines \cup {Nobody}]
    /\ at \in [Goroutines -> {"idle", "made", "writing", "stored", "done"}]
    /\ name \in [Goroutines -> Names]
    /\ mine = [g \in Goroutines |-> mine[g]]
    /\ got \in [Goroutines -> Goroutines \cup {Nobody}]

\* The maps and the callers have loggers of the name they go by.
Entries ==
    /\ \A n \in Names : loggers[n] /= Nobody => name[loggers[n]] = n /\ Maker(loggers[n])
    /\ \A n \in Names : handlers[n] /= Nobody => name[handlers[n]] = n /\ Maker(handlers[n])
    /\ \A g \in Given : name[got[g]] = name[g] /\ Maker(got[g]) /\ at[g] = "done"

\* What is through with a map has left an entry in it.
Stored ==
    \A g \in Goroutines : Maker(g) =>
        /\ at[g] \in {"stored", "done"} => loggers[name[g]] /= Nobody
        /\ at[g] = "done" => handlers[name[g]] /= Nobody

OneMaker ==
    \A g, h \in Goroutines : name[g] \notin raced /\ name[h] = name[g] /\ Maker(g) /\ Maker(h) => g = h

Current ==
    /\ \A n \in Names : IsEnabled(config, n) <=> Wanted(settings, n)
    /\ \A g \in Goroutines : name[g] \notin raced /\ Maker(g) =>
           (mine[g].writes <=> IsEnabled(config, name[g]))

LogInv == LogTypes /\ Entries /\ Stored /\ OneMaker /\ Current

\* The tags whose level parseLogLevel knows.
Accepted == [minus: BOOLEAN, name: Names \cup {All}, level: Levels \cup {NoLevel}]

\* NewConfig reads of a string it accepts what the string says.
LEMMA EnabledAsWanted ==
  ASSUME NEW tags, NEW default, NEW n \in Names,
         tags \in Seq(Accepted)
  PROVE  IsEnabled(NewConfig(tags, default), n) <=> Wanted(tags, n)
<1> DEFINE has(minus, m) == \E l \in Levels \cup {NoLevel} : In(tags, [minus |-> minus, name |-> m, level |-> l])
<1>1. ASSUME NEW minus \in BOOLEAN, NEW m
      PROVE  has(minus, m) <=> \E i \in DOMAIN tags : tags[i].minus = minus /\ tags[i].name = m
  <2>1. ASSUME NEW i \in DOMAIN tags, tags[i].minus = minus, tags[i].name = m
        PROVE  has(minus, m)
    <3>1. tags[i] \in Accepted
      OBVIOUS
    <3>2. tags[i] = [minus |-> minus, name |-> m, level |-> tags[i].level] /\ tags[i].level \in Levels \cup {NoLevel}
      BY <2>1, <3>1 DEF Accepted
    <3> QED BY <3>1, <3>2 DEF In
  <2>2. ASSUME has(minus, m)
        PROVE  \E i \in DOMAIN tags : tags[i].minus = minus /\ tags[i].name = m
    BY <2>2 DEF In
  <2> QED BY <2>1, <2>2
<1>2. Wanted(tags, n) <=> (has(FALSE, n) \/ has(FALSE, All)) /\ ~has(TRUE, n)
  BY DEF Wanted
<1>3. IsExcluded(NewConfig(tags, default), n) <=> has(TRUE, n)
  BY <1>1 DEF IsExcluded, NewConfig, Named
<1>4. IsIncluded(NewConfig(tags, default), n) <=> has(FALSE, n) \/ has(FALSE, All)
  <2>1. has(FALSE, n) <=> n \in Named(tags, FALSE)
    BY <1>1 DEF Named
  <2>2. has(FALSE, All) <=> \E i \in DOMAIN tags : ~tags[i].minus /\ tags[i].name = All
    <3>1. ASSUME NEW i \in DOMAIN tags PROVE tags[i].minus \in BOOLEAN
      <4>1. tags[i] \in Accepted
        OBVIOUS
      <4> QED BY <4>1 DEF Accepted
    <3> QED BY <1>1, <3>1, Zenon
  <2>3. NewConfig(tags, default).include = Named(tags, FALSE)
    BY DEF NewConfig
  <2>4. NewConfig(tags, default).includeAll <=> \E i \in DOMAIN tags : ~tags[i].minus /\ tags[i].name = All
    BY Zenon DEF NewConfig
  <2> QED BY <2>1, <2>2, <2>3, <2>4, Zenon DEF IsIncluded
<1> QED BY <1>2, <1>3, <1>4 DEF IsEnabled

LEMMA LogInitial == LogParameters /\ LogInit => LogInv
<1> SUFFICES ASSUME LogParameters, LogInit PROVE LogInv
  OBVIOUS
<1>1. Initially \in Seq(Accepted)
  BY DEF Initially, Accepted
<1>2. \A n \in Names : IsEnabled(config, n) <=> Wanted(settings, n)
  BY <1>1, EnabledAsWanted DEF LogInit
<1>3. LogTypes
  BY DEF LogInit, LogTypes, Handler, IsEnabled, IsIncluded, IsExcluded
<1> QED BY <1>2, <1>3 DEF LogParameters, LogInit, LogInv, Entries, Stored, OneMaker, Current, Maker, Inside, Given

LEMMA ConfigureStep ==
  ASSUME LogParameters, LogInv, NEW tags \in Settings, NEW l, Configure(tags, l)
  PROVE  LogInv'
<1> USE DEF LogParameters, LogInv
<1>1. CASE Rejected(tags)
  BY <1>1 DEF Configure, LogTypes, Entries, Stored, OneMaker, Current, Maker, Inside, Given
<1>2. CASE ~Rejected(tags)
  <2>1. tags \in Seq(Accepted)
    <3>1. tags \in Seq(Tags)
      OBVIOUS
    <3>2. ASSUME NEW i \in 1..Len(tags) PROVE tags[i] \in Accepted
      <4>1. tags[i] \in Tags /\ tags[i].level /= Unknown
        BY <1>2, <3>1 DEF Rejected
      <4> QED BY <4>1 DEF Tags, Accepted
    <3> QED BY <3>1, <3>2
  <2>2. (\A n \in Names : IsEnabled(config, n) <=> Wanted(settings, n))'
    BY <1>2, <2>1, EnabledAsWanted DEF Configure
  <2>3. UNCHANGED <<loggers, handlers, at, name, got, raced, thrown>> /\ Inside = {}
    BY <1>2 DEF Configure
  <2>4. mine' = [g \in Goroutines |-> IF handlers[name[g]] = g THEN Handler(config', name[g]) ELSE mine[g]]
    BY <1>2 DEF Configure
  <2>5. LogTypes'
    BY <2>3, <2>4 DEF LogTypes, Handler, IsEnabled, IsIncluded, IsExcluded
  <2>6. Entries' /\ Stored' /\ OneMaker'
    BY <2>3 DEF Entries, Stored, OneMaker, Maker, Inside, Given
  <2>7. ASSUME NEW g \in Goroutines, (name[g] \notin raced)', Maker(g)'
        PROVE  (mine[g].writes <=> IsEnabled(config, name[g]))'
    <3>1. at[g] = "done" /\ got[g] = g /\ Maker(g)
      BY <2>3, <2>7 DEF Maker, Inside
    <3>2. handlers[name[g]] = g
      BY <2>3, <2>7, <3>1 DEF Stored, Entries, OneMaker, LogTypes
    <3> QED BY <2>3, <2>4, <3>2 DEF Handler
  <2> QED BY <2>2, <2>5, <2>6, <2>7 DEF Current
<1> QED BY <1>1, <1>2

LEMMA LoggerStep ==
  ASSUME LogParameters, LogInv, NEW g \in Goroutines, Logs(g)
  PROVE  LogInv'
<1> USE DEF LogParameters, LogInv
<1> SUFFICES LogTypes' /\ Entries' /\ Stored' /\ OneMaker' /\ Current'
  OBVIOUS
<1> USE DEF LogTypes, Maker, Inside, Given
<1>1. CASE Found(g)
  BY <1>1 DEF Found, Entries, Stored, OneMaker, Current
<1>2. CASE Make(g)
  <2>1. \A h \in Goroutines : Maker(h)' <=> Maker(h) \/ h = g
    BY <1>2 DEF Make
  <2>2. ASSUME name[g] \notin raced', NEW h \in Goroutines, Maker(h), name[h] = name[g]
        PROVE  FALSE
    <3>1. h \notin Inside
      BY <1>2, <2>2 DEF Make
    <3> QED BY <1>2, <2>2, <3>1 DEF Make, Stored
  <2>3. raced \subseteq raced'
    BY <1>2 DEF Make
  <2>4. LogTypes'
    BY <1>2 DEF Make
  <2>5. Entries'
    BY <1>2, <2>1 DEF Make, Entries
  <2>6. Stored'
    BY <1>2, <2>1 DEF Make, Stored
  <2>7. OneMaker'
    BY <1>2, <2>1, <2>2, <2>3 DEF Make, OneMaker
  <2>8. Current'
    BY <1>2, <2>1, <2>3 DEF Make, Current, Handler
  <2> QED BY <2>4, <2>5, <2>6, <2>7, <2>8
<1>3. CASE BeginWrite(g)
  BY <1>3 DEF BeginWrite, Entries, Stored, OneMaker, Current
<1>4. CASE WriteLogger(g)
  BY <1>4 DEF WriteLogger, Entries, Stored, OneMaker, Current
<1>5. CASE WriteHandler(g)
  BY <1>5 DEF WriteHandler, Entries, Stored, OneMaker, Current
<1> QED BY <1>1, <1>2, <1>3, <1>4, <1>5 DEF Logs

LEMMA LogStep == LogParameters /\ LogInv /\ [LogNext]_logVars => LogInv'
<1> SUFFICES ASSUME LogParameters, LogInv, [LogNext]_logVars PROVE LogInv'
  OBVIOUS
<1>1. CASE LogNext
  BY <1>1, LoggerStep, ConfigureStep DEF LogNext
<1>2. CASE UNCHANGED logVars
  BY <1>2 DEF logVars, LogInv, LogTypes, Entries, Stored, OneMaker, Current, Maker, Inside, Given
<1> QED BY <1>1, <1>2

\* The handlers that were handed out are the ones the next Configure sets.
LEMMA FollowsFromInvariant == LogInv => LoggersFollowSettings
BY DEF LogInv, LogTypes, LoggersFollowSettings, Entries, Current, Maker, Given, Inside

\* logging/logging.go:3: Configure reaches the loggers that callers kept, all
\* but those of a name whose first uses overlapped (logger_manager.go:76).
THEOREM FollowSettings == LogParameters /\ LogSpec => []LoggersFollowSettings
<1>1. LogParameters /\ LogSpec => []LogInv
  <2> SUFFICES ASSUME LogParameters PROVE LogSpec => []LogInv
    OBVIOUS
  <2>1. LogInit => LogInv
    BY LogInitial
  <2>2. LogInv /\ [LogNext]_logVars => LogInv'
    BY LogStep
  <2> QED BY <2>1, <2>2, PTL DEF LogSpec
<1> QED BY <1>1, FollowsFromInvariant, PTL
=============================================================================
