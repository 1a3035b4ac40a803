----------------------------- MODULE ResetEmail -----------------------------
(***************************************************************************)
(* The reset email: PasswordResetRequest (web/handlers_auth.go) enqueues a *)
(* job, River works it (jobs/), Sentry hears of the jobs that are given    *)
(* up.  A request enqueues at most one job, so a job goes by its request.  *)
(*                                                                         *)
(* River is modelled from what jobs/ relies on: at-least-once attempts,    *)
(* the error handler called before the row is updated, a rescuer for rows  *)
(* whose worker died, and a stop that waits for the running jobs.          *)
(***************************************************************************)
EXTENDS Integers, FiniteSets

CONSTANTS
    Requests,       \* requests for a reset email
    Emails,
    MaxAttempts,    \* river's MaxAttempts of a job
    NoEmail

ASSUME JobParameters ==
    /\ MaxAttempts \in Nat \ {0}
    /\ NoEmail \notin Emails

VARIABLES
    accounts,   \* the addresses that have an account
    pc,         \* where PasswordResetRequest stands
    email,      \* the address asked for
    row,        \* river_job.state; "none" without a row
    attempt,    \* river_job.attempt
    work,       \* how far Work is in this process
    workers,    \* the river client: off, on, stopping, cancelled
    reported,   \* the attempts reported to Sentry, by handler
    lost        \* history: the last attempt died with its worker

request == <<pc, email>>
job     == <<row, attempt, work>>
history == <<reported, lost>>
jobVars == <<accounts, request, job, workers, history>>

JobInit ==
    /\ accounts \in SUBSET Emails
    /\ pc = [r \in Requests |-> "idle"]
    /\ email = [r \in Requests |-> NoEmail]
    /\ row = [r \in Requests |-> "none"]
    /\ attempt = [r \in Requests |-> 0]
    /\ work = [r \in Requests |-> "none"]
    /\ workers = "off"
    /\ reported = [r \in Requests |-> {}]
    /\ lost = [r \in Requests |-> FALSE]

-----------------------------------------------------------------------------
(* PasswordResetRequest, one action per query.                             *)

At(r, from, to) ==
    /\ pc[r] = from
    /\ pc' = [pc EXCEPT ![r] = to]

Ask(r, e) ==
    /\ At(r, "idle", "asked")
    /\ email' = [email EXCEPT ![r] = e]
    /\ UNCHANGED <<accounts, job, workers, history>>

\* The throttle (module Throttle) blocks the request or counts it.
Throttled(r) ==
    /\ At(r, "asked", "refused")
    /\ UNCHANGED <<accounts, email, job, workers, history>>

EnqueueUncounted(r) ==  \* (fault)
    /\ At(r, "asked", "counted")
    /\ row' = [row EXCEPT ![r] = "available"]
    /\ UNCHANGED <<accounts, email, attempt, work, workers, history>>

Count(r) ==
    /\ At(r, "asked", "counted")
    /\ UNCHANGED <<accounts, email, job, workers, history>>

\* An unknown address answers like a known one and enqueues nothing.
LookUp(r) ==
    /\ At(r, "counted", IF email[r] \in accounts THEN "found" ELSE "answered")
    /\ UNCHANGED <<accounts, email, job, workers, history>>

Enqueue(r) ==
    /\ At(r, "found", "answered")
    /\ row' = [row EXCEPT ![r] = "available"]
    /\ UNCHANGED <<accounts, email, attempt, work, workers, history>>

\* A query fails: 500.  The insert may have committed when its answer is lost.
Unanswered(r) ==
    /\ pc[r] \in {"asked", "counted", "found"}
    /\ At(r, pc[r], "failed")
    /\ row' \in {row} \cup
         {[row EXCEPT ![r] = "available"] : x \in {pc[r]} \cap {"found"}}
    /\ UNCHANGED <<accounts, email, attempt, work, workers, history>>

-----------------------------------------------------------------------------
(* One attempt of passwordResetEmailWorker.Work.                           *)

Working(r, from, to) ==
    /\ work[r] = from
    /\ work' = [work EXCEPT ![r] = to]

Fetch(r) ==
    /\ workers = "on"
    /\ row[r] = "available"
    /\ Working(r, "none", "started")
    /\ row' = [row EXCEPT ![r] = "running"]
    /\ attempt' = [attempt EXCEPT ![r] = @ + 1]
    /\ UNCHANGED <<accounts, request, workers, history>>

SnoozeIfGone(r) ==  \* (fault)
    /\ Working(r, "started", IF email[r] \in accounts THEN "minted" ELSE "none")
    /\ row' = IF email[r] \in accounts THEN row ELSE [row EXCEPT ![r] = "available"]
    /\ attempt' = IF email[r] \in accounts THEN attempt ELSE [attempt EXCEPT ![r] = @ - 1]
    /\ UNCHANGED <<accounts, request, workers, history>>

\* auth.CreatePasswordReset (module PasswordReset) commits a link of this
\* attempt's own, or finds the account gone, which is no error.
Mint(r) ==
    /\ Working(r, "started", IF email[r] \in accounts THEN "minted" ELSE "done")
    /\ UNCHANGED <<accounts, request, row, attempt, workers, history>>

\* HandleError: silent until the attempt that discards the job.
ReportsBeyond(r) == attempt[r] > MaxAttempts  \* (fault)
Reports(r) == ~(attempt[r] < MaxAttempts)

HandleError(r) ==
    reported' = [reported EXCEPT ![r] = IF Reports(r) THEN @ \cup {<<attempt[r], "error">>} ELSE @]

\* HandlePanic: at once.
HandlePanic(r) ==
    reported' = [reported EXCEPT ![r] = @ \cup {<<attempt[r], "panic">>}]

\* mailer.Send: the message leaves, and the provider's answer arrives or not.
Deliver(r) ==
    /\ \/ Working(r, "minted", "done") /\ UNCHANGED reported
       \/ Working(r, "minted", "failed") /\ HandleError(r)
    /\ UNCHANGED <<accounts, request, row, attempt, workers, lost>>

WorkFails(r) ==
    /\ work[r] \in {"started", "minted"}
    /\ Working(r, work[r], "failed")
    /\ HandleError(r)
    /\ UNCHANGED <<accounts, request, row, attempt, workers, lost>>

WorkPanics(r) ==
    /\ work[r] \in {"started", "minted"}
    /\ Working(r, work[r], "failed")
    /\ HandlePanic(r)
    /\ UNCHANGED <<accounts, request, row, attempt, workers, lost>>

Again(r) == IF attempt[r] < MaxAttempts THEN "available" ELSE "discarded"

\* River records how the attempt ended.
Complete(r) ==
    /\ work[r] \in {"done", "failed"}
    /\ Working(r, work[r], "none")
    /\ row' = [row EXCEPT ![r] = IF work[r] = "done" THEN "completed" ELSE Again(r)]
    /\ UNCHANGED <<accounts, request, attempt, workers, history>>

\* A row that runs without a worker is retried, or discarded on its last
\* attempt; the error handler hears of neither.
Orphaned(r) == row[r] = "running" /\ work[r] = "none"

Rescue(r) ==
    /\ workers = "on"
    /\ Orphaned(r)
    /\ row' = [row EXCEPT ![r] = Again(r)]
    /\ lost' = [lost EXCEPT ![r] = Again(r) = "discarded"]
    /\ UNCHANGED <<accounts, request, attempt, work, workers, reported>>

-----------------------------------------------------------------------------
(* The client's life, and accounts deleted under it.                       *)

Client(from, to) ==
    /\ workers = from
    /\ workers' = to
    /\ UNCHANGED <<accounts, request, job, history>>

StartWorkers == Client("off", "on")
SoftStop     == Client("on", "stopping")
CancelJobs   == Client("stopping", "cancelled")

Idle == \A r \in Requests : work[r] = "none"

\* Stop and StopAndCancel return once nothing is in work.
StopAbandons ==  \* (fault)
    /\ workers \in {"stopping", "cancelled"}
    /\ workers' = "off"
    /\ work' = [r \in Requests |-> "none"]
    /\ UNCHANGED <<accounts, request, row, attempt, history>>

Stopped ==
    /\ workers \in {"stopping", "cancelled"}
    /\ Idle
    /\ Client(workers, "off")

\* The process ends: what its workers and handlers were at goes with it.
Die ==
    /\ workers' = "off"
    /\ work' = [r \in Requests |-> "none"]
    /\ pc' = [r \in Requests |->
                IF pc[r] \in {"asked", "counted", "found"} THEN "failed" ELSE pc[r]]
    /\ UNCHANGED <<accounts, email, row, attempt, history>>

DeleteAccount(e) ==
    /\ e \in accounts
    /\ accounts' = accounts \ {e}
    /\ UNCHANGED <<request, job, workers, history>>

CreateAccount(e) ==
    /\ e \notin accounts
    /\ accounts' = accounts \cup {e}
    /\ UNCHANGED <<request, job, workers, history>>

Querying(r) == Count(r) \/ Throttled(r) \/ LookUp(r) \/ Enqueue(r)
Recording(r) == Fetch(r) \/ Mint(r) \/ Complete(r) \/ Rescue(r)

JobNext ==
    \/ \E r \in Requests :
          \/ \E e \in Emails : Ask(r, e)
          \/ Querying(r) \/ Unanswered(r)
          \/ Recording(r) \/ Deliver(r) \/ WorkFails(r) \/ WorkPanics(r)
    \/ \E e \in Emails : CreateAccount(e) \/ DeleteAccount(e)
    \/ StartWorkers \/ SoftStop \/ CancelJobs \/ Stopped \/ Die

JobSpec == JobInit /\ [][JobNext]_jobVars

-----------------------------------------------------------------------------

JobTypeOK ==
    /\ accounts \subseteq Emails
    /\ pc \in [Requests -> {"idle", "asked", "counted", "found", "answered", "refused", "failed"}]
    /\ email \in [Requests -> Emails \cup {NoEmail}]
    /\ row \in [Requests -> {"none", "available", "running", "completed", "discarded"}]
    /\ attempt \in [Requests -> 0..MaxAttempts]
    /\ work \in [Requests -> {"none", "started", "minted", "done", "failed"}]
    /\ workers \in {"off", "on", "stopping", "cancelled"}
    /\ reported \in [Requests -> SUBSET ((1..MaxAttempts) \X {"error", "panic"})]
    /\ lost \in [Requests -> BOOLEAN]

\* The reset form counts every request, because it sends mail
\* (web/handlers_auth.go:79): no job, and so no mail, comes of a request that
\* was blocked or is not counted yet.
MailCounted ==
    \A r \in Requests :
        pc[r] \in {"idle", "asked", "refused", "counted"} => row[r] = "none"

\* "errors report only on the final attempt, when the job is discarded and a
\* human has to act" (jobs/errors.go:15): a job is never given up in silence
\* while its worker lives, whatever errors, panics and crashes came before,
\* and one that ends well was reported for its panics only.
ReportsMatchDiscards ==
    \A r \in Requests :
        /\ row[r] = "discarded" => lost[r] \/ \E how \in {"error", "panic"} : <<MaxAttempts, how>> \in reported[r]
        /\ row[r] = "completed" => \A a \in 1..MaxAttempts : <<a, "error">> \notin reported[r]
=============================================================================
