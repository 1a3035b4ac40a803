# go-bootstrap in TLA+

Specifications of go-bootstrap: password recovery, the attempt throttle,
sessions and the capacity that password hashing competes for; one server from
boot to exit with its jobs and flows; the handler chain as a browser sees it;
and the tooling whose scripts race each other: the gate with its generators and
the test template, the ports of git worktrees, the loggers. Each is checked by
TLC on a small instance, and most are proved by TLAPS for every value of their
constants, as far as that prover reaches.

    tlc -workers 2 -config PasswordReset.cfg MCPasswordReset.tla
    tlapm PasswordResetProofs.tla

## The system

go-bootstrap is a web application skeleton. One server process (or several)
serves HTTP through echo, keeps everything in Postgres, works background jobs
with River and registers durable flows with Inngest.

| Part | State | Operations | Talks to |
|---|---|---|---|
| `auth/reset.go` | `password_reset_tokens` | mint a link, check it, redeem it | users, hash slots, `db.InTx`; called by the job worker and the confirm handler |
| `auth/users.go` | `users`, `hashSlots` | create, authenticate, hash, compare | pool; called by handlers, createuser |
| `web/throttle.go` | `throttle_attempts` | blocked?, fail (prune + insert), reset | pool; called by sign-in and reset-request |
| `web/auth.go`, `web/sessions.go` | `sessions`, one copy per request | LoadUser, RequireUser, policies | scs, users |
| `web/handlers_auth.go` | none of its own | sign-in, sign-out, request and confirm a reset | all of the above, jobs |
| `web/flash.go`, `forms.go` | keys of the session copy | set, take, finish a mutation | scs |
| `web/secure.go`, `router.go` | none | same-origin gate, headers, redirects, middleware order | |
| `db/` | pool, one transaction per InTx | query, mutate, InTx, ExecInTx | Postgres |
| `jobs/` | River's tables | enqueue, work, report, stop | auth, mailer, Sentry |
| `flows/` | Inngest's run log | send, welcome flow | mailer |
| `mailer/` | the Outbox | send | SES or the log |
| `server.go`, `env/`, `telemetry/` | the process | boot, drain, flush | everything |
| `logging/` | logger maps, filter config | configure, get a logger | |
| `webtest/`, `bin/testdb` | template and test databases | build, swap, clone, drop | Postgres |
| `bin/port-*`, `bin/worktree-*` | allocation file, lock directory | allocate, free | |
| `fixture/`, `partition/` | used codes | unique code, sort results | |
| `cmd/`, `analyzers/` | files | generate code, lint | |

What is hard, and what correctness means there:

- **Password recovery.** `ResetPasswordTx` is five statements in a READ
  COMMITTED transaction; other resets of the same user, mints, deletes and
  expiry run between them. A success has to retire what was issued before it,
  a link has to be spent with the password it set, and a failure has to leave
  both alone.
- **Throttle.** Count and insert are separate statements with the attempt in
  between; one key's insert prunes everybody's rows. Nothing that counts may be
  lost, the overshoot must be bounded, and a lockout must end.
- **Sessions.** scs gives every request a copy and writes it back at the end,
  changed or not, because the idle timeout is on. Requests for one session
  overlap freely with sign-in, sign-out, password changes and deleted users.
- **Hashing capacity.** Three kinds of call take connections, slots and a row
  lock in different orders, and each wait can be given up.
- **Jobs and flows** run at least once, so a mail may be sent twice; it may not
  be sent uncounted, nor a job be given up in silence.
- **Boot and shutdown** race work in progress: jobs left by an earlier life are
  fetched the moment the workers start, and requests and jobs outlast the drain.
- **The handler chain** calls its error handler twice and keeps flashes and the
  page to return to in the copied session.
- **The shell scripts** fail and are killed between any two commands, beside
  each other: they take over each other's locks and drop each other's databases.
- **Logging** writes a shared cache under a read lock.

`PROJECT.json` lists each hazard at its line with the properties that cover it,
or why none does.

## Modules

| Module | Models | Used by |
|---|---|---|
| `ResetLedger` | the promise of password recovery: a password changes in one step, with the spending of a link of that account | refined by `PasswordReset` |
| `PasswordReset` | `auth/reset.go` inside `db.InTx`, one action per statement | |
| `Throttle` | `web/throttle.go` under `SigninSubmit` and `PasswordResetRequest` | |
| `Sessions` | `web/auth.go` and the session side of `web/handlers_auth.go` in scs's LoadAndSave | |
| `HashSlots` | `hashSlots`, the pool and the row lock, as resources | |
| `ResetEmail` | `PasswordResetRequest` and `jobs/`: the mail of a reset from the form to its last attempt | refined by `Server`, which extends it |
| `WelcomeFlow` | `cmd/createuser` and `flows/welcome.go` | an instance in `Server` |
| `Server` | `server.go`, `env/` and the Configure functions: one process, launched again | |
| `Requests` | the chain of `web/router.go` with the gate, flashes, forms, redirects and error pages | |
| `LoggerManager` | `logging/` | |
| `TestTemplate` | `bin/testdb` and `createTestDB` | `DevLoop` extends it |
| `Generators` | `cmd/modelgen`, `cmd/conngen`, `bin/generate` | `DevLoop` extends it |
| `DevLoop` | `bin/check` with a developer and other rebuilds beside it | |
| `Worktrees` | `bin/port-*` and `bin/worktree-*` | |
| `MC*` | the instances: they extend the specification and add values or the symmetry | |
| `*Proofs` | the theorems | |

**PasswordReset.** `row`, `owner`, `expires_at` are the columns of
`password_reset_tokens` (`row` also tells a mint's progress), `password_hash`
that of `users`, `lock` the users row lock. A request's `pc` follows
`ResetPasswordTx`: `RefusePassword` (the policy), `SelectToken`
(`liveResetTokenTx`), `UpdatePassword`, `RetireTokens`, then `Commit` or
`AccountVanished` (the final `ByIDTx`), with `RollBack` possible at each step.
Writes become visible at `Commit` only; `UpdatePassword` waits for the lock.
`LookupAccount` and `InsertToken` are the two halves of a mint. Tokens and
hashes are named by who made them, since both are random enough never to meet.
`issuedBefore` and `doneBefore` are history that only the properties read.

**Throttle.** `rowKey` and `age` are the table; `attempted_at` is kept as an
age that stops just past the window, since nothing in the code can tell older
rows apart. `Admit` and `Refuse` are the first query of a handler,
`Authenticate` what happens between, `Prune` and `Record` the two statements of
`ThrottleFailTx`, `Clear` that of `ThrottleResetTx`; `LoseAttempt` and
`ClearFails` are their error paths. `tried` is history: which rows record an
attempt of this window that no success has forgiven.

**Sessions.** `row` is the sessions table; `id`, `status` and `data` are scs's
copy for each request. `Load` and `Save` are LoadAndSave, `DestroyThen` is
Destroy, `RenewAndStamp` RenewToken and the two Puts after it; these are scs
operations, external to the repository, modelled from what its callers rely on.
`LoadUser`, `KillStale`, `Page`, `SigninRefused`, `Authenticate` and `Signout`
are the repository's. `Fail` is a query that fails, or a panic: the error page
goes out through scs's writer, which saves first. `Abandon` is a save that
fails, or a dead server. `epoch` counts passwords in place of the digest in
`PasswordEpoch`. `madeFor`, `closed` and the field `proved` are history. A
request slot serves one request after another.

**HashSlots.** `slots` is `len(hashSlots)`, `conns` the acquired connections,
`queue` the FIFO waits for each resource. `Authenticate` returns its connection
before it waits for a slot and takes another one to record the outcome;
`Create` hashes before it asks for one; a reset keeps one from BEGIN to the
end. `GiveUp` is a context that ends in any of those waits. The separate queries
a sign-in makes before its hash are one acquisition, those after it another.

**ResetEmail.** `pc` follows `PasswordResetRequest` query by query (`Count`
or `Throttled`, `LookUp`, `Enqueue`; `Unanswered` is a query that fails, and an
insert may have committed). `row` and `attempt` are `river_job`, `work` is how
far the attempt is in this process (`Fetch`, `Mint`, `Deliver`, and `WorkFails`
or `WorkPanics`, each with the hook of `jobs/errors.go` that it calls);
`Complete` is River's update of the row, `Rescue` its rescuer, `workers` the
client: started, stopping softly, cancelled. River itself is external.

**WelcomeFlow.** `cli` follows createuser: the hash, the INSERT with its unique
address, the event. `flow` is the step Inngest is to run and `tries` its failed
calls; `SendWelcome` may go out and not be recorded, so it runs again.

**Server.** `step` is where `run` is: `Following` gives its order, and each
step may fail (`BootFails`). `deferred` is what the deferred functions will
flush and close, `conf` the environment, `outbox` what `mailer.Configure` made
of it. `Signal`, `Drained` (srv.Shutdown with its 15 s), `StopExpires`,
`JobsStopped`, `Close` and `Exit` are the shutdown; `Crash` can come anywhere.
Handlers and workers move only while there is a pool (`Query`), requests and
Inngest get in only while `step = "serving"`. The deferred functions run after
the early returns as well, which past `jobs.Start` close the pool under running
workers: `torn` remembers that, and a crash; `misled` remembers production mail
that stayed in the log or had no origin to link to.

**Requests.** A record per request in flight: `at` is its place in the chain,
`inside` whether it is past LoadAndSave, then its copy of the session. `Arrive`
is the chain from the body limit to the gate, `LoadUser` as in
`Sessions` but with what it does to the flash, `Home`, `SigninForm`, `Form`,
`Signin`, `Refused`, `Flashed`, `Signout` and `Fails` the routes by what they
answer, `Write`, `SaveFails` and `Unwind` the way out. `ErrorHandler` is called
by the request logger in the inner chain and by Echo outside of it. `fate`,
`last` and `wanted` are history. Echo and scs are external. The gate is
`SameOriginPost`, with the scheme as `RequestScheme` finds it, over `Deployments`
(browser's scheme, TLS on the last hop, what a proxy says in
`X-Forwarded-Proto` or in an absolute request URI, rightly, wrongly or not at
all, and whether it rewrites Host), over `Origins` (where the form was),
`Headers` (Origin, `Sec-Fetch-Site` or neither) and paths under /api/inngest,
which the gate lets in (`flows`; the route is `Flows`). What it ought to say is
`Barred`, which is put in terms of the page the form was on: a form of another
host is barred in every deployment; one of our host is barred exactly if its
scheme is another, where what the server is told is so (`Told`). Where the
proxies hide the scheme or the host from it, nothing is asked of a form of our
host: the code may refuse the application's own.

**LoggerManager.** A settings string is a sequence of tags; `NewConfig` and
`IsEnabled`/`GetLevel` are operators on it. `loggers` and `handlers` are the two
maps, by the goroutine that made the entry; `Make`, `BeginWrite`, `WriteLogger`
and `WriteHandler` are the steps of a first use, which others may overlap
(`raced`), with the Go runtime free to throw on overlapping writes. `Configure`
has the write lock. The manager's own specification is `LogSpec`.

**TestTemplate.** `files` is the version of `migrations/`; a database is what
was migrated into it and its stamp. `Sweep` to `Rename` are bin/testdb command
by command, `BuildFails` a failure (the trap drops the scratch database) or a
kill (it stays). `Sweep` takes the scratch databases of other runs for orphans.
`Clone` and `CloneFails` are createTestDB. `skew` is history.

**Generators.** The source of a package is a set of declarations, a schema a set
of columns; `Wrapper`, `ConnFile`, `Field` and `ModelFile` say what is written
for them (`ConnExpr` by whether the package declares a top-level `Conn` of any
kind, as the code does), `Model` and `Conn` write one file after another, and a kill may leave
one torn. `VariantsCallTheirTx` and `ModelsHoldRows` judge the result against
definitions of their own: which parameters a caller passes and what the
function gets, which values a column holds and an insert names. The connection
it gets has to be the pool as seen from its package (`PoolIn`: `Conn` in package
db, `db.Conn` elsewhere); a package other than db with a `Conn` of its own
(`OwnConn`) is the exception by name, and one of the instance's packages may
have one.

**DevLoop.** `gate` is bin/check from its first command to its verdict; `Drift`
is its `git status --porcelain` of the generated files, `CheckTemplate` its call of bin/testdb.
Meanwhile the developer edits, migrates, stages and repairs, and other runs of
bin/testdb rebuild. `dirty` is history: something moved under the gate.

**Worktrees.** `registry` is `port-allocations.tsv`, `lock` the lock directory
and who made it, `old` whether it is past STALE_LOCK_SECS, `clones` the
databases. `pc` follows each worktree's script: lock, read, append, release,
two clones; two drops, lock, filter, move, release. `Drop` either drops or, where
the query for the database fails, goes on as if there were none: it stays as a
`Leftover`, and its port is given back all the same. `LastAttempt`, `FindStale`
and `TakeOver` are the end of the wait for the lock: the last attempt fails, the
age of the lock is looked up (one that is gone by then counts as old), and
whatever lock is there is removed, all with others in between. `Exit` is the EXIT trap,
which is set before the lock is tried for and so removes it for a script that
never had it; `Dies` is a kill, which leaves it. `broken` records that a lock
was taken from a script still in it; there the scripts' promises end, and the
model with them, so what follows a theft (two takeovers of one lock, say) is
not explored.

## Runs

| Run | Instance | Shows |
|---|---|---|
| `password_reset` | 2 users, 2 links, 2 confirms, one clock tick | types; a success retires what was issued before; a spent link works only for requests that overlapped; every password came through an unexpired link of that user; every form is answered; `ResetLedger` is implemented |
| `reset_single_use` | the same | violated: two overlapping confirms redeem one link |
| `throttle` | 2 keys, 2 requests, 4 rows, limit 2, window 2 | types; no attempt that counts is forgotten; bounded overshoot; refusals do not prolong a lockout; lockouts end |
| `throttle_limit` | the same | violated: the limit itself, by requests counted together |
| `sessions` | 2 users, 2 tokens, 2 requests at a time, 2 passwords | types; no token known before a sign-in becomes a signed-in one; a session destroyed alone stays gone; every request is served on the password of the moment |
| `sessions_signout` | the same | violated: a sign-out beside a request in progress does not last |
| `server` | 1 request for a mail of 2 attempts, 2 createusers that race for one address, 2 launches, 3 environments | types; no mail uncounted; no job given up in silence; production mail leaves; only crashes and failed boots leave orphans or close the pool under work; welcomes follow accounts; shutdown ends; jobs end if the server stays up |
| `requests` | 2 requests at a time, 2 tokens, 2 flashes, one URI | types; each 5xx is reported once; the gate refuses every form of a foreign page, and lets in ours wherever the browser or the proxies tell and Inngest's posts always; a flash is shown once; a sign-in returns to the page that asked for it |
| `hash_slots` | 4 calls, 1 slot, 2 connections | types; nothing leaks; every call ends |
| `dev_loop` | 2 packages, 1 table with 2 schemas, 2 builders, 3 developer's moves | types; the template is whole and true to its stamp; variants call their Tx function; models hold rows; "all checks passed" is about what is staged |
| `worktrees` | 3 worktrees, 2 ports | types; ports are distinct; the databases of a ready worktree are its own, or such as a teardown left behind whose query failed, and never another's |
| `logging_tag_level` | 1 name, 2 goroutines | violated: the level of a tag is parsed and dropped |

**Bounds.** Replays, overshoots and lost updates need two requests; two links
tell "every outstanding link" from "this one"; two users tell one account's
links, keys and tokens from another's. `TTL = MaxTime = 1` lets a link expire
between any two statements. With a limit of 2, one request stays under it and
two can pass it together; four rows are one more than they can record in a
window. Two tokens let one session begin while another exists; the model also
passes with three tokens and one user. One slot and two connections let resets
hold every connection while they wait for a slot held elsewhere.

`server`: requests share nothing but the client, the pool and the accounts, so
one is followed; two attempts make a retry and a discard; a second launch finds
what the first left behind. Two createusers race for the unique address, so one
of them comes too late or fails after the other's INSERT; one retry of a
welcome is enough for a mail that went out and was not recorded. The
environments are production as it should be, without a sender, and without an
origin; of development, which logs its mail, nothing is claimed. `requests`: a flash or a
page to return to is lost or doubled by two requests or by two in turn, and a
second flash replaces a first. `dev_loop`: one rebuild other than the gate's
own is enough for a scratch database to be swept; of three moves two can change
what the gate has read and a third can start a rebuild. The declarations include a convention with
several transactions in one group, one in two groups, a variadic parameter, a
hand-written namesake and a method; the columns every kind of default and null.
`createTestDB` tries twice instead of 21 times. `worktrees`: a takeover needs a
holder, a thief and, to see two ports collide, a third. With two ports for three
worktrees a port is given back and taken again, by one that finds what is left
behind it; `MaxPort` only bounds the model, as the code counts on without end.
Its `Move` is one step, which holds for `mv` within a file system. `MaxIds`, `MaxFlashes`, `MaxMoves`,
`MaxVersion`, `MaxTries`, `MaxLaunches`, `MaxEpoch` and `MaxPort` cap counters and
stand in guards or types; nothing is hidden by a state constraint.

`Sessions`, `Requests` and `Worktrees` are checked up to renaming (`SYMMETRY`);
runs with a liveness property use none. Deadlock is checked in every passing
run: `PasswordReset` and `Server` stutter explicitly (`Terminating`) when all
requests have ended or all launches are used, `Worktrees` once it is `broken`,
and the others can always take a step. Only `logging_tag_level` says
`CHECK_DEADLOCK FALSE`: a process that has thrown stops.

**Fairness.** `PasswordReset`: a statement sent is answered and a lock that
stays free is granted; no user has to submit and nothing has to fail.
`Throttle`: time passes, and nothing else has to happen. `HashSlots`: queries
and hashes end, and the head of a queue gets the resource when it is free; the
queues are FIFO in Go channels, pgxpool and Postgres, which is why they are in
the state and weak fairness is enough. `GiveUp` and `Fail` are never required:
calls complete without the help of a timeout. `Server`: boot and shutdown go on
once begun, since `run` is straight code with timeouts; queries and provider
calls end, by their own timeouts if not otherwise, and River works what it
finds. No handler has to end in time for the drain, no signal has to come, and
nothing has to fail or crash. The jobs' promise (`EveryJobEnds`) is about a
server that stays up from some point on; before it, anything may have happened.
`ShutdownEnds` includes `db.Close`, which waits for every acquired connection:
they come back because queries end (`HashSlots` shows the same of the calls that
wait for each other). `Sessions`, `Requests`, `LoggerManager`, `DevLoop` and
`Worktrees` state safety only.

**Disagreements found.** `SingleUse`: `auth/reset.go:3` promises single-use
links, but the SELECT locks nothing and the row count of the retiring UPDATE is
not looked at. `LimitHolds`: the limit of `web/throttle.go:15` is checked and
then acted on. `DestroyedStaysGone`: the sign-out of `web/signin_test.go:83` can
be undone by the write-back of a request in progress. `TagLevelHonoured`: the
level that `logging/logging.go:36` gives a tag is parsed and never stored where
`GetLevel` reads it. Each of the first three comes with the weaker property
that does hold (`RetiredLinkNeverRedeems`, `AttemptsBounded`,
`DestroyedAloneStaysGone`); the rest of what settings say does hold
(`LoggersFollowSettings`).

Not disagreements with any text, but worth knowing, since the properties of the
models name them as exceptions: early returns after `jobs.Start`
(`server.go:98-140`) close the pool under running workers; a script that gives
up on the port lock removes it from its holder (`bin/port-allocate:48`), and so
does one that looked at the age of a lock which was made anew since
(`bin/port-allocate:37-39`); a query that fails in a teardown reads as "does
not exist", so the port is given back with its databases in place, and the next
worktree there is ready on them (`bin/worktree-teardown:51`,
`bin/worktree-setup:67-70`); conngen takes any top-level `Conn` of a package
for the pool (`cmd/conngen/main.go:250`); behind a proxy that ends TLS and does
not say so in `X-Forwarded-Proto`, or one that rewrites Host, the application's
own forms are refused when the browser sends Origin (`web/secure.go:76-110`);
an edit of `migrations/` between a rebuild's migration and its stamp is stamped
as applied (`bin/testdb:80`); two first uses of one logger leave a handler that
`Configure` does not reach, or end the process
(`logging/logger_manager.go:76`).

**Faults each property detects.** A definition marked `(fault)`
(`SignSlip`, `OnlyPresented`, `KeepLock`, `OverLimit`, `RefuseAndRecord`,
`StartFirst`, `DrainedOnly`, `SkipDrift`, `KeepFlash`, `FreeFirst`, ...) is no
part of a specification: it is a plausible mistake in one mapped definition. Put
in that definition's place, it makes TLC find the property broken;
`PROJECT.json` (`mutants`) pairs every property with one.

## Proofs

All theorems hold for any number of users, links, keys, rows, requests,
launches, worktrees, ports, callers, packages and tables (finite where the
code's counts need it). They state every invariant and every action property
that the passing runs check. What they suppose stands next to the constants,
named, and is evaluated in every run: null values differ from real ones, limits
and sizes are positive, requests in progress are finitely many, no request URI
is empty (`RequestParameters`), tables and packages have files of their own
(`GeneratorParameters`), the gate's run of bin/testdb is one of several
(`GateParameters`), package db declares its `Conn` (`PoolDeclared`), and the
parameters of one function have different names (`SourcesDeclare`), as the
compiler wants it. It does let several parameters be blank; a blank name cannot be passed on, so conngen's output for such a function
does not compile, and the property would have no meaning for it.

- `PasswordResetProofs`: `TypeCorrect`, `OutstandingRetired`, `LinkRetired`,
  `PasswordEarned`, `Refinement`. None of the properties is inductive alone: the
  proof rests on `IndInv`, which says that a link's owner and expiry are fixed
  once it is minted, that the holder of a row lock stands between its UPDATE
  and its end, that a request at `retired` has in `retiring` every link of its
  user that was issued before it and is still unused, and that history never
  claims what did not happen. `Refinement` maps a commit to `Redeem`, an insert
  to `Issue`, a cascade to `Withdraw` and everything else to a stutter.
- `ThrottleProofs`: `TypeCorrect`, `AttemptsKept`, `Bound` and the action property
  `RefusedUncounted`. The count alone is not inductive; counted attempts plus
  admitted requests is (`Budget`).
- `SessionsProofs`: `TypeCorrect`, `TokenFresh`, `AloneStaysGone` and the action
  property `ServedCurrent`. `IndInv` says that rows and copies, however late
  they are written back, agree with what their token was drawn for.
- `HashSlotsProofs`: `NothingLeaked`, `HashesBounded`, `TypeCorrect`, `Unstuck`.
  Each step moves one caller into or out of the holders of a resource and its
  counter with it (`Counts`). `InOrder` adds that each queue is a line of those
  who wait for its resource, each in it once; the lemmas before it say what
  joining, being served and leaving from the middle make of a line. Both
  together give `NeverStuck`: as long as a call is going on, one can go on,
  since whoever has a slot waits for nothing, whoever waits for a connection
  holds nothing, and the row lock is taken at the last statement. That is the
  part of `EveryCallCompletes` which is not about fairness.
- `ServerProofs`: first the reset email by itself - `JobTypeCorrect`, `Counted`,
  `DiscardsHeard` from `IndInv`, which ties a job's row to its attempt, its work
  and its reports: an error that ends the last attempt is reported before the
  row says so. `ServesJobs` shows that every step of the server is one of
  `ResetEmail` or leaves its state alone, so that these carry over
  (`JobsAtWork`). `Inv` says what boot has done by the time `run` is at a step;
  from it follow `NoOrphans`, `PoolLast` and `MailLeaves`. `Welcomed` puts a
  committed account behind each event and a sent mail behind each later step:
  `WelcomeAfterAccount`. `TypeCorrect` joins these with `ProcessTyped`.
  `FollowSettings` is about the logging beside it (`LogSpec =>
  []LoggersFollowSettings`, under `LogParameters`): of a name whose first uses
  never overlapped, the entry handed out and the entry Configure reaches are one.
- `RequestsProofs`: `TypeCorrect`, `HeardOnce`, `GateMatches`, `ShownOnce`,
  `Bounced`. `Sound` says of one request what it has answered, failed and
  reported by the place it is at, and what its copy of the session can hold;
  `Flashes` says where a flash that nobody has seen yet can still be - in a
  stored row, in one copy, or spoilt in a named way; `Bounces` says the same of
  the page to return to. The last two are not properties of a request: a step of
  one is judged by what the others still hold (`Others`). `GateMatches` rests on
  `VerdictsSound`: in every deployment the gate's verdict is the one the page the
  form was on calls for, by `SchemeTold` where the server is told the scheme.
- `DevLoopProofs`: `TypeCorrect`, `TemplateIsWhole`, `ModelsHold`, `VariantsCall`,
  `GatePasses`. `TemplateSound`, `GenSound` and `Phases` follow the databases, the
  files and the gate; `Current` and `Undisturbed` say, as long as nothing moves,
  that the files bin/generate is done with are those of the present sources and
  schema, and that index, template and clone are what the gate found them to be.
  `VariantsCall` needs, besides, what the wrapper of a function is, for any
  number of groups of any number of names: `WrapperCalls`, that it calls the
  function with each argument at its parameter's place and on the pool, or on the
  package's own `Conn`; `NamesPool` says when the name conngen writes is the pool's. `FlattenSeq` is a
  fold, so its lemmas go by induction along a sequence, which here is "a least
  number at which it fails" (`Least`, `Upwards`): the installed provers cannot
  instantiate the induction theorems. From it come what a flattened sequence
  holds (`FlatHolds`), that it keeps places (`FlatAlike`: every argument is at its
  parameter's) and what it loses with one group (`FlatLess`, `WithoutOne`).
- `WorktreesProofs`: `TypeCorrect`, `DistinctPorts`, `Isolated`. While no lock was
  taken from its holder there is one script in the critical section, what it
  read is still the registry, and databases named after a port belong to the
  worktree that has it or to nobody any more (`Inv`).

Only model-checked: the liveness properties (`EveryConfirmAnswered`,
`LockoutEnds`, `EveryCallCompletes`, `ShutdownEnds`, `EveryJobEnds`), which need
fairness and ENABLED, out of the prover's reach. The four violated properties
are refuted by their runs.

## Not modelled

- **Code that no route or program uses**: `RequirePolicy`, `RequireRole`,
  `FinishMutation`, `UserMessage`, `apierror.Internal`, the autocommit variants
  that only tests call (`auth.ResetPassword` of `conn.gen.go` among them).
- **A panic inside `InTx`** would leave its transaction open; no function that
  is passed to it panics.
- **Pure text or single statements**: views, what error pages and mails say,
  response headers, log lines, the row-count checks of `db/`, the password
  policy's lengths and the hash's encoding, `fixture/` and `partition/`, the
  analyzers, names, comments and result types in the generators' output.
- **Outside the repository**: Echo, scs, River and Inngest are modelled as their
  callers see them (`external` in the map). Not at all: telemetry's exporters,
  River's own connections, goose, Go's test cache under bin/check.
- **Left aside in what is modelled**: the row models come from the development
  database, which is taken to be at a version of `migrations/`; the model file
  of a table removed from `modelgen.yaml` stays; answers that scs and the
  Inngest SDK give themselves never reach the error handler and are excepted from
  `FailuresHeardOnce`; `mv`
  across file systems.
- **bin/ scripts** other than those named are straight sequences of external
  tools; test helpers that make requests and clients keep no shared state.
