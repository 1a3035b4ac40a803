------------------------------ MODULE Throttle ------------------------------
(***************************************************************************)
(* Attempt throttling: web/throttle.go under its two callers, SigninSubmit *)
(* and PasswordResetRequest (web/handlers_auth.go).                        *)
(*                                                                         *)
(* The throttle's queries run on the pool, each statement a transaction of *)
(* its own, so any number of requests for one key - in one server process  *)
(* or in several - interleave between the count that admits a request and  *)
(* the insert that records it.                                             *)
(*                                                                         *)
(* attempted_at is only ever compared with now() minus the window, so a    *)
(* row keeps its age instead, which stops growing once it is past that.    *)
(***************************************************************************)
EXTENDS Integers, FiniteSets

CONSTANTS
    SigninKeys,     \* "ip|email", the keys of the sign-in form
    ResetKeys,      \* "reset|ip|email", the keys of the reset-request form
    Handlers,       \* the requests that may be in progress at once
    Rows,           \* places for rows of throttle_attempts (it has no key)
    Limit,          \* throttleLimit
    Window,         \* throttleWindow, in clock ticks
    NoKey

Keys == SigninKeys \cup ResetKeys

ASSUME Parameters ==
    /\ Limit \in Nat \ {0}
    /\ Window \in Nat \ {0}
    /\ NoKey \notin Keys

ASSUME HandlersBounded == IsFiniteSet(Handlers)

VARIABLES
    rowKey,     \* throttle_attempts.key; NoKey where there is no row
    age,        \* now() - attempted_at, capped just past the window
    pc,         \* where each request stands
    key,        \* the throttle key of each request
    tried       \* history: attempts of this window since the key's last success

vars == <<rowKey, age, pc, key, tried>>

Init ==
    /\ rowKey = [i \in Rows |-> NoKey]
    /\ age = [i \in Rows |-> Window + 1]
    /\ pc = [h \in Handlers |-> "idle"]
    /\ key = [h \in Handlers |-> NoKey]
    /\ tried = [i \in Rows |-> NoKey]

-----------------------------------------------------------------------------

\* Rows of k with attempted_at > now() - window.
AnyAge(k)  == {i \in Rows : rowKey[i] = k}  \* (fault)
Counted(k) == {i \in Rows : rowKey[i] = k /\ age[i] < Window}

\* ThrottleBlockedTx.
OverLimit(k) == Cardinality(Counted(k)) > Limit  \* (fault)
Blocked(k)   == Cardinality(Counted(k)) >= Limit

\* The handlers' first query lets the request through to its form's work ...
Admit(h, k) ==
    /\ pc[h] = "idle"
    /\ ~Blocked(k)
    /\ pc' = [pc EXCEPT ![h] = IF k \in SigninKeys THEN "authenticating" ELSE "recording"]
    /\ key' = [key EXCEPT ![h] = k]
    /\ UNCHANGED <<rowKey, age, tried>>

\* ... or answers it at once, with a flash and the form again.
RefuseAndRecord(h, k) ==  \* (fault)
    /\ pc[h] = "idle"
    /\ Blocked(k)
    /\ \E i \in Rows :
          /\ rowKey[i] = NoKey
          /\ rowKey' = [rowKey EXCEPT ![i] = k]
          /\ age' = [age EXCEPT ![i] = 0]
          /\ tried' = [tried EXCEPT ![i] = k]
    /\ UNCHANGED <<pc, key>>

Refuse(h, k) ==
    /\ pc[h] = "idle"
    /\ Blocked(k)
    /\ UNCHANGED vars

Finish(h, at) == pc' = [pc EXCEPT ![h] = at]

\* auth.Authenticate: wrong credentials, right ones, or an error that answers
\* 500 and records nothing (the database or the wait for a hash slot).
Authenticate(h) ==
    /\ pc[h] = "authenticating"
    /\ \E outcome \in {"recording", "succeeded", "idle"} : Finish(h, outcome)
    /\ UNCHANGED <<rowKey, age, key, tried>>

\* ThrottleFailTx, first statement, over every key.  DELETE ... WHERE
\* attempted_at < now() - window leaves the row exactly one window old.
Kept == {i \in Rows : age[i] <= Window}

Prune(h) ==
    /\ pc[h] = "recording"
    /\ rowKey' = [i \in Rows |-> IF i \in Kept THEN rowKey[i] ELSE NoKey]
    /\ Finish(h, "pruned")
    /\ UNCHANGED <<age, key, tried>>

\* ThrottleFailTx, second statement: attempted_at defaults to now() and not
\* to a clock that runs ahead of it.
FromFuture  == -1  \* (fault)
NewlyMade   == 0

Record(h) ==
    /\ pc[h] = "pruned"
    /\ \E i \in Rows :
          /\ rowKey[i] = NoKey
          /\ tried[i] = NoKey
          /\ rowKey' = [rowKey EXCEPT ![i] = key[h]]
          /\ tried' = [tried EXCEPT ![i] = key[h]]
          /\ age' = [age EXCEPT ![i] = NewlyMade]
    /\ Finish(h, "idle")
    /\ UNCHANGED key

\* Either statement can fail: the handler answers 500, the attempt is lost.
LoseAttempt(h) ==
    /\ pc[h] \in {"recording", "pruned"}
    /\ Finish(h, "idle")
    /\ UNCHANGED <<rowKey, age, key, tried>>

\* ThrottleResetTx, once the credentials were right.
Everything(h) == Rows  \* (fault)
Failures(h)   == {i \in Rows : rowKey[i] = key[h]}

Clear(h) ==
    /\ pc[h] = "succeeded"
    /\ rowKey' = [i \in Rows |-> IF i \in Failures(h) THEN NoKey ELSE rowKey[i]]
    /\ tried' = [i \in Rows |-> IF tried[i] = key[h] THEN NoKey ELSE tried[i]]
    /\ Finish(h, "idle")
    /\ UNCHANGED <<age, key>>

\* When it fails the handler logs it and signs the user in all the same.
ClearFails(h) ==
    /\ pc[h] = "succeeded"
    /\ Finish(h, "idle")
    /\ UNCHANGED <<rowKey, age, key, tried>>

Tick ==
    /\ age' = [i \in Rows |-> IF age[i] <= Window THEN age[i] + 1 ELSE age[i]]
    /\ tried' = [i \in Rows |-> IF age'[i] < Window THEN tried[i] ELSE NoKey]
    /\ UNCHANGED <<rowKey, pc, key>>

Next ==
    \/ \E h \in Handlers, k \in Keys : Admit(h, k)
    \/ \E h \in Handlers, k \in Keys : Refuse(h, k)
    \/ \E h \in Handlers : Authenticate(h)
    \/ \E h \in Handlers : Prune(h)
    \/ \E h \in Handlers : Record(h)
    \/ \E h \in Handlers : LoseAttempt(h)
    \/ \E h \in Handlers : Clear(h)
    \/ \E h \in Handlers : ClearFails(h)
    \/ Tick

\* Time passes.  No request has to arrive, and none has to get any further.
Spec == Init /\ [][Next]_vars /\ WF_vars(Tick)

-----------------------------------------------------------------------------

\* The value each variable may take.
TypeOK ==
    /\ rowKey \in [Rows -> Keys \cup {NoKey}]
    /\ age \in [Rows -> 0 .. Window + 1]
    /\ pc \in [Handlers -> {"idle", "authenticating", "recording", "pruned", "succeeded"}]
    /\ key \in [Handlers -> Keys \cup {NoKey}]
    /\ tried \in [Rows -> Keys \cup {NoKey}]

Tried(k)    == {i \in Rows : tried[i] = k}
Admitted(k) == {h \in Handlers : key[h] = k /\ pc[h] # "idle"}

\* The throttle counts every attempt of the window since the key's last
\* success: no prune and no other key's success loses one of them.
NoAttemptForgotten ==
    \A k \in Keys : Tried(k) \subseteq Counted(k)

\* However requests interleave, a window holds fewer recorded attempts than
\* the limit, plus one for each request that can be in progress.
AttemptsBounded ==
    \A k \in Keys : Cardinality(Tried(k)) <= Limit - 1 + Cardinality(Handlers)

\* "so the limit holds across processes" (web/throttle.go:15): a window
\* never holds more attempts than the limit.
LimitHolds ==
    \A k \in Keys : Cardinality(Tried(k)) <= Limit

\* A request refused does not prolong the lockout: while a key is blocked and
\* none of its admitted requests is left, its count does not grow.
RefusalsNotCounted ==
    [][\A k \in Keys : Blocked(k) /\ Admitted(k) = {} => Counted(k)' \subseteq Counted(k)]_vars

\* "the throttle must let go" (web/throttle_test.go:59): a blocked key is
\* let in again, although only an admitted request of some key ever prunes.
LockoutEnds ==
    \A k \in Keys : Blocked(k) ~> ~Blocked(k)

=============================================================================
