--------------------------- MODULE PasswordReset ---------------------------
(***************************************************************************)
(* Password recovery: auth/reset.go run inside db.InTx, against the tables *)
(* users and password_reset_tokens.                                        *)
(*                                                                         *)
(* A token is named by the mint that made it (the worker draws 32 random   *)
(* bytes per attempt), and a password hash by the request that computed it *)
(* (argon2id salts every hash), so no two are ever equal.  A confirm       *)
(* request is one READ COMMITTED transaction: its statements are separate  *)
(* steps, each sees what was committed when it runs, its writes become     *)
(* visible at COMMIT, and its row lock on the user is held until it ends.  *)
(***************************************************************************)
EXTENDS Integers

CONSTANTS
    Users,      \* rows the users table may hold
    Tokens,     \* mints: one attempt of the reset-email worker each
    Requests,   \* POSTs of the new-password form
    Original,   \* the hash an account was created with
    None,       \* SQL NULL, a token that matches no row, a free lock
    TTL,        \* ResetTokenTTL
    MaxTime     \* bound on the clock

ASSUME NullsDiffer ==
    /\ None \notin Users \cup Tokens \cup Requests
    /\ Original \notin Requests

ASSUME Durations == TTL \in Nat /\ MaxTime \in Nat

VARIABLES
    now,            \* the clock that Postgres and the application share
    account,        \* the users rows that exist
    password_hash,  \* users.password_hash
    row,            \* each token's progress: lookup, row, use
    owner,          \* password_reset_tokens.user_id
    expires_at,     \* password_reset_tokens.expires_at
    pc,             \* where each request's transaction stands
    presented,      \* the token each request carries
    startedAt,      \* now() of the transaction: the time it began
    lock,           \* which transaction holds each users row
    retiring,       \* the rows a transaction's UPDATE marked used
    issuedBefore,   \* history: rows that existed when the request began
    doneBefore      \* history: resets committed before its SELECT ran

tokenVars   == <<row, owner, expires_at>>
requestVars == <<pc, presented, startedAt, retiring, issuedBefore, doneBefore>>
vars == <<now, account, password_hash, tokenVars, requestVars, lock>>

Subject(r) == owner[presented[r]]

InTransaction == {"begun", "selected", "updated", "retired"}
Ended         == {"committed", "rejected", "failed"}
Committed     == {r \in Requests : pc[r] = "committed"}

HasRow(t) == row[t] \in {"unused", "used"}

Init ==
    /\ now = 0
    /\ account = Users
    /\ password_hash = [u \in Users |-> Original]
    /\ row = [t \in Tokens |-> "none"]
    /\ owner = [t \in Tokens |-> None]
    /\ expires_at = [t \in Tokens |-> 0]
    /\ pc = [r \in Requests |-> "idle"]
    /\ presented = [r \in Requests |-> None]
    /\ startedAt = [r \in Requests |-> 0]
    /\ retiring = [r \in Requests |-> {}]
    /\ issuedBefore = [r \in Requests |-> {}]
    /\ doneBefore = [r \in Requests |-> {}]
    /\ lock = [u \in Users |-> None]

-----------------------------------------------------------------------------
(* CreatePasswordResetTx, on the pool in autocommit: a lookup, then an     *)
(* insert.  The expiry is computed between the two, on the app's clock.    *)

SignSlip  == now - TTL  \* (fault)
ExpiresAt == now + TTL

LookupAccount(t, u) ==
    /\ row[t] = "none"
    /\ u \in account
    /\ row' = [row EXCEPT ![t] = "looked_up"]
    /\ owner' = [owner EXCEPT ![t] = u]
    /\ expires_at' = [expires_at EXCEPT ![t] = ExpiresAt]
    /\ UNCHANGED <<now, account, password_hash, requestVars, lock>>

\* The foreign key refuses a row for an account that vanished meanwhile, and
\* the INSERT can fail on its own: either way the attempt leaves no row.
InsertToken(t) ==
    /\ row[t] = "looked_up"
    /\ \E outcome \in {"unused", "gone"} :
          /\ outcome = "unused" => owner[t] \in account
          /\ row' = [row EXCEPT ![t] = outcome]
    /\ UNCHANGED <<now, account, password_hash, owner, expires_at, requestVars, lock>>

-----------------------------------------------------------------------------
(* ResetPasswordTx inside db.InTx.                                         *)

\* The form carries a mailed link's token, or one that never had a row.
Begin(r, t) ==
    /\ pc[r] = "idle"
    /\ t \in {k \in Tokens : row[k] \notin {"none", "looked_up"}} \cup {None}
    /\ pc' = [pc EXCEPT ![r] = "begun"]
    /\ presented' = [presented EXCEPT ![r] = t]
    /\ startedAt' = [startedAt EXCEPT ![r] = now]
    /\ issuedBefore' = [issuedBefore EXCEPT ![r] = {k \in Tokens : HasRow(k)}]
    /\ UNCHANGED <<now, account, password_hash, tokenVars, lock, retiring, doneBefore>>

\* ValidatePassword refuses the new password before any query runs.
RefusePassword(r) ==
    /\ pc[r] = "begun"
    /\ pc' = [pc EXCEPT ![r] = "rejected"]
    /\ UNCHANGED <<now, account, password_hash, tokenVars, presented, startedAt,
                   retiring, issuedBefore, doneBefore, lock>>

\* The predicate of liveResetTokenTx: unused, and unexpired at now().
LiveIgnoringUse(r)    == presented[r] \in Tokens /\ HasRow(presented[r])  \* (fault)
                            /\ expires_at[presented[r]] > startedAt[r]
LiveIgnoringExpiry(r) == presented[r] \in Tokens /\ row[presented[r]] = "unused"  \* (fault)
LiveToken(r) ==
    /\ presented[r] \in Tokens
    /\ row[presented[r]] = "unused"
    /\ expires_at[presented[r]] > startedAt[r]

SelectToken(r) ==
    /\ pc[r] = "begun"
    /\ pc' = [pc EXCEPT ![r] = IF LiveToken(r) THEN "selected" ELSE "rejected"]
    /\ doneBefore' = [doneBefore EXCEPT ![r] = Committed]
    /\ UNCHANGED <<now, account, password_hash, tokenVars, presented, startedAt,
                   retiring, issuedBefore, lock>>

\* Hash the password, then UPDATE users: it waits for the row's lock, and
\* matches no row when the account is gone (the row count is not read).
UpdatePassword(r) ==
    /\ pc[r] = "selected"
    /\ lock[Subject(r)] = None
    /\ lock' = IF Subject(r) \in account
               THEN [lock EXCEPT ![Subject(r)] = r]
               ELSE lock
    /\ pc' = [pc EXCEPT ![r] = "updated"]
    /\ UNCHANGED <<now, account, password_hash, tokenVars, presented, startedAt,
                   retiring, issuedBefore, doneBefore>>

\* What the second UPDATE matches: every unused row of the user, expired or not.
OnlyPresented(r) == {t \in {presented[r]} : row[t] = "unused"}  \* (fault)
NoTokens(r)      == {}  \* (fault)
Outstanding(r)   == {t \in Tokens : owner[t] = Subject(r) /\ row[t] = "unused"}

RetireTokens(r) ==
    /\ pc[r] = "updated"
    /\ retiring' = [retiring EXCEPT ![r] = Outstanding(r)]
    /\ pc' = [pc EXCEPT ![r] = "retired"]
    /\ UNCHANGED <<now, account, password_hash, tokenVars, presented, startedAt,
                   issuedBefore, doneBefore, lock>>

\* ByIDTx finds the user (its row is locked, so it is there), then COMMIT.
Commit(r) ==
    /\ pc[r] = "retired"
    /\ lock[Subject(r)] = r
    /\ password_hash' = [password_hash EXCEPT ![Subject(r)] = r]
    /\ row' = [t \in Tokens |-> IF t \in retiring[r] THEN "used" ELSE row[t]]
    /\ lock' = [lock EXCEPT ![Subject(r)] = None]
    /\ pc' = [pc EXCEPT ![r] = "committed"]
    /\ UNCHANGED <<now, account, owner, expires_at, presented, startedAt, retiring,
                   issuedBefore, doneBefore>>

\* The locks a transaction gives back when it ends.
KeepLock(r) == lock  \* (fault)
Unlocked(r) == [u \in Users |-> IF lock[u] = r THEN None ELSE lock[u]]

\* ByIDTx reports ErrNotFound (the UPDATE matched no row): InTx rolls back.
AccountVanished(r) ==
    /\ pc[r] = "retired"
    /\ lock[Subject(r)] # r
    /\ pc' = [pc EXCEPT ![r] = "failed"]
    /\ UNCHANGED <<now, account, password_hash, tokenVars, presented, startedAt,
                   retiring, issuedBefore, doneBefore, lock>>

\* A statement, the hash slot or COMMIT fails, or the server dies and
\* Postgres drops its connection: the transaction rolls back.
RollBack(r) ==
    /\ pc[r] \in InTransaction
    /\ pc' = [pc EXCEPT ![r] = "failed"]
    /\ lock' = Unlocked(r)
    /\ UNCHANGED <<now, account, password_hash, tokenVars, presented, startedAt,
                   retiring, issuedBefore, doneBefore>>

-----------------------------------------------------------------------------
(* The environment.  Nothing in the application deletes a user, but every  *)
(* caller handles one that vanished; token rows go with it (ON DELETE      *)
(* CASCADE), and the DELETE waits for the row's lock.                      *)

DeleteUser(u) ==
    /\ u \in account
    /\ lock[u] = None
    /\ account' = account \ {u}
    /\ row' = [t \in Tokens |-> IF owner[t] = u /\ HasRow(t) THEN "gone" ELSE row[t]]
    /\ UNCHANGED <<now, password_hash, owner, expires_at, requestVars, lock>>

Tick ==
    /\ now < MaxTime
    /\ now' = now + 1
    /\ UNCHANGED <<account, password_hash, tokenVars, requestVars, lock>>

\* Every request has been answered: nothing is left to do.
Terminating ==
    /\ \A r \in Requests : pc[r] \in Ended
    /\ UNCHANGED vars

Next ==
    \/ \E t \in Tokens, u \in Users : LookupAccount(t, u)
    \/ \E t \in Tokens : InsertToken(t)
    \/ \E r \in Requests, t \in Tokens \cup {None} : Begin(r, t)
    \/ \E r \in Requests : RefusePassword(r)
    \/ \E r \in Requests : SelectToken(r)
    \/ \E r \in Requests : UpdatePassword(r)
    \/ \E r \in Requests : RetireTokens(r)
    \/ \E r \in Requests : Commit(r)
    \/ \E r \in Requests : AccountVanished(r)
    \/ \E r \in Requests : RollBack(r)
    \/ \E u \in Users : DeleteUser(u)
    \/ Tick
    \/ Terminating

\* A statement sent to Postgres is answered, and a lock that stays free is
\* granted.  Nothing makes a user submit, a mint run or a transaction fail.
Fairness ==
    \A r \in Requests :
        /\ WF_vars(SelectToken(r))
        /\ WF_vars(UpdatePassword(r))
        /\ WF_vars(RetireTokens(r))
        /\ WF_vars(Commit(r))
        /\ WF_vars(AccountVanished(r))

Spec == Init /\ [][Next]_vars /\ Fairness

-----------------------------------------------------------------------------

\* The value each variable may take.
TypeOK ==
    /\ now \in Nat
    /\ account \in SUBSET Users
    /\ password_hash \in [Users -> Requests \cup {Original}]
    /\ row \in [Tokens -> {"none", "looked_up", "unused", "used", "gone"}]
    /\ owner \in [Tokens -> Users \cup {None}]
    /\ expires_at \in [Tokens -> Nat]
    /\ pc \in [Requests -> {"idle"} \cup InTransaction \cup Ended]
    /\ presented \in [Requests -> Tokens \cup {None}]
    /\ startedAt \in [Requests -> Nat]
    /\ lock \in [Users -> Requests \cup {None}]
    /\ retiring \in [Requests -> SUBSET Tokens]
    /\ issuedBefore \in [Requests -> SUBSET Tokens]
    /\ doneBefore \in [Requests -> SUBSET Requests]

\* "Tokens are single-use" (auth/reset.go:3): two successful resets never
\* used the same link.
SingleUse ==
    \A r, q \in Committed : presented[r] = presented[q] => r = q

\* A reset that succeeded leaves no link usable that was issued to that user
\* before the reset began, whatever ran beside it (auth/reset.go:72-73).
SuccessRetiresOutstanding ==
    \A r \in Committed : \A t \in issuedBefore[r] :
        owner[t] = Subject(r) => row[t] # "unused"

\* Once a reset has committed, no later request succeeds with a link issued
\* to that user before that reset began: a link can be redeemed twice only
\* by requests that overlap (auth/reset.go:108-121).
RetiredLinkNeverRedeems ==
    \A r \in Committed : \A q \in doneBefore[r] :
        Subject(q) = Subject(r) => presented[r] \notin issuedBefore[q]

\* A user's current password was either the original one or set by a
\* committed reset, through a link of that very user that had not expired
\* when the transaction began and is spent (or deleted) now.
PasswordHasSpentLink ==
    \A u \in Users : password_hash[u] # Original =>
        LET r == password_hash[u]
            t == presented[r]
        IN  /\ pc[r] = "committed"
            /\ owner[t] = u
            /\ expires_at[t] > startedAt[r]
            /\ row[t] \in {"used", "gone"}

\* Every submitted new-password form is answered: the row lock that
\* serialises resets of one user is always given back.
EveryConfirmAnswered ==
    \A r \in Requests : pc[r] = "begun" ~> pc[r] \in Ended

-----------------------------------------------------------------------------
(* The links and passwords a user can tell apart.                          *)

Issued == {t \in Tokens : row[t] \in {"unused", "used", "gone"}}

Ledger == INSTANCE ResetLedger WITH
    password <- password_hash,
    holder   <- [t \in Tokens |-> IF t \in Issued THEN owner[t] ELSE None],
    live     <- {t \in Tokens : row[t] = "unused"},
    spent    <- {t \in Tokens : row[t] \in {"used", "gone"}},
    redeemed <- Committed

\* Recovery keeps the ledger's promise: no interleaving of statements shows a
\* changed password whose link still works, a password half set, or a spent
\* link alive again.
KeepsLedger == Ledger!Spec

=============================================================================
