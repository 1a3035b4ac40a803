---------------------------- MODULE ResetLedger ----------------------------
(***************************************************************************)
(* What password recovery promises the rest of the application: a password *)
(* changes in one step, only to that of a reset request, and the same step *)
(* spends a link that was issued to that very account.  Links spent never  *)
(* come back to life.  Overlapping resets may redeem one link, which is    *)
(* why Redeem does not ask for a live one.                                 *)
(***************************************************************************)
CONSTANTS Users, Tokens, Requests, Original, None

VARIABLES
    password,   \* whose reset chose each account's password
    holder,     \* the account each link was issued to
    live,       \* links that work
    spent,      \* links that do not work any more
    redeemed    \* the requests that have changed a password

vars == <<password, holder, live, spent, redeemed>>

Init ==
    /\ password = [u \in Users |-> Original]
    /\ holder = [t \in Tokens |-> None]
    /\ live = {}
    /\ spent = {}
    /\ redeemed = {}

Issue(t, u) ==
    /\ t \notin live \cup spent
    /\ holder' = [holder EXCEPT ![t] = u]
    /\ live' = live \cup {t}
    /\ UNCHANGED <<password, spent, redeemed>>

\* A mint that failed, or the links of an account that was deleted.
Withdraw(S) ==
    /\ spent' = spent \cup S
    /\ live' = live \ S
    /\ holder' \in [Tokens -> Users \cup {None}]
    /\ \A t \in live \cup spent : holder'[t] = holder[t]
    /\ UNCHANGED <<password, redeemed>>

Redeem(r, t, S) ==
    /\ r \notin redeemed
    /\ t \in spent \cup S
    /\ t \in live \cup spent
    /\ S \subseteq live
    /\ \A k \in S : holder[k] = holder[t]
    /\ password' = [password EXCEPT ![holder[t]] = r]
    /\ spent' = spent \cup S
    /\ live' = live \ S
    /\ redeemed' = redeemed \cup {r}
    /\ UNCHANGED holder

Next ==
    \/ \E t \in Tokens, u \in Users : Issue(t, u)
    \/ \E S \in SUBSET Tokens : Withdraw(S)
    \/ \E r \in Requests, t \in Tokens, S \in SUBSET Tokens : Redeem(r, t, S)

Spec == Init /\ [][Next]_vars

=============================================================================
