------------------------------ MODULE Sessions ------------------------------
(***************************************************************************)
(* Signed-in sessions: the middleware and handlers of web/auth.go and      *)
(* web/handlers_auth.go inside scs's LoadAndSave (web/router.go), over the *)
(* sessions and users tables.                                              *)
(*                                                                         *)
(* LoadAndSave gives a request its own copy of the session, read when the  *)
(* request arrives.  Everything the handlers get, put or remove is in that *)
(* copy, and the whole of it is written back when the response starts.     *)
(* web.Configure sets an idle timeout, so scs writes back the copy of every*)
(* session it found, changed or not, to push its expiry.  Only Destroy and *)
(* RenewToken touch the table in between.                                  *)
(***************************************************************************)
EXTENDS Naturals

CONSTANTS
    Users,
    Ids,            \* session tokens scs may draw, never the same twice
    Requests,       \* the requests in progress at one time, each serving one after another
    MaxEpoch,       \* bound on password generations
    Nobody,         \* no user_id in the session, nobody signed in
    NoId,           \* no session token
    NoRow           \* no row in the sessions table

ASSUME Nulls == Nobody \notin Users /\ NoId \notin Ids \cup Users \cup {Nobody}
ASSUME Epochs == MaxEpoch \in Nat \ {0}

VARIABLES
    account,    \* the users rows that exist
    epoch,      \* User.PasswordEpoch(): which password generation is current
    row,        \* the sessions table, by token
    madeFor,    \* history: tokens drawn, and who signed in with each
    closed,     \* history: tokens destroyed, and whether others held a copy
    pc,         \* where each request stands
    id,         \* scs: the token of the request's copy
    status,     \* scs: what LoadAndSave will do with the copy
    data,       \* scs: the copy's values
    user,       \* CurrentUser
    found       \* SigninSubmit: the user Authenticate returned

request == <<pc, id, status, data, user, found>>
vars == <<account, epoch, row, madeFor, closed, request>>

\* What the application keeps in a session ("" is generation 0).  The last
\* field is history: the generation of the password typed at sign-in.
Values == [user_id : Users \cup {Nobody}, password_epoch : 0 .. MaxEpoch, proved : 0 .. MaxEpoch]

Empty == [user_id |-> Nobody, password_epoch |-> 0, proved |-> 0]

SignedIn(u, generation, typed) ==
    [user_id |-> u, password_epoch |-> generation, proved |-> typed]

Steps == {"idle", "loaded", "killing", "handling", "stamping", "saving"}

\* No session yet, or one that a user opened earlier.
Init ==
    /\ account = Users
    /\ epoch = [u \in Users |-> 1]
    /\ \E s \in Ids, u \in Users \cup {Nobody} :
          /\ row = [i \in Ids |-> IF i = s /\ u # Nobody THEN SignedIn(u, 1, 1) ELSE NoRow]
          /\ madeFor = [i \in Ids |-> IF i = s /\ u # Nobody THEN u ELSE NoId]
    /\ closed = [i \in Ids |-> "open"]
    /\ pc = [r \in Requests |-> "idle"]
    /\ id = [r \in Requests |-> NoId]
    /\ status = [r \in Requests |-> "unmodified"]
    /\ data = [r \in Requests |-> Empty]
    /\ user = [r \in Requests |-> Nobody]
    /\ found = [r \in Requests |-> Empty]

Unused == {i \in Ids : madeFor[i] = NoId}

Goto(r, step) == pc' = [pc EXCEPT ![r] = step]

\* The request is over and its copy of the session with it.
Answered(r) ==
    /\ Goto(r, "idle")
    /\ id' = [id EXCEPT ![r] = NoId]
    /\ status' = [status EXCEPT ![r] = "unmodified"]
    /\ data' = [data EXCEPT ![r] = Empty]
    /\ user' = [user EXCEPT ![r] = Nobody]
    /\ found' = [found EXCEPT ![r] = Empty]

-----------------------------------------------------------------------------
(* The session manager.                                                    *)

\* An idle timeout makes scs save every session it finds, to push its expiry.
OnlyIfChanged == "unmodified"  \* (fault)
WhenFound     == "modified"

\* LoadAndSave, on the way in: any token ever drawn may come back in a cookie.
Load(r, cookie) ==
    /\ pc[r] = "idle"
    /\ cookie \in {i \in Ids : madeFor[i] # NoId} \cup {NoId}
    /\ Goto(r, "loaded")
    /\ IF cookie # NoId /\ row[cookie] # NoRow
       THEN /\ id' = [id EXCEPT ![r] = cookie]
            /\ status' = [status EXCEPT ![r] = WhenFound]
            /\ data' = [data EXCEPT ![r] = row[cookie]]
       ELSE UNCHANGED <<id, status, data>>
    /\ UNCHANGED <<account, epoch, row, madeFor, closed, user, found>>

Copies(i) == {r \in Requests : id[r] = i}

\* Sessions.Destroy: delete the row, empty the copy, forget its token.
Close(r) ==
    closed' = [i \in Ids |-> IF i # id[r] THEN closed[i]
                             ELSE IF Copies(i) = {r} THEN "alone" ELSE "overlapped"]

DestroyThen(r, step) ==
    /\ row' = [i \in Ids |-> IF i = id[r] THEN NoRow ELSE row[i]]
    /\ id' = [id EXCEPT ![r] = NoId]
    /\ status' = [status EXCEPT ![r] = "destroyed"]
    /\ data' = [data EXCEPT ![r] = Empty]
    /\ Close(r)
    /\ Goto(r, step)
    /\ UNCHANGED <<account, epoch, madeFor, user, found>>

\* LoadAndSave, on the way out, under a fresh token if the copy has none.
Save(r) ==
    /\ pc[r] = "saving"
    /\ IF status[r] = "modified"
       THEN \E i \in IF id[r] = NoId THEN Unused ELSE {id[r]} :
               /\ row' = [row EXCEPT ![i] = data[r]]
               /\ madeFor' = IF id[r] = NoId THEN [madeFor EXCEPT ![i] = Nobody] ELSE madeFor
       ELSE UNCHANGED <<row, madeFor>>
    /\ Answered(r)
    /\ UNCHANGED <<account, epoch, closed>>

\* The write fails or the server dies.  (A panic ends in Fail instead: its error
\* page is written through scs's writer, which saves first.)
Abandon(r) ==
    /\ pc[r] # "idle"
    /\ Answered(r)
    /\ UNCHANGED <<account, epoch, row, madeFor, closed>>

\* A query of the middleware or the handler fails.  The error leaves through
\* LoadAndSave, which saves the copy as it is.
Fail(r) ==
    /\ pc[r] \in {"loaded", "killing", "handling", "stamping"}
    /\ Goto(r, "saving")
    /\ UNCHANGED <<account, epoch, row, madeFor, closed, id, status, data, user, found>>

\* The idle timeout or the lifetime runs out.
Expire(i) ==
    /\ row[i] # NoRow
    /\ row' = [row EXCEPT ![i] = NoRow]
    /\ UNCHANGED <<account, epoch, madeFor, closed, request>>

-----------------------------------------------------------------------------
(* The middleware LoadUser.                                                *)

StampCurrent(r) == data[r].password_epoch = epoch[data[r].user_id]

LoadUser(r) ==
    /\ pc[r] = "loaded"
    /\ \/ /\ data[r].user_id = Nobody
          /\ Goto(r, "handling")
          /\ UNCHANGED <<status, data, user>>
       \/ \* the user vanished: forget it
          /\ data[r].user_id \in Users \ account
          /\ Goto(r, "handling")
          /\ data' = [data EXCEPT ![r].user_id = Nobody]
          /\ status' = [status EXCEPT ![r] = "modified"]
          /\ UNCHANGED user
       \/ /\ data[r].user_id \in account
          /\ StampCurrent(r)
          /\ Goto(r, "handling")
          /\ user' = [user EXCEPT ![r] = data[r].user_id]
          /\ UNCHANGED <<status, data>>
       \/ /\ data[r].user_id \in account
          /\ ~StampCurrent(r)
          /\ Goto(r, "killing")
          /\ UNCHANGED <<status, data, user>>
    /\ UNCHANGED <<account, epoch, row, madeFor, closed, id, found>>

\* The password changed since this session signed in: destroy it, go on.
KillStale(r) ==
    /\ pc[r] = "killing"
    /\ DestroyThen(r, "handling")

-----------------------------------------------------------------------------
(* The handlers; which one a request asked for matters only here.          *)

\* A page behind RequireUser: shown to the user, or a redirect that puts
\* after_signin into the session.
Page(r) ==
    /\ pc[r] = "handling"
    /\ status' = IF user[r] = Nobody THEN [status EXCEPT ![r] = "modified"] ELSE status
    /\ Goto(r, "saving")
    /\ UNCHANGED <<account, epoch, row, madeFor, closed, id, data, user, found>>

\* SigninSubmit up to Authenticate: wrong credentials flash a message, which
\* modifies the copy; right ones return the user as it was read.
SigninRefused(r) ==
    /\ pc[r] = "handling"
    /\ status' = [status EXCEPT ![r] = "modified"]
    /\ Goto(r, "saving")
    /\ UNCHANGED <<account, epoch, row, madeFor, closed, id, data, user, found>>

Authenticate(r, u) ==
    /\ pc[r] = "handling"
    /\ u \in account
    /\ found' = [found EXCEPT ![r] = SignedIn(u, epoch[u], epoch[u])]
    /\ Goto(r, "stamping")
    /\ UNCHANGED <<account, epoch, row, madeFor, closed, id, status, data, user>>

\* The rest: RenewToken deletes the old row and draws a token, then the copy
\* gets the user's id and the epoch of the password just checked.
ReadAgain(r) == SignedIn(found[r].user_id, epoch[found[r].user_id], found[r].proved)  \* (fault)
Stamp(r)     == found[r]

SameId(r)  == IF id[r] = NoId THEN Unused ELSE {id[r]}  \* (fault)
FreshId(r) == Unused

RenewAndStamp(r) ==
    /\ pc[r] = "stamping"
    /\ \E i \in FreshId(r) :
          /\ id' = [id EXCEPT ![r] = i]
          /\ madeFor' = [madeFor EXCEPT ![i] = IF madeFor[i] = NoId THEN found[r].user_id ELSE @]
    /\ row' = [i \in Ids |-> IF i = id[r] THEN NoRow ELSE row[i]]
    /\ status' = [status EXCEPT ![r] = "modified"]
    /\ data' = [data EXCEPT ![r] = Stamp(r)]
    /\ Goto(r, "saving")
    /\ UNCHANGED <<account, epoch, closed, user, found>>

SignoutForgets(r) ==  \* (fault)
    /\ pc[r] = "handling"
    /\ data' = [data EXCEPT ![r] = Empty]
    /\ status' = [status EXCEPT ![r] = "modified"]
    /\ Close(r)
    /\ Goto(r, "saving")
    /\ UNCHANGED <<account, epoch, row, madeFor, id, user, found>>

Signout(r) ==
    /\ pc[r] = "handling"
    /\ DestroyThen(r, "saving")

-----------------------------------------------------------------------------
(* What else happens to the users table.                                   *)

\* A password reset commits (PasswordReset): a new hash, so a new epoch.
ChangePassword(u) ==
    /\ u \in account
    /\ epoch[u] < MaxEpoch
    /\ epoch' = [epoch EXCEPT ![u] = @ + 1]
    /\ UNCHANGED <<account, row, madeFor, closed, request>>

DeleteUser(u) ==
    /\ u \in account
    /\ account' = account \ {u}
    /\ UNCHANGED <<epoch, row, madeFor, closed, request>>

Next ==
    \/ \E r \in Requests, cookie \in Ids \cup {NoId} : Load(r, cookie)
    \/ \E r \in Requests : LoadUser(r)
    \/ \E r \in Requests : KillStale(r)
    \/ \E r \in Requests : Page(r)
    \/ \E r \in Requests : SigninRefused(r)
    \/ \E r \in Requests, u \in Users : Authenticate(r, u)
    \/ \E r \in Requests : RenewAndStamp(r)
    \/ \E r \in Requests : Signout(r)
    \/ \E r \in Requests : Save(r)
    \/ \E r \in Requests : Fail(r)
    \/ \E r \in Requests : Abandon(r)
    \/ \E i \in Ids : Expire(i)
    \/ \E u \in Users : ChangePassword(u)
    \/ \E u \in Users : DeleteUser(u)

Spec == Init /\ [][Next]_vars

-----------------------------------------------------------------------------

\* The value each variable may take; a copy of a stored session is always
\* going to be saved, and a stored session's token was drawn.
TypeOK ==
    /\ account \in SUBSET Users
    /\ epoch \in [Users -> 1 .. MaxEpoch]
    /\ row \in [Ids -> Values \cup {NoRow}]
    /\ madeFor \in [Ids -> Users \cup {Nobody, NoId}]
    /\ closed \in [Ids -> {"open", "alone", "overlapped"}]
    /\ pc \in [Requests -> Steps]
    /\ id \in [Requests -> Ids \cup {NoId}]
    /\ status \in [Requests -> {"unmodified", "modified", "destroyed"}]
    /\ data \in [Requests -> Values]
    /\ user \in [Requests -> Users \cup {Nobody}]
    /\ found \in [Requests -> Values]
    /\ \A r \in Requests : id[r] # NoId => status[r] = "modified" /\ madeFor[id[r]] # NoId
    /\ \A i \in Ids : row[i] # NoRow => madeFor[i] # NoId

\* A stored session that carries a user has a token drawn when that very
\* user signed in: a token known before the sign-in never becomes a signed-in
\* one, whatever copies other requests write back (web/handlers_auth.go:61).
SignedInTokenFresh ==
    \A i \in Ids : row[i] = NoRow \/ row[i].user_id \in {Nobody, madeFor[i]}

\* A request is served as a user only if the password proved when its session
\* signed in is that user's password when LoadUser looks: a password change
\* signs out every earlier session, a sign-in racing the change included
\* (web/auth.go:44-46).
ServedWithCurrentPassword ==
    [][\A r \in Requests : user'[r] \notin {Nobody, user[r]} =>
          /\ user'[r] = data[r].user_id
          /\ madeFor[id[r]] = user'[r]
          /\ data[r].proved = epoch[user'[r]]]_vars

\* "Signout destroys the session" (web/signin_test.go:83): a destroyed token
\* is never in the table again.
DestroyedStaysGone ==
    \A i \in Ids : closed[i] # "open" => row[i] = NoRow

\* It is never there again unless, when it was destroyed, another request
\* was in progress that had loaded the session before.
DestroyedAloneStaysGone ==
    \A i \in Ids : closed[i] = "alone" => row[i] = NoRow

=============================================================================
