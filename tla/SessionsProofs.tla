--------------------------- MODULE SessionsProofs ---------------------------
(***************************************************************************)
(* Sign-in sessions for any number of users, tokens, requests and password *)
(* generations.  A token is drawn for one user once and for all, so a copy *)
(* written back late can only restore what that token stood for; and a     *)
(* session is stamped with the generation that Authenticate compared, so   *)
(* the stamp tells which password was proved.                              *)
(***************************************************************************)
EXTENDS Sessions, TLAPS

Types ==
    /\ account \in SUBSET Users
    /\ epoch \in [Users -> 1 .. MaxEpoch]
    /\ row \in [Ids -> Values \cup {NoRow}]
    /\ madeFor \in [Ids -> Users \cup {Nobody, NoId}]
    /\ closed \in [Ids -> {"open", "alone", "overlapped"}]
    /\ pc \in [Requests -> Steps]
    /\ id \in [Requests -> Ids \cup {NoId}]
    /\ status \in [Requests -> {"unmodified", "modified", "destroyed"}]
    /\ data \in [Requests -> Values]
    /\ user \in [Requests -> Users \cup {Nobody}]
    /\ found \in [Requests -> Values]

\* What session values may say under token i.
Honest(v, i) ==
    v.user_id = Nobody \/ (v.user_id = madeFor[i] /\ v.proved = v.password_epoch)

RowsHonest == \A i \in Ids : row[i] = NoRow \/ (madeFor[i] # NoId /\ Honest(row[i], i))

CopiesHonest ==
    \A r \in Requests :
        /\ id[r] # NoId => madeFor[id[r]] # NoId /\ Honest(data[r], id[r])
        /\ id[r] = NoId => data[r].user_id = Nobody

FoundHonest ==
    \A r \in Requests :
        /\ found[r].proved = found[r].password_epoch
        /\ pc[r] = "stamping" => found[r].user_id \in Users

\* A token destroyed while no other request held a copy is known to nobody.
ClosedGone ==
    \A i \in Ids :
        /\ closed[i] # "open" => madeFor[i] # NoId
        /\ closed[i] = "alone" => row[i] = NoRow /\ \A r \in Requests : id[r] # i

\* A copy of a session that was found is going to be written back.
FoundSaved == \A r \in Requests : id[r] # NoId => status[r] = "modified"

IndInv ==
    /\ Types
    /\ RowsHonest
    /\ CopiesHonest
    /\ FoundHonest
    /\ ClosedGone
    /\ FoundSaved

LEMMA EmptyValue == Empty \in Values /\ Empty.user_id = Nobody /\ Empty.proved = Empty.password_epoch
  BY Epochs DEF Empty, Values

LEMMA Inductive ==
  ASSUME IndInv, [Next]_vars
  PROVE  IndInv'
<1> USE Nulls, Epochs, EmptyValue
    DEF IndInv, Types, RowsHonest, CopiesHonest, FoundHonest, ClosedGone, FoundSaved,
        Honest
<1> USE DEF Steps
<1>1. ASSUME NEW r \in Requests, NEW cookie \in Ids \cup {NoId}, Load(r, cookie)
      PROVE  IndInv'
  <2>1. Types'
    BY <1>1, SMTT(30) DEF Load, Goto, WhenFound
  <2>2. RowsHonest' /\ ClosedGone'
    BY <1>1, SMTT(30) DEF Load, Goto
  <2>3. CopiesHonest'
    BY <1>1, SMTT(30) DEF Load, Goto
  <2>4. FoundHonest'
    BY <1>1, SMTT(30) DEF Load, Goto
  <2>5. FoundSaved'
    BY <1>1, SMTT(30) DEF Load, Goto, WhenFound
  <2> QED
    BY <2>1, <2>2, <2>3, <2>4, <2>5
<1>2. ASSUME NEW r \in Requests, LoadUser(r)
      PROVE  IndInv'
  <2>1. data[r] \in Values /\ [data[r] EXCEPT !.user_id = Nobody] \in Values
    BY DEF Values
  <2>2. data' = data \/ data' = [data EXCEPT ![r] = [data[r] EXCEPT !.user_id = Nobody]]
    BY <1>2 DEF LoadUser
  <2>3. data' \in [Requests -> Values]
    <3>1. ASSUME NEW v \in Values PROVE [data EXCEPT ![r] = v] \in [Requests -> Values]
      OBVIOUS
    <3> QED
      BY <2>1, <2>2, <3>1
  <2>4. \A q \in Requests :
           /\ id'[q] = id[q]
           /\ data'[q] = data[q] \/ (data'[q].user_id = Nobody)
           /\ pc'[q] = "stamping" => pc[q] = "stamping"
    BY <1>2, <2>1, <2>2 DEF LoadUser, Goto, Values
  <2>5. Types'
    <3>1. pc' = [pc EXCEPT ![r] = "handling"] \/ pc' = [pc EXCEPT ![r] = "killing"]
      BY <1>2 DEF LoadUser, Goto
    <3>2. status' = status \/ status' = [status EXCEPT ![r] = "modified"]
      BY <1>2 DEF LoadUser
    <3>3. user' = user \/ (data[r].user_id \in Users /\ user' = [user EXCEPT ![r] = data[r].user_id])
      BY <1>2 DEF LoadUser
    <3>4. UNCHANGED <<account, epoch, row, madeFor, closed, id, found>>
      BY <1>2 DEF LoadUser
    <3> QED
      BY <2>3, <3>1, <3>2, <3>3, <3>4
  <2>6. RowsHonest' /\ CopiesHonest' /\ FoundHonest' /\ ClosedGone'
    BY <1>2, <2>4, <2>5 DEF LoadUser
  <2>7. FoundSaved'
    BY <1>2 DEF LoadUser
  <2> QED
    BY <2>5, <2>6, <2>7
<1>3. ASSUME NEW r \in Requests, KillStale(r)
      PROVE  IndInv'
  BY <1>3 DEF KillStale, DestroyThen, Close, Copies, Goto
<1>4. ASSUME NEW r \in Requests, Page(r)
      PROVE  IndInv'
  BY <1>4 DEF Page, Goto
<1>5. ASSUME NEW r \in Requests, SigninRefused(r)
      PROVE  IndInv'
  BY <1>5 DEF SigninRefused, Goto
<1>6. ASSUME NEW r \in Requests, NEW u \in Users, Authenticate(r, u)
      PROVE  IndInv'
  BY <1>6 DEF Authenticate, Goto, SignedIn, Values
<1>7. ASSUME NEW r \in Requests, RenewAndStamp(r)
      PROVE  IndInv'
  BY <1>7 DEF RenewAndStamp, FreshId, Unused, Stamp, Goto
<1>8. ASSUME NEW r \in Requests, Signout(r)
      PROVE  IndInv'
  BY <1>8 DEF Signout, DestroyThen, Close, Copies, Goto
<1>9. ASSUME NEW r \in Requests, Save(r)
      PROVE  IndInv'
  BY <1>9 DEF Save, Unused, Answered, Goto
<1>10. ASSUME NEW r \in Requests, Fail(r)
       PROVE  IndInv'
  BY <1>10 DEF Fail, Goto
<1>11. ASSUME NEW r \in Requests, Abandon(r)
       PROVE  IndInv'
  BY <1>11 DEF Abandon, Answered, Goto
<1>12. ASSUME NEW i \in Ids, Expire(i)
       PROVE  IndInv'
  BY <1>12 DEF Expire, request
<1>13. ASSUME NEW u \in Users, ChangePassword(u)
       PROVE  IndInv'
  BY <1>13 DEF ChangePassword, request
<1>14. ASSUME NEW u \in Users, DeleteUser(u)
       PROVE  IndInv'
  BY <1>14 DEF DeleteUser, request
<1>15. CASE UNCHANGED vars
  BY <1>15 DEF vars, request
<1> QED
  BY <1>1, <1>2, <1>3, <1>4, <1>5, <1>6, <1>7, <1>8, <1>9, <1>10, <1>11, <1>12, <1>13,
     <1>14, <1>15 DEF Next

\* Stored sessions, the copies requests hold and the users Authenticate
\* returned all agree on who signed in under which token with which password.
THEOREM Invariant == Spec => []IndInv
<1>1. Init => IndInv
  <2> SUFFICES ASSUME Init
               PROVE  IndInv
    OBVIOUS
  <2>1. PICK s \in Ids, u \in Users \cup {Nobody} :
           /\ row = [i \in Ids |-> IF i = s /\ u # Nobody THEN SignedIn(u, 1, 1) ELSE NoRow]
           /\ madeFor = [i \in Ids |-> IF i = s /\ u # Nobody THEN u ELSE NoId]
    BY DEF Init
  <2>2. \A v \in Users : /\ SignedIn(v, 1, 1) \in Values
                         /\ SignedIn(v, 1, 1).user_id = v
                         /\ SignedIn(v, 1, 1).proved = SignedIn(v, 1, 1).password_epoch
    BY Epochs DEF SignedIn, Values
  <2>3. Types
    BY <2>1, <2>2, Epochs, EmptyValue DEF Init, Types, Steps
  <2>4. RowsHonest
    BY <2>1, <2>2, Nulls DEF RowsHonest, Honest
  <2>5. CopiesHonest /\ FoundHonest /\ ClosedGone /\ FoundSaved
    BY EmptyValue DEF Init, CopiesHonest, FoundHonest, ClosedGone, FoundSaved
  <2> QED
    BY <2>3, <2>4, <2>5 DEF IndInv
<1> QED
  BY <1>1, Inductive, PTL DEF Spec

\* Types, and a copy of a stored session is always going to be saved.
THEOREM TypeCorrect == Spec => []TypeOK
<1>1. IndInv => TypeOK
  BY DEF IndInv, Types, TypeOK, RowsHonest, CopiesHonest, FoundSaved
<1> QED
  BY <1>1, Invariant, PTL

\* No token known before a sign-in carries a user after it, whatever copies
\* concurrent requests write back (web/handlers_auth.go:61-64).
THEOREM TokenFresh == Spec => []SignedInTokenFresh
<1>1. IndInv => SignedInTokenFresh
  BY DEF IndInv, Types, RowsHonest, Honest, SignedInTokenFresh
<1> QED
  BY <1>1, Invariant, PTL

\* A destroyed session can come back only through a request that had loaded
\* it before (web/handlers_auth.go:183, web/auth.go:48).
THEOREM AloneStaysGone == Spec => []DestroyedAloneStaysGone
<1>1. IndInv => DestroyedAloneStaysGone
  BY DEF IndInv, ClosedGone, DestroyedAloneStaysGone
<1> QED
  BY <1>1, Invariant, PTL

\* Only LoadUser attaches a user to a request, and the invariant ties the
\* stamp it compares to the password that was proved (web/auth.go:47-54).
LEMMA StepServesCurrent ==
  ASSUME IndInv, [Next]_vars, NEW r \in Requests, user'[r] \notin {Nobody, user[r]}
  PROVE  /\ user'[r] = data[r].user_id
         /\ madeFor[id[r]] = user'[r]
         /\ data[r].proved = epoch[user'[r]]
<1>1. CASE \E q \in Requests : LoadUser(q)
  <2>1. PICK q \in Requests : LoadUser(q)
    BY <1>1
  <2>2. /\ StampCurrent(q)
        /\ data[q].user_id \in account
        /\ user' = [user EXCEPT ![q] = data[q].user_id]
    BY <2>1 DEF LoadUser
  <2>3. q = r
    BY <2>2 DEF IndInv, Types
  <2>4. data[r].user_id # Nobody /\ user'[r] = data[r].user_id
    BY <2>2, <2>3, Nulls DEF IndInv, Types
  <2>5. Honest(data[r], id[r]) /\ id[r] # NoId
    BY <2>4 DEF IndInv, CopiesHonest
  <2> QED
    BY <2>2, <2>3, <2>4, <2>5 DEF Honest, StampCurrent
<1>2. CASE ~ \E q \in Requests : LoadUser(q)
  <2>1. user'[r] \in {Nobody, user[r]}
    BY <1>2
    DEF Next, vars, request, IndInv, Types, Load, KillStale, DestroyThen, Page, SigninRefused,
        Authenticate, RenewAndStamp, Signout, Save, Fail, Abandon, Answered, Expire,
        ChangePassword, DeleteUser
  <2> QED
    BY <2>1
<1> QED
  BY <1>1, <1>2

\* Every request served as a user holds a session whose sign-in proved that
\* user's password of the moment (web/auth.go:44-54, web/handlers_auth.go:65-68).
THEOREM ServedCurrent == Spec => ServedWithCurrentPassword
<1>1. IndInv /\ [Next]_vars =>
        [\A r \in Requests : user'[r] \notin {Nobody, user[r]} =>
            /\ user'[r] = data[r].user_id
            /\ madeFor[id[r]] = user'[r]
            /\ data[r].proved = epoch[user'[r]]]_vars
  BY StepServesCurrent
<1> QED
  BY <1>1, Invariant, PTL DEF Spec, ServedWithCurrentPassword

=============================================================================
