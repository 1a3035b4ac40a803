------------------------ MODULE PasswordResetProofs ------------------------
(***************************************************************************)
(* What PasswordReset guarantees for any users, links and requests.  The   *)
(* inductive invariant says what each step of a reset transaction may rely *)
(* on; the properties and the refinement of ResetLedger follow from it.    *)
(***************************************************************************)
EXTENDS PasswordReset, TLAPS

PastSelect(r) == pc[r] \in {"selected", "updated", "retired", "committed"}
Writing(r)    == pc[r] = "retired" /\ lock[Subject(r)] = r

\* Whatever has a row, or had one, belongs to a user; requests and their
\* snapshots name only such links; what SELECT found was not expired.
LinksKnown ==
    /\ \A t \in Tokens : row[t] # "none" => owner[t] \in Users
    /\ \A r \in Requests : presented[r] # None => presented[r] \in Issued
    /\ \A r \in Requests : issuedBefore[r] \cup retiring[r] \subseteq Issued
    /\ \A r \in Requests : PastSelect(r) =>
          presented[r] # None /\ expires_at[presented[r]] > startedAt[r]

\* A users row is locked only by a transaction that updated it.
LocksHeld ==
    \A u \in Users : lock[u] # None =>
        /\ pc[lock[u]] \in {"updated", "retired"}
        /\ Subject(lock[u]) = u

\* What a transaction is about to retire is still there to retire, and
\* leaves none of the links behind that existed when the request began.
RetirementPending ==
    \A r \in Requests : Writing(r) =>
        /\ \A t \in retiring[r] : owner[t] = Subject(r) /\ row[t] = "unused"
        /\ \A t \in issuedBefore[r] \cup {presented[r]} :
              owner[t] = Subject(r) /\ row[t] = "unused" => t \in retiring[r]

RetirementDone ==
    \A r \in Committed : \A t \in issuedBefore[r] \cup {presented[r]} :
        owner[t] = Subject(r) => row[t] # "unused"

HistoryRight ==
    /\ \A r \in Requests : doneBefore[r] \subseteq Committed
    /\ \A r \in Requests : PastSelect(r) =>
          \A q \in doneBefore[r] :
              Subject(q) = Subject(r) => presented[r] \notin issuedBefore[q]

PasswordsSet ==
    \A u \in Users : password_hash[u] # Original =>
        password_hash[u] \in Committed /\ Subject(password_hash[u]) = u

IndInv ==
    /\ TypeOK
    /\ LinksKnown
    /\ LocksHeld
    /\ RetirementPending
    /\ RetirementDone
    /\ HistoryRight
    /\ PasswordsSet

LEMMA TypeInductive == TypeOK /\ [Next]_vars => TypeOK'
<1> SUFFICES ASSUME TypeOK, [Next]_vars
             PROVE  TypeOK'
  OBVIOUS
<1> USE NullsDiffer, Durations DEF TypeOK, InTransaction, Ended
<1>1. ASSUME NEW t \in Tokens, NEW u \in Users, LookupAccount(t, u)
      PROVE  TypeOK'
  BY <1>1 DEF LookupAccount, ExpiresAt, requestVars
<1>2. ASSUME NEW t \in Tokens, InsertToken(t)
      PROVE  TypeOK'
  BY <1>2 DEF InsertToken, requestVars
<1>3. ASSUME NEW r \in Requests, NEW t \in Tokens \cup {None}, Begin(r, t)
      PROVE  TypeOK'
  BY <1>3 DEF Begin, tokenVars
<1>4. ASSUME NEW r \in Requests, RefusePassword(r)
      PROVE  TypeOK'
  BY <1>4 DEF RefusePassword, tokenVars
<1>5. ASSUME NEW r \in Requests, SelectToken(r)
      PROVE  TypeOK'
  BY <1>5 DEF SelectToken, tokenVars, Committed
<1>6. ASSUME NEW r \in Requests, UpdatePassword(r)
      PROVE  TypeOK'
  BY <1>6 DEF UpdatePassword, tokenVars
<1>7. ASSUME NEW r \in Requests, RetireTokens(r)
      PROVE  TypeOK'
  BY <1>7 DEF RetireTokens, tokenVars, Outstanding
<1>8. ASSUME NEW r \in Requests, Commit(r)
      PROVE  TypeOK'
  BY <1>8 DEF Commit
<1>9. ASSUME NEW r \in Requests, AccountVanished(r)
      PROVE  TypeOK'
  BY <1>9 DEF AccountVanished, tokenVars
<1>10. ASSUME NEW r \in Requests, RollBack(r)
       PROVE  TypeOK'
  BY <1>10 DEF RollBack, tokenVars, Unlocked
<1>11. ASSUME NEW u \in Users, DeleteUser(u)
       PROVE  TypeOK'
  BY <1>11 DEF DeleteUser, requestVars
<1>12. CASE Tick
  BY <1>12 DEF Tick, tokenVars, requestVars
<1>13. CASE UNCHANGED vars
  BY <1>13 DEF vars, tokenVars, requestVars
<1> QED
  BY <1>1, <1>2, <1>3, <1>4, <1>5, <1>6, <1>7, <1>8, <1>9, <1>10, <1>11,
     <1>12, <1>13 DEF Next, Terminating

\* Every variable keeps its type, in every behaviour of the code's steps.
THEOREM TypeCorrect == Spec => []TypeOK
<1>1. Init => TypeOK
  BY NullsDiffer, Durations DEF Init, TypeOK, InTransaction, Ended
<1> QED
  BY <1>1, TypeInductive, PTL DEF Spec

-----------------------------------------------------------------------------

\* A step leaves alone what a link or a running request already fixed, and
\* makes no link usable that was issued before.
Stable ==
    /\ \A t \in Issued : /\ owner'[t] = owner[t]
                         /\ expires_at'[t] = expires_at[t]
                         /\ t \in Issued'
                         /\ row'[t] = "unused" => row[t] = "unused"
    /\ \A r \in Requests : pc[r] # "idle" =>
          /\ presented'[r] = presented[r]
          /\ startedAt'[r] = startedAt[r]
          /\ issuedBefore'[r] = issuedBefore[r]

LEMMA LinksStable ==
  ASSUME TypeOK, LinksKnown, [Next]_vars
  PROVE  Stable
<1> USE NullsDiffer, Durations DEF TypeOK, InTransaction, Ended, tokenVars, requestVars,
            LinksKnown, Issued, Stable, HasRow
<1>1. ASSUME NEW t \in Tokens, NEW u \in Users, LookupAccount(t, u)
      PROVE  Stable
  BY <1>1 DEF LookupAccount, ExpiresAt
<1>2. ASSUME NEW t \in Tokens, InsertToken(t)
      PROVE  Stable
  BY <1>2 DEF InsertToken
<1>3. ASSUME NEW r \in Requests, NEW t \in Tokens \cup {None}, Begin(r, t)
      PROVE  Stable
  BY <1>3 DEF Begin
<1>4. ASSUME NEW r \in Requests, RefusePassword(r)
      PROVE  Stable
  BY <1>4 DEF RefusePassword
<1>5. ASSUME NEW r \in Requests, SelectToken(r)
      PROVE  Stable
  BY <1>5 DEF SelectToken
<1>6. ASSUME NEW r \in Requests, UpdatePassword(r)
      PROVE  Stable
  BY <1>6 DEF UpdatePassword, Subject
<1>7. ASSUME NEW r \in Requests, RetireTokens(r)
      PROVE  Stable
  BY <1>7 DEF RetireTokens
<1>8. ASSUME NEW r \in Requests, Commit(r)
      PROVE  Stable
  BY <1>8 DEF Commit, Subject
<1>9. ASSUME NEW r \in Requests, AccountVanished(r)
      PROVE  Stable
  BY <1>9 DEF AccountVanished
<1>10. ASSUME NEW r \in Requests, RollBack(r)
       PROVE  Stable
  BY <1>10 DEF RollBack
<1>11. ASSUME NEW u \in Users, DeleteUser(u)
       PROVE  Stable
  BY <1>11 DEF DeleteUser
<1>12. CASE Tick
  BY <1>12 DEF Tick
<1>13. CASE UNCHANGED vars
  BY <1>13 DEF vars
<1> QED
  BY <1>1, <1>2, <1>3, <1>4, <1>5, <1>6,
     <1>7, <1>8, <1>9, <1>10, <1>11,
     <1>12, <1>13 DEF Next, Terminating

LEMMA LinksInductive ==
  ASSUME TypeOK, LinksKnown, [Next]_vars
  PROVE  LinksKnown'
<1> USE NullsDiffer, Durations DEF TypeOK, InTransaction, Ended, tokenVars, requestVars,
            LinksKnown, Issued, PastSelect, HasRow
<1>1. ASSUME NEW t \in Tokens, NEW u \in Users, LookupAccount(t, u)
      PROVE  LinksKnown'
  BY <1>1 DEF LookupAccount, ExpiresAt
<1>2. ASSUME NEW t \in Tokens, InsertToken(t)
      PROVE  LinksKnown'
  BY <1>2 DEF InsertToken
<1>3. ASSUME NEW r \in Requests, NEW t \in Tokens \cup {None}, Begin(r, t)
      PROVE  LinksKnown'
  BY <1>3 DEF Begin
<1>4. ASSUME NEW r \in Requests, RefusePassword(r)
      PROVE  LinksKnown'
  BY <1>4 DEF RefusePassword
<1>5. ASSUME NEW r \in Requests, SelectToken(r)
      PROVE  LinksKnown'
  BY <1>5 DEF SelectToken, LiveToken
<1>6. ASSUME NEW r \in Requests, UpdatePassword(r)
      PROVE  LinksKnown'
  BY <1>6 DEF UpdatePassword
<1>7. ASSUME NEW r \in Requests, RetireTokens(r)
      PROVE  LinksKnown'
  BY <1>7 DEF RetireTokens, Outstanding
<1>8. ASSUME NEW r \in Requests, Commit(r)
      PROVE  LinksKnown'
  BY <1>8 DEF Commit
<1>9. ASSUME NEW r \in Requests, AccountVanished(r)
      PROVE  LinksKnown'
  BY <1>9 DEF AccountVanished
<1>10. ASSUME NEW r \in Requests, RollBack(r)
       PROVE  LinksKnown'
  BY <1>10 DEF RollBack
<1>11. ASSUME NEW u \in Users, DeleteUser(u)
       PROVE  LinksKnown'
  BY <1>11 DEF DeleteUser
<1>12. CASE Tick
  BY <1>12 DEF Tick
<1>13. CASE UNCHANGED vars
  BY <1>13 DEF vars
<1> QED
  BY <1>1, <1>2, <1>3, <1>4, <1>5, <1>6,
     <1>7, <1>8, <1>9, <1>10, <1>11,
     <1>12, <1>13 DEF Next, Terminating

LEMMA LocksInductive ==
  ASSUME TypeOK, LinksKnown, LocksHeld, [Next]_vars
  PROVE  LocksHeld'
<1> USE NullsDiffer, Durations DEF TypeOK, InTransaction, Ended, tokenVars, requestVars,
            LinksKnown, Issued, PastSelect, HasRow, LocksHeld, Subject
<1>1. ASSUME NEW t \in Tokens, NEW u \in Users, LookupAccount(t, u)
      PROVE  LocksHeld'
  BY <1>1 DEF LookupAccount, ExpiresAt
<1>2. ASSUME NEW t \in Tokens, InsertToken(t)
      PROVE  LocksHeld'
  BY <1>2 DEF InsertToken
<1>3. ASSUME NEW r \in Requests, NEW t \in Tokens \cup {None}, Begin(r, t)
      PROVE  LocksHeld'
  BY <1>3 DEF Begin
<1>4. ASSUME NEW r \in Requests, RefusePassword(r)
      PROVE  LocksHeld'
  BY <1>4 DEF RefusePassword
<1>5. ASSUME NEW r \in Requests, SelectToken(r)
      PROVE  LocksHeld'
  BY <1>5 DEF SelectToken, LiveToken, Committed
<1>6. ASSUME NEW r \in Requests, UpdatePassword(r)
      PROVE  LocksHeld'
  BY <1>6 DEF UpdatePassword
<1>7. ASSUME NEW r \in Requests, RetireTokens(r)
      PROVE  LocksHeld'
  BY <1>7 DEF RetireTokens, Outstanding
<1>8. ASSUME NEW r \in Requests, Commit(r)
      PROVE  LocksHeld'
  BY <1>8 DEF Commit
<1>9. ASSUME NEW r \in Requests, AccountVanished(r)
      PROVE  LocksHeld'
  BY <1>9 DEF AccountVanished
<1>10. ASSUME NEW r \in Requests, RollBack(r)
       PROVE  LocksHeld'
  BY <1>10 DEF RollBack, Unlocked
<1>11. ASSUME NEW u \in Users, DeleteUser(u)
       PROVE  LocksHeld'
  BY <1>11 DEF DeleteUser
<1>12. CASE Tick
  BY <1>12 DEF Tick
<1>13. CASE UNCHANGED vars
  BY <1>13 DEF vars
<1> QED
  BY <1>1, <1>2, <1>3, <1>4, <1>5, <1>6,
     <1>7, <1>8, <1>9, <1>10, <1>11,
     <1>12, <1>13 DEF Next, Terminating

LEMMA RetirementInductive ==
  ASSUME TypeOK, LinksKnown, LocksHeld, RetirementPending, [Next]_vars
  PROVE  RetirementPending'
<1>0. Stable
  BY LinksStable
<1> USE <1>0, NullsDiffer DEF TypeOK, InTransaction, Ended, tokenVars, requestVars,
            LinksKnown, Issued, PastSelect, HasRow, Subject, Stable,
            LocksHeld, RetirementPending, Writing
<1>1. ASSUME NEW t \in Tokens, NEW u \in Users, LookupAccount(t, u)
      PROVE  RetirementPending'
  BY <1>1 DEF LookupAccount, ExpiresAt
<1>2. ASSUME NEW t \in Tokens, InsertToken(t)
      PROVE  RetirementPending'
  BY <1>2 DEF InsertToken
<1>3. ASSUME NEW r \in Requests, NEW t \in Tokens \cup {None}, Begin(r, t)
      PROVE  RetirementPending'
  BY <1>3 DEF Begin
<1>4. ASSUME NEW r \in Requests, RefusePassword(r)
      PROVE  RetirementPending'
  BY <1>4 DEF RefusePassword
<1>5. ASSUME NEW r \in Requests, SelectToken(r)
      PROVE  RetirementPending'
  BY <1>5 DEF SelectToken, LiveToken, Committed
<1>6. ASSUME NEW r \in Requests, UpdatePassword(r)
      PROVE  RetirementPending'
  BY <1>6 DEF UpdatePassword
<1>7. ASSUME NEW r \in Requests, RetireTokens(r)
      PROVE  RetirementPending'
  BY <1>7 DEF RetireTokens, Outstanding
<1>8. ASSUME NEW r \in Requests, Commit(r)
      PROVE  RetirementPending'
  BY <1>8 DEF Commit
<1>9. ASSUME NEW r \in Requests, AccountVanished(r)
      PROVE  RetirementPending'
  BY <1>9 DEF AccountVanished
<1>10. ASSUME NEW r \in Requests, RollBack(r)
       PROVE  RetirementPending'
  BY <1>10 DEF RollBack, Unlocked
<1>11. ASSUME NEW u \in Users, DeleteUser(u)
       PROVE  RetirementPending'
  BY <1>11 DEF DeleteUser
<1>12. CASE Tick
  BY <1>12 DEF Tick
<1>13. CASE UNCHANGED vars
  BY <1>13 DEF vars
<1> QED
  BY <1>1, <1>2, <1>3, <1>4, <1>5, <1>6,
     <1>7, <1>8, <1>9, <1>10, <1>11,
     <1>12, <1>13 DEF Next, Terminating

LEMMA DoneInductive ==
  ASSUME TypeOK, LinksKnown, RetirementPending, RetirementDone, [Next]_vars
  PROVE  RetirementDone'
<1>0. Stable
  BY LinksStable
<1> USE <1>0, NullsDiffer DEF TypeOK, InTransaction, Ended, tokenVars, requestVars,
            LinksKnown, Issued, PastSelect, HasRow, Subject, Stable,
            RetirementPending, RetirementDone, Writing, Committed
<1>1. ASSUME NEW t \in Tokens, NEW u \in Users, LookupAccount(t, u)
      PROVE  RetirementDone'
  BY <1>1 DEF LookupAccount, ExpiresAt
<1>2. ASSUME NEW t \in Tokens, InsertToken(t)
      PROVE  RetirementDone'
  BY <1>2 DEF InsertToken
<1>3. ASSUME NEW r \in Requests, NEW t \in Tokens \cup {None}, Begin(r, t)
      PROVE  RetirementDone'
  BY <1>3 DEF Begin
<1>4. ASSUME NEW r \in Requests, RefusePassword(r)
      PROVE  RetirementDone'
  BY <1>4 DEF RefusePassword
<1>5. ASSUME NEW r \in Requests, SelectToken(r)
      PROVE  RetirementDone'
  BY <1>5 DEF SelectToken, LiveToken, Committed
<1>6. ASSUME NEW r \in Requests, UpdatePassword(r)
      PROVE  RetirementDone'
  BY <1>6 DEF UpdatePassword
<1>7. ASSUME NEW r \in Requests, RetireTokens(r)
      PROVE  RetirementDone'
  BY <1>7 DEF RetireTokens, Outstanding
<1>8. ASSUME NEW r \in Requests, Commit(r)
      PROVE  RetirementDone'
  BY <1>8 DEF Commit
<1>9. ASSUME NEW r \in Requests, AccountVanished(r)
      PROVE  RetirementDone'
  BY <1>9 DEF AccountVanished
<1>10. ASSUME NEW r \in Requests, RollBack(r)
       PROVE  RetirementDone'
  BY <1>10 DEF RollBack, Unlocked
<1>11. ASSUME NEW u \in Users, DeleteUser(u)
       PROVE  RetirementDone'
  BY <1>11 DEF DeleteUser
<1>12. CASE Tick
  BY <1>12 DEF Tick
<1>13. CASE UNCHANGED vars
  BY <1>13 DEF vars
<1> QED
  BY <1>1, <1>2, <1>3, <1>4, <1>5, <1>6,
     <1>7, <1>8, <1>9, <1>10, <1>11,
     <1>12, <1>13 DEF Next, Terminating

LEMMA HistoryInductive ==
  ASSUME TypeOK, LinksKnown, RetirementDone, HistoryRight, [Next]_vars
  PROVE  HistoryRight'
<1>0. Stable
  BY LinksStable
<1> USE <1>0, NullsDiffer DEF TypeOK, InTransaction, Ended, tokenVars, requestVars,
            LinksKnown, Issued, PastSelect, HasRow, Subject, Stable,
            RetirementDone, HistoryRight, Committed
<1>1. ASSUME NEW t \in Tokens, NEW u \in Users, LookupAccount(t, u)
      PROVE  HistoryRight'
  BY <1>1 DEF LookupAccount, ExpiresAt
<1>2. ASSUME NEW t \in Tokens, InsertToken(t)
      PROVE  HistoryRight'
  BY <1>2 DEF InsertToken
<1>3. ASSUME NEW r \in Requests, NEW t \in Tokens \cup {None}, Begin(r, t)
      PROVE  HistoryRight'
  BY <1>3 DEF Begin
<1>4. ASSUME NEW r \in Requests, RefusePassword(r)
      PROVE  HistoryRight'
  BY <1>4 DEF RefusePassword
<1>5. ASSUME NEW r \in Requests, SelectToken(r)
      PROVE  HistoryRight'
  BY <1>5 DEF SelectToken, LiveToken, Committed
<1>6. ASSUME NEW r \in Requests, UpdatePassword(r)
      PROVE  HistoryRight'
  BY <1>6 DEF UpdatePassword
<1>7. ASSUME NEW r \in Requests, RetireTokens(r)
      PROVE  HistoryRight'
  BY <1>7 DEF RetireTokens, Outstanding
<1>8. ASSUME NEW r \in Requests, Commit(r)
      PROVE  HistoryRight'
  BY <1>8 DEF Commit
<1>9. ASSUME NEW r \in Requests, AccountVanished(r)
      PROVE  HistoryRight'
  BY <1>9 DEF AccountVanished
<1>10. ASSUME NEW r \in Requests, RollBack(r)
       PROVE  HistoryRight'
  BY <1>10 DEF RollBack, Unlocked
<1>11. ASSUME NEW u \in Users, DeleteUser(u)
       PROVE  HistoryRight'
  BY <1>11 DEF DeleteUser
<1>12. CASE Tick
  BY <1>12 DEF Tick
<1>13. CASE UNCHANGED vars
  BY <1>13 DEF vars
<1> QED
  BY <1>1, <1>2, <1>3, <1>4, <1>5, <1>6,
     <1>7, <1>8, <1>9, <1>10, <1>11,
     <1>12, <1>13 DEF Next, Terminating

LEMMA PasswordsInductive ==
  ASSUME TypeOK, LinksKnown, PasswordsSet, [Next]_vars
  PROVE  PasswordsSet'
<1>0. Stable
  BY LinksStable
<1> USE <1>0, NullsDiffer DEF TypeOK, InTransaction, Ended, tokenVars, requestVars,
            LinksKnown, Issued, PastSelect, HasRow, Subject, Stable,
            PasswordsSet, Committed
<1>1. ASSUME NEW t \in Tokens, NEW u \in Users, LookupAccount(t, u)
      PROVE  PasswordsSet'
  BY <1>1 DEF LookupAccount, ExpiresAt
<1>2. ASSUME NEW t \in Tokens, InsertToken(t)
      PROVE  PasswordsSet'
  BY <1>2 DEF InsertToken
<1>3. ASSUME NEW r \in Requests, NEW t \in Tokens \cup {None}, Begin(r, t)
      PROVE  PasswordsSet'
  BY <1>3 DEF Begin
<1>4. ASSUME NEW r \in Requests, RefusePassword(r)
      PROVE  PasswordsSet'
  BY <1>4 DEF RefusePassword
<1>5. ASSUME NEW r \in Requests, SelectToken(r)
      PROVE  PasswordsSet'
  BY <1>5 DEF SelectToken, LiveToken, Committed
<1>6. ASSUME NEW r \in Requests, UpdatePassword(r)
      PROVE  PasswordsSet'
  BY <1>6 DEF UpdatePassword
<1>7. ASSUME NEW r \in Requests, RetireTokens(r)
      PROVE  PasswordsSet'
  BY <1>7 DEF RetireTokens, Outstanding
<1>8. ASSUME NEW r \in Requests, Commit(r)
      PROVE  PasswordsSet'
  BY <1>8 DEF Commit
<1>9. ASSUME NEW r \in Requests, AccountVanished(r)
      PROVE  PasswordsSet'
  BY <1>9 DEF AccountVanished
<1>10. ASSUME NEW r \in Requests, RollBack(r)
       PROVE  PasswordsSet'
  BY <1>10 DEF RollBack, Unlocked
<1>11. ASSUME NEW u \in Users, DeleteUser(u)
       PROVE  PasswordsSet'
  BY <1>11 DEF DeleteUser
<1>12. CASE Tick
  BY <1>12 DEF Tick
<1>13. CASE UNCHANGED vars
  BY <1>13 DEF vars
<1> QED
  BY <1>1, <1>2, <1>3, <1>4, <1>5, <1>6,
     <1>7, <1>8, <1>9, <1>10, <1>11,
     <1>12, <1>13 DEF Next, Terminating

-----------------------------------------------------------------------------

LEMMA Inductive == IndInv /\ [Next]_vars => IndInv'
BY TypeInductive, LinksInductive, LocksInductive, RetirementInductive,
   DoneInductive, HistoryInductive, PasswordsInductive DEF IndInv

\* The links, the row locks and the history of the transactions agree in
\* every reachable state: what the properties below rest on.
THEOREM Invariant == Spec => []IndInv
<1>1. Init => IndInv
  BY NullsDiffer, Durations
  DEF Init, IndInv, TypeOK, InTransaction, Ended, LinksKnown, PastSelect, LocksHeld,
      RetirementPending, Writing, RetirementDone, HistoryRight, PasswordsSet, Committed
<1> QED
  BY <1>1, Inductive, PTL DEF Spec

\* A committed reset leaves no link usable that existed when it began, for
\* any number of users, links and overlapping requests.
THEOREM OutstandingRetired == Spec => []SuccessRetiresOutstanding
<1>1. IndInv => SuccessRetiresOutstanding
  BY DEF IndInv, RetirementDone, SuccessRetiresOutstanding
<1> QED
  BY <1>1, Invariant, PTL

\* A link redeems twice only in overlapping requests: one issued before a
\* reset began is dead to every request that looks it up after the commit.
THEOREM LinkRetired == Spec => []RetiredLinkNeverRedeems
<1>1. IndInv => RetiredLinkNeverRedeems
  BY DEF IndInv, HistoryRight, RetiredLinkNeverRedeems, PastSelect, Committed
<1> QED
  BY <1>1, Invariant, PTL

\* The current password is the original one, or that of a committed reset
\* through a link of this user that was not expired and is spent.
THEOREM PasswordEarned == Spec => []PasswordHasSpentLink
<1>1. IndInv => PasswordHasSpentLink
  <2> SUFFICES ASSUME IndInv, NEW u \in Users, password_hash[u] # Original
               PROVE  LET r == password_hash[u]
                          t == presented[r]
                      IN  /\ pc[r] = "committed"
                          /\ owner[t] = u
                          /\ expires_at[t] > startedAt[r]
                          /\ row[t] \in {"used", "gone"}
    BY DEF PasswordHasSpentLink
  <2> DEFINE r == password_hash[u]
             t == presented[r]
  <2>1. r \in Requests /\ pc[r] = "committed" /\ owner[t] = u
    BY DEF IndInv, PasswordsSet, Committed, Subject
  <2>2. t \in Issued /\ expires_at[t] > startedAt[r]
    BY <2>1 DEF IndInv, LinksKnown, PastSelect
  <2>3. row[t] # "unused"
    BY <2>1 DEF IndInv, RetirementDone, Committed, Subject
  <2> QED
    BY <2>1, <2>2, <2>3 DEF Issued
<1> QED
  BY <1>1, Invariant, PTL

-----------------------------------------------------------------------------
(* The refinement: commits, inserts and deletions are the ledger's steps,  *)
(* everything else leaves the ledger alone.                                *)

LEMMA LedgerStep ==
  ASSUME IndInv, [Next]_vars
  PROVE  [Ledger!Next]_(Ledger!vars)
<1>0. TypeOK /\ LinksKnown /\ RetirementPending
  BY DEF IndInv
<1> DEFINE Live   == {t \in Tokens : row[t] = "unused"}
           Spent  == {t \in Tokens : row[t] \in {"used", "gone"}}
           Holder == [t \in Tokens |-> IF t \in Issued THEN owner[t] ELSE None]
           Quiet  == UNCHANGED <<password_hash, Issued, Committed, Live, Spent, Holder>>
<1>1. ASSUME NEW t \in Tokens, NEW u \in Users, LookupAccount(t, u)
      PROVE  Quiet
  BY <1>0, <1>1 DEF LookupAccount, Issued, Committed, TypeOK, tokenVars, requestVars
<1>2. ASSUME NEW r \in Requests, NEW t \in Tokens \cup {None}, Begin(r, t)
      PROVE  Quiet
  BY <1>0, <1>2 DEF Begin, Issued, Committed, TypeOK, tokenVars, requestVars
<1>3. ASSUME NEW r \in Requests, RefusePassword(r)
      PROVE  Quiet
  BY <1>0, <1>3 DEF RefusePassword, Issued, Committed, TypeOK, tokenVars, requestVars
<1>4. ASSUME NEW r \in Requests, SelectToken(r)
      PROVE  Quiet
  BY <1>0, <1>4 DEF SelectToken, Issued, Committed, TypeOK, tokenVars, requestVars
<1>5. ASSUME NEW r \in Requests, UpdatePassword(r)
      PROVE  Quiet
  BY <1>0, <1>5 DEF UpdatePassword, Issued, Committed, TypeOK, tokenVars, requestVars
<1>6. ASSUME NEW r \in Requests, RetireTokens(r)
      PROVE  Quiet
  BY <1>0, <1>6 DEF RetireTokens, Issued, Committed, TypeOK, tokenVars, requestVars
<1>7. ASSUME NEW r \in Requests, AccountVanished(r)
      PROVE  Quiet
  BY <1>0, <1>7 DEF AccountVanished, Issued, Committed, TypeOK, tokenVars, requestVars
<1>8. ASSUME NEW r \in Requests, RollBack(r)
      PROVE  Quiet
  BY <1>0, <1>8 DEF RollBack, Issued, Committed, TypeOK, InTransaction, tokenVars, requestVars
<1>9. ASSUME NEW t \in Tokens, InsertToken(t)
      PROVE  Ledger!Next
  <2>1. owner[t] \in Users
    BY <1>0, <1>9 DEF InsertToken, LinksKnown
  <2>2. CASE row' = [row EXCEPT ![t] = "unused"]
    <3>1. /\ t \notin Issued
          /\ UNCHANGED <<owner, password_hash, pc>>
      BY <1>9 DEF InsertToken, Issued, requestVars
    <3>2. /\ Issued' = Issued \cup {t}
          /\ Live' = Live \cup {t}
          /\ Spent' = Spent
      BY <1>0, <1>9, <2>2 DEF InsertToken, Issued, TypeOK
    <3>3. Holder' = [Holder EXCEPT ![t] = owner[t]]
      BY <3>1, <3>2
    <3>4. t \notin Live \cup Spent /\ UNCHANGED Committed
      BY <3>1 DEF Issued, Committed
    <3>5. Ledger!Issue(t, owner[t])
      BY <3>1, <3>2, <3>3, <3>4 DEF Ledger!Issue
    <3> QED
      BY <2>1, <3>5 DEF Ledger!Next, Ledger!Issue
  <2>3. CASE row' = [row EXCEPT ![t] = "gone"]
    <3>1. Ledger!Withdraw({t})
      BY <1>0, <1>9, <2>1, <2>3
      DEF InsertToken, Ledger!Withdraw, Issued, Committed, TypeOK, requestVars
    <3> QED
      BY <3>1 DEF Ledger!Next, Ledger!Withdraw
  <2> QED
    BY <1>9, <2>2, <2>3 DEF InsertToken
<1>10. ASSUME NEW r \in Requests, Commit(r)
       PROVE  Ledger!Next
  <2>1. presented[r] \in Issued /\ Subject(r) = owner[presented[r]]
    BY <1>0, <1>10 DEF Commit, LinksKnown, PastSelect, Subject
  <2>2. /\ \A t \in retiring[r] : owner[t] = Subject(r) /\ row[t] = "unused"
        /\ row[presented[r]] = "unused" => presented[r] \in retiring[r]
    BY <1>0, <1>10, <2>1 DEF Commit, RetirementPending, Writing
  <2>3. /\ Live' = Live \ retiring[r]
        /\ Spent' = Spent \cup retiring[r]
        /\ Issued' = Issued
        /\ UNCHANGED owner
    BY <1>0, <1>10, <2>2 DEF Commit, Issued, TypeOK
  <2>4. Holder' = Holder /\ Holder[presented[r]] = Subject(r)
    BY <2>1, <2>3 DEF Issued
  <2>5. r \notin Committed /\ Committed' = Committed \cup {r}
    BY <1>0, <1>10 DEF Commit, Committed, TypeOK
  <2>6. /\ presented[r] \in Live \cup Spent
        /\ presented[r] \in Spent \cup retiring[r]
        /\ retiring[r] \subseteq Live
        /\ \A k \in retiring[r] : Holder[k] = Holder[presented[r]]
    BY <1>0, <2>1, <2>2, <2>4 DEF Issued, TypeOK
  <2>7. password_hash' = [password_hash EXCEPT ![Holder[presented[r]]] = r]
    BY <1>10, <2>4 DEF Commit
  <2>8. Ledger!Redeem(r, presented[r], retiring[r])
    BY <2>3, <2>4, <2>5, <2>6, <2>7 DEF Ledger!Redeem
  <2>9. presented[r] \in Tokens /\ retiring[r] \in SUBSET Tokens
    BY <1>0, <2>1 DEF Issued, TypeOK
  <2> QED
    BY <2>8, <2>9 DEF Ledger!Next, Ledger!Redeem
<1>11. ASSUME NEW u \in Users, DeleteUser(u)
       PROVE  Ledger!Next
  <2> DEFINE S == {t \in Tokens : owner[t] = u /\ HasRow(t)}
  <2>1. Ledger!Withdraw(S)
    BY <1>0, <1>11
    DEF DeleteUser, Ledger!Withdraw, Issued, Committed, HasRow, TypeOK, requestVars
  <2> QED
    BY <2>1 DEF Ledger!Next, Ledger!Withdraw
<1>12. CASE Tick
  BY <1>12 DEF Tick, Ledger!vars, Issued, Committed, tokenVars, requestVars
<1>13. CASE UNCHANGED vars
  BY <1>13 DEF vars, Ledger!vars, Issued, Committed, tokenVars, requestVars
<1>14. Quiet => UNCHANGED Ledger!vars
  BY DEF Ledger!vars
<1> QED
  BY <1>1, <1>2, <1>3, <1>4, <1>5, <1>6, <1>7, <1>8, <1>9, <1>10, <1>11, <1>12,
     <1>13, <1>14 DEF Next, Terminating

\* The transactions of auth/reset.go implement the ledger: password and
\* links change together, and only by redeeming a link of that account.
THEOREM Refinement == Spec => KeepsLedger
<1>1. Init => Ledger!Init
  BY NullsDiffer DEF Init, Ledger!Init, Issued, Committed
<1> QED
  BY <1>1, LedgerStep, Invariant, PTL DEF Spec, KeepsLedger, Ledger!Spec

=============================================================================
