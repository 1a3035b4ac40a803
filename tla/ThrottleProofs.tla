--------------------------- MODULE ThrottleProofs ---------------------------
(***************************************************************************)
(* The throttle's bound, for any number of keys, concurrent requests and   *)
(* rows, any limit and any window.  A request is admitted while fewer than *)
(* Limit attempts count, so counted attempts plus admitted requests never  *)
(* exceed Limit - 1 plus all the requests there can be; recording moves a  *)
(* request from one term of that sum to the other.                         *)
(***************************************************************************)
EXTENDS Throttle, FiniteSetTheorems, TLAPS

RowsFinite == IsFiniteSet({i \in Rows : rowKey[i] # NoKey})

Budget ==
    \A k \in Keys :
        Cardinality(Counted(k)) + Cardinality(Admitted(k))
            <= Limit - 1 + Cardinality(Handlers)

IndInv ==
    /\ TypeOK
    /\ RowsFinite
    /\ NoAttemptForgotten
    /\ Budget

LEMMA TypeInductive == TypeOK /\ [Next]_vars => TypeOK'
<1> SUFFICES ASSUME TypeOK, [Next]_vars
             PROVE  TypeOK'
  OBVIOUS
<1> USE Parameters DEF TypeOK
<1>1. ASSUME NEW h \in Handlers, NEW k \in Keys, Admit(h, k)
      PROVE  TypeOK'
  BY <1>1 DEF Admit
<1>2. ASSUME NEW h \in Handlers, Authenticate(h)
      PROVE  TypeOK'
  BY <1>2 DEF Authenticate, Finish
<1>3. ASSUME NEW h \in Handlers, Prune(h)
      PROVE  TypeOK'
  BY <1>3 DEF Prune, Finish
<1>4. ASSUME NEW h \in Handlers, Record(h)
      PROVE  TypeOK'
  BY <1>4 DEF NewlyMade, Record, Finish
<1>5. ASSUME NEW h \in Handlers, LoseAttempt(h)
      PROVE  TypeOK'
  BY <1>5 DEF LoseAttempt, Finish
<1>6. ASSUME NEW h \in Handlers, Clear(h)
      PROVE  TypeOK'
  BY <1>6 DEF Clear, Finish
<1>7. ASSUME NEW h \in Handlers, ClearFails(h)
      PROVE  TypeOK'
  BY <1>7 DEF ClearFails, Finish
<1>8. CASE Tick
  BY <1>8 DEF Tick
<1>9. CASE UNCHANGED vars
  BY <1>9 DEF vars
<1> QED
  BY <1>1, <1>2, <1>3, <1>4, <1>5, <1>6, <1>7, <1>8, <1>9 DEF Next, Refuse

\* The throttle's table is finite, so its counts are numbers.
LEMMA CountsFinite ==
  ASSUME TypeOK, RowsFinite, NEW k \in Keys
  PROVE  /\ IsFiniteSet(Counted(k))
         /\ IsFiniteSet(Admitted(k))
         /\ Cardinality(Counted(k)) \in Nat
         /\ Cardinality(Admitted(k)) \in Nat
         /\ Cardinality(Admitted(k)) <= Cardinality(Handlers)
         /\ Cardinality(Handlers) \in Nat
<1>1. Counted(k) \subseteq {i \in Rows : rowKey[i] # NoKey}
  BY Parameters DEF Counted
<1>2. Admitted(k) \subseteq Handlers
  BY DEF Admitted
<1> QED
  BY <1>1, <1>2, HandlersBounded, FS_Subset, FS_CardinalityType DEF RowsFinite

LEMMA RowsFiniteInductive ==
  ASSUME TypeOK, RowsFinite, [Next]_vars
  PROVE  RowsFinite'
<1> DEFINE Taken == {i \in Rows : rowKey[i] # NoKey}
<1> SUFFICES IsFiniteSet(Taken')
  BY DEF RowsFinite
<1>1. CASE Taken' \subseteq Taken
  BY <1>1, FS_Subset DEF RowsFinite
<1>2. ASSUME NEW h \in Handlers, Record(h)
      PROVE  IsFiniteSet(Taken')
  <2>1. PICK i \in Rows : rowKey' = [rowKey EXCEPT ![i] = key[h]]
    BY <1>2 DEF NewlyMade, Record
  <2>2. Taken' \subseteq Taken \cup {i}
    BY <2>1 DEF TypeOK
  <2>3. IsFiniteSet(Taken \cup {i})
    BY FS_AddElement DEF RowsFinite
  <2> QED
    BY <2>2, <2>3, FS_Subset
<1>3. \/ Taken' \subseteq Taken
      \/ \E h \in Handlers : Record(h)
  BY DEF Next, vars, Admit, Refuse, Authenticate, Prune, LoseAttempt, Clear, ClearFails,
         Tick, TypeOK
<1> QED
  BY <1>1, <1>2, <1>3

LEMMA ForgottenInductive ==
  ASSUME TypeOK, NoAttemptForgotten, [Next]_vars
  PROVE  NoAttemptForgotten'
<1> USE Parameters DEF TypeOK, NoAttemptForgotten, Tried, Counted
<1>1. ASSUME NEW h \in Handlers, Prune(h)
      PROVE  NoAttemptForgotten'
  BY <1>1 DEF Prune, Kept
<1>2. ASSUME NEW h \in Handlers, Record(h)
      PROVE  NoAttemptForgotten'
  BY <1>2 DEF NewlyMade, Record
<1>3. ASSUME NEW h \in Handlers, Clear(h)
      PROVE  NoAttemptForgotten'
  BY <1>3 DEF Clear, Failures
<1>4. CASE Tick
  BY <1>4 DEF Tick
<1>5. CASE UNCHANGED <<rowKey, age, tried>>
  BY <1>5
<1> QED
  BY <1>1, <1>2, <1>3, <1>4, <1>5
  DEF Next, vars, Admit, Refuse, Authenticate, LoseAttempt, ClearFails

\* A step that adds neither a counted attempt nor an admitted request for a
\* key keeps its budget.
LEMMA Shrinking ==
  ASSUME TypeOK, TypeOK', RowsFinite, RowsFinite', Budget, NEW k \in Keys,
         Counted(k)' \subseteq Counted(k), Admitted(k)' \subseteq Admitted(k)
  PROVE  Cardinality(Counted(k)') + Cardinality(Admitted(k)')
            <= Limit - 1 + Cardinality(Handlers)
<1>1. /\ Cardinality(Counted(k)') <= Cardinality(Counted(k))
      /\ Cardinality(Admitted(k)') <= Cardinality(Admitted(k))
      /\ Cardinality(Counted(k)') \in Nat
      /\ Cardinality(Admitted(k)') \in Nat
  BY CountsFinite, FS_Subset, FS_CardinalityType
<1>2. Cardinality(Counted(k)) + Cardinality(Admitted(k)) <= Limit - 1 + Cardinality(Handlers)
  BY DEF Budget
<1> QED
  BY <1>1, <1>2, CountsFinite, Parameters

LEMMA BudgetInductive ==
  ASSUME IndInv, [Next]_vars, TypeOK', RowsFinite'
  PROVE  Budget'
<1> SUFFICES ASSUME NEW k \in Keys
             PROVE  Cardinality(Counted(k)') + Cardinality(Admitted(k)')
                       <= Limit - 1 + Cardinality(Handlers)
  BY DEF Budget
<1>0. TypeOK /\ RowsFinite /\ Budget
  BY DEF IndInv
<1>1. CASE Counted(k)' \subseteq Counted(k) /\ Admitted(k)' \subseteq Admitted(k)
  BY <1>0, <1>1, Shrinking
<1>2. CASE \E h \in Handlers : Admit(h, k)
  <2>1. Counted(k)' = Counted(k) /\ ~Blocked(k)
    BY <1>2 DEF Admit, Counted
  <2>2. Cardinality(Counted(k)) <= Limit - 1
    BY <1>0, <2>1, CountsFinite, Parameters DEF Blocked
  <2>3. /\ Cardinality(Admitted(k)') \in Nat
        /\ Cardinality(Admitted(k)') <= Cardinality(Handlers)
    <3>1. Admitted(k)' \subseteq Handlers
      BY DEF Admitted
    <3> QED
      BY <3>1, HandlersBounded, FS_Subset, FS_CardinalityType
  <2> QED
    BY <1>0, <2>1, <2>2, <2>3, CountsFinite, Parameters
<1>3. CASE \E h \in Handlers : key[h] = k /\ Record(h)
  <2>1. PICK h \in Handlers : key[h] = k /\ Record(h)
    BY <1>3
  <2>2. PICK i \in Rows : /\ rowKey[i] = NoKey
                          /\ rowKey' = [rowKey EXCEPT ![i] = k]
                          /\ age' = [age EXCEPT ![i] = 0]
    BY <2>1 DEF NewlyMade, Record
  <2>3. Counted(k)' = Counted(k) \cup {i} /\ i \notin Counted(k)
    BY <1>0, <2>2, Parameters DEF Counted, TypeOK
  <2>4. Admitted(k)' = Admitted(k) \ {h} /\ h \in Admitted(k)
    BY <1>0, <2>1 DEF Admitted, Record, Finish, TypeOK
  <2>5. Cardinality(Counted(k)') = Cardinality(Counted(k)) + 1
    BY <1>0, <2>3, CountsFinite, FS_AddElement
  <2>6. Cardinality(Admitted(k)') = Cardinality(Admitted(k)) - 1
    BY <1>0, <2>4, CountsFinite, FS_RemoveElement
  <2>7. Cardinality(Counted(k)) + Cardinality(Admitted(k)) <= Limit - 1 + Cardinality(Handlers)
    BY <1>0 DEF Budget
  <2> QED
    BY <1>0, <2>5, <2>6, <2>7, CountsFinite, Parameters
<1>4. \/ Counted(k)' \subseteq Counted(k) /\ Admitted(k)' \subseteq Admitted(k)
      \/ \E h \in Handlers : Admit(h, k)
      \/ \E h \in Handlers : key[h] = k /\ Record(h)
  <2> USE <1>0, Parameters DEF TypeOK, Counted, Admitted
  <2>1. ASSUME NEW h \in Handlers, NEW j \in Keys, Admit(h, j), j # k
        PROVE  Counted(k)' \subseteq Counted(k) /\ Admitted(k)' \subseteq Admitted(k)
    BY <2>1 DEF Admit
  <2>2. ASSUME NEW h \in Handlers, Record(h), key[h] # k
        PROVE  Counted(k)' \subseteq Counted(k) /\ Admitted(k)' \subseteq Admitted(k)
    BY <2>2 DEF NewlyMade, Record, Finish
  <2>3. ASSUME NEW h \in Handlers, Authenticate(h) \/ LoseAttempt(h) \/ ClearFails(h)
        PROVE  Counted(k)' \subseteq Counted(k) /\ Admitted(k)' \subseteq Admitted(k)
    BY <2>3 DEF Authenticate, LoseAttempt, ClearFails, Finish
  <2>4. ASSUME NEW h \in Handlers, Prune(h) \/ Clear(h)
        PROVE  Counted(k)' \subseteq Counted(k) /\ Admitted(k)' \subseteq Admitted(k)
    BY <2>4 DEF Prune, Clear, Finish
  <2>5. ASSUME Tick \/ UNCHANGED vars
        PROVE  Counted(k)' \subseteq Counted(k) /\ Admitted(k)' \subseteq Admitted(k)
    BY <2>5 DEF Tick, vars
  <2>6. ASSUME NEW h \in Handlers, NEW j \in Keys, Admit(h, j), j = k
        PROVE  \E g \in Handlers : Admit(g, k)
    BY <2>6
  <2>7. ASSUME NEW h \in Handlers, Record(h), key[h] = k
        PROVE  \E g \in Handlers : key[g] = k /\ Record(g)
    BY <2>7
  <2> HIDE <1>0 DEF TypeOK, Counted, Admitted
  <2> QED
    BY <2>1, <2>2, <2>3, <2>4, <2>5, <2>6, <2>7 DEF Next, Refuse
<1> QED
  BY <1>1, <1>2, <1>3, <1>4

\* The table is finite, forgets nothing that counts, and no key's counted
\* attempts and admitted requests together exceed their budget.
THEOREM Invariant == Spec => []IndInv
<1>1. Init => IndInv
  <2> SUFFICES ASSUME Init
               PROVE  IndInv
    OBVIOUS
  <2>1. TypeOK
    BY Parameters DEF Init, TypeOK
  <2>2. RowsFinite
    <3>1. {i \in Rows : rowKey[i] # NoKey} = {}
      BY DEF Init
    <3> QED
      BY <3>1, FS_EmptySet DEF RowsFinite
  <2>3. ASSUME NEW k \in Keys
        PROVE  Counted(k) = {} /\ Admitted(k) = {}
    BY Parameters DEF Init, Counted, Admitted
  <2>4. Cardinality(Handlers) \in Nat /\ Cardinality({}) = 0
    BY HandlersBounded, FS_CardinalityType, FS_EmptySet
  <2>5. Budget
    <3> SUFFICES ASSUME NEW k \in Keys
                 PROVE  Cardinality(Counted(k)) + Cardinality(Admitted(k))
                           <= Limit - 1 + Cardinality(Handlers)
      BY DEF Budget
    <3>1. Counted(k) = {} /\ Admitted(k) = {}
      BY <2>3
    <3>2. Cardinality(Counted(k)) = 0 /\ Cardinality(Admitted(k)) = 0
      BY <3>1, <2>4
    <3> QED
      BY <3>2, <2>4, Parameters
  <2>6. NoAttemptForgotten
    BY Parameters DEF Init, NoAttemptForgotten, Tried
  <2> QED
    BY <2>1, <2>2, <2>5, <2>6 DEF IndInv
<1>2. IndInv /\ [Next]_vars => IndInv'
  BY TypeInductive, RowsFiniteInductive, ForgottenInductive, BudgetInductive DEF IndInv
<1> QED
  BY <1>1, <1>2, PTL DEF Spec

\* Every variable keeps its type; in particular no row is from the future.
THEOREM TypeCorrect == Spec => []TypeOK
<1>1. IndInv => TypeOK
  BY DEF IndInv
<1> QED
  BY <1>1, Invariant, PTL

\* The table keeps every recorded attempt of the window for as long as it
\* counts, whatever other keys prune and clear meanwhile.
THEOREM AttemptsKept == Spec => []NoAttemptForgotten
<1>1. IndInv => NoAttemptForgotten
  BY DEF IndInv
<1> QED
  BY <1>1, Invariant, PTL

\* Racing requests overshoot the limit by less than their own number.
THEOREM Bound == Spec => []AttemptsBounded
<1>1. IndInv => AttemptsBounded
  <2> SUFFICES ASSUME IndInv, NEW k \in Keys
               PROVE  Cardinality(Tried(k)) <= Limit - 1 + Cardinality(Handlers)
    BY DEF AttemptsBounded
  <2>1. Tried(k) \subseteq Counted(k)
    BY DEF IndInv, NoAttemptForgotten
  <2>2. /\ Cardinality(Tried(k)) <= Cardinality(Counted(k))
        /\ Cardinality(Tried(k)) \in Nat
    BY <2>1, CountsFinite, FS_Subset, FS_CardinalityType DEF IndInv
  <2>3. Cardinality(Counted(k)) + Cardinality(Admitted(k)) <= Limit - 1 + Cardinality(Handlers)
    BY DEF IndInv, Budget
  <2> QED
    BY <2>2, <2>3, CountsFinite, Parameters DEF IndInv
<1> QED
  BY <1>1, Invariant, PTL

\* Only a request that was admitted adds to what counts against its key:
\* none that is refused does, nor pruning, clearing or the clock.
THEOREM RefusedUncounted == Spec => RefusalsNotCounted
<1>1. ASSUME TypeOK, [Next]_vars, NEW k \in Keys, Admitted(k) = {}
      PROVE  Counted(k)' \subseteq Counted(k)
  <2> USE <1>1, Parameters DEF TypeOK, Counted
  <2>1. ASSUME NEW h \in Handlers, Record(h)
        PROVE  Counted(k)' \subseteq Counted(k)
    <3>1. key[h] # k
      BY <2>1 DEF Record, Admitted
    <3> QED
      BY <2>1, <3>1 DEF Record
  <2>2. ASSUME NEW h \in Handlers, Prune(h) \/ Clear(h)
        PROVE  Counted(k)' \subseteq Counted(k)
    BY <2>2 DEF Prune, Clear
  <2>3. CASE Tick
    BY <2>3 DEF Tick
  <2>4. CASE UNCHANGED <<rowKey, age>>
    BY <2>4
  <2> HIDE DEF TypeOK, Counted
  <2> QED
    BY <2>1, <2>2, <2>3, <2>4
    DEF Next, vars, Admit, Refuse, Authenticate, LoseAttempt, ClearFails
<1>2. TypeOK /\ [Next]_vars
        => [\A k \in Keys : Blocked(k) /\ Admitted(k) = {} => Counted(k)' \subseteq Counted(k)]_vars
  BY <1>1
<1> QED
  BY <1>2, TypeCorrect, PTL DEF Spec, RefusalsNotCounted

=============================================================================
