-------------------------- MODULE HashSlotsProofs --------------------------
(***************************************************************************)
(* The hash slots, the connections and the row lock are all accounted for, *)
(* for any number of callers, slots and connections.  Each step moves one  *)
(* caller in or out of the holders of a resource, and the counter with it; *)
(* the lock is followed by the step its holder stands at.  The queues hold *)
(* who waits, once each, and with that calls never all wait for each other.*)
(***************************************************************************)
EXTENDS HashSlots, FiniteSetTheorems, SequenceTheorems, TLAPS

SlotHolders == {c \in Callers : HoldsSlot(c)}
ConnHolders == {c \in Callers : HoldsConn(c)}

Types ==
    /\ slots \in 0 .. Slots
    /\ conns \in 0 .. PoolSize
    /\ lock \in Callers \cup {Nobody}
    /\ call \in [Callers -> Calls]
    /\ pc \in [Callers -> Steps]

\* Only a reset waits for the row lock.
LockersReset == \A c \in Callers : pc[c] = "locking" => call[c] = "reset"

\* A holder of the row lock has reached its last statement.
LockHeld == lock # Nobody => pc[lock] = "writing" /\ call[lock] = "reset"

SlotsCounted == slots = Cardinality(SlotHolders)
ConnsCounted == conns = Cardinality(ConnHolders)

IndInv ==
    /\ Types
    /\ LockersReset
    /\ LockHeld
    /\ SlotsCounted
    /\ ConnsCounted

\* One caller takes or gives back a resource: what that does to its count.
LEMMA Counting ==
  ASSUME NEW S \in SUBSET Callers, NEW c \in Callers
  PROVE  /\ Cardinality(S) \in Nat
         /\ c \notin S => Cardinality(S \cup {c}) = Cardinality(S) + 1
         /\ c \in S => Cardinality(S \ {c}) = Cardinality(S) - 1
         /\ c \in S => Cardinality(S) > 0
<1>1. IsFiniteSet(S)
  BY FiniteCallers, FS_Subset
<1>2. c \in S => Cardinality(S) # 0
  BY <1>1, FS_EmptySet
<1>3. Cardinality(S) \in Nat
  BY <1>1, FS_CardinalityType
<1>4. Cardinality(S \cup {c}) = IF c \in S THEN Cardinality(S) ELSE Cardinality(S) + 1
  BY <1>1, FS_AddElement
<1>5. Cardinality(S \ {c}) = IF c \in S THEN Cardinality(S) - 1 ELSE Cardinality(S)
  BY <1>1, FS_RemoveElement
<1> QED
  BY <1>2, <1>3, <1>4, <1>5

\* A step of c: what it does to the counts follows from where c stands
\* before and after it.
LEMMA Moves ==
  ASSUME Types, NEW c \in Callers,
         pc' \in [Callers -> Steps], call' \in [Callers -> Calls],
         \A d \in Callers \ {c} : pc'[d] = pc[d] /\ call'[d] = call[d]
  PROVE  /\ SlotHolders' = IF pc'[c] = "hashing" THEN SlotHolders \cup {c}
                                                 ELSE SlotHolders \ {c}
         /\ ConnHolders' = IF HoldsConn(c)' THEN ConnHolders \cup {c}
                                            ELSE ConnHolders \ {c}
  BY DEF Types, SlotHolders, ConnHolders, HoldsSlot, HoldsConn

LEMMA Counts ==
  ASSUME IndInv, NEW c \in Callers,
         pc' \in [Callers -> Steps], call' \in [Callers -> Calls],
         \A d \in Callers \ {c} : pc'[d] = pc[d] /\ call'[d] = call[d],
         slots' = IF HoldsSlot(c)' <=> HoldsSlot(c) THEN slots
                  ELSE IF HoldsSlot(c) THEN slots - 1 ELSE slots + 1,
         conns' = IF HoldsConn(c)' <=> HoldsConn(c) THEN conns
                  ELSE IF HoldsConn(c) THEN conns - 1 ELSE conns + 1
  PROVE  SlotsCounted' /\ ConnsCounted' /\ slots' \in Nat /\ conns' \in Nat
<1> DEFINE S == SlotHolders
           C == ConnHolders
<1>0. S \in SUBSET Callers /\ C \in SUBSET Callers
  BY DEF SlotHolders, ConnHolders
<1>1. SlotHolders' = IF HoldsSlot(c)' THEN S \cup {c} ELSE S \ {c}
  BY Moves DEF IndInv, HoldsSlot
<1>2. ConnHolders' = IF HoldsConn(c)' THEN C \cup {c} ELSE C \ {c}
  BY Moves DEF IndInv
<1>3. (HoldsSlot(c) <=> c \in S) /\ (HoldsConn(c) <=> c \in C)
  BY DEF SlotHolders, ConnHolders
<1>4. /\ slots = Cardinality(S)
      /\ conns = Cardinality(C)
  BY DEF IndInv, SlotsCounted, ConnsCounted
<1>5. HoldsSlot(c) \in BOOLEAN /\ HoldsSlot(c)' \in BOOLEAN
      /\ HoldsConn(c) \in BOOLEAN /\ HoldsConn(c)' \in BOOLEAN
  BY DEF HoldsSlot, HoldsConn
<1> HIDE DEF S, C
<1>6. /\ slots' = Cardinality(SlotHolders')
      /\ slots' \in Nat
  <2>1. CASE HoldsSlot(c)' /\ HoldsSlot(c)
    <3>1. S \cup {c} = S
      BY <2>1, <1>3
    <3> QED
      BY <2>1, <1>0, <1>1, <1>4, <3>1, Counting
  <2>2. CASE ~HoldsSlot(c)' /\ ~HoldsSlot(c)
    <3>1. S \ {c} = S
      BY <2>2, <1>3
    <3> QED
      BY <2>2, <1>0, <1>1, <1>4, <3>1, Counting
  <2>3. CASE HoldsSlot(c)' /\ ~HoldsSlot(c)
    <3>1. Cardinality(S \cup {c}) = Cardinality(S) + 1 /\ Cardinality(S) \in Nat
      BY <2>3, <1>0, <1>3, Counting
    <3> QED
      BY <2>3, <1>1, <1>4, <3>1
  <2>4. CASE ~HoldsSlot(c)' /\ HoldsSlot(c)
    <3>1. /\ Cardinality(S \ {c}) = Cardinality(S) - 1
          /\ Cardinality(S) \in Nat /\ Cardinality(S) > 0
      BY <2>4, <1>0, <1>3, Counting
    <3> QED
      BY <2>4, <1>1, <1>4, <3>1
  <2> QED
    BY <2>1, <2>2, <2>3, <2>4
<1>7. /\ conns' = Cardinality(ConnHolders')
      /\ conns' \in Nat
  <2>1. CASE HoldsConn(c)' /\ HoldsConn(c)
    <3>1. C \cup {c} = C
      BY <2>1, <1>3
    <3> QED
      BY <2>1, <1>0, <1>2, <1>4, <3>1, Counting
  <2>2. CASE ~HoldsConn(c)' /\ ~HoldsConn(c)
    <3>1. C \ {c} = C
      BY <2>2, <1>3
    <3> QED
      BY <2>2, <1>0, <1>2, <1>4, <3>1, Counting
  <2>3. CASE HoldsConn(c)' /\ ~HoldsConn(c)
    <3>1. Cardinality(C \cup {c}) = Cardinality(C) + 1 /\ Cardinality(C) \in Nat
      BY <2>3, <1>0, <1>3, Counting
    <3> QED
      BY <2>3, <1>2, <1>4, <3>1
  <2>4. CASE ~HoldsConn(c)' /\ HoldsConn(c)
    <3>1. /\ Cardinality(C \ {c}) = Cardinality(C) - 1
          /\ Cardinality(C) \in Nat /\ Cardinality(C) > 0
      BY <2>4, <1>0, <1>3, Counting
    <3> QED
      BY <2>4, <1>2, <1>4, <3>1
  <2> QED
    BY <2>1, <2>2, <2>3, <2>4
<1> QED
  BY <1>6, <1>7 DEF SlotsCounted, ConnsCounted

LEMMA Inductive ==
  ASSUME IndInv, [Next]_vars
  PROVE  IndInv'
<1> USE DEF Types, LockersReset, LockHeld
<1>1. ASSUME NEW c \in Callers, NEW k \in Calls, Start(c, k)
      PROVE  IndInv'
  <2>1. Types' /\ LockersReset' /\ LockHeld'
    BY <1>1, FiniteCallers DEF Start, Goto, IndInv, Calls, Steps
  <2>2. SlotsCounted' /\ ConnsCounted'
    BY <1>1, <2>1, Counts DEF Start, Goto, IndInv, HoldsSlot, HoldsConn
  <2> QED
    BY <2>1, <2>2 DEF IndInv
<1>2. ASSUME NEW c \in Callers, AcquireConn(c)
      PROVE  IndInv'
  <2>1. Types' /\ LockersReset' /\ LockHeld'
    BY <1>2, Sizes, FiniteCallers DEF AcquireConn, Goto, IndInv, Steps
  <2>2. SlotsCounted' /\ ConnsCounted'
    BY <1>2, <2>1, Counts DEF AcquireConn, Goto, IndInv, HoldsSlot, HoldsConn
  <2> QED
    BY <2>1, <2>2 DEF IndInv
<1>3. ASSUME NEW c \in Callers, Query(c)
      PROVE  IndInv'
  <2>1. pc' \in [Callers -> Steps] /\ LockersReset' /\ LockHeld'
    BY <1>3, FiniteCallers DEF Query, Goto, IndInv, Steps
  <2>2. SlotsCounted' /\ ConnsCounted' /\ conns' \in Nat
    BY <1>3, <2>1, Counts DEF Query, Goto, IndInv, HoldsSlot, HoldsConn
  <2> QED
    BY <1>3, <2>1, <2>2, Sizes DEF IndInv, Query
<1>4. ASSUME NEW c \in Callers, TakeSlot(c)
      PROVE  IndInv'
  <2>1. Types' /\ LockersReset' /\ LockHeld'
    BY <1>4, Sizes, FiniteCallers DEF TakeSlot, Goto, IndInv, Steps
  <2>2. SlotsCounted' /\ ConnsCounted'
    BY <1>4, <2>1, Counts DEF TakeSlot, Goto, IndInv, HoldsSlot, HoldsConn
  <2> QED
    BY <2>1, <2>2 DEF IndInv
<1>5. ASSUME NEW c \in Callers, Hash(c)
      PROVE  IndInv'
  <2>1. pc' \in [Callers -> Steps] /\ LockersReset' /\ LockHeld'
    BY <1>5, FiniteCallers DEF Hash, Goto, IndInv, Steps
  <2>2. SlotsCounted' /\ ConnsCounted' /\ slots' \in Nat
    BY <1>5, <2>1, Counts DEF Hash, Freed, Goto, IndInv, HoldsSlot, HoldsConn
  <2> QED
    BY <1>5, <2>1, <2>2, Sizes DEF IndInv, Hash, Freed
<1>6. ASSUME NEW c \in Callers, LockRow(c)
      PROVE  IndInv'
  <2>1. Types' /\ LockersReset' /\ LockHeld'
    BY <1>6, FiniteCallers DEF LockRow, Goto, IndInv, Steps
  <2>2. SlotsCounted' /\ ConnsCounted'
    BY <1>6, <2>1, Counts DEF LockRow, Goto, IndInv, HoldsSlot, HoldsConn
  <2> QED
    BY <2>1, <2>2 DEF IndInv
<1>7. ASSUME NEW c \in Callers, Finish(c)
      PROVE  IndInv'
  <2>1. pc' \in [Callers -> Steps] /\ LockersReset' /\ LockHeld'
    BY <1>7, FiniteCallers DEF Finish, Unlocked, Goto, IndInv, Steps
  <2>2. SlotsCounted' /\ ConnsCounted' /\ conns' \in Nat
    BY <1>7, <2>1, Counts DEF Finish, Goto, IndInv, HoldsSlot, HoldsConn
  <2> QED
    BY <1>7, <2>1, <2>2, Sizes DEF IndInv, Finish, Unlocked
<1>8. ASSUME NEW c \in Callers, Fail(c)
      PROVE  IndInv'
  <2>1. pc' \in [Callers -> Steps] /\ LockersReset' /\ LockHeld'
    BY <1>8, FiniteCallers DEF Fail, Goto, IndInv, Steps
  <2>2. SlotsCounted' /\ ConnsCounted' /\ slots' \in Nat /\ conns' \in Nat
    BY <1>8, <2>1, Counts DEF Fail, Freed, Goto, IndInv, HoldsSlot, HoldsConn
  <2> QED
    BY <1>8, <2>1, <2>2, Sizes DEF IndInv, Fail, Freed
<1>9. ASSUME NEW c \in Callers, GiveUp(c)
      PROVE  IndInv'
  <2>1. pc' \in [Callers -> Steps] /\ LockersReset' /\ LockHeld'
    BY <1>9, FiniteCallers DEF GiveUp, Goto, IndInv, Steps
  <2>2. SlotsCounted' /\ ConnsCounted' /\ conns' \in Nat
    BY <1>9, <2>1, Counts DEF GiveUp, NeverTaken, Goto, IndInv, HoldsSlot, HoldsConn
  <2> QED
    BY <1>9, <2>1, <2>2, Sizes DEF IndInv, GiveUp, NeverTaken
<1>10. CASE UNCHANGED vars
  BY <1>10 DEF vars, IndInv, SlotsCounted, ConnsCounted, SlotHolders, ConnHolders,
               HoldsSlot, HoldsConn
<1> QED
  BY <1>1, <1>2, <1>3, <1>4, <1>5, <1>6, <1>7, <1>8, <1>9, <1>10 DEF Next

\* Every counter equals the number of callers that hold its resource, and the
\* row lock's holder is at its last statement: hashPassword, comparePassword
\* and InTx give back what they took and nothing else.
THEOREM Invariant == Spec => []IndInv
<1>1. Init => IndInv
  <2> SUFFICES ASSUME Init
               PROVE  IndInv
    OBVIOUS
  <2>1. SlotHolders = {} /\ ConnHolders = {}
    BY DEF Init, SlotHolders, ConnHolders, HoldsSlot, HoldsConn
  <2>2. SlotsCounted /\ ConnsCounted
    BY <2>1, FS_EmptySet DEF Init, SlotsCounted, ConnsCounted
  <2>3. Types /\ LockersReset /\ LockHeld
    BY Sizes DEF Init, Types, LockersReset, LockHeld, Calls, Steps
  <2> QED
    BY <2>2, <2>3 DEF IndInv
<1> QED
  BY <1>1, Inductive, PTL DEF Spec

\* No slot, connection or row lock is lost or given back twice, whichever
\* step of a call fails or is given up (auth/users.go:59-89, db/tx.go:10-33).
THEOREM NothingLeaked == Spec => []NothingLeaks
<1>1. IndInv => NothingLeaks
  BY DEF IndInv, NothingLeaks, SlotsCounted, ConnsCounted, LockHeld, SlotHolders, ConnHolders
<1> QED
  BY <1>1, Invariant, PTL

\* Never more than Slots hashes run at once: the bound that hashSlots puts on
\* memory (auth/users.go:50-56), for every mix of calls.
MemoryBounded == Cardinality({c \in Callers : pc[c] = "hashing"}) <= Slots

\* The slots cap the hashes in progress, not just the counter.
THEOREM HashesBounded == Spec => []MemoryBounded
<1>1. IndInv => MemoryBounded
  BY Sizes DEF IndInv, Types, MemoryBounded, SlotsCounted, SlotHolders, HoldsSlot
<1> QED
  BY <1>1, Invariant, PTL

-----------------------------------------------------------------------------

(* The queues.                                                             *)

\* Who stands in a queue, and that nobody stands in it twice.
InLine(s) == {s[i] : i \in 1..Len(s)}
Once(s)   == \A i, j \in 1..Len(s) : s[i] = s[j] => i = j

LEMMA Line ==
  ASSUME NEW s \in Seq(Callers), Once(s)
  PROVE  Len(s) = Cardinality(InLine(s))
<1>1. s \in [1..Len(s) -> InLine(s)]
  BY DEF InLine
<1>2. s \in Bijection(1..Len(s), InLine(s))
  <2>1. \A x \in InLine(s) : \E i \in 1..Len(s) : s[i] = x
    BY DEF InLine
  <2>2. \A i, j \in 1..Len(s) : s[i] = s[j] => i = j
    BY DEF Once
  <2> QED
    BY <1>1, <2>1, <2>2 DEF Bijection, Injection, Surjection, IsInjective
<1>3. IsFiniteSet(1..Len(s)) /\ Cardinality(1..Len(s)) = Len(s)
  <2>1. Len(s) \in Nat
    OBVIOUS
  <2> QED
    BY <2>1, FS_Interval
<1>4. Cardinality(InLine(s)) = Cardinality(1..Len(s))
  BY <1>2, <1>3, FS_Bijection DEF ExistsBijection
<1> QED
  BY <1>3, <1>4

\* The three things that happen to a queue.
LEMMA Joined ==
  ASSUME NEW s \in Seq(Callers), Once(s), NEW c \in Callers, c \notin InLine(s)
  PROVE  /\ Append(s, c) \in Seq(Callers) /\ Once(Append(s, c))
         /\ InLine(Append(s, c)) = InLine(s) \cup {c}
<1> DEFINE t == Append(s, c)
           n == Len(s)
<1>1. n \in Nat /\ t \in Seq(Callers) /\ Len(t) = n + 1 /\ t[n + 1] = c /\ \A i \in 1..n : t[i] = s[i]
  OBVIOUS
<1> HIDE DEF t
<1>2. 1..(n + 1) = 1..n \cup {n + 1}
  BY <1>1
<1>3. Once(t)
  BY <1>1, <1>2 DEF Once, InLine
<1>4. InLine(t) = InLine(s) \cup {c}
  BY <1>1, <1>2 DEF InLine
<1> QED
  BY <1>1, <1>3, <1>4 DEF t

LEMMA Left ==
  ASSUME NEW s \in Seq(Callers), Once(s), NEW k \in 1..Len(s)
  PROVE  /\ RemoveAt(s, k) \in Seq(Callers) /\ Once(RemoveAt(s, k))
         /\ InLine(RemoveAt(s, k)) = InLine(s) \ {s[k]}
<1> DEFINE t == RemoveAt(s, k)
           n == Len(s)
           a == SubSeq(s, 1, k - 1)
           b == SubSeq(s, k + 1, n)
<1>1. n \in Nat /\ k \in 1..n
  OBVIOUS
<1>2. a \in Seq(Callers) /\ Len(a) = k - 1 /\ \A i \in 1..(k - 1) : a[i] = s[i]
  BY <1>1, SubSeqProperties
<1>3. b \in Seq(Callers) /\ Len(b) = n - k /\ \A i \in 1..(n - k) : b[i] = s[k + i]
  <2>1. CASE k = n
    BY <1>1, <2>1, SubSeqProperties
  <2>2. CASE k # n
    BY <1>1, <2>2, SubSeqProperties
  <2> QED
    BY <2>1, <2>2
<1>4. t = a \o b
  BY DEF RemoveAt
<1> HIDE DEF a, b, t
<1>5. /\ t \in Seq(Callers) /\ Len(t) = n - 1
      /\ \A i \in 1..(n - 1) : t[i] = IF i < k THEN s[i] ELSE s[i + 1]
  <2>1. t \in Seq(Callers) /\ Len(t) = n - 1
    <3>1. t \in Seq(Callers) /\ Len(t) = Len(a) + Len(b)
      BY <1>2, <1>3, <1>4, ConcatProperties
    <3>2. (k - 1) + (n - k) = n - 1
      BY <1>1
    <3> QED
      BY <1>2, <1>3, <3>1, <3>2
  <2>2. ASSUME NEW i \in 1..(n - 1) PROVE t[i] = IF i < k THEN s[i] ELSE s[i + 1]
    <3>1. CASE i < k
      BY <1>1, <1>2, <1>3, <1>4, <3>1, ConcatProperties
    <3>2. CASE ~(i < k)
      <4>1. t[i] = b[i - (k - 1)] /\ i - (k - 1) \in 1..(n - k)
        BY <1>1, <1>2, <1>3, <1>4, <3>2, ConcatProperties
      <4>2. k + (i - (k - 1)) = i + 1
        BY <1>1
      <4> QED
        BY <1>3, <3>2, <4>1, <4>2
    <3> QED
      BY <3>1, <3>2
  <2> QED
    BY <2>1, <2>2
<1>6. Once(t)
  BY <1>1, <1>5 DEF Once
<1>7. InLine(t) = InLine(s) \ {s[k]}
  <2>1. ASSUME NEW i \in 1..(n - 1) PROVE t[i] \in InLine(s) \ {s[k]}
    <3>1. PICK j \in 1..n : t[i] = s[j] /\ j # k
      BY <1>1, <1>5
    <3>2. t[i] \in InLine(s)
      BY <3>1 DEF InLine
    <3>3. s[j] # s[k]
      BY <3>1 DEF Once
    <3> QED
      BY <3>1, <3>2, <3>3
  <2>2. ASSUME NEW j \in 1..n, s[j] # s[k] PROVE \E i \in 1..(n - 1) : t[i] = s[j]
    <3>1. CASE j < k
      BY <1>1, <1>5, <3>1
    <3>2. CASE j > k
      <4>1. j - 1 \in 1..(n - 1) /\ ~(j - 1 < k) /\ j - 1 + 1 = j
        BY <1>1, <3>2
      <4> QED
        BY <1>5, <4>1
    <3> QED
      BY <1>1, <2>2, <3>1, <3>2
  <2>3. ASSUME NEW x \in InLine(t) PROVE x \in InLine(s) \ {s[k]}
    BY <1>5, <2>1, <2>3 DEF InLine
  <2>4. ASSUME NEW x \in InLine(s) \ {s[k]} PROVE x \in InLine(t)
    <3>1. PICK j \in 1..n : x = s[j]
      BY <2>4 DEF InLine
    <3>2. PICK i \in 1..(n - 1) : t[i] = s[j]
      BY <2>2, <2>4, <3>1
    <3> QED
      BY <1>5, <3>1, <3>2 DEF InLine
  <2> QED
    BY <2>3, <2>4
<1> QED
  BY <1>5, <1>6, <1>7 DEF t

LEMMA ServedFirst ==
  ASSUME NEW s \in Seq(Callers), Once(s), s # << >>
  PROVE  /\ Tail(s) \in Seq(Callers) /\ Once(Tail(s))
         /\ InLine(Tail(s)) = InLine(s) \ {Head(s)}
<1> DEFINE t == Tail(s)
           n == Len(s)
<1>1. n \in Nat \ {0} /\ t \in Seq(Callers) /\ Len(t) = n - 1 /\ (\A i \in 1..(n - 1) : t[i] = s[i + 1]) /\ Head(s) = s[1]
  BY HeadTailProperties
<1> HIDE DEF t
<1>2. Once(t)
  BY <1>1 DEF Once
<1>3. ASSUME NEW j \in 1..n, s[j] # s[1] PROVE \E i \in 1..(n - 1) : t[i] = s[j]
  <2>1. j - 1 \in 1..(n - 1) /\ j - 1 + 1 = j
    BY <1>1, <1>3
  <2> QED
    BY <1>1, <2>1
<1>4. \A i \in 1..(n - 1) : t[i] \in InLine(s) \ {s[1]}
  BY <1>1 DEF Once, InLine
<1>5. InLine(t) = InLine(s) \ {Head(s)}
  <2>1. ASSUME NEW x \in InLine(s) \ {s[1]} PROVE x \in InLine(t)
    <3>1. PICK j \in 1..n : x = s[j]
      BY <2>1 DEF InLine
    <3>2. PICK i \in 1..(n - 1) : t[i] = s[j]
      BY <1>3, <2>1, <3>1
    <3> QED
      BY <1>1, <3>1, <3>2 DEF InLine
  <2>2. \A x \in InLine(t) : \E i \in 1..(n - 1) : x = t[i]
    BY <1>1 DEF InLine
  <2> QED
    BY <1>1, <1>4, <2>1, <2>2
<1> QED
  BY <1>1, <1>2, <1>5 DEF t

\* The queue that a call stands in by the step it is at.
Queues == {"conn", "slot", "row"}
Where(step) ==
    CASE step \in {"acquiring", "saving"} -> "conn"
      [] step = "queued" -> "slot"
      [] step = "locking" -> "row"
      [] OTHER -> "none"

\* Every queue holds those who wait for its resource, each of them once.
InOrder ==
    /\ queue \in [Queues -> Seq(Callers)]
    /\ \A q \in Queues : Once(queue[q]) /\ InLine(queue[q]) = WaitsAt(q)

\* Who waits where, by the steps of a call.
LEMMA Waiters ==
  /\ WaitsAt("conn") = {c \in Callers : pc[c] \in {"acquiring", "saving"}}
  /\ WaitsAt("slot") = {c \in Callers : pc[c] = "queued"}
  /\ WaitsAt("row") = {c \in Callers : pc[c] = "locking"}
<1>1. WaitsAt("conn") = {c \in Callers : pc[c] \in {"acquiring", "saving"}}
  BY DEF WaitsAt
<1>2. WaitsAt("slot") = {c \in Callers : pc[c] = "queued"}
  BY DEF WaitsAt
<1>3. WaitsAt("row") = {c \in Callers : pc[c] = "locking"}
  BY DEF WaitsAt
<1> QED
  BY <1>1, <1>2, <1>3

\* The same, by the queue of a step.
LEMMA Waits == \A q \in Queues : WaitsAt(q) = {c \in Callers : Where(pc[c]) = q}
BY Waiters DEF Queues, Where

\* c goes on to another step: it joins the queue of that step, is served, or
\* leaves for good.
LEMMA InLineStep ==
  ASSUME Types, InOrder, NEW c \in Callers, NEW step \in Steps, Goto(c, step),
         \/ Where(pc[c]) = "none" /\ Where(step) \in Queues /\ Join(Where(step), c)
         \/ Where(step) = "none" /\ \E q \in Queues : First(q, c) /\ Served(q)
         \/ Where(step) = "none" /\ Leave(c)
         \/ Where(pc[c]) = "none" /\ Where(step) = "none" /\ UNCHANGED queue
  PROVE  InOrder'
<1>1. pc' = [pc EXCEPT ![c] = step] /\ pc \in [Callers -> Steps]
  BY DEF Goto, Types
<1>2. \A q \in Queues : WaitsAt(q)' = {d \in Callers : Where(pc'[d]) = q}
  <2>1. /\ WaitsAt("conn")' = {d \in Callers : pc'[d] \in {"acquiring", "saving"}}
        /\ WaitsAt("slot")' = {d \in Callers : pc'[d] = "queued"}
        /\ WaitsAt("row")' = {d \in Callers : pc'[d] = "locking"}
    BY DEF WaitsAt
  <2> QED
    BY <2>1 DEF Queues, Where
<1>3. ASSUME NEW q \in Queues
      PROVE  WaitsAt(q)' = IF Where(step) = q THEN WaitsAt(q) \cup {c} ELSE WaitsAt(q) \ {c}
  <2>1. WaitsAt(q) = {d \in Callers : Where(pc[d]) = q}
    BY Waits
  <2> QED
    BY <1>1, <1>2, <2>1
<1>4. \A q \in Queues : c \in InLine(queue[q]) <=> Where(pc[c]) = q
  BY Waits DEF InOrder
<1>5. "none" \notin Queues
  BY DEF Queues
<1>6. ASSUME NEW t \in [Queues -> Seq(Callers)], queue' = t,
             \A q \in Queues :
                 Once(t[q]) /\ InLine(t[q]) = IF Where(step) = q THEN InLine(queue[q]) \cup {c} ELSE InLine(queue[q]) \ {c}
      PROVE  InOrder'
  <2>1. \A q \in Queues : InLine(queue[q]) = WaitsAt(q)
    BY DEF InOrder
  <2>2. ASSUME NEW q \in Queues PROVE Once(queue'[q]) /\ InLine(queue'[q]) = WaitsAt(q)'
    <3>1. CASE Where(step) = q
      <4>1. Once(t[q]) /\ InLine(t[q]) = InLine(queue[q]) \cup {c}
        BY <1>6, <3>1
      <4>2. WaitsAt(q)' = InLine(queue[q]) \cup {c}
        BY <1>3, <2>1, <3>1
      <4> QED
        BY <1>6, <4>1, <4>2
    <3>2. CASE Where(step) # q
      <4>1. Once(t[q]) /\ InLine(t[q]) = InLine(queue[q]) \ {c}
        BY <1>6, <3>2
      <4>2. WaitsAt(q)' = InLine(queue[q]) \ {c}
        BY <1>3, <2>1, <3>2
      <4> QED
        BY <1>6, <4>1, <4>2
    <3> QED
      BY <3>1, <3>2
  <2> QED
    BY <1>6, <2>2 DEF InOrder
<1>7. ASSUME NEW q \in Queues, \A p \in Queues \ {q} : Where(pc[c]) # p /\ Where(step) # p,
             NEW s \in Seq(Callers), Once(s), queue' = [queue EXCEPT ![q] = s],
             InLine(s) = IF Where(step) = q THEN InLine(queue[q]) \cup {c} ELSE InLine(queue[q]) \ {c}
      PROVE  InOrder'
  <2> DEFINE t == [queue EXCEPT ![q] = s]
  <2>1. \A p \in Queues \ {q} : InLine(queue[p]) = InLine(queue[p]) \ {c}
    BY <1>4, <1>7
  <2>2. t \in [Queues -> Seq(Callers)] /\ t[q] = s /\ \A p \in Queues \ {q} : t[p] = queue[p]
    BY DEF InOrder
  <2>3. queue' = t
    BY <1>7
  <2> HIDE DEF t
  <2>4. ASSUME NEW p \in Queues
        PROVE  Once(t[p]) /\ InLine(t[p]) = IF Where(step) = p THEN InLine(queue[p]) \cup {c} ELSE InLine(queue[p]) \ {c}
    <3>1. CASE p = q
      BY <1>7, <2>2, <3>1
    <3>2. CASE p # q
      BY <1>7, <2>1, <2>2, <3>2 DEF InOrder
    <3> QED
      BY <3>1, <3>2
  <2> QED
    BY <1>6, <2>2, <2>3, <2>4
<1>8. CASE Where(pc[c]) = "none" /\ Where(step) \in Queues /\ Join(Where(step), c)
  <2> DEFINE n == Where(step)
             s == queue[n]
  <2>1. s \in Seq(Callers) /\ Once(s) /\ c \notin InLine(s)
    BY <1>4, <1>5, <1>8 DEF InOrder
  <2>2. queue' = [queue EXCEPT ![n] = Append(s, c)]
    BY <1>8 DEF Join
  <2>3. Append(s, c) \in Seq(Callers) /\ Once(Append(s, c)) /\ InLine(Append(s, c)) = InLine(s) \cup {c}
    BY <2>1, Joined
  <2>4. \A p \in Queues \ {n} : Where(pc[c]) # p /\ n # p
    BY <1>5, <1>8
  <2> QED
    BY <1>7, <1>8, <2>2, <2>3, <2>4
<1>9. CASE Where(step) = "none" /\ \E q \in Queues : First(q, c) /\ Served(q)
  <2>1. PICK q \in Queues : First(q, c) /\ Served(q)
    BY <1>9
  <2> DEFINE s == queue[q]
  <2>2. s \in Seq(Callers) /\ Once(s) /\ s # << >> /\ c = Head(s) /\ queue' = [queue EXCEPT ![q] = Tail(s)]
    BY <2>1 DEF First, Served, InOrder
  <2>3. c \in InLine(s)
    <3>1. Len(s) \in Nat \ {0} /\ Head(s) = s[1]
      BY <2>2
    <3> QED
      BY <2>2, <3>1 DEF InLine
  <2>4. Tail(s) \in Seq(Callers) /\ Once(Tail(s)) /\ InLine(Tail(s)) = InLine(s) \ {c}
    BY <2>2, ServedFirst
  <2>5. Where(pc[c]) = q
    BY <1>4, <2>3
  <2> QED
    BY <1>5, <1>7, <1>9, <2>2, <2>4, <2>5
<1>10. CASE Where(step) = "none" /\ Leave(c)
  <2>1. PICK q \in Queues : \E i \in DOMAIN queue[q] : queue[q][i] = c /\ queue' = [queue EXCEPT ![q] = RemoveAt(@, i)]
    BY <1>10 DEF Leave, InOrder
  <2> DEFINE s == queue[q]
  <2>2. s \in Seq(Callers) /\ Once(s)
    BY DEF InOrder
  <2>3. PICK i \in 1..Len(s) : s[i] = c /\ queue' = [queue EXCEPT ![q] = RemoveAt(s, i)]
    <3>1. DOMAIN s = 1..Len(s)
      BY <2>2
    <3> QED
      BY <2>1, <3>1
  <2>4. c \in InLine(s)
    BY <2>3 DEF InLine
  <2>5. RemoveAt(s, i) \in Seq(Callers) /\ Once(RemoveAt(s, i)) /\ InLine(RemoveAt(s, i)) = InLine(s) \ {c}
    BY <2>2, <2>3, Left
  <2>6. Where(pc[c]) = q
    BY <1>4, <2>4
  <2> QED
    BY <1>5, <1>7, <1>10, <2>3, <2>5, <2>6
<1>11. CASE Where(pc[c]) = "none" /\ Where(step) = "none" /\ UNCHANGED queue
  <2>1. \A q \in Queues : InLine(queue[q]) = InLine(queue[q]) \ {c}
    BY <1>4, <1>5, <1>11
  <2> QED
    BY <1>5, <1>6, <1>11, <2>1 DEF InOrder
<1> QED
  BY <1>8, <1>9, <1>10, <1>11

LEMMA QueuesInductive ==
  ASSUME Types, InOrder, [Next]_vars
  PROVE  InOrder'
<1> USE DEF Where, Queues, Types, Steps
<1>1. ASSUME NEW c \in Callers, NEW k \in Calls, Start(c, k) PROVE InOrder'
  BY <1>1, InLineStep DEF Start
<1>2. ASSUME NEW c \in Callers, AcquireConn(c) PROVE InOrder'
  BY <1>2, InLineStep DEF AcquireConn
<1>3. ASSUME NEW c \in Callers, Query(c) PROVE InOrder'
  BY <1>3, InLineStep DEF Query
<1>4. ASSUME NEW c \in Callers, TakeSlot(c) PROVE InOrder'
  BY <1>4, InLineStep DEF TakeSlot
<1>5. ASSUME NEW c \in Callers, Hash(c) PROVE InOrder'
  BY <1>5, InLineStep DEF Hash
<1>6. ASSUME NEW c \in Callers, LockRow(c) PROVE InOrder'
  BY <1>6, InLineStep DEF LockRow
<1>7. ASSUME NEW c \in Callers, Finish(c) PROVE InOrder'
  BY <1>7, InLineStep DEF Finish
<1>8. ASSUME NEW c \in Callers, Fail(c) PROVE InOrder'
  BY <1>8, InLineStep DEF Fail
<1>9. ASSUME NEW c \in Callers, GiveUp(c) PROVE InOrder'
  BY <1>9, InLineStep DEF GiveUp
<1>10. CASE UNCHANGED vars
  <2>1. \A q \in Queues : WaitsAt(q)' = WaitsAt(q)
    BY <1>10 DEF vars, WaitsAt
  <2> QED
    BY <1>10, <2>1 DEF vars, InOrder
<1> QED
  BY <1>1, <1>2, <1>3, <1>4, <1>5, <1>6, <1>7, <1>8, <1>9, <1>10 DEF Next

LEMMA InitInOrder == Init => InOrder
<1> SUFFICES ASSUME Init PROVE InOrder
  OBVIOUS
<1>1. \A q \in Queues : queue[q] = << >> /\ WaitsAt(q) = {}
  BY Waits DEF Init, Queues, Where
<1>2. queue \in [Queues -> Seq(Callers)]
  BY DEF Init, Queues
<1> QED
  BY <1>1, <1>2 DEF InOrder, Once, InLine

\* A caller stands in the queue of the resource it waits for, once, and in no
\* other: neither is a call forgotten by the queue it waits in nor is anything
\* given to one that has gone (auth/users.go:60-65, 76-81).
THEOREM TypeCorrect == Spec => []TypeOK
<1>1. Spec => []InOrder
  <2>1. Init => InOrder
    BY InitInOrder
  <2>2. IndInv /\ InOrder /\ [Next]_vars => InOrder'
    BY QueuesInductive DEF IndInv
  <2> QED
    BY <2>1, <2>2, Invariant, PTL DEF Spec
<1>2. IndInv /\ InOrder => TypeOK
  <2> SUFFICES ASSUME IndInv, InOrder PROVE TypeOK
    OBVIOUS
  <2>1. ASSUME NEW q \in Queues
        PROVE  /\ {queue[q][i] : i \in DOMAIN queue[q]} = WaitsAt(q)
               /\ Len(queue[q]) = Cardinality(WaitsAt(q))
    <3>1. queue[q] \in Seq(Callers) /\ Once(queue[q]) /\ InLine(queue[q]) = WaitsAt(q)
      BY DEF InOrder
    <3>2. Len(queue[q]) = Cardinality(InLine(queue[q]))
      BY <3>1, Line
    <3>3. InLine(queue[q]) = {queue[q][i] : i \in DOMAIN queue[q]}
      BY <3>1 DEF InLine
    <3> QED
      BY <3>1, <3>2, <3>3
  <2>2. DOMAIN queue = Queues /\ Queues = {"conn", "slot", "row"}
    BY DEF InOrder, Queues
  <2> QED
    BY <2>1, <2>2 DEF TypeOK, IndInv, Types
<1> QED
  BY <1>1, <1>2, Invariant, PTL

\* A call that is going on, and a call whose turn it is: its query or its hash
\* is under way, or it is the first in its queue and the resource is there.
Busy(c) == pc[c] # "idle"
CanGoOn(c) ==
    \/ pc[c] \in {"querying", "hashing", "writing"}
    \/ pc[c] \in {"acquiring", "saving"} /\ First("conn", c) /\ conns < PoolSize
    \/ pc[c] = "queued" /\ First("slot", c) /\ slots < Slots
    \/ pc[c] = "locking" /\ First("row", c) /\ lock = Nobody

\* "every caller still completes" (auth/users_test.go:108), its safety part:
\* calls never all wait for each other.
NeverStuck == (\E c \in Callers : Busy(c)) => \E c \in Callers : CanGoOn(c)

\* Somebody waits at q: the head of the queue is one of them.
LEMMA HeadWaits ==
  ASSUME InOrder, NEW q \in Queues, NEW c \in WaitsAt(q)
  PROVE  Head(queue[q]) \in WaitsAt(q) /\ First(q, Head(queue[q]))
<1>1. queue[q] \in Seq(Callers) /\ InLine(queue[q]) = WaitsAt(q)
  BY DEF InOrder
<1>2. PICK i \in 1..Len(queue[q]) : queue[q][i] = c
  BY <1>1 DEF InLine
<1>3. queue[q] # << >> /\ 1 \in 1..Len(queue[q]) /\ Head(queue[q]) = queue[q][1]
  BY <1>1, <1>2
<1> QED
  BY <1>1, <1>3 DEF First, InLine

\* Calls never all wait for each other, for any number of callers, slots and
\* connections: whoever has a slot waits for nothing, whoever waits for a
\* connection has nothing, and the row lock is only held to the last statement.
THEOREM Unstuck == Spec => []NeverStuck
<1>1. Spec => []InOrder
  <2>1. IndInv /\ InOrder /\ [Next]_vars => InOrder'
    BY QueuesInductive DEF IndInv
  <2> QED
    BY <2>1, InitInOrder, Invariant, PTL DEF Spec
<1>2. IndInv /\ InOrder => NeverStuck
  <2> SUFFICES ASSUME IndInv, InOrder, NEW b \in Callers, Busy(b),
                      \A c \in Callers : ~CanGoOn(c)
               PROVE  FALSE
    BY DEF NeverStuck
  <2>1. \A c \in Callers : pc[c] \notin {"querying", "hashing", "writing"}
    BY DEF CanGoOn
  <2>2. slots < Slots
    <3>1. SlotHolders = {}
      BY <2>1 DEF SlotHolders, HoldsSlot
    <3> QED
      BY <3>1, Sizes, FS_EmptySet DEF IndInv, SlotsCounted
  <2>3. lock = Nobody
    BY <2>1 DEF IndInv, Types, LockHeld
  <2>4. WaitsAt("slot") = {}
    <3>1. ASSUME NEW c \in WaitsAt("slot") PROVE FALSE
      <4> DEFINE h == Head(queue["slot"])
      <4>1. h \in WaitsAt("slot") /\ First("slot", h)
        BY HeadWaits DEF Queues
      <4> HIDE DEF h
      <4>2. h \in Callers /\ pc[h] = "queued"
        BY <4>1, Waiters
      <4> QED
        BY <2>2, <4>1, <4>2 DEF CanGoOn
    <3> QED
      BY <3>1
  <2>5. WaitsAt("row") = {}
    <3>1. ASSUME NEW c \in WaitsAt("row") PROVE FALSE
      <4> DEFINE h == Head(queue["row"])
      <4>1. h \in WaitsAt("row") /\ First("row", h)
        BY HeadWaits DEF Queues
      <4> HIDE DEF h
      <4>2. h \in Callers /\ pc[h] = "locking"
        BY <4>1, Waiters
      <4> QED
        BY <2>3, <4>1, <4>2 DEF CanGoOn
    <3> QED
      BY <3>1
  <2>6. \A c \in Callers : pc[c] \notin {"queued", "locking"}
    BY <2>4, <2>5, Waiters
  <2>7. conns < PoolSize
    <3>1. ConnHolders = {}
      BY <2>1, <2>6 DEF ConnHolders, HoldsConn
    <3> QED
      BY <3>1, Sizes, FS_EmptySet DEF IndInv, ConnsCounted
  <2>8. b \in WaitsAt("conn")
    BY <2>1, <2>6, Waiters DEF Busy, IndInv, Types, Steps
  <2> DEFINE h == Head(queue["conn"])
  <2>9. h \in WaitsAt("conn") /\ First("conn", h)
    BY <2>8, HeadWaits DEF Queues
  <2> HIDE DEF h
  <2>10. h \in Callers /\ pc[h] \in {"acquiring", "saving"}
    BY <2>9, Waiters
  <2> QED
    BY <2>7, <2>9, <2>10 DEF CanGoOn
<1> QED
  BY <1>1, <1>2, Invariant, PTL

=============================================================================
