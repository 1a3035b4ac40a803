-------------------------- MODULE WorktreesProofs --------------------------
(***************************************************************************)
(* Isolation of worktrees, for any number of them and of ports.  As long   *)
(* as no lock was taken from its holder the lock excludes, so what a       *)
(* script read of the registry is what it writes over; and a database      *)
(* belongs to whom the registry gives its port, or is a leftover of a      *)
(* teardown that could not tell that it was there.                         *)
(***************************************************************************)
EXTENDS Worktrees, TLAPS

Exclusive == \A w \in Holders : lock = w

Views == \A w \in Trees :
    /\ pc[w] = "append" => view[w] = registry /\ \A p \in Ports : <<p, w>> \notin registry
    /\ pc[w] = "move" => view[w] = {e \in registry : e[2] /= w}

\* Between the lookup of its port and the loss of it.
HasPort == {"release", "clone dev", "clone template", "ready", "drop dev", "drop template"}
\* Its databases are dropped, or it never had one.
Dropped == {"unlock", "unlast", "unsteal", "untake", "filter", "move", "freed"}

Registered == \A w \in Trees : pc[w] \in HasPort => <<port[w], w>> \in registry

Ownerless == {Nobody, Leftover}

Owned == \A p \in Ports, kind \in Kinds :
    clones[<<p, kind>>] \notin Ownerless => <<p, clones[<<p, kind>>]>> \in registry

Gone ==
    /\ \A w \in Trees, p \in Ports : pc[w] = "drop template" => clones[<<p, "dev">>] /= w
    /\ \A w \in Trees, p \in Ports, kind \in Kinds : pc[w] \in Dropped => clones[<<p, kind>>] /= w

Cloned == \A w \in Trees : pc[w] \in {"clone template", "ready"} => clones[<<port[w], "dev">>] \in {w, Leftover}

Distinct == \A e, f \in registry : e[1] = f[1] <=> e[2] = f[2]

Safe == Exclusive /\ Views /\ Registered /\ Owned /\ Gone /\ Cloned /\ Distinct

Inv == TypeOK /\ (~broken => Safe)

LEMMA PortRange == 0 \in 0..MaxPort /\ \A p \in Ports : p \in 0..MaxPort
BY WorktreeParameters DEF Ports

LEMMA Initial == Init => Inv
<1> SUFFICES ASSUME Init PROVE Inv
  OBVIOUS
<1>1. TypeOK
  <2>1. "idle" \in Places
    BY DEF Places
  <2> QED BY <2>1, PortRange DEF Init, TypeOK
<1>2. Safe
  BY <1>1, WorktreeParameters DEF Init, TypeOK, Safe, Exclusive, Views, HasPort, Dropped, Registered, Owned,
     Ownerless, Gone, Cloned, Distinct, Holders, Holding
<1> QED BY <1>1, <1>2 DEF Inv

LEMMA MoveType ==
  ASSUME TypeOK, NEW w \in Trees, NEW from, NEW to \in Places, Moves(w, from, to)
  PROVE  pc' \in [Trees -> Places]
BY DEF TypeOK, Moves

LEMMA EndType ==
  ASSUME TypeOK, NEW w \in Trees, Ends(w)
  PROVE  pc' \in [Trees -> Places] /\ port' \in [Trees -> 0..MaxPort] /\ view' \in [Trees -> SUBSET (Ports \X Trees)]
<1>1. "idle" \in Places
  BY DEF Places
<1> QED BY <1>1, PortRange DEF TypeOK, Ends

LEMMA LockType ==
  ASSUME TypeOK, NEW w \in Trees, RemoveLock(w)
  PROVE  lock' \in Trees \cup {Nobody} /\ old' \in BOOLEAN /\ broken' \in BOOLEAN
BY DEF TypeOK, RemoveLock

LEMMA TypeStep ==
  ASSUME TypeOK, [Next]_vars
  PROVE  TypeOK'
<1>0. {"read", "filter", "append", "take", "untake", "release", "clone dev", "clone template", "lock", "ready",
       "drop dev", "drop template", "unlock", "last", "unlast", "steal", "unsteal", "move", "freed"} \subseteq Places
  BY DEF Places, Locking, Holding
<1> USE <1>0, WorktreeParameters DEF TypeOK
<1>1. ASSUME NEW w \in Trees, Acquire(w) \/ TakeOver(w) \/ Exit(w) \/ Release(w)
      PROVE  TypeOK'
  <2>1. CASE Acquire(w)
    BY <2>1, MoveType DEF Acquire
  <2>2. CASE TakeOver(w)
    BY <2>2, MoveType, LockType DEF TakeOver
  <2>3. CASE Exit(w)
    BY <2>3, EndType, LockType DEF Exit
  <2>4. CASE Release(w)
    BY <2>4, MoveType, EndType, LockType DEF Release
  <2> QED BY <1>1, <2>1, <2>2, <2>3, <2>4
<1>2. ASSUME NEW w \in Trees, Setup(w) \/ Read(w) \/ Append(w) \/ Clone(w)
      PROVE  TypeOK'
  <2>1. CASE Setup(w)
    BY <2>1, MoveType, PortRange DEF Setup
  <2>2. CASE Read(w)
    <3>1. pc' \in [Trees -> Places]
      BY <2>2, MoveType DEF Read
    <3>2. port' \in [Trees -> 0..MaxPort]
      BY <2>2, PortRange DEF Read
    <3>3. view' \in [Trees -> SUBSET (Ports \X Trees)]
      BY <2>2 DEF Read
    <3> QED BY <2>2, <3>1, <3>2, <3>3 DEF Read
  <2>3. CASE Append(w)
    <3>1. pc' \in [Trees -> Places]
      BY <2>3, MoveType DEF Append
    <3>2. PICK p \in Free(w) : registry' = registry \cup {<<p, w>>} /\ port' = [port EXCEPT ![w] = p]
      BY <2>3 DEF Append
    <3>3. p \in Ports /\ p \in 0..MaxPort
      BY PortRange DEF Free
    <3>4. view' \in [Trees -> SUBSET (Ports \X Trees)]
      BY <2>3 DEF Append
    <3>5. registry' \subseteq Ports \X Trees
      <4>1. <<p, w>> \in Ports \X Trees
        BY <3>3
      <4> QED BY <3>2, <4>1
    <3>6. port' \in [Trees -> 0..MaxPort]
      BY <3>2, <3>3
    <3> QED BY <2>3, <3>1, <3>4, <3>5, <3>6 DEF Append
  <2>4. CASE Clone(w)
    <3>1. PICK kind \in Kinds :
            /\ IF kind = "dev" THEN Moves(w, "clone dev", "clone template") ELSE Moves(w, "clone template", "ready")
            /\ clones' \in {clones, [clones EXCEPT ![<<port[w], kind>>] = w]}
      BY <2>4 DEF Clone
    <3>2. pc' \in [Trees -> Places]
      BY <3>1, MoveType
    <3>3. clones' \in [Ports \X Kinds -> Trees \cup {Nobody, Leftover}]
      BY <3>1
    <3> QED BY <2>4, <3>2, <3>3 DEF Clone
  <2> QED BY <1>2, <2>1, <2>2, <2>3, <2>4
<1>3. ASSUME NEW w \in Trees, Teardown(w) \/ Drop(w) \/ Filter(w) \/ Move(w) \/ Dies(w)
      PROVE  TypeOK'
  <2>1. CASE Teardown(w)
    <3>1. pc' \in [Trees -> Places]
      BY <2>1 DEF Teardown
    <3> QED BY <2>1, <3>1, PortRange DEF Teardown
  <2>2. CASE Drop(w)
    <3>1. PICK kind \in Kinds :
            /\ IF kind = "dev" THEN Moves(w, "drop dev", "drop template") ELSE Moves(w, "drop template", "unlock")
            /\ \E none \in {Nobody, Leftover} : clones' = [clones EXCEPT ![<<port[w], kind>>] = none]
      BY <2>2 DEF Drop
    <3>2. pc' \in [Trees -> Places]
      BY <3>1, MoveType
    <3>3. clones' \in [Ports \X Kinds -> Trees \cup {Nobody, Leftover}]
      BY <3>1
    <3> QED BY <2>2, <3>2, <3>3 DEF Drop
  <2>3. CASE Filter(w)
    BY <2>3, MoveType DEF Filter
  <2>4. CASE Move(w)
    BY <2>4, MoveType DEF Move
  <2>5. CASE Dies(w)
    BY <2>5, EndType DEF Dies
  <2> QED BY <1>3, <2>1, <2>2, <2>3, <2>4, <2>5
<1>4. ASSUME NEW w \in Trees, LastAttempt(w) \/ FindStale(w)
      PROVE  TypeOK'
  <2>1. pc' \in [Trees -> Places]
    BY <1>4, MoveType DEF LastAttempt, FindStale
  <2> QED BY <1>4, <2>1 DEF LastAttempt, FindStale
<1>5. CASE Ages \/ UNCHANGED vars
  BY <1>5 DEF Ages, vars
<1> QED BY <1>1, <1>2, <1>3, <1>4, <1>5 DEF Next, Script

\* A lock removed and none broken: who removed it was the only holder, or
\* there was none.
LEMMA RemoveStep ==
  ASSUME TypeOK, Safe, NEW w \in Trees, RemoveLock(w), ~broken',
         pc' = [pc EXCEPT ![w] = pc'[w]], pc'[w] \notin Holding
  PROVE  Exclusive'
BY DEF TypeOK, Safe, Exclusive, RemoveLock, Holders

LEMMA LockStep ==
  ASSUME TypeOK, Safe, NEW w \in Trees, Acquire(w) \/ TakeOver(w) \/ Exit(w) \/ Release(w), ~broken'
  PROVE  Safe'
<1> USE DEF TypeOK, Safe, Moves, Ends, HasPort, Dropped
<1>1. pc' = [pc EXCEPT ![w] = pc'[w]]
  BY DEF Acquire, TakeOver, Exit, Release
<1>2. Exclusive'
  <2>1. CASE Acquire(w)
    BY <2>1, WorktreeParameters DEF Acquire, Exclusive, Holders
  <2>2. CASE TakeOver(w)
    BY <2>2, <1>1, RemoveStep DEF TakeOver, Holding
  <2>3. CASE Exit(w)
    BY <2>3, <1>1, RemoveStep DEF Exit, Holding
  <2>4. CASE Release(w)
    BY <2>4, <1>1, RemoveStep DEF Release, Holding
  <2> QED BY <2>1, <2>2, <2>3, <2>4
<1>3. Views'
  <2>1. CASE Acquire(w)
    BY <2>1 DEF Acquire, Views
  <2>2. CASE TakeOver(w)
    BY <2>2 DEF TakeOver, Views
  <2>3. CASE Exit(w)
    BY <2>3 DEF Exit, Views
  <2>4. CASE Release(w)
    BY <2>4 DEF Release, Views
  <2> QED BY <2>1, <2>2, <2>3, <2>4
<1>4. Registered'
  <2>1. CASE Acquire(w)
    BY <2>1 DEF Acquire, Registered
  <2>2. CASE TakeOver(w)
    BY <2>2 DEF TakeOver, Registered
  <2>3. CASE Exit(w)
    BY <2>3 DEF Exit, Registered
  <2>4. CASE Release(w)
    BY <2>4 DEF Release, Registered
  <2> QED BY <2>1, <2>2, <2>3, <2>4
<1>5. Owned' /\ Distinct'
  BY DEF Acquire, TakeOver, Exit, Release, Owned, Distinct
<1>6. Gone'
  <2>1. CASE Acquire(w)
    BY <2>1 DEF Acquire, Gone
  <2>2. CASE TakeOver(w)
    BY <2>2 DEF TakeOver, Gone
  <2>3. CASE Exit(w)
    BY <2>3 DEF Exit, Gone
  <2>4. CASE Release(w)
    BY <2>4 DEF Release, Gone
  <2> QED BY <2>1, <2>2, <2>3, <2>4
<1>7. Cloned'
  <2>1. CASE Acquire(w)
    BY <2>1 DEF Acquire, Cloned
  <2>2. CASE TakeOver(w)
    BY <2>2 DEF TakeOver, Cloned
  <2>3. CASE Exit(w)
    BY <2>3 DEF Exit, Cloned
  <2>4. CASE Release(w)
    BY <2>4 DEF Release, Cloned
  <2> QED BY <2>1, <2>2, <2>3, <2>4
<1> QED BY <1>2, <1>3, <1>4, <1>5, <1>6, <1>7

\* Steps that change neither the registry nor a database nor the lock.
LEMMA QuietStep ==
  ASSUME TypeOK, Safe, NEW w \in Trees,
         Setup(w) \/ Read(w) \/ Teardown(w) \/ Filter(w) \/ Dies(w) \/ LastAttempt(w) \/ FindStale(w)
  PROVE  Safe'
<1> USE DEF TypeOK, Safe, Moves, Ends, HasPort, Dropped
<1>1. UNCHANGED <<registry, lock, old, clones, broken>>
  BY DEF Setup, Read, Teardown, Filter, Dies, LastAttempt, FindStale
<1>2. Exclusive'
  BY <1>1 DEF Setup, Read, Teardown, Filter, Dies, LastAttempt, FindStale, Exclusive, Holders, Holding
<1>3. Views'
  <2>1. CASE Filter(w)
    BY <1>1, <2>1 DEF Filter, Views
  <2>2. CASE Read(w)
    <3>1. CASE \E p \in Ports : <<p, w>> \in registry
      BY <1>1, <2>2, <3>1 DEF Read, Views
    <3>2. CASE \A p \in Ports : <<p, w>> \notin registry
      <4>1. pc' = [pc EXCEPT ![w] = "append"] /\ view' = [view EXCEPT ![w] = registry]
        BY <2>2, <3>2 DEF Read
      <4> QED BY <1>1, <3>2, <4>1 DEF Views
    <3> QED BY <3>1, <3>2
  <2>3. CASE Setup(w)
    BY <1>1, <2>3 DEF Setup, Views
  <2>4. CASE Teardown(w)
    BY <1>1, <2>4 DEF Teardown, Views
  <2>5. CASE Dies(w)
    BY <1>1, <2>5 DEF Dies, Views
  <2>6. CASE LastAttempt(w)
    BY <1>1, <2>6 DEF LastAttempt, Views
  <2>7. CASE FindStale(w)
    BY <1>1, <2>7 DEF FindStale, Views
  <2> QED BY <2>1, <2>2, <2>3, <2>4, <2>5, <2>6, <2>7
<1>4. Registered'
  <2>1. CASE Setup(w)
    BY <2>1, <1>1 DEF Setup, Registered
  <2>2. CASE Read(w)
    BY <2>2, <1>1 DEF Read, Registered
  <2>3. CASE Teardown(w)
    BY <2>3, <1>1 DEF Teardown, Registered
  <2>4. CASE Filter(w)
    BY <2>4, <1>1 DEF Filter, Registered
  <2>5. CASE Dies(w)
    BY <2>5, <1>1 DEF Dies, Registered
  <2>6. CASE LastAttempt(w)
    BY <2>6, <1>1 DEF LastAttempt, Registered
  <2>7. CASE FindStale(w)
    BY <2>7, <1>1 DEF FindStale, Registered
  <2> QED BY <2>1, <2>2, <2>3, <2>4, <2>5, <2>6, <2>7
<1>5. Owned' /\ Distinct'
  BY <1>1 DEF Owned, Distinct
<1>6. Gone'
  <2>1. CASE Teardown(w)
    <3>1. ASSUME pc'[w] = "unlock", NEW p \in Ports, NEW kind \in Kinds, clones[<<p, kind>>] = w
          PROVE  FALSE
      <4>1. <<p, w>> \in registry
        BY <3>1, WorktreeParameters DEF Owned, Ownerless
      <4> QED BY <2>1, <3>1, <4>1 DEF Teardown
    <3> QED BY <1>1, <2>1, <3>1 DEF Teardown, Gone
  <2>2. CASE Setup(w) \/ Read(w) \/ Filter(w) \/ Dies(w)
    <3>1. CASE Setup(w) \/ Read(w)
      BY <1>1, <3>1 DEF Setup, Read, Gone
    <3>2. CASE Filter(w)
      <4>1. pc[w] = "filter" /\ pc' = [pc EXCEPT ![w] = "move"]
        BY <3>2 DEF Filter
      <4> QED BY <1>1, <4>1 DEF Gone
    <3>3. CASE Dies(w)
      <4>1. pc' = [pc EXCEPT ![w] = "idle"]
        BY <3>3 DEF Dies
      <4> QED BY <1>1, <4>1 DEF Gone
    <3> QED BY <2>2, <3>1, <3>2, <3>3
  <2>3. CASE LastAttempt(w)
    BY <1>1, <2>3 DEF LastAttempt, Gone
  <2>4. CASE FindStale(w)
    BY <1>1, <2>4 DEF FindStale, Gone
  <2> QED BY <2>1, <2>2, <2>3, <2>4
<1>7. Cloned'
  <2>1. CASE Setup(w)
    BY <2>1, <1>1 DEF Setup, Cloned
  <2>2. CASE Read(w)
    BY <2>2, <1>1 DEF Read, Cloned
  <2>3. CASE Teardown(w)
    BY <2>3, <1>1 DEF Teardown, Cloned
  <2>4. CASE Filter(w)
    BY <2>4, <1>1 DEF Filter, Cloned
  <2>5. CASE Dies(w)
    BY <2>5, <1>1 DEF Dies, Cloned
  <2>6. CASE LastAttempt(w) \/ FindStale(w)
    BY <2>6, <1>1 DEF LastAttempt, FindStale, Cloned
  <2> QED BY <2>1, <2>2, <2>3, <2>4, <2>5, <2>6
<1> QED BY <1>2, <1>3, <1>4, <1>5, <1>6, <1>7

LEMMA AppendStep ==
  ASSUME TypeOK, Safe, NEW w \in Trees, Append(w)
  PROVE  Safe'
<1> USE DEF TypeOK, Safe, Moves, HasPort, Dropped
<1>1. PICK p \in Free(w) : registry' = registry \cup {<<p, w>>} /\ port' = [port EXCEPT ![w] = p]
  BY DEF Append
<1>2. /\ pc[w] = "append" /\ pc' = [pc EXCEPT ![w] = "release"]
      /\ view' = [view EXCEPT ![w] = {}] /\ UNCHANGED <<lock, old, clones, broken>>
  BY DEF Append
<1>3. /\ \A o \in Trees : <<p, o>> \notin registry
      /\ \A q \in Ports : <<q, w>> \notin registry
  BY <1>2 DEF Free, Views
<1>4. Exclusive'
  BY <1>2 DEF Exclusive, Holders, Holding
<1>5. Views'
  <2>1. ASSUME NEW o \in Trees \ {w} PROVE pc[o] \notin {"append", "move"}
    BY <1>2 DEF Exclusive, Holders, Holding
  <2> QED BY <1>2, <2>1 DEF Views
<1>6. Registered'
  BY <1>1, <1>2 DEF Registered
<1>7. Owned'
  BY <1>1, <1>2 DEF Owned
<1>8. Gone' /\ Cloned'
  BY <1>1, <1>2 DEF Gone, Cloned
<1>9. Distinct'
  <2>1. ASSUME NEW e \in registry PROVE e[1] /= p /\ e[2] /= w
    <3>1. e = <<e[1], e[2]>> /\ e[1] \in Ports /\ e[2] \in Trees
      OBVIOUS
    <3> QED BY <1>3, <3>1
  <2> QED BY <1>1, <2>1 DEF Distinct
<1> QED BY <1>4, <1>5, <1>6, <1>7, <1>8, <1>9

LEMMA CloneStep ==
  ASSUME TypeOK, Safe, NEW w \in Trees, Clone(w)
  PROVE  Safe'
<1> USE DEF TypeOK, Safe, HasPort, Dropped
<1>1. PICK kind \in Kinds :
        /\ IF kind = "dev" THEN Moves(w, "clone dev", "clone template") ELSE Moves(w, "clone template", "ready")
        /\ \/ clones[<<port[w], kind>>] = Nobody /\ clones' = [clones EXCEPT ![<<port[w], kind>>] = w]
           \/ clones[<<port[w], kind>>] /= Nobody /\ UNCHANGED clones
           \/ kind = "template" /\ UNCHANGED clones
  BY DEF Clone
<1>2. UNCHANGED <<registry, lock, old, port, view, broken>>
  BY DEF Clone
<1>3. /\ pc[w] \in {"clone dev", "clone template"} /\ pc'[w] \in {"clone template", "ready"}
      /\ pc' = [pc EXCEPT ![w] = pc'[w]]
  BY <1>1 DEF Moves
<1>4. <<port[w], w>> \in registry /\ port[w] \in Ports
  BY <1>3 DEF Registered
<1>5. ASSUME NEW p \in Ports, NEW k \in Kinds
      PROVE  clones'[<<p, k>>] = clones[<<p, k>>] \/ (p = port[w] /\ k = kind /\ clones'[<<p, k>>] = w)
  BY <1>1
<1>6. Exclusive' /\ Views'
  BY <1>2, <1>3 DEF Exclusive, Holders, Holding, Views
<1>7. Registered' /\ Distinct'
  BY <1>2, <1>3 DEF Registered, Distinct
<1>8. Owned'
  BY <1>2, <1>4, <1>5 DEF Owned
<1>9. Gone'
  <2>1. ASSUME NEW o \in Trees, pc'[o] = "drop template" \/ pc'[o] \in Dropped
        PROVE  o /= w /\ pc'[o] = pc[o]
    BY <1>3, <2>1
  <2>2. ASSUME NEW o \in Trees \ {w}, NEW p \in Ports, NEW k \in Kinds, clones[<<p, k>>] /= o
        PROVE  clones'[<<p, k>>] /= o
    BY <1>5, <2>2
  <2>3. ASSUME NEW o \in Trees, pc'[o] = "drop template", NEW p \in Ports PROVE clones'[<<p, "dev">>] /= o
    <3>1. o /= w /\ clones[<<p, "dev">>] /= o /\ "dev" \in Kinds
      BY <2>1, <2>3 DEF Gone, Kinds
    <3> QED BY <2>2, <3>1
  <2>4. ASSUME NEW o \in Trees, pc'[o] \in Dropped, NEW p \in Ports, NEW k \in Kinds PROVE clones'[<<p, k>>] /= o
    <3>1. o /= w /\ clones[<<p, k>>] /= o
      BY <2>1, <2>4 DEF Gone
    <3> QED BY <2>2, <3>1
  <2> QED BY <2>3, <2>4 DEF Gone
\* A database of that name there already is: this worktree's own, or a leftover.
<1>10. Cloned'
  <2>1. ASSUME clones[<<port[w], "dev">>] /= Nobody PROVE clones[<<port[w], "dev">>] \in {w, Leftover}
    <3>1. CASE clones[<<port[w], "dev">>] = Leftover
      BY <3>1
    <3>2. CASE clones[<<port[w], "dev">>] /= Leftover
      <4>1. <<port[w], clones[<<port[w], "dev">>]>> \in registry
        BY <1>4, <2>1, <3>2 DEF Owned, Ownerless, Kinds
      <4> QED BY <1>4, <4>1 DEF Distinct
    <3> QED BY <3>1, <3>2
  <2>2. clones'[<<port[w], "dev">>] \in {w, Leftover}
    <3>1. CASE kind = "dev"
      BY <1>1, <1>4, <2>1, <3>1 DEF Kinds
    <3>2. CASE kind = "template"
      <4>1. pc[w] = "clone template"
        BY <1>1, <3>2 DEF Moves
      <4> QED BY <1>4, <1>5, <3>2, <4>1 DEF Cloned, Kinds
    <3> QED BY <3>1, <3>2 DEF Kinds
  <2>3. ASSUME NEW o \in Trees \ {w}, pc'[o] \in {"clone template", "ready"}
        PROVE  clones'[<<port[o], "dev">>] \in {o, Leftover}
    <3>1. pc[o] = pc'[o] /\ clones[<<port[o], "dev">>] \in {o, Leftover} /\ <<port[o], o>> \in registry
      BY <1>3, <2>3 DEF Cloned, Registered
    <3>2. port[o] \in Ports /\ port[o] /= port[w]
      BY <1>4, <3>1 DEF Distinct
    <3> QED BY <1>5, <3>1, <3>2 DEF Kinds
  <2> QED BY <1>2, <2>2, <2>3 DEF Cloned
<1> QED BY <1>6, <1>7, <1>8, <1>9, <1>10

LEMMA DropStep ==
  ASSUME TypeOK, Safe, NEW w \in Trees, Drop(w)
  PROVE  Safe'
<1> USE DEF TypeOK, Safe, HasPort, Dropped
<1>1. PICK kind \in Kinds :
        /\ IF kind = "dev" THEN Moves(w, "drop dev", "drop template") ELSE Moves(w, "drop template", "unlock")
        /\ \E none \in Ownerless : clones' = [clones EXCEPT ![<<port[w], kind>>] = none]
  BY DEF Drop, Ownerless
<1>2. UNCHANGED <<registry, lock, old, port, view, broken>>
  BY DEF Drop
<1>3. pc[w] \in {"drop dev", "drop template"} /\ pc' = [pc EXCEPT ![w] = pc'[w]]
  BY <1>1 DEF Moves
<1>4. pc'[w] \in {"drop template", "unlock"}
  BY <1>1 DEF Moves
<1>5. <<port[w], w>> \in registry /\ port[w] \in Ports
  BY <1>3 DEF Registered
<1>6. ASSUME NEW p \in Ports, NEW k \in Kinds
      PROVE  IF p = port[w] /\ k = kind THEN clones'[<<p, k>>] \in Ownerless ELSE clones'[<<p, k>>] = clones[<<p, k>>]
  BY <1>1
<1>7. Exclusive' /\ Views'
  BY <1>2, <1>3, <1>4 DEF Exclusive, Holders, Holding, Views
<1>8. Registered' /\ Distinct'
  BY <1>2, <1>3, <1>4 DEF Registered, Distinct
<1>9. Owned'
  BY <1>2, <1>6 DEF Owned
\* The databases this worktree has are those of its port.
<1>10. Gone'
  <2>1. ASSUME NEW p \in Ports, NEW k \in Kinds, clones[<<p, k>>] = w
        PROVE  p = port[w]
    <3>1. <<p, w>> \in registry
      BY <2>1, WorktreeParameters DEF Owned, Ownerless
    <3> QED BY <1>5, <3>1 DEF Distinct
  <2>2. ASSUME NEW p \in Ports PROVE clones'[<<p, kind>>] /= w
    BY <1>6, <2>1, <2>2, WorktreeParameters DEF Ownerless
  <2>3. ASSUME pc'[w] = "drop template", NEW p \in Ports PROVE clones'[<<p, "dev">>] /= w
    <3>1. kind = "dev"
      BY <1>1, <2>3 DEF Moves
    <3> QED BY <2>2, <3>1
  <2>4. ASSUME pc'[w] = "unlock", NEW p \in Ports, NEW k \in Kinds PROVE clones'[<<p, k>>] /= w
    <3>1. kind = "template" /\ pc[w] = "drop template"
      BY <1>1, <2>4 DEF Moves, Kinds
    <3>2. clones'[<<p, "dev">>] /= w
      BY <1>6, <3>1 DEF Gone, Kinds
    <3> QED BY <2>2, <3>1, <3>2 DEF Kinds
  <2>5. ASSUME NEW o \in Trees \ {w}
        PROVE  /\ pc'[o] = pc[o]
               /\ \A p \in Ports, k \in Kinds : clones[<<p, k>>] /= o => clones'[<<p, k>>] /= o
    <3>1. pc'[o] = pc[o]
      BY <1>3
    <3>2. o \notin Ownerless
      BY WorktreeParameters DEF Ownerless
    <3> QED BY <1>6, <3>1, <3>2
  <2>6. ASSUME NEW o \in Trees, pc'[o] = "drop template", NEW p \in Ports PROVE clones'[<<p, "dev">>] /= o
    <3>1. CASE o = w
      BY <2>3, <2>6, <3>1
    <3>2. CASE o /= w
      <4>1. clones[<<p, "dev">>] /= o /\ "dev" \in Kinds
        BY <2>5, <2>6, <3>2 DEF Gone, Kinds
      <4> QED BY <2>5, <3>2, <4>1
    <3> QED BY <3>1, <3>2
  <2>7. ASSUME NEW o \in Trees, pc'[o] \in Dropped, NEW p \in Ports, NEW k \in Kinds PROVE clones'[<<p, k>>] /= o
    <3>1. CASE o = w
      BY <1>4, <2>4, <2>7, <3>1
    <3>2. CASE o /= w
      BY <2>5, <2>7, <3>2 DEF Gone
    <3> QED BY <3>1, <3>2
  <2> QED BY <2>6, <2>7 DEF Gone
<1>11. Cloned'
  <2>1. ASSUME NEW o \in Trees, pc'[o] \in {"clone template", "ready"}
        PROVE  clones'[<<port[o], "dev">>] \in {o, Leftover}
    <3>1. o /= w /\ pc[o] = pc'[o] /\ clones[<<port[o], "dev">>] \in {o, Leftover} /\ <<port[o], o>> \in registry
      BY <1>3, <1>4, <2>1 DEF Cloned, Registered
    <3>2. port[o] \in Ports /\ port[o] /= port[w]
      BY <1>5, <3>1 DEF Distinct
    <3> QED BY <1>6, <3>1, <3>2 DEF Kinds
  <2> QED BY <1>2, <2>1 DEF Cloned
<1> QED BY <1>7, <1>8, <1>9, <1>10, <1>11

LEMMA MoveStep ==
  ASSUME TypeOK, Safe, NEW w \in Trees, Move(w)
  PROVE  Safe'
<1> USE DEF TypeOK, Safe, Moves, HasPort, Dropped
<1>1. /\ pc[w] = "move" /\ pc' = [pc EXCEPT ![w] = "freed"]
      /\ view' = [view EXCEPT ![w] = {}] /\ UNCHANGED <<lock, old, port, clones, broken>>
  BY DEF Move
<1>2. registry' = {e \in registry : e[2] /= w}
  BY DEF Move, Views
<1>3. Exclusive' /\ Gone' /\ Cloned'
  <2>1. Exclusive'
    BY <1>1 DEF Exclusive, Holders, Holding
  <2>2. Gone'
    BY <1>1 DEF Gone
  <2>3. Cloned'
    BY <1>1 DEF Cloned
  <2> QED BY <2>1, <2>2, <2>3
<1>4. Views'
  <2>1. ASSUME NEW o \in Trees \ {w} PROVE pc[o] \notin {"append", "move"}
    BY <1>1 DEF Exclusive, Holders, Holding
  <2> QED BY <1>1, <2>1 DEF Views
<1>5. Registered'
  <2>1. ASSUME NEW o \in Trees, pc'[o] \in HasPort PROVE <<port[o], o>> \in registry /\ o /= w
    BY <1>1, <2>1 DEF Registered
  <2> QED BY <1>1, <1>2, <2>1 DEF Registered
<1>6. Owned'
  <2>1. ASSUME NEW p \in Ports, NEW kind \in Kinds, clones[<<p, kind>>] \notin Ownerless
        PROVE  <<p, clones[<<p, kind>>]>> \in registry /\ clones[<<p, kind>>] /= w
    BY <1>1, <2>1 DEF Owned, Gone
  <2> QED BY <1>1, <1>2, <2>1 DEF Owned
<1>7. Distinct'
  BY <1>2 DEF Distinct
<1> QED BY <1>3, <1>4, <1>5, <1>6, <1>7

LEMMA KeptStep ==
  ASSUME Safe, UNCHANGED <<registry, lock, pc, port, view, clones>>
  PROVE  Safe'
<1>1. Exclusive' /\ Views' /\ Registered'
  BY DEF Safe, Exclusive, Holders, Views, Registered
<1>2. Owned' /\ Gone' /\ Cloned' /\ Distinct'
  BY DEF Safe, Owned, Gone, Cloned, Distinct
<1> QED BY <1>1, <1>2 DEF Safe

THEOREM Invariant == Spec => []Inv
<1>1. Init => Inv
  BY Initial
<1>2. Inv /\ [Next]_vars => Inv'
  <2> SUFFICES ASSUME Inv, [Next]_vars, ~broken' PROVE Safe'
    BY TypeStep DEF Inv
  <2>1. CASE UNCHANGED vars
    BY <2>1, KeptStep DEF vars, Inv
  <2>2. CASE Ages
    BY <2>2, KeptStep DEF Ages, Inv
  <2>3. ASSUME NEW w \in Trees, ~broken, Script(w) PROVE Safe'
    BY <2>3, LockStep, QuietStep, AppendStep, CloneStep, DropStep, MoveStep DEF Script, Inv
  <2> QED BY <2>1, <2>2, <2>3 DEF Next
<1> QED BY <1>1, <1>2, PTL DEF Spec

\* bin/port-allocate: every variable keeps its type.
THEOREM TypeCorrect == Spec => []TypeOK
<1>1. Inv => TypeOK
  BY DEF Inv
<1> QED BY <1>1, Invariant, PTL

\* bin/port-allocate:64-71: ports are distinct until a lock is taken from
\* its holder.
THEOREM DistinctPorts == Spec => []PortsDistinct
<1>1. Inv => PortsDistinct
  BY DEF Inv, Safe, Distinct, PortsDistinct
<1> QED BY <1>1, Invariant, PTL

\* bin/worktree-setup:61-91: a worktree that is ready has databases that it
\* cloned, under the port that is its own, or leftovers of a teardown that went
\* on without an answer to its query (bin/worktree-teardown:51).
THEOREM Isolated == Spec => []ReadyIsolated
<1>1. Inv => ReadyIsolated
  <2> SUFFICES ASSUME Inv, ~broken, NEW w \in Trees, pc[w] = "ready"
               PROVE  /\ <<port[w], w>> \in registry
                      /\ clones[<<port[w], "dev">>] \in {w, Leftover}
                      /\ clones[<<port[w], "template">>] \in {w, Nobody, Leftover}
    BY DEF ReadyIsolated
  <2>1. <<port[w], w>> \in registry /\ port[w] \in Ports
    BY DEF Inv, Safe, Registered, HasPort, TypeOK
  <2>2. clones[<<port[w], "dev">>] \in {w, Leftover}
    BY DEF Inv, Safe, Cloned
  <2>3. ASSUME clones[<<port[w], "template">>] \notin Ownerless PROVE clones[<<port[w], "template">>] = w
    <3>1. <<port[w], clones[<<port[w], "template">>]>> \in registry
      BY <2>1, <2>3 DEF Inv, Safe, Owned, Kinds
    <3> QED BY <2>1, <3>1 DEF Inv, Safe, Distinct
  <2> QED BY <2>1, <2>2, <2>3 DEF Ownerless
<1> QED BY <1>1, Invariant, PTL
=============================================================================
