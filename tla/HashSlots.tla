----------------------------- MODULE HashSlots -----------------------------
(***************************************************************************)
(* The capacity password work competes for: hashSlots (auth/users.go), the *)
(* connections of db.Conn, and the users row lock of a reset.              *)
(*                                                                         *)
(* Authenticate returns its connection before it waits for a slot and      *)
(* takes one again after; Create asks for one only after its hash; a reset *)
(* runs in db.InTx and holds its connection while it waits for the slot    *)
(* and, with the slot given back, for the row lock.  Every wait is FIFO (a *)
(* channel's senders, pgxpool, Postgres) and ends early with the caller's  *)
(* context.                                                                *)
(***************************************************************************)
EXTENDS Naturals, FiniteSets, SequencesExt

CONSTANTS
    Callers,    \* goroutines, each making one call after another
    Slots,      \* cap(hashSlots), 2*GOMAXPROCS
    PoolSize,   \* the pool's MaxConns
    Nobody      \* a row lock that is free

ASSUME Sizes ==
    /\ Slots \in Nat \ {0}
    /\ PoolSize \in Nat \ {0}

ASSUME FiniteCallers == IsFiniteSet(Callers) /\ Nobody \notin Callers

VARIABLES
    slots,      \* len(hashSlots)
    conns,      \* connections acquired from the pool
    lock,       \* holder of the users row every reset here updates
    queue,      \* who waits for each resource, first come first
    call,       \* what each caller asked for
    pc          \* where its call stands

vars == <<slots, conns, lock, queue, call, pc>>

Calls == {"authenticate", "create", "reset"}

Steps == {"idle", "acquiring", "querying", "queued", "hashing", "locking",
          "saving", "writing"}

Init ==
    /\ slots = 0
    /\ conns = 0
    /\ lock = Nobody
    /\ queue = [q \in {"conn", "slot", "row"} |-> << >>]
    /\ call = [c \in Callers |-> "authenticate"]
    /\ pc = [c \in Callers |-> "idle"]

-----------------------------------------------------------------------------

Goto(c, step) == pc' = [pc EXCEPT ![c] = step]

Join(q, c) == queue' = [queue EXCEPT ![q] = Append(@, c)]

\* c is the next to be served at q.
First(q, c) == queue[q] # << >> /\ c = Head(queue[q])

Served(q) == queue' = [queue EXCEPT ![q] = Tail(@)]

\* c gives up its place.
Leave(c) ==
    \E q \in DOMAIN queue : \E i \in DOMAIN queue[q] :
        queue[q][i] = c /\ queue' = [queue EXCEPT ![q] = RemoveAt(@, i)]

\* Authenticate and InTx want a connection first, Create a slot.
Start(c, k) ==
    /\ pc[c] = "idle"
    /\ call' = [call EXCEPT ![c] = k]
    /\ IF k = "create"
       THEN Goto(c, "queued") /\ Join("slot", c)
       ELSE Goto(c, "acquiring") /\ Join("conn", c)
    /\ UNCHANGED <<slots, conns, lock>>

AcquireConn(c) ==
    /\ pc[c] \in {"acquiring", "saving"}
    /\ First("conn", c)
    /\ conns < PoolSize
    /\ conns' = conns + 1
    /\ Served("conn")
    /\ Goto(c, IF pc[c] = "acquiring" THEN "querying" ELSE "writing")
    /\ UNCHANGED <<slots, lock, call>>

\* ByEmail gives its connection back; a reset that found its token keeps it.
Query(c) ==
    /\ pc[c] = "querying"
    /\ conns' = IF call[c] = "reset" THEN conns ELSE conns - 1
    /\ Goto(c, "queued")
    /\ Join("slot", c)
    /\ UNCHANGED <<slots, lock, call>>

\* The send on hashSlots is chosen.
TakeSlot(c) ==
    /\ pc[c] = "queued"
    /\ First("slot", c)
    /\ slots < Slots
    /\ slots' = slots + 1
    /\ Served("slot")
    /\ Goto(c, "hashing")
    /\ UNCHANGED <<conns, lock, call>>

\* The deferred receive, once the hash or the compare is done.
KeptByCreate(c) == IF call[c] = "create" THEN slots ELSE slots - 1  \* (fault)
Freed(c)        == slots - 1

Hash(c) ==
    /\ pc[c] = "hashing"
    /\ slots' = Freed(c)
    /\ IF call[c] = "reset"
       THEN Goto(c, "locking") /\ Join("row", c)
       ELSE Goto(c, "saving") /\ Join("conn", c)
    /\ UNCHANGED <<conns, lock, call>>

\* UPDATE users in a reset gets the row's lock.
LockRow(c) ==
    /\ pc[c] = "locking"
    /\ First("row", c)
    /\ lock = Nobody
    /\ lock' = c
    /\ Served("row")
    /\ Goto(c, "writing")
    /\ UNCHANGED <<slots, conns, call>>

StillLocked(c) == lock  \* (fault)
Unlocked(c)    == IF lock = c THEN Nobody ELSE lock

\* The last statement, or COMMIT: succeeded or not, the connection goes back.
Finish(c) ==
    /\ pc[c] = "writing"
    /\ conns' = conns - 1
    /\ lock' = Unlocked(c)
    /\ Goto(c, "idle")
    /\ UNCHANGED <<slots, queue, call>>

\* A query or a hash fails while the call waits for nothing.
Fail(c) ==
    /\ \/ /\ pc[c] = "querying"
          /\ conns' = conns - 1
          /\ UNCHANGED slots
       \/ /\ pc[c] = "hashing"
          /\ slots' = Freed(c)
          /\ conns' = IF call[c] = "reset" THEN conns - 1 ELSE conns
    /\ Goto(c, "idle")
    /\ UNCHANGED <<lock, queue, call>>

\* The context ends while the call waits: it leaves the queue, and a reset's
\* InTx rolls back, which returns the connection it holds.
ReleaseAnyway(c) == IF pc[c] = "queued" /\ slots > 0 THEN slots - 1 ELSE slots  \* (fault)
NeverTaken(c)    == slots

GiveUp(c) ==
    /\ pc[c] \in {"acquiring", "queued", "locking", "saving"}
    /\ slots' = NeverTaken(c)
    /\ conns' = IF call[c] = "reset" /\ pc[c] \in {"queued", "locking"}
                THEN conns - 1
                ELSE conns
    /\ Leave(c)
    /\ Goto(c, "idle")
    /\ UNCHANGED <<lock, call>>

Next ==
    \/ \E c \in Callers, k \in Calls : Start(c, k)
    \/ \E c \in Callers : AcquireConn(c)
    \/ \E c \in Callers : Query(c)
    \/ \E c \in Callers : TakeSlot(c)
    \/ \E c \in Callers : Hash(c)
    \/ \E c \in Callers : LockRow(c)
    \/ \E c \in Callers : Finish(c)
    \/ \E c \in Callers : Fail(c)
    \/ \E c \in Callers : GiveUp(c)

\* Queries are answered, hashes end, and a resource that is free goes to the
\* first in its queue.  No call has to start, to fail or to be given up.
Fairness ==
    \A c \in Callers :
        /\ WF_vars(AcquireConn(c))
        /\ WF_vars(Query(c))
        /\ WF_vars(TakeSlot(c))
        /\ WF_vars(Hash(c))
        /\ WF_vars(LockRow(c))
        /\ WF_vars(Finish(c))

Spec == Init /\ [][Next]_vars /\ Fairness

-----------------------------------------------------------------------------

HoldsSlot(c) == pc[c] = "hashing"

HoldsConn(c) ==
    \/ pc[c] \in {"querying", "writing"}
    \/ call[c] = "reset" /\ pc[c] \in {"queued", "hashing", "locking"}

\* The resource a call waits for, if any.
WaitsAt(q) ==
    {c \in Callers : pc[c] \in CASE q = "conn" -> {"acquiring", "saving"}
                                 [] q = "slot" -> {"queued"}
                                 [] q = "row"  -> {"locking"}}

\* The value each variable may take; a caller stands in the queue of the
\* resource it waits for, once, and in no other.
TypeOK ==
    /\ slots \in 0 .. Slots
    /\ conns \in 0 .. PoolSize
    /\ lock \in Callers \cup {Nobody}
    /\ call \in [Callers -> Calls]
    /\ pc \in [Callers -> Steps]
    /\ DOMAIN queue = {"conn", "slot", "row"}
    /\ \A q \in DOMAIN queue :
          /\ {queue[q][i] : i \in DOMAIN queue[q]} = WaitsAt(q)
          /\ Len(queue[q]) = Cardinality(WaitsAt(q))

\* Every slot and connection counted as taken is held by a call that is using
\* it: errors and contexts that end, at whichever point of a call, neither
\* leak one nor give back one they never had (auth/users.go:60-65, 76-81).
NothingLeaks ==
    /\ slots = Cardinality({c \in Callers : HoldsSlot(c)})
    /\ conns = Cardinality({c \in Callers : HoldsConn(c)})
    /\ lock # Nobody => pc[lock] = "writing" /\ call[lock] = "reset"

\* "every caller still completes" (auth/users_test.go:108): a call that
\* started ends, however many wait for the same slots, connections and row.
EveryCallCompletes ==
    \A c \in Callers : pc[c] # "idle" ~> pc[c] = "idle"

=============================================================================
