----------------------------- MODULE Worktrees -----------------------------
(***************************************************************************)
(* Isolation of git worktrees: bin/worktree-setup takes a port from a      *)
(* shared registry (bin/port-allocate, under a lock directory) and clones  *)
(* the development database and the test template under names made of that *)
(* port; bin/worktree-teardown drops the clones and gives the port back.   *)
(* Scripts of different worktrees overlap, fail, and are killed.           *)
(***************************************************************************)
EXTENDS Integers

CONSTANTS
    Trees,      \* worktrees
    Nobody,
    Leftover,   \* nobody any more: a teardown went on and left the database
    MaxPort     \* bound: ports, numbered from POOL_START in POOL_STEPs

ASSUME WorktreeParameters == Nobody \notin Trees /\ Leftover \notin Trees \cup {Nobody} /\ MaxPort \in Nat

VARIABLES
    registry,   \* port-allocations.tsv: pairs of a port and a worktree
    lock,       \* the lock directory, by who made it
    old,        \* whether it is older than STALE_LOCK_SECS
    pc,         \* where each worktree's script is
    port,       \* the port it goes by; when ready, that of worktree.env
    view,       \* the registry as the script read it
    clones,     \* the databases cloned, by who cloned them
    broken      \* history: a script removed the lock of another still in it

vars == <<registry, lock, old, pc, port, view, clones, broken>>

Ports == 1..MaxPort
Kinds == {"dev", "template"}

Init ==
    /\ registry = {} /\ lock = Nobody /\ old = FALSE
    /\ pc = [w \in Trees |-> "idle"] /\ port = [w \in Trees |-> 0] /\ view = [w \in Trees |-> {}]
    /\ clones = [db \in Ports \X Kinds |-> Nobody]
    /\ broken = FALSE

\* In bin/port-allocate or bin/port-deallocate, and of those, with the lock.
Holding == {"read", "append", "filter", "move", "release", "freed"}
Locking == Holding \cup {"lock", "unlock", "last", "unlast", "steal", "unsteal", "take", "untake"}
Places  == Locking \cup {"idle", "ready", "clone dev", "clone template", "drop dev", "drop template"}

Moves(w, from, to) == pc[w] = from /\ pc' = [pc EXCEPT ![w] = to]
\* A script is over, and its variables with it.
Ends(w) ==
    /\ pc' = [pc EXCEPT ![w] = "idle"]
    /\ port' = [port EXCEPT ![w] = 0] /\ view' = [view EXCEPT ![w] = {}]

Holders == {w \in Trees : pc[w] \in Holding}

\* rmdir, whoever's it is.
RemoveLock(w) ==
    /\ lock' = Nobody /\ old' = FALSE
    /\ broken' = (broken \/ \E o \in Holders \ {w} : lock = o)

-----------------------------------------------------------------------------
(* The lock.                                                               *)

AcquireAnyway(w) ==  \* (fault)
    /\ Moves(w, "lock", "read") \/ Moves(w, "unlock", "filter")
    /\ lock' = w /\ old' = FALSE
    /\ UNCHANGED <<registry, port, view, clones, broken>>

Acquire(w) ==
    /\ lock = Nobody
    /\ Moves(w, "lock", "read") \/ Moves(w, "unlock", "filter")
                                \/ Moves(w, "take", "read") \/ Moves(w, "untake", "filter")
    /\ lock' = w /\ old' = FALSE
    /\ UNCHANGED <<registry, port, view, clones, broken>>

\* The last attempt fails; then the age of the lock is looked up, and one that
\* is gone by now counts as old; then an old one is removed, whoever has made
\* another meanwhile; and then it is made anew.
LastAttempt(w) ==
    /\ lock /= Nobody
    /\ Moves(w, "lock", "last") \/ Moves(w, "unlock", "unlast")
    /\ UNCHANGED <<registry, lock, old, port, view, clones, broken>>

FindStale(w) ==
    /\ old \/ lock = Nobody
    /\ Moves(w, "last", "steal") \/ Moves(w, "unlast", "unsteal")
    /\ UNCHANGED <<registry, lock, old, port, view, clones, broken>>

TakeOver(w) ==
    /\ Moves(w, "steal", "take") \/ Moves(w, "unsteal", "untake")
    /\ RemoveLock(w)
    /\ UNCHANGED <<registry, port, view, clones>>

\* The EXIT trap is set before the lock is tried for: a script that gives up
\* on it, or fails or is interrupted at any step, removes it as well.
Exit(w) ==
    /\ pc[w] \in Locking
    /\ Ends(w)
    /\ RemoveLock(w)
    /\ UNCHANGED <<registry, clones>>

Release(w) ==
    /\ \/ Moves(w, "release", "clone dev") /\ UNCHANGED <<port, view>>
       \/ pc[w] = "freed" /\ Ends(w)
    /\ RemoveLock(w)
    /\ UNCHANGED <<registry, clones>>

Ages ==
    /\ lock /= Nobody /\ ~old
    /\ old' = TRUE
    /\ UNCHANGED <<registry, lock, pc, port, view, clones, broken>>

-----------------------------------------------------------------------------
(* bin/worktree-setup.                                                     *)

Setup(w) ==
    /\ Moves(w, "idle", "lock") \/ Moves(w, "ready", "lock")
    /\ port' = [port EXCEPT ![w] = 0]
    /\ UNCHANGED <<registry, lock, old, view, clones, broken>>

\* The port of this worktree if it has one, or the ports that are used.
Read(w) ==
    /\ IF \E p \in Ports : <<p, w>> \in registry
       THEN /\ Moves(w, "read", "release")
            /\ \E p \in Ports : <<p, w>> \in registry /\ port' = [port EXCEPT ![w] = p]
            /\ UNCHANGED view
       ELSE /\ Moves(w, "read", "append")
            /\ view' = [view EXCEPT ![w] = registry]
            /\ UNCHANGED port
    /\ UNCHANGED <<registry, lock, old, clones, broken>>

StepEarly(w) == {p \in 0..MaxPort : \A o \in Trees : <<p, o>> \notin view[w]}  \* (fault)

Free(w) == {p \in Ports : \A o \in Trees : <<p, o>> \notin view[w]}

\* The lowest of the others.
Append(w) ==
    /\ Moves(w, "append", "release")
    /\ \E p \in Free(w) :
         /\ \A q \in Free(w) : p <= q
         /\ registry' = registry \cup {<<p, w>>}
         /\ port' = [port EXCEPT ![w] = p]
    /\ view' = [view EXCEPT ![w] = {}]
    /\ UNCHANGED <<lock, old, clones, broken>>

\* createdb -T, unless there is such a database; a template that does not
\* exist is not cloned, and worktree.env is written.
Clone(w) ==
    /\ \E kind \in Kinds :
         /\ IF kind = "dev" THEN Moves(w, "clone dev", "clone template") ELSE Moves(w, "clone template", "ready")
         /\ \/ /\ clones[<<port[w], kind>>] = Nobody
               /\ clones' = [clones EXCEPT ![<<port[w], kind>>] = w]
            \/ clones[<<port[w], kind>>] /= Nobody /\ UNCHANGED clones
            \/ kind = "template" /\ UNCHANGED clones
    /\ UNCHANGED <<registry, lock, old, port, view, broken>>

-----------------------------------------------------------------------------
(* bin/worktree-teardown.                                                  *)

\* The port is looked up without the lock.
FreeFirst(w) ==  \* (fault)
    /\ Moves(w, "idle", "unlock") \/ Moves(w, "ready", "unlock")
    /\ UNCHANGED <<registry, lock, old, port, view, clones, broken>>

Teardown(w) ==
    /\ pc[w] \in {"idle", "ready"}
    /\ \/ \E p \in Ports : /\ <<p, w>> \in registry
                           /\ port' = [port EXCEPT ![w] = p]
                           /\ pc' = [pc EXCEPT ![w] = "drop dev"]
       \/ /\ \A p \in Ports : <<p, w>> \notin registry
          /\ pc' = [pc EXCEPT ![w] = "unlock"] /\ UNCHANGED port
    /\ UNCHANGED <<registry, lock, old, view, clones, broken>>

\* DROP DATABASE ... WITH (FORCE), whoever's it is.  Of a query for it that
\* fails the output is empty, as if there were none: it stays, and the script
\* goes on.
Drop(w) ==
    /\ \E kind \in Kinds :
         LET db == <<port[w], kind>>
         IN  /\ IF kind = "dev" THEN Moves(w, "drop dev", "drop template") ELSE Moves(w, "drop template", "unlock")
             /\ \/ clones' = [clones EXCEPT ![db] = Nobody]
                \/ clones[db] /= Nobody /\ clones' = [clones EXCEPT ![db] = Leftover]
    /\ UNCHANGED <<registry, lock, old, port, view, broken>>

\* The registry without this worktree, written aside and moved over it (in one
\* step: with both on one file system).
Filter(w) ==
    /\ Moves(w, "filter", "move")
    /\ view' = [view EXCEPT ![w] = {e \in registry : e[2] /= w}]
    /\ UNCHANGED <<registry, lock, old, port, clones, broken>>

Move(w) ==
    /\ Moves(w, "move", "freed")
    /\ registry' = view[w]
    /\ view' = [view EXCEPT ![w] = {}]
    /\ UNCHANGED <<lock, old, port, clones, broken>>

-----------------------------------------------------------------------------

\* A command on the databases fails that is not a test, or the script is killed
\* outright: then its lock is left behind.
Dies(w) ==
    /\ pc[w] \notin {"idle", "ready"}
    /\ Ends(w)
    /\ UNCHANGED <<registry, lock, old, clones, broken>>

Script(w) ==
    \/ Acquire(w) \/ LastAttempt(w) \/ FindStale(w) \/ TakeOver(w) \/ Exit(w) \/ Release(w)
    \/ Setup(w) \/ Read(w) \/ Append(w) \/ Clone(w)
    \/ Teardown(w) \/ Drop(w) \/ Filter(w) \/ Move(w) \/ Dies(w)

\* Followed as far as the first lock that is taken from its holder.
Next ==
    \/ ~broken /\ (Ages \/ \E w \in Trees : Script(w))
    \/ broken /\ UNCHANGED vars

Spec == Init /\ [][Next]_vars

-----------------------------------------------------------------------------

TypeOK ==
    /\ registry \subseteq Ports \X Trees
    /\ lock \in Trees \cup {Nobody}
    /\ old \in BOOLEAN /\ broken \in BOOLEAN
    /\ pc \in [Trees -> Places]
    /\ port \in [Trees -> 0..MaxPort]
    /\ view \in [Trees -> SUBSET (Ports \X Trees)]
    /\ clones \in [Ports \X Kinds -> Trees \cup {Nobody, Leftover}]

\* No two worktrees have a port in common and none has two, whatever scripts
\* overlapped and were killed, as long as nobody's lock was taken from under
\* it - which a script does that gives up waiting (bin/port-allocate:48).
PortsDistinct ==
    ~broken => \A e, f \in registry : (e[1] = f[1] <=> e[2] = f[2])

\* "Per-worktree DB + port isolation" (bin/worktree-setup:4): once setup is
\* through, the worktree's own port is the one in its worktree.env, and the
\* databases of that name are its own clones, which no other's teardown drops.
\* They are not its own in one way only: a teardown took a query that failed
\* for "does not exist" and gave the port back (bin/worktree-teardown:51), and
\* setup skips a clone that there is.
ReadyIsolated ==
    ~broken => \A w \in Trees : pc[w] = "ready" =>
        /\ <<port[w], w>> \in registry
        /\ clones[<<port[w], "dev">>] \in {w, Leftover}
        /\ clones[<<port[w], "template">>] \in {w, Nobody, Leftover}
=============================================================================
