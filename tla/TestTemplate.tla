---------------------------- MODULE TestTemplate ----------------------------
(***************************************************************************)
(* The template database of the tests: bin/testdb rebuilds it, and         *)
(* createTestDB (webtest/webtest.go) clones it.  A rebuild goes through a  *)
(* scratch database that is stamped with the fingerprint of migrations/    *)
(* and swapped in at the end; it can fail or be killed at every step.      *)
(*                                                                         *)
(* migrations/ is its version.  A database is what was migrated into it    *)
(* (0 before cmd/migrate is through) and what it is stamped with.          *)
(***************************************************************************)
EXTENDS Integers

CONSTANTS
    Builders,       \* runs of bin/testdb
    MaxVersion,     \* bound: versions of migrations/
    MaxTries        \* retries of createTestDB (20 in the code)

ASSUME TemplateParameters == MaxVersion \in Nat \ {0} /\ MaxTries \in Nat

VARIABLES
    files,      \* the version of migrations/
    template,   \* the template database
    scratch,    \* each run's scratch database
    build,      \* where each run is
    test,       \* where a test process is in createTestDB
    tries,      \* its failed attempts
    clone       \* its database

builds == <<scratch, build>>
tests  == <<test, tries, clone>>
templateVars == <<files, template, builds, tests>>

\* skew is history: migrations/ changed between migrating and stamping.
Absent == [content |-> -1, stamp |-> -1, skew |-> FALSE]
Empty  == [content |-> 0, stamp |-> 0, skew |-> FALSE]

TemplateInit ==
    /\ files = 1
    /\ template \in {Absent, [content |-> 1, stamp |-> 1, skew |-> FALSE]}
    /\ scratch = [b \in Builders |-> Absent]
    /\ build = [b \in Builders |-> "idle"]
    /\ test = "off" /\ tries = 0 /\ clone = Absent

Building == {"swept", "created", "migrating", "migrated", "stamped", "dropped"}

Reaches(b, from, to) ==
    /\ build[b] = from
    /\ build' = [build EXCEPT ![b] = to]

\* Scratch databases of other runs are taken for orphans.  dropdb fails where
\* a session is open, and the run with it.
Connected(b) == build[b] = "migrating"

Sweep(b) ==
    /\ build[b] \notin Building
    /\ IF \E o \in Builders \ {b} : Connected(o)
       THEN UNCHANGED scratch /\ Reaches(b, build[b], "failed")
       ELSE /\ scratch' = [o \in Builders |-> Absent]
            /\ Reaches(b, build[b], "swept")
    /\ UNCHANGED <<files, template, tests>>

CreateInPlace(b) ==  \* (fault)
    /\ Reaches(b, "swept", "created")
    /\ scratch' = [scratch EXCEPT ![b] = Empty]
    /\ template' = Empty
    /\ UNCHANGED <<files, tests>>

Create(b) ==
    /\ Reaches(b, "swept", "created")
    /\ scratch' = [scratch EXCEPT ![b] = Empty]
    /\ UNCHANGED <<files, template, tests>>

\* cmd/migrate up, connected and then through.
Connect(b) ==
    /\ scratch[b] /= Absent
    /\ Reaches(b, "created", "migrating")
    /\ UNCHANGED <<files, template, scratch, tests>>

Migrate(b) ==
    /\ Reaches(b, "migrating", "migrated")
    /\ scratch' = [scratch EXCEPT ![b].content = files]
    /\ UNCHANGED <<files, template, tests>>

\* The fingerprint is that of the files at this moment.
Stamp(b) ==
    /\ scratch[b] /= Absent
    /\ Reaches(b, "migrated", "stamped")
    /\ scratch' = [scratch EXCEPT ![b].stamp = files]
    /\ UNCHANGED <<files, template, tests>>

\* The swap: drop the template, rename the scratch.
DropTemplate(b) ==
    /\ Reaches(b, "stamped", "dropped")
    /\ template' = Absent
    /\ UNCHANGED <<files, scratch, tests>>

Rename(b) ==
    /\ scratch[b] /= Absent
    /\ template = Absent
    /\ Reaches(b, "dropped", "done")
    /\ template' = scratch[b]
    /\ scratch' = [scratch EXCEPT ![b] = Absent]
    /\ UNCHANGED <<files, tests>>

\* Any command fails, for want of its database or otherwise: the EXIT trap
\* drops the scratch.  A killed run leaves it behind.
BuildFails(b) ==
    /\ build[b] \in Building
    /\ Reaches(b, build[b], "failed")
    /\ scratch' \in {scratch, [scratch EXCEPT ![b] = Absent]}
    /\ UNCHANGED <<files, template, tests>>

Builds(b) ==
    \/ Create(b) \/ Connect(b) \/ Migrate(b) \/ Stamp(b)
    \/ DropTemplate(b) \/ Rename(b) \/ BuildFails(b)

\* A migration is edited, added or removed.
EditMigrations ==
    /\ files < MaxVersion
    /\ files' = files + 1
    /\ scratch' = [b \in Builders |->
                     IF build[b] = "migrated" /\ scratch[b] /= Absent THEN [scratch[b] EXCEPT !.skew = TRUE] ELSE scratch[b]]
    /\ UNCHANGED <<template, build, tests>>

-----------------------------------------------------------------------------

\* bin/testdb --check.
CheckVerdict ==
    IF template = Absent THEN "build" ELSE IF template.stamp = files THEN "current" ELSE "stale"

\* createTestDB, after DROP DATABASE IF EXISTS: CREATE DATABASE ... TEMPLATE
\* fails while the template is absent or in use, and is tried again.
Clone ==
    /\ test = "cloning"
    /\ template /= Absent
    /\ clone' = template
    /\ test' = "ready"
    /\ UNCHANGED <<files, template, builds, tries>>

TriesBeyond ==  \* (fault)
    /\ test = "cloning"
    /\ test' = IF tries > MaxTries THEN "failed" ELSE "cloning"
    /\ tries' = IF tries > MaxTries THEN tries ELSE tries + 1
    /\ UNCHANGED <<files, template, builds, clone>>

CloneFails ==
    /\ test = "cloning"
    /\ test' = IF tries >= MaxTries THEN "failed" ELSE "cloning"
    /\ tries' = IF tries >= MaxTries THEN tries ELSE tries + 1
    /\ UNCHANGED <<files, template, builds, clone>>

-----------------------------------------------------------------------------

Databases == [content: -1..MaxVersion, stamp: -1..MaxVersion, skew: BOOLEAN]

TemplateTypeOK ==
    /\ files \in 1..MaxVersion
    /\ template \in Databases /\ clone \in Databases
    /\ scratch \in [Builders -> Databases]
    /\ build \in [Builders -> Building \cup {"idle", "done", "failed"}]
    /\ test \in {"off", "cloning", "ready", "failed"}
    /\ tries \in 0..MaxTries

\* "a kill leaves either the old template or a missing one" (bin/testdb:18),
\* never one that every test inherits half-built; and its stamp is true to
\* what it holds, unless migrations/ was edited under the rebuild.
TemplateWhole ==
    \A d \in {template, clone} :
        d /= Absent => d.content > 0 /\ (d.stamp = d.content \/ d.skew)
=============================================================================
