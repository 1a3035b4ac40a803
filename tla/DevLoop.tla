------------------------------ MODULE DevLoop ------------------------------
(***************************************************************************)
(* The gate, bin/check: it builds the tree, regenerates the code and       *)
(* refuses a worktree that differs from the index, verifies the test       *)
(* template - or builds it, when there is none - and runs the tests on a   *)
(* clone of it.  Meanwhile the developer edits, migrates and stages, other *)
(* runs of bin/testdb rebuild the template, and the gate is killed by the  *)
(* next prompt.                                                            *)
(***************************************************************************)
EXTENDS Generators, TestTemplate

CONSTANTS
    Own,        \* the gate's run of bin/testdb
    MaxMoves    \* bound: what the developer does

ASSUME GateParameters == Own \in Builders /\ DOMAIN Schemas = 1..MaxVersion /\ MaxMoves \in Nat

VARIABLES
    gate,   \* where bin/check is
    dirty,  \* history: something moved under the gate since it began
    moves   \* the developer's steps so far

vars == <<gate, dirty, moves, genVars, templateVars>>

Init == GenInit /\ TemplateInit /\ gate = "idle" /\ dirty = FALSE /\ moves = 0

Over == {"idle", "passed", "failed"}

GateStep(from, to) == gate = from /\ gate' = to /\ UNCHANGED <<dirty, moves>>

Start ==
    /\ gate \in Over
    /\ gate' = "build" /\ dirty' = FALSE /\ UNCHANGED moves
    /\ gen' = "off" /\ todo' = {} /\ loaded' = source
    /\ test' = "off" /\ tries' = 0 /\ clone' = Absent
    /\ UNCHANGED <<source, migrated, out, staged, files, template, builds>>

\* gofumpt, shellcheck, go build, vet, the linters and tidy: they can fail,
\* and do on a torn file.
Built ==
    /\ ~\E f \in Files : out[f] = Torn
    /\ GateStep("build", "generate")
    /\ Generate
    /\ UNCHANGED templateVars

SkipDrift ==  \* (fault)
    /\ gen \in {"done", "failed"}
    /\ GateStep("generate", IF gen = "done" THEN "testdb" ELSE "failed")
    /\ UNCHANGED <<genVars, templateVars>>

CheckDrift ==
    /\ gen \in {"done", "failed"}
    /\ GateStep("generate", IF gen = "done" /\ ~Drift THEN "testdb" ELSE "failed")
    /\ UNCHANGED <<genVars, templateVars>>

\* go test: each test binary starts with createTestDB.
BeginTests(from) ==
    /\ GateStep(from, "test")
    /\ test' = "cloning" /\ tries' = 0 /\ clone' = Absent
    /\ UNCHANGED <<genVars, files, template, builds>>

\* bin/testdb --check.
CheckTemplate ==
    \/ CheckVerdict = "current" /\ BeginTests("testdb")
    \/ /\ CheckVerdict = "stale"
       /\ GateStep("testdb", "failed")
       /\ UNCHANGED <<genVars, templateVars>>
    \/ /\ CheckVerdict = "build"
       /\ GateStep("testdb", "rebuild")
       /\ Sweep(Own)
       /\ UNCHANGED genVars

Rebuilt ==
    \/ build[Own] = "done" /\ BeginTests("rebuild")
    \/ /\ build[Own] = "failed"
       /\ GateStep("rebuild", "failed")
       /\ UNCHANGED <<genVars, templateVars>>

Tested ==
    /\ test \in {"ready", "failed"}
    /\ GateStep("test", IF test = "ready" THEN "passed" ELSE "failed")
    /\ UNCHANGED <<genVars, templateVars>>

\* A command fails or the gate is killed, between the steps of bin/generate
\* and bin/testdb (which have such steps of their own).
GateFails ==
    /\ gate \notin Over
    /\ gate = "generate" => gen \notin {"models", "conns"}
    /\ gate = "rebuild" => build[Own] \notin Building
    /\ GateStep(gate, "failed")
    /\ UNCHANGED <<genVars, templateVars>>

Gate ==
    \/ Start \/ Built \/ CheckDrift \/ CheckTemplate \/ Rebuilt \/ Tested \/ GateFails
    \/ Generating /\ UNCHANGED <<gate, dirty, moves, templateVars>>
    \/ Builds(Own) /\ UNCHANGED <<gate, dirty, moves, genVars>>
    \/ gate = "test" /\ (Clone \/ CloneFails) /\ UNCHANGED <<gate, dirty, moves, genVars>>

Moves == moves < MaxMoves /\ moves' = moves + 1

\* Other runs of bin/testdb.
Rebuild(b) ==
    /\ \/ Sweep(b) /\ Moves
       \/ Builds(b) /\ UNCHANGED moves
    /\ dirty' = (dirty \/ Rename(b))
    /\ UNCHANGED <<gate, genVars>>

Develop ==
    /\ \/ /\ \/ \E p \in Packages : EditSource(p)
             \/ \E v \in 1..files : v /= migrated /\ MigrateTo(v)
             \/ out /= staged /\ Stage
             \/ \E f \in Files : Repair(f)
          /\ UNCHANGED templateVars
       \/ EditMigrations /\ UNCHANGED genVars
    /\ Moves
    /\ dirty' = TRUE
    /\ UNCHANGED gate

Next == Gate \/ Develop \/ \E b \in Builders \ {Own} : Rebuild(b)

Spec == Init /\ [][Next]_vars

-----------------------------------------------------------------------------

TypeOK ==
    /\ GenTypeOK /\ TemplateTypeOK
    /\ gate \in Over \cup {"build", "generate", "testdb", "rebuild", "test"}
    /\ dirty \in BOOLEAN /\ moves \in 0..MaxMoves

\* "the variant cannot drift" (cmd/conngen/main.go:5): after bin/generate each
\* function that follows the convention, and no other, has a variant, which
\* calls it on the pool with its arguments in their places - unless something
\* moved meanwhile.  What is passed for the pool is another Conn in a package
\* other than db that has one (cmd/conngen/main.go:250).
VariantsCallTheirTx ==
    gen = "done" /\ ~dirty => \A p \in Packages : ConnCurrent(p)

\* "the Go model cannot drift from the database" (cmd/modelgen/main.go:4):
\* the row models can hold the rows of the development database's tables, and
\* insert them without the key or a default that was not set.
ModelsHoldRows ==
    gen = "done" /\ ~dirty => \A t \in Tables : ModelCurrent(t)

\* "all checks passed" (bin/check:57): what is staged is what was generated
\* and checked, and the tests ran on the migrations as they are - unless
\* something was edited, migrated or rebuilt under the gate, or migrations/
\* was edited under the rebuild that stamped the template.
GateSound ==
    gate = "passed" /\ ~dirty => staged = out /\ (clone.content = files \/ clone.skew)
=============================================================================
