--------------------------- MODULE DevLoopProofs ---------------------------
(***************************************************************************)
(* The gate for any number of packages, tables, migrations and runs of     *)
(* bin/testdb.  The invariant has a part for each of its actors - the      *)
(* databases (TemplateSound), the generated files (GenSound) and the gate  *)
(* itself (Phases) - and two for what holds between them as long as        *)
(* nothing moves under the gate: every file that bin/generate has done is  *)
(* that of the sources and the schema as they are (Current), and what the  *)
(* gate has checked is still so (Undisturbed).  That a file is that of its *)
(* sources says nothing yet about what is in it: FieldHolds is about a row *)
(* model, WrapperCalls about the variant of a function with any number of  *)
(* parameters in any groups.                                               *)
(***************************************************************************)
EXTENDS DevLoop, WellFoundedInduction, SequenceTheorems, TLAPS

\* A database that is whole, or none; one whose content is of the migrations
\* as they are.
Whole(d) == d /= Absent => d.content > 0 /\ (d.stamp = d.content \/ d.skew)
Good(d) == d.content = files \/ d.skew

\* What a rebuild has made so far.
Made ==
    \A b \in Builders :
        /\ build[b] = "migrated" /\ scratch[b] /= Absent => scratch[b].content > 0 /\ Good(scratch[b])
        /\ build[b] \in {"stamped", "dropped"} => Whole(scratch[b])

TemplateSound == TemplateTypeOK /\ Whole(template) /\ Whole(clone) /\ Made

\* What a generated file can hold.
Contents(f) ==
    {Missing, Torn} \cup
    IF f \in Tables THEN {ModelFile(Schemas[v][f]) : v \in 1..MaxVersion}
    ELSE {ConnFile(f, s) : s \in Sources[f]}
Tree(o) == o = [f \in Files |-> o[f]] /\ \A f \in Files : o[f] \in Contents(f)

Kept(s) == s \in [Packages -> UNION {Sources[p] : p \in Packages}] /\ \A p \in Packages : s[p] \in Sources[p]

GenSound ==
    /\ Kept(source) /\ Kept(loaded) /\ Tree(out) /\ Tree(staged)
    /\ migrated \in 1..MaxVersion
    /\ gen \in {"off", "models", "conns", "done", "failed"}
    /\ todo \subseteq Files
    /\ gen = "conns" => todo \subseteq Packages
    /\ gen = "done" => todo = {}

\* What a run of bin/generate that nothing disturbs has written.
Current ==
    ~dirty =>
        /\ gen \in {"models", "conns", "done"} => \A t \in Tables \ todo : out[t] = ModelFile(Schemas[migrated][t])
        /\ gen \in {"conns", "done"} =>
              /\ loaded = source
              /\ \A p \in Packages \ todo : out[p] = ConnFile(p, source[p])

\* Where the gate is tells where its parts are.
Checked == {"testdb", "rebuild", "test", "passed"}
Phases ==
    /\ gate \in Over \cup {"build", "generate", "testdb", "rebuild", "test"}
    /\ dirty \in BOOLEAN /\ moves \in 0..MaxMoves
    /\ build[Own] \in Building => gate = "rebuild"
    /\ gate \in Checked => gen = "done"
    /\ gate = "passed" => test = "ready"

\* What holds of a worktree that passed the drift check and of the template
\* that is good enough for its tests, while nothing moves.
Undisturbed ==
    ~dirty =>
        /\ gate \in Checked => staged = out
        /\ gate = "rebuild" /\ build[Own] \in {"migrated", "stamped", "dropped"} =>
              scratch[Own] = Absent \/ Good(scratch[Own])
        /\ \/ gate = "rebuild" /\ build[Own] = "done"
           \/ gate = "test" /\ test = "cloning"
           => template = Absent \/ Good(template)
        /\ gate \in {"test", "passed"} /\ test = "ready" => Good(clone)

Inv == TemplateSound /\ GenSound /\ Current /\ Phases /\ Undisturbed

-----------------------------------------------------------------------------
(* bin/testdb and createTestDB.                                            *)

\* The two databases that are not built.
LEMMA DatabaseTypes ==
  /\ Absent \in Databases /\ Empty \in Databases /\ Empty /= Absent
  /\ Absent.content = -1 /\ Empty.content = 0
BY TemplateParameters DEF Absent, Empty, Databases

\* A run of bin/testdb: the template is only ever taken away or replaced by a
\* scratch database that is whole.
LEMMA ScratchStep ==
  ASSUME TemplateSound, NEW b \in Builders, Sweep(b) \/ Builds(b)
  PROVE  /\ TemplateSound'
         /\ template' /= template =>
               template' = Absent \/ (Rename(b) /\ template' = scratch[b])
<1> USE TemplateParameters DEF TemplateSound, TemplateTypeOK
<1>1. CASE Sweep(b)
  <2>1. scratch' \in [Builders -> Databases] /\ \A o \in Builders : scratch'[o] \in {scratch[o], Absent}
    BY <1>1, DatabaseTypes DEF Sweep
  <2>2. build' \in [Builders -> Building \cup {"idle", "done", "failed"}]
        /\ \A o \in Builders : build'[o] \in {build[o], "swept", "failed"}
    BY <1>1 DEF Sweep, Reaches, Building
  <2>3. UNCHANGED <<files, template, test, tries, clone>>
    BY <1>1 DEF Sweep, tests
  <2>4. Made'
    BY <2>1, <2>2, <2>3 DEF Made, Whole, Good
  <2> QED
    BY <2>1, <2>2, <2>3, <2>4 DEF Whole
<1> DEFINE To(s) == build' = [build EXCEPT ![b] = s]
<1>2. CASE Create(b)
  <2>1. scratch' = [scratch EXCEPT ![b] = Empty] /\ To("created") /\ UNCHANGED <<files, template, test, tries, clone>>
    BY <1>2 DEF Create, Reaches, tests
  <2>2. scratch' \in [Builders -> Databases] /\ build' \in [Builders -> Building \cup {"idle", "done", "failed"}]
    BY <2>1, DatabaseTypes DEF Building
  <2>3. Made'
    BY <2>1 DEF Made, Whole, Good
  <2> QED
    BY <2>1, <2>2, <2>3 DEF Whole
<1>3. CASE Connect(b)
  <2>1. To("migrating") /\ UNCHANGED <<files, template, scratch, test, tries, clone>>
    BY <1>3 DEF Connect, Reaches, tests
  <2>2. build' \in [Builders -> Building \cup {"idle", "done", "failed"}]
    BY <2>1 DEF Building
  <2>3. Made'
    BY <2>1 DEF Made, Whole, Good
  <2> QED
    BY <2>1, <2>2, <2>3 DEF Whole
<1>4. CASE Migrate(b)
  <2>1. /\ scratch' = [scratch EXCEPT ![b].content = files] /\ To("migrated")
        /\ UNCHANGED <<files, template, test, tries, clone>>
    BY <1>4 DEF Migrate, Reaches, tests
  <2>2. /\ scratch' \in [Builders -> Databases] /\ scratch'[b].content = files
        /\ \A o \in Builders \ {b} : scratch'[o] = scratch[o]
    BY <2>1 DEF Databases
  <2>3. build' \in [Builders -> Building \cup {"idle", "done", "failed"}]
    BY <2>1 DEF Building
  <2>4. Made'
    BY <2>1, <2>2 DEF Made, Whole, Good
  <2> QED
    BY <2>1, <2>2, <2>3, <2>4 DEF Whole
<1>5. CASE Stamp(b)
  <2>1. /\ scratch' = [scratch EXCEPT ![b].stamp = files] /\ To("stamped") /\ build[b] = "migrated"
        /\ scratch[b] /= Absent /\ UNCHANGED <<files, template, test, tries, clone>>
    BY <1>5 DEF Stamp, Reaches, tests
  <2>2. /\ scratch' \in [Builders -> Databases] /\ scratch'[b].stamp = files
        /\ scratch'[b].content = scratch[b].content /\ (scratch'[b].skew <=> scratch[b].skew)
        /\ \A o \in Builders \ {b} : scratch'[o] = scratch[o]
    BY <2>1 DEF Databases
  <2>3. build' \in [Builders -> Building \cup {"idle", "done", "failed"}]
    BY <2>1 DEF Building
  <2>4. Made'
    BY <2>1, <2>2 DEF Made, Whole, Good
  <2> QED
    BY <2>1, <2>2, <2>3, <2>4 DEF Whole
<1>6. CASE DropTemplate(b)
  <2>1. To("dropped") /\ build[b] = "stamped" /\ template' = Absent /\ UNCHANGED <<files, scratch, test, tries, clone>>
    BY <1>6 DEF DropTemplate, Reaches, tests
  <2>2. build' \in [Builders -> Building \cup {"idle", "done", "failed"}]
    BY <2>1 DEF Building
  <2>3. Made'
    BY <2>1 DEF Made, Whole, Good
  <2> QED
    BY <2>1, <2>2, <2>3, DatabaseTypes DEF Whole
<1>7. CASE Rename(b)
  <2>1. /\ To("done") /\ build[b] = "dropped" /\ template' = scratch[b]
        /\ scratch' = [scratch EXCEPT ![b] = Absent] /\ UNCHANGED <<files, test, tries, clone>>
    BY <1>7 DEF Rename, Reaches, tests
  <2>2. scratch' \in [Builders -> Databases] /\ build' \in [Builders -> Building \cup {"idle", "done", "failed"}]
    BY <2>1, DatabaseTypes DEF Building
  <2>3. Made'
    BY <2>1 DEF Made, Whole, Good
  <2>4. Whole(template')
    BY <2>1 DEF Made
  <2> QED
    BY <1>7, <2>1, <2>2, <2>3, <2>4 DEF Whole
<1>8. CASE BuildFails(b)
  <2>1. /\ To("failed") /\ scratch' \in {scratch, [scratch EXCEPT ![b] = Absent]}
        /\ UNCHANGED <<files, template, test, tries, clone>>
    BY <1>8 DEF BuildFails, Reaches, tests
  <2>2. scratch' \in [Builders -> Databases] /\ build' \in [Builders -> Building \cup {"idle", "done", "failed"}]
    BY <2>1, DatabaseTypes DEF Building
  <2>3. Made'
    BY <2>1 DEF Made, Whole, Good
  <2> QED
    BY <2>1, <2>2, <2>3 DEF Whole
<1> QED
  BY <1>1, <1>2, <1>3, <1>4, <1>5, <1>6, <1>7, <1>8 DEF Builds

\* What a test process does, and the gate with it.
Resets == test' \in {"off", "cloning"} /\ tries' = 0 /\ clone' = Absent /\ UNCHANGED <<files, template, builds>>

LEMMA TestStep ==
  ASSUME TemplateSound, Clone \/ CloneFails \/ Resets \/ UNCHANGED templateVars
  PROVE  TemplateSound' /\ UNCHANGED <<files, template, scratch, build>>
<1> USE TemplateParameters DEF TemplateSound, TemplateTypeOK
<1>1. UNCHANGED <<files, template, scratch, build>>
  BY DEF Clone, CloneFails, Resets, templateVars, builds
<1>2. Made' /\ Whole(template)'
  BY <1>1 DEF Made, Whole, Good
<1>3. test' \in {"off", "cloning", "ready", "failed"} /\ tries' \in 0..MaxTries
  BY DEF Clone, CloneFails, Resets, templateVars, tests
<1>4. clone' \in {Absent, clone, template}
  BY DEF Clone, CloneFails, Resets, templateVars, tests
<1> QED
  BY <1>1, <1>2, <1>3, <1>4, DatabaseTypes DEF Whole

\* An edit of migrations/ leaves its mark on what is not stamped yet.
LEMMA EditStep ==
  ASSUME TemplateSound, EditMigrations
  PROVE  TemplateSound'
<1> USE TemplateParameters DEF TemplateSound, TemplateTypeOK
<1>1. /\ files \in Nat /\ files' = files + 1 /\ files' \in 1..MaxVersion
      /\ UNCHANGED <<template, build, test, tries, clone>>
  BY DEF EditMigrations, tests
<1>2. \A b \in Builders :
         scratch'[b] = IF build[b] = "migrated" /\ scratch[b] /= Absent THEN [scratch[b] EXCEPT !.skew = TRUE] ELSE scratch[b]
  BY DEF EditMigrations
<1>3. ASSUME NEW b \in Builders
      PROVE  /\ scratch'[b] \in Databases
             /\ build[b] = "migrated" /\ scratch'[b] /= Absent => scratch'[b].content > 0 /\ scratch'[b].skew
             /\ build[b] /= "migrated" => scratch'[b] = scratch[b]
  <2>1. CASE build[b] = "migrated" /\ scratch[b] /= Absent
    <3> DEFINE d == scratch[b]
               e == [d EXCEPT !.skew = TRUE]
    <3>1. scratch'[b] = e
      BY <1>2, <2>1
    <3>2. d \in Databases
      OBVIOUS
    <3>3. d.content > 0
      BY <2>1 DEF Made
    <3> HIDE DEF d
    <3>4. e \in Databases /\ e.content = d.content /\ e.skew
      BY <3>2 DEF Databases
    <3> QED
      BY <2>1, <3>1, <3>3, <3>4
  <2>2. CASE ~(build[b] = "migrated" /\ scratch[b] /= Absent)
    BY <1>2, <2>2
  <2> QED
    BY <2>1, <2>2
<1>4. scratch' \in [Builders -> Databases]
  <2>1. scratch' = [b \in Builders |-> scratch'[b]]
    BY <1>2 DEF EditMigrations
  <2> QED
    BY <1>3, <2>1
<1>5. Made'
  BY <1>1, <1>3 DEF Made, Whole, Good
<1> QED
  BY <1>1, <1>4, <1>5 DEF Whole

-----------------------------------------------------------------------------
(* bin/generate and the developer.                                         *)

\* The kind of a file tells its generator.
LEMMA ContentKinds ==
  ASSUME NEW f \in Files, NEW c \in Contents(f)
  PROVE  c.kind \in {"missing", "torn", IF f \in Tables THEN "model" ELSE "conn"}
BY DEF Contents, Missing, Torn, ModelFile, ConnFile

\* One file is written, or none.
LEMMA TreePut ==
  ASSUME NEW o, Tree(o), NEW f \in Files, NEW c \in Contents(f), NEW p, p = [o EXCEPT ![f] = c]
  PROVE  Tree(p) /\ \A g \in Files : p[g] = IF g = f THEN c ELSE o[g]
BY DEF Tree

\* bin/generate goes through the tables and then the packages: those it has
\* done are current, as far as nothing moves.
LEMMA GenerateStep ==
  ASSUME GenSound, Current, Generating, UNCHANGED dirty
  PROVE  GenSound' /\ Current' /\ UNCHANGED staged /\ gen \in {"models", "conns"}
<1> USE GeneratorParameters, GateParameters DEF GenSound
<1>1. CASE \E t \in Tables : Model(t)
  <2>1. PICK t \in Tables : Model(t)
    BY <1>1
  <2> DEFINE c == ModelFile(Schemas[migrated][t])
  <2>2. /\ gen = "models" /\ t \in todo /\ UNCHANGED <<source, migrated, staged, loaded>>
        /\ \/ out' = [out EXCEPT ![t] = c] /\ todo' = todo \ {t} /\ gen' = gen
           \/ gen' = "failed" /\ out' = out /\ todo' = todo
    BY <2>1 DEF Model
  <2>3. t \in Files /\ c \in Contents(t)
    BY DEF Files, Contents
  <2>4. Tree(out')
    <3> HIDE DEF c
    <3> QED
      BY <2>2, <2>3, TreePut
  <2>5. gen' = "models" => \A g \in Files : out'[g] = IF g = t THEN c ELSE out[g]
    <3> HIDE DEF c
    <3> QED
      BY <2>2, <2>3, TreePut
  <2>6. Current'
    BY <2>2, <2>5 DEF Current, Files
  <2> QED
    BY <2>2, <2>4, <2>6
<1>2. CASE \E p \in Packages : Conn(p)
  <2>1. PICK p \in Packages : Conn(p)
    BY <1>2
  <2> DEFINE c == ConnFile(p, loaded[p])
  <2>2. /\ gen = "conns" /\ p \in todo /\ UNCHANGED <<source, migrated, staged, loaded>>
        /\ \/ out' = [out EXCEPT ![p] = c] /\ todo' = todo \ {p} /\ gen' = gen
           \/ gen' = "failed" /\ out' = out /\ todo' = todo
    BY <2>1 DEF Conn
  <2>3. p \in Files /\ p \notin Tables /\ c \in Contents(p)
    BY DEF Files, Contents, Kept
  <2>4. Tree(out')
    <3> HIDE DEF c
    <3> QED
      BY <2>2, <2>3, TreePut
  <2>5. gen' = "conns" => \A g \in Files : out'[g] = IF g = p THEN c ELSE out[g]
    <3> HIDE DEF c
    <3> QED
      BY <2>2, <2>3, TreePut
  <2>6. Current'
    BY <2>2, <2>3, <2>5 DEF Current, Files
  <2> QED
    BY <2>2, <2>4, <2>6
<1>3. CASE Load
  <2>1. /\ gen = "models" /\ todo = {} /\ UNCHANGED <<source, migrated, out, staged>>
        /\ \/ gen' = "failed" /\ UNCHANGED <<todo, loaded>>
           \/ gen' = "conns" /\ todo' = Packages /\ loaded' = source
    BY <1>3 DEF Load
  <2>2. Packages \subseteq Files
    BY DEF Files
  <2>3. Current'
    BY <2>1 DEF Current
  <2> QED
    BY <2>1, <2>2, <2>3
<1>4. CASE Generated
  <2>1. gen = "conns" /\ todo = {} /\ gen' = "done" /\ UNCHANGED <<source, migrated, out, staged, todo, loaded>>
    BY <1>4 DEF Generated
  <2>2. Current'
    BY <2>1 DEF Current
  <2> QED
    BY <2>1, <2>2
<1>5. CASE GenerateDies
  <2>1. /\ gen \in {"models", "conns"} /\ gen' = "failed" /\ UNCHANGED <<source, migrated, staged, todo, loaded>>
        /\ out' = out \/ \E f \in todo : out' = [out EXCEPT ![f] = Torn]
    BY <1>5 DEF GenerateDies
  <2>2. \A f \in Files : Torn \in Contents(f)
    BY DEF Contents
  <2>3. Tree(out')
    BY <2>1, <2>2, TreePut
  <2> QED
    BY <2>1, <2>3 DEF Current
<1> QED
  BY <1>1, <1>2, <1>3, <1>4, <1>5 DEF Generating

\* What the developer does to the tree and to the database, and where the gate
\* starts bin/generate or leaves it.
LEMMA DevelopStep ==
  ASSUME GenSound,
         \/ \E p \in Packages : EditSource(p)
         \/ \E v \in 1..MaxVersion : MigrateTo(v)
         \/ Stage
         \/ \E f \in Files : Repair(f)
  PROVE  GenSound'
<1> USE GeneratorParameters, GateParameters DEF GenSound
<1>1. CASE \E p \in Packages : EditSource(p)
  <2>1. PICK p \in Packages : \E s \in Sources[p] : source' = [source EXCEPT ![p] = s]
    BY <1>1 DEF EditSource
  <2>2. Kept(source')
    BY <2>1 DEF Kept
  <2>3. UNCHANGED <<migrated, out, staged, gen, todo, loaded>>
    BY <1>1 DEF EditSource
  <2> QED
    BY <2>2, <2>3
<1>2. CASE \E v \in 1..MaxVersion : MigrateTo(v)
  BY <1>2 DEF MigrateTo
<1>3. CASE Stage
  BY <1>3 DEF Stage
<1>4. CASE \E f \in Files : Repair(f)
  <2>1. PICK f \in Files : out' = [out EXCEPT ![f] = Missing]
    BY <1>4 DEF Repair
  <2>2. Missing \in Contents(f)
    BY DEF Contents
  <2>3. Tree(out')
    BY <2>1, <2>2, TreePut
  <2>4. UNCHANGED <<source, migrated, staged, gen, todo, loaded>>
    BY <1>4 DEF Repair
  <2> QED
    BY <2>3, <2>4
<1> QED
  BY <1>1, <1>2, <1>3, <1>4

-----------------------------------------------------------------------------
(* The gate.                                                               *)

\* Steps that leave the tree alone.
LEMMA GenStays ==
  ASSUME GenSound, UNCHANGED genVars
  PROVE  GenSound' /\ (Current /\ (dirty' <=> dirty) => Current')
BY DEF GenSound, Current, genVars, Tree, Kept, Contents

\* A new run of the gate forgets what the last one made.
LEMMA StartStep ==
  ASSUME Inv, Start
  PROVE  Inv'
<1> USE DEF Inv
<1>1. /\ gate \in Over /\ gate' = "build" /\ ~dirty' /\ moves' = moves
      /\ gen' = "off" /\ todo' = {} /\ loaded' = source /\ Resets
      /\ UNCHANGED <<source, migrated, out, staged, build>>
  BY DEF Start, Resets, builds
<1>2. dirty' = FALSE
  BY DEF Start
<1>3. TemplateSound'
  BY <1>1, TestStep
<1>4. GenSound' /\ Current'
  BY <1>1 DEF GenSound, Current
<1>5. Phases'
  BY <1>1, <1>2 DEF Phases, Checked, Over
<1>6. Undisturbed'
  BY <1>1 DEF Undisturbed, Checked
<1> QED
  BY <1>3, <1>4, <1>5, <1>6

\* The tree is built and generated, and compared with the index.
LEMMA DriftStep ==
  ASSUME Inv, Built \/ CheckDrift
  PROVE  Inv'
<1> USE DEF Inv
<1>1. TemplateSound' /\ UNCHANGED templateVars
  BY TestStep DEF Built, CheckDrift
<1>2. UNCHANGED <<dirty, moves>> /\ UNCHANGED <<files, template, scratch, build, test, tries, clone>>
  BY <1>1 DEF Built, CheckDrift, GateStep, templateVars, builds, tests
<1>3. CASE Built
  <2>1. gate = "build" /\ gate' = "generate" /\ gen' = "models" /\ todo' = Tables /\ UNCHANGED <<source, migrated, out, staged, loaded>>
    BY <1>3 DEF Built, GateStep, Generate
  <2>2. GenSound' /\ Current'
    BY <2>1 DEF GenSound, Current, Files
  <2>3. Phases' /\ Undisturbed'
    BY <1>2, <2>1 DEF Phases, Undisturbed, Checked
  <2> QED
    BY <1>1, <2>2, <2>3
<1>4. CASE CheckDrift
  <2>1. /\ gate = "generate" /\ gate' = (IF gen = "done" /\ ~Drift THEN "testdb" ELSE "failed")
        /\ UNCHANGED genVars
    BY <1>4 DEF CheckDrift, GateStep
  <2>2. GenSound' /\ Current'
    BY <1>2, <2>1, GenStays
  <2>3. UNCHANGED <<gen, out, staged>>
    BY <2>1 DEF genVars
  <2>4. ~Drift => staged = out
    BY DEF Drift, GenSound, Tree
  <2>5. Phases' /\ Undisturbed'
    BY <1>2, <2>1, <2>3, <2>4 DEF Phases, Undisturbed, Checked, Over
  <2> QED
    BY <1>1, <2>2, <2>5
<1> QED
  BY <1>3, <1>4

\* A template that passes bin/testdb --check is good.
LEMMA CurrentTemplate == ASSUME TemplateSound, CheckVerdict = "current" PROVE Good(template)
BY DEF TemplateSound, Whole, CheckVerdict, Good

\* The tests begin, on a template that is good.
LEMMA BeginStep ==
  ASSUME Inv, NEW from \in {"testdb", "rebuild"}, BeginTests(from),
         build[Own] \notin Building, ~dirty => template = Absent \/ Good(template)
  PROVE  Inv'
<1> USE DEF Inv
<1>1. /\ gate = from /\ gate' = "test" /\ UNCHANGED <<dirty, moves>> /\ UNCHANGED genVars
      /\ Resets /\ test' = "cloning"
  BY DEF BeginTests, GateStep, Resets
<1>2. UNCHANGED <<files, template, build>>
  BY <1>1 DEF Resets, builds
<1>3. TemplateSound' /\ GenSound' /\ Current'
  BY <1>1, TestStep, GenStays
<1>4. Phases' /\ Undisturbed'
  BY <1>1, <1>2 DEF Phases, Undisturbed, Checked, Over, genVars, Good
<1> QED
  BY <1>3, <1>4

\* The gate verifies the template, or builds it, and takes the tests' verdict.
LEMMA TemplateStep ==
  ASSUME Inv, CheckTemplate \/ Rebuilt \/ Tested \/ GateFails
  PROVE  Inv'
<1> USE DEF Inv
<1>1. ASSUME NEW from \in Over \cup {"build", "generate", "testdb", "rebuild", "test"}, NEW to \in {"passed", "failed"},
             GateStep(from, to), UNCHANGED <<genVars, templateVars>>,
             from = "rebuild" => build[Own] \notin Building,
             to = "passed" => from = "test" /\ test = "ready"
      PROVE  Inv'
  <2>1. gate = from /\ gate' = to /\ UNCHANGED <<dirty, moves>>
    BY <1>1 DEF GateStep
  <2>2. UNCHANGED <<files, template, scratch, build, test, clone, gen, out, staged>>
    BY <1>1 DEF templateVars, builds, tests, genVars
  <2>3. TemplateSound' /\ GenSound' /\ Current'
    BY <1>1, <2>1, TestStep, GenStays
  <2>4. Phases' /\ Undisturbed'
    BY <1>1, <2>1, <2>2 DEF Phases, Undisturbed, Checked, Over, Good
  <2> QED
    BY <2>3, <2>4
<1>2. CASE CheckTemplate
  <2>1. CASE CheckVerdict = "current" /\ BeginTests("testdb")
    <3>1. gate = "testdb" /\ build[Own] \notin Building
      BY <2>1 DEF BeginTests, GateStep, Phases
    <3> QED
      BY <2>1, <3>1, BeginStep, CurrentTemplate
  <2>2. CASE GateStep("testdb", "failed") /\ UNCHANGED <<genVars, templateVars>>
    BY <1>1, <2>2
  <2>3. CASE GateStep("testdb", "rebuild") /\ Sweep(Own) /\ UNCHANGED genVars
    <3>1. gate = "testdb" /\ gate' = "rebuild" /\ UNCHANGED <<dirty, moves, test, clone, gen, out, staged>>
      BY <2>3 DEF GateStep, Sweep, tests, genVars
    <3>2. TemplateSound' /\ GenSound' /\ Current'
      BY <2>3, <3>1, ScratchStep, GenStays, GateParameters
    <3>3. build'[Own] \in {"swept", "failed"}
      BY <2>3, GateParameters DEF Sweep, Reaches, TemplateSound, TemplateTypeOK
    <3>4. Phases' /\ Undisturbed'
      BY <3>1, <3>3 DEF Phases, Undisturbed, Checked
    <3> QED
      BY <3>2, <3>4
  <2> QED
    BY <1>2, <2>1, <2>2, <2>3 DEF CheckTemplate
<1>3. CASE Rebuilt
  <2>1. CASE build[Own] = "done" /\ BeginTests("rebuild")
    <3>1. build[Own] \notin Building /\ gate = "rebuild"
      BY <2>1 DEF Building, BeginTests, GateStep
    <3>2. ~dirty => template = Absent \/ Good(template)
      BY <2>1, <3>1 DEF Undisturbed
    <3> QED
      BY <2>1, <3>1, <3>2, BeginStep
  <2>2. CASE build[Own] = "failed" /\ GateStep("rebuild", "failed") /\ UNCHANGED <<genVars, templateVars>>
    BY <1>1, <2>2 DEF Building
  <2> QED
    BY <1>3, <2>1, <2>2 DEF Rebuilt
<1>4. CASE Tested
  BY <1>1, <1>4 DEF Tested
<1>5. CASE GateFails
  BY <1>1, <1>5 DEF GateFails, Phases
<1> QED
  BY <1>2, <1>3, <1>4, <1>5

\* The steps of bin/generate, of the gate's bin/testdb and of its tests.
LEMMA PartStep ==
  ASSUME Inv, UNCHANGED <<gate, dirty, moves>>,
         \/ Generating /\ UNCHANGED templateVars
         \/ Builds(Own) /\ UNCHANGED genVars
         \/ gate = "test" /\ (Clone \/ CloneFails) /\ UNCHANGED genVars
  PROVE  Inv'
<1> USE DEF Inv
<1>1. CASE Generating /\ UNCHANGED templateVars
  <2>1. GenSound' /\ Current' /\ UNCHANGED staged /\ gen \in {"models", "conns"}
    BY <1>1, GenerateStep
  <2>2. TemplateSound' /\ UNCHANGED <<files, template, scratch, build, test, clone>>
    BY <1>1, TestStep DEF templateVars, tests
  <2>3. gate \notin Checked
    BY <2>1 DEF Phases
  <2>4. Phases' /\ Undisturbed'
    BY <2>2, <2>3 DEF Phases, Undisturbed, Checked
  <2> QED
    BY <2>1, <2>2, <2>4
<1>2. CASE Builds(Own) /\ UNCHANGED genVars
  <2>1. /\ TemplateSound' /\ GenSound' /\ Current'
        /\ template' /= template => template' = Absent \/ (Rename(Own) /\ template' = scratch[Own])
    BY <1>2, ScratchStep, GenStays, GateParameters
  <2>2. build[Own] \in Building /\ UNCHANGED <<files, test, clone, gen, out, staged>>
    BY <1>2 DEF Builds, Create, Connect, Migrate, Stamp, DropTemplate, Rename, BuildFails, Reaches, Building, tests, genVars
  <2>3. gate = "rebuild"
    BY <2>2 DEF Phases
  <2>4. Phases'
    BY <2>2, <2>3 DEF Phases, Checked
  <2>5. ASSUME ~dirty PROVE build'[Own] \in {"migrated", "stamped", "dropped"} => scratch'[Own] = Absent \/ Good(scratch[Own])'
    <3> USE <1>2, <2>2, <2>3, <2>5, GateParameters DEF TemplateSound, TemplateTypeOK
    <3>1. CASE Migrate(Own)
      BY <3>1 DEF Migrate, Good, Databases
    <3>2. CASE Stamp(Own)
      BY <3>2 DEF Stamp, Good, Databases, Undisturbed, Reaches
    <3>3. CASE DropTemplate(Own)
      BY <3>3 DEF DropTemplate, Good, Undisturbed, Reaches
    <3>4. CASE Create(Own) \/ Connect(Own) \/ Rename(Own) \/ BuildFails(Own)
      <4>1. build'[Own] \in {"created", "migrating", "done", "failed"}
        BY <3>4 DEF Create, Connect, Rename, BuildFails, Reaches
      <4> QED
        BY <4>1
    <3> QED
      BY <3>1, <3>2, <3>3, <3>4 DEF Builds
  <2>6. ASSUME ~dirty, build'[Own] = "done" PROVE template' = Absent \/ Good(template)'
    <3>1. Rename(Own)
      BY <1>2, <2>2, <2>6, GateParameters DEF Builds, Create, Connect, Migrate, Stamp, DropTemplate, BuildFails, Reaches, TemplateSound, TemplateTypeOK
    <3>2. build[Own] = "dropped" /\ template' = scratch[Own]
      BY <3>1 DEF Rename, Reaches
    <3> QED
      BY <2>2, <2>3, <2>6, <3>2 DEF Undisturbed, Good
  <2>7. Undisturbed'
    BY <2>2, <2>3, <2>5, <2>6 DEF Undisturbed, Checked
  <2> QED
    BY <2>1, <2>4, <2>7
<1>3. CASE gate = "test" /\ (Clone \/ CloneFails) /\ UNCHANGED genVars
  <2>1. TemplateSound' /\ GenSound' /\ Current' /\ UNCHANGED <<files, template, scratch, build>>
    BY <1>3, TestStep, GenStays
  <2>2. /\ test = "cloning" /\ UNCHANGED <<gen, out, staged>>
        /\ \/ test' = "ready" /\ template /= Absent /\ clone' = template
           \/ test' \in {"cloning", "failed"}
    BY <1>3 DEF Clone, CloneFails, genVars
  <2>3. Phases' /\ Undisturbed'
    BY <1>3, <2>1, <2>2 DEF Phases, Undisturbed, Checked, Good
  <2> QED
    BY <2>1, <2>3
<1> QED
  BY <1>1, <1>2, <1>3

\* The developer, under whose steps anything may become stale.
LEMMA DeveloperStep ==
  ASSUME Inv, Develop
  PROVE  Inv'
<1> USE DEF Inv
<1>1. dirty' = TRUE /\ gate' = gate /\ moves < MaxMoves /\ moves' = moves + 1
  BY DEF Develop, Moves
<1>2. UNCHANGED <<build, test, gen>>
  BY DEF Develop, EditSource, MigrateTo, Stage, Repair, EditMigrations, templateVars, builds, tests, genVars
<1>3. TemplateSound' /\ GenSound'
  <2>1. CASE /\ \/ \E p \in Packages : EditSource(p)
                \/ \E v \in 1..files : v /= migrated /\ MigrateTo(v)
                \/ out /= staged /\ Stage
                \/ \E f \in Files : Repair(f)
             /\ UNCHANGED templateVars
    <3>1. \A v \in 1..files : v \in 1..MaxVersion
      BY TemplateParameters DEF TemplateSound, TemplateTypeOK
    <3> QED
      BY <2>1, <3>1, DevelopStep, TestStep
  <2>2. CASE EditMigrations /\ UNCHANGED genVars
    BY <2>2, EditStep, GenStays
  <2> QED
    BY <2>1, <2>2 DEF Develop
<1>4. Phases'
  BY <1>1, <1>2, GateParameters DEF Phases
<1> QED
  BY <1>1, <1>3, <1>4 DEF Current, Undisturbed

\* Other runs of bin/testdb, which leave the gate's template alone or take it away.
LEMMA RebuildStep ==
  ASSUME Inv, NEW b \in Builders \ {Own}, Rebuild(b)
  PROVE  Inv'
<1> USE DEF Inv
<1>1. /\ Sweep(b) \/ Builds(b)
      /\ gate' = gate /\ UNCHANGED genVars
      /\ dirty' = (dirty \/ Rename(b)) /\ moves' \in {moves, moves + 1} /\ (moves' = moves \/ moves < MaxMoves)
  BY DEF Rebuild, Moves
<1>2. /\ TemplateSound' /\ GenSound'
      /\ template' /= template => template' = Absent \/ (Rename(b) /\ template' = scratch[b])
  BY <1>1, ScratchStep, GenStays DEF Rebuild
<1>3. UNCHANGED <<files, test, clone, gen, out, staged>> /\ gate' = gate
  BY DEF Rebuild, Builds, Sweep, Create, Connect, Migrate, Stamp, DropTemplate, Rename, BuildFails, tests, genVars
<1>4. build'[Own] = build[Own] /\ scratch'[Own] \in {scratch[Own], Absent}
  BY <1>1, GateParameters DEF Sweep, Builds, Create, Connect, Migrate, Stamp, DropTemplate, Rename, BuildFails, Reaches,
     TemplateSound, TemplateTypeOK
<1>5. dirty' \in BOOLEAN /\ (dirty => dirty') /\ (Rename(b) => dirty') /\ (dirty' => dirty \/ Rename(b))
  BY <1>1 DEF Phases
<1>6. Phases'
  BY <1>1, <1>3, <1>4, <1>5, GateParameters DEF Phases
<1>7. Current'
  BY <1>1, <1>5, GenStays DEF Current, genVars, Rebuild
<1>8. Undisturbed'
  BY <1>2, <1>3, <1>4, <1>5 DEF Undisturbed, Good
<1> QED
  BY <1>2, <1>6, <1>7, <1>8

LEMMA InitInv == Init => Inv
<1> SUFFICES ASSUME Init PROVE Inv
  OBVIOUS
<1> USE TemplateParameters, GateParameters, GeneratorParameters DEF Init
<1>1. TemplateSound
  <2> DEFINE first == [content |-> 1, stamp |-> 1, skew |-> FALSE]
  <2>1. first \in Databases /\ first.content = 1 /\ first.stamp = 1
    BY DEF Databases
  <2>2. /\ files = 1 /\ template \in {Absent, first} /\ scratch = [b \in Builders |-> Absent]
        /\ build = [b \in Builders |-> "idle"] /\ test = "off" /\ tries = 0 /\ clone = Absent
    BY DEF TemplateInit
  <2> HIDE DEF first
  <2> QED
    BY <2>1, <2>2, DatabaseTypes DEF TemplateSound, TemplateTypeOK, Whole, Made
<1>2. GenSound
  <2>1. Kept(source) /\ loaded = source /\ migrated = 1 /\ gen = "off" /\ todo = {} /\ staged = out
    BY DEF GenInit, Kept
  <2>2. out = [f \in Files |-> IF f \in Tables THEN ModelFile(Schemas[1][f]) ELSE ConnFile(f, source[f])]
    BY DEF GenInit
  <2>3. ASSUME NEW f \in Files PROVE out[f] \in Contents(f)
    BY <2>1, <2>2 DEF Contents, Files, Kept
  <2>4. Tree(out)
    BY <2>2, <2>3 DEF Tree
  <2> QED
    BY <2>1, <2>4 DEF GenSound
<1>3. Current /\ Phases /\ Undisturbed
  <2>1. gen = "off" /\ gate = "idle" /\ dirty = FALSE /\ moves = 0 /\ build[Own] = "idle"
    BY DEF GenInit, TemplateInit
  <2>2. Current
    BY <2>1 DEF Current
  <2>3. Phases
    <3>1. dirty \in BOOLEAN
      BY <2>1
    <3>2. moves \in 0..MaxMoves /\ gate = "idle" /\ build[Own] \notin Building
      BY <2>1 DEF Building
    <3> QED
      BY <3>1, <3>2 DEF Phases, Checked, Over
  <2>4. Undisturbed
    BY <2>1 DEF Undisturbed, Checked
  <2> QED
    BY <2>2, <2>3, <2>4
<1> QED
  BY <1>1, <1>2, <1>3 DEF Inv

LEMMA InvStep == Inv /\ [Next]_vars => Inv'
<1> SUFFICES ASSUME Inv, [Next]_vars PROVE Inv'
  OBVIOUS
<1>1. CASE Gate
  <2>1. CASE Start
    BY <2>1, StartStep
  <2>2. CASE Built \/ CheckDrift
    BY <2>2, DriftStep
  <2>3. CASE CheckTemplate \/ Rebuilt \/ Tested \/ GateFails
    BY <2>3, TemplateStep
  <2>4. CASE \/ Generating /\ UNCHANGED <<gate, dirty, moves, templateVars>>
             \/ Builds(Own) /\ UNCHANGED <<gate, dirty, moves, genVars>>
             \/ gate = "test" /\ (Clone \/ CloneFails) /\ UNCHANGED <<gate, dirty, moves, genVars>>
    BY <2>4, PartStep
  <2> QED
    BY <1>1, <2>1, <2>2, <2>3, <2>4 DEF Gate
<1>2. CASE Develop
  BY <1>2, DeveloperStep
<1>3. CASE \E b \in Builders \ {Own} : Rebuild(b)
  BY <1>3, RebuildStep
<1>4. CASE UNCHANGED vars
  <2>1. TemplateSound' /\ GenSound' /\ Current'
    BY <1>4, TestStep, GenStays DEF Inv, vars
  <2>2. Phases' /\ Undisturbed'
    BY <1>4 DEF Inv, Phases, Undisturbed, Checked, Good, vars, genVars, templateVars, builds, tests
  <2> QED
    BY <2>1, <2>2 DEF Inv
<1> QED
  BY <1>1, <1>2, <1>3, <1>4 DEF Next

\* What makes the gate sound is kept by each of its steps, and by everybody
\* else's (bin/check, bin/generate, bin/testdb).
THEOREM Invariant == Spec => []Inv
<1>1. Init => Inv
  BY InitInv
<1>2. Inv /\ [Next]_vars => Inv'
  BY InvStep
<1> QED
  BY <1>1, <1>2, PTL DEF Spec

-----------------------------------------------------------------------------
(* What it is for.                                                         *)

\* Generated files are what their own generator writes, or torn, or missing;
\* the databases are of versions that exist.
THEOREM TypeCorrect == Spec => []TypeOK
<1>1. Inv => TypeOK
  <2> SUFFICES ASSUME Inv PROVE TypeOK
    OBVIOUS
  <2>1. ASSUME NEW f \in Files
        PROVE  {out[f].kind, staged[f].kind} \subseteq
                 {"missing", "torn", IF f \in Tables THEN "model" ELSE "conn"}
    <3>1. out[f] \in Contents(f) /\ staged[f] \in Contents(f)
      BY DEF Inv, GenSound, Tree
    <3> QED
      BY <3>1, ContentKinds
  <2>2. GenTypeOK
    BY <2>1, GateParameters DEF Inv, GenSound, Kept, GenTypeOK
  <2> QED
    BY <2>2 DEF Inv, TemplateSound, Phases, TypeOK
<1> QED
  BY <1>1, Invariant, PTL

\* "a kill leaves either the old template or a missing one" (bin/testdb:18):
\* no test inherits a database that is half built or falsely stamped.
THEOREM TemplateIsWhole == Spec => []TemplateWhole
<1>1. Inv => TemplateWhole
  BY DEF Inv, TemplateSound, Whole, TemplateWhole
<1> QED
  BY <1>1, Invariant, PTL

\* What the row model of a table is made of can hold its rows.
LEMMA FieldHolds ==
  ASSUME NEW c
  PROVE  /\ Field(c).column = c.name
         /\ c.null /\ ~c.pk => Field(c).type.pointer \/ Field(c).type.base \in OwnNull
         /\ Field(c).inMap = ~c.pk
         /\ c.default /\ Field(c).inMap => Field(c).unset
<1>1. c.null /\ ~c.pk => GoType(c).pointer \/ GoType(c).base \in OwnNull
  BY DEF GoType
<1> QED
  BY <1>1 DEF Field

\* "the Go model cannot drift from the database" (cmd/modelgen/main.go:4): the
\* row models hold the rows of the tables and insert them.
THEOREM ModelsHold == Spec => []ModelsHoldRows
<1>1. Inv => ModelsHoldRows
  <2> SUFFICES ASSUME Inv, gen = "done", ~dirty, NEW t \in Tables PROVE ModelCurrent(t)
    BY DEF ModelsHoldRows
  <2> DEFINE columns == Schemas[migrated][t]
  <2>1. out[t].code = {Field(c) : c \in columns}
    <3>1. out[t] = ModelFile(columns)
      BY DEF Inv, GenSound, Current
    <3> HIDE DEF columns
    <3> QED
      BY <3>1 DEF ModelFile
  <2> HIDE DEF columns
  <2>2. ASSUME NEW c \in columns
        PROVE  \E f \in out[t].code :
                 /\ f.column = c.name
                 /\ c.null /\ ~c.pk => f.type.pointer \/ f.type.base \in OwnNull
                 /\ f.inMap = ~c.pk
                 /\ c.default /\ f.inMap => f.unset
    <3>1. Field(c) \in out[t].code
      BY <2>1
    <3> WITNESS Field(c) \in out[t].code
    <3> QED
      BY FieldHolds
  <2>3. \A f \in out[t].code : \E c \in columns : f.column = c.name
    BY <2>1, FieldHolds
  <2> QED
    BY <2>2, <2>3 DEF ModelCurrent, columns
<1> QED
  BY <1>1, Invariant, PTL

-----------------------------------------------------------------------------
(* Sequences that are put together of others: induction along a sequence   *)
(* as the least number at which it fails, since no backend instantiates    *)
(* the induction theorems, and with it what FlattenSeq and RemoveAt make.  *)

\* A set of numbers that is not empty has a least one.
LEMMA Least ==
  ASSUME NEW M, M \subseteq Nat, M /= {}
  PROVE  \E x \in M : \A y \in M : x <= y
<1> DEFINE R == OpToRel(<, Nat)
<1>1. IsWellFoundedOn(R, Nat)
  BY NatLessThanWellFounded
<1>2. \A a, b \in Nat : <<a, b>> \in R <=> a < b
  BY DEF OpToRel
<1> HIDE DEF R
<1>3. PICK x \in M : \A y \in M : ~(<<y, x>> \in R)
  BY <1>1, WFMin
<1>4. \A y \in M : ~(y < x) /\ y \in Nat /\ x \in Nat
  BY <1>2, <1>3
<1> QED
  BY <1>3, <1>4

\* What holds of 1 and of each number's successor holds up to n.
LEMMA Upwards ==
  ASSUME NEW n \in Nat, NEW T, 1 \in T, \A i \in 1..(n - 1) : i \in T => i + 1 \in T
  PROVE  1..n \subseteq T
<1> DEFINE M == {i \in 1..n : i \notin T}
<1>1. ASSUME M /= {} PROVE FALSE
  <2>1. M \subseteq Nat
    OBVIOUS
  <2>2. PICK x \in M : \A y \in M : x <= y
    <3> HIDE DEF M
    <3> QED
      BY <1>1, <2>1, Least
  <2>3. x - 1 \in M
    BY <2>2
  <2> QED
    BY <2>1, <2>2, <2>3
<1> QED
  BY <1>1

\* The running concatenation of the parts of a sequence of sequences.
Chain(ss, f) == f = [i \in 1..Len(ss) |-> IF i = 1 THEN ss[i] ELSE f[i - 1] \o ss[i]]

\* FlattenSeq is the last of its running concatenations.
LEMMA Flattened ==
  ASSUME NEW ss, Len(ss) \in Nat \ {0}
  PROVE  \E f : Chain(ss, f) /\ FlattenSeq(ss) = f[Len(ss)]
<1> DEFINE n == Len(ss)
           Up(f, m) == f = [i \in 1..m |-> IF i = 1 THEN ss[i] ELSE f[i - 1] \o ss[i]]
           T == {m \in 1..n : \E f : Up(f, m)}
<1>1. 1 \in T
  <2> DEFINE f == [i \in 1..1 |-> ss[i]]
  <2>1. Up(f, 1) /\ 1 \in 1..n
    OBVIOUS
  <2> HIDE DEF f, Up
  <2> QED
    BY <2>1
<1>2. ASSUME NEW m \in 1..(n - 1), m \in T PROVE m + 1 \in T
  <2>1. PICK f : Up(f, m)
    BY <1>2
  <2> DEFINE g == [i \in 1..(m + 1) |-> IF i <= m THEN f[i] ELSE f[m] \o ss[m + 1]]
  <2>2. ASSUME NEW i \in 1..(m + 1)
        PROVE  g[i] = IF i = 1 THEN ss[i] ELSE g[i - 1] \o ss[i]
    <3>1. CASE i <= m
      <4>1. i \in 1..m /\ g[i] = f[i] /\ (i /= 1 => g[i - 1] = f[i - 1])
        BY <3>1
      <4> QED
        BY <2>1, <4>1
    <3>2. CASE i = m + 1
      <4>1. i /= 1 /\ i - 1 = m /\ ~(i <= m) /\ m <= m /\ m \in 1..(m + 1)
        BY <3>2
      <4>2. g[i] = f[m] \o ss[m + 1] /\ g[m] = f[m]
        BY <4>1
      <4> QED
        BY <3>2, <4>1, <4>2
    <3> QED
      BY <3>1, <3>2
  <2>3. g = [i \in 1..(m + 1) |-> g[i]]
    OBVIOUS
  <2> HIDE DEF g
  <2>4. Up(g, m + 1)
    BY <2>2, <2>3
  <2>5. m + 1 \in 1..n
    BY <1>2
  <2> QED
    BY <2>4, <2>5
<1> HIDE DEF T
<1>3. 1..n \subseteq T
  BY <1>1, <1>2, Upwards
<1>4. n \in T
  BY <1>3
<1>5. \E f : Chain(ss, f)
  BY <1>4 DEF T, Chain
<1> QED
  BY <1>5 DEF FlattenSeq, Chain

\* What a sequence holds.
Held(s) == {s[j] : j \in 1..Len(s)}

\* A concatenation holds what both hold.
LEMMA HeldByBoth ==
  ASSUME NEW X, NEW s \in Seq(X), NEW t \in Seq(X)
  PROVE  s \o t \in Seq(X) /\ Held(s \o t) = Held(s) \cup Held(t)
<1>1. /\ s \o t \in Seq(X) /\ Len(s \o t) = Len(s) + Len(t) /\ Len(s) \in Nat /\ Len(t) \in Nat
      /\ \A j \in 1..(Len(s) + Len(t)) : (s \o t)[j] = IF j <= Len(s) THEN s[j] ELSE t[j - Len(s)]
  BY ConcatProperties
<1> DEFINE u == s \o t
<1> HIDE DEF u
<1>2. ASSUME NEW j \in 1..Len(u) PROVE u[j] \in Held(s) \cup Held(t)
  <2>1. CASE j <= Len(s)
    BY <1>1, <2>1 DEF Held, u
  <2>2. CASE ~(j <= Len(s))
    <3>1. j - Len(s) \in 1..Len(t) /\ u[j] = t[j - Len(s)]
      BY <1>1, <2>2 DEF u
    <3> QED
      BY <3>1 DEF Held
  <2> QED
    BY <2>1, <2>2
<1>3. ASSUME NEW j \in 1..Len(s) PROVE s[j] \in Held(u)
  <2>1. j \in 1..Len(u) /\ u[j] = s[j]
    BY <1>1 DEF u
  <2> QED
    BY <2>1 DEF Held
<1>4. ASSUME NEW j \in 1..Len(t) PROVE t[j] \in Held(u)
  <2>1. Len(s) + j \in 1..Len(u) /\ ~(Len(s) + j <= Len(s)) /\ (Len(s) + j) - Len(s) = j
    BY <1>1 DEF u
  <2>2. u[Len(s) + j] = t[j]
    BY <1>1, <2>1 DEF u
  <2> QED
    BY <2>1, <2>2 DEF Held
<1> QED
  BY <1>1, <1>2, <1>3, <1>4 DEF Held, u

\* A whole holds what its parts hold.
LEMMA FlatHolds ==
  ASSUME NEW X, NEW ss \in Seq(Seq(X))
  PROVE  FlattenSeq(ss) \in Seq(X) /\ Held(FlattenSeq(ss)) = UNION {Held(ss[i]) : i \in 1..Len(ss)}
<1>1. CASE Len(ss) = 0
  <2>1. ss = << >>
    BY <1>1
  <2> QED
    BY <1>1, <2>1 DEF FlattenSeq, Held
<1>2. CASE Len(ss) /= 0
  <2> DEFINE n == Len(ss)
  <2>1. PICK f : Chain(ss, f) /\ FlattenSeq(ss) = f[n]
    BY <1>2, Flattened
  <2> DEFINE T == {i \in 1..n : f[i] \in Seq(X) /\ Held(f[i]) = UNION {Held(ss[j]) : j \in 1..i}}
  <2>2. n \in Nat /\ 1 \in 1..n /\ \A i \in 1..n : ss[i] \in Seq(X)
    BY <1>2
  <2>3. \A i \in 1..n : f[i] = IF i = 1 THEN ss[i] ELSE f[i - 1] \o ss[i]
    BY <2>1 DEF Chain
  <2>4. 1 \in T
    BY <2>2, <2>3
  <2>5. ASSUME NEW i \in 1..(n - 1), i \in T PROVE i + 1 \in T
    <3>1. i + 1 \in 1..n /\ i + 1 /= 1 /\ (i + 1) - 1 = i
      BY <2>2
    <3>2. f[i + 1] = f[i] \o ss[i + 1]
      BY <2>3, <3>1
    <3>3. f[i + 1] \in Seq(X) /\ Held(f[i + 1]) = Held(f[i]) \cup Held(ss[i + 1])
      BY <2>2, <2>5, <3>1, <3>2, HeldByBoth
    <3>4. 1..(i + 1) = 1..i \cup {i + 1}
      BY <2>2
    <3>5. UNION {Held(ss[j]) : j \in 1..(i + 1)} = (UNION {Held(ss[j]) : j \in 1..i}) \cup Held(ss[i + 1])
      BY <3>4
    <3>6. f[i + 1] \in Seq(X) /\ Held(f[i + 1]) = UNION {Held(ss[j]) : j \in 1..(i + 1)}
      BY <2>5, <3>3, <3>5
    <3> QED
      BY <3>1, <3>6
  <2> HIDE DEF T
  <2>6. n \in T
    <3> HIDE DEF n
    <3>1. 1..n \subseteq T
      BY <2>2, <2>4, <2>5, Upwards
    <3> QED
      BY <2>2, <3>1
  <2> QED
    BY <2>1, <2>6 DEF T
<1> QED
  BY <1>1, <1>2

\* Two sequences are alike when the second has for each element of the first
\* the image of it.  Parts that are alike make wholes that are.
Like(s, t, h) == Len(t) = Len(s) /\ \A j \in 1..Len(s) : t[j][1] = h[s[j]]

\* Two concatenations.
LEMMA LikeBoth ==
  ASSUME NEW X, NEW s \in Seq(X), NEW u \in Seq(X), NEW Y, NEW t \in Seq(Y), NEW v \in Seq(Y), NEW h,
         Like(s, t, h), Like(u, v, h)
  PROVE  Like(s \o u, t \o v, h)
<1>1. Len(s) \in Nat /\ Len(u) \in Nat /\ Len(t) = Len(s) /\ Len(v) = Len(u)
  BY DEF Like
<1>2. /\ Len(s \o u) = Len(s) + Len(u)
      /\ \A j \in 1..(Len(s) + Len(u)) : (s \o u)[j] = IF j <= Len(s) THEN s[j] ELSE u[j - Len(s)]
  BY ConcatProperties
<1>3. /\ Len(t \o v) = Len(t) + Len(v)
      /\ \A j \in 1..(Len(t) + Len(v)) : (t \o v)[j] = IF j <= Len(t) THEN t[j] ELSE v[j - Len(t)]
  BY ConcatProperties
<1>4. ASSUME NEW j \in 1..(Len(s) + Len(u)) PROVE (t \o v)[j][1] = h[(s \o u)[j]]
  <2>1. CASE j <= Len(s)
    <3>1. j \in 1..Len(s) /\ (t \o v)[j] = t[j] /\ (s \o u)[j] = s[j]
      BY <1>1, <1>2, <1>3, <2>1
    <3> QED
      BY <3>1 DEF Like
  <2>2. CASE ~(j <= Len(s))
    <3>1. j - Len(s) \in 1..Len(u) /\ (t \o v)[j] = v[j - Len(s)] /\ (s \o u)[j] = u[j - Len(s)]
      BY <1>1, <1>2, <1>3, <2>2
    <3> QED
      BY <3>1 DEF Like
  <2> QED
    BY <2>1, <2>2
<1>5. Len(t \o v) = Len(s \o u) /\ Len(s \o u) = Len(s) + Len(u)
  BY <1>1, <1>2, <1>3
<1> HIDE DEF Like
<1> QED
  BY <1>4, <1>5 DEF Like

\* And any number of parts.
LEMMA FlatAlike ==
  ASSUME NEW X, NEW ss, ss \in Seq(Seq(X)), NEW Y, NEW tt, tt \in Seq(Seq(Y)), NEW h,
         Len(tt) = Len(ss), \A i \in 1..Len(ss) : Like(ss[i], tt[i], h)
  PROVE  Like(FlattenSeq(ss), FlattenSeq(tt), h)
<1>1. CASE Len(ss) = 0
  <2>1. ss = << >> /\ tt = << >>
    BY <1>1
  <2> QED
    BY <1>1, <2>1 DEF FlattenSeq, Like
<1>2. CASE Len(ss) /= 0
  <2> DEFINE n == Len(ss)
  <2>1. n \in Nat \ {0} /\ Len(tt) = n
    BY <1>2
  <2>2. PICK f : Chain(ss, f) /\ FlattenSeq(ss) = f[n]
    BY <2>1, Flattened
  <2>3. PICK g : Chain(tt, g) /\ FlattenSeq(tt) = g[n]
    BY <2>1, Flattened
  <2>4. ASSUME NEW i \in 1..n PROVE ss[i] \in Seq(X) /\ tt[i] \in Seq(Y) /\ Like(ss[i], tt[i], h)
    BY <2>1
  <2> HIDE DEF n
  <2>5. ASSUME NEW i \in 1..n
        PROVE  f[i] = (IF i = 1 THEN ss[i] ELSE f[i - 1] \o ss[i]) /\ g[i] = IF i = 1 THEN tt[i] ELSE g[i - 1] \o tt[i]
    BY <2>1, <2>2, <2>3 DEF Chain, n
  <2> DEFINE T == {i \in 1..n : f[i] \in Seq(X) /\ g[i] \in Seq(Y) /\ Like(f[i], g[i], h)}
  <2>6. 1 \in T
    <3>1. 1 \in 1..n
      BY <2>1
    <3>2. f[1] = ss[1] /\ g[1] = tt[1]
      BY <2>5, <3>1
    <3> QED
      BY <2>4, <3>1, <3>2
  <2>7. ASSUME NEW i \in 1..(n - 1), i \in T PROVE i + 1 \in T
    <3>1. i + 1 \in 1..n /\ i + 1 /= 1 /\ (i + 1) - 1 = i
      BY <2>1
    <3>2. f[i + 1] = f[i] \o ss[i + 1] /\ g[i + 1] = g[i] \o tt[i + 1]
      BY <2>5, <3>1
    <3>3. f[i + 1] \in Seq(X) /\ g[i + 1] \in Seq(Y)
      BY <2>4, <2>7, <3>1, <3>2, ConcatProperties
    <3>4. Like(f[i + 1], g[i + 1], h)
      BY <2>4, <2>7, <3>1, <3>2, LikeBoth
    <3> QED
      BY <3>1, <3>3, <3>4
  <2> HIDE DEF T
  <2>8. n \in T
    <3>1. 1..n \subseteq T
      BY <2>1, <2>6, <2>7, Upwards
    <3> QED
      BY <2>1, <3>1
  <2> QED
    BY <2>2, <2>3, <2>8 DEF T
<1> QED
  BY <1>1, <1>2

\* What RemoveAt leaves.
LEMMA Removed ==
  ASSUME NEW X, NEW s \in Seq(X), NEW k \in 1..Len(s)
  PROVE  /\ RemoveAt(s, k) \in Seq(X) /\ Len(RemoveAt(s, k)) = Len(s) - 1
         /\ \A i \in 1..(Len(s) - 1) : RemoveAt(s, k)[i] = IF i < k THEN s[i] ELSE s[i + 1]
<1> DEFINE n == Len(s)
           a == SubSeq(s, 1, k - 1)
           b == SubSeq(s, k + 1, n)
<1>1. n \in Nat /\ k \in 1..n
  OBVIOUS
<1>2. a \in Seq(X) /\ Len(a) = k - 1 /\ \A i \in 1..(k - 1) : a[i] = s[i]
  BY <1>1, SubSeqProperties
<1>3. b \in Seq(X) /\ Len(b) = n - k /\ \A i \in 1..(n - k) : b[i] = s[k + i]
  <2>1. CASE k = n
    BY <1>1, <2>1, SubSeqProperties
  <2>2. CASE k /= n
    BY <1>1, <2>2, SubSeqProperties
  <2> QED
    BY <2>1, <2>2
<1> HIDE DEF a, b
<1>4. /\ a \o b \in Seq(X) /\ Len(a \o b) = Len(a) + Len(b)
      /\ \A i \in 1..(Len(a) + Len(b)) : (a \o b)[i] = IF i <= Len(a) THEN a[i] ELSE b[i - Len(a)]
  BY <1>2, <1>3, ConcatProperties
<1>5. Len(a) + Len(b) = n - 1
  BY <1>1, <1>2, <1>3
<1>6. ASSUME NEW i \in 1..(n - 1) PROVE (a \o b)[i] = IF i < k THEN s[i] ELSE s[i + 1]
  <2>1. CASE i < k
    <3>1. i \in 1..(k - 1) /\ i <= Len(a)
      BY <1>1, <1>2, <2>1
    <3> QED
      BY <1>2, <1>4, <1>5, <2>1, <3>1
  <2>2. CASE ~(i < k)
    <3>1. ~(i <= Len(a)) /\ i - Len(a) \in 1..(n - k) /\ k + (i - Len(a)) = i + 1
      BY <1>1, <1>2, <2>2
    <3> QED
      BY <1>3, <1>4, <1>5, <2>2, <3>1
  <2> QED
    BY <2>1, <2>2
<1> QED
  BY <1>4, <1>5, <1>6 DEF RemoveAt, a, b

\* The running concatenations are as long as their parts.
Lengths(X, ss, f) ==
    \A i \in 1..Len(ss) :
        /\ f[i] \in Seq(X)
        /\ Len(f[i]) = IF i = 1 THEN Len(ss[i]) ELSE Len(f[i - 1]) + Len(ss[i])

\* Which those of FlattenSeq are.
LEMMA ChainLengths ==
  ASSUME NEW X, NEW ss, ss \in Seq(Seq(X)), NEW f, Chain(ss, f)
  PROVE  Lengths(X, ss, f)
<1> DEFINE n == Len(ss)
<1>1. n \in Nat /\ \A i \in 1..n : ss[i] \in Seq(X)
  OBVIOUS
<1>2. \A i \in 1..n : f[i] = IF i = 1 THEN ss[i] ELSE f[i - 1] \o ss[i]
  BY DEF Chain
<1> HIDE DEF n
<1> DEFINE T == {i \in 1..n : f[i] \in Seq(X)}
<1>3. CASE n /= 0
  <2>1. 1 \in T
    BY <1>1, <1>2, <1>3
  <2>2. ASSUME NEW i \in 1..(n - 1), i \in T PROVE i + 1 \in T
    <3>1. i + 1 \in 1..n /\ i + 1 /= 1 /\ (i + 1) - 1 = i
      BY <1>1
    <3>2. f[i + 1] = f[i] \o ss[i + 1]
      BY <1>2, <3>1
    <3>3. f[i] \in Seq(X) /\ ss[i + 1] \in Seq(X)
      BY <1>1, <2>2, <3>1
    <3>4. f[i + 1] \in Seq(X)
      BY <3>2, <3>3, ConcatProperties
    <3> QED
      BY <3>1, <3>4
  <2> HIDE DEF T
  <2>3. 1..n \subseteq T
    BY <1>1, <2>1, <2>2, Upwards
  <2>4. ASSUME NEW i \in 1..n, i /= 1 PROVE Len(f[i]) = Len(f[i - 1]) + Len(ss[i])
    <3>1. i - 1 \in 1..n
      BY <1>1, <2>4
    <3>2. f[i - 1] \in Seq(X) /\ ss[i] \in Seq(X) /\ f[i] = f[i - 1] \o ss[i]
      BY <1>1, <1>2, <2>3, <2>4, <3>1 DEF T
    <3> QED
      BY <3>2, ConcatProperties
  <2> QED
    BY <1>2, <2>3, <2>4 DEF T, n, Lengths
<1>4. CASE n = 0
  BY <1>4 DEF n, Lengths
<1> QED
  BY <1>3, <1>4

\* Running sums, and those that skip the k-th.
Sums(n, l, sum) ==
    /\ sum \in [1..n -> Nat]
    /\ \A i \in 1..n : sum[i] = IF i = 1 THEN l[1] ELSE sum[i - 1] + l[i]
SumsWithout(n, l, k, less) ==
    /\ less \in [1..(n - 1) -> Nat]
    /\ \A i \in 1..(n - 1) :
         less[i] = IF i = 1 THEN (IF 1 < k THEN l[1] ELSE l[2])
                            ELSE less[i - 1] + (IF i < k THEN l[i] ELSE l[i + 1])

\* A part of one is one less in the end.
LEMMA SumLess ==
  ASSUME NEW n \in Nat, n > 1, NEW k \in 1..n, NEW l \in [1..n -> Nat], l[k] = 1,
         NEW sum, Sums(n, l, sum), NEW less, SumsWithout(n, l, k, less)
  PROVE  less[n - 1] + 1 = sum[n]
<1> DEFINE T == {i \in 1..(n - 1) : less[i] = IF i < k THEN sum[i] ELSE sum[i + 1] - 1}
<1>1. 1 \in T
  <2>1. 1 \in 1..(n - 1) /\ 2 \in 1..n /\ 1 \in 1..n
    OBVIOUS
  <2>2. sum[1] = l[1] /\ sum[2] = sum[1] + l[2]
    BY <2>1 DEF Sums
  <2>3. less[1] = IF 1 < k THEN l[1] ELSE l[2]
    BY <2>1 DEF SumsWithout
  <2>4. k = 1 \/ 1 < k
    OBVIOUS
  <2> QED
    BY <2>1, <2>2, <2>3, <2>4
<1>2. ASSUME NEW i \in 1..((n - 1) - 1), i \in T PROVE i + 1 \in T
  <2>1. i + 1 \in 1..(n - 1) /\ i + 1 \in 1..n /\ i + 2 \in 1..n /\ i \in 1..n
    OBVIOUS
  <2>2. sum[i + 1] = sum[i] + l[i + 1]
    BY <2>1 DEF Sums
  <2>3. sum[i + 2] = sum[i + 1] + l[i + 2]
    BY <2>1 DEF Sums
  <2>4. less[i + 1] = less[i] + (IF i + 1 < k THEN l[i + 1] ELSE l[i + 2])
    <3>1. i + 1 /= 1 /\ (i + 1) - 1 = i /\ (i + 1) + 1 = i + 2
      BY <2>1
    <3> QED
      BY <2>1, <3>1 DEF SumsWithout
  <2>5. less[i] = IF i < k THEN sum[i] ELSE sum[i + 1] - 1
    BY <1>2
  <2> DEFINE a == sum[i]
             b == sum[i + 1]
             c == sum[i + 2]
             x == less[i]
             y == less[i + 1]
             v == l[i + 1]
             w == l[i + 2]
  <2>6. sum \in [1..n -> Nat] /\ less \in [1..(n - 1) -> Nat]
    BY DEF Sums, SumsWithout
  <2>7. a \in Nat /\ b \in Nat /\ c \in Nat /\ x \in Nat /\ y \in Nat /\ v \in Nat /\ w \in Nat
    BY <2>1, <2>6
  <2>8. b = a + v /\ c = b + w
    BY <2>2, <2>3
  <2>9. y = x + (IF i + 1 < k THEN v ELSE w) /\ x = IF i < k THEN a ELSE b - 1
    BY <2>4, <2>5
  <2>10. i + 1 = k => v = 1
    OBVIOUS
  <2>11. i \in Nat /\ k \in Nat
    OBVIOUS
  <2>12. y = IF i + 1 < k THEN b ELSE c - 1
    <3> HIDE DEF a, b, c, x, y, v, w
    <3>1. CASE i + 1 < k
      <4>1. i < k
        BY <2>11, <3>1
      <4> QED
        BY <2>8, <2>9, <3>1, <4>1
    <3>2. CASE i + 1 = k
      <4>1. i < k /\ ~(i + 1 < k)
        BY <2>11, <3>2
      <4>2. y = x + w /\ x = a /\ v = 1
        BY <2>9, <2>10, <3>2, <4>1
      <4>3. y = c - 1
        BY <2>7, <2>8, <4>2
      <4> QED
        BY <4>1, <4>3
    <3>3. CASE i + 1 > k
      <4>1. ~(i < k) /\ ~(i + 1 < k)
        BY <2>11, <3>3
      <4>2. y = x + w /\ x = b - 1
        BY <2>9, <4>1
      <4>3. y = c - 1
        BY <2>7, <2>8, <4>2
      <4> QED
        BY <4>1, <4>3
    <3> QED
      BY <2>11, <3>1, <3>2, <3>3
  <2>13. (i + 1) + 1 = i + 2
    OBVIOUS
  <2> QED
    BY <2>1, <2>12, <2>13
<1>3. n - 1 \in T
  <2>1. n - 1 \in Nat /\ n - 1 \in 1..(n - 1)
    OBVIOUS
  <2> HIDE DEF T
  <2>2. 1..(n - 1) \subseteq T
    BY <1>1, <1>2, <2>1, Upwards
  <2> QED
    BY <2>1, <2>2
<1>4. less[n - 1] = IF n - 1 < k THEN sum[n - 1] ELSE sum[n] - 1
  <2>1. less[n - 1] = IF n - 1 < k THEN sum[n - 1] ELSE sum[(n - 1) + 1] - 1
    BY <1>3
  <2>2. (n - 1) + 1 = n
    OBVIOUS
  <2> QED
    BY <2>1, <2>2
<1>5. sum[n] = sum[n - 1] + l[n] /\ sum[n] \in Nat /\ sum[n - 1] \in Nat
  <2>1. n \in 1..n /\ n /= 1 /\ n - 1 \in 1..n
    OBVIOUS
  <2> QED
    BY <2>1 DEF Sums
<1>6. n - 1 < k => l[n] = 1
  <2>1. n - 1 < k => n = k
    OBVIOUS
  <2> QED
    BY <2>1
<1> QED
  BY <1>4, <1>5, <1>6

\* A whole is shorter by one without a part of one.
LEMMA FlatLess ==
  ASSUME NEW X, NEW ss, ss \in Seq(Seq(X)), NEW k, k \in 1..Len(ss), Len(ss[k]) = 1
  PROVE  Len(FlattenSeq(RemoveAt(ss, k))) + 1 = Len(FlattenSeq(ss))
<1> DEFINE n == Len(ss)
           rs == RemoveAt(ss, k)
<1>1. /\ rs \in Seq(Seq(X)) /\ Len(rs) = n - 1
      /\ \A i \in 1..(n - 1) : rs[i] = IF i < k THEN ss[i] ELSE ss[i + 1]
  BY Removed
<1> HIDE DEF rs
<1>2. n \in Nat \ {0} /\ k \in 1..n
  OBVIOUS
<1>3. PICK f : Chain(ss, f) /\ FlattenSeq(ss) = f[n]
  BY <1>2, Flattened
<1>4. \A i \in 1..n : /\ f[i] \in Seq(X)
                      /\ Len(f[i]) = IF i = 1 THEN Len(ss[i]) ELSE Len(f[i - 1]) + Len(ss[i])
  <2>1. Lengths(X, ss, f)
    BY <1>3, ChainLengths
  <2> QED
    BY <2>1 DEF Lengths
<1>5. CASE n = 1
  <2>1. rs = << >> /\ FlattenSeq(rs) = << >>
    BY <1>1, <1>5 DEF FlattenSeq
  <2>2. k = 1 /\ Len(f[1]) = 1
    BY <1>2, <1>4, <1>5
  <2> QED
    BY <1>3, <1>5, <2>1, <2>2 DEF rs
<1>6. CASE n /= 1
  <2>1. n > 1 /\ n - 1 \in Nat \ {0}
    BY <1>2, <1>6
  <2>2. PICK g : Chain(rs, g) /\ FlattenSeq(rs) = g[n - 1]
    BY <1>1, <2>1, Flattened
  <2>3. \A i \in 1..(n - 1) : /\ g[i] \in Seq(X)
                               /\ Len(g[i]) = IF i = 1 THEN Len(rs[i]) ELSE Len(g[i - 1]) + Len(rs[i])
    <3>1. Lengths(X, rs, g)
      BY <1>1, <2>2, ChainLengths
    <3> QED
      BY <1>1, <3>1 DEF Lengths
  <2> DEFINE l == [i \in 1..n |-> Len(ss[i])]
             sum == [i \in 1..n |-> Len(f[i])]
             less == [i \in 1..(n - 1) |-> Len(g[i])]
  <2>4. l \in [1..n -> Nat] /\ l[k] = 1
    BY <1>2
  <2>5. sum \in [1..n -> Nat] /\ less \in [1..(n - 1) -> Nat]
    BY <1>4, <2>3
  <2>6. ASSUME NEW i \in 1..n PROVE sum[i] = IF i = 1 THEN l[1] ELSE sum[i - 1] + l[i]
    <3>1. i /= 1 => i - 1 \in 1..n
      BY <1>2
    <3> QED
      BY <1>4, <3>1
  <2>7. ASSUME NEW i \in 1..(n - 1)
        PROVE  less[i] = IF i = 1 THEN (IF 1 < k THEN l[1] ELSE l[2])
                                  ELSE less[i - 1] + (IF i < k THEN l[i] ELSE l[i + 1])
    <3>1. (i /= 1 => i - 1 \in 1..(n - 1)) /\ i \in 1..n /\ i + 1 \in 1..n /\ (i = 1 => i + 1 = 2)
      BY <1>2
    <3>2. Len(rs[i]) = IF i < k THEN l[i] ELSE l[i + 1]
      BY <1>1, <3>1
    <3> QED
      BY <2>3, <3>1, <3>2
  <2>8. sum[n] = Len(FlattenSeq(ss)) /\ less[n - 1] = Len(FlattenSeq(rs))
    BY <1>2, <1>3, <2>1, <2>2
  <2> HIDE DEF l, sum, less, n
  <2>9. Sums(n, l, sum) /\ SumsWithout(n, l, k, less)
    BY <2>5, <2>6, <2>7 DEF Sums, SumsWithout
  <2>10. less[n - 1] + 1 = sum[n]
    BY <1>2, <2>1, <2>4, <2>9, SumLess
  <2> QED
    BY <2>8, <2>10 DEF rs
<1> QED
  BY <1>5, <1>6

-----------------------------------------------------------------------------
(* The variant that cmd/conngen writes of a function.                      *)

\* The transaction's group is the first of its type, and has one name.
LEMMA SeamFound ==
  ASSUME NEW p, NEW d, Declared(d), Follows(p, d), NEW k, k = QueryableField(p, d)
  PROVE  k \in 1..Len(d.fields) /\ IsQueryable(p, d.fields[k].type) /\ Len(d.fields[k].names) = 1
<1> DEFINE M == {i \in DOMAIN d.fields : IsQueryable(p, d.fields[i].type)}
           first == CHOOSE i \in M : \A j \in M : i <= j
<1>1. k /= -1 /\ k = IF M = {} THEN -1 ELSE IF Len(d.fields[first].names) = 1 THEN first ELSE -1
  BY DEF Follows, QueryableField
<1>2. DOMAIN d.fields = 1..Len(d.fields) /\ Len(d.fields) \in Nat
  BY DEF Declared
<1>3. M \subseteq Nat
  BY <1>2
<1>4. M /= {}
  BY <1>1
<1> HIDE DEF M
<1>5. \E i \in M : \A j \in M : i <= j
  BY <1>3, <1>4, Least
<1>6. first \in M
  BY <1>5
<1> HIDE DEF first
<1>7. k = first /\ Len(d.fields[first].names) = 1
  BY <1>1, <1>4
<1> QED
  BY <1>2, <1>6, <1>7 DEF M

\* The names of a function's parameters, group by group, no two the same.
NamesOf(fields) == [i \in DOMAIN fields |-> fields[i].names]
Apart(names) ==
    \A f, g \in 1..Len(names) : \A i \in 1..Len(names[f]), j \in 1..Len(names[g]) :
        names[f][i] = names[g][j] => f = g /\ i = j

\* The compiler's rule, in these terms.
LEMMA DeclaredNames ==
  ASSUME NEW d, Declared(d), NEW F, F = d.fields
  PROVE  /\ Len(F) \in Nat /\ DOMAIN F = 1..Len(F) /\ F \in Seq([names : Seq(STRING), type : STRING])
         /\ NamesOf(F) \in Seq(Seq(STRING)) /\ Len(NamesOf(F)) = Len(F) /\ Apart(NamesOf(F))
         /\ \A i \in 1..Len(F) : NamesOf(F)[i] = F[i].names /\ F[i].names \in Seq(STRING)
<1>1. F \in Seq([names : Seq(STRING), type : STRING])
  BY DEF Declared
<1>2. Len(F) \in Nat /\ DOMAIN F = 1..Len(F)
  BY <1>1
<1>3. ASSUME NEW i \in 1..Len(F) PROVE F[i].names \in Seq(STRING)
  <2>1. F[i] \in [names : Seq(STRING), type : STRING]
    BY <1>1, ElementOfSeq
  <2> QED
    BY <2>1
<1>4. /\ NamesOf(F) \in Seq(Seq(STRING)) /\ Len(NamesOf(F)) = Len(F)
      /\ \A i \in 1..Len(F) : NamesOf(F)[i] = F[i].names
  BY <1>2, <1>3 DEF NamesOf
<1>5. \A i \in 1..Len(F) : DOMAIN F[i].names = 1..Len(F[i].names)
  BY <1>3
<1>6. \A f, g \in DOMAIN d.fields : \A i \in DOMAIN d.fields[f].names, j \in DOMAIN d.fields[g].names :
         d.fields[f].names[i] = d.fields[g].names[j] => f = g /\ i = j
  BY DEF Declared
<1>7. Apart(NamesOf(F))
  <2> DEFINE N == NamesOf(F)
  <2> HIDE DEF N
  <2>1. Len(N) = Len(F) /\ \A i \in 1..Len(F) : N[i] = F[i].names
    BY <1>4 DEF N
  <2>2. ASSUME NEW f \in 1..Len(N), NEW g \in 1..Len(N), NEW i \in 1..Len(N[f]), NEW j \in 1..Len(N[g]),
               N[f][i] = N[g][j]
        PROVE  f = g /\ i = j
    <3>1. N[f] = F[f].names /\ N[g] = F[g].names /\ f \in 1..Len(F) /\ g \in 1..Len(F)
      BY <2>1
    <3>2. i \in 1..Len(F[f].names) /\ j \in 1..Len(F[g].names) /\ F[f].names[i] = F[g].names[j]
      BY <2>2, <3>1
    <3>3. f \in DOMAIN d.fields /\ g \in DOMAIN d.fields
      BY <1>2, <3>1
    <3>4. i \in DOMAIN d.fields[f].names /\ j \in DOMAIN d.fields[g].names
      BY <1>5, <3>1, <3>2
    <3>5. d.fields[f].names[i] = d.fields[g].names[j]
      BY <3>2
    <3> QED
      BY <1>6, <3>3, <3>4, <3>5
  <2> QED
    BY <2>2 DEF Apart, N
<1> QED
  BY <1>1, <1>2, <1>3, <1>4, <1>7

\* Without the group of one name the others are left, and that name is not.
LEMMA WithoutOne ==
  ASSUME NEW X, NEW N, N \in Seq(Seq(X)), Apart(N), NEW k, k \in 1..Len(N), Len(N[k]) = 1,
         NEW own, own = N[k][1]
  PROVE  /\ Len(FlattenSeq(RemoveAt(N, k))) + 1 = Len(FlattenSeq(N))
         /\ FlattenSeq(N) \in Seq(X) /\ FlattenSeq(RemoveAt(N, k)) \in Seq(X)
         /\ Held(FlattenSeq(RemoveAt(N, k))) = Held(FlattenSeq(N)) \ {own}
         /\ own \in Held(FlattenSeq(N))
         /\ \A i \in 1..Len(N) : own \in Held(N[i]) => i = k
<1> DEFINE n == Len(N)
           R == RemoveAt(N, k)
<1>1. n \in Nat /\ k \in 1..n
  OBVIOUS
<1>2. Held(N[k]) = {own}
  BY DEF Held
<1>3. ASSUME NEW i \in 1..n, own \in Held(N[i]) PROVE i = k
  <2>1. PICK j \in 1..Len(N[i]) : N[i][j] = N[k][1]
    BY <1>3 DEF Held
  <2>2. 1 \in 1..Len(N[k])
    OBVIOUS
  <2> QED
    BY <1>1, <2>1, <2>2 DEF Apart
<1>4. Len(FlattenSeq(R)) + 1 = Len(FlattenSeq(N))
  BY FlatLess
<1>5. /\ R \in Seq(Seq(X)) /\ Len(R) = n - 1
      /\ \A i \in 1..(n - 1) : R[i] = IF i < k THEN N[i] ELSE N[i + 1]
  BY Removed
<1>6. FlattenSeq(N) \in Seq(X) /\ Held(FlattenSeq(N)) = UNION {Held(N[i]) : i \in 1..n}
  BY FlatHolds
<1> HIDE DEF R
<1>7. FlattenSeq(R) \in Seq(X) /\ Held(FlattenSeq(R)) = UNION {Held(R[i]) : i \in 1..Len(R)}
  BY <1>5, FlatHolds
<1> HIDE DEF n
<1>8. ASSUME NEW i \in 1..n, i /= k PROVE \E j \in 1..(n - 1) : R[j] = N[i]
  <2>1. CASE i < k
    <3>1. i \in 1..(n - 1)
      BY <1>1, <2>1
    <3> QED
      BY <1>5, <2>1, <3>1
  <2>2. CASE i > k
    <3>1. i - 1 \in 1..(n - 1) /\ ~(i - 1 < k) /\ (i - 1) + 1 = i
      BY <1>1, <2>2
    <3> QED
      BY <1>5, <3>1
  <2> QED
    BY <1>1, <1>8, <2>1, <2>2
<1>9. ASSUME NEW j \in 1..(n - 1) PROVE \E i \in 1..n : i /= k /\ R[j] = N[i]
  <2>1. CASE j < k
    <3>1. j \in 1..n /\ j /= k
      BY <1>1, <2>1
    <3> QED
      BY <1>5, <2>1, <3>1
  <2>2. CASE ~(j < k)
    <3>1. j + 1 \in 1..n /\ j + 1 /= k
      BY <1>1, <2>2
    <3> QED
      BY <1>5, <2>2, <3>1
  <2> QED
    BY <2>1, <2>2
<1>10. ASSUME NEW x, x \in Held(FlattenSeq(R)) PROVE x \in Held(FlattenSeq(N)) \ {own}
  <2>1. PICK j \in 1..(n - 1) : x \in Held(R[j])
    BY <1>5, <1>7, <1>10
  <2>2. PICK i \in 1..n : i /= k /\ R[j] = N[i]
    BY <1>9
  <2> QED
    BY <1>3, <1>6, <2>1, <2>2
<1>11. ASSUME NEW x, x \in Held(FlattenSeq(N)) \ {own} PROVE x \in Held(FlattenSeq(R))
  <2>1. PICK i \in 1..n : x \in Held(N[i])
    BY <1>6, <1>11
  <2>2. i /= k
    BY <1>2, <1>11, <2>1
  <2>3. PICK j \in 1..(n - 1) : R[j] = N[i]
    BY <1>8, <2>2
  <2> QED
    BY <1>5, <1>7, <2>1, <2>3
<1>12. own \in Held(FlattenSeq(N))
  BY <1>1, <1>2, <1>6
<1> QED
  BY <1>3, <1>4, <1>6, <1>7, <1>10, <1>11, <1>12 DEF R, n

\* The names of the groups without one are the names without that one's.
LEMMA NamesWithout ==
  ASSUME NEW G, NEW F, F \in Seq(G), NEW k, k \in 1..Len(F)
  PROVE  NamesOf(RemoveAt(F, k)) = RemoveAt(NamesOf(F), k)
<1> DEFINE n == Len(F)
           R == RemoveAt(F, k)
           N == NamesOf(F)
           Y == {F[i].names : i \in 1..n}
<1>1. n \in Nat /\ DOMAIN F = 1..n
  OBVIOUS
<1>2. N \in Seq(Y) /\ Len(N) = n /\ \A i \in 1..n : N[i] = F[i].names
  BY <1>1 DEF NamesOf
<1>3. R \in Seq(G) /\ Len(R) = n - 1 /\ \A i \in 1..(n - 1) : R[i] = IF i < k THEN F[i] ELSE F[i + 1]
  BY Removed
<1> HIDE DEF N, Y, R
<1>4. RemoveAt(N, k) \in Seq(Y) /\ Len(RemoveAt(N, k)) = n - 1
      /\ \A i \in 1..(n - 1) : RemoveAt(N, k)[i] = IF i < k THEN N[i] ELSE N[i + 1]
  BY <1>2, Removed
<1>5. DOMAIN R = 1..(n - 1) /\ DOMAIN RemoveAt(N, k) = 1..(n - 1)
  BY <1>3, <1>4
<1>6. ASSUME NEW i \in 1..(n - 1) PROVE R[i].names = RemoveAt(N, k)[i]
  <2>1. i \in 1..n /\ i + 1 \in 1..n
    BY <1>1
  <2> QED
    BY <1>2, <1>3, <1>4, <2>1
<1> DEFINE S == RemoveAt(N, k)
<1>7. S = [i \in 1..(n - 1) |-> S[i]]
  BY <1>4, <1>5
<1> HIDE DEF S
<1>8. NamesOf(R) = S
  BY <1>5, <1>6, <1>7 DEF NamesOf, S
<1> QED
  BY <1>8 DEF R, S, N

\* The arguments of a call, group by group, and what each name is passed.
Args(conn) == {<<x>> : x \in STRING} \cup {<<x, "...">> : x \in STRING} \cup {<<conn>>}
CallParts(fields, seam, conn) ==
    [i \in DOMAIN fields |-> IF i = seam THEN << <<conn>> >> ELSE GroupArgs(fields[i])]
Passed(own, conn) == [x \in STRING |-> IF x = own THEN conn ELSE x]

\* A group is passed on name by name.
LEMMA Grouped ==
  ASSUME NEW g, g.names \in Seq(STRING), NEW conn
  PROVE  /\ GroupArgs(g) \in Seq(Args(conn)) /\ Len(GroupArgs(g)) = Len(g.names)
         /\ \A j \in 1..Len(g.names) : GroupArgs(g)[j][1] = g.names[j]
<1> DEFINE s == g.names
           e(x) == IF g.type = "...T" THEN <<x, "...">> ELSE <<x>>
<1>1. Len(s) \in Nat /\ DOMAIN s = 1..Len(s) /\ \A j \in 1..Len(s) : s[j] \in STRING
  OBVIOUS
<1>2. \A x \in STRING : e(x) \in Args(conn) /\ e(x)[1] = x
  BY DEF Args
<1>3. GroupArgs(g) = [j \in 1..Len(s) |-> e(s[j])]
  BY <1>1 DEF GroupArgs
<1> HIDE DEF e, s
<1>4. GroupArgs(g) \in Seq(Args(conn)) /\ Len(GroupArgs(g)) = Len(s)
  <2> DEFINE A == Args(conn)
             t == GroupArgs(g)
             m == Len(s)
  <2>1. \A j \in 1..m : e(s[j]) \in A
    BY <1>1, <1>2
  <2>2. t = [j \in 1..m |-> e(s[j])] /\ m \in Nat
    BY <1>1, <1>3
  <2> HIDE DEF A, t, m
  <2>3. t \in [1..m -> A]
    BY <2>1, <2>2
  <2>4. t \in Seq(A) /\ Len(t) = m
    BY <2>2, <2>3
  <2> QED
    BY <2>4 DEF A, t, m
<1> QED
  BY <1>1, <1>2, <1>3, <1>4 DEF s

\* Every name's argument has the name's place: the pool for the transaction.
LEMMA ArgsAlike ==
  ASSUME NEW d, Declared(d), NEW F, F = d.fields, NEW k, k \in 1..Len(F), Len(F[k].names) = 1,
         NEW own, own = F[k].names[1], NEW conn
  PROVE  /\ CallParts(F, k, conn) \in Seq(Seq(Args(conn)))
         /\ Like(FlattenSeq(NamesOf(F)), FlattenSeq(CallParts(F, k, conn)), Passed(own, conn))
<1> DEFINE N == NamesOf(F)
           A == CallParts(F, k, conn)
           h == Passed(own, conn)
           n == Len(F)
           Y == Args(conn)
<1>1. /\ n \in Nat /\ DOMAIN F = 1..n /\ N \in Seq(Seq(STRING)) /\ Len(N) = n /\ Apart(N)
      /\ \A i \in 1..n : N[i] = F[i].names /\ F[i].names \in Seq(STRING)
  BY DeclaredNames
<1>2. A = [i \in 1..n |-> IF i = k THEN << <<conn>> >> ELSE GroupArgs(F[i])]
  BY <1>1 DEF CallParts
<1>3. \A x \in STRING : h[x] = IF x = own THEN conn ELSE x
  BY DEF Passed
<1> HIDE DEF h, N
<1>4. ASSUME NEW i \in 1..n, i /= k PROVE A[i] \in Seq(Y) /\ Like(N[i], A[i], h)
  <2>1. N[i] = F[i].names /\ F[i].names \in Seq(STRING) /\ A[i] = GroupArgs(F[i])
    BY <1>1, <1>2, <1>4
  <2>2. /\ A[i] \in Seq(Y) /\ Len(A[i]) = Len(N[i])
        /\ \A j \in 1..Len(N[i]) : A[i][j][1] = N[i][j]
    <3> DEFINE g == F[i]
    <3>1. g.names \in Seq(STRING) /\ N[i] = g.names /\ A[i] = GroupArgs(g)
      BY <2>1
    <3> HIDE DEF g, A
    <3>2. /\ GroupArgs(g) \in Seq(Y) /\ Len(GroupArgs(g)) = Len(g.names)
          /\ \A j \in 1..Len(g.names) : GroupArgs(g)[j][1] = g.names[j]
      BY <3>1, Grouped
    <3> QED
      BY <3>1, <3>2
  <2>3. ASSUME NEW j \in 1..Len(N[i]) PROVE N[i][j] \in STRING /\ N[i][j] /= own
    <3>1. N[i][j] \in STRING
      BY <2>1
    <3>2. N[i][j] /= N[k][1]
      <4>1. i \in 1..Len(N) /\ k \in 1..Len(N) /\ 1 \in 1..Len(N[k])
        BY <1>1
      <4> QED
        BY <1>1, <1>4, <4>1 DEF Apart
    <3> QED
      BY <1>1, <3>1, <3>2
  <2> HIDE DEF A
  <2> QED
    BY <1>3, <2>2, <2>3 DEF Like
<1>5. A[k] \in Seq(Y) /\ Like(N[k], A[k], h)
  <2>0. N[k] = F[k].names /\ N[k] \in Seq(STRING)
    BY <1>1
  <2>1. A[k] = << <<conn>> >> /\ Len(N[k]) = 1 /\ N[k][1] = own /\ own \in STRING
    <3>1. A[k] = << <<conn>> >>
      BY <1>2
    <3>2. Len(N[k]) = 1 /\ N[k][1] = own
      BY <2>0
    <3>3. N[k][1] \in STRING
      BY <2>0, <3>2
    <3> QED
      BY <3>1, <3>2, <3>3
  <2>2. <<conn>> \in Y
    BY DEF Args
  <2>3. Len(A[k]) = 1 /\ A[k][1][1] = conn
    BY <2>1
  <2> HIDE DEF Y
  <2>4. A[k] \in Seq(Y)
    BY <2>1, <2>2
  <2> HIDE DEF A
  <2> QED
    BY <1>3, <2>1, <2>3, <2>4 DEF Like
<1>6. A \in Seq(Seq(Y)) /\ Len(A) = n /\ \A i \in 1..n : Like(N[i], A[i], h)
  <2> DEFINE Z == Seq(Y)
  <2>1. \A i \in 1..n : A[i] \in Z /\ Like(N[i], A[i], h)
    BY <1>4, <1>5
  <2>2. DOMAIN A = 1..n /\ A = [i \in 1..n |-> A[i]]
    BY <1>2
  <2> HIDE DEF A, Z, n
  <2>3. A \in [1..n -> Z]
    BY <2>1, <2>2
  <2>4. A \in Seq(Z) /\ Len(A) = n
    BY <1>1, <2>2, <2>3
  <2> QED
    BY <2>1, <2>4 DEF Z
<1> HIDE DEF A, Y
<1>7. Like(FlattenSeq(N), FlattenSeq(A), h)
  BY <1>1, <1>6, FlatAlike
<1> QED
  BY <1>6, <1>7 DEF A, Y, N, h

GroupOf(fields, x) == CHOOSE f \in {fields[i] : i \in DOMAIN fields} : \E j \in DOMAIN f.names : f.names[j] = x
IsSeam(p, fields, rest, x) == IsQueryable(p, GroupOf(fields, x).type) /\ ~\E i \in DOMAIN rest : rest[i] = x

Loses(names, rest, x) == Held(rest) = Held(names) \ {x}

\* Only the transaction's name is of the seam type and not asked for.
LEMMA OnlySeam ==
  ASSUME NEW p, NEW d, Declared(d), Follows(p, d), NEW k, k = QueryableField(p, d), NEW rest, rest \in Seq(STRING),
         NEW names, Loses(names, rest, d.fields[k].names[1])
  PROVE  \A x \in Held(names) : IsSeam(p, d.fields, rest, x) <=> x = d.fields[k].names[1]
<1> DEFINE F == d.fields
           own == F[k].names[1]
<1>0. k \in 1..Len(F) /\ IsQueryable(p, F[k].type) /\ Len(F[k].names) = 1
  BY SeamFound
<1> SUFFICES ASSUME NEW x \in Held(names) PROVE IsSeam(p, F, rest, x) <=> x = own
  OBVIOUS
<1> DEFINE N == NamesOf(F)
           f == GroupOf(F, x)
           n == Len(F)
<1>1. /\ n \in Nat /\ DOMAIN F = 1..n /\ N \in Seq(Seq(STRING)) /\ Len(N) = n /\ Apart(N)
      /\ \A i \in 1..n : N[i] = F[i].names /\ F[i].names \in Seq(STRING)
  BY DeclaredNames
<1> HIDE DEF N
<1>2. (\E i \in DOMAIN rest : rest[i] = x) <=> x \in Held(rest)
  BY DEF Held
<1>3. ASSUME x = own PROVE f = F[k]
  <2>1. F[k] \in {F[i] : i \in DOMAIN F} /\ \E j \in DOMAIN F[k].names : F[k].names[j] = x
    <3>1. 1 \in DOMAIN F[k].names
      BY <1>0, <1>1
    <3> QED
      BY <1>0, <1>1, <1>3, <3>1
  <2>2. ASSUME NEW g \in {F[i] : i \in DOMAIN F}, \E j \in DOMAIN g.names : g.names[j] = x PROVE g = F[k]
    <3>1. PICK i \in 1..n : g = F[i]
      BY <1>1
    <3>2. PICK j \in 1..Len(N[i]) : N[i][j] = own
      <4>1. N[i] = g.names /\ DOMAIN N[i] = 1..Len(N[i])
        BY <1>1, <3>1
      <4> QED
        BY <1>3, <2>2, <4>1
    <3>3. N[k][1] = own /\ Len(N[k]) = 1 /\ i \in 1..Len(N) /\ k \in 1..Len(N)
      BY <1>0, <1>1
    <3>5. 1 \in 1..Len(N[k])
      BY <3>3
    <3>4. i = k
      <4>1. N[i][j] = N[k][1] /\ Apart(N)
        BY <1>1, <3>2, <3>3
      <4> HIDE DEF F, own, n
      <4> QED
        BY <3>2, <3>3, <3>5, <4>1 DEF Apart
    <3> QED
      BY <3>1, <3>4
  <2> DEFINE G == {F[i] : i \in DOMAIN F}
             Has(g) == \E j \in DOMAIN g.names : g.names[j] = x
  <2>3. f = CHOOSE g \in G : Has(g)
    BY DEF GroupOf
  <2>4. F[k] \in G /\ Has(F[k]) /\ \A g \in G : Has(g) => g = F[k]
    BY <2>1, <2>2
  <2> HIDE DEF G, Has, f
  <2> QED
    BY <2>3, <2>4
<1> HIDE DEF f
<1>4. IsSeam(p, F, rest, x) <=> IsQueryable(p, f.type) /\ x \notin Held(rest)
  BY <1>2 DEF IsSeam, f
<1> QED
  BY <1>0, <1>3, <1>4 DEF Loses

\* CallsItsTx, in the terms of these lemmas.
LEMMA CallsByNames ==
  ASSUME NEW w, NEW d, NEW p
  PROVE  CallsItsTx(w, d, p) <=>
            LET names == FlattenSeq(NamesOf(d.fields))
                rest == FlattenSeq(NamesOf(w.params))
            IN  /\ w.name = d.name
                /\ Len(w.calls) = Len(names)
                /\ \A i \in DOMAIN w.calls :
                     IF IsSeam(p, d.fields, rest, names[i]) THEN OwnConn(p) \/ w.calls[i][1] = PoolIn(p)
                     ELSE w.calls[i][1] = names[i]
                /\ Len(rest) + 1 = Len(names)
                /\ \E i \in DOMAIN names : IsSeam(p, d.fields, rest, names[i])
BY Zenon DEF CallsItsTx, NamesOf, IsSeam, GroupOf

\* connExpr looks for a declaration of Conn and never asks which package it is
\* in: that names the pool in db, which declares it, and elsewhere unless there
\* is a Conn of the package's own.
LEMMA NamesPool ==
  ASSUME NEW p \in Packages, source[p] \in Sources[p]
  PROVE  OwnConn(p) \/ ConnExpr(source[p]) = PoolIn(p)
<1>1. CASE p = Pool
  <2>1. DeclaresTopLevel(source[p], "Conn")
    BY <1>1, PoolDeclared
  <2> QED
    BY <1>1, <2>1 DEF ConnExpr, PoolIn
<1>2. CASE p /= Pool
  BY <1>2 DEF ConnExpr, PoolIn, OwnConn
<1> QED
  BY <1>1, <1>2

\* The calls of a variant have an argument for every name, it asks for the names
\* but one, and that one's argument is connExpr's.
LEMMA PassesNames ==
  ASSUME NEW p, NEW decls, NEW d, Declared(d), Follows(p, d), OwnConn(p) \/ ConnExpr(decls) = PoolIn(p)
  PROVE  CallsItsTx(Wrapper(p, decls, d), d, p)
<1> DEFINE F == d.fields
           k == QueryableField(p, d)
           N == NamesOf(F)
           names == FlattenSeq(N)
           conn == ConnExpr(decls)
           A == CallParts(F, k, conn)
           own == F[k].names[1]
           rest == FlattenSeq(NamesOf(RemoveAt(F, k)))
           h == Passed(own, conn)
           Seam(x) == IsSeam(p, F, rest, x)
<1>1. k \in 1..Len(F) /\ IsQueryable(p, F[k].type) /\ Len(F[k].names) = 1
  BY SeamFound
<1>3. /\ Len(F) \in Nat /\ F \in Seq([names : Seq(STRING), type : STRING])
      /\ N \in Seq(Seq(STRING)) /\ Len(N) = Len(F) /\ Apart(N)
      /\ \A i \in 1..Len(F) : N[i] = F[i].names
  BY DeclaredNames
<1> HIDE DEF k, conn
<1>4. A \in Seq(Seq(Args(conn))) /\ Like(names, FlattenSeq(A), h)
  BY <1>1, ArgsAlike
<1>5. own = N[k][1] /\ k \in 1..Len(N) /\ Len(N[k]) = 1
  BY <1>1, <1>3
<1>6. NamesOf(RemoveAt(F, k)) = RemoveAt(N, k)
  BY <1>1, <1>3, NamesWithout
<1>7. /\ Len(rest) + 1 = Len(names) /\ names \in Seq(STRING) /\ rest \in Seq(STRING)
      /\ Held(rest) = Held(names) \ {own} /\ own \in Held(names)
  <2> DEFINE less == FlattenSeq(RemoveAt(N, k))
  <2>1. rest = less
    BY <1>6
  <2> HIDE DEF N, own, rest
  <2>2. /\ Len(less) + 1 = Len(names) /\ names \in Seq(STRING) /\ less \in Seq(STRING)
        /\ Held(less) = Held(names) \ {own} /\ own \in Held(names)
    <3>1. N \in Seq(Seq(STRING)) /\ Apart(N)
      BY <1>3
    <3> QED
      BY <1>5, <3>1, WithoutOne
  <2> QED
    BY <2>1, <2>2
<1>8. \A x \in Held(names) : Seam(x) <=> x = own
  <2> HIDE DEF rest, names
  <2>1. Loses(names, rest, d.fields[k].names[1]) /\ k = QueryableField(p, d)
    BY <1>7 DEF Loses, k
  <2>2. rest \in Seq(STRING)
    BY <1>7
  <2>3. \A x \in Held(names) : IsSeam(p, d.fields, rest, x) <=> x = d.fields[k].names[1]
    BY <2>1, <2>2, OnlySeam
  <2> QED
    BY <2>3
<1> DEFINE w == Wrapper(p, decls, d)
<1>9. w.name = d.name /\ w.params = RemoveAt(F, k) /\ w.calls = FlattenSeq(A)
  BY DEF Wrapper, PrintFields, CallArgs, CallParts, k, conn
<1>10. FlattenSeq(A) \in Seq(Args(conn))
  BY <1>4, FlatHolds
<1>11. Len(FlattenSeq(A)) = Len(names) /\ \A i \in 1..Len(names) : FlattenSeq(A)[i][1] = h[names[i]]
  BY <1>4 DEF Like
<1> DEFINE calls == FlattenSeq(A)
<1>12. DOMAIN calls = 1..Len(names) /\ DOMAIN names = 1..Len(names)
  BY <1>7, <1>10, <1>11
<1> HIDE DEF calls, rest, names, Seam, own
<1>13. ASSUME NEW i \in 1..Len(names) PROVE names[i] \in Held(names) /\ names[i] \in STRING
  BY <1>7, <1>13 DEF Held
<1>14. ASSUME NEW i \in DOMAIN calls PROVE calls[i][1] = IF Seam(names[i]) THEN conn ELSE names[i]
  <2>1. calls[i][1] = h[names[i]] /\ names[i] \in Held(names) /\ names[i] \in STRING
    BY <1>11, <1>12, <1>13 DEF calls
  <2> QED
    BY <1>8, <2>1 DEF Passed
<1>15. \E i \in DOMAIN names : Seam(names[i])
  <2>1. PICK i \in 1..Len(names) : names[i] = own
    BY <1>7 DEF Held
  <2> QED
    BY <1>7, <1>8, <1>12, <2>1
<1> HIDE DEF w
<1>16. names = FlattenSeq(NamesOf(d.fields)) /\ rest = FlattenSeq(NamesOf(w.params))
  BY <1>9 DEF names, rest
<1>17. w.name = d.name /\ w.calls = calls
  BY <1>9 DEF calls
<1>18. Len(w.calls) = Len(names) /\ Len(rest) + 1 = Len(names)
  BY <1>7, <1>11, <1>17 DEF calls
<1>19. /\ \A i \in DOMAIN w.calls :
            IF IsSeam(p, d.fields, rest, names[i]) THEN OwnConn(p) \/ w.calls[i][1] = PoolIn(p)
            ELSE w.calls[i][1] = names[i]
       /\ \E i \in DOMAIN names : IsSeam(p, d.fields, rest, names[i])
  BY <1>14, <1>15, <1>17 DEF Seam, conn
<1>20. CallsItsTx(w, d, p)
  BY <1>16, <1>17, <1>18, <1>19, CallsByNames
<1> QED
  BY <1>20 DEF w

\* Foo calls FooTx on the pool - or, in a package with a Conn of its own, on that.
LEMMA WrapperCalls ==
  ASSUME NEW p \in Packages, source[p] \in Sources[p], NEW d, Declared(d), Follows(p, d)
  PROVE  CallsItsTx(Wrapper(p, source[p], d), d, p)
BY NamesPool, PassesNames

-----------------------------------------------------------------------------
(* What bin/generate and bin/check promise.                                *)

\* Nothing a package declared when conngen loaded it is lost or left behind.
WrittenFromSource ==
    gen = "done" /\ ~dirty => \A p \in Packages : out[p] = ConnFile(p, source[p])

\* The variants are those of the declarations as they are (cmd/conngen writes
\* each package's conn.gen.go again or removes it).
THEOREM VariantsWritten == Spec => []WrittenFromSource
<1>1. Inv => WrittenFromSource
  BY DEF Inv, GenSound, Current, WrittenFromSource
<1> QED
  BY <1>1, Invariant, PTL

\* A file of variants that are those of the declarations is as it should be.
LEMMA VariantsRight ==
  ASSUME NEW p \in Packages, source[p] \in Sources[p], out[p] = ConnFile(p, source[p])
  PROVE  ConnCurrent(p)
<1> DEFINE follow == {d \in source[p] : Follows(p, d)}
<1>1. \A d \in follow : Declared(d)
  BY SourcesDeclare DEF Follows
<1>2. out[p].code = {Wrapper(p, source[p], d) : d \in follow}
  <2>1. CASE follow = {}
    <3>1. out[p] = Missing
      BY <2>1 DEF ConnFile, Variants
    <3> QED
      BY <2>1, <3>1 DEF Missing
  <2>2. CASE follow /= {}
    BY <2>2 DEF ConnFile, Variants
  <2> QED
    BY <2>1, <2>2
<1>3. \A w \in out[p].code : \E d \in source[p] : Follows(p, d) /\ CallsItsTx(w, d, p)
  BY <1>1, <1>2, WrapperCalls
<1>4. \A d \in follow : Wrapper(p, source[p], d).name = d.name
  BY DEF Wrapper
<1>5. \A d \in source[p] : Follows(p, d) => \E w \in out[p].code : w.name = d.name
  BY <1>2, <1>4
<1> QED
  BY <1>3, <1>5 DEF ConnCurrent

\* "the variant cannot drift" (cmd/conngen/main.go:5): once bin/generate has
\* run, every function that follows the convention, and no other, has a
\* variant, and calling that is calling the function on the pool (in a package
\* without a Conn of its own).
THEOREM VariantsCall == Spec => []VariantsCallTheirTx
<1>1. Inv /\ WrittenFromSource => VariantsCallTheirTx
  <2> SUFFICES ASSUME Inv, WrittenFromSource, gen = "done", ~dirty, NEW p \in Packages PROVE ConnCurrent(p)
    BY DEF VariantsCallTheirTx
  <2>1. out[p] = ConnFile(p, source[p])
    BY DEF WrittenFromSource
  <2>2. source[p] \in Sources[p]
    BY DEF Inv, GenSound, Kept
  <2> QED
    BY <2>1, <2>2, VariantsRight
<1> QED
  BY <1>1, Invariant, VariantsWritten, PTL

\* "all checks passed" (bin/check:57) says so of what is staged and of the
\* migrations as they are, unless something moved under the gate.
THEOREM GatePasses == Spec => []GateSound
<1>1. Inv => GateSound
  BY DEF Inv, Phases, Undisturbed, Checked, Good, GateSound
<1> QED
  BY <1>1, Invariant, PTL
=============================================================================
