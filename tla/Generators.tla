----------------------------- MODULE Generators -----------------------------
(***************************************************************************)
(* The code generators behind bin/generate: cmd/modelgen writes a row      *)
(* model per table of modelgen.yaml from the live development schema, then *)
(* cmd/conngen writes, per package, the db.Conn variant Foo of every       *)
(* hand-written FooTx(ctx, tx db.Queryable, ...).                          *)
(*                                                                         *)
(* A package's source is a set of top-level declarations,                  *)
(*     [kind, exported, name, tx, fields]: kind - "func" (no receiver),    *)
(*     "method" or "other", tx - its name is `name' followed by "Tx",      *)
(*     fields - its parameter groups [names, type], a type being           *)
(*     "Queryable", "db.Queryable" (through whatever name the file imports *)
(*     the package by), "T" or "...T";                                     *)
(* a table's schema is a set of columns [name, udt, pk, default, null].    *)
(***************************************************************************)
EXTENDS Integers, SequencesExt

CONSTANTS
    Packages, Tables,
    Pool,           \* the package db, whose Conn is the pool
    Sources,        \* bound: [Packages -> the sources a package may have]
    Schemas         \* bound: the schemas by version, [Tables -> columns]

ASSUME GeneratorParameters == Pool \in Packages /\ Tables \cap Packages = {}

\* The parameters of a function have names of their own, the compiler's rule.
\* (It lets several be blank, but a call cannot pass on a blank name: a
\* variant of such a function does not compile.)
Declared(d) ==
    /\ d.fields \in Seq([names : Seq(STRING), type : STRING])
    /\ \A f, g \in DOMAIN d.fields : \A i \in DOMAIN d.fields[f].names, j \in DOMAIN d.fields[g].names :
         d.fields[f].names[i] = d.fields[g].names[j] => f = g /\ i = j

\* Declared at the top level of the package, under the name itself (tx is of
\* one that ends in "Tx"): a function, type, variable or constant, no method.
DeclaresTopLevel(decls, name) == \E d \in decls : d.kind /= "method" /\ ~d.tx /\ d.name = name

\* db.go declares "var Conn".
ASSUME PoolDeclared == \A s \in Sources[Pool] : DeclaresTopLevel(s, "Conn")

ASSUME SourcesDeclare == \A p \in Packages : \A s \in Sources[p] : \A d \in s : d.kind = "func" => Declared(d)

VARIABLES
    source,     \* hand-written declarations of each package
    migrated,   \* version of the development database
    out,        \* the generated files in the worktree
    staged,     \* and in the index
    gen,        \* where bin/generate is
    todo,       \* tables or packages it has still to do
    loaded      \* the sources as packages.Load read them

genVars == <<source, migrated, out, staged, gen, todo, loaded>>

Files   == Tables \cup Packages    \* <table>.gen.go and conn.gen.go
Missing == [kind |-> "missing", code |-> {}]
Torn    == [kind |-> "torn", code |-> {}]

-----------------------------------------------------------------------------
(* cmd/conngen.                                                            *)

IsQueryable(p, type) == type = "db.Queryable" \/ (type = "Queryable" /\ p = Pool)

\* The first group of the seam type, or -1: none, or one that declares
\* several transactions or leaves its name out.
QueryableField(p, d) ==
    LET seams == {i \in DOMAIN d.fields : IsQueryable(p, d.fields[i].type)}
        first == CHOOSE i \in seams : \A j \in seams : i <= j
    IN  IF seams = {} THEN -1
        ELSE IF Len(d.fields[first].names) = 1 THEN first ELSE -1

Follows(p, d) == d.kind = "func" /\ d.exported /\ d.tx /\ QueryableField(p, d) /= -1

\* alreadyDefined.
HandWritten(decls, name) == DeclaresTopLevel(decls, name)

ConnExpr(decls) == IF DeclaresTopLevel(decls, "Conn") THEN "Conn" ELSE "db.Conn"

\* A group of parameters is passed on by its names, the last one spread if it
\* is variadic.
GroupArgs(group) ==
    [i \in DOMAIN group.names |->
        IF group.type = "...T" THEN <<group.names[i], "...">> ELSE <<group.names[i]>>]

CallArgs(fields, seam, conn) ==
    FlattenSeq([i \in DOMAIN fields |->
        IF i = seam THEN << <<conn>> >> ELSE GroupArgs(fields[i])])

PrintFields(fields, seam) == RemoveAt(fields, seam)

Wrapper(p, decls, d) ==
    LET seam == QueryableField(p, d)
    IN  [name |-> d.name, params |-> PrintFields(d.fields, seam),
         calls |-> CallArgs(d.fields, seam, ConnExpr(decls))]

Variants(p, decls) == {d \in decls : Follows(p, d)}
Refused(p, decls) == \E d \in Variants(p, decls) : HandWritten(decls, d.name)

\* conn.gen.go, absent where nothing follows the convention (removeStale).
ConnFile(p, decls) ==
    IF Variants(p, decls) = {} THEN Missing
    ELSE [kind |-> "conn", code |-> {Wrapper(p, decls, d) : d \in Variants(p, decls)}]

-----------------------------------------------------------------------------
(* cmd/modelgen.                                                           *)

\* The types that have a Go mapping, and those whose zero value is null.
BaseType == [int4 |-> "int", int8 |-> "int64", text |-> "string", _text |-> "[]string",
             hstore |-> "map[string]string", timestamptz |-> "time.Time"]
OwnNull == {"[]string", "map[string]string"}

GoType(col) ==
    IF col.pk /\ col.udt \in {"int4", "int8"} THEN [base |-> "int64", pointer |-> FALSE]
    ELSE [base |-> BaseType[col.udt], pointer |-> col.null /\ BaseType[col.udt] \notin OwnNull]

KeepsDefault(col) ==  \* (fault)
    [column |-> col.name, type |-> GoType(col), inMap |-> ~col.pk, unset |-> FALSE]

\* A column's field in the struct and its part in ToRowMap: whether it is in
\* the map, and whether FilterUnset takes its zero value out again.
Field(col) ==
    [column |-> col.name, type |-> GoType(col), inMap |-> ~col.pk, unset |-> ~col.pk /\ col.default]

Introspected(columns) == columns /= {} /\ \A col \in columns : col.udt \in DOMAIN BaseType
ModelFile(columns) == [kind |-> "model", code |-> {Field(col) : col \in columns}]

-----------------------------------------------------------------------------

GenInit ==
    /\ source \in [Packages -> UNION {Sources[p] : p \in Packages}]
    /\ \A p \in Packages : source[p] \in Sources[p] /\ ~Refused(p, source[p])
    /\ migrated = 1
    /\ out = [f \in Files |-> IF f \in Tables THEN ModelFile(Schemas[1][f]) ELSE ConnFile(f, source[f])]
    /\ staged = out
    /\ gen = "off" /\ todo = {} /\ loaded = source

\* bin/generate: modelgen first.
Generate ==
    /\ gen' = "models" /\ todo' = Tables
    /\ UNCHANGED <<source, migrated, out, staged, loaded>>

\* A table that does not exist, or has a type without a mapping, is fatal; so
\* is a write that fails.  The tables before it are written.
Model(t) ==
    LET columns == Schemas[migrated][t]
    IN  /\ gen = "models" /\ t \in todo
        /\ IF Introspected(columns)
           THEN /\ out' = [out EXCEPT ![t] = ModelFile(columns)]
                /\ todo' = todo \ {t} /\ UNCHANGED gen
           ELSE gen' = "failed" /\ UNCHANGED <<out, todo>>
        /\ UNCHANGED <<source, migrated, staged, loaded>>

\* packages.Load parses the generated files as well: one that does not parse
\* ends conngen before it has written anything.
Load ==
    /\ gen = "models" /\ todo = {}
    /\ IF \E f \in Files : out[f] = Torn
       THEN gen' = "failed" /\ UNCHANGED <<todo, loaded>>
       ELSE gen' = "conns" /\ todo' = Packages /\ loaded' = source
    /\ UNCHANGED <<source, migrated, out, staged>>

\* A bare variant written by hand is fatal; the packages before it are done.
LeaveStale(p) ==  \* (fault)
    /\ gen = "conns" /\ p \in todo
    /\ IF Refused(p, loaded[p])
       THEN gen' = "failed" /\ UNCHANGED <<out, todo>>
       ELSE /\ out' = IF Variants(p, loaded[p]) = {} THEN out
                      ELSE [out EXCEPT ![p] = ConnFile(p, loaded[p])]
            /\ todo' = todo \ {p} /\ UNCHANGED gen
    /\ UNCHANGED <<source, migrated, staged, loaded>>

Conn(p) ==
    /\ gen = "conns" /\ p \in todo
    /\ IF Refused(p, loaded[p])
       THEN gen' = "failed" /\ UNCHANGED <<out, todo>>
       ELSE /\ out' = [out EXCEPT ![p] = ConnFile(p, loaded[p])]
            /\ todo' = todo \ {p} /\ UNCHANGED gen
    /\ UNCHANGED <<source, migrated, staged, loaded>>

Generated ==
    /\ gen = "conns" /\ todo = {}
    /\ gen' = "done"
    /\ UNCHANGED <<source, migrated, out, staged, todo, loaded>>

\* It is killed or a write fails.  os.WriteFile truncates before it writes:
\* the file at hand may be left without its content.
GenerateDies ==
    /\ gen \in {"models", "conns"}
    /\ gen' = "failed"
    /\ out' \in {out} \cup {[out EXCEPT ![f] = Torn] : f \in todo}
    /\ UNCHANGED <<source, migrated, staged, todo, loaded>>

Generating == \/ \E t \in Tables : Model(t)
              \/ \E p \in Packages : Conn(p)
              \/ Load \/ Generated \/ GenerateDies

\* The developer: edits, bin/migrate, git add, and the removal of what a kill
\* left torn, which no generator removes.
EditSource(p) ==
    /\ source' \in {[source EXCEPT ![p] = s] : s \in Sources[p] \ {source[p]}}
    /\ UNCHANGED <<migrated, out, staged, gen, todo, loaded>>

MigrateTo(version) ==
    /\ migrated' = version
    /\ UNCHANGED <<source, out, staged, gen, todo, loaded>>

Stage ==
    /\ staged' = out
    /\ UNCHANGED <<source, migrated, out, gen, todo, loaded>>

Repair(f) ==
    /\ out[f] = Torn
    /\ out' = [out EXCEPT ![f] = Missing]
    /\ UNCHANGED <<source, migrated, staged, gen, todo, loaded>>

\* git status --porcelain: what differs from the index or is not in it.
Drift == \E f \in Files : out[f] /= staged[f]

-----------------------------------------------------------------------------

\* The pool's name in a package; and a package other than db that declares a
\* Conn of its own, which connExpr takes for the pool.
PoolIn(p) == IF p = Pool THEN "Conn" ELSE "db.Conn"
OwnConn(p) == p /= Pool /\ DeclaresTopLevel(source[p], "Conn")

\* What conn.gen.go is for: calling Foo is calling FooTx on the pool.  Every
\* parameter of FooTx gets the argument of its own name, its transaction gets
\* the pool, and Foo asks for the rest and no more.
CallsItsTx(w, d, p) ==
    LET names(fields) == FlattenSeq([i \in DOMAIN fields |-> fields[i].names])
        typeOf(n) == CHOOSE f \in {d.fields[i] : i \in DOMAIN d.fields} : \E j \in DOMAIN f.names : f.names[j] = n
        seam(n) == IsQueryable(p, typeOf(n).type) /\ ~\E i \in DOMAIN names(w.params) : names(w.params)[i] = n
    IN  /\ w.name = d.name
        /\ Len(w.calls) = Len(names(d.fields))
        /\ \A i \in DOMAIN w.calls :
             IF seam(names(d.fields)[i]) THEN OwnConn(p) \/ w.calls[i][1] = PoolIn(p)
             ELSE w.calls[i][1] = names(d.fields)[i]
        /\ Len(names(w.params)) + 1 = Len(names(d.fields))
        /\ \E i \in DOMAIN names(d.fields) : seam(names(d.fields)[i])

ConnCurrent(p) ==
    /\ \A w \in out[p].code : \E d \in source[p] : Follows(p, d) /\ CallsItsTx(w, d, p)
    /\ \A d \in source[p] : Follows(p, d) => \E w \in out[p].code : w.name = d.name

\* A row model holds its table's rows and inserts them: every column has a
\* field that can take its null, the key is left to the database, and so is
\* a default the caller did not set.
ModelCurrent(t) ==
    LET columns == Schemas[migrated][t]
        ofColumn(c, f) == /\ f.column = c.name
                          /\ c.null /\ ~c.pk => f.type.pointer \/ f.type.base \in OwnNull
                          /\ f.inMap = ~c.pk
                          /\ c.default /\ f.inMap => f.unset
    IN  /\ \A c \in columns : \E f \in out[t].code : ofColumn(c, f)
        /\ \A f \in out[t].code : \E c \in columns : f.column = c.name

GenTypeOK ==
    /\ source \in [Packages -> UNION {Sources[p] : p \in Packages}]
    /\ migrated \in DOMAIN Schemas
    /\ \A f \in Files : {out[f].kind, staged[f].kind} \subseteq
                            {"missing", "torn", IF f \in Tables THEN "model" ELSE "conn"}
    /\ gen \in {"off", "models", "conns", "done", "failed"}
    /\ todo \subseteq Files
=============================================================================
