----------------------------- MODULE MCDevLoop -----------------------------
(***************************************************************************)
(* The package db and one more, with and without functions that follow the *)
(* FooTx convention or a Conn of its own, and a table that gains columns   *)
(* of every kind.                                                          *)
(***************************************************************************)
EXTENDS DevLoop

CONSTANTS db, auth, users

Func(kind, name, tx, fields) ==
    [kind |-> kind, exported |-> TRUE, name |-> name, tx |-> tx, fields |-> fields]
Group(names, type) == [names |-> names, type |-> type]

Ctx == Group(<<"ctx">>, "T")
Tx  == Group(<<"tx">>, "db.Queryable")

\* FindTx(ctx, tx Queryable, a, b T, rest ...T), as in the package db.
Find == Func("func", "Find", TRUE,
             <<Ctx, Group(<<"tx">>, "Queryable"), Group(<<"a", "b">>, "T"), Group(<<"rest">>, "...T")>>)
\* MoveTx(tx, into db.Queryable, a T): two transactions in two groups.
Move == Func("func", "Move", TRUE, <<Tx, Group(<<"into">>, "db.Queryable"), Group(<<"a">>, "T")>>)
\* JoinTx(tx, other db.Queryable): two in one group, not the convention.
Join == Func("func", "Join", TRUE, <<Group(<<"tx", "other">>, "db.Queryable")>>)

ConnVar == Func("other", "Conn", FALSE, <<>>)

MCSources ==
    (db :> {{Find, ConnVar}}) @@
    (auth :> {{Join, Func("method", "Move", TRUE, <<Ctx, Tx>>)},
              {Move, Func("method", "Move", FALSE, <<Ctx>>)},
              {Move, ConnVar},
              {Move, Func("other", "Move", FALSE, <<>>)}})

Col(name, udt, key, default, null) ==
    [name |-> name, udt |-> udt, pk |-> key, default |-> default, null |-> null]

Key == Col("id", "int8", TRUE, TRUE, FALSE)

MCSchemas ==
    << users :> {Key, Col("roles", "_text", FALSE, TRUE, TRUE)},
       users :> {Key, Col("name", "text", FALSE, TRUE, FALSE), Col("seen", "timestamptz", FALSE, FALSE, TRUE)} >>
=============================================================================
