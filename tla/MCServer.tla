------------------------------ MODULE MCServer ------------------------------
(***************************************************************************)
(* One request for a mail of two attempts, two createuser runs that race   *)
(* for its address, a server launched twice in production: as it should    *)
(* be, without a sender, and without an origin.                            *)
(***************************************************************************)
EXTENDS Server

Env(production, url, mailFrom) ==
    [production |-> production, url |-> url, mailFrom |-> mailFrom]

MCDeployments == {Env(TRUE, TRUE, TRUE), Env(TRUE, TRUE, FALSE), Env(TRUE, FALSE, TRUE)}
=============================================================================
