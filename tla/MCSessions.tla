----------------------------- MODULE MCSessions -----------------------------
(* Small instance of Sessions for TLC; the .cfg files bound it.            *)
EXTENDS Sessions, TLC

Interchangeable == Permutations(Users) \cup Permutations(Ids) \cup Permutations(Requests)

=============================================================================
