-------------------------- MODULE MCPasswordReset --------------------------
(* Small instance of PasswordReset for TLC; the .cfg files bound it.       *)
EXTENDS PasswordReset, TLC

\* Users, requests and tokens are interchangeable (safety runs only).
Interchangeable == Permutations(Users) \cup Permutations(Requests) \cup Permutations(Tokens)

=============================================================================
