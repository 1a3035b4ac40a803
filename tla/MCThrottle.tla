----------------------------- MODULE MCThrottle -----------------------------
(* Small instance of Throttle for TLC; the .cfg files bound it.            *)
EXTENDS Throttle, TLC

\* Rows and requests are interchangeable (safety runs only).
Interchangeable == Permutations(Rows) \cup Permutations(Handlers)

=============================================================================
