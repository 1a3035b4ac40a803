---------------------------- MODULE MCHashSlots ----------------------------
(* Small instance of HashSlots for TLC; HashSlots.cfg bounds it.            *)
EXTENDS HashSlots, TLC

=============================================================================
