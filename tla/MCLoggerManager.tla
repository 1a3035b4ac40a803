-------------------------- MODULE MCLoggerManager --------------------------
(***************************************************************************)
(* Two goroutines, one logger name, and settings of one tag.               *)
(***************************************************************************)
EXTENDS LoggerManager

OneTag == {<<t>> : t \in Tags}
=============================================================================
