-------------------------- MODULE MCLoggerManager ---------------------------
(***************************************************************************)
(* LoggerManager for TLC.  Threads are interchangeable.                    *)
(***************************************************************************)
EXTENDS LoggerManager, TLC

ThreadSymmetry == Permutations(Threads)
=============================================================================
