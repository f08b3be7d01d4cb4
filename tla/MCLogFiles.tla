----------------------------- MODULE MCLogFiles -----------------------------
(* Two loggers and two threads, years of two days, and messages of one or two
   units for files of two: files fill and overflow, days and a year pass, and a
   process ends, between any two steps of either thread. *)
EXTENDS LogFiles, TLC

Symmetry == Permutations(Logger)
=============================================================================
