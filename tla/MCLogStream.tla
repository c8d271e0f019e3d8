------------------------------- MODULE MCLogStream -----------------------------
(***************************************************************************)
(* Instances of LogStream for TLC: a quota that a few lines of the two     *)
(* streams reach by length, by count and by time.                          *)
(***************************************************************************)
EXTENDS LogStream
================================================================================
