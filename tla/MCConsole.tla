------------------------------- MODULE MCConsole -------------------------------
(* A screen of two lines of three columns, with a tab stop every second.   *)
EXTENDS Console
=============================================================================
