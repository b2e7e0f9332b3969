---------------------------- MODULE MCCliStream ----------------------------
(***************************************************************************)
(* Instances of CliStream for TLC: every kind of handler, console and      *)
(* stderr line, and pipes small enough to fill up.                         *)
(***************************************************************************)
EXTENDS CliStream
=============================================================================
