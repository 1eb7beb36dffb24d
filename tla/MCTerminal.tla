----------------------------- MODULE MCTerminal -----------------------------
(* An instance of Terminal for TLC; the bounds are in the configuration. *)
EXTENDS Terminal
=============================================================================
