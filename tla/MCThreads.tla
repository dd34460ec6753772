----------------------------- MODULE MCThreads -----------------------------
(* Two workers side by side, the two loops and a handler. *)
EXTENDS Threads
=============================================================================
