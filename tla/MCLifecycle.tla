----------------------------- MODULE MCLifecycle -----------------------------
(***************************************************************************)
(* The instance of Lifecycle for TLC: two workers take up any two tasks at *)
(* a time.  Its run checks liveness, so no symmetry is used.               *)
(***************************************************************************)
EXTENDS Lifecycle

CONSTANTS w1, w2
=============================================================================
