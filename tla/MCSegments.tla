----------------------------- MODULE MCSegments -----------------------------
(***************************************************************************)
(* Instances of Segments for TLC.                                          *)
(***************************************************************************)
EXTENDS SegmentsInv, TLC

CONSTANTS e1, e2, e3, f1, f2, f3, f4

\* Two events of the first window and one of the second: late for their
\* window, on time or ahead of the clock, depending on when they are flushed.
EventWindowOf == e1 :> 0 @@ e2 :> 0 @@ e3 :> 1

\* One event per window.
OnePerWindow == e1 :> 0 @@ e2 :> 1

\* File names carry no order.
FileSymmetry == Permutations(Files)
=============================================================================
