--------------------------- MODULE MCSegmentReads ---------------------------
(***************************************************************************)
(* Instances of SegmentReads for TLC.                                      *)
(***************************************************************************)
EXTENDS SegmentReads, SegmentsInv, TLC

CONSTANTS e1, e2, e3, f1, f2, f3, f4

EventWindowOf == e1 :> 0 @@ e2 :> 0 @@ e3 :> 1

\* One event per window.
OnePerWindow == e1 :> 0 @@ e2 :> 1

\* File names carry no order.
FileSymmetry == Permutations(Files)
=============================================================================
