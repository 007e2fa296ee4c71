------------------------------ MODULE MCIngest ------------------------------
(***************************************************************************)
(* Instances of Ingest for TLC.                                            *)
(***************************************************************************)
EXTENDS Ingest, TLC

CONSTANTS r1, r2, r3

\* With a capacity of two the first body fills the buffer, the second half
\* fills it and overflows it after the first, and the third is empty.
Sizes == r1 :> 2 @@ r2 :> 1 @@ r3 :> 0
=============================================================================
