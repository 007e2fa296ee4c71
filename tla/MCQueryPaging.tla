--------------------------- MODULE MCQueryPaging ---------------------------
(***************************************************************************)
(* Two windows of two timestamps, four events, two of them with the same   *)
(* facet value and one with none; pages of one row.                        *)
(***************************************************************************)
EXTENDS QueryPaging

\* In order with ties, one late event, and two late ones that overtake.
MCTimelines == {<<1, 2, 2, 3>>, <<1, 3, 2, 1>>, <<1, 3, 0, 0>>}
MCEventService == <<1, 2, 1, None>>
MCEventWords   == <<1, 2, 0, 1>>
=============================================================================
