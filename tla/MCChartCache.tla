---------------------------- MODULE MCChartCache ----------------------------
(***************************************************************************)
(* ChartCache for TLC: the charts are interchangeable.                     *)
(***************************************************************************)
EXTENDS ChartCache, TLC

Interchangeable == Permutations(Charts)
=============================================================================
