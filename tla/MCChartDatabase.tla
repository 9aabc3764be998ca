--------------------------- MODULE MCChartDatabase ---------------------------
(* An ENC and two copies of an S-63 chart, one of them below both of the     *)
(* configured directories.                                                   *)
EXTENDS ChartDatabase

TwoCopies == <<"enc", "s63", "s63">>
Overlapping == <<{1, 2, 3}, {2}>>
=============================================================================
