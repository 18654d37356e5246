------------------------- MODULE MC_Chapter4Pipeline -------------------------
(* Constants for checking Chapter4Pipeline with TLC. *)
EXTENDS Chapter4Pipeline

\* One window spec, one identity and one CASE WHEN variant of the oracle.
MCWsOutcomes == {"skipped", "Redundant PARTITION BY"}
MCIdOutcomes == {"skipped", "Rounding Identity"}
MCCwOutcomes == {"absent", "Identical Branches"}

\* A query showing every feature fill_chapter4 reads, and one showing few.
MCSql == {{"aggregate", "ranking", "order_by_1", "order_by_2", "order_by_3", "frame_rows", "frame_range"},
          {"aggregate", "order_by_1"}}

\* A fresh template: every row group holds [TBD].
MCTexTbd == DOMAIN Patterns
=============================================================================
