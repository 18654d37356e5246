--------------------------- MODULE MC_Chapter4Data ---------------------------
(* Constants for checking Chapter4Data with TLC. *)
EXTENDS Chapter4Data

\* One window spec, one identity and two CASE WHEN variants of the oracle.
MCWsOutcomes == {"skipped", "Redundant PARTITION BY"}
MCIdOutcomes == {"skipped", "Rounding Identity"}
MCCwOutcomes == {"absent", "Identical Branches"}
\* Logs whose printed query shows none of the features the diversity count reads.
MCNoSql == {{}}
=============================================================================
