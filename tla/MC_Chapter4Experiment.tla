------------------------ MODULE MC_Chapter4Experiment ------------------------
(* Constants for checking Chapter4Experiment with TLC. *)
EXTENDS Chapter4Experiment

MCWsOutcomes == {"skipped", "NULLS FIRST/LAST Toggle"}
MCIdOutcomes == {"skipped", "Arithmetic Identity (+ 0)"}
MCCwOutcomes == {"skipped", "Constant Condition (fallback)"}
MCVerdicts   == {"PASS", "FAIL_CARDINALITY", "FAIL_PARTITION_MISMATCH"}
MCVerdictsL1 == {"PASS", "FAIL_CARDINALITY"}
\* Logs whose printed query shows none of the features the diversity count reads.
MCNoSql == {{}}
=============================================================================
