------------------------ MODULE MCTelemetrySeqlock ------------------------
(* TelemetrySeqlock for TLC: three parts of the record, and the updates the *)
(* daemon makes: a report with and without culprits, and a profile mode.    *)
EXTENDS TelemetrySeqlock

MCFields == {"telemetry", "mode", "culprits"}
MCShapes == {MCFields, {"telemetry", "mode"}, {"mode"}}
=============================================================================
