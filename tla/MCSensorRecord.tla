--------------------------- MODULE MCSensorRecord ---------------------------
(* SensorRecord with at most two accesses that fail, in all lives of the      *)
(* processor together.                                                        *)
EXTENDS SensorRecord
=============================================================================
