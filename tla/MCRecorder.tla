----------------------------- MODULE MCRecorder -----------------------------
(* Recorder on small counts: two readings or fixes stand for the 50, 300 and *)
(* 10 of the code; the counters only repeat a step that changes nothing else. *)
EXTENDS Recorder

AllFaults == {"lost", "torn", "adc", "tmp"}
=============================================================================
