----------------------------- MODULE MCFanTimer -----------------------------
(* FanTimer with 2.5 s as its unit of time: limits 12 and 14 and a clock of 32 *)
(* units that wraps within three cycles.  The iterations take 1 to 4 units: the *)
(* fan is seen running, and one long iteration may start and stop it.           *)
EXTENDS FanTimer
=============================================================================
