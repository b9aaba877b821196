----------------------------- MODULE MCGpsClock -----------------------------
(* GpsClock with sentences on both sides of the turn of a minute, an hour and *)
(* a day, three fixes, and ages up to just beyond the limit of 0.5 s.         *)
EXTENDS GpsClock

BoundarySentences ==
  [h : {12, 23}, m : {0, 59}, s : {0, 595, 598}, day : {14}]
=============================================================================
