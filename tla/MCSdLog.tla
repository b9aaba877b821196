------------------------------ MODULE MCSdLog ------------------------------
(* SdLog with rows of three fields on sectors of two, so that rows end in the *)
(* middle and at the end of sectors and clusters; one file fills a cluster    *)
(* and a half, and two files do not fit on the card.                          *)
EXTENDS SdLog
=============================================================================
