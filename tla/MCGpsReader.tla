---------------------------- MODULE MCGpsReader ----------------------------
(* GpsReader on four sentences of four or five characters.  Transfers of     *)
(* three are shorter than a sentence, as 32 is; a line holds six, so that of  *)
(* two long sentences in one line the second checksum is cut off, and of      *)
(* other pairs it is not, as with 119 and sentences of 45 to 75.              *)
EXTENDS GpsReader
=============================================================================
