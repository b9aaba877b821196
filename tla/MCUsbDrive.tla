----------------------------- MODULE MCUsbDrive -----------------------------
(* UsbDrive with a root directory of one or two sectors, the smallest sizes   *)
(* for which the next listing does and does not find its first sector cached. *)
EXTENDS UsbDrive
=============================================================================
