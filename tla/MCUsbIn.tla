------------------------------- MODULE MCUsbIn ------------------------------
(* The IN path with replies of two frames.                                  *)
EXTENDS UsbIn
=============================================================================
