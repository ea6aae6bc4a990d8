----------------------------- MODULE MCLanRelay -----------------------------
(* Two computers and the phone's own provider.                              *)
EXTENDS LanRelay
=============================================================================
