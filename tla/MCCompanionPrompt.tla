-------------------------- MODULE MCCompanionPrompt -------------------------
(* The companion and the gate of one transport.                             *)
EXTENDS CompanionPrompt
=============================================================================
