---------------------------- MODULE MCHidFraming ----------------------------
(* Reassembly for one gadget and one userspace node, with a table that two  *)
(* reserved channels fill.                                                  *)
EXTENDS HidFraming
=============================================================================
