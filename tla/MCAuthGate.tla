----------------------------- MODULE MCAuthGate -----------------------------
(* The gate with the driver's two transports (or one of them), windows of a *)
(* tick or two and enough prompts for one to follow a refusal and a grant.  *)
EXTENDS AuthGate
=============================================================================
