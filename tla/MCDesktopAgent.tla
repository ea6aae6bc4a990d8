--------------------------- MODULE MCDesktopAgent ---------------------------
(* Two HID stacks: one that leads without the report id and takes whatever  *)
(* it is given, and a strict one that uses it both ways and also polls.     *)
EXTENDS DesktopAgent

MCHosts == {[out |-> FALSE, in |-> FALSE, strict |-> FALSE, polls |-> FALSE],
            [out |-> TRUE, in |-> TRUE, strict |-> TRUE, polls |-> TRUE]}
=============================================================================
