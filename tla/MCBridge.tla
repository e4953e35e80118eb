------------------------------ MODULE MCBridge ------------------------------
(* Bridge for TLC: both sources, two of the transmitting sinks, and for one *)
(* of them two tasks (rawuart has a task per client).                       *)
EXTENDS Bridge

CONSTANTS usb, uart, hbrfeth, rawuart

MCSources == {usb, uart}
MCSinks   == {hbrfeth, rawuart}
MCTasks   == {"h", "r"}
MCWho     == [t \in MCTasks |-> IF t = "h" THEN hbrfeth ELSE rawuart]
=============================================================================
