----------------------------- MODULE MCGateway ------------------------------
(* Gateway for TLC: both sources, two of the four sinks, one sending task.  *)
EXTENDS Gateway

CONSTANTS hbrfeth, rawuart

MCSources   == {usb, uart}
MCSinks     == {hbrfeth, rawuart}
MCTasks     == {"h"}
MCWho       == [t \in MCTasks |-> hbrfeth]
MCSinkOrder == <<rawuart, hbrfeth>>
=============================================================================
