------------------------------ MODULE MCHbRfEth -----------------------------
(* HbRfEth for TLC: two slots, three hosts (so that the table fills up), one *)
(* of which has two ports.                                                  *)
EXTENDS HbRfEth

CONSTANTS a1, a2, b1, c1

MCAddrs == {a1, a2, b1, c1}
MCIp == [x \in MCAddrs |-> IF x \in {a1, a2} THEN "a" ELSE IF x = b1 THEN "b" ELSE "c"]
MCPumps == {"usb"}
=============================================================================
