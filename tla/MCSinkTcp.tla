------------------------------ MODULE MCSinkTcp ------------------------------
(* SinkTcp for TLC: one connection and one descriptor more than slots, so   *)
(* that one is refused and the descriptors are reused.                     *)
EXTENDS SinkTcp
CONSTANTS c1, c2, c3, f1, f2, f3
MCConns == {c1, c2, c3}
MCFds   == {f1, f2, f3}
=============================================================================
