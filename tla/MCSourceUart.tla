---------------------------- MODULE MCSourceUart ----------------------------
(* SourceUart for TLC: the web server and a CCU that resets the module.     *)
EXTENDS SourceUart

MCNoise   == {"data"}
MCProbers == {"web", "hb"}
=============================================================================
