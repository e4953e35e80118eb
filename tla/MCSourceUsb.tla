----------------------------- MODULE MCSourceUsb -----------------------------
(* SourceUsb for TLC.                                                        *)
EXTENDS SourceUsb
=============================================================================
