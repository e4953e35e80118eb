---------------------------- MODULE MCHmuClients ----------------------------
(* HmuClients for TLC; the ASSUMEs of HmuFrame are evaluated with it.       *)
EXTENDS HmuClients, HmuFrame
=============================================================================
