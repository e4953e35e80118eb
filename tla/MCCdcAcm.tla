------------------------------ MODULE MCCdcAcm ------------------------------
(* CdcAcm for TLC; the ASSUMEs of CdcParse are evaluated with it.          *)
EXTENDS CdcAcm, CdcParse
=============================================================================
