------------------------------ MODULE HmuSink ------------------------------
(***************************************************************************)
(* sink_hmuartlgw_legacy.c: what its two models, HmuAcks and HmuClients,   *)
(* have in common.                                                         *)
(***************************************************************************)
CONSTANTS
  Slots,       \* S.clients
  Conns,       \* the connections there will be
  None         \* stands for no slot, no connection, no entry and the like

=============================================================================
