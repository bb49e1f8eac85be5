----------------------------- MODULE MC_EmacIrq -----------------------------
(***************************************************************************)
(* Model-checking instance of EmacIrq.  The events are RX done (3), TX     *)
(* done (7) and wakeup (9): the two the driver enables at init and the one *)
(* with the extra WoL clear.  The masks are each of them alone and         *)
(* EMAC_INT_RX_DONE | EMAC_INT_TX_DONE, the combination user code passes   *)
(* to EMAC_IntCmd.  One callback value and NULL show "last registration    *)
(* wins".  Three raises let an event arrive during a handler pass.         *)
(***************************************************************************)
EXTENDS EmacIrq

CONSTANTS CbA, NullCb

MC_Callbacks == {CbA}
MC_Events == {3, 7, 9}
MC_Masks == {{3}, {7}, {9}, {3, 7}}
MC_MaxRaises == 3
=============================================================================
