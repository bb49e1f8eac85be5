---------------------------- MODULE MC_EmacRing -----------------------------
(***************************************************************************)
(* Model-checking instance of EmacRing.  Four descriptors per ring (three *)
(* usable) let each ring fill, overrun and wrap more than once with seven  *)
(* frames.  The index registers are uint32_t; TLC's integers stop at       *)
(* 2^31, so the subtraction in EMAC_CheckTransmitIndex is taken modulo     *)
(* 2^16: its result is only ever compared with an index below 4, and every *)
(* width above 2 bits gives the same comparison.                           *)
(***************************************************************************)
EXTENDS EmacRing

MC_NUM_RX_FRAG == 4
MC_NUM_TX_FRAG == 4
MC_MaxRxFrames == 7
MC_MaxTxFrames == 7
MC_WordWidth == 16
=============================================================================
