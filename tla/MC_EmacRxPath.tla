---------------------------- MODULE MC_EmacRxPath ----------------------------
(***************************************************************************)
(* Model-checking instance of EmacRxPath: the ring bounds of MC_EmacRing,  *)
(* one callback, and enough event raises for every frame.                  *)
(***************************************************************************)
EXTENDS EmacRxPath

CONSTANTS CbRx, NullCb

MC_NUM_RX_FRAG == 4
MC_NUM_TX_FRAG == 4
MC_MaxRxFrames == 6
MC_MaxTxFrames == 4
MC_WordWidth == 16
MC_Callbacks == {CbRx}
MC_Events == {3, 7}
MC_Masks == {{3}}
MC_MaxRaises == MC_MaxRxFrames + MC_MaxTxFrames
====
