CONSTANTS
  EMAC_NUM_RX_FRAG <- MC_NUM_RX_FRAG
  EMAC_NUM_TX_FRAG <- MC_NUM_TX_FRAG
  MaxRxFrames <- MC_MaxRxFrames
  MaxTxFrames <- MC_MaxTxFrames
  WordWidth <- MC_WordWidth

SPECIFICATION Spec

INVARIANT TxNoLoss
