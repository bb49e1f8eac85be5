CONSTANTS
  EMAC_NUM_RX_FRAG <- MC_NUM_RX_FRAG
  EMAC_NUM_TX_FRAG <- MC_NUM_TX_FRAG
  MaxRxFrames <- MC_MaxRxFrames
  MaxTxFrames <- MC_MaxTxFrames
  WordWidth <- MC_WordWidth
  CbRx = CbRx
  NullCb = NullCb
  Callbacks <- MC_Callbacks
  NULL <- NullCb
  RxCb <- CbRx
  Events <- MC_Events
  Masks <- MC_Masks
  MaxRaises <- MC_MaxRaises

SPECIFICATION Spec

INVARIANT TypeOK
INVARIANT TxNeverRepeatsOrReorders
INVARIANT RxSizeMatchesFrame
PROPERTY RxImplementsFifo

CHECK_DEADLOCK FALSE
