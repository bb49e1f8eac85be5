CONSTANTS
  CbA = CbA
  NullCb = NullCb
  Callbacks <- MC_Callbacks
  NULL <- NullCb
  Events <- MC_Events
  Masks <- MC_Masks
  MaxRaises <- MC_MaxRaises

SPECIFICATION Spec

INVARIANT TypeOK
INVARIANT NoCallbackWithoutRaise
PROPERTY EveryEventHandled
PROPERTY HandlerReturns
