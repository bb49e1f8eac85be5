CONSTANTS
  Addrs <- MC_Addrs
  FilterModes <- MC_FilterModes
SPECIFICATION Spec
INVARIANT TypeOK
INVARIANT TableFollowsLastCall
INVARIANT CrcMatchesEthernet
