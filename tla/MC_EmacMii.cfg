CONSTANTS
  EMAC_MCFG_MII_MAXCLK <- MC_MaxClk
SPECIFICATION MiiSpec
INVARIANT MdcWithinLimit
