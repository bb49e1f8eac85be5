CONSTANTS
  DP83848C = DP83848C
  LAN8720 = LAN8720
  OtherPhy = OtherPhy
  PhyIds <- MC_PhyIds
  KnownPhys <- MC_KnownPhys
  PhyAbilities <- MC_PhyAbilities
  PartnerModes <- MC_PartnerModes
  UserModes <- MC_UserModes
  ResetTout <- MC_ResetTout
  LinkTout <- MC_LinkTout
  MaxLinkEvents <- MC_MaxLinkEvents
  MiiCanFail = FALSE

SPECIFICATION Spec

INVARIANT InitFailsOnPhyResetTimeout
