----------------------------- MODULE MC_EmacPhy -----------------------------
(***************************************************************************)
(* Model-checking instance of EmacPhy.  The board's PHY is one of the two  *)
(* the driver knows or an unknown one; both known parts advertise all four *)
(* 10/100 half/full abilities in BMSR.  The link partner negotiates        *)
(* 100 Mbit full or 10 Mbit half duplex.  The user passes AUTO, a forced   *)
(* 10 Mbit half-duplex mode and one value that is no EMAC_MODE_*.  Two     *)
(* polls per loop (500 and 10 in the code) are enough for a poll to time   *)
(* out and for a reset or link to complete between polls.                  *)
(***************************************************************************)
EXTENDS EmacPhy

CONSTANTS DP83848C, LAN8720, OtherPhy

MC_PhyIds == {DP83848C, LAN8720, OtherPhy}
MC_KnownPhys == {DP83848C, LAN8720}
MC_PhyAbilities == {"10H", "10F", "100H", "100F"}
MC_PartnerModes == {"100F", "10H"}
MC_UserModes == {"AUTO", "10H", "BAD"}
MC_ResetTout == 2
MC_LinkTout == 2
MC_MaxLinkEvents == 2
=============================================================================
