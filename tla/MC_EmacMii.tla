------------------------------ MODULE MC_EmacMii ------------------------------
(***************************************************************************)
(* Model-checking instance of EmacMii.  SystemCoreClock is set before      *)
(* EMAC_Init and not changed by it; it is chosen in the initial state from *)
(* the core clocks an LPC17xx runs at: the 12 MHz crystal or internal      *)
(* oscillator without PLL, and PLL settings of 24 to 120 MHz (100 MHz is   *)
(* the usual LPC1768 setting).                                             *)
(***************************************************************************)
EXTENDS EmacMii

VARIABLE SystemCoreClock

MC_MaxClk == 2500000

CoreClocks ==
  {12000000, 24000000, 48000000, 60000000, 72000000, 96000000, 100000000,
   120000000}

MiiInit == SystemCoreClock \in CoreClocks

MiiSpec == MiiInit /\ [][UNCHANGED SystemCoreClock]_SystemCoreClock

(***************************************************************************)
(* Spec section 4.3 and IEEE 802.3 clause 22: EMAC_Init picks a divider    *)
(* whose MDC rate, core clock / divisor, is no higher than the target      *)
(* EMAC_MCFG_MII_MAXCLK (2.5 MHz, the clause 22 maximum).                  *)
(***************************************************************************)
MdcWithinLimit ==
  SystemCoreClock <= EMAC_MCFG_MII_MAXCLK * MdcDivisor(SystemCoreClock)
====
