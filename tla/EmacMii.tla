------------------------------- MODULE EmacMii -------------------------------
(***************************************************************************)
(* The MII management clock (MDC) that EMAC_Init selects in                *)
(* src/Lib_MCU/src/lpc17xx_emac.c: the divider search over EMAC_clkdiv    *)
(* and the CLK_SEL value it writes to MCFG.                                *)
(*                                                                         *)
(* The divisor a CLK_SEL value gives the host clock is the hardware's     *)
(* (LPC17xx user manual, MCFG clock select encoding), the environment of   *)
(* this code.                                                              *)
(***************************************************************************)
EXTENDS Naturals, SequencesExt

CONSTANT
  EMAC_MCFG_MII_MAXCLK   \* the driver header's target MDC rate in Hz

ASSUME EMAC_MCFG_MII_MAXCLK \in Nat \ {0}

\* const uint8_t EMAC_clkdiv[] = { 4, 6, 8, 10, 14, 20, 28 };
EMAC_clkdiv == <<4, 6, 8, 10, 14, 20, 28>>

(***************************************************************************)
(* tmp = SystemCoreClock / EMAC_MCFG_MII_MAXCLK (integer division); tout   *)
(* is the C index of the first entry >= tmp, or sizeof(EMAC_clkdiv) when   *)
(* none is; then tout++.  SelectInSeq gives that first entry's 1-based     *)
(* index, which is the C index plus one, and 0 when there is none.         *)
(***************************************************************************)
ClkSel(core) ==
  LET tmp == core \div EMAC_MCFG_MII_MAXCLK
      first == SelectInSeq(EMAC_clkdiv, LAMBDA d : d >= tmp)
  IN  IF first = 0 THEN Len(EMAC_clkdiv) + 1 ELSE first

\* MCFG = EMAC_MCFG_CLK_SEL(tout) | EMAC_MCFG_RES_MII: bits 5..2 hold
\* tout & 0x0F.
EMAC_MCFG_CLK_SEL(t) == (t % 16) * 4

\* Host clock divisor for the 4-bit CLK_SEL field: 0 and 1 divide by 4,
\* then 6, 8, 10, 14, 20, 28, 36, 40, ... 64.
HostClockDivisor(field) ==
  <<4, 4, 6, 8, 10, 14, 20, 28, 36, 40, 44, 48, 52, 56, 60, 64>>[field + 1]

\* The divisor that MCFG, as EMAC_Init writes it, applies to the core clock.
MdcDivisor(core) == HostClockDivisor(EMAC_MCFG_CLK_SEL(ClkSel(core)) \div 4)
====
