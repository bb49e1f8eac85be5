------------------------------- MODULE EmacHash ------------------------------
(***************************************************************************)
(* The imperfect hash filter of the EMAC receive filter                   *)
(* (src/Lib_MCU/src/lpc17xx_emac.c): EMAC_SetHashFilter and               *)
(* EMAC_SetFilterMode.  The 64-bit table is HashFilterL (indices 0..31)    *)
(* and HashFilterH (indices 32..63), each the set of its set bits.         *)
(***************************************************************************)
EXTENDS Naturals, EmacCrc

CONSTANTS
  Addrs,        \* MAC addresses the user passes (6-byte sequences)
  FilterModes   \* RxFilterCtrl bits the user passes to EMAC_SetFilterMode

VARIABLES
  HashFilterL, HashFilterH,
  RxFilterCtrl,
  lastByIndex   \* history: the last call for an address of this hash index

vars == <<HashFilterL, HashFilterH, RxFilterCtrl, lastByIndex>>

\* The hash index of an address: EMAC_CRCCalc(dstMAC_addr, 6), bits 28..23.
AddrHash(a) == HashIndex(EMAC_CRCCalc(a))

\* Hardware reset leaves the table clear; EMAC_Init writes
\* RxFilterCtrl = MCAST_EN | BCAST_EN | PERFECT_EN and leaves the table.
Init ==
  /\ HashFilterL = {} /\ HashFilterH = {}
  /\ RxFilterCtrl = {"MCAST_EN", "BCAST_EN", "PERFECT_EN"}
  /\ lastByIndex = [h \in 0 .. 63 |-> FALSE]

\* Mutant: the test for the high half is crc > 32.
SetHashFilterBoundary(a, enable) ==
  LET crc == AddrHash(a)
      tmp == IF crc > 32 THEN crc - 32 ELSE crc
      Upd(reg) == IF enable THEN reg \cup {tmp} ELSE reg \ {tmp}
  IN  /\ HashFilterH' = IF crc > 32 THEN Upd(HashFilterH) ELSE HashFilterH
      /\ HashFilterL' = IF crc > 32 THEN HashFilterL ELSE Upd(HashFilterL)
      /\ lastByIndex' = [lastByIndex EXCEPT ![crc] = enable]
      /\ UNCHANGED RxFilterCtrl

\* Mutant: the two registers are swapped in the pReg selection.
SetHashFilterHalvesSwapped(a, enable) ==
  LET crc == AddrHash(a)
      tmp == IF crc > 31 THEN crc - 32 ELSE crc
      Upd(reg) == IF enable THEN reg \cup {tmp} ELSE reg \ {tmp}
  IN  /\ HashFilterL' = IF crc > 31 THEN Upd(HashFilterL) ELSE HashFilterL
      /\ HashFilterH' = IF crc > 31 THEN HashFilterH ELSE Upd(HashFilterH)
      /\ lastByIndex' = [lastByIndex EXCEPT ![crc] = enable]
      /\ UNCHANGED RxFilterCtrl

\* pReg is HashFilterH for an index above 31, else HashFilterL; the bit
\* 1UL << tmp of it is set or cleared.  The Command write that clears
\* PASS_RX_FILT finds it clear already (EMAC_Init never sets it).
EMAC_SetHashFilter(a, enable) ==
  LET crc == AddrHash(a)
      tmp == IF crc > 31 THEN crc - 32 ELSE crc
      Upd(reg) == IF enable THEN reg \cup {tmp} ELSE reg \ {tmp}
  IN  /\ HashFilterH' = IF crc > 31 THEN Upd(HashFilterH) ELSE HashFilterH
      /\ HashFilterL' = IF crc > 31 THEN HashFilterL ELSE Upd(HashFilterL)
      /\ lastByIndex' = [lastByIndex EXCEPT ![crc] = enable]
      /\ UNCHANGED RxFilterCtrl

EMAC_SetFilterMode(m, enable) ==
  /\ RxFilterCtrl' = IF enable THEN RxFilterCtrl \cup m ELSE RxFilterCtrl \ m
  /\ UNCHANGED <<HashFilterL, HashFilterH, lastByIndex>>

Next ==
  \/ \E a \in Addrs, enable \in BOOLEAN : EMAC_SetHashFilter(a, enable)
  \/ \E m \in SUBSET FilterModes, enable \in BOOLEAN : EMAC_SetFilterMode(m, enable)

Spec == Init /\ [][Next]_vars

-----------------------------------------------------------------------------
\* The 64-bit table as the receive filter reads it: bit h of HashFilterL
\* for h < 32, bit h - 32 of HashFilterH otherwise.
Table == {h \in 0 .. 63 : IF h < 32 THEN h \in HashFilterL
                                     ELSE h - 32 \in HashFilterH}

TypeOK ==
  /\ HashFilterL \subseteq 0 .. 31 /\ HashFilterH \subseteq 0 .. 31
  /\ RxFilterCtrl \subseteq FilterModes \cup {"MCAST_EN", "BCAST_EN", "PERFECT_EN"}
  /\ lastByIndex \in [0 .. 63 -> BOOLEAN]

(***************************************************************************)
(* EMAC_SetHashFilter keeps the two 32-bit halves in step with the 64-bit  *)
(* table of spec section 2: an index is accepted exactly when the last    *)
(* call for an address hashing to it enabled it, whatever the order of    *)
(* calls across both halves.                                               *)
(***************************************************************************)
TableFollowsLastCall == \A h \in 0 .. 63 : h \in Table <=> lastByIndex[h]
====
