------------------------------- MODULE EmacCrc -------------------------------
(***************************************************************************)
(* EMAC_CRCCalc (src/Lib_MCU/src/lpc17xx_emac.c), the software CRC-32 the  *)
(* driver uses to place a MAC address in the 64-bit hash filter, and the   *)
(* hash index EMAC_SetHashFilter takes from it.                            *)
(*                                                                         *)
(* A 32-bit word is a function from bit positions 0..31 to BOOLEAN (TLC's  *)
(* integers stop at 2^31 - 1, and the CRC register is all ones at start).  *)
(* The signed int shift crc << 4 of the code overflows; the build wraps,   *)
(* which is what dropping the bits above 31 does.                          *)
(***************************************************************************)
EXTENDS Naturals, Sequences, SequencesExt

Bits == 0 .. 31

Word == [Bits -> BOOLEAN]

\* Bit i of a natural number.
BitOf(x, i) == (x \div 2^i) % 2 = 1

\* A constant below 2^31 as a word.
ToWord(x) == [i \in Bits |-> i < 31 /\ BitOf(x, i)]

Zero == [i \in Bits |-> FALSE]

AllOnes == [i \in Bits |-> TRUE]

WordXor(a, b) == [i \in Bits |-> a[i] # b[i]]

\* (w << k) truncated to 32 bits.
ShiftLeft(w, k) == [i \in Bits |-> i >= k /\ w[i - k]]

\* (w >> 1) of an unsigned word.
ShiftRight1(w) == [i \in Bits |-> i < 31 /\ w[i + 1]]

(***************************************************************************)
(* One pass of the inner loop over j: the low nibble of byte against bits  *)
(* 28..31 of crc.  Bit k of the nibble meets bit 31-k of crc and selects   *)
(* the polynomial 0x04C11DB7 shifted left by 3-k (q0 .. q3).              *)
(***************************************************************************)
Q(crc, nib, k, poly) ==
  IF crc[31 - k] # BitOf(nib, k) THEN ToWord(poly) ELSE Zero

CrcNibble(crc, nib) ==
  WordXor(WordXor(ShiftLeft(crc, 4), Q(crc, nib, 3, \h04C11DB7)),
          WordXor(WordXor(Q(crc, nib, 2, \h09823B6E), Q(crc, nib, 1, \h130476DC)),
                  Q(crc, nib, 0, \h2608EDB8)))

\* Mutant: the high nibble of the byte is fed first.
CrcByteHighFirst(crc, byte) == CrcNibble(CrcNibble(crc, byte \div 16), byte % 16)

\* The two passes of j: the low nibble, then byte >>= 4 and the high one.
CrcByte(crc, byte) == CrcNibble(CrcNibble(crc, byte % 16), byte \div 16)

\* crc = 0xFFFFFFFF, then every byte of the frame in order.
EMAC_CRCCalc(frame) == FoldLeft(CrcByte, AllOnes, frame)

\* crc = (crc >> 23) & 0x3F: bits 28..23 of the CRC as a number 0..63.
HashIndex(crc) ==
  LET b(k) == IF crc[23 + k] THEN 2^k ELSE 0
  IN  b(0) + b(1) + b(2) + b(3) + b(4) + b(5)

(***************************************************************************)
(* Reference: the Ethernet frame check sequence register of IEEE 802.3 as  *)
(* it is usually computed, one bit at a time, least significant bit of     *)
(* each byte first, in a right-shifting register with the reflected        *)
(* polynomial 0xEDB88320 (the bit reversal of 0x04C11DB7), before the      *)
(* final complement.  EMAC_CRCCalc keeps its register in the opposite bit  *)
(* order, so the two agree up to reversing the 32 bits.                    *)
(***************************************************************************)
Reflect(w) == [i \in Bits |-> w[31 - i]]

ReflectedPoly == Reflect(ToWord(\h04C11DB7))

RECURSIVE FcsBits(_, _)
FcsBits(reg, bits) ==
  IF bits = <<>> THEN reg
  ELSE FcsBits(IF reg[0] # Head(bits)
                 THEN WordXor(ShiftRight1(reg), ReflectedPoly)
                 ELSE ShiftRight1(reg),
               Tail(bits))

\* The frame's bits in transmission order: each byte from bit 0 to bit 7.
FrameBits(frame) ==
  FoldLeft(LAMBDA acc, byte : acc \o [k \in 1 .. 8 |-> BitOf(byte, k - 1)],
           <<>>, frame)

EthernetFcsRegister(frame) == Reflect(FcsBits(AllOnes, FrameBits(frame)))
====
