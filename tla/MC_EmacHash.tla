----------------------------- MODULE MC_EmacHash -----------------------------
(***************************************************************************)
(* Model-checking instance of EmacHash, and of the CRC it uses: the        *)
(* addresses the user passes, and the frames on which EMAC_CRCCalc is      *)
(* compared with the bit-serial reference of EmacCrc.                      *)
(***************************************************************************)
EXTENDS EmacHash

\* 00:11:22:33:44:55 (index 45), 00:11:22:33:44:1A (also 45),
\* 00:11:22:33:44:22 (31, last bit of HashFilterL), 00:11:22:33:44:04
\* (32, first bit of HashFilterH), 01:00:5E:00:00:01 (63).
MC_Addrs == {<<0, 17, 34, 51, 68, 85>>, <<0, 17, 34, 51, 68, 26>>,
             <<0, 17, 34, 51, 68, 34>>, <<0, 17, 34, 51, 68, 4>>,
             <<1, 0, 94, 0, 0, 1>>}

MC_FilterModes == {"UCAST_EN", "UCAST_HASH_EN", "MCAST_HASH_EN"}

\* The empty frame, every one-byte frame, every two-byte frame whose first
\* byte is 0x00, 0x80 or 0xFF, and the addresses above.
TestFrames ==
  {<<>>} \cup {<<b>> : b \in 0 .. 255}
         \cup {<<a, b>> : a \in {0, 128, 255}, b \in 0 .. 255}
         \cup MC_Addrs

\* EMAC_CRCCalc against the bit-serial reference on every test frame, and
\* a precomputed value for 00:11:22:33:44:55 (spec section 8 asks for one
\* and gives no number; 0x16CFFD0D is the bit-serial register computed
\* once by hand).  A constant: TLC evaluates it once.
CrcAgrees ==
  /\ \A f \in TestFrames : EMAC_CRCCalc(f) = EthernetFcsRegister(f)
  /\ EMAC_CRCCalc(<<0, 17, 34, 51, 68, 85>>) = ToWord(\h16CFFD0D)

(***************************************************************************)
(* The nibble-at-a-time loop of EMAC_CRCCalc, with its signed shifts and   *)
(* its four precomputed polynomial multiples, computes the IEEE 802.3 FCS  *)
(* register (spec section 4.5) on every test frame; so every bit           *)
(* EMAC_SetHashFilter sets in the table is the one the receive filter      *)
(* hardware, which hashes with the standard Ethernet CRC, looks up for an  *)
(* address the user passed.                                                *)
(***************************************************************************)
CrcMatchesEthernet ==
  /\ CrcAgrees
  /\ \A h \in Table : \E a \in Addrs : HashIndex(EthernetFcsRegister(a)) = h
====
