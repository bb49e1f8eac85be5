------------------------------ MODULE EmacRing -------------------------------
(***************************************************************************)
(* The DMA descriptor rings of the LPC17xx EMAC driver                     *)
(* (src/Lib_MCU/src/lpc17xx_emac.c).                                       *)
(*                                                                         *)
(* RX: the DMA engine (hardware, the environment here) stores an arriving  *)
(* frame in the descriptor at RxProduceIndex and advances it, or drops the *)
(* frame, and its status entry, when the ring is full.  The driver's user *)
(* polls EMAC_CheckReceiveIndex, asks EMAC_GetReceiveDataSize for the      *)
(* frame's size, copies the frame with EMAC_ReadPacketBuffer and releases  *)
(* the slot with EMAC_UpdateRxConsumeIndex.                                *)
(*                                                                         *)
(* TX: the user polls EMAC_CheckTransmitIndex, fills the descriptor at     *)
(* TxProduceIndex with EMAC_WritePacketBuffer and queues it with           *)
(* EMAC_UpdateTxProduceIndex; the DMA engine transmits the descriptor at   *)
(* TxConsumeIndex while it differs from TxProduceIndex.                    *)
(*                                                                         *)
(* Each index has one writer.  The hardware steps interleave with every    *)
(* step of the user's three-call sequences.  A frame is a number: frames   *)
(* are numbered in the order they arrive (RX) or are submitted (TX), and 0 *)
(* stands for a descriptor buffer holding no frame.  A status info word   *)
(* is abstracted to the frame it describes: its size field is that frame's *)
(* size, and 0 is the cleared word rx_descr_init writes.                   *)
(***************************************************************************)
EXTENDS Naturals, Sequences

CONSTANTS
  EMAC_NUM_RX_FRAG,  \* RX descriptors
  EMAC_NUM_TX_FRAG,  \* TX descriptors
  MaxRxFrames,       \* bound: frames that arrive from the wire
  MaxTxFrames,       \* bound: frames the user submits
  WordWidth          \* width of the index registers' arithmetic (uint32_t)

ASSUME EMAC_NUM_RX_FRAG >= 2 /\ EMAC_NUM_TX_FRAG >= 2
ASSUME 2^WordWidth > EMAC_NUM_TX_FRAG

VARIABLES
  RxProduceIndex,    \* hardware register, written by the DMA engine
  RxConsumeIndex,    \* hardware register, written by the driver
  rx_buf,            \* rx_buf[i]: frame held by RX descriptor i
  Rx_Stat,           \* Rx_Stat[i]: frame whose status entry i holds
  rxArrived,         \* frames that arrived on the wire (stored or dropped)
  rxPc,              \* where the RX user is in Check / Size / Read / Update
  rxSize,            \* frame whose size EMAC_GetReceiveDataSize returned
  rxCopy,            \* the frame the RX user copied out
  rxDelivered,       \* history: frames the RX user took, in order, each
                     \* with the frame whose size it was read with
  TxProduceIndex,    \* hardware register, written by the driver
  TxConsumeIndex,    \* hardware register, written by the DMA engine
  tx_buf,            \* tx_buf[i]: frame held by TX descriptor i
  txSubmitted,       \* frames the TX user has written so far
  txPc,              \* where the TX user is in Check / Write / Update
  txWire             \* history: frames the DMA engine transmitted, in order

rxVars == <<RxProduceIndex, RxConsumeIndex, rx_buf, Rx_Stat, rxArrived, rxPc,
            rxSize, rxCopy, rxDelivered>>
txVars == <<TxProduceIndex, TxConsumeIndex, tx_buf, txSubmitted, txPc, txWire>>
vars == <<rxVars, txVars>>

RxSlots == 0 .. EMAC_NUM_RX_FRAG - 1
TxSlots == 0 .. EMAC_NUM_TX_FRAG - 1
Word == 2^WordWidth

\* RX frames between the consume and the produce index, oldest first.
RxHeld == [k \in 1 .. (RxProduceIndex - RxConsumeIndex) % EMAC_NUM_RX_FRAG |->
             rx_buf[(RxConsumeIndex + k - 1) % EMAC_NUM_RX_FRAG]]

(***************************************************************************)
(* Ring initialisation: rx_descr_init and tx_descr_init, called by         *)
(* EMAC_Init after the MAC's RX/TX data paths were reset (which zeroes the *)
(* hardware-owned indices).  Every descriptor gets its own buffer and an   *)
(* empty status.                                                           *)
(***************************************************************************)
rx_descr_init ==
  /\ rx_buf = [i \in RxSlots |-> 0]
  /\ Rx_Stat = [i \in RxSlots |-> 0]
  /\ RxConsumeIndex = 0
  /\ RxProduceIndex = 0

tx_descr_init ==
  /\ tx_buf = [i \in TxSlots |-> 0]
  /\ TxProduceIndex = 0
  /\ TxConsumeIndex = 0

Init ==
  /\ rx_descr_init
  /\ tx_descr_init
  /\ rxArrived = 0 /\ rxPc = "check" /\ rxSize = 0 /\ rxCopy = 0
  /\ rxDelivered = <<>>
  /\ txSubmitted = 0 /\ txPc = "check" /\ txWire = <<>>

(***************************************************************************)
(* The driver's index helpers.                                             *)
(***************************************************************************)
\* Mutant: the RX poll reports a frame without comparing the indices.
CheckReceiveIndexAlways == TRUE

\* EMAC_CheckReceiveIndex: a frame is waiting when the indices differ.
EMAC_CheckReceiveIndex == RxConsumeIndex # RxProduceIndex

\* EMAC_CheckTransmitIndex: uint32_t tmp = TxConsumeIndex - 1, computed in
\* the register width and not modulo the ring size; "available" unless
\* TxProduceIndex equals tmp.
EMAC_CheckTransmitIndex == TxProduceIndex # (TxConsumeIndex - 1) % Word

\* Mutant: the wrap compares with one past the last index.
NextIndexLate(idx, n) == IF idx = n THEN 0 ELSE idx + 1

\* The "++idx == EMAC_NUM_..._FRAG ? 0" wrap of both Update functions.
NextIndex(idx, n) == IF idx + 1 = n THEN 0 ELSE idx + 1

(***************************************************************************)
(* RX user: if (EMAC_CheckReceiveIndex()) { len =                         *)
(* EMAC_GetReceiveDataSize(); EMAC_ReadPacketBuffer(len);                  *)
(* EMAC_UpdateRxConsumeIndex(); }.  A poll that finds nothing stays put.   *)
(***************************************************************************)
RxCheck ==
  /\ rxPc = "check"
  /\ rxPc' = IF EMAC_CheckReceiveIndex THEN "size" ELSE "check"
  /\ UNCHANGED <<RxProduceIndex, RxConsumeIndex, rx_buf, Rx_Stat, rxArrived,
                 rxSize, rxCopy, rxDelivered, txVars>>

\* Mutant: the size is read from the status entry at RxProduceIndex.
GetReceiveDataSizeAtProduce ==
  /\ rxPc = "size"
  /\ rxSize' = Rx_Stat[RxProduceIndex]
  /\ rxPc' = "read"
  /\ UNCHANGED <<RxProduceIndex, RxConsumeIndex, rx_buf, Rx_Stat, rxArrived,
                 rxCopy, rxDelivered, txVars>>

\* EMAC_GetReceiveDataSize: the size field of the status entry at
\* RxConsumeIndex (EMAC_CheckReceiveDataStatus reads the same entry).
EMAC_GetReceiveDataSize ==
  /\ rxPc = "size"
  /\ rxSize' = Rx_Stat[RxConsumeIndex]
  /\ rxPc' = "read"
  /\ UNCHANGED <<RxProduceIndex, RxConsumeIndex, rx_buf, Rx_Stat, rxArrived,
                 rxCopy, rxDelivered, txVars>>

\* EMAC_ReadPacketBuffer: copy the buffer of descriptor RxConsumeIndex.
EMAC_ReadPacketBuffer ==
  /\ rxPc = "read"
  /\ rxCopy' = rx_buf[RxConsumeIndex]
  /\ rxPc' = "update"
  /\ UNCHANGED <<RxProduceIndex, RxConsumeIndex, rx_buf, Rx_Stat, rxArrived,
                 rxSize, rxDelivered, txVars>>

\* EMAC_UpdateRxConsumeIndex: release the descriptor; the user has the frame
\* and the size it copied it with.
EMAC_UpdateRxConsumeIndex ==
  /\ rxPc = "update"
  /\ RxConsumeIndex' = NextIndex(RxConsumeIndex, EMAC_NUM_RX_FRAG)
  /\ rxDelivered' = Append(rxDelivered, <<rxCopy, rxSize>>)
  /\ rxPc' = "check"
  /\ UNCHANGED <<RxProduceIndex, rx_buf, Rx_Stat, rxArrived, rxSize, rxCopy,
                 txVars>>

(***************************************************************************)
(* TX user: if (EMAC_CheckTransmitIndex()) { EMAC_WritePacketBuffer();     *)
(* EMAC_UpdateTxProduceIndex(); }, for frames 1 .. MaxTxFrames.            *)
(***************************************************************************)
TxCheck ==
  /\ txPc = "check"
  /\ txSubmitted < MaxTxFrames
  /\ txPc' = IF EMAC_CheckTransmitIndex THEN "write" ELSE "check"
  /\ UNCHANGED <<TxProduceIndex, TxConsumeIndex, tx_buf, txSubmitted, txWire,
                 rxVars>>

\* Mutant: the copy goes to the descriptor at TxConsumeIndex, the index
\* EMAC_ReadPacketBuffer uses on the RX side.
WritePacketBufferAtConsume ==
  /\ txPc = "write"
  /\ tx_buf' = [tx_buf EXCEPT ![TxConsumeIndex] = txSubmitted + 1]
  /\ txSubmitted' = txSubmitted + 1
  /\ txPc' = "update"
  /\ UNCHANGED <<TxProduceIndex, TxConsumeIndex, txWire, rxVars>>

\* EMAC_WritePacketBuffer: copy the frame into the buffer of descriptor
\* TxProduceIndex and set its control word.
EMAC_WritePacketBuffer ==
  /\ txPc = "write"
  /\ tx_buf' = [tx_buf EXCEPT ![TxProduceIndex] = txSubmitted + 1]
  /\ txSubmitted' = txSubmitted + 1
  /\ txPc' = "update"
  /\ UNCHANGED <<TxProduceIndex, TxConsumeIndex, txWire, rxVars>>

\* EMAC_UpdateTxProduceIndex: hand the descriptor to the DMA engine.
EMAC_UpdateTxProduceIndex ==
  /\ txPc = "update"
  /\ TxProduceIndex' = NextIndex(TxProduceIndex, EMAC_NUM_TX_FRAG)
  /\ txPc' = "check"
  /\ UNCHANGED <<TxConsumeIndex, tx_buf, txSubmitted, txWire, rxVars>>

(***************************************************************************)
(* The DMA engine (LPC17xx user manual behaviour, not code of this        *)
(* repository): RX stores into RxProduceIndex unless that would make the   *)
(* indices equal, TX sends from TxConsumeIndex while the ring is non-empty.*)
(***************************************************************************)
HwReceive ==
  /\ rxArrived < MaxRxFrames
  /\ rxArrived' = rxArrived + 1
  /\ IF NextIndex(RxProduceIndex, EMAC_NUM_RX_FRAG) = RxConsumeIndex
       THEN UNCHANGED <<RxProduceIndex, rx_buf, Rx_Stat>> \* overrun: dropped
       ELSE /\ rx_buf' = [rx_buf EXCEPT ![RxProduceIndex] = rxArrived + 1]
            /\ Rx_Stat' = [Rx_Stat EXCEPT ![RxProduceIndex] = rxArrived + 1]
            /\ RxProduceIndex' = NextIndex(RxProduceIndex, EMAC_NUM_RX_FRAG)
  /\ UNCHANGED <<RxConsumeIndex, rxPc, rxSize, rxCopy, rxDelivered, txVars>>

HwTransmit ==
  /\ TxConsumeIndex # TxProduceIndex
  /\ txWire' = Append(txWire, tx_buf[TxConsumeIndex])
  /\ TxConsumeIndex' = NextIndex(TxConsumeIndex, EMAC_NUM_TX_FRAG)
  /\ UNCHANGED <<TxProduceIndex, tx_buf, txSubmitted, txPc, rxVars>>

Next ==
  \/ RxCheck \/ EMAC_GetReceiveDataSize \/ EMAC_ReadPacketBuffer \/ EMAC_UpdateRxConsumeIndex
  \/ TxCheck \/ EMAC_WritePacketBuffer \/ EMAC_UpdateTxProduceIndex
  \/ HwReceive \/ HwTransmit

\* The user keeps polling (main loop or RX/TX-done callback) and the DMA
\* engine keeps transmitting while descriptors are queued.  Frame arrival
\* and submission are the environment's choice and get no fairness.
Fairness ==
  /\ WF_vars(RxCheck) /\ WF_vars(EMAC_GetReceiveDataSize)
  /\ WF_vars(EMAC_ReadPacketBuffer)
  /\ WF_vars(EMAC_UpdateRxConsumeIndex)
  /\ WF_vars(EMAC_WritePacketBuffer) /\ WF_vars(EMAC_UpdateTxProduceIndex)
  /\ WF_vars(HwTransmit)

Spec == Init /\ [][Next]_vars /\ Fairness

-----------------------------------------------------------------------------
TypeOK ==
  /\ RxProduceIndex \in RxSlots /\ RxConsumeIndex \in RxSlots
  /\ rx_buf \in [RxSlots -> 0 .. MaxRxFrames]
  /\ Rx_Stat \in [RxSlots -> 0 .. MaxRxFrames]
  /\ rxArrived \in 0 .. MaxRxFrames
  /\ rxPc \in {"check", "size", "read", "update"}
  /\ rxSize \in 0 .. MaxRxFrames
  /\ rxCopy \in 0 .. MaxRxFrames
  /\ rxDelivered \in Seq((0 .. MaxRxFrames) \X (0 .. MaxRxFrames))
  /\ TxProduceIndex \in TxSlots /\ TxConsumeIndex \in TxSlots
  /\ tx_buf \in [TxSlots -> 0 .. MaxTxFrames]
  /\ txSubmitted \in 0 .. MaxTxFrames
  /\ txPc \in {"check", "write", "update"}
  /\ txWire \in Seq(0 .. MaxTxFrames)

\* The frames the RX user took, without the sizes.
RxFramesDelivered == [i \in 1 .. Len(rxDelivered) |-> rxDelivered[i][1]]

(***************************************************************************)
(* RX refinement.  The RX ring, the DMA engine and the user's              *)
(* Check/Read/Update sequence together implement FrameFifo with capacity   *)
(* EMAC_NUM_RX_FRAG - 1: the frames between RxConsumeIndex and             *)
(* RxProduceIndex are the FIFO, a frame is dropped only when that many are *)
(* held, and the user receives every stored frame once, in arrival order,  *)
(* and eventually.  It is about the interleaving of the DMA engine's       *)
(* writes with the user's read-then-release of the slot at                 *)
(* RxConsumeIndex, and the wrap of EMAC_UpdateRxConsumeIndex.              *)
(***************************************************************************)
RxFifo == INSTANCE FrameFifo
            WITH Cap <- EMAC_NUM_RX_FRAG - 1, MaxFrames <- MaxRxFrames,
                 queue <- RxHeld, delivered <- RxFramesDelivered,
                 arrived <- rxArrived

RxImplementsFifo == RxFifo!Spec

(***************************************************************************)
(* RX: every frame the user takes was copied with its own size: the size   *)
(* EMAC_GetReceiveDataSize returned came from that frame's status entry,   *)
(* not from a stale entry of an earlier frame or a cleared one.  It is     *)
(* about the status entry at RxConsumeIndex being read while the DMA      *)
(* engine may be writing the next frame's data and status.                 *)
(***************************************************************************)
RxSizeMatchesFrame ==
  \A i \in 1 .. Len(rxDelivered) : rxDelivered[i][2] = rxDelivered[i][1]

(***************************************************************************)
(* TX: the DMA engine never transmits a frame twice and never transmits a  *)
(* frame before one submitted earlier.  The frames on the wire are         *)
(* strictly increasing.  It is about EMAC_WritePacketBuffer writing only   *)
(* the descriptor at TxProduceIndex, which the DMA engine does not own,    *)
(* and EMAC_UpdateTxProduceIndex queueing only descriptors just written.   *)
(***************************************************************************)
TxNeverRepeatsOrReorders ==
  \A i \in 1 .. Len(txWire) - 1 : txWire[i] < txWire[i + 1]

(***************************************************************************)
(* TX: no frame is lost: the frames on the wire are exactly 1, 2, ... in   *)
(* order (spec section 3: the ring is full when (ProduceIndex + 1) mod N = *)
(* ConsumeIndex, and the user never queues beyond that).  It is about      *)
(* EMAC_CheckTransmitIndex reporting a full ring as full at every index,   *)
(* including the wrap where TxConsumeIndex is 0.                           *)
(***************************************************************************)
TxNoLoss == \A i \in 1 .. Len(txWire) : txWire[i] = i
=============================================================================
