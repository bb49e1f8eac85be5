------------------------------ MODULE EmacRxPath ------------------------------
(***************************************************************************)
(* The descriptor rings (EmacRing) composed with the interrupt dispatcher  *)
(* (EmacIrq), as EMAC_Init leaves them: rx_descr_init sets                 *)
(* EMAC_RCTRL_INT in every RX descriptor and EMAC_WritePacketBuffer sets   *)
(* EMAC_TCTRL_INT in every TX descriptor, so the DMA engine raises RX done *)
(* (ordinal 3) for every frame it stores and TX done (ordinal 7) for every *)
(* frame it sends, and EMAC_Init enables exactly these two interrupts.     *)
(*                                                                         *)
(* The RX user is the callback installed with                              *)
(* EMAC_SetupIntCBS(EMAC_INT_RX_DONE, cb) before the NVIC interrupt was    *)
(* enabled: it runs inside EMAC_StandardIRQHandler's dispatch of ordinal 3 *)
(* and drains the ring with EmacRing's check / size / read / release       *)
(* steps until EMAC_CheckReceiveIndex finds it empty.  Nothing polls the   *)
(* RX ring outside the interrupt.  The TX user runs in the foreground and  *)
(* is preempted while the handler runs.                                    *)
(***************************************************************************)
EXTENDS Naturals, FiniteSetsExt

CONSTANTS
  EMAC_NUM_RX_FRAG, EMAC_NUM_TX_FRAG, MaxRxFrames, MaxTxFrames, WordWidth,
  Callbacks, NULL, Events, Masks, MaxRaises,
  RxCb          \* the RX done callback the user installed

ASSUME RxCb \in Callbacks /\ Events = {3, 7}
ASSUME MaxRaises = MaxRxFrames + MaxTxFrames

VARIABLES
  RxProduceIndex, RxConsumeIndex, rx_buf, Rx_Stat, rxArrived, rxPc, rxSize,
  rxCopy, rxDelivered, TxProduceIndex, TxConsumeIndex, tx_buf, txSubmitted,
  txPc, txWire,
  IntStatus, IntEnable, RxFilterWoLStatus, _pfnIntCbDat, isr, int_stat, todo,
  raises, awaiting, credit, lastSetup, polled,
  cbReturning   \* the RX callback found the ring empty and is returning

R == INSTANCE EmacRing
I == INSTANCE EmacIrq

ringVars == <<RxProduceIndex, RxConsumeIndex, rx_buf, Rx_Stat, rxArrived,
              rxPc, rxSize, rxCopy, rxDelivered, TxProduceIndex,
              TxConsumeIndex, tx_buf, txSubmitted, txPc, txWire>>
irqVars == <<IntStatus, IntEnable, RxFilterWoLStatus, _pfnIntCbDat, isr,
             int_stat, todo, raises, awaiting, credit, lastSetup, polled>>
vars == <<ringVars, irqVars, cbReturning>>

(***************************************************************************)
(* EMAC_Init followed by EMAC_SetupIntCBS(EMAC_INT_RX_DONE, RxCb).         *)
(***************************************************************************)
Init ==
  /\ R!Init
  /\ IntStatus = {} /\ IntEnable = {3, 7} /\ RxFilterWoLStatus = FALSE
  /\ _pfnIntCbDat = [n \in I!Ordinals |-> IF n = 3 THEN RxCb ELSE NULL]
  /\ isr = "idle" /\ int_stat = {} /\ todo = {}
  /\ raises = 0 /\ awaiting = {} /\ credit = [n \in I!Ordinals |-> 0]
  /\ lastSetup = <<{3}, RxCb>> /\ polled = {}
  /\ cbReturning = FALSE

\* The handler is in the dispatch of RX done and its callback is running.
InRxCallback ==
  /\ isr = "dispatch" /\ todo # {} /\ Min(todo) = 3
  /\ _pfnIntCbDat[3] # NULL

(***************************************************************************)
(* The RX callback: while (EMAC_CheckReceiveIndex()) { size; read;         *)
(* release; }.  The check that finds the ring empty ends the loop; the     *)
(* return to the handler, which ends its dispatch of ordinal 3, is a later *)
(* step, and the DMA engine may store a frame in between.                  *)
(***************************************************************************)
RxCallbackStep ==
  /\ InRxCallback /\ ~cbReturning
  /\ \/ R!RxCheck /\ cbReturning' = ~R!EMAC_CheckReceiveIndex
     \/ R!EMAC_GetReceiveDataSize /\ UNCHANGED cbReturning
     \/ R!EMAC_ReadPacketBuffer /\ UNCHANGED cbReturning
     \/ R!EMAC_UpdateRxConsumeIndex /\ UNCHANGED cbReturning
  /\ UNCHANGED irqVars

RxCallbackReturn ==
  /\ InRxCallback /\ cbReturning
  /\ I!IrqDispatch
  /\ cbReturning' = FALSE
  /\ UNCHANGED ringVars

\* The rest of the handler: the while test, IntClear, and the dispatch of
\* an ordinal with no callback (TX done).
IrqStep ==
  /\ \/ I!IrqReadStatus
     \/ I!IrqClear
     \/ I!IrqDispatch /\ ~InRxCallback
  /\ UNCHANGED <<ringVars, cbReturning>>

\* The TX user, in the foreground: a poll, or the rest of a submission.
TxPoll == I!Foreground /\ R!TxCheck /\ UNCHANGED <<irqVars, cbReturning>>

TxSubmit ==
  /\ I!Foreground
  /\ R!EMAC_WritePacketBuffer \/ R!EMAC_UpdateTxProduceIndex
  /\ UNCHANGED <<irqVars, cbReturning>>

(***************************************************************************)
(* The DMA engine: a stored frame raises RX done, a frame dropped on a     *)
(* full ring raises none of the enabled events; a sent frame raises TX     *)
(* done.                                                                   *)
(***************************************************************************)
HwReceive ==
  /\ R!HwReceive
  /\ IF RxProduceIndex' # RxProduceIndex THEN I!HwRaise(3)
                                         ELSE UNCHANGED irqVars
  /\ UNCHANGED cbReturning

HwTransmit == R!HwTransmit /\ I!HwRaise(7) /\ UNCHANGED cbReturning

Next ==
  \/ RxCallbackStep \/ RxCallbackReturn \/ IrqStep \/ TxPoll \/ TxSubmit
  \/ HwReceive \/ HwTransmit

\* The NVIC takes the handler while an enabled event is pending, the
\* handler and the callback run to completion, the TX user finishes a
\* submission it started and the DMA engine sends queued frames.  Nothing
\* polls the RX ring.
Fairness ==
  /\ WF_vars(IrqStep) /\ WF_vars(RxCallbackStep) /\ WF_vars(RxCallbackReturn)
  /\ WF_vars(TxSubmit)
  /\ WF_vars(HwTransmit)

Spec == Init /\ [][Next]_vars /\ Fairness

-----------------------------------------------------------------------------
\* Both components' variables keep their types.
TypeOK == R!TypeOK /\ I!TypeOK /\ cbReturning \in BOOLEAN

\* EmacRing's TX property, now with the TX user preempted by the handler:
\* the DMA engine never sends a frame twice or before an earlier one.
TxNeverRepeatsOrReorders == R!TxNeverRepeatsOrReorders

\* EmacRing's size property, now with the RX user inside the RX done
\* callback: every frame is copied with the size from its own status entry.
RxSizeMatchesFrame == R!RxSizeMatchesFrame

(***************************************************************************)
(* With the RX user driven only by the RX done interrupt, the RX ring      *)
(* still implements FrameFifo, its eventual delivery included: no stored   *)
(* frame is stranded.  It is about the handler writing IntClear before     *)
(* the callback runs, so a frame stored after the callback's last          *)
(* EMAC_CheckReceiveIndex leaves RX done pending and the handler's while   *)
(* loop (or the next interrupt) runs the callback again.                   *)
(***************************************************************************)
RxImplementsFifo == R!RxImplementsFifo
====
