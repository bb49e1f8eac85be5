------------------------------- MODULE EmacIrq -------------------------------
(***************************************************************************)
(* The EMAC interrupt dispatcher and its configuration calls              *)
(* (src/Lib_MCU/src/lpc17xx_emac.c): EMAC_StandardIRQHandler,              *)
(* EMAC_SetupIntCBS, EMAC_IntCmd, EMAC_IntGetStatus, EMAC_GetWoLStatus.    *)
(*                                                                         *)
(* An interrupt type is named by its ordinal in _pfnIntCbDat: 0..7 are the *)
(* MAC events at bits 0..7 of IntStatus (RX overrun, RX error, RX finished,*)
(* RX done, TX underrun, TX error, TX finished, TX done), 8 the software   *)
(* interrupt (bit 12) and 9 the wakeup interrupt (bit 13).  A register is  *)
(* the set of ordinals whose bits are set.                                 *)
(*                                                                         *)
(* The handler runs in interrupt context: the foreground calls never       *)
(* interleave with it, the hardware's events do.  It is split into its     *)
(* read of IntStatus & IntEnable, its write of IntClear, and one step per  *)
(* callback it calls.                                                      *)
(***************************************************************************)
EXTENDS Integers, FiniteSets, FiniteSetsExt

CONSTANTS
  Callbacks,   \* callback functions the user may install (model values)
  NULL,        \* the null function pointer
  Events,      \* ordinals the hardware raises in the model
  Masks,       \* ulIntType arguments the user passes (sets of ordinals)
  MaxRaises    \* bound: events the hardware raises in one behaviour

Ordinals == 0 .. 9

ASSUME NULL \notin Callbacks /\ Events \subseteq Ordinals
ASSUME Masks \subseteq SUBSET Ordinals

VARIABLES
  IntStatus,          \* pending interrupt bits (hardware)
  IntEnable,          \* enabled interrupt bits
  RxFilterWoLStatus,  \* the receive filter has a wake-on-LAN cause latched
  _pfnIntCbDat,       \* the callback table
  isr,                \* where the handler is: "idle", "clear", "dispatch"
  int_stat,           \* the handler's local copy of IntStatus & IntEnable
  todo,               \* ordinals of int_stat not dispatched yet this pass
  raises,             \* events raised so far (bound)
  awaiting,           \* history: ordinals raised and not yet handled
  polled,             \* {n}: EMAC_IntGetStatus(n) read bit n set and has
                      \* not written IntClear yet; {} otherwise
  credit,             \* history: raises of an ordinal minus the callback
                      \* calls it has had, kept at -1 once a call came
                      \* without a raise
  lastSetup           \* history: arguments of the last EMAC_SetupIntCBS

vars == <<IntStatus, IntEnable, RxFilterWoLStatus, _pfnIntCbDat, isr,
          int_stat, todo, raises, awaiting, polled, credit, lastSetup>>

\* Bit position of an ordinal in the interrupt registers.
HwBit(n) == CASE n <= 7 -> n [] n = 8 -> 12 [] n = 9 -> 13

\* Numeric value of a ulIntType mask.
MaskValue(m) == MapThenSumSet(LAMBDA n : 2^HwBit(n), m)

EMAC_INT_TX_DONE == 2^7

(***************************************************************************)
(* Just after EMAC_Init: only RX done (3) and TX done (7) are enabled,     *)
(* IntClear = 0xFFFF left nothing pending, and the static callback table   *)
(* is all NULL.                                                            *)
(***************************************************************************)
Init ==
  /\ IntStatus = {}
  /\ IntEnable = {3, 7}
  /\ RxFilterWoLStatus = FALSE
  /\ _pfnIntCbDat = [n \in Ordinals |-> NULL]
  /\ isr = "idle" /\ int_stat = {} /\ todo = {}
  /\ raises = 0 /\ awaiting = {} /\ polled = {}
  /\ credit = [n \in Ordinals |-> 0]
  /\ lastSetup = <<{}, NULL>>

(***************************************************************************)
(* Foreground calls (only while the handler is not running, and one at a  *)
(* time).                                                                  *)
(***************************************************************************)
Foreground == isr = "idle" /\ polled = {}

\* EMAC_SetupIntCBS: a mask no greater than EMAC_INT_TX_DONE installs the
\* callback at its lowest set bit 0..7; otherwise the soft-interrupt bit,
\* else the wakeup bit, selects slot 8 or 9.
SetupSlot(m) ==
  IF MaskValue(m) <= EMAC_INT_TX_DONE
    THEN IF m \cap 0 .. 7 = {} THEN {} ELSE {Min(m \cap 0 .. 7)}
  ELSE IF 8 \in m THEN {8}
  ELSE IF 9 \in m THEN {9}
  ELSE {}

EMAC_SetupIntCBS(m, f) ==
  /\ Foreground
  /\ _pfnIntCbDat' = [n \in Ordinals |->
                        IF n \in SetupSlot(m) THEN f ELSE _pfnIntCbDat[n]]
  /\ lastSetup' = <<m, f>>
  /\ UNCHANGED <<polled, IntStatus, IntEnable, RxFilterWoLStatus, isr, int_stat, todo,
                 raises, awaiting, credit>>

\* EMAC_IntCmd: set or clear the mask's bits of IntEnable.
EMAC_IntCmd(m, enable) ==
  /\ Foreground
  /\ IntEnable' = IF enable THEN IntEnable \cup m ELSE IntEnable \ m
  /\ UNCHANGED <<polled, IntStatus, RxFilterWoLStatus, _pfnIntCbDat, isr, int_stat,
                 todo, raises, awaiting, credit, lastSetup>>

(***************************************************************************)
(* EMAC_IntGetStatus(ulIntType) for one type n, enabled or not: if        *)
(* (IntStatus & ulIntType) { IntClear = ulIntType; return SET; }.  The     *)
(* read and the IntClear write are two accesses, and the handler may run   *)
(* between them.  A read that finds the bit clear returns RESET and        *)
(* changes nothing.                                                        *)
(***************************************************************************)
EMAC_IntGetStatus(n) ==
  /\ Foreground
  /\ n \in IntStatus
  /\ polled' = {n}
  /\ UNCHANGED <<IntStatus, IntEnable, RxFilterWoLStatus, _pfnIntCbDat, isr,
                 int_stat, todo, raises, awaiting, credit, lastSetup>>

\* LPC_EMAC->IntClear = ulIntType; return SET.
IntGetStatusClear ==
  /\ isr = "idle" /\ polled # {}
  /\ IntStatus' = IntStatus \ polled
  /\ awaiting' = awaiting \ polled
  /\ polled' = {}
  /\ UNCHANGED <<IntEnable, RxFilterWoLStatus, _pfnIntCbDat, isr, int_stat,
                 todo, raises, credit, lastSetup>>

\* EMAC_GetWoLStatus: a latched wake-on-LAN cause is cleared and reported.
EMAC_GetWoLStatus ==
  /\ Foreground
  /\ RxFilterWoLStatus
  /\ RxFilterWoLStatus' = FALSE
  /\ UNCHANGED <<polled, IntStatus, IntEnable, _pfnIntCbDat, isr, int_stat, todo,
                 raises, awaiting, credit, lastSetup>>

(***************************************************************************)
(* EMAC_StandardIRQHandler.                                                *)
(***************************************************************************)
\* The while condition: (int_stat = IntStatus & IntEnable) != 0.  From
\* "idle" this is the entry of the interrupt, which the NVIC takes while an
\* enabled bit is pending; from "dispatch" it is the next loop iteration.
IrqReadStatus ==
  /\ \/ isr = "idle" /\ IntStatus \cap IntEnable # {}
     \/ isr = "dispatch" /\ todo = {}
  /\ int_stat' = IntStatus \cap IntEnable
  /\ isr' = IF int_stat' = {} THEN "idle" ELSE "clear"
  /\ UNCHANGED <<polled, IntStatus, IntEnable, RxFilterWoLStatus, _pfnIntCbDat, todo,
                 raises, awaiting, credit, lastSetup>>

\* Mutant: the pass dispatches every pending bit, not only enabled ones.
IrqClearPending ==
  /\ isr = "clear"
  /\ IntStatus' = IntStatus \ int_stat
  /\ todo' = IntStatus
  /\ isr' = "dispatch"
  /\ UNCHANGED <<polled, IntEnable, RxFilterWoLStatus, _pfnIntCbDat, int_stat, raises,
                 awaiting, credit, lastSetup>>

\* Mutant: the IntClear write is left out of the loop body.
IrqClearSkipped ==
  /\ isr = "clear"
  /\ todo' = int_stat
  /\ isr' = "dispatch"
  /\ UNCHANGED <<polled, IntStatus, IntEnable, RxFilterWoLStatus, _pfnIntCbDat,
                 int_stat, raises, awaiting, credit, lastSetup>>

\* LPC_EMAC->IntClear = int_stat.
IrqClear ==
  /\ isr = "clear"
  /\ IntStatus' = IntStatus \ int_stat
  /\ todo' = int_stat
  /\ isr' = "dispatch"
  /\ UNCHANGED <<polled, IntEnable, RxFilterWoLStatus, _pfnIntCbDat, int_stat, raises,
                 awaiting, credit, lastSetup>>

\* Mutant: the callback loop stops at n < 7, so TX done is cleared and
\* never dispatched.
IrqDispatchBelow7 ==
  /\ isr = "dispatch"
  /\ todo # {}
  /\ LET n == Min(todo) IN
       /\ todo' = todo \ {n}
       /\ awaiting' = IF n = 7 THEN awaiting ELSE awaiting \ {n}
       /\ RxFilterWoLStatus' = IF n = 9 /\ _pfnIntCbDat[9] # NULL
                                 THEN FALSE ELSE RxFilterWoLStatus
       /\ credit' = IF _pfnIntCbDat[n] # NULL
                       THEN [credit EXCEPT ![n] = Max({@ - 1, -1})] ELSE credit
  /\ UNCHANGED <<polled, IntStatus, IntEnable, _pfnIntCbDat, isr, int_stat, raises,
                 lastSetup>>

\* Mutant: IntClear is written again after the callback, as when the clear
\* is moved below the dispatch.
IrqDispatchClearsAfter ==
  /\ isr = "dispatch"
  /\ todo # {}
  /\ LET n == Min(todo) IN
       /\ todo' = todo \ {n}
       /\ IntStatus' = IntStatus \ {n}
       /\ awaiting' = awaiting \ {n}
       /\ RxFilterWoLStatus' = IF n = 9 /\ _pfnIntCbDat[9] # NULL
                                 THEN FALSE ELSE RxFilterWoLStatus
       /\ credit' = IF _pfnIntCbDat[n] # NULL
                       THEN [credit EXCEPT ![n] = Max({@ - 1, -1})] ELSE credit
  /\ UNCHANGED <<polled, IntEnable, _pfnIntCbDat, isr, int_stat, raises, lastSetup>>

\* The next ordinal of int_stat in the order 0..7, 8, 9: its callback, if
\* installed, is called (for 9 after RxFilterWoLClear); either way this
\* pass is done with the event.
IrqDispatch ==
  /\ isr = "dispatch"
  /\ todo # {}
  /\ LET n == Min(todo) IN
       /\ todo' = todo \ {n}
       /\ awaiting' = awaiting \ {n}
       /\ RxFilterWoLStatus' = IF n = 9 /\ _pfnIntCbDat[9] # NULL
                                 THEN FALSE ELSE RxFilterWoLStatus
       /\ credit' = IF _pfnIntCbDat[n] # NULL
                       THEN [credit EXCEPT ![n] = Max({@ - 1, -1})] ELSE credit
  /\ UNCHANGED <<polled, IntStatus, IntEnable, _pfnIntCbDat, isr, int_stat, raises,
                 lastSetup>>

(***************************************************************************)
(* The hardware sets an event's status bit (a wakeup also latches its      *)
(* receive-filter cause).  Setting a bit that is set changes nothing.      *)
(***************************************************************************)
HwRaise(n) ==
  /\ raises < MaxRaises
  /\ raises' = raises + 1
  /\ IntStatus' = IntStatus \cup {n}
  /\ awaiting' = awaiting \cup {n}
  /\ credit' = [credit EXCEPT ![n] = @ + 1]
  /\ RxFilterWoLStatus' = (RxFilterWoLStatus \/ n = 9)
  /\ UNCHANGED <<polled, IntEnable, _pfnIntCbDat, isr, int_stat, todo, lastSetup>>

Next ==
  \/ \E m \in Masks, f \in Callbacks \cup {NULL} : EMAC_SetupIntCBS(m, f)
  \/ \E m \in Masks, enable \in BOOLEAN : EMAC_IntCmd(m, enable)
  \/ \E n \in Events : EMAC_IntGetStatus(n)
  \/ IntGetStatusClear
  \/ EMAC_GetWoLStatus
  \/ IrqReadStatus \/ IrqClear \/ IrqDispatch
  \/ \E n \in Events : HwRaise(n)

\* The NVIC enters the handler while an enabled event is pending and the
\* handler runs to completion; a call the user started returns.  The user
\* owes no new call and the hardware no event.
Fairness ==
  /\ WF_vars(IrqReadStatus) /\ WF_vars(IrqClear) /\ WF_vars(IrqDispatch)
  /\ WF_vars(IntGetStatusClear)

Spec == Init /\ [][Next]_vars /\ Fairness

-----------------------------------------------------------------------------
TypeOK ==
  /\ IntStatus \subseteq Ordinals /\ IntEnable \subseteq Ordinals
  /\ RxFilterWoLStatus \in BOOLEAN
  /\ _pfnIntCbDat \in [Ordinals -> Callbacks \cup {NULL}]
  /\ isr \in {"idle", "clear", "dispatch"}
  /\ int_stat \subseteq Ordinals /\ todo \subseteq int_stat
  /\ raises \in 0 .. MaxRaises /\ awaiting \subseteq Ordinals
  /\ polled \subseteq Ordinals /\ Cardinality(polled) <= 1
  /\ credit \in [Ordinals -> -MaxRaises .. MaxRaises]
  /\ lastSetup \in (SUBSET Ordinals) \X (Callbacks \cup {NULL})

(***************************************************************************)
(* Every raised event that stays enabled and has a callback installed      *)
(* reaches its callback: the handler never clears a pending bit without    *)
(* dispatching it, also when the hardware raises events between its read   *)
(* of IntStatus, its write of IntClear and its callbacks.                  *)
(***************************************************************************)
Handled(n) == n \notin awaiting \/ n \notin IntEnable \/ _pfnIntCbDat[n] = NULL

EveryEventHandled == \A n \in Events : ~Handled(n) ~> Handled(n)

(***************************************************************************)
(* Spec section 8: the callbacks of a pending batch fire once each.  No    *)
(* callback runs without a raise of its event to answer: the handler's     *)
(* IntClear of exactly int_stat, before its callbacks, keeps the next pass *)
(* of the while loop from seeing the same status bits again, also when     *)
(* events arrive in between and when the user polls the same type with     *)
(* EMAC_IntGetStatus around the handler.                                   *)
(***************************************************************************)
NoCallbackWithoutRaise == \A n \in Ordinals : credit[n] >= 0

(***************************************************************************)
(* The handler gives the processor back: once the hardware stops raising   *)
(* events, the while loop of EMAC_StandardIRQHandler ends and the          *)
(* foreground runs again.  The loop re-reads IntStatus & IntEnable after   *)
(* every pass, so it ends only because the pass's IntClear = int_stat      *)
(* removed the bits it dispatched; a pass that leaves them set spins in    *)
(* interrupt context forever.                                              *)
(***************************************************************************)
HandlerReturns == isr # "idle" ~> isr = "idle"

(***************************************************************************)
(* Spec section 4.4: a registration targets exactly one ordinal, and when  *)
(* the mask has bits among 0..7 the first of them wins.  Checked against   *)
(* the last EMAC_SetupIntCBS call.                                         *)
(***************************************************************************)
SetupTargetsFirstOrdinal ==
  LET m == lastSetup[1] IN
    m \cap 0 .. 7 # {} => _pfnIntCbDat[Min(m \cap 0 .. 7)] = lastSetup[2]
=============================================================================
